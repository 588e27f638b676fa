----------------------- MODULE GatewayCountersProofs -----------------------
(* Proofs about the concurrency counters, for any workers, requests and    *)
(* limit, as long as no command fails and no worker restarts.              *)
EXTENDS GatewayCounters, FiniteSetTheorems, TLAPS

Counted == In({"running", "rollback"})

LEMMA FiniteSubsets ==
    /\ IsFiniteSet(Counted) /\ Cardinality(Counted) \in Nat
    /\ \A w \in Workers : IsFiniteSet(RunningOn(w)) /\ Cardinality(RunningOn(w)) \in Nat
<1>1. Counted \subseteq Requests /\ \A w \in Workers : RunningOn(w) \subseteq Requests
  BY DEF Counted, In, RunningOn
<1>2. QED
  BY <1>1, FS_Subset, FS_CardinalityType, RequestsAssumption

(* A request that moves between phases joins or leaves those counted.      *)
LEMMA Moves ==
    ASSUME TypeOK, NEW r \in Requests, NEW phase \in Phases, Goto(r, phase)
    PROVE  /\ pc' \in [Requests -> Phases]
           /\ pc'[r] = phase /\ \A x \in Requests : x # r => pc'[x] = pc[x]
  BY DEF TypeOK, Goto

LEMMA Joins ==
    ASSUME TypeOK, NEW r \in Requests, NEW phase \in {"running", "rollback"},
           pc[r] \notin {"running", "rollback"}, Goto(r, phase)
    PROVE  Cardinality(Counted') = Cardinality(Counted) + 1
<1>1. pc'[r] = phase /\ \A x \in Requests : x # r => pc'[x] = pc[x]
  BY Moves DEF Phases
<1>2. Counted' = Counted \cup {r} /\ r \notin Counted
  BY <1>1 DEF Counted, In
<1>3. QED
  BY <1>2, FiniteSubsets, FS_AddElement

LEMMA Leaves ==
    ASSUME TypeOK, NEW r \in Requests, NEW phase \in {"idle", "emptying"},
           pc[r] \in {"running", "rollback"}, Goto(r, phase)
    PROVE  Cardinality(Counted') = Cardinality(Counted) - 1
<1>1. pc'[r] = phase /\ \A x \in Requests : x # r => pc'[x] = pc[x]
  BY Moves DEF Phases
<1>2. Counted' = Counted \ {r} /\ r \in Counted
  BY <1>1 DEF Counted, In
<1>3. QED
  BY <1>2, FiniteSubsets, FS_RemoveElement

(* The counter in memory moves with the requests of its worker.            *)
LEMMA MemoryMoves ==
    ASSUME TypeOK, MemoryIsExact, ~redis, redis' = redis, NEW r \in Requests,
           \/ pc[r] = "idle" /\ AcquireMemory(r)
           \/ pc[r] = "running" /\ ReleaseMemory(r)
    PROVE  /\ memory' \in [Workers -> Nat] /\ pc' \in [Requests -> Phases]
           /\ MemoryIsExact'
<1> DEFINE v == WorkerOf[r]
<1>1. v \in Workers /\ memory \in [Workers -> Nat] /\ pc \in [Requests -> Phases]
  BY RequestsAssumption DEF TypeOK
<1>2. \A w \in Workers : memory[w] = Cardinality(RunningOn(w)) /\ memory[w] <= Limit
  BY DEF MemoryIsExact
<1>3. CASE pc[r] = "idle" /\ memory[v] >= Limit /\ AcquireMemory(r)
  <2>1. Goto(r, "idle") /\ memory' = memory
    BY <1>3 DEF AcquireMemory
  <2>2. pc' = pc
    BY <1>1, <1>3, <2>1 DEF Goto
  <2>3. QED
    BY <1>1, <1>2, <2>1, <2>2 DEF MemoryIsExact, RunningOn
<1>4. CASE pc[r] = "idle" /\ ~(memory[v] >= Limit) /\ AcquireMemory(r)
  <2>1. Goto(r, "running") /\ memory' = [memory EXCEPT ![v] = @ + 1]
    BY <1>4 DEF AcquireMemory
  <2>2. /\ pc' \in [Requests -> Phases] /\ pc'[r] = "running"
        /\ \A x \in Requests : x # r => pc'[x] = pc[x]
    BY <2>1, Moves DEF Phases
  <2>3. RunningOn(v)' = RunningOn(v) \cup {r} /\ r \notin RunningOn(v)
    BY <1>4, <2>2 DEF RunningOn
  <2>4. \A w \in Workers : w # v => RunningOn(w)' = RunningOn(w)
    BY <1>4, <2>2 DEF RunningOn
  <2>5. Cardinality(RunningOn(v)') = Cardinality(RunningOn(v)) + 1
    BY <1>1, <2>3, FiniteSubsets, FS_AddElement
  <2>6. ASSUME NEW w \in Workers
        PROVE  memory'[w] = Cardinality(RunningOn(w)') /\ memory'[w] <= Limit
    BY <1>1, <1>2, <1>4, <2>1, <2>4, <2>5, LimitAssumption
  <2>7. QED
    BY <1>1, <2>1, <2>2, <2>6 DEF MemoryIsExact
<1>5. CASE pc[r] = "running" /\ ReleaseMemory(r)
  <2>1. Goto(r, "idle") /\ memory' = [memory EXCEPT ![v] = IF @ <= 1 THEN 0 ELSE @ - 1]
    BY <1>5 DEF ReleaseMemory
  <2>2. /\ pc' \in [Requests -> Phases] /\ pc'[r] = "idle"
        /\ \A x \in Requests : x # r => pc'[x] = pc[x]
    BY <2>1, Moves DEF Phases
  <2>3. RunningOn(v)' = RunningOn(v) \ {r} /\ r \in RunningOn(v)
    BY <1>5, <2>2 DEF RunningOn
  <2>4. \A w \in Workers : w # v => RunningOn(w)' = RunningOn(w)
    BY <1>5, <2>2 DEF RunningOn
  <2>5. Cardinality(RunningOn(v)') = Cardinality(RunningOn(v)) - 1
    <3>1. IsFiniteSet(RunningOn(v))
      BY <1>1, FiniteSubsets
    <3>2. QED
      BY <2>3, <3>1, FS_RemoveElement
  <2>6. Cardinality(RunningOn(v)) # 0
    BY <1>1, <2>3, FiniteSubsets, FS_EmptySet
  <2>7. memory[v] \in Nat \ {0}
    BY <1>1, <1>2, <2>6
  <2>8. memory' \in [Workers -> Nat] /\ memory'[v] = memory[v] - 1
        /\ \A w \in Workers : w # v => memory'[w] = memory[w]
    <3>1. (IF memory[v] <= 1 THEN 0 ELSE memory[v] - 1) = memory[v] - 1
      BY <2>7
    <3>2. QED
      BY <1>1, <2>1, <2>7, <3>1
  <2>9. ASSUME NEW w \in Workers
        PROVE  memory'[w] = Cardinality(RunningOn(w)') /\ memory'[w] <= Limit
    BY <1>1, <1>2, <2>4, <2>5, <2>7, <2>8, LimitAssumption
  <2>10. QED
    BY <2>2, <2>8, <2>9 DEF MemoryIsExact
<1>6. QED
  BY <1>3, <1>4, <1>5

-----------------------------------------------------------------------------
LEMMA InitHolds == ASSUME Init PROVE CountersInv
<1>1. /\ \A w \in Workers : RunningOn(w) = {}
      /\ In({"running", "rollback"}) = {}
  BY DEF Init, RunningOn, In
<1>2. Cardinality({}) = 0 /\ 0 <= Limit
  BY FS_EmptySet, LimitAssumption
<1>3. TypeOK
  BY DEF Init, TypeOK, Phases
<1>4. MemoryIsExact /\ NoPhantomSlots
  BY <1>1, <1>2 DEF Init, MemoryIsExact, NoPhantomSlots
<1>5. QED
  BY <1>3, <1>4 DEF CountersInv, Init

LEMMA StepKeeps == ASSUME CountersInv, [Next]_vars PROVE CountersInv'
<1>1. /\ TypeOK /\ MemoryIsExact /\ counter <= Cardinality(Counted) /\ counter \in Int
      /\ ~redis => counter = 0
  BY DEF CountersInv, NoPhantomSlots, Counted, TypeOK
<1>2. Cardinality(Counted) \in Nat
  BY FiniteSubsets
<1>3. CASE UNCHANGED vars
  BY <1>3 DEF CountersInv, vars, TypeOK, MemoryIsExact, NoPhantomSlots, RunningOn, In
<1>4. ASSUME NEW r \in Requests, AcquireWithoutRedis(r) \/ ReleaseWithoutRedis(r)
      PROVE  CountersInv'
  <2>1. /\ ~redis /\ UNCHANGED <<redis, counter, faults>>
        /\ \/ pc[r] = "idle" /\ AcquireMemory(r)
           \/ pc[r] = "running" /\ ReleaseMemory(r)
    BY <1>4 DEF AcquireWithoutRedis, ReleaseWithoutRedis
  <2>2. /\ memory' \in [Workers -> Nat] /\ pc' \in [Requests -> Phases]
        /\ MemoryIsExact'
    BY <1>1, <2>1, MemoryMoves
  <2>3. TypeOK'
    BY <1>1, <2>1, <2>2 DEF TypeOK
  <2>4. Cardinality(Counted') \in Nat
    <3>1. Counted' \subseteq Requests
      BY DEF Counted, In
    <3>2. QED
      BY <3>1, FS_Subset, FS_CardinalityType, RequestsAssumption
  <2>5. counter' = 0 /\ ~redis'
    BY <1>1, <2>1
  <2>6. QED
    BY <2>2, <2>3, <2>4, <2>5 DEF CountersInv, NoPhantomSlots, Counted
(* With Redis the count of a request's command and its phase move together.*)
<1>5. ASSUME NEW r \in Requests, Incr(r) \/ Rollback(r) \/ Decr(r) \/ Del(r)
      PROVE  CountersInv'
  <2>1. redis /\ UNCHANGED <<redis, memory, faults>>
    BY <1>5 DEF Incr, Rollback, Decr, Del
  <2>2. CASE Incr(r)
    <3>1. PICK phase \in {"running", "rollback"} : Goto(r, phase)
      BY <2>2 DEF Incr
    <3>2. pc[r] = "idle" /\ counter' = counter + 1
      BY <2>2 DEF Incr
    <3>3. Cardinality(Counted') = Cardinality(Counted) + 1
      BY <1>1, <3>1, <3>2, Joins
    <3>4. pc' \in [Requests -> Phases]
      BY <1>1, <3>1, Moves DEF Phases
    <3>5. QED
      BY <1>1, <1>2, <2>1, <3>2, <3>3, <3>4
         DEF CountersInv, TypeOK, MemoryIsExact, NoPhantomSlots, Counted
  <2>3. CASE Rollback(r) \/ Decr(r)
    <3>1. PICK phase \in {"idle", "emptying"} : Goto(r, phase)
      BY <2>3 DEF Rollback, Decr
    <3>2. pc[r] \in {"running", "rollback"} /\ counter' = counter - 1
      BY <2>3 DEF Rollback, Decr
    <3>3. Cardinality(Counted') = Cardinality(Counted) - 1
      BY <1>1, <3>1, <3>2, Leaves
    <3>4. pc' \in [Requests -> Phases]
      BY <1>1, <3>1, Moves DEF Phases
    <3>5. QED
      BY <1>1, <1>2, <2>1, <3>2, <3>3, <3>4
         DEF CountersInv, TypeOK, MemoryIsExact, NoPhantomSlots, Counted
  <2>4. CASE Del(r)
    <3>1. pc[r] = "emptying" /\ Goto(r, "idle") /\ counter' = 0
      BY <2>4 DEF Del
    <3>2. /\ pc' \in [Requests -> Phases] /\ pc'[r] = "idle"
          /\ \A x \in Requests : x # r => pc'[x] = pc[x]
      BY <1>1, <3>1, Moves DEF Phases
    <3>3. Counted' = Counted
      BY <3>1, <3>2 DEF Counted, In
    <3>4. QED
      BY <1>1, <1>2, <2>1, <3>1, <3>2, <3>3
         DEF CountersInv, TypeOK, MemoryIsExact, NoPhantomSlots, Counted
  <2>5. QED
    BY <1>5, <2>2, <2>3, <2>4
<1>6. QED
  BY <1>3, <1>4, <1>5 DEF Next

(* For any workers, requests and limit, while no command fails: the memory *)
(* counters are exact, and Redis counts no request that has let go.        *)
THEOREM CountersInvariant == Spec => []CountersInv
<1>1. Init => CountersInv
  BY InitHolds
<1>2. CountersInv /\ [Next]_vars => CountersInv'
  BY StepKeeps
<1>3. QED
  BY <1>1, <1>2, PTL DEF Spec

(* So a request is never turned away for one that has let go of its slot.  *)
THEOREM NoPhantomSlotsAlways == Spec => []NoPhantomSlots
<1>1. CountersInv => NoPhantomSlots
  BY DEF CountersInv
<1>2. QED
  BY <1>1, CountersInvariant, PTL

(* And without Redis no worker runs more requests than the limit.          *)
THEOREM MemoryIsExactAlways == Spec => []MemoryIsExact
<1>1. CountersInv => MemoryIsExact
  BY DEF CountersInv
<1>2. QED
  BY <1>1, CountersInvariant, PTL
=============================================================================
