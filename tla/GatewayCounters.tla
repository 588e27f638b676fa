--------------------------- MODULE GatewayCounters ---------------------------
(***************************************************************************)
(* One concurrency limit of the gateway (gateway/concurrency.ts): requests *)
(* of an API key, heavy responses of a key, or all upstream calls.  With   *)
(* Redis the workers of a cluster count in one Redis key; without it, or   *)
(* when a command fails, each worker counts in its memory.  A step is one  *)
(* Redis command: other requests run between the commands of a call.  What *)
(* a call does between its commands is local, so it belongs to the step of *)
(* the command before.                                                     *)
(***************************************************************************)
EXTENDS Integers, FiniteSets

CONSTANTS
    Workers,    \* API processes
    Requests,   \* connections; one request after the other on each
    WorkerOf,   \* the process that serves a connection
    Limit,      \* TOKFAI_MAX_CONCURRENCY_PER_KEY or its like
    MaxFaults   \* bound: how many commands fail in a faulty run

ASSUME RequestsAssumption == IsFiniteSet(Requests) /\ WorkerOf \in [Requests -> Workers]
ASSUME LimitAssumption == Limit \in Nat \ {0}

VARIABLES
    redis,      \* getRedisClient() is not null
    counter,    \* the value of the Redis key, 0 when it is absent
    memory,     \* per worker, its counter in memory
    pc,         \* where a request is
    faults      \* failures so far: bound

vars == <<redis, counter, memory, pc, faults>>

(* "rollback": INCR went over the limit, the DECR is to come; "emptying":  *)
(* DECR reached zero, the DEL is to come.                                  *)
Phases == {"idle", "rollback", "running", "emptying"}

Init ==
    /\ redis \in BOOLEAN
    /\ counter = 0
    /\ memory = [w \in Workers |-> 0]
    /\ pc = [r \in Requests |-> "idle"]
    /\ faults = 0

Goto(r, phase) == pc' = [pc EXCEPT ![r] = phase]

-----------------------------------------------------------------------------
(* Mistake: a release deletes the entry whatever it counts. *)
ReleaseMemoryDeletes(r) ==
    /\ Goto(r, "idle")
    /\ memory' = [memory EXCEPT ![WorkerOf[r]] = 0]

(* The counter in memory; there is no await between the test and the set.  *)
AcquireMemory(r) ==
    LET w == WorkerOf[r] IN
    IF memory[w] >= Limit
    THEN Goto(r, "idle") /\ UNCHANGED memory
    ELSE Goto(r, "running") /\ memory' = [memory EXCEPT ![w] = @ + 1]

ReleaseMemory(r) ==
    /\ Goto(r, "idle")
    /\ memory' = [memory EXCEPT ![WorkerOf[r]] = IF @ <= 1 THEN 0 ELSE @ - 1]

AcquireWithoutRedis(r) ==
    /\ ~redis /\ pc[r] = "idle"
    /\ AcquireMemory(r)
    /\ UNCHANGED <<redis, counter, faults>>

ReleaseWithoutRedis(r) ==
    /\ ~redis /\ pc[r] = "running"
    /\ ReleaseMemory(r)
    /\ UNCHANGED <<redis, counter, faults>>

-----------------------------------------------------------------------------
(* tryIncrementCounter and decrementCounter, a command at a time. *)
(* Mistake: what is turned away stays counted. *)
IncrWithoutRollback(r) ==
    /\ redis /\ pc[r] = "idle"
    /\ counter' = counter + 1
    /\ Goto(r, IF counter + 1 > Limit THEN "idle" ELSE "running")
    /\ UNCHANGED <<redis, memory, faults>>

Incr(r) ==
    /\ redis /\ pc[r] = "idle"
    /\ counter' = counter + 1
    /\ Goto(r, IF counter + 1 > Limit THEN "rollback" ELSE "running")
    /\ UNCHANGED <<redis, memory, faults>>

Rollback(r) ==
    /\ redis /\ pc[r] = "rollback"
    /\ counter' = counter - 1
    /\ Goto(r, "idle")
    /\ UNCHANGED <<redis, memory, faults>>

Decr(r) ==
    /\ redis /\ pc[r] = "running"
    /\ counter' = counter - 1
    /\ Goto(r, IF counter - 1 <= 0 THEN "emptying" ELSE "idle")
    /\ UNCHANGED <<redis, memory, faults>>

Del(r) ==
    /\ redis /\ pc[r] = "emptying"
    /\ counter' = 0
    /\ Goto(r, "idle")
    /\ UNCHANGED <<redis, memory, faults>>

Next ==
    \E r \in Requests :
        \/ AcquireWithoutRedis(r) \/ ReleaseWithoutRedis(r)
        \/ Incr(r) \/ Rollback(r) \/ Decr(r) \/ Del(r)

Spec == Init /\ [][Next]_vars

-----------------------------------------------------------------------------
(* A command throws, whether or not Redis executed it; the call falls back *)
(* to memory, also for a slot that was taken in Redis.                     *)
Fault == redis /\ faults < MaxFaults /\ faults' = faults + 1 /\ UNCHANGED redis

IncrFails(r) ==
    /\ Fault /\ pc[r] = "idle"
    /\ counter' \in {counter, counter + 1}
    /\ AcquireMemory(r)

RollbackFails(r) ==
    /\ Fault /\ pc[r] = "rollback"
    /\ counter' \in {counter, counter - 1}
    /\ AcquireMemory(r)

DecrFails(r) ==
    /\ Fault /\ pc[r] = "running"
    /\ counter' \in {counter, counter - 1}
    /\ ReleaseMemory(r)

DelFails(r) ==
    /\ Fault /\ pc[r] = "emptying"
    /\ counter' \in {counter, 0}
    /\ ReleaseMemory(r)

(* A worker is killed and restarted: its requests and its memory are gone, *)
(* what they counted in Redis is not, and the key has no expiry.           *)
Restart(w) ==
    /\ Fault
    /\ pc' = [r \in Requests |-> IF WorkerOf[r] = w THEN "idle" ELSE pc[r]]
    /\ memory' = [memory EXCEPT ![w] = 0]
    /\ UNCHANGED counter

FaultyNext ==
    \/ Next
    \/ \E r \in Requests : IncrFails(r) \/ RollbackFails(r) \/ DecrFails(r) \/ DelFails(r)
    \/ \E w \in Workers : Restart(w)

FaultySpec == Init /\ [][FaultyNext]_vars

-----------------------------------------------------------------------------
TypeOK ==
    /\ redis \in BOOLEAN
    /\ counter \in Int
    /\ memory \in [Workers -> Nat]
    /\ pc \in [Requests -> Phases]
    /\ faults \in Nat

In(phases) == {r \in Requests : pc[r] \in phases}

RunningOn(w) == {r \in Requests : WorkerOf[r] = w /\ pc[r] = "running"}

(* Without Redis a worker counts exactly the requests it runs, and runs    *)
(* no more than the limit.                                                 *)
MemoryIsExact ==
    ~redis => \A w \in Workers :
                 memory[w] = Cardinality(RunningOn(w)) /\ memory[w] <= Limit

(* Redis never counts a request that has let go of its slot: a request is  *)
(* turned away only for others that run or are being turned away.          *)
NoPhantomSlots == counter <= Cardinality(In({"running", "rollback"}))

CountersInv ==
    /\ TypeOK /\ MemoryIsExact /\ NoPhantomSlots
    /\ ~redis => counter = 0

(* A failing command or a restart must not take the API down: with no      *)
(* request in flight, the next one is let in.                              *)
NobodyIsShutOut == (\A r \in Requests : pc[r] = "idle") => counter < Limit
=============================================================================
