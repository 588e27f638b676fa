------------------------ MODULE UpstreamGuardsProofs ------------------------
(* The breaker around the counter leaves the counter's guarantees alone.   *)
EXTENDS UpstreamGuards, GatewayCountersProofs

(* For any workers, requests, limit and threshold: the calls that pass the *)
(* breaker acquire and release as the counter's specification says.        *)
THEOREM GuardsImplementCounters == GSpec => Spec
<1>1. GInit => Init
  BY DEF GInit
<1>2. ASSUME [GNext]_guards PROVE [Next]_vars
  <2>1. CASE UNCHANGED guards
    BY <2>1 DEF guards
  <2>2. ASSUME NEW r \in Requests, AskRedis(r) \/ Forget(r) \/ AskMemory(r)
        PROVE  UNCHANGED vars
    BY <2>2 DEF AskRedis, Forget, AskMemory
  <2>3. ASSUME NEW r \in Requests, Acquire(r) \/ TurnAway(r) \/ Release(r) \/ Clear(r)
        PROVE  Next
    BY <2>3 DEF Acquire, TurnAway, Release, Clear, Next
  <2>4. ASSUME NEW r \in Requests, Answer(r) \/ RecordSuccess(r) \/ ReadTimeout(r)
                                     \/ WriteTimeout(r) \/ TimeoutInMemory(r)
        PROVE  UNCHANGED vars
    BY <2>4 DEF Answer, RecordSuccess, ReadTimeout, WriteTimeout, TimeoutInMemory
  <2>5. CASE Lapse \/ Expire \/ GoDown
    BY <2>5 DEF Lapse, Expire, GoDown
  <2>6. QED
    BY <1>2, <2>1, <2>2, <2>3, <2>4, <2>5 DEF GNext
<1>3. QED
  BY <1>1, <1>2, PTL DEF GSpec, Spec

(* Inside the breaker, too, Redis counts no request that has let go.       *)
THEOREM GuardedCallsLeaveNoPhantoms == GSpec => []NoPhantomSlots
  BY GuardsImplementCounters, NoPhantomSlotsAlways, PTL

(* And without Redis no worker runs more calls than the limit.             *)
THEOREM GuardedMemoryIsExact == GSpec => []MemoryIsExact
  BY GuardsImplementCounters, MemoryIsExactAlways, PTL
=============================================================================
