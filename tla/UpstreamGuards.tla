--------------------------- MODULE UpstreamGuards ---------------------------
(***************************************************************************)
(* The two guards of an upstream call, one inside the other: the circuit   *)
(* breaker of a provider and model (providerModelCircuitBreaker.ts), asked *)
(* before the call and told its outcome, and the count of calls under way  *)
(* (GatewayCounters), taken after the one and returned after the other.    *)
(* The breaker is a record in Redis that is read by one command and        *)
(* written by another, or an entry in each worker's memory.  The times a   *)
(* record holds are abstracted to whether they have passed.                *)
(***************************************************************************)
EXTENDS GatewayCounters

CONSTANT Threshold    \* TIMEOUT_FAILURE_THRESHOLD

ASSUME ThresholdAssumption == Threshold \in Nat \ {0}

VARIABLES
    up,        \* the provider still answers
    circuit,   \* the Redis record
    states,    \* per worker, its record in memory
    at,        \* where a request is between the guards
    read       \* the count a request has read from Redis

breaker == <<up, circuit, states, at, read>>
guards == <<vars, breaker>>

(* A count that has not reached the threshold has openUntil = 0, "never".  *)
Empty == [failures |-> 0, openUntil |-> "never"]
IsOpen(state) == state.openUntil = "later"

(* A further timeout; what lies above the threshold makes no difference.   *)
OneMore(n) == IF n + 1 >= Threshold THEN Threshold ELSE n + 1
Counting(n) == [failures |-> n, openUntil |-> IF n >= Threshold THEN "later" ELSE "never"]

GInit ==
    /\ Init
    /\ up = TRUE
    /\ circuit = Empty
    /\ states = [w \in Workers |-> Empty]
    /\ at = [r \in Requests |-> "ask"]
    /\ read = [r \in Requests |-> 0]

Go(r, p) == at' = [at EXCEPT ![r] = p]

(* A degraded provider is passed over while there is another; when all are *)
(* degraded it is tried all the same.                                      *)
Choose(r, degraded) == \E p \in {"try"} \cup (IF degraded THEN {"ask"} ELSE {}) : Go(r, p)

-----------------------------------------------------------------------------
(* isProviderModelDegraded *)
AskRedis(r) ==
    /\ redis /\ pc[r] = "idle" /\ at[r] = "ask"
    /\ IF circuit.openUntil = "past" THEN Go(r, "forget") ELSE Choose(r, IsOpen(circuit))
    /\ UNCHANGED <<vars, up, circuit, states, read>>

(* The record was over when it was read; it may be another one by now.     *)
Forget(r) ==
    /\ at[r] = "forget"
    /\ circuit' = Empty
    /\ Go(r, "try")
    /\ UNCHANGED <<vars, up, states, read>>

(* A record that is not open is deleted, also one that is still counting.  *)
AskMemory(r) ==
    LET w == WorkerOf[r] IN
    /\ ~redis /\ pc[r] = "idle" /\ at[r] = "ask"
    /\ states' = [states EXCEPT ![w] = IF IsOpen(@) THEN @ ELSE Empty]
    /\ Choose(r, IsOpen(states[w]))
    /\ UNCHANGED <<vars, up, circuit, read>>

-----------------------------------------------------------------------------
(* The call holds a slot of the counter; turned away, it is over.          *)
Acquire(r) ==
    /\ at[r] = "try"
    /\ Incr(r) \/ AcquireWithoutRedis(r)
    /\ IF pc'[r] = "idle" THEN Go(r, "ask") ELSE UNCHANGED at
    /\ UNCHANGED <<up, circuit, states, read>>

TurnAway(r) ==
    /\ Rollback(r)
    /\ Go(r, "ask")
    /\ UNCHANGED <<up, circuit, states, read>>

Release(r) ==
    /\ at[r] = "release"
    /\ Decr(r) \/ ReleaseWithoutRedis(r)
    /\ Go(r, "ask")
    /\ UNCHANGED <<up, circuit, states, read>>

Clear(r) == Del(r) /\ UNCHANGED breaker

Calling(r) == pc[r] = "running" /\ at[r] = "try"

-----------------------------------------------------------------------------
(* recordProviderModelSuccess; the answer is worked on in between.         *)
Answer(r) ==
    /\ up /\ Calling(r)
    /\ Go(r, "succeed")
    /\ UNCHANGED <<vars, up, circuit, states, read>>

RecordSuccess(r) ==
    /\ at[r] = "succeed"
    /\ IF redis THEN circuit' = Empty ELSE UNCHANGED circuit
    /\ states' = [states EXCEPT ![WorkerOf[r]] = Empty]
    /\ Go(r, "release")
    /\ UNCHANGED <<vars, up, read>>

(* recordProviderModelTimeout: GET, and SET of what was read plus one.     *)
ReadTimeout(r) ==
    /\ redis /\ Calling(r)
    /\ read' = [read EXCEPT ![r] = circuit.failures]
    /\ Go(r, "write")
    /\ UNCHANGED <<vars, up, circuit, states>>

(* Mistake: only a record that is open is counted on. *)
WriteTimeoutAfresh(r) ==
    /\ at[r] = "write"
    /\ circuit' = Counting(OneMore(IF IsOpen(circuit) THEN read[r] ELSE 0))
    /\ states' = [states EXCEPT ![WorkerOf[r]] = circuit']
    /\ read' = [read EXCEPT ![r] = 0]
    /\ Go(r, "release")
    /\ UNCHANGED <<vars, up>>

WriteTimeout(r) ==
    /\ at[r] = "write"
    /\ circuit' = Counting(OneMore(read[r]))
    /\ states' = [states EXCEPT ![WorkerOf[r]] = circuit']
    /\ read' = [read EXCEPT ![r] = 0]
    /\ Go(r, "release")
    /\ UNCHANGED <<vars, up>>

TimeoutInMemory(r) ==
    LET w == WorkerOf[r] IN
    /\ ~redis /\ Calling(r)
    /\ states' = [states EXCEPT ![w] = Counting(OneMore(@.failures))]
    /\ Go(r, "release")
    /\ UNCHANGED <<vars, up, circuit, read>>

-----------------------------------------------------------------------------
(* The cooldown passes; Redis drops the record a moment after openUntil.   *)
Lapse ==
    /\ \/ /\ IsOpen(circuit) /\ circuit' = [circuit EXCEPT !.openUntil = "past"]
          /\ UNCHANGED states
       \/ \E w \in Workers :
             /\ IsOpen(states[w]) /\ states' = [states EXCEPT ![w].openUntil = "past"]
             /\ UNCHANGED circuit
    /\ UNCHANGED <<vars, up, at, read>>

Expire ==
    /\ circuit.openUntil = "past"
    /\ circuit' = Empty
    /\ UNCHANGED <<vars, up, states, at, read>>

(* From here on the provider only times out.                               *)
GoDown ==
    /\ up /\ up' = FALSE
    /\ UNCHANGED <<vars, circuit, states, at, read>>

GNext ==
    \/ \E r \in Requests :
          \/ AskRedis(r) \/ Forget(r) \/ AskMemory(r)
          \/ Acquire(r) \/ TurnAway(r) \/ Release(r) \/ Clear(r)
          \/ Answer(r) \/ RecordSuccess(r)
          \/ ReadTimeout(r) \/ WriteTimeout(r) \/ TimeoutInMemory(r)
    \/ Lapse \/ Expire \/ GoDown

GSpec == GInit /\ [][GNext]_guards

-----------------------------------------------------------------------------
(* With Redis a provider that has stopped answering is found out again and *)
(* again, as long as calls are made that time out: reports that overwrite  *)
(* each other's count, late successes and late deletions may put it off    *)
(* but not for ever.  (In memory it may be put off for ever: AskMemory.)   *)
TimeoutsDegrade ==
    /\ redis
    /\ <>[]~up
    /\ []<><<\E r \in Requests : WriteTimeout(r)>>_guards
    => []<>IsOpen(circuit)
=============================================================================
