----------------------------- MODULE HeavyQueue -----------------------------
(***************************************************************************)
(* Admission of heavy /v1/responses requests: the bounded FIFO queue of    *)
(* gateway/heavyResponsesQueue.ts, the fail-fast counter beside it         *)
(* (gateway/concurrency.ts, in memory), and the part of                    *)
(* lib/executeChatCompletion.ts that takes and releases the permit.  One   *)
(* process, and each call of the queue runs to its end without an await:   *)
(* an action is one such call.  What interleaves is requests, timers,      *)
(* aborts, and the resumption of a request whose promise was resolved.     *)
(***************************************************************************)
EXTENDS Integers, Sequences, FiniteSets, SequencesExt

CONSTANTS
    Keys,               \* limit keys: an API key, or a user
    Requests,           \* connections; one request after the other on each
    KeyOf,              \* the limit key of a connection
    Queueing,           \* the connections with queueEnabled: streams, or all
    ConcurrencyLimit,   \* TOKFAI_HEAVY_RESPONSES_MAX_CONCURRENCY
    MaxWaitersPerKey,   \* TOKFAI_HEAVY_QUEUE_MAX_WAITERS_PER_KEY
    MaxWaitersGlobal    \* TOKFAI_HEAVY_QUEUE_MAX_WAITERS_GLOBAL

ASSUME RequestsAssumption ==
    IsFiniteSet(Requests) /\ KeyOf \in [Requests -> Keys] /\ Queueing \subseteq Requests
ASSUME LimitsAssumption ==
    /\ ConcurrencyLimit \in Nat \ {0}
    /\ MaxWaitersPerKey \in Nat \ {0} /\ MaxWaitersGlobal \in Nat \ {0}

VARIABLES
    pc,                  \* where the executeChatCompletion of a request is
    aborted,             \* requests whose AbortSignal has fired
    armed,               \* waiters with a live timer and abort listener
    buckets,             \* keys of the Map of buckets
    active,              \* bucket.active, 0 for an absent bucket
    waiters,             \* bucket.waiters, <<>> for an absent bucket
    globalWaiterCount,
    inflight             \* heavyResponsesInflight, the fail-fast counter

queueVars == <<armed, buckets, active, waiters, globalWaiterCount>>
vars == <<pc, aborted, queueVars, inflight>>

AtLeast0(n) == IF n < 0 THEN 0 ELSE n

(* "granted": the promise is resolved with a permit, the request has not   *)
(* run since; "running": it went on with its permit.                       *)
Phases == {"ready", "waiting", "granted", "running"}

Init ==
    /\ pc = [r \in Requests |-> "ready"]
    /\ aborted = {}
    /\ armed = {}
    /\ buckets = {}
    /\ active = [k \in Keys |-> 0]
    /\ waiters = [k \in Keys |-> <<>>]
    /\ globalWaiterCount = 0
    /\ inflight = [k \in Keys |-> 0]

-----------------------------------------------------------------------------
(* A request ends: the next one on its connection has a signal of its own. *)
Answered(r) == aborted' = aborted \ {r}

(* The entry checks of acquireHeavyResponsesPermit that end in an error.   *)
RejectAborted(r) ==
    /\ pc[r] = "ready" /\ r \in Queueing /\ r \in aborted
    /\ Answered(r)
    /\ UNCHANGED <<pc, queueVars, inflight>>

AcquireNow(r) ==
    LET k == KeyOf[r] IN
    /\ pc[r] = "ready" /\ r \in Queueing /\ r \notin aborted
    /\ active[k] < ConcurrencyLimit
    /\ buckets' = buckets \cup {k}
    /\ active' = [active EXCEPT ![k] = @ + 1]
    /\ pc' = [pc EXCEPT ![r] = "running"]
    /\ UNCHANGED <<aborted, armed, waiters, globalWaiterCount, inflight>>

(* Mistake: the signal is not looked at before the wait. *)
EnqueueUnchecked(r) ==
    LET k == KeyOf[r] IN
    /\ pc[r] = "ready" /\ r \in Queueing
    /\ active[k] >= ConcurrencyLimit
    /\ Len(waiters[k]) < MaxWaitersPerKey
    /\ globalWaiterCount < MaxWaitersGlobal
    /\ waiters' = [waiters EXCEPT ![k] = Append(@, r)]
    /\ globalWaiterCount' = globalWaiterCount + 1
    /\ armed' = armed \cup {r}
    /\ pc' = [pc EXCEPT ![r] = "waiting"]
    /\ UNCHANGED <<aborted, buckets, active, inflight>>

(* A full line is answered 429 and leaves no trace. *)
Enqueue(r) ==
    LET k == KeyOf[r] IN
    /\ pc[r] = "ready" /\ r \in Queueing /\ r \notin aborted
    /\ active[k] >= ConcurrencyLimit
    /\ Len(waiters[k]) < MaxWaitersPerKey
    /\ globalWaiterCount < MaxWaitersGlobal
    /\ waiters' = [waiters EXCEPT ![k] = Append(@, r)]
    /\ globalWaiterCount' = globalWaiterCount + 1
    /\ armed' = armed \cup {r}
    /\ pc' = [pc EXCEPT ![r] = "waiting"]
    /\ UNCHANGED <<aborted, buckets, active, inflight>>

-----------------------------------------------------------------------------
(* Mistake: the bucket is dropped as soon as its line is empty. *)
RemoveWaiterAndBucket(k, r) ==
    LET at == {i \in DOMAIN waiters[k] : waiters[k][i] = r} IN
    IF k \in buckets /\ at # {}
    THEN LET idx == CHOOSE i \in at : \A j \in at : i <= j IN
         /\ waiters' = [waiters EXCEPT ![k] = RemoveAt(@, idx)]
         /\ globalWaiterCount' = AtLeast0(globalWaiterCount - 1)
         /\ buckets' = IF Len(waiters[k]) = 1 THEN buckets \ {k} ELSE buckets
    ELSE UNCHANGED <<waiters, globalWaiterCount, buckets>>

(* settleReject: the waiter leaves its bucket and its promise is rejected. *)
removeWaiterFromBucket(k, r) ==
    LET at == {i \in DOMAIN waiters[k] : waiters[k][i] = r} IN
    IF k \in buckets /\ at # {}
    THEN LET idx == CHOOSE i \in at : \A j \in at : i <= j IN
         /\ waiters' = [waiters EXCEPT ![k] = RemoveAt(@, idx)]
         /\ globalWaiterCount' = AtLeast0(globalWaiterCount - 1)
         /\ buckets' = IF active[k] = 0 /\ Len(waiters[k]) = 1
                       THEN buckets \ {k} ELSE buckets
    ELSE UNCHANGED <<waiters, globalWaiterCount, buckets>>

settleReject(r) ==
    /\ armed' = armed \ {r}
    /\ removeWaiterFromBucket(KeyOf[r], r)
    /\ pc' = [pc EXCEPT ![r] = "ready"]
    /\ UNCHANGED <<active, inflight>>

WaitTimeout(r) ==
    /\ r \in armed /\ pc[r] = "waiting"
    /\ settleReject(r)
    /\ Answered(r)

(* The client disconnects; only a waiter listens. *)
Abort(r) ==
    /\ r \notin aborted
    /\ IF r \in armed /\ pc[r] = "waiting"
       THEN settleReject(r) /\ Answered(r)
       ELSE aborted' = aborted \cup {r} /\ UNCHANGED <<pc, queueVars, inflight>>

-----------------------------------------------------------------------------
(* wakeNextWaiter's loop, with freed slots left in the bucket: it drops    *)
(* settled waiters up to the first unsettled one, which gets a slot.       *)
Unsettled(k) == {i \in DOMAIN waiters[k] : pc[waiters[k][i]] = "waiting"}

FirstUnsettled(k) == CHOOSE i \in Unsettled(k) : \A j \in Unsettled(k) : i <= j

(* Mistake: the line is popped where it should be shifted. *)
WakeLast(k, r, left) ==
    LET n == Len(waiters[k])
        w == waiters[k][n] IN
    /\ waiters' = [waiters EXCEPT ![k] = SubSeq(@, 1, n - 1)]
    /\ globalWaiterCount' = AtLeast0(globalWaiterCount - 1)
    /\ armed' = armed \ {w}
    /\ active' = [active EXCEPT ![k] = left + 1]
    /\ pc' = [pc EXCEPT ![r] = "ready", ![w] = "granted"]
    /\ UNCHANGED buckets

WakeNextWaiter(k, r, left) ==
    LET n == FirstUnsettled(k)
        w == waiters[k][n] IN
    /\ waiters' = [waiters EXCEPT ![k] = SubSeq(@, n + 1, Len(@))]
    /\ globalWaiterCount' = AtLeast0(globalWaiterCount - n)
    /\ armed' = armed \ {waiters[k][i] : i \in 1..n}
    /\ active' = [active EXCEPT ![k] = left + 1]
    /\ pc' = [pc EXCEPT ![r] = "ready", ![w] = "granted"]
    /\ UNCHANGED buckets

WakeNobody(k, r, left) ==
    /\ waiters' = [waiters EXCEPT ![k] = <<>>]
    /\ globalWaiterCount' = AtLeast0(globalWaiterCount - Len(waiters[k]))
    /\ armed' = armed \ Range(waiters[k])
    /\ active' = [active EXCEPT ![k] = left]
    /\ buckets' = IF left = 0 THEN buckets \ {k} ELSE buckets
    /\ pc' = [pc EXCEPT ![r] = "ready"]

(* Mistake: the release frees the slot and wakes nobody. *)
ReleaseWithoutWake(r) ==
    /\ active' = [active EXCEPT ![KeyOf[r]] = AtLeast0(@ - 1)]
    /\ pc' = [pc EXCEPT ![r] = "ready"]
    /\ UNCHANGED <<armed, buckets, waiters, globalWaiterCount, inflight>>

(* The permit's release, called once by the finally of its request. *)
releaseActiveSlot(r) ==
    LET k == KeyOf[r]
        left == AtLeast0(active[k] - 1) IN
    /\ IF k \notin buckets
       THEN pc' = [pc EXCEPT ![r] = "ready"] /\ UNCHANGED queueVars
       ELSE IF Unsettled(k) # {} THEN WakeNextWaiter(k, r, left) ELSE WakeNobody(k, r, left)
    /\ UNCHANGED inflight

-----------------------------------------------------------------------------
(* After a wait the request checks credits and period limits again, which  *)
(* may throw: the finally releases the permit it was just given.           *)
PassRecheck(r) ==
    /\ pc[r] = "granted" /\ r \in Queueing
    /\ pc' = [pc EXCEPT ![r] = "running"]
    /\ UNCHANGED <<aborted, queueVars, inflight>>

(* Mistake: the permit is taken outside the try whose finally releases it. *)
FailRecheckOutsideTry(r) ==
    /\ pc[r] = "granted" /\ r \in Queueing
    /\ pc' = [pc EXCEPT ![r] = "ready"]
    /\ UNCHANGED <<queueVars, inflight>>
    /\ Answered(r)

FailRecheck(r) ==
    /\ pc[r] = "granted" /\ r \in Queueing
    /\ releaseActiveSlot(r)
    /\ Answered(r)

(* runProviderAttempts returns or throws, aborted or not. *)
Finish(r) ==
    /\ pc[r] = "running" /\ r \in Queueing
    /\ releaseActiveSlot(r)
    /\ Answered(r)

(* The path without the queue; at the limit it answers 429. *)
tryAcquireHeavyResponses(r) ==
    LET k == KeyOf[r] IN
    /\ pc[r] = "ready" /\ r \notin Queueing
    /\ inflight[k] < ConcurrencyLimit
    /\ inflight' = [inflight EXCEPT ![k] = @ + 1]
    /\ pc' = [pc EXCEPT ![r] = "running"]
    /\ UNCHANGED <<aborted, queueVars>>

releaseHeavyResponses(r) ==
    LET k == KeyOf[r] IN
    /\ pc[r] = "running" /\ r \notin Queueing
    /\ inflight' = [inflight EXCEPT ![k] = AtLeast0(@ - 1)]
    /\ pc' = [pc EXCEPT ![r] = "ready"]
    /\ Answered(r)
    /\ UNCHANGED queueVars

Resume(r) == PassRecheck(r) \/ FailRecheck(r)

Next ==
    \E r \in Requests :
        \/ RejectAborted(r) \/ AcquireNow(r) \/ Enqueue(r)
        \/ WaitTimeout(r) \/ Abort(r)
        \/ Resume(r) \/ Finish(r)
        \/ tryAcquireHeavyResponses(r) \/ releaseHeavyResponses(r)

(* A resolved promise resumes its request, and a request that runs ends:   *)
(* every provider attempt has an upstream timeout.  Timers need no fairness.*)
Spec ==
    /\ Init /\ [][Next]_vars
    /\ \A r \in Requests : WF_vars(Resume(r)) /\ WF_vars(Finish(r))

-----------------------------------------------------------------------------
TypeOK ==
    /\ pc \in [Requests -> Phases]
    /\ aborted \subseteq Requests
    /\ armed \subseteq Requests
    /\ buckets \subseteq Keys
    /\ active \in [Keys -> Nat]
    /\ waiters \in [Keys -> Seq(Requests)]
    /\ globalWaiterCount \in Nat
    /\ inflight \in [Keys -> Nat]

Holders(k) == {r \in Queueing : KeyOf[r] = k /\ pc[r] \in {"granted", "running"}}

Waiting == {r \in Requests : pc[r] = "waiting"}

(* The lines hold the requests that wait, each once and in its own line,   *)
(* and each with its timer and listener still armed.                       *)
LinesMatchRequests ==
    /\ \A k \in Keys : \A i \in DOMAIN waiters[k] :
          /\ waiters[k][i] \in Waiting /\ KeyOf[waiters[k][i]] = k
          /\ \A j \in DOMAIN waiters[k] : waiters[k][i] = waiters[k][j] => i = j
    /\ \A r \in Waiting : \E i \in DOMAIN waiters[KeyOf[r]] : waiters[KeyOf[r]][i] = r
    /\ armed = Waiting
    /\ Waiting \subseteq Queueing

(* A slot is held by exactly one request: across acquisition, hand-over,   *)
(* failed recheck, abort and timeout no slot leaks and none is given       *)
(* twice; the bucket of a held slot is never dropped from the Map, where   *)
(* its release would be lost.                                              *)
SlotsAreHeld ==
    \A k \in Keys :
        /\ active[k] = Cardinality(Holders(k)) /\ active[k] <= ConcurrencyLimit
        /\ k \in buckets <=> active[k] # 0

(* The global counter is the number of waiters of all keys, so that it     *)
(* neither locks callers out nor admits more than its cap.                 *)
GlobalCountIsExact ==
    globalWaiterCount = Cardinality(Waiting) /\ globalWaiterCount <= MaxWaitersGlobal

(* Nobody waits while a slot of its key is free, so a newcomer cannot      *)
(* overtake the line.                                                      *)
NoIdleSlot ==
    \A k \in Keys : waiters[k] # <<>> => active[k] = ConcurrencyLimit

(* An aborted request is never in line. *)
AbortedDoNotWait == aborted \cap Waiting = {}

(* Lines, slots, timers and counters agree with where the requests are.   *)
QueueInv ==
    /\ TypeOK /\ LinesMatchRequests /\ SlotsAreHeld /\ NoIdleSlot
    /\ AbortedDoNotWait /\ GlobalCountIsExact

(* The queue of the code is a FIFO semaphore per key: permits go to the    *)
(* longest waiter, whatever aborts, timers and failed rechecks happen.     *)
Sem == INSTANCE FifoSemaphore WITH
    Callers <- Queueing, Slots <- ConcurrencyLimit,
    holders <- [k \in Keys |-> Holders(k)], line <- waiters

ImplementsSemaphore == Sem!Spec

(* Every waiter is settled, and without any timer: slots are released and  *)
(* the line moves.                                                         *)
WaitersAreServed == \A r \in Requests : pc[r] = "waiting" ~> pc[r] # "waiting"
=============================================================================
