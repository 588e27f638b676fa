-------------------------- MODULE HeavyQueueProofs --------------------------
(***************************************************************************)
(* Proofs about the heavy-responses queue, for any finite set of requests, *)
(* any keys and any limits.                                                *)
(***************************************************************************)
EXTENDS HeavyQueue, FiniteSetTheorems, SequenceTheorems, TLAPS

-----------------------------------------------------------------------------
LEMMA FiniteRequests ==
    /\ IsFiniteSet(Waiting)
    /\ \A k \in Keys : IsFiniteSet(Holders(k))
<1>1. Waiting \subseteq Requests /\ \A k \in Keys : Holders(k) \subseteq Requests
  BY RequestsAssumption DEF Waiting, Holders
<1>2. QED
  BY <1>1, FS_Subset, RequestsAssumption

LEMMA SecondHalf ==
    ASSUME NEW S, NEW a \in Seq(S), NEW b \in Seq(S),
           NEW j \in (Len(a) + 1)..(Len(a) + Len(b))
    PROVE  (a \o b)[j] = b[j - Len(a)]
OBVIOUS

(* Cutting one element out of a line. *)
LEMMA RemoveAtElements ==
    ASSUME NEW S, NEW s \in Seq(S), NEW i \in DOMAIN s
    PROVE  /\ RemoveAt(s, i) \in Seq(S)
           /\ Len(RemoveAt(s, i)) = Len(s) - 1
           /\ DOMAIN RemoveAt(s, i) = 1..(Len(s) - 1)
           /\ \A j \in 1..(Len(s) - 1) :
                 RemoveAt(s, i)[j] = IF j < i THEN s[j] ELSE s[j + 1]
<1>1. i \in 1..Len(s)
  OBVIOUS
<1> DEFINE a == SubSeq(s, 1, i - 1)
           b == SubSeq(s, i + 1, Len(s))
<1>2. a \in Seq(S) /\ Len(a) = i - 1 /\ \A j \in 1..(i - 1) : a[j] = s[j]
  BY <1>1
<1>3. b \in Seq(S) /\ Len(b) = Len(s) - i /\ \A j \in 1..(Len(s) - i) : b[j] = s[j + i]
  BY <1>1
<1>4. RemoveAt(s, i) = a \o b
  BY DEF RemoveAt
<1> HIDE DEF a, b
<1>5. a \o b \in Seq(S) /\ Len(a \o b) = Len(s) - 1
  BY <1>1, <1>2, <1>3
<1>6. ASSUME NEW j \in 1..(Len(s) - 1)
      PROVE  (a \o b)[j] = IF j < i THEN s[j] ELSE s[j + 1]
  <2>1. CASE j < i
    BY <1>1, <1>2, <1>3, <2>1
  <2>2. CASE ~(j < i)
    <3>0. /\ Len(a) \in Nat /\ Len(b) \in Nat
          /\ j \in (Len(a) + 1)..(Len(a) + Len(b))
      <4>1. Len(s) \in Nat /\ i \in Nat /\ 1 <= i /\ i <= Len(s)
        BY <1>1
      <4>2. Len(a) = i - 1 /\ Len(b) = Len(s) - i
        BY <1>2, <1>3
      <4>3. j \in Nat /\ i <= j /\ j <= Len(s) - 1
        BY <2>2, <4>1
      <4>4. QED
        BY <4>1, <4>2, <4>3
    <3>1. (a \o b)[j] = b[j - Len(a)]
      <4>1. a \in Seq(S) /\ b \in Seq(S)
        BY <1>2, <1>3
      <4>2. QED
        BY <3>0, <4>1, SecondHalf
    <3>2. j - Len(a) \in 1..(Len(s) - i) /\ (j - Len(a)) + i = j + 1
      BY <1>1, <1>2, <2>2
    <3>3. QED
      BY <1>3, <2>2, <3>1, <3>2
  <2>3. QED
    BY <2>1, <2>2
<1>7. RemoveAt(s, i) \in Seq(S) /\ Len(RemoveAt(s, i)) = Len(s) - 1
  BY <1>4, <1>5
<1>8. DOMAIN RemoveAt(s, i) = 1..(Len(s) - 1)
  BY <1>7
<1>9. \A j \in 1..(Len(s) - 1) : RemoveAt(s, i)[j] = IF j < i THEN s[j] ELSE s[j + 1]
  BY <1>4, <1>6, Zenon
<1>10. QED
  BY <1>7, <1>8, <1>9, Zenon

(* The head of a line of waiting requests is its first unsettled waiter.   *)
LEMMA FirstIsHead ==
    ASSUME TypeOK, LinesMatchRequests, NEW k \in Keys, waiters[k] # <<>>
    PROVE  Unsettled(k) # {} /\ FirstUnsettled(k) = 1
<1>1. DOMAIN waiters[k] = 1..Len(waiters[k]) /\ Len(waiters[k]) \in Nat \ {0}
  BY DEF TypeOK
<1>2. Unsettled(k) = 1..Len(waiters[k])
  BY <1>1 DEF LinesMatchRequests, Waiting, Unsettled
<1>3. 1 \in Unsettled(k) /\ \A j \in Unsettled(k) : 1 <= j
  BY <1>1, <1>2
<1>4. FirstUnsettled(k) \in Unsettled(k) /\ \A j \in Unsettled(k) : FirstUnsettled(k) <= j
  BY <1>3 DEF FirstUnsettled
<1>5. QED
  BY <1>1, <1>2, <1>3, <1>4

(* A request that holds a slot is counted, so its bucket is in the Map.    *)
LEMMA HeldIsCounted ==
    ASSUME QueueInv, NEW r \in Requests, r \in Holders(KeyOf[r])
    PROVE  active[KeyOf[r]] \in Nat \ {0} /\ KeyOf[r] \in buckets /\ KeyOf[r] \in Keys
<1>1. KeyOf[r] \in Keys
  BY RequestsAssumption
<1>2. active[KeyOf[r]] = Cardinality(Holders(KeyOf[r])) /\ active[KeyOf[r]] \in Nat
  BY <1>1 DEF QueueInv, SlotsAreHeld, TypeOK
<1>3. Cardinality(Holders(KeyOf[r])) # 0
  BY <1>1, FiniteRequests, FS_EmptySet
<1>4. QED
  BY <1>1, <1>2, <1>3 DEF QueueInv, SlotsAreHeld

-----------------------------------------------------------------------------
(* The three ways a line moves, without the defensive branches of the      *)
(* code: the invariant rules those out.                                    *)

(* r's slot passes to the head of its line. *)
Passed(r, k) ==
    /\ waiters[k] # <<>>
    /\ waiters' = [waiters EXCEPT ![k] = RemoveAt(@, 1)]
    /\ globalWaiterCount' = globalWaiterCount - 1
    /\ armed' = armed \ {waiters[k][1]}
    /\ pc' = [pc EXCEPT ![r] = "ready", ![waiters[k][1]] = "granted"]
    /\ UNCHANGED <<active, buckets, inflight>>

(* Nobody waits for r's slot. *)
Freed(r, k) ==
    /\ waiters[k] = <<>>
    /\ active' = [active EXCEPT ![k] = @ - 1]
    /\ buckets' = IF active[k] = 1 THEN buckets \ {k} ELSE buckets
    /\ pc' = [pc EXCEPT ![r] = "ready"]
    /\ UNCHANGED <<waiters, globalWaiterCount, armed, inflight>>

(* The waiter at place i of a line gives up. *)
Cut(k, i) ==
    /\ waiters' = [waiters EXCEPT ![k] = RemoveAt(@, i)]
    /\ globalWaiterCount' = globalWaiterCount - 1
    /\ armed' = armed \ {waiters[k][i]}
    /\ pc' = [pc EXCEPT ![waiters[k][i]] = "ready"]
    /\ UNCHANGED <<active, buckets, inflight>>

LEMMA WaitersAreCounted ==
    ASSUME QueueInv, NEW r \in Waiting
    PROVE  globalWaiterCount \in Nat \ {0}
<1>1. Cardinality(Waiting) # 0
  BY FiniteRequests, FS_EmptySet
<1>2. QED
  BY <1>1 DEF QueueInv, TypeOK, GlobalCountIsExact

LEMMA ReleaseMoves ==
    ASSUME QueueInv, NEW r \in Requests, r \in Queueing, pc[r] \in {"granted", "running"},
           releaseActiveSlot(r), NEW k, k = KeyOf[r]
    PROVE  Passed(r, k) \/ Freed(r, k)
<1>1. r \in Holders(k)
  BY DEF Holders
<1>2. k \in Keys /\ k \in buckets /\ active[k] \in Nat \ {0} /\ active \in [Keys -> Nat]
  BY <1>1, HeldIsCounted DEF QueueInv, TypeOK
<1> DEFINE left == AtLeast0(active[k] - 1)
<1>3. left = active[k] - 1
  BY <1>2 DEF AtLeast0
<1>4. /\ inflight' = inflight
      /\ IF Unsettled(k) # {} THEN WakeNextWaiter(k, r, left) ELSE WakeNobody(k, r, left)
  BY <1>2 DEF releaseActiveSlot
<1> HIDE DEF left
<1>5. waiters \in [Keys -> Seq(Requests)] /\ globalWaiterCount \in Nat
  BY DEF QueueInv, TypeOK
<1>6. CASE waiters[k] # <<>>
  <2>1. Unsettled(k) # {} /\ FirstUnsettled(k) = 1
    BY <1>2, <1>6, FirstIsHead DEF QueueInv
  <2>2. /\ waiters' = [waiters EXCEPT ![k] = SubSeq(@, 2, Len(@))]
        /\ globalWaiterCount' = AtLeast0(globalWaiterCount - 1)
        /\ armed' = armed \ {waiters[k][i] : i \in 1..1}
        /\ active' = [active EXCEPT ![k] = left + 1]
        /\ pc' = [pc EXCEPT ![r] = "ready", ![waiters[k][1]] = "granted"]
        /\ UNCHANGED buckets
    BY <1>4, <2>1 DEF WakeNextWaiter
  <2>3. active' = active
    BY <1>2, <1>3, <2>2
  <2>4. SubSeq(waiters[k], 2, Len(waiters[k])) = RemoveAt(waiters[k], 1)
    <3>1. waiters[k] \in Seq(Requests)
      BY <1>2, <1>5
    <3>2. SubSeq(waiters[k], 1, 0) = <<>>
      BY <3>1
    <3>3. QED
      BY <3>1, <3>2 DEF RemoveAt
  <2>5. globalWaiterCount' = globalWaiterCount - 1
    <3>1. waiters[k][1] \in Waiting
      BY <1>2, <1>5, <1>6 DEF QueueInv, LinesMatchRequests
    <3>2. QED
      BY <2>2, <3>1, WaitersAreCounted DEF AtLeast0
  <2>6. waiters' = [waiters EXCEPT ![k] = RemoveAt(@, 1)]
    BY <2>2, <2>4
  <2>7. armed' = armed \ {waiters[k][1]}
    <3>1. {waiters[k][i] : i \in 1..1} = {waiters[k][1]}
      OBVIOUS
    <3>2. QED
      BY <2>2, <3>1
  <2>8. QED
    BY <1>4, <1>6, <2>2, <2>3, <2>5, <2>6, <2>7 DEF Passed
<1>7. CASE waiters[k] = <<>>
  <2>1. Unsettled(k) = {}
    BY <1>7 DEF Unsettled
  <2>2. WakeNobody(k, r, left)
    BY <1>4, <2>1
  <2>3. /\ waiters' = [waiters EXCEPT ![k] = <<>>]
        /\ globalWaiterCount' = AtLeast0(globalWaiterCount - Len(waiters[k]))
        /\ armed' = armed \ Range(waiters[k])
        /\ active' = [active EXCEPT ![k] = left]
        /\ buckets' = IF left = 0 THEN buckets \ {k} ELSE buckets
        /\ pc' = [pc EXCEPT ![r] = "ready"]
    BY <2>2 DEF WakeNobody
  <2>4. waiters' = waiters
    BY <1>2, <1>5, <1>7, <2>3
  <2>5. globalWaiterCount' = globalWaiterCount
    BY <1>5, <1>7, <2>3 DEF AtLeast0
  <2>6. armed' = armed
    BY <1>7, <2>3 DEF Range
  <2>7. buckets' = IF active[k] = 1 THEN buckets \ {k} ELSE buckets
    BY <1>2, <1>3, <2>3
  <2>8. QED
    BY <1>2, <1>3, <1>4, <1>7, <2>3, <2>4, <2>5, <2>6, <2>7 DEF Freed
<1>8. QED
  BY <1>6, <1>7

LEMMA RejectMoves ==
    ASSUME QueueInv, NEW r \in Requests, pc[r] = "waiting", settleReject(r),
           NEW k, k = KeyOf[r]
    PROVE  \E i \in DOMAIN waiters[k] : waiters[k][i] = r /\ Cut(k, i)
<1>1. k \in Keys /\ r \in Waiting
  BY RequestsAssumption DEF Waiting
<1>2. PICK i \in DOMAIN waiters[k] : waiters[k][i] = r
  BY <1>1 DEF QueueInv, LinesMatchRequests
<1>3. \A j \in DOMAIN waiters[k] : waiters[k][j] = r => j = i
  BY <1>1, <1>2 DEF QueueInv, LinesMatchRequests
<1>4. waiters[k] \in Seq(Requests) /\ active[k] \in Nat /\ i \in Nat
  <2>1. waiters[k] \in Seq(Requests) /\ active[k] \in Nat
    BY <1>1 DEF QueueInv, TypeOK
  <2>2. QED
    BY <1>2, <2>1
<1>5. active[k] # 0 /\ k \in buckets
  <2>1. waiters[k] # <<>>
    BY <1>2
  <2>2. active[k] = ConcurrencyLimit
    BY <1>1, <2>1 DEF QueueInv, NoIdleSlot
  <2>3. QED
    BY <1>1, <2>2, LimitsAssumption DEF QueueInv, SlotsAreHeld
<1> DEFINE at == {j \in DOMAIN waiters[k] : waiters[k][j] = r}
<1>6. at = {i}
  BY <1>2, <1>3
<1>7. (CHOOSE n \in at : \A j \in at : n <= j) = i
  BY <1>4, <1>6
<1>8. /\ waiters' = [waiters EXCEPT ![k] = RemoveAt(@, i)]
      /\ globalWaiterCount' = AtLeast0(globalWaiterCount - 1)
      /\ buckets' = buckets
  <2>1. removeWaiterFromBucket(k, r)
    BY DEF settleReject
  <2>2. QED
    BY <1>5, <1>6, <1>7, <2>1 DEF removeWaiterFromBucket
<1>9. globalWaiterCount' = globalWaiterCount - 1
  BY <1>1, <1>8, WaitersAreCounted DEF AtLeast0
<1>10. QED
  BY <1>2, <1>8, <1>9 DEF settleReject, Cut

-----------------------------------------------------------------------------
(* Taking the waiter at place i out of its line keeps lines and requests   *)
(* in step.                                                                *)
LEMMA CutKeepsLines ==
    ASSUME QueueInv, NEW k \in Keys, NEW i \in DOMAIN waiters[k], NEW w, w = waiters[k][i],
           waiters' = [waiters EXCEPT ![k] = RemoveAt(@, i)],
           armed' = armed \ {w},
           Waiting' = Waiting \ {w}
    PROVE  /\ LinesMatchRequests'
           /\ waiters' \in [Keys -> Seq(Requests)]
           /\ \A j \in Keys : waiters'[j] # <<>> => waiters[j] # <<>>
           /\ globalWaiterCount - 1 \in Nat
           /\ globalWaiterCount - 1 = Cardinality(Waiting')
           /\ globalWaiterCount - 1 <= MaxWaitersGlobal
<1>1. waiters \in [Keys -> Seq(Requests)] /\ waiters[k] \in Seq(Requests)
  BY DEF QueueInv, TypeOK
<1> DEFINE cut == RemoveAt(waiters[k], i)
           n == Len(waiters[k])
<1>2. /\ cut \in Seq(Requests) /\ Len(cut) = n - 1 /\ DOMAIN cut = 1..(n - 1)
      /\ \A j \in 1..(n - 1) : cut[j] = IF j < i THEN waiters[k][j] ELSE waiters[k][j + 1]
  BY <1>1, RemoveAtElements
<1>3. waiters' = [waiters EXCEPT ![k] = cut]
  OBVIOUS
<1>4. n \in Nat /\ i \in 1..n /\ DOMAIN waiters[k] = 1..n
  BY <1>1
<1> HIDE DEF cut, n
<1>5. waiters' \in [Keys -> Seq(Requests)]
  BY <1>1, <1>2, <1>3
<1>6. waiters'[k] = cut /\ \A j \in Keys : j # k => waiters'[j] = waiters[j]
  BY <1>1, <1>3
<1>7. /\ \A j \in 1..n : \A m \in 1..n : waiters[k][j] = waiters[k][m] => j = m
      /\ \A j \in 1..n : waiters[k][j] \in Waiting /\ KeyOf[waiters[k][j]] = k
  BY <1>4 DEF QueueInv, LinesMatchRequests
<1>8. w \in Waiting /\ KeyOf[w] = k
  BY <1>4, <1>7
(* The cut line. *)
<1>9. ASSUME NEW j \in 1..(n - 1)
      PROVE  \E m \in 1..n : m # i /\ cut[j] = waiters[k][m] /\ m = IF j < i THEN j ELSE j + 1
  BY <1>2, <1>4
<1>10. ASSUME NEW j \in DOMAIN cut
       PROVE  /\ cut[j] \in Waiting' /\ KeyOf[cut[j]] = k
              /\ \A m \in DOMAIN cut : cut[j] = cut[m] => j = m
  <2>1. PICK a \in 1..n : a # i /\ cut[j] = waiters[k][a] /\ a = IF j < i THEN j ELSE j + 1
    BY <1>2, <1>9
  <2>2. waiters[k][a] # w
    BY <1>4, <1>7, <2>1
  <2>3. cut[j] \in Waiting' /\ KeyOf[cut[j]] = k
    BY <1>7, <2>1, <2>2
  <2>4. ASSUME NEW m \in DOMAIN cut, cut[j] = cut[m]
        PROVE  j = m
    <3>1. PICK b \in 1..n : b # i /\ cut[m] = waiters[k][b] /\ b = IF m < i THEN m ELSE m + 1
      BY <1>2, <1>9
    <3>2. a = b
      BY <1>7, <2>1, <2>4, <3>1
    <3>3. QED
      BY <1>2, <1>4, <2>1, <3>1, <3>2
  <2>5. QED
    BY <2>3, <2>4
(* The other lines. *)
<1>11. ASSUME NEW x \in Keys, x # k, NEW j \in DOMAIN waiters[x]
       PROVE  /\ waiters[x][j] \in Waiting' /\ KeyOf[waiters[x][j]] = x
              /\ \A m \in DOMAIN waiters[x] : waiters[x][j] = waiters[x][m] => j = m
  <2>1. waiters[x][j] \in Waiting /\ KeyOf[waiters[x][j]] = x
    BY DEF QueueInv, LinesMatchRequests
  <2>2. waiters[x][j] # w
    BY <1>8, <1>11, <2>1
  <2>3. QED
    BY <2>1, <2>2 DEF QueueInv, LinesMatchRequests
<1>12. ASSUME NEW x \in Keys, NEW j \in DOMAIN waiters'[x]
       PROVE  /\ waiters'[x][j] \in Waiting' /\ KeyOf[waiters'[x][j]] = x
              /\ \A m \in DOMAIN waiters'[x] : waiters'[x][j] = waiters'[x][m] => j = m
  <2>1. CASE x = k
    BY <1>6, <1>10, <2>1
  <2>2. CASE x # k
    BY <1>6, <1>11, <2>2
  <2>3. QED
    BY <2>1, <2>2
<1>13. ASSUME NEW q \in Waiting'
       PROVE  \E j \in DOMAIN waiters'[KeyOf[q]] : waiters'[KeyOf[q]][j] = q
  <2>1. q \in Waiting /\ q # w /\ KeyOf[q] \in Keys
    BY RequestsAssumption DEF Waiting
  <2>2. PICK a \in DOMAIN waiters[KeyOf[q]] : waiters[KeyOf[q]][a] = q
    BY <2>1 DEF QueueInv, LinesMatchRequests
  <2>3. CASE KeyOf[q] # k
    BY <1>6, <2>1, <2>2, <2>3
  <2>4. CASE KeyOf[q] = k
    <3>1. a \in 1..n /\ a # i
      BY <1>4, <2>1, <2>2, <2>4
    <3>2. CASE a < i
      <4>1. a \in 1..(n - 1) /\ cut[a] = q
        BY <1>2, <1>4, <2>2, <2>4, <3>1, <3>2
      <4>2. QED
        BY <1>2, <1>6, <2>4, <4>1
    <3>3. CASE a > i
      <4>1. a - 1 \in 1..(n - 1) /\ ~(a - 1 < i) /\ (a - 1) + 1 = a
        BY <1>4, <3>1, <3>3
      <4>2. cut[a - 1] = q
        BY <1>2, <2>2, <2>4, <4>1
      <4>3. QED
        BY <1>2, <1>6, <2>4, <4>1, <4>2
    <3>4. QED
      BY <1>4, <3>1, <3>2, <3>3
  <2>5. QED
    BY <2>3, <2>4
<1>14. armed' = Waiting' /\ Waiting' \subseteq Queueing
  BY DEF QueueInv, LinesMatchRequests
<1>15. LinesMatchRequests'
  BY <1>12, <1>13, <1>14 DEF LinesMatchRequests
<1>16. \A j \in Keys : waiters'[j] # <<>> => waiters[j] # <<>>
  BY <1>4, <1>6
<1>17. /\ globalWaiterCount - 1 \in Nat
       /\ globalWaiterCount - 1 = Cardinality(Waiting')
       /\ globalWaiterCount - 1 <= MaxWaitersGlobal
  <2>1. globalWaiterCount \in Nat \ {0}
    BY <1>8, WaitersAreCounted
  <2>2. Cardinality(Waiting \ {w}) = Cardinality(Waiting) - 1
    BY <1>8, FiniteRequests, FS_RemoveElement
  <2>3. globalWaiterCount = Cardinality(Waiting) /\ globalWaiterCount <= MaxWaitersGlobal
    BY DEF QueueInv, GlobalCountIsExact
  <2>4. QED
    BY <2>1, <2>2, <2>3, LimitsAssumption
<1>18. QED
  BY <1>5, <1>15, <1>16, <1>17

-----------------------------------------------------------------------------
(* Each way the state can move keeps the invariant. *)
LEMMA PassedKeeps ==
    ASSUME QueueInv, NEW r \in Requests, r \in Queueing, pc[r] \in {"granted", "running"},
           NEW k, k = KeyOf[r], Passed(r, k), Answered(r)
    PROVE  QueueInv' /\ Holders(k)' = (Holders(k) \ {r}) \cup {waiters[k][1]}
                 /\ \A j \in Keys : j # k => Holders(j)' = Holders(j)
<1> DEFINE w == waiters[k][1]
<1>1. k \in Keys /\ waiters \in [Keys -> Seq(Requests)] /\ pc \in [Requests -> Phases]
  BY RequestsAssumption DEF QueueInv, TypeOK
<1>2. 1 \in DOMAIN waiters[k]
  <2>1. waiters[k] # <<>> /\ waiters[k] \in Seq(Requests)
    BY <1>1 DEF Passed
  <2>2. QED
    BY <2>1
<1>3. w \in Waiting /\ KeyOf[w] = k /\ w \in Queueing /\ w \in Requests /\ pc[w] = "waiting"
  BY <1>1, <1>2 DEF QueueInv, LinesMatchRequests, Waiting
<1>4. w # r
  BY <1>3
<1>5. /\ waiters' = [waiters EXCEPT ![k] = RemoveAt(@, 1)]
      /\ globalWaiterCount' = globalWaiterCount - 1
      /\ armed' = armed \ {w}
      /\ pc' = [pc EXCEPT ![r] = "ready", ![w] = "granted"]
      /\ active' = active /\ buckets' = buckets /\ inflight' = inflight
      /\ aborted' = aborted \ {r}
  BY DEF Passed, Answered
<1> HIDE DEF w
<1>6. /\ pc' \in [Requests -> Phases]
      /\ pc'[w] = "granted" /\ pc'[r] = "ready"
      /\ \A x \in Requests : x # w /\ x # r => pc'[x] = pc[x]
  BY <1>1, <1>3, <1>4, <1>5 DEF Phases
<1>7. Waiting' = Waiting \ {w}
  BY <1>3, <1>4, <1>6 DEF Waiting
<1>8. Holders(k)' = (Holders(k) \ {r}) \cup {w}
  BY <1>3, <1>4, <1>6, RequestsAssumption DEF Holders
<1>9. ASSUME NEW j \in Keys, j # k
      PROVE  Holders(j)' = Holders(j)
  BY <1>3, <1>4, <1>6, <1>9, RequestsAssumption DEF Holders
<1>10. /\ LinesMatchRequests'
       /\ waiters' \in [Keys -> Seq(Requests)]
       /\ \A j \in Keys : waiters'[j] # <<>> => waiters[j] # <<>>
       /\ globalWaiterCount' \in Nat
       /\ globalWaiterCount' = Cardinality(Waiting')
       /\ globalWaiterCount' <= MaxWaitersGlobal
  <2>1. w = waiters[k][1]
    BY DEF w
  <2>2. QED
    BY <1>1, <1>2, <1>5, <1>7, <2>1, CutKeepsLines
<1>11. Cardinality(Holders(k)') = Cardinality(Holders(k))
  <2>1. IsFiniteSet(Holders(k)) /\ r \in Holders(k) /\ w \notin Holders(k)
    BY <1>1, <1>3, FiniteRequests DEF Holders
  <2>2. /\ IsFiniteSet(Holders(k) \ {r})
        /\ Cardinality(Holders(k) \ {r}) = Cardinality(Holders(k)) - 1
    BY <2>1, FS_RemoveElement
  <2>3. Cardinality((Holders(k) \ {r}) \cup {w}) = Cardinality(Holders(k) \ {r}) + 1
    BY <2>1, <2>2, FS_AddElement
  <2>4. Cardinality(Holders(k)) \in Nat
    BY <2>1, FS_CardinalityType
  <2>5. QED
    BY <1>8, <2>2, <2>3, <2>4
<1>12. SlotsAreHeld'
  <2>1. ASSUME NEW j \in Keys
        PROVE  Cardinality(Holders(j)') = Cardinality(Holders(j))
    BY <1>9, <1>11
  <2>2. QED
    BY <1>5, <2>1 DEF QueueInv, SlotsAreHeld
<1>13. NoIdleSlot'
  BY <1>5, <1>10 DEF QueueInv, NoIdleSlot
<1>14. AbortedDoNotWait'
  BY <1>5, <1>7 DEF QueueInv, AbortedDoNotWait
<1>15. TypeOK'
  BY <1>5, <1>6, <1>10 DEF QueueInv, TypeOK
<1>16. QED
  BY <1>8, <1>9, <1>10, <1>12, <1>13, <1>14, <1>15, w = waiters[k][1]
     DEF QueueInv, GlobalCountIsExact, w

LEMMA FreedKeeps ==
    ASSUME QueueInv, NEW r \in Requests, r \in Queueing, pc[r] \in {"granted", "running"},
           NEW k, k = KeyOf[r], Freed(r, k), Answered(r)
    PROVE  QueueInv' /\ Holders(k)' = Holders(k) \ {r}
                 /\ \A j \in Keys : j # k => Holders(j)' = Holders(j)
<1>1. k \in Keys /\ pc \in [Requests -> Phases] /\ active \in [Keys -> Nat]
      /\ active[k] \in Nat \ {0}
  <2>1. r \in Holders(k)
    BY DEF Holders
  <2>2. QED
    BY <2>1, HeldIsCounted DEF QueueInv, TypeOK
<1>2. /\ waiters[k] = <<>>
      /\ active' = [active EXCEPT ![k] = @ - 1]
      /\ pc' = [pc EXCEPT ![r] = "ready"]
      /\ waiters' = waiters /\ globalWaiterCount' = globalWaiterCount
      /\ armed' = armed /\ inflight' = inflight
      /\ aborted' = aborted \ {r}
  BY DEF Freed, Answered
<1>3. buckets' \subseteq Keys /\ (k \in buckets' <=> active[k] # 1)
      /\ \A j \in Keys : j # k => (j \in buckets' <=> j \in buckets)
  <2>1. k \in buckets /\ buckets \subseteq Keys
    BY <1>1 DEF QueueInv, TypeOK, SlotsAreHeld
  <2>2. buckets' = IF active[k] = 1 THEN buckets \ {k} ELSE buckets
    BY DEF Freed
  <2>3. CASE active[k] = 1
    BY <2>1, <2>2, <2>3
  <2>4. CASE active[k] # 1
    BY <2>1, <2>2, <2>4
  <2>5. QED
    BY <2>3, <2>4
<1>4. /\ pc' \in [Requests -> Phases] /\ pc'[r] = "ready"
      /\ \A x \in Requests : x # r => pc'[x] = pc[x]
  BY <1>1, <1>2 DEF Phases
<1>5. Waiting' = Waiting
  BY <1>4 DEF Waiting
<1>6. Holders(k)' = Holders(k) \ {r}
  BY <1>4, RequestsAssumption DEF Holders
<1>7. ASSUME NEW j \in Keys, j # k
      PROVE  Holders(j)' = Holders(j)
  BY <1>4, <1>7, RequestsAssumption DEF Holders
<1>8. TypeOK'
  <2>1. active' \in [Keys -> Nat]
    BY <1>1, <1>2
  <2>2. QED
    BY <1>2, <1>3, <1>4, <2>1 DEF QueueInv, TypeOK
<1>9. LinesMatchRequests'
  BY <1>2, <1>5 DEF QueueInv, LinesMatchRequests
<1>10. Cardinality(Holders(k)') = active[k] - 1
  <2>1. IsFiniteSet(Holders(k)) /\ r \in Holders(k)
    BY <1>1, FiniteRequests DEF Holders
  <2>2. Cardinality(Holders(k) \ {r}) = Cardinality(Holders(k)) - 1
    BY <2>1, FS_RemoveElement
  <2>3. QED
    BY <1>1, <1>6, <2>2 DEF QueueInv, SlotsAreHeld
<1>11. SlotsAreHeld'
  <2>1. ASSUME NEW j \in Keys
        PROVE  /\ active'[j] = Cardinality(Holders(j)') /\ active'[j] <= ConcurrencyLimit
               /\ j \in buckets' <=> active'[j] # 0
    <3>1. active[j] \in Nat /\ active[j] = Cardinality(Holders(j)) /\ active[j] <= ConcurrencyLimit
          /\ (j \in buckets <=> active[j] # 0)
      BY <1>1 DEF QueueInv, SlotsAreHeld
    <3>2. CASE j = k
      <4>1. active'[j] = active[k] - 1
        BY <1>1, <1>2, <3>2
      <4>2. QED
        BY <1>1, <1>3, <1>10, <3>1, <3>2, <4>1, LimitsAssumption
    <3>3. CASE j # k
      <4>1. active'[j] = active[j] /\ Holders(j)' = Holders(j)
        BY <1>1, <1>2, <1>7, <3>3
      <4>2. QED
        BY <1>3, <3>1, <3>3, <4>1
    <3>4. QED
      BY <3>2, <3>3
  <2>2. QED
    BY <2>1 DEF SlotsAreHeld
<1>12. NoIdleSlot'
  <2>1. ASSUME NEW j \in Keys, waiters'[j] # <<>>
        PROVE  active'[j] = ConcurrencyLimit
    <3>1. j # k /\ active'[j] = active[j]
      BY <1>1, <1>2, <2>1
    <3>2. QED
      BY <1>2, <2>1, <3>1 DEF QueueInv, NoIdleSlot
  <2>2. QED
    BY <2>1 DEF NoIdleSlot
<1>13. AbortedDoNotWait' /\ GlobalCountIsExact'
  BY <1>2, <1>5 DEF QueueInv, AbortedDoNotWait, GlobalCountIsExact
<1>14. QED
  BY <1>6, <1>7, <1>8, <1>9, <1>11, <1>12, <1>13 DEF QueueInv

LEMMA CutKeeps ==
    ASSUME QueueInv, NEW k \in Keys, NEW i \in DOMAIN waiters[k], Cut(k, i),
           NEW r, r = waiters[k][i], Answered(r)
    PROVE  QueueInv' /\ \A j \in Keys : Holders(j)' = Holders(j)
<1>1. r \in Waiting /\ r \in Requests /\ pc[r] = "waiting"
  BY DEF QueueInv, LinesMatchRequests, Waiting
<1>2. /\ waiters' = [waiters EXCEPT ![k] = RemoveAt(@, i)]
      /\ globalWaiterCount' = globalWaiterCount - 1
      /\ armed' = armed \ {r}
      /\ pc' = [pc EXCEPT ![r] = "ready"]
      /\ active' = active /\ buckets' = buckets /\ inflight' = inflight
      /\ aborted' = aborted \ {r}
  BY DEF Cut, Answered
<1>3. /\ pc' \in [Requests -> Phases] /\ pc'[r] = "ready"
      /\ \A x \in Requests : x # r => pc'[x] = pc[x]
  BY <1>1, <1>2 DEF Phases, QueueInv, TypeOK
<1>4. Waiting' = Waiting \ {r}
  BY <1>1, <1>3 DEF Waiting
<1>5. ASSUME NEW j \in Keys
      PROVE  Holders(j)' = Holders(j)
  BY <1>1, <1>3, RequestsAssumption DEF Holders
<1>6. /\ LinesMatchRequests'
      /\ waiters' \in [Keys -> Seq(Requests)]
      /\ \A j \in Keys : waiters'[j] # <<>> => waiters[j] # <<>>
      /\ globalWaiterCount' \in Nat
      /\ globalWaiterCount' = Cardinality(Waiting')
      /\ globalWaiterCount' <= MaxWaitersGlobal
  BY <1>2, <1>4, CutKeepsLines
<1>7. TypeOK'
  BY <1>2, <1>3, <1>6 DEF QueueInv, TypeOK
<1>8. SlotsAreHeld'
  BY <1>2, <1>5 DEF QueueInv, SlotsAreHeld
<1>9. NoIdleSlot'
  BY <1>2, <1>6 DEF QueueInv, NoIdleSlot
<1>10. AbortedDoNotWait'
  BY <1>2, <1>4 DEF QueueInv, AbortedDoNotWait
<1>11. QED
  BY <1>5, <1>6, <1>7, <1>8, <1>9, <1>10 DEF QueueInv, GlobalCountIsExact

LEMMA AcquireKeeps ==
    ASSUME QueueInv, NEW r \in Requests, AcquireNow(r), NEW k, k = KeyOf[r]
    PROVE  QueueInv' /\ Holders(k)' = Holders(k) \cup {r}
                 /\ \A j \in Keys : j # k => Holders(j)' = Holders(j)
<1>1. k \in Keys /\ pc \in [Requests -> Phases] /\ active \in [Keys -> Nat]
  BY RequestsAssumption DEF QueueInv, TypeOK
<1>2. /\ pc[r] = "ready" /\ r \in Queueing /\ active[k] < ConcurrencyLimit
      /\ buckets' = buckets \cup {k}
      /\ active' = [active EXCEPT ![k] = @ + 1]
      /\ pc' = [pc EXCEPT ![r] = "running"]
      /\ aborted' = aborted /\ armed' = armed /\ waiters' = waiters
      /\ globalWaiterCount' = globalWaiterCount /\ inflight' = inflight
  BY DEF AcquireNow
<1>3. /\ pc' \in [Requests -> Phases] /\ pc'[r] = "running"
      /\ \A x \in Requests : x # r => pc'[x] = pc[x]
  BY <1>1, <1>2 DEF Phases
<1>4. Waiting' = Waiting
  BY <1>2, <1>3 DEF Waiting
<1>5. Holders(k)' = Holders(k) \cup {r} /\ r \notin Holders(k)
  BY <1>2, <1>3, RequestsAssumption DEF Holders
<1>6. ASSUME NEW j \in Keys, j # k
      PROVE  Holders(j)' = Holders(j)
  BY <1>3, <1>6, RequestsAssumption DEF Holders
<1>7. TypeOK'
  <2>1. active' \in [Keys -> Nat]
    BY <1>1, <1>2
  <2>2. buckets' \subseteq Keys
    BY <1>1, <1>2 DEF QueueInv, TypeOK
  <2>3. QED
    BY <1>2, <1>3, <2>1, <2>2 DEF QueueInv, TypeOK
<1>8. LinesMatchRequests'
  BY <1>2, <1>4 DEF QueueInv, LinesMatchRequests
<1>9. Cardinality(Holders(k)') = active[k] + 1
  <2>1. Cardinality(Holders(k) \cup {r}) = Cardinality(Holders(k)) + 1
    BY <1>1, <1>5, FiniteRequests, FS_AddElement
  <2>2. QED
    BY <1>1, <1>5, <2>1 DEF QueueInv, SlotsAreHeld
<1>10. SlotsAreHeld'
  <2>1. ASSUME NEW j \in Keys
        PROVE  /\ active'[j] = Cardinality(Holders(j)') /\ active'[j] <= ConcurrencyLimit
               /\ j \in buckets' <=> active'[j] # 0
    <3>1. CASE j = k
      <4>1. active'[j] = active[k] + 1 /\ active[k] \in Nat /\ k \in buckets'
        BY <1>1, <1>2, <3>1
      <4>2. QED
        BY <1>2, <1>9, <3>1, <4>1, LimitsAssumption
    <3>2. CASE j # k
      <4>1. active'[j] = active[j] /\ Holders(j)' = Holders(j)
            /\ (j \in buckets' <=> j \in buckets)
        BY <1>1, <1>2, <1>6, <3>2
      <4>2. QED
        BY <4>1 DEF QueueInv, SlotsAreHeld
    <3>3. QED
      BY <3>1, <3>2
  <2>2. QED
    BY <2>1 DEF SlotsAreHeld
<1>11. NoIdleSlot'
  <2>1. ASSUME NEW j \in Keys, waiters'[j] # <<>>
        PROVE  active'[j] = ConcurrencyLimit
    <3>1. active[j] = ConcurrencyLimit
      BY <1>2, <2>1 DEF QueueInv, NoIdleSlot
    <3>2. j # k
      BY <1>2, <3>1, LimitsAssumption
    <3>3. QED
      BY <1>1, <1>2, <3>1, <3>2
  <2>2. QED
    BY <2>1 DEF NoIdleSlot
<1>12. AbortedDoNotWait' /\ GlobalCountIsExact'
  BY <1>2, <1>4 DEF QueueInv, AbortedDoNotWait, GlobalCountIsExact
<1>13. QED
  BY <1>5, <1>6, <1>7, <1>8, <1>10, <1>11, <1>12 DEF QueueInv

LEMMA EnqueueKeeps ==
    ASSUME QueueInv, NEW r \in Requests, Enqueue(r)
    PROVE  QueueInv' /\ \A j \in Keys : Holders(j)' = Holders(j)
<1> DEFINE k == KeyOf[r]
           n == Len(waiters[k])
<1>1. /\ k \in Keys /\ pc \in [Requests -> Phases] /\ waiters \in [Keys -> Seq(Requests)]
      /\ waiters[k] \in Seq(Requests) /\ n \in Nat /\ DOMAIN waiters[k] = 1..n
      /\ globalWaiterCount \in Nat
  BY RequestsAssumption DEF QueueInv, TypeOK
<1>2. /\ pc[r] = "ready" /\ r \in Queueing /\ r \notin aborted
      /\ active[k] >= ConcurrencyLimit /\ globalWaiterCount < MaxWaitersGlobal
      /\ waiters' = [waiters EXCEPT ![k] = Append(@, r)]
      /\ globalWaiterCount' = globalWaiterCount + 1
      /\ armed' = armed \cup {r}
      /\ pc' = [pc EXCEPT ![r] = "waiting"]
      /\ aborted' = aborted /\ buckets' = buckets /\ active' = active /\ inflight' = inflight
  BY DEF Enqueue
<1> DEFINE longer == Append(waiters[k], r)
<1>3. /\ longer \in Seq(Requests) /\ DOMAIN longer = 1..(n + 1)
      /\ longer[n + 1] = r /\ \A j \in 1..n : longer[j] = waiters[k][j]
  BY <1>1
<1>4. waiters' = [waiters EXCEPT ![k] = longer]
  BY <1>2
<1> HIDE DEF longer, n
<1>5. waiters' \in [Keys -> Seq(Requests)]
  BY <1>1, <1>3, <1>4
<1>6. waiters'[k] = longer /\ \A j \in Keys : j # k => waiters'[j] = waiters[j]
  BY <1>1, <1>4
<1>7. /\ pc' \in [Requests -> Phases] /\ pc'[r] = "waiting"
      /\ \A x \in Requests : x # r => pc'[x] = pc[x]
  BY <1>1, <1>2 DEF Phases
<1>8. Waiting' = Waiting \cup {r} /\ r \notin Waiting
  BY <1>2, <1>7 DEF Waiting
<1>9. ASSUME NEW j \in Keys
      PROVE  Holders(j)' = Holders(j)
  BY <1>2, <1>7, RequestsAssumption DEF Holders
<1>10. TypeOK'
  BY <1>1, <1>2, <1>5, <1>7 DEF QueueInv, TypeOK
<1>11. /\ \A j \in 1..n : waiters[k][j] \in Waiting /\ KeyOf[waiters[k][j]] = k
       /\ \A j \in 1..n : \A m \in 1..n : waiters[k][j] = waiters[k][m] => j = m
  BY <1>1 DEF QueueInv, LinesMatchRequests
<1>12. ASSUME NEW x \in Keys, NEW j \in DOMAIN waiters'[x]
       PROVE  /\ waiters'[x][j] \in Waiting' /\ KeyOf[waiters'[x][j]] = x
              /\ \A m \in DOMAIN waiters'[x] : waiters'[x][j] = waiters'[x][m] => j = m
  <2>1. CASE x = k
    <3>1. j \in 1..(n + 1) /\ DOMAIN waiters'[x] = 1..(n + 1)
      BY <1>3, <1>6, <2>1
    <3>2. \A m \in 1..(n + 1) : m = n + 1 \/ m \in 1..n
      BY <1>1 DEF n
    <3>3. \A m \in 1..n : longer[m] # r
      BY <1>3, <1>8, <1>11
    <3>4. longer[j] \in Waiting' /\ KeyOf[longer[j]] = k
      BY <1>3, <1>8, <1>11, <3>1, <3>2
    <3>5. \A m \in 1..(n + 1) : longer[j] = longer[m] => j = m
      BY <1>3, <1>11, <3>1, <3>2, <3>3
    <3>6. QED
      BY <1>6, <2>1, <3>1, <3>4, <3>5
  <2>2. CASE x # k
    BY <1>6, <1>8, <2>2 DEF QueueInv, LinesMatchRequests
  <2>3. QED
    BY <2>1, <2>2
<1>13. ASSUME NEW q \in Waiting'
       PROVE  \E j \in DOMAIN waiters'[KeyOf[q]] : waiters'[KeyOf[q]][j] = q
  <2>1. CASE q = r
    <3>1. KeyOf[q] = k /\ n + 1 \in 1..(n + 1)
      BY <1>1, <2>1 DEF n
    <3>2. QED
      BY <1>3, <1>6, <2>1, <3>1
  <2>2. CASE q # r
    <3>1. q \in Waiting /\ KeyOf[q] \in Keys
      BY <1>8, <2>2, RequestsAssumption DEF Waiting
    <3>2. PICK a \in DOMAIN waiters[KeyOf[q]] : waiters[KeyOf[q]][a] = q
      BY <3>1 DEF QueueInv, LinesMatchRequests
    <3>3. CASE KeyOf[q] = k
      <4>1. a \in 1..n /\ a \in 1..(n + 1)
        BY <1>1, <3>2, <3>3 DEF n
      <4>2. waiters[k][a] = q /\ waiters'[KeyOf[q]] = longer
        BY <1>6, <3>2, <3>3
      <4>3. a \in DOMAIN longer /\ longer[a] = q
        BY <1>3, <4>1, <4>2
      <4>4. QED
        BY <4>2, <4>3
    <3>4. CASE KeyOf[q] # k
      BY <1>6, <3>1, <3>2, <3>4
    <3>5. QED
      BY <3>3, <3>4
  <2>3. QED
    BY <2>1, <2>2
<1>14. LinesMatchRequests'
  <2>1. armed' = Waiting' /\ Waiting' \subseteq Queueing
    BY <1>2, <1>8 DEF QueueInv, LinesMatchRequests
  <2>2. QED
    BY <1>12, <1>13, <2>1 DEF LinesMatchRequests
<1>15. SlotsAreHeld'
  BY <1>2, <1>9 DEF QueueInv, SlotsAreHeld
<1>16. NoIdleSlot'
  <2>1. active[k] = ConcurrencyLimit
    BY <1>1, <1>2, LimitsAssumption DEF QueueInv, SlotsAreHeld, TypeOK
  <2>2. QED
    BY <1>2, <1>6, <2>1 DEF QueueInv, NoIdleSlot
<1>17. AbortedDoNotWait'
  BY <1>2, <1>8 DEF QueueInv, AbortedDoNotWait
<1>18. GlobalCountIsExact'
  <2>1. Cardinality(Waiting \cup {r}) = Cardinality(Waiting) + 1
    BY <1>8, FiniteRequests, FS_AddElement
  <2>2. globalWaiterCount' = globalWaiterCount + 1 /\ globalWaiterCount + 1 <= MaxWaitersGlobal
    BY <1>1, <1>2, LimitsAssumption
  <2>3. QED
    BY <1>8, <2>1, <2>2 DEF QueueInv, GlobalCountIsExact
<1>19. QED
  BY <1>9, <1>10, <1>14, <1>15, <1>16, <1>17, <1>18 DEF QueueInv

(* Steps that touch neither the queue nor a slot. *)
Quiet ==
    /\ UNCHANGED queueVars
    /\ TypeOK' /\ AbortedDoNotWait' /\ Waiting' = Waiting
    /\ \A j \in Keys : Holders(j)' = Holders(j)

LEMMA QuietKeeps ==
    ASSUME QueueInv, Quiet
    PROVE  QueueInv'
<1>1. LinesMatchRequests'
  BY DEF Quiet, QueueInv, LinesMatchRequests, queueVars
<1>2. SlotsAreHeld' /\ NoIdleSlot' /\ GlobalCountIsExact'
  BY DEF Quiet, QueueInv, SlotsAreHeld, NoIdleSlot, GlobalCountIsExact, queueVars
<1>3. QED
  BY <1>1, <1>2 DEF Quiet, QueueInv

(* A step of a request that does not wait and that keeps its permit.       *)
LEMMA SameHolders ==
    ASSUME TypeOK, NEW r \in Requests, NEW p \in Phases, pc' = [pc EXCEPT ![r] = p],
           pc[r] # "waiting", p # "waiting",
           r \in Queueing => (pc[r] \in {"granted", "running"} <=> p \in {"granted", "running"})
    PROVE  /\ pc' \in [Requests -> Phases] /\ Waiting' = Waiting
           /\ \A j \in Keys : Holders(j)' = Holders(j)
<1>1. /\ pc' \in [Requests -> Phases] /\ pc'[r] = p
      /\ \A x \in Requests : x # r => pc'[x] = pc[x]
  BY DEF TypeOK
<1>2. Waiting' = Waiting
  BY <1>1 DEF Waiting
<1>3. ASSUME NEW j \in Keys
      PROVE  Holders(j)' = Holders(j)
  BY <1>1, RequestsAssumption DEF Holders
<1>4. QED
  BY <1>1, <1>2, <1>3

(* The two ways a permit or a place in the line is given back. *)
Return(r) ==
    /\ r \in Queueing /\ pc[r] \in {"granted", "running"}
    /\ Passed(r, KeyOf[r]) \/ Freed(r, KeyOf[r])
    /\ Answered(r)

GivesUp(k, i) == Cut(k, i) /\ Answered(waiters[k][i])

LEMMA StepMoves ==
    ASSUME QueueInv, [Next]_vars
    PROVE  \/ \E r \in Requests : AcquireNow(r) \/ Enqueue(r) \/ Return(r)
           \/ \E k \in Keys : \E i \in DOMAIN waiters[k] : GivesUp(k, i)
           \/ Quiet
<1>1. TypeOK /\ LinesMatchRequests /\ AbortedDoNotWait
  BY DEF QueueInv
<1>2. CASE UNCHANGED vars
  BY <1>1, <1>2 DEF vars, queueVars, Quiet, TypeOK, AbortedDoNotWait, Waiting, Holders
<1>3. ASSUME NEW r \in Requests, RejectAborted(r)
      PROVE  Quiet
  BY <1>1, <1>3
     DEF RejectAborted, Answered, queueVars, Quiet, TypeOK, AbortedDoNotWait, Waiting, Holders
<1>4. ASSUME NEW r \in Requests, pc[r] = "waiting", settleReject(r), Answered(r)
      PROVE  \E k \in Keys : \E i \in DOMAIN waiters[k] : GivesUp(k, i)
  <2>1. KeyOf[r] \in Keys
    BY RequestsAssumption
  <2>2. QED
    BY <1>4, <2>1, RejectMoves DEF GivesUp
<1>5. ASSUME NEW r \in Requests, Abort(r)
      PROVE  Quiet \/ \E k \in Keys : \E i \in DOMAIN waiters[k] : GivesUp(k, i)
  <2>1. CASE r \in armed /\ pc[r] = "waiting"
    BY <1>4, <1>5, <2>1 DEF Abort
  <2>2. CASE ~(r \in armed /\ pc[r] = "waiting")
    <3>1. aborted' = aborted \cup {r} /\ UNCHANGED <<pc, queueVars, inflight>>
      BY <1>5, <2>2 DEF Abort
    <3>2. r \notin Waiting
      BY <1>1, <2>2 DEF LinesMatchRequests, Waiting
    <3>3. QED
      BY <1>1, <3>1, <3>2
         DEF queueVars, Quiet, TypeOK, AbortedDoNotWait, Waiting, Holders
  <2>3. QED
    BY <2>1, <2>2
<1>6. ASSUME NEW r \in Requests, PassRecheck(r)
      PROVE  Quiet
  <2>1. /\ pc' \in [Requests -> Phases] /\ Waiting' = Waiting
        /\ \A j \in Keys : Holders(j)' = Holders(j)
    BY <1>1, <1>6, SameHolders DEF PassRecheck, Phases
  <2>2. UNCHANGED <<aborted, queueVars, inflight>>
    BY <1>6 DEF PassRecheck
  <2>3. QED
    BY <1>1, <2>1, <2>2 DEF queueVars, Quiet, TypeOK, AbortedDoNotWait
<1>7. ASSUME NEW r \in Requests, tryAcquireHeavyResponses(r)
      PROVE  Quiet
  <2>1. /\ pc' \in [Requests -> Phases] /\ Waiting' = Waiting
        /\ \A j \in Keys : Holders(j)' = Holders(j)
    BY <1>1, <1>7, SameHolders DEF tryAcquireHeavyResponses, Phases
  <2>2. /\ UNCHANGED <<aborted, queueVars>>
        /\ inflight' = [inflight EXCEPT ![KeyOf[r]] = @ + 1]
    BY <1>7 DEF tryAcquireHeavyResponses
  <2>3. inflight' \in [Keys -> Nat]
    BY <1>1, <2>2, RequestsAssumption DEF TypeOK
  <2>4. QED
    BY <1>1, <2>1, <2>2, <2>3 DEF queueVars, Quiet, TypeOK, AbortedDoNotWait
<1>8. ASSUME NEW r \in Requests, releaseHeavyResponses(r)
      PROVE  Quiet
  <2>1. /\ pc' \in [Requests -> Phases] /\ Waiting' = Waiting
        /\ \A j \in Keys : Holders(j)' = Holders(j)
    BY <1>1, <1>8, SameHolders DEF releaseHeavyResponses, Phases
  <2>2. /\ UNCHANGED queueVars /\ aborted' = aborted \ {r}
        /\ inflight' = [inflight EXCEPT ![KeyOf[r]] = AtLeast0(@ - 1)]
    BY <1>8 DEF releaseHeavyResponses, Answered
  <2>3. inflight' \in [Keys -> Nat]
    <3>1. inflight[KeyOf[r]] \in Nat
      BY <1>1, RequestsAssumption DEF TypeOK
    <3>2. AtLeast0(inflight[KeyOf[r]] - 1) \in Nat
      BY <3>1 DEF AtLeast0
    <3>3. QED
      BY <1>1, <2>2, <3>2 DEF TypeOK
  <2>4. QED
    BY <1>1, <2>1, <2>2, <2>3 DEF queueVars, Quiet, TypeOK, AbortedDoNotWait
<1>9. ASSUME NEW r \in Requests, FailRecheck(r) \/ Finish(r)
      PROVE  Return(r)
  <2>1. r \in Queueing /\ pc[r] \in {"granted", "running"} /\ releaseActiveSlot(r) /\ Answered(r)
    BY <1>9 DEF FailRecheck, Finish
  <2>2. QED
    BY <2>1, ReleaseMoves DEF Return
<1>10. QED
  BY <1>2, <1>3, <1>4, <1>5, <1>6, <1>7, <1>8, <1>9 DEF Next, Resume, WaitTimeout

-----------------------------------------------------------------------------
LEMMA InitHolds == ASSUME Init PROVE QueueInv /\ \A k \in Keys : Holders(k) = {}
<1>1. Waiting = {} /\ \A k \in Keys : Holders(k) = {}
  BY RequestsAssumption DEF Init, Waiting, Holders
<1>2. TypeOK /\ AbortedDoNotWait
  BY DEF Init, TypeOK, Phases, AbortedDoNotWait
<1>3. LinesMatchRequests
  BY <1>1 DEF Init, LinesMatchRequests
<1>4. SlotsAreHeld /\ NoIdleSlot /\ GlobalCountIsExact
  <2>1. Cardinality({}) = 0 /\ 0 <= ConcurrencyLimit /\ 0 <= MaxWaitersGlobal
    BY FS_EmptySet, LimitsAssumption
  <2>2. SlotsAreHeld
    BY <1>1, <2>1 DEF Init, SlotsAreHeld
  <2>3. NoIdleSlot /\ GlobalCountIsExact
    BY <1>1, <2>1 DEF Init, NoIdleSlot, GlobalCountIsExact
  <2>4. QED
    BY <2>2, <2>3
<1>5. QED
  BY <1>1, <1>2, <1>3, <1>4 DEF QueueInv

LEMMA StepKeeps == ASSUME QueueInv, [Next]_vars PROVE QueueInv'
<1>1. ASSUME NEW r \in Requests, AcquireNow(r) PROVE QueueInv'
  BY <1>1, AcquireKeeps
<1>2. ASSUME NEW r \in Requests, Enqueue(r) PROVE QueueInv'
  BY <1>2, EnqueueKeeps
<1>3. ASSUME NEW r \in Requests, Return(r) PROVE QueueInv'
  BY <1>3, PassedKeeps, FreedKeeps DEF Return
<1>4. ASSUME NEW k \in Keys, NEW i \in DOMAIN waiters[k], GivesUp(k, i) PROVE QueueInv'
  BY <1>4, CutKeeps DEF GivesUp
<1>5. QED
  BY <1>1, <1>2, <1>3, <1>4, StepMoves, QuietKeeps

(* The inductive invariant: lines, slots, timers and counters of the queue *)
(* agree with where its requests are.                                      *)
THEOREM QueueInvariant == Spec => []QueueInv
<1>1. Init => QueueInv
  BY InitHolds
<1>2. QueueInv /\ [Next]_vars => QueueInv'
  BY StepKeeps
<1>3. QED
  BY <1>1, <1>2, PTL DEF Spec

(* For any requests, keys and limits: no slot leaks and none is given      *)
(* twice.                                                                  *)
THEOREM SlotsAreHeldAlways == Spec => []SlotsAreHeld
<1>1. QueueInv => SlotsAreHeld
  BY DEF QueueInv
<1>2. QED
  BY <1>1, QueueInvariant, PTL

(* For any requests, keys and limits: the global count of waiters never    *)
(* drifts, so its Math.max(0, ...) never has anything to mend.             *)
THEOREM GlobalCountIsExactAlways == Spec => []GlobalCountIsExact
<1>1. QueueInv => GlobalCountIsExact
  BY DEF QueueInv
<1>2. QED
  BY <1>1, QueueInvariant, PTL

-----------------------------------------------------------------------------
(* Refinement: one lemma per move.  The semaphore counts with an instance  *)
(* of Cardinality of its own.                                              *)
LEMMA SameCardinality ==
    ASSUME NEW S
    PROVE  Sem!Cardinality(S) = Cardinality(S)
  BY DEF Sem!Cardinality, Cardinality, Sem!IsFiniteSet, IsFiniteSet

LEMMA EnterStep ==
    ASSUME QueueInv, NEW r \in Requests, AcquireNow(r)
    PROVE  Sem!Next
<1> DEFINE k == KeyOf[r]
           h == [j \in Keys |-> Holders(j)]
<1>1. k \in Keys /\ r \in Queueing /\ pc[r] = "ready" /\ active[k] < ConcurrencyLimit
      /\ waiters' = waiters
  BY RequestsAssumption DEF AcquireNow
<1>2. Holders(k)' = Holders(k) \cup {r} /\ \A j \in Keys : j # k => Holders(j)' = Holders(j)
  BY AcquireKeeps
<1>3. active[k] = Cardinality(Holders(k))
  BY <1>1 DEF QueueInv, SlotsAreHeld
<1>4. waiters[k] = <<>>
  BY <1>1, LimitsAssumption DEF QueueInv, NoIdleSlot
<1>5. [j \in Keys |-> Holders(j)]' = [h EXCEPT ![k] = @ \cup {r}]
  BY <1>1, <1>2
<1>6. r \notin Holders(k) /\ r \notin Range(waiters[k])
  BY <1>1, <1>4 DEF Holders, Range
<1>7. Sem!Enter(k, r)
  BY <1>1, <1>3, <1>4, <1>5, SameCardinality DEF Sem!Enter
<1>8. QED
  BY <1>1, <1>6, <1>7 DEF Sem!Next, Sem!Range, Range

LEMMA JoinStep ==
    ASSUME QueueInv, NEW r \in Requests, Enqueue(r)
    PROVE  Sem!Next
<1> DEFINE k == KeyOf[r]
<1>1. k \in Keys /\ r \in Queueing /\ pc[r] = "ready" /\ active[k] >= ConcurrencyLimit
      /\ waiters' = [waiters EXCEPT ![k] = Append(@, r)]
  BY RequestsAssumption DEF Enqueue
<1>2. [j \in Keys |-> Holders(j)]' = [j \in Keys |-> Holders(j)]
  BY EnqueueKeeps
<1>3. Cardinality(Holders(k)) = ConcurrencyLimit
  BY <1>1, LimitsAssumption DEF QueueInv, SlotsAreHeld, TypeOK
<1>4. r \notin Holders(k) /\ r \notin Range(waiters[k])
  BY <1>1 DEF Holders, Range, QueueInv, LinesMatchRequests, Waiting
<1>5. Sem!Join(k, r)
  BY <1>1, <1>2, <1>3, SameCardinality DEF Sem!Join
<1>6. QED
  BY <1>1, <1>4, <1>5 DEF Sem!Next, Sem!Range, Range

LEMMA ReturnStep ==
    ASSUME QueueInv, NEW r \in Requests, Return(r)
    PROVE  Sem!Next
<1> DEFINE k == KeyOf[r]
           h == [j \in Keys |-> Holders(j)]
<1>1. k \in Keys /\ r \in Holders(k) /\ r \in Queueing /\ pc[r] \in {"granted", "running"}
      /\ Answered(r)
  BY RequestsAssumption DEF Return, Holders
<1>2. waiters \in [Keys -> Seq(Requests)] /\ waiters[k] \in Seq(Requests)
  BY <1>1 DEF QueueInv, TypeOK
<1>3. CASE Passed(r, k)
  <2>1. waiters[k] # <<>> /\ waiters' = [waiters EXCEPT ![k] = RemoveAt(@, 1)]
    BY <1>3 DEF Passed
  <2>2. Holders(k)' = (Holders(k) \ {r}) \cup {waiters[k][1]}
        /\ \A j \in Keys : j # k => Holders(j)' = Holders(j)
    BY <1>1, <1>3, PassedKeeps
  <2>3. Head(waiters[k]) = waiters[k][1]
    BY <1>2, <2>1
  <2>4. Tail(waiters[k]) = RemoveAt(waiters[k], 1)
    <3>0. /\ 1 \in DOMAIN waiters[k]
          /\ \A j \in 1..(Len(waiters[k]) - 1) : ~ (j < 1)
      BY <1>2, <2>1
    <3>1. /\ RemoveAt(waiters[k], 1) \in Seq(Requests)
          /\ Len(RemoveAt(waiters[k], 1)) = Len(waiters[k]) - 1
          /\ \A j \in 1..(Len(waiters[k]) - 1) : RemoveAt(waiters[k], 1)[j] = waiters[k][j + 1]
      BY <1>2, <3>0, RemoveAtElements
    <3>2. /\ Tail(waiters[k]) \in Seq(Requests)
          /\ Len(Tail(waiters[k])) = Len(waiters[k]) - 1
          /\ \A j \in 1..(Len(waiters[k]) - 1) : Tail(waiters[k])[j] = waiters[k][j + 1]
      BY <1>2, <2>1
    <3>3. \A j \in 1..Len(Tail(waiters[k])) :
             Tail(waiters[k])[j] = RemoveAt(waiters[k], 1)[j]
      BY <3>1, <3>2
    <3>4. QED
      BY <3>1, <3>2, <3>3, SeqEqual
  <2>5. h' = [h EXCEPT ![k] = (@ \ {r}) \cup {Head(waiters[k])}]
    BY <1>1, <2>2, <2>3
  <2>6. Sem!HandOver(k, r)
    BY <1>1, <2>1, <2>4, <2>5 DEF Sem!HandOver
  <2>7. QED
    BY <1>1, <2>6 DEF Sem!Next
<1>4. CASE Freed(r, k)
  <2>1. waiters[k] = <<>> /\ waiters' = waiters
    BY <1>4 DEF Freed
  <2>2. Holders(k)' = Holders(k) \ {r} /\ \A j \in Keys : j # k => Holders(j)' = Holders(j)
    BY <1>1, <1>4, FreedKeeps
  <2>3. h' = [h EXCEPT ![k] = @ \ {r}]
    BY <1>1, <2>2
  <2>4. Sem!Leave(k, r)
    BY <1>1, <2>1, <2>3 DEF Sem!Leave
  <2>5. QED
    BY <1>1, <2>4 DEF Sem!Next
<1>5. QED
  BY <1>3, <1>4 DEF Return

LEMMA GiveUpStep ==
    ASSUME QueueInv, NEW k \in Keys, NEW i \in DOMAIN waiters[k], GivesUp(k, i)
    PROVE  Sem!Next
<1>1. waiters' = [waiters EXCEPT ![k] = RemoveAt(@, i)]
  BY DEF GivesUp, Cut
<1>2. [j \in Keys |-> Holders(j)]' = [j \in Keys |-> Holders(j)]
  BY CutKeeps DEF GivesUp
<1>3. Sem!GiveUp(k, i)
  BY <1>1, <1>2 DEF Sem!GiveUp, RemoveAt
<1>4. QED
  BY <1>3 DEF Sem!Next

(* For any requests, keys and limits: the queue of the code is a FIFO      *)
(* semaphore per key.                                                      *)
THEOREM QueueImplementsSemaphore == Spec => ImplementsSemaphore
<1>1. Init => Sem!Init
  BY InitHolds DEF Init, Sem!Init
<1>2. ASSUME QueueInv, [Next]_vars
      PROVE  Sem!Next \/ UNCHANGED <<[k \in Keys |-> Holders(k)], waiters>>
  <2>1. ASSUME Quiet PROVE UNCHANGED <<[k \in Keys |-> Holders(k)], waiters>>
    BY <2>1 DEF Quiet, queueVars
  <2>2. QED
    BY <1>2, <2>1, StepMoves, EnterStep, JoinStep, ReturnStep, GiveUpStep
<1>3. QueueInv /\ [Next]_vars => [Sem!Next]_<<[k \in Keys |-> Holders(k)], waiters>>
  BY <1>2
<1>4. QED
  BY <1>1, <1>3, QueueInvariant, PTL DEF Spec, ImplementsSemaphore, Sem!Spec
=============================================================================
