-------------------------- MODULE ChatRequestsProofs --------------------------
(***************************************************************************)
(* Proofs about chat requests: for any requests, chains of models,         *)
(* providers, limits and credits.                                          *)
(***************************************************************************)
EXTENDS ChatRequests, FiniteSetTheorems, WellFoundedInduction, TLAPS

(* Where a request stands says what it holds and what it has asked for.    *)
Before == {"idle", "resolve", "lookup", "precheck", "acquire", "queued"}
Chained == {"lookup", "precheck", "acquire", "queued", "recheck", "model", "slot"} \cup Holding

Placed(r) ==
    /\ pc[r] = "idle" => r \notin inHandler
    /\ pc[r] \in Before \cup {"done"} => r \notin permit
    /\ pc[r] \in Chained => model[r] \in chain[r]
    /\ pc[r] = "debit" => bills[r] = 1
    /\ r \in paid /\ IdemKey[r] # NoKey => IdemKey[r] \in charged

IInv == ChatInv /\ \A r \in Requests : Placed(r)

(* The parts of the type invariant that concern attempts and clients, and  *)
(* the part of the invariant that concerns money.                          *)
Attempts ==
    /\ chain \in [Requests -> SUBSET Models] /\ model \in [Requests -> Nat]
    /\ list \in [Requests -> SUBSET Nat] /\ provider \in [Requests -> Nat]
    /\ refetched \in [Requests -> 0 .. MaxRefetch]
    /\ retried \in [Requests -> SUBSET {"transport", "silent"}]

Clients ==
    /\ aborted \subseteq Abortable
    /\ sse \in [Requests -> {"none", "open", "closed", "cancelled"}]
    /\ result \in [Requests -> {"none", "ok", "failed"}]

Money ==
    /\ OneBillPerRequest /\ AnswersArePaid /\ PaymentsAreBilled
    /\ \A r \in Requests : IdemKey[r] \in charged =>
          \E q \in paid : IdemKey[q] = IdemKey[r]
    /\ NoKey \notin charged

-----------------------------------------------------------------------------
(* A set of numbers that is not empty has a first one.                     *)
Less == {ss \in Nat \X Nat : ss[1] < ss[2]}

LEMMA FirstIsIn == ASSUME NEW S \in SUBSET Nat, S # {} PROVE First(S) \in S
<1>1. IsWellFoundedOn(Less, Nat)
  BY NatLessThanWellFounded, Zenon DEF OpToRel, Less
<1>2. PICK x \in S : \A y \in S : ~(<<y, x>> \in Less)
  BY <1>1, WFMin
<1>3. \A m, n \in Nat : m < n => <<m, n>> \in Less
  BY DEF Less
<1>4. ASSUME NEW y \in S PROVE x <= y
  <2>1. x \in Nat /\ y \in Nat
    OBVIOUS
  <2>2. ~(y < x)
    BY <1>2, <1>3, <2>1
  <2>3. QED
    BY <2>1, <2>2
<1>5. QED
  BY <1>4 DEF First

LEMMA FirstAfter ==
    ASSUME NEW S \in SUBSET Nat, NEW x, After(S, x) # {}
    PROVE  First(After(S, x)) \in S
<1>1. After(S, x) \in SUBSET Nat
  BY DEF After
<1>2. First(After(S, x)) \in After(S, x)
  BY <1>1, FirstIsIn
<1>3. QED
  BY <1>2 DEF After

LEMMA Goes ==
    ASSUME TypeOK, NEW r \in Requests, NEW p \in Phases, Goto(r, p)
    PROVE  /\ pc' \in [Requests -> Phases] /\ pc'[r] = p
           /\ \A x \in Requests \ {r} : pc'[x] = pc[x]
  BY DEF TypeOK, Goto

(* The three ways the set of attempts under way changes.                   *)
Under == {r \in Requests : pc[r] \in Holding}

LEMMA SlotStays ==
    ASSUME IInv, UNCHANGED permits,
           \A x \in Requests : pc'[x] \in Holding <=> pc[x] \in Holding
    PROVE  SlotsAreCounted'
<1>1. Under' = Under
  BY DEF Under
<1>2. QED
  BY <1>1 DEF IInv, ChatInv, SlotsAreCounted, permits, Under

LEMMA SlotIsTaken ==
    ASSUME IInv, NEW r \in Requests, pc[r] \notin Holding, pc'[r] \in Holding,
           \A x \in Requests \ {r} : pc'[x] = pc[x],
           upstreamInflight < UpstreamLimit, upstreamInflight' = upstreamInflight + 1,
           UNCHANGED <<keyInflight, heavyInflight, inHandler, permit>>
    PROVE  SlotsAreCounted' /\ upstreamInflight' \in Nat
<1>1. Under' = Under \cup {r} /\ r \notin Under
  BY DEF Under
<1>2. IsFiniteSet(Under)
  BY ChatAssumption, FS_Subset DEF Under
<1>3. Cardinality(Under') = Cardinality(Under) + 1
  BY <1>1, <1>2, FS_AddElement
<1>4. upstreamInflight \in Nat /\ upstreamInflight = Cardinality(Under) /\ UpstreamLimit \in Nat
  BY ChatAssumption DEF IInv, ChatInv, TypeOK, SlotsAreCounted, Under
<1>5. upstreamInflight' = Cardinality(Under') /\ upstreamInflight' <= UpstreamLimit
  BY <1>3, <1>4
<1>6. QED
  BY <1>4, <1>5 DEF IInv, ChatInv, SlotsAreCounted, Under

LEMMA SlotIsReturned ==
    ASSUME IInv, NEW r \in Requests, pc[r] \in Holding, pc'[r] \notin Holding,
           \A x \in Requests \ {r} : pc'[x] = pc[x],
           Release, UNCHANGED <<keyInflight, heavyInflight, inHandler, permit>>
    PROVE  SlotsAreCounted' /\ upstreamInflight' \in Nat
<1>1. Under' = Under \ {r} /\ r \in Under
  BY DEF Under
<1>2. IsFiniteSet(Under)
  BY ChatAssumption, FS_Subset DEF Under
<1>3. Cardinality(Under') = Cardinality(Under) - 1 /\ Cardinality(Under') \in Nat
  BY <1>1, <1>2, FS_RemoveElement, FS_CardinalityType
<1>4. /\ upstreamInflight = Cardinality(Under) /\ UpstreamLimit \in Nat
      /\ upstreamInflight <= UpstreamLimit /\ upstreamInflight \in Nat
  BY ChatAssumption DEF IInv, ChatInv, TypeOK, SlotsAreCounted, Under
<1>5. upstreamInflight' = Cardinality(Under') /\ upstreamInflight' <= UpstreamLimit
  BY <1>3, <1>4 DEF Release
<1>6. QED
  BY <1>3, <1>5 DEF IInv, ChatInv, SlotsAreCounted, Under

(* Nothing is billed and no answer is given that is not paid for.          *)
LEMMA MoneyStays ==
    ASSUME IInv, UNCHANGED <<bills, paid, charged>>, NEW r \in Requests,
           pc[r] \in {"debit", "return", "done"} => pc'[r] \in {"debit", "return", "done"},
           result'[r] = "ok" => r \in paid \/ IdemKey[r] \in charged,
           \A x \in Requests \ {r} : pc'[x] = pc[x] /\ result'[x] = result[x]
    PROVE  Money'
<1>1. ASSUME NEW x \in Requests
      PROVE  bills[x] <= (IF pc'[x] \in {"debit", "return", "done"} THEN 1 ELSE 0)
  <2>1. /\ bills[x] \in Nat
        /\ bills[x] <= (IF pc[x] \in {"debit", "return", "done"} THEN 1 ELSE 0)
    BY DEF IInv, ChatInv, TypeOK, OneBillPerRequest
  <2>2. pc[x] \in {"debit", "return", "done"} => pc'[x] \in {"debit", "return", "done"}
    BY <1>1
  <2>3. QED
    BY <2>1, <2>2
<1>2. \A x \in Requests : result'[x] = "ok" => x \in paid \/ IdemKey[x] \in charged
  BY DEF IInv, ChatInv, AnswersArePaid
<1>3. QED
  BY <1>1, <1>2 DEF IInv, ChatInv, Money, OneBillPerRequest, AnswersArePaid, PaymentsAreBilled

(* A request that moves on: what its step must see to.                     *)
LEMMA Moving ==
    ASSUME IInv, NEW r \in Requests, NEW p \in Phases, Goto(r, p),
           UNCHANGED <<keyInflight, heavyInflight, inHandler, permit, billing>>,
           upstreamInflight' \in Nat, SlotsAreCounted', Attempts', Clients',
           \A x \in Requests \ {r} : /\ chain'[x] = chain[x] /\ model'[x] = model[x]
                                     /\ result'[x] = result[x],
           p \in Chained => model'[r] \in chain'[r],
           result'[r] = "ok" => r \in paid \/ IdemKey[r] \in charged,
           p \in Before \cup {"done"} => pc[r] \in Before,
           p # "idle", p # "debit",
           pc[r] \in {"debit", "return", "done"} => p \in {"return", "done"}
    PROVE  IInv'
<1>1. /\ pc' \in [Requests -> Phases] /\ pc'[r] = p
      /\ \A x \in Requests \ {r} : pc'[x] = pc[x]
  BY Goes DEF IInv, ChatInv
<1>2. UNCHANGED <<bills, balance, paid, charged>>
  BY DEF billing
<1>3. Money'
  BY <1>1, <1>2, MoneyStays
<1>4. TypeOK'
  BY <1>1, <1>2 DEF IInv, ChatInv, TypeOK, Attempts, Clients
<1>5. ASSUME NEW x \in Requests PROVE Placed(x)'
  <2>1. Placed(x) /\ Placed(r)
    BY DEF IInv
  <2>2. CASE x = r
    BY <1>1, <1>2, <2>1, <2>2 DEF Placed
  <2>3. CASE x # r
    BY <1>1, <1>2, <2>1, <2>3 DEF Placed
  <2>4. QED
    BY <2>2, <2>3
<1>6. \A x \in Requests : pc'[x] \in {"idle", "done"} => x \notin permit'
  BY <1>5 DEF Placed, Before
<1>7. QED
  BY <1>3, <1>4, <1>5, <1>6 DEF IInv, ChatInv, Money

-----------------------------------------------------------------------------
(* Steps that wait, decide or give up: no slot, no bill, no other model.   *)
Deciding(r) ==
    \/ TurnAway(r) \/ Replay(r) \/ LookupMisses(r) \/ Precheck(r) \/ PrecheckFails(r)
    \/ JoinQueue(r) \/ PermitRefused(r) \/ Recheck(r) \/ NoProvider(r) \/ NoUpstream(r)

LEMMA DecidingKeeps == ASSUME IInv, NEW r \in Requests, Deciding(r) PROVE IInv'
<1>1. UNCHANGED <<permits, attempt, billing, aborted>>
  BY DEF Deciding, TurnAway, Replay, LookupMisses, Precheck, PrecheckFails, JoinQueue,
         PermitRefused, Recheck, NoProvider, NoUpstream, client
<1>2. PICK p \in Phases :
         /\ Goto(r, p)
         /\ pc[r] \notin Holding /\ p \notin Holding
         /\ p \in Chained => pc[r] \in Chained
         /\ p \in Before \cup {"done"} => pc[r] \in Before
         /\ p # "idle" /\ pc[r] \notin {"return", "done"}
  BY DEF Deciding, TurnAway, Replay, LookupMisses, Precheck, PrecheckFails, JoinQueue,
         PermitRefused, Recheck, NoProvider, NoUpstream, Fail, At, Holding, Chained,
         Before, Phases
<1>3. /\ result' \in [Requests -> {"none", "ok", "failed"}]
      /\ result'[r] = "ok" => result[r] = "ok" \/ IdemKey[r] \in charged
      /\ \A x \in Requests \ {r} : result'[x] = result[x]
  <2>1. result \in [Requests -> {"none", "ok", "failed"}]
    BY DEF IInv, ChatInv, TypeOK
  <2>2. \/ result' = result
        \/ result' = [result EXCEPT ![r] = "failed"]
        \/ result' = [result EXCEPT ![r] = "ok"] /\ IdemKey[r] \in charged
    BY DEF Deciding, TurnAway, Replay, LookupMisses, Precheck, PrecheckFails, JoinQueue,
           PermitRefused, Recheck, NoProvider, NoUpstream, Fail
  <2>3. QED
    BY <2>1, <2>2
<1>4. sse' \in [Requests -> {"none", "open", "closed", "cancelled"}]
  BY DEF Deciding, TurnAway, Replay, LookupMisses, Precheck, PrecheckFails, JoinQueue,
         PermitRefused, Recheck, NoProvider, NoUpstream, client, IInv, ChatInv, TypeOK
<1>5. \A x \in Requests : pc'[x] \in Holding <=> pc[x] \in Holding
  BY <1>2, Goes DEF IInv, ChatInv
<1>6. SlotsAreCounted' /\ upstreamInflight' \in Nat
  BY <1>1, <1>5, SlotStays DEF permits, IInv, ChatInv, TypeOK
<1>7. Attempts' /\ Clients'
  BY <1>1, <1>3, <1>4 DEF attempt, IInv, ChatInv, TypeOK, Attempts, Clients
<1>8. UNCHANGED <<chain, model, keyInflight, heavyInflight, inHandler, permit>>
  BY <1>1 DEF attempt, permits
<1>9. pc[r] \in Chained => model[r] \in chain[r]
  BY DEF IInv, Placed
<1>10. result'[r] = "ok" => r \in paid \/ IdemKey[r] \in charged
  BY <1>3 DEF IInv, ChatInv, AnswersArePaid
<1>11. pc[r] # "debit" /\ p # "debit"
  BY <1>2 DEF Holding
<1>12. QED
  BY <1>1, <1>2, <1>3, <1>6, <1>7, <1>8, <1>9, <1>10, <1>11, Moving

(* What is left to say of a step that changes the attempt only.            *)
LEMMA Attempting ==
    ASSUME IInv, NEW r \in Requests, NEW p \in Phases, Goto(r, p),
           UNCHANGED <<keyInflight, heavyInflight, inHandler, permit, client, billing>>,
           upstreamInflight' \in Nat, SlotsAreCounted', Attempts',
           \A x \in Requests \ {r} : chain'[x] = chain[x] /\ model'[x] = model[x],
           \/ result' = result
           \/ result' = [result EXCEPT ![r] = "failed"],
           p \in Chained => model'[r] \in chain'[r],
           p \notin Before \cup {"debit", "done"} \/ (p \in Before /\ pc[r] \in Before /\ p # "idle"),
           pc[r] \in {"debit", "return", "done"} => p \in {"return", "done"}
    PROVE  IInv'
<1>1. /\ result' \in [Requests -> {"none", "ok", "failed"}]
      /\ result'[r] = "ok" => result[r] = "ok"
      /\ \A x \in Requests \ {r} : result'[x] = result[x]
  BY DEF IInv, ChatInv, TypeOK
<1>2. Clients'
  BY <1>1 DEF client, IInv, ChatInv, TypeOK, Clients
<1>3. result'[r] = "ok" => r \in paid \/ IdemKey[r] \in charged
  BY <1>1 DEF IInv, ChatInv, AnswersArePaid
<1>4. p # "idle" /\ p # "debit" /\ (p \in Before \cup {"done"} => pc[r] \in Before)
  BY DEF Before
<1>5. QED
  BY <1>1, <1>2, <1>3, <1>4, Moving

LEMMA ResolveKeeps == ASSUME IInv, NEW r \in Requests, Resolve(r) PROVE IInv'
<1>1. PICK S : /\ S \in (IF r \in Alias THEN SUBSET Chain[r] ELSE {Chain[r]})
               /\ chain' = [chain EXCEPT ![r] = S]
               /\ IF S = {} THEN Fail(r) /\ UNCHANGED model
                  ELSE /\ model' = [model EXCEPT ![r] = First(S)]
                       /\ Goto(r, "lookup") /\ UNCHANGED result
  BY DEF Resolve
<1>2. /\ pc[r] = "resolve"
      /\ UNCHANGED <<permits, list, provider, refetched, retried, client, billing>>
  BY DEF Resolve, At
<1>3. S \in SUBSET Models /\ S \in SUBSET Nat
  BY <1>1, ChatAssumption
<1>4. PICK p \in {"return", "lookup"} :
         /\ Goto(r, p) /\ (p = "return" <=> S = {})
         /\ S = {} => result' = [result EXCEPT ![r] = "failed"] /\ model' = model
         /\ S # {} => result' = result /\ model' = [model EXCEPT ![r] = First(S)]
  BY <1>1 DEF Fail
<1>5. p \in Phases /\ p \notin Holding /\ pc[r] \notin Holding /\ (p \in Chained => S # {})
  BY <1>2, <1>4 DEF Phases, Holding, Chained
<1>6. S # {} => First(S) \in S
  BY <1>3, FirstIsIn
<1>7. /\ Attempts' /\ chain'[r] = S /\ (S # {} => model'[r] = First(S))
      /\ \A x \in Requests \ {r} : chain'[x] = chain[x] /\ model'[x] = model[x]
  <2>1. Attempts
    BY DEF IInv, ChatInv, TypeOK, Attempts
  <2>2. chain' \in [Requests -> SUBSET Models] /\ chain'[r] = S
        /\ \A x \in Requests \ {r} : chain'[x] = chain[x]
    BY <1>1, <1>3, <2>1 DEF Attempts
  <2>3. /\ model' \in [Requests -> Nat] /\ (S # {} => model'[r] = First(S))
        /\ \A x \in Requests \ {r} : model'[x] = model[x]
    BY <1>3, <1>4, <1>6, <2>1 DEF Attempts
  <2>4. QED
    BY <1>2, <2>1, <2>2, <2>3 DEF Attempts
<1>8. \A x \in Requests : pc'[x] \in Holding <=> pc[x] \in Holding
  BY <1>4, <1>5, Goes DEF IInv, ChatInv
<1>9. SlotsAreCounted' /\ upstreamInflight' \in Nat
  BY <1>2, <1>8, SlotStays DEF permits, IInv, ChatInv, TypeOK
<1>10. UNCHANGED <<keyInflight, heavyInflight, inHandler, permit, client, billing>>
  BY <1>2 DEF permits
<1>11. p \in Chained => model'[r] \in chain'[r]
  BY <1>5, <1>6, <1>7
<1>12. p \notin Before \cup {"debit", "done"} \/ (p \in Before /\ pc[r] \in Before /\ p # "idle")
  BY <1>2, <1>4 DEF Before
<1>13. QED
  BY <1>2, <1>4, <1>5, <1>7, <1>9, <1>10, <1>11, <1>12, Attempting

(* The choice of a provider, or of the next model if there is none.        *)
LEMMA SelectProvidersKeeps == ASSUME IInv, NEW r \in Requests, SelectProviders(r) PROVE IInv'
<1>1. PICK L : /\ L \in (SUBSET ProvidersOf[model[r]]) \ {{}}
               /\ list' = [list EXCEPT ![r] = L]
               /\ provider' = [provider EXCEPT ![r] = First(L)]
  BY DEF SelectProviders
<1>2. /\ pc[r] = "model" /\ Goto(r, "slot")
      /\ UNCHANGED <<permits, chain, model, refetched, retried, client, result, billing>>
  BY DEF SelectProviders, At
<1>3. Attempts /\ model[r] \in chain[r]
  BY <1>2 DEF IInv, ChatInv, TypeOK, Attempts, Placed, Chained
<1>4. model[r] \in Models
  BY <1>3 DEF Attempts
<1>5. ProvidersOf[model[r]] \in SUBSET Nat
  BY <1>4, ChatAssumption
<1>6. L \in SUBSET Nat /\ First(L) \in Nat
  <2> DEFINE Providing == ProvidersOf[model[r]]
  <2>0. L \in SUBSET Providing /\ L # {}
    <3>1. L \in (SUBSET Providing) \ {{}}
      BY <1>1
    <3> HIDE DEF Providing
    <3>2. QED
      BY <3>1
  <2>1. L \in SUBSET Nat /\ L # {}
    <3>1. Providing \in SUBSET Nat
      BY <1>5
    <3> HIDE DEF Providing
    <3>2. QED
      BY <3>1, <2>0
  <2>2. First(L) \in L
    BY <2>1, FirstIsIn
  <2>3. QED
    BY <2>1, <2>2
<1>7. Attempts'
  BY <1>1, <1>2, <1>3, <1>6 DEF Attempts
<1>8. /\ "slot" \in Phases /\ "slot" \notin Holding /\ pc[r] \notin Holding
      /\ "slot" \notin Before \cup {"debit", "done"}
  BY <1>2 DEF Phases, Holding, Before
<1>9. \A x \in Requests : pc'[x] \in Holding <=> pc[x] \in Holding
  BY <1>2, <1>8, Goes DEF IInv, ChatInv
<1>10. SlotsAreCounted' /\ upstreamInflight' \in Nat
  BY <1>2, <1>9, SlotStays DEF permits, IInv, ChatInv, TypeOK
<1>11. UNCHANGED <<keyInflight, heavyInflight, inHandler, permit, client, billing>>
  BY <1>2 DEF permits
<1>12. QED
  BY <1>2, <1>3, <1>7, <1>8, <1>10, <1>11, Attempting

LEMMA NextModelIs ==
    ASSUME IInv, NEW r \in Requests, pc[r] \in Chained, After(chain[r], model[r]) # {},
           model' = [model EXCEPT ![r] = First(After(chain[r], @))],
           UNCHANGED <<chain, list, provider, refetched, retried>>
    PROVE  /\ Attempts' /\ model'[r] \in chain'[r]
           /\ \A x \in Requests \ {r} : chain'[x] = chain[x] /\ model'[x] = model[x]
<1>1. Attempts /\ chain[r] \in SUBSET Models
  BY DEF IInv, ChatInv, TypeOK, Attempts
<1>2. chain[r] \in SUBSET Nat
  BY <1>1, ChatAssumption
<1>3. First(After(chain[r], model[r])) \in chain[r]
  BY <1>2, FirstAfter
<1>4. model'[r] = First(After(chain[r], model[r])) /\ model' \in [Requests -> Nat]
      /\ \A x \in Requests \ {r} : model'[x] = model[x]
  BY <1>1, <1>2, <1>3 DEF Attempts
<1>5. QED
  BY <1>1, <1>3, <1>4 DEF Attempts

LEMMA SkipModelKeeps == ASSUME IInv, NEW r \in Requests, SkipModel(r) PROVE IInv'
<1>1. /\ pc[r] = "model" /\ pc' = pc /\ After(chain[r], model[r]) # {}
      /\ model' = [model EXCEPT ![r] = First(After(chain[r], @))]
      /\ UNCHANGED <<permits, chain, list, provider, refetched, retried, client, result, billing>>
  BY DEF SkipModel, At
<1>2. /\ "model" \in Phases /\ "model" \in Chained
      /\ "model" \notin Before \cup {"debit", "done"}
  BY DEF Phases, Chained, Before
<1>3. Goto(r, "model")
  BY <1>1 DEF Goto, IInv, ChatInv, TypeOK
<1>4. /\ Attempts' /\ model'[r] \in chain'[r]
      /\ \A x \in Requests \ {r} : chain'[x] = chain[x] /\ model'[x] = model[x]
  BY <1>1, <1>2, NextModelIs
<1>5. SlotsAreCounted' /\ upstreamInflight' \in Nat
  BY <1>1, SlotStays DEF permits, IInv, ChatInv, TypeOK
<1>6. UNCHANGED <<keyInflight, heavyInflight, inHandler, permit, client, billing>>
  BY <1>1 DEF permits
<1>7. QED
  BY <1>1, <1>2, <1>3, <1>4, <1>5, <1>6, Attempting

-----------------------------------------------------------------------------
(* An attempt under way.                                                   *)
LEMMA AcquireUpstreamKeeps == ASSUME IInv, NEW r \in Requests, AcquireUpstream(r) PROVE IInv'
<1>1. /\ pc[r] = "slot" /\ Goto(r, "fetch")
      /\ upstreamInflight < UpstreamLimit /\ upstreamInflight' = upstreamInflight + 1
      /\ refetched' = [refetched EXCEPT ![r] = 0]
      /\ UNCHANGED <<keyInflight, heavyInflight, inHandler, permit, chain, model, list,
                     provider, retried, client, result, billing>>
  BY DEF AcquireUpstream, At
<1>2. /\ "fetch" \in Phases /\ "fetch" \in Holding /\ "slot" \notin Holding
      /\ "slot" \in Chained /\ "fetch" \notin Before \cup {"debit", "done"}
  BY DEF Phases, Holding, Chained, Before
<1>3. Attempts'
  BY <1>1, ChatAssumption DEF IInv, ChatInv, TypeOK, Attempts
<1>4. /\ pc'[r] = "fetch" /\ \A x \in Requests \ {r} : pc'[x] = pc[x]
  BY <1>1, <1>2, Goes DEF IInv, ChatInv
<1>5. SlotsAreCounted' /\ upstreamInflight' \in Nat
  BY <1>1, <1>2, <1>4, SlotIsTaken
<1>6. model'[r] \in chain'[r]
  BY <1>1, <1>2 DEF IInv, Placed
<1>7. QED
  BY <1>1, <1>2, <1>3, <1>5, <1>6, Attempting

Fetching(r) == Fetch(r) \/ ProviderAnswers(r) \/ Refetch(r) \/ RetrySilent(r)

LEMMA FetchingKeeps == ASSUME IInv, NEW r \in Requests, Fetching(r) PROVE IInv'
<1>1. UNCHANGED <<permits, chain, model, list, provider, client, result, billing>>
  BY DEF Fetching, Fetch, ProviderAnswers, Refetch, RetrySilent, attempt
<1>2. PICK p \in {"fetch", "upstream", "answered"} :
         Goto(r, p) /\ pc[r] \in {"fetch", "upstream", "answered"}
  BY DEF Fetching, Fetch, ProviderAnswers, Refetch, RetrySilent, At
<1>3. /\ p \in Phases /\ p \in Holding /\ pc[r] \in Holding /\ pc[r] \in Chained
      /\ p \notin Before \cup {"debit", "done"} /\ pc[r] \notin {"debit", "return", "done"}
  BY <1>2 DEF Phases, Holding, Chained, Before
<1>4. Attempts'
  <2>1. Attempts
    BY DEF IInv, ChatInv, TypeOK, Attempts
  <2>2. refetched' \in [Requests -> 0 .. MaxRefetch]
    BY <2>1, ChatAssumption
       DEF Attempts, Fetching, Fetch, ProviderAnswers, Refetch, RetrySilent, attempt
  <2>3. retried' \in [Requests -> SUBSET {"transport", "silent"}]
    BY <2>1 DEF Attempts, Fetching, Fetch, ProviderAnswers, Refetch, RetrySilent, attempt
  <2>4. QED
    BY <1>1, <2>1, <2>2, <2>3 DEF Attempts
<1>5. \A x \in Requests : pc'[x] \in Holding <=> pc[x] \in Holding
  BY <1>2, <1>3, Goes DEF IInv, ChatInv
<1>6. SlotsAreCounted' /\ upstreamInflight' \in Nat
  BY <1>1, <1>5, SlotStays DEF permits, IInv, ChatInv, TypeOK
<1>7. UNCHANGED <<keyInflight, heavyInflight, inHandler, permit, client, billing>>
  BY <1>1 DEF permits
<1>8. model'[r] \in chain'[r]
  BY <1>1, <1>3 DEF IInv, Placed
<1>9. QED
  BY <1>1, <1>2, <1>3, <1>4, <1>6, <1>7, <1>8, Attempting

(* The end of an attempt that has not been billed returns its slot.        *)
LEMMA Ending ==
    ASSUME IInv, NEW r \in Requests, NEW p \in {"slot", "model", "return"}, Goto(r, p),
           pc[r] \in Holding, pc[r] = "debit" => p = "return", Release,
           UNCHANGED <<keyInflight, heavyInflight, inHandler, permit, client, billing>>,
           Attempts', \A x \in Requests \ {r} : chain'[x] = chain[x] /\ model'[x] = model[x],
           \/ result' = result
           \/ result' = [result EXCEPT ![r] = "failed"],
           p # "return" => model'[r] \in chain'[r]
    PROVE  IInv'
<1>1. /\ p \in Phases /\ p \notin Holding /\ p \notin Before \cup {"debit", "done"}
      /\ "return" \notin Chained /\ pc[r] \notin {"return", "done"}
  BY DEF Phases, Holding, Before, Chained
<1>2. pc'[r] = p /\ \A x \in Requests \ {r} : pc'[x] = pc[x]
  BY <1>1, Goes DEF IInv, ChatInv
<1>3. SlotsAreCounted' /\ upstreamInflight' \in Nat
  BY <1>1, <1>2, SlotIsReturned
<1>4. QED
  BY <1>1, <1>3, Attempting

LEMMA Erring ==
    ASSUME NEW r, Errors(r) # {}
    PROVE  pc[r] \in {"upstream", "answered"} /\ pc[r] \in Holding /\ pc[r] \in Chained
<1>1. pc[r] \in {"upstream", "answered"}
  BY DEF Errors, At
<1>2. QED
  BY <1>1 DEF Holding, Chained

LEMMA NextProviderKeeps == ASSUME IInv, NEW r \in Requests, NextProvider(r) PROVE IInv'
<1>1. /\ Errors(r) # {} /\ After(list[r], provider[r]) # {} /\ Goto(r, "slot") /\ Release
      /\ provider' = [provider EXCEPT ![r] = First(After(list[r], @))]
      /\ UNCHANGED <<keyInflight, heavyInflight, inHandler, permit, chain, model, list,
                     refetched, retried, client, result, billing>>
  BY DEF NextProvider
<1>2. pc[r] \in {"upstream", "answered"} /\ pc[r] \in Holding /\ pc[r] \in Chained
  BY <1>1, Erring
<1>3. Attempts /\ model[r] \in chain[r]
  BY <1>2 DEF IInv, ChatInv, TypeOK, Attempts, Placed
<1>4. First(After(list[r], provider[r])) \in list[r] /\ list[r] \in SUBSET Nat
  BY <1>1, <1>3, FirstAfter DEF Attempts
<1>5. Attempts'
  BY <1>1, <1>3, <1>4 DEF Attempts
<1>6. QED
  BY <1>1, <1>2, <1>3, <1>5, Ending

LEMMA RetryProviderKeeps == ASSUME IInv, NEW r \in Requests, RetryProvider(r) PROVE IInv'
<1>1. /\ Errors(r) # {} /\ Goto(r, "slot") /\ Release
      /\ retried' = [retried EXCEPT ![r] = @ \cup {"transport"}]
      /\ UNCHANGED <<keyInflight, heavyInflight, inHandler, permit, chain, model, list,
                     provider, refetched, client, result, billing>>
  BY DEF RetryProvider
<1>2. pc[r] \in {"upstream", "answered"} /\ pc[r] \in Holding /\ pc[r] \in Chained
  BY <1>1, Erring
<1>3. Attempts /\ model[r] \in chain[r]
  BY <1>2 DEF IInv, ChatInv, TypeOK, Attempts, Placed
<1>4. Attempts'
  BY <1>1, <1>3 DEF Attempts
<1>5. QED
  BY <1>1, <1>2, <1>3, <1>4, Ending

LEMMA NextModelKeeps == ASSUME IInv, NEW r \in Requests, NextModel(r) PROVE IInv'
<1>1. /\ Errors(r) # {} /\ After(chain[r], model[r]) # {} /\ Goto(r, "model") /\ Release
      /\ model' = [model EXCEPT ![r] = First(After(chain[r], @))]
      /\ UNCHANGED <<keyInflight, heavyInflight, inHandler, permit, chain, list,
                     provider, refetched, retried, client, result, billing>>
  BY DEF NextModel
<1>2. pc[r] \in {"upstream", "answered"} /\ pc[r] \in Holding /\ pc[r] \in Chained
  BY <1>1, Erring
<1>3. /\ Attempts' /\ model'[r] \in chain'[r]
      /\ \A x \in Requests \ {r} : chain'[x] = chain[x] /\ model'[x] = model[x]
  BY <1>1, <1>2, NextModelIs
<1>4. QED
  BY <1>1, <1>2, <1>3, Ending

Failing(r) == AttemptsFail(r) \/ ClientAborted(r) \/ DebitFails(r)

LEMMA FailingKeeps == ASSUME IInv, NEW r \in Requests, Failing(r) PROVE IInv'
<1>1. /\ Fail(r) /\ Release
      /\ UNCHANGED <<keyInflight, heavyInflight, inHandler, permit, attempt, client, billing>>
  BY DEF Failing, AttemptsFail, ClientAborted, DebitFails
<1>2. Errors(r) # {} \/ pc[r] \in {"fetch", "upstream", "answered", "debit"}
  BY DEF Failing, AttemptsFail, ClientAborted, DebitFails, At
<1>3. pc[r] \in Holding
  BY <1>2, Erring DEF Holding
<1>4. Attempts' /\ UNCHANGED <<chain, model>>
  BY <1>1 DEF attempt, IInv, ChatInv, TypeOK, Attempts
<1>5. Goto(r, "return") /\ result' = [result EXCEPT ![r] = "failed"]
  BY <1>1 DEF Fail
<1>6. QED
  BY <1>1, <1>3, <1>4, <1>5, Ending

-----------------------------------------------------------------------------
(* The debit.                                                              *)
LEMMA SendDebitKeeps == ASSUME IInv, NEW r \in Requests, SendDebit(r) PROVE IInv'
<1>1. /\ pc[r] = "answered" /\ bills' = [bills EXCEPT ![r] = @ + 1] /\ Goto(r, "debit")
      /\ UNCHANGED <<permits, attempt, client, result, balance, paid, charged>>
  BY DEF SendDebit, At
<1>2. /\ "debit" \in Phases /\ "debit" \in Holding /\ "answered" \in Holding
      /\ "debit" \notin Before \cup {"idle", "done"} /\ "answered" \in Chained
  BY DEF Phases, Holding, Before, Chained
<1>3. /\ pc' \in [Requests -> Phases] /\ pc'[r] = "debit"
      /\ \A x \in Requests \ {r} : pc'[x] = pc[x]
  BY <1>1, <1>2, Goes DEF IInv, ChatInv
<1>4. bills[r] \in Nat /\ bills[r] <= 0
  BY <1>1 DEF IInv, ChatInv, TypeOK, OneBillPerRequest
<1>5. /\ bills' \in [Requests -> Nat] /\ bills'[r] = 1
      /\ \A x \in Requests \ {r} : bills'[x] = bills[x]
  BY <1>1, <1>4 DEF IInv, ChatInv, TypeOK
<1>6. UNCHANGED <<keyInflight, heavyInflight, upstreamInflight, inHandler, permit,
                  chain, model, list, provider, refetched, retried, aborted, sse>>
  BY <1>1 DEF permits, attempt, client
<1>7. TypeOK'
  BY <1>1, <1>3, <1>5, <1>6 DEF IInv, ChatInv, TypeOK
<1>8. \A x \in Requests : pc'[x] \in Holding <=> pc[x] \in Holding
  BY <1>1, <1>2, <1>3
<1>9. SlotsAreCounted'
  BY <1>1, <1>8, SlotStays
<1>10. OneBillPerRequest'
  BY <1>3, <1>5 DEF IInv, ChatInv, OneBillPerRequest
<1>11. PaymentsAreBilled'
  BY <1>1, <1>4, <1>5 DEF IInv, ChatInv, PaymentsAreBilled
<1>12. AnswersArePaid' /\ Money'
  BY <1>1, <1>10, <1>11 DEF IInv, ChatInv, AnswersArePaid, Money
<1>13. ASSUME NEW x \in Requests PROVE Placed(x)'
  <2>1. Placed(x) /\ Placed(r)
    BY DEF IInv
  <2>2. CASE x = r
    BY <1>1, <1>2, <1>3, <1>5, <1>6, <2>1, <2>2 DEF Placed
  <2>3. CASE x # r
    BY <1>1, <1>3, <1>5, <1>6, <2>1, <2>3 DEF Placed
  <2>4. QED
    BY <2>2, <2>3
<1>14. \A x \in Requests : pc'[x] \in {"idle", "done"} => x \notin permit'
  BY <1>13 DEF Placed, Before
<1>15. QED
  BY <1>7, <1>9, <1>12, <1>13, <1>14 DEF IInv, ChatInv, Money

(* A key that has no charge yet has no payment either.                     *)
LEMMA DebitCommitsKeeps == ASSUME IInv, NEW r \in Requests, DebitCommits(r) PROVE IInv'
<1>1. /\ pc[r] = "debit" /\ Goto(r, "return") /\ Release
      /\ UNCHANGED <<keyInflight, heavyInflight, inHandler, permit, attempt, client, bills>>
  BY DEF DebitCommits, At
<1>2. /\ "return" \in Phases /\ "return" \notin Holding /\ "debit" \in Holding
      /\ "return" \notin Before \cup Chained \cup {"idle", "done", "debit"}
  BY DEF Phases, Holding, Before, Chained
<1>3. /\ pc' \in [Requests -> Phases] /\ pc'[r] = "return"
      /\ \A x \in Requests \ {r} : pc'[x] = pc[x]
  BY <1>1, <1>2, Goes DEF IInv, ChatInv
<1>4. SlotsAreCounted' /\ upstreamInflight' \in Nat
  BY <1>1, <1>2, <1>3, SlotIsReturned
<1>5. /\ result' \in [Requests -> {"none", "ok", "failed"}]
      /\ \A x \in Requests \ {r} : result'[x] = result[x]
  BY DEF DebitCommits, IInv, ChatInv, TypeOK
<1>6. UNCHANGED <<chain, model, list, provider, refetched, retried, aborted, sse>>
  BY <1>1 DEF attempt, client
<1>7. OneBillPerRequest'
  <2>1. ASSUME NEW x \in Requests
        PROVE  bills[x] <= (IF pc'[x] \in {"debit", "return", "done"} THEN 1 ELSE 0)
    BY <1>1, <1>3 DEF IInv, ChatInv, OneBillPerRequest
  <2>2. QED
    BY <1>1, <2>1 DEF OneBillPerRequest
<1>8. bills[r] = 1
  BY <1>1 DEF IInv, Placed
<1>9. CASE IdemKey[r] \in charged
  <2>1. UNCHANGED <<balance, paid, charged>>
    BY <1>9 DEF DebitCommits
  <2>2. TypeOK'
    BY <1>1, <1>3, <1>4, <1>5, <1>6, <2>1 DEF IInv, ChatInv, TypeOK
  <2>3. AnswersArePaid' /\ PaymentsAreBilled'
    BY <1>1, <1>5, <1>9, <2>1 DEF IInv, ChatInv, AnswersArePaid, PaymentsAreBilled
  <2>4. ASSUME NEW x \in Requests PROVE Placed(x)'
    BY <1>1, <1>2, <1>3, <1>6, <2>1 DEF IInv, Placed
  <2>5. \A x \in Requests : pc'[x] \in {"idle", "done"} => x \notin permit'
    BY <2>4 DEF Placed, Before
  <2>6. QED
    BY <1>4, <1>7, <2>1, <2>2, <2>3, <2>4, <2>5 DEF IInv, ChatInv
<1>10. CASE IdemKey[r] \notin charged
  <2>1. /\ balance > 0 /\ balance' = balance - 1 /\ paid' = paid \cup {r}
        /\ charged' = charged \cup ({IdemKey[r]} \ {NoKey})
    BY <1>10 DEF DebitCommits
  <2>2. balance' \in Nat /\ paid' \subseteq Requests /\ charged' \subseteq Keys
    BY <2>1 DEF IInv, ChatInv, TypeOK, Keys
  <2>3. TypeOK'
    BY <1>1, <1>3, <1>4, <1>5, <1>6, <2>2 DEF IInv, ChatInv, TypeOK
  <2>4. \A q \in paid : IdemKey[q] # IdemKey[r] \/ IdemKey[r] = NoKey
    BY <1>10 DEF IInv, ChatInv, TypeOK, Placed
  <2>5. \A x \in Requests : result'[x] = "ok" => x \in paid' \/ IdemKey[x] \in charged'
    BY <1>5, <2>1 DEF IInv, ChatInv, AnswersArePaid
  <2>6. \A q, x \in paid' : q # x => IdemKey[q] # IdemKey[x] \/ IdemKey[x] = NoKey
    BY <2>1, <2>4 DEF IInv, ChatInv, AnswersArePaid
  <2>7. AnswersArePaid' /\ PaymentsAreBilled'
    BY <1>1, <1>8, <2>1, <2>5, <2>6 DEF IInv, ChatInv, AnswersArePaid, PaymentsAreBilled
  <2>8. ASSUME NEW x \in Requests PROVE Placed(x)'
    <3>1. Placed(x)
      BY DEF IInv
    <3>2. CASE x = r
      BY <1>1, <1>2, <1>3, <1>6, <2>1, <3>1, <3>2 DEF Placed
    <3>3. CASE x # r
      BY <1>1, <1>3, <1>6, <2>1, <3>1, <3>3 DEF Placed
    <3>4. QED
      BY <3>2, <3>3
  <2>9. \A x \in Requests : pc'[x] \in {"idle", "done"} => x \notin permit'
    BY <2>8 DEF Placed, Before
  <2>10. \A x \in Requests : IdemKey[x] \in charged' => \E q \in paid' : IdemKey[q] = IdemKey[x]
    BY <2>1 DEF IInv, ChatInv
  <2>11. NoKey \notin charged'
    BY <2>1 DEF IInv, ChatInv
  <2>12. QED
    BY <1>4, <1>7, <2>3, <2>7, <2>8, <2>9, <2>10, <2>11 DEF IInv, ChatInv
<1>11. QED
  BY <1>9, <1>10

-----------------------------------------------------------------------------
(* The slot of the key and the heavy permit.                               *)
LEMMA EnterKeeps == ASSUME IInv, NEW r \in Requests, Enter(r) PROVE IInv'
<1>1. /\ pc[r] = "idle" /\ keyInflight < KeyLimit /\ keyInflight' = keyInflight + 1
      /\ inHandler' = inHandler \cup {r} /\ Goto(r, "resolve")
      /\ UNCHANGED <<heavyInflight, upstreamInflight, permit, attempt, client, result, billing>>
  BY DEF Enter, At
<1>2. /\ "resolve" \in Phases /\ "resolve" \notin Holding /\ "idle" \notin Holding
      /\ "resolve" \notin Chained \cup {"idle", "debit", "return", "done"} /\ "idle" \in Before
  BY DEF Phases, Holding, Before, Chained
<1>3. /\ pc' \in [Requests -> Phases] /\ pc'[r] = "resolve"
      /\ \A x \in Requests \ {r} : pc'[x] = pc[x]
  BY <1>1, <1>2, Goes DEF IInv, ChatInv
<1>4. r \notin inHandler /\ IsFiniteSet(inHandler) /\ inHandler \subseteq Requests
  BY <1>1, ChatAssumption, FS_Subset DEF IInv, ChatInv, TypeOK, Placed
<1>5. Cardinality(inHandler') = Cardinality(inHandler) + 1
  BY <1>1, <1>4, FS_AddElement
<1>6. UNCHANGED <<chain, model, list, provider, refetched, retried, aborted, sse, result,
                  bills, balance, paid, charged>>
  BY <1>1 DEF attempt, client, billing
<1>7. keyInflight \in Nat /\ KeyLimit \in Nat /\ keyInflight = Cardinality(inHandler)
  BY ChatAssumption DEF IInv, ChatInv, TypeOK, SlotsAreCounted
<1>8. keyInflight' \in Nat /\ keyInflight' = Cardinality(inHandler') /\ keyInflight' <= KeyLimit
  BY <1>1, <1>5, <1>7
<1>9. TypeOK'
  BY <1>1, <1>3, <1>4, <1>6, <1>8 DEF IInv, ChatInv, TypeOK
<1>10. Under' = Under
  BY <1>1, <1>2, <1>3 DEF Under
<1>11. SlotsAreCounted'
  BY <1>1, <1>8, <1>10 DEF IInv, ChatInv, SlotsAreCounted, Under
<1>12. Money'
  BY <1>1, <1>3, <1>6, MoneyStays DEF IInv, ChatInv, AnswersArePaid
<1>13. ASSUME NEW x \in Requests PROVE Placed(x)'
  <2>1. Placed(x)
    BY DEF IInv
  <2>2. CASE x = r
    BY <1>1, <1>2, <1>3, <1>6, <2>1, <2>2 DEF Placed
  <2>3. CASE x # r
    BY <1>1, <1>3, <1>6, <2>1, <2>3 DEF Placed
  <2>4. QED
    BY <2>2, <2>3
<1>14. \A x \in Requests : pc'[x] \in {"idle", "done"} => x \notin permit'
  BY <1>13 DEF Placed, Before
<1>15. QED
  BY <1>9, <1>11, <1>12, <1>13, <1>14 DEF IInv, ChatInv, Money

LEMMA HandlerReturnsKeeps == ASSUME IInv, NEW r \in Requests, HandlerReturns(r) PROVE IInv'
<1>1. /\ r \in inHandler /\ keyInflight' = keyInflight - 1 /\ inHandler' = inHandler \ {r}
      /\ UNCHANGED <<pc, heavyInflight, upstreamInflight, permit, attempt, client, result, billing>>
  BY DEF HandlerReturns
<1>2. IsFiniteSet(inHandler)
  BY ChatAssumption, FS_Subset DEF IInv, ChatInv, TypeOK
<1>3. /\ Cardinality(inHandler') = Cardinality(inHandler) - 1
      /\ Cardinality(inHandler') \in Nat
  BY <1>1, <1>2, FS_RemoveElement, FS_CardinalityType
<1>4. /\ keyInflight \in Nat /\ KeyLimit \in Nat /\ keyInflight = Cardinality(inHandler)
      /\ keyInflight <= KeyLimit
  BY ChatAssumption DEF IInv, ChatInv, TypeOK, SlotsAreCounted
<1>5. keyInflight' \in Nat /\ keyInflight' = Cardinality(inHandler') /\ keyInflight' <= KeyLimit
  BY <1>1, <1>3, <1>4
<1>6. UNCHANGED <<chain, model, list, provider, refetched, retried, aborted, sse, result,
                  bills, balance, paid, charged>>
  BY <1>1 DEF attempt, client, billing
<1>7. TypeOK'
  BY <1>1, <1>5, <1>6 DEF IInv, ChatInv, TypeOK
<1>8. SlotsAreCounted'
  BY <1>1, <1>5 DEF IInv, ChatInv, SlotsAreCounted
<1>9. Money'
  BY <1>1, <1>6, MoneyStays DEF IInv, ChatInv, AnswersArePaid
<1>10. \A x \in Requests : Placed(x)'
  BY <1>1, <1>6 DEF IInv, Placed
<1>11. QED
  BY <1>1, <1>7, <1>8, <1>9, <1>10 DEF IInv, ChatInv, Money

LEMMA AcquirePermitKeeps == ASSUME IInv, NEW r \in Requests, AcquirePermit(r) PROVE IInv'
<1>1. /\ pc[r] \in {"acquire", "queued"} /\ heavyInflight < HeavyLimit
      /\ heavyInflight' = heavyInflight + 1 /\ permit' = permit \cup {r}
      /\ UNCHANGED <<keyInflight, upstreamInflight, inHandler, attempt, client, result, billing>>
  BY DEF AcquirePermit, At
<1>2. PICK p \in {"recheck", "model"} : Goto(r, p)
  BY DEF AcquirePermit
<1>3. /\ p \in Phases /\ p \notin Holding /\ pc[r] \notin Holding /\ pc[r] \in Before \cap Chained
      /\ p \notin Before \cup {"debit", "return", "done"} /\ p # "idle"
  BY <1>1, <1>2 DEF Phases, Holding, Before, Chained
<1>4. /\ pc' \in [Requests -> Phases] /\ pc'[r] = p
      /\ \A x \in Requests \ {r} : pc'[x] = pc[x]
  BY <1>2, <1>3, Goes DEF IInv, ChatInv
<1>5. r \notin permit /\ IsFiniteSet(permit) /\ permit \subseteq Requests
  BY <1>3, ChatAssumption, FS_Subset DEF IInv, ChatInv, TypeOK, Placed
<1>6. Cardinality(permit') = Cardinality(permit) + 1
  BY <1>1, <1>5, FS_AddElement
<1>7. heavyInflight \in Nat /\ HeavyLimit \in Nat /\ heavyInflight = Cardinality(permit)
  BY ChatAssumption DEF IInv, ChatInv, TypeOK, SlotsAreCounted
<1>8. /\ heavyInflight' \in Nat /\ heavyInflight' = Cardinality(permit')
      /\ heavyInflight' <= HeavyLimit
  BY <1>1, <1>6, <1>7
<1>9. UNCHANGED <<chain, model, list, provider, refetched, retried, aborted, sse, result,
                  bills, balance, paid, charged>>
  BY <1>1 DEF attempt, client, billing
<1>10. TypeOK'
  BY <1>1, <1>4, <1>5, <1>8, <1>9 DEF IInv, ChatInv, TypeOK
<1>11. Under' = Under
  BY <1>3, <1>4 DEF Under
<1>12. SlotsAreCounted'
  BY <1>1, <1>8, <1>11 DEF IInv, ChatInv, SlotsAreCounted, Under
<1>13. Money'
  BY <1>1, <1>4, <1>9, MoneyStays DEF IInv, ChatInv, AnswersArePaid
<1>14. ASSUME NEW x \in Requests PROVE Placed(x)'
  <2>1. Placed(x)
    BY DEF IInv
  <2>2. CASE x = r
    BY <1>1, <1>3, <1>4, <1>9, <2>1, <2>2 DEF Placed
  <2>3. CASE x # r
    BY <1>1, <1>4, <1>9, <2>1, <2>3 DEF Placed
  <2>4. QED
    BY <2>2, <2>3
<1>15. \A x \in Requests : pc'[x] \in {"idle", "done"} => x \notin permit'
  BY <1>14 DEF Placed, Before
<1>16. QED
  BY <1>10, <1>12, <1>13, <1>14, <1>15 DEF IInv, ChatInv, Money

LEMMA ReturnKeeps == ASSUME IInv, NEW r \in Requests, Return(r) PROVE IInv'
<1>1. /\ pc[r] = "return" /\ Goto(r, "done") /\ permit' = permit \ {r}
      /\ heavyInflight' = IF r \in permit THEN heavyInflight - 1 ELSE heavyInflight
      /\ UNCHANGED <<keyInflight, upstreamInflight, inHandler, aborted, result, billing>>
  BY DEF Return, At
<1>2. /\ "done" \in Phases /\ "done" \notin Holding /\ "return" \notin Holding
      /\ "done" \notin Chained \cup {"idle", "debit"}
  BY DEF Phases, Holding, Chained
<1>3. /\ pc' \in [Requests -> Phases] /\ pc'[r] = "done"
      /\ \A x \in Requests \ {r} : pc'[x] = pc[x]
  BY <1>1, <1>2, Goes DEF IInv, ChatInv
<1>4. IsFiniteSet(permit)
  BY ChatAssumption, FS_Subset DEF IInv, ChatInv, TypeOK
<1>5. /\ Cardinality(permit') = IF r \in permit THEN Cardinality(permit) - 1
                                               ELSE Cardinality(permit)
      /\ Cardinality(permit') \in Nat
  BY <1>1, <1>4, FS_RemoveElement, FS_CardinalityType
<1>6. /\ heavyInflight \in Nat /\ HeavyLimit \in Nat /\ heavyInflight = Cardinality(permit)
      /\ heavyInflight <= HeavyLimit
  BY ChatAssumption DEF IInv, ChatInv, TypeOK, SlotsAreCounted
<1>7. /\ heavyInflight' \in Nat /\ heavyInflight' = Cardinality(permit')
      /\ heavyInflight' <= HeavyLimit
  BY <1>1, <1>5, <1>6
<1>8. /\ Attempts' /\ UNCHANGED <<bills, balance, paid, charged>>
      /\ \A x \in Requests \ {r} : chain'[x] = chain[x] /\ model'[x] = model[x]
  <2>1. Attempts /\ MaxRefetch \in Nat
    BY ChatAssumption DEF IInv, ChatInv, TypeOK, Attempts
  <2>2. QED
    BY <1>1, <2>1 DEF Return, Forget, Attempts, billing
<1>9. sse' \in [Requests -> {"none", "open", "closed", "cancelled"}]
  BY DEF Return, IInv, ChatInv, TypeOK
<1>10. permit' \subseteq Requests
  BY <1>1 DEF IInv, ChatInv, TypeOK
<1>11. TypeOK'
  BY <1>1, <1>3, <1>7, <1>8, <1>9, <1>10 DEF IInv, ChatInv, TypeOK, Attempts
<1>12. Under' = Under
  BY <1>1, <1>2, <1>3 DEF Under
<1>13. SlotsAreCounted'
  BY <1>1, <1>7, <1>12 DEF IInv, ChatInv, SlotsAreCounted, Under
<1>14. Money'
  BY <1>1, <1>3, <1>8, MoneyStays DEF IInv, ChatInv, AnswersArePaid
<1>15. ASSUME NEW x \in Requests PROVE Placed(x)'
  <2>1. Placed(x)
    BY DEF IInv
  <2>2. CASE x = r
    BY <1>1, <1>2, <1>3, <1>8, <2>1, <2>2 DEF Placed
  <2>3. CASE x # r
    BY <1>1, <1>3, <1>8, <2>1, <2>3 DEF Placed
  <2>4. QED
    BY <2>2, <2>3
<1>16. \A x \in Requests : pc'[x] \in {"idle", "done"} => x \notin permit'
  BY <1>15 DEF Placed, Before
<1>17. QED
  BY <1>11, <1>13, <1>14, <1>15, <1>16 DEF IInv, ChatInv, Money

(* The stream, the client and the rest of the account's traffic.           *)
LEMMA OutsideKeeps ==
    ASSUME IInv, UNCHANGED <<pc, permits, attempt, result, bills, paid, charged>>,
           aborted' \subseteq Abortable, balance' \in Nat,
           sse' \in [Requests -> {"none", "open", "closed", "cancelled"}]
    PROVE  IInv'
<1>1. UNCHANGED <<pc, keyInflight, heavyInflight, upstreamInflight, inHandler, permit, chain,
                  model, list, provider, refetched, retried, result, bills, paid, charged>>
  BY DEF permits, attempt
<1>2. TypeOK'
  BY <1>1 DEF IInv, ChatInv, TypeOK
<1>3. SlotsAreCounted' /\ OneBillPerRequest' /\ AnswersArePaid' /\ PaymentsAreBilled'
  BY <1>1 DEF IInv, ChatInv, SlotsAreCounted, OneBillPerRequest, AnswersArePaid, PaymentsAreBilled
<1>4. \A x \in Requests : Placed(x)'
  BY <1>1 DEF IInv, Placed
<1>5. QED
  BY <1>1, <1>2, <1>3, <1>4 DEF IInv, ChatInv

Outside(r) == StreamEnds(r) \/ ClientLeaves(r)

LEMMA ClientKeeps == ASSUME IInv, NEW r \in Requests, Outside(r) PROVE IInv'
<1>1. UNCHANGED <<pc, permits, attempt, result, billing>>
  BY DEF Outside, StreamEnds, ClientLeaves
<1>2. aborted' \subseteq Abortable
  BY DEF Outside, StreamEnds, ClientLeaves, IInv, ChatInv, TypeOK
<1>3. sse' \in [Requests -> {"none", "open", "closed", "cancelled"}]
  BY DEF Outside, StreamEnds, ClientLeaves, IInv, ChatInv, TypeOK
<1>4. UNCHANGED <<bills, paid, charged>> /\ balance' \in Nat
  BY <1>1 DEF billing, IInv, ChatInv, TypeOK
<1>5. QED
  BY <1>1, <1>2, <1>3, <1>4, OutsideKeeps

LEMMA SpendKeeps == ASSUME IInv, Spend PROVE IInv'
<1>1. /\ balance' \in Nat
      /\ UNCHANGED <<pc, permits, attempt, client, result, bills, paid, charged>>
  BY DEF Spend, IInv, ChatInv, TypeOK
<1>2. /\ aborted' \subseteq Abortable
      /\ sse' \in [Requests -> {"none", "open", "closed", "cancelled"}]
  BY <1>1 DEF client, IInv, ChatInv, TypeOK
<1>3. QED
  BY <1>1, <1>2, OutsideKeeps

-----------------------------------------------------------------------------
LEMMA InitHolds == ASSUME Init PROVE IInv
<1>1. TypeOK
  BY ChatAssumption DEF Init, TypeOK, Phases
<1>2. Under = {} /\ Cardinality({}) = 0
  BY FS_EmptySet DEF Init, Under, Holding
<1>3. SlotsAreCounted
  BY <1>2, ChatAssumption DEF Init, SlotsAreCounted, Under
<1>4. Money
  BY DEF Init, Money, OneBillPerRequest, AnswersArePaid, PaymentsAreBilled
<1>5. \A r \in Requests : Placed(r)
  BY DEF Init, Placed, Chained, Holding
<1>6. \A r \in Requests : r \notin permit
  BY DEF Init
<1>7. QED
  BY <1>1, <1>3, <1>4, <1>5, <1>6 DEF IInv, ChatInv, Money

LEMMA NextKeeps == ASSUME IInv, [Next]_vars PROVE IInv'
<1>1. ASSUME NEW r \in Requests, Deciding(r) PROVE IInv'
  BY <1>1, DecidingKeeps
<1>2. ASSUME NEW r \in Requests, Fetching(r) \/ Failing(r) \/ Outside(r) PROVE IInv'
  BY <1>2, FetchingKeeps, FailingKeeps, ClientKeeps
<1>3. ASSUME NEW r \in Requests,
             Resolve(r) \/ SelectProviders(r) \/ SkipModel(r) \/ AcquireUpstream(r)
             \/ NextProvider(r) \/ RetryProvider(r) \/ NextModel(r)
      PROVE  IInv'
  BY <1>3, ResolveKeeps, SelectProvidersKeeps, SkipModelKeeps, AcquireUpstreamKeeps,
     NextProviderKeeps, RetryProviderKeeps, NextModelKeeps
<1>4. ASSUME NEW r \in Requests,
             Enter(r) \/ HandlerReturns(r) \/ AcquirePermit(r) \/ Return(r)
             \/ SendDebit(r) \/ DebitCommits(r)
      PROVE  IInv'
  BY <1>4, EnterKeeps, HandlerReturnsKeeps, AcquirePermitKeeps, ReturnKeeps,
     SendDebitKeeps, DebitCommitsKeeps
<1>5. CASE UNCHANGED vars
  <2>1. /\ UNCHANGED <<pc, permits, attempt, client, result, bills, paid, charged>>
        /\ balance' = balance
    BY <1>5 DEF vars, billing
  <2>2. /\ aborted' \subseteq Abortable /\ balance' \in Nat
        /\ sse' \in [Requests -> {"none", "open", "closed", "cancelled"}]
    BY <2>1 DEF client, IInv, ChatInv, TypeOK
  <2>3. QED
    BY <2>1, <2>2, OutsideKeeps
<1>6. CASE Spend
  BY <1>6, SpendKeeps
<1>7. CASE \E r \in Requests : \/ Enter(r) \/ TurnAway(r) \/ Step(r)
                               \/ HandlerReturns(r) \/ StreamEnds(r) \/ ClientLeaves(r)
  <2>1. PICK r \in Requests : \/ Enter(r) \/ TurnAway(r) \/ Step(r)
                              \/ HandlerReturns(r) \/ StreamEnds(r) \/ ClientLeaves(r)
    BY <1>7
  <2>2. \/ Deciding(r) \/ Fetching(r) \/ Failing(r) \/ Outside(r)
        \/ Resolve(r) \/ SelectProviders(r) \/ SkipModel(r) \/ AcquireUpstream(r)
        \/ NextProvider(r) \/ RetryProvider(r) \/ NextModel(r)
        \/ Enter(r) \/ HandlerReturns(r) \/ AcquirePermit(r) \/ Return(r)
        \/ SendDebit(r) \/ DebitCommits(r)
    BY <2>1, Zenon DEF Step, Deciding, Fetching, Failing, Outside
  <2>3. QED
    BY <1>1, <1>2, <1>3, <1>4, <2>2
<1>8. QED
  BY <1>5, <1>6, <1>7 DEF Next

LEMMA IInvAlways == Spec => []IInv
<1>1. Init => IInv
  BY InitHolds
<1>2. IInv /\ [Next]_vars => IInv'
  BY NextKeeps
<1>3. QED
  BY <1>1, <1>2, PTL DEF Spec

(* Every slot of the key, heavy permit and upstream slot is returned once, *)
(* on whatever path a request takes, and no limit is ever exceeded.        *)
THEOREM ChatInvariant == Spec => []ChatInv
<1>1. IInv => ChatInv
  BY DEF IInv
<1>2. QED
  BY <1>1, IInvAlways, PTL

(* Errors, fallbacks and lost answers never make one request ask twice.    *)
THEOREM OneBillPerRequestAlways == Spec => []OneBillPerRequest
<1>1. IInv => OneBillPerRequest
  BY DEF IInv, ChatInv
<1>2. QED
  BY <1>1, IInvAlways, PTL

(* No answer is given away, and an idempotency key is charged once.        *)
THEOREM AnswersArePaidAlways == Spec => []AnswersArePaid
<1>1. IInv => AnswersArePaid
  BY DEF IInv, ChatInv
<1>2. QED
  BY <1>1, IInvAlways, PTL

-----------------------------------------------------------------------------
(* The only ways to a fetch and to a debit ask for the signal first.       *)
Yields(r) == r \in aborted /\ pc'[r] \in {"upstream", "debit"} => pc'[r] = pc[r]

LEMMA GoingElsewhere ==
    ASSUME TypeOK, NEW r \in Requests, NEW p, Goto(r, p),
           p \notin {"upstream", "debit"} \/ r \notin aborted
    PROVE  \A x \in Requests : Yields(x)
  BY DEF TypeOK, Goto, Yields

LEMMA StayingYields == ASSUME UNCHANGED pc PROVE \A x \in Requests : Yields(x)
  BY DEF Yields

LEMMA StepYields ==
    ASSUME TypeOK, NEW r \in Requests, Step(r) PROVE \A x \in Requests : Yields(x)
<1>1. CASE Fetch(r) \/ SendDebit(r)
  <2>1. r \notin aborted /\ \E p \in {"upstream", "debit"} : Goto(r, p)
    BY <1>1 DEF Fetch, SendDebit
  <2>2. QED
    BY <2>1, GoingElsewhere
<1>2. CASE SkipModel(r)
  BY <1>2, StayingYields DEF SkipModel
<1>3. CASE Resolve(r) \/ Replay(r) \/ LookupMisses(r) \/ PrecheckFails(r) \/ JoinQueue(r)
           \/ PermitRefused(r) \/ Recheck(r) \/ SelectProviders(r) \/ NoProvider(r)
           \/ AcquireUpstream(r) \/ NoUpstream(r)
  <2>1. \E p \in {"return", "lookup", "precheck", "queued", "model", "slot", "fetch"} : Goto(r, p)
    <3>1. CASE Resolve(r)
      <4>1. PICK S : IF S = {} THEN Fail(r) ELSE Goto(r, "lookup")
        BY <3>1 DEF Resolve
      <4>2. QED
        BY <4>1 DEF Fail
    <3>2. QED
      BY <1>3, <3>1, Zenon DEF Replay, LookupMisses, PrecheckFails, JoinQueue, PermitRefused,
         Recheck, SelectProviders, NoProvider, AcquireUpstream, NoUpstream, Fail
  <2>2. QED
    BY <2>1, GoingElsewhere
<1>4. CASE Precheck(r) \/ AcquirePermit(r)
  <2>1. \E p \in {"acquire", "model", "recheck"} : Goto(r, p)
    BY <1>4 DEF Precheck, AcquirePermit
  <2>2. QED
    BY <2>1, GoingElsewhere
<1>5. CASE ProviderAnswers(r) \/ Refetch(r) \/ RetrySilent(r) \/ NextProvider(r)
           \/ RetryProvider(r) \/ NextModel(r) \/ AttemptsFail(r) \/ ClientAborted(r)
           \/ DebitCommits(r) \/ DebitFails(r) \/ Return(r)
  <2>1. \E p \in {"answered", "fetch", "slot", "model", "return", "done"} : Goto(r, p)
    BY <1>5, Zenon DEF ProviderAnswers, Refetch, RetrySilent, NextProvider, RetryProvider,
       NextModel, AttemptsFail, ClientAborted, DebitCommits, DebitFails, Return, Fail
  <2>2. QED
    BY <2>1, GoingElsewhere
<1>6. QED
  BY <1>1, <1>2, <1>3, <1>4, <1>5, Zenon DEF Step

LEMMA NextYields == ASSUME TypeOK, [Next]_vars PROVE \A x \in Requests : Yields(x)
<1>1. CASE UNCHANGED vars \/ Spend
  BY <1>1, StayingYields DEF vars, Spend
<1>2. ASSUME NEW r \in Requests, Enter(r) \/ TurnAway(r) PROVE \A x \in Requests : Yields(x)
  <2>1. \E p \in {"resolve", "done"} : Goto(r, p)
    BY <1>2 DEF Enter, TurnAway
  <2>2. QED
    BY <2>1, GoingElsewhere
<1>3. ASSUME NEW r \in Requests, HandlerReturns(r) \/ StreamEnds(r) \/ ClientLeaves(r)
      PROVE  \A x \in Requests : Yields(x)
  BY <1>3, StayingYields DEF HandlerReturns, StreamEnds, ClientLeaves
<1>4. QED
  BY <1>1, <1>2, <1>3, StepYields, Zenon DEF Next

(* A client that has left before the answer is not fetched for any more,   *)
(* and not charged, whatever its request was doing.                        *)
THEOREM AbortedRequestsStopAlways == Spec => AbortedRequestsStop
<1>1. IInv /\ [Next]_vars
      => [\A r \in aborted : pc'[r] \in {"upstream", "debit"} => pc'[r] = pc[r]]_vars
  <2>1. SUFFICES ASSUME IInv, [Next]_vars, NEW r \in aborted, pc'[r] \in {"upstream", "debit"}
                 PROVE  pc'[r] = pc[r]
    OBVIOUS
  <2>2. TypeOK /\ r \in Requests
    BY <2>1, ChatAssumption DEF IInv, ChatInv, TypeOK
  <2>3. Yields(r)
    BY <2>1, <2>2, NextYields
  <2>4. QED
    BY <2>1, <2>3 DEF Yields
<1>2. QED
  BY <1>1, IInvAlways, PTL DEF Spec, AbortedRequestsStop
-----------------------------------------------------------------------------
(* ChatRequests implements PaidAnswers: a request has its outcome exactly  *)
(* when it is on its way out, and has not paid before.                     *)
Settled(r) ==
    /\ pc[r] \in {"return", "done"} <=> result[r] # "none"
    /\ r \in paid => pc[r] \in {"return", "done"}

AllSettled == \A r \in Requests : Settled(r)

Outcomes == [r \in Requests |-> Outcome(r)]

Working == Phases \ {"idle", "return", "done"}

(* The steps of a request by what they do to its outcome and its account.  *)
Works(r) ==
    /\ pc[r] \in Working /\ pc' \in [Requests -> Phases] /\ pc'[r] \in Working
    /\ \A x \in Requests \ {r} : pc'[x] = pc[x]
    /\ UNCHANGED <<result, aborted, bills, balance, paid, charged>>

GivesUp(r) ==
    /\ pc[r] \in Working /\ Fail(r)
    /\ UNCHANGED <<aborted, bills, balance, paid, charged>>

LEMMA WorkingGoes ==
    ASSUME TypeOK, NEW r \in Requests, pc[r] \in Working,
           NEW p \in Working, Goto(r, p),
           UNCHANGED <<result, aborted, bills, balance, paid, charged>>
    PROVE  Works(r)
BY Goes DEF Works, Working

LEMMA WorkingPlaces ==
    /\ {"resolve", "lookup", "precheck", "acquire", "queued", "recheck", "model", "slot"}
          \subseteq Working
    /\ {"fetch", "upstream", "answered", "debit"} \subseteq Working
BY DEF Working, Phases, Holding

LEMMA StepSettles ==
    ASSUME IInv, NEW r \in Requests, Step(r)
    PROVE  \/ Works(r) \/ GivesUp(r) \/ Replay(r) \/ Return(r)
           \/ SendDebit(r) \/ DebitCommits(r)
<1>0. TypeOK
  BY DEF IInv, ChatInv
<1>1. CASE Resolve(r)
  <2>1. /\ pc[r] \in Working
        /\ UNCHANGED <<aborted, bills, balance, paid, charged>>
        /\ Fail(r) \/ (Goto(r, "lookup") /\ result' = result)
    BY <1>1, WorkingPlaces DEF Resolve, At, client, billing
  <2> QED
    BY <1>0, <2>1, WorkingGoes, WorkingPlaces DEF GivesUp
<1>2. CASE \/ PrecheckFails(r) \/ PermitRefused(r) \/ NoProvider(r) \/ NoUpstream(r)
           \/ AttemptsFail(r) \/ ClientAborted(r) \/ DebitFails(r)
  <2>1. Fail(r) /\ UNCHANGED <<aborted, bills, balance, paid, charged>>
    BY <1>2 DEF PrecheckFails, PermitRefused, NoProvider, NoUpstream, AttemptsFail,
       ClientAborted, DebitFails, client, billing
  <2>2. AttemptsFail(r) => Errors(r) # {}
    BY DEF AttemptsFail
  <2>3. pc[r] \in Working
    BY <1>2, <2>2, Erring, WorkingPlaces
       DEF PrecheckFails, PermitRefused, NoProvider, NoUpstream, ClientAborted, DebitFails, At
  <2> QED
    BY <2>1, <2>3 DEF GivesUp
<1>3. CASE LookupMisses(r) \/ Precheck(r) \/ AcquirePermit(r) \/ JoinQueue(r) \/ Recheck(r)
  <2>1. \E p \in {"precheck", "acquire", "model", "recheck", "queued"} : Goto(r, p)
    BY <1>3 DEF LookupMisses, Precheck, AcquirePermit, JoinQueue, Recheck
  <2>2. /\ pc[r] \in Working
        /\ UNCHANGED <<result, aborted, bills, balance, paid, charged>>
    BY <1>3, WorkingPlaces DEF LookupMisses, Precheck, AcquirePermit, JoinQueue, Recheck, At,
       client, billing
  <2> QED
    BY <1>0, <2>1, <2>2, WorkingGoes, WorkingPlaces
<1>4. CASE SkipModel(r)
  BY <1>0, <1>4, WorkingPlaces DEF SkipModel, At, client, billing, Works, TypeOK
<1>5. CASE \/ SelectProviders(r) \/ AcquireUpstream(r) \/ Fetch(r) \/ ProviderAnswers(r)
           \/ Refetch(r) \/ RetrySilent(r)
  <2>1. \E p \in {"slot", "fetch", "upstream", "answered"} : Goto(r, p)
    BY <1>5 DEF SelectProviders, AcquireUpstream, Fetch, ProviderAnswers, Refetch, RetrySilent
  <2>2. /\ pc[r] \in Working
        /\ UNCHANGED <<result, aborted, bills, balance, paid, charged>>
    BY <1>5, WorkingPlaces DEF SelectProviders, AcquireUpstream, Fetch, ProviderAnswers,
       Refetch, RetrySilent, At, client, billing
  <2> QED
    BY <1>0, <2>1, <2>2, WorkingGoes, WorkingPlaces
<1>6. CASE NextProvider(r) \/ RetryProvider(r) \/ NextModel(r)
  <2>1. \E p \in {"slot", "model"} : Goto(r, p)
    BY <1>6 DEF NextProvider, RetryProvider, NextModel
  <2>2. Errors(r) # {} /\ UNCHANGED <<result, aborted, bills, balance, paid, charged>>
    BY <1>6 DEF NextProvider, RetryProvider, NextModel, client, billing
  <2> QED
    BY <1>0, <2>1, <2>2, Erring, WorkingGoes, WorkingPlaces
<1> QED
  BY <1>1, <1>2, <1>3, <1>4, <1>5, <1>6, Zenon DEF Step

LEMMA OutcomeAt ==
    ASSUME TypeOK, AllSettled, NEW r \in Requests
    PROVE  /\ pc[r] = "idle" => Outcomes[r] = "new"
           /\ pc[r] \in Working => Outcomes[r] = "open"
           /\ pc[r] \in {"return", "done"} => Outcomes[r] = result[r] /\ result[r] # "none"
           /\ pc[r] # "idle" => Outcomes[r] # "new"
           /\ pc[r] = "idle" \/ pc[r] \in Working \/ pc[r] \in {"return", "done"}
<1>1. Outcomes[r] = Outcome(r)
  BY DEF Outcomes
<1>2. /\ pc[r] \in Phases /\ result[r] \in {"none", "ok", "failed"}
      /\ pc[r] \in {"return", "done"} <=> result[r] # "none"
  BY DEF TypeOK, AllSettled, Settled
<1> QED
  BY <1>1, <1>2 DEF Outcome, At, Working

(* A step of r leaves the outcomes of the others, and says r's own.        *)
LEMMA OutcomeMoves ==
    ASSUME TypeOK, AllSettled, TypeOK', AllSettled', NEW r \in Requests,
           \A x \in Requests \ {r} : pc'[x] = pc[x] /\ result'[x] = result[x]
    PROVE  \A o : Outcomes'[r] = o => Outcomes' = [Outcomes EXCEPT ![r] = o]
<1>1. \A x \in Requests \ {r} : Outcomes'[x] = Outcomes[x]
  BY DEF Outcomes, Outcome, At
<1> QED
  BY <1>1 DEF Outcomes

LEMMA SameOutcomes ==
    ASSUME TypeOK, AllSettled, TypeOK', AllSettled', NEW r \in Requests,
           \A x \in Requests \ {r} : pc'[x] = pc[x] /\ result'[x] = result[x],
           Outcomes'[r] = Outcomes[r]
    PROVE  Outcomes' = Outcomes
<1>1. Outcomes' = [Outcomes EXCEPT ![r] = Outcomes[r]]
  BY OutcomeMoves
<1> QED
  BY <1>1 DEF Outcomes

LEMMA OthersSettled ==
    ASSUME AllSettled, NEW r \in Requests,
           \A x \in Requests \ {r} : pc'[x] = pc[x] /\ result'[x] = result[x],
           paid' \in {paid, paid \cup {r}}, Settled(r)'
    PROVE  AllSettled'
BY DEF AllSettled, Settled

LEMMA SettledStep ==
    ASSUME IInv, AllSettled, [Next]_vars
    PROVE  AllSettled'
<1>0. TypeOK
  BY DEF IInv, ChatInv
<1>1. ASSUME UNCHANGED <<pc, result, paid>> PROVE AllSettled'
  BY <1>1 DEF AllSettled, Settled
<1>2. CASE UNCHANGED vars \/ Spend
  BY <1>1, <1>2 DEF vars, billing, Spend
<1>3. ASSUME NEW r \in Requests, HandlerReturns(r) \/ StreamEnds(r) \/ ClientLeaves(r)
      PROVE  AllSettled'
  BY <1>1, <1>3 DEF HandlerReturns, StreamEnds, ClientLeaves, billing
<1>4. ASSUME NEW r \in Requests, Enter(r) PROVE AllSettled'
  <2>1. /\ pc[r] = "idle" /\ pc' = [pc EXCEPT ![r] = "resolve"]
        /\ UNCHANGED <<result, paid>>
    BY <1>4 DEF Enter, At, Goto, billing
  <2> QED
    BY <1>0, <2>1 DEF AllSettled, Settled, TypeOK
<1>5. ASSUME NEW r \in Requests, TurnAway(r) PROVE AllSettled'
  <2>1. /\ pc[r] = "idle" /\ pc' = [pc EXCEPT ![r] = "done"]
        /\ result' = [result EXCEPT ![r] = "failed"] /\ paid' = paid
    BY <1>5 DEF TurnAway, At, Goto, billing
  <2> QED
    BY <1>0, <2>1 DEF AllSettled, Settled, TypeOK
<1>6. ASSUME NEW r \in Requests, Step(r) PROVE AllSettled'
  <2>1. Settled(r)
    BY DEF AllSettled
  <2>2. CASE Works(r)
    <3>1. /\ pc'[r] \notin {"return", "done"} /\ pc[r] \notin {"return", "done"}
          /\ result' = result /\ paid' = paid
          /\ \A x \in Requests \ {r} : pc'[x] = pc[x]
      BY <2>2 DEF Works, Working
    <3> QED
      BY <2>1, <3>1, OthersSettled DEF Settled
  <2>3. CASE GivesUp(r)
    <3>1. /\ pc' = [pc EXCEPT ![r] = "return"] /\ result' = [result EXCEPT ![r] = "failed"]
          /\ paid' = paid
      BY <2>3 DEF GivesUp, Fail, Goto
    <3> QED
      BY <1>0, <3>1 DEF AllSettled, Settled, TypeOK
  <2>4. CASE Replay(r)
    <3>1. /\ pc' = [pc EXCEPT ![r] = "return"] /\ result' = [result EXCEPT ![r] = "ok"]
          /\ paid' = paid
      BY <2>4 DEF Replay, Goto, billing
    <3> QED
      BY <1>0, <3>1 DEF AllSettled, Settled, TypeOK
  <2>5. CASE Return(r)
    <3>1. /\ pc[r] = "return" /\ pc' = [pc EXCEPT ![r] = "done"] /\ result' = result
          /\ paid' = paid
      BY <2>5 DEF Return, Goto, At, billing
    <3> QED
      BY <1>0, <3>1 DEF AllSettled, Settled, TypeOK
  <2>6. CASE SendDebit(r)
    <3>1. /\ pc[r] = "answered" /\ pc' = [pc EXCEPT ![r] = "debit"] /\ result' = result
          /\ paid' = paid
      BY <2>6 DEF SendDebit, Goto, At
    <3> QED
      BY <1>0, <3>1 DEF AllSettled, Settled, TypeOK
  <2>7. CASE DebitCommits(r)
    <3>1. PICK o \in {"ok", "failed"} :
             /\ pc' = [pc EXCEPT ![r] = "return"] /\ result' = [result EXCEPT ![r] = o]
             /\ paid' \in {paid, paid \cup {r}}
      BY <2>7 DEF DebitCommits, Goto
    <3> QED
      BY <1>0, <3>1 DEF AllSettled, Settled, TypeOK
  <2> QED
    BY <1>6, <2>2, <2>3, <2>4, <2>5, <2>6, <2>7, StepSettles
<1> QED
  BY <1>2, <1>3, <1>4, <1>5, <1>6 DEF Next

(* A step of the request that gives it an outcome.                         *)
LEMMA GivesOutcome ==
    ASSUME IInv, AllSettled, IInv', AllSettled', NEW r \in Requests, pc[r] \in Working,
           NEW o \in {"ok", "failed"}, Goto(r, "return"),
           result' = [result EXCEPT ![r] = o]
    PROVE  P!Ends(r, o)
<1>0. TypeOK /\ TypeOK'
  BY DEF IInv, ChatInv
<1>1. /\ pc'[r] = "return" /\ result'[r] = o
      /\ \A x \in Requests \ {r} : pc'[x] = pc[x] /\ result'[x] = result[x]
  BY <1>0 DEF Goto, TypeOK
<1>2. Outcomes[r] = "open"
  BY <1>0, OutcomeAt
<1>3. Outcomes'[r] = o
  BY <1>0, <1>1 DEF Outcomes, Outcome, At
<1>4. Outcomes' = [Outcomes EXCEPT ![r] = o]
  BY <1>0, <1>1, <1>3, OutcomeMoves
<1> QED
  BY <1>2, <1>4 DEF P!Ends, Outcomes

LEMMA StepPays ==
    ASSUME IInv, AllSettled, IInv', AllSettled', NEW r \in Requests, Step(r)
    PROVE  P!Next \/ UNCHANGED P!vars
<1>0. TypeOK /\ TypeOK'
  BY DEF IInv, ChatInv
<1>1. CASE Works(r)
  <2>1. /\ UNCHANGED <<result, aborted, bills, balance, paid, charged>>
        /\ pc[r] \in Working /\ pc'[r] \in Working
        /\ \A x \in Requests \ {r} : pc'[x] = pc[x]
    BY <1>1 DEF Works
  <2>2. Outcomes[r] = "open"
    BY <1>0, <2>1, OutcomeAt
  <2>3. Outcomes'[r] = "open"
    <3>1. pc'[r] \notin {"idle", "return", "done"}
      BY <2>1 DEF Working
    <3>2. result'[r] = "none"
      BY <3>1 DEF AllSettled, Settled
    <3> QED
      BY <3>1, <3>2 DEF Outcomes, Outcome, At
  <2>4. Outcomes' = Outcomes
    BY <1>0, <2>1, <2>2, <2>3, SameOutcomes
  <2> QED
    BY <2>1, <2>4 DEF P!vars, P!account, Outcomes
<1>2. CASE GivesUp(r)
  <2>1. /\ pc[r] \in Working /\ Goto(r, "return") /\ result' = [result EXCEPT ![r] = "failed"]
        /\ UNCHANGED <<aborted, bills, balance, paid, charged>>
    BY <1>2 DEF GivesUp, Fail
  <2>2. P!Ends(r, "failed")
    BY <2>1, GivesOutcome
  <2> QED
    BY <2>1, <2>2 DEF P!Fail, P!Next, P!account
<1>3. CASE Replay(r)
  <2>1. /\ pc[r] \in Working /\ Goto(r, "return") /\ result' = [result EXCEPT ![r] = "ok"]
        /\ UNCHANGED <<aborted, bills, balance, paid, charged>> /\ IdemKey[r] \in charged
    BY <1>3, WorkingPlaces DEF Replay, At, client, billing
  <2>2. P!Ends(r, "ok")
    BY <2>1, GivesOutcome
  <2> QED
    BY <2>1, <2>2 DEF P!Repeat, P!Next, P!account
<1>4. CASE Return(r)
  <2>1. /\ pc[r] = "return" /\ pc'[r] = "done" /\ result' = result
        /\ \A x \in Requests \ {r} : pc'[x] = pc[x]
        /\ UNCHANGED <<aborted, bills, balance, paid, charged>>
    BY <1>0, <1>4 DEF Return, Goto, At, TypeOK, billing
  <2>2. Outcomes[r] = result[r] /\ result[r] # "none"
    BY <1>0, <2>1, OutcomeAt
  <2>3. Outcomes'[r] = result[r]
    BY <2>1, <2>2 DEF Outcomes, Outcome, At
  <2>4. Outcomes' = Outcomes
    BY <1>0, <2>1, <2>2, <2>3, SameOutcomes
  <2> QED
    BY <2>1, <2>4 DEF P!vars, P!account, Outcomes
<1>5. CASE SendDebit(r)
  <2>1. /\ pc[r] = "answered" /\ pc'[r] = "debit" /\ result' = result /\ r \notin aborted
        /\ \A x \in Requests \ {r} : pc'[x] = pc[x]
        /\ bills' = [bills EXCEPT ![r] = @ + 1]
        /\ UNCHANGED <<aborted, balance, paid, charged>>
    BY <1>0, <1>5 DEF SendDebit, Goto, At, TypeOK, client
  <2>2. bills[r] = 0
    BY <1>0, <2>1 DEF IInv, ChatInv, OneBillPerRequest, TypeOK
  <2>3. bills' = [bills EXCEPT ![r] = 1]
    BY <1>0, <2>1, <2>2 DEF TypeOK
  <2>4. Outcomes[r] = "open"
    BY <1>0, <2>1, OutcomeAt, WorkingPlaces
  <2>5. result[r] = "none"
    BY <2>1 DEF AllSettled, Settled
  <2>6. Outcomes'[r] = "open"
    BY <2>1, <2>5 DEF Outcomes, Outcome, At
  <2>7. Outcomes' = Outcomes
    BY <1>0, <2>1, <2>4, <2>6, SameOutcomes
  <2>8. P!Ask(r)
    BY <2>1, <2>2, <2>3, <2>4, <2>7 DEF P!Ask, P!account, Outcomes
  <2> QED
    BY <2>8 DEF P!Next
<1>6. CASE DebitCommits(r)
  <2>1. PICK o \in {"ok", "failed"} :
           /\ pc[r] = "debit" /\ Goto(r, "return") /\ result' = [result EXCEPT ![r] = o]
           /\ UNCHANGED <<aborted, bills>>
    BY <1>6 DEF DebitCommits, At, client
  <2>2. P!Ends(r, o)
    BY <2>1, GivesOutcome, WorkingPlaces
  <2>3. CASE IdemKey[r] \in charged
    <3>1. UNCHANGED <<balance, paid, charged>>
      BY <1>6, <2>3 DEF DebitCommits
    <3> QED
      BY <2>1, <2>2, <2>3, <3>1 DEF P!Repeat, P!Fail, P!Next, P!account
  <2>4. CASE IdemKey[r] \notin charged
    <3>1. /\ balance > 0 /\ balance' = balance - 1 /\ paid' = paid \cup {r}
          /\ charged' = charged \cup ({IdemKey[r]} \ {NoKey})
      BY <1>6, <2>4 DEF DebitCommits
    <3>2. bills[r] = 1 /\ r \notin paid
      BY <2>1 DEF IInv, Placed, AllSettled, Settled
    <3>3. P!Settle(r)
      BY <2>1, <2>2, <2>4, <3>1, <3>2 DEF P!Settle
    <3> QED
      BY <3>3 DEF P!Next
  <2> QED
    BY <2>3, <2>4
<1> QED
  BY <1>1, <1>2, <1>3, <1>4, <1>5, <1>6, StepSettles

LEMMA NextPays ==
    ASSUME IInv, AllSettled, IInv', AllSettled', [Next]_vars
    PROVE  P!Next \/ UNCHANGED P!vars
<1>0. TypeOK /\ TypeOK'
  BY DEF IInv, ChatInv
<1>1. ASSUME UNCHANGED <<pc, result>> PROVE Outcomes' = Outcomes
  BY <1>1 DEF Outcomes, Outcome, At
<1>2. CASE UNCHANGED vars
  BY <1>1, <1>2 DEF vars, client, billing, P!vars, P!account, Outcomes
<1>3. CASE Spend
  BY <1>1, <1>3 DEF Spend, client, P!Spend, P!Next, Outcomes
<1>4. ASSUME NEW r \in Requests, HandlerReturns(r) \/ StreamEnds(r)
      PROVE  UNCHANGED P!vars
  BY <1>1, <1>4 DEF HandlerReturns, StreamEnds, client, billing, P!vars, P!account, Outcomes
<1>5. ASSUME NEW r \in Requests, ClientLeaves(r) PROVE P!Next \/ UNCHANGED P!vars
  <2>1. /\ UNCHANGED <<pc, result, bills, balance, paid, charged>> /\ pc[r] # "idle"
        /\ aborted' = aborted \/ aborted' = aborted \cup {r}
    BY <1>5 DEF ClientLeaves, At, billing
  <2>2. Outcomes' = Outcomes /\ Outcomes[r] # "new"
    BY <1>0, <1>1, <2>1, OutcomeAt
  <2>3. CASE aborted' = aborted
    BY <2>1, <2>2, <2>3 DEF P!vars, P!account, Outcomes
  <2>4. CASE aborted' = aborted \cup {r}
    BY <2>1, <2>2, <2>4 DEF P!Leave, P!Next, P!account, Outcomes
  <2> QED
    BY <2>1, <2>3, <2>4
<1>6. ASSUME NEW r \in Requests, Enter(r) \/ TurnAway(r) PROVE P!Next
  <2>1. /\ pc[r] = "idle" /\ UNCHANGED <<aborted, bills, balance, paid, charged>>
        /\ \/ Goto(r, "resolve") /\ result' = result
           \/ Goto(r, "done") /\ result' = [result EXCEPT ![r] = "failed"]
    BY <1>6 DEF Enter, TurnAway, At, client, billing
  <2>2. /\ \A x \in Requests \ {r} : pc'[x] = pc[x] /\ result'[x] = result[x]
        /\ \/ pc'[r] = "resolve" /\ result'[r] = result[r]
           \/ pc'[r] = "done" /\ result'[r] = "failed"
    BY <1>0, <2>1 DEF Goto, TypeOK
  <2>3. Outcomes[r] = "new" /\ result[r] = "none"
    BY <1>0, <2>1, OutcomeAt DEF AllSettled, Settled
  <2>4. PICK o \in {"open", "failed"} : Outcomes'[r] = o
    BY <2>2, <2>3 DEF Outcomes, Outcome, At
  <2>5. Outcomes' = [Outcomes EXCEPT ![r] = o]
    BY <1>0, <2>2, <2>4, OutcomeMoves
  <2>6. P!Accept(r) \/ P!Refuse(r)
    BY <2>1, <2>3, <2>4, <2>5 DEF P!Accept, P!Refuse, P!account, Outcomes
  <2> QED
    BY <2>6 DEF P!Next
<1>7. ASSUME NEW r \in Requests, Step(r) PROVE P!Next \/ UNCHANGED P!vars
  BY <1>7, StepPays
<1> QED
  BY <1>2, <1>3, <1>4, <1>5, <1>6, <1>7 DEF Next

(* Whatever a request goes through, its owner sees one outcome, at most    *)
(* one debit, none after the client has left, and no answer that nobody    *)
(* paid for.                                                               *)
THEOREM ChatImplementsPaidAnswers == Spec => ImplementsPaidAnswers
<1>1. Init => P!Init /\ AllSettled
  BY DEF Init, P!Init, Outcome, At, AllSettled, Settled
<1>2. IInv /\ AllSettled /\ [Next]_vars => AllSettled'
  BY SettledStep
<1>3. IInv /\ IInv' /\ AllSettled /\ AllSettled' /\ [Next]_vars => [P!Next]_(P!vars)
  BY NextPays
<1> QED
  BY <1>1, <1>2, <1>3, IInvAlways, PTL DEF Spec, ImplementsPaidAnswers, P!Spec
=============================================================================
