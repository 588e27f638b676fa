---------------------------- MODULE ChatRequests ----------------------------
(***************************************************************************)
(* Chat requests of one API key: chatGatewayMiddleware, the early event    *)
(* stream, and executeChatCompletion with its attempts over models and     *)
(* providers, from the first permit to the debit.  A step is what a        *)
(* request does between two awaits.  Permits are counters of the process   *)
(* (GatewayCounters has the Redis ones, HeavyQueue the line of waiters),   *)
(* record_usage_and_debit is one step (CreditLedger has its statements),   *)
(* every answer costs one credit, and what a circuit breaker says about a  *)
(* model or a provider is chosen freely (UpstreamGuards).                 *)
(***************************************************************************)
EXTENDS Naturals, FiniteSets

CONSTANTS
    Requests,
    Streams,       \* stream = true: answered as an event stream
    Abortable,     \* requests of /v1/responses: a disconnect aborts the work
    Heavy,         \* requests that need a permit of the heavy queue
    Alias,         \* requests for an alias, a chain of models
    Models,        \* numbered in the order in which they are tried
    Chain,         \* per request, the models to try, the lowest first
    ProvidersOf,   \* per model, its providers, the lowest first
    IdemKey,       \* per request, its idempotency key or NoKey
    NoKey,
    KeyLimit, HeavyLimit, UpstreamLimit,
    MaxRefetch,    \* further fetches an attempt may make for a usable answer
    Credits        \* the credits of the account

ASSUME ChatAssumption ==
    /\ IsFiniteSet(Requests)
    /\ Abortable \subseteq Requests /\ Streams \subseteq Requests
    /\ Models \subseteq Nat
    /\ Chain \in [Requests -> SUBSET Models]
    /\ ProvidersOf \in [Models -> SUBSET Nat]
    /\ KeyLimit \in Nat /\ HeavyLimit \in Nat /\ UpstreamLimit \in Nat
    /\ MaxRefetch \in Nat /\ Credits \in Nat

VARIABLES
    pc,                \* per request, what it does next
    keyInflight,       \* requests of the key inside their handler
    heavyInflight,     \* heavy permits given out
    upstreamInflight,  \* attempts under way, of all requests
    inHandler,         \* requests whose handler has not returned
    permit,            \* requests that hold a heavy permit
    chain, model,      \* the models of a request, and the one it is at
    list, provider,    \* the providers of that model, and the one it is at
    refetched,         \* further fetches of the current attempt
    retried,           \* spent retries: "transport" and "silent", once each
    aborted,           \* requests whose abort signal has fired
    sse,               \* the event stream of a request
    result,            \* what executeChatCompletion returned
    bills,             \* debits a request has asked the database for
    balance, paid,     \* the account, and the requests it has paid for
    charged            \* idempotency keys that have been charged

permits == <<keyInflight, heavyInflight, upstreamInflight, inHandler, permit>>
attempt == <<chain, model, list, provider, refetched, retried>>
client == <<aborted, sse>>
billing == <<bills, balance, paid, charged>>
vars == <<pc, permits, attempt, client, result, billing>>

At(r, p) == pc[r] = p
Goto(r, p) == pc' = [pc EXCEPT ![r] = p]

(* The attempt has an upstream slot, which its finally block returns.      *)
Holding == {"fetch", "upstream", "answered", "debit"}

First(S) == CHOOSE x \in S : \A y \in S : x <= y
After(S, x) == {y \in S : y > x}

Keys == {IdemKey[r] : r \in Requests} \ {NoKey}

Init ==
    /\ pc = [r \in Requests |-> "idle"]
    /\ keyInflight = 0 /\ heavyInflight = 0 /\ upstreamInflight = 0
    /\ inHandler = {} /\ permit = {}
    /\ chain = [r \in Requests |-> {}] /\ model = [r \in Requests |-> 0]
    /\ list = [r \in Requests |-> {}] /\ provider = [r \in Requests |-> 0]
    /\ refetched = [r \in Requests |-> 0] /\ retried = [r \in Requests |-> {}]
    /\ aborted = {} /\ sse = [r \in Requests |-> "none"]
    /\ result = [r \in Requests |-> "none"]
    /\ bills = [r \in Requests |-> 0]
    /\ balance = Credits /\ paid = {} /\ charged = {}

-----------------------------------------------------------------------------
(* The middleware.  The handler returns its response, a JSON body or an    *)
(* event stream that has only begun, and the finally block lets go of the  *)
(* key: an open stream is not counted any more.                            *)

Enter(r) ==
    /\ At(r, "idle")
    /\ keyInflight < KeyLimit
    /\ keyInflight' = keyInflight + 1
    /\ inHandler' = inHandler \cup {r}
    /\ Goto(r, "resolve")
    /\ UNCHANGED <<heavyInflight, upstreamInflight, permit, attempt, client, result, billing>>

(* Over the key's concurrency, or over one of the rates.                   *)
TurnAway(r) ==
    /\ At(r, "idle")
    /\ result' = [result EXCEPT ![r] = "failed"]
    /\ Goto(r, "done")
    /\ UNCHANGED <<permits, attempt, client, billing>>

HandlerReturns(r) ==
    /\ r \in inHandler
    /\ sse[r] # "none" \/ At(r, "done")
    /\ keyInflight' = keyInflight - 1
    /\ inHandler' = inHandler \ {r}
    /\ UNCHANGED <<pc, heavyInflight, upstreamInflight, permit, attempt, client, result, billing>>

-----------------------------------------------------------------------------
(* executeChatCompletion up to the attempts.  Return leaves through the    *)
(* finally block that releases the heavy permit.                           *)

Fail(r) ==
    /\ result' = [result EXCEPT ![r] = "failed"]
    /\ Goto(r, "return")

(* Models whose circuit is open are left out of an alias's chain.          *)
Resolve(r) ==
    /\ At(r, "resolve")
    /\ \E S \in (IF r \in Alias THEN SUBSET Chain[r] ELSE {Chain[r]}) :
          /\ chain' = [chain EXCEPT ![r] = S]
          /\ IF S = {} THEN Fail(r) /\ UNCHANGED model
             ELSE /\ model' = [model EXCEPT ![r] = First(S)]
                  /\ Goto(r, "lookup") /\ UNCHANGED result
    /\ UNCHANGED <<permits, list, provider, refetched, retried, client, billing>>

(* The answer of an earlier request under the same key is given again; an  *)
(* error of the lookup counts as a miss.                                   *)
Replay(r) ==
    /\ At(r, "lookup")
    /\ IdemKey[r] \in charged
    /\ result' = [result EXCEPT ![r] = "ok"]
    /\ Goto(r, "return")
    /\ UNCHANGED <<permits, attempt, client, billing>>

LookupMisses(r) ==
    /\ At(r, "lookup")
    /\ Goto(r, "precheck")
    /\ UNCHANGED <<permits, attempt, client, result, billing>>

(* Credits, period limits, quotas and the token budget; onAfterPrecheck    *)
(* then opens the event stream.                                            *)
Precheck(r) ==
    /\ At(r, "precheck")
    /\ balance > 0
    /\ sse' = [sse EXCEPT ![r] = IF r \in Streams THEN "open" ELSE @]
    /\ Goto(r, IF r \in Heavy THEN "acquire" ELSE "model")
    /\ UNCHANGED <<permits, attempt, aborted, result, billing>>

(* Mutant: the recheck is outside of the block that releases the permit.   *)
PrecheckFailsOutside(r) ==
    /\ At(r, "precheck") \/ At(r, "recheck")
    /\ result' = [result EXCEPT ![r] = "failed"]
    /\ Goto(r, "done")
    /\ UNCHANGED <<permits, attempt, client, billing>>

PrecheckFails(r) ==
    /\ At(r, "precheck") \/ At(r, "recheck")
    /\ Fail(r)
    /\ UNCHANGED <<permits, attempt, client, billing>>

AcquirePermit(r) ==
    /\ At(r, "acquire") \/ At(r, "queued")
    /\ r \notin aborted
    /\ heavyInflight < HeavyLimit
    /\ heavyInflight' = heavyInflight + 1
    /\ permit' = permit \cup {r}
    /\ Goto(r, IF At(r, "queued") THEN "recheck" ELSE "model")
    /\ UNCHANGED <<keyInflight, upstreamInflight, inHandler, attempt, client, result, billing>>

JoinQueue(r) ==
    /\ At(r, "acquire")
    /\ r \notin aborted /\ heavyInflight >= HeavyLimit
    /\ Goto(r, "queued")
    /\ UNCHANGED <<permits, attempt, client, result, billing>>

(* Overloaded, the queue is full, the wait timed out, or the client left.  *)
PermitRefused(r) ==
    /\ \/ At(r, "acquire") /\ (r \in aborted \/ heavyInflight >= HeavyLimit)
       \/ At(r, "queued")
    /\ Fail(r)
    /\ UNCHANGED <<permits, attempt, client, billing>>

(* The dynamic limits are checked again after a wait.                      *)
Recheck(r) ==
    /\ At(r, "recheck")
    /\ balance > 0
    /\ Goto(r, "model")
    /\ UNCHANGED <<permits, attempt, client, result, billing>>

(* What a request knew of its attempts is local and gone when it returns.  *)
Forget(r) ==
    /\ chain' = [chain EXCEPT ![r] = {}] /\ model' = [model EXCEPT ![r] = 0]
    /\ list' = [list EXCEPT ![r] = {}] /\ provider' = [provider EXCEPT ![r] = 0]
    /\ refetched' = [refetched EXCEPT ![r] = 0] /\ retried' = [retried EXCEPT ![r] = {}]

(* The permit is released; a replayed stream is opened only now, a failure *)
(* before the stream was open is a JSON body.                              *)
Return(r) ==
    /\ At(r, "return")
    /\ heavyInflight' = IF r \in permit THEN heavyInflight - 1 ELSE heavyInflight
    /\ permit' = permit \ {r}
    /\ sse' = [sse EXCEPT ![r] = IF r \in Streams /\ @ = "none" /\ result[r] = "ok"
                                 THEN "open" ELSE @]
    /\ Forget(r)
    /\ Goto(r, "done")
    /\ UNCHANGED <<keyInflight, upstreamInflight, inHandler, aborted, result, billing>>

(* produceRest has written the answer or the failure: the stream is closed.*)
StreamEnds(r) ==
    /\ At(r, "done")
    /\ sse[r] = "open"
    /\ sse' = [sse EXCEPT ![r] = "closed"]
    /\ UNCHANGED <<pc, permits, attempt, aborted, result, billing>>

(* The client disconnects: its stream is cancelled, and a request of       *)
(* /v1/responses, stream or not, is told so by its signal.                 *)
ClientLeaves(r) ==
    /\ ~At(r, "idle")
    /\ sse[r] = "open" \/ (sse[r] = "none" /\ r \in Abortable)
    /\ sse' = [sse EXCEPT ![r] = IF @ = "open" THEN "cancelled" ELSE @]
    /\ aborted' = IF r \in Abortable THEN aborted \cup {r} ELSE aborted
    /\ UNCHANGED <<pc, permits, attempt, result, billing>>

-----------------------------------------------------------------------------
(* runProviderAttempts.                                                    *)

(* Degraded providers are left out unless all of them are.                 *)
SelectProviders(r) ==
    /\ At(r, "model")
    /\ \E L \in (SUBSET ProvidersOf[model[r]]) \ {{}} :
          /\ list' = [list EXCEPT ![r] = L]
          /\ provider' = [provider EXCEPT ![r] = First(L)]
    /\ Goto(r, "slot")
    /\ UNCHANGED <<permits, chain, model, refetched, retried, client, result, billing>>

(* A model without providers is skipped.                                   *)
SkipModel(r) ==
    /\ At(r, "model")
    /\ ProvidersOf[model[r]] = {}
    /\ r \in Alias /\ After(chain[r], model[r]) # {}
    /\ model' = [model EXCEPT ![r] = First(After(chain[r], @))]
    /\ UNCHANGED <<pc, permits, chain, list, provider, refetched, retried, client, result, billing>>

(* No provider at all, or the only one of a direct model is degraded.      *)
NoProvider(r) ==
    /\ At(r, "model")
    /\ \/ /\ ProvidersOf[model[r]] = {}
          /\ r \notin Alias \/ After(chain[r], model[r]) = {}
       \/ Cardinality(ProvidersOf[model[r]]) = 1 /\ r \notin Alias
    /\ Fail(r)
    /\ UNCHANGED <<permits, attempt, client, billing>>

AcquireUpstream(r) ==
    /\ At(r, "slot")
    /\ upstreamInflight < UpstreamLimit
    /\ upstreamInflight' = upstreamInflight + 1
    /\ refetched' = [refetched EXCEPT ![r] = 0]
    /\ Goto(r, "fetch")
    /\ UNCHANGED <<keyInflight, heavyInflight, inHandler, permit, chain, model, list,
                   provider, retried, client, result, billing>>

(* The total timeout is over, or the gateway is overloaded.                *)
NoUpstream(r) ==
    /\ At(r, "slot")
    /\ Fail(r)
    /\ UNCHANGED <<permits, attempt, client, billing>>

(* The signal is looked at before each fetch.                              *)
Fetch(r) ==
    /\ At(r, "fetch")
    /\ r \notin aborted
    /\ Goto(r, "upstream")
    /\ UNCHANGED <<permits, attempt, client, result, billing>>

(* The provider answers; or a further fetch failed and the answer before   *)
(* it is used after all.                                                   *)
ProviderAnswers(r) ==
    /\ At(r, "upstream")
    /\ Goto(r, "answered")
    /\ UNCHANGED <<permits, attempt, client, result, billing>>

(* Tool repair and arbitration ask the same provider again.                *)
Refetch(r) ==
    /\ At(r, "answered")
    /\ refetched[r] < MaxRefetch
    /\ refetched' = [refetched EXCEPT ![r] = @ + 1]
    /\ Goto(r, "fetch")
    /\ UNCHANGED <<permits, chain, model, list, provider, retried, client, result, billing>>

(* A stream of /v1/responses without any output is fetched once more.      *)
RetrySilent(r) ==
    /\ At(r, "upstream")
    /\ r \in (Abortable \cap Streams) \ aborted
    /\ "silent" \notin retried[r]
    /\ retried' = [retried EXCEPT ![r] = @ \cup {"silent"}]
    /\ Goto(r, "fetch")
    /\ UNCHANGED <<permits, chain, model, list, provider, refetched, client, result, billing>>

(* An error of the attempt: of the provider, or of the guard that wants a  *)
(* tool call in the answer.  "transport" errors, without any response, and *)
(* "eligible" ones may fall back; "final" ones may not.                    *)
Errors(r) ==
    CASE At(r, "upstream") -> {"transport", "eligible", "final"}
      [] At(r, "answered") -> {"eligible", "final"}
      [] OTHER -> {}

MayFallBack(err) == err \in {"transport", "eligible"}

Release == upstreamInflight' = upstreamInflight - 1

NextProvider(r) ==
    /\ r \notin aborted
    /\ \E err \in Errors(r) : MayFallBack(err)
    /\ After(list[r], provider[r]) # {}
    /\ provider' = [provider EXCEPT ![r] = First(After(list[r], @))]
    /\ Goto(r, "slot") /\ Release
    /\ UNCHANGED <<keyInflight, heavyInflight, inHandler, permit, chain, model, list,
                   refetched, retried, client, result, billing>>

(* Mutant: the retry is not marked as spent.                               *)
RetryProviderForever(r) ==
    /\ r \notin aborted
    /\ "transport" \in Errors(r)
    /\ Cardinality(list[r]) = 1
    /\ Goto(r, "slot") /\ Release
    /\ UNCHANGED <<keyInflight, heavyInflight, inHandler, permit, chain, model, list,
                   provider, refetched, retried, client, result, billing>>

(* A sole provider is tried once more after a transport error.             *)
RetryProvider(r) ==
    /\ r \notin aborted
    /\ "transport" \in Errors(r) \ retried[r]
    /\ Cardinality(list[r]) = 1
    /\ retried' = [retried EXCEPT ![r] = @ \cup {"transport"}]
    /\ Goto(r, "slot") /\ Release
    /\ UNCHANGED <<keyInflight, heavyInflight, inHandler, permit, chain, model, list,
                   provider, refetched, client, result, billing>>

(* No provider is left for the error.                                      *)
Exhausted(r, err) ==
    /\ ~(MayFallBack(err) /\ After(list[r], provider[r]) # {})
    /\ ~(err = "transport" /\ "transport" \notin retried[r] /\ Cardinality(list[r]) = 1)

NextModel(r) ==
    /\ r \in Alias \ aborted
    /\ \E err \in Errors(r) : MayFallBack(err) /\ Exhausted(r, err)
    /\ After(chain[r], model[r]) # {}
    /\ model' = [model EXCEPT ![r] = First(After(chain[r], @))]
    /\ Goto(r, "model") /\ Release
    /\ UNCHANGED <<keyInflight, heavyInflight, inHandler, permit, chain, list,
                   provider, refetched, retried, client, result, billing>>

AttemptsFail(r) ==
    /\ r \notin aborted
    /\ \E err \in Errors(r) :
          /\ Exhausted(r, err)
          /\ ~(r \in Alias /\ MayFallBack(err) /\ After(chain[r], model[r]) # {})
    /\ Fail(r) /\ Release
    /\ UNCHANGED <<keyInflight, heavyInflight, inHandler, permit, attempt, client, billing>>

(* The signal has fired: no fetch, no fallback and no debit after it.      *)
ClientAborted(r) ==
    /\ pc[r] \in {"fetch", "upstream", "answered"}
    /\ r \in aborted
    /\ Fail(r) /\ Release
    /\ UNCHANGED <<keyInflight, heavyInflight, inHandler, permit, attempt, client, billing>>

(* Mutant: the signal is not looked at after the provider's answer.        *)
SendDebitAnyway(r) ==
    /\ At(r, "answered")
    /\ bills' = [bills EXCEPT ![r] = @ + 1]
    /\ Goto(r, "debit")
    /\ UNCHANGED <<permits, attempt, client, result, balance, paid, charged>>

(* The signal is looked at a last time, and record_usage_and_debit is sent.*)
SendDebit(r) ==
    /\ At(r, "answered")
    /\ r \notin aborted
    /\ bills' = [bills EXCEPT ![r] = @ + 1]
    /\ Goto(r, "debit")
    /\ UNCHANGED <<permits, attempt, client, result, balance, paid, charged>>

(* The debit commits, or finds its key charged.  Its answer may be lost,   *)
(* and the request then fails with usage_billing_failed.                   *)
DebitCommits(r) ==
    /\ At(r, "debit")
    /\ IF IdemKey[r] \in charged THEN UNCHANGED <<balance, paid, charged>>
       ELSE /\ balance > 0
            /\ balance' = balance - 1
            /\ paid' = paid \cup {r}
            /\ charged' = charged \cup ({IdemKey[r]} \ {NoKey})
    /\ \E res \in {"ok", "failed"} : result' = [result EXCEPT ![r] = res]
    /\ Goto(r, "return") /\ Release
    /\ UNCHANGED <<keyInflight, heavyInflight, inHandler, permit, attempt, client, bills>>

(* Mutant: a debit that failed does not fail the request.                  *)
DebitErrorIgnored(r) ==
    /\ At(r, "debit")
    /\ result' = [result EXCEPT ![r] = "ok"]
    /\ Goto(r, "return") /\ Release
    /\ UNCHANGED <<keyInflight, heavyInflight, inHandler, permit, attempt, client, billing>>

(* Mutant: a billing error is taken for one that may fall back.            *)
DebitErrorFallsBack(r) ==
    /\ At(r, "debit")
    /\ After(list[r], provider[r]) # {}
    /\ provider' = [provider EXCEPT ![r] = First(After(list[r], @))]
    /\ Goto(r, "slot") /\ Release
    /\ UNCHANGED <<keyInflight, heavyInflight, inHandler, permit, chain, model, list,
                   refetched, retried, client, result, billing>>

(* Insufficient credits, or the database fails: nothing is charged, and    *)
(* neither error may fall back.                                            *)
DebitFails(r) ==
    /\ At(r, "debit")
    /\ Fail(r) /\ Release
    /\ UNCHANGED <<keyInflight, heavyInflight, inHandler, permit, attempt, client, billing>>

(* The account pays for something else: images, batches, other keys.       *)
Spend ==
    /\ balance > 0
    /\ balance' = balance - 1
    /\ UNCHANGED <<pc, permits, attempt, client, result, bills, paid, charged>>

-----------------------------------------------------------------------------
(* The steps that Node and the database take by themselves.                *)
Step(r) ==
    \/ Resolve(r) \/ Replay(r) \/ LookupMisses(r)
    \/ Precheck(r) \/ PrecheckFails(r)
    \/ AcquirePermit(r) \/ JoinQueue(r) \/ PermitRefused(r) \/ Recheck(r)
    \/ SelectProviders(r) \/ SkipModel(r) \/ NoProvider(r)
    \/ AcquireUpstream(r) \/ NoUpstream(r)
    \/ Fetch(r) \/ ProviderAnswers(r) \/ Refetch(r) \/ RetrySilent(r)
    \/ NextProvider(r) \/ RetryProvider(r) \/ NextModel(r) \/ AttemptsFail(r)
    \/ ClientAborted(r)
    \/ SendDebit(r) \/ DebitCommits(r) \/ DebitFails(r)
    \/ Return(r)

Next ==
    \/ \E r \in Requests : \/ Enter(r) \/ TurnAway(r) \/ Step(r)
                           \/ HandlerReturns(r) \/ StreamEnds(r) \/ ClientLeaves(r)
    \/ Spend

Spec == Init /\ [][Next]_vars

(* Node goes on with what is ready; the upstream timeout, the wait timeout *)
(* and the total timeout end what does not answer.  Clients need do nothing.*)
Fairness == \A r \in Requests :
    WF_vars(Step(r)) /\ WF_vars(HandlerReturns(r)) /\ WF_vars(StreamEnds(r))

FairSpec == Spec /\ Fairness

-----------------------------------------------------------------------------
Phases == {"idle", "resolve", "lookup", "precheck", "acquire", "queued", "recheck",
           "model", "slot", "return", "done"} \cup Holding

TypeOK ==
    /\ pc \in [Requests -> Phases]
    /\ keyInflight \in Nat /\ heavyInflight \in Nat /\ upstreamInflight \in Nat
    /\ inHandler \subseteq Requests /\ permit \subseteq Requests
    /\ chain \in [Requests -> SUBSET Models] /\ model \in [Requests -> Nat]
    /\ list \in [Requests -> SUBSET Nat] /\ provider \in [Requests -> Nat]
    /\ refetched \in [Requests -> 0 .. MaxRefetch]
    /\ retried \in [Requests -> SUBSET {"transport", "silent"}]
    /\ aborted \subseteq Abortable
    /\ sse \in [Requests -> {"none", "open", "closed", "cancelled"}]
    /\ result \in [Requests -> {"none", "ok", "failed"}]
    /\ bills \in [Requests -> Nat]
    /\ balance \in Nat /\ paid \subseteq Requests /\ charged \subseteq Keys

(* Whatever way a request takes through its attempts, retries, aborts and  *)
(* errors, it returns each slot exactly once: the counters are the         *)
(* requests that hold one, and stay within their limits.                   *)
SlotsAreCounted ==
    /\ keyInflight = Cardinality(inHandler) /\ keyInflight <= KeyLimit
    /\ heavyInflight = Cardinality(permit) /\ heavyInflight <= HeavyLimit
    /\ upstreamInflight = Cardinality({r \in Requests : pc[r] \in Holding})
    /\ upstreamInflight <= UpstreamLimit

(* One request asks for at most one debit, although an attempt may fail    *)
(* after the provider's answer and the next provider be tried: a lost      *)
(* answer of the database must not be paid for twice.                      *)
OneBillPerRequest ==
    \A r \in Requests :
        bills[r] <= (IF pc[r] \in {"debit", "return", "done"} THEN 1 ELSE 0)

(* An answer that was given is paid for, by its request or by the one      *)
(* whose idempotency key it shares, and a key is charged once.             *)
AnswersArePaid ==
    /\ \A r \in Requests : result[r] = "ok" => r \in paid \/ IdemKey[r] \in charged
    /\ \A q, r \in paid : q # r => IdemKey[q] # IdemKey[r] \/ IdemKey[r] = NoKey

(* Whoever was charged has asked for it.                                   *)
PaymentsAreBilled == \A r \in paid : bills[r] = 1

ChatInv ==
    /\ TypeOK /\ SlotsAreCounted /\ OneBillPerRequest /\ AnswersArePaid
    /\ PaymentsAreBilled
    /\ \A r \in Requests : pc[r] \in {"idle", "done"} => r \notin permit
    /\ \A r \in Requests : IdemKey[r] \in charged =>
          \E q \in paid : IdemKey[q] = IdemKey[r]
    /\ NoKey \notin charged

(* Once its signal has fired a request starts no fetch and no debit: a     *)
(* client that left before the answer is not charged.                      *)
AbortedRequestsStop ==
    [][\A r \in aborted : pc'[r] \in {"upstream", "debit"} => pc'[r] = pc[r]]_vars

(* Every request that came in is answered, its stream is closed and its    *)
(* slot of the key is free again: the chain of attempts is finite.         *)
EveryRequestEnds ==
    \A r \in Requests :
        ~At(r, "idle") ~> (At(r, "done") /\ r \notin inHandler /\ sse[r] # "open")
-----------------------------------------------------------------------------
(* What is left of a request when its permits, models, providers and       *)
(* streams are forgotten: its one outcome, and who paid for it.            *)
Outcome(r) ==
    CASE At(r, "idle") -> "new"
      [] ~At(r, "idle") /\ result[r] = "none" -> "open"
      [] OTHER -> result[r]

P == INSTANCE PaidAnswers WITH outcome <- [r \in Requests |-> Outcome(r)],
                               left <- aborted
ImplementsPaidAnswers == P!Spec
=============================================================================
