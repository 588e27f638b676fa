# Tokfai API: TLA+ models of its money and its concurrency

Tokfai resells language, image, speech and vision models behind an OpenAI-compatible HTTP
API.  `apps/dmit-api` is that API: a Node program run by PM2 on `127.0.0.1:8788`, with
optional Redis for counters shared by several workers.  Accounts, usage, batches and image
tasks are tables in Postgres (`supabase/migrations`), which the API reaches through Supabase;
whatever moves money is a stored procedure.  `apps/web` is the Next.js front end.

This directory models the parts of it that are hard to test: the procedures that move
credits, the checkout that buys them, the chat request that spends them, and the queues,
workers, sweeps, breakers and counters of the API process.

Run a check with `tlc -config LedgerUsage.cfg MCCreditLedger.tla`, a proof with
`tlapm CreditLedgerProofs.tla`.  `PROJECT.json` lists the runs, a mutation for each
property, the source lines each definition stands for, the hazards and the theorems.

## 1. Inventory

| Component | State | Operations | Interacts with | What is hard | What makes it correct |
|---|---|---|---|---|---|
| Credit ledger RPCs (migrations 0010, 0012, 0013, 0028, 0034) | `profiles`, `credit_ledger`, `usage_logs`, `credit_orders`, `admin_audit_logs`; row and advisory locks | `debit_credits`, `record_usage_and_debit`, `lookup_usage_idempotency`, `complete_credit_order`, `admin_adjust_credits`, `ops_ledger_adjustment`, `handle_new_user` | every billing path, the Stripe webhook, admins, the ops CLI | lookups before locks, caught unique violations, retries after lost answers, two locks in a row | the ledger explains every balance; nothing overdraws; one effect per request, session and key; a paid order stays paid |
| Batch queue (`batch/`, `routes/batch.ts`, repair script) | `chat_batches`, `chat_batch_items`, in-memory pool, Redis lock | create, worker loop, item attempt and retry, item timer, cancel, `finalizeBatch`, repair | chat completion and its debit | cancel against claim, three finalizers, the timer that does not abort, crash, a repair beside a live worker | charged items are delivered; a finished cancel starts nothing; batches end |
| Heavy responses queue (`gateway/heavyResponsesQueue.ts`) | per-key buckets with `active` and `waiters`, `globalWaiterCount`, timers, abort listeners | acquire, wait, wake, time out, abort, recheck, release | chat completion; fail-fast counter beside it | release, timeout and abort race for one waiter | no slot leaks or is given twice; counts are exact; FIFO; everybody is served |
| Gateway concurrency counters (`gateway/concurrency.ts`) | Redis counters, in-memory maps | acquire, release | gateway middleware, chat completion | several commands per call, failing commands, restarts | nobody is turned away for a slot that is free |
| Image generation tasks (`images/`) | `image_generation_tasks`, the set of active tasks, provider jobs, `usage_logs`, the account | POST and its retry, worker with its attempt chain, debit, reconcile sweep | image providers, ledger, image circuit breaker | worker against sweep on one row, stale list rows, late jobs, restart | completed means stored and paid; nobody pays without an image; tasks end |
| Stripe checkout and webhook (`routes/billing.ts`, `routes/webhooks.ts`) | `credit_orders`, `profiles.stripe_customer_id`, customers and sessions at Stripe | find or make the customer, insert the order, create the session, save its id, handle the event | ledger | at-least-once and overlapping events, a failure after any statement or request of a checkout, customers deleted meanwhile | a completed session is credited once and in the end; no order takes another's session |
| Image circuit breaker | per provider, model and operation: state, failures, probes | acquire, record result | image worker | results of older requests arriving in another state | at most N probes; an open circuit closes again |
| Model and provider breakers (`upstream/*CircuitBreaker.ts`) | failure counts in memory or Redis | is open, record failure, record success | chat completion, around the count of upstream calls | read, modify, write in two commands | a dead provider is found out although reports overwrite each other |
| Rate and token limits | window counters | check | gateway middleware | two Redis commands, window boundaries | at most the limit per window |
| Trial and period quotas | sums over `usage_logs` | check | chat, images | the sum is taken before the request, the debit after it | bounded overdraft |
| Responses tool state | memory map with TTL, `responses_tool_states` | save, get, prune | responses route, a second process | unawaited saves, restart, expiry | a follow-up finds what was saved |
| Chat completion pipeline (`lib/executeChatCompletion.ts`, gateway middleware, early event stream) | none between requests but its permits | attempt chain over models and providers, repair retries, early event stream, client abort, billing call | everything above | abort against debit, errors after the provider's answer, which finally block returns what | one debit per request, no unpaid answer, permits returned once, an end |
| Upstream providers, compatibility and tool intent, API keys, admin, tenants and catalog, speech and vision | rows of single tables, or none | HTTP clients, JSON transformations, CRUD | | | |
| Web front end, scripts, recorded load tests | none of the running API | | | | |

## 2. Modules

| Module | What it is |
|---|---|
| `Wallet` | abstract: what an account promises, without transactions |
| `OrderPayments` | abstract: what completing an order promises to its callers |
| `CreditLedger` | the stored procedures, statement by statement; implements `Wallet` and `OrderPayments` |
| `MCCreditLedger` | its TLC instances: calls and amounts |
| `CreditLedgerProofs` | its theorems |
| `BatchItems` | abstract: what a batch promises for each of its items |
| `BatchQueue`, `BatchQueueProofs` | one chat batch, with worker, cancel, repair script and crash; implements `BatchItems` |
| `FifoSemaphore` | abstract: a FIFO semaphore per limit key |
| `HeavyQueue`, `MCHeavyQueue`, `HeavyQueueProofs` | the heavy responses queue; implements `FifoSemaphore` |
| `GatewayCounters`, `MCGatewayCounters`, `GatewayCountersProofs` | one concurrency limit |
| `UpstreamGuards`, `MCUpstreamGuards`, `UpstreamGuardsProofs` | the provider's breaker composed with `GatewayCounters` |
| `PaidAnswers` | abstract: one outcome, one debit and no unpaid answer per request |
| `ChatRequests`, `MCChatRequests`, `ChatRequestsProofs` | chat requests from middleware to debit; implements `PaidAnswers` |
| `StripeCheckout`, `MCStripeCheckout`, `StripeCheckoutProofs` | buying credits, from the order to the credit; implements `OrderPayments` |
| `ImageLifecycle` | abstract: what a user of image generation may rely on |
| `ImageTasks`, `ImageTasksProofs` | image tasks with worker and sweep; implements `ImageLifecycle` |

Three modules compose others.  `UpstreamGuards` extends `GatewayCounters` and is proved to
implement it.  `ChatRequests` stands on the others by their results: a permit is a counter
whose exactness `HeavyQueue` and `GatewayCounters` show, a debit one step whose atomicity
`CreditLedger` shows.  `StripeCheckout` takes `complete_credit_order` as one step, and
`OrderPayments` is the interface at which the two meet: the procedure with its locks and the
shop with its one step both implement it, with the same steps for an order.  That shows that
neither does anything to an order or a topup that the interface does not allow; it does not by
itself show that the procedure does whatever the shop's step does, which is the reading of the
two definitions side by side.

The abstract modules have no locks, processes, retries or failures.  They are the pages to read
first: each fits on a screen, and says of a component only what its users see.

Operators whose comment starts with "Mutant" or "Mistake" are not the code: each is a
plausible bug, and putting it in the place of the definition it resembles makes TLC refute
one property.  They show that the properties can fail.

### The credit ledger (`CreditLedger`)

*State.*  `profiles`, `credits_balance`, `total_used`, `total_purchased`, `credit_ledger`,
`usage_logs`, `credit_orders` and `admin_audit_logs` are the tables and columns of those
names.  `profileLock`, `orderLock` and `advisoryLock` are the row locks of
`SELECT ... FOR UPDATE` and the advisory locks of `pg_advisory_xact_lock`.  `call`, `pc` and
`v_balance` are a connection's running procedure, the statement it has reached, and the one
local variable whose staleness matters.

*Steps.*  A connection takes one step per statement whose result another transaction can
change: the order row or the advisory lock (`LockOrder`, `LockAdminKey`), the duplicate
lookup (`LookupMiss`, `LookupHit`), the profile row (`LockProfile`), and then the writes with
the unique-index checks and the COMMIT in one (`DebitCredits`, `RecordUsageAndDebit`, ...).
The writes are one step because under READ COMMITTED nobody sees them before COMMIT, and
whatever else they need is a unique index, where the second writer waits for the first one's
outcome and is then refused or goes on.  `Disconnect` rolls back at any statement; a call may
be issued again at any time, which covers lost answers, retries and repeated webhook events.

### The batch queue (`BatchQueue`)

*State.*  `batch` and `item` are the two tables' columns; `charged` the items debited under
`batch_item:<id>`; `worker`, `task`, `exec`, `cancel`, `repair` and `final` say where
`processBatch`, each `processBatchItem`, each `executeChatCompletion`, the cancel handler, the
repair script and each running `finalizeBatch` are, with what they read.  `old` and `stale`
are the two ages the code compares with its limits.

*Steps.*  At most one SQL statement each, so that the others can run between a read and the
write it leads to.  The item timer (`TimeOut`) fails the item and leaves the execution
running, as `Promise.race` does; its debit may still come.  `Crash` loses everything in the
process, and nothing resumes the batch but the repair script.

### The heavy responses queue (`HeavyQueue`)

*State.*  `buckets`, `active`, `waiters`, `globalWaiterCount` and `inflight` are the module's
variables; `armed` the waiters with a live timer and abort listener; `pc` where the request
is, with "granted" for a promise that is resolved but whose request has not run since.

*Steps.*  One call of the queue, which has no await in it, is one action, with every call it
makes: `Finish` is the release, the wake of the next waiter, its settling and the deletion of
an empty bucket.

### The gateway counters (`GatewayCounters`)

*State.*  The Redis key's value, each worker's memory counter, and where each request is.
*Steps.*  One Redis command each; `IncrFails` and its like are commands that throw, whether
or not Redis executed them, after which the call falls back to memory.

### The guards of an upstream call (`UpstreamGuards`)

*State.*  `circuit` is the breaker's record in Redis, `states` the one in each worker's memory,
a failure count and whether `openUntil` is never, later or past; `at` where a request is
between the guards, and `read` the count it got from Redis and has not written back yet.
*Steps.*  One Redis command each, beside the counter's steps.  The count saturates at the
threshold, above which the code treats all counts alike.  The breaker's failing commands are
left out; the counter's fault actions do not occur in this composition.

### Chat requests (`ChatRequests`)

*State.*  `pc` is the await a request stands at; `keyInflight`, `heavyInflight` and
`upstreamInflight` the three counts and `inHandler`, `permit` who is behind them; `chain`,
`model`, `list`, `provider`, `refetched` and `retried` the loops of `runProviderAttempts`;
`aborted` the fired signals (of requests of `/v1/responses`, streams or not: the other
routes pass none); `sse` the event stream, open from the end of the precheck;
`bills` the debits asked for, `paid` and `charged` the ones made.

*Steps.*  What a request does between two awaits.  The middleware's finally block runs when the
handler returns, which for an event stream is when it has begun (`HandlerReturns`), while the
rest of the request runs on.  Simplified: the repairs that fetch again from the same provider
(tool repair, arbitration, silent answers) are one bounded `Refetch` and `RetrySilent`; every
answer costs one credit, and accounts with unlimited billing are left out; rates, quotas and
breakers answer freely (`TurnAway`, `PrecheckFails`, `Resolve`, `SelectProviders`);
`DebitCommits` may lose its answer.  `Spend` is the rest of the account's traffic.

### Stripe checkout (`StripeCheckout`)

*State.*  `stored` and `credit_orders` are columns of tables, `topups` counts a session's topup
rows; `pc`, `customer`, `session`, `again` are the locals of each `createCheckoutSession`;
`customers`, `deleted`, `metadata`, `completed` are Stripe's; `webhook` is where each delivery is.

*Steps.*  One statement or one request to Stripe.  A session can be completed as soon as it
exists and is reported from then on, so the webhook may come before its id is saved.
Completed does not mean paid (see 4); nothing in the model knows whether the money came.  A
fault (`CheckoutFails`, `DeliveryFails`) ends a call before or after the step took effect.
An order is pending or paid: for the table's other statuses the handler answers 200 without
a credit, but no code writes them.

### Image tasks (`ImageTasks`)

*State.*  `row` is `image_generation_tasks` (status, reconcile status, provider job, result
URL, charged); `jobs` the provider's jobs of a task; `balance` and `debited` the account;
`log` the usage row; `worker` where `processImageGeneration` is; `sweep` where
`runImageCostReconcileSweep` is, with the list of rows it read; `aged` the tasks beyond
`IMAGE_HARD_WAIT_MS`; `retries` the repeated POSTs that have read the task as queued.

*Steps.*  One statement or one answer of the provider.  Simplified: the five progress statuses
are one, "processing", since every guard treats them alike; all models cost the same; the
circuit breaker is a nondeterministic skip; the soft-wait note, which writes the reconcile
status that is there already, is left out; a failed claim statement has the claim's effect.
`Nano` marks the candidates whose code submits only once; a real chain is all of one kind or
all of the other, so mixed chains are an over-approximation.  `Spend` is the rest of the
account's traffic.  Faults (`Crash`, `PaymentGoesAstray`, `SweepPaymentGoesAstray`) are a
restart, a debit whose answer is lost and a final update that fails; `MaxFaults` bounds them.

## 3. Runs

| Run | Instance | What it shows |
|---|---|---|
| `ledger_usage` | two users, three connections, six calls | Debits, charges under one idempotency key and failure logs race: the ledger explains every balance and nothing overdraws (both in `LedgerInv`), usage rows and debits match, and the procedures implement `Wallet`. |
| `ledger_accounts` | two users, two connections, two orders under two sessions, an admin key used for two adjustments, an ops reversal | One credit per paid order, one outcome per admin key, totals equal to the sums of the ledger, orders and topups as `OrderPayments` has them, and no procedure waits for a lock for ever. |
| `ledger_ops` (violated) | two connections, the two kinds of ops adjustment under one key | The ops adjustment is not idempotent under concurrency. |
| `batch_safety` | two items, one retry | Items keep the contract of `BatchItems`, a finished cancel starts nothing, the header counts the worker's items (`BatchInv`) and never says more than they do, without cancel or crash the batch ends, and after a crash the repair script, run again and again, closes a batch that is not cancelled. |
| `batch_timeout` (violated) | one item | The item timer fails an item whose execution then debits. |
| `heavy_permits` | five streams over two keys, a plain request, one slot per key, two waiters | Slots are held by one request each and never leak, lines and counts are exact, the order is FIFO (`FifoSemaphore`), and every waiter is settled without any timer. |
| `upstream_guards` | two workers, three requests, limit two, a breaker that opens at three timeouts | Inside the breaker the count is exact in memory, and in Redis nobody is turned away for a free slot; with Redis a provider that only times out is found out again and again. |
| `chat_requests` | a stream of `/v1/responses` for an alias of three models, the second without a provider, and a request of the same route answered as JSON, both under one idempotency key; every limit one, one refetch, one credit | Every slot is returned once on every path, a request asks for one debit at most, no answer goes unpaid, an abort stops the work, every request ends, and its outcome, debit and answer are those of `PaidAnswers`. |
| `checkout` | one customer who buys twice at a time, two sessions, three Stripe customers of which one may be deleted, two deliveries, one fault | No order takes another's session, what was answered 200 is credited, a completed session is credited once, and in the end, and orders change as `OrderPayments` says. |
| `gateway_outage` (violated) | two workers, three requests, limit one, one fault | One failed command shuts every later request out. |
| `image_tasks` | one task, two candidates, three provider jobs at most, an account for two images, one fault | Worker and sweep never work on one task, completed means stored and paid, nobody pays without an image, tasks move as in `ImageLifecycle` (completed stays so), and without a fault tasks end and timed-out tasks are settled. |
| `image_billing` (violated) | the same without a fault | A late completion is debited beside a usage row that says not billable. |

*Why the bounds are enough.*  Each run has the smallest number of actors at which every race
of its component occurs: two connections for one lock, and a third for a waiter behind a
waiter; two orders and two sessions so that either may be the other's; two items so that one
can be charged while the other decides the header, and one retry so that an attempt has a
successor; a holder, two waiters and one turned away per key, and a second key for the global
cap; one request more than both workers' limits; two candidates so that the chain has a middle
and an end; for chat, a first model with two providers, one without and one with a single one,
which the retry of a sole provider needs, and limits of one so that every slot is fought for;
for the checkout, two orders of one user so that one could be mistaken for the other, and two
deliveries so that duplicates overlap; a threshold of three so that a lost update matters
before the circuit opens.  Amounts are chosen so that the balance pays for some calls and not for all.  With
one image task the sweep's list has one entry; for several tasks the safety properties are
proved.  The theorems remove the bounds from every safety property of the passing runs, but
for those caps that stand in a module's own guards (`MaxFaults`, `MaxRefetch`, `MaxDeleted`), which are
constants of any size.

*Deadlock* is checked where something can always happen: the ledger, the heavy queue, the
guards, the checkout (Stripe may repeat an event).  A batch, an image task and the chat
requests of an instance may have ended with nothing left to do, so their configurations turn
the check off.

### Fairness

- Ledger: Postgres continues a running transaction (weak), and grants a lock to its waiters in
  turn (strong, since others may take it in between).  Nobody has to call or disconnect.
- Batch: Node runs what is ready; the item timer fires if nothing else ends the attempt; a
  statement that was sent is executed; time passes.  `RepairClosesBatch` assumes that
  operators run the repair script regularly.  Nobody has to cancel, the provider does not have to answer.
- Heavy queue: a resolved promise resumes its request, and a running request ends, as every
  provider attempt has an upstream timeout.  Timers of waiters get none: the line moves
  without them.
- Guards: none.  `TimeoutsDegrade` has its assumption in its statement: the provider stays
  down, and reports of timeouts keep being written.
- Chat: Node goes on with what is ready; the upstream timeout, the wait timeout and the total
  timeout end what does not answer.  Clients need not come, leave or read.
- Checkout: a delivery under way goes on (weak), and Stripe repeats what was not answered 200
  (strong, since the deliveries may be busy with other events).  Nobody has to complete a
  session, and a checkout may stop anywhere.
- Images: Node runs what is ready, a worker's polls stop at the hard wait, the sweep's timer
  fires every 30 seconds, tasks grow old.  The provider does not have to finish a job.

## 4. What the runs found

Violations of something the repository says, each the only property of its run:

1. `ledger_ops`: `ops_ledger_adjustment` is documented as idempotent by its key, but its lookup
   precedes the profile lock and no unique index covers adjustment rows: two concurrent calls
   both apply.
2. `batch_timeout`: a failed item is said not to be charged; the item timer does not abort the
   execution, which may debit afterwards.
3. `gateway_outage`: a single failed DECR leaves its slot counted in a Redis key without an
   expiry; with nobody in flight, every request is refused.
4. `image_billing`: the usage row of the timeout (not billable) wins over the row of the late
   completion, whose debit stands beside it: the anomaly `non_billable_usage_has_debit` of
   `docs/p765-usage-ledger-safety.md`.

Other behaviour of the code met while modelling, which the passing properties leave out on
purpose and the hazards of `PROJECT.json` record:

- An item whose attempt ends with a retryable error after a cancel stays `cancel_requested`,
  and its batch never becomes final.
- A request of a key in the heavy queue and one outside it use two counters with one cap each,
  so a key may run twice the cap.
- The webhook credits every `checkout.session.completed` without reading the session's
  `payment_status` (`webhooks.ts:130-205`), and no `payment_method_types` are asked for
  (`billing.ts:442-453`): if a payment method with delayed notification is enabled in the
  Stripe account, a session completes, and is credited, before its money has come or although
  it never comes, and the later `async_payment_*` events are ignored.  The checkout's
  properties therefore speak of completed sessions and never of received money.
- A client that leaves after the debit was sent is charged for an answer it does not read;
  `AbortedRequestsStop` is about the steps before.  A debit whose answer is lost leaves a paid
  request answered with an error; under an idempotency key its retry gets the answer.
- DECR and DEL are two commands; a request counted between them is forgotten, and another is
  admitted over the limit.  `NoPhantomSlots` states the other direction.
- A process that dies while the sweep is on a task leaves `reconcile_status = in_progress`,
  which no sweep selects again; one that dies before the provider took the job leaves the task
  in flight for ever.  The liveness properties of `ImageTasks` therefore exclude faults.
- In memory, the provider breaker deletes a failure count below the threshold whenever it is
  asked whether the circuit is open, so requests that follow one another never open it:
  `TimeoutsDegrade` is stated for Redis.

## 5. What is proved

All theorems hold for every value of the constants under the named assumptions of the modules
(`CallsAssumption`, `ItemsAssumption`, `ImageAssumption` ...), which only say what kind of
thing a constant is and that limits are positive; TLC evaluates them in every run.

- **Ledger** (`CreditLedgerProofs`).  `LedgerInvariant`: the inductive invariant `LedgerInv`.
  A ledger that explains its balance is not inductive: a procedure between its locked read and
  its write carries the balance in `v_balance`, so the invariant adds that a backend at its
  writes holds the profile lock and its copy is current, who holds order locks, and that a
  session with a topup row belongs to a paid order, which keeps the caught unique violation of
  the topup insert harmless.  From it `LedgerExplainsBalanceAlways`, `NeverOverdrawnAlways`,
  `PaidIsFinalAlways`, and `LedgerImplementsWallet`, where each commit maps to one posting and
  each other step to a stutter.  `ChargesMatchUsageAlways`, `PaidOrdersAreCreditedAlways` and
  `AdminOutcomeOnceAlways` relate the ledger to the other tables: a ledger only grows by one
  row at its end (`Adds`), so that only the procedure that writes both sides of a relation can
  disturb it, a replay changes no order, and a failed audit names no row.
  `TotalsMatchLedgerAlways`: `total_used` and `total_purchased` are the sums of the ledger's
  rows.  The invariant (`TotalsParts`) says that some sequence of partial sums ends in the total,
  a form which a posted row extends by one element; two such sequences are equal by a least
  index at which they differ, so the recursive sums of the property are theirs.
  `LedgerImplementsOrderPayments`: the commit of `complete_credit_order` that inserts a topup
  row is the interface's completion, every other step a stutter; that the session is free and
  has no topup yet is what `LedgerInv` says of sessions.
- **Batch** (`BatchQueueProofs`).  `BatchInvariant`, in layers: each attempt has exactly one
  execution, from which `ChargedItemsAreDeliveredAlways` follows; who can be where, and with
  that how the status of the batch follows a cancel.  `NoStartAfterCancelAlways` needs that: a
  claim decided on before the cancel finds its item cancelled, and later checks see the batch
  cancelled, unless the batch is too old or no item is open, because the handler's own
  `finalizeBatch` counts before it writes another status.  `WorkerFinalizesAlways` needs that
  the pool leaves no item which anyone but an old batch's repair would still touch.
  `QueueImplementsBatchItems` needs a layer of its own (`BillsInv`): a charged item is never
  pending or cancelled, and an execution that nobody waits for belongs to an item that was
  given up, so that its late debit falls on an item which may still be charged.  Then every
  step of a task, of a cancel and of the repair script is one step of the contract or none.
  `HeaderNeverOverstatesAlways` is about counts that are old when they are written: three
  finalizers count first and write later, and what keeps their numbers true is that terminal
  items stay terminal and the succeeded and cancelled only grow (`HeaderInv` says it of the
  numbers each of them carries).  A failed item may turn into a succeeded one, which is why
  failures are left out of the statement.
- **Heavy queue** (`HeavyQueueProofs`).  `QueueInvariant` ties lines, slots, timers and the
  counters to where the requests are; from it `SlotsAreHeldAlways`,
  `GlobalCountIsExactAlways`, and `QueueImplementsSemaphore`.
- **Counters** (`GatewayCountersProofs`).  `CountersInvariant`; from it `MemoryIsExactAlways`
  and, while no command fails, `NoPhantomSlotsAlways`.
- **Guards** (`UpstreamGuardsProofs`).  `GuardsImplementCounters`: each step of the composition
  is a step of the counter or leaves its variables alone, because a request calls the counter
  only where the counter's own guard stands.  So the counter's theorems hold inside the breaker
  (`GuardedCallsLeaveNoPhantoms`, `GuardedMemoryIsExact`).
- **Chat** (`ChatRequestsProofs`). `ChatInvariant`, `OneBillPerRequestAlways`,
  `AnswersArePaidAlways` and the action property `AbortedRequestsStopAlways`. The counts are
  cardinalities, which a step changes by one exactly when its request enters or leaves the
  holders; that a request past its debit never comes back to the attempts is what makes one
  bill enough. The invariant adds for each request that its model belongs to its chain and its
  provider to its list (`Placed`), without which "the next one" would not be one of them; that
  a least element exists comes from the well-foundedness of the natural numbers.
  `ChatImplementsPaidAnswers`: the places a request can be at map to four outcomes, and each
  action either keeps the outcome and the account or is one step of `PaidAnswers`, the commit
  of a debit paying and ending the request at once.  It needs that a request has its
  outcome exactly when it is on its way out, and that it has not paid before.
- **Checkout** (`StripeCheckoutProofs`).  `CheckoutInvariant`: sessions, orders, calls and
  deliveries agree on which order a session belongs to, which is what keeps the procedure's
  mismatch error from ever being raised; then `AcknowledgedWereCredited` and
  `OneCreditPerSessionAlways`, which need it: a delivery between its checks and its completion
  may have been overtaken, but only by one for the same order.
  `CheckoutImplementsOrderPayments` shows with it that an order is stored before it has a
  session and completed only under its own.
- **Images** (`ImageTasksProofs`).  `ImageInvariant`: a worker past its claim owns a row in
  flight; a row the sweep knows has left the queue for good, so no worker can claim it (the
  reason why the sweep may ask for an active worker only once); nobody stores or debits without
  an image, nor finishes without a debit.  Each task's part mentions only that task, so a step
  is proved for its own task and a frame lemma deals with the others.  From it `SweepYields`,
  `CompletedWasPaid`, `DebitWasBacked`, `PaidWasDelivered` and the action property
  `CompletedStaysFinal`.  `TasksImplementLifecycle` classifies the actions by what they do to a
  status, a job, the balance or nothing (`StepKinds`), and shows that each kind is a step of
  the lifecycle: worker and sweep, with their guards on the row's status, are one there.

*Only model-checked:* all liveness (`CallsReturn`, `BatchCompletes`, `RepairClosesBatch`,
`WaitersAreServed`, `TimeoutsDegrade`, `EveryRequestEnds`, `CompletedIsCredited`, `TaskEnds`,
`TimedOutIsReconciled`), which the prover does not reach.  Every safety property of a passing
run is stated by a theorem; the violated runs have none, their property being false.

## 6. What is not modelled

`PROJECT.json` lists every component with its status.

- The image circuit breaker.  `ImageTasks` lets it answer anything, so nothing proved there
  depends on it; its own probes, which results of older requests release, stay a hazard
  without a property.
- Rate limits, token limits, trial and period quotas.  What they promise is about wall-clock
  windows and sums of past usage; the modules see their refusals, at every point where the
  code asks.  The quotas are summed before a request and charged after it, so they may be
  overdrawn by what is in flight; the balance may not, which `NeverOverdrawn` and
  `AnswersArePaid` show.
- `modelCircuitBreaker`, which has the bodies of the provider's breaker that `UpstreamGuards`
  models, and the fallback of both to memory when a Redis command fails.
- The tool state of `/v1/responses`: rows written once, read until they expire, and otherwise
  encryption and text.
- The transformation of requests and answers between the dialects of providers (text, about a
  third of the API's lines), the HTTP clients, CRUD handlers and reports on single rows,
  cryptography, the front end and the scripts, which together are most of the repository.
- Within the modelled components: failing database statements of the batch worker, Redis'
  never contended batch lock, accounts with unlimited billing and free models, the text of
  errors and logs, and price tables, for which amounts stand.

## 7. Plan

Written so far, in the order of their consequence: the ledger, the batch, the queue and the
counters, the images, then the checkout, the chat requests and the guards.  What would add
most next:

1. **`ImageCircuit`**: closed, open and half-open, with results of requests from before.
2. **`ToolState`**: two processes, memory and durable table, expiry and restart.

Runs are kept few: the parameters of a module are chosen so that one passing run asks all of
its questions, and the violated runs are the ones whose claim the repository makes most
explicitly.
