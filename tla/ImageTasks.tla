----------------------------- MODULE ImageTasks -----------------------------
(* Asynchronous image generation: the POST handler inserts a task, a       *)
(* worker in the API process runs it against the provider (images/         *)
(* worker.ts), and a sweep in the same process reconciles tasks whose      *)
(* provider job outlived the worker (images/costReconcile.ts).  Both debit *)
(* the account and write the task's row; nothing but the in-memory set of  *)
(* active tasks and the guards of the UPDATEs keeps them apart.            *)
(*                                                                         *)
(* One step is one statement, or one answer of the provider.  The five     *)
(* statuses from validating to saving_result are one, "processing": every  *)
(* guard treats them alike.  A task costs Price, whatever model answers.   *)
EXTENDS Integers, Sequences, FiniteSets

CONSTANTS
    Tasks,       \* request ids
    Candidates,  \* length of the attempt chain
    Nano,        \* the candidates whose provider code submits only once
    Balance,     \* credits of the user at first
    Price,       \* credits for one image
    MaxFaults    \* bound: crashes, lost answers and failing statements

ASSUME ImageAssumption ==
    /\ Candidates \in Nat \ {0}
    /\ Nano \subseteq 1..Candidates
    /\ Balance \in Nat
    /\ Price \in Nat \ {0}
    /\ MaxFaults \in Nat

VARIABLES
    row,      \* image_generation_tasks
    jobs,     \* the provider's jobs of each task, by task id
    aged,     \* tasks older than IMAGE_HARD_WAIT_MS
    balance,  \* profiles.credits_balance
    debited,  \* tasks with a debit row in credit_ledger
    log,      \* the status in usage_logs, unique by request_id
    worker,   \* processImageGeneration of each task
    sweep,    \* runImageCostReconcileSweep
    faults,
    retries   \* repeated POSTs that found the task queued

account == <<balance, debited>>
butWorker == <<row, jobs, aged, account, log, sweep, faults, retries>>
butSweep == <<row, jobs, aged, account, log, worker, faults, retries>>
vars == <<row, jobs, aged, account, log, worker, sweep, faults, retries>>

InFlight == {"queued", "processing"}
Terminal == {"completed", "failed", "retryable_timeout"}

NoRow == [status |-> "none", reconcile |-> "none", job |-> 0,
          url |-> FALSE, charged |-> FALSE]

NoWorker == [at |-> "none", cand |-> 1, retried |-> FALSE, job |-> 0,
             err |-> "none"]

(* The list is a snapshot of rows: what is not on it is NoRow. *)
NoSweep == [at |-> "idle", task |-> "none", list |-> [t \in Tasks |-> NoRow],
            fail |-> "none", meta |-> "none"]

isImageGenerationActive(t) == worker[t].at # "none"

Init ==
    /\ row = [t \in Tasks |-> NoRow]
    /\ jobs = [t \in Tasks |-> <<>>]
    /\ aged = {}
    /\ balance = Balance
    /\ debited = {}
    /\ log = [t \in Tasks |-> "none"]
    /\ worker = [t \in Tasks |-> NoWorker]
    /\ sweep = NoSweep
    /\ faults = 0
    /\ retries = {}

-----------------------------------------------------------------------------
(* Statements on the row (images/tasksDb.ts).                              *)

(* Mutant: a failure is written over whatever the row says. *)
FinalizeFailureUnguarded(t, status, reconcile) ==
    row' = [row EXCEPT ![t].status = status, ![t].reconcile = reconcile,
                       ![t].charged = FALSE]

(* Mutant: a task that timed out counts as closed. *)
FinalizeFailureInFlight(t, status, reconcile) ==
    row' = IF row[t].status \in InFlight
           THEN [row EXCEPT ![t].status = status, ![t].reconcile = reconcile,
                            ![t].charged = FALSE]
           ELSE row

finalizeImageTaskFailure(t, status, reconcile) ==
    row' = IF row[t].status \in InFlight \cup {"retryable_timeout"}
           THEN [row EXCEPT ![t].status = status, ![t].reconcile = reconcile,
                            ![t].charged = FALSE]
           ELSE row

(* Mutant: success too is written only while the task is in flight. *)
FinalizeSuccessInFlight(t, job) ==
    row' = IF row[t].status \in InFlight
           THEN [row EXCEPT ![t] = [status |-> "completed", reconcile |-> "reconciled",
                                    job |-> job, url |-> TRUE, charged |-> TRUE]]
           ELSE row

finalizeImageTaskSuccess(t, job) ==
    row' = [row EXCEPT ![t] = [status |-> "completed", reconcile |-> "reconciled",
                               job |-> job, url |-> TRUE, charged |-> TRUE]]

updateImageTaskReconcileMeta(t, reconcile) ==
    row' = [row EXCEPT ![t].reconcile = reconcile]

markImageTaskUpstreamSubmitted(t, job) ==
    row' = IF row[t].status \in InFlight
           THEN [row EXCEPT ![t].job = job, ![t].reconcile = "pending"]
           ELSE row

(* debit_credits refuses for lack of credits before the unique index can   *)
(* tell that the task was charged already.                                 *)
CanDebit == balance >= Price

debit_credits(t) ==
    IF t \in debited
    THEN UNCHANGED account
    ELSE /\ balance' = balance - Price
         /\ debited' = debited \cup {t}

(* The first row of a request stays; the unique violation of a second one  *)
(* is dropped.                                                             *)
InsertUsageLog(t, status) ==
    log' = IF log[t] = "none" THEN [log EXCEPT ![t] = status] ELSE log

-----------------------------------------------------------------------------
(* POST /v1/images/generations.                                            *)

Start(t) == worker' = [worker EXCEPT ![t] = [NoWorker EXCEPT !.at = "start"]]

Post(t) ==
    /\ row[t].status = "none"
    /\ balance > 0
    /\ row' = [row EXCEPT ![t].status = "queued"]
    /\ Start(t)
    /\ UNCHANGED <<jobs, aged, account, log, sweep, faults, retries>>

(* A retry under the same idempotency key reads the task as queued, and   *)
(* enqueues it; by then the task may have moved on.                        *)
RetryReads(t) ==
    /\ row[t].status = "queued"
    /\ retries' = retries \cup {t}
    /\ UNCHANGED <<row, jobs, aged, account, log, worker, sweep, faults>>

RetryEnqueues(t) ==
    /\ t \in retries
    /\ retries' = retries \ {t}
    /\ IF isImageGenerationActive(t) THEN UNCHANGED worker ELSE Start(t)
    /\ UNCHANGED <<row, jobs, aged, account, log, sweep, faults>>

-----------------------------------------------------------------------------
(* The worker.                                                             *)

At(t, place) == worker[t].at = place

GoTo(t, place) == worker' = [worker EXCEPT ![t].at = place]

Leave(t) == worker' = [worker EXCEPT ![t] = NoWorker]

(* Mutant: nobody looks whether the update has found the task queued. *)
ClaimAnyway(t) ==
    /\ At(t, "start")
    /\ row' = [row EXCEPT ![t].status = IF @ = "queued" THEN "processing" ELSE @]
    /\ GoTo(t, "guards")
    /\ UNCHANGED <<jobs, aged, account, log, sweep, faults, retries>>

(* markImageTaskStarted: only one worker finds the task queued.  (When its *)
(* statement fails, the worker goes on all the same if it reads the row as *)
(* queued, and the next progress update has the claim's effect.)           *)
Claim(t) ==
    /\ At(t, "start")
    /\ IF row[t].status = "queued"
       THEN /\ row' = [row EXCEPT ![t].status = "processing"]
            /\ GoTo(t, "guards")
       ELSE /\ Leave(t)
            /\ UNCHANGED row
    /\ UNCHANGED <<jobs, aged, account, log, sweep, faults, retries>>

(* assertImageQuotaGuards: balance, period caps, trial. *)
PassGuards(t) ==
    /\ At(t, "guards")
    /\ balance > 0
    /\ GoTo(t, "attempt")
    /\ UNCHANGED butWorker

RefuseGuards(t) ==
    /\ At(t, "guards")
    /\ GoTo(t, "fail")
    /\ UNCHANGED butWorker

(* The provider accepts a job; its id is stored at once. *)
Submit(t) ==
    LET job == Len(jobs[t]) + 1 IN
    /\ At(t, "attempt")
    /\ jobs' = [jobs EXCEPT ![t] = Append(@, "running")]
    /\ worker' = [worker EXCEPT ![t].at = "wait", ![t].job = job]
    /\ markImageTaskUpstreamSubmitted(t, job)
    /\ UNCHANGED <<aged, account, log, sweep, faults, retries>>

(* The provider answers the request with an image and no task id. *)
SubmitAnswered(t) ==
    /\ At(t, "attempt")
    /\ jobs' = [jobs EXCEPT ![t] = Append(@, "done")]
    /\ GoTo(t, "asset")
    /\ UNCHANGED <<row, aged, account, log, sweep, faults, retries>>

(* Mutant: at the end of the chain the worker just returns. *)
NextCandidateOrReturn(t, err) ==
    LET w == worker[t] IN
    worker' = [worker EXCEPT ![t] =
        IF w.cand = Candidates
        THEN NoWorker
        ELSE [NoWorker EXCEPT !.at = "attempt", !.cand = w.cand + 1, !.err = err]]

(* The next candidate, or the end of the chain. *)
NextCandidate(t, err) ==
    LET w == worker[t] IN
    worker' = [worker EXCEPT ![t] =
        IF w.cand = Candidates
        THEN [w EXCEPT !.at = "fail", !.err = err]
        ELSE [NoWorker EXCEPT !.at = "attempt", !.cand = w.cand + 1, !.err = err]]

(* An open circuit skips the candidate; a request that fails or times out  *)
(* before the provider took the job leaves it without one.                 *)
AttemptFails(t) ==
    /\ At(t, "attempt")
    /\ \/ ~worker[t].retried /\ NextCandidate(t, worker[t].err)
       \/ NextCandidate(t, "error")
       \/ worker[t].job = 0 /\ NextCandidate(t, "timeout")
    /\ UNCHANGED butWorker

(* Policy and prompt errors end the task. *)
ClientError(t) ==
    /\ At(t, "attempt")
    /\ worker' = [worker EXCEPT ![t].at = "fail", ![t].err = "error"]
    /\ UNCHANGED butWorker

JobOf(t) == jobs[t][worker[t].job]

(* Mutant: an answer without an image passes for one with. *)
PollDoneOrEmpty(t) ==
    /\ At(t, "wait")
    /\ JobOf(t) \in {"done", "empty"}
    /\ GoTo(t, "asset")
    /\ UNCHANGED butWorker

PollDone(t) ==
    /\ At(t, "wait")
    /\ JobOf(t) = "done"
    /\ GoTo(t, "asset")
    /\ UNCHANGED butWorker

(* The job failed or has no image, or the poll itself was refused. *)
PollFails(t) ==
    /\ At(t, "wait")
    /\ NextCandidate(t, "error")
    /\ UNCHANGED butWorker

(* runImageGenerationWithPolling submits once more after a timeout or a    *)
(* busy answer.                                                            *)
Resubmit(t) ==
    /\ At(t, "wait")
    /\ ~worker[t].retried
    /\ worker[t].cand \notin Nano
    /\ worker' = [worker EXCEPT ![t].at = "attempt", ![t].retried = TRUE]
    /\ UNCHANGED butWorker

(* A timeout with a job at the provider ends the attempts: the sweep will  *)
(* ask for the job again.                                                  *)
TimeOut(t) ==
    /\ \/ At(t, "wait")
       \/ At(t, "attempt") /\ worker[t].job # 0
    /\ worker' = [worker EXCEPT ![t].at = "fail", ![t].err = "timeout"]
    /\ UNCHANGED butWorker

(* downloadValidateAndPersistProviderImage. *)
StoreAsset(t) ==
    /\ At(t, "asset")
    /\ GoTo(t, "debit")
    /\ UNCHANGED butWorker

(* The provider's asset is bad: next candidate.  Our own storage is: end. *)
AssetFails(t) ==
    /\ At(t, "asset")
    /\ \/ NextCandidate(t, "error")
       \/ worker' = [worker EXCEPT ![t].at = "fail", ![t].err = "error"]
    /\ UNCHANGED butWorker

(* Mutant: a refused debit is not noticed. *)
DebitIgnoringRefusal(t) ==
    /\ At(t, "debit")
    /\ GoTo(t, "log")
    /\ IF CanDebit THEN debit_credits(t) ELSE UNCHANGED account
    /\ UNCHANGED <<row, jobs, aged, log, sweep, faults, retries>>

Debit(t) ==
    /\ At(t, "debit")
    /\ IF CanDebit
       THEN debit_credits(t) /\ GoTo(t, "log")
       ELSE /\ worker' = [worker EXCEPT ![t].at = "fail", ![t].err = "error"]
            /\ UNCHANGED account
    /\ UNCHANGED <<row, jobs, aged, log, sweep, faults, retries>>

LogSuccess(t) ==
    /\ At(t, "log")
    /\ InsertUsageLog(t, "succeeded")
    /\ GoTo(t, "finish")
    /\ UNCHANGED <<row, jobs, aged, account, sweep, faults, retries>>

Finish(t) ==
    /\ At(t, "finish")
    /\ finalizeImageTaskSuccess(t, worker[t].job)
    /\ Leave(t)
    /\ UNCHANGED <<jobs, aged, account, log, sweep, faults, retries>>

(* failTask: the row, then the usage log.  Only a timeout with a job at    *)
(* the provider stays pending.                                             *)
FailTask(t) ==
    LET late == worker[t].err = "timeout" IN
    /\ At(t, "fail")
    /\ finalizeImageTaskFailure(t,
          IF late THEN "retryable_timeout" ELSE "failed",
          IF late /\ worker[t].job # 0 THEN "pending" ELSE "reconciled")
    /\ GoTo(t, "faillog")
    /\ UNCHANGED <<jobs, aged, account, log, sweep, faults, retries>>

LogFailure(t) ==
    /\ At(t, "faillog")
    /\ InsertUsageLog(t, "failed")
    /\ Leave(t)
    /\ UNCHANGED <<row, jobs, aged, account, sweep, faults, retries>>

(* The answer of the debit, or the update that finishes the task, fails:   *)
(* the task is failed although it was debited.                             *)
PaymentGoesAstray(t) ==
    /\ faults < MaxFaults
    /\ faults' = faults + 1
    /\ \/ At(t, "debit") /\ CanDebit /\ debit_credits(t)
       \/ At(t, "finish") /\ UNCHANGED account
    /\ worker' = [worker EXCEPT ![t].at = "fail", ![t].err = "error"]
    /\ UNCHANGED <<row, jobs, aged, log, sweep, retries>>

Work(t) ==
    \/ Claim(t) \/ PassGuards(t) \/ RefuseGuards(t)
    \/ Submit(t) \/ SubmitAnswered(t) \/ AttemptFails(t) \/ ClientError(t)
    \/ PollDone(t) \/ PollFails(t) \/ Resubmit(t) \/ TimeOut(t)
    \/ StoreAsset(t) \/ AssetFails(t) \/ Debit(t) \/ LogSuccess(t) \/ Finish(t)
    \/ FailTask(t) \/ LogFailure(t)

-----------------------------------------------------------------------------
(* The sweep.                                                              *)

SweepAt(place) == sweep.at = place

(* The step after this one's UPDATE: what is left of the list, or nothing. *)
NextTask == [sweep EXCEPT !.at = "next", !.task = "none", !.fail = "none",
                          !.meta = "none"]

(* listImageTasksNeedingReconcile reads whole rows. *)
List ==
    /\ SweepAt("idle")
    /\ sweep' = [NoSweep EXCEPT !.at = "next", !.list =
          [t \in Tasks |-> IF row[t].reconcile = "pending" /\ row[t].job # 0
                           THEN row[t] ELSE NoRow]]
    /\ \E t \in Tasks : sweep'.list[t] # NoRow
    /\ UNCHANGED butSweep

Listed == {t \in Tasks : sweep.list[t] # NoRow}

Unlist(t) == [sweep.list EXCEPT ![t] = NoRow]

Snapshot == sweep.list[sweep.task]

SweepEnds ==
    /\ SweepAt("next")
    /\ Listed = {}
    /\ sweep' = NoSweep
    /\ UNCHANGED butSweep

(* A task with a worker in this process is left alone. *)
Skip(t) ==
    /\ SweepAt("next")
    /\ t \in Listed
    /\ isImageGenerationActive(t)
    /\ sweep' = [sweep EXCEPT !.list = Unlist(t)]
    /\ UNCHANGED butSweep

Paid(r) == r.status = "completed" /\ r.url /\ r.charged

(* Mutant: the sweep does not ask whether a worker is on the task. *)
TakeActive(t) ==
    /\ SweepAt("next")
    /\ t \in Listed
    /\ IF Paid(sweep.list[t])
       THEN /\ updateImageTaskReconcileMeta(t, "reconciled")
            /\ sweep' = [sweep EXCEPT !.list = Unlist(t)]
       ELSE /\ updateImageTaskReconcileMeta(t, "in_progress")
            /\ sweep' = [sweep EXCEPT !.at = "poll", !.task = t]
    /\ UNCHANGED <<jobs, aged, account, log, worker, faults, retries>>

Take(t) ==
    /\ SweepAt("next")
    /\ t \in Listed
    /\ ~isImageGenerationActive(t)
    /\ IF Paid(sweep.list[t])
       THEN /\ updateImageTaskReconcileMeta(t, "reconciled")
            /\ sweep' = [sweep EXCEPT !.list = Unlist(t)]
       ELSE /\ updateImageTaskReconcileMeta(t, "in_progress")
            /\ sweep' = [sweep EXCEPT !.at = "poll", !.task = t]
    /\ UNCHANGED <<jobs, aged, account, log, worker, faults, retries>>

(* What asking the provider for a job says: how the job is, "failed" when  *)
(* the answer is an error, "running" when it is busy or does not answer.   *)
Answers(t, job) == {jobs[t][job], "failed", "running"}

(* decideReconcileAction, and the first step of what it decides: the rows  *)
(* it compares with are those of the list, which may be old.               *)
Decide(answer) ==
    LET old == Snapshot.status IN
    CASE answer = "done" -> [sweep EXCEPT !.at = "asset"]
      [] answer = "empty" ->
            [sweep EXCEPT !.at = "fail", !.fail = "failed",
                          !.meta = "orphan_alarm"]
      [] answer = "failed" ->
            IF old \in {"failed", "retryable_timeout"}
            THEN [sweep EXCEPT !.at = "meta", !.meta = "reconciled"]
            ELSE [sweep EXCEPT !.at = "fail", !.fail = "failed"]
      [] answer = "running" /\ sweep.task \in aged ->
            IF old = "retryable_timeout"
            THEN [sweep EXCEPT !.at = "meta", !.meta = "reconciled"]
            ELSE [sweep EXCEPT !.at = "fail", !.fail = "retryable_timeout"]
      [] OTHER -> [sweep EXCEPT !.at = "meta", !.meta = "pending"]

Poll ==
    /\ SweepAt("poll")
    /\ \E answer \in Answers(sweep.task, Snapshot.job) : sweep' = Decide(answer)
    /\ UNCHANGED butSweep

SweepFails ==
    /\ SweepAt("fail")
    /\ finalizeImageTaskFailure(sweep.task, sweep.fail, "reconciled")
    /\ sweep' = IF sweep.meta = "none"
                THEN [NextTask EXCEPT !.list = Unlist(sweep.task)]
                ELSE [sweep EXCEPT !.at = "meta"]
    /\ UNCHANGED <<jobs, aged, account, log, worker, faults, retries>>

SweepMeta ==
    /\ SweepAt("meta")
    /\ updateImageTaskReconcileMeta(sweep.task, sweep.meta)
    /\ sweep' = [NextTask EXCEPT !.list = Unlist(sweep.task)]
    /\ UNCHANGED <<jobs, aged, account, log, worker, faults, retries>>

(* applyLaterCompleted: the image is stored, or the task fails. *)
SweepAsset ==
    /\ SweepAt("asset")
    /\ \/ sweep' = [sweep EXCEPT !.at = "debit"]
       \/ sweep' = [sweep EXCEPT !.at = "fail", !.fail = "failed",
                                !.meta = "reconciled"]
    /\ UNCHANGED butSweep

SweepDebit ==
    /\ SweepAt("debit")
    /\ IF CanDebit
       THEN debit_credits(sweep.task) /\ sweep' = [sweep EXCEPT !.at = "log"]
       ELSE /\ sweep' = [sweep EXCEPT !.at = "meta", !.meta = "orphan_alarm"]
            /\ UNCHANGED account
    /\ UNCHANGED <<row, jobs, aged, log, worker, faults, retries>>

SweepLog ==
    /\ SweepAt("log")
    /\ InsertUsageLog(sweep.task, "succeeded")
    /\ sweep' = [sweep EXCEPT !.at = "finish"]
    /\ UNCHANGED <<row, jobs, aged, account, worker, faults, retries>>

SweepFinish ==
    /\ SweepAt("finish")
    /\ finalizeImageTaskSuccess(sweep.task, Snapshot.job)
    /\ sweep' = [NextTask EXCEPT !.list = Unlist(sweep.task)]
    /\ UNCHANGED <<jobs, aged, account, log, worker, faults, retries>>

(* The debit's answer or the last update is lost: an alarm is raised. *)
SweepPaymentGoesAstray ==
    /\ faults < MaxFaults
    /\ faults' = faults + 1
    /\ \/ SweepAt("debit") /\ CanDebit /\ debit_credits(sweep.task)
       \/ SweepAt("finish") /\ UNCHANGED account
    /\ sweep' = [sweep EXCEPT !.at = "meta", !.meta = "orphan_alarm"]
    /\ UNCHANGED <<row, jobs, aged, log, worker, retries>>

SweepStep ==
    \/ List \/ SweepEnds \/ (\E t \in Tasks : Skip(t) \/ Take(t))
    \/ Poll \/ SweepFails \/ SweepMeta \/ SweepAsset
    \/ SweepDebit \/ SweepLog \/ SweepFinish

-----------------------------------------------------------------------------
(* Around them.                                                            *)

(* The provider, which nobody can stop. *)
JobEnds(t) ==
    /\ \E k \in DOMAIN jobs[t], end \in {"done", "failed", "empty"} :
          /\ jobs[t][k] = "running"
          /\ jobs' = [jobs EXCEPT ![t][k] = end]
    /\ UNCHANGED <<row, aged, account, log, worker, sweep, faults, retries>>

GrowsOld(t) ==
    /\ row[t].status # "none"
    /\ t \notin aged
    /\ aged' = aged \cup {t}
    /\ UNCHANGED <<row, jobs, account, log, worker, sweep, faults, retries>>

(* The same account pays for other requests. *)
Spend ==
    /\ balance >= Price
    /\ balance' = balance - Price
    /\ UNCHANGED <<row, jobs, aged, debited, log, worker, sweep, faults, retries>>

(* The process dies and is restarted: its workers, its sweep and its set   *)
(* of active tasks are gone.                                               *)
Crash ==
    /\ faults < MaxFaults
    /\ faults' = faults + 1
    /\ worker' = [t \in Tasks |-> NoWorker]
    /\ sweep' = NoSweep
    /\ retries' = {}
    /\ UNCHANGED <<row, jobs, aged, account, log>>

Next ==
    \/ \E t \in Tasks :
          \/ Post(t) \/ RetryReads(t) \/ RetryEnqueues(t)
          \/ Work(t) \/ PaymentGoesAstray(t) \/ JobEnds(t) \/ GrowsOld(t)
    \/ SweepStep \/ SweepPaymentGoesAstray
    \/ Spend \/ Crash

(* Node runs what is ready, the polls of a worker stop at the hard wait,   *)
(* the sweep's timer fires every 30 seconds, and time passes.  Nobody has  *)
(* to post or retry, the provider has to finish nothing.                   *)
Fairness ==
    /\ \A t \in Tasks : WF_vars(Work(t)) /\ WF_vars(GrowsOld(t))
    /\ WF_vars(SweepStep)

Spec == Init /\ [][Next]_vars /\ Fairness

-----------------------------------------------------------------------------
(* Properties.                                                             *)

Rows == [status : {"none"} \cup InFlight \cup Terminal,
         reconcile : {"none", "pending", "in_progress", "reconciled",
                      "orphan_alarm"},
         job : Nat, url : BOOLEAN, charged : BOOLEAN]

Workers ==
    [at : {"none", "start", "guards", "attempt", "wait", "asset", "debit", "log",
           "finish", "fail", "faillog"},
     cand : 1..Candidates, retried : BOOLEAN, job : Nat,
     err : {"none", "error", "timeout"}]

Sweeps ==
    [at : {"idle", "next", "poll", "asset", "debit", "log", "finish", "fail",
           "meta"},
     task : Tasks \cup {"none"}, list : [Tasks -> Rows],
     fail : {"none", "failed", "retryable_timeout"},
     meta : {"none", "pending", "reconciled", "orphan_alarm"}]

TypeOK ==
    /\ row \in [Tasks -> Rows]
    /\ jobs \in [Tasks -> Seq({"running", "done", "failed", "empty"})]
    /\ aged \subseteq Tasks
    /\ balance \in Nat
    /\ debited \subseteq Tasks
    /\ log \in [Tasks -> {"none", "succeeded", "failed"}]
    /\ worker \in [Tasks -> Workers]
    /\ sweep \in Sweeps
    /\ faults \in 0..MaxFaults
    /\ retries \subseteq Tasks

HasImage(t) == \E k \in DOMAIN jobs[t] : jobs[t][k] = "done"

Sweeping(t) == sweep.at \notin {"idle", "next"} /\ sweep.task = t

(* The worker and the sweep of a process never work on the same task, so   *)
(* that they cannot store, charge or fail it against each other, although  *)
(* the sweep asks for an active worker only once, before its first UPDATE. *)
SweepYieldsToWorker ==
    \A t \in Tasks : Sweeping(t) => worker[t].at \in {"none", "start"}

(* A customer sees a completed task only when its image is stored, a job   *)
(* of the provider made it, and it was paid for.                           *)
CompletedIsPaid ==
    \A t \in Tasks : row[t].status = "completed" =>
        /\ row[t].url /\ row[t].charged
        /\ t \in debited

(* Nobody pays for nothing: a debit has a finished job of the provider     *)
(* behind it, whichever of the two actors made it and whatever was retried.*)
DebitIsBacked == \A t \in debited : HasImage(t)

(* A task that was debited is completed, or whoever debited it is about to *)
(* complete it; only a crash or a lost answer leaves it unfinished.        *)
PaidIsDelivered ==
    \A t \in debited :
        \/ row[t].status = "completed"
        \/ worker[t].at \in {"log", "finish"}
        \/ Sweeping(t) /\ sweep.at \in {"log", "finish"}
        \/ faults > 0

(* Once completed, a task stays completed and paid, although the sweep     *)
(* decides on rows it read before the worker finished.                     *)
CompletedIsFinal ==
    [][\A t \in Tasks : row[t].status = "completed" =>
          row'[t].status = "completed" /\ row'[t].url /\ row'[t].charged]_vars

(* What the customer and the books see of a task. *)
Lifecycle ==
    INSTANCE ImageLifecycle WITH
        status <- [t \in Tasks |-> row[t].status],
        images <- {t \in Tasks : HasImage(t)}

(* Worker, sweep, retries and restarts together charge and finish a task   *)
(* as one careful clerk would: once, for an image that is there, while it  *)
(* is open, and never again once it is completed.                          *)
ImplementsImageLifecycle == Lifecycle!Spec

(* Without a crash, every accepted task ends. *)
TaskEnds ==
    \A t \in Tasks :
        row[t].status = "queued" ~> row[t].status \in Terminal \/ faults > 0

(* Without a crash, a timed out task whose job is still with the provider  *)
(* does not wait for the sweep for ever.                                   *)
TimedOutIsReconciled ==
    \A t \in Tasks :
        row[t].status = "retryable_timeout" /\ row[t].reconcile = "pending"
            ~> row[t].reconcile \in {"reconciled", "orphan_alarm"} \/ faults > 0

(* docs/p765 calls a usage row that is not billable and has a debit an     *)
(* anomaly.                                                                *)
NoDebitOnNonBillable == \A t \in debited : log[t] # "failed"

-----------------------------------------------------------------------------
(* The inductive invariant behind the safety properties.                   *)

Busy == {"guards", "attempt", "wait", "asset", "debit", "log", "finish", "fail"}

(* A worker past its claim owns a row in flight; a row the sweep knows has *)
(* left the queue for good, so no worker can claim it; nobody stores or    *)
(* debits without an image, nor finishes without a debit.                  *)
TaskInv(t) ==
    /\ worker[t].at \in Busy => row[t].status = "processing"
    /\ worker[t].at = "wait" => worker[t].job \in DOMAIN jobs[t]
    /\ row[t].job # 0 => /\ row[t].status \notin {"none", "queued"}
                         /\ row[t].job \in DOMAIN jobs[t]
    /\ worker[t].job # 0 => worker[t].job \in DOMAIN jobs[t]
    /\ jobs[t] # <<>> => row[t].status \notin {"none", "queued"}
    /\ sweep.list[t] # NoRow =>
          /\ row[t].status \notin {"none", "queued"}
          /\ sweep.list[t].job \in DOMAIN jobs[t]
    /\ Sweeping(t) => /\ worker[t].at \in {"none", "start"}
                      /\ sweep.list[t] # NoRow
    /\ worker[t].at \in {"asset", "debit"} => HasImage(t)
    /\ Sweeping(t) /\ sweep.at \in {"asset", "debit"} => HasImage(t)
    /\ worker[t].at \in {"log", "finish"} => t \in debited
    /\ Sweeping(t) /\ sweep.at \in {"log", "finish"} => t \in debited
    /\ t \in debited => HasImage(t)
    /\ row[t].status = "completed" => row[t].url /\ row[t].charged /\ t \in debited
    /\ t \in debited => \/ row[t].status = "completed"
                        \/ worker[t].at \in {"log", "finish"}
                        \/ Sweeping(t) /\ sweep.at \in {"log", "finish"}
                        \/ faults > 0

ImageInv ==
    /\ TypeOK
    /\ sweep.at \notin {"idle", "next"} => sweep.task \in Tasks
    /\ sweep.at = "fail" => sweep.fail # "none"
    /\ sweep.at = "meta" => sweep.meta # "none"
    /\ \A t \in Tasks : TaskInv(t)
=============================================================================
