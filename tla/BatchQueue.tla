------------------------------ MODULE BatchQueue ------------------------------
(***************************************************************************)
(* One chat batch of the Tokfai API: the worker that processes its items   *)
(* (apps/dmit-api/src/batch), the cancel endpoint (routes/batch.ts), the   *)
(* repair script (scripts/repair-stuck-batches.mjs) and a crash of the API *)
(* process.  They share the rows of chat_batches and chat_batch_items;     *)
(* every step of the model is at most one SQL statement, so that the       *)
(* others can run between a read and the write it leads to.                *)
(*                                                                         *)
(* A statement takes effect: a failing database call is not modelled, nor  *)
(* is Redis.  The worker is started once per batch, by the request that    *)
(* created it, so nobody contends for its lock; the lock expires after     *)
(* TOKFAI_BATCH_LOCK_TTL_MS, by default as long as TOKFAI_BATCH_MAX_-      *)
(* RUNTIME_MS, so it is gone whenever the repair script finds a batch old  *)
(* enough to look for it.                                                  *)
(***************************************************************************)
EXTENDS Integers, FiniteSets

CONSTANTS
    Items,        \* chat_batch_items.index, of which there is at least one
    Concurrency,  \* TOKFAI_BATCH_ITEM_CONCURRENCY
    MaxAttempts   \* 1 + TOKFAI_BATCH_ITEM_MAX_RETRIES

ASSUME ItemsAssumption == Items \subseteq Nat /\ IsFiniteSet(Items) /\ Items # {}
ASSUME LimitsAssumption == Concurrency \in Nat \ {0} /\ MaxAttempts \in Nat \ {0}

VARIABLES
    batch,     \* the chat_batches row
    item,      \* chat_batch_items.status, per item
    charged,   \* items with a debit under batch_item:<id>
    old,       \* the batch is older than its maximum runtime
    stale,     \* items that started longer ago than the item timeout
    worker,    \* where processBatch is
    todo,      \* its snapshot of the pending items
    sweep,     \* the items failTimedOutNonTerminalItems found
    task,      \* per item, where its processBatchItem is, and the attempt
    exec,      \* per item, the executeChatCompletion of its last attempt
    cancel,    \* where the cancel handler is, and the status it loaded
    repair,    \* where the repair script is, and the items it found
    final,     \* the running finalizeBatch calls: what each has read
    crashed    \* the API process was killed: bound, it happens once

vars == <<batch, item, charged, old, stale, worker, todo, sweep, task, exec,
          cancel, repair, final, crashed>>

Callers == {"worker", "cancel", "repair"}

-----------------------------------------------------------------------------
Terminal == {"succeeded", "failed", "cancelled"}
Open == {"pending", "running", "cancel_requested"}

WithStatus(S) == {i \in Items : item[i] \in S}

(* Mutant: an item that was asked to stop counts as stopped. *)
CountsRequested == [succeeded |-> Cardinality(WithStatus({"succeeded"})),
                    failed |-> Cardinality(WithStatus({"failed", "cancelled"})),
                    terminal |-> Cardinality(WithStatus(Terminal \cup {"cancel_requested"}))]

(* What finalizeBatch counts in a read of all items. *)
Counts == [succeeded |-> Cardinality(WithStatus({"succeeded"})),
           failed |-> Cardinality(WithStatus({"failed", "cancelled"})),
           terminal |-> Cardinality(WithStatus(Terminal))]

computeBatchStatus(c, cancelled) ==
    CASE c.terminal < Cardinality(Items) -> IF cancelled THEN "cancelled" ELSE "running"
      [] c.terminal = Cardinality(Items) /\ cancelled ->
            IF c.succeeded = 0 THEN "cancelled" ELSE "partial_failed"
      [] OTHER -> CASE c.succeeded = Cardinality(Items) -> "completed"
                    [] c.failed = Cardinality(Items) -> "failed"
                    [] OTHER -> "partial_failed"

NoCounts == [succeeded |-> 0, failed |-> 0, terminal |-> 0]

NotFinalizing == [at |-> "idle", status |-> "pending", counts |-> NoCounts]

-----------------------------------------------------------------------------
(* POST /v1/batches/chat has stored the batch and its items and has called *)
(* enqueueBatchProcessing.                                                 *)
Init ==
    /\ batch = [status |-> "pending", started |-> FALSE, completed |-> FALSE,
                succeeded |-> 0, failed |-> 0]
    /\ item = [i \in Items |-> "pending"]
    /\ charged = {}
    /\ old = FALSE
    /\ stale = {}
    /\ worker = "load"
    /\ todo = {}
    /\ sweep = {}
    /\ task = [i \in Items |-> [at |-> "none", attempt |-> 1]]
    /\ exec = [i \in Items |-> "none"]
    /\ cancel = [at |-> "none", loaded |-> "pending"]
    /\ repair = [at |-> "idle", list |-> {}]
    /\ final = [p \in Callers |-> NotFinalizing]
    /\ crashed = FALSE

-----------------------------------------------------------------------------
(* finalizeBatch, called by p: read the batch status, read and count the   *)
(* items, and write the header without looking at the status again.  The   *)
(* repair script brings the status it selected the batch by.               *)

StartFinalize(p) == final' = [final EXCEPT ![p].at = "status"]

ReadBatchStatus(p) ==
    /\ final[p].at = "status"
    /\ final' = [final EXCEPT ![p] = [at |-> "items", status |-> batch.status,
                                      counts |-> NoCounts]]
    /\ UNCHANGED <<batch, item, charged, old, stale, worker, todo, sweep, task,
                   exec, cancel, repair, crashed>>

CountItems(p) ==
    /\ final[p].at = "items"
    /\ final' = [final EXCEPT ![p] = [at |-> "write", status |-> @.status,
                                      counts |-> Counts]]
    /\ UNCHANGED <<batch, item, charged, old, stale, worker, todo, sweep, task,
                   exec, cancel, repair, crashed>>

WriteHeader(p) ==
    LET c == final[p].counts IN
    /\ final[p].at = "write"
    /\ batch' = [batch EXCEPT
                   !.status = computeBatchStatus(c, final[p].status = "cancelled"),
                   !.completed = (c.terminal = Cardinality(Items)),
                   !.succeeded = c.succeeded,
                   !.failed = c.failed]
    /\ final' = [final EXCEPT ![p] = NotFinalizing]
    /\ worker' = IF p = "worker" THEN "done" ELSE worker
    /\ cancel' = IF p = "cancel" THEN [cancel EXCEPT !.at = "done"] ELSE cancel
    /\ repair' = IF p = "repair" THEN [at |-> "idle", list |-> {}] ELSE repair
    /\ UNCHANGED <<item, charged, old, stale, todo, sweep, task, exec, crashed>>

Finalize(p) == ReadBatchStatus(p) \/ CountItems(p) \/ WriteHeader(p)

-----------------------------------------------------------------------------
(* processBatch *)

(* A batch that was cancelled before it was loaded is left to its          *)
(* canceller.                                                              *)
LoadBatch ==
    /\ worker = "load"
    /\ worker' = IF batch.status = "pending" THEN "start" ELSE "done"
    /\ UNCHANGED <<batch, item, charged, old, stale, todo, sweep, task, exec,
                   cancel, repair, final, crashed>>

(* update ... where status = 'pending'.  If that misses, the batch was     *)
(* cancelled meanwhile.                                                    *)
StartBatch ==
    /\ worker = "start"
    /\ IF batch.status = "pending"
       THEN /\ batch' = [batch EXCEPT !.status = "running", !.started = TRUE]
            /\ worker' = "items"
            /\ UNCHANGED final
       ELSE /\ worker' = IF batch.status = "cancelled" THEN "final" ELSE "done"
            /\ IF batch.status = "cancelled" THEN StartFinalize("worker")
                                             ELSE UNCHANGED final
            /\ UNCHANGED batch
    /\ UNCHANGED <<item, charged, old, stale, todo, sweep, task, exec, cancel,
                   repair, crashed>>

LoadItems ==
    /\ worker = "items"
    /\ todo' = WithStatus({"pending"})
    /\ worker' = "pool"
    /\ UNCHANGED <<batch, item, charged, old, stale, sweep, task, exec, cancel,
                   repair, final, crashed>>

Active == {i \in Items : task[i].at \notin {"none", "done"}}

(* runPool: a free loop takes the next item of the snapshot. *)
TakeItem(i) ==
    /\ worker = "pool"
    /\ i \in todo
    /\ \A j \in todo : i <= j
    /\ Cardinality(Active) < Concurrency
    /\ todo' = todo \ {i}
    /\ task' = [task EXCEPT ![i] = [at |-> "check", attempt |-> 1]]
    /\ UNCHANGED <<batch, item, charged, old, stale, worker, sweep, exec, cancel,
                   repair, final, crashed>>

(* Mutant: only what runs is selected.                                     *)
ExpiredInFlight(S) == WithStatus({"running", "cancel_requested"}) \cap S

(* Pending items at once, others when they ran into the item timeout.      *)
Expired(S) == WithStatus({"pending"}) \cup
              (WithStatus({"running", "cancel_requested"}) \cap S)

(* All loops are through.  failTimedOutNonTerminalItems then selects what  *)
(* is left open if the batch ran too long.                                 *)
PoolDrained ==
    /\ worker = "pool"
    /\ todo = {}
    /\ Active = {}
    /\ worker' = "sweep"
    /\ sweep' = IF batch.started /\ old THEN Expired(stale) ELSE {}
    /\ UNCHANGED <<batch, item, charged, old, stale, todo, task, exec, cancel,
                   repair, final, crashed>>

FailItem(i) == item' = [item EXCEPT ![i] = IF @ \in Open THEN "failed" ELSE @]

SweepItem(i) ==
    /\ worker = "sweep"
    /\ i \in sweep
    /\ FailItem(i)
    /\ sweep' = sweep \ {i}
    /\ UNCHANGED <<batch, charged, old, stale, worker, todo, task, exec, cancel,
                   repair, final, crashed>>

SweepDone ==
    /\ worker = "sweep"
    /\ sweep = {}
    /\ worker' = "final"
    /\ StartFinalize("worker")
    /\ UNCHANGED <<batch, item, charged, old, stale, todo, sweep, task, exec,
                   cancel, repair, crashed>>

Worker ==
    \/ LoadBatch
    \/ StartBatch
    \/ LoadItems
    \/ \E i \in Items : TakeItem(i)
    \/ PoolDrained
    \/ \E i \in Items : SweepItem(i)
    \/ SweepDone

-----------------------------------------------------------------------------
(* processBatchItem.  Its first getItemSkipReason and the one that opens   *)
(* every attempt are one step: nothing is written between them.            *)

Goto(i, place) == task' = [task EXCEPT ![i].at = place]

SkipReason ==
    CASE batch.status = "cancelled" -> "cancelled"
      [] batch.status # "cancelled" /\ batch.started /\ old -> "failed"
      [] OTHER -> "none"

CheckSkip(i) ==
    /\ task[i].at = "check"
    /\ Goto(i, CASE SkipReason = "none" -> "claim"
                 [] SkipReason = "cancelled" -> "skip_cancelled"
                 [] SkipReason = "failed" -> "skip_failed")
    /\ UNCHANGED <<batch, item, charged, old, stale, worker, todo, sweep, exec,
                   cancel, repair, final, crashed>>

(* markItemTerminal: ... where status in ('pending', 'running') *)
MarkItemTerminal(i) ==
    /\ task[i].at \in {"skip_cancelled", "skip_failed"}
    /\ item' = [item EXCEPT ![i] =
                  IF @ \notin {"pending", "running"} THEN @
                  ELSE IF task[i].at = "skip_failed" THEN "failed" ELSE "cancelled"]
    /\ Goto(i, "done")
    /\ UNCHANGED <<batch, charged, old, stale, worker, todo, sweep, exec, cancel,
                   repair, final, crashed>>

(* Mutant: the claim without its status = 'pending'. *)
ClaimAnyItem(i) ==
    /\ task[i].at = "claim"
    /\ item' = [item EXCEPT ![i] = "running"]
    /\ stale' = stale \ {i}
    /\ exec' = [exec EXCEPT ![i] = "upstream"]
    /\ Goto(i, "execute")
    /\ UNCHANGED <<batch, charged, old, worker, todo, sweep, cancel, repair,
                   final, crashed>>

(* update ... set status = 'running' ... where status = 'pending', and     *)
(* executeChatCompletion starts.                                           *)
ClaimItem(i) ==
    /\ task[i].at = "claim"
    /\ IF item[i] = "pending"
       THEN /\ item' = [item EXCEPT ![i] = "running"]
            /\ stale' = stale \ {i}
            /\ exec' = [exec EXCEPT ![i] = "upstream"]
            /\ Goto(i, "execute")
       ELSE /\ Goto(i, "done")
            /\ UNCHANGED <<item, stale, exec>>
    /\ UNCHANGED <<batch, charged, old, worker, todo, sweep, cancel, repair,
                   final, crashed>>

(* executeChatCompletion has its answer and debits under batch_item:<id>;  *)
(* it runs on whether or not its item still waits for it.                  *)
Debit(i) ==
    /\ i \notin charged
    /\ exec[i] \in {"upstream", "orphan"}
    /\ charged' = charged \cup {i}
    /\ exec' = [exec EXCEPT ![i] = IF @ = "upstream" THEN "billed" ELSE @]
    /\ UNCHANGED <<batch, item, old, stale, worker, todo, sweep, task, cancel,
                   repair, final, crashed>>

(* Mutant: the item is left running over the retry. *)
RetryKeepsStatus(i) ==
    /\ task[i].at = "execute"
    /\ exec[i] = "upstream"
    /\ task[i].attempt < MaxAttempts
    /\ task' = [task EXCEPT ![i] = [at |-> "check", attempt |-> @.attempt + 1]]
    /\ exec' = [exec EXCEPT ![i] = "none"]
    /\ UNCHANGED <<batch, item, charged, old, stale, worker, todo, sweep, cancel,
                   repair, final, crashed>>

(* A retryable error: update ... set status = 'pending' where status =     *)
(* 'running', and the next attempt.                                        *)
Retry(i) ==
    /\ task[i].at = "execute"
    /\ exec[i] = "upstream"
    /\ task[i].attempt < MaxAttempts
    /\ item' = [item EXCEPT ![i] = IF @ = "running" THEN "pending" ELSE @]
    /\ task' = [task EXCEPT ![i] = [at |-> "check", attempt |-> @.attempt + 1]]
    /\ exec' = [exec EXCEPT ![i] = "none"]
    /\ UNCHANGED <<batch, charged, old, stale, worker, todo, sweep, cancel,
                   repair, final, crashed>>

(* ok: update ... set status = 'succeeded' where id, whatever the status.  *)
Succeed(i) ==
    /\ task[i].at = "execute"
    /\ exec[i] = "billed"
    /\ item' = [item EXCEPT ![i] = "succeeded"]
    /\ Goto(i, "done")
    /\ UNCHANGED <<batch, charged, old, stale, worker, todo, sweep, exec, cancel,
                   repair, final, crashed>>

(* An error that is not retried, or an exception: markItemFailed, whatever *)
(* the status.                                                             *)
Fail(i) ==
    /\ task[i].at = "execute"
    /\ exec[i] = "upstream"
    /\ item' = [item EXCEPT ![i] = "failed"]
    /\ exec' = [exec EXCEPT ![i] = "none"]
    /\ Goto(i, "done")
    /\ UNCHANGED <<batch, charged, old, stale, worker, todo, sweep, cancel,
                   repair, final, crashed>>

(* Mutant: batch_item_timeout among the codes that are retried. *)
TimeOutRetried(i) ==
    /\ task[i].at = "execute"
    /\ task[i].attempt < MaxAttempts
    /\ item' = [item EXCEPT ![i] = IF @ = "running" THEN "pending" ELSE @]
    /\ task' = [task EXCEPT ![i] = [at |-> "check", attempt |-> @.attempt + 1]]
    /\ exec' = [exec EXCEPT ![i] = "orphan"]
    /\ UNCHANGED <<batch, charged, old, stale, worker, todo, sweep, cancel,
                   repair, final, crashed>>

(* The timer of runWithItemTimeout wins the race: markItemFailed, for      *)
(* batch_item_timeout is not retried.  The execution is not aborted.       *)
TimeOut(i) ==
    /\ task[i].at = "execute"
    /\ item' = [item EXCEPT ![i] = "failed"]
    /\ exec' = [exec EXCEPT ![i] = "orphan"]
    /\ Goto(i, "done")
    /\ UNCHANGED <<batch, charged, old, stale, worker, todo, sweep, cancel,
                   repair, final, crashed>>

Task(i) ==
    \/ CheckSkip(i)
    \/ MarkItemTerminal(i)
    \/ ClaimItem(i)
    \/ Retry(i)
    \/ Succeed(i)
    \/ Fail(i)
    \/ TimeOut(i)

-----------------------------------------------------------------------------
(* POST /v1/batches/:id/cancel: load, then one update of the batch and two *)
(* of its items, and finalizeBatch if the batch was loaded pending.        *)

CancelLoad ==
    /\ cancel.at = "none"
    /\ batch.status \in {"pending", "running"}
    /\ cancel' = [at |-> "batch", loaded |-> batch.status]
    /\ UNCHANGED <<batch, item, charged, old, stale, worker, todo, sweep, task,
                   exec, repair, final, crashed>>

CancelBatch ==
    /\ cancel.at = "batch"
    /\ batch' = IF batch.status \in {"pending", "running"}
                THEN [batch EXCEPT !.status = "cancelled"] ELSE batch
    /\ cancel' = [cancel EXCEPT !.at = "pending"]
    /\ UNCHANGED <<item, charged, old, stale, worker, todo, sweep, task, exec,
                   repair, final, crashed>>

CancelPendingItems ==
    /\ cancel.at = "pending"
    /\ item' = [i \in Items |-> IF item[i] = "pending" THEN "cancelled" ELSE item[i]]
    /\ cancel' = [cancel EXCEPT !.at = "running"]
    /\ UNCHANGED <<batch, charged, old, stale, worker, todo, sweep, task, exec,
                   repair, final, crashed>>

CancelRunningItems ==
    /\ cancel.at = "running"
    /\ item' = [i \in Items |->
                  IF item[i] = "running" THEN "cancel_requested" ELSE item[i]]
    /\ IF cancel.loaded = "pending"
       THEN StartFinalize("cancel") /\ cancel' = [cancel EXCEPT !.at = "final"]
       ELSE cancel' = [cancel EXCEPT !.at = "done"] /\ UNCHANGED final
    /\ UNCHANGED <<batch, charged, old, stale, worker, todo, sweep, task, exec,
                   repair, crashed>>

Cancel == CancelLoad \/ CancelBatch \/ CancelPendingItems \/ CancelRunningItems

-----------------------------------------------------------------------------
(* repairBatch, for a batch selected as pending or running and too old; an *)
(* operator or cron runs the script again and again.                       *)

RepairLoad ==
    /\ repair.at = "idle"
    /\ old
    /\ batch.status \in {"pending", "running"}
    /\ repair' = [at |-> "items", list |-> {}]
    /\ final' = [final EXCEPT !["repair"] =
                   [at |-> "idle", status |-> batch.status, counts |-> NoCounts]]
    /\ UNCHANGED <<batch, item, charged, old, stale, worker, todo, sweep, task,
                   exec, cancel, crashed>>

RepairSelect ==
    /\ repair.at = "items"
    /\ repair' = [at |-> "fail", list |-> Expired(stale)]
    /\ UNCHANGED <<batch, item, charged, old, stale, worker, todo, sweep, task,
                   exec, cancel, final, crashed>>

(* Mutant: the update without its status guard. *)
RepairItemAnyStatus(i) ==
    /\ repair.at = "fail"
    /\ i \in repair.list
    /\ item' = [item EXCEPT ![i] = "failed"]
    /\ repair' = [repair EXCEPT !.list = @ \ {i}]
    /\ UNCHANGED <<batch, charged, old, stale, worker, todo, sweep, task, exec,
                   cancel, final, crashed>>

RepairItem(i) ==
    /\ repair.at = "fail"
    /\ i \in repair.list
    /\ FailItem(i)
    /\ repair' = [repair EXCEPT !.list = @ \ {i}]
    /\ UNCHANGED <<batch, charged, old, stale, worker, todo, sweep, task, exec,
                   cancel, final, crashed>>

RepairFinalize ==
    /\ repair.at = "fail"
    /\ repair.list = {}
    /\ repair' = [repair EXCEPT !.at = "final"]
    /\ final' = [final EXCEPT !["repair"].at = "items"]
    /\ UNCHANGED <<batch, item, charged, old, stale, worker, todo, sweep, task,
                   exec, cancel, crashed>>

Repair ==
    \/ RepairLoad
    \/ RepairSelect
    \/ \E i \in Items : RepairItem(i)
    \/ RepairFinalize

-----------------------------------------------------------------------------
(* Time, which only ever makes things older, and the end of the process.   *)

BatchGrowsOld ==
    /\ ~old
    /\ batch.started \/ crashed
    /\ old' = TRUE
    /\ UNCHANGED <<batch, item, charged, stale, worker, todo, sweep, task, exec,
                   cancel, repair, final, crashed>>

(* Nobody asks for an item's age while the batch is young.                 *)
ItemGrowsStale(i) ==
    /\ old
    /\ i \notin stale
    /\ item[i] \in {"running", "cancel_requested"}
    /\ stale' = stale \cup {i}
    /\ UNCHANGED <<batch, item, charged, old, worker, todo, sweep, task, exec,
                   cancel, repair, final, crashed>>

(* Nothing of the worker or of a cancel request in flight survives, and    *)
(* nothing resumes the batch: only its creation enqueues it.               *)
Crash ==
    /\ ~crashed
    /\ crashed' = TRUE
    /\ worker' = "lost"
    /\ todo' = {}
    /\ sweep' = {}
    /\ task' = [i \in Items |-> [at |-> "none", attempt |-> 1]]
    /\ exec' = [i \in Items |-> "none"]
    /\ cancel' = IF cancel.at \in {"none", "done"} THEN cancel
                 ELSE [cancel EXCEPT !.at = "lost"]
    /\ final' = [p \in Callers |->
                   IF p = "repair" THEN final[p] ELSE NotFinalizing]
    /\ UNCHANGED <<batch, item, charged, old, stale, repair>>

-----------------------------------------------------------------------------
Next ==
    \/ Worker
    \/ \E i \in Items : Task(i) \/ Debit(i) \/ ItemGrowsStale(i)
    \/ Cancel
    \/ Repair
    \/ \E p \in Callers : Finalize(p)
    \/ BatchGrowsOld
    \/ Crash

Spec == Init /\ [][Next]_vars

(* Node runs what is ready; the item timer fires if nothing else ends the  *)
(* attempt; a statement that was sent is executed; time passes; the repair *)
(* script is run regularly.  Nobody has to cancel, and nothing has to      *)
(* crash or to be answered by the provider.                                *)
Fairness ==
    /\ WF_vars(Worker)
    /\ \A i \in Items : WF_vars(Task(i)) /\ WF_vars(ItemGrowsStale(i))
    /\ \A p \in Callers : WF_vars(Finalize(p))
    /\ WF_vars(CancelBatch \/ CancelPendingItems \/ CancelRunningItems)
    /\ WF_vars(BatchGrowsOld)

FairSpec == Spec /\ Fairness

-----------------------------------------------------------------------------
(* Properties. *)

TaskPlaces == {"none", "check", "skip_cancelled", "skip_failed", "claim",
               "execute", "done"}

BatchStatuses == {"pending", "running", "completed", "failed", "partial_failed",
                  "cancelled"}

BatchRows == [status: BatchStatuses, started: BOOLEAN, completed: BOOLEAN,
              succeeded: Nat, failed: Nat]

Finalizations == [at: {"idle", "status", "items", "write"}, status: BatchStatuses,
                  counts: [succeeded: Nat, failed: Nat, terminal: Nat]]

(* The rows hold what the check constraints of 0026 and 0027 allow, and    *)
(* every actor is somewhere in its code.                                   *)
TypeOK ==
    /\ batch \in BatchRows
    /\ item \in [Items -> Open \cup Terminal]
    /\ charged \subseteq Items
    /\ old \in BOOLEAN
    /\ stale \subseteq Items
    /\ worker \in {"load", "start", "items", "pool", "sweep", "final", "done", "lost"}
    /\ todo \subseteq Items
    /\ sweep \subseteq Items
    /\ task \in [Items -> [at: TaskPlaces, attempt: 1..MaxAttempts]]
    /\ exec \in [Items -> {"none", "upstream", "billed", "orphan"}]
    /\ cancel \in [at: {"none", "batch", "pending", "running", "final", "done", "lost"},
                   loaded: {"pending", "running"}]
    /\ repair \in [at: {"idle", "items", "fail", "final"}, list: SUBSET Items]
    /\ final \in [Callers -> Finalizations]
    /\ crashed \in BOOLEAN

(* An attempt waits for exactly one execution; none is running before an   *)
(* item's first attempt or between two, and a debit has an execution that  *)
(* made it, which its timer may have left behind.                          *)
AttemptsAndExecutions ==
    /\ worker \in {"load", "start", "items"} => \A i \in Items : task[i].at = "none"
    /\ \A i \in todo : task[i].at = "none"
    /\ \A i \in Items :
        /\ task[i].at = "execute" => /\ exec[i] \in {"upstream", "billed"}
                                     /\ item[i] \notin {"pending", "succeeded", "cancelled"}
        /\ task[i].at \notin {"execute", "done"} => exec[i] = "none"
        /\ exec[i] = "upstream" => task[i].at = "execute"
        /\ exec[i] = "billed" => i \in charged
        /\ i \in charged => exec[i] \in {"billed", "orphan"} \/ crashed

(* What was paid for is delivered: a charged item has succeeded, whatever  *)
(* cancel, repair and the runtime limit did to its row meanwhile, unless   *)
(* its timer or a crash came between the debit and the row.                *)
ChargedItemsAreDelivered ==
    \A i \in charged :
        \/ item[i] = "succeeded"
        \/ task[i].at = "execute"
        \/ exec[i] = "orphan"
        \/ crashed

AllTerminal == \A i \in Items : item[i] \in Terminal

(* A pool belongs to a started batch, a task to a pool, a finalization to  *)
(* the actor that got there; while the batch is young there is no repair   *)
(* and nothing to sweep.                                                   *)
ActorsInv ==
    /\ worker \in {"items", "pool"} => batch.started
    /\ worker \in {"load", "start"} => ~old /\ ~batch.started
    /\ crashed => worker = "lost"
    /\ \A i \in Items : task[i].at \notin {"none", "done"} => worker = "pool"
    /\ final["worker"].at # "idle" => worker = "final"
    /\ final["cancel"].at # "idle" => cancel.at = "final"
    /\ cancel.at = "final" => cancel.loaded = "pending"
    /\ ~old => /\ repair.at = "idle"
               /\ final["repair"].at = "idle"
               /\ sweep = {}

(* While the worker may still take items of a young batch, the batch is    *)
(* cancelled as soon as the handler has updated it, and stays cancelled,   *)
(* through the handler's own finalizeBatch too, until no item is open.     *)
StatusInv ==
    /\ cancel.at \in {"pending", "running", "final", "done"} => batch.status # "pending"
    /\ ~old /\ worker \in {"items", "pool"} =>
        /\ cancel.at \in {"none", "batch"} => batch.status = "running"
        /\ cancel.at \in {"pending", "running", "final", "done"} =>
              batch.status = "cancelled" \/ AllTerminal
        /\ final["cancel"].at \in {"items", "write"} =>
              final["cancel"].status = "cancelled" \/ AllTerminal
        /\ final["cancel"].at = "write" =>
              /\ final["cancel"].counts.terminal <= Cardinality(Items)
              /\ final["cancel"].counts.terminal = Cardinality(Items) => AllTerminal

(* A claim decided on before the cancel finds its item cancelled, and none *)
(* is decided on afterwards.                                               *)
ClaimsInv ==
    cancel.at \in {"running", "final", "done"} =>
        \A i \in Items : task[i].at = "claim" => item[i] # "pending"

(* Before the worker has started the batch, a cancel loads it as pending;  *)
(* without a cancel nobody reads it as cancelled.                          *)
LoadedInv ==
    /\ worker \in {"load", "start"} =>
        /\ cancel.at # "none" => cancel.loaded = "pending"
        /\ cancel.at \in {"none", "batch"} => batch.status = "pending"
    /\ ~old /\ cancel.at = "none" => /\ batch.status # "cancelled"
                                    /\ final["worker"].status # "cancelled"

(* Nobody but the worker finalizes the batch.                              *)
WorkerAlone == cancel.at = "none" \/ cancel.loaded = "running"

(* An item without a task that nobody touches while the batch is young.    *)
Settled(i) == item[i] \in Terminal \cup {"cancel_requested"}

(* The pool leaves no item behind, and what the worker counts stays.       *)
SettledInv ==
    /\ ~crashed => \A i \in Items : item[i] = "running" => task[i].at = "execute"
    /\ worker = "pool" =>
          \A i \in Items : i \in todo \/ task[i].at \notin {"none", "done"} \/ Settled(i)
    /\ worker \in {"sweep", "final", "done"} /\ ~old /\ WorkerAlone =>
          \A i \in Items : Settled(i)

CountedInv ==
    final["worker"].at = "write" /\ ~old /\ WorkerAlone =>
        final["worker"].counts = Counts

(* Once a cancel has been through its three updates, no item of the batch  *)
(* is started any more, although the worker checks the batch and claims    *)
(* the item in two statements and puts items back to pending in between.   *)
NoStartAfterCancel ==
    [][cancel.at \in {"final", "done"} =>
          \A i \in Items : exec'[i] = "upstream" => exec[i] = "upstream"]_vars

HeaderMatches ==
    /\ batch.succeeded = Counts.succeeded
    /\ batch.failed = Counts.failed
    /\ batch.completed = (Counts.terminal = Cardinality(Items))

(* When the worker is through with a batch that nobody else finalizes, the *)
(* header counts the items as they stay, and without a cancel its status   *)
(* is the one they call for.                                               *)
WorkerFinalizes ==
    worker = "done" /\ ~old /\ (cancel.at = "none" \/ cancel.loaded = "running") =>
        /\ HeaderMatches
        /\ cancel.at = "none" => batch.status = computeBatchStatus(Counts, FALSE)

(* A charged item is not put back, nor cancelled, and an execution whose   *)
(* timer went off belongs to a failed item.                                *)
BillsInv ==
    \A i \in Items :
        /\ i \in charged => item[i] \notin {"pending", "cancelled"}
        /\ exec[i] = "orphan" => item[i] = "failed" /\ task[i].at = "done"

(* Terminal items stay so and succeeded ones too: what a finalizeBatch has *)
(* read may be old, but is never too much.                                 *)
HeaderInv ==
    /\ \A i \in Items : item[i] = "succeeded" => i \in charged
    /\ \A p \in Callers : final[p].at = "write" =>
          /\ final[p].counts.succeeded <= Counts.succeeded
          /\ final[p].counts.terminal = Cardinality(Items) => AllTerminal
    /\ batch.succeeded <= Counts.succeeded
    /\ batch.completed => AllTerminal
    /\ batch.status = "completed" => batch.succeeded = Cardinality(Items)

(* The header never promises too much, although three callers write it     *)
(* from reads that may be old: it counts no success that is not there, has *)
(* a completion time only when no item is open, and says completed only    *)
(* when every item is delivered and paid for.                              *)
HeaderNeverOverstates ==
    /\ batch.succeeded <= Counts.succeeded
    /\ batch.completed => AllTerminal
    /\ batch.status = "completed" =>
          \A i \in Items : item[i] = "succeeded" /\ i \in charged

(* The inductive invariant behind the safety properties of the batch. *)
BatchInv ==
    /\ TypeOK
    /\ AttemptsAndExecutions
    /\ ChargedItemsAreDelivered
    /\ ActorsInv
    /\ StatusInv
    /\ ClaimsInv
    /\ LoadedInv
    /\ SettledInv
    /\ CountedInv
    /\ WorkerFinalizes
    /\ BillsInv
    /\ HeaderInv

(* What the customer sees of the items. *)
Contract == INSTANCE BatchItems

(* Whatever worker, timers, cancel, repair and a crash write over each     *)
(* other, every item goes through its statuses as promised: charged once,  *)
(* never restarted after that, final when succeeded or cancelled.          *)
ImplementsBatchItems == Contract!Spec

(* docs/p763 7: an item that failed or timed out is not charged. *)
FailedItemsAreNotCharged ==
    \A i \in charged : item[i] # "failed"

(* A batch that is neither cancelled nor hit by a crash ends by itself:    *)
(* retries, the timers and the runtime limit leave no item open.           *)
BatchCompletes == <>(batch.completed \/ cancel.at # "none" \/ crashed)

(* What a crash leaves behind is closed by the repair script, as long as   *)
(* somebody runs it again and again.                                       *)
RepairClosesBatch ==
    WF_vars(Repair) => (crashed ~> \/ batch.completed /\ WithStatus(Open) = {}
                                   \/ cancel.at # "none")
=============================================================================
