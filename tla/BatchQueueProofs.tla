-------------------------- MODULE BatchQueueProofs --------------------------
(***************************************************************************)
(* Proofs about BatchQueue for any number of items, worker loops and       *)
(* attempts: its inductive invariant, and from it that whatever was        *)
(* charged is delivered, that the header of a young batch counts what the  *)
(* worker left behind, and that nothing is started after a cancel.         *)
(*                                                                         *)
(* The invariant is proved in layers, each from those before it: the rows, *)
(* the places of the actors, the status of the batch, the claims, and what *)
(* the worker has left and counted.                                        *)
(***************************************************************************)
EXTENDS BatchQueue, FiniteSetTheorems, TLAPS

(* What the attempts, executions and debits of the items are to each other. *)
RowsInv == TypeOK /\ AttemptsAndExecutions /\ ChargedItemsAreDelivered

(* Counting the items gives natural numbers. *)
LEMMA CountsType ==
    Counts \in [succeeded: Nat, failed: Nat, terminal: Nat]
<1>1. ASSUME NEW S PROVE Cardinality(WithStatus(S)) \in Nat
  <2>1. IsFiniteSet(WithStatus(S))
    BY ItemsAssumption, FS_Subset DEF WithStatus
  <2> QED BY <2>1, FS_CardinalityType
<1> QED BY <1>1 DEF Counts

LEMMA StatusType ==
    ASSUME NEW c, NEW b PROVE computeBatchStatus(c, b) \in BatchStatuses
BY DEF computeBatchStatus, BatchStatuses

LEMMA InitRowsInv == Init => RowsInv
<1> SUFFICES ASSUME Init PROVE RowsInv OBVIOUS
<1>1. TypeOK
  <2>1. NotFinalizing \in Finalizations
    BY DEF NotFinalizing, NoCounts, BatchStatuses, Finalizations
  <2>2. final \in [Callers -> Finalizations]
    BY <2>1 DEF Init
  <2>3. task \in [Items -> [at: TaskPlaces, attempt: 1..MaxAttempts]]
    BY LimitsAssumption DEF Init, TaskPlaces
  <2> QED BY <2>2, <2>3 DEF Init, TypeOK, Open, Terminal, BatchStatuses, BatchRows
<1>2. AttemptsAndExecutions BY DEF Init, AttemptsAndExecutions
<1>3. ChargedItemsAreDelivered BY DEF Init, ChargedItemsAreDelivered
<1> QED BY <1>1, <1>2, <1>3 DEF RowsInv

(* The steps of the worker outside its items. *)
LEMMA WorkerPreserves == RowsInv /\ Worker => RowsInv'
<1> SUFFICES ASSUME RowsInv, Worker PROVE RowsInv' OBVIOUS
<1> USE DEF RowsInv, AttemptsAndExecutions, ChargedItemsAreDelivered, TypeOK,
        BatchRows, Finalizations
<1>1. CASE LoadBatch BY <1>1 DEF LoadBatch
<1>2. CASE StartBatch
  <2>1. CASE batch.status = "pending"
    <3>1. batch' \in BatchRows
      <4> DEFINE b == [batch EXCEPT !.status = "running"]
      <4>1. b \in BatchRows BY DEF BatchRows, BatchStatuses
      <4>2. batch' = [b EXCEPT !.started = TRUE] BY <1>2, <2>1 DEF StartBatch
      <4> HIDE DEF b
      <4> QED BY <4>1, <4>2 DEF BatchRows
    <3>2. /\ worker' = "items"
          /\ worker = "start"
          /\ UNCHANGED <<item, charged, old, stale, todo, sweep, task, exec, cancel,
                         repair, final, crashed>>
      BY <1>2, <2>1 DEF StartBatch
    <3> QED BY <3>1, <3>2
  <2>2. CASE batch.status = "cancelled"
    BY <1>2, <2>2 DEF StartBatch, StartFinalize, Callers
  <2>3. CASE batch.status \notin {"pending", "cancelled"}
    BY <1>2, <2>3 DEF StartBatch
  <2> QED BY <2>1, <2>2, <2>3
<1>3. CASE LoadItems BY <1>3 DEF LoadItems, WithStatus
<1>4. ASSUME NEW i \in Items, TakeItem(i) PROVE RowsInv'
  BY <1>4, LimitsAssumption DEF TakeItem, TaskPlaces
<1>5. CASE PoolDrained BY <1>5 DEF PoolDrained, Expired, WithStatus
<1>6. ASSUME NEW i \in Items, SweepItem(i) PROVE RowsInv'
  BY <1>6 DEF SweepItem, FailItem, Open, Terminal
<1>7. CASE SweepDone BY <1>7 DEF SweepDone, StartFinalize, Callers
<1> QED BY <1>1, <1>2, <1>3, <1>4, <1>5, <1>6, <1>7 DEF Worker

(* The steps of one item, and the debit of its execution. *)
LEMMA TaskPreserves ==
    ASSUME NEW i \in Items, RowsInv, Task(i) \/ Debit(i) PROVE RowsInv'
<1> USE DEF RowsInv, AttemptsAndExecutions, ChargedItemsAreDelivered, TypeOK,
        BatchRows, Finalizations
<1>1. CASE CheckSkip(i)
  <2>1. \/ task' = [task EXCEPT ![i].at = "claim"]
        \/ task' = [task EXCEPT ![i].at = "skip_cancelled"]
        \/ task' = [task EXCEPT ![i].at = "skip_failed"]
    BY <1>1 DEF CheckSkip, Goto, SkipReason
  <2>2. /\ task[i].at = "check"
        /\ UNCHANGED <<batch, item, charged, old, stale, worker, todo, sweep, exec,
                       cancel, repair, final, crashed>>
    BY <1>1 DEF CheckSkip
  <2>3. PICK p \in {"claim", "skip_cancelled", "skip_failed"} :
            task' = [task EXCEPT ![i].at = p]
    BY <2>1
  <2>4. /\ task' \in [Items -> [at: TaskPlaces, attempt: 1..MaxAttempts]]
        /\ task'[i].at = p /\ task'[i].attempt = task[i].attempt
        /\ \A k \in Items : k # i => task'[k] = task[k]
    BY <2>3 DEF TaskPlaces
  <2>5. TypeOK' BY <2>2, <2>4
  <2>6. AttemptsAndExecutions'
    <3>1. exec[i] = "none" /\ i \notin todo /\ worker \notin {"load", "start", "items"}
      BY <2>2
    <3> HIDE DEF TypeOK, ChargedItemsAreDelivered
    <3> QED BY <2>2, <2>3, <2>4, <3>1
  <2>7. ChargedItemsAreDelivered' BY <2>2, <2>4
  <2> QED BY <2>5, <2>6, <2>7
<1>2. CASE MarkItemTerminal(i)
  <2>1. \/ item' = item
        \/ item[i] # "succeeded" /\ item' = [item EXCEPT ![i] = "failed"]
        \/ item[i] # "succeeded" /\ item' = [item EXCEPT ![i] = "cancelled"]
    BY <1>2 DEF MarkItemTerminal
  <2>2. /\ task[i].at \in {"skip_cancelled", "skip_failed"}
        /\ task' = [task EXCEPT ![i].at = "done"]
        /\ UNCHANGED <<batch, charged, old, stale, worker, todo, sweep, exec, cancel,
                       repair, final, crashed>>
    BY <1>2 DEF MarkItemTerminal, Goto
  <2>3. CASE item' = item BY <2>2, <2>3 DEF TaskPlaces
  <2>4. CASE item[i] # "succeeded" /\ item' = [item EXCEPT ![i] = "failed"]
    BY <2>2, <2>4 DEF TaskPlaces, Terminal
  <2>5. CASE item[i] # "succeeded" /\ item' = [item EXCEPT ![i] = "cancelled"]
    BY <2>2, <2>5 DEF TaskPlaces, Terminal
  <2> QED BY <2>1, <2>3, <2>4, <2>5
<1>3. CASE ClaimItem(i)
  <2>1. CASE item[i] = "pending"
    <3>1. /\ task[i].at = "claim"
          /\ item' = [item EXCEPT ![i] = "running"]
          /\ stale' = stale \ {i}
          /\ exec' = [exec EXCEPT ![i] = "upstream"]
          /\ task' = [task EXCEPT ![i].at = "execute"]
          /\ UNCHANGED <<batch, charged, old, worker, todo, sweep, cancel, repair,
                         final, crashed>>
      BY <1>3, <2>1 DEF ClaimItem, Goto
    <3>2. TypeOK' BY <3>1 DEF TaskPlaces, Open
    <3>3. AttemptsAndExecutions' BY <3>1 DEF TaskPlaces
    <3>4. ChargedItemsAreDelivered' BY <3>1
    <3> QED BY <3>2, <3>3, <3>4
  <2>2. CASE item[i] # "pending"
    <3>1. /\ task[i].at = "claim"
          /\ task' = [task EXCEPT ![i].at = "done"]
          /\ UNCHANGED <<batch, item, charged, old, stale, worker, todo, sweep, exec,
                         cancel, repair, final, crashed>>
      BY <1>3, <2>2 DEF ClaimItem, Goto
    <3> QED BY <3>1 DEF TaskPlaces
  <2> QED BY <2>1, <2>2
<1>4. CASE Retry(i)
  <2>1. CASE item[i] = "running"
    BY <1>4, <2>1, LimitsAssumption DEF Retry, TaskPlaces, Open, Terminal
  <2>2. CASE item[i] # "running"
    BY <1>4, <2>2, LimitsAssumption DEF Retry, TaskPlaces
  <2> QED BY <2>1, <2>2
<1>5. CASE Succeed(i) BY <1>5 DEF Succeed, Goto, TaskPlaces, Open, Terminal
<1>6. CASE Fail(i) BY <1>6 DEF Fail, Goto, TaskPlaces, Open, Terminal
<1>7. CASE TimeOut(i) BY <1>7 DEF TimeOut, Goto, TaskPlaces, Open, Terminal
<1>8. CASE Debit(i) BY <1>8 DEF Debit
<1> QED BY <1>1, <1>2, <1>3, <1>4, <1>5, <1>6, <1>7, <1>8 DEF Task

(* The cancel handler. *)
LEMMA CancelPreserves == RowsInv /\ Cancel => RowsInv'
<1> SUFFICES ASSUME RowsInv, Cancel PROVE RowsInv' OBVIOUS
<1> USE DEF RowsInv, AttemptsAndExecutions, ChargedItemsAreDelivered, TypeOK,
        BatchRows, Finalizations
<1>1. CASE CancelLoad BY <1>1 DEF CancelLoad
<1>2. CASE CancelBatch
  <2>1. batch' \in BatchRows
    BY <1>2 DEF CancelBatch, BatchStatuses
  <2>2. cancel' \in [at: {"none", "batch", "pending", "running", "final", "done", "lost"},
                     loaded: {"pending", "running"}]
    BY <1>2 DEF CancelBatch
  <2>3. UNCHANGED <<item, charged, old, stale, worker, todo, sweep, task, exec,
                    repair, final, crashed>>
    BY <1>2 DEF CancelBatch
  <2>4. TypeOK' BY <2>1, <2>2, <2>3
  <2> QED BY <2>3, <2>4
<1>3. CASE CancelPendingItems BY <1>3 DEF CancelPendingItems, Open, Terminal
<1>4. CASE CancelRunningItems
  <2>1. item' \in [Items -> Open \cup Terminal]
    BY <1>4 DEF CancelRunningItems, Open, Terminal
  <2>2. CASE cancel.loaded = "pending"
    BY <1>4, <2>1, <2>2 DEF CancelRunningItems, StartFinalize, Callers
  <2>3. CASE cancel.loaded # "pending"
    BY <1>4, <2>1, <2>3 DEF CancelRunningItems
  <2> QED BY <2>2, <2>3
<1> QED BY <1>1, <1>2, <1>3, <1>4 DEF Cancel

(* The repair script. *)
LEMMA RepairPreserves == RowsInv /\ Repair => RowsInv'
<1> SUFFICES ASSUME RowsInv, Repair PROVE RowsInv' OBVIOUS
<1> USE DEF RowsInv, AttemptsAndExecutions, ChargedItemsAreDelivered, TypeOK,
        BatchRows, Finalizations
<1>1. CASE RepairLoad BY <1>1 DEF RepairLoad, BatchStatuses, Callers, NoCounts
<1>2. CASE RepairSelect BY <1>2 DEF RepairSelect, Expired, WithStatus
<1>3. ASSUME NEW i \in Items, RepairItem(i) PROVE RowsInv'
  BY <1>3 DEF RepairItem, FailItem, Open, Terminal
<1>4. CASE RepairFinalize BY <1>4 DEF RepairFinalize, Callers
<1> QED BY <1>1, <1>2, <1>3, <1>4 DEF Repair

(* finalizeBatch touches the header only. *)
LEMMA FinalizePreserves ==
    ASSUME NEW p \in Callers, RowsInv, Finalize(p) PROVE RowsInv'
<1> USE DEF RowsInv, AttemptsAndExecutions, ChargedItemsAreDelivered, TypeOK,
        BatchRows, Finalizations
<1>1. CASE ReadBatchStatus(p)
  <2>1. [at |-> "items", status |-> batch.status, counts |-> NoCounts]
           \in Finalizations
    BY DEF NoCounts, Finalizations
  <2>2. final' \in [Callers -> Finalizations]
    BY <1>1, <2>1 DEF ReadBatchStatus
  <2> QED BY <1>1, <2>2 DEF ReadBatchStatus
<1>2. CASE CountItems(p) BY <1>2, CountsType DEF CountItems
<1>3. CASE WriteHeader(p)
  BY <1>3, StatusType DEF WriteHeader, NotFinalizing, NoCounts, BatchStatuses
<1> QED BY <1>1, <1>2, <1>3 DEF Finalize

LEMMA RowsPreserved == RowsInv /\ [Next]_vars => RowsInv'
<1> SUFFICES ASSUME RowsInv, [Next]_vars PROVE RowsInv' OBVIOUS
<1>1. CASE UNCHANGED vars
  BY <1>1 DEF RowsInv, AttemptsAndExecutions, ChargedItemsAreDelivered, TypeOK, vars,
     BatchRows, Finalizations
<1>2. ASSUME NEW i \in Items, ItemGrowsStale(i) PROVE RowsInv'
  BY <1>2 DEF RowsInv, AttemptsAndExecutions, ChargedItemsAreDelivered, TypeOK,
     ItemGrowsStale
<1>3. CASE BatchGrowsOld
  BY <1>3 DEF RowsInv, AttemptsAndExecutions, ChargedItemsAreDelivered, TypeOK,
     BatchGrowsOld
<1>4. CASE Crash
  BY <1>4, LimitsAssumption DEF RowsInv, AttemptsAndExecutions,
     ChargedItemsAreDelivered, TypeOK, Crash, NotFinalizing, NoCounts, BatchStatuses,
     TaskPlaces, BatchRows, Finalizations
<1> QED
  BY <1>1, <1>2, <1>3, <1>4, WorkerPreserves, TaskPreserves, CancelPreserves,
     RepairPreserves, FinalizePreserves DEF Next

(* The worker is through with its items, and nobody else will finalize a   *)
(* young batch.                                                            *)
Closed == worker \in {"sweep", "final", "done"} /\ ~old /\ WorkerAlone

(* Counting all items terminal means that they are. *)
LEMMA AllCounted ==
    /\ Counts.terminal \in Nat
    /\ Counts.terminal <= Cardinality(Items)
    /\ Counts.terminal = Cardinality(Items) => AllTerminal
<1>1. WithStatus(Terminal) \subseteq Items BY DEF WithStatus
<1>2. /\ Cardinality(WithStatus(Terminal)) <= Cardinality(Items)
      /\ Cardinality(WithStatus(Terminal)) = Cardinality(Items)
            => WithStatus(Terminal) = Items
  BY <1>1, ItemsAssumption, FS_Subset, FS_CardinalityType
<1>3. Counts.terminal = Cardinality(WithStatus(Terminal)) BY DEF Counts
<1>4. WithStatus(Terminal) = Items => AllTerminal BY DEF WithStatus, AllTerminal
<1> QED BY <1>2, <1>3, <1>4, CountsType

(* A cancelled batch stays so until all items are counted terminal. *)
LEMMA CancelledStatus ==
    ASSUME NEW c, c.terminal \in Nat, c.terminal <= Cardinality(Items),
           c.terminal # Cardinality(Items)
    PROVE  computeBatchStatus(c, TRUE) = "cancelled"
<1>1. Cardinality(Items) \in Nat BY ItemsAssumption, FS_CardinalityType
<1>2. c.terminal < Cardinality(Items) BY <1>1
<1> QED BY <1>2 DEF computeBatchStatus

LEMMA StatusNotPending ==
    ASSUME NEW c, NEW b PROVE computeBatchStatus(c, b) # "pending"
BY DEF computeBatchStatus

LEMMA StatusNotCancelled ==
    ASSUME NEW c PROVE computeBatchStatus(c, FALSE) # "cancelled"
BY DEF computeBatchStatus

(* Every step leaves the actors where they may be together. *)
LEMMA ActorsInvPreserves == BatchInv /\ [Next]_vars => ActorsInv'
<1> SUFFICES ASSUME BatchInv, [Next]_vars PROVE ActorsInv' OBVIOUS
<1> USE DEF TypeOK, BatchRows, Finalizations, Callers, ActorsInv
<1>t. TypeOK /\ ActorsInv BY DEF BatchInv
<1> USE <1>t
<1>0. CASE UNCHANGED vars BY <1>0 DEF vars
<1>1. CASE LoadBatch
  BY <1>1 DEF LoadBatch
<1>2. CASE StartBatch
  BY <1>2 DEF StartBatch, StartFinalize
<1>3. CASE LoadItems
  BY <1>3 DEF LoadItems, WithStatus
<1>4. ASSUME NEW i \in Items, TakeItem(i) PROVE ActorsInv'
  BY <1>4 DEF TakeItem
<1>5. CASE PoolDrained
  BY <1>5 DEF PoolDrained, Active
<1>6. ASSUME NEW i \in Items, SweepItem(i) PROVE ActorsInv'
  BY <1>6 DEF SweepItem, FailItem
<1>7. CASE SweepDone
  BY <1>7 DEF SweepDone, StartFinalize
<1>8. ASSUME NEW i \in Items, CheckSkip(i) PROVE ActorsInv'
  BY <1>8 DEF CheckSkip, Goto
<1>9. ASSUME NEW i \in Items, MarkItemTerminal(i) PROVE ActorsInv'
  BY <1>9 DEF MarkItemTerminal, Goto
<1>10. ASSUME NEW i \in Items, ClaimItem(i) PROVE ActorsInv'
  BY <1>10 DEF ClaimItem, Goto
<1>11. ASSUME NEW i \in Items, Retry(i) PROVE ActorsInv'
  BY <1>11 DEF Retry
<1>12. ASSUME NEW i \in Items, Succeed(i) PROVE ActorsInv'
  BY <1>12 DEF Succeed, Goto
<1>13. ASSUME NEW i \in Items, Fail(i) PROVE ActorsInv'
  BY <1>13 DEF Fail, Goto
<1>14. ASSUME NEW i \in Items, TimeOut(i) PROVE ActorsInv'
  BY <1>14 DEF TimeOut, Goto
<1>15. ASSUME NEW i \in Items, Debit(i) PROVE ActorsInv'
  BY <1>15 DEF Debit
<1>16. ASSUME NEW i \in Items, ItemGrowsStale(i) PROVE ActorsInv'
  BY <1>16 DEF ItemGrowsStale
<1>17. CASE CancelLoad
  BY <1>17 DEF CancelLoad
<1>18. CASE CancelBatch
  BY <1>18 DEF CancelBatch
<1>19. CASE CancelPendingItems
  BY <1>19 DEF CancelPendingItems
<1>20. CASE CancelRunningItems
  BY <1>20 DEF CancelRunningItems, StartFinalize
<1>21. CASE RepairLoad
  BY <1>21 DEF RepairLoad
<1>22. CASE RepairSelect
  BY <1>22 DEF RepairSelect
<1>23. ASSUME NEW i \in Items, RepairItem(i) PROVE ActorsInv'
  BY <1>23 DEF RepairItem, FailItem
<1>24. CASE RepairFinalize
  BY <1>24 DEF RepairFinalize
<1>25. ASSUME NEW p \in Callers, ReadBatchStatus(p) PROVE ActorsInv'
  BY <1>25 DEF ReadBatchStatus
<1>26. ASSUME NEW p \in Callers, CountItems(p) PROVE ActorsInv'
  BY <1>26 DEF CountItems
<1>27. ASSUME NEW p \in Callers, WriteHeader(p) PROVE ActorsInv'
  BY <1>27 DEF WriteHeader, NotFinalizing
<1>28. CASE BatchGrowsOld
  BY <1>28 DEF BatchGrowsOld
<1>29. CASE Crash
  BY <1>29 DEF Crash, NotFinalizing
<1> QED
  BY <1>0, <1>1, <1>2, <1>3, <1>4, <1>5, <1>6, <1>7, <1>8, <1>9, <1>10, <1>11,
     <1>12, <1>13, <1>14, <1>15, <1>16, <1>17, <1>18, <1>19, <1>20, <1>21, <1>22,
     <1>23, <1>24, <1>25, <1>26, <1>27, <1>28, <1>29
  DEF Next, Worker, Task, Cancel, Repair, Finalize

(* No step takes the cancellation of a young batch back. *)
LEMMA StatusInvPreserves == BatchInv /\ [Next]_vars => StatusInv'
<1> SUFFICES ASSUME BatchInv, [Next]_vars PROVE StatusInv' OBVIOUS
<1> USE DEF TypeOK, BatchRows, Finalizations, Callers, ActorsInv, StatusInv,
        AllTerminal, Terminal, Open
<1>t. TypeOK /\ ActorsInv /\ StatusInv BY DEF BatchInv
<1> USE <1>t
<1>0. CASE UNCHANGED vars BY <1>0 DEF vars
<1>1. CASE LoadBatch
  BY <1>1 DEF LoadBatch
<1>2. CASE StartBatch
  BY <1>2 DEF StartBatch, StartFinalize
<1>3. CASE LoadItems
  BY <1>3 DEF LoadItems, WithStatus
<1>4. ASSUME NEW i \in Items, TakeItem(i) PROVE StatusInv'
  BY <1>4 DEF TakeItem
<1>5. CASE PoolDrained
  BY <1>5 DEF PoolDrained, Active
<1>6. ASSUME NEW i \in Items, SweepItem(i) PROVE StatusInv'
  BY <1>6 DEF SweepItem, FailItem
<1>7. CASE SweepDone
  BY <1>7 DEF SweepDone, StartFinalize
<1>8. ASSUME NEW i \in Items, CheckSkip(i) PROVE StatusInv'
  BY <1>8 DEF CheckSkip, Goto
<1>9. ASSUME NEW i \in Items, MarkItemTerminal(i) PROVE StatusInv'
  BY <1>9 DEF MarkItemTerminal, Goto
<1>10. ASSUME NEW i \in Items, ClaimItem(i) PROVE StatusInv'
  BY <1>10 DEF ClaimItem, Goto
<1>11. ASSUME NEW i \in Items, Retry(i) PROVE StatusInv'
  BY <1>11 DEF Retry
<1>12. ASSUME NEW i \in Items, Succeed(i) PROVE StatusInv'
  BY <1>12 DEF Succeed, Goto
<1>13. ASSUME NEW i \in Items, Fail(i) PROVE StatusInv'
  BY <1>13 DEF Fail, Goto
<1>14. ASSUME NEW i \in Items, TimeOut(i) PROVE StatusInv'
  BY <1>14 DEF TimeOut, Goto
<1>15. ASSUME NEW i \in Items, Debit(i) PROVE StatusInv'
  BY <1>15 DEF Debit
<1>16. ASSUME NEW i \in Items, ItemGrowsStale(i) PROVE StatusInv'
  BY <1>16 DEF ItemGrowsStale
<1>17. CASE CancelLoad
  BY <1>17 DEF CancelLoad
<1>18. CASE CancelBatch
  BY <1>18 DEF CancelBatch
<1>19. CASE CancelPendingItems
  BY <1>19 DEF CancelPendingItems
<1>20. CASE CancelRunningItems
  BY <1>20 DEF CancelRunningItems, StartFinalize
<1>21. CASE RepairLoad
  BY <1>21 DEF RepairLoad
<1>22. CASE RepairSelect
  BY <1>22 DEF RepairSelect
<1>23. ASSUME NEW i \in Items, RepairItem(i) PROVE StatusInv'
  BY <1>23 DEF RepairItem, FailItem
<1>24. CASE RepairFinalize
  BY <1>24 DEF RepairFinalize
<1>25. ASSUME NEW p \in Callers, ReadBatchStatus(p) PROVE StatusInv'
  BY <1>25 DEF ReadBatchStatus
<1>26. ASSUME NEW p \in Callers, CountItems(p) PROVE StatusInv'
  <2>1. PICK c : c = Counts BY <1>26
  <2>2. /\ final[p].at = "items"
        /\ final' = [final EXCEPT ![p] = [at |-> "write", status |-> @.status,
                                          counts |-> c]]
        /\ UNCHANGED <<batch, item, old, worker, task, cancel>>
    BY <1>26, <2>1 DEF CountItems
  <2>3. /\ c.terminal <= Cardinality(Items)
        /\ c.terminal = Cardinality(Items) => AllTerminal
    BY <2>1, AllCounted
  <2> QED BY <2>2, <2>3
<1>27. ASSUME NEW p \in Callers, WriteHeader(p) PROVE StatusInv'
  <2>1. PICK c : c = final[p].counts BY <1>27
  <2>2. PICK b : b = (final[p].status = "cancelled") BY <1>27
  <2>3. /\ final[p].at = "write"
        /\ batch'.status = computeBatchStatus(c, b)
        /\ final' = [final EXCEPT ![p] = NotFinalizing]
        /\ worker' = IF p = "worker" THEN "done" ELSE worker
        /\ cancel' = IF p = "cancel" THEN [cancel EXCEPT !.at = "done"] ELSE cancel
        /\ UNCHANGED <<item, old, task>>
    BY <1>27, <2>1, <2>2 DEF WriteHeader
  <2>4. batch'.status # "pending" BY <2>3, StatusNotPending
  <2>5. final' \in [Callers -> Finalizations] /\ final'[p].at = "idle"
    BY <2>3 DEF NotFinalizing, NoCounts, BatchStatuses
  <2>6. CASE p = "worker" BY <2>3, <2>4, <2>5, <2>6
  <2>7. CASE p = "repair" BY <2>3, <2>4, <2>5, <2>7
  <2>8. CASE p = "cancel"
    <3>1. CASE ~old /\ worker \in {"items", "pool"} /\ ~AllTerminal
      <4>1. b = TRUE BY <2>2, <2>3, <2>8, <3>1
      <4>2. /\ c.terminal \in Nat
            /\ c.terminal <= Cardinality(Items)
            /\ c.terminal # Cardinality(Items)
        BY <2>1, <2>3, <2>8, <3>1
      <4>3. batch'.status = "cancelled" BY <2>3, <4>1, <4>2, CancelledStatus
      <4> QED BY <2>3, <2>4, <2>5, <2>8, <4>3
    <3>2. CASE old \/ worker \notin {"items", "pool"} \/ AllTerminal
      BY <2>3, <2>4, <2>5, <2>8, <3>2
    <3> QED BY <3>1, <3>2
  <2> QED BY <2>6, <2>7, <2>8 DEF Callers
<1>28. CASE BatchGrowsOld
  BY <1>28 DEF BatchGrowsOld
<1>29. CASE Crash
  BY <1>29 DEF Crash, NotFinalizing
<1> QED
  BY <1>0, <1>1, <1>2, <1>3, <1>4, <1>5, <1>6, <1>7, <1>8, <1>9, <1>10, <1>11,
     <1>12, <1>13, <1>14, <1>15, <1>16, <1>17, <1>18, <1>19, <1>20, <1>21, <1>22,
     <1>23, <1>24, <1>25, <1>26, <1>27, <1>28, <1>29
  DEF Next, Worker, Task, Cancel, Repair, Finalize

(* No step decides on a claim that could succeed after the cancel. *)
LEMMA ClaimsInvPreserves == BatchInv /\ [Next]_vars => ClaimsInv'
<1> SUFFICES ASSUME BatchInv, [Next]_vars PROVE ClaimsInv' OBVIOUS
<1> USE DEF TypeOK, ClaimsInv
<1>t. TypeOK /\ ActorsInv /\ StatusInv /\ ClaimsInv BY DEF BatchInv
<1> USE <1>t
<1>0. CASE UNCHANGED vars BY <1>0 DEF vars
<1>1. CASE LoadBatch
  BY <1>1 DEF LoadBatch
<1>2. CASE StartBatch
  BY <1>2 DEF StartBatch, StartFinalize
<1>3. CASE LoadItems
  BY <1>3 DEF LoadItems, WithStatus
<1>4. ASSUME NEW i \in Items, TakeItem(i) PROVE ClaimsInv'
  BY <1>4 DEF TakeItem
<1>5. CASE PoolDrained
  BY <1>5 DEF PoolDrained, Active
<1>6. ASSUME NEW i \in Items, SweepItem(i) PROVE ClaimsInv'
  BY <1>6 DEF SweepItem, FailItem
<1>7. CASE SweepDone
  BY <1>7 DEF SweepDone, StartFinalize
<1>8. ASSUME NEW i \in Items, CheckSkip(i) PROVE ClaimsInv'
  <2>1. CASE batch.status = "cancelled" \/ old
    <3>1. SkipReason # "none"
      BY <1>8, <2>1 DEF CheckSkip, SkipReason, ActorsInv
    <3> QED BY <1>8, <3>1 DEF CheckSkip, Goto, SkipReason
  <2>2. CASE batch.status # "cancelled" /\ ~old
    <3>1. worker = "pool" BY <1>8 DEF CheckSkip, ActorsInv
    <3>2. cancel.at \in {"running", "final", "done"} => item[i] # "pending"
      BY <2>2, <3>1 DEF StatusInv, AllTerminal, Terminal
    <3> QED BY <1>8, <3>2 DEF CheckSkip, Goto
  <2> QED BY <2>1, <2>2
<1>9. ASSUME NEW i \in Items, MarkItemTerminal(i) PROVE ClaimsInv'
  BY <1>9 DEF MarkItemTerminal, Goto
<1>10. ASSUME NEW i \in Items, ClaimItem(i) PROVE ClaimsInv'
  BY <1>10 DEF ClaimItem, Goto
<1>11. ASSUME NEW i \in Items, Retry(i) PROVE ClaimsInv'
  BY <1>11 DEF Retry
<1>12. ASSUME NEW i \in Items, Succeed(i) PROVE ClaimsInv'
  BY <1>12 DEF Succeed, Goto
<1>13. ASSUME NEW i \in Items, Fail(i) PROVE ClaimsInv'
  BY <1>13 DEF Fail, Goto
<1>14. ASSUME NEW i \in Items, TimeOut(i) PROVE ClaimsInv'
  BY <1>14 DEF TimeOut, Goto
<1>15. ASSUME NEW i \in Items, Debit(i) PROVE ClaimsInv'
  BY <1>15 DEF Debit
<1>16. ASSUME NEW i \in Items, ItemGrowsStale(i) PROVE ClaimsInv'
  BY <1>16 DEF ItemGrowsStale
<1>17. CASE CancelLoad
  BY <1>17 DEF CancelLoad
<1>18. CASE CancelBatch
  BY <1>18 DEF CancelBatch
<1>19. CASE CancelPendingItems
  BY <1>19 DEF CancelPendingItems
<1>20. CASE CancelRunningItems
  BY <1>20 DEF CancelRunningItems, StartFinalize
<1>21. CASE RepairLoad
  BY <1>21 DEF RepairLoad
<1>22. CASE RepairSelect
  BY <1>22 DEF RepairSelect
<1>23. ASSUME NEW i \in Items, RepairItem(i) PROVE ClaimsInv'
  BY <1>23 DEF RepairItem, FailItem
<1>24. CASE RepairFinalize
  BY <1>24 DEF RepairFinalize
<1>25. ASSUME NEW p \in Callers, ReadBatchStatus(p) PROVE ClaimsInv'
  BY <1>25 DEF ReadBatchStatus
<1>26. ASSUME NEW p \in Callers, CountItems(p) PROVE ClaimsInv'
  BY <1>26 DEF CountItems
<1>27. ASSUME NEW p \in Callers, WriteHeader(p) PROVE ClaimsInv'
  <2>1. /\ final[p].at = "write"
        /\ cancel' = IF p = "cancel" THEN [cancel EXCEPT !.at = "done"] ELSE cancel
        /\ UNCHANGED <<item, task>>
    BY <1>27 DEF WriteHeader
  <2>2. p = "cancel" => cancel.at = "final" BY <2>1 DEF ActorsInv
  <2> QED BY <2>1, <2>2
<1>28. CASE BatchGrowsOld
  BY <1>28 DEF BatchGrowsOld
<1>29. CASE Crash
  BY <1>29 DEF Crash, NotFinalizing
<1> QED
  BY <1>0, <1>1, <1>2, <1>3, <1>4, <1>5, <1>6, <1>7, <1>8, <1>9, <1>10, <1>11,
     <1>12, <1>13, <1>14, <1>15, <1>16, <1>17, <1>18, <1>19, <1>20, <1>21, <1>22,
     <1>23, <1>24, <1>25, <1>26, <1>27, <1>28, <1>29
  DEF Next, Worker, Task, Cancel, Repair, Finalize

(* No step gets before the start of the batch, or cancels it unasked. *)
LEMMA LoadedInvPreserves == BatchInv /\ [Next]_vars => LoadedInv'
<1> SUFFICES ASSUME BatchInv, [Next]_vars PROVE LoadedInv' OBVIOUS
<1> USE DEF TypeOK, BatchRows, Finalizations, Callers, ActorsInv, LoadedInv
<1>t. TypeOK /\ ActorsInv /\ StatusInv /\ LoadedInv BY DEF BatchInv
<1> USE <1>t
<1>0. CASE UNCHANGED vars BY <1>0 DEF vars
<1>1. CASE LoadBatch
  BY <1>1 DEF LoadBatch
<1>2. CASE StartBatch
  BY <1>2 DEF StartBatch, StartFinalize
<1>3. CASE LoadItems
  BY <1>3 DEF LoadItems, WithStatus
<1>4. ASSUME NEW i \in Items, TakeItem(i) PROVE LoadedInv'
  BY <1>4 DEF TakeItem
<1>5. CASE PoolDrained
  BY <1>5 DEF PoolDrained, Active
<1>6. ASSUME NEW i \in Items, SweepItem(i) PROVE LoadedInv'
  BY <1>6 DEF SweepItem, FailItem
<1>7. CASE SweepDone
  BY <1>7 DEF SweepDone, StartFinalize
<1>8. ASSUME NEW i \in Items, CheckSkip(i) PROVE LoadedInv'
  BY <1>8 DEF CheckSkip, Goto
<1>9. ASSUME NEW i \in Items, MarkItemTerminal(i) PROVE LoadedInv'
  BY <1>9 DEF MarkItemTerminal, Goto
<1>10. ASSUME NEW i \in Items, ClaimItem(i) PROVE LoadedInv'
  BY <1>10 DEF ClaimItem, Goto
<1>11. ASSUME NEW i \in Items, Retry(i) PROVE LoadedInv'
  BY <1>11 DEF Retry
<1>12. ASSUME NEW i \in Items, Succeed(i) PROVE LoadedInv'
  BY <1>12 DEF Succeed, Goto
<1>13. ASSUME NEW i \in Items, Fail(i) PROVE LoadedInv'
  BY <1>13 DEF Fail, Goto
<1>14. ASSUME NEW i \in Items, TimeOut(i) PROVE LoadedInv'
  BY <1>14 DEF TimeOut, Goto
<1>15. ASSUME NEW i \in Items, Debit(i) PROVE LoadedInv'
  BY <1>15 DEF Debit
<1>16. ASSUME NEW i \in Items, ItemGrowsStale(i) PROVE LoadedInv'
  BY <1>16 DEF ItemGrowsStale
<1>17. CASE CancelLoad
  BY <1>17 DEF CancelLoad
<1>18. CASE CancelBatch
  BY <1>18 DEF CancelBatch
<1>19. CASE CancelPendingItems
  BY <1>19 DEF CancelPendingItems
<1>20. CASE CancelRunningItems
  BY <1>20 DEF CancelRunningItems, StartFinalize
<1>21. CASE RepairLoad
  BY <1>21 DEF RepairLoad
<1>22. CASE RepairSelect
  BY <1>22 DEF RepairSelect
<1>23. ASSUME NEW i \in Items, RepairItem(i) PROVE LoadedInv'
  BY <1>23 DEF RepairItem, FailItem
<1>24. CASE RepairFinalize
  BY <1>24 DEF RepairFinalize
<1>25. ASSUME NEW p \in Callers, ReadBatchStatus(p) PROVE LoadedInv'
  BY <1>25 DEF ReadBatchStatus
<1>26. ASSUME NEW p \in Callers, CountItems(p) PROVE LoadedInv'
  BY <1>26 DEF CountItems
<1>27. ASSUME NEW p \in Callers, WriteHeader(p) PROVE LoadedInv'
  <2>1. PICK c : c = final[p].counts BY <1>27
  <2>2. PICK b : b = (final[p].status = "cancelled") BY <1>27
  <2>3. /\ final[p].at = "write"
        /\ batch'.status = computeBatchStatus(c, b)
        /\ final' = [final EXCEPT ![p] = NotFinalizing]
        /\ worker' = IF p = "worker" THEN "done" ELSE worker
        /\ cancel' = IF p = "cancel" THEN [cancel EXCEPT !.at = "done"] ELSE cancel
        /\ UNCHANGED <<item, old, task>>
    BY <1>27, <2>1, <2>2 DEF WriteHeader
  <2>4. \/ final'["worker"].status = final["worker"].status
        \/ final'["worker"].status = "pending"
    BY <2>3 DEF NotFinalizing
  <2>5. CASE p = "worker"
    <3>1. ~old /\ cancel.at = "none" => batch'.status # "cancelled"
      <4> SUFFICES ASSUME ~old, cancel.at = "none" PROVE batch'.status # "cancelled"
        OBVIOUS
      <4>1. final["worker"].status # "cancelled" BY <1>t
      <4>2. b = FALSE BY <2>2, <2>5, <4>1
      <4>3. batch'.status = computeBatchStatus(c, FALSE) BY <2>3, <4>2
      <4> HIDE DEF ActorsInv, LoadedInv, TypeOK
      <4> QED BY <4>3, StatusNotCancelled
    <3>2. worker' = "done" /\ cancel' = cancel /\ old' = old BY <2>3, <2>5
    <3> QED BY <2>4, <3>1, <3>2
  <2>6. CASE p = "repair" BY <2>3, <2>4, <2>6
  <2>7. CASE p = "cancel" BY <2>3, <2>4, <2>7
  <2> QED BY <2>5, <2>6, <2>7 DEF Callers
<1>28. CASE BatchGrowsOld
  BY <1>28 DEF BatchGrowsOld
<1>29. CASE Crash
  BY <1>29 DEF Crash, NotFinalizing
<1> QED
  BY <1>0, <1>1, <1>2, <1>3, <1>4, <1>5, <1>6, <1>7, <1>8, <1>9, <1>10, <1>11,
     <1>12, <1>13, <1>14, <1>15, <1>16, <1>17, <1>18, <1>19, <1>20, <1>21, <1>22,
     <1>23, <1>24, <1>25, <1>26, <1>27, <1>28, <1>29
  DEF Next, Worker, Task, Cancel, Repair, Finalize

(* No step leaves an item behind, or touches one that is settled. *)
LEMMA SettledInvPreserves == BatchInv /\ [Next]_vars => SettledInv'
<1> SUFFICES ASSUME BatchInv, [Next]_vars PROVE SettledInv' OBVIOUS
<1> USE DEF TypeOK, BatchRows, Finalizations, Callers, ActorsInv, SettledInv,
        Settled, Terminal, WorkerAlone
<1>t. TypeOK /\ ActorsInv /\ LoadedInv /\ SettledInv BY DEF BatchInv
<1> USE <1>t
<1>0. CASE UNCHANGED vars BY <1>0 DEF vars
<1>1. CASE LoadBatch
  BY <1>1 DEF LoadBatch, LoadedInv
<1>2. CASE StartBatch
  BY <1>2 DEF StartBatch, StartFinalize, LoadedInv
<1>3. CASE LoadItems
  BY <1>3 DEF LoadItems, WithStatus, Open
<1>4. ASSUME NEW i \in Items, TakeItem(i) PROVE SettledInv'
  <2>1. task[i].at = "none" BY <1>4 DEF TakeItem, AttemptsAndExecutions, BatchInv
  <2>2. /\ worker = "pool"
        /\ todo' = todo \ {i}
        /\ task'[i].at = "check"
        /\ \A j \in Items : j # i => task'[j] = task[j]
        /\ UNCHANGED <<item, old, worker, cancel, crashed>>
    BY <1>4 DEF TakeItem
  <2>3. ASSUME NEW j \in Items, item'[j] = "running", ~crashed'
        PROVE  task'[j].at = "execute"
    BY <2>1, <2>2, <2>3
  <2>4. ASSUME NEW j \in Items
        PROVE  j \in todo' \/ task'[j].at \notin {"none", "done"} \/ Settled(j)'
    BY <2>1, <2>2
  <2> QED BY <2>2, <2>3, <2>4
<1>5. CASE PoolDrained
  BY <1>5 DEF PoolDrained, Active
<1>6. ASSUME NEW i \in Items, SweepItem(i) PROVE SettledInv'
  BY <1>6 DEF SweepItem, FailItem
<1>7. CASE SweepDone
  BY <1>7 DEF SweepDone, StartFinalize
<1>8. ASSUME NEW i \in Items, CheckSkip(i) PROVE SettledInv'
  <2>1. \/ task' = [task EXCEPT ![i].at = "claim"]
        \/ task' = [task EXCEPT ![i].at = "skip_cancelled"]
        \/ task' = [task EXCEPT ![i].at = "skip_failed"]
    BY <1>8 DEF CheckSkip, Goto, SkipReason
  <2>2. /\ task[i].at = "check"
        /\ UNCHANGED <<item, old, worker, todo, cancel, crashed>>
    BY <1>8 DEF CheckSkip
  <2>3. CASE task' = [task EXCEPT ![i].at = "claim"] BY <2>2, <2>3
  <2>4. CASE task' = [task EXCEPT ![i].at = "skip_cancelled"] BY <2>2, <2>4
  <2>5. CASE task' = [task EXCEPT ![i].at = "skip_failed"] BY <2>2, <2>5
  <2> QED BY <2>1, <2>3, <2>4, <2>5
<1>9. ASSUME NEW i \in Items, MarkItemTerminal(i) PROVE SettledInv'
  <2>1. /\ task[i].at \in {"skip_cancelled", "skip_failed"}
        /\ task' = [task EXCEPT ![i].at = "done"]
        /\ UNCHANGED <<old, worker, todo, cancel, crashed>>
    BY <1>9 DEF MarkItemTerminal, Goto
  <2>2. /\ item'[i] \in Terminal \cup {"cancel_requested"}
        /\ \A j \in Items : j # i => item'[j] = item[j]
    BY <1>9 DEF MarkItemTerminal, Open
  <2> QED BY <2>1, <2>2
<1>10. ASSUME NEW i \in Items, ClaimItem(i) PROVE SettledInv'
  <2>1. CASE item[i] = "pending"
    <3>1. /\ task[i].at = "claim"
          /\ item' = [item EXCEPT ![i] = "running"]
          /\ task' = [task EXCEPT ![i].at = "execute"]
          /\ UNCHANGED <<old, worker, todo, cancel, crashed>>
      BY <1>10, <2>1 DEF ClaimItem, Goto
    <3>2. worker = "pool" BY <3>1
    <3> QED BY <3>1, <3>2
  <2>2. CASE item[i] # "pending"
    <3>1. /\ task[i].at = "claim"
          /\ task' = [task EXCEPT ![i].at = "done"]
          /\ UNCHANGED <<item, old, worker, todo, cancel, crashed>>
      BY <1>10, <2>2 DEF ClaimItem, Goto
    <3>2. item[i] \in Terminal \cup {"cancel_requested"}
      BY <2>2, <3>1 DEF Open
    <3> QED BY <3>1, <3>2
  <2> QED BY <2>1, <2>2
<1>11. ASSUME NEW i \in Items, Retry(i) PROVE SettledInv'
  BY <1>11 DEF Retry
<1>12. ASSUME NEW i \in Items, Succeed(i) PROVE SettledInv'
  BY <1>12 DEF Succeed, Goto
<1>13. ASSUME NEW i \in Items, Fail(i) PROVE SettledInv'
  BY <1>13 DEF Fail, Goto
<1>14. ASSUME NEW i \in Items, TimeOut(i) PROVE SettledInv'
  BY <1>14 DEF TimeOut, Goto
<1>15. ASSUME NEW i \in Items, Debit(i) PROVE SettledInv'
  BY <1>15 DEF Debit
<1>16. ASSUME NEW i \in Items, ItemGrowsStale(i) PROVE SettledInv'
  BY <1>16 DEF ItemGrowsStale
<1>17. CASE CancelLoad
  BY <1>17 DEF CancelLoad
<1>18. CASE CancelBatch
  BY <1>18 DEF CancelBatch
<1>19. CASE CancelPendingItems
  BY <1>19 DEF CancelPendingItems
<1>20. CASE CancelRunningItems
  BY <1>20 DEF CancelRunningItems, StartFinalize
<1>21. CASE RepairLoad
  BY <1>21 DEF RepairLoad
<1>22. CASE RepairSelect
  BY <1>22 DEF RepairSelect
<1>23. ASSUME NEW i \in Items, RepairItem(i) PROVE SettledInv'
  BY <1>23 DEF RepairItem, FailItem
<1>24. CASE RepairFinalize
  BY <1>24 DEF RepairFinalize
<1>25. ASSUME NEW p \in Callers, ReadBatchStatus(p) PROVE SettledInv'
  BY <1>25 DEF ReadBatchStatus
<1>26. ASSUME NEW p \in Callers, CountItems(p) PROVE SettledInv'
  BY <1>26 DEF CountItems
<1>27. ASSUME NEW p \in Callers, WriteHeader(p) PROVE SettledInv'
  BY <1>27 DEF WriteHeader, NotFinalizing
<1>28. CASE BatchGrowsOld
  BY <1>28 DEF BatchGrowsOld
<1>29. CASE Crash
  BY <1>29 DEF Crash, NotFinalizing
<1> QED
  BY <1>0, <1>1, <1>2, <1>3, <1>4, <1>5, <1>6, <1>7, <1>8, <1>9, <1>10, <1>11,
     <1>12, <1>13, <1>14, <1>15, <1>16, <1>17, <1>18, <1>19, <1>20, <1>21, <1>22,
     <1>23, <1>24, <1>25, <1>26, <1>27, <1>28, <1>29
  DEF Next, Worker, Task, Cancel, Repair, Finalize

(* Nothing of a closed young batch changes any more. *)
LEMMA ClosedItemsStay == BatchInv /\ [Next]_vars => (Closed' => item' = item)
<1> SUFFICES ASSUME BatchInv, [Next]_vars PROVE Closed' => item' = item OBVIOUS
<1> USE DEF TypeOK, Closed, WorkerAlone
<1>t. TypeOK /\ ActorsInv /\ SettledInv BY DEF BatchInv
<1> USE <1>t
<1>0. CASE UNCHANGED vars BY <1>0 DEF vars
<1>1. CASE LoadBatch
  BY <1>1 DEF LoadBatch
<1>2. CASE StartBatch
  BY <1>2 DEF StartBatch, StartFinalize
<1>3. CASE LoadItems
  BY <1>3 DEF LoadItems, WithStatus
<1>4. ASSUME NEW i \in Items, TakeItem(i) PROVE (Closed' => item' = item)
  BY <1>4 DEF TakeItem
<1>5. CASE PoolDrained
  BY <1>5 DEF PoolDrained, Active
<1>6. ASSUME NEW i \in Items, SweepItem(i) PROVE (Closed' => item' = item)
  BY <1>6 DEF SweepItem, ActorsInv
<1>7. CASE SweepDone
  BY <1>7 DEF SweepDone, StartFinalize
<1>8. ASSUME NEW i \in Items, CheckSkip(i) PROVE (Closed' => item' = item)
  BY <1>8 DEF CheckSkip, Goto
<1>9. ASSUME NEW i \in Items, MarkItemTerminal(i) PROVE (Closed' => item' = item)
  BY <1>9 DEF MarkItemTerminal, ActorsInv
<1>10. ASSUME NEW i \in Items, ClaimItem(i) PROVE (Closed' => item' = item)
  BY <1>10 DEF ClaimItem, ActorsInv
<1>11. ASSUME NEW i \in Items, Retry(i) PROVE (Closed' => item' = item)
  BY <1>11 DEF Retry, ActorsInv
<1>12. ASSUME NEW i \in Items, Succeed(i) PROVE (Closed' => item' = item)
  BY <1>12 DEF Succeed, ActorsInv
<1>13. ASSUME NEW i \in Items, Fail(i) PROVE (Closed' => item' = item)
  BY <1>13 DEF Fail, ActorsInv
<1>14. ASSUME NEW i \in Items, TimeOut(i) PROVE (Closed' => item' = item)
  BY <1>14 DEF TimeOut, ActorsInv
<1>15. ASSUME NEW i \in Items, Debit(i) PROVE (Closed' => item' = item)
  BY <1>15 DEF Debit
<1>16. ASSUME NEW i \in Items, ItemGrowsStale(i) PROVE (Closed' => item' = item)
  BY <1>16 DEF ItemGrowsStale
<1>17. CASE CancelLoad
  BY <1>17 DEF CancelLoad
<1>18. CASE CancelBatch
  BY <1>18 DEF CancelBatch
<1>19. CASE CancelPendingItems
  <2>1. CASE Closed'
    <3>1. \A i \in Items : item[i] # "pending"
      BY <1>19, <2>1 DEF CancelPendingItems, SettledInv, Settled, Terminal
    <3> QED BY <1>19, <3>1 DEF CancelPendingItems
  <2> QED BY <2>1
<1>20. CASE CancelRunningItems
  <2>1. CASE Closed'
    <3>1. \A i \in Items : item[i] # "running"
      BY <1>20, <2>1 DEF CancelRunningItems, SettledInv, Settled, Terminal
    <3> QED BY <1>20, <3>1 DEF CancelRunningItems
  <2> QED BY <2>1
<1>21. CASE RepairLoad
  BY <1>21 DEF RepairLoad
<1>22. CASE RepairSelect
  BY <1>22 DEF RepairSelect
<1>23. ASSUME NEW i \in Items, RepairItem(i) PROVE (Closed' => item' = item)
  BY <1>23 DEF RepairItem, ActorsInv
<1>24. CASE RepairFinalize
  BY <1>24 DEF RepairFinalize
<1>25. ASSUME NEW p \in Callers, ReadBatchStatus(p) PROVE (Closed' => item' = item)
  BY <1>25 DEF ReadBatchStatus
<1>26. ASSUME NEW p \in Callers, CountItems(p) PROVE (Closed' => item' = item)
  BY <1>26 DEF CountItems
<1>27. ASSUME NEW p \in Callers, WriteHeader(p) PROVE (Closed' => item' = item)
  BY <1>27 DEF WriteHeader, NotFinalizing
<1>28. CASE BatchGrowsOld
  BY <1>28 DEF BatchGrowsOld
<1>29. CASE Crash
  BY <1>29 DEF Crash, NotFinalizing
<1> QED
  BY <1>0, <1>1, <1>2, <1>3, <1>4, <1>5, <1>6, <1>7, <1>8, <1>9, <1>10, <1>11,
     <1>12, <1>13, <1>14, <1>15, <1>16, <1>17, <1>18, <1>19, <1>20, <1>21, <1>22,
     <1>23, <1>24, <1>25, <1>26, <1>27, <1>28, <1>29
  DEF Next, Worker, Task, Cancel, Repair, Finalize

LEMMA CountsStay == BatchInv /\ [Next]_vars => (Closed' => Counts' = Counts)
BY ClosedItemsStay DEF Counts, WithStatus


(* What the worker counted stays counted. *)
LEMMA CountedInvPreserves == BatchInv /\ [Next]_vars => CountedInv'
<1> SUFFICES ASSUME BatchInv, [Next]_vars PROVE CountedInv' OBVIOUS
<1> USE DEF TypeOK, Finalizations, Callers, ActorsInv, CountedInv, Closed, WorkerAlone
<1>t. TypeOK /\ ActorsInv /\ CountedInv BY DEF BatchInv
<1>c. Closed' => Counts' = Counts BY CountsStay
<1>a. ActorsInv' BY ActorsInvPreserves
<1> USE <1>t, <1>c, <1>a
<1>0. CASE UNCHANGED vars BY <1>0 DEF vars
<1>1. CASE LoadBatch
  BY <1>1 DEF LoadBatch
<1>2. CASE StartBatch
  BY <1>2 DEF StartBatch, StartFinalize
<1>3. CASE LoadItems
  BY <1>3 DEF LoadItems, WithStatus
<1>4. ASSUME NEW i \in Items, TakeItem(i) PROVE CountedInv'
  BY <1>4 DEF TakeItem
<1>5. CASE PoolDrained
  BY <1>5 DEF PoolDrained, Active
<1>6. ASSUME NEW i \in Items, SweepItem(i) PROVE CountedInv'
  BY <1>6 DEF SweepItem, FailItem
<1>7. CASE SweepDone
  BY <1>7 DEF SweepDone, StartFinalize
<1>8. ASSUME NEW i \in Items, CheckSkip(i) PROVE CountedInv'
  BY <1>8 DEF CheckSkip, Goto
<1>9. ASSUME NEW i \in Items, MarkItemTerminal(i) PROVE CountedInv'
  BY <1>9 DEF MarkItemTerminal, Goto
<1>10. ASSUME NEW i \in Items, ClaimItem(i) PROVE CountedInv'
  BY <1>10 DEF ClaimItem, Goto
<1>11. ASSUME NEW i \in Items, Retry(i) PROVE CountedInv'
  BY <1>11 DEF Retry
<1>12. ASSUME NEW i \in Items, Succeed(i) PROVE CountedInv'
  BY <1>12 DEF Succeed, Goto
<1>13. ASSUME NEW i \in Items, Fail(i) PROVE CountedInv'
  BY <1>13 DEF Fail, Goto
<1>14. ASSUME NEW i \in Items, TimeOut(i) PROVE CountedInv'
  BY <1>14 DEF TimeOut, Goto
<1>15. ASSUME NEW i \in Items, Debit(i) PROVE CountedInv'
  BY <1>15 DEF Debit
<1>16. ASSUME NEW i \in Items, ItemGrowsStale(i) PROVE CountedInv'
  BY <1>16 DEF ItemGrowsStale
<1>17. CASE CancelLoad
  BY <1>17 DEF CancelLoad
<1>18. CASE CancelBatch
  BY <1>18 DEF CancelBatch
<1>19. CASE CancelPendingItems
  BY <1>19 DEF CancelPendingItems
<1>20. CASE CancelRunningItems
  BY <1>20 DEF CancelRunningItems, StartFinalize
<1>21. CASE RepairLoad
  BY <1>21 DEF RepairLoad
<1>22. CASE RepairSelect
  BY <1>22 DEF RepairSelect
<1>23. ASSUME NEW i \in Items, RepairItem(i) PROVE CountedInv'
  BY <1>23 DEF RepairItem, FailItem
<1>24. CASE RepairFinalize
  BY <1>24 DEF RepairFinalize
<1>25. ASSUME NEW p \in Callers, ReadBatchStatus(p) PROVE CountedInv'
  BY <1>25 DEF ReadBatchStatus
<1>26. ASSUME NEW p \in Callers, CountItems(p) PROVE CountedInv'
  BY <1>26 DEF CountItems
<1>27. ASSUME NEW p \in Callers, WriteHeader(p) PROVE CountedInv'
  <2>1. final'["worker"].at = "write" => final'["worker"] = final["worker"]
    BY <1>27 DEF WriteHeader, NotFinalizing
  <2>2. p = "cancel" => cancel.at = "final" BY <1>27 DEF WriteHeader
  <2> QED BY <1>27, <2>1, <2>2 DEF WriteHeader
<1>28. CASE BatchGrowsOld
  BY <1>28 DEF BatchGrowsOld
<1>29. CASE Crash
  BY <1>29 DEF Crash, NotFinalizing
<1> QED
  BY <1>0, <1>1, <1>2, <1>3, <1>4, <1>5, <1>6, <1>7, <1>8, <1>9, <1>10, <1>11,
     <1>12, <1>13, <1>14, <1>15, <1>16, <1>17, <1>18, <1>19, <1>20, <1>21, <1>22,
     <1>23, <1>24, <1>25, <1>26, <1>27, <1>28, <1>29
  DEF Next, Worker, Task, Cancel, Repair, Finalize

(* No step separates the header from the items it counts. *)
LEMMA WorkerFinalizesPreserves == BatchInv /\ [Next]_vars => WorkerFinalizes'
<1> SUFFICES ASSUME BatchInv, [Next]_vars PROVE WorkerFinalizes' OBVIOUS
<1> USE DEF TypeOK, BatchRows, Callers, ActorsInv, WorkerFinalizes, HeaderMatches,
        Closed, WorkerAlone
<1>t. TypeOK /\ ActorsInv /\ LoadedInv /\ CountedInv /\ WorkerFinalizes BY DEF BatchInv
<1>c. Closed' => Counts' = Counts BY CountsStay
<1>a. ActorsInv' BY ActorsInvPreserves
<1> USE <1>t, <1>c, <1>a
<1>0. CASE UNCHANGED vars BY <1>0 DEF vars
<1>1. CASE LoadBatch
  BY <1>1 DEF LoadBatch, LoadedInv
<1>2. CASE StartBatch
  BY <1>2 DEF StartBatch, LoadedInv
<1>3. CASE LoadItems
  BY <1>3 DEF LoadItems, WithStatus
<1>4. ASSUME NEW i \in Items, TakeItem(i) PROVE WorkerFinalizes'
  BY <1>4 DEF TakeItem
<1>5. CASE PoolDrained
  BY <1>5 DEF PoolDrained, Active
<1>6. ASSUME NEW i \in Items, SweepItem(i) PROVE WorkerFinalizes'
  BY <1>6 DEF SweepItem, FailItem
<1>7. CASE SweepDone
  BY <1>7 DEF SweepDone, StartFinalize
<1>8. ASSUME NEW i \in Items, CheckSkip(i) PROVE WorkerFinalizes'
  BY <1>8 DEF CheckSkip, Goto
<1>9. ASSUME NEW i \in Items, MarkItemTerminal(i) PROVE WorkerFinalizes'
  BY <1>9 DEF MarkItemTerminal, Goto
<1>10. ASSUME NEW i \in Items, ClaimItem(i) PROVE WorkerFinalizes'
  BY <1>10 DEF ClaimItem, Goto
<1>11. ASSUME NEW i \in Items, Retry(i) PROVE WorkerFinalizes'
  BY <1>11 DEF Retry
<1>12. ASSUME NEW i \in Items, Succeed(i) PROVE WorkerFinalizes'
  BY <1>12 DEF Succeed, Goto
<1>13. ASSUME NEW i \in Items, Fail(i) PROVE WorkerFinalizes'
  BY <1>13 DEF Fail, Goto
<1>14. ASSUME NEW i \in Items, TimeOut(i) PROVE WorkerFinalizes'
  BY <1>14 DEF TimeOut, Goto
<1>15. ASSUME NEW i \in Items, Debit(i) PROVE WorkerFinalizes'
  BY <1>15 DEF Debit
<1>16. ASSUME NEW i \in Items, ItemGrowsStale(i) PROVE WorkerFinalizes'
  BY <1>16 DEF ItemGrowsStale
<1>17. CASE CancelLoad
  BY <1>17 DEF CancelLoad
<1>18. CASE CancelBatch
  BY <1>18 DEF CancelBatch
<1>19. CASE CancelPendingItems
  BY <1>19 DEF CancelPendingItems
<1>20. CASE CancelRunningItems
  <2>1. /\ cancel.at = "running" /\ worker' = worker /\ old' = old
        /\ cancel'.at # "none" /\ cancel'.loaded = cancel.loaded /\ batch' = batch
    BY <1>20 DEF CancelRunningItems
  <2>2. SUFFICES ASSUME worker = "done", ~old, cancel.loaded = "running"
                PROVE  HeaderMatches'
    BY <2>1
  <2>3. HeaderMatches BY <2>2
  <2>4. Counts' = Counts BY <2>1, <2>2
  <2> QED BY <2>1, <2>3, <2>4
<1>21. CASE RepairLoad
  BY <1>21 DEF RepairLoad
<1>22. CASE RepairSelect
  BY <1>22 DEF RepairSelect
<1>23. ASSUME NEW i \in Items, RepairItem(i) PROVE WorkerFinalizes'
  BY <1>23 DEF RepairItem, FailItem
<1>24. CASE RepairFinalize
  BY <1>24 DEF RepairFinalize
<1>25. ASSUME NEW p \in Callers, ReadBatchStatus(p) PROVE WorkerFinalizes'
  BY <1>25 DEF ReadBatchStatus
<1>26. ASSUME NEW p \in Callers, CountItems(p) PROVE WorkerFinalizes'
  BY <1>26 DEF CountItems
<1>27. ASSUME NEW p \in Callers, WriteHeader(p) PROVE WorkerFinalizes'
  <2>1. CASE p = "worker"
    <3>1. PICK c : c = final["worker"].counts BY <2>1
    <3>2. PICK b : b = (final["worker"].status = "cancelled") BY <2>1
    <3>3. /\ final["worker"].at = "write"
          /\ batch' = [batch EXCEPT !.status = computeBatchStatus(c, b),
                                     !.completed = (c.terminal = Cardinality(Items)),
                                     !.succeeded = c.succeeded,
                                     !.failed = c.failed]
          /\ worker' = "done"
          /\ UNCHANGED <<old, cancel>>
      BY <1>27, <2>1, <3>1, <3>2 DEF WriteHeader
    <3>4. worker = "final" BY <3>3
    <3>5. CASE ~old /\ WorkerAlone
      <4>a. c = Counts BY <3>1, <3>3, <3>5, Zenon DEF CountedInv
      <4>b. Closed' BY <3>3, <3>5
      <4>1. c = Counts /\ Counts' = Counts BY <4>a, <4>b, CountsStay
      <4>2. cancel.at = "none" => b = FALSE BY <3>2, <3>5 DEF LoadedInv
      <4>3. /\ batch'.status = computeBatchStatus(c, b)
            /\ batch'.completed = (c.terminal = Cardinality(Items))
            /\ batch'.succeeded = c.succeeded
            /\ batch'.failed = c.failed
        BY <3>3
      <4> QED BY <3>3, <4>1, <4>2, <4>3
    <3>6. CASE old \/ ~WorkerAlone BY <3>3, <3>6
    <3> QED BY <3>5, <3>6
  <2>2. CASE p = "repair"
    <3>1. final["repair"].at = "write" /\ old' = old BY <1>27, <2>2 DEF WriteHeader
    <3> QED BY <3>1
  <2>3. CASE p = "cancel"
    <3>1. /\ final["cancel"].at = "write"
          /\ cancel' = [cancel EXCEPT !.at = "done"]
      BY <1>27, <2>3 DEF WriteHeader
    <3>2. cancel.at = "final" /\ cancel.loaded = "pending" BY <3>1
    <3> QED BY <3>1, <3>2
  <2> QED BY <2>1, <2>2, <2>3
<1>28. CASE BatchGrowsOld
  BY <1>28 DEF BatchGrowsOld
<1>29. CASE Crash
  BY <1>29 DEF Crash, NotFinalizing
<1> QED
  BY <1>0, <1>1, <1>2, <1>3, <1>4, <1>5, <1>6, <1>7, <1>8, <1>9, <1>10, <1>11,
     <1>12, <1>13, <1>14, <1>15, <1>16, <1>17, <1>18, <1>19, <1>20, <1>21, <1>22,
     <1>23, <1>24, <1>25, <1>26, <1>27, <1>28, <1>29
  DEF Next, Worker, Task, Cancel, Repair, Finalize

(* A debit needs an execution, and an execution a started item.            *)
LEMMA BillsInvPreserves == BatchInv /\ [Next]_vars => BillsInv'
<1> SUFFICES ASSUME BatchInv, [Next]_vars PROVE BillsInv' OBVIOUS
<1> USE DEF TypeOK, BillsInv
<1>t. TypeOK /\ AttemptsAndExecutions /\ ActorsInv /\ SettledInv /\ BillsInv
  BY DEF BatchInv
<1> USE <1>t
<1>k. ASSUME NEW i \in Items, task[i].at \notin {"none", "done", "execute"},
             item[i] \in {"pending", "running"}
      PROVE  i \notin charged /\ item[i] = "pending" /\ exec[i] = "none"
  <2>1. worker = "pool" /\ ~crashed BY <1>k DEF ActorsInv
  <2>2. exec[i] = "none" BY <1>k DEF AttemptsAndExecutions
  <2>3. i \notin charged BY <2>1, <2>2 DEF AttemptsAndExecutions
  <2>4. item[i] # "running" BY <1>k, <2>1 DEF SettledInv
  <2> QED BY <1>k, <2>2, <2>3, <2>4
<1>l. ASSUME NEW i \in Items, task[i].at = "execute", exec[i] = "upstream"
      PROVE  i \notin charged
  <2>1. ~crashed BY <1>l DEF ActorsInv
  <2> QED BY <1>l, <2>1 DEF AttemptsAndExecutions
<1>0. CASE UNCHANGED vars BY <1>0 DEF vars
<1>1. CASE LoadBatch \/ StartBatch \/ LoadItems \/ PoolDrained \/ SweepDone
  BY <1>1 DEF LoadBatch, StartBatch, LoadItems, PoolDrained, SweepDone
<1>4. ASSUME NEW i \in Items, TakeItem(i) PROVE BillsInv'
  <2>1. exec[i] = "none" BY <1>4 DEF TakeItem, AttemptsAndExecutions
  <2> QED BY <1>4, <2>1 DEF TakeItem
<1>6. ASSUME NEW i \in Items, SweepItem(i) PROVE BillsInv'
  BY <1>6 DEF SweepItem, FailItem, Open
<1>8. ASSUME NEW i \in Items, CheckSkip(i) PROVE BillsInv'
  <2>1. exec[i] = "none" BY <1>8 DEF CheckSkip, AttemptsAndExecutions
  <2> QED BY <1>8, <2>1 DEF CheckSkip, Goto
<1>9. ASSUME NEW i \in Items, MarkItemTerminal(i) PROVE BillsInv'
  <2>1. task[i].at \in {"skip_cancelled", "skip_failed"} BY <1>9 DEF MarkItemTerminal
  <2>2. exec[i] = "none" BY <2>1 DEF AttemptsAndExecutions
  <2>3. CASE item[i] \notin {"pending", "running"}
    <3>1. item' = item BY <1>9, <2>3 DEF MarkItemTerminal
    <3> QED BY <1>9, <2>2, <3>1 DEF MarkItemTerminal, Goto
  <2>4. CASE item[i] \in {"pending", "running"}
    <3>1. i \notin charged BY <1>k, <2>1, <2>4
    <3>2. \A j \in Items \ {i} : item'[j] = item[j] BY <1>9 DEF MarkItemTerminal
    <3> QED BY <1>9, <2>2, <3>1, <3>2 DEF MarkItemTerminal, Goto
  <2> QED BY <2>3, <2>4
<1>10. ASSUME NEW i \in Items, ClaimItem(i) PROVE BillsInv'
  <2>1. exec[i] = "none" BY <1>10 DEF ClaimItem, AttemptsAndExecutions
  <2>2. CASE item[i] = "pending" BY <1>10, <2>1, <2>2 DEF ClaimItem, Goto
  <2>3. CASE item[i] # "pending" BY <1>10, <2>1, <2>3 DEF ClaimItem, Goto
  <2> QED BY <2>2, <2>3
<1>11. ASSUME NEW i \in Items, Retry(i) PROVE BillsInv'
  <2>1. i \notin charged BY <1>11, <1>l DEF Retry
  <2>2. \A j \in Items \ {i} : /\ item'[j] = item[j]
                              /\ exec'[j] = exec[j]
                              /\ task'[j] = task[j]
    BY <1>11 DEF Retry
  <2>3. exec'[i] = "none" /\ charged' = charged BY <1>11 DEF Retry
  <2> QED BY <2>1, <2>2, <2>3
<1>12. ASSUME NEW i \in Items, Succeed(i) PROVE BillsInv'
  BY <1>12 DEF Succeed, Goto
<1>13. ASSUME NEW i \in Items, Fail(i) PROVE BillsInv'
  BY <1>13 DEF Fail, Goto
<1>14. ASSUME NEW i \in Items, TimeOut(i) PROVE BillsInv'
  BY <1>14 DEF TimeOut, Goto
<1>15. ASSUME NEW i \in Items, Debit(i) PROVE BillsInv'
  <2>1. item[i] \notin {"pending", "cancelled"}
    BY <1>15 DEF Debit, AttemptsAndExecutions
  <2> QED BY <1>15, <2>1 DEF Debit
<1>16. ASSUME NEW i \in Items, ItemGrowsStale(i) PROVE BillsInv'
  BY <1>16 DEF ItemGrowsStale
<1>17. CASE CancelLoad \/ CancelBatch BY <1>17 DEF CancelLoad, CancelBatch
<1>19. CASE CancelPendingItems BY <1>19 DEF CancelPendingItems
<1>20. CASE CancelRunningItems BY <1>20 DEF CancelRunningItems
<1>21. CASE RepairLoad \/ RepairSelect \/ RepairFinalize
  BY <1>21 DEF RepairLoad, RepairSelect, RepairFinalize
<1>23. ASSUME NEW i \in Items, RepairItem(i) PROVE BillsInv'
  BY <1>23 DEF RepairItem, FailItem, Open
<1>25. ASSUME NEW p \in Callers, Finalize(p) PROVE BillsInv'
  BY <1>25 DEF Finalize, ReadBatchStatus, CountItems, WriteHeader
<1>28. CASE BatchGrowsOld BY <1>28 DEF BatchGrowsOld
<1>29. CASE Crash BY <1>29 DEF Crash
<1> QED
  BY <1>0, <1>1, <1>4, <1>6, <1>8, <1>9, <1>10, <1>11, <1>12, <1>13, <1>14, <1>15,
     <1>16, <1>17, <1>19, <1>20, <1>21, <1>23, <1>25, <1>28, <1>29, Zenon
  DEF Next, Worker, Task, Cancel, Repair

-----------------------------------------------------------------------------
(* The refinement: the statements that write an item, one after the other. *)

(* A statement on one item, as the contract writes it.                     *)
LEMMA SetOne ==
    ASSUME TypeOK, NEW i \in Items, NEW s, item' = [item EXCEPT ![i] = s]
    PROVE  Contract!Set({i}, s)
BY DEF TypeOK, Contract!Set

(* What an item with an attempt under way is.                              *)
LEMMA ExecutingItem ==
    ASSUME BatchInv, NEW i \in Items, task[i].at = "execute"
    PROVE  /\ item[i] \in {"running", "cancel_requested", "failed"}
           /\ exec[i] = "upstream" => i \notin charged
           /\ exec[i] = "billed" => i \in charged
<1>1. /\ item[i] \in Open \cup Terminal
      /\ item[i] \notin {"pending", "succeeded", "cancelled"}
  BY DEF BatchInv, TypeOK, AttemptsAndExecutions
<1>2. ~crashed BY DEF BatchInv, ActorsInv
<1>3. /\ exec[i] = "billed" => i \in charged
      /\ i \in charged => exec[i] \in {"billed", "orphan"} \/ crashed
  BY DEF BatchInv, AttemptsAndExecutions
<1> QED BY <1>1, <1>2, <1>3 DEF Open, Terminal

(* failTimedOutNonTerminalItems and the repair script.                     *)
LEMMA FailItemIsFail ==
    ASSUME TypeOK, NEW i \in Items, FailItem(i), UNCHANGED charged
    PROVE  Contract!Fail(i) \/ UNCHANGED <<item, charged>>
<1>1. CASE item[i] \in Open
  <2>1. item' = [item EXCEPT ![i] = "failed"] BY <1>1 DEF FailItem, TypeOK
  <2> QED BY <1>1, <2>1, SetOne DEF Open, Contract!Fail
<1>2. CASE item[i] \notin Open
  <2>1. item' = item BY <1>2 DEF FailItem, TypeOK
  <2> QED BY <2>1
<1> QED BY <1>1, <1>2

(* The task of an item that is not executing writes a pending item only.   *)
LEMMA WaitingItem ==
    ASSUME BatchInv, NEW i \in Items,
           task[i].at \notin {"none", "done", "execute"}, item[i] \in {"pending", "running"}
    PROVE  item[i] = "pending" /\ i \notin charged
<1>1. worker = "pool" /\ ~crashed BY DEF BatchInv, ActorsInv
<1>2. item[i] # "running" BY <1>1 DEF BatchInv, SettledInv
<1>3. item[i] = "pending" => i \notin charged BY DEF BatchInv, BillsInv
<1> QED BY <1>2, <1>3

LEMMA TaskIsItemStep ==
    ASSUME BatchInv, NEW i \in Items, Task(i) \/ Debit(i)
    PROVE  \/ UNCHANGED <<item, charged>>
           \/ Contract!Start(i) \/ Contract!Requeue(i) \/ Contract!Charge(i)
           \/ Contract!Succeed(i) \/ Contract!Fail(i) \/ Contract!Cancel({i})
<1>t. TypeOK BY DEF BatchInv
<1>1. CASE CheckSkip(i) BY <1>1 DEF CheckSkip
<1>2. CASE MarkItemTerminal(i)
  <2>1. task[i].at \in {"skip_cancelled", "skip_failed"} /\ UNCHANGED charged
    BY <1>2 DEF MarkItemTerminal
  <2>2. CASE item[i] \notin {"pending", "running"}
    <3>1. item' = item BY <1>t, <1>2, <2>2 DEF MarkItemTerminal, TypeOK
    <3> QED BY <2>1, <3>1
  <2>3. CASE item[i] \in {"pending", "running"}
    <3>1. item[i] = "pending" /\ i \notin charged BY <2>1, <2>3, WaitingItem
    <3>2. \/ item' = [item EXCEPT ![i] = "failed"]
          \/ item' = [item EXCEPT ![i] = "cancelled"]
      BY <1>t, <1>2, <2>3 DEF MarkItemTerminal, TypeOK
    <3>3. CASE item' = [item EXCEPT ![i] = "failed"]
      BY <1>t, <2>1, <3>1, <3>3, SetOne DEF Contract!Fail
    <3>4. CASE item' = [item EXCEPT ![i] = "cancelled"]
      BY <1>t, <2>1, <3>1, <3>4, SetOne DEF Contract!Cancel, Contract!Are
    <3> QED BY <3>2, <3>3, <3>4
  <2> QED BY <2>2, <2>3
<1>3. CASE ClaimItem(i)
  <2>1. CASE item[i] = "pending"
    <3>1. i \notin charged BY <2>1 DEF BatchInv, BillsInv
    <3>2. item' = [item EXCEPT ![i] = "running"] /\ UNCHANGED charged
      BY <1>3, <2>1 DEF ClaimItem
    <3> QED BY <1>t, <2>1, <3>1, <3>2, SetOne DEF Contract!Start
  <2>2. CASE item[i] # "pending" BY <1>3, <2>2 DEF ClaimItem
  <2> QED BY <2>1, <2>2
<1>4. CASE Retry(i)
  <2>1. task[i].at = "execute" /\ exec[i] = "upstream" /\ UNCHANGED charged
    BY <1>4 DEF Retry
  <2>2. i \notin charged BY <2>1, ExecutingItem
  <2>3. CASE item[i] = "running"
    <3>1. item' = [item EXCEPT ![i] = "pending"] BY <1>t, <1>4, <2>3 DEF Retry, TypeOK
    <3> QED BY <1>t, <2>1, <2>2, <2>3, <3>1, SetOne DEF Contract!Requeue
  <2>4. CASE item[i] # "running"
    <3>1. item' = item BY <1>t, <1>4, <2>4 DEF Retry, TypeOK
    <3> QED BY <2>1, <3>1
  <2> QED BY <2>3, <2>4
<1>5. CASE Succeed(i)
  <2>1. /\ task[i].at = "execute" /\ exec[i] = "billed"
        /\ item' = [item EXCEPT ![i] = "succeeded"]
        /\ UNCHANGED charged
    BY <1>5 DEF Succeed
  <2>2. item[i] \in {"running", "cancel_requested", "failed"} /\ i \in charged
    BY <2>1, ExecutingItem
  <2> QED BY <1>t, <2>1, <2>2, SetOne DEF Contract!Succeed
<1>6. CASE Fail(i) \/ TimeOut(i)
  <2>1. /\ task[i].at = "execute"
        /\ item' = [item EXCEPT ![i] = "failed"]
        /\ UNCHANGED charged
    BY <1>6 DEF Fail, TimeOut
  <2>2. item[i] \in {"running", "cancel_requested", "failed"} BY <2>1, ExecutingItem
  <2>3. CASE item[i] = "failed"
    <3>1. item' = item BY <1>t, <2>1, <2>3 DEF TypeOK
    <3> QED BY <2>1, <3>1
  <2>4. CASE item[i] # "failed"
    BY <1>t, <2>1, <2>2, <2>4, SetOne DEF Contract!Fail
  <2> QED BY <2>3, <2>4
<1>7. CASE Debit(i)
  <2>1. /\ i \notin charged
        /\ exec[i] \in {"upstream", "orphan"}
        /\ charged' = charged \cup {i}
        /\ UNCHANGED item
    BY <1>7 DEF Debit
  <2>2. exec[i] = "upstream" => task[i].at = "execute"
    BY DEF BatchInv, AttemptsAndExecutions
  <2>3. exec[i] = "orphan" => item[i] = "failed" BY DEF BatchInv, BillsInv
  <2>4. item[i] \in {"running", "cancel_requested", "failed"}
    BY <2>1, <2>2, <2>3, ExecutingItem
  <2> QED BY <2>1, <2>4 DEF Contract!Charge
<1> QED
  BY <1>1, <1>2, <1>3, <1>4, <1>5, <1>6, <1>7, Zenon DEF Task

LEMMA CancelIsItemStep ==
    ASSUME BatchInv, Cancel
    PROVE  \/ UNCHANGED <<item, charged>>
           \/ \E S \in SUBSET Items : Contract!Cancel(S) \/ Contract!RequestCancel(S)
<1>1. CASE CancelLoad \/ CancelBatch BY <1>1 DEF CancelLoad, CancelBatch
<1>2. CASE CancelPendingItems
  <2> DEFINE S == WithStatus({"pending"})
  <2>1. item' = [i \in Items |-> IF i \in S THEN "cancelled" ELSE item[i]]
    BY <1>2 DEF CancelPendingItems, WithStatus
  <2>2. Contract!Are(S, {"pending"}) /\ S \in SUBSET Items
    BY DEF WithStatus, Contract!Are
  <2>3. S \cap charged = {} BY DEF BatchInv, BillsInv, WithStatus
  <2>4. UNCHANGED charged BY <1>2 DEF CancelPendingItems
  <2> HIDE DEF S
  <2>5. Contract!Cancel(S)
    BY <2>1, <2>2, <2>3, <2>4 DEF Contract!Cancel, Contract!Set
  <2> QED BY <2>2, <2>5
<1>3. CASE CancelRunningItems
  <2> DEFINE S == WithStatus({"running"})
  <2>1. item' = [i \in Items |-> IF i \in S THEN "cancel_requested" ELSE item[i]]
    BY <1>3 DEF CancelRunningItems, WithStatus
  <2>2. Contract!Are(S, {"running"}) /\ S \in SUBSET Items
    BY DEF WithStatus, Contract!Are
  <2>3. UNCHANGED charged BY <1>3 DEF CancelRunningItems
  <2> HIDE DEF S
  <2>4. Contract!RequestCancel(S)
    BY <2>1, <2>2, <2>3 DEF Contract!RequestCancel, Contract!Set
  <2> QED BY <2>2, <2>4
<1> QED BY <1>1, <1>2, <1>3 DEF Cancel

(* Every step is one of the contract's, or writes no item.                 *)
LEMMA ItemStep ==
    ASSUME BatchInv, [Next]_vars PROVE [Contract!Next]_<<item, charged>>
<1>t. TypeOK BY DEF BatchInv
<1>1. ASSUME NEW i \in Items, Task(i) \/ Debit(i)
      PROVE  [Contract!Next]_<<item, charged>>
  <2>1. {i} \in SUBSET Items OBVIOUS
  <2> QED BY <1>1, <2>1, TaskIsItemStep DEF Contract!Next
<1>2. ASSUME NEW i \in Items, SweepItem(i) \/ RepairItem(i)
      PROVE  [Contract!Next]_<<item, charged>>
  <2>1. FailItem(i) /\ UNCHANGED charged BY <1>2 DEF SweepItem, RepairItem
  <2> QED BY <1>t, <2>1, FailItemIsFail DEF Contract!Next
<1>3. CASE Cancel BY <1>3, CancelIsItemStep DEF Contract!Next
<1>4. ASSUME NEW i \in Items, TakeItem(i) \/ ItemGrowsStale(i)
      PROVE  UNCHANGED <<item, charged>>
  BY <1>4 DEF TakeItem, ItemGrowsStale
<1>5. ASSUME NEW p \in Callers, Finalize(p) PROVE UNCHANGED <<item, charged>>
  BY <1>5 DEF Finalize, ReadBatchStatus, CountItems, WriteHeader
<1>6. CASE LoadBatch \/ StartBatch \/ LoadItems \/ PoolDrained \/ SweepDone
  BY <1>6 DEF LoadBatch, StartBatch, LoadItems, PoolDrained, SweepDone
<1>7. CASE RepairLoad \/ RepairSelect \/ RepairFinalize
  BY <1>7 DEF RepairLoad, RepairSelect, RepairFinalize
<1>8. CASE BatchGrowsOld \/ Crash \/ UNCHANGED vars
  BY <1>8 DEF BatchGrowsOld, Crash, vars
<1> QED
  BY <1>1, <1>2, <1>3, <1>4, <1>5, <1>6, <1>7, <1>8, Zenon
  DEF Next, Worker, Repair
-----------------------------------------------------------------------------
(* The header.                                                             *)

(* Nothing takes a success or a terminal status from an item.              *)
LEMMA TerminalStays ==
    ASSUME BatchInv, [Next]_vars, NEW i \in Items
    PROVE  /\ item[i] = "succeeded" => item'[i] = "succeeded"
           /\ item[i] \in Terminal => item'[i] \in Terminal
           /\ item'[i] = "succeeded" /\ item[i] # "succeeded" => i \in charged
           /\ i \in charged => i \in charged'
<1> USE DEF Contract!Set, Contract!Are, Terminal
<1>1. CASE UNCHANGED <<item, charged>> BY <1>1
<1>2. ASSUME NEW j \in Items, Contract!Start(j) \/ Contract!Requeue(j)
      PROVE  /\ i # j => item'[i] = item[i]
             /\ i = j => item[i] \notin Terminal /\ item'[i] \notin Terminal
             /\ charged' = charged
  BY <1>2 DEF Contract!Start, Contract!Requeue
<1>3. ASSUME NEW j \in Items, Contract!Charge(j)
      PROVE  item' = item /\ charged' = charged \cup {j}
  BY <1>3 DEF Contract!Charge
<1>4. ASSUME NEW j \in Items, Contract!Succeed(j)
      PROVE  /\ i # j => item'[i] = item[i]
             /\ i = j => item'[i] = "succeeded" /\ i \in charged
             /\ charged' = charged
  BY <1>4 DEF Contract!Succeed
<1>5. ASSUME NEW j \in Items, Contract!Fail(j)
      PROVE  /\ i # j => item'[i] = item[i]
             /\ i = j => item[i] \notin Terminal /\ item'[i] = "failed"
             /\ charged' = charged
  BY <1>5 DEF Contract!Fail
<1>6. ASSUME NEW S \in SUBSET Items, Contract!Cancel(S) \/ Contract!RequestCancel(S)
      PROVE  /\ i \notin S => item'[i] = item[i]
             /\ i \in S => item[i] \notin Terminal
                           /\ item'[i] \in {"cancelled", "cancel_requested"}
             /\ charged' = charged
  BY <1>6 DEF Contract!Cancel, Contract!RequestCancel
<1>7. CASE Contract!Next
  BY <1>2, <1>3, <1>4, <1>5, <1>6, <1>7 DEF Contract!Next
<1> QED BY <1>1, <1>7, ItemStep

(* So the true counts only grow.                                           *)
LEMMA CountsGrow ==
    ASSUME BatchInv, [Next]_vars
    PROVE  /\ Counts.succeeded \in Nat /\ Counts'.succeeded \in Nat
           /\ Counts.succeeded <= Counts'.succeeded
           /\ AllTerminal => AllTerminal'
<1>1. WithStatus({"succeeded"}) \subseteq WithStatus({"succeeded"})'
  BY TerminalStays DEF WithStatus
<1>2. /\ IsFiniteSet(WithStatus({"succeeded"}))
      /\ IsFiniteSet(WithStatus({"succeeded"})')
  BY ItemsAssumption, FS_Subset DEF WithStatus
<1>3. /\ Cardinality(WithStatus({"succeeded"})) \in Nat
      /\ Cardinality(WithStatus({"succeeded"})') \in Nat
      /\ Cardinality(WithStatus({"succeeded"})) <= Cardinality(WithStatus({"succeeded"})')
  BY <1>1, <1>2, FS_Subset, FS_CardinalityType
<1>4. AllTerminal => AllTerminal' BY TerminalStays DEF AllTerminal
<1> QED BY <1>3, <1>4 DEF Counts

(* The status completed stands for a count of all items.                   *)
LEMMA CompletedMeansAll ==
    ASSUME NEW c, NEW b, computeBatchStatus(c, b) = "completed"
    PROVE  c.succeeded = Cardinality(Items)
BY DEF computeBatchStatus

(* What a step does to the header and to what finalizeBatch has read.      *)
HeaderStays ==
    /\ batch'.succeeded = batch.succeeded
    /\ batch'.completed = batch.completed
    /\ batch'.status \in {batch.status, "running", "cancelled"}
    /\ \A p \in Callers : final'[p].at = "write" => final'[p] = final[p]

LEMMA HeaderSteps ==
    ASSUME BatchInv, [Next]_vars
    PROVE  HeaderStays \/ \E p \in Callers : CountItems(p) \/ WriteHeader(p)
<1> USE DEF HeaderStays
<1>t. TypeOK BY DEF BatchInv
<1>f. final \in [Callers -> Finalizations] /\ batch \in BatchRows BY <1>t DEF TypeOK
<1>1. CASE UNCHANGED <<batch, final>> BY <1>1
<1>2. CASE StartBatch
  <2>1. CASE batch.status = "pending"
    <3>1. batch' = [batch EXCEPT !.status = "running", !.started = TRUE]
      BY <1>2, <2>1 DEF StartBatch
    <3>2. UNCHANGED final BY <1>2, <2>1 DEF StartBatch
    <3> QED BY <1>f, <3>1, <3>2 DEF BatchRows
  <2>2. CASE batch.status # "pending"
    <3>1. UNCHANGED batch BY <1>2, <2>2 DEF StartBatch
    <3>2. UNCHANGED final \/ StartFinalize("worker") BY <1>2, <2>2 DEF StartBatch
    <3> QED BY <1>f, <3>1, <3>2 DEF StartFinalize, Finalizations
  <2> QED BY <2>1, <2>2
<1>3. CASE SweepDone BY <1>f, <1>3 DEF SweepDone, StartFinalize, Finalizations
<1>4. CASE CancelBatch
  <2>1. UNCHANGED final BY <1>4 DEF CancelBatch
  <2>2. batch' = batch \/ batch' = [batch EXCEPT !.status = "cancelled"]
    BY <1>4 DEF CancelBatch
  <2> QED BY <1>f, <2>1, <2>2 DEF BatchRows
<1>5. CASE CancelRunningItems
  BY <1>f, <1>5 DEF CancelRunningItems, StartFinalize, Finalizations
<1>6. CASE RepairLoad
  BY <1>f, <1>6 DEF RepairLoad, Finalizations
<1>7. CASE RepairFinalize
  BY <1>f, <1>7 DEF RepairFinalize, Finalizations
<1>8. ASSUME NEW p \in Callers, ReadBatchStatus(p) PROVE HeaderStays
  BY <1>f, <1>8 DEF ReadBatchStatus
<1>9. CASE Crash
  BY <1>f, <1>9 DEF Crash, NotFinalizing
<1>10. ASSUME NEW i \in Items, \/ TakeItem(i) \/ SweepItem(i) \/ Task(i) \/ Debit(i)
                              \/ ItemGrowsStale(i) \/ RepairItem(i)
       PROVE  UNCHANGED <<batch, final>>
  BY <1>10 DEF TakeItem, SweepItem, Task, CheckSkip, MarkItemTerminal, ClaimItem, Retry,
               Succeed, Fail, TimeOut, Debit, ItemGrowsStale, RepairItem
<1>11. CASE \/ LoadBatch \/ LoadItems \/ PoolDrained \/ CancelLoad \/ CancelPendingItems
            \/ RepairSelect \/ BatchGrowsOld \/ UNCHANGED vars
  BY <1>11 DEF LoadBatch, LoadItems, PoolDrained, CancelLoad, CancelPendingItems,
               RepairSelect, BatchGrowsOld, vars
<1> QED
  BY <1>1, <1>2, <1>3, <1>4, <1>5, <1>6, <1>7, <1>8, <1>9, <1>10, <1>11, Zenon
  DEF Next, Worker, Cancel, Repair, Finalize

LEMMA HeaderInvPreserves == BatchInv /\ [Next]_vars => HeaderInv'
<1> SUFFICES ASSUME BatchInv, [Next]_vars PROVE HeaderInv' OBVIOUS
<1>t. TypeOK /\ HeaderInv BY DEF BatchInv
<1>0. /\ final \in [Callers -> Finalizations] /\ batch \in BatchRows
      /\ Cardinality(Items) \in Nat
  BY <1>t, ItemsAssumption, FS_CardinalityType DEF TypeOK
<1>1. /\ Counts.succeeded \in Nat /\ Counts'.succeeded \in Nat
      /\ Counts.succeeded <= Counts'.succeeded
      /\ AllTerminal => AllTerminal'
  BY CountsGrow
<1>2. \A i \in Items : item'[i] = "succeeded" => i \in charged'
  BY <1>t, TerminalStays DEF HeaderInv
<1>3. CASE HeaderStays
  <2>1. ASSUME NEW p \in Callers, final'[p].at = "write"
        PROVE  /\ final'[p].counts.succeeded <= Counts'.succeeded
               /\ final'[p].counts.terminal = Cardinality(Items) => AllTerminal'
    <3>1. final'[p] = final[p] /\ final[p].at = "write" BY <1>3, <2>1 DEF HeaderStays
    <3>2. final[p].counts.succeeded \in Nat BY <1>0 DEF Finalizations
    <3> QED BY <1>t, <1>1, <3>1, <3>2 DEF HeaderInv
  <2>2. batch.succeeded \in Nat BY <1>0 DEF BatchRows
  <2>3. batch'.succeeded <= Counts'.succeeded
    BY <1>t, <1>1, <1>3, <2>2 DEF HeaderInv, HeaderStays
  <2>4. /\ batch'.completed => AllTerminal'
        /\ batch'.status = "completed" => batch'.succeeded = Cardinality(Items)
    BY <1>t, <1>1, <1>3 DEF HeaderInv, HeaderStays
  <2> QED BY <1>2, <2>1, <2>3, <2>4 DEF HeaderInv
<1>4. ASSUME NEW q \in Callers, CountItems(q) PROVE HeaderInv'
  <2>1. UNCHANGED <<batch, item>> BY <1>4 DEF CountItems
  <2>2. Counts' = Counts BY <2>1 DEF Counts, WithStatus
  <2>3. /\ final'[q].counts = Counts
        /\ \A p \in Callers \ {q} : final'[p] = final[p]
    BY <1>0, <1>4 DEF CountItems
  <2>4. ASSUME NEW p \in Callers, final'[p].at = "write"
        PROVE  /\ final'[p].counts.succeeded <= Counts'.succeeded
               /\ final'[p].counts.terminal = Cardinality(Items) => AllTerminal'
    <3>1. CASE p = q BY <1>1, <2>2, <2>3, <3>1, AllCounted
    <3>2. CASE p # q BY <1>t, <1>1, <2>2, <2>3, <2>4, <3>2 DEF HeaderInv
    <3> QED BY <3>1, <3>2
  <2>5. /\ batch'.succeeded <= Counts'.succeeded
        /\ batch'.completed => AllTerminal'
        /\ batch'.status = "completed" => batch'.succeeded = Cardinality(Items)
    BY <1>t, <1>1, <2>1, <2>2 DEF HeaderInv
  <2> QED BY <1>2, <2>4, <2>5 DEF HeaderInv
<1>5. ASSUME NEW q \in Callers, WriteHeader(q) PROVE HeaderInv'
  <2>1. PICK c \in [succeeded: Nat, failed: Nat, terminal: Nat], b \in BOOLEAN :
            /\ c = final[q].counts
            /\ batch' = [batch EXCEPT !.status = computeBatchStatus(c, b),
                                      !.completed = (c.terminal = Cardinality(Items)),
                                      !.succeeded = c.succeeded,
                                      !.failed = c.failed]
    <3>1. final[q].counts \in [succeeded: Nat, failed: Nat, terminal: Nat]
      BY <1>0 DEF Finalizations
    <3>2. (final[q].status = "cancelled") \in BOOLEAN OBVIOUS
    <3> QED BY <1>5, <3>1, <3>2 DEF WriteHeader
  <2>2. /\ batch'.status = computeBatchStatus(c, b)
        /\ batch'.completed = (c.terminal = Cardinality(Items))
        /\ batch'.succeeded = c.succeeded
    BY <1>0, <2>1 DEF BatchRows
  <2>3. /\ final[q].at = "write" /\ UNCHANGED item
        /\ final' = [final EXCEPT ![q] = NotFinalizing]
    BY <1>5 DEF WriteHeader
  <2>4. /\ c.succeeded <= Counts.succeeded
        /\ c.terminal = Cardinality(Items) => AllTerminal
    BY <1>t, <2>1, <2>3 DEF HeaderInv
  <2>5. Counts' = Counts BY <2>3 DEF Counts, WithStatus
  <2>6. /\ batch'.succeeded <= Counts'.succeeded
        /\ batch'.completed => AllTerminal'
    BY <1>1, <2>2, <2>4, <2>5
  <2>7. batch'.status = "completed" => batch'.succeeded = Cardinality(Items)
    BY <2>2, CompletedMeansAll
  <2>8. ASSUME NEW p \in Callers, final'[p].at = "write"
        PROVE  /\ final'[p].counts.succeeded <= Counts'.succeeded
               /\ final'[p].counts.terminal = Cardinality(Items) => AllTerminal'
    <3>1. p # q BY <1>0, <2>3, <2>8 DEF NotFinalizing
    <3>2. final'[p] = final[p] BY <1>0, <2>3, <3>1
    <3> QED BY <1>t, <1>1, <2>5, <2>8, <3>2 DEF HeaderInv
  <2> QED BY <1>2, <2>6, <2>7, <2>8 DEF HeaderInv
<1> QED BY <1>3, <1>4, <1>5, HeaderSteps

-----------------------------------------------------------------------------
LEMMA InitBatchInv == Init => BatchInv
<1> SUFFICES ASSUME Init PROVE BatchInv OBVIOUS
<1>1. TypeOK /\ AttemptsAndExecutions /\ ChargedItemsAreDelivered
  BY InitRowsInv DEF RowsInv
<1>2. ActorsInv /\ StatusInv /\ ClaimsInv
  BY DEF Init, ActorsInv, StatusInv, ClaimsInv, NotFinalizing, Callers
<1>3. LoadedInv /\ SettledInv /\ CountedInv /\ WorkerFinalizes
  BY DEF Init, LoadedInv, SettledInv, CountedInv, WorkerFinalizes, NotFinalizing, Callers
<1>4. BillsInv BY DEF Init, BillsInv
<1>5. HeaderInv
  <2>1. Counts.succeeded \in Nat BY CountsType
  <2> QED BY <2>1 DEF Init, HeaderInv, NotFinalizing
<1> QED BY <1>1, <1>2, <1>3, <1>4, <1>5 DEF BatchInv

LEMMA BatchInvPreserves == BatchInv /\ [Next]_vars => BatchInv'
<1> SUFFICES ASSUME BatchInv, [Next]_vars PROVE BatchInv' OBVIOUS
<1>1. (TypeOK /\ AttemptsAndExecutions /\ ChargedItemsAreDelivered)'
  BY RowsPreserved DEF BatchInv, RowsInv
<1>2. (ActorsInv /\ StatusInv /\ ClaimsInv)'
  BY ActorsInvPreserves, StatusInvPreserves, ClaimsInvPreserves
<1>3. (LoadedInv /\ SettledInv /\ CountedInv /\ WorkerFinalizes)'
  BY LoadedInvPreserves, SettledInvPreserves, CountedInvPreserves,
     WorkerFinalizesPreserves
<1>4. BillsInv' /\ HeaderInv' BY BillsInvPreserves, HeaderInvPreserves
<1> QED BY <1>1, <1>2, <1>3, <1>4 DEF BatchInv

(* Rows, actors, the status of the batch and the claims of its items stay  *)
(* in step in every reachable state of the batch queue.                    *)
THEOREM BatchInvariant == Spec => []BatchInv
BY InitBatchInv, BatchInvPreserves, PTL DEF Spec

(* What was charged is delivered unless a timer or a crash came between,   *)
(* for every number of items, loops and attempts.                          *)
THEOREM ChargedItemsAreDeliveredAlways == Spec => []ChargedItemsAreDelivered
<1>1. BatchInv => ChargedItemsAreDelivered BY DEF BatchInv
<1> QED BY <1>1, BatchInvariant, PTL

(* When the worker is through with a young batch that it alone finalizes,  *)
(* the header counts the items as they stay.                               *)
THEOREM WorkerFinalizesAlways == Spec => []WorkerFinalizes
<1>1. BatchInv => WorkerFinalizes BY DEF BatchInv
<1> QED BY <1>1, BatchInvariant, PTL

(* Only a claim starts an execution, and after a cancel none succeeds.     *)
LEMMA NoStart ==
    BatchInv /\ [Next]_vars =>
        (cancel.at \in {"final", "done"} =>
            \A i \in Items : exec'[i] = "upstream" => exec[i] = "upstream")
<1> SUFFICES ASSUME BatchInv, [Next]_vars, cancel.at \in {"final", "done"},
                     NEW k \in Items, exec'[k] = "upstream"
             PROVE  exec[k] = "upstream"
  OBVIOUS
<1> USE DEF TypeOK
<1>t. TypeOK /\ ClaimsInv BY DEF BatchInv
<1> USE <1>t
<1>0. CASE UNCHANGED vars BY <1>0 DEF vars
<1>1. CASE LoadBatch
  BY <1>1 DEF LoadBatch
<1>2. CASE StartBatch
  BY <1>2 DEF StartBatch, StartFinalize
<1>3. CASE LoadItems
  BY <1>3 DEF LoadItems, WithStatus
<1>4. ASSUME NEW i \in Items, TakeItem(i) PROVE exec[k] = "upstream"
  BY <1>4 DEF TakeItem
<1>5. CASE PoolDrained
  BY <1>5 DEF PoolDrained, Active
<1>6. ASSUME NEW i \in Items, SweepItem(i) PROVE exec[k] = "upstream"
  BY <1>6 DEF SweepItem, FailItem
<1>7. CASE SweepDone
  BY <1>7 DEF SweepDone, StartFinalize
<1>8. ASSUME NEW i \in Items, CheckSkip(i) PROVE exec[k] = "upstream"
  BY <1>8 DEF CheckSkip, Goto
<1>9. ASSUME NEW i \in Items, MarkItemTerminal(i) PROVE exec[k] = "upstream"
  BY <1>9 DEF MarkItemTerminal, Goto
<1>10. ASSUME NEW i \in Items, ClaimItem(i) PROVE exec[k] = "upstream"
  BY <1>10 DEF ClaimItem, ClaimsInv
<1>11. ASSUME NEW i \in Items, Retry(i) PROVE exec[k] = "upstream"
  BY <1>11 DEF Retry
<1>12. ASSUME NEW i \in Items, Succeed(i) PROVE exec[k] = "upstream"
  BY <1>12 DEF Succeed, Goto
<1>13. ASSUME NEW i \in Items, Fail(i) PROVE exec[k] = "upstream"
  BY <1>13 DEF Fail, Goto
<1>14. ASSUME NEW i \in Items, TimeOut(i) PROVE exec[k] = "upstream"
  BY <1>14 DEF TimeOut, Goto
<1>15. ASSUME NEW i \in Items, Debit(i) PROVE exec[k] = "upstream"
  BY <1>15 DEF Debit
<1>16. ASSUME NEW i \in Items, ItemGrowsStale(i) PROVE exec[k] = "upstream"
  BY <1>16 DEF ItemGrowsStale
<1>17. CASE CancelLoad
  BY <1>17 DEF CancelLoad
<1>18. CASE CancelBatch
  BY <1>18 DEF CancelBatch
<1>19. CASE CancelPendingItems
  BY <1>19 DEF CancelPendingItems
<1>20. CASE CancelRunningItems
  BY <1>20 DEF CancelRunningItems, StartFinalize
<1>21. CASE RepairLoad
  BY <1>21 DEF RepairLoad
<1>22. CASE RepairSelect
  BY <1>22 DEF RepairSelect
<1>23. ASSUME NEW i \in Items, RepairItem(i) PROVE exec[k] = "upstream"
  BY <1>23 DEF RepairItem, FailItem
<1>24. CASE RepairFinalize
  BY <1>24 DEF RepairFinalize
<1>25. ASSUME NEW p \in Callers, ReadBatchStatus(p) PROVE exec[k] = "upstream"
  BY <1>25 DEF ReadBatchStatus
<1>26. ASSUME NEW p \in Callers, CountItems(p) PROVE exec[k] = "upstream"
  BY <1>26 DEF CountItems
<1>27. ASSUME NEW p \in Callers, WriteHeader(p) PROVE exec[k] = "upstream"
  BY <1>27 DEF WriteHeader, NotFinalizing
<1>28. CASE BatchGrowsOld
  BY <1>28 DEF BatchGrowsOld
<1>29. CASE Crash
  BY <1>29 DEF Crash, NotFinalizing
<1> QED
  BY <1>0, <1>1, <1>2, <1>3, <1>4, <1>5, <1>6, <1>7, <1>8, <1>9, <1>10, <1>11,
     <1>12, <1>13, <1>14, <1>15, <1>16, <1>17, <1>18, <1>19, <1>20, <1>21, <1>22,
     <1>23, <1>24, <1>25, <1>26, <1>27, <1>28, <1>29
  DEF Next, Worker, Task, Cancel, Repair, Finalize

(* Once a cancel is through, no item is started any more, however its      *)
(* updates and the worker's checks and claims were interleaved.            *)
THEOREM NoStartAfterCancelAlways == Spec => NoStartAfterCancel
BY BatchInvariant, NoStart, PTL DEF Spec, NoStartAfterCancel

(* Whoever writes an item, and in whatever order, keeps the contract with  *)
(* the customer: charged once and only when started, not started again     *)
(* after that, final when succeeded or cancelled.                          *)
THEOREM QueueImplementsBatchItems == Spec => ImplementsBatchItems
<1>1. Init => Contract!Init BY DEF Init, Contract!Init
<1>2. BatchInv /\ [Next]_vars => [Contract!Next]_<<item, charged>> BY ItemStep
<1> QED
  BY <1>1, <1>2, BatchInvariant, PTL
  DEF Spec, ImplementsBatchItems, Contract!Spec, Contract!vars

(* However old what the three callers of finalizeBatch have read, the      *)
(* header counts no success that is not there, closes no batch with an     *)
(* open item, and says completed only when all is delivered and paid for.  *)
THEOREM HeaderNeverOverstatesAlways == Spec => []HeaderNeverOverstates
<1>1. BatchInv => HeaderNeverOverstates
  <2> SUFFICES ASSUME BatchInv PROVE HeaderNeverOverstates OBVIOUS
  <2>1. HeaderInv /\ TypeOK BY DEF BatchInv
  <2>2. ASSUME batch.status = "completed"
        PROVE  \A i \in Items : item[i] = "succeeded" /\ i \in charged
    <3> DEFINE S == WithStatus({"succeeded"})
    <3>1. /\ S \subseteq Items /\ IsFiniteSet(Items)
          /\ Cardinality(S) = Counts.succeeded
      BY ItemsAssumption DEF WithStatus, Counts
    <3>2. /\ Cardinality(Items) <= Counts.succeeded
          /\ Counts.succeeded \in Nat /\ Cardinality(Items) \in Nat
      BY <2>1, <2>2, CountsType, ItemsAssumption, FS_CardinalityType DEF HeaderInv
    <3>3. Cardinality(S) <= Cardinality(Items) /\ (Cardinality(S) = Cardinality(Items) => S = Items)
      BY <3>1, FS_Subset
    <3>4. S = Items BY <3>1, <3>2, <3>3
    <3> QED BY <2>1, <3>4 DEF WithStatus, HeaderInv
  <2> QED BY <2>1, <2>2 DEF HeaderInv, HeaderNeverOverstates
<1> QED BY <1>1, BatchInvariant, PTL
=============================================================================
