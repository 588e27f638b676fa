-------------------------- MODULE ImageTasksProofs --------------------------
(***************************************************************************)
(* Proofs about ImageTasks for any number of tasks, candidates and faults: *)
(* its inductive invariant, and from it what a customer may rely on.       *)
(*                                                                         *)
(* The invariant of a task mentions only its own row, jobs, worker and     *)
(* place in the sweep.  So each statement is first described by the few    *)
(* facts about its own task that matter (lemmas ...Facts), every other     *)
(* task is dealt with once (lemma Others), and a step of the worker or of  *)
(* the sweep is left with its own task.                                    *)
(***************************************************************************)
EXTENDS ImageTasks, TLAPS

(* What TaskInv(u) mentions stays as it is. *)
Same(u) ==
    /\ row'[u] = row[u]
    /\ jobs'[u] = jobs[u]
    /\ worker'[u] = worker[u]
    /\ sweep'.list[u] = sweep.list[u]
    /\ Sweeping(u)' <=> Sweeping(u)
    /\ Sweeping(u) => sweep'.at = sweep.at
    /\ u \in debited' <=> u \in debited
    /\ faults > 0 => faults' > 0

LEMMA Others ==
    ASSUME NEW u \in Tasks, TaskInv(u), Same(u) PROVE TaskInv(u)'
<1>1. HasImage(u)' <=> HasImage(u) BY DEF Same, HasImage
<1> QED BY <1>1 DEF Same, TaskInv

-----------------------------------------------------------------------------
(* What the operators on the worker, the row and the account do.           *)

LEMMA WorkerGets ==
    ASSUME TypeOK, NEW t \in Tasks, NEW x \in Workers, worker' = [worker EXCEPT ![t] = x]
    PROVE  /\ worker' \in [Tasks -> Workers]
           /\ worker'[t] = x
           /\ \A u \in Tasks \ {t} : worker'[u] = worker[u]
BY DEF TypeOK

LEMMA GoToFacts ==
    ASSUME TypeOK, NEW t \in Tasks, NEW p,
           p \in {"none", "start", "guards", "attempt", "wait", "asset", "debit",
                  "log", "finish", "fail", "faillog"},
           GoTo(t, p)
    PROVE  /\ worker' \in [Tasks -> Workers]
           /\ worker'[t].at = p
           /\ worker'[t].job = worker[t].job
           /\ \A u \in Tasks \ {t} : worker'[u] = worker[u]
<1> DEFINE x == [worker[t] EXCEPT !.at = p]
<1>1. worker' = [worker EXCEPT ![t] = x] BY DEF GoTo
<1>2. worker[t] \in Workers BY DEF TypeOK
<1>3. x \in Workers /\ x.at = p /\ x.job = worker[t].job BY <1>2 DEF Workers
<1> HIDE DEF x
<1> QED BY <1>1, <1>3, WorkerGets

LEMMA LeaveFacts ==
    ASSUME TypeOK, NEW t \in Tasks, Leave(t)
    PROVE  /\ worker' \in [Tasks -> Workers]
           /\ worker'[t].at = "none"
           /\ worker'[t].job = 0
           /\ \A u \in Tasks \ {t} : worker'[u] = worker[u]
<1>1. NoWorker \in Workers /\ NoWorker.at = "none" /\ NoWorker.job = 0
  BY ImageAssumption DEF Workers, NoWorker
<1> QED BY <1>1 DEF TypeOK, Leave

LEMMA StartFacts ==
    ASSUME TypeOK, NEW t \in Tasks, Start(t)
    PROVE  /\ worker' \in [Tasks -> Workers]
           /\ worker'[t].at = "start"
           /\ worker'[t].job = 0
           /\ \A u \in Tasks \ {t} : worker'[u] = worker[u]
<1> DEFINE w == [NoWorker EXCEPT !.at = "start"]
<1>0. NoWorker \in Workers /\ NoWorker.job = 0
  BY ImageAssumption DEF Workers, NoWorker
<1>1. w \in Workers /\ w.at = "start" /\ w.job = 0 BY <1>0 DEF Workers
<1>2. worker' = [worker EXCEPT ![t] = w] BY DEF Start
<1> HIDE DEF w
<1> QED BY <1>1, <1>2 DEF TypeOK

LEMMA FailFacts ==
    ASSUME TypeOK, NEW t \in Tasks, NEW e, e \in {"error", "timeout"},
           worker' = [worker EXCEPT ![t].at = "fail", ![t].err = e]
    PROVE  /\ worker' \in [Tasks -> Workers]
           /\ worker'[t].at = "fail"
           /\ worker'[t].job = worker[t].job
           /\ \A u \in Tasks \ {t} : worker'[u] = worker[u]
<1> DEFINE w == [worker[t] EXCEPT !.at = "fail", !.err = e]
<1>0. worker[t] \in Workers BY DEF TypeOK
<1>1. worker' = [worker EXCEPT ![t] = w] BY DEF TypeOK
<1>2. w \in Workers /\ w.at = "fail" /\ w.job = worker[t].job
  BY <1>0 DEF Workers
<1> HIDE DEF w
<1> QED BY <1>1, <1>2 DEF TypeOK

(* The next candidate starts without a job; the end of the chain fails. *)
LEMMA NextCandidateFacts ==
    ASSUME TypeOK, NEW t \in Tasks, NEW e, e \in {"none", "error", "timeout"},
           NextCandidate(t, e)
    PROVE  /\ worker' \in [Tasks -> Workers]
           /\ worker'[t].at \in {"attempt", "fail"}
           /\ worker'[t].job \in {0, worker[t].job}
           /\ \A u \in Tasks \ {t} : worker'[u] = worker[u]
<1>0. worker[t] \in Workers BY DEF TypeOK
<1>1. CASE worker[t].cand = Candidates
  <2> DEFINE w == [worker[t] EXCEPT !.at = "fail", !.err = e]
  <2>1. worker' = [worker EXCEPT ![t] = w] BY <1>1 DEF NextCandidate
  <2>2. w \in Workers /\ w.at = "fail" /\ w.job = worker[t].job
    BY <1>0 DEF Workers
  <2> HIDE DEF w
  <2> QED BY <2>1, <2>2 DEF TypeOK
<1>2. CASE worker[t].cand # Candidates
  <2> DEFINE w == [NoWorker EXCEPT !.at = "attempt", !.cand = worker[t].cand + 1,
                                   !.err = e]
  <2>1. worker' = [worker EXCEPT ![t] = w] BY <1>2 DEF NextCandidate
  <2>2. worker[t].cand + 1 \in 1..Candidates
    BY <1>0, <1>2, ImageAssumption DEF Workers
  <2>3. w \in Workers /\ w.at = "attempt" /\ w.job = 0
    BY <2>2 DEF Workers, NoWorker
  <2> HIDE DEF w
  <2> QED BY <2>1, <2>3 DEF TypeOK
<1> QED BY <1>1, <1>2

(* A failure is never written over a completed row, nor does it reopen the *)
(* queue.                                                                  *)
LEMMA FailureFacts ==
    ASSUME TypeOK, NEW t \in Tasks, NEW s, s \in {"failed", "retryable_timeout"},
           NEW r, r \in {"pending", "reconciled"},
           finalizeImageTaskFailure(t, s, r)
    PROVE  /\ row' \in [Tasks -> Rows]
           /\ row'[t].job = row[t].job
           /\ row'[t].status \in {s, row[t].status}
           /\ row'[t].status \in {"none", "queued"} =>
                 row[t].status \in {"none", "queued"}
           /\ row[t].status = "completed" => row'[t] = row[t]
           /\ \A u \in Tasks \ {t} : row'[u] = row[u]
<1>0. row[t] \in Rows BY DEF TypeOK
<1>1. CASE row[t].status \in InFlight \cup {"retryable_timeout"}
  <2> DEFINE x == [row[t] EXCEPT !.status = s, !.reconcile = r, !.charged = FALSE]
  <2>1. row' = [row EXCEPT ![t] = x]
    BY <1>1 DEF finalizeImageTaskFailure, TypeOK
  <2>2. x \in Rows /\ x.status = s /\ x.job = row[t].job
    BY <1>0 DEF Rows, Terminal
  <2> HIDE DEF x
  <2> QED BY <1>1, <2>1, <2>2 DEF TypeOK, InFlight
<1>2. CASE row[t].status \notin InFlight \cup {"retryable_timeout"}
  BY <1>2 DEF finalizeImageTaskFailure, TypeOK
<1> QED BY <1>1, <1>2

LEMMA SuccessFacts ==
    ASSUME TypeOK, NEW t \in Tasks, NEW j \in Nat, finalizeImageTaskSuccess(t, j)
    PROVE  /\ row' \in [Tasks -> Rows]
           /\ row'[t].status = "completed"
           /\ row'[t].job = j
           /\ row'[t].url /\ row'[t].charged
           /\ \A u \in Tasks \ {t} : row'[u] = row[u]
<1> DEFINE x == [status |-> "completed", reconcile |-> "reconciled", job |-> j,
                 url |-> TRUE, charged |-> TRUE]
<1>1. row' = [row EXCEPT ![t] = x] BY DEF finalizeImageTaskSuccess
<1>2. x \in Rows /\ x.status = "completed" /\ x.job = j /\ x.url /\ x.charged
  BY DEF Rows, Terminal
<1> HIDE DEF x
<1> QED BY <1>1, <1>2 DEF TypeOK

LEMMA MetaFacts ==
    ASSUME TypeOK, NEW t \in Tasks, NEW r,
           r \in {"pending", "in_progress", "reconciled", "orphan_alarm"},
           updateImageTaskReconcileMeta(t, r)
    PROVE  /\ row' \in [Tasks -> Rows]
           /\ row'[t].status = row[t].status
           /\ row'[t].job = row[t].job
           /\ row'[t].url = row[t].url
           /\ row'[t].charged = row[t].charged
           /\ \A u \in Tasks \ {t} : row'[u] = row[u]
BY DEF TypeOK, Rows, updateImageTaskReconcileMeta

LEMMA SubmittedFacts ==
    ASSUME TypeOK, NEW t \in Tasks, NEW j \in Nat, row[t].status = "processing",
           markImageTaskUpstreamSubmitted(t, j)
    PROVE  /\ row' \in [Tasks -> Rows]
           /\ row'[t].status = "processing"
           /\ row'[t].job = j
           /\ \A u \in Tasks \ {t} : row'[u] = row[u]
<1> DEFINE x == [row[t] EXCEPT !.job = j, !.reconcile = "pending"]
<1>1. row' = [row EXCEPT ![t] = x]
  BY DEF markImageTaskUpstreamSubmitted, InFlight, TypeOK
<1>2. row[t] \in Rows BY DEF TypeOK
<1>3. x \in Rows /\ x.status = "processing" /\ x.job = j BY <1>2 DEF Rows
<1> HIDE DEF x
<1> QED BY <1>1, <1>3 DEF TypeOK

LEMMA DebitFacts ==
    ASSUME TypeOK, NEW t \in Tasks, CanDebit, debit_credits(t)
    PROVE  /\ balance' \in Nat
           /\ debited' = debited \cup {t}
BY ImageAssumption DEF TypeOK, CanDebit, debit_credits, account

LEMMA LogFacts ==
    ASSUME TypeOK, NEW t \in Tasks, NEW s, s \in {"succeeded", "failed"},
           InsertUsageLog(t, s)
    PROVE  log' \in [Tasks -> {"none", "succeeded", "failed"}]
BY DEF TypeOK, InsertUsageLog

(* A new job is the last one, and no image is lost. *)
LEMMA AppendFacts ==
    ASSUME TypeOK, NEW t \in Tasks, NEW s, s \in {"running", "done"},
           jobs' = [jobs EXCEPT ![t] = Append(@, s)]
    PROVE  /\ jobs' \in [Tasks -> Seq({"running", "done", "failed", "empty"})]
           /\ DOMAIN jobs[t] \subseteq DOMAIN jobs'[t]
           /\ Len(jobs[t]) + 1 \in DOMAIN jobs'[t]
           /\ HasImage(t) => HasImage(t)'
           /\ s = "done" => HasImage(t)'
           /\ \A u \in Tasks \ {t} : jobs'[u] = jobs[u]
<1> DEFINE S == {"running", "done", "failed", "empty"}
<1>1. jobs[t] \in Seq(S) BY DEF TypeOK
<1>2. jobs'[t] = Append(jobs[t], s) BY DEF TypeOK
<1>3. /\ DOMAIN jobs[t] = 1..Len(jobs[t])
      /\ DOMAIN jobs'[t] = 1..(Len(jobs[t]) + 1)
      /\ Len(jobs[t]) \in Nat
      /\ jobs'[t][Len(jobs[t]) + 1] = s
      /\ \A k \in 1..Len(jobs[t]) : jobs'[t][k] = jobs[t][k]
  BY <1>1, <1>2
<1>4. jobs' \in [Tasks -> Seq(S)] BY <1>1 DEF TypeOK
<1>5. DOMAIN jobs[t] \subseteq DOMAIN jobs'[t] /\ Len(jobs[t]) + 1 \in DOMAIN jobs'[t]
  BY <1>3
<1>6. HasImage(t) => HasImage(t)' BY <1>3, <1>5 DEF HasImage
<1>7. s = "done" => HasImage(t)' BY <1>3, <1>5 DEF HasImage
<1> QED BY <1>4, <1>5, <1>6, <1>7 DEF TypeOK

-----------------------------------------------------------------------------
(* The steps of a worker.                                                  *)

(* A step of one task's worker, which leaves the sweep alone. *)
LEMMA WorkerStep ==
    ASSUME ImageInv, NEW t \in Tasks, TypeOK', TaskInv(t)',
           UNCHANGED sweep,
           \A u \in Tasks \ {t} :
               /\ row'[u] = row[u] /\ jobs'[u] = jobs[u] /\ worker'[u] = worker[u]
               /\ u \in debited' <=> u \in debited,
           faults > 0 => faults' > 0
    PROVE  ImageInv'
<1>1. ASSUME NEW u \in Tasks \ {t} PROVE TaskInv(u)'
  <2>1. Same(u) BY DEF Same, Sweeping
  <2>2. TaskInv(u) BY DEF ImageInv
  <2> QED BY <2>1, <2>2, Others
<1>2. \A u \in Tasks : TaskInv(u)' BY <1>1
<1> QED BY <1>2 DEF ImageInv

(* The same for a step that moves only the worker. *)
LEMMA WorkerMoves ==
    ASSUME ImageInv, NEW t \in Tasks, UNCHANGED butWorker,
           worker' \in [Tasks -> Workers],
           \A u \in Tasks \ {t} : worker'[u] = worker[u],
           worker'[t].job \in {0, worker[t].job},
           worker'[t].at \in Busy => worker[t].at \in Busy,
           worker'[t].at \notin {"wait", "log", "finish"},
           worker[t].at \notin {"log", "finish"},
           Sweeping(t) => worker'[t].at \in {"none", "start"},
           worker'[t].at \in {"asset", "debit"} => HasImage(t)
    PROVE  ImageInv'
<1>0. TypeOK /\ TaskInv(t) BY DEF ImageInv
<1>1. TypeOK' BY <1>0 DEF TypeOK, butWorker, account
<1>2. HasImage(t)' <=> HasImage(t) BY DEF HasImage, butWorker
<1>3. Sweeping(t)' <=> Sweeping(t) BY DEF Sweeping, butWorker
<1>4. TaskInv(t)'
  BY <1>0, <1>2, <1>3 DEF TaskInv, butWorker, account
<1> QED BY <1>1, <1>4, WorkerStep DEF butWorker, account

LEMMA WorkPreserves ==
    ASSUME ImageInv, NEW t \in Tasks, Work(t) \/ PaymentGoesAstray(t)
    PROVE  ImageInv'
<1>0. /\ TypeOK
      /\ TaskInv(t)
      /\ worker[t].job \in Nat
  BY DEF ImageInv, TypeOK, Workers
<1> USE DEF Busy, At
<1>1. CASE Claim(t)
  <2>1. CASE row[t].status = "queued"
    <3>1. row' = [row EXCEPT ![t].status = "processing"] /\ GoTo(t, "guards")
      BY <1>1, <2>1 DEF Claim
    <3>2. /\ row' \in [Tasks -> Rows]
          /\ row'[t].status = "processing"
          /\ row'[t].job = row[t].job
          /\ \A u \in Tasks \ {t} : row'[u] = row[u]
      BY <1>0, <3>1 DEF TypeOK, Rows, InFlight
    <3>3. /\ worker' \in [Tasks -> Workers]
          /\ worker'[t].at = "guards"
          /\ worker'[t].job = worker[t].job
          /\ \A u \in Tasks \ {t} : worker'[u] = worker[u]
      BY <1>0, <3>1, GoToFacts
    <3>4. /\ worker[t].at = "start"
          /\ UNCHANGED <<jobs, aged, account, log, sweep, faults, retries>>
      BY <1>1 DEF Claim
    <3>5. TypeOK' BY <1>0, <3>2, <3>3, <3>4 DEF TypeOK, account
    <3>6. HasImage(t)' <=> HasImage(t) BY <3>4 DEF HasImage
    <3>7. ~Sweeping(t) BY <1>0, <2>1 DEF TaskInv
    <3>8. ~Sweeping(t)' BY <3>4, <3>7 DEF Sweeping
    <3>9. sweep.list[t] = NoRow BY <1>0, <2>1 DEF TaskInv
    <3>10. TaskInv(t)'
      BY <1>0, <2>1, <3>2, <3>3, <3>4, <3>6, <3>7, <3>8, <3>9 DEF TaskInv, account
    <3> QED BY <3>2, <3>3, <3>4, <3>5, <3>10, WorkerStep DEF account
  <2>2. CASE row[t].status # "queued"
    <3>1. UNCHANGED butWorker /\ Leave(t) /\ worker[t].at = "start"
      BY <1>1, <2>2 DEF Claim, butWorker
    <3> QED BY <1>0, <3>1, LeaveFacts, WorkerMoves
  <2> QED BY <2>1, <2>2
<1>2. CASE PassGuards(t)
  BY <1>0, <1>2, GoToFacts, WorkerMoves DEF PassGuards, TaskInv
<1>3. CASE RefuseGuards(t)
  BY <1>0, <1>3, GoToFacts, WorkerMoves DEF RefuseGuards, TaskInv
<1>4. CASE Submit(t)
  <2> DEFINE j == Len(jobs[t]) + 1
             w == [[worker[t] EXCEPT !.at = "wait"] EXCEPT !.job = j]
  <2>1. /\ worker[t].at = "attempt"
        /\ jobs' = [jobs EXCEPT ![t] = Append(@, "running")]
        /\ worker' = [worker EXCEPT ![t].at = "wait", ![t].job = j]
        /\ markImageTaskUpstreamSubmitted(t, j)
        /\ UNCHANGED <<aged, account, log, sweep, faults, retries>>
    BY <1>4 DEF Submit
  <2>2. row[t].status = "processing" BY <1>0, <2>1 DEF TaskInv
  <2>3. j \in Nat BY <1>0 DEF TypeOK
  <2>4. /\ jobs' \in [Tasks -> Seq({"running", "done", "failed", "empty"})]
        /\ DOMAIN jobs[t] \subseteq DOMAIN jobs'[t]
        /\ j \in DOMAIN jobs'[t]
        /\ HasImage(t) => HasImage(t)'
        /\ \A u \in Tasks \ {t} : jobs'[u] = jobs[u]
    BY <1>0, <2>1, AppendFacts
  <2>5. /\ row' \in [Tasks -> Rows]
        /\ row'[t].status = "processing"
        /\ row'[t].job = j
        /\ \A u \in Tasks \ {t} : row'[u] = row[u]
    BY <1>0, <2>1, <2>2, <2>3, SubmittedFacts
  <2>6. /\ worker' \in [Tasks -> Workers]
        /\ worker'[t].at = "wait"
        /\ worker'[t].job = j
        /\ \A u \in Tasks \ {t} : worker'[u] = worker[u]
    <3>1. worker[t] \in Workers BY <1>0 DEF TypeOK
    <3>2. w \in Workers /\ w.at = "wait" /\ w.job = j BY <2>3, <3>1 DEF Workers
    <3>3. worker' = [worker EXCEPT ![t] = w] BY <1>0, <2>1 DEF TypeOK
    <3> HIDE DEF w, j
    <3> QED BY <1>0, <3>2, <3>3, WorkerGets
  <2> HIDE DEF j, w
  <2>7. TypeOK' BY <1>0, <2>1, <2>4, <2>5, <2>6 DEF TypeOK, account
  <2>8. ~Sweeping(t) BY <1>0, <2>1 DEF TaskInv
  <2>9. ~Sweeping(t)' BY <2>1, <2>8 DEF Sweeping
  <2>10. TaskInv(t)'
    BY <1>0, <2>1, <2>2, <2>4, <2>5, <2>6, <2>8, <2>9 DEF TaskInv, account
  <2> QED BY <2>1, <2>4, <2>5, <2>6, <2>7, <2>10, WorkerStep DEF account
<1>5. CASE SubmitAnswered(t)
  <2>1. /\ worker[t].at = "attempt"
        /\ jobs' = [jobs EXCEPT ![t] = Append(@, "done")]
        /\ GoTo(t, "asset")
        /\ UNCHANGED <<row, aged, account, log, sweep, faults, retries>>
    BY <1>5 DEF SubmitAnswered
  <2>2. /\ jobs' \in [Tasks -> Seq({"running", "done", "failed", "empty"})]
        /\ DOMAIN jobs[t] \subseteq DOMAIN jobs'[t]
        /\ HasImage(t)'
        /\ \A u \in Tasks \ {t} : jobs'[u] = jobs[u]
    BY <1>0, <2>1, AppendFacts
  <2>3. /\ worker' \in [Tasks -> Workers]
        /\ worker'[t].at = "asset"
        /\ worker'[t].job = worker[t].job
        /\ \A u \in Tasks \ {t} : worker'[u] = worker[u]
    BY <1>0, <2>1, GoToFacts
  <2>4. TypeOK' BY <1>0, <2>1, <2>2, <2>3 DEF TypeOK, account
  <2>5. ~Sweeping(t) BY <1>0, <2>1 DEF TaskInv
  <2>6. ~Sweeping(t)' BY <2>1, <2>5 DEF Sweeping
  <2>7. TaskInv(t)'
    BY <1>0, <2>1, <2>2, <2>3, <2>5, <2>6 DEF TaskInv, account
  <2> QED BY <2>1, <2>2, <2>3, <2>4, <2>7, WorkerStep DEF account
<1>6. CASE AttemptFails(t)
  <2>1. PICK e \in {"none", "error", "timeout"} : NextCandidate(t, e)
    BY <1>0, <1>6 DEF AttemptFails, TypeOK, Workers
  <2>2. worker[t].at = "attempt" /\ UNCHANGED butWorker BY <1>6 DEF AttemptFails
  <2>3. /\ worker' \in [Tasks -> Workers]
        /\ worker'[t].at \in {"attempt", "fail"}
        /\ worker'[t].job \in {0, worker[t].job}
        /\ \A u \in Tasks \ {t} : worker'[u] = worker[u]
    BY <1>0, <2>1, NextCandidateFacts
  <2>4. ~Sweeping(t) BY <1>0, <2>2 DEF TaskInv
  <2> QED BY <2>2, <2>3, <2>4, WorkerMoves
<1>7. CASE ClientError(t)
  <2>1. /\ worker[t].at = "attempt"
        /\ worker' = [worker EXCEPT ![t].at = "fail", ![t].err = "error"]
        /\ UNCHANGED butWorker
    BY <1>7 DEF ClientError
  <2>2. ~Sweeping(t) BY <1>0, <2>1 DEF TaskInv
  <2> QED BY <1>0, <2>1, <2>2, FailFacts, WorkerMoves
<1>8. CASE PollDone(t)
  <2>1. /\ worker[t].at = "wait"
        /\ JobOf(t) = "done"
        /\ GoTo(t, "asset")
        /\ UNCHANGED butWorker
    BY <1>8 DEF PollDone
  <2>2. HasImage(t) BY <1>0, <2>1 DEF HasImage, JobOf, TaskInv
  <2>3. ~Sweeping(t) BY <1>0, <2>1 DEF TaskInv
  <2> QED BY <1>0, <2>1, <2>2, <2>3, GoToFacts, WorkerMoves
<1>9. CASE PollFails(t)
  <2>1. /\ worker[t].at = "wait"
        /\ NextCandidate(t, "error")
        /\ UNCHANGED butWorker
    BY <1>9 DEF PollFails
  <2>2. /\ worker' \in [Tasks -> Workers]
        /\ worker'[t].at \in {"attempt", "fail"}
        /\ worker'[t].job \in {0, worker[t].job}
        /\ \A u \in Tasks \ {t} : worker'[u] = worker[u]
    BY <1>0, <2>1, NextCandidateFacts
  <2>3. ~Sweeping(t) BY <1>0, <2>1 DEF TaskInv
  <2> QED BY <2>1, <2>2, <2>3, WorkerMoves
<1>10. CASE Resubmit(t)
  <2> DEFINE w == [[worker[t] EXCEPT !.at = "attempt"] EXCEPT !.retried = TRUE]
  <2>1. /\ worker[t].at = "wait"
        /\ worker' = [worker EXCEPT ![t].at = "attempt", ![t].retried = TRUE]
        /\ UNCHANGED butWorker
    BY <1>10 DEF Resubmit
  <2>2. /\ worker' \in [Tasks -> Workers]
        /\ worker'[t].at = "attempt"
        /\ worker'[t].job = worker[t].job
        /\ \A u \in Tasks \ {t} : worker'[u] = worker[u]
    <3>1. worker[t] \in Workers BY <1>0 DEF TypeOK
    <3>2. w \in Workers /\ w.at = "attempt" /\ w.job = worker[t].job
      BY <3>1 DEF Workers
    <3>3. worker' = [worker EXCEPT ![t] = w] BY <1>0, <2>1 DEF TypeOK
    <3> HIDE DEF w
    <3> QED BY <1>0, <3>2, <3>3, WorkerGets
  <2>3. ~Sweeping(t) BY <1>0, <2>1 DEF TaskInv
  <2> QED BY <2>1, <2>2, <2>3, WorkerMoves
<1>11. CASE TimeOut(t)
  <2>1. /\ worker[t].at \in {"wait", "attempt"}
        /\ worker' = [worker EXCEPT ![t].at = "fail", ![t].err = "timeout"]
        /\ UNCHANGED butWorker
    BY <1>11 DEF TimeOut
  <2>2. ~Sweeping(t) BY <1>0, <2>1 DEF TaskInv
  <2> QED BY <1>0, <2>1, <2>2, FailFacts, WorkerMoves
<1>12. CASE StoreAsset(t)
  <2>1. worker[t].at = "asset" /\ GoTo(t, "debit") /\ UNCHANGED butWorker
    BY <1>12 DEF StoreAsset
  <2>2. ~Sweeping(t) /\ HasImage(t) BY <1>0, <2>1 DEF TaskInv
  <2> QED BY <1>0, <2>1, <2>2, GoToFacts, WorkerMoves
<1>13. CASE AssetFails(t)
  <2>1. worker[t].at = "asset" /\ UNCHANGED butWorker BY <1>13 DEF AssetFails
  <2>2. /\ worker' \in [Tasks -> Workers]
        /\ worker'[t].at \in {"attempt", "fail"}
        /\ worker'[t].job \in {0, worker[t].job}
        /\ \A u \in Tasks \ {t} : worker'[u] = worker[u]
    <3>1. CASE NextCandidate(t, "error") BY <1>0, <3>1, NextCandidateFacts
    <3>2. CASE worker' = [worker EXCEPT ![t].at = "fail", ![t].err = "error"]
      BY <1>0, <3>2, FailFacts
    <3> QED BY <1>13, <3>1, <3>2 DEF AssetFails
  <2>3. ~Sweeping(t) BY <1>0, <2>1 DEF TaskInv
  <2> QED BY <2>1, <2>2, <2>3, WorkerMoves
<1>14. CASE Debit(t)
  <2>1. CASE CanDebit
    <3>1. /\ worker[t].at = "debit"
          /\ debit_credits(t)
          /\ GoTo(t, "log")
          /\ UNCHANGED <<row, jobs, aged, log, sweep, faults, retries>>
      BY <1>14, <2>1 DEF Debit
    <3>2. balance' \in Nat /\ debited' = debited \cup {t}
      BY <1>0, <2>1, <3>1, DebitFacts
    <3>3. /\ worker' \in [Tasks -> Workers]
          /\ worker'[t].at = "log"
          /\ worker'[t].job = worker[t].job
          /\ \A u \in Tasks \ {t} : worker'[u] = worker[u]
      BY <1>0, <3>1, GoToFacts
    <3>4. TypeOK' BY <1>0, <3>1, <3>2, <3>3 DEF TypeOK
    <3>5. ~Sweeping(t) BY <1>0, <3>1 DEF TaskInv
    <3>6. ~Sweeping(t)' BY <3>1, <3>5 DEF Sweeping
    <3>7. HasImage(t)' BY <1>0, <3>1 DEF TaskInv, HasImage
    <3>8. TaskInv(t)'
      BY <1>0, <3>1, <3>2, <3>3, <3>5, <3>6, <3>7 DEF TaskInv
    <3> QED BY <3>1, <3>2, <3>3, <3>4, <3>8, WorkerStep
  <2>2. CASE ~CanDebit
    <3>1. /\ worker[t].at = "debit"
          /\ worker' = [worker EXCEPT ![t].at = "fail", ![t].err = "error"]
          /\ UNCHANGED butWorker
      BY <1>14, <2>2 DEF Debit, butWorker
    <3>2. ~Sweeping(t) BY <1>0, <3>1 DEF TaskInv
    <3> QED BY <1>0, <3>1, <3>2, FailFacts, WorkerMoves
  <2> QED BY <2>1, <2>2
<1>15. CASE LogSuccess(t)
  <2>1. /\ worker[t].at = "log"
        /\ InsertUsageLog(t, "succeeded")
        /\ GoTo(t, "finish")
        /\ UNCHANGED <<row, jobs, aged, account, sweep, faults, retries>>
    BY <1>15 DEF LogSuccess
  <2>2. /\ worker' \in [Tasks -> Workers]
        /\ worker'[t].at = "finish"
        /\ worker'[t].job = worker[t].job
        /\ \A u \in Tasks \ {t} : worker'[u] = worker[u]
    BY <1>0, <2>1, GoToFacts
  <2>3. TypeOK' BY <1>0, <2>1, <2>2, LogFacts DEF TypeOK, account
  <2>4. HasImage(t)' <=> HasImage(t) BY <2>1 DEF HasImage
  <2>5. ~Sweeping(t) BY <1>0, <2>1 DEF TaskInv
  <2>6. ~Sweeping(t)' BY <2>1, <2>5 DEF Sweeping
  <2>7. TaskInv(t)'
    BY <1>0, <2>1, <2>2, <2>4, <2>5, <2>6 DEF TaskInv, account
  <2> QED BY <2>1, <2>2, <2>3, <2>7, WorkerStep DEF account
<1>16. CASE Finish(t)
  <2>1. /\ worker[t].at = "finish"
        /\ finalizeImageTaskSuccess(t, worker[t].job)
        /\ Leave(t)
        /\ UNCHANGED <<jobs, aged, account, log, sweep, faults, retries>>
    BY <1>16 DEF Finish
  <2>2. /\ row' \in [Tasks -> Rows]
        /\ row'[t].status = "completed"
        /\ row'[t].job = worker[t].job
        /\ row'[t].url /\ row'[t].charged
        /\ \A u \in Tasks \ {t} : row'[u] = row[u]
    BY <1>0, <2>1, SuccessFacts
  <2>3. /\ worker' \in [Tasks -> Workers]
        /\ worker'[t].at = "none"
        /\ worker'[t].job = 0
        /\ \A u \in Tasks \ {t} : worker'[u] = worker[u]
    BY <1>0, <2>1, LeaveFacts
  <2>4. TypeOK' BY <1>0, <2>1, <2>2, <2>3 DEF TypeOK, account
  <2>5. HasImage(t)' <=> HasImage(t) BY <2>1 DEF HasImage
  <2>6. ~Sweeping(t) BY <1>0, <2>1 DEF TaskInv
  <2>7. ~Sweeping(t)' BY <2>1, <2>6 DEF Sweeping
  <2>8. TaskInv(t)'
    BY <1>0, <2>1, <2>2, <2>3, <2>5, <2>6, <2>7 DEF TaskInv, account
  <2> QED BY <2>1, <2>2, <2>3, <2>4, <2>8, WorkerStep DEF account
<1>17. CASE FailTask(t)
  <2>1. PICK s \in {"failed", "retryable_timeout"}, r \in {"pending", "reconciled"} :
            finalizeImageTaskFailure(t, s, r)
    BY <1>17, Zenon DEF FailTask
  <2>2. /\ worker[t].at = "fail"
        /\ GoTo(t, "faillog")
        /\ UNCHANGED <<jobs, aged, account, log, sweep, faults, retries>>
    BY <1>17 DEF FailTask
  <2>3. /\ row' \in [Tasks -> Rows]
        /\ row'[t].job = row[t].job
        /\ row'[t].status \in {s, row[t].status}
        /\ row[t].status = "completed" => row'[t] = row[t]
        /\ \A u \in Tasks \ {t} : row'[u] = row[u]
    BY <1>0, <2>1, FailureFacts
  <2>4. /\ worker' \in [Tasks -> Workers]
        /\ worker'[t].at = "faillog"
        /\ worker'[t].job = worker[t].job
        /\ \A u \in Tasks \ {t} : worker'[u] = worker[u]
    BY <1>0, <2>2, GoToFacts
  <2>5. TypeOK' BY <1>0, <2>2, <2>3, <2>4 DEF TypeOK, account
  <2>6. HasImage(t)' <=> HasImage(t) BY <2>2 DEF HasImage
  <2>7. ~Sweeping(t) BY <1>0, <2>2 DEF TaskInv
  <2>8. ~Sweeping(t)' BY <2>2, <2>7 DEF Sweeping
  <2>9. row[t].status = "processing" BY <1>0, <2>2 DEF TaskInv
  <2>10. TaskInv(t)'
    BY <1>0, <2>1, <2>2, <2>3, <2>4, <2>6, <2>7, <2>8, <2>9 DEF TaskInv, account
  <2> QED BY <2>2, <2>3, <2>4, <2>5, <2>10, WorkerStep DEF account
<1>18. CASE LogFailure(t)
  <2>1. /\ worker[t].at = "faillog"
        /\ InsertUsageLog(t, "failed")
        /\ Leave(t)
        /\ UNCHANGED <<row, jobs, aged, account, sweep, faults, retries>>
    BY <1>18 DEF LogFailure
  <2>2. /\ worker' \in [Tasks -> Workers]
        /\ worker'[t].at = "none"
        /\ worker'[t].job = 0
        /\ \A u \in Tasks \ {t} : worker'[u] = worker[u]
    BY <1>0, <2>1, LeaveFacts
  <2>3. TypeOK' BY <1>0, <2>1, <2>2, LogFacts DEF TypeOK, account
  <2>4. HasImage(t)' <=> HasImage(t) BY <2>1 DEF HasImage
  <2>5. Sweeping(t)' <=> Sweeping(t) BY <2>1 DEF Sweeping
  <2>6. TaskInv(t)'
    BY <1>0, <2>1, <2>2, <2>4, <2>5 DEF TaskInv, account
  <2> QED BY <2>1, <2>2, <2>3, <2>6, WorkerStep DEF account
<1>19. CASE PaymentGoesAstray(t)
  <2>1. /\ faults < MaxFaults
        /\ faults' = faults + 1
        /\ worker[t].at \in {"debit", "finish"}
        /\ worker' = [worker EXCEPT ![t].at = "fail", ![t].err = "error"]
        /\ UNCHANGED <<row, jobs, aged, log, sweep, retries>>
    BY <1>19 DEF PaymentGoesAstray
  <2>2. /\ balance' \in Nat
        /\ debited' \in {debited, debited \cup {t}}
    <3>1. CASE CanDebit /\ debit_credits(t) BY <1>0, <3>1, DebitFacts
    <3>2. CASE UNCHANGED account BY <1>0, <3>2 DEF account, TypeOK
    <3> QED BY <1>19, <3>1, <3>2 DEF PaymentGoesAstray
  <2>3. /\ worker' \in [Tasks -> Workers]
        /\ worker'[t].at = "fail"
        /\ worker'[t].job = worker[t].job
        /\ \A u \in Tasks \ {t} : worker'[u] = worker[u]
    BY <1>0, <2>1, FailFacts
  <2>4. faults' \in 0..MaxFaults /\ faults' > 0
    BY <1>0, <2>1, ImageAssumption DEF TypeOK
  <2>5. TypeOK' BY <1>0, <2>1, <2>2, <2>3, <2>4 DEF TypeOK
  <2>6. HasImage(t)' /\ row[t].status = "processing"
    BY <1>0, <2>1 DEF HasImage, TaskInv
  <2>7. ~Sweeping(t) BY <1>0, <2>1 DEF TaskInv
  <2>8. ~Sweeping(t)' BY <2>1, <2>7 DEF Sweeping
  <2>9. TaskInv(t)'
    BY <1>0, <2>1, <2>2, <2>3, <2>4, <2>6, <2>7, <2>8 DEF TaskInv
  <2> QED BY <2>1, <2>2, <2>3, <2>4, <2>5, <2>9, WorkerStep
<1> QED
  BY <1>1, <1>2, <1>3, <1>4, <1>5, <1>6, <1>7, <1>8, <1>9, <1>10, <1>11, <1>12,
     <1>13, <1>14, <1>15, <1>16, <1>17, <1>18, <1>19, Zenon DEF Work

-----------------------------------------------------------------------------
(* The steps of the sweep.                                                 *)

(* A step of the sweep on one task, which leaves the workers alone; with   *)
(* sweep.at = "next", a step that takes a task off the list.               *)
LEMMA SweepStepOn ==
    ASSUME ImageInv, NEW t \in Tasks, TypeOK', TaskInv(t)',
           sweep.at = "next" \/ sweep.task = t,
           sweep'.at = "next" \/ sweep'.task = t,
           sweep'.at = "fail" => sweep'.fail # "none",
           sweep'.at = "meta" => sweep'.meta # "none",
           UNCHANGED <<jobs, worker>>,
           \A u \in Tasks \ {t} :
               /\ row'[u] = row[u] /\ sweep'.list[u] = sweep.list[u]
               /\ u \in debited' <=> u \in debited,
           faults > 0 => faults' > 0
    PROVE  ImageInv'
<1>1. ASSUME NEW u \in Tasks \ {t} PROVE TaskInv(u)'
  <2>1. ~Sweeping(u) /\ ~Sweeping(u)' BY DEF Sweeping
  <2>2. Same(u) BY <2>1 DEF Same
  <2>3. TaskInv(u) BY DEF ImageInv
  <2> QED BY <2>2, <2>3, Others
<1>2. \A u \in Tasks : TaskInv(u)' BY <1>1
<1>3. sweep'.at \notin {"idle", "next"} => sweep'.task \in Tasks OBVIOUS
<1> QED BY <1>2, <1>3 DEF ImageInv

(* How the sweep goes from a task to the next one. *)
LEMMA UnlistFacts ==
    ASSUME TypeOK, NEW t \in Tasks,
           \/ sweep' = [sweep EXCEPT !.list = Unlist(t)] /\ sweep.at = "next"
           \/ sweep' = [NextTask EXCEPT !.list = Unlist(t)]
    PROVE  /\ sweep' \in Sweeps
           /\ sweep'.at = "next"
           /\ sweep'.list[t] = NoRow
           /\ \A u \in Tasks \ {t} : sweep'.list[u] = sweep.list[u]
<1>1. /\ sweep \in Sweeps
      /\ sweep.list \in [Tasks -> Rows]
  BY DEF TypeOK, Sweeps
<1>2. NoRow \in Rows BY DEF NoRow, Rows
<1>3. /\ Unlist(t) \in [Tasks -> Rows]
      /\ Unlist(t)[t] = NoRow
      /\ \A u \in Tasks \ {t} : Unlist(t)[u] = sweep.list[u]
  BY <1>1, <1>2 DEF Unlist
<1>4. CASE sweep' = [sweep EXCEPT !.list = Unlist(t)] /\ sweep.at = "next"
  BY <1>1, <1>3, <1>4 DEF Sweeps
<1>5. CASE sweep' = [NextTask EXCEPT !.list = Unlist(t)]
  <2>1. NextTask \in Sweeps /\ NextTask.at = "next" BY <1>1 DEF NextTask, Sweeps
  <2> QED BY <1>3, <1>5, <2>1 DEF Sweeps
<1> QED BY <1>4, <1>5

(* What holds while the sweep works on a task. *)
LEMMA AtTask ==
    ASSUME ImageInv, NEW t \in Tasks, t = sweep.task, sweep.at \notin {"idle", "next"}
    PROVE  /\ Sweeping(t)
           /\ TaskInv(t)
           /\ worker[t].at \in {"none", "start"}
           /\ sweep.list[t] # NoRow
           /\ row[t].status \notin {"none", "queued"}
BY DEF ImageInv, Sweeping, TaskInv

(* The sweep goes on with its task and writes nothing. *)
LEMMA SweepMoves ==
    ASSUME ImageInv, sweep.at \notin {"idle", "next"}, UNCHANGED butSweep,
           sweep' \in Sweeps, sweep'.task = sweep.task, sweep'.list = sweep.list,
           sweep'.at \in {"asset", "debit", "fail", "meta"},
           sweep.at \notin {"log", "finish"},
           sweep'.at \in {"asset", "debit"} => HasImage(sweep.task),
           sweep'.at = "fail" => sweep'.fail # "none",
           sweep'.at = "meta" => sweep'.meta # "none"
    PROVE  ImageInv'
<1>t. PICK t \in Tasks : t = sweep.task BY DEF ImageInv
<1> USE <1>t
<1>0. TypeOK /\ t \in Tasks /\ TaskInv(t) /\ Sweeping(t)
  BY AtTask DEF ImageInv
<1>1. TypeOK' BY <1>0 DEF TypeOK, butSweep, account
<1>2. HasImage(t)' <=> HasImage(t) BY DEF HasImage, butSweep
<1>3. Sweeping(t)' BY DEF Sweeping
<1>4. \A u \in Tasks : TaskInv(u)'
  <2> SUFFICES ASSUME NEW u \in Tasks PROVE TaskInv(u)' OBVIOUS
  <2>1. TaskInv(u) BY DEF ImageInv
  <2>2. HasImage(u)' <=> HasImage(u) BY DEF HasImage, butSweep
  <2>3. Sweeping(u)' <=> Sweeping(u) BY DEF Sweeping
  <2>4. Sweeping(u) => u = t BY DEF Sweeping
  <2> QED BY <1>0, <2>1, <2>2, <2>3, <2>4 DEF TaskInv, butSweep, account
<1> QED BY <1>0, <1>1, <1>4 DEF ImageInv

LEMMA ListPreserves == ImageInv /\ List => ImageInv'
<1> SUFFICES ASSUME ImageInv, List PROVE ImageInv' OBVIOUS
<1> DEFINE l == [t \in Tasks |-> IF row[t].reconcile = "pending" /\ row[t].job # 0
                                 THEN row[t] ELSE NoRow]
<1>0. TypeOK /\ NoRow \in Rows BY DEF ImageInv, NoRow, Rows
<1>1. /\ sweep.at = "idle"
      /\ sweep' = [NoSweep EXCEPT !.at = "next", !.list = l]
      /\ UNCHANGED butSweep
  BY DEF List, SweepAt
<1>2. l \in [Tasks -> Rows] BY <1>0 DEF TypeOK
<1>3. ASSUME NEW t \in Tasks PROVE l[t] = NoRow \/ (l[t] = row[t] /\ row[t].job # 0)
  <2>1. CASE row[t].reconcile = "pending" /\ row[t].job # 0 BY <2>1
  <2>2. CASE ~(row[t].reconcile = "pending" /\ row[t].job # 0) BY <2>2
  <2> QED BY <2>1, <2>2
<1> HIDE DEF l
<1>4. /\ sweep' \in Sweeps
      /\ sweep'.at = "next"
      /\ sweep'.list = l
  <2>1. NoSweep \in Sweeps BY <1>0 DEF NoSweep, Sweeps
  <2>2. NoSweep \in [at : {"idle"}, task : {"none"}, list : [Tasks -> Rows],
                     fail : {"none"}, meta : {"none"}]
    BY <1>0 DEF NoSweep
  <2> QED BY <1>1, <1>2, <2>2 DEF Sweeps
<1>5. TypeOK' BY <1>0, <1>1, <1>4 DEF TypeOK, butSweep, account
<1>6. ASSUME NEW t \in Tasks PROVE TaskInv(t)'
  <2>1. TaskInv(t) BY DEF ImageInv
  <2>2. ~Sweeping(t) /\ ~Sweeping(t)' BY <1>1, <1>4 DEF Sweeping
  <2>3. HasImage(t)' <=> HasImage(t) BY <1>1 DEF HasImage, butSweep
  <2> QED BY <1>1, <1>3, <1>4, <2>1, <2>2, <2>3 DEF TaskInv, butSweep, account
<1> QED BY <1>4, <1>5, <1>6 DEF ImageInv

LEMMA SweepEndsPreserves == ImageInv /\ SweepEnds => ImageInv'
<1> SUFFICES ASSUME ImageInv, SweepEnds PROVE ImageInv' OBVIOUS
<1>0. TypeOK /\ NoRow \in Rows BY DEF ImageInv, NoRow, Rows
<1>1. sweep.at = "next" /\ sweep' = NoSweep /\ UNCHANGED butSweep
  BY DEF SweepEnds, SweepAt
<1>2. /\ sweep' \in Sweeps
      /\ sweep'.at = "idle"
      /\ \A t \in Tasks : sweep'.list[t] = NoRow
  BY <1>0, <1>1 DEF NoSweep, Sweeps
<1>3. TypeOK' BY <1>0, <1>1, <1>2 DEF TypeOK, butSweep, account
<1>4. ASSUME NEW t \in Tasks PROVE TaskInv(t)'
  <2>1. TaskInv(t) BY DEF ImageInv
  <2>2. ~Sweeping(t) /\ ~Sweeping(t)' BY <1>1, <1>2 DEF Sweeping
  <2>3. HasImage(t)' <=> HasImage(t) BY <1>1 DEF HasImage, butSweep
  <2> QED BY <1>1, <1>2, <2>1, <2>2, <2>3 DEF TaskInv, butSweep, account
<1> QED BY <1>2, <1>3, <1>4 DEF ImageInv

(* The only step at which the sweep meets a worker: it takes a task that   *)
(* has none.                                                               *)
LEMMA TakePreserves ==
    ASSUME ImageInv, NEW t \in Tasks, Skip(t) \/ Take(t) PROVE ImageInv'
<1>0. TypeOK /\ TaskInv(t) BY DEF ImageInv
<1>1. sweep.at = "next" /\ sweep.list[t] # NoRow
  BY DEF Skip, Take, SweepAt, Listed
<1>2. HasImage(t)' <=> HasImage(t) BY DEF Skip, Take, HasImage, butSweep
<1>3. ~Sweeping(t) BY <1>1 DEF Sweeping
<1>4. CASE Skip(t)
  <2>1. sweep' = [sweep EXCEPT !.list = Unlist(t)] /\ UNCHANGED butSweep
    BY <1>4 DEF Skip
  <2>2. /\ sweep' \in Sweeps
        /\ sweep'.at = "next"
        /\ sweep'.list[t] = NoRow
        /\ \A u \in Tasks \ {t} : sweep'.list[u] = sweep.list[u]
    BY <1>0, <1>1, <2>1, UnlistFacts
  <2>3. TypeOK' BY <1>0, <2>1, <2>2 DEF TypeOK, butSweep, account
  <2>4. ~Sweeping(t)' BY <2>2 DEF Sweeping
  <2>5. TaskInv(t)'
    BY <1>0, <1>2, <1>3, <2>1, <2>2, <2>4 DEF TaskInv, butSweep, account
  <2> QED BY <1>1, <2>1, <2>2, <2>3, <2>5, SweepStepOn DEF butSweep, account
<1>5. CASE Take(t)
  <2>0. /\ worker[t].at = "none"
        /\ UNCHANGED <<jobs, aged, account, log, worker, faults, retries>>
    BY <1>5 DEF Take, isImageGenerationActive
  <2>1. CASE Paid(sweep.list[t])
    <3>1. /\ updateImageTaskReconcileMeta(t, "reconciled")
          /\ sweep' = [sweep EXCEPT !.list = Unlist(t)]
      BY <1>5, <2>1 DEF Take
    <3>2. /\ sweep' \in Sweeps
          /\ sweep'.at = "next"
          /\ sweep'.list[t] = NoRow
          /\ \A u \in Tasks \ {t} : sweep'.list[u] = sweep.list[u]
      BY <1>0, <1>1, <3>1, UnlistFacts
    <3>3. /\ row' \in [Tasks -> Rows]
          /\ row'[t].status = row[t].status
          /\ row'[t].job = row[t].job
          /\ row'[t].url = row[t].url
          /\ row'[t].charged = row[t].charged
          /\ \A u \in Tasks \ {t} : row'[u] = row[u]
      BY <1>0, <3>1, MetaFacts
    <3>4. TypeOK' BY <1>0, <2>0, <3>2, <3>3 DEF TypeOK, account
    <3>5. ~Sweeping(t)' BY <3>2 DEF Sweeping
    <3>6. TaskInv(t)'
      BY <1>0, <1>2, <1>3, <2>0, <3>2, <3>3, <3>5 DEF TaskInv, account
    <3> QED BY <1>1, <2>0, <3>2, <3>3, <3>4, <3>6, SweepStepOn DEF account
  <2>2. CASE ~Paid(sweep.list[t])
    <3>1. /\ updateImageTaskReconcileMeta(t, "in_progress")
          /\ sweep' = [sweep EXCEPT !.at = "poll", !.task = t]
      BY <1>5, <2>2 DEF Take
    <3>2. /\ sweep' \in Sweeps
          /\ sweep'.at = "poll"
          /\ sweep'.task = t
          /\ sweep'.list = sweep.list
      BY <1>0, <3>1 DEF TypeOK, Sweeps
    <3>3. /\ row' \in [Tasks -> Rows]
          /\ row'[t].status = row[t].status
          /\ row'[t].job = row[t].job
          /\ row'[t].url = row[t].url
          /\ row'[t].charged = row[t].charged
          /\ \A u \in Tasks \ {t} : row'[u] = row[u]
      BY <1>0, <3>1, MetaFacts
    <3>4. TypeOK' BY <1>0, <2>0, <3>2, <3>3 DEF TypeOK, account
    <3>5. TaskInv(t)'
      BY <1>0, <1>1, <1>2, <1>3, <2>0, <3>2, <3>3 DEF TaskInv, account
    <3> QED BY <1>1, <2>0, <3>2, <3>3, <3>4, <3>5, SweepStepOn DEF account
  <2> QED BY <2>1, <2>2
<1> QED BY <1>4, <1>5

(* A done job is the only answer that leads to an image. *)
LEMMA PollPreserves == ImageInv /\ Poll => ImageInv'
<1> SUFFICES ASSUME ImageInv, Poll PROVE ImageInv' OBVIOUS
<1>t. PICK t \in Tasks : t = sweep.task BY DEF ImageInv, Poll, SweepAt
<1> USE <1>t
<1>0. sweep.at = "poll" /\ UNCHANGED butSweep BY DEF Poll, SweepAt
<1>1. sweep \in Sweeps /\ t \in Tasks /\ TaskInv(t) /\ Sweeping(t)
  BY <1>0, AtTask DEF ImageInv, TypeOK
<1>2. PICK answer \in Answers(t, Snapshot.job) : sweep' = Decide(answer)
  BY DEF Poll
<1>3. \/ answer = "done" /\ sweep' = [sweep EXCEPT !.at = "asset"]
      \/ sweep' = [sweep EXCEPT !.at = "fail", !.fail = "failed",
                                !.meta = "orphan_alarm"]
      \/ sweep' = [sweep EXCEPT !.at = "meta", !.meta = "reconciled"]
      \/ sweep' = [sweep EXCEPT !.at = "fail", !.fail = "failed"]
      \/ sweep' = [sweep EXCEPT !.at = "fail", !.fail = "retryable_timeout"]
      \/ sweep' = [sweep EXCEPT !.at = "meta", !.meta = "pending"]
  BY <1>2 DEF Decide
<1>4. answer = "done" => HasImage(t)
  BY <1>1, <1>2 DEF Answers, Snapshot, HasImage, TaskInv
<1>5. /\ sweep' \in Sweeps
      /\ sweep'.task = t
      /\ sweep'.list = sweep.list
      /\ sweep'.at \in {"asset", "fail", "meta"}
      /\ sweep'.at = "asset" => answer = "done"
      /\ sweep'.at = "fail" => sweep'.fail # "none"
      /\ sweep'.at = "meta" => sweep'.meta # "none"
  <2>1. CASE answer = "done" /\ sweep' = [sweep EXCEPT !.at = "asset"]
    BY <1>1, <2>1 DEF Sweeps
  <2>2. CASE sweep' = [sweep EXCEPT !.at = "fail", !.fail = "failed",
                                    !.meta = "orphan_alarm"]
    BY <1>1, <2>2 DEF Sweeps
  <2>3. CASE sweep' = [sweep EXCEPT !.at = "meta", !.meta = "reconciled"]
    BY <1>1, <2>3 DEF Sweeps
  <2>4. CASE sweep' = [sweep EXCEPT !.at = "fail", !.fail = "failed"]
    BY <1>1, <2>4 DEF Sweeps
  <2>5. CASE sweep' = [sweep EXCEPT !.at = "fail", !.fail = "retryable_timeout"]
    BY <1>1, <2>5 DEF Sweeps
  <2>6. CASE sweep' = [sweep EXCEPT !.at = "meta", !.meta = "pending"]
    BY <1>1, <2>6 DEF Sweeps
  <2> QED BY <1>3, <2>1, <2>2, <2>3, <2>4, <2>5, <2>6
<1> QED BY <1>0, <1>4, <1>5, SweepMoves

LEMMA SweepAssetPreserves == ImageInv /\ SweepAsset => ImageInv'
<1> SUFFICES ASSUME ImageInv, SweepAsset PROVE ImageInv' OBVIOUS
<1>0. sweep.at = "asset" /\ UNCHANGED butSweep BY DEF SweepAsset, SweepAt
<1>1. sweep \in Sweeps /\ HasImage(sweep.task)
  <2>1. sweep \in Sweeps /\ sweep.task \in Tasks BY <1>0 DEF ImageInv, TypeOK
  <2> QED BY <1>0, <2>1, AtTask DEF TaskInv
<1>2. /\ sweep' \in Sweeps
      /\ sweep'.task = sweep.task
      /\ sweep'.list = sweep.list
      /\ sweep'.at \in {"debit", "fail"}
      /\ sweep'.at = "fail" => sweep'.fail # "none"
  <2>1. CASE sweep' = [sweep EXCEPT !.at = "debit"] BY <1>1, <2>1 DEF Sweeps
  <2>2. CASE sweep' = [sweep EXCEPT !.at = "fail", !.fail = "failed",
                                    !.meta = "reconciled"]
    BY <1>1, <2>2 DEF Sweeps
  <2> QED BY <2>1, <2>2 DEF SweepAsset
<1> QED BY <1>0, <1>1, <1>2, SweepMoves

LEMMA SweepFailsPreserves == ImageInv /\ SweepFails => ImageInv'
<1> SUFFICES ASSUME ImageInv, SweepFails PROVE ImageInv' OBVIOUS
<1>t. PICK t \in Tasks : t = sweep.task BY DEF ImageInv, SweepFails, SweepAt
<1> USE <1>t
<1>0. /\ sweep.at = "fail"
      /\ finalizeImageTaskFailure(t, sweep.fail, "reconciled")
      /\ UNCHANGED <<jobs, aged, account, log, worker, faults, retries>>
  BY DEF SweepFails, SweepAt
<1>1. /\ TypeOK /\ t \in Tasks /\ TaskInv(t) /\ Sweeping(t)
      /\ worker[t].at \in {"none", "start"}
      /\ sweep.list[t] # NoRow
      /\ row[t].status \notin {"none", "queued"}
  BY <1>0, AtTask DEF ImageInv
<1>2. sweep.fail \in {"failed", "retryable_timeout"}
  BY <1>0, <1>1 DEF ImageInv, TypeOK, Sweeps
<1>3. /\ row' \in [Tasks -> Rows]
      /\ row'[t].job = row[t].job
      /\ row'[t].status \in {sweep.fail, row[t].status}
      /\ row'[t].status \notin {"none", "queued"}
      /\ row[t].status = "completed" => row'[t] = row[t]
      /\ \A u \in Tasks \ {t} : row'[u] = row[u]
  BY <1>0, <1>1, <1>2, FailureFacts
<1>4. HasImage(t)' <=> HasImage(t) BY <1>0 DEF HasImage
<1>7. /\ row'[t].status = "completed" =>
            row'[t].url /\ row'[t].charged /\ t \in debited
      /\ t \in debited => row'[t].status = "completed" \/ faults > 0
  <2>1. CASE row[t].status = "completed" BY <1>1, <1>3, <2>1 DEF TaskInv
  <2>2. CASE row[t].status # "completed" BY <1>0, <1>1, <1>2, <1>3, <2>2 DEF TaskInv
  <2> QED BY <2>1, <2>2
<1>8. /\ worker'[t].at \in {"none", "start"}
      /\ worker'[t].job # 0 => worker'[t].job \in DOMAIN jobs'[t]
      /\ row'[t].job # 0 => row'[t].job \in DOMAIN jobs'[t]
      /\ sweep.list[t].job \in DOMAIN jobs'[t]
      /\ t \in debited' => HasImage(t)'
      /\ t \in debited' <=> t \in debited
      /\ faults' = faults
  BY <1>0, <1>1, <1>3, <1>4 DEF TaskInv, account
<1>5. CASE sweep.meta = "none"
  <2>1. sweep' = [NextTask EXCEPT !.list = Unlist(t)] BY <1>5 DEF SweepFails
  <2>2. /\ sweep' \in Sweeps
        /\ sweep'.at = "next"
        /\ sweep'.list[t] = NoRow
        /\ \A u \in Tasks \ {t} : sweep'.list[u] = sweep.list[u]
    BY <1>1, <2>1, UnlistFacts
  <2>3. TypeOK' BY <1>0, <1>1, <1>3, <2>2 DEF TypeOK, account
  <2>4. ~Sweeping(t)' BY <2>2 DEF Sweeping
  <2>5. TaskInv(t)'
    BY <1>3, <1>7, <1>8, <2>2, <2>4 DEF TaskInv, Busy
  <2> QED BY <1>0, <1>1, <1>3, <2>2, <2>3, <2>5, SweepStepOn DEF account
<1>6. CASE sweep.meta # "none"
  <2>1. sweep' = [sweep EXCEPT !.at = "meta"] BY <1>6 DEF SweepFails
  <2>2. /\ sweep' \in Sweeps
        /\ sweep'.at = "meta"
        /\ sweep'.task = t
        /\ sweep'.meta # "none"
        /\ sweep'.list = sweep.list
    BY <1>1, <1>6, <2>1 DEF TypeOK, Sweeps
  <2>3. TypeOK' BY <1>0, <1>1, <1>3, <2>2 DEF TypeOK, account
  <2>4. Sweeping(t)' BY <2>2 DEF Sweeping
  <2>5. TaskInv(t)'
    BY <1>1, <1>3, <1>7, <1>8, <2>2, <2>4 DEF TaskInv, Busy
  <2> QED BY <1>0, <1>1, <1>3, <2>2, <2>3, <2>5, SweepStepOn DEF account
<1> QED BY <1>5, <1>6

LEMMA SweepMetaPreserves == ImageInv /\ SweepMeta => ImageInv'
<1> SUFFICES ASSUME ImageInv, SweepMeta PROVE ImageInv' OBVIOUS
<1>t. PICK t \in Tasks : t = sweep.task BY DEF ImageInv, SweepMeta, SweepAt
<1> USE <1>t
<1>0. /\ sweep.at = "meta"
      /\ updateImageTaskReconcileMeta(t, sweep.meta)
      /\ sweep' = [NextTask EXCEPT !.list = Unlist(t)]
      /\ UNCHANGED <<jobs, aged, account, log, worker, faults, retries>>
  BY DEF SweepMeta, SweepAt
<1>1. /\ TypeOK /\ t \in Tasks /\ TaskInv(t) /\ Sweeping(t)
      /\ row[t].status \notin {"none", "queued"}
  BY <1>0, AtTask DEF ImageInv
<1>2. sweep.meta \in {"pending", "reconciled", "orphan_alarm"}
  BY <1>0, <1>1 DEF ImageInv, TypeOK, Sweeps
<1>3. /\ row' \in [Tasks -> Rows]
      /\ row'[t].status = row[t].status
      /\ row'[t].job = row[t].job
      /\ row'[t].url = row[t].url
      /\ row'[t].charged = row[t].charged
      /\ \A u \in Tasks \ {t} : row'[u] = row[u]
  BY <1>0, <1>1, <1>2, MetaFacts
<1>4. HasImage(t)' <=> HasImage(t) BY <1>0 DEF HasImage
<1>5. /\ sweep' \in Sweeps
      /\ sweep'.at = "next"
      /\ sweep'.list[t] = NoRow
      /\ \A u \in Tasks \ {t} : sweep'.list[u] = sweep.list[u]
  BY <1>0, <1>1, UnlistFacts
<1>6. TypeOK' BY <1>0, <1>1, <1>3, <1>5 DEF TypeOK, account
<1>7. ~Sweeping(t)' BY <1>5 DEF Sweeping
<1>8. TaskInv(t)'
  BY <1>0, <1>1, <1>3, <1>4, <1>5, <1>7 DEF TaskInv, account
<1> QED BY <1>0, <1>1, <1>3, <1>5, <1>6, <1>8, SweepStepOn DEF account

LEMMA SweepDebitPreserves == ImageInv /\ SweepDebit => ImageInv'
<1> SUFFICES ASSUME ImageInv, SweepDebit PROVE ImageInv' OBVIOUS
<1>t. PICK t \in Tasks : t = sweep.task BY DEF ImageInv, SweepDebit, SweepAt
<1> USE <1>t
<1>0. /\ sweep.at = "debit"
      /\ UNCHANGED <<row, jobs, aged, log, worker, faults, retries>>
  BY DEF SweepDebit, SweepAt
<1>1. TypeOK /\ t \in Tasks /\ TaskInv(t) /\ Sweeping(t)
  BY <1>0, AtTask DEF ImageInv
<1>2. CASE CanDebit
  <2>1. debit_credits(t) /\ sweep' = [sweep EXCEPT !.at = "log"]
    BY <1>2 DEF SweepDebit
  <2>2. balance' \in Nat /\ debited' = debited \cup {t}
    BY <1>1, <1>2, <2>1, DebitFacts
  <2>3. /\ sweep' \in Sweeps
        /\ sweep'.at = "log"
        /\ sweep'.task = t
        /\ sweep'.list = sweep.list
    BY <1>1, <2>1 DEF TypeOK, Sweeps
  <2>4. TypeOK' BY <1>0, <1>1, <2>2, <2>3 DEF TypeOK
  <2>5. HasImage(t)' BY <1>0, <1>1 DEF HasImage, TaskInv
  <2>6. Sweeping(t)' BY <2>3 DEF Sweeping
  <2>7. TaskInv(t)' BY <1>0, <1>1, <2>2, <2>3, <2>5, <2>6 DEF TaskInv
  <2> QED BY <1>0, <1>1, <2>2, <2>3, <2>4, <2>7, SweepStepOn
<1>3. CASE ~CanDebit
  <2>1. /\ sweep' = [sweep EXCEPT !.at = "meta", !.meta = "orphan_alarm"]
        /\ UNCHANGED butSweep
    BY <1>0, <1>3 DEF SweepDebit, butSweep
  <2>2. /\ sweep' \in Sweeps
        /\ sweep'.at = "meta"
        /\ sweep'.task = t
        /\ sweep'.meta # "none"
        /\ sweep'.list = sweep.list
    BY <1>1, <2>1 DEF TypeOK, Sweeps
  <2> QED BY <1>0, <2>1, <2>2, SweepMoves
<1> QED BY <1>2, <1>3

LEMMA SweepLogPreserves == ImageInv /\ SweepLog => ImageInv'
<1> SUFFICES ASSUME ImageInv, SweepLog PROVE ImageInv' OBVIOUS
<1>t. PICK t \in Tasks : t = sweep.task BY DEF ImageInv, SweepLog, SweepAt
<1> USE <1>t
<1>0. /\ sweep.at = "log"
      /\ InsertUsageLog(t, "succeeded")
      /\ sweep' = [sweep EXCEPT !.at = "finish"]
      /\ UNCHANGED <<row, jobs, aged, account, worker, faults, retries>>
  BY DEF SweepLog, SweepAt
<1>1. TypeOK /\ t \in Tasks /\ TaskInv(t) /\ Sweeping(t)
  BY <1>0, AtTask DEF ImageInv
<1>2. /\ sweep' \in Sweeps
      /\ sweep'.at = "finish"
      /\ sweep'.task = t
      /\ sweep'.list = sweep.list
  BY <1>0, <1>1 DEF TypeOK, Sweeps
<1>3. TypeOK' BY <1>0, <1>1, <1>2, LogFacts DEF TypeOK, account
<1>4. HasImage(t)' <=> HasImage(t) BY <1>0 DEF HasImage
<1>5. Sweeping(t)' BY <1>2 DEF Sweeping
<1>6. TaskInv(t)'
  BY <1>0, <1>1, <1>2, <1>4, <1>5 DEF TaskInv, account
<1> QED BY <1>0, <1>1, <1>2, <1>3, <1>6, SweepStepOn DEF account

LEMMA SweepFinishPreserves == ImageInv /\ SweepFinish => ImageInv'
<1> SUFFICES ASSUME ImageInv, SweepFinish PROVE ImageInv' OBVIOUS
<1>t. PICK t \in Tasks : t = sweep.task BY DEF ImageInv, SweepFinish, SweepAt
<1> USE <1>t
<1>0. /\ sweep.at = "finish"
      /\ finalizeImageTaskSuccess(t, Snapshot.job)
      /\ sweep' = [NextTask EXCEPT !.list = Unlist(t)]
      /\ UNCHANGED <<jobs, aged, account, log, worker, faults, retries>>
  BY DEF SweepFinish, SweepAt
<1>1. /\ TypeOK /\ t \in Tasks /\ TaskInv(t) /\ Sweeping(t)
      /\ sweep.list[t] # NoRow
  BY <1>0, AtTask DEF ImageInv
<1>2. Snapshot.job \in Nat /\ Snapshot.job \in DOMAIN jobs[t]
  BY <1>1 DEF Snapshot, TypeOK, Sweeps, Rows, TaskInv
<1>3. /\ row' \in [Tasks -> Rows]
      /\ row'[t].status = "completed"
      /\ row'[t].job = Snapshot.job
      /\ row'[t].url /\ row'[t].charged
      /\ \A u \in Tasks \ {t} : row'[u] = row[u]
  BY <1>0, <1>1, <1>2, SuccessFacts
<1>4. HasImage(t)' <=> HasImage(t) BY <1>0 DEF HasImage
<1>5. /\ sweep' \in Sweeps
      /\ sweep'.at = "next"
      /\ sweep'.list[t] = NoRow
      /\ \A u \in Tasks \ {t} : sweep'.list[u] = sweep.list[u]
  BY <1>0, <1>1, UnlistFacts
<1>6. TypeOK' BY <1>0, <1>1, <1>3, <1>5 DEF TypeOK, account
<1>7. ~Sweeping(t)' BY <1>5 DEF Sweeping
<1>9. t \in debited' /\ HasImage(t)' /\ row'[t].job \in DOMAIN jobs'[t]
  BY <1>0, <1>1, <1>2, <1>3, <1>4 DEF TaskInv, account
<1>10. worker'[t].at \in {"none", "start"} /\ worker'[t].job = worker[t].job
  BY <1>0, <1>1, AtTask
<1>11. worker'[t].job # 0 => worker'[t].job \in DOMAIN jobs'[t]
  BY <1>0, <1>1, <1>10 DEF TaskInv
<1>8. TaskInv(t)'
  BY <1>3, <1>5, <1>7, <1>9, <1>10, <1>11 DEF TaskInv, Busy
<1> QED BY <1>0, <1>1, <1>3, <1>5, <1>6, <1>8, SweepStepOn DEF account

LEMMA SweepAstrayPreserves == ImageInv /\ SweepPaymentGoesAstray => ImageInv'
<1> SUFFICES ASSUME ImageInv, SweepPaymentGoesAstray PROVE ImageInv' OBVIOUS
<1>t. PICK t \in Tasks : t = sweep.task BY DEF ImageInv, SweepPaymentGoesAstray, SweepAt
<1> USE <1>t
<1>0. /\ sweep.at \in {"debit", "finish"}
      /\ faults < MaxFaults
      /\ faults' = faults + 1
      /\ sweep' = [sweep EXCEPT !.at = "meta", !.meta = "orphan_alarm"]
      /\ UNCHANGED <<row, jobs, aged, log, worker, retries>>
  BY DEF SweepPaymentGoesAstray, SweepAt
<1>1. TypeOK /\ t \in Tasks /\ TaskInv(t) /\ Sweeping(t)
  BY <1>0, AtTask DEF ImageInv
<1>2. balance' \in Nat /\ debited' \in {debited, debited \cup {t}}
  <2>1. CASE CanDebit /\ debit_credits(t) BY <1>1, <2>1, DebitFacts
  <2>2. CASE UNCHANGED account BY <1>1, <2>2 DEF account, TypeOK
  <2> QED BY <2>1, <2>2 DEF SweepPaymentGoesAstray
<1>3. /\ sweep' \in Sweeps
      /\ sweep'.at = "meta"
      /\ sweep'.task = t
      /\ sweep'.meta # "none"
      /\ sweep'.list = sweep.list
  BY <1>0, <1>1 DEF TypeOK, Sweeps
<1>4. faults' \in 0..MaxFaults /\ faults' > 0
  BY <1>0, <1>1, ImageAssumption DEF TypeOK
<1>5. TypeOK' BY <1>0, <1>1, <1>2, <1>3, <1>4 DEF TypeOK
<1>6. HasImage(t)' BY <1>0, <1>1 DEF HasImage, TaskInv
<1>7. Sweeping(t)' BY <1>3 DEF Sweeping
<1>8. TaskInv(t)'
  BY <1>0, <1>1, <1>2, <1>3, <1>4, <1>6, <1>7 DEF TaskInv
<1> QED BY <1>0, <1>1, <1>2, <1>3, <1>4, <1>5, <1>8, SweepStepOn

-----------------------------------------------------------------------------
(* The steps around them.                                                  *)

(* A step after which no task's part of the invariant has changed. *)
LEMMA NothingMoves ==
    ASSUME ImageInv, TypeOK', UNCHANGED <<row, jobs, debited, worker, sweep, faults>>
    PROVE  ImageInv'
<1>1. ASSUME NEW u \in Tasks PROVE TaskInv(u)'
  <2>1. Same(u) BY DEF Same, Sweeping
  <2>2. TaskInv(u) BY DEF ImageInv
  <2> QED BY <2>1, <2>2, Others
<1> QED BY <1>1 DEF ImageInv

LEMMA PostPreserves ==
    ASSUME ImageInv, NEW t \in Tasks, Post(t) PROVE ImageInv'
<1>0. TypeOK /\ TaskInv(t) BY DEF ImageInv
<1>1. /\ row[t].status = "none"
      /\ row' = [row EXCEPT ![t].status = "queued"]
      /\ Start(t)
      /\ UNCHANGED <<jobs, aged, account, log, sweep, faults, retries>>
  BY DEF Post
<1>2. /\ row' \in [Tasks -> Rows]
      /\ row'[t].status = "queued"
      /\ row'[t].job = row[t].job
      /\ \A u \in Tasks \ {t} : row'[u] = row[u]
  BY <1>0, <1>1 DEF TypeOK, Rows, InFlight
<1>3. /\ worker' \in [Tasks -> Workers]
      /\ worker'[t].at = "start"
      /\ worker'[t].job = 0
      /\ \A u \in Tasks \ {t} : worker'[u] = worker[u]
  BY <1>0, <1>1, StartFacts
<1>4. TypeOK' BY <1>0, <1>1, <1>2, <1>3 DEF TypeOK, account
<1>5. HasImage(t)' <=> HasImage(t) BY <1>1 DEF HasImage
<1>6. sweep.list[t] = NoRow BY <1>0, <1>1 DEF TaskInv
<1>7. ~Sweeping(t) BY <1>0, <1>6 DEF TaskInv
<1>8. ~Sweeping(t)' BY <1>1, <1>7 DEF Sweeping
<1>9. t \in debited => faults > 0
  BY <1>0, <1>1, <1>7 DEF TaskInv, Busy
<1>10. TaskInv(t)'
  BY <1>0, <1>1, <1>2, <1>3, <1>5, <1>6, <1>7, <1>8, <1>9 DEF TaskInv, Busy, account
<1> QED BY <1>1, <1>2, <1>3, <1>4, <1>10, WorkerStep DEF account

(* A repeated POST starts a worker that will not find the task queued if   *)
(* it has moved on meanwhile.                                              *)
LEMMA RetryPreserves ==
    ASSUME ImageInv, NEW t \in Tasks, RetryReads(t) \/ RetryEnqueues(t)
    PROVE  ImageInv'
<1>0. TypeOK /\ TaskInv(t) BY DEF ImageInv
<1>1. CASE RetryReads(t)
  <2>1. TypeOK' BY <1>0, <1>1 DEF RetryReads, TypeOK, account
  <2> QED BY <1>1, <2>1, NothingMoves DEF RetryReads, account
<1>2. CASE RetryEnqueues(t)
  <2>0. /\ retries' = retries \ {t}
        /\ UNCHANGED <<row, jobs, aged, account, log, sweep, faults>>
    BY <1>2 DEF RetryEnqueues
  <2>1. CASE isImageGenerationActive(t)
    <3>1. UNCHANGED worker BY <1>2, <2>1 DEF RetryEnqueues
    <3>2. TypeOK' BY <1>0, <2>0, <3>1 DEF TypeOK, account
    <3> QED BY <2>0, <3>1, <3>2, NothingMoves DEF account
  <2>2. CASE ~isImageGenerationActive(t)
    <3>1. worker[t].at = "none" /\ Start(t)
      BY <1>2, <2>2 DEF RetryEnqueues, isImageGenerationActive
    <3>2. /\ worker' \in [Tasks -> Workers]
          /\ worker'[t].at = "start"
          /\ worker'[t].job = 0
          /\ \A u \in Tasks \ {t} : worker'[u] = worker[u]
      BY <1>0, <3>1, StartFacts
    <3>3. TypeOK' BY <1>0, <2>0, <3>2 DEF TypeOK, account
    <3>4. HasImage(t)' <=> HasImage(t) BY <2>0 DEF HasImage
    <3>5. Sweeping(t)' <=> Sweeping(t) BY <2>0 DEF Sweeping
    <3>6. TaskInv(t)'
      BY <1>0, <2>0, <3>1, <3>2, <3>4, <3>5 DEF TaskInv, Busy, account
    <3> QED BY <2>0, <3>2, <3>3, <3>6, WorkerStep DEF account
  <2> QED BY <2>1, <2>2
<1> QED BY <1>1, <1>2

(* The provider ends running jobs only: an image it has made stays. *)
LEMMA JobEndsPreserves ==
    ASSUME ImageInv, NEW t \in Tasks, JobEnds(t) PROVE ImageInv'
<1> DEFINE S == {"running", "done", "failed", "empty"}
<1>0. TypeOK /\ TaskInv(t) /\ jobs[t] \in Seq(S) BY DEF ImageInv, TypeOK
<1>1. UNCHANGED <<row, aged, account, log, worker, sweep, faults, retries>>
  BY DEF JobEnds
<1>2. PICK k \in DOMAIN jobs[t], end \in {"done", "failed", "empty"} :
          jobs[t][k] = "running" /\ jobs' = [jobs EXCEPT ![t][k] = end]
  BY DEF JobEnds
<1>3. /\ jobs'[t] = [jobs[t] EXCEPT ![k] = end]
      /\ \A u \in Tasks \ {t} : jobs'[u] = jobs[u]
  BY <1>0, <1>2 DEF TypeOK
<1>4. jobs'[t] \in Seq(S) /\ DOMAIN jobs'[t] = DOMAIN jobs[t]
  BY <1>0, <1>2, <1>3
<1>5. jobs' \in [Tasks -> Seq(S)]
  <2>1. jobs' = [jobs EXCEPT ![t] = jobs'[t]] BY <1>0, <1>2 DEF TypeOK
  <2> QED BY <1>0, <1>4, <2>1 DEF TypeOK
<1>6. TypeOK' BY <1>0, <1>1, <1>5 DEF TypeOK, account
<1>7. HasImage(t) => HasImage(t)'
  <2> SUFFICES ASSUME NEW i \in DOMAIN jobs[t], jobs[t][i] = "done"
               PROVE  HasImage(t)'
    BY DEF HasImage
  <2>1. i # k BY <1>2
  <2>2. jobs'[t][i] = "done" BY <1>0, <1>3, <2>1
  <2> QED BY <1>4, <2>2 DEF HasImage
<1>8. Sweeping(t)' <=> Sweeping(t) BY <1>1 DEF Sweeping
<1>9. TaskInv(t)'
  BY <1>0, <1>1, <1>4, <1>7, <1>8 DEF TaskInv, account
<1> QED BY <1>1, <1>3, <1>6, <1>9, WorkerStep DEF account

LEMMA GrowsOldPreserves ==
    ASSUME ImageInv, NEW t \in Tasks, GrowsOld(t) PROVE ImageInv'
<1>1. TypeOK' BY DEF ImageInv, GrowsOld, TypeOK, account
<1> QED BY <1>1, NothingMoves DEF GrowsOld, account

LEMMA SpendPreserves == ImageInv /\ Spend => ImageInv'
<1> SUFFICES ASSUME ImageInv, Spend PROVE ImageInv' OBVIOUS
<1>1. TypeOK' BY ImageAssumption DEF ImageInv, Spend, TypeOK
<1> QED BY <1>1, NothingMoves DEF Spend

(* A restart keeps what is in the database; only PaidIsDelivered is lost, *)
(* and says so by faults > 0.                                              *)
LEMMA CrashPreserves == ImageInv /\ Crash => ImageInv'
<1> SUFFICES ASSUME ImageInv, Crash PROVE ImageInv' OBVIOUS
<1>0. TypeOK BY DEF ImageInv
<1>1. /\ faults < MaxFaults
      /\ faults' = faults + 1
      /\ worker' = [t \in Tasks |-> NoWorker]
      /\ sweep' = NoSweep
      /\ retries' = {}
      /\ UNCHANGED <<row, jobs, aged, account, log>>
  BY DEF Crash
<1>2. faults' \in 0..MaxFaults /\ faults' > 0
  BY <1>0, <1>1, ImageAssumption DEF TypeOK
<1>3. NoWorker \in Workers /\ NoWorker.at = "none" /\ NoWorker.job = 0
  BY ImageAssumption DEF Workers, NoWorker
<1>4. NoRow \in Rows BY DEF NoRow, Rows
<1>5. /\ sweep' \in Sweeps
      /\ sweep'.at = "idle"
      /\ \A t \in Tasks : sweep'.list[t] = NoRow
  BY <1>1, <1>4 DEF NoSweep, Sweeps
<1>6. worker' \in [Tasks -> Workers] BY <1>1, <1>3
<1>7. TypeOK' BY <1>0, <1>1, <1>2, <1>5, <1>6 DEF TypeOK, account
<1>8. ASSUME NEW t \in Tasks PROVE TaskInv(t)'
  <2>1. TaskInv(t) BY DEF ImageInv
  <2>2. worker'[t].at = "none" /\ worker'[t].job = 0 BY <1>1, <1>3
  <2>3. ~Sweeping(t)' BY <1>5 DEF Sweeping
  <2>4. HasImage(t)' <=> HasImage(t) BY <1>1 DEF HasImage
  <2> QED
    BY <1>1, <1>2, <1>5, <2>1, <2>2, <2>3, <2>4 DEF TaskInv, Busy, account
<1> QED BY <1>5, <1>7, <1>8 DEF ImageInv

-----------------------------------------------------------------------------
(* Theorems.                                                               *)

LEMMA InitImageInv == Init => ImageInv
<1> SUFFICES ASSUME Init PROVE ImageInv OBVIOUS
<1>1. NoWorker \in Workers /\ NoWorker.at = "none" /\ NoWorker.job = 0
  BY ImageAssumption DEF Workers, NoWorker
<1>2. NoRow \in Rows /\ NoRow.status = "none" /\ NoRow.job = 0
  BY DEF NoRow, Rows
<1>3. /\ sweep \in Sweeps
      /\ sweep.at = "idle"
      /\ \A t \in Tasks : sweep.list[t] = NoRow
  BY <1>2 DEF Init, NoSweep, Sweeps
<1>4. TypeOK BY <1>1, <1>2, <1>3, ImageAssumption DEF Init, TypeOK
<1>5. ASSUME NEW t \in Tasks PROVE TaskInv(t)
  <2>1. ~Sweeping(t) BY <1>3 DEF Sweeping
  <2> QED BY <1>1, <1>2, <1>3, <2>1 DEF Init, TaskInv, Busy
<1> QED BY <1>3, <1>4, <1>5 DEF ImageInv

LEMMA NextPreserves == ImageInv /\ [Next]_vars => ImageInv'
<1> SUFFICES ASSUME ImageInv, [Next]_vars PROVE ImageInv' OBVIOUS
<1>1. CASE UNCHANGED vars
  <2>1. TypeOK' BY <1>1 DEF ImageInv, TypeOK, vars, account
  <2> QED BY <1>1, <2>1, NothingMoves DEF vars, account
<1>2. ASSUME NEW t \in Tasks, Post(t) PROVE ImageInv' BY <1>2, PostPreserves
<1>3. ASSUME NEW t \in Tasks, RetryReads(t) \/ RetryEnqueues(t) PROVE ImageInv'
  BY <1>3, RetryPreserves
<1>4. ASSUME NEW t \in Tasks, Work(t) \/ PaymentGoesAstray(t) PROVE ImageInv'
  BY <1>4, WorkPreserves
<1>5. ASSUME NEW t \in Tasks, JobEnds(t) PROVE ImageInv' BY <1>5, JobEndsPreserves
<1>6. ASSUME NEW t \in Tasks, GrowsOld(t) PROVE ImageInv' BY <1>6, GrowsOldPreserves
<1>7. CASE SweepStep
  <2>1. ASSUME NEW t \in Tasks, Skip(t) \/ Take(t) PROVE ImageInv'
    BY <2>1, TakePreserves
  <2> QED
    BY <1>7, <2>1, ListPreserves, SweepEndsPreserves, PollPreserves,
       SweepFailsPreserves, SweepMetaPreserves, SweepAssetPreserves,
       SweepDebitPreserves, SweepLogPreserves, SweepFinishPreserves, Zenon
    DEF SweepStep
<1>8. CASE SweepPaymentGoesAstray BY <1>8, SweepAstrayPreserves
<1>9. CASE Spend BY <1>9, SpendPreserves
<1>10. CASE Crash BY <1>10, CrashPreserves
<1> QED
  BY <1>1, <1>2, <1>3, <1>4, <1>5, <1>6, <1>7, <1>8, <1>9, <1>10, Zenon DEF Next

(* Type correctness, and who owns what of a task: in every state that the *)
(* handlers, the workers, the sweep and the faults can reach.              *)
THEOREM ImageInvariant == Spec => []ImageInv
BY InitImageInv, NextPreserves, PTL DEF Spec

(* The worker and the sweep never work on the same task, however many      *)
(* tasks there are and wherever the process is restarted.                  *)
THEOREM SweepYields == Spec => []SweepYieldsToWorker
<1>1. ImageInv => SweepYieldsToWorker
  BY DEF ImageInv, TaskInv, SweepYieldsToWorker
<1> QED BY <1>1, ImageInvariant, PTL

(* A completed task has its image and was paid for. *)
THEOREM CompletedWasPaid == Spec => []CompletedIsPaid
<1>1. ImageInv => CompletedIsPaid BY DEF ImageInv, TaskInv, CompletedIsPaid
<1> QED BY <1>1, ImageInvariant, PTL

(* Whatever was debited, the provider made an image for. *)
THEOREM DebitWasBacked == Spec => []DebitIsBacked
<1>1. ImageInv => DebitIsBacked
  BY DEF ImageInv, TypeOK, TaskInv, HasImage, DebitIsBacked
<1> QED BY <1>1, ImageInvariant, PTL

(* Without a fault, whatever was debited is delivered. *)
THEOREM PaidWasDelivered == Spec => []PaidIsDelivered
<1>1. ImageInv => PaidIsDelivered
  BY DEF ImageInv, TypeOK, TaskInv, PaidIsDelivered
<1> QED BY <1>1, ImageInvariant, PTL

(* No statement on a row takes the status of a completed task away. *)
LEMMA StatementsKeepCompleted ==
    ASSUME TypeOK, NEW t \in Tasks, row[t].status = "completed",
           NEW u \in Tasks, NEW x, NEW y,
           \/ finalizeImageTaskFailure(u, x, y)
           \/ finalizeImageTaskSuccess(u, x)
           \/ updateImageTaskReconcileMeta(u, x)
           \/ markImageTaskUpstreamSubmitted(u, x)
           \/ row[u].status \in {"none", "queued"} /\ row' = [row EXCEPT ![u].status = x]
           \/ UNCHANGED row
    PROVE  row'[t].status = "completed"
<1>0. row[t] \in Rows BY DEF TypeOK
<1>1. CASE finalizeImageTaskFailure(u, x, y)
  <2>1. t = u => row' = row BY <1>1 DEF finalizeImageTaskFailure, InFlight
  <2>2. t # u => row'[t] = row[t] BY <1>1 DEF finalizeImageTaskFailure, TypeOK
  <2> QED BY <2>1, <2>2
<1>2. CASE finalizeImageTaskSuccess(u, x)
  BY <1>2 DEF finalizeImageTaskSuccess, TypeOK
<1>3. CASE updateImageTaskReconcileMeta(u, x)
  BY <1>0, <1>3 DEF updateImageTaskReconcileMeta, TypeOK, Rows
<1>4. CASE markImageTaskUpstreamSubmitted(u, x)
  <2>1. t = u => row' = row BY <1>4 DEF markImageTaskUpstreamSubmitted, InFlight
  <2>2. t # u => row'[t] = row[t]
    BY <1>4 DEF markImageTaskUpstreamSubmitted, TypeOK
  <2> QED BY <2>1, <2>2
<1>5. CASE /\ row[u].status \in {"none", "queued"}
           /\ row' = [row EXCEPT ![u].status = x]
  BY <1>5 DEF TypeOK
<1>6. CASE UNCHANGED row BY <1>6
<1> QED BY <1>1, <1>2, <1>3, <1>4, <1>5, <1>6

LEMMA CompletedStays ==
    ASSUME ImageInv, [Next]_vars, NEW t \in Tasks, row[t].status = "completed"
    PROVE  row'[t].status = "completed"
<1>0. TypeOK BY DEF ImageInv
<1>1. ASSUME NEW u \in Tasks, Work(u) \/ Post(u) PROVE row'[t].status = "completed"
  <2>1. CASE Claim(u)
    BY <1>0, <2>1, StatementsKeepCompleted DEF Claim
  <2>2. CASE Submit(u)
    BY <1>0, <2>2, StatementsKeepCompleted DEF Submit
  <2>3. CASE Finish(u)
    BY <1>0, <2>3, StatementsKeepCompleted DEF Finish
  <2>4. CASE FailTask(u)
    BY <1>0, <2>4, StatementsKeepCompleted DEF FailTask
  <2>5. CASE Post(u)
    BY <1>0, <2>5, StatementsKeepCompleted DEF Post
  <2>6. CASE \/ PassGuards(u) \/ RefuseGuards(u) \/ AttemptFails(u) \/ ClientError(u)
             \/ PollDone(u) \/ PollFails(u) \/ Resubmit(u) \/ TimeOut(u)
             \/ StoreAsset(u) \/ AssetFails(u)
    BY <2>6 DEF PassGuards, RefuseGuards, AttemptFails, ClientError, PollDone,
                PollFails, Resubmit, TimeOut, StoreAsset, AssetFails, butWorker
  <2>7. CASE SubmitAnswered(u) \/ Debit(u) \/ LogSuccess(u) \/ LogFailure(u)
    BY <2>7 DEF SubmitAnswered, Debit, LogSuccess, LogFailure
  <2> QED BY <1>1, <2>1, <2>2, <2>3, <2>4, <2>5, <2>6, <2>7, Zenon DEF Work
<1>2. CASE SweepStep
  <2>1. ASSUME NEW u \in Tasks, Take(u) PROVE row'[t].status = "completed"
    BY <1>0, <2>1, StatementsKeepCompleted DEF Take
  <2>2. CASE SweepFails \/ SweepMeta \/ SweepFinish
    <3>1. sweep.task \in Tasks BY <2>2 DEF ImageInv, SweepFails, SweepMeta,
                                           SweepFinish, SweepAt
    <3>2. CASE SweepFails
      BY <1>0, <3>1, <3>2, StatementsKeepCompleted DEF SweepFails
    <3>3. CASE SweepMeta
      BY <1>0, <3>1, <3>3, StatementsKeepCompleted DEF SweepMeta
    <3>4. CASE SweepFinish
      BY <1>0, <3>1, <3>4, StatementsKeepCompleted DEF SweepFinish
    <3> QED BY <2>2, <3>2, <3>3, <3>4
  <2>3. ASSUME NEW u \in Tasks, Skip(u) PROVE row'[t].status = "completed"
    BY <2>3 DEF Skip, butSweep
  <2>4. CASE List \/ SweepEnds \/ Poll \/ SweepAsset
    BY <2>4 DEF List, SweepEnds, Poll, SweepAsset, butSweep
  <2>5. CASE SweepDebit \/ SweepLog BY <2>5 DEF SweepDebit, SweepLog
  <2> QED BY <1>2, <2>1, <2>2, <2>3, <2>4, <2>5, Zenon DEF SweepStep
<1>3. ASSUME NEW u \in Tasks,
             \/ RetryReads(u) \/ RetryEnqueues(u) \/ PaymentGoesAstray(u)
             \/ JobEnds(u) \/ GrowsOld(u)
      PROVE  row'[t].status = "completed"
  BY <1>3 DEF RetryReads, RetryEnqueues, PaymentGoesAstray, JobEnds, GrowsOld
<1>4. CASE SweepPaymentGoesAstray \/ Spend \/ Crash \/ UNCHANGED vars
  BY <1>4 DEF SweepPaymentGoesAstray, Spend, Crash, vars
<1> QED BY <1>1, <1>2, <1>3, <1>4, Zenon DEF Next

(* A completed task stays completed and paid, although the sweep acts on   *)
(* rows it read before.                                                    *)
THEOREM CompletedStaysFinal == Spec => CompletedIsFinal
<1>1. ImageInv /\ ImageInv' /\ [Next]_vars =>
        [\A t \in Tasks : row[t].status = "completed" =>
             row'[t].status = "completed" /\ row'[t].url /\ row'[t].charged]_vars
  <2> SUFFICES ASSUME ImageInv, ImageInv', [Next]_vars,
                      NEW t \in Tasks, row[t].status = "completed"
               PROVE  row'[t].status = "completed" /\ row'[t].url /\ row'[t].charged
    OBVIOUS
  <2>1. row'[t].status = "completed" BY CompletedStays
  <2>2. TaskInv(t)' BY DEF ImageInv
  <2> QED BY <2>1, <2>2 DEF TaskInv
<1>2. ImageInv /\ [Next]_vars => ImageInv' BY NextPreserves
<1> QED BY <1>1, <1>2, ImageInvariant, PTL DEF Spec, CompletedIsFinal

-----------------------------------------------------------------------------
(* The refinement.  What a step is to the lifecycle is one of eight kinds; *)
(* each action is of one of them, and each kind is a step of the lifecycle *)
(* or a stutter.                                                           *)

SameStatus == \A u \in Tasks : row'[u].status = row[u].status

SetsStatus(t, to) ==
    /\ row'[t].status = to
    /\ \A u \in Tasks \ {t} : row'[u].status = row[u].status
    /\ UNCHANGED <<jobs, account>>

Idles == SameStatus /\ UNCHANGED <<jobs, account>>

Accepts(t) == row[t].status = "none" /\ balance > 0 /\ SetsStatus(t, "queued")

Begins(t) == row[t].status = "queued" /\ SetsStatus(t, "processing")

Closes(t) ==
    /\ row[t].status \in {"processing", "retryable_timeout"}
    /\ \E to \in {"failed", "retryable_timeout"} : SetsStatus(t, to)

Finishes(t) ==
    /\ row[t].status \in {"processing", "failed", "retryable_timeout"}
    /\ t \in debited
    /\ SetsStatus(t, "completed")

Provides(t) ==
    /\ row[t].status \notin {"none", "queued"}
    /\ HasImage(t) => HasImage(t)'
    /\ \A u \in Tasks \ {t} : jobs'[u] = jobs[u]
    /\ SameStatus
    /\ UNCHANGED account

Charges(t) ==
    /\ row[t].status \in {"processing", "failed", "retryable_timeout"}
    /\ HasImage(t)
    /\ t \notin debited
    /\ balance >= Price
    /\ balance' = balance - Price
    /\ debited' = debited \cup {t}
    /\ SameStatus
    /\ UNCHANGED jobs

Spends ==
    /\ balance >= Price
    /\ balance' = balance - Price
    /\ SameStatus
    /\ UNCHANGED <<jobs, debited>>

TaskKind(t) ==
    Accepts(t) \/ Begins(t) \/ Closes(t) \/ Finishes(t) \/ Provides(t) \/ Charges(t)

LEMMA SetIsSet ==
    ASSUME NEW t \in Tasks, NEW to, SetsStatus(t, to)
    PROVE  /\ Lifecycle!Set(t, to)
           /\ {u \in Tasks : HasImage(u)'} = {u \in Tasks : HasImage(u)}
           /\ UNCHANGED <<balance, debited>>
<1>1. Lifecycle!Set(t, to) BY DEF SetsStatus, Lifecycle!Set
<1>2. \A u \in Tasks : HasImage(u)' <=> HasImage(u) BY DEF SetsStatus, HasImage
<1> QED BY <1>1, <1>2 DEF SetsStatus, account

LEMMA SameIsSame ==
    ASSUME SameStatus
    PROVE  [u \in Tasks |-> row'[u].status] = [u \in Tasks |-> row[u].status]
BY DEF SameStatus

LEMMA KindsAreSteps ==
    ASSUME NEW t \in Tasks, TaskKind(t) PROVE [Lifecycle!Next]_(Lifecycle!vars)
<1> USE DEF Lifecycle!Started, Lifecycle!Open
<1>1. CASE Accepts(t)
  <2>1. Lifecycle!Accept(t)
    BY <1>1, SetIsSet DEF Accepts, Lifecycle!Accept
  <2> QED BY <2>1 DEF Lifecycle!Next
<1>2. CASE Begins(t)
  <2>1. Lifecycle!Begin(t)
    BY <1>2, SetIsSet DEF Begins, Lifecycle!Begin
  <2> QED BY <2>1 DEF Lifecycle!Next
<1>3. CASE Closes(t)
  <2>1. PICK to \in {"failed", "retryable_timeout"} : SetsStatus(t, to)
    BY <1>3 DEF Closes
  <2>2. /\ Lifecycle!Set(t, to)
        /\ {u \in Tasks : HasImage(u)'} = {u \in Tasks : HasImage(u)}
        /\ UNCHANGED <<balance, debited>>
    BY <2>1, SetIsSet
  <2>3. Lifecycle!Fail(t)
    BY <1>3, <2>2 DEF Closes, Lifecycle!Fail
  <2> QED BY <2>3 DEF Lifecycle!Next
<1>4. CASE Finishes(t)
  <2>1. Lifecycle!Complete(t)
    BY <1>4, SetIsSet DEF Finishes, Lifecycle!Complete
  <2> QED BY <2>1 DEF Lifecycle!Next
<1>5. CASE Provides(t)
  <2>1. \A u \in Tasks \ {t} : HasImage(u)' <=> HasImage(u)
    BY <1>5 DEF Provides, HasImage
  <2>2. CASE HasImage(t) <=> HasImage(t)'
    <3>1. {u \in Tasks : HasImage(u)'} = {u \in Tasks : HasImage(u)}
      BY <2>1, <2>2
    <3> QED BY <1>5, <3>1, SameIsSame DEF Provides, Lifecycle!vars, account
  <2>3. CASE HasImage(t)' /\ ~HasImage(t)
    <3>1. {u \in Tasks : HasImage(u)'} = {u \in Tasks : HasImage(u)} \cup {t}
      BY <2>1, <2>3
    <3>2. Lifecycle!Provide(t)
      BY <1>5, <3>1, SameIsSame DEF Provides, Lifecycle!Provide, account
    <3> QED BY <3>2 DEF Lifecycle!Next
  <2> QED BY <1>5, <2>2, <2>3 DEF Provides
<1>6. CASE Charges(t)
  <2>1. \A u \in Tasks : HasImage(u)' <=> HasImage(u)
    BY <1>6 DEF Charges, HasImage
  <2>2. {u \in Tasks : HasImage(u)'} = {u \in Tasks : HasImage(u)} BY <2>1
  <2>3. Lifecycle!Charge(t)
    BY <1>6, <2>2, SameIsSame DEF Charges, Lifecycle!Charge
  <2> QED BY <2>3 DEF Lifecycle!Next
<1> QED BY <1>1, <1>2, <1>3, <1>4, <1>5, <1>6 DEF TaskKind

LEMMA OtherKindsAreSteps ==
    ASSUME Idles \/ Spends PROVE [Lifecycle!Next]_(Lifecycle!vars)
<1>1. SameStatus /\ UNCHANGED <<jobs, debited>> BY DEF Idles, Spends, account
<1>2. \A u \in Tasks : HasImage(u)' <=> HasImage(u) BY <1>1 DEF HasImage
<1>3. {u \in Tasks : HasImage(u)'} = {u \in Tasks : HasImage(u)} BY <1>2
<1>4. CASE Idles
  BY <1>1, <1>3, <1>4, SameIsSame DEF Idles, account, Lifecycle!vars
<1>5. CASE Spends
  <2>1. Lifecycle!Spend
    BY <1>1, <1>3, <1>5, SameIsSame DEF Spends, Lifecycle!Spend
  <2> QED BY <2>1 DEF Lifecycle!Next
<1> QED BY <1>4, <1>5

(* A debit charges an open task, or finds it charged and does nothing.     *)
LEMMA DebitIsCharge ==
    ASSUME ImageInv, NEW t \in Tasks, CanDebit, debit_credits(t), HasImage(t),
           row[t].status \notin {"none", "queued"}, UNCHANGED <<row, jobs>>
    PROVE  Idles \/ Charges(t)
<1>0. TypeOK /\ TaskInv(t) BY DEF ImageInv
<1>1. SameStatus BY DEF SameStatus
<1>2. CASE t \in debited BY <1>1, <1>2 DEF debit_credits, Idles
<1>3. CASE t \notin debited
  <2>1. row[t].status \in {"processing", "failed", "retryable_timeout"}
    BY <1>0, <1>3 DEF TaskInv, TypeOK, Rows, InFlight, Terminal
  <2> QED BY <1>1, <1>3, <2>1 DEF debit_credits, CanDebit, Charges
<1> QED BY <1>2, <1>3

LEMMA FailureIsClose ==
    ASSUME ImageInv, NEW t \in Tasks, NEW s \in {"failed", "retryable_timeout"},
           NEW r \in {"pending", "reconciled"}, finalizeImageTaskFailure(t, s, r),
           row[t].status \notin {"none", "queued"}, UNCHANGED <<jobs, account>>
    PROVE  Idles \/ Closes(t)
<1>0. TypeOK BY DEF ImageInv
<1>1. \A u \in Tasks \ {t} : row'[u] = row[u] BY <1>0, FailureFacts
<1>2. CASE row[t].status \in {"processing", "retryable_timeout"}
  <2>1. row'[t].status = s
    BY <1>0, <1>2 DEF finalizeImageTaskFailure, InFlight, TypeOK, Rows
  <2> QED BY <1>1, <1>2, <2>1 DEF Closes, SetsStatus
<1>3. CASE row[t].status \notin {"processing", "retryable_timeout"}
  <2>1. row' = row BY <1>3 DEF finalizeImageTaskFailure, InFlight
  <2> QED BY <2>1 DEF Idles, SameStatus
<1> QED BY <1>2, <1>3

LEMMA SuccessIsFinish ==
    ASSUME ImageInv, NEW t \in Tasks, NEW j \in Nat, finalizeImageTaskSuccess(t, j),
           row[t].status \notin {"none", "queued"}, t \in debited,
           UNCHANGED <<jobs, account>>
    PROVE  Idles \/ Finishes(t)
<1>0. TypeOK BY DEF ImageInv
<1>1. row'[t].status = "completed" /\ \A u \in Tasks \ {t} : row'[u] = row[u]
  BY <1>0, SuccessFacts
<1>2. CASE row[t].status = "completed"
  BY <1>1, <1>2 DEF Idles, SameStatus
<1>3. CASE row[t].status # "completed"
  <2>1. row[t].status \in {"processing", "failed", "retryable_timeout"}
    BY <1>0, <1>3 DEF TypeOK, Rows, InFlight, Terminal
  <2> QED BY <1>1, <2>1 DEF Finishes, SetsStatus
<1> QED BY <1>2, <1>3

LEMMA MetaIdles ==
    ASSUME ImageInv, NEW t \in Tasks,
           NEW r \in {"pending", "in_progress", "reconciled", "orphan_alarm"},
           updateImageTaskReconcileMeta(t, r), UNCHANGED <<jobs, account>>
    PROVE  Idles
<1>1. row'[t].status = row[t].status /\ \A u \in Tasks \ {t} : row'[u] = row[u]
  BY MetaFacts DEF ImageInv
<1> QED BY <1>1 DEF Idles, SameStatus

LEMMA WorkerKinds ==
    ASSUME ImageInv, NEW t \in Tasks, Work(t) \/ PaymentGoesAstray(t)
    PROVE  Idles \/ TaskKind(t)
<1>0. /\ TypeOK
      /\ TaskInv(t)
      /\ row[t] \in Rows
      /\ worker[t] \in Workers
  BY DEF ImageInv, TypeOK
<1>w. worker[t].at \in Busy => row[t].status = "processing"
  BY <1>0 DEF TaskInv
<1> USE DEF At
<1>1. CASE Claim(t)
  <2>1. CASE row[t].status = "queued"
    <3>1. row' = [row EXCEPT ![t].status = "processing"] /\ UNCHANGED <<jobs, account>>
      BY <1>1, <2>1 DEF Claim
    <3>2. row'[t].status = "processing" /\ \A u \in Tasks \ {t} : row'[u] = row[u]
      BY <1>0, <3>1 DEF TypeOK, Rows
    <3> QED BY <2>1, <3>1, <3>2 DEF Begins, SetsStatus, TaskKind
  <2>2. CASE row[t].status # "queued"
    BY <1>1, <2>2 DEF Claim, Idles, SameStatus
  <2> QED BY <2>1, <2>2
<1>2. CASE \/ PassGuards(t) \/ RefuseGuards(t) \/ AttemptFails(t) \/ ClientError(t)
           \/ PollDone(t) \/ PollFails(t) \/ Resubmit(t) \/ TimeOut(t)
           \/ StoreAsset(t) \/ AssetFails(t)
  <2>1. UNCHANGED butWorker
    BY <1>2 DEF PassGuards, RefuseGuards, AttemptFails, ClientError, PollDone,
                PollFails, Resubmit, TimeOut, StoreAsset, AssetFails
  <2> QED BY <2>1 DEF butWorker, Idles, SameStatus
<1>3. CASE LogSuccess(t) \/ LogFailure(t)
  BY <1>3 DEF LogSuccess, LogFailure, Idles, SameStatus
<1>4. CASE Submit(t)
  <2>1. /\ worker[t].at = "attempt"
        /\ jobs' = [jobs EXCEPT ![t] = Append(@, "running")]
        /\ markImageTaskUpstreamSubmitted(t, Len(jobs[t]) + 1)
        /\ UNCHANGED account
    BY <1>4 DEF Submit
  <2>2. row[t].status = "processing" BY <1>w, <2>1 DEF Busy
  <2>3. Len(jobs[t]) + 1 \in Nat BY <1>0 DEF TypeOK
  <2>4. row'[t].status = "processing" /\ \A u \in Tasks \ {t} : row'[u] = row[u]
    BY <1>0, <2>1, <2>2, <2>3, SubmittedFacts
  <2>5. /\ HasImage(t) => HasImage(t)'
        /\ \A u \in Tasks \ {t} : jobs'[u] = jobs[u]
    BY <1>0, <2>1, AppendFacts
  <2> QED BY <2>1, <2>2, <2>4, <2>5 DEF Provides, SameStatus, TaskKind
<1>5. CASE SubmitAnswered(t)
  <2>1. /\ worker[t].at = "attempt"
        /\ jobs' = [jobs EXCEPT ![t] = Append(@, "done")]
        /\ UNCHANGED <<row, account>>
    BY <1>5 DEF SubmitAnswered
  <2>2. row[t].status = "processing" BY <1>w, <2>1 DEF Busy
  <2>3. /\ HasImage(t) => HasImage(t)'
        /\ \A u \in Tasks \ {t} : jobs'[u] = jobs[u]
    BY <1>0, <2>1, AppendFacts
  <2> QED BY <2>1, <2>2, <2>3 DEF Provides, SameStatus, TaskKind
<1>6. CASE Debit(t) \/ PaymentGoesAstray(t)
  <2>1. UNCHANGED <<row, jobs>> BY <1>6 DEF Debit, PaymentGoesAstray
  <2>2. CASE UNCHANGED account BY <2>1, <2>2 DEF Idles, SameStatus
  <2>3. CASE worker[t].at = "debit" /\ CanDebit /\ debit_credits(t)
    <3>1. HasImage(t) /\ row[t].status = "processing"
      BY <1>0, <1>w, <2>3 DEF TaskInv, Busy
    <3> QED BY <2>1, <2>3, <3>1, DebitIsCharge DEF TaskKind
  <2> QED BY <1>6, <2>2, <2>3 DEF Debit, PaymentGoesAstray
<1>7. CASE Finish(t)
  <2>1. /\ worker[t].at = "finish"
        /\ finalizeImageTaskSuccess(t, worker[t].job)
        /\ UNCHANGED <<jobs, account>>
    BY <1>7 DEF Finish
  <2>2. t \in debited /\ row[t].status = "processing" /\ worker[t].job \in Nat
    BY <1>0, <1>w, <2>1 DEF TaskInv, Busy, Workers
  <2> QED BY <2>1, <2>2, SuccessIsFinish DEF TaskKind
<1>8. CASE FailTask(t)
  <2>1. PICK s \in {"failed", "retryable_timeout"}, r \in {"pending", "reconciled"} :
            finalizeImageTaskFailure(t, s, r)
    BY <1>8, Zenon DEF FailTask
  <2>2. worker[t].at = "fail" /\ UNCHANGED <<jobs, account>> BY <1>8 DEF FailTask
  <2>3. row[t].status = "processing" BY <1>w, <2>2 DEF Busy
  <2> QED BY <2>1, <2>2, <2>3, FailureIsClose DEF TaskKind
<1> QED
  BY <1>1, <1>2, <1>3, <1>4, <1>5, <1>6, <1>7, <1>8, Zenon DEF Work

LEMMA SweepKinds ==
    ASSUME ImageInv, SweepStep \/ SweepPaymentGoesAstray
    PROVE  Idles \/ \E t \in Tasks : TaskKind(t)
<1>0. TypeOK BY DEF ImageInv
<1> USE DEF SweepAt
<1>1. CASE List \/ SweepEnds \/ (\E t \in Tasks : Skip(t)) \/ Poll \/ SweepAsset
  <2>1. UNCHANGED butSweep
    BY <1>1 DEF List, SweepEnds, Skip, Poll, SweepAsset
  <2> QED BY <2>1 DEF butSweep, Idles, SameStatus
<1>2. CASE SweepLog BY <1>2 DEF SweepLog, Idles, SameStatus
<1>3. ASSUME NEW t \in Tasks, Take(t) PROVE Idles
  <2>1. PICK r \in {"in_progress", "reconciled"} : updateImageTaskReconcileMeta(t, r)
    BY <1>3 DEF Take
  <2>2. UNCHANGED <<jobs, account>> BY <1>3 DEF Take
  <2> QED BY <2>1, <2>2, MetaIdles
<1>4. CASE SweepFails \/ SweepMeta \/ SweepDebit \/ SweepFinish \/ SweepPaymentGoesAstray
  <2>1. sweep.at \in {"fail", "meta", "debit", "finish"}
    BY <1>4 DEF SweepFails, SweepMeta, SweepDebit, SweepFinish, SweepPaymentGoesAstray
  <2>2. PICK t \in Tasks : t = sweep.task BY <2>1 DEF ImageInv
  <2>3. /\ TaskInv(t) /\ Sweeping(t)
        /\ sweep.list[t] # NoRow
        /\ row[t].status \notin {"none", "queued"}
    BY <2>1, <2>2, AtTask
  <2>4. CASE SweepFails
    <3>1. /\ sweep.at = "fail"
          /\ finalizeImageTaskFailure(t, sweep.fail, "reconciled")
          /\ UNCHANGED <<jobs, account>>
      BY <2>2, <2>4 DEF SweepFails
    <3>2. sweep.fail \in {"failed", "retryable_timeout"}
      BY <1>0, <3>1 DEF ImageInv, TypeOK, Sweeps
    <3> QED BY <2>3, <3>1, <3>2, FailureIsClose DEF TaskKind
  <2>5. CASE SweepMeta
    <3>1. /\ sweep.at = "meta"
          /\ updateImageTaskReconcileMeta(t, sweep.meta)
          /\ UNCHANGED <<jobs, account>>
      BY <2>2, <2>5 DEF SweepMeta
    <3>2. sweep.meta \in {"pending", "reconciled", "orphan_alarm"}
      BY <1>0, <3>1 DEF ImageInv, TypeOK, Sweeps
    <3> QED BY <3>1, <3>2, MetaIdles
  <2>6. CASE SweepDebit \/ SweepPaymentGoesAstray
    <3>1. UNCHANGED <<row, jobs>> BY <2>6 DEF SweepDebit, SweepPaymentGoesAstray
    <3>2. CASE UNCHANGED account BY <3>1, <3>2 DEF Idles, SameStatus
    <3>3. CASE sweep.at = "debit" /\ CanDebit /\ debit_credits(t)
      <4>1. HasImage(t) BY <2>3, <3>3 DEF TaskInv
      <4> QED BY <2>3, <3>1, <3>3, <4>1, DebitIsCharge DEF TaskKind
    <3> QED BY <2>2, <2>6, <3>2, <3>3 DEF SweepDebit, SweepPaymentGoesAstray
  <2>7. CASE SweepFinish
    <3>1. /\ sweep.at = "finish"
          /\ finalizeImageTaskSuccess(t, Snapshot.job)
          /\ UNCHANGED <<jobs, account>>
      BY <2>2, <2>7 DEF SweepFinish
    <3>2. t \in debited BY <2>3, <3>1 DEF TaskInv
    <3>3. Snapshot.job \in Nat BY <1>0, <2>2 DEF Snapshot, TypeOK, Sweeps, Rows
    <3> QED BY <2>3, <3>1, <3>2, <3>3, SuccessIsFinish DEF TaskKind
  <2> QED BY <1>4, <2>4, <2>5, <2>6, <2>7
<1> QED BY <1>1, <1>2, <1>3, <1>4, Zenon DEF SweepStep

LEMMA JobEndsProvides ==
    ASSUME ImageInv, NEW t \in Tasks, JobEnds(t) PROVE Provides(t)
<1>0. TaskInv(t) /\ TypeOK /\ jobs[t] \in Seq({"running", "done", "failed", "empty"})
  BY DEF ImageInv, TypeOK
<1>1. PICK k \in DOMAIN jobs[t], end \in {"done", "failed", "empty"} :
          jobs[t][k] = "running" /\ jobs' = [jobs EXCEPT ![t][k] = end]
  BY DEF JobEnds
<1>2. row[t].status \notin {"none", "queued"}
  <2>1. jobs[t] # <<>> BY <1>1
  <2> QED BY <1>0, <2>1 DEF TaskInv
<1>3. /\ jobs'[t] = [jobs[t] EXCEPT ![k] = end]
      /\ \A u \in Tasks \ {t} : jobs'[u] = jobs[u]
  BY <1>0, <1>1 DEF TypeOK
<1>4. HasImage(t) => HasImage(t)'
  <2> SUFFICES ASSUME NEW i \in DOMAIN jobs[t], jobs[t][i] = "done"
               PROVE  HasImage(t)'
    BY DEF HasImage
  <2>1. i # k BY <1>1
  <2>2. jobs'[t][i] = "done" /\ i \in DOMAIN jobs'[t] BY <1>0, <1>3, <2>1
  <2> QED BY <2>2 DEF HasImage
<1>5. SameStatus /\ UNCHANGED account BY DEF JobEnds, SameStatus
<1> QED BY <1>2, <1>3, <1>4, <1>5 DEF Provides

LEMMA StepKinds ==
    ASSUME ImageInv, [Next]_vars
    PROVE  Idles \/ Spends \/ \E t \in Tasks : TaskKind(t)
<1>1. ASSUME NEW t \in Tasks, Post(t) PROVE TaskKind(t)
  <2>1. row[t].status = "none" /\ balance > 0 /\ UNCHANGED <<jobs, account>>
    BY <1>1 DEF Post
  <2>2. row'[t].status = "queued" /\ \A u \in Tasks \ {t} : row'[u] = row[u]
    BY <1>1 DEF ImageInv, TypeOK, Rows, Post
  <2> QED BY <2>1, <2>2 DEF Accepts, SetsStatus, TaskKind
<1>2. ASSUME NEW t \in Tasks, RetryReads(t) \/ RetryEnqueues(t) \/ GrowsOld(t)
      PROVE  Idles
  BY <1>2 DEF RetryReads, RetryEnqueues, GrowsOld, Idles, SameStatus
<1>3. ASSUME NEW t \in Tasks, Work(t) \/ PaymentGoesAstray(t)
      PROVE  Idles \/ TaskKind(t)
  BY <1>3, WorkerKinds
<1>4. ASSUME NEW t \in Tasks, JobEnds(t) PROVE TaskKind(t)
  BY <1>4, JobEndsProvides DEF TaskKind
<1>5. CASE SweepStep \/ SweepPaymentGoesAstray BY <1>5, SweepKinds
<1>6. CASE Spend BY <1>6 DEF Spend, Spends, SameStatus
<1>7. CASE Crash \/ UNCHANGED vars
  BY <1>7 DEF Crash, vars, Idles, SameStatus
<1> QED BY <1>1, <1>2, <1>3, <1>4, <1>5, <1>6, <1>7, Zenon DEF Next

(* Whatever worker, sweep, retries, faults and restarts do to a task, its *)
(* row, its images and the account go the way of ImageLifecycle: one       *)
(* charge, for an image that is there, while the task is open, and nothing *)
(* after it is completed.                                                  *)
THEOREM TasksImplementLifecycle == Spec => ImplementsImageLifecycle
<1>1. Init => Lifecycle!Init
  <2> SUFFICES ASSUME Init PROVE Lifecycle!Init OBVIOUS
  <2>1. \A t \in Tasks : row[t].status = "none" /\ ~HasImage(t)
    BY DEF Init, NoRow, HasImage
  <2>2. {t \in Tasks : HasImage(t)} = {} BY <2>1
  <2> QED BY <2>1, <2>2 DEF Init, Lifecycle!Init
<1>2. ImageInv /\ [Next]_vars => [Lifecycle!Next]_(Lifecycle!vars)
  <2> SUFFICES ASSUME ImageInv, [Next]_vars
               PROVE  [Lifecycle!Next]_(Lifecycle!vars)
    OBVIOUS
  <2>1. Idles \/ Spends \/ \E t \in Tasks : TaskKind(t) BY StepKinds
  <2>2. ASSUME NEW t \in Tasks, TaskKind(t) PROVE [Lifecycle!Next]_(Lifecycle!vars)
    BY <2>2, KindsAreSteps
  <2> QED BY <2>1, <2>2, OtherKindsAreSteps
<1> QED
  BY <1>1, <1>2, ImageInvariant, PTL
  DEF Spec, ImplementsImageLifecycle, Lifecycle!Spec
=============================================================================
