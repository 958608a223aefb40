---------------------------- MODULE RetryQueue ----------------------------
(***************************************************************************)
(* The retry queue of the workflow engine: the workflow_runs table, the    *)
(* background workers that run WorkflowService.run_due_retries (one per    *)
(* API process), the sessions that execute workflows on behalf of requests *)
(* (manual run, public webhook, admin retry, tenant trigger), and the      *)
(* operations on workflows that interfere with them.                       *)
(*                                                                         *)
(* A database transaction is visible to others only when it commits, so a  *)
(* run in execution is in no row: RUNNING is never a committed status.     *)
(* FOR UPDATE row locks are `hold`.                                        *)
(***************************************************************************)
EXTENDS Naturals, Sequences, FiniteSets, Functions

CONSTANTS
  Workflow,    \* workflows
  Run,         \* identities of workflow_runs rows
  Worker,      \* background workers
  Session,     \* sessions serving requests that execute a workflow
  MaxRetries,  \* WorkflowRun.max_retries
  RunLimit,    \* monthly_runs of the tenant's plan
  BatchLimit,  \* the `limit` of run_due_retries
  MaxTime,     \* bound of the clock (minutes)
  CrashLimit,  \* bound on process crashes
  LostLimit,   \* bound on executions of one retry lost to a failed flush
  NoRun, NoTime

ASSUME RetryQueueAssumption ==
  /\ Workflow # {}
  /\ IsFiniteSet(Workflow)
  /\ MaxRetries \in Nat \ {0}
  /\ RunLimit \in Nat
  /\ BatchLimit \in Nat \ {0}
  /\ MaxTime \in Nat
  /\ CrashLimit \in Nat
  /\ LostLimit \in Nat
  /\ NoRun \notin Run
  /\ NoTime \notin Nat

\* A deployment has finitely many processes, and at least one: workers and
\* sessions both live in the processes of the API.
ASSUME ProcessesAssumption ==
  /\ IsFiniteSet(Worker)
  /\ IsFiniteSet(Session)
  /\ Worker \cup Session # {}

VARIABLES
  now,       \* the clock
  wfState,   \* is_active of each workflow, or "gone" once deleted
  row,       \* the committed workflow_runs rows
  wpc,       \* control state of each worker
  batch,     \* due_run_ids of each worker, the one in hand first
  asof,      \* `now` as each worker read it at the start of its pass
  hold,      \* the row each worker holds FOR UPDATE, or NoRun
  spc,       \* control state of each session
  swf,       \* the workflow each session executes
  todo,      \* the workflows its tenant trigger is yet to execute
  work,      \* the runs it finished, flushed and not committed
  old,       \* the old_run of an admin retry, or NoRun
  tries,     \* history: executions started to retry a run
  lost,      \* history: those of `tries` that were rolled back
  crashes    \* crashes so far

vars == <<now, wfState, row, wpc, batch, asof, hold, spc, swf, todo, work, old,
          tries, lost, crashes>>

-----------------------------------------------------------------------------
(* The workflow_runs table *)

WorkflowRunStatus == {"ABSENT", "COMPLETED", "FAILED", "DELETED"}

WorkflowRun ==
  [status: WorkflowRunStatus,
   workflow: Workflow,
   retry_count: Nat,
   next_retry_at: Nat \cup {NoTime},
   is_dead_letter: BOOLEAN,
   parent: Run \cup {NoRun}]      \* history: the run a worker retried

AnyWorkflow == CHOOSE wf \in Workflow : TRUE

\* A row that is not there: not yet inserted, or deleted.
NoRow(s) ==
  [status |-> s, workflow |-> AnyWorkflow, retry_count |-> 0,
   next_retry_at |-> NoTime, is_dead_letter |-> FALSE, parent |-> NoRun]

Exists(r) == row[r].status \in {"COMPLETED", "FAILED"}

\* WorkflowRun.next_retry_at.is_not(None): what the dashboard counts as queued.
Pending(r) == Exists(r) /\ row[r].next_retry_at # NoTime

\* The WHERE clause shared by the three selects of run_due_retries.
Due(r, t) ==
  /\ row[r].status = "FAILED"
  /\ ~row[r].is_dead_letter
  /\ row[r].next_retry_at # NoTime
  /\ row[r].next_retry_at <= t

Locked(r) == \E w \in Worker : hold[w] = r

\* What the second and third select (FOR UPDATE SKIP LOCKED) may return.
ClaimableStale(r, t) == ~Locked(r)
ClaimableUnlocked(r, t) == Due(r, t)
ClaimableOffByOne(r, t) ==
  Due(r, t) /\ ~Locked(r) /\ row[r].retry_count < MaxRetries - 1
Claimable(r, t) == Due(r, t) /\ ~Locked(r)

\* enforce_monthly_run_limit counts the rows a transaction sees: the committed
\* ones and the `mine` it has flushed itself.
RunCount == Cardinality({r \in Run : Exists(r)})
QuotaOffByOne(mine) == RunCount + mine > RunLimit
QuotaExhausted(mine) == RunCount + mine >= RunLimit

\* The retry state of a row that has failed n times, decided at time t.
AfterFailureOffByOne(n, t) ==
  [retry_count |-> n,
   is_dead_letter |-> n > MaxRetries,
   next_retry_at |-> IF n >= MaxRetries THEN NoTime ELSE t + n]

AfterFailure(n, t) ==
  [retry_count |-> n,
   is_dead_letter |-> n >= MaxRetries,
   next_retry_at |-> IF n >= MaxRetries THEN NoTime ELSE t + n]

\* A row as _execute_workflow leaves it: n failures so far if it fails now.
CompletedRowLeftRunning(wf, n, p) ==
  [status |-> "RUNNING", workflow |-> wf, retry_count |-> n,
   next_retry_at |-> NoTime, is_dead_letter |-> FALSE, parent |-> p]

CompletedRow(wf, n, p) ==
  [status |-> "COMPLETED", workflow |-> wf, retry_count |-> n,
   next_retry_at |-> NoTime, is_dead_letter |-> FALSE, parent |-> p]

FailedRow(wf, n, t, p) ==
  LET f == AfterFailure(n, t) IN
  [status |-> "FAILED", workflow |-> wf, retry_count |-> f.retry_count,
   next_retry_at |-> f.next_retry_at, is_dead_letter |-> f.is_dead_letter,
   parent |-> p]

\* What the commit of a retry writes to the previous run.
ConsumedButDue(x) == [x EXCEPT !.is_dead_letter = FALSE]
Consumed(x) == [x EXCEPT !.is_dead_letter = FALSE, !.next_retry_at = NoTime]

\* What the except branch writes to a run whose retry could not be recorded.
ChargedErrorOnly(x, t) == x
Charged(x, t) ==
  LET f == AfterFailure(x.retry_count + 1, t) IN
  [x EXCEPT !.retry_count = f.retry_count,
            !.is_dead_letter = f.is_dead_letter,
            !.next_retry_at = f.next_retry_at]

\* What an admin retry writes to the old run.
TakenOverButDue(x) == [x EXCEPT !.is_dead_letter = TRUE]
TakenOver(x) == [x EXCEPT !.is_dead_letter = TRUE, !.next_retry_at = NoTime]

-----------------------------------------------------------------------------
(* run_due_retries, one worker *)

\* The first select: up to BatchLimit due ids, earliest next_retry_at first.
DueBatch(q, t) ==
  LET chosen == {q[i] : i \in DOMAIN q} IN
  /\ \A i, j \in DOMAIN q : i # j => q[i] # q[j]
  /\ \A r \in chosen : Due(r, t)
  /\ \A i, j \in DOMAIN q :
       i < j => row[q[i]].next_retry_at <= row[q[j]].next_retry_at
  /\ \A r \in Run \ chosen : Due(r, t) =>
       /\ Len(q) = BatchLimit
       /\ \A s \in chosen : row[s].next_retry_at <= row[r].next_retry_at

SelectDue(w) ==
  /\ wpc[w] = "idle"
  /\ \E n \in 1 .. BatchLimit : \E q \in [1 .. n -> Run] :
       /\ DueBatch(q, now)
       /\ batch' = [batch EXCEPT ![w] = q]
  /\ asof' = [asof EXCEPT ![w] = now]
  /\ wpc' = [wpc EXCEPT ![w] = "loop"]
  /\ UNCHANGED <<now, wfState, row, hold, spc, swf, todo, work, old, tries,
                 lost, crashes>>

\* The pass is over: completed, or left by an exception.
EndPass(w) ==
  /\ batch' = [batch EXCEPT ![w] = <<>>]
  /\ asof' = [asof EXCEPT ![w] = 0]
  /\ wpc' = [wpc EXCEPT ![w] = "idle"]

\* Where the loop goes after the id in hand: to the next one, or out.
EndItem(w) ==
  \/ /\ Len(batch[w]) = 1
     /\ EndPass(w)
  \/ /\ Len(batch[w]) > 1
     /\ batch' = [batch EXCEPT ![w] = Tail(@)]
     /\ wpc' = [wpc EXCEPT ![w] = "loop"]
     /\ UNCHANGED asof

\* The second select re-tests the row and locks it, skipping a locked one.
Claim(w) ==
  LET r == Head(batch[w]) IN
  /\ wpc[w] = "loop"
  /\ Claimable(r, asof[w])
  /\ hold' = [hold EXCEPT ![w] = r]
  /\ wpc' = [wpc EXCEPT ![w] = "claimed"]
  /\ UNCHANGED <<now, wfState, row, batch, asof, spc, swf, todo, work, old,
                 tries, lost, crashes>>

Skip(w) ==
  LET r == Head(batch[w]) IN
  /\ wpc[w] = "loop"
  /\ ~Claimable(r, asof[w])
  /\ EndItem(w)
  /\ UNCHANGED <<now, wfState, row, hold, spc, swf, todo, work, old, tries,
                 lost, crashes>>

\* _execute_workflow passes the quota check, inserts the (uncommitted) run and
\* starts the actions. Whether the workflow is still active is not asked.
Execute(w) ==
  /\ wpc[w] = "claimed"
  /\ ~QuotaExhausted(0)
  /\ wpc' = [wpc EXCEPT ![w] = "running"]
  /\ tries' = [tries EXCEPT ![hold[w]] = @ + 1]
  /\ UNCHANGED <<now, wfState, row, batch, asof, hold, spc, swf, todo, work,
                 old, lost, crashes>>

\* enforce_monthly_run_limit raises 402: rollback, which releases the row.
Refuse(w) ==
  /\ wpc[w] = "claimed"
  /\ QuotaExhausted(0)
  /\ hold' = [hold EXCEPT ![w] = NoRun]
  /\ wpc' = [wpc EXCEPT ![w] = "raised"]
  /\ UNCHANGED <<now, wfState, row, batch, asof, spc, swf, todo, work, old,
                 tries, lost, crashes>>

\* The retry run n and the consumed previous run are committed together.
CommitRetry(w) ==
  LET p == hold[w]
      k == row[p].retry_count + 1
      wf == row[p].workflow
  IN
  /\ wpc[w] = "running"
  /\ \E n \in Run :
       /\ row[n].status = "ABSENT"
       /\ \E new \in {CompletedRow(wf, k, p), FailedRow(wf, k, now, p)} :
            row' = [row EXCEPT ![n] = new, ![p] = Consumed(@)]
  /\ hold' = [hold EXCEPT ![w] = NoRun]
  /\ EndItem(w)
  /\ UNCHANGED <<now, wfState, spc, swf, todo, work, old, tries, lost, crashes>>

\* A flush inside an action failed (two runs upserting one lead): the session
\* cannot commit, and what the actions wrote is rolled back.
FailRetry(w) ==
  /\ wpc[w] = "running"
  /\ lost[hold[w]] < LostLimit
  /\ lost' = [lost EXCEPT ![hold[w]] = @ + 1]
  /\ hold' = [hold EXCEPT ![w] = NoRun]
  /\ wpc' = [wpc EXCEPT ![w] = "raised"]
  /\ UNCHANGED <<now, wfState, row, batch, asof, spc, swf, todo, work, old,
                 tries, crashes>>

\* The except branch: the try is charged to the run itself if it is still due
\* and unlocked; then the undefined name `logger` ends the pass.
HandleFailure(w) ==
  LET r == Head(batch[w]) IN
  /\ wpc[w] = "raised"
  /\ IF Claimable(r, asof[w])
     THEN row' = [row EXCEPT ![r] = Charged(@, now)]
     ELSE UNCHANGED row
  /\ EndPass(w)
  /\ UNCHANGED <<now, wfState, hold, spc, swf, todo, work, old, tries, lost,
                 crashes>>

\* The process dies: its transaction is rolled back, its batch forgotten.
CrashWorker(w) ==
  /\ wpc[w] # "idle"
  /\ crashes < CrashLimit
  /\ crashes' = crashes + 1
  /\ lost' = IF wpc[w] = "running"
             THEN [lost EXCEPT ![hold[w]] = @ + 1] ELSE lost
  /\ hold' = [hold EXCEPT ![w] = NoRun]
  /\ EndPass(w)
  /\ UNCHANGED <<now, wfState, row, spc, swf, todo, work, old, tries>>

WorkerStep(w) ==
  \/ SelectDue(w)
  \/ Claim(w)
  \/ Skip(w)
  \/ Execute(w)
  \/ Refuse(w)
  \/ CommitRetry(w)
  \/ FailRetry(w)
  \/ HandleFailure(w)

-----------------------------------------------------------------------------
(* Requests that execute a workflow *)

\* The workflows a request executes: one (manual_run_workflow, a public webhook)
\* or all the active ones that match an event (execute_tenant_trigger, which
\* selects them once, in no order). The first passes the quota and is inserted.
StartRun(s, wfs) ==
  /\ spc[s] = "idle"
  /\ \A wf \in wfs : wfState[wf] = "active"
  /\ ~QuotaExhausted(0)
  /\ \E wf \in wfs :
       /\ swf' = [swf EXCEPT ![s] = wf]
       /\ todo' = [todo EXCEPT ![s] = wfs \ {wf}]
  /\ work' = [work EXCEPT ![s] = {}]
  /\ spc' = [spc EXCEPT ![s] = "running"]
  /\ old' = [old EXCEPT ![s] = NoRun]
  /\ UNCHANGED <<now, wfState, row, wpc, batch, asof, hold, tries, lost,
                 crashes>>

\* admin_retry_workflow_run: any existing run, read without a lock.
StartAdminRetry(s, r) ==
  /\ spc[s] = "idle"
  /\ Exists(r)
  /\ wfState[row[r].workflow] = "active"
  /\ ~QuotaExhausted(0)
  /\ spc' = [spc EXCEPT ![s] = "running"]
  /\ swf' = [swf EXCEPT ![s] = row[r].workflow]
  /\ todo' = [todo EXCEPT ![s] = {}]
  /\ work' = [work EXCEPT ![s] = {}]
  /\ old' = [old EXCEPT ![s] = r]
  /\ UNCHANGED <<now, wfState, row, wpc, batch, asof, hold, tries, lost,
                 crashes>>

\* The request is answered and its session closed.
EndRequest(s) ==
  /\ spc' = [spc EXCEPT ![s] = "idle"]
  /\ swf' = [swf EXCEPT ![s] = AnyWorkflow]
  /\ todo' = [todo EXCEPT ![s] = {}]
  /\ work' = [work EXCEPT ![s] = {}]
  /\ old' = [old EXCEPT ![s] = NoRun]

\* How _execute_workflow may leave the run in hand.
Outcome(s) == {CompletedRow(swf[s], 0, NoRun), FailedRow(swf[s], 1, now, NoRun)}

\* The rows a session's transaction has flushed, the one in hand included.
Flushed(s) == Cardinality(work[s]) + 1

\* execute_tenant_trigger goes on to the next workflow of its list, active or
\* not by now; the run is inserted only while the workflow's row is there.
NextRun(s) ==
  /\ spc[s] = "running"
  /\ ~QuotaExhausted(Flushed(s))
  /\ \E wf \in todo[s] :
       /\ wfState[wf] # "gone"
       /\ swf' = [swf EXCEPT ![s] = wf]
       /\ todo' = [todo EXCEPT ![s] = @ \ {wf}]
  /\ \E x \in Outcome(s) : work' = [work EXCEPT ![s] = @ \cup {x}]
  /\ UNCHANGED <<now, wfState, row, wpc, batch, asof, hold, spc, old, tries,
                 lost, crashes>>

\* The quota is exhausted in the middle of the list: 402, everything the
\* request did so far is rolled back.
RefuseRun(s) ==
  /\ spc[s] = "running"
  /\ todo[s] # {}
  /\ QuotaExhausted(Flushed(s))
  /\ EndRequest(s)
  /\ UNCHANGED <<now, wfState, row, wpc, batch, asof, hold, tries, lost,
                 crashes>>

\* The rows of one transaction become rows of the table in one commit.
RecordAll(rows) ==
  \E N \in SUBSET {n \in Run : row[n].status = "ABSENT"} :
  \E new \in Bijection(N, rows) :
    row' = [r \in Run |-> IF r \in N THEN new[r] ELSE row[r]]

\* manual_run_workflow, execute_public_webhook and execute_tenant_trigger
\* commit what they executed.
FinishRun(s) ==
  /\ spc[s] = "running"
  /\ todo[s] = {}
  /\ \E x \in Outcome(s) : RecordAll(work[s] \cup {x})
  /\ \/ /\ old[s] = NoRun
        /\ EndRequest(s)
     \/ /\ old[s] # NoRun
        /\ spc' = [spc EXCEPT ![s] = "mark"]
        /\ UNCHANGED <<swf, todo, work, old>>
  /\ UNCHANGED <<now, wfState, wpc, batch, asof, hold, tries, lost, crashes>>

\* A flush failed, inside an action (commit raises) or inserting a run of a
\* workflow deleted meanwhile: the request ends in 500, nothing is recorded.
FailRun(s) ==
  /\ spc[s] = "running"
  /\ EndRequest(s)
  /\ UNCHANGED <<now, wfState, row, wpc, batch, asof, hold, tries, lost,
                 crashes>>

\* The second commit of an admin retry; it waits for the row lock. A run that
\* has no next_retry_at never gets one, so writing NULL is writing the change.
MarkOld(s) ==
  /\ spc[s] = "mark"
  /\ ~Locked(old[s])
  /\ IF Exists(old[s])
     THEN row' = [row EXCEPT ![old[s]] = TakenOver(@)]
     ELSE UNCHANGED row
  /\ EndRequest(s)
  /\ UNCHANGED <<now, wfState, wpc, batch, asof, hold, tries, lost, crashes>>

CrashSession(s) ==
  /\ spc[s] # "idle"
  /\ crashes < CrashLimit
  /\ crashes' = crashes + 1
  /\ EndRequest(s)
  /\ UNCHANGED <<now, wfState, row, wpc, batch, asof, hold, tries, lost>>

-----------------------------------------------------------------------------
(* Operations on workflows, and the clock *)

ActivateWorkflow(wf) ==
  /\ wfState[wf] = "inactive"
  /\ wfState' = [wfState EXCEPT ![wf] = "active"]
  /\ UNCHANGED <<now, row, wpc, batch, asof, hold, spc, swf, todo, work, old,
                 tries, lost, crashes>>

DeactivateWorkflow(wf) ==
  /\ wfState[wf] = "active"
  /\ wfState' = [wfState EXCEPT ![wf] = "inactive"]
  /\ UNCHANGED <<now, row, wpc, batch, asof, hold, spc, swf, todo, work, old,
                 tries, lost, crashes>>

\* The session holds an uncommitted run of the workflow.
Executing(s, wf) ==
  /\ spc[s] = "running"
  /\ swf[s] = wf \/ \E x \in work[s] : x.workflow = wf

\* delete_workflow: its DELETEs wait for row locks on the workflow's runs and
\* for the key-share lock that an uncommitted run holds on the workflow.
DeleteWorkflow(wf) ==
  /\ wfState[wf] # "gone"
  /\ \A r \in Run : row[r].workflow = wf => ~Locked(r)
  /\ \A s \in Session : ~Executing(s, wf)
  /\ wfState' = [wfState EXCEPT ![wf] = "gone"]
  /\ row' = [r \in Run |-> IF Exists(r) /\ row[r].workflow = wf
                           THEN NoRow("DELETED")
                           ELSE row[r]]
  /\ UNCHANGED <<now, wpc, batch, asof, hold, spc, swf, todo, work, old,
                 tries, lost, crashes>>

Tick ==
  /\ now < MaxTime
  /\ now' = now + 1
  /\ UNCHANGED <<wfState, row, wpc, batch, asof, hold, spc, swf, todo, work,
                 old, tries, lost, crashes>>

-----------------------------------------------------------------------------

Init ==
  /\ now = 0
  /\ wfState \in [Workflow -> {"active", "inactive"}]
  /\ row = [r \in Run |-> NoRow("ABSENT")]
  /\ wpc = [w \in Worker |-> "idle"]
  /\ batch = [w \in Worker |-> <<>>]
  /\ asof = [w \in Worker |-> 0]
  /\ hold = [w \in Worker |-> NoRun]
  /\ spc = [s \in Session |-> "idle"]
  /\ swf = [s \in Session |-> AnyWorkflow]
  /\ todo = [s \in Session |-> {}]
  /\ work = [s \in Session |-> {}]
  /\ old = [s \in Session |-> NoRun]
  /\ tries = [r \in Run |-> 0]
  /\ lost = [r \in Run |-> 0]
  /\ crashes = 0

Next ==
  \/ \E w \in Worker : WorkerStep(w) \/ CrashWorker(w)
  \/ \E s \in Session :
       \/ \E wfs \in SUBSET Workflow : StartRun(s, wfs)
       \/ \E r \in Run : StartAdminRetry(s, r)
       \/ NextRun(s)
       \/ RefuseRun(s)
       \/ FinishRun(s)
       \/ FailRun(s)
       \/ MarkOld(s)
       \/ CrashSession(s)
  \/ \E wf \in Workflow :
       ActivateWorkflow(wf) \/ DeactivateWorkflow(wf) \/ DeleteWorkflow(wf)
  \/ Tick

Spec == Init /\ [][Next]_vars

\* The worker loop runs for as long as its process lives, so each worker keeps
\* taking steps; a restarted process starts a new loop. Requests, crashes,
\* user operations are not obliged to happen.
Fairness == \A w \in Worker : WF_vars(WorkerStep(w))

FairSpec == Spec /\ Fairness

-----------------------------------------------------------------------------
(* What must hold *)

\* Every variable has its type (SQLAlchemy columns, loop variables).
TypeOK ==
  /\ now \in 0 .. MaxTime
  /\ wfState \in [Workflow -> {"active", "inactive", "gone"}]
  /\ row \in [Run -> WorkflowRun]
  /\ wpc \in [Worker -> {"idle", "loop", "claimed", "running", "raised"}]
  /\ batch \in [Worker -> Seq(Run)]
  /\ asof \in [Worker -> Nat]
  /\ hold \in [Worker -> Run \cup {NoRun}]
  /\ spc \in [Session -> {"idle", "running", "mark"}]
  /\ swf \in [Session -> Workflow]
  /\ todo \in [Session -> SUBSET Workflow]
  /\ work \in [Session -> SUBSET WorkflowRun]
  /\ old \in [Session -> Run \cup {NoRun}]
  /\ tries \in [Run -> Nat]
  /\ lost \in [Run -> Nat]
  /\ crashes \in 0 .. CrashLimit

\* A worker in the middle of a retry works on a row that is still due and that
\* no other worker works on, whatever admins and other workers did meanwhile:
\* the lock taken by the second select of run_due_retries protects the read.
ClaimsExclusive ==
  \A w \in Worker :
    wpc[w] \in {"claimed", "running"} =>
      /\ batch[w] # <<>>
      /\ hold[w] = Head(batch[w])
      /\ Due(hold[w], asof[w])
      /\ \A v \in Worker \ {w} : hold[v] # hold[w]

\* The run that a worker committed as the retry of r, if there is one.
Superseded(r) == \E s \in Run : row[s].parent = r

Retrying(r) == \E w \in Worker : wpc[w] = "running" /\ hold[w] = r

\* The actions of a workflow are run again for a failed run at most once, except
\* for executions that were rolled back (a crash, an unusable session): the
\* started executions are exactly the rolled-back ones and at most one more,
\* which is in progress or recorded as the successor run.
RetriedOnce ==
  \A r \in Run :
    row[r].status # "DELETED" =>
      tries[r] = lost[r] + (IF Retrying(r) \/ Superseded(r) THEN 1 ELSE 0)

\* No failure is forgotten: a FAILED run is scheduled for a retry, or is a dead
\* letter, or has been superseded by the run that retried it.
FailureAccounted ==
  \A r \in Run :
    row[r].status = "FAILED" =>
      Pending(r) \/ row[r].is_dead_letter \/ Superseded(r)

\* Only a FAILED run with tries left is scheduled for a retry: next_retry_at and
\* is_dead_letter, written by four different code paths, never contradict.
ScheduleConsistent ==
  \A r \in Run :
    row[r].next_retry_at # NoTime =>
      /\ row[r].status = "FAILED"
      /\ ~row[r].is_dead_letter
      /\ row[r].retry_count \in 1 .. MaxRetries - 1

\* A chain of retries is a chain: a run has one successor, the successor belongs
\* to the same workflow and is charged more tries than its predecessor, which
\* has left the queue, and no chain is charged more than max_retries.
ChainWellFormed ==
  \A s \in Run :
    LET p == row[s].parent IN
    p # NoRun =>
      /\ row[p].status = "FAILED"
      /\ row[p].next_retry_at = NoTime
      /\ row[s].workflow = row[p].workflow
      /\ row[s].retry_count > row[p].retry_count
      /\ row[s].retry_count <= MaxRetries
      /\ \A t \in Run : row[t].parent = p => t = s

\* The quota is checked and the run inserted without a lock, so it can be
\* overrun. By how much: whoever checks last still stays within the limit with
\* what it sees, and the others may hold back one retry per worker and, per
\* session, a run of every workflow of the tenant (execute_tenant_trigger).
HeldBackByOthers ==
  Cardinality(Worker) + Cardinality(Session) * Cardinality(Workflow)
    - (IF Worker = {} THEN Cardinality(Workflow) ELSE 1)

QuotaOvershootBounded == RunCount <= RunLimit + HeldBackByOthers

\* A due run is eventually retried, charged or given up, although every failing
\* retry ends the pass of the worker that ran it.
DueIsHandled == \A r \in Run : Due(r, now) ~> ~Due(r, now)

-----------------------------------------------------------------------------
(* The queue implements the life cycle of an attempt *)

phaseOf(x) ==
  CASE x.status = "ABSENT" -> "none"
    [] x.status = "DELETED" -> "deleted"
    [] x.status \in {"COMPLETED", "FAILED"} /\ x.is_dead_letter -> "dead"
    [] x.status = "COMPLETED" /\ ~x.is_dead_letter -> "done"
    [] x.status = "FAILED" /\ ~x.is_dead_letter ->
         IF x.next_retry_at = NoTime THEN "superseded" ELSE "waiting"

Lifecycle == INSTANCE AttemptLifecycle WITH
  phase <- [r \in Run |-> phaseOf(row[r])],
  tried <- [r \in Run |-> row[r].retry_count],
  origin <- [r \in Run |-> row[r].parent]

\* Through all interleavings of workers, administrators and deletions, what
\* happens to the rows is what AttemptLifecycle allows: in particular a waiting
\* attempt and its one successor change in a single step.
ImplementsLifecycle == Lifecycle!Spec

-----------------------------------------------------------------------------
(* What the product says of itself, and the code does not do *)

\* "Confirm failed actions mark the run as FAILED": an execution that ends
\* without a crash leaves its run in the table.
ExecutionIsRecorded ==
  [][\A s \in Session :
       spc[s] = "running" /\ spc'[s] # "running" /\ crashes' = crashes =>
         \E r \in Run : row[r].status = "ABSENT" /\ row'[r].status # "ABSENT"]_vars
=============================================================================
