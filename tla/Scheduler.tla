----------------------------- MODULE Scheduler -----------------------------
(***************************************************************************)
(* The workflow scheduler: the schedule columns of the workflows table,    *)
(* run_due_scheduled_workflows (run by the background worker of every API  *)
(* process and by the administrator's run-due request), and the requests   *)
(* that edit a workflow or run it meanwhile. Every workflow here has a     *)
(* SCHEDULED trigger.                                                      *)
(*                                                                         *)
(* A transaction is visible to others only when it commits. A FOR UPDATE   *)
(* lock on a workflow is `hold`; the KEY SHARE lock that an uncommitted    *)
(* run of another session puts on its workflow is `busy`.                  *)
(***************************************************************************)
EXTENDS Naturals, Sequences, FiniteSets, FiniteSetsExt

CONSTANTS
  Workflow,     \* workflows with a SCHEDULED trigger
  Worker,       \* sessions that run run_due_scheduled_workflows
  Editor,       \* requests that edit a workflow at the same time
  Interval,     \* the delay that schedule_cron stands for
  MonthLength,  \* the length of a month
  RunLimit,     \* monthly_runs of the tenant's plan
  MaxTime,      \* bound of the clock
  CrashLimit,   \* bound on process crashes
  LostLimit,    \* bound on scheduled executions lost to a failed flush
  OtherLimit,   \* bound on runs by other sessions
  NoWorkflow, NoTime, NoEdit

ASSUME SchedulerAssumption ==
  /\ IsFiniteSet(Workflow)
  /\ Interval \in Nat \ {0}
  /\ MonthLength \in Nat \ {0}
  /\ RunLimit \in Nat
  /\ MaxTime \in Nat
  /\ CrashLimit \in Nat
  /\ LostLimit \in Nat
  /\ OtherLimit \in Nat
  /\ NoWorkflow \notin Workflow
  /\ NoTime \notin Nat

VARIABLES
  now,      \* the clock
  flow,     \* the committed workflows rows
  used,     \* committed runs of each workflow in the current month
  busy,     \* is there an uncommitted run of the workflow by another session?
  wpc,      \* control state of each worker
  batch,    \* workflow_ids of each worker, the one in hand first
  asof,     \* `now` as each worker read it at the start of its pass
  hold,     \* the workflow each worker holds FOR UPDATE, or NoWorkflow
  edit,     \* the edit each request has in hand, or NoEdit
  moved,    \* history: who wrote next_run_at since the last scheduled run
  crashes, lost, others   \* counters of the bounded events

workerVars == <<wpc, batch, asof, hold>>
counters == <<crashes, lost, others>>
vars == <<now, flow, used, busy, workerVars, edit, moved, counters>>

-----------------------------------------------------------------------------
(* The workflows table *)

\* schedule_cron: one the code supports, one it does not, or NULL.
Cron == {"supported", "unsupported", "none"}

Row ==
  [exists: BOOLEAN,
   is_active: BOOLEAN,
   schedule_enabled: BOOLEAN,
   schedule_cron: Cron,
   configured: BOOLEAN,    \* its actions pass _validate_workflow_configuration
   next_run_at: Nat \cup {NoTime},
   last_scheduled_run_at: Nat \cup {NoTime}]

\* The WHERE clause shared by the two selects of run_due_scheduled_workflows.
Due(x, t) ==
  /\ flow[x].exists
  /\ flow[x].is_active
  /\ flow[x].schedule_enabled
  /\ flow[x].next_run_at # NoTime
  /\ flow[x].next_run_at <= t

Locked(x) == \E w \in Worker : hold[w] = x

\* What the second select (FOR UPDATE SKIP LOCKED) may return.
ClaimableStale(x, t) == flow[x].exists /\ ~Locked(x) /\ ~busy[x]
ClaimableUnlocked(x, t) == Due(x, t) /\ ~busy[x]
Claimable(x, t) == Due(x, t) /\ ~Locked(x) /\ ~busy[x]

\* next_run_from_cron and manual_run_workflow accept the workflow.
Runnable(x) == flow[x].schedule_cron = "supported" /\ flow[x].configured

QuotaExhausted ==
  MapThenSumSet(LAMBDA x : used[x], Workflow) >= RunLimit

NextMonth(t) == ((t \div MonthLength) + 1) * MonthLength

\* What a scheduled run and a deferral write to the workflow.
Scheduled(x, t) ==
  [x EXCEPT !.last_scheduled_run_at = t, !.next_run_at = t + Interval]

Deferred(x, t) == [x EXCEPT !.next_run_at = NextMonth(t)]

-----------------------------------------------------------------------------
(* run_due_scheduled_workflows, one worker *)

\* The first select: every due id, earliest next_run_at first.
SelectDue(w) ==
  LET due == {x \in Workflow : Due(x, now)} IN
  /\ wpc[w] = "idle"
  /\ due # {}
  /\ \E q \in [1 .. Cardinality(due) -> due] :
       /\ \A i, j \in DOMAIN q : i < j =>
            /\ q[i] # q[j]
            /\ flow[q[i]].next_run_at <= flow[q[j]].next_run_at
       /\ batch' = [batch EXCEPT ![w] = q]
  /\ asof' = [asof EXCEPT ![w] = now]
  /\ wpc' = [wpc EXCEPT ![w] = "loop"]
  /\ UNCHANGED <<now, flow, used, busy, hold, edit, moved, counters>>

\* The pass ends: all ids handled, or the process died.
EndPass(w) ==
  /\ batch' = [batch EXCEPT ![w] = <<>>]
  /\ asof' = [asof EXCEPT ![w] = 0]
  /\ wpc' = [wpc EXCEPT ![w] = "idle"]

\* The loop goes on to the next id, whatever became of the one in hand.
EndItemAborting(w) == EndPass(w)
EndItem(w) ==
  \/ /\ Len(batch[w]) = 1
     /\ EndPass(w)
  \/ /\ Len(batch[w]) > 1
     /\ batch' = [batch EXCEPT ![w] = Tail(@)]
     /\ wpc' = [wpc EXCEPT ![w] = "loop"]
     /\ UNCHANGED asof

ReleaseForgotten(w) == UNCHANGED hold

\* Every rollback and commit ends the transaction, and with it the lock.
Release(w) == hold' = [hold EXCEPT ![w] = NoWorkflow]

Claim(w) ==
  LET x == Head(batch[w]) IN
  /\ wpc[w] = "loop"
  /\ Claimable(x, asof[w])
  /\ hold' = [hold EXCEPT ![w] = x]
  /\ wpc' = [wpc EXCEPT ![w] = "claimed"]
  /\ UNCHANGED <<now, flow, used, busy, batch, asof, edit, moved, counters>>

Skip(w) ==
  /\ wpc[w] = "loop"
  /\ ~Claimable(Head(batch[w]), asof[w])
  /\ EndItem(w)
  /\ UNCHANGED <<now, flow, used, busy, hold, edit, moved, counters>>

\* An unsupported schedule (ValueError) or an incomplete configuration (400):
\* rollback. The workflow stays due.
Fail(w) ==
  /\ wpc[w] = "claimed"
  /\ ~Runnable(hold[w])
  /\ Release(w)
  /\ EndItem(w)
  /\ UNCHANGED <<now, flow, used, busy, edit, moved, counters>>

\* enforce_monthly_run_limit raises 402: rollback, which releases the workflow.
Refuse(w) ==
  /\ wpc[w] = "claimed"
  /\ Runnable(hold[w])
  /\ QuotaExhausted
  /\ Release(w)
  /\ wpc' = [wpc EXCEPT ![w] = "refused"]
  /\ UNCHANGED <<now, flow, used, busy, batch, asof, edit, moved, counters>>

\* The deferral writes next_run_at without another look at the workflow; its
\* UPDATE waits for a row lock. On a deleted workflow it does nothing.
Defer(w) ==
  LET x == Head(batch[w]) IN
  /\ wpc[w] = "refused"
  /\ ~Locked(x)
  /\ IF flow[x].exists
     THEN /\ flow' = [flow EXCEPT ![x] = Deferred(@, asof[w])]
          /\ moved' = IF Due(x, asof[w]) THEN moved
                      ELSE [moved EXCEPT ![x] = "deferral"]
     ELSE UNCHANGED <<flow, moved>>
  /\ EndItem(w)
  /\ UNCHANGED <<now, used, busy, hold, edit, counters>>

\* manual_run_workflow passes its checks and starts the actions.
Execute(w) ==
  /\ wpc[w] = "claimed"
  /\ Runnable(hold[w])
  /\ ~QuotaExhausted
  /\ wpc' = [wpc EXCEPT ![w] = "running"]
  /\ UNCHANGED <<now, flow, used, busy, batch, asof, hold, edit, moved, counters>>

\* The run, completed or failed, and the next slot are committed together.
CommitRun(w) ==
  /\ wpc[w] = "running"
  /\ flow' = [flow EXCEPT ![hold[w]] = Scheduled(@, asof[w])]
  /\ moved' = [moved EXCEPT ![hold[w]] = "no"]
  /\ used' = [used EXCEPT ![hold[w]] = @ + 1]
  /\ Release(w)
  /\ EndItem(w)
  /\ UNCHANGED <<now, busy, edit, counters>>

\* A flush inside an action failed: nothing of the run is committed, and the
\* workflow stays due.
FailRun(w) ==
  /\ wpc[w] = "running"
  /\ lost < LostLimit
  /\ lost' = lost + 1
  /\ Release(w)
  /\ EndItem(w)
  /\ UNCHANGED <<now, flow, used, busy, edit, moved, crashes, others>>

CrashWorker(w) ==
  /\ wpc[w] # "idle"
  /\ crashes < CrashLimit
  /\ crashes' = crashes + 1
  /\ Release(w)
  /\ EndPass(w)
  /\ UNCHANGED <<now, flow, used, busy, edit, moved, lost, others>>

WorkerStep(w) ==
  \/ SelectDue(w)
  \/ Claim(w)
  \/ Skip(w)
  \/ Fail(w)
  \/ Refuse(w)
  \/ Defer(w)
  \/ Execute(w)
  \/ CommitRun(w)
  \/ FailRun(w)

-----------------------------------------------------------------------------
(* Runs by other sessions, and the month's count *)

\* A manual run, a retry or a webhook inserts a run: waits for a FOR UPDATE.
StartOther(x) ==
  /\ flow[x].exists
  /\ ~Locked(x)
  /\ ~busy[x]
  /\ others < OtherLimit
  /\ others' = others + 1
  /\ busy' = [busy EXCEPT ![x] = TRUE]
  /\ UNCHANGED <<now, flow, used, workerVars, edit, moved, crashes, lost>>

EndOther(x) ==
  /\ busy[x]
  /\ busy' = [busy EXCEPT ![x] = FALSE]
  /\ \E n \in {0, 1} : used' = [used EXCEPT ![x] = @ + n]
  /\ UNCHANGED <<now, flow, workerVars, edit, moved, counters>>

-----------------------------------------------------------------------------
(* Edits: a request reads the workflow, decides what to write, and writes the *)
(* columns that differ from what it read when its UPDATE gets the row.        *)

\* next_run_from_cron, from the time of the edit.
NextFrom(cron) == IF cron = "supported" THEN now + Interval ELSE NoTime

Changes(old, new) ==
  [c \in {d \in DOMAIN old : new[d] # old[d]} |-> new[c]]

Merged(old, changes) ==
  [c \in DOMAIN old |-> IF c \in DOMAIN changes THEN changes[c] ELSE old[c]]

\* get_workflow, without a lock, and the decision. `sure` is history: does the
\* edit leave a slot that fits, if no other edit is written meanwhile?
ReadForEdit(e, x, new, by) ==
  /\ edit[e] = NoEdit
  /\ flow[x].exists
  /\ new # flow[x]
  /\ edit' = [edit EXCEPT ![e] =
       [flow |-> x, by |-> by, changes |-> Changes(flow[x], new),
        sure |-> moved[x] \in {"no", "edit"}
                 \/ new.next_run_at # flow[x].next_run_at]]
  /\ UNCHANGED <<now, flow, used, busy, workerVars, moved, counters>>

Mover(d, old) ==
  CASE d.by = "admin" -> "admin"
    [] d.by = "edit" /\ ~d.sure -> "overlap"
    [] d.by = "edit" /\ d.sure ->
         IF "next_run_at" \in DOMAIN d.changes THEN "edit" ELSE old

\* The UPDATE waits for a row lock; of a deleted workflow it finds no row.
CommitEdit(e) ==
  LET d == edit[e] IN
  /\ d # NoEdit
  /\ ~Locked(d.flow)
  /\ IF flow[d.flow].exists
     THEN /\ flow' = [flow EXCEPT ![d.flow] = Merged(@, d.changes)]
          /\ moved' = [moved EXCEPT ![d.flow] = Mover(d, @)]
     ELSE UNCHANGED <<flow, moved>>
  /\ edit' = [f \in Editor |->
       IF f = e THEN NoEdit
       ELSE IF edit[f] # NoEdit /\ edit[f].flow = d.flow
            THEN [edit[f] EXCEPT !.sure = FALSE]
            ELSE edit[f]]
  /\ UNCHANGED <<now, used, busy, workerVars, counters>>

\* activate_workflow validates the schedule and the actions.
ActivateWorkflow(e, x) ==
  /\ flow[x].schedule_enabled
  /\ Runnable(x)
  /\ ReadForEdit(e, x, [flow[x] EXCEPT !.is_active = TRUE,
                          !.next_run_at = NextFrom("supported")], "edit")

DeactivateKeepsSlot(e, x) ==
  ReadForEdit(e, x, [flow[x] EXCEPT !.is_active = FALSE], "edit")

DeactivateWorkflow(e, x) ==
  ReadForEdit(e, x, [flow[x] EXCEPT !.is_active = FALSE,
                                    !.next_run_at = NoTime], "edit")

\* update_workflow validates neither: it takes what WorkflowUpdate lets pass,
\* where enabling needs a schedule in the same request, but clearing the
\* schedule does not need disabling. Computing the next slot of an active
\* workflow with an unsupported schedule raises.
UpdateWorkflow(e, x, active, enabled, cron, configured) ==
  /\ cron \in {flow[x].schedule_cron, "supported", "none"}
  /\ enabled /\ ~flow[x].schedule_enabled => cron = "supported"
  /\ ~(enabled /\ active /\ cron = "unsupported")
  /\ ReadForEdit(e, x, [flow[x] EXCEPT
       !.is_active = active,
       !.schedule_enabled = enabled,
       !.schedule_cron = cron,
       !.configured = configured,
       !.next_run_at = IF enabled /\ active THEN NextFrom(cron) ELSE NoTime],
       "edit")

\* update_workflow_schedule, the administrator's: writes what it is given.
AdminSchedule(e, x, enabled, cron, next) ==
  ReadForEdit(e, x, [flow[x] EXCEPT !.schedule_enabled = enabled,
                                    !.schedule_cron = cron,
                                    !.next_run_at = next], "admin")

\* The runs go with the workflow. The DELETE waits for the FOR UPDATE and the
\* KEY SHARE locks.
DeleteWorkflow(x) ==
  /\ flow[x].exists
  /\ ~Locked(x)
  /\ ~busy[x]
  /\ flow' = [flow EXCEPT ![x].exists = FALSE, ![x].is_active = FALSE,
                          ![x].next_run_at = NoTime]
  /\ moved' = [moved EXCEPT ![x] = "edit"]
  /\ used' = [used EXCEPT ![x] = 0]
  /\ UNCHANGED <<now, busy, workerVars, edit, counters>>

\* created_at >= month_start_utc(): a new month starts from no runs.
Tick ==
  /\ now < MaxTime
  /\ now' = now + 1
  /\ used' = IF (now + 1) % MonthLength = 0
             THEN [x \in Workflow |-> 0] ELSE used
  /\ UNCHANGED <<flow, busy, workerVars, edit, moved, counters>>

-----------------------------------------------------------------------------

\* create_workflow: enabled with a supported schedule, its actions unchecked.
Created ==
  {r \in [exists: {TRUE}, is_active: BOOLEAN, schedule_enabled: {TRUE},
          schedule_cron: {"supported"}, configured: BOOLEAN,
          next_run_at: {Interval, NoTime}, last_scheduled_run_at: {NoTime}] :
     r.is_active <=> r.next_run_at # NoTime}

Init ==
  /\ now = 0
  /\ flow \in [Workflow -> Created]
  /\ used = [x \in Workflow |-> 0]
  /\ busy = [x \in Workflow |-> FALSE]
  /\ wpc = [w \in Worker |-> "idle"]
  /\ batch = [w \in Worker |-> <<>>]
  /\ asof = [w \in Worker |-> 0]
  /\ hold = [w \in Worker |-> NoWorkflow]
  /\ edit = [e \in Editor |-> NoEdit]
  /\ moved = [x \in Workflow |-> "no"]
  /\ crashes = 0 /\ lost = 0 /\ others = 0

Engine ==
  \/ \E w \in Worker : WorkerStep(w) \/ CrashWorker(w)
  \/ \E x \in Workflow : StartOther(x) \/ EndOther(x)
  \/ Tick

UserEdit ==
  \/ \E e \in Editor, x \in Workflow :
       \/ ActivateWorkflow(e, x)
       \/ DeactivateWorkflow(e, x)
       \/ \E active, enabled, configured \in BOOLEAN, cron \in Cron :
            UpdateWorkflow(e, x, active, enabled, cron, configured)
  \/ \E e \in Editor : CommitEdit(e)
  \/ \E x \in Workflow : DeleteWorkflow(x)

AdminEdit ==
  \E e \in Editor, x \in Workflow, enabled \in BOOLEAN, cron \in Cron,
     next \in 0 .. MaxTime \cup {NoTime} :
    AdminSchedule(e, x, enabled, cron, next)

Next == Engine \/ UserEdit \/ AdminEdit

Spec == Init /\ [][Next]_vars

\* Every worker loop goes on, and every request ends (they have timeouts).
Fairness ==
  /\ \A w \in Worker : WF_vars(WorkerStep(w))
  /\ \A x \in Workflow : WF_vars(EndOther(x))

\* Nobody edits while the engine works its due workflows off.
EngineSpec == Init /\ [][Engine]_vars /\ Fairness

-----------------------------------------------------------------------------
(* What must hold *)

\* Every column and loop variable has its type, and the lock goes with the place
\* in the loop: each of its exits ends the transaction.
TypeOK ==
  /\ now \in 0 .. MaxTime
  /\ flow \in [Workflow -> Row]
  /\ used \in [Workflow -> Nat]
  /\ busy \in [Workflow -> BOOLEAN]
  /\ wpc \in [Worker -> {"idle", "loop", "claimed", "refused", "running"}]
  /\ batch \in [Worker -> Seq(Workflow)]
  /\ asof \in [Worker -> Nat]
  /\ hold \in [Worker -> Workflow \cup {NoWorkflow}]
  /\ moved \in [Workflow -> {"no", "edit", "admin", "overlap", "deferral"}]
  /\ \A e \in Editor : edit[e] # NoEdit =>
       Merged(flow[edit[e].flow], edit[e].changes) \in Row
  /\ crashes \in 0 .. CrashLimit
  /\ lost \in 0 .. LostLimit
  /\ others \in 0 .. OtherLimit
  /\ \A w \in Worker :
       /\ batch[w] = <<>> <=> wpc[w] = "idle"
       /\ hold[w] = IF wpc[w] \in {"claimed", "running"}
                    THEN Head(batch[w]) ELSE NoWorkflow

\* A scheduled execution is of a workflow that is active and due until its
\* commit, by one worker, whatever is edited meanwhile.
ExecutionsGuarded ==
  \A w \in Worker :
    wpc[w] \in {"claimed", "running"} =>
      /\ Due(hold[w], asof[w])
      /\ ~busy[hold[w]]
      /\ \A v \in Worker \ {w} : hold[v] # hold[w]

\* The run in progress comes a full interval after the last one.
Spaced(w) ==
  LET last == flow[hold[w]].last_scheduled_run_at IN
  last # NoTime => asof[w] >= last + Interval

\* One slot, one run: unless next_run_at was written in between by someone who
\* had not just found the workflow due, scheduled runs of a workflow are an
\* interval apart, although workers start their passes at different times.
RunsSpaced ==
  \A w \in Worker : wpc[w] = "running" /\ moved[hold[w]] = "no" => Spaced(w)

\* An active workflow with a schedule has a next slot and no other has one,
\* whatever sequence of edits and passes came before, and
\* edits decided on what a pass then changed, unless the slot was written last
\* by the administrator's endpoint, by a late deferral, or by one of two edits
\* that overlapped.
SlotMatchesState ==
  \A x \in Workflow : moved[x] \in {"no", "edit"} =>
    LET r == flow[x] IN
    r.next_run_at # NoTime <=>
      r.is_active /\ r.schedule_enabled /\ r.schedule_cron = "supported"

\* A due workflow that can run is eventually executed or deferred, although
\* others that stay due forever come before it in every pass.
DueIsServed ==
  \A x \in Workflow : Due(x, now) /\ Runnable(x) ~> ~Due(x, now)
=============================================================================
