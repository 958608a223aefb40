-------------------------- MODULE Scheduler_proofs --------------------------
(***************************************************************************)
(* Theorems about Scheduler, for every value of its constants.              *)
(***************************************************************************)
EXTENDS Scheduler, FiniteSetTheorems, SequenceTheorems, TLAPS

-----------------------------------------------------------------------------
(* Rows and edits *)

\* What a scheduled run and a deferral write leaves a row, with a slot.
LEMMA WrittenRowType ==
  ASSUME NEW r \in Row, NEW t \in Nat
  PROVE  /\ Scheduled(r, t) \in Row
         /\ Deferred(r, t) \in Row
         /\ NextMonth(t) \in Nat /\ NextMonth(t) > t
<1>1. Scheduled(r, t) \in Row
  <2>1. t + Interval \in Nat
    BY SchedulerAssumption
  <2>2. QED
    BY <2>1 DEF Scheduled, Row
<1>2. NextMonth(t) \in Nat /\ NextMonth(t) > t
  <2> DEFINE m == MonthLength
             q == t \div m
  <2>1. m \in Nat /\ m > 0
    BY SchedulerAssumption
  <2>2. q \in Int /\ m * q <= t /\ t < m * (q + 1)
    BY <2>1, SMTT(30)
  <2>3. q >= 0
    BY <2>1, <2>2, SMTT(30)
  <2>4. NextMonth(t) = (q + 1) * m
    BY DEF NextMonth
  <2>5. (q + 1) * m = m * (q + 1)
    BY <2>1, <2>2
  <2> HIDE DEF q, m
  <2>6. (q + 1) * m \in Int
    BY <2>1, <2>2
  <2>7. QED
    BY <2>1, <2>2, <2>3, <2>4, <2>5, <2>6
<1>3. Deferred(r, t) \in Row
  BY <1>2 DEF Deferred, Row
<1>4. QED
  BY <1>1, <1>2, <1>3

\* The columns of a row that the UPDATE of an edit writes over another row.
LEMMA MergedRow ==
  ASSUME NEW old \in Row, NEW new \in Row, NEW r \in Row
  PROVE  LET c == Changes(old, new)
             m == Merged(r, c)
         IN /\ m \in Row
            /\ DOMAIN c \subseteq DOMAIN old
            /\ \A k \in DOMAIN old : k \in DOMAIN c <=> new[k] # old[k]
            /\ \A k \in DOMAIN old : m[k] = IF k \in DOMAIN c THEN new[k] ELSE r[k]
BY DEF Merged, Changes, Row

-----------------------------------------------------------------------------
(* Type correctness *)

\* Rows, the clock, the count and the bounded events have their types.
TableType ==
  /\ now \in 0 .. MaxTime
  /\ flow \in [Workflow -> Row]
  /\ used \in [Workflow -> Nat]
  /\ busy \in [Workflow -> BOOLEAN]
  /\ moved \in [Workflow -> {"no", "edit", "admin", "overlap", "deferral"}]
  /\ crashes \in 0 .. CrashLimit
  /\ lost \in 0 .. LostLimit
  /\ others \in 0 .. OtherLimit

\* A worker inside a pass has an id in hand, and holds it exactly between its
\* claim and the end of the transaction.
WorkerType ==
  /\ wpc \in [Worker -> {"idle", "loop", "claimed", "refused", "running"}]
  /\ batch \in [Worker -> Seq(Workflow)]
  /\ asof \in [Worker -> Nat]
  /\ hold \in [Worker -> Workflow \cup {NoWorkflow}]
  /\ \A w \in Worker :
       /\ batch[w] = <<>> <=> wpc[w] = "idle"
       /\ hold[w] = IF wpc[w] \in {"claimed", "running"}
                    THEN Head(batch[w]) ELSE NoWorkflow

\* An edit in hand can be written to any row, and neither brings a workflow
\* back nor changes when it last ran.
Edits ==
  [flow : Workflow, by : {"edit", "admin"},
   changes : {Changes(r[1], r[2]) : r \in Row \X Row}, sure : BOOLEAN]

EditType(d) ==
  /\ d \in Edits
  /\ \A r \in Row :
       LET m == Merged(r, d.changes) IN
       /\ m \in Row
       /\ m.exists = r.exists
       /\ m.last_scheduled_run_at = r.last_scheduled_run_at
       /\ "next_run_at" \notin DOMAIN d.changes => m.next_run_at = r.next_run_at

EditsType ==
  /\ edit = [e \in Editor |-> edit[e]]
  /\ \A e \in Editor : edit[e] # NoEdit => EditType(edit[e])

TypeInv == TableType /\ WorkerType /\ EditsType

\* What is left of a list that is not its last.
LEMMA ListParts ==
  ASSUME NEW q \in Seq(Workflow), q # <<>>
  PROVE  /\ Head(q) \in Workflow
         /\ Tail(q) \in Seq(Workflow)
         /\ Len(q) > 1 => Tail(q) # <<>>
<1>1. Len(q) \in Nat \ {0}
  OBVIOUS
<1>2. /\ Head(q) \in Workflow /\ Tail(q) \in Seq(Workflow)
      /\ Len(Tail(q)) = Len(q) - 1
  BY HeadTailProperties
<1>3. Len(q) > 1 => Tail(q) # <<>>
  <2>1. Len(<<>>) = 0
    OBVIOUS
  <2>2. Len(q) > 1 => Len(Tail(q)) # 0
    BY <1>1, <1>2
  <2>3. QED
    BY <2>1, <2>2, Zenon
<1>4. QED
  BY <1>2, <1>3

\* A worker that is not idle has an id in hand, and perhaps others after it.
LEMMA InHand ==
  ASSUME WorkerType, NEW w \in Worker, wpc[w] # "idle"
  PROVE  /\ Head(batch[w]) \in Workflow
         /\ Tail(batch[w]) \in Seq(Workflow)
         /\ Len(batch[w]) > 1 => Tail(batch[w]) # <<>>
BY ListParts DEF WorkerType

\* The end of a pass leaves the worker idle, with nothing in hand or held.
LEMMA EndPassType ==
  ASSUME WorkerType, NEW w \in Worker, EndPass(w),
         hold' = [hold EXCEPT ![w] = NoWorkflow]
  PROVE  WorkerType'
<1>1. <<>> \in Seq(Workflow)
  OBVIOUS
<1>2. QED
  BY <1>1 DEF WorkerType, EndPass

\* So does the end of an item, unless the next one comes to hand.
LEMMA EndItemType ==
  ASSUME WorkerType, NEW w \in Worker, wpc[w] # "idle", EndItem(w),
         hold' = [hold EXCEPT ![w] = NoWorkflow]
  PROVE  WorkerType'
<1>1. CASE EndPass(w)
  BY <1>1, EndPassType
<1>2. CASE /\ Len(batch[w]) > 1
           /\ batch' = [batch EXCEPT ![w] = Tail(@)]
           /\ wpc' = [wpc EXCEPT ![w] = "loop"]
           /\ UNCHANGED asof
  <2> DEFINE rest == Tail(batch[w])
  <2>1. batch' = [batch EXCEPT ![w] = rest]
    BY <1>2
  <2>2. rest \in Seq(Workflow) /\ rest # <<>>
    BY <1>2, InHand
  <2> HIDE DEF rest
  <2>3. batch' \in [Worker -> Seq(Workflow)]
    BY <2>1, <2>2 DEF WorkerType
  <2>4. \A v \in Worker :
          /\ batch'[v] = <<>> <=> wpc'[v] = "idle"
          /\ hold'[v] = IF wpc'[v] \in {"claimed", "running"}
                        THEN Head(batch'[v]) ELSE NoWorkflow
    BY <1>2, <2>1, <2>2 DEF WorkerType
  <2>5. QED
    BY <1>2, <2>3, <2>4 DEF WorkerType
<1>3. QED
  BY <1>1, <1>2 DEF EndItem

\* Without a lock to release, the end of an item is the same.
LEMMA SkipItemType ==
  ASSUME WorkerType, NEW w \in Worker, wpc[w] \in {"loop", "refused"},
         EndItem(w), UNCHANGED hold
  PROVE  WorkerType'
<1>1. hold' = [hold EXCEPT ![w] = NoWorkflow]
  BY DEF WorkerType
<1>2. QED
  BY <1>1, EndItemType

\* What an edit writes over a row depends on the row it was decided from only
\* in the columns that it changes.
LEMMA ReadEditType ==
  ASSUME TypeInv, NEW e \in Editor, NEW x \in Workflow, NEW new \in Row,
         NEW by \in {"edit", "admin"}, ReadForEdit(e, x, new, by),
         new.exists = flow[x].exists,
         new.last_scheduled_run_at = flow[x].last_scheduled_run_at
  PROVE  TypeInv'
<1> DEFINE old == flow[x]
           ch == Changes(old, new)
           d == [flow |-> x, by |-> by, changes |-> ch,
                 sure |-> moved[x] \in {"no", "edit"}
                          \/ new.next_run_at # flow[x].next_run_at]
<1>1. old \in Row
  BY DEF TypeInv, TableType
<1>2. edit' = [edit EXCEPT ![e] = d]
  BY DEF ReadForEdit
<1>3. ASSUME NEW r \in Row
      PROVE  LET m == Merged(r, ch) IN
             /\ m \in Row
             /\ m.exists = r.exists
             /\ m.last_scheduled_run_at = r.last_scheduled_run_at
             /\ "next_run_at" \notin DOMAIN ch => m.next_run_at = r.next_run_at
  <2>1. DOMAIN old = {"exists", "is_active", "schedule_enabled", "schedule_cron",
                      "configured", "next_run_at", "last_scheduled_run_at"}
    BY <1>1 DEF Row
  <2>2. /\ Merged(r, ch) \in Row
        /\ \A k \in DOMAIN old : k \in DOMAIN ch <=> new[k] # old[k]
        /\ \A k \in DOMAIN old : Merged(r, ch)[k] = IF k \in DOMAIN ch THEN new[k] ELSE r[k]
    BY <1>1, MergedRow
  <2> HIDE DEF old, ch
  <2>3. /\ Merged(r, ch)["exists"] = r["exists"]
        /\ Merged(r, ch)["last_scheduled_run_at"] = r["last_scheduled_run_at"]
        /\ "next_run_at" \notin DOMAIN ch => Merged(r, ch)["next_run_at"] = r["next_run_at"]
    BY <2>1, <2>2 DEF old
  <2>4. QED
    BY <2>2, <2>3
<1>4. EditType(d)
  <2>1. ch \in {Changes(r[1], r[2]) : r \in Row \X Row}
    <3>1. <<old, new>> \in Row \X Row
      BY <1>1
    <3>2. QED
      BY <3>1
  <2> HIDE DEF ch
  <2>2. d \in Edits
    BY <2>1 DEF Edits
  <2>3. d.changes = ch
    OBVIOUS
  <2> HIDE DEF d
  <2>4. QED
    BY <1>3, <2>2, <2>3 DEF EditType
<1> HIDE DEF d
<1>5. EditsType'
  BY <1>2, <1>4 DEF TypeInv, EditsType
<1>6. TableType' /\ WorkerType'
  BY DEF ReadForEdit, TypeInv, TableType, WorkerType, workerVars, counters
<1>7. QED
  BY <1>5, <1>6 DEF TypeInv

\* The initial states have their types.
LEMMA TypeInit == Init => TypeInv
<1> SUFFICES ASSUME Init PROVE TypeInv
  OBVIOUS
<1>1. Created \subseteq Row
  BY SchedulerAssumption DEF Created, Row, Cron
<1>2. TableType
  BY <1>1, SchedulerAssumption DEF Init, TableType
<1>3. <<>> \in Seq(Workflow)
  OBVIOUS
<1>4. WorkerType
  BY <1>3 DEF Init, WorkerType
<1>5. EditsType
  BY DEF Init, EditsType
<1>6. QED
  BY <1>2, <1>4, <1>5 DEF TypeInv

\* The first select lists workflows.
LEMMA SelectDueType ==
  ASSUME TypeInv, NEW w \in Worker, SelectDue(w)
  PROVE  TypeInv'
<1> DEFINE due == {x \in Workflow : Due(x, now)}
<1>1. IsFiniteSet(due)
  BY SchedulerAssumption, FS_Subset
<1>2. Cardinality(due) \in Nat /\ (due # {} => Cardinality(due) # 0)
  BY <1>1, FS_CardinalityType, FS_EmptySet
<1>3. PICK q \in [1 .. Cardinality(due) -> due] : batch' = [batch EXCEPT ![w] = q]
  BY DEF SelectDue
<1>4. due # {} /\ asof' = [asof EXCEPT ![w] = now]
      /\ wpc[w] = "idle" /\ wpc' = [wpc EXCEPT ![w] = "loop"]
      /\ UNCHANGED <<now, flow, used, busy, hold, edit, moved, counters>>
  BY DEF SelectDue
<1> HIDE DEF due
<1>5. q \in Seq(Workflow) /\ q # <<>>
  <2>1. due \subseteq Workflow
    BY DEF due
  <2>2. q \in Seq(Workflow) /\ Len(q) = Cardinality(due)
    BY <1>2, <1>3, <2>1
  <2>3. QED
    BY <1>2, <1>4, <2>2
<1>6. WorkerType'
  <2>1. now \in Nat
    BY SchedulerAssumption DEF TypeInv, TableType
  <2>2. QED
    BY <1>3, <1>4, <1>5, <2>1 DEF TypeInv, WorkerType
<1>7. TableType' /\ EditsType'
  BY <1>4 DEF TypeInv, TableType, EditsType, counters
<1>8. QED
  BY <1>6, <1>7 DEF TypeInv

\* The other steps of a worker that leave the table alone.
LEMMA PassStepType ==
  ASSUME TypeInv, NEW w \in Worker,
         Claim(w) \/ Skip(w) \/ Fail(w) \/ Refuse(w) \/ Execute(w) \/ FailRun(w)
                  \/ CrashWorker(w)
  PROVE  TypeInv'
<1>1. WorkerType /\ TableType /\ EditsType
  BY DEF TypeInv
<1>2. TableType' /\ EditsType'
  <2>1. UNCHANGED <<now, flow, used, busy, moved, edit, others>>
    BY DEF Claim, Skip, Fail, Refuse, Execute, FailRun, CrashWorker, counters
  <2>2. crashes' \in 0 .. CrashLimit /\ lost' \in 0 .. LostLimit
    BY <1>1, SchedulerAssumption
       DEF Claim, Skip, Fail, Refuse, Execute, FailRun, CrashWorker, counters, TableType
  <2>3. QED
    BY <1>1, <2>1, <2>2 DEF TableType, EditsType
<1>3. WorkerType'
  <2>1. CASE Claim(w)
    <3>1. Head(batch[w]) \in Workflow
      BY <1>1, <2>1, InHand DEF Claim
    <3>2. QED
      BY <1>1, <2>1, <3>1 DEF Claim, WorkerType
  <2>2. CASE Skip(w)
    BY <1>1, <2>2, SkipItemType DEF Skip
  <2>3. CASE Fail(w) \/ FailRun(w)
    BY <1>1, <2>3, EndItemType DEF Fail, FailRun, Release
  <2>4. CASE Refuse(w)
    BY <1>1, <2>4 DEF Refuse, Release, WorkerType
  <2>5. CASE Execute(w)
    BY <1>1, <2>5 DEF Execute, WorkerType
  <2>6. CASE CrashWorker(w)
    BY <1>1, <2>6, EndPassType DEF CrashWorker, Release
  <2>7. QED
    BY <2>1, <2>2, <2>3, <2>4, <2>5, <2>6
<1>4. QED
  BY <1>2, <1>3 DEF TypeInv

\* The steps of a worker that write a workflow.
LEMMA WriteStepType ==
  ASSUME TypeInv, NEW w \in Worker, Defer(w) \/ CommitRun(w)
  PROVE  TypeInv'
<1>1. WorkerType /\ TableType /\ EditsType
  BY DEF TypeInv
<1>2. asof[w] \in Nat
  BY <1>1 DEF WorkerType
<1>3. Head(batch[w]) \in Workflow
  BY <1>1, InHand DEF Defer, CommitRun
<1>4. CASE Defer(w)
  <2>1. WorkerType'
    BY <1>1, <1>4, SkipItemType DEF Defer
  <2>2. TableType' /\ EditsType'
    <3>1. flow' \in [Workflow -> Row]
      <4>1. flow[Head(batch[w])] \in Row
        BY <1>1, <1>3 DEF TableType
      <4>2. Deferred(flow[Head(batch[w])], asof[w]) \in Row
        BY <1>2, <4>1, WrittenRowType
      <4>3. QED
        BY <1>1, <1>3, <1>4, <4>2 DEF Defer, TableType
    <3>2. QED
      BY <1>1, <1>4, <3>1 DEF Defer, TableType, EditsType, counters
  <2>3. QED
    BY <2>1, <2>2 DEF TypeInv
<1>5. CASE CommitRun(w)
  <2>1. WorkerType'
    BY <1>1, <1>5, EndItemType DEF CommitRun, Release
  <2>2. TableType' /\ EditsType'
    <3>1. hold[w] \in Workflow
      BY <1>1, <1>3, <1>5 DEF CommitRun, WorkerType
    <3>2. flow' \in [Workflow -> Row]
      <4>1. flow[hold[w]] \in Row
        BY <1>1, <3>1 DEF TableType
      <4>2. Scheduled(flow[hold[w]], asof[w]) \in Row
        BY <1>2, <4>1, WrittenRowType
      <4>3. QED
        BY <1>1, <3>1, <1>5, <4>2 DEF CommitRun, TableType
    <3>3. QED
      BY <1>1, <1>5, <3>1, <3>2 DEF CommitRun, TableType, EditsType, counters
  <2>3. QED
    BY <2>1, <2>2 DEF TypeInv
<1>6. QED
  BY <1>4, <1>5

\* Runs of other sessions and the clock.
LEMMA OtherStepType ==
  ASSUME TypeInv,
         Tick \/ \E x \in Workflow : StartOther(x) \/ EndOther(x)
  PROVE  TypeInv'
<1>1. WorkerType' /\ EditsType'
  BY DEF Tick, StartOther, EndOther, TypeInv, WorkerType, EditsType, workerVars
<1>2. CASE Tick
  <2>1. now' \in 0 .. MaxTime
    BY <1>2, SchedulerAssumption DEF Tick, TypeInv, TableType
  <2>2. used' \in [Workflow -> Nat]
    BY <1>2 DEF Tick, TypeInv, TableType
  <2>3. QED
    BY <1>1, <1>2, <2>1, <2>2 DEF Tick, TypeInv, TableType, counters
<1>3. ASSUME NEW x \in Workflow, StartOther(x)
      PROVE  TypeInv'
  BY <1>1, <1>3, SchedulerAssumption DEF StartOther, TypeInv, TableType
<1>4. ASSUME NEW x \in Workflow, EndOther(x)
      PROVE  TypeInv'
  BY <1>1, <1>4 DEF EndOther, TypeInv, TableType, counters
<1>5. QED
  BY <1>2, <1>3, <1>4

\* The slot an edit computes.
LEMMA NextFromType ==
  ASSUME TypeInv, NEW cron
  PROVE  /\ NextFrom(cron) \in Nat \cup {NoTime}
         /\ NextFrom(cron) # NoTime <=> cron = "supported"
BY SchedulerAssumption DEF NextFrom, TypeInv, TableType

\* A row that is to be run, and one whose slot agrees with that.
Wants(r) == r.is_active /\ r.schedule_enabled /\ r.schedule_cron = "supported"

Fits(r) == r.next_run_at # NoTime <=> Wants(r)

\* What each kind of edit decides to write: a row that ran last when the old one
\* did, with a slot that fits unless it is the administrator's.
LEMMA EditDecides ==
  ASSUME TypeInv, NEW e \in Editor, NEW x \in Workflow,
         \/ ActivateWorkflow(e, x)
         \/ DeactivateWorkflow(e, x)
         \/ \E active, enabled, configured \in BOOLEAN, cron \in Cron :
              UpdateWorkflow(e, x, active, enabled, cron, configured)
         \/ \E enabled \in BOOLEAN, cron \in Cron, next \in 0 .. MaxTime \cup {NoTime} :
              AdminSchedule(e, x, enabled, cron, next)
  PROVE  \E new \in Row, by \in {"edit", "admin"} :
           /\ ReadForEdit(e, x, new, by)
           /\ new.exists = flow[x].exists
           /\ new.last_scheduled_run_at = flow[x].last_scheduled_run_at
           /\ by = "edit" => Fits(new)
<1>1. flow[x] \in Row
  BY DEF TypeInv, TableType
<1>2. CASE ActivateWorkflow(e, x)
  <2> DEFINE new == [flow[x] EXCEPT !.is_active = TRUE,
                                    !.next_run_at = NextFrom("supported")]
  <2>1. new \in Row /\ Fits(new)
    BY <1>1, <1>2, NextFromType DEF ActivateWorkflow, Runnable, Row, Fits, Wants
  <2>2. QED
    BY <1>1, <1>2, <2>1 DEF ActivateWorkflow, Row
<1>3. CASE DeactivateWorkflow(e, x)
  <2> DEFINE new == [flow[x] EXCEPT !.is_active = FALSE, !.next_run_at = NoTime]
  <2>1. new \in Row /\ Fits(new)
    BY <1>1 DEF Row, Fits, Wants
  <2>2. QED
    BY <1>1, <1>3, <2>1 DEF DeactivateWorkflow, Row
<1>4. ASSUME NEW active \in BOOLEAN, NEW enabled \in BOOLEAN,
             NEW configured \in BOOLEAN, NEW cron \in Cron,
             UpdateWorkflow(e, x, active, enabled, cron, configured)
      PROVE  \E new \in Row, by \in {"edit", "admin"} :
               /\ ReadForEdit(e, x, new, by)
               /\ new.exists = flow[x].exists
               /\ new.last_scheduled_run_at = flow[x].last_scheduled_run_at
               /\ by = "edit" => Fits(new)
  <2> DEFINE slot == IF enabled /\ active THEN NextFrom(cron) ELSE NoTime
             new == [flow[x] EXCEPT !.is_active = active, !.schedule_enabled = enabled,
                       !.schedule_cron = cron, !.configured = configured,
                       !.next_run_at = slot]
  <2>1. slot \in Nat \cup {NoTime}
    BY NextFromType
  <2>2. slot # NoTime <=> active /\ enabled /\ cron = "supported"
    BY NextFromType
  <2>3. ReadForEdit(e, x, new, "edit")
    BY <1>4 DEF UpdateWorkflow
  <2> HIDE DEF slot
  <2>4. new \in Row /\ Fits(new)
    BY <1>1, <2>1, <2>2 DEF Row, Fits, Wants
  <2>5. QED
    BY <1>1, <2>3, <2>4 DEF Row
<1>5. ASSUME NEW enabled \in BOOLEAN, NEW cron \in Cron,
             NEW next \in 0 .. MaxTime \cup {NoTime},
             AdminSchedule(e, x, enabled, cron, next)
      PROVE  \E new \in Row, by \in {"edit", "admin"} :
               /\ ReadForEdit(e, x, new, by)
               /\ new.exists = flow[x].exists
               /\ new.last_scheduled_run_at = flow[x].last_scheduled_run_at
               /\ by = "edit" => Fits(new)
  <2> DEFINE new == [flow[x] EXCEPT !.schedule_enabled = enabled,
                                    !.schedule_cron = cron, !.next_run_at = next]
  <2>1. new \in Row
    <3>1. next \in Nat \cup {NoTime}
      BY SchedulerAssumption
    <3>2. QED
      BY <1>1, <3>1 DEF Row
  <2>2. QED
    BY <1>1, <1>5, <2>1 DEF AdminSchedule, Row
<1>6. QED
  BY <1>2, <1>3, <1>4, <1>5

\* Who moved the slot, when an edit is written.
LEMMA MoverType ==
  ASSUME NEW d, EditType(d), NEW old \in {"no", "edit", "admin", "overlap", "deferral"}
  PROVE  Mover(d, old) \in {"no", "edit", "admin", "overlap", "deferral"}
BY DEF EditType, Edits, Mover

\* An edit that is no longer sure of its slot is otherwise as it was.
LEMMA UnsureType ==
  ASSUME NEW d, EditType(d)
  PROVE  LET u == [d EXCEPT !.sure = FALSE] IN
         /\ EditType(u)
         /\ u.flow = d.flow /\ u.by = d.by /\ u.changes = d.changes /\ ~u.sure
<1> DEFINE u == [d EXCEPT !.sure = FALSE]
<1>1. u \in Edits /\ u.flow = d.flow /\ u.by = d.by /\ u.changes = d.changes /\ ~u.sure
  BY DEF EditType, Edits
<1> HIDE DEF u
<1>2. QED
  BY <1>1 DEF EditType, u

\* An edit is written, if its workflow is still there; those that overlap it are
\* no longer sure of theirs.
LEMMA CommitEditType ==
  ASSUME TypeInv, NEW e \in Editor, CommitEdit(e)
  PROVE  TypeInv'
<1> DEFINE d == edit[e]
           unsure(f) == [edit[f] EXCEPT !.sure = FALSE]
<1>1. EditType(d) /\ d.flow \in Workflow
  BY DEF CommitEdit, TypeInv, EditsType, EditType, Edits
<1>2. flow[d.flow] \in Row /\ moved[d.flow] \in {"no", "edit", "admin", "overlap", "deferral"}
  BY <1>1 DEF TypeInv, TableType
<1>3. /\ Merged(flow[d.flow], d.changes) \in Row
      /\ Mover(d, moved[d.flow]) \in {"no", "edit", "admin", "overlap", "deferral"}
  BY <1>1, <1>2, MoverType DEF EditType
<1>4. TableType'
  BY <1>1, <1>3 DEF CommitEdit, TypeInv, TableType, counters
<1>5. WorkerType'
  BY DEF CommitEdit, TypeInv, WorkerType, workerVars
<1>6. EditsType'
  <2>1. ASSUME NEW f \in Editor, edit'[f] # NoEdit
        PROVE  EditType(edit'[f])
    <3>1. EditType(edit[f]) /\ edit'[f] \in {edit[f], unsure(f)}
      BY <2>1 DEF CommitEdit, TypeInv, EditsType
    <3>2. EditType(unsure(f))
      BY <3>1, UnsureType
    <3>3. QED
      BY <3>1, <3>2
  <2>2. edit' = [f \in Editor |-> edit'[f]]
    BY DEF CommitEdit
  <2>3. QED
    BY <2>1, <2>2 DEF EditsType
<1>7. QED
  BY <1>4, <1>5, <1>6 DEF TypeInv

\* A workflow is deleted.
LEMMA DeleteType ==
  ASSUME TypeInv, NEW x \in Workflow, DeleteWorkflow(x)
  PROVE  TypeInv'
<1>1. flow[x] \in Row
  BY DEF TypeInv, TableType
<1>2. flow' \in [Workflow -> Row]
  BY <1>1 DEF DeleteWorkflow, TypeInv, TableType, Row
<1>3. QED
  BY <1>2 DEF DeleteWorkflow, TypeInv, TableType, WorkerType, EditsType,
              workerVars, counters

\* The steps, by what they touch: the workers' lists, a workflow by a worker,
\* the clock and other sessions, the edits in hand, a workflow by an edit.
LEMMA Steps ==
  ASSUME TypeInv, [Next]_vars
  PROVE  \/ UNCHANGED vars
         \/ \E w \in Worker : SelectDue(w)
         \/ \E w \in Worker : Claim(w) \/ Skip(w) \/ Fail(w) \/ Refuse(w)
                              \/ Execute(w) \/ FailRun(w) \/ CrashWorker(w)
         \/ \E w \in Worker : Defer(w) \/ CommitRun(w)
         \/ Tick \/ \E x \in Workflow : StartOther(x) \/ EndOther(x)
         \/ \E e \in Editor, x \in Workflow, new \in Row, by \in {"edit", "admin"} :
              /\ ReadForEdit(e, x, new, by)
              /\ new.exists = flow[x].exists
              /\ new.last_scheduled_run_at = flow[x].last_scheduled_run_at
              /\ by = "edit" => Fits(new)
         \/ \E e \in Editor : CommitEdit(e)
         \/ \E x \in Workflow : DeleteWorkflow(x)
<1> DEFINE Decided ==
      \E e \in Editor, x \in Workflow, new \in Row, by \in {"edit", "admin"} :
        /\ ReadForEdit(e, x, new, by)
        /\ new.exists = flow[x].exists
        /\ new.last_scheduled_run_at = flow[x].last_scheduled_run_at
        /\ by = "edit" => Fits(new)
<1>1. CASE AdminEdit
  <2>1. Decided
    BY <1>1, EditDecides DEF AdminEdit
  <2>2. QED
    BY <2>1
<1>2. ASSUME NEW e \in Editor, NEW x \in Workflow,
             \/ ActivateWorkflow(e, x)
             \/ DeactivateWorkflow(e, x)
             \/ \E active, enabled, configured \in BOOLEAN, cron \in Cron :
                  UpdateWorkflow(e, x, active, enabled, cron, configured)
      PROVE  Decided
  BY <1>2, EditDecides
<1> HIDE DEF Decided
<1>3. CASE UserEdit
  <2>1. Decided \/ (\E e \in Editor : CommitEdit(e))
                \/ (\E x \in Workflow : DeleteWorkflow(x))
    BY <1>2, <1>3, Zenon DEF UserEdit
  <2>2. QED
    BY <2>1, Zenon DEF Decided
<1>4. CASE Engine
  BY <1>4, Zenon DEF Engine, WorkerStep
<1>5. QED
  BY <1>1, <1>3, <1>4, Zenon DEF Next

\* Every step keeps the types.
LEMMA TypeStep ==
  ASSUME TypeInv, [Next]_vars
  PROVE  TypeInv'
<1>1. CASE UNCHANGED vars
  BY <1>1 DEF vars, workerVars, counters, TypeInv, TableType, WorkerType, EditsType
<1>2. QED
  BY <1>1, Steps, SelectDueType, PassStepType, WriteStepType, OtherStepType,
     ReadEditType, CommitEditType, DeleteType

\* The invariant says what TypeOK does.
LEMMA TypeInvImplies == TypeInv => TypeOK
<1> SUFFICES ASSUME TypeInv PROVE TypeOK
  OBVIOUS
<1>1. \A e \in Editor : edit[e] # NoEdit =>
        Merged(flow[edit[e].flow], edit[e].changes) \in Row
  BY DEF TypeInv, TableType, EditsType, EditType, Edits
<1>2. QED
  BY <1>1 DEF TypeOK, TypeInv, TableType, WorkerType

\* Columns, loop variables and edits in hand keep their types, and the lock goes
\* with the place in the loop, for every number of workflows, workers and
\* requests.
THEOREM TypeCorrect == Spec => []TypeOK
<1>1. TypeInv /\ [Next]_vars => TypeInv'
  BY TypeStep
<1>2. QED
  BY <1>1, TypeInit, TypeInvImplies, PTL DEF Spec

-----------------------------------------------------------------------------
(* Scheduled executions *)

Held(w) == wpc[w] \in {"claimed", "running"}

\* ExecutionsGuarded, and a running execution is of a supported schedule.
GuardInv ==
  \A w \in Worker : Held(w) =>
    /\ Due(hold[w], asof[w])
    /\ ~busy[hold[w]]
    /\ wpc[w] = "running" => flow[hold[w]].schedule_cron = "supported"
    /\ \A v \in Worker \ {w} : hold[v] # hold[w]

\* A worker holds a workflow exactly while it is between claim and commit.
LEMMA HeldWorkflow ==
  ASSUME WorkerType, NEW w \in Worker
  PROVE  /\ Held(w) => hold[w] \in Workflow
         /\ ~Held(w) => hold[w] = NoWorkflow
<1>1. CASE Held(w)
  BY <1>1, InHand DEF WorkerType, Held
<1>2. CASE ~Held(w)
  BY <1>2 DEF WorkerType, Held
<1>3. QED
  BY <1>1, <1>2

\* After an item a worker is out of the transaction; the others are where they
\* were.
LEMMA EndItemFrame ==
  ASSUME WorkerType, NEW w \in Worker, EndItem(w) \/ EndPass(w)
  PROVE  /\ wpc'[w] \in {"idle", "loop"}
         /\ \A v \in Worker \ {w} : wpc'[v] = wpc[v] /\ asof'[v] = asof[v]
BY DEF WorkerType, EndItem, EndPass

\* A step that claims and starts nothing, and leaves alone what is held, leaves
\* the executions guarded.
LEMMA GuardFrame ==
  ASSUME TypeInv, TypeInv', GuardInv,
         \A v \in Worker : Held(v)' =>
           /\ Held(v) /\ hold'[v] = hold[v] /\ asof'[v] = asof[v]
           /\ wpc'[v] = wpc[v]
           /\ flow'[hold[v]] = flow[hold[v]]
           /\ busy'[hold[v]] = busy[hold[v]]
  PROVE  GuardInv'
<1> SUFFICES ASSUME NEW w \in Worker, Held(w)'
             PROVE  /\ Due(hold[w], asof[w])'
                    /\ ~busy'[hold'[w]]
                    /\ wpc'[w] = "running" => flow'[hold'[w]].schedule_cron = "supported"
                    /\ \A v \in Worker \ {w} : hold'[v] # hold'[w]
  BY DEF GuardInv
<1>1. /\ Held(w) /\ hold'[w] = hold[w] /\ asof'[w] = asof[w] /\ wpc'[w] = wpc[w]
      /\ flow'[hold[w]] = flow[hold[w]] /\ busy'[hold[w]] = busy[hold[w]]
  OBVIOUS
<1>2. Due(hold[w], asof[w])'
  BY <1>1 DEF GuardInv, Due
<1>3. ASSUME NEW v \in Worker \ {w}
      PROVE  hold'[v] # hold'[w]
  <2>1. CASE Held(v)'
    BY <1>1, <2>1 DEF GuardInv
  <2>2. CASE ~Held(v)'
    <3>1. hold'[v] = NoWorkflow
      BY <2>2 DEF TypeInv, WorkerType, Held
    <3>2. hold[w] \in Workflow
      BY <1>1, HeldWorkflow DEF TypeInv
    <3>3. QED
      BY <1>1, <3>1, <3>2, SchedulerAssumption
  <2>3. QED
    BY <2>1, <2>2
<1>4. QED
  BY <1>1, <1>2, <1>3 DEF GuardInv

\* Every step keeps the executions guarded.
LEMMA GuardStep ==
  ASSUME TypeInv, TypeInv', GuardInv, [Next]_vars
  PROVE  GuardInv'
<1> DEFINE Kept(v) ==
      /\ Held(v) /\ hold'[v] = hold[v] /\ asof'[v] = asof[v]
      /\ wpc'[v] = wpc[v]
      /\ flow'[hold[v]] = flow[hold[v]]
      /\ busy'[hold[v]] = busy[hold[v]]
<1>0. WorkerType /\ TableType
  BY DEF TypeInv
<1>1. CASE UNCHANGED vars
  BY <1>1, GuardFrame DEF vars, workerVars, Held
<1>2. ASSUME NEW w \in Worker, SelectDue(w)
      PROVE  GuardInv'
  <2>1. \A v \in Worker : Held(v)' => Kept(v)
    BY <1>0, <1>2 DEF SelectDue, Held, WorkerType
  <2>2. QED
    BY <2>1, GuardFrame
<1>3. ASSUME NEW w \in Worker, Claim(w)
      PROVE  GuardInv'
  <2> DEFINE x == Head(batch[w])
  <2>1. x \in Workflow /\ Due(x, asof[w]) /\ ~busy[x] /\ \A v \in Worker : hold[v] # x
    BY <1>0, <1>3, InHand DEF Claim, Claimable, Locked
  <2> HIDE DEF x
  <2>2. /\ wpc'[w] = "claimed" /\ hold'[w] = x
        /\ \A v \in Worker \ {w} : wpc'[v] = wpc[v] /\ hold'[v] = hold[v]
        /\ UNCHANGED <<flow, busy, asof>>
    BY <1>0, <1>3 DEF Claim, WorkerType, x
  <2>3. QED
    BY <2>1, <2>2 DEF GuardInv, Held, Due
<1>4. ASSUME NEW w \in Worker, Execute(w)
      PROVE  GuardInv'
  <2>1. /\ wpc[w] = "claimed" /\ wpc'[w] = "running"
        /\ flow[hold[w]].schedule_cron = "supported"
        /\ \A v \in Worker \ {w} : wpc'[v] = wpc[v]
        /\ UNCHANGED <<flow, busy, asof, hold>>
    BY <1>0, <1>4 DEF Execute, Runnable, WorkerType
  <2>2. QED
    BY <2>1 DEF GuardInv, Held, Due
<1>5. ASSUME NEW w \in Worker, Skip(w) \/ Fail(w) \/ FailRun(w) \/ CrashWorker(w)
      PROVE  GuardInv'
  <2>1. UNCHANGED <<flow, busy>> /\ \A v \in Worker \ {w} : hold'[v] = hold[v]
    BY <1>0, <1>5 DEF Skip, Fail, FailRun, CrashWorker, Release, WorkerType
  <2>2. /\ wpc'[w] \in {"idle", "loop"}
        /\ \A v \in Worker \ {w} : wpc'[v] = wpc[v] /\ asof'[v] = asof[v]
    BY <1>0, <1>5, EndItemFrame DEF Skip, Fail, FailRun, CrashWorker
  <2>3. \A v \in Worker : Held(v)' => Kept(v)
    BY <2>1, <2>2 DEF Held
  <2>4. QED
    BY <2>3, GuardFrame
<1>6. ASSUME NEW w \in Worker, Refuse(w)
      PROVE  GuardInv'
  <2>1. \A v \in Worker : Held(v)' => Kept(v)
    BY <1>0, <1>6 DEF Refuse, Release, Held, WorkerType
  <2>2. QED
    BY <2>1, GuardFrame
<1>7. ASSUME NEW w \in Worker, Defer(w)
      PROVE  GuardInv'
  <2> DEFINE x == Head(batch[w])
  <2>1. x \in Workflow /\ \A v \in Worker : hold[v] # x
    BY <1>0, <1>7, InHand DEF Defer, Locked
  <2>2. UNCHANGED <<hold, busy>> /\ \A y \in Workflow \ {x} : flow'[y] = flow[y]
    BY <1>0, <1>7 DEF Defer, TableType
  <2>3. /\ wpc'[w] \in {"idle", "loop"}
        /\ \A v \in Worker \ {w} : wpc'[v] = wpc[v] /\ asof'[v] = asof[v]
    BY <1>0, <1>7, EndItemFrame DEF Defer
  <2> HIDE DEF x
  <2>4. \A v \in Worker : Held(v)' => Kept(v)
    BY <1>0, <2>1, <2>2, <2>3, HeldWorkflow DEF Held
  <2>5. QED
    BY <2>4, GuardFrame
<1>8. ASSUME NEW w \in Worker, CommitRun(w)
      PROVE  GuardInv'
  <2>1. /\ UNCHANGED busy
        /\ \A y \in Workflow \ {hold[w]} : flow'[y] = flow[y]
        /\ \A v \in Worker \ {w} : hold'[v] = hold[v]
    BY <1>0, <1>8 DEF CommitRun, Release, TableType, WorkerType
  <2>2. /\ wpc'[w] \in {"idle", "loop"}
        /\ \A v \in Worker \ {w} : wpc'[v] = wpc[v] /\ asof'[v] = asof[v]
    BY <1>0, <1>8, EndItemFrame DEF CommitRun
  <2>3. \A v \in Worker \ {w} : hold[v] # hold[w]
    BY <1>8 DEF CommitRun, GuardInv, Held
  <2>4. \A v \in Worker : Held(v)' => Kept(v)
    BY <1>0, <2>1, <2>2, <2>3, HeldWorkflow DEF Held
  <2>5. QED
    BY <2>4, GuardFrame
<1>9. CASE Tick
  BY <1>9, GuardFrame DEF Tick, workerVars, Held
<1>10. ASSUME NEW x \in Workflow, StartOther(x) \/ EndOther(x)
       PROVE  GuardInv'
  <2>1. UNCHANGED <<flow, workerVars>> /\ \A y \in Workflow \ {x} : busy'[y] = busy[y]
    BY <1>0, <1>10 DEF StartOther, EndOther, TableType
  <2>2. \A v \in Worker : Held(v) => hold[v] # x
    BY <1>10 DEF StartOther, EndOther, Locked, GuardInv
  <2>3. \A v \in Worker : Held(v)' => Kept(v)
    BY <1>0, <2>1, <2>2, HeldWorkflow DEF Held, workerVars
  <2>4. QED
    BY <2>3, GuardFrame
<1>11. ASSUME NEW e \in Editor, NEW x, NEW new, NEW by, ReadForEdit(e, x, new, by)
       PROVE  GuardInv'
  BY <1>11, GuardFrame DEF ReadForEdit, workerVars, Held
<1>12. ASSUME NEW x \in Workflow, UNCHANGED <<workerVars, busy>>, ~Locked(x),
              \A y \in Workflow \ {x} : flow'[y] = flow[y]
       PROVE  GuardInv'
  <2>1. \A v \in Worker : hold[v] # x
    BY <1>12 DEF Locked
  <2>2. \A v \in Worker : Held(v)' => Kept(v)
    BY <1>0, <1>12, <2>1, HeldWorkflow DEF Held, workerVars
  <2>3. QED
    BY <2>2, GuardFrame
<1>13. ASSUME NEW e \in Editor, CommitEdit(e)
       PROVE  GuardInv'
  <2>1. edit[e].flow \in Workflow
    BY <1>13 DEF CommitEdit, TypeInv, EditsType, EditType, Edits
  <2>2. \A y \in Workflow \ {edit[e].flow} : flow'[y] = flow[y]
    BY <1>0, <1>13 DEF CommitEdit, TableType
  <2>3. QED
    BY <1>12, <1>13, <2>1, <2>2 DEF CommitEdit
<1>14. ASSUME NEW x \in Workflow, DeleteWorkflow(x)
       PROVE  GuardInv'
  <2>1. \A y \in Workflow \ {x} : flow'[y] = flow[y]
    BY <1>0, <1>14 DEF DeleteWorkflow, TableType
  <2>2. QED
    BY <1>12, <1>14, <2>1 DEF DeleteWorkflow
<1> HIDE DEF Kept
<1>15. QED
  BY <1>1, <1>2, <1>3, <1>4, <1>5, <1>6, <1>7, <1>8, <1>9, <1>10, <1>11, <1>13,
     <1>14, Steps

\* A scheduled execution is of a workflow that is active and due until its
\* commit, by one worker, whatever other workers, sessions and edits do.
THEOREM ExecutionsSafe == Spec => []ExecutionsGuarded
<1>1. Init => TypeInv /\ GuardInv
  BY TypeInit DEF Init, GuardInv, Held
<1>2. TypeInv /\ GuardInv /\ [Next]_vars => TypeInv' /\ GuardInv'
  BY TypeStep, GuardStep
<1>3. GuardInv => ExecutionsGuarded
  BY DEF GuardInv, ExecutionsGuarded, Held
<1>4. QED
  BY <1>1, <1>2, <1>3, PTL DEF Spec

-----------------------------------------------------------------------------
(* The distance between runs *)

\* A slot that nobody moved since the last run comes an interval after it.
SpaceInv ==
  \A x \in Workflow :
    LET r == flow[x] IN
    /\ moved[x] = "no"
    /\ r.last_scheduled_run_at # NoTime
    /\ r.next_run_at # NoTime
    => r.next_run_at >= r.last_scheduled_run_at + Interval

\* A run and a deferral, on the workflow they write.
LEMMA WrittenColumns ==
  ASSUME NEW r \in Row, NEW t \in Nat
  PROVE  /\ Scheduled(r, t) = [r EXCEPT !.last_scheduled_run_at = t,
                                        !.next_run_at = t + Interval]
         /\ Scheduled(r, t).last_scheduled_run_at = t
         /\ Scheduled(r, t).next_run_at = t + Interval
         /\ Deferred(r, t).last_scheduled_run_at = r.last_scheduled_run_at
         /\ Deferred(r, t).next_run_at = NextMonth(t)
         /\ \A s \in {Scheduled(r, t), Deferred(r, t)} :
              /\ s.exists = r.exists
              /\ s.is_active = r.is_active
              /\ s.schedule_enabled = r.schedule_enabled
              /\ s.schedule_cron = r.schedule_cron
BY DEF Scheduled, Deferred, Row

\* A step that writes neither a workflow nor who moved its slot is not seen.
LEMMA SpaceFrame ==
  ASSUME SpaceInv, UNCHANGED <<flow, moved>>
  PROVE  SpaceInv'
BY DEF SpaceInv

\* What a step must do to the one workflow it writes.
LEMMA SpaceWrite ==
  ASSUME TypeInv, SpaceInv, NEW x \in Workflow, NEW r, NEW m,
         flow' = [flow EXCEPT ![x] = r], moved' = [moved EXCEPT ![x] = m],
         /\ m = "no"
         /\ r.last_scheduled_run_at # NoTime
         /\ r.next_run_at # NoTime
         => r.next_run_at >= r.last_scheduled_run_at + Interval
  PROVE  SpaceInv'
BY DEF SpaceInv, TypeInv, TableType

\* Every step keeps the distance.
LEMMA SpaceStep ==
  ASSUME TypeInv, GuardInv, SpaceInv, [Next]_vars
  PROVE  SpaceInv'
<1>0. WorkerType /\ TableType
  BY DEF TypeInv
<1>1. CASE UNCHANGED vars
  BY <1>1, SpaceFrame DEF vars
<1>2. ASSUME NEW w \in Worker,
             SelectDue(w) \/ Claim(w) \/ Skip(w) \/ Fail(w) \/ Refuse(w)
                          \/ Execute(w) \/ FailRun(w) \/ CrashWorker(w)
      PROVE  SpaceInv'
  BY <1>2, SpaceFrame
     DEF SelectDue, Claim, Skip, Fail, Refuse, Execute, FailRun, CrashWorker
<1>3. ASSUME NEW w \in Worker, Defer(w)
      PROVE  SpaceInv'
  <2> DEFINE x == Head(batch[w])
             t == asof[w]
             r == flow[x]
  <2>1. x \in Workflow /\ r \in Row /\ t \in Nat
    BY <1>0, <1>3, InHand DEF Defer, WorkerType, TableType
  <2>2. CASE ~r.exists
    BY <1>3, <2>2, SpaceFrame DEF Defer
  <2>3. CASE r.exists /\ ~Due(x, t)
    <3>1. flow' = [flow EXCEPT ![x] = Deferred(r, t)]
          /\ moved' = [moved EXCEPT ![x] = "deferral"]
      BY <1>3, <2>3 DEF Defer
    <3>2. QED
      BY <2>1, <3>1, SpaceWrite
  <2>4. CASE r.exists /\ Due(x, t)
    <3>1. flow' = [flow EXCEPT ![x] = Deferred(r, t)]
          /\ moved' = [moved EXCEPT ![x] = moved[x]]
      BY <1>0, <1>3, <2>4 DEF Defer, TableType
    <3>2. r.next_run_at # NoTime /\ r.next_run_at <= t
      BY <2>4 DEF Due
    <3>3. NextMonth(t) \in Nat /\ NextMonth(t) > t
      BY <2>1, WrittenRowType
    <3>4. /\ r.next_run_at \in Nat
          /\ r.last_scheduled_run_at \in Nat \cup {NoTime}
          /\ Interval \in Nat
      BY <2>1, <3>2, SchedulerAssumption DEF Row
    <3>5. /\ moved[x] = "no"
          /\ r.last_scheduled_run_at # NoTime
          => NextMonth(t) >= r.last_scheduled_run_at + Interval
      <4> HIDE DEF x, t
      <4>1. moved[x] = "no" /\ r.last_scheduled_run_at # NoTime
            => r.next_run_at >= r.last_scheduled_run_at + Interval
        BY <2>1, <3>2 DEF SpaceInv
      <4> DEFINE n == r.next_run_at
                 l == r.last_scheduled_run_at
                 k == NextMonth(t)
      <4>2. n \in Nat /\ k \in Nat /\ k > t /\ n <= t /\ t \in Nat
            /\ l \in Nat \cup {NoTime} /\ Interval \in Nat
        BY <2>1, <3>2, <3>3, <3>4
      <4>3. moved[x] = "no" /\ l # NoTime => n >= l + Interval
        BY <4>1
      <4> HIDE DEF n, l, k
      <4>4. moved[x] = "no" /\ l # NoTime => k >= l + Interval
        BY <4>2, <4>3
      <4>5. QED
        BY <4>4 DEF l, k
    <3>6. Deferred(r, t).last_scheduled_run_at = r.last_scheduled_run_at
          /\ Deferred(r, t).next_run_at = NextMonth(t)
      BY <2>1, WrittenColumns
    <3> HIDE DEF x, t, r
    <3>7. QED
      BY <2>1, <3>1, <3>5, <3>6, SpaceWrite
  <2>5. QED
    BY <2>2, <2>3, <2>4
<1>4. ASSUME NEW w \in Worker, CommitRun(w)
      PROVE  SpaceInv'
  <2> DEFINE x == hold[w]
             t == asof[w]
             r == flow[x]
  <2>1. x \in Workflow /\ r \in Row /\ t \in Nat
    BY <1>0, <1>4, HeldWorkflow DEF CommitRun, Held, WorkerType, TableType
  <2>2. flow' = [flow EXCEPT ![x] = Scheduled(r, t)]
        /\ moved' = [moved EXCEPT ![x] = "no"]
    BY <1>4 DEF CommitRun
  <2>3. Scheduled(r, t).last_scheduled_run_at = t
        /\ Scheduled(r, t).next_run_at = t + Interval
    BY <2>1, WrittenColumns
  <2>4. t + Interval >= t + Interval
    BY <2>1, SchedulerAssumption
  <2> HIDE DEF x, t, r
  <2>5. QED
    BY <2>1, <2>2, <2>3, <2>4, SpaceWrite
<1>5. CASE Tick \/ \E x \in Workflow : StartOther(x) \/ EndOther(x)
  BY <1>5, SpaceFrame DEF Tick, StartOther, EndOther
<1>6. ASSUME NEW e \in Editor, NEW x, NEW new, NEW by, ReadForEdit(e, x, new, by)
      PROVE  SpaceInv'
  BY <1>6, SpaceFrame DEF ReadForEdit
<1>7. ASSUME NEW e \in Editor, CommitEdit(e)
      PROVE  SpaceInv'
  <2> DEFINE d == edit[e]
             x == d.flow
             r == flow[x]
             m == Merged(r, d.changes)
  <2>1. EditType(d) /\ x \in Workflow
    BY <1>7 DEF CommitEdit, TypeInv, EditsType, EditType, Edits
  <2>2. r \in Row
    BY <1>0, <2>1 DEF TableType
  <2>3. CASE ~r.exists
    BY <1>7, <2>3, SpaceFrame DEF CommitEdit
  <2>4. CASE r.exists
    <3>1. flow' = [flow EXCEPT ![x] = m]
          /\ moved' = [moved EXCEPT ![x] = Mover(d, moved[x])]
      BY <1>7, <2>4 DEF CommitEdit
    <3>2. /\ m.last_scheduled_run_at = r.last_scheduled_run_at
          /\ "next_run_at" \notin DOMAIN d.changes => m.next_run_at = r.next_run_at
      BY <2>1, <2>2 DEF EditType
    <3>3. Mover(d, moved[x]) = "no" =>
            moved[x] = "no" /\ "next_run_at" \notin DOMAIN d.changes
      BY <2>1 DEF Mover, EditType, Edits
    <3> HIDE DEF d, x, r, m
    <3>4. /\ Mover(d, moved[x]) = "no"
          /\ m.last_scheduled_run_at # NoTime
          /\ m.next_run_at # NoTime
          => m.next_run_at >= m.last_scheduled_run_at + Interval
      BY <2>1, <3>2, <3>3 DEF SpaceInv, r
    <3>5. QED
      BY <2>1, <3>1, <3>4, SpaceWrite
  <2>5. QED
    BY <2>3, <2>4
<1>8. ASSUME NEW x \in Workflow, DeleteWorkflow(x)
      PROVE  SpaceInv'
  <2>1. \A y \in Workflow :
          \/ y = x /\ moved'[y] = "edit"
          \/ flow'[y] = flow[y] /\ moved'[y] = moved[y]
    BY <1>0, <1>8 DEF DeleteWorkflow, TableType
  <2>2. QED
    BY <2>1 DEF SpaceInv
<1>9. QED
  BY <1>1, <1>2, <1>3, <1>4, <1>5, <1>6, <1>7, <1>8, Steps

\* A workflow whose slot nobody moved meanwhile is run an interval after it was
\* last run, by whichever worker, and however early that worker's pass began.
THEOREM RunsApart == Spec => []RunsSpaced
<1>1. Init => TypeInv /\ GuardInv /\ SpaceInv
  <2> SUFFICES ASSUME Init PROVE SpaceInv
    BY TypeInit DEF Init, GuardInv, Held
  <2>1. \A x \in Workflow : flow[x].last_scheduled_run_at = NoTime
    BY DEF Init, Created
  <2>2. QED
    BY <2>1 DEF SpaceInv
<1>2. TypeInv /\ GuardInv /\ SpaceInv /\ [Next]_vars
      => TypeInv' /\ GuardInv' /\ SpaceInv'
  BY TypeStep, GuardStep, SpaceStep
<1>3. TypeInv /\ GuardInv /\ SpaceInv => RunsSpaced
  <2> SUFFICES ASSUME TypeInv, GuardInv, SpaceInv, NEW w \in Worker,
                      wpc[w] = "running", moved[hold[w]] = "no",
                      flow[hold[w]].last_scheduled_run_at # NoTime
               PROVE  asof[w] >= flow[hold[w]].last_scheduled_run_at + Interval
    BY DEF RunsSpaced, Spaced
  <2> DEFINE r == flow[hold[w]]
  <2>1. hold[w] \in Workflow
    BY HeldWorkflow DEF Held, TypeInv
  <2>2. r \in Row /\ asof[w] \in Nat
    BY <2>1 DEF TypeInv, TableType, WorkerType
  <2>3. r.next_run_at # NoTime /\ r.next_run_at <= asof[w]
    BY DEF GuardInv, Held, Due
  <2>4. r.next_run_at >= r.last_scheduled_run_at + Interval
    BY <2>1, <2>3 DEF SpaceInv
  <2>5. r.next_run_at \in Nat /\ r.last_scheduled_run_at \in Nat /\ Interval \in Nat
    BY <2>2, <2>3, SchedulerAssumption DEF Row
  <2> HIDE DEF r
  <2>6. QED
    BY <2>2, <2>3, <2>4, <2>5 DEF r
<1>4. QED
  BY <1>1, <1>2, <1>3, PTL DEF Spec

-----------------------------------------------------------------------------
(* Slots and states *)

\* A sure edit of a user, written over the workflow as it now is, leaves a slot
\* that fits: the one it brings, or the one that is there.
EditFits(d) ==
  LET r == flow[d.flow]
      m == Merged(r, d.changes)
  IN d.by = "edit" /\ d.sure /\ r.exists =>
       IF "next_run_at" \in DOMAIN d.changes THEN Fits(m) ELSE Wants(r) <=> Wants(m)

EditsFit == \A e \in Editor : edit[e] # NoEdit => EditFits(edit[e])

SlotsFit == \A x \in Workflow : moved[x] \in {"no", "edit"} => Fits(flow[x])

\* Two rows that differ in no column an edit is decided on are changed alike.
LEMMA MergedAlike ==
  ASSUME NEW r \in Row, NEW s \in Row, NEW c,
         s.is_active = r.is_active,
         s.schedule_enabled = r.schedule_enabled,
         s.schedule_cron = r.schedule_cron
  PROVE  /\ Wants(s) <=> Wants(r)
         /\ Wants(Merged(s, c)) <=> Wants(Merged(r, c))
         /\ "next_run_at" \in DOMAIN c => (Fits(Merged(s, c)) <=> Fits(Merged(r, c)))
<1> DEFINE cols == {"exists", "is_active", "schedule_enabled", "schedule_cron",
                    "configured", "next_run_at", "last_scheduled_run_at"}
<1>1. DOMAIN r = cols /\ DOMAIN s = cols
  BY DEF Row
<1>2. \A k \in cols : /\ Merged(r, c)[k] = IF k \in DOMAIN c THEN c[k] ELSE r[k]
                      /\ Merged(s, c)[k] = IF k \in DOMAIN c THEN c[k] ELSE s[k]
  BY <1>1 DEF Merged
<1>3. /\ Merged(s, c)["is_active"] = Merged(r, c)["is_active"]
      /\ Merged(s, c)["schedule_enabled"] = Merged(r, c)["schedule_enabled"]
      /\ Merged(s, c)["schedule_cron"] = Merged(r, c)["schedule_cron"]
      /\ "next_run_at" \in DOMAIN c =>
           Merged(s, c)["next_run_at"] = Merged(r, c)["next_run_at"]
  BY <1>2
<1>4. QED
  BY <1>3 DEF Wants, Fits

\* What a pass writes to a workflow is nothing to the edits in hand.
LEMMA EditsFitFrame ==
  ASSUME TypeInv, EditsFit, UNCHANGED edit, NEW x \in Workflow, NEW r \in Row,
         flow' = [flow EXCEPT ![x] = r],
         r.exists => /\ flow[x].exists
                     /\ r.is_active = flow[x].is_active
                     /\ r.schedule_enabled = flow[x].schedule_enabled
                     /\ r.schedule_cron = flow[x].schedule_cron
  PROVE  EditsFit'
<1> SUFFICES ASSUME NEW e \in Editor, NEW d, edit[e] = d, d # NoEdit
             PROVE  EditFits(d)'
  BY DEF EditsFit
<1>1. EditFits(d) /\ d.flow \in Workflow
  BY DEF EditsFit, TypeInv, EditsType, EditType, Edits
<1>2. flow[x] \in Row /\ flow'[x] = r /\ \A y \in Workflow \ {x} : flow'[y] = flow[y]
  BY DEF TypeInv, TableType
<1>3. CASE d.flow # x \/ ~r.exists
  BY <1>1, <1>2, <1>3 DEF EditFits
<1>4. CASE d.flow = x /\ r.exists
  <2>1. /\ Wants(r) <=> Wants(flow[x])
        /\ Wants(Merged(r, d.changes)) <=> Wants(Merged(flow[x], d.changes))
        /\ "next_run_at" \in DOMAIN d.changes =>
             (Fits(Merged(r, d.changes)) <=> Fits(Merged(flow[x], d.changes)))
    BY <1>2, <1>4, MergedAlike
  <2>2. QED
    BY <1>1, <1>2, <1>4, <2>1 DEF EditFits
<1>5. QED
  BY <1>3, <1>4

\* A step that touches no workflow and no edit is not seen.
LEMMA SlotFrame ==
  ASSUME SlotsFit, EditsFit, UNCHANGED <<flow, moved, edit>>
  PROVE  SlotsFit' /\ EditsFit'
BY DEF SlotsFit, EditsFit, EditFits

\* What a step that writes one workflow must do to it.
LEMMA SlotWrite ==
  ASSUME TypeInv, SlotsFit, NEW x \in Workflow, NEW r, NEW m,
         flow' = [flow EXCEPT ![x] = r], moved' = [moved EXCEPT ![x] = m],
         m \in {"no", "edit"} => Fits(r)
  PROVE  SlotsFit'
BY DEF SlotsFit, TypeInv, TableType

\* The writes of a pass: a workflow that was due gets a slot for a slot, one
\* that was not is marked.
LEMMA SlotPass ==
  ASSUME TypeInv, TypeInv', GuardInv, SlotsFit, EditsFit, NEW w \in Worker,
         Defer(w) \/ CommitRun(w)
  PROVE  SlotsFit' /\ EditsFit'
<1>0. WorkerType /\ TableType
  BY DEF TypeInv
<1> DEFINE t == asof[w]
<1>1. t \in Nat
  BY <1>0 DEF WorkerType
<1>2. CASE Defer(w)
  <2> DEFINE x == Head(batch[w])
             r == flow[x]
  <2>1. x \in Workflow /\ r \in Row
    BY <1>0, <1>2, InHand DEF Defer, TableType
  <2>2. CASE ~r.exists
    BY <1>2, <2>2, SlotFrame DEF Defer
  <2>3. CASE r.exists
    <3> DEFINE s == Deferred(r, t)
               m == IF Due(x, t) THEN moved[x] ELSE "deferral"
    <3>1. flow' = [flow EXCEPT ![x] = s] /\ moved' = [moved EXCEPT ![x] = m]
          /\ UNCHANGED edit
      BY <1>0, <1>2, <2>3 DEF Defer, TableType
    <3>2. /\ s \in Row /\ s.next_run_at = NextMonth(t) /\ NextMonth(t) \in Nat
          /\ s.exists = r.exists /\ s.is_active = r.is_active
          /\ s.schedule_enabled = r.schedule_enabled
          /\ s.schedule_cron = r.schedule_cron
      BY <1>1, <2>1, WrittenRowType, WrittenColumns
    <3>3. s.next_run_at # NoTime
      BY <3>2, SchedulerAssumption
    <3>4. Due(x, t) => r.next_run_at # NoTime
      BY DEF Due
    <3> HIDE DEF s, t
    <3>5. m \in {"no", "edit"} => Fits(s)
      <4>1. SUFFICES ASSUME m \in {"no", "edit"} PROVE Fits(s)
        OBVIOUS
      <4>2. Due(x, t) /\ moved[x] \in {"no", "edit"}
        BY <4>1
      <4>3. Fits(r)
        BY <2>1, <4>2 DEF SlotsFit
      <4>4. QED
        BY <3>2, <3>3, <3>4, <4>2, <4>3 DEF Fits, Wants
    <3> HIDE DEF x, r, m
    <3>6. SlotsFit'
      BY <2>1, <3>1, <3>5, SlotWrite
    <3>7. EditsFit'
      BY <2>1, <2>3, <3>1, <3>2, EditsFitFrame DEF r
    <3>8. QED
      BY <3>6, <3>7
  <2>4. QED
    BY <2>2, <2>3
<1>3. CASE CommitRun(w)
  <2> DEFINE x == hold[w]
             r == flow[x]
             s == Scheduled(r, t)
  <2>1. x \in Workflow /\ r \in Row
    BY <1>0, <1>3, HeldWorkflow DEF CommitRun, Held, TableType
  <2>2. flow' = [flow EXCEPT ![x] = s] /\ moved' = [moved EXCEPT ![x] = "no"]
        /\ UNCHANGED edit
    BY <1>3 DEF CommitRun
  <2>3. /\ s \in Row /\ s.next_run_at = t + Interval
        /\ s.exists = r.exists /\ s.is_active = r.is_active
        /\ s.schedule_enabled = r.schedule_enabled
        /\ s.schedule_cron = r.schedule_cron
    BY <1>1, <2>1, WrittenRowType, WrittenColumns
  <2>4. s.next_run_at # NoTime
    BY <1>1, <2>3, SchedulerAssumption
  <2>5. r.exists /\ Wants(r)
    BY <1>3 DEF CommitRun, GuardInv, Held, Due, Wants
  <2> HIDE DEF t, s
  <2>6. Fits(s)
    BY <2>3, <2>4, <2>5 DEF Fits, Wants
  <2> HIDE DEF x, r
  <2>7. SlotsFit'
    BY <2>1, <2>2, <2>6, SlotWrite
  <2>8. EditsFit'
    BY <2>1, <2>2, <2>3, <2>5, EditsFitFrame DEF r
  <2>9. QED
    BY <2>7, <2>8
<1>4. QED
  BY <1>2, <1>3

\* An edit is decided: written at once, it would leave a slot that fits.
LEMMA SlotRead ==
  ASSUME TypeInv, TypeInv', SlotsFit, EditsFit,
         NEW e \in Editor, NEW x \in Workflow, NEW new \in Row,
         NEW by \in {"edit", "admin"}, ReadForEdit(e, x, new, by),
         by = "edit" => Fits(new)
  PROVE  SlotsFit' /\ EditsFit'
<1> DEFINE old == flow[x]
           ch == Changes(old, new)
           m == Merged(old, ch)
<1>0. PICK d : d = [flow |-> x, by |-> by, changes |-> ch,
                    sure |-> moved[x] \in {"no", "edit"}
                             \/ new.next_run_at # flow[x].next_run_at]
  OBVIOUS
<1>1. old \in Row
  BY DEF TypeInv, TableType
<1>2. edit' = [edit EXCEPT ![e] = d] /\ UNCHANGED <<flow, moved>>
  BY <1>0 DEF ReadForEdit
<1>3. /\ m.is_active = new.is_active
      /\ m.schedule_enabled = new.schedule_enabled
      /\ m.schedule_cron = new.schedule_cron
      /\ m.next_run_at = new.next_run_at
      /\ "next_run_at" \in DOMAIN ch <=> new.next_run_at # old.next_run_at
  <2>1. DOMAIN old = {"exists", "is_active", "schedule_enabled", "schedule_cron",
                      "configured", "next_run_at", "last_scheduled_run_at"}
    BY <1>1 DEF Row
  <2>2. /\ \A k \in DOMAIN old : k \in DOMAIN ch <=> new[k] # old[k]
        /\ \A k \in DOMAIN old : m[k] = IF k \in DOMAIN ch THEN new[k] ELSE old[k]
    BY <1>1, MergedRow
  <2> HIDE DEF m, ch, old
  <2>3. /\ m["is_active"] = new["is_active"]
        /\ m["schedule_enabled"] = new["schedule_enabled"]
        /\ m["schedule_cron"] = new["schedule_cron"]
        /\ m["next_run_at"] = new["next_run_at"]
        /\ "next_run_at" \in DOMAIN ch <=> new["next_run_at"] # old["next_run_at"]
    BY <2>1, <2>2
  <2>4. QED
    BY <2>3
<1>4. /\ Wants(m) <=> Wants(new)
      /\ Fits(m) <=> Fits(new)
  BY <1>3 DEF Wants, Fits
<1>5. moved[x] \in {"no", "edit"} => Fits(old)
  BY DEF SlotsFit
<1>6. EditFits(d)'
  <2>1. d.flow = x /\ d.by = by /\ d.changes = ch
        /\ (d.sure => moved[x] \in {"no", "edit"} \/ new.next_run_at # old.next_run_at)
    BY <1>0
  <2>2. flow'[x] = old
    BY <1>2
  <2> HIDE DEF m, ch, old
  <2>3. by = "edit" /\ d.sure => IF "next_run_at" \in DOMAIN ch THEN Fits(m)
                                 ELSE Wants(old) <=> Wants(m)
    BY <1>3, <1>4, <1>5, <2>1 DEF Fits
  <2>4. QED
    BY <2>1, <2>2, <2>3 DEF EditFits, m
<1>7. EditsFit'
  BY <1>2, <1>6 DEF EditsFit, EditFits, TypeInv, EditsType
<1>8. SlotsFit'
  BY <1>2 DEF SlotsFit
<1>9. QED
  BY <1>7, <1>8

\* An edit is written: a sure one fits the workflow, and those that overlap it
\* are no longer sure.
LEMMA SlotCommit ==
  ASSUME TypeInv, TypeInv', SlotsFit, EditsFit, NEW e \in Editor, CommitEdit(e)
  PROVE  SlotsFit' /\ EditsFit'
<1> DEFINE x == edit[e].flow
<1>1. PICK d : d = edit[e]
  OBVIOUS
<1>2. EditType(d) /\ d.flow \in Workflow /\ EditFits(d)
  BY <1>1 DEF CommitEdit, TypeInv, EditsType, EditType, Edits, EditsFit
<1>3. flow[d.flow] \in Row
  BY <1>2 DEF TypeInv, TableType
<1>4. \A y \in Workflow \ {d.flow} : flow'[y] = flow[y]
  BY <1>1, <1>2 DEF CommitEdit, TypeInv, TableType
<1>5. EditsFit'
  <2>1. SUFFICES ASSUME NEW f \in Editor, NEW c, c = edit'[f], c # NoEdit
                 PROVE  EditFits(c)'
    BY DEF EditsFit
  <2>2. edit[f] # NoEdit /\ EditType(edit[f])
    BY <2>1 DEF CommitEdit, TypeInv, EditsType
  <2>3. CASE edit[f].flow = d.flow
    <3>1. c = [edit[f] EXCEPT !.sure = FALSE]
      BY <1>1, <2>1, <2>2, <2>3 DEF CommitEdit
    <3>2. ~c.sure
      BY <2>2, <3>1, UnsureType
    <3>3. QED
      BY <3>2 DEF EditFits
  <2>4. CASE edit[f].flow # d.flow
    <3>1. c = edit[f]
      BY <1>1, <2>1, <2>2, <2>4 DEF CommitEdit
    <3>2. flow'[c.flow] = flow[c.flow]
      BY <1>4, <2>2, <2>4, <3>1 DEF EditType, Edits
    <3>3. EditFits(c)
      BY <2>2, <3>1 DEF EditsFit
    <3>4. QED
      BY <3>2, <3>3 DEF EditFits
  <2>5. QED
    BY <2>3, <2>4
<1>6. CASE ~flow[d.flow].exists
  BY <1>1, <1>5, <1>6 DEF CommitEdit, SlotsFit
<1>7. CASE flow[d.flow].exists
  <2> DEFINE r == flow[d.flow]
             m == Merged(r, d.changes)
             v == Mover(d, moved[d.flow])
  <2>1. flow' = [flow EXCEPT ![d.flow] = m] /\ moved' = [moved EXCEPT ![d.flow] = v]
    BY <1>1, <1>7 DEF CommitEdit
  <2>2. v \in {"no", "edit"} => Fits(m)
    <3>1. SUFFICES ASSUME v \in {"no", "edit"} PROVE Fits(m)
      OBVIOUS
    <3>2. d.by = "edit" /\ d.sure
      BY <1>2, <3>1 DEF Mover, EditType, Edits
    <3>3. CASE "next_run_at" \in DOMAIN d.changes
      BY <1>2, <1>7, <3>2, <3>3 DEF EditFits
    <3>4. CASE "next_run_at" \notin DOMAIN d.changes
      <4>1. moved[d.flow] \in {"no", "edit"}
        BY <3>1, <3>2, <3>4 DEF Mover
      <4>2. Fits(r)
        BY <1>2, <4>1 DEF SlotsFit
      <4>3. m.next_run_at = r.next_run_at
        BY <1>2, <1>3, <3>4 DEF EditType
      <4>4. Wants(r) <=> Wants(m)
        BY <1>2, <1>7, <3>2, <3>4 DEF EditFits
      <4>5. QED
        BY <4>2, <4>3, <4>4 DEF Fits
    <3>5. QED
      BY <3>3, <3>4
  <2> HIDE DEF m, v
  <2>3. SlotsFit'
    BY <1>2, <2>1, <2>2, SlotWrite
  <2>4. QED
    BY <1>5, <2>3
<1>8. QED
  BY <1>6, <1>7

\* A deleted workflow wants no slot, has none, and is written by no edit.
LEMMA SlotDelete ==
  ASSUME TypeInv, TypeInv', SlotsFit, EditsFit, NEW x \in Workflow, DeleteWorkflow(x)
  PROVE  SlotsFit' /\ EditsFit'
<1>1. flow[x] \in Row
  BY DEF TypeInv, TableType
<1>2. PICK r : r = flow'[x]
  OBVIOUS
<1>3. /\ r \in Row /\ ~r.exists /\ ~r.is_active /\ r.next_run_at = NoTime
      /\ flow' = [flow EXCEPT ![x] = r]
  <2>1. ~r.exists /\ ~r.is_active /\ r.next_run_at = NoTime
    BY <1>1, <1>2 DEF DeleteWorkflow, TypeInv, TableType, Row
  <2>2. \A y \in Workflow \ {x} : flow'[y] = flow[y]
    BY DEF DeleteWorkflow, TypeInv, TableType
  <2>3. flow' \in [Workflow -> Row]
    BY DEF TypeInv, TableType
  <2>4. flow' = [flow EXCEPT ![x] = r]
    BY <1>2, <2>2, <2>3 DEF TypeInv, TableType
  <2>5. QED
    BY <1>2, <2>1, <2>3, <2>4
<1>4. moved' = [moved EXCEPT ![x] = "edit"] /\ UNCHANGED edit
  BY DEF DeleteWorkflow
<1>5. Fits(r)
  BY <1>3 DEF Fits, Wants
<1>6. SlotsFit'
  BY <1>3, <1>4, <1>5, SlotWrite
<1>7. EditsFit'
  BY <1>3, <1>4, EditsFitFrame
<1>8. QED
  BY <1>6, <1>7

\* Every step keeps slots and states together.
LEMMA SlotStep ==
  ASSUME TypeInv, TypeInv', GuardInv, SlotsFit, EditsFit, [Next]_vars
  PROVE  SlotsFit' /\ EditsFit'
<1>1. CASE UNCHANGED vars
  BY <1>1, SlotFrame DEF vars
<1>2. ASSUME NEW w \in Worker,
             SelectDue(w) \/ Claim(w) \/ Skip(w) \/ Fail(w) \/ Refuse(w)
                          \/ Execute(w) \/ FailRun(w) \/ CrashWorker(w)
      PROVE  SlotsFit' /\ EditsFit'
  BY <1>2, SlotFrame
     DEF SelectDue, Claim, Skip, Fail, Refuse, Execute, FailRun, CrashWorker
<1>3. CASE Tick \/ \E x \in Workflow : StartOther(x) \/ EndOther(x)
  BY <1>3, SlotFrame DEF Tick, StartOther, EndOther
<1>4. QED
  BY <1>1, <1>2, <1>3, SlotPass, SlotRead, SlotCommit, SlotDelete, Steps

\* An active workflow with a supported schedule has a next slot and no other
\* has one, unless the slot was moved last by the administrator's endpoint, a
\* late deferral, or one of two edits that overlapped.
THEOREM SlotsAgree == Spec => []SlotMatchesState
<1>1. Init => TypeInv /\ GuardInv /\ SlotsFit /\ EditsFit
  <2>1. Init => SlotsFit
    <3>1. \A r \in Created : Fits(r)
      BY DEF Created, Fits, Wants
    <3>2. Init => \A x \in Workflow : flow[x] \in Created
      BY DEF Init
    <3>3. QED
      BY <3>1, <3>2 DEF SlotsFit
  <2>2. Init => EditsFit
    BY DEF Init, EditsFit
  <2>3. QED
    BY <2>1, <2>2, TypeInit DEF Init, GuardInv, Held
<1>2. TypeInv /\ GuardInv /\ SlotsFit /\ EditsFit /\ [Next]_vars
      => TypeInv' /\ GuardInv' /\ SlotsFit' /\ EditsFit'
  BY TypeStep, GuardStep, SlotStep
<1>3. SlotsFit => SlotMatchesState
  BY DEF SlotsFit, SlotMatchesState, Fits, Wants
<1>4. QED
  BY <1>1, <1>2, <1>3, PTL DEF Spec
=============================================================================
