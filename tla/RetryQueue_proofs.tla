------------------------- MODULE RetryQueue_proofs -------------------------
(***************************************************************************)
(* Theorems about RetryQueue, for every value of its constants.            *)
(***************************************************************************)
EXTENDS RetryQueue, FunctionTheorems, FiniteSetTheorems, TLAPS

-----------------------------------------------------------------------------
(* Rows have their types *)

\* The row of an identity that is not in the table is a row.
LEMMA NoRowType ==
  ASSUME NEW s \in WorkflowRunStatus
  PROVE  NoRow(s) \in WorkflowRun
<1>1. AnyWorkflow \in Workflow
  BY RetryQueueAssumption DEF AnyWorkflow
<1>2. QED
  BY <1>1 DEF NoRow, WorkflowRun

\* What _execute_workflow leaves when every action succeeded is a row.
LEMMA CompletedRowType ==
  ASSUME NEW wf \in Workflow, NEW n \in Nat, NEW p \in Run \cup {NoRun}
  PROVE  CompletedRow(wf, n, p) \in WorkflowRun
BY DEF CompletedRow, WorkflowRun, WorkflowRunStatus

\* What _execute_workflow leaves when an action failed is a row.
LEMMA FailedRowType ==
  ASSUME NEW wf \in Workflow, NEW n \in Nat, NEW t \in Nat,
         NEW p \in Run \cup {NoRun}
  PROVE  FailedRow(wf, n, t, p) \in WorkflowRun
BY RetryQueueAssumption
   DEF FailedRow, AfterFailure, WorkflowRun, WorkflowRunStatus

\* The three updates of an existing row leave a row.
LEMMA UpdatedRowType ==
  ASSUME NEW x \in WorkflowRun, NEW t \in Nat
  PROVE  /\ Consumed(x) \in WorkflowRun
         /\ Charged(x, t) \in WorkflowRun
         /\ TakenOver(x) \in WorkflowRun
<1>1. Consumed(x) \in WorkflowRun
  BY DEF Consumed, WorkflowRun
<1>2. TakenOver(x) \in WorkflowRun
  BY DEF TakenOver, WorkflowRun
<1>3. Charged(x, t) \in WorkflowRun
  <2> DEFINE f == AfterFailure(x.retry_count + 1, t)
  <2>1. x.retry_count \in Nat
    BY DEF WorkflowRun
  <2>2. /\ f.retry_count \in Nat
        /\ f.is_dead_letter \in BOOLEAN
        /\ f.next_retry_at \in Nat \cup {NoTime}
    BY <2>1, RetryQueueAssumption DEF AfterFailure
  <2> HIDE DEF f
  <2>3. [x EXCEPT !.retry_count = f.retry_count,
                  !.is_dead_letter = f.is_dead_letter,
                  !.next_retry_at = f.next_retry_at] \in WorkflowRun
    BY <2>2 DEF WorkflowRun
  <2>4. QED
    BY <2>3 DEF Charged, f
<1>4. QED
  BY <1>1, <1>2, <1>3

-----------------------------------------------------------------------------
(* Type correctness *)

\* Type correctness is not inductive by itself: the head of an empty batch is
\* not a run. A worker inside a pass has a run in hand, it holds a row lock
\* exactly between the claim and the end of the transaction, and an admin retry
\* that is to mark the old run has one.
ControlShape ==
  /\ \A w \in Worker :
       /\ wpc[w] # "idle" => batch[w] # <<>>
       /\ wpc[w] \in {"claimed", "running"} => hold[w] \in Run
       /\ wpc[w] \notin {"claimed", "running"} => hold[w] = NoRun
  /\ \A s \in Session : spc[s] = "mark" => old[s] \in Run

TypeInv == TypeOK /\ ControlShape

\* The empty table and the idle loops have their types.
LEMMA InitTypeInv == Init => TypeInv
<1>1. AnyWorkflow \in Workflow
  BY RetryQueueAssumption DEF AnyWorkflow
<1>2. NoRow("ABSENT") \in WorkflowRun
  BY NoRowType DEF WorkflowRunStatus
<1>3. QED
  BY <1>1, <1>2, RetryQueueAssumption DEF Init, TypeInv, TypeOK, ControlShape

\* A nonempty batch has a head in Run and a tail that is a batch.
LEMMA BatchParts ==
  ASSUME NEW q \in Seq(Run), q # <<>>
  PROVE  /\ Head(q) \in Run
         /\ Tail(q) \in Seq(Run)
         /\ Len(q) \in Nat \ {0}
         /\ Len(q) > 1 => Tail(q) # <<>>
<1>1. Head(q) \in Run /\ Tail(q) \in Seq(Run) /\ Len(q) \in Nat \ {0}
  OBVIOUS
<1>2. Len(q) > 1 => Tail(q) # <<>>
  <2>1. Len(Tail(q)) = Len(q) - 1
    OBVIOUS
  <2>2. QED
    BY <1>1, <2>1
<1>3. QED
  BY <1>1, <1>2

\* Both ways to leave an item keep the types of the loop variables.
LEMMA EndItemType ==
  ASSUME TypeInv, NEW w \in Worker, wpc[w] # "idle", EndItem(w)
  PROVE  /\ batch' \in [Worker -> Seq(Run)]
         /\ asof' \in [Worker -> Nat]
         /\ wpc' \in [Worker -> {"idle", "loop", "claimed", "running", "raised"}]
         /\ wpc'[w] \in {"idle", "loop"}
         /\ wpc'[w] # "idle" => batch'[w] # <<>>
         /\ \A v \in Worker \ {w} : wpc'[v] = wpc[v] /\ batch'[v] = batch[v]
<1>1. batch[w] \in Seq(Run) /\ batch[w] # <<>>
  BY DEF TypeInv, TypeOK, ControlShape
<1>2. CASE Len(batch[w]) = 1 /\ EndPass(w)
  BY <1>2 DEF EndPass, TypeInv, TypeOK
<1>3. CASE /\ Len(batch[w]) > 1
           /\ batch' = [batch EXCEPT ![w] = Tail(@)]
           /\ wpc' = [wpc EXCEPT ![w] = "loop"]
           /\ UNCHANGED asof
  <2>1. Tail(batch[w]) \in Seq(Run) /\ Tail(batch[w]) # <<>>
    BY <1>1, <1>3, BatchParts
  <2>2. QED
    BY <1>3, <2>1 DEF TypeInv, TypeOK
<1>4. QED
  BY <1>2, <1>3 DEF EndItem

\* No step of run_due_retries, a crash included, spoils a type.
LEMMA WorkerType ==
  ASSUME TypeInv, NEW w \in Worker, WorkerStep(w) \/ CrashWorker(w)
  PROVE  TypeInv'
<1>0. /\ batch[w] \in Seq(Run)
      /\ wpc[w] # "idle" => Head(batch[w]) \in Run
  BY BatchParts DEF TypeInv, TypeOK, ControlShape
<1>1. CASE SelectDue(w)
  <2>1. PICK n \in 1 .. BatchLimit :
          \E q \in [1 .. n -> Run] : batch' = [batch EXCEPT ![w] = q]
    BY <1>1 DEF SelectDue
  <2>2. PICK q \in [1 .. n -> Run] : batch' = [batch EXCEPT ![w] = q]
    BY <2>1
  <2>3. q \in Seq(Run) /\ q # <<>>
    BY <2>1, <2>2, RetryQueueAssumption
  <2>4. QED
    BY <1>1, <2>2, <2>3 DEF SelectDue, TypeInv, TypeOK, ControlShape
<1>2. CASE Claim(w)
  <2>1. TypeOK'
    BY <1>0, <1>2 DEF Claim, TypeInv, TypeOK
  <2>2. ControlShape'
    BY <1>0, <1>2 DEF Claim, TypeInv, TypeOK, ControlShape
  <2>3. QED
    BY <2>1, <2>2 DEF TypeInv
<1>3. CASE Skip(w)
  <2>1. /\ batch' \in [Worker -> Seq(Run)]
        /\ asof' \in [Worker -> Nat]
        /\ wpc' \in [Worker -> {"idle", "loop", "claimed", "running", "raised"}]
        /\ wpc'[w] \in {"idle", "loop"}
        /\ wpc'[w] # "idle" => batch'[w] # <<>>
        /\ \A v \in Worker \ {w} : wpc'[v] = wpc[v] /\ batch'[v] = batch[v]
    BY <1>3, EndItemType DEF Skip
  <2>2. TypeOK'
    BY <1>3, <2>1 DEF Skip, TypeInv, TypeOK
  <2>3. wpc[w] = "loop" /\ hold[w] = NoRun
    BY <1>3 DEF Skip, TypeInv, ControlShape
  <2>4. ControlShape'
    BY <1>3, <2>1, <2>3 DEF Skip, TypeInv, ControlShape
  <2>5. QED
    BY <2>2, <2>4 DEF TypeInv
<1>4. CASE Execute(w)
  <2>0. hold[w] \in Run /\ tries' \in [Run -> Nat]
    BY <1>4 DEF Execute, TypeInv, TypeOK, ControlShape
  <2>1. TypeOK'
    BY <1>4, <2>0 DEF Execute, TypeInv, TypeOK
  <2>2. ControlShape'
    BY <1>4 DEF Execute, TypeInv, TypeOK, ControlShape
  <2>3. QED
    BY <2>1, <2>2 DEF TypeInv
<1>5. CASE Refuse(w)
  <2>1. TypeOK'
    BY <1>5 DEF Refuse, TypeInv, TypeOK
  <2>2. ControlShape'
    BY <1>5 DEF Refuse, TypeInv, TypeOK, ControlShape
  <2>3. QED
    BY <2>1, <2>2 DEF TypeInv
<1>6. CASE CommitRetry(w)
  <2>1. hold[w] \in Run /\ row[hold[w]] \in WorkflowRun
    BY <1>6 DEF CommitRetry, TypeInv, TypeOK, ControlShape
  <2>2. /\ row[hold[w]].retry_count + 1 \in Nat
        /\ row[hold[w]].workflow \in Workflow
        /\ Consumed(row[hold[w]]) \in WorkflowRun
    <3>1. Consumed(row[hold[w]]) \in WorkflowRun
      BY <2>1, UpdatedRowType, RetryQueueAssumption
    <3>2. QED
      BY <2>1, <3>1 DEF WorkflowRun
  <2>3. PICK n \in Run, new \in WorkflowRun :
          row' = [row EXCEPT ![n] = new, ![hold[w]] = Consumed(@)]
    <3>1. now \in Nat
      BY RetryQueueAssumption DEF TypeInv, TypeOK
    <3>2. QED
      BY <1>6, <2>1, <2>2, <3>1, CompletedRowType, FailedRowType DEF CommitRetry
  <2>4. row' \in [Run -> WorkflowRun]
    BY <2>1, <2>2, <2>3 DEF TypeInv, TypeOK
  <2>5. EndItem(w) /\ wpc[w] = "running"
    BY <1>6 DEF CommitRetry
  <2>6. /\ batch' \in [Worker -> Seq(Run)]
        /\ asof' \in [Worker -> Nat]
        /\ wpc' \in [Worker -> {"idle", "loop", "claimed", "running", "raised"}]
        /\ wpc'[w] \in {"idle", "loop"}
        /\ wpc'[w] # "idle" => batch'[w] # <<>>
        /\ \A v \in Worker \ {w} : wpc'[v] = wpc[v] /\ batch'[v] = batch[v]
    BY <2>5, EndItemType
  <2>7. TypeOK'
    BY <1>6, <2>4, <2>6 DEF CommitRetry, TypeInv, TypeOK
  <2>8. ControlShape'
    <3>1. /\ hold'[w] = NoRun
          /\ \A v \in Worker \ {w} : hold'[v] = hold[v]
          /\ spc' = spc /\ old' = old
      BY <1>6 DEF CommitRetry, TypeInv, TypeOK
    <3>2. ASSUME NEW v \in Worker
          PROVE  /\ wpc'[v] # "idle" => batch'[v] # <<>>
                 /\ wpc'[v] \in {"claimed", "running"} => hold'[v] \in Run
                 /\ wpc'[v] \notin {"claimed", "running"} => hold'[v] = NoRun
      <4>1. CASE v = w
        BY <2>6, <3>1, <4>1
      <4>2. CASE v # w
        BY <2>6, <3>1, <4>2 DEF TypeInv, ControlShape
      <4>3. QED
        BY <4>1, <4>2
    <3>3. QED
      BY <3>1, <3>2 DEF TypeInv, ControlShape
  <2>9. QED
    BY <2>7, <2>8 DEF TypeInv
<1>7. CASE FailRetry(w)
  <2>0. hold[w] \in Run
    BY <1>7 DEF FailRetry, TypeInv, ControlShape
  <2>a. lost' \in [Run -> Nat]
    BY <1>7, <2>0 DEF FailRetry, TypeInv, TypeOK
  <2>1. TypeOK'
    BY <1>7, <2>a DEF FailRetry, TypeInv, TypeOK
  <2>2. ControlShape'
    BY <1>7 DEF FailRetry, TypeInv, TypeOK, ControlShape
  <2>3. QED
    BY <2>1, <2>2 DEF TypeInv
<1>8. CASE HandleFailure(w)
  <2> DEFINE r == Head(batch[w])
  <2>0. r \in Run /\ row[r] \in WorkflowRun /\ now \in Nat
    BY <1>0, <1>8, RetryQueueAssumption DEF HandleFailure, TypeInv, TypeOK
  <2>1. row' \in [Run -> WorkflowRun]
    <3>1. Charged(row[r], now) \in WorkflowRun
      BY <2>0, UpdatedRowType
    <3>2. row' = row \/ row' = [row EXCEPT ![r] = Charged(@, now)]
      BY <1>8 DEF HandleFailure
    <3>3. row \in [Run -> WorkflowRun]
      BY DEF TypeInv, TypeOK
    <3> HIDE DEF r
    <3>4. QED
      BY <2>0, <3>1, <3>2, <3>3
  <2>2. EndPass(w) /\ UNCHANGED <<now, wfState, hold, spc, swf, todo, work,
                                  old, tries, lost, crashes>>
    BY <1>8 DEF HandleFailure
  <2>3. TypeOK'
    BY <2>1, <2>2 DEF EndPass, TypeInv, TypeOK
  <2>4. wpc[w] = "raised"
    BY <1>8 DEF HandleFailure
  <2>5. ControlShape'
    BY <2>2, <2>4 DEF EndPass, TypeInv, TypeOK, ControlShape
  <2>6. QED
    BY <2>3, <2>5 DEF TypeInv
<1>9. CASE CrashWorker(w)
  <2>0. /\ lost' \in [Run -> Nat]
        /\ crashes' \in 0 .. CrashLimit
        /\ hold' \in [Worker -> Run \cup {NoRun}]
    <3>1. wpc[w] = "running" => hold[w] \in Run
      BY DEF TypeInv, ControlShape
    <3>2. lost' = lost \/ (hold[w] \in Run /\ lost' = [lost EXCEPT ![hold[w]] = @ + 1])
      BY <1>9, <3>1 DEF CrashWorker
    <3>3. lost' \in [Run -> Nat]
      <4>1. lost \in [Run -> Nat]
        BY DEF TypeInv, TypeOK
      <4>2. QED
        BY <3>2, <4>1
    <3>4. crashes' \in 0 .. CrashLimit
      <4>1. crashes \in 0 .. CrashLimit /\ CrashLimit \in Nat
        BY RetryQueueAssumption DEF TypeInv, TypeOK
      <4>2. crashes < CrashLimit /\ crashes' = crashes + 1
        BY <1>9 DEF CrashWorker
      <4>3. QED
        BY <4>1, <4>2
    <3>5. QED
      BY <1>9, <3>3, <3>4 DEF CrashWorker, TypeInv, TypeOK
  <2>1. TypeOK'
    <3>1. /\ batch' \in [Worker -> Seq(Run)]
          /\ asof' \in [Worker -> Nat]
          /\ wpc' \in [Worker -> {"idle", "loop", "claimed", "running", "raised"}]
      BY <1>9 DEF CrashWorker, EndPass, TypeInv, TypeOK
    <3>2. QED
      BY <1>9, <2>0, <3>1 DEF CrashWorker, TypeInv, TypeOK
  <2>2. ControlShape'
    BY <1>9 DEF CrashWorker, EndPass, TypeInv, TypeOK, ControlShape
  <2>3. QED
    BY <2>1, <2>2 DEF TypeInv
<1>10. QED
  BY <1>1, <1>2, <1>3, <1>4, <1>5, <1>6, <1>7, <1>8, <1>9 DEF WorkerStep

\* What a request may do.
SessionStep(s) ==
  \/ \E wfs \in SUBSET Workflow : StartRun(s, wfs)
  \/ \E r \in Run : StartAdminRetry(s, r)
  \/ NextRun(s)
  \/ RefuseRun(s)
  \/ FinishRun(s)
  \/ FailRun(s)
  \/ MarkOld(s)
  \/ CrashSession(s)

\* Either outcome of an execution is a row.
LEMMA OutcomeType ==
  ASSUME TypeInv, NEW s \in Session
  PROVE  Outcome(s) \subseteq WorkflowRun
<1>1. now \in Nat /\ swf[s] \in Workflow
  BY RetryQueueAssumption DEF TypeInv, TypeOK
<1>2. QED
  BY <1>1, CompletedRowType, FailedRowType DEF Outcome

\* No request that executes a workflow spoils a type.
LEMMA SessionType ==
  ASSUME TypeInv, NEW s \in Session, SessionStep(s)
  PROVE  TypeInv'
<1>0. AnyWorkflow \in Workflow
  BY RetryQueueAssumption DEF AnyWorkflow
<1>1. ASSUME NEW wfs \in SUBSET Workflow, StartRun(s, wfs) PROVE TypeInv'
  BY <1>1 DEF StartRun, TypeInv, TypeOK, ControlShape
<1>2. ASSUME NEW r \in Run, StartAdminRetry(s, r) PROVE TypeInv'
  BY <1>2 DEF StartAdminRetry, TypeInv, TypeOK, ControlShape, WorkflowRun
<1>7. CASE NextRun(s)
  <2>1. PICK wf \in todo[s], x \in WorkflowRun :
          /\ swf' = [swf EXCEPT ![s] = wf]
          /\ todo' = [todo EXCEPT ![s] = @ \ {wf}]
          /\ work' = [work EXCEPT ![s] = @ \cup {x}]
    BY <1>7, OutcomeType DEF NextRun
  <2>2. wf \in Workflow /\ todo[s] \ {wf} \in SUBSET Workflow
    BY DEF TypeInv, TypeOK
  <2>3. work[s] \cup {x} \in SUBSET WorkflowRun
    BY DEF TypeInv, TypeOK
  <2>4. /\ swf' \in [Session -> Workflow]
        /\ todo' \in [Session -> SUBSET Workflow]
        /\ work' \in [Session -> SUBSET WorkflowRun]
    BY <2>1, <2>2, <2>3 DEF TypeInv, TypeOK
  <2>5. QED
    BY <1>7, <2>4 DEF NextRun, TypeInv, TypeOK, ControlShape
<1>8. CASE RefuseRun(s)
  BY <1>0, <1>8 DEF RefuseRun, EndRequest, TypeInv, TypeOK, ControlShape
<1>3. CASE FinishRun(s)
  <2>1. PICK x \in WorkflowRun : RecordAll(work[s] \cup {x})
    BY <1>3, OutcomeType DEF FinishRun
  <2>2. row' \in [Run -> WorkflowRun]
    <3>1. work[s] \cup {x} \in SUBSET WorkflowRun
      BY DEF TypeInv, TypeOK
    <3>2. PICK N \in SUBSET Run :
            \E new \in [N -> WorkflowRun] :
              row' = [r \in Run |-> IF r \in N THEN new[r] ELSE row[r]]
      BY <2>1, <3>1 DEF RecordAll, Bijection, Injection
    <3>3. QED
      BY <3>2 DEF TypeInv, TypeOK
  <2>3. /\ spc' \in [Session -> {"idle", "running", "mark"}]
        /\ swf' \in [Session -> Workflow]
        /\ todo' \in [Session -> SUBSET Workflow]
        /\ work' \in [Session -> SUBSET WorkflowRun]
        /\ old' \in [Session -> Run \cup {NoRun}]
    <3>1. CASE EndRequest(s)
      BY <1>0, <3>1 DEF EndRequest, TypeInv, TypeOK
    <3>2. CASE /\ spc' = [spc EXCEPT ![s] = "mark"]
               /\ UNCHANGED <<swf, todo, work, old>>
      BY <3>2 DEF TypeInv, TypeOK
    <3>3. QED
      BY <1>3, <3>1, <3>2 DEF FinishRun
  <2>4. TypeOK'
    BY <1>3, <2>2, <2>3 DEF FinishRun, TypeInv, TypeOK
  <2>5. ControlShape'
    BY <1>3, <2>3 DEF FinishRun, EndRequest, TypeInv, TypeOK, ControlShape
  <2>6. QED
    BY <2>4, <2>5 DEF TypeInv
<1>4. CASE FailRun(s)
  BY <1>0, <1>4 DEF FailRun, EndRequest, TypeInv, TypeOK, ControlShape
<1>5. CASE MarkOld(s)
  <2>0. old[s] \in Run /\ row[old[s]] \in WorkflowRun
    BY <1>5 DEF MarkOld, TypeInv, TypeOK, ControlShape
  <2>1. row' \in [Run -> WorkflowRun]
    <3>1. TakenOver(row[old[s]]) \in WorkflowRun
      BY <2>0, UpdatedRowType, RetryQueueAssumption
    <3>2. row' = row \/ row' = [row EXCEPT ![old[s]] = TakenOver(@)]
      BY <1>5 DEF MarkOld
    <3>3. QED
      BY <2>0, <3>1, <3>2 DEF TypeInv, TypeOK
  <2>2. QED
    BY <1>0, <1>5, <2>1 DEF MarkOld, EndRequest, TypeInv, TypeOK, ControlShape
<1>6. CASE CrashSession(s)
  BY <1>0, <1>6, RetryQueueAssumption
  DEF CrashSession, EndRequest, TypeInv, TypeOK, ControlShape
<1>9. QED
  BY <1>1, <1>2, <1>3, <1>4, <1>5, <1>6, <1>7, <1>8 DEF SessionStep

\* Activating, deactivating or deleting a workflow spoils no type.
LEMMA WorkflowType ==
  ASSUME TypeInv, NEW wf \in Workflow,
         \/ ActivateWorkflow(wf)
         \/ DeactivateWorkflow(wf)
         \/ DeleteWorkflow(wf)
  PROVE  TypeInv'
<1>1. CASE ActivateWorkflow(wf)
  BY <1>1 DEF ActivateWorkflow, TypeInv, TypeOK, ControlShape
<1>2. CASE DeactivateWorkflow(wf)
  BY <1>2 DEF DeactivateWorkflow, TypeInv, TypeOK, ControlShape
<1>3. CASE DeleteWorkflow(wf)
  <2>1. NoRow("DELETED") \in WorkflowRun
    BY NoRowType DEF WorkflowRunStatus
  <2>2. QED
    BY <1>3, <2>1 DEF DeleteWorkflow, TypeInv, TypeOK, ControlShape
<1>4. QED
  BY <1>1, <1>2, <1>3

\* TypeInv is inductive.
LEMMA NextTypeInv == TypeInv /\ [Next]_vars => TypeInv'
<1> SUFFICES ASSUME TypeInv, [Next]_vars PROVE TypeInv'
  OBVIOUS
<1>1. CASE Tick
  BY <1>1, RetryQueueAssumption DEF Tick, TypeInv, TypeOK, ControlShape
<1>2. CASE UNCHANGED vars
  BY <1>2 DEF vars, TypeInv, TypeOK, ControlShape
<1>3. QED
  BY <1>1, <1>2, WorkerType, SessionType, WorkflowType DEF Next, SessionStep

\* Every column, loop variable and session keeps its type, whatever the
\* interleaving of workers, requests, crashes and deletions.
THEOREM TypeCorrect == Spec => []TypeOK
<1>1. Init => TypeInv
  BY InitTypeInv
<1>2. TypeInv /\ [Next]_vars => TypeInv'
  BY NextTypeInv
<1>3. TypeInv => TypeOK
  BY DEF TypeInv
<1>4. QED
  BY <1>1, <1>2, <1>3, PTL DEF Spec

-----------------------------------------------------------------------------
(* What a step may do to the table *)

\* A failed run that waits for its retry: Due, but for the time.
Waiting(r) ==
  /\ row[r].status = "FAILED"
  /\ ~row[r].is_dead_letter
  /\ row[r].next_retry_at # NoTime

OthersSame(S) == \A r \in Run \ S : row'[r] = row[r]

\* Run n is inserted as _execute_workflow leaves it.
Inserts(n) ==
  /\ row[n].status = "ABSENT"
  /\ \/ /\ row'[n].status = "COMPLETED"
        /\ row'[n].next_retry_at = NoTime
        /\ ~row'[n].is_dead_letter
     \/ /\ row'[n].status = "FAILED"
        /\ row'[n].retry_count < MaxRetries
        /\ row'[n].next_retry_at # NoTime
        /\ ~row'[n].is_dead_letter
     \/ /\ row'[n].status = "FAILED"
        /\ row'[n].retry_count >= MaxRetries
        /\ row'[n].next_retry_at = NoTime
        /\ row'[n].is_dead_letter

RecordsFirst(N) ==
  /\ \A n \in N :
       /\ Inserts(n)
       /\ row'[n].retry_count = IF row'[n].status = "COMPLETED" THEN 0 ELSE 1
       /\ row'[n].parent = NoRun
  /\ OthersSame(N)

Supersedes(p, n) ==
  /\ Waiting(p)
  /\ row'[p].status = "FAILED"
  /\ ~row'[p].is_dead_letter
  /\ row'[p].next_retry_at = NoTime
  /\ row'[p].retry_count = row[p].retry_count
  /\ row'[p].workflow = row[p].workflow
  /\ row'[p].parent = row[p].parent
  /\ Inserts(n)
  /\ row'[n].retry_count = row[p].retry_count + 1
  /\ row'[n].workflow = row[p].workflow
  /\ row'[n].parent = p
  /\ OthersSame({n, p})

Charges(r) ==
  /\ Waiting(r)
  /\ row'[r].status = "FAILED"
  /\ row'[r].retry_count = row[r].retry_count + 1
  /\ \/ /\ row'[r].retry_count < MaxRetries
        /\ row'[r].next_retry_at # NoTime
        /\ ~row'[r].is_dead_letter
     \/ /\ row'[r].retry_count >= MaxRetries
        /\ row'[r].next_retry_at = NoTime
        /\ row'[r].is_dead_letter
  /\ row'[r].workflow = row[r].workflow
  /\ row'[r].parent = row[r].parent
  /\ OthersSame({r})

TakesOver(r) ==
  /\ Exists(r)
  /\ row'[r].status = row[r].status
  /\ row'[r].is_dead_letter
  /\ row'[r].next_retry_at = NoTime
  /\ row'[r].retry_count = row[r].retry_count
  /\ row'[r].workflow = row[r].workflow
  /\ row'[r].parent = row[r].parent
  /\ OthersSame({r})

Deletes(wf) ==
  \A r \in Run :
    IF Exists(r) /\ row[r].workflow = wf
    THEN row'[r] = NoRow("DELETED")
    ELSE row'[r] = row[r]

RowEffect ==
  \/ row' = row
  \/ \E N \in SUBSET Run : RecordsFirst(N)
  \/ \E p, n \in Run : Supersedes(p, n)
  \/ \E r \in Run : Charges(r) \/ TakesOver(r)
  \/ \E wf \in Workflow : Deletes(wf)

\* With tries left, a failed run is scheduled; without, it is a dead letter.
LEMMA EarlyFailure ==
  ASSUME NEW n \in Nat, NEW t \in Nat, n < MaxRetries
  PROVE  AfterFailure(n, t) =
           [retry_count |-> n, is_dead_letter |-> FALSE, next_retry_at |-> t + n]
<1>1. (n >= MaxRetries) = FALSE
  BY RetryQueueAssumption
<1>2. QED
  BY <1>1, Zenon DEF AfterFailure

\* The last failure max_retries allows leaves a dead letter.
LEMMA LastFailure ==
  ASSUME NEW n \in Nat, NEW t \in Nat, n >= MaxRetries
  PROVE  AfterFailure(n, t) =
           [retry_count |-> n, is_dead_letter |-> TRUE, next_retry_at |-> NoTime]
<1>1. (n >= MaxRetries) = TRUE
  BY RetryQueueAssumption
<1>2. QED
  BY <1>1, Zenon DEF AfterFailure

\* The fields of a row written by _execute_workflow.
LEMMA CompletedRowFields ==
  ASSUME NEW wf \in Workflow, NEW n \in Nat, NEW p,
         NEW x, x = CompletedRow(wf, n, p)
  PROVE  /\ x.status = "COMPLETED"
         /\ x.next_retry_at = NoTime
         /\ ~x.is_dead_letter
         /\ x.workflow = wf
         /\ x.retry_count = n
         /\ x.parent = p
BY DEF CompletedRow

\* Field by field, a run recorded as FAILED.
LEMMA FailedRowFields ==
  ASSUME NEW wf \in Workflow, NEW n \in Nat, NEW t \in Nat, NEW p,
         NEW x, x = FailedRow(wf, n, t, p)
  PROVE  /\ x.status = "FAILED"
         /\ x.workflow = wf
         /\ x.retry_count = n
         /\ x.parent = p
         /\ \/ /\ n < MaxRetries
               /\ x.next_retry_at # NoTime
               /\ ~x.is_dead_letter
            \/ /\ n >= MaxRetries
               /\ x.next_retry_at = NoTime
               /\ x.is_dead_letter
<1>1. CASE n >= MaxRetries
  BY <1>1, LastFailure DEF FailedRow
<1>2. CASE n < MaxRetries
  BY <1>2, EarlyFailure, RetryQueueAssumption DEF FailedRow
<1>3. n < MaxRetries \/ n >= MaxRetries
  BY RetryQueueAssumption
<1>4. QED
  BY <1>1, <1>2, <1>3, Zenon

\* Field by field, a previous run after the commit of its retry.
LEMMA ConsumedFields ==
  ASSUME NEW x \in WorkflowRun
  PROVE  /\ Consumed(x).status = x.status
         /\ Consumed(x).workflow = x.workflow
         /\ Consumed(x).retry_count = x.retry_count
         /\ Consumed(x).parent = x.parent
         /\ ~Consumed(x).is_dead_letter
         /\ Consumed(x).next_retry_at = NoTime
BY DEF Consumed, WorkflowRun

\* Field by field, an old run after an administrator's retry.
LEMMA TakenOverFields ==
  ASSUME NEW x \in WorkflowRun
  PROVE  /\ TakenOver(x).status = x.status
         /\ TakenOver(x).workflow = x.workflow
         /\ TakenOver(x).retry_count = x.retry_count
         /\ TakenOver(x).parent = x.parent
         /\ TakenOver(x).is_dead_letter
         /\ TakenOver(x).next_retry_at = NoTime
BY DEF TakenOver, WorkflowRun

\* Field by field, a run charged with a try that was not recorded.
LEMMA ChargedFields ==
  ASSUME NEW x \in WorkflowRun, NEW t \in Nat
  PROVE  LET y == Charged(x, t) IN
         /\ y.status = x.status
         /\ y.workflow = x.workflow
         /\ y.retry_count = x.retry_count + 1
         /\ y.parent = x.parent
         /\ \/ /\ y.retry_count < MaxRetries
               /\ y.next_retry_at # NoTime
               /\ ~y.is_dead_letter
            \/ /\ y.retry_count >= MaxRetries
               /\ y.next_retry_at = NoTime
               /\ y.is_dead_letter
<1> DEFINE n == x.retry_count + 1
           f == AfterFailure(n, t)
<1>1. n \in Nat
  BY DEF WorkflowRun
<1>2. /\ f.retry_count = n
      /\ \/ n < MaxRetries /\ f.next_retry_at # NoTime /\ ~f.is_dead_letter
         \/ n >= MaxRetries /\ f.next_retry_at = NoTime /\ f.is_dead_letter
  <2> HIDE DEF n
  <2>1. CASE n < MaxRetries
    BY <1>1, <2>1, EarlyFailure, RetryQueueAssumption
  <2>2. CASE n >= MaxRetries
    BY <1>1, <2>2, LastFailure
  <2>3. n < MaxRetries \/ n >= MaxRetries
    BY <1>1, RetryQueueAssumption
  <2>4. QED
    BY <2>1, <2>2, <2>3, Zenon
<1>3. /\ Charged(x, t).status = x.status
      /\ Charged(x, t).workflow = x.workflow
      /\ Charged(x, t).retry_count = f.retry_count
      /\ Charged(x, t).parent = x.parent
      /\ Charged(x, t).next_retry_at = f.next_retry_at
      /\ Charged(x, t).is_dead_letter = f.is_dead_letter
  <2> HIDE DEF f
  <2>1. Charged(x, t) = [x EXCEPT !.retry_count = f.retry_count,
                                  !.is_dead_letter = f.is_dead_letter,
                                  !.next_retry_at = f.next_retry_at]
    BY DEF Charged, f
  <2>2. QED
    BY <2>1 DEF WorkflowRun
<1>4. QED
  BY <1>2, <1>3

\* A due run has a next_retry_at.
LEMMA DueWaits ==
  ASSUME TypeInv, NEW r \in Run, NEW t, Due(r, t)
  PROVE  Waiting(r)
<1>1. row[r].is_dead_letter \in BOOLEAN
  BY DEF TypeInv, TypeOK, WorkflowRun
<1>2. QED
  BY <1>1 DEF Due, Waiting

\* The commit of a retry supersedes the claimed run.
LEMMA CommitEffect ==
  ASSUME TypeInv, ClaimsExclusive, NEW w \in Worker, CommitRetry(w)
  PROVE  hold[w] \in Run /\ \E n \in Run : Supersedes(hold[w], n)
<1> DEFINE p == hold[w]
           k == row[p].retry_count + 1
           wf == row[p].workflow
<1>1. /\ wpc[w] = "running"
      /\ p \in Run
      /\ row \in [Run -> WorkflowRun]
      /\ row[p] \in WorkflowRun
      /\ now \in Nat
  BY RetryQueueAssumption DEF CommitRetry, TypeInv, TypeOK, ControlShape
<1>2. k \in Nat /\ wf \in Workflow
  BY <1>1 DEF WorkflowRun
<1>3. Waiting(p)
  BY <1>1, DueWaits DEF ClaimsExclusive
<1>4. PICK n \in Run, new \in {CompletedRow(wf, k, p), FailedRow(wf, k, now, p)} :
        /\ row[n].status = "ABSENT"
        /\ row' = [row EXCEPT ![n] = new, ![p] = Consumed(@)]
  BY DEF CommitRetry
<1>5. n # p
  BY <1>3, <1>4 DEF Waiting
<1>6. /\ row'[n] = new
      /\ row'[p] = Consumed(row[p])
      /\ OthersSame({n, p})
  BY <1>1, <1>4, <1>5 DEF OthersSame
<1> HIDE DEF p, k, wf
<1>7. /\ new.workflow = wf
      /\ new.retry_count = k
      /\ new.parent = p
      /\ \/ /\ new.status = "COMPLETED"
            /\ new.next_retry_at = NoTime
            /\ ~new.is_dead_letter
         \/ /\ new.status = "FAILED"
            /\ k < MaxRetries
            /\ new.next_retry_at # NoTime
            /\ ~new.is_dead_letter
         \/ /\ new.status = "FAILED"
            /\ k >= MaxRetries
            /\ new.next_retry_at = NoTime
            /\ new.is_dead_letter
  <2>1. CASE new = CompletedRow(wf, k, p)
    BY <1>1, <1>2, <2>1, CompletedRowFields
  <2>2. CASE new = FailedRow(wf, k, now, p)
    BY <1>1, <1>2, <2>2, FailedRowFields
  <2>3. QED
    BY <1>4, <2>1, <2>2
<1>8. Inserts(n)
  BY <1>4, <1>6, <1>7 DEF Inserts
<1>9. /\ row'[p].status = "FAILED"
      /\ ~row'[p].is_dead_letter
      /\ row'[p].next_retry_at = NoTime
      /\ row'[p].retry_count = row[p].retry_count
      /\ row'[p].workflow = row[p].workflow
      /\ row'[p].parent = row[p].parent
  BY <1>1, <1>3, <1>6, ConsumedFields DEF Waiting
<1>10. Supersedes(p, n)
  BY <1>3, <1>6, <1>7, <1>8, <1>9 DEF Supersedes, k, wf
<1>11. QED
  BY <1>1, <1>10 DEF p

\* The except branch charges one run or leaves the table alone.
LEMMA HandleEffect ==
  ASSUME TypeInv, NEW w \in Worker, HandleFailure(w)
  PROVE  \/ row' = row
         \/ \E r \in Run : Charges(r) /\ ~Locked(r)
<1> DEFINE r == Head(batch[w])
<1>1. /\ r \in Run
      /\ row \in [Run -> WorkflowRun]
      /\ row[r] \in WorkflowRun
      /\ now \in Nat
  BY BatchParts, RetryQueueAssumption
  DEF HandleFailure, TypeInv, TypeOK, ControlShape
<1>2. CASE ~Claimable(r, asof[w])
  BY <1>2 DEF HandleFailure
<1>3. CASE Claimable(r, asof[w])
  <2>1. /\ Waiting(r)
        /\ ~Locked(r)
    BY <1>1, <1>3, DueWaits DEF Claimable
  <2>2. /\ row'[r] = Charged(row[r], now)
        /\ OthersSame({r})
    BY <1>1, <1>3 DEF HandleFailure, OthersSame
  <2> HIDE DEF r
  <2> DEFINE y == Charged(row[r], now)
  <2>3. /\ y.status = "FAILED"
        /\ y.workflow = row[r].workflow
        /\ y.retry_count = row[r].retry_count + 1
        /\ y.parent = row[r].parent
        /\ \/ /\ y.retry_count < MaxRetries
              /\ y.next_retry_at # NoTime
              /\ ~y.is_dead_letter
           \/ /\ y.retry_count >= MaxRetries
              /\ y.next_retry_at = NoTime
              /\ y.is_dead_letter
    BY <1>1, <2>1, ChargedFields DEF Waiting
  <2> HIDE DEF y
  <2>4. row'[r] = y
    BY <2>2 DEF y
  <2>5. Charges(r)
    BY <2>1, <2>2, <2>3, <2>4, Zenon DEF Charges
  <2>6. QED
    BY <1>1, <2>1, <2>5
<1>4. QED
  BY <1>2, <1>3

\* What _execute_workflow leaves of a run executed for the first time.
FirstAttempt(x) ==
  /\ x.parent = NoRun
  /\ \/ /\ x.status = "COMPLETED"
        /\ x.retry_count = 0
        /\ x.next_retry_at = NoTime
        /\ ~x.is_dead_letter
     \/ /\ x.status = "FAILED"
        /\ x.retry_count = 1
        /\ 1 < MaxRetries
        /\ x.next_retry_at # NoTime
        /\ ~x.is_dead_letter
     \/ /\ x.status = "FAILED"
        /\ x.retry_count = 1
        /\ 1 >= MaxRetries
        /\ x.next_retry_at = NoTime
        /\ x.is_dead_letter

\* A tenant trigger holds finitely many finished runs, each a first attempt of
\* another workflow, none of a workflow it is executing or has yet to execute.
WorkShape ==
  \A s \in Session : spc[s] = "running" =>
    /\ IsFiniteSet(work[s])
    /\ swf[s] \notin todo[s]
    /\ \A x \in work[s] :
         /\ FirstAttempt(x)
         /\ x.workflow # swf[s]
         /\ x.workflow \notin todo[s]
         /\ \A y \in work[s] : y.workflow = x.workflow => y = x

\* Either outcome of an execution is a first attempt of its workflow.
LEMMA OutcomeFields ==
  ASSUME TypeInv, NEW s \in Session, NEW x \in Outcome(s)
  PROVE  FirstAttempt(x) /\ x.workflow = swf[s]
<1>1. now \in Nat /\ swf[s] \in Workflow /\ 0 \in Nat /\ 1 \in Nat
  BY RetryQueueAssumption DEF TypeInv, TypeOK
<1>2. CASE x = CompletedRow(swf[s], 0, NoRun)
  BY <1>1, <1>2, CompletedRowFields DEF FirstAttempt
<1>3. CASE x = FailedRow(swf[s], 1, now, NoRun)
  <2>1. /\ x.status = "FAILED"
        /\ x.workflow = swf[s]
        /\ x.parent = NoRun
        /\ x.retry_count = 1
        /\ \/ /\ 1 < MaxRetries
              /\ x.next_retry_at # NoTime
              /\ ~x.is_dead_letter
           \/ /\ 1 >= MaxRetries
              /\ x.next_retry_at = NoTime
              /\ x.is_dead_letter
    BY <1>1, <1>3, FailedRowFields
  <2>2. QED
    BY <2>1, Zenon DEF FirstAttempt
<1>4. QED
  BY <1>2, <1>3 DEF Outcome

\* The runs of a tenant trigger stay distinct first attempts.
LEMMA WorkStep ==
  ASSUME TypeInv, WorkShape, [Next]_vars
  PROVE  WorkShape'
<1> SUFFICES ASSUME NEW s \in Session, spc'[s] = "running"
             PROVE  /\ IsFiniteSet(work'[s])
                    /\ swf'[s] \notin todo'[s]
                    /\ \A x \in work'[s] :
                         /\ FirstAttempt(x)
                         /\ x.workflow # swf'[s]
                         /\ x.workflow \notin todo'[s]
                         /\ \A y \in work'[s] : y.workflow = x.workflow => y = x
  BY DEF WorkShape, FirstAttempt
<1>1. CASE /\ spc[s] = "running"
           /\ swf'[s] = swf[s] /\ todo'[s] = todo[s] /\ work'[s] = work[s]
  BY <1>1 DEF WorkShape
<1>2. ASSUME NEW wfs \in SUBSET Workflow, StartRun(s, wfs)
      PROVE  work'[s] = {} /\ swf'[s] \notin todo'[s]
  BY <1>2 DEF StartRun, TypeInv, TypeOK
<1>3. ASSUME NEW r \in Run, StartAdminRetry(s, r)
      PROVE  work'[s] = {} /\ swf'[s] \notin todo'[s]
  BY <1>3 DEF StartAdminRetry, TypeInv, TypeOK
<1>4. CASE work'[s] = {} /\ swf'[s] \notin todo'[s]
  BY <1>4, FS_EmptySet
<1>5. CASE NextRun(s)
  <2>1. PICK wf \in todo[s], z \in Outcome(s) :
          /\ swf' = [swf EXCEPT ![s] = wf]
          /\ todo' = [todo EXCEPT ![s] = @ \ {wf}]
          /\ work' = [work EXCEPT ![s] = @ \cup {z}]
    BY <1>5 DEF NextRun
  <2>2. /\ swf'[s] = wf
        /\ todo'[s] = todo[s] \ {wf}
        /\ work'[s] = work[s] \cup {z}
    BY <2>1 DEF TypeInv, TypeOK
  <2>3. FirstAttempt(z) /\ z.workflow = swf[s]
    BY <2>1, OutcomeFields
  <2>4. /\ IsFiniteSet(work[s])
        /\ swf[s] \notin todo[s]
        /\ \A x \in work[s] :
             /\ FirstAttempt(x)
             /\ x.workflow # swf[s]
             /\ x.workflow \notin todo[s]
             /\ \A y \in work[s] : y.workflow = x.workflow => y = x
    BY <1>5 DEF NextRun, WorkShape
  <2>5. IsFiniteSet(work'[s])
    BY <2>2, <2>4, FS_AddElement
  <2>6. QED
    BY <2>2, <2>3, <2>4, <2>5
<1>6. ASSUME NEW t \in Session, SessionStep(t)
      PROVE  \/ /\ spc[s] = "running"
                /\ swf'[s] = swf[s] /\ todo'[s] = todo[s] /\ work'[s] = work[s]
             \/ work'[s] = {} /\ swf'[s] \notin todo'[s]
             \/ NextRun(s)
  <2>1. CASE t # s
    BY <1>6, <2>1
    DEF SessionStep, StartRun, StartAdminRetry, NextRun, RefuseRun, FinishRun,
        FailRun, MarkOld, CrashSession, EndRequest, TypeInv, TypeOK
  <2>2. CASE t = s
    <3>1. CASE \/ RefuseRun(s) \/ FinishRun(s) \/ FailRun(s) \/ MarkOld(s)
               \/ CrashSession(s)
      BY <3>1
      DEF RefuseRun, FinishRun, FailRun, MarkOld, CrashSession, EndRequest,
          TypeInv, TypeOK
    <3>2. QED
      BY <1>2, <1>3, <1>6, <2>2, <3>1 DEF SessionStep
  <2>3. QED
    BY <2>1, <2>2
<1>7. CASE UNCHANGED <<spc, swf, todo, work>>
  BY <1>1, <1>7
<1>8. \/ \E t \in Session : SessionStep(t)
      \/ UNCHANGED <<spc, swf, todo, work>>
  BY DEF Next, vars, SessionStep, WorkerStep, SelectDue, Claim, Skip, Execute,
         Refuse, CommitRetry, FailRetry, HandleFailure, CrashWorker,
         ActivateWorkflow, DeactivateWorkflow, DeleteWorkflow, Tick
<1>9. QED
  BY <1>1, <1>4, <1>5, <1>6, <1>7, <1>8

\* The commit of a request records first attempts, as many as it holds.
LEMMA FinishEffect ==
  ASSUME TypeInv, WorkShape, NEW s \in Session, FinishRun(s)
  PROVE  \E N \in SUBSET Run, x \in Outcome(s) :
           /\ RecordsFirst(N)
           /\ ExistsBijection(N, work[s] \cup {x})
<1>1. row \in [Run -> WorkflowRun]
  BY DEF TypeInv, TypeOK
<1>2. PICK x \in Outcome(s) : RecordAll(work[s] \cup {x})
  BY DEF FinishRun
<1>3. PICK N \in SUBSET {n \in Run : row[n].status = "ABSENT"} :
        \E new \in Bijection(N, work[s] \cup {x}) :
          row' = [r \in Run |-> IF r \in N THEN new[r] ELSE row[r]]
  BY <1>2 DEF RecordAll
<1>4. PICK new \in Bijection(N, work[s] \cup {x}) :
        row' = [r \in Run |-> IF r \in N THEN new[r] ELSE row[r]]
  BY <1>3
<1>5. \A y \in work[s] \cup {x} : FirstAttempt(y)
  BY OutcomeFields DEF WorkShape, FinishRun
<1>6. new \in [N -> work[s] \cup {x}]
  BY <1>4 DEF Bijection, Injection
<1>7. ASSUME NEW n \in N
      PROVE  /\ Inserts(n)
             /\ row'[n].retry_count = IF row'[n].status = "COMPLETED" THEN 0 ELSE 1
             /\ row'[n].parent = NoRun
  <2>1. FirstAttempt(row'[n]) /\ row[n].status = "ABSENT"
    BY <1>3, <1>4, <1>5, <1>6
  <2>2. QED
    BY <2>1, RetryQueueAssumption DEF FirstAttempt, Inserts
<1>8. OthersSame(N)
  BY <1>1, <1>4 DEF OthersSame
<1>9. ExistsBijection(N, work[s] \cup {x})
  BY <1>4 DEF ExistsBijection
<1>10. N \in SUBSET Run
  BY <1>3
<1>11. QED
  BY <1>2, <1>7, <1>8, <1>9, <1>10 DEF RecordsFirst

\* The second commit of an administrator's retry takes one run over.
LEMMA MarkEffect ==
  ASSUME TypeInv, NEW s \in Session, MarkOld(s)
  PROVE  \/ row' = row
         \/ \E r \in Run : TakesOver(r) /\ ~Locked(r)
<1> DEFINE r == old[s]
<1>1. /\ r \in Run
      /\ row \in [Run -> WorkflowRun]
      /\ row[r] \in WorkflowRun
      /\ ~Locked(r)
  BY DEF MarkOld, TypeInv, TypeOK, ControlShape
<1>2. CASE ~Exists(r)
  BY <1>2 DEF MarkOld
<1>3. CASE Exists(r)
  <2>1. /\ row'[r] = TakenOver(row[r])
        /\ OthersSame({r})
    BY <1>1, <1>3 DEF MarkOld, OthersSame
  <2> HIDE DEF r
  <2>2. TakesOver(r)
    BY <1>1, <1>3, <2>1, TakenOverFields DEF TakesOver
  <2>3. QED
    BY <1>1, <2>2
<1>4. QED
  BY <1>2, <1>3

\* delete_workflow deletes the rows of its workflow and no other.
LEMMA DeleteEffect ==
  ASSUME TypeInv, NEW wf \in Workflow, DeleteWorkflow(wf)
  PROVE  /\ Deletes(wf)
         /\ \A r \in Run : row[r].workflow = wf => ~Locked(r)
BY DEF DeleteWorkflow, Deletes, TypeInv, TypeOK

\* Every step leaves the table alone or does one of the six things to it.
LEMMA StepEffect ==
  ASSUME TypeInv, WorkShape, ClaimsExclusive, [Next]_vars
  PROVE  RowEffect
<1>1. ASSUME NEW w \in Worker, WorkerStep(w) \/ CrashWorker(w)
      PROVE  RowEffect
  <2>1. CASE CommitRetry(w)
    BY <2>1, CommitEffect DEF RowEffect
  <2>2. CASE HandleFailure(w)
    BY <2>2, HandleEffect DEF RowEffect
  <2>3. CASE \/ SelectDue(w) \/ Claim(w) \/ Skip(w) \/ Execute(w)
             \/ Refuse(w) \/ FailRetry(w) \/ CrashWorker(w)
    BY <2>3 DEF SelectDue, Claim, Skip, Execute, Refuse, FailRetry, CrashWorker,
                RowEffect
  <2>4. QED
    BY <1>1, <2>1, <2>2, <2>3 DEF WorkerStep
<1>2. ASSUME NEW s \in Session, SessionStep(s)
      PROVE  RowEffect
  <2>1. CASE FinishRun(s)
    BY <2>1, FinishEffect DEF RowEffect
  <2>2. CASE MarkOld(s)
    BY <2>2, MarkEffect DEF RowEffect
  <2>3. CASE \/ \E wfs \in SUBSET Workflow : StartRun(s, wfs)
             \/ \E r \in Run : StartAdminRetry(s, r)
             \/ NextRun(s) \/ RefuseRun(s) \/ FailRun(s) \/ CrashSession(s)
    BY <2>3 DEF StartRun, StartAdminRetry, NextRun, RefuseRun, FailRun,
                CrashSession, RowEffect
  <2>4. QED
    BY <1>2, <2>1, <2>2, <2>3 DEF SessionStep
<1>3. ASSUME NEW wf \in Workflow,
             ActivateWorkflow(wf) \/ DeactivateWorkflow(wf) \/ DeleteWorkflow(wf)
      PROVE  RowEffect
  BY <1>3, DeleteEffect DEF ActivateWorkflow, DeactivateWorkflow, RowEffect
<1>4. CASE Tick \/ UNCHANGED vars
  BY <1>4 DEF Tick, vars, RowEffect
<1>5. QED
  BY <1>1, <1>2, <1>3, <1>4 DEF Next, SessionStep

-----------------------------------------------------------------------------
(* The table stays consistent *)

\* Only a recorded run has a predecessor.
ParentsRecorded == \A r \in Run : row[r].parent # NoRun => Exists(r)

\* What FailureAccounted and ChainWellFormed need each other, and
\* ScheduleConsistent, for: a run in the queue has no successor, and a run that
\* loses its successor to a deletion is deleted with it.
RowInv ==
  /\ ParentsRecorded
  /\ ScheduleConsistent
  /\ ChainWellFormed
  /\ FailureAccounted

\* A run waiting for its retry has no successor.
LEMMA WaitingNotSuperseded ==
  ASSUME RowInv, NEW r \in Run, Waiting(r)
  PROVE  ~Superseded(r)
<1>1. r # NoRun
  BY RetryQueueAssumption
<1>2. QED
  BY <1>1 DEF RowInv, ChainWellFormed, Waiting, Superseded

\* Nor has one that is not recorded.
LEMMA AbsentNotSuperseded ==
  ASSUME RowInv, NEW r \in Run, row[r].status = "ABSENT"
  PROVE  ~Superseded(r) /\ row[r].parent = NoRun
<1>1. r # NoRun
  BY RetryQueueAssumption
<1>2. QED
  BY <1>1 DEF RowInv, ChainWellFormed, ParentsRecorded, Exists, Superseded

\* The columns of a row have the types of WorkflowRun.
LEMMA RowFacts ==
  ASSUME TypeInv, NEW r \in Run
  PROVE  /\ row[r].status \in WorkflowRunStatus
         /\ row[r].retry_count \in Nat
         /\ row[r].parent \in Run \cup {NoRun}
BY DEF TypeInv, TypeOK, WorkflowRun

\* An inserted row is there afterwards.
LEMMA InsertsExists ==
  ASSUME NEW n \in Run, Inserts(n)
  PROVE  Exists(n)'
BY DEF Inserts, Exists

\* First attempts keep the table consistent.
LEMMA RecordsFirstRows ==
  ASSUME TypeInv, RowInv, NEW N \in SUBSET Run, RecordsFirst(N)
  PROVE  RowInv'
<1>0. /\ \A n \in N : /\ Inserts(n)
                      /\ ~Superseded(n)
                      /\ row[n].parent = NoRun
                      /\ row'[n].parent = NoRun
                      /\ Exists(n)'
      /\ OthersSame(N)
  BY AbsentNotSuperseded, InsertsExists DEF RecordsFirst, Inserts
<1>1. ParentsRecorded'
  BY <1>0 DEF RowInv, ParentsRecorded, Exists, OthersSame
<1>2. ScheduleConsistent'
  BY <1>0, RetryQueueAssumption
  DEF RowInv, ScheduleConsistent, OthersSame, Inserts, RecordsFirst
<1>3. ChainWellFormed'
  <2>1. \A s \in Run : row'[s].parent = row[s].parent
    BY <1>0 DEF OthersSame
  <2>2. ASSUME NEW s \in Run, row'[s].parent # NoRun
        PROVE  LET q == row[s].parent IN
               /\ row'[s] = row[s]
               /\ q \in Run
               /\ row'[q] = row[q]
    BY <1>0, <2>1, <2>2, RowFacts DEF Superseded, OthersSame
  <2>3. QED
    BY <2>1, <2>2 DEF RowInv, ChainWellFormed
<1>4. FailureAccounted'
  <2>1. ASSUME NEW r \in Run \ N, Superseded(r)
        PROVE  Superseded(r)'
    BY <1>0, <2>1, RetryQueueAssumption DEF Superseded, OthersSame
  <2>2. QED
    BY <1>0, <2>1
    DEF RowInv, FailureAccounted, OthersSame, Inserts, Pending, Exists
<1>5. QED
  BY <1>1, <1>2, <1>3, <1>4 DEF RowInv

\* A committed retry keeps the table consistent.
LEMMA SupersedesRows ==
  ASSUME TypeInv, RowInv, NEW p \in Run, NEW n \in Run, Supersedes(p, n)
  PROVE  RowInv'
<1>0. /\ Waiting(p)
      /\ Inserts(n)
      /\ n # p
      /\ ~Superseded(n)
      /\ ~Superseded(p)
      /\ row[n].parent = NoRun
      /\ Exists(n)'
      /\ OthersSame({n, p})
  BY AbsentNotSuperseded, WaitingNotSuperseded, InsertsExists
  DEF Supersedes, Inserts, Waiting
<1>1. ParentsRecorded'
  BY <1>0 DEF RowInv, ParentsRecorded, Exists, OthersSame, Supersedes
<1>2. ScheduleConsistent'
  <2>1. row[p].retry_count + 1 \in Nat \ {0}
    BY RowFacts
  <2>2. QED
    BY <1>0, <2>1, RetryQueueAssumption
    DEF RowInv, ScheduleConsistent, OthersSame, Inserts, Supersedes
<1>3. ChainWellFormed'
  <2>1. row[p].retry_count \in 1 .. MaxRetries - 1
    BY <1>0 DEF RowInv, ScheduleConsistent, Waiting
  <2>2. \A s \in Run \ {n} : row'[s].parent = row[s].parent
                          /\ row'[s].workflow = row[s].workflow
                          /\ row'[s].retry_count = row[s].retry_count
    BY <1>0 DEF OthersSame, Supersedes
  <2>3. ASSUME NEW s \in Run \ {n}, row[s].parent # NoRun
        PROVE  LET q == row[s].parent IN
               /\ q \in Run \ {n, p}
               /\ row'[q] = row[q]
    BY <1>0, <2>3, RowFacts DEF Superseded, OthersSame
  <2>4. ASSUME NEW s \in Run, s # n, row'[s].parent # NoRun
        PROVE  LET q == row'[s].parent IN
               /\ row'[q].status = "FAILED"
               /\ row'[q].next_retry_at = NoTime
               /\ row'[s].workflow = row'[q].workflow
               /\ row'[s].retry_count > row'[q].retry_count
               /\ row'[s].retry_count <= MaxRetries
               /\ \A t \in Run : row'[t].parent = q => t = s
    <3> DEFINE q == row[s].parent
    <3>1. q # NoRun /\ row'[s].parent = q
      BY <2>2, <2>4
    <3>2. q \in Run \ {n, p} /\ row'[q] = row[q]
      BY <2>3, <2>4, <3>1
    <3>3. \A t \in Run : row'[t].parent = q => t = s
      BY <2>2, <3>1, <3>2 DEF RowInv, ChainWellFormed, Supersedes
    <3>4. QED
      BY <2>2, <2>4, <3>1, <3>2, <3>3 DEF RowInv, ChainWellFormed
  <2>5. /\ row'[n].parent = p
        /\ row'[p].status = "FAILED"
        /\ row'[p].next_retry_at = NoTime
        /\ row'[n].workflow = row'[p].workflow
        /\ row'[n].retry_count > row'[p].retry_count
        /\ row'[n].retry_count <= MaxRetries
        /\ \A t \in Run : row'[t].parent = p => t = n
    BY <1>0, <2>1, <2>2, RetryQueueAssumption DEF Supersedes, Superseded
  <2>6. QED
    BY <2>4, <2>5 DEF ChainWellFormed
<1>4. FailureAccounted'
  <2>1. ASSUME NEW r \in Run \ {n}, Superseded(r)
        PROVE  Superseded(r)'
    BY <1>0, <2>1, RetryQueueAssumption DEF Superseded, OthersSame, Supersedes
  <2>2. Superseded(p)'
    BY DEF Superseded, Supersedes
  <2>3. QED
    BY <1>0, <2>1, <2>2
    DEF RowInv, FailureAccounted, OthersSame, Inserts, Pending, Exists
<1>5. QED
  BY <1>1, <1>2, <1>3, <1>4 DEF RowInv

\* A charged try keeps the table consistent.
LEMMA ChargesRows ==
  ASSUME TypeInv, RowInv, NEW r \in Run, Charges(r)
  PROVE  RowInv'
<1>0. /\ Waiting(r)
      /\ ~Superseded(r)
      /\ row[r].retry_count \in 1 .. MaxRetries - 1
      /\ OthersSame({r})
  BY WaitingNotSuperseded DEF Charges, RowInv, ScheduleConsistent, Waiting
<1>1. ParentsRecorded'
  BY <1>0 DEF RowInv, ParentsRecorded, Exists, OthersSame, Charges
<1>2. ScheduleConsistent'
  BY <1>0, RetryQueueAssumption
  DEF RowInv, ScheduleConsistent, OthersSame, Charges
<1>3. \A s \in Run : row'[s].parent = row[s].parent
  BY <1>0 DEF OthersSame, Charges
<1>4. ChainWellFormed'
  <2>1. ASSUME NEW s \in Run, row'[s].parent # NoRun
        PROVE  LET q == row[s].parent IN
               /\ q \in Run \ {r}
               /\ row'[q] = row[q]
               /\ row'[s].workflow = row[s].workflow
               /\ row'[s].retry_count >= row[s].retry_count
               /\ row'[s].retry_count <= MaxRetries
    <3> DEFINE q == row[s].parent
    <3>1. q \in Run \ {r} /\ row'[q] = row[q]
      BY <1>0, <1>3, <2>1, RowFacts DEF Superseded, OthersSame
    <3>2. row[s].retry_count \in Nat /\ row[s].retry_count <= MaxRetries
      BY <1>3, <2>1, RowFacts DEF RowInv, ChainWellFormed
    <3>3. CASE s = r
      BY <1>0, <3>1, <3>2, <3>3, RetryQueueAssumption DEF Charges
    <3>4. CASE s # r
      BY <1>0, <3>1, <3>2, <3>4 DEF OthersSame
    <3>5. QED
      BY <3>3, <3>4
  <2>2. \A s \in Run : row[s].retry_count \in Nat
    BY RowFacts
  <2>3. \A s \in Run : row'[s].retry_count \in Nat
    BY <1>0, <2>2 DEF Charges, OthersSame
  <2>4. QED
    BY <1>3, <2>1, <2>2, <2>3, RetryQueueAssumption DEF RowInv, ChainWellFormed
<1>5. FailureAccounted'
  <2>1. \A s \in Run : Superseded(s) => Superseded(s)'
    BY <1>3 DEF Superseded
  <2>2. QED
    BY <1>0, <2>1
    DEF RowInv, FailureAccounted, OthersSame, Charges, Pending, Exists
<1>6. QED
  BY <1>1, <1>2, <1>4, <1>5 DEF RowInv

\* An administrator's retry keeps the table consistent.
LEMMA TakesOverRows ==
  ASSUME TypeInv, RowInv, NEW r \in Run, TakesOver(r)
  PROVE  RowInv'
<1>0. OthersSame({r})
  BY DEF TakesOver
<1>1. \A s \in Run : /\ row'[s].status = row[s].status
                     /\ row'[s].workflow = row[s].workflow
                     /\ row'[s].retry_count = row[s].retry_count
                     /\ row'[s].parent = row[s].parent
                     /\ \/ row'[s] = row[s]
                        \/ s = r /\ row'[s].next_retry_at = NoTime
                                 /\ row'[s].is_dead_letter
  BY <1>0 DEF OthersSame, TakesOver
<1>2. ParentsRecorded'
  BY <1>1 DEF RowInv, ParentsRecorded, Exists
<1>3. ScheduleConsistent'
  BY <1>1 DEF RowInv, ScheduleConsistent
<1>4. ChainWellFormed'
  <2>1. \A s \in Run : row[s].parent # NoRun => row[s].parent \in Run
    BY RowFacts
  <2>2. QED
    BY <1>1, <2>1 DEF RowInv, ChainWellFormed
<1>5. FailureAccounted'
  BY <1>1 DEF RowInv, FailureAccounted, Superseded, Pending, Exists
<1>6. QED
  BY <1>2, <1>3, <1>4, <1>5 DEF RowInv

\* A deletion keeps the table consistent.
LEMMA DeletesRows ==
  ASSUME TypeInv, RowInv, NEW wf \in Workflow, Deletes(wf)
  PROVE  RowInv'
<1> DEFINE gone(r) == Exists(r) /\ row[r].workflow = wf
<1>1. \A r \in Run : gone(r) => /\ row'[r].status = "DELETED"
                                /\ row'[r].parent = NoRun
                                /\ row'[r].next_retry_at = NoTime
  BY DEF Deletes, NoRow
<1>2. \A r \in Run : ~gone(r) => row'[r] = row[r]
  BY DEF Deletes
<1> HIDE DEF gone
<1>3. ParentsRecorded'
  BY <1>1, <1>2 DEF RowInv, ParentsRecorded, Exists
<1>4. ScheduleConsistent'
  BY <1>1, <1>2 DEF RowInv, ScheduleConsistent
<1>5. \A s \in Run :
        row[s].parent # NoRun =>
          /\ row[s].parent \in Run
          /\ gone(s) <=> gone(row[s].parent)
  BY RowFacts DEF RowInv, ChainWellFormed, ParentsRecorded, Exists, gone
<1>6. ChainWellFormed'
  BY <1>1, <1>2, <1>5 DEF RowInv, ChainWellFormed
<1>7. FailureAccounted'
  <2>1. ASSUME NEW r \in Run, ~gone(r), Superseded(r)
        PROVE  Superseded(r)'
    BY <1>2, <1>5, <2>1, RetryQueueAssumption DEF Superseded
  <2>2. QED
    BY <1>1, <1>2, <2>1 DEF RowInv, FailureAccounted, Pending, Exists
<1>8. QED
  BY <1>3, <1>4, <1>6, <1>7 DEF RowInv

\* Whatever a step does to the table, it stays consistent.
LEMMA RowInvStep ==
  ASSUME TypeInv, RowInv, RowEffect
  PROVE  RowInv'
<1>1. CASE row' = row
  BY <1>1
  DEF RowInv, ParentsRecorded, ScheduleConsistent, ChainWellFormed,
      FailureAccounted, Superseded, Pending, Exists
<1>2. QED
  BY <1>1, RecordsFirstRows, SupersedesRows, ChargesRows, TakesOverRows,
     DeletesRows
  DEF RowEffect

-----------------------------------------------------------------------------
(* A claimed run is still due and claimed once *)

\* Nothing a step does to the table touches a run that a worker goes on holding.
LEMMA HeldRowStable ==
  ASSUME TypeInv, WorkShape, ClaimsExclusive, [Next]_vars,
         NEW v \in Worker, hold[v] \in Run, hold'[v] = hold[v]
  PROVE  row'[hold[v]] = row[hold[v]]
<1>0. /\ wpc[v] \in {"claimed", "running"}
      /\ Waiting(hold[v])
      /\ Locked(hold[v])
  BY DueWaits, RetryQueueAssumption
  DEF TypeInv, ControlShape, ClaimsExclusive, Locked
<1>1. ASSUME NEW w \in Worker, CommitRetry(w)
      PROVE  row'[hold[v]] = row[hold[v]]
  <2>1. PICK n \in Run : Supersedes(hold[w], n)
    BY <1>1, CommitEffect
  <2>2. hold[w] \in Run /\ wpc[w] = "running" /\ hold'[w] = NoRun
    BY <1>1 DEF CommitRetry, TypeInv, TypeOK, ControlShape
  <2>3. v # w
    BY <2>2, RetryQueueAssumption
  <2>4. hold[v] # hold[w]
    BY <2>2, <2>3 DEF ClaimsExclusive
  <2>5. hold[v] # n
    BY <1>0, <2>1 DEF Supersedes, Inserts, Waiting
  <2>6. QED
    BY <2>1, <2>4, <2>5 DEF Supersedes, OthersSame
<1>2. ASSUME NEW w \in Worker, HandleFailure(w)
      PROVE  row'[hold[v]] = row[hold[v]]
  BY <1>0, <1>2, HandleEffect DEF Charges, OthersSame
<1>3. ASSUME NEW s \in Session, FinishRun(s)
      PROVE  row'[hold[v]] = row[hold[v]]
  BY <1>0, <1>3, FinishEffect DEF RecordsFirst, Inserts, OthersSame, Waiting
<1>4. ASSUME NEW s \in Session, MarkOld(s)
      PROVE  row'[hold[v]] = row[hold[v]]
  BY <1>0, <1>4, MarkEffect DEF TakesOver, OthersSame
<1>5. ASSUME NEW wf \in Workflow, DeleteWorkflow(wf)
      PROVE  row'[hold[v]] = row[hold[v]]
  BY <1>0, <1>5, DeleteEffect DEF Deletes
<1>6. QED
  BY <1>1, <1>2, <1>3, <1>4, <1>5
  DEF Next, vars, WorkerStep, SelectDue, Claim, Skip, Execute, Refuse, FailRetry,
      CrashWorker, StartRun, StartAdminRetry, NextRun, RefuseRun, FailRun,
      CrashSession,
      ActivateWorkflow, DeactivateWorkflow, Tick

\* What a step may do to the control state of a worker in a retry: nothing, or
\* start the actions, or let the run go.
LEMMA WorkerOnward ==
  ASSUME TypeInv, [Next]_vars, NEW v \in Worker,
         wpc'[v] \in {"claimed", "running"}
  PROVE  \/ /\ wpc[v] \in {"claimed", "running"}
            /\ hold'[v] = hold[v]
            /\ batch'[v] = batch[v]
            /\ asof'[v] = asof[v]
         \/ Claim(v)
<1>1. ASSUME NEW w \in Worker, WorkerStep(w) \/ CrashWorker(w)
      PROVE  \/ /\ wpc[v] \in {"claimed", "running"}
                /\ hold'[v] = hold[v]
                /\ batch'[v] = batch[v]
                /\ asof'[v] = asof[v]
             \/ Claim(v)
  <2>1. CASE w = v
    <3>1. CASE Claim(v)
      BY <3>1
    <3>2. CASE Execute(v)
      BY <3>2 DEF Execute
    <3>3. CASE \/ SelectDue(v) \/ Skip(v) \/ Refuse(v) \/ CommitRetry(v)
               \/ FailRetry(v) \/ HandleFailure(v) \/ CrashWorker(v)
      BY <3>3
      DEF SelectDue, Skip, Refuse, CommitRetry, FailRetry, HandleFailure,
          CrashWorker, EndItem, EndPass, TypeInv, TypeOK
    <3>4. QED
      BY <1>1, <2>1, <3>1, <3>2, <3>3 DEF WorkerStep
  <2>2. CASE w # v
    BY <1>1, <2>2
    DEF WorkerStep, SelectDue, Claim, Skip, Execute, Refuse, CommitRetry,
        FailRetry, HandleFailure, CrashWorker, EndItem, EndPass, TypeInv, TypeOK
  <2>3. QED
    BY <2>1, <2>2
<1>2. CASE \/ \E s \in Session : SessionStep(s)
           \/ \E wf \in Workflow : \/ ActivateWorkflow(wf)
                                  \/ DeactivateWorkflow(wf)
                                  \/ DeleteWorkflow(wf)
           \/ Tick
           \/ UNCHANGED vars
  BY <1>2
  DEF SessionStep, StartRun, StartAdminRetry, NextRun, RefuseRun, FinishRun,
      FailRun, MarkOld, CrashSession, ActivateWorkflow, DeactivateWorkflow, DeleteWorkflow, Tick,
      vars
<1>3. QED
  BY <1>1, <1>2 DEF Next, SessionStep

\* A row lock is acquired by a claim only.
LEMMA HoldOnward ==
  ASSUME TypeInv, [Next]_vars, NEW v \in Worker
  PROVE  hold'[v] = hold[v] \/ hold'[v] = NoRun \/ Claim(v)
BY DEF Next, vars, WorkerStep, SelectDue, Claim, Skip, Execute, Refuse,
       CommitRetry, FailRetry, HandleFailure, CrashWorker, StartRun,
       StartAdminRetry, NextRun, RefuseRun, FinishRun, FailRun, MarkOld,
       CrashSession,
       ActivateWorkflow, DeactivateWorkflow, DeleteWorkflow, Tick, TypeInv, TypeOK

\* Claims stay exclusive: who is not the owner of a claim changes neither
\* the row it is on nor the locks that protect it.
LEMMA ClaimsStep ==
  ASSUME TypeInv, TypeInv', WorkShape, ClaimsExclusive, [Next]_vars
  PROVE  ClaimsExclusive'
<1> SUFFICES ASSUME NEW w \in Worker, wpc'[w] \in {"claimed", "running"}
             PROVE  /\ batch'[w] # <<>>
                    /\ hold'[w] = Head(batch'[w])
                    /\ Due(hold[w], asof[w])'
                    /\ \A v \in Worker \ {w} : hold'[v] # hold'[w]
  BY DEF ClaimsExclusive
<1>1. CASE Claim(w)
  <2> DEFINE r == Head(batch[w])
  <2>1. /\ r \in Run
        /\ batch[w] # <<>>
        /\ hold'[w] = r
        /\ UNCHANGED <<row, batch, asof>>
        /\ \A v \in Worker \ {w} : hold'[v] = hold[v]
        /\ Due(r, asof[w])
        /\ ~Locked(r)
    BY <1>1, BatchParts DEF Claim, Claimable, TypeInv, TypeOK, ControlShape
  <2>2. \A v \in Worker \ {w} : hold'[v] # r
    BY <2>1 DEF Locked
  <2>3. Due(r, asof[w])'
    BY <2>1 DEF Due
  <2>4. QED
    BY <2>1, <2>2, <2>3 DEF Due
<1>2. CASE ~Claim(w)
  <2>1. /\ wpc[w] \in {"claimed", "running"}
        /\ hold'[w] = hold[w]
        /\ batch'[w] = batch[w]
        /\ asof'[w] = asof[w]
    BY <1>2, WorkerOnward
  <2>2. /\ batch[w] # <<>>
        /\ hold[w] = Head(batch[w])
        /\ Due(hold[w], asof[w])
        /\ \A v \in Worker \ {w} : hold[v] # hold[w]
        /\ hold[w] \in Run
    BY <2>1 DEF ClaimsExclusive, TypeInv, ControlShape
  <2>3. row'[hold[w]] = row[hold[w]]
    BY <2>1, <2>2, HeldRowStable
  <2>4. Due(hold[w], asof[w])'
    BY <2>1, <2>2, <2>3 DEF Due
  <2>5. ASSUME NEW v \in Worker \ {w}
        PROVE  hold'[v] # hold'[w]
    <3>1. CASE Claim(v)
      BY <2>1, <3>1 DEF Claim, Claimable, Locked, TypeInv, TypeOK
    <3>2. CASE hold'[v] = NoRun
      BY <2>1, <2>2, <3>2, RetryQueueAssumption
    <3>3. CASE hold'[v] = hold[v]
      BY <2>1, <2>2, <3>3
    <3>4. QED
      BY <3>1, <3>2, <3>3, HoldOnward
  <2>6. QED
    BY <2>1, <2>2, <2>4, <2>5
<1>3. QED
  BY <1>1, <1>2

-----------------------------------------------------------------------------
(* The actions of a run are retried at most once *)

\* A surviving run gets a successor from the step that supersedes it only, and
\* never loses it.
LEMMA SupersededOnward ==
  ASSUME TypeInv, RowInv, RowEffect, NEW r \in Run, row'[r].status # "DELETED"
  PROVE  /\ row[r].status # "DELETED"
         /\ Superseded(r)' <=> Superseded(r) \/ \E n \in Run : Supersedes(r, n)
<1>0. r # NoRun
  BY RetryQueueAssumption
<1>1. CASE row' = row
  <2>1. ~\E n \in Run : Supersedes(r, n)
    BY <1>1 DEF Supersedes, Waiting
  <2>2. QED
    BY <1>1, <2>1 DEF Superseded
<1>2. ASSUME NEW N \in SUBSET Run, RecordsFirst(N)
      PROVE  /\ row[r].status # "DELETED"
             /\ Superseded(r)' <=> Superseded(r) \/ \E m \in Run : Supersedes(r, m)
  <2>1. \A n \in N : row[n].parent = NoRun /\ row[n].status = "ABSENT"
    BY <1>2, AbsentNotSuperseded DEF RecordsFirst, Inserts
  <2>2. \A s \in Run : row'[s].parent = row[s].parent
    BY <1>2, <2>1 DEF RecordsFirst, OthersSame
  <2>3. row[r].status # "DELETED"
    BY <1>2, <2>1 DEF RecordsFirst, OthersSame
  <2>4. ~\E m \in Run : Supersedes(r, m)
    BY <1>0, <2>2, <2>1, AbsentNotSuperseded DEF Supersedes, Inserts
  <2>5. QED
    BY <2>2, <2>3, <2>4 DEF Superseded
<1>3. ASSUME NEW p \in Run, NEW n \in Run, Supersedes(p, n)
      PROVE  /\ row[r].status # "DELETED"
             /\ Superseded(r)' <=> Superseded(r) \/ \E m \in Run : Supersedes(r, m)
  <2>1. row[n].parent = NoRun /\ row[n].status = "ABSENT"
    BY <1>3, AbsentNotSuperseded DEF Supersedes, Inserts
  <2>2. /\ row'[n].parent = p
        /\ \A s \in Run \ {n} : row'[s].parent = row[s].parent
    BY <1>3 DEF Supersedes, OthersSame
  <2>3. row[r].status # "DELETED"
    BY <1>3, <2>1 DEF Supersedes, Waiting, OthersSame
  <2>4. \A m \in Run : Supersedes(r, m) => r = p
    BY <2>1, <2>2, AbsentNotSuperseded, <1>0 DEF Supersedes, Inserts
  <2>5. Superseded(r)' <=> Superseded(r) \/ r = p
    BY <1>0, <2>1, <2>2 DEF Superseded
  <2>6. QED
    BY <1>3, <2>3, <2>4, <2>5
<1>4. ASSUME NEW q \in Run, Charges(q) \/ TakesOver(q)
      PROVE  /\ row[r].status # "DELETED"
             /\ Superseded(r)' <=> Superseded(r) \/ \E m \in Run : Supersedes(r, m)
  <2>1. \A s \in Run : row'[s].parent = row[s].parent
    BY <1>4 DEF Charges, TakesOver, OthersSame
  <2>2. row[r].status # "DELETED"
    BY <1>4 DEF Charges, TakesOver, OthersSame, Waiting
  <2>3. ~\E m \in Run : Supersedes(r, m)
    BY <1>0, <2>1, AbsentNotSuperseded DEF Supersedes, Inserts
  <2>4. QED
    BY <2>1, <2>2, <2>3 DEF Superseded
<1>5. ASSUME NEW wf \in Workflow, Deletes(wf)
      PROVE  /\ row[r].status # "DELETED"
             /\ Superseded(r)' <=> Superseded(r) \/ \E m \in Run : Supersedes(r, m)
  <2> DEFINE gone(s) == Exists(s) /\ row[s].workflow = wf
  <2>1. \A s \in Run : gone(s) => /\ row'[s].status = "DELETED"
                                  /\ row'[s].parent = NoRun
    BY <1>5 DEF Deletes, NoRow
  <2>2. \A s \in Run : ~gone(s) => row'[s] = row[s]
    BY <1>5 DEF Deletes
  <2>3. \A s \in Run : row[s].parent = r => (gone(s) <=> gone(r))
    BY <1>0 DEF RowInv, ChainWellFormed, ParentsRecorded, Exists
  <2> HIDE DEF gone
  <2>4. ~gone(r) /\ row[r].status # "DELETED"
    BY <2>1, <2>2
  <2>5. ~\E m \in Run : Supersedes(r, m)
    BY <1>0, <2>1, <2>2, AbsentNotSuperseded DEF Supersedes, Inserts
  <2>6. QED
    BY <1>0, <2>1, <2>2, <2>3, <2>4, <2>5 DEF Superseded
<1>6. QED
  BY <1>1, <1>2, <1>3, <1>4, <1>5 DEF RowEffect

\* A run in a retry is due, so it waits and has no successor.
LEMMA RetryingWaits ==
  ASSUME TypeInv, ClaimsExclusive, RowInv, NEW w \in Worker,
         wpc[w] \in {"claimed", "running"}
  PROVE  /\ hold[w] \in Run
         /\ Waiting(hold[w])
         /\ ~Superseded(hold[w])
         /\ \A v \in Worker \ {w} : hold[v] # hold[w]
<1>1. hold[w] \in Run /\ Due(hold[w], asof[w])
  BY DEF TypeInv, ControlShape, ClaimsExclusive
<1>2. Waiting(hold[w])
  BY <1>1, DueWaits
<1>3. QED
  BY <1>1, <1>2, WaitingNotSuperseded DEF ClaimsExclusive

\* A step that gives no run a predecessor supersedes none.
LEMMA NothingSuperseded ==
  ASSUME RowInv, NEW r \in Run,
         \A s \in Run : row'[s].parent \in {row[s].parent, NoRun}
  PROVE  \A n \in Run : ~Supersedes(r, n)
<1> SUFFICES ASSUME NEW n \in Run, Supersedes(r, n) PROVE FALSE
  OBVIOUS
<1>1. row'[n].parent = r /\ row[n].parent = NoRun
  BY AbsentNotSuperseded DEF Supersedes, Inserts
<1>2. QED
  BY <1>1, RetryQueueAssumption

\* The count of executions stays right: a start adds one in progress, a
\* rollback moves it to the lost ones, a commit to the successors.
LEMMA RetriedStep ==
  ASSUME TypeInv, TypeInv', WorkShape, ClaimsExclusive, RowInv, RetriedOnce, [Next]_vars
  PROVE  RetriedOnce'
<1> SUFFICES ASSUME NEW r \in Run, row'[r].status # "DELETED"
             PROVE  tries'[r] = lost'[r] +
                      (IF Retrying(r)' \/ Superseded(r)' THEN 1 ELSE 0)
  BY DEF RetriedOnce
<1>0. /\ RowEffect
      /\ row[r].status # "DELETED"
      /\ Superseded(r)' <=> Superseded(r) \/ \E n \in Run : Supersedes(r, n)
      /\ tries[r] = lost[r] + (IF Retrying(r) \/ Superseded(r) THEN 1 ELSE 0)
      /\ tries[r] \in Nat
      /\ lost[r] \in Nat
  BY StepEffect, SupersededOnward DEF RetriedOnce, TypeInv, TypeOK
<1>1. ASSUME NEW w \in Worker, Execute(w)
      PROVE  tries'[r] = lost'[r] +
               (IF Retrying(r)' \/ Superseded(r)' THEN 1 ELSE 0)
  <2>1. /\ row' = row /\ lost' = lost /\ hold' = hold
        /\ wpc[w] = "claimed" /\ wpc'[w] = "running"
        /\ \A v \in Worker \ {w} : wpc'[v] = wpc[v]
        /\ tries'[r] = IF r = hold[w] THEN tries[r] + 1 ELSE tries[r]
    BY <1>1 DEF Execute, TypeInv, TypeOK
  <2>2. Superseded(r)' <=> Superseded(r)
    BY <2>1 DEF Superseded
  <2>3. CASE r = hold[w]
    <3>1. ~Retrying(r) /\ ~Superseded(r)
      BY <2>1, <2>3, RetryingWaits DEF Retrying
    <3>2. Retrying(r)'
      BY <2>1, <2>3 DEF Retrying
    <3>3. QED
      BY <1>0, <2>1, <2>3, <3>1, <3>2
  <2>4. CASE r # hold[w]
    <3>1. Retrying(r)' <=> Retrying(r)
      BY <2>1, <2>4 DEF Retrying
    <3>2. QED
      BY <1>0, <2>1, <2>2, <2>4, <3>1
  <2>5. QED
    BY <2>3, <2>4
<1>2. ASSUME NEW w \in Worker, CommitRetry(w)
      PROVE  tries'[r] = lost'[r] +
               (IF Retrying(r)' \/ Superseded(r)' THEN 1 ELSE 0)
  <2>1. PICK n \in Run : Supersedes(hold[w], n)
    BY <1>2, CommitEffect
  <2>2. /\ tries' = tries /\ lost' = lost
        /\ wpc[w] = "running" /\ hold'[w] = NoRun /\ hold[w] \in Run
        /\ \A v \in Worker \ {w} : wpc'[v] = wpc[v] /\ hold'[v] = hold[v]
    <3>1. hold[w] \in Run
      BY <1>2 DEF CommitRetry, TypeInv, ControlShape
    <3>2. /\ tries' = tries /\ lost' = lost /\ wpc[w] = "running"
          /\ hold' = [hold EXCEPT ![w] = NoRun] /\ EndItem(w)
      BY <1>2 DEF CommitRetry
    <3>3. \A v \in Worker \ {w} : wpc'[v] = wpc[v]
      BY <3>2, EndItemType
    <3>4. QED
      BY <3>1, <3>2, <3>3 DEF TypeInv, TypeOK
  <2>3. CASE r = hold[w]
    <3>1. Superseded(r)' /\ Retrying(r)
      BY <1>0, <2>1, <2>2, <2>3 DEF Retrying
    <3>2. QED
      BY <1>0, <2>2, <3>1
  <2>4. CASE r # hold[w]
    <3>1. Retrying(r)' <=> Retrying(r)
      BY <2>2, <2>4, RetryQueueAssumption DEF Retrying
    <3>2. ASSUME NEW m \in Run, Supersedes(r, m)
          PROVE  FALSE
      <4>1. row[m].status = "ABSENT" /\ row'[m].parent = r /\ row[m].parent = NoRun
        BY <3>2, AbsentNotSuperseded DEF Supersedes, Inserts
      <4>2. row'[m].parent \in {row[m].parent, hold[w]}
        BY <2>1 DEF Supersedes, OthersSame
      <4>3. QED
        BY <2>4, <4>1, <4>2, RetryQueueAssumption
    <3>3. ~\E m \in Run : Supersedes(r, m)
      BY <3>2
    <3>4. QED
      BY <1>0, <2>2, <3>1, <3>3
  <2>5. QED
    BY <2>3, <2>4
<1>3. ASSUME NEW w \in Worker,
             FailRetry(w) \/ (CrashWorker(w) /\ wpc[w] = "running")
      PROVE  tries'[r] = lost'[r] +
               (IF Retrying(r)' \/ Superseded(r)' THEN 1 ELSE 0)
  <2>1. /\ row' = row /\ tries' = tries
        /\ wpc[w] = "running" /\ wpc'[w] # "running" /\ hold'[w] = NoRun
        /\ \A v \in Worker \ {w} : wpc'[v] = wpc[v] /\ hold'[v] = hold[v]
        /\ lost'[r] = IF r = hold[w] THEN lost[r] + 1 ELSE lost[r]
    <3>1. CASE FailRetry(w)
      BY <3>1 DEF FailRetry, TypeInv, TypeOK
    <3>2. CASE CrashWorker(w) /\ wpc[w] = "running"
      <4>1. /\ row' = row /\ tries' = tries
            /\ hold' = [hold EXCEPT ![w] = NoRun]
            /\ lost' = [lost EXCEPT ![hold[w]] = @ + 1]
            /\ wpc' = [wpc EXCEPT ![w] = "idle"]
        BY <3>2 DEF CrashWorker, EndPass
      <4>2. QED
        BY <3>2, <4>1 DEF TypeInv, TypeOK
    <3>3. QED
      BY <1>3, <3>1, <3>2
  <2>2. Superseded(r)' <=> Superseded(r)
    BY <2>1 DEF Superseded
  <2>3. CASE r = hold[w]
    <3>1. Retrying(r) /\ ~Superseded(r)
      BY <2>1, <2>3, RetryingWaits DEF Retrying
    <3>2. ~Retrying(r)'
      BY <2>1, <2>3, RetryingWaits DEF Retrying
    <3>3. QED
      BY <1>0, <2>1, <2>2, <2>3, <3>1, <3>2
  <2>4. CASE r # hold[w]
    <3>1. Retrying(r)' <=> Retrying(r)
      BY <2>1, <2>4 DEF Retrying
    <3>2. QED
      BY <1>0, <2>1, <2>2, <2>4, <3>1
  <2>5. QED
    BY <2>3, <2>4
<1>4. ASSUME UNCHANGED <<tries, lost>>,
             \A n \in Run : ~Supersedes(r, n),
             \A w \in Worker : /\ wpc'[w] = "running" <=> wpc[w] = "running"
                               /\ wpc[w] = "running" => hold'[w] = hold[w]
      PROVE  tries'[r] = lost'[r] +
               (IF Retrying(r)' \/ Superseded(r)' THEN 1 ELSE 0)
  <2>0. \A w \in Worker :
          wpc'[w] = "running" /\ hold'[w] = r <=> wpc[w] = "running" /\ hold[w] = r
    BY <1>4, Zenon
  <2>1. Retrying(r)' <=> Retrying(r)
    BY <2>0 DEF Retrying
  <2>2. Superseded(r)' <=> Superseded(r)
    BY <1>0, <1>4
  <2>3. tries'[r] = tries[r] /\ lost'[r] = lost[r]
    BY <1>4
  <2>4. QED
    BY <1>0, <2>1, <2>2, <2>3
<1>5. ASSUME UNCHANGED <<tries, lost>>,
             \A s \in Run : row'[s].parent \in {row[s].parent, NoRun},
             \A w \in Worker : /\ wpc'[w] = "running" <=> wpc[w] = "running"
                               /\ wpc[w] = "running" => hold'[w] = hold[w]
      PROVE  tries'[r] = lost'[r] +
               (IF Retrying(r)' \/ Superseded(r)' THEN 1 ELSE 0)
  BY <1>4, <1>5, NothingSuperseded
<1>6. ASSUME NEW w \in Worker,
             \/ SelectDue(w) \/ Claim(w) \/ Skip(w) \/ Refuse(w)
             \/ HandleFailure(w) \/ (CrashWorker(w) /\ wpc[w] # "running")
      PROVE  tries'[r] = lost'[r] +
               (IF Retrying(r)' \/ Superseded(r)' THEN 1 ELSE 0)
  <2>1. /\ UNCHANGED tries
        /\ lost' = lost
        /\ \A v \in Worker : /\ wpc'[v] = "running" <=> wpc[v] = "running"
                             /\ wpc[v] = "running" => hold'[v] = hold[v]
    <3>1. /\ UNCHANGED tries
          /\ lost' = lost
          /\ wpc[w] # "running" /\ wpc'[w] # "running"
          /\ \A v \in Worker \ {w} : wpc'[v] = wpc[v] /\ hold'[v] = hold[v]
      <4>1. CASE SelectDue(w)
        BY <4>1 DEF SelectDue, TypeInv, TypeOK
      <4>2. CASE Claim(w)
        BY <4>2 DEF Claim, TypeInv, TypeOK
      <4>3. CASE Skip(w)
        BY <4>3 DEF Skip, EndItem, EndPass, TypeInv, TypeOK
      <4>4. CASE Refuse(w)
        BY <4>4 DEF Refuse, TypeInv, TypeOK
      <4>5. CASE HandleFailure(w)
        BY <4>5 DEF HandleFailure, EndPass, TypeInv, TypeOK
      <4>6. CASE CrashWorker(w) /\ wpc[w] # "running"
        BY <4>6 DEF CrashWorker, EndPass, TypeInv, TypeOK
      <4>7. QED
        BY <1>6, <4>1, <4>2, <4>3, <4>4, <4>5, <4>6
    <3>2. QED
      BY <3>1
  <2>2. \A s \in Run : row'[s].parent \in {row[s].parent, NoRun}
    <3>1. CASE row' = row
      BY <3>1
    <3>2. CASE \E q \in Run : Charges(q)
      BY <3>2 DEF Charges, OthersSame
    <3>3. QED
      BY <1>6, <3>1, <3>2, HandleEffect
      DEF SelectDue, Claim, Skip, Refuse, CrashWorker
  <2>3. QED
    BY <1>5, <2>1, <2>2
<1>7. ASSUME NEW s \in Session, SessionStep(s)
      PROVE  tries'[r] = lost'[r] +
               (IF Retrying(r)' \/ Superseded(r)' THEN 1 ELSE 0)
  <2>1. UNCHANGED <<tries, lost, wpc, hold>>
    BY <1>7 DEF SessionStep, StartRun, StartAdminRetry, NextRun, RefuseRun,
                FinishRun, FailRun, MarkOld, CrashSession
  <2>2. \A q \in Run : row'[q].parent \in {row[q].parent, NoRun}
    <3>1. CASE row' = row
      BY <3>1
    <3>2. ASSUME NEW N \in SUBSET Run, RecordsFirst(N)
          PROVE  \A q \in Run : row'[q].parent \in {row[q].parent, NoRun}
      BY <3>2 DEF RecordsFirst, OthersSame
    <3>3. CASE \E q \in Run : TakesOver(q)
      BY <3>3 DEF TakesOver, OthersSame
    <3>4. QED
      BY <1>7, <3>1, <3>2, <3>3, FinishEffect, MarkEffect
      DEF SessionStep, StartRun, StartAdminRetry, NextRun, RefuseRun, FailRun,
          CrashSession
  <2>3. QED
    BY <1>5, <2>1, <2>2
<1>8. ASSUME NEW wf \in Workflow,
             ActivateWorkflow(wf) \/ DeactivateWorkflow(wf) \/ DeleteWorkflow(wf)
      PROVE  tries'[r] = lost'[r] +
               (IF Retrying(r)' \/ Superseded(r)' THEN 1 ELSE 0)
  <2>1. UNCHANGED <<tries, lost, wpc, hold>>
    BY <1>8 DEF ActivateWorkflow, DeactivateWorkflow, DeleteWorkflow
  <2>2. \A q \in Run : row'[q].parent \in {row[q].parent, NoRun}
    <3>1. CASE row' = row
      BY <3>1
    <3>2. CASE Deletes(wf)
      BY <3>2 DEF Deletes, NoRow
    <3>3. QED
      BY <1>8, <3>1, <3>2, DeleteEffect DEF ActivateWorkflow, DeactivateWorkflow
  <2>3. QED
    BY <1>5, <2>1, <2>2
<1>9. CASE Tick \/ UNCHANGED vars
  BY <1>5, <1>9 DEF Tick, vars
<1>10. QED
  BY <1>1, <1>2, <1>3, <1>6, <1>7, <1>8, <1>9 DEF Next, WorkerStep, SessionStep

-----------------------------------------------------------------------------
(* The inductive invariant, and what follows from it *)

IInv == TypeInv /\ WorkShape /\ ClaimsExclusive /\ RowInv /\ RetriedOnce

\* The invariant holds of the empty table.
LEMMA InitIInv == Init => IInv
<1> SUFFICES ASSUME Init PROVE IInv
  OBVIOUS
<1>1. TypeInv
  BY InitTypeInv
<1>2. \A r \in Run : row[r] = NoRow("ABSENT")
  BY DEF Init
<1>3. \A r \in Run : /\ row[r].status = "ABSENT"
                     /\ row[r].parent = NoRun
                     /\ row[r].next_retry_at = NoTime
  BY <1>2 DEF NoRow
<1>4. RowInv
  BY <1>3
  DEF RowInv, ParentsRecorded, ScheduleConsistent, ChainWellFormed,
      FailureAccounted
<1>5. ClaimsExclusive
  BY DEF Init, ClaimsExclusive
<1>6. RetriedOnce
  <2>1. \A r \in Run : ~Retrying(r) /\ ~Superseded(r)
    BY <1>3, RetryQueueAssumption DEF Init, Retrying, Superseded
  <2>2. QED
    BY <2>1 DEF Init, RetriedOnce
<1>7. WorkShape
  BY DEF Init, WorkShape
<1>8. QED
  BY <1>1, <1>4, <1>5, <1>6, <1>7 DEF IInv

\* IInv is inductive.
LEMMA NextIInv == IInv /\ [Next]_vars => IInv'
<1> SUFFICES ASSUME IInv, [Next]_vars PROVE IInv'
  OBVIOUS
<1>1. TypeInv'
  BY NextTypeInv DEF IInv
<1>2. ClaimsExclusive'
  BY <1>1, ClaimsStep DEF IInv
<1>3. RowInv'
  BY StepEffect, RowInvStep DEF IInv
<1>4. RetriedOnce'
  BY <1>1, RetriedStep DEF IInv
<1>5. WorkShape'
  BY WorkStep DEF IInv
<1>6. QED
  BY <1>1, <1>2, <1>3, <1>4, <1>5 DEF IInv

\* Every reachable state satisfies IInv: types, exclusive claims, consistent
\* rows and counted retries hold together, for each needs the others.
THEOREM Invariant == Spec => []IInv
<1>1. Init => IInv
  BY InitIInv
<1>2. IInv /\ [Next]_vars => IInv'
  BY NextIInv
<1>3. QED
  BY <1>1, <1>2, PTL DEF Spec

\* A worker in a retry holds a run that is still due, alone: no interleaving of
\* workers, administrators and deletions changes a row between the second
\* select of run_due_retries and its commit.
THEOREM ClaimsSafe == Spec => []ClaimsExclusive
<1>1. IInv => ClaimsExclusive
  BY DEF IInv
<1>2. QED
  BY <1>1, Invariant, PTL

\* The actions of a failed run are executed again at most once, up to the
\* executions whose transaction was rolled back.
THEOREM RetryAtMostOnce == Spec => []RetriedOnce
<1>1. IInv => RetriedOnce
  BY DEF IInv
<1>2. QED
  BY <1>1, Invariant, PTL

\* A failed run that is not superseded is queued or is a dead letter.
THEOREM NoFailureForgotten == Spec => []FailureAccounted
<1>1. IInv => FailureAccounted
  BY DEF IInv, RowInv
<1>2. QED
  BY <1>1, Invariant, PTL

\* next_retry_at, is_dead_letter and retry_count never contradict each other.
THEOREM ScheduleSafe == Spec => []ScheduleConsistent
<1>1. IInv => ScheduleConsistent
  BY DEF IInv, RowInv
<1>2. QED
  BY <1>1, Invariant, PTL

\* Retries form chains within one workflow, no longer than max_retries.
THEOREM ChainsSafe == Spec => []ChainWellFormed
<1>1. IInv => ChainWellFormed
  BY DEF IInv, RowInv
<1>2. QED
  BY <1>1, Invariant, PTL

-----------------------------------------------------------------------------
(* The quota *)

Recorded == {r \in Run : Exists(r)}
RunningWorkers == {w \in Worker : wpc[w] = "running"}

\* The runs that sessions have flushed, by their workflows: of each session,
\* and of all.
Mine(s) == {wf \in Workflow : Executing(s, wf)}
Held == {p \in Session \X Workflow : Executing(p[1], p[2])}

\* The bound of QuotaOvershootBounded is not inductive: it must leave room for
\* the runs in progress, each of which may still become a row.
QuotaInv ==
  /\ IsFiniteSet(Recorded)
  /\ Cardinality(Recorded) + Cardinality(RunningWorkers) + Cardinality(Held)
       <= RunLimit + HeldBackByOthers

\* There is a process and a workflow; HeldBackByOthers leaves out one of the
\* smallest.
LEMMA Processes ==
  /\ Cardinality(Worker) \in Nat
  /\ Cardinality(Workflow) \in Nat \ {0}
  /\ Cardinality(Session) \in Nat
  /\ Cardinality(Session) * Cardinality(Workflow) \in Nat
  /\ HeldBackByOthers \in Nat
  /\ HeldBackByOthers >= Cardinality(Worker)
       + Cardinality(Session) * Cardinality(Workflow) - Cardinality(Workflow)
  /\ Worker # {} => HeldBackByOthers = Cardinality(Worker)
       + Cardinality(Session) * Cardinality(Workflow) - 1
<1> DEFINE W == Cardinality(Worker)
           S == Cardinality(Session)
           F == Cardinality(Workflow)
<1>1. W \in Nat /\ S \in Nat /\ F \in Nat
  BY ProcessesAssumption, RetryQueueAssumption, FS_CardinalityType
<1>2. /\ W = 0 <=> Worker = {}
      /\ S = 0 <=> Session = {}
      /\ F # 0
  BY ProcessesAssumption, RetryQueueAssumption, FS_EmptySet
<1>3. HeldBackByOthers = W + S * F - (IF Worker = {} THEN F ELSE 1)
  BY DEF HeldBackByOthers
<1>4. Worker = {} => S >= 1
  BY <1>1, <1>2, ProcessesAssumption
<1> HIDE DEF W, S, F
<1>5. S * F \in Nat
  BY <1>1
<1>6. S >= 1 => S * F >= F
  <2> SUFFICES ASSUME S >= 1 PROVE S * F >= F
    OBVIOUS
  <2>1. (S - 1) * F \in Nat
    BY <1>1
  <2>2. S * F = (S - 1) * F + F
    BY <1>1
  <2>3. QED
    BY <1>1, <2>1, <2>2
<1>7. QED
  BY <1>1, <1>2, <1>3, <1>4, <1>5, <1>6 DEF W, S, F

\* Workers in execution are workers, and runs held back are runs of sessions.
LEMMA InProgress ==
  /\ IsFiniteSet(RunningWorkers)
  /\ Cardinality(RunningWorkers) \in 0 .. Cardinality(Worker)
  /\ IsFiniteSet(Held)
  /\ Cardinality(Held) \in 0 .. Cardinality(Session) * Cardinality(Workflow)
<1>1. /\ IsFiniteSet(Session \X Workflow)
      /\ Cardinality(Session \X Workflow)
           = Cardinality(Session) * Cardinality(Workflow)
  BY ProcessesAssumption, RetryQueueAssumption, FS_Product
<1>2. /\ Held \in SUBSET (Session \X Workflow)
      /\ RunningWorkers \in SUBSET Worker
  BY DEF Held, RunningWorkers
<1>3. /\ IsFiniteSet(Held)
      /\ IsFiniteSet(RunningWorkers)
      /\ Cardinality(Held) <= Cardinality(Session) * Cardinality(Workflow)
      /\ Cardinality(RunningWorkers) <= Cardinality(Worker)
  BY <1>1, <1>2, ProcessesAssumption, FS_Subset
<1>4. Cardinality(Held) \in Nat /\ Cardinality(RunningWorkers) \in Nat
  BY <1>3, FS_CardinalityType
<1>5. QED
  BY <1>3, <1>4, Processes

\* If session s holds back the runs of M only, all of them hold back at most
\* these and a run of every workflow for each other session.
LEMMA HeldBound ==
  ASSUME NEW s \in Session, NEW M \in SUBSET Workflow, NEW H,
         H \subseteq ((Session \ {s}) \X Workflow) \cup ({s} \X M)
  PROVE  Cardinality(H) <= Cardinality(Session) * Cardinality(Workflow)
                             - Cardinality(Workflow) + Cardinality(M)
<1> DEFINE S == Cardinality(Session)
           F == Cardinality(Workflow)
           A == (Session \ {s}) \X Workflow
           B == {s} \X M
<1>1. /\ S \in Nat /\ F \in Nat
      /\ IsFiniteSet(Session \ {s})
      /\ Cardinality(Session \ {s}) = S - 1
  BY Processes, ProcessesAssumption, FS_RemoveElement
<1>2. /\ IsFiniteSet(A)
      /\ Cardinality(A) = (S - 1) * F
  BY <1>1, RetryQueueAssumption, FS_Product
<1>3. IsFiniteSet(M) /\ Cardinality(M) \in Nat
  BY RetryQueueAssumption, FS_Subset, FS_CardinalityType
<1>4. /\ IsFiniteSet(B)
      /\ Cardinality(B) = Cardinality(M)
  <2>1. IsFiniteSet({s}) /\ Cardinality({s}) = 1
    BY FS_Singleton
  <2>2. /\ IsFiniteSet(B)
        /\ Cardinality(B) = Cardinality({s}) * Cardinality(M)
    BY <1>3, <2>1, FS_Product
  <2>3. QED
    BY <1>3, <2>1, <2>2
<1> HIDE DEF A, B
<1>5. /\ IsFiniteSet(A \cup B)
      /\ Cardinality(A \cup B) = Cardinality(A) + Cardinality(B) - Cardinality(A \cap B)
  BY <1>2, <1>4, FS_Union
<1>6. Cardinality(A \cap B) \in Nat
  BY <1>2, FS_Intersection, FS_CardinalityType
<1>7. H \in SUBSET (A \cup B)
  BY DEF A, B
<1>8. Cardinality(H) <= Cardinality(A \cup B) /\ Cardinality(H) \in Nat
  BY <1>5, <1>7, FS_Subset, FS_CardinalityType
<1>9. (S - 1) * F = S * F - F /\ S * F \in Nat
  BY <1>1
<1> HIDE DEF S, F
<1>10. Cardinality(A) = S * F - F
  BY <1>2, <1>9
<1>11. Cardinality(H) <= S * F - F + Cardinality(M)
  BY <1>1, <1>3, <1>4, <1>5, <1>6, <1>8, <1>9, <1>10
<1>12. QED
  BY <1>11 DEF S, F

\* The workflows of a session's flushed runs are as many as the runs.
LEMMA MineCount ==
  ASSUME TypeInv, WorkShape, NEW s \in Session, spc[s] = "running",
         NEW x \in Outcome(s)
  PROVE  /\ ExistsBijection(work[s] \cup {x}, Mine(s))
         /\ IsFiniteSet(Mine(s))
         /\ Flushed(s) \in Nat
         /\ Cardinality(Mine(s)) <= Flushed(s)
<1> DEFINE R == work[s] \cup {x}
           f == [y \in R |-> y.workflow]
<1>1. /\ x.workflow = swf[s]
      /\ swf[s] \in Workflow
      /\ IsFiniteSet(work[s])
      /\ \A y \in work[s] : y.workflow \in Workflow /\ y.workflow # swf[s]
      /\ \A y, z \in work[s] : y.workflow = z.workflow => y = z
  BY OutcomeFields DEF WorkShape, TypeInv, TypeOK, WorkflowRun
<1>2. Mine(s) = {f[y] : y \in R}
  BY <1>1 DEF Mine, Executing
<1>3. f \in [R -> Mine(s)]
  BY <1>2
<1>4. \A y, z \in R : f[y] = f[z] => y = z
  BY <1>1
<1>5. f \in Bijection(R, Mine(s))
  <2> HIDE DEF f, R
  <2>1. \A m \in Mine(s) : \E y \in R : f[y] = m
    BY <1>2
  <2>2. QED
    BY <1>3, <1>4, <2>1 DEF Bijection, Injection, Surjection, IsInjective
<1>6. ExistsBijection(R, Mine(s))
  BY <1>5 DEF ExistsBijection
<1>7. /\ IsFiniteSet(R)
      /\ Cardinality(R) <= Cardinality(work[s]) + 1
      /\ Cardinality(work[s]) \in Nat
  <2>1. /\ IsFiniteSet(work[s] \cup {x})
        /\ \/ Cardinality(work[s] \cup {x}) = Cardinality(work[s])
           \/ Cardinality(work[s] \cup {x}) = Cardinality(work[s]) + 1
    BY <1>1, FS_AddElement, Zenon
  <2>2. Cardinality(work[s]) \in Nat
    BY <1>1, FS_CardinalityType
  <2>3. QED
    BY <2>1, <2>2
<1>8. IsFiniteSet(Mine(s)) /\ Cardinality(Mine(s)) = Cardinality(R)
  BY <1>6, <1>7, FS_Bijection
<1>9. QED
  BY <1>6, <1>7, <1>8 DEF Flushed

\* A worker's execution starts under the limit: others hold back the rest.
LEMMA QuotaWorkerStart ==
  ASSUME QuotaInv, NEW w \in Worker, ~QuotaExhausted(0), Recorded' = Recorded
  PROVE  QuotaInv'
<1>1. Cardinality(Recorded) \in Nat /\ Cardinality(Recorded) < RunLimit
  BY FS_CardinalityType, RetryQueueAssumption
  DEF QuotaInv, QuotaExhausted, RunCount, Recorded
<1>2. /\ Cardinality(RunningWorkers') \in 0 .. Cardinality(Worker)
      /\ Cardinality(Held') \in 0 .. Cardinality(Session) * Cardinality(Workflow)
  <2>1. /\ IsFiniteSet(Session \X Workflow)
        /\ Cardinality(Session \X Workflow)
             = Cardinality(Session) * Cardinality(Workflow)
    BY ProcessesAssumption, RetryQueueAssumption, FS_Product
  <2>2. /\ Held' \in SUBSET (Session \X Workflow)
        /\ RunningWorkers' \in SUBSET Worker
    BY DEF Held, RunningWorkers
  <2>3. /\ IsFiniteSet(Held')
        /\ IsFiniteSet(RunningWorkers')
        /\ Cardinality(Held') <= Cardinality(Session) * Cardinality(Workflow)
        /\ Cardinality(RunningWorkers') <= Cardinality(Worker)
    BY <2>1, <2>2, ProcessesAssumption, FS_Subset
  <2>4. Cardinality(Held') \in Nat /\ Cardinality(RunningWorkers') \in Nat
    BY <2>3, FS_CardinalityType
  <2>5. QED
    BY <2>3, <2>4, Processes
<1>3. HeldBackByOthers' = HeldBackByOthers
  BY DEF HeldBackByOthers
<1>4. HeldBackByOthers = Cardinality(Worker)
        + Cardinality(Session) * Cardinality(Workflow) - 1
  BY Processes
<1>5. QED
  BY <1>1, <1>2, <1>3, <1>4, Processes, RetryQueueAssumption DEF QuotaInv

\* So does each execution of a session, which sees the m runs it holds itself.
LEMMA QuotaSessionStart ==
  ASSUME QuotaInv, NEW s \in Session, NEW m \in Nat, ~QuotaExhausted(m),
         Recorded' = Recorded,
         IsFiniteSet(Mine(s)'), Cardinality(Mine(s)') <= m + 1
  PROVE  QuotaInv'
<1>1. Cardinality(Recorded) \in Nat /\ Cardinality(Recorded) + m < RunLimit
  BY FS_CardinalityType, RetryQueueAssumption
  DEF QuotaInv, QuotaExhausted, RunCount, Recorded
<1>2. Cardinality(RunningWorkers') \in 0 .. Cardinality(Worker)
  <2>1. RunningWorkers' \in SUBSET Worker
    BY DEF RunningWorkers
  <2>2. /\ IsFiniteSet(RunningWorkers')
        /\ Cardinality(RunningWorkers') <= Cardinality(Worker)
    BY <2>1, ProcessesAssumption, FS_Subset
  <2>3. QED
    BY <2>2, Processes, FS_CardinalityType
<1>3. /\ Cardinality(Held') \in Nat
      /\ Cardinality(Held') <= Cardinality(Session) * Cardinality(Workflow)
                                 - Cardinality(Workflow) + Cardinality(Mine(s)')
  <2>1. Held' \subseteq ((Session \ {s}) \X Workflow) \cup ({s} \X Mine(s)')
    BY DEF Held, Mine
  <2>2. Mine(s)' \in SUBSET Workflow
    BY DEF Mine
  <2>3. PICK H : H = Held'
    OBVIOUS
  <2>4. PICK M : M = Mine(s)'
    OBVIOUS
  <2>5. Cardinality(H) <= Cardinality(Session) * Cardinality(Workflow)
                            - Cardinality(Workflow) + Cardinality(M)
    BY <2>1, <2>2, <2>3, <2>4, HeldBound
  <2>6. Held' \in SUBSET (Session \X Workflow)
    BY DEF Held
  <2>7. IsFiniteSet(Session \X Workflow)
    BY ProcessesAssumption, RetryQueueAssumption, FS_Product
  <2>8. Cardinality(Held') \in Nat
    BY <2>6, <2>7, FS_Subset, FS_CardinalityType
  <2>9. QED
    BY <2>3, <2>4, <2>5, <2>8
<1>4. Cardinality(Mine(s)') \in Nat
  BY FS_CardinalityType
<1>5. HeldBackByOthers' = HeldBackByOthers
  BY DEF HeldBackByOthers
<1> DEFINE P == Cardinality(Session) * Cardinality(Workflow)
<1>6. P \in Nat /\ HeldBackByOthers >= Cardinality(Worker) + P - Cardinality(Workflow)
  BY Processes
<1>7. Cardinality(Held') <= P - Cardinality(Workflow) + m + 1
  <2> HIDE DEF P
  <2>1. Cardinality(Held') <= P - Cardinality(Workflow) + Cardinality(Mine(s)')
    BY <1>3 DEF P
  <2>2. QED
    BY <1>3, <1>4, <1>6, <2>1, Processes
<1> HIDE DEF P
<1>8. IsFiniteSet(Recorded')
  BY DEF QuotaInv
<1>9. Cardinality(Recorded') + Cardinality(RunningWorkers') + Cardinality(Held')
        <= RunLimit + HeldBackByOthers
  BY <1>1, <1>2, <1>3, <1>6, <1>7, Processes, RetryQueueAssumption
<1>10. QED
  BY <1>5, <1>8, <1>9 DEF QuotaInv

\* What ends without a row, or deletes rows, only makes room.
LEMMA QuotaShrinks ==
  ASSUME QuotaInv,
         Recorded' \subseteq Recorded,
         RunningWorkers' \subseteq RunningWorkers,
         Held' \subseteq Held
  PROVE  QuotaInv'
<1>1. /\ IsFiniteSet(Recorded)
      /\ IsFiniteSet(RunningWorkers)
      /\ IsFiniteSet(Held)
  BY InProgress DEF QuotaInv
<1>2. /\ IsFiniteSet(Recorded')
      /\ IsFiniteSet(RunningWorkers')
      /\ IsFiniteSet(Held')
      /\ Cardinality(Recorded') <= Cardinality(Recorded)
      /\ Cardinality(RunningWorkers') <= Cardinality(RunningWorkers)
      /\ Cardinality(Held') <= Cardinality(Held)
  BY <1>1, FS_Subset
<1>3. /\ Cardinality(Recorded') \in Nat
      /\ Cardinality(RunningWorkers') \in Nat
      /\ Cardinality(Held') \in Nat
      /\ Cardinality(Recorded) \in Nat
      /\ Cardinality(RunningWorkers) \in Nat
      /\ Cardinality(Held) \in Nat
  BY <1>1, <1>2, FS_CardinalityType
<1>4. HeldBackByOthers' = HeldBackByOthers
  BY DEF HeldBackByOthers
<1>5. QED
  BY <1>2, <1>3, <1>4, Processes, RetryQueueAssumption DEF QuotaInv

\* The commit of a retry turns an execution in progress into a row.
LEMMA QuotaCommit ==
  ASSUME QuotaInv, NEW n, NEW w \in RunningWorkers,
         Recorded' = Recorded \cup {n},
         RunningWorkers' = RunningWorkers \ {w},
         Held' = Held
  PROVE  QuotaInv'
<1>1. /\ IsFiniteSet(Recorded)
      /\ IsFiniteSet(RunningWorkers)
      /\ Cardinality(Recorded) \in Nat
      /\ Cardinality(RunningWorkers) \in Nat
      /\ Cardinality(Held) \in Nat
  BY InProgress, FS_CardinalityType DEF QuotaInv
<1>2. /\ IsFiniteSet(Recorded')
      /\ Cardinality(Recorded') \in {Cardinality(Recorded), Cardinality(Recorded) + 1}
  BY <1>1, FS_AddElement
<1>3. Cardinality(RunningWorkers \ {w}) = Cardinality(RunningWorkers) - 1
  BY <1>1, FS_RemoveElement
<1>4. HeldBackByOthers' = HeldBackByOthers
  BY DEF HeldBackByOthers
<1>5. /\ Cardinality(RunningWorkers') = Cardinality(RunningWorkers) - 1
      /\ Cardinality(Held') = Cardinality(Held)
  BY <1>3, Zenon
<1>6. QED
  BY <1>1, <1>2, <1>4, <1>5, Processes, RetryQueueAssumption DEF QuotaInv

\* The commit of a request turns all that it holds into rows.
LEMMA QuotaFinish ==
  ASSUME QuotaInv, NEW s \in Session, NEW N, IsFiniteSet(N),
         IsFiniteSet(Mine(s)), Cardinality(N) = Cardinality(Mine(s)),
         Recorded' = Recorded \cup N,
         RunningWorkers' = RunningWorkers,
         Held' = Held \ ({s} \X Mine(s))
  PROVE  QuotaInv'
<1> DEFINE B == {s} \X Mine(s)
<1>1. /\ IsFiniteSet(Recorded)
      /\ IsFiniteSet(Held)
      /\ Cardinality(Recorded) \in Nat
      /\ Cardinality(RunningWorkers) \in Nat
      /\ Cardinality(Held) \in Nat
      /\ Cardinality(Mine(s)) \in Nat
  BY InProgress, FS_CardinalityType DEF QuotaInv
<1>2. /\ IsFiniteSet(Recorded \cup N)
      /\ Cardinality(Recorded \cup N) \in Nat
      /\ Cardinality(Recorded \cup N) <= Cardinality(Recorded) + Cardinality(Mine(s))
  <2>1. /\ IsFiniteSet(Recorded \cup N)
        /\ Cardinality(Recorded \cup N) =
             Cardinality(Recorded) + Cardinality(N) - Cardinality(Recorded \cap N)
    BY <1>1, FS_Union
  <2>2. Cardinality(Recorded \cap N) \in Nat /\ Cardinality(Recorded \cup N) \in Nat
    BY <1>1, <2>1, FS_Intersection, FS_CardinalityType
  <2>3. QED
    BY <1>1, <2>1, <2>2
<1>3. Cardinality(B) = Cardinality(Mine(s))
  <2>1. IsFiniteSet({s}) /\ Cardinality({s}) = 1
    BY FS_Singleton
  <2>2. Cardinality(B) = Cardinality({s}) * Cardinality(Mine(s))
    BY <2>1, FS_Product
  <2>3. QED
    BY <1>1, <2>1, <2>2
<1>4. Held \cap B = B
  BY DEF Held, Mine
<1> HIDE DEF B
<1>5. Cardinality(Held \ B) = Cardinality(Held) - Cardinality(Mine(s))
  <2>1. Cardinality(Held \ B) = Cardinality(Held) - Cardinality(Held \cap B)
    BY <1>1, FS_Difference
  <2>2. QED
    BY <1>3, <1>4, <2>1
<1>6. /\ IsFiniteSet(Recorded')
      /\ Cardinality(Recorded') \in Nat
      /\ Cardinality(Recorded') <= Cardinality(Recorded) + Cardinality(Mine(s))
      /\ Cardinality(RunningWorkers') = Cardinality(RunningWorkers)
      /\ Cardinality(Held') = Cardinality(Held) - Cardinality(Mine(s))
  BY <1>2, <1>5, Zenon DEF B
<1>7. HeldBackByOthers' = HeldBackByOthers
  BY DEF HeldBackByOthers
<1>8. QED
  BY <1>1, <1>6, <1>7, Processes, RetryQueueAssumption DEF QuotaInv

\* A worker starts an execution under the limit, turns it into a row, or ends
\* it without one.
LEMMA QuotaWorker ==
  ASSUME IInv, QuotaInv, NEW w \in Worker, WorkerStep(w) \/ CrashWorker(w)
  PROVE  QuotaInv'
<1>0. TypeInv /\ ClaimsExclusive
  BY DEF IInv
<1>a. Held' = Held
  <2>1. spc' = spc /\ swf' = swf /\ work' = work
    BY DEF WorkerStep, SelectDue, Claim, Skip, Execute, Refuse, CommitRetry,
           FailRetry, HandleFailure, CrashWorker
  <2>2. QED
    BY <2>1 DEF Held, Executing
<1>1. CASE Execute(w)
  <2>1. Recorded' = Recorded /\ ~QuotaExhausted(0)
    BY <1>1 DEF Execute, Recorded, Exists
  <2>2. QED
    BY <2>1, QuotaWorkerStart
<1>2. CASE CommitRetry(w)
  <2>1. PICK n \in Run : Recorded' = Recorded \cup {n}
    <3>1. PICK n \in Run : Supersedes(hold[w], n) /\ hold[w] \in Run
      BY <1>0, <1>2, CommitEffect
    <3>2. /\ row[hold[w]].status = "FAILED" /\ row'[hold[w]].status = "FAILED"
          /\ row'[n].status \in {"COMPLETED", "FAILED"}
          /\ \A r \in Run \ {n, hold[w]} : row'[r] = row[r]
      BY <3>1 DEF Supersedes, Waiting, Inserts, OthersSame
    <3>3. Recorded' = Recorded \cup {n}
      BY <3>1, <3>2 DEF Recorded, Exists
    <3>4. QED
      BY <3>3
  <2>2. /\ wpc[w] = "running"
        /\ wpc'[w] # "running"
        /\ \A v \in Worker \ {w} : wpc'[v] = wpc[v]
    <3>1. wpc[w] = "running" /\ EndItem(w)
      BY <1>2 DEF CommitRetry
    <3>2. QED
      BY <1>0, <3>1, EndItemType
  <2>3. /\ w \in RunningWorkers
        /\ RunningWorkers' = RunningWorkers \ {w}
    BY <2>2 DEF RunningWorkers
  <2>4. QED
    BY <1>a, <2>1, <2>3, QuotaCommit
<1>3. CASE \/ SelectDue(w) \/ Claim(w) \/ Skip(w) \/ Refuse(w)
           \/ FailRetry(w) \/ HandleFailure(w) \/ CrashWorker(w)
  <2>1. /\ wpc'[w] # "running"
        /\ \A v \in Worker \ {w} : wpc'[v] = wpc[v]
    BY <1>0, <1>3
    DEF SelectDue, Claim, Skip, EndItem, EndPass, Refuse, FailRetry,
        HandleFailure, CrashWorker, TypeInv, TypeOK
  <2>2. RunningWorkers' \subseteq RunningWorkers
    BY <2>1 DEF RunningWorkers
  <2>3. Recorded' \subseteq Recorded
    <3>1. CASE row' = row
      BY <3>1 DEF Recorded, Exists
    <3>2. CASE \E r \in Run : Charges(r)
      BY <3>2 DEF Charges, Waiting, OthersSame, Recorded, Exists
    <3>3. QED
      BY <1>0, <1>3, <3>1, <3>2, HandleEffect
      DEF SelectDue, Claim, Skip, Refuse, FailRetry, CrashWorker
  <2>4. QED
    BY <1>a, <2>2, <2>3, QuotaShrinks
<1>4. QED
  BY <1>1, <1>2, <1>3 DEF WorkerStep

\* So does a request, which may hold several runs.
LEMMA QuotaSession ==
  ASSUME IInv, QuotaInv, NEW s \in Session, SessionStep(s)
  PROVE  QuotaInv'
<1>0. TypeInv /\ WorkShape
  BY DEF IInv
<1>a. RunningWorkers' = RunningWorkers
  <2>1. wpc' = wpc
    BY DEF SessionStep, StartRun, StartAdminRetry, NextRun, RefuseRun, FinishRun,
           FailRun, MarkOld, CrashSession
  <2>2. QED
    BY <2>1 DEF RunningWorkers
<1>1. CASE \/ \E wfs \in SUBSET Workflow : StartRun(s, wfs)
           \/ \E r \in Run : StartAdminRetry(s, r)
  <2>1. Recorded' = Recorded /\ ~QuotaExhausted(0)
    BY <1>1 DEF StartRun, StartAdminRetry, Recorded, Exists
  <2>2. PICK wf \in Workflow : swf'[s] = wf /\ work'[s] = {}
    BY <1>0, <1>1 DEF StartRun, StartAdminRetry, TypeInv, TypeOK, WorkflowRun
  <2>3. Mine(s)' \subseteq {wf}
    BY <2>2 DEF Mine, Executing
  <2>4. /\ IsFiniteSet({wf})
        /\ Cardinality({wf}) = 1
        /\ Mine(s)' \in SUBSET {wf}
    BY <2>3, FS_Singleton
  <2>5. IsFiniteSet(Mine(s)') /\ Cardinality(Mine(s)') <= 0 + 1
    BY <2>4, FS_Subset
  <2>6. QED
    BY <2>1, <2>5, QuotaSessionStart
<1>2. CASE NextRun(s)
  <2>1. /\ Recorded' = Recorded
        /\ ~QuotaExhausted(Flushed(s))
        /\ spc[s] = "running"
    BY <1>2 DEF NextRun, Recorded, Exists
  <2>2. PICK wf \in todo[s], x \in Outcome(s) :
          /\ swf' = [swf EXCEPT ![s] = wf]
          /\ work' = [work EXCEPT ![s] = @ \cup {x}]
    BY <1>2 DEF NextRun
  <2>3. swf'[s] = wf /\ work'[s] = work[s] \cup {x} /\ x.workflow = swf[s]
    BY <1>0, <2>2, OutcomeFields DEF TypeInv, TypeOK
  <2>4. Mine(s)' \subseteq Mine(s) \cup {wf}
    BY <2>1, <2>3 DEF Mine, Executing
  <2>5. /\ IsFiniteSet(Mine(s))
        /\ Flushed(s) \in Nat
        /\ Cardinality(Mine(s)) <= Flushed(s)
    BY <1>0, <2>1, <2>2, MineCount
  <2>a. Cardinality(Mine(s)) \in Nat
    BY <2>5, FS_CardinalityType
  <2>b. /\ IsFiniteSet(Mine(s) \cup {wf})
        /\ \/ Cardinality(Mine(s) \cup {wf}) = Cardinality(Mine(s))
           \/ Cardinality(Mine(s) \cup {wf}) = Cardinality(Mine(s)) + 1
    BY <2>5, FS_AddElement, Zenon
  <2>6. /\ IsFiniteSet(Mine(s) \cup {wf})
        /\ Cardinality(Mine(s) \cup {wf}) <= Flushed(s) + 1
    BY <2>5, <2>a, <2>b
  <2>7. /\ IsFiniteSet(Mine(s)')
        /\ Cardinality(Mine(s)') <= Cardinality(Mine(s) \cup {wf})
    BY <2>4, <2>6, FS_Subset
  <2>8. Cardinality(Mine(s)') <= Flushed(s) + 1
    BY <2>5, <2>6, <2>7, FS_CardinalityType
  <2>9. QED
    BY <2>1, <2>5, <2>7, <2>8, QuotaSessionStart
<1>3. CASE FinishRun(s)
  <2>1. spc[s] = "running"
    BY <1>3 DEF FinishRun
  <2>2. PICK N \in SUBSET Run, x \in Outcome(s) :
          /\ RecordsFirst(N)
          /\ ExistsBijection(N, work[s] \cup {x})
    BY <1>0, <1>3, FinishEffect
  <2>3. Recorded' = Recorded \cup N
    BY <2>2 DEF RecordsFirst, Inserts, OthersSame, Recorded, Exists
  <2>4. ExistsBijection(work[s] \cup {x}, Mine(s)) /\ IsFiniteSet(Mine(s))
    BY <1>0, <2>1, <2>2, MineCount
  <2>5. ExistsBijection(Mine(s), N)
    BY <2>2, <2>4, Fun_ExistsBijTransitive, Fun_ExistsBijSymmetric
  <2>6. IsFiniteSet(N) /\ Cardinality(N) = Cardinality(Mine(s))
    BY <2>4, <2>5, FS_Bijection
  <2>7. Held' = Held \ ({s} \X Mine(s))
    <3>1. /\ spc'[s] # "running"
          /\ \A t \in Session \ {s} : /\ spc'[t] = spc[t]
                                      /\ swf'[t] = swf[t]
                                      /\ work'[t] = work[t]
      BY <1>0, <1>3 DEF FinishRun, EndRequest, TypeInv, TypeOK
    <3>2. /\ \A wf \in Workflow : ~Executing(s, wf)'
          /\ \A t \in Session \ {s}, wf \in Workflow :
               Executing(t, wf)' <=> Executing(t, wf)
      BY <3>1 DEF Executing
    <3>3. ASSUME NEW t \in Session, NEW wf \in Workflow
          PROVE  <<t, wf>> \in Held' <=> <<t, wf>> \in Held \ ({s} \X Mine(s))
      BY <3>2 DEF Held, Mine
    <3>4. Held \subseteq Session \X Workflow /\ Held' \subseteq Session \X Workflow
      BY DEF Held
    <3>5. QED
      BY <3>3, <3>4
  <2>8. QED
    BY <1>a, <2>3, <2>4, <2>6, <2>7, QuotaFinish
<1>4. CASE RefuseRun(s) \/ FailRun(s) \/ MarkOld(s) \/ CrashSession(s)
  <2>1. /\ spc'[s] # "running"
        /\ \A t \in Session \ {s} : /\ spc'[t] = spc[t]
                                    /\ swf'[t] = swf[t]
                                    /\ work'[t] = work[t]
    BY <1>0, <1>4
    DEF RefuseRun, FailRun, MarkOld, CrashSession, EndRequest, TypeInv, TypeOK
  <2>2. Held' \subseteq Held
    BY <2>1 DEF Held, Executing
  <2>3. Recorded' \subseteq Recorded
    <3>1. CASE row' = row
      BY <3>1 DEF Recorded, Exists
    <3>2. CASE \E r \in Run : TakesOver(r)
      BY <3>2 DEF TakesOver, OthersSame, Recorded, Exists
    <3>3. QED
      BY <1>0, <1>4, <3>1, <3>2, MarkEffect DEF RefuseRun, FailRun, CrashSession
  <2>4. QED
    BY <1>a, <2>2, <2>3, QuotaShrinks
<1>5. QED
  BY <1>1, <1>2, <1>3, <1>4 DEF SessionStep

\* The empty table is within the limit.
LEMMA InitQuotaInv == Init => QuotaInv
<1> SUFFICES ASSUME Init PROVE QuotaInv
  OBVIOUS
<1>1. Recorded = {} /\ RunningWorkers = {} /\ Held = {}
  BY DEF Init, Recorded, Exists, NoRow, RunningWorkers, Held, Executing
<1>2. QED
  BY <1>1, FS_EmptySet, Processes, RetryQueueAssumption DEF QuotaInv

\* The quota, checked without a lock before a run is inserted, is overrun by no
\* more than what the others hold back: one retry per worker and a run of every
\* workflow per session, but for the last process to check.
THEOREM OvershootBounded == Spec => []QuotaOvershootBounded
<1>1. Init => QuotaInv
  BY InitQuotaInv
<1>2. IInv /\ QuotaInv /\ [Next]_vars => QuotaInv'
  <2> SUFFICES ASSUME IInv, QuotaInv, [Next]_vars PROVE QuotaInv'
    OBVIOUS
  <2>1. ASSUME NEW wf \in Workflow,
               ActivateWorkflow(wf) \/ DeactivateWorkflow(wf) \/ DeleteWorkflow(wf)
        PROVE  QuotaInv'
    <3>1. UNCHANGED <<wpc, spc, swf, work>>
      BY <2>1 DEF ActivateWorkflow, DeactivateWorkflow, DeleteWorkflow
    <3>2. RunningWorkers' \subseteq RunningWorkers /\ Held' \subseteq Held
      BY <3>1 DEF RunningWorkers, Held, Executing
    <3>3. Recorded' \subseteq Recorded
      <4>1. \A r \in Run : row'[r].status \in {"DELETED", row[r].status}
        BY <2>1 DEF ActivateWorkflow, DeactivateWorkflow, DeleteWorkflow, NoRow
      <4>2. QED
        BY <4>1 DEF Recorded, Exists
    <3>4. QED
      BY <3>2, <3>3, QuotaShrinks
  <2>2. CASE Tick \/ UNCHANGED vars
    <3>1. UNCHANGED <<row, wpc, spc, swf, work>>
      BY <2>2 DEF Tick, vars
    <3>2. /\ Recorded' \subseteq Recorded
          /\ RunningWorkers' \subseteq RunningWorkers
          /\ Held' \subseteq Held
      BY <3>1 DEF Recorded, Exists, RunningWorkers, Held, Executing
    <3>3. QED
      BY <3>2, QuotaShrinks
  <2>3. QED
    BY <2>1, <2>2, QuotaWorker, QuotaSession DEF Next, SessionStep
<1>3. QuotaInv => QuotaOvershootBounded
  <2> SUFFICES ASSUME QuotaInv PROVE QuotaOvershootBounded
    OBVIOUS
  <2>1. Cardinality(Recorded) \in Nat
    BY FS_CardinalityType DEF QuotaInv
  <2>2. QED
    BY <2>1, Processes, InProgress, RetryQueueAssumption
    DEF QuotaInv, QuotaOvershootBounded, RunCount, Recorded
<1>4. QED
  BY <1>1, <1>2, <1>3, Invariant, PTL DEF Spec
=============================================================================
