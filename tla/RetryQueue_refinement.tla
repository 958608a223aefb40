----------------------- MODULE RetryQueue_refinement -----------------------
(***************************************************************************)
(* RetryQueue implements AttemptLifecycle, for every value of the          *)
(* constants: each step of a worker, a request or an administrator is one  *)
(* step in the life of the attempts, or none.                              *)
(***************************************************************************)
EXTENDS RetryQueue_proofs

\* The abstract state that the table stands for.
phaseBar == [r \in Run |-> phaseOf(row[r])]
triedBar == [r \in Run |-> row[r].retry_count]
originBar == [r \in Run |-> row[r].parent]

\* The phase of a row, case by case.
LEMMA PhaseOf ==
  ASSUME NEW x
  PROVE  /\ x.status = "ABSENT" => phaseOf(x) = "none"
         /\ x.status = "DELETED" => phaseOf(x) = "deleted"
         /\ x.status = "COMPLETED" /\ ~x.is_dead_letter => phaseOf(x) = "done"
         /\ x.status = "COMPLETED" /\ x.is_dead_letter => phaseOf(x) = "dead"
         /\ x.status = "FAILED" /\ x.is_dead_letter => phaseOf(x) = "dead"
         /\ x.status = "FAILED" /\ ~x.is_dead_letter /\ x.next_retry_at = NoTime
              => phaseOf(x) = "superseded"
         /\ x.status = "FAILED" /\ ~x.is_dead_letter /\ x.next_retry_at # NoTime
              => phaseOf(x) = "waiting"
BY DEF phaseOf

\* A new row is in one of the phases that n tries allow.
LEMMA InsertsPhase ==
  ASSUME NEW n \in Run, Inserts(n), row'[n].retry_count \in Nat
  PROVE  /\ phaseOf(row[n]) = "none"
         /\ phaseOf(row'[n]) =
              IF row'[n].status = "COMPLETED" THEN "done"
              ELSE IF row'[n].retry_count >= MaxRetries THEN "dead" ELSE "waiting"
<1>1. CASE row'[n].status = "COMPLETED"
  BY <1>1, PhaseOf DEF Inserts
<1>2. CASE row'[n].status = "FAILED" /\ row'[n].retry_count >= MaxRetries
  BY <1>2, PhaseOf, RetryQueueAssumption DEF Inserts
<1>3. CASE row'[n].status = "FAILED" /\ ~(row'[n].retry_count >= MaxRetries)
  BY <1>3, PhaseOf, RetryQueueAssumption DEF Inserts
<1>4. QED
  BY <1>1, <1>2, <1>3 DEF Inserts

\* Recording first attempts in one commit is a Record step of the life cycle.
LEMMA RecordsFirstMaps ==
  ASSUME TypeInv, TypeInv', RowInv, NEW N \in SUBSET Run, RecordsFirst(N)
  PROVE  Lifecycle!Record(N)
<1> DEFINE v == [n \in N |-> phaseOf(row'[n])]
<1>0. /\ \A n \in N : Inserts(n)
      /\ \A r \in Run \ N : row'[r] = row[r]
  BY DEF RecordsFirst, OthersSame
<1>1. \A n \in N : phaseBar[n] = "none"
  <2> SUFFICES ASSUME NEW n \in N PROVE phaseBar[n] = "none"
    OBVIOUS
  <2>1. phaseOf(row[n]) = "none"
    BY <1>0, PhaseOf DEF Inserts
  <2>2. QED
    BY <2>1 DEF phaseBar
<1>2. \A n \in N : /\ v[n] \in Lifecycle!Verdicts(1)
                   /\ row'[n].retry_count = IF v[n] = "done" THEN 0 ELSE 1
                   /\ row'[n].parent = row[n].parent
  <2> SUFFICES ASSUME NEW n \in N
               PROVE  /\ v[n] \in Lifecycle!Verdicts(1)
                      /\ row'[n].retry_count = IF v[n] = "done" THEN 0 ELSE 1
                      /\ row'[n].parent = row[n].parent
    OBVIOUS
  <2>1. /\ Inserts(n)
        /\ row'[n].retry_count \in Nat
        /\ row[n].parent = NoRun /\ row'[n].parent = NoRun
    BY <1>0, AbsentNotSuperseded, RowFacts
    DEF RecordsFirst, Inserts, TypeInv, TypeOK, WorkflowRun
  <2>2. QED
    BY <2>1, InsertsPhase DEF RecordsFirst, Lifecycle!Verdicts, Inserts
<1>3. \A n \in N : phaseOf(row'[n]) = v[n]
  OBVIOUS
<1>4. v \in [N -> Lifecycle!Verdicts(1)]
  BY <1>2
<1> HIDE DEF v
<1>5. phaseBar' = [r \in Run |-> IF r \in N THEN v[r] ELSE phaseBar[r]]
  BY <1>0, <1>3 DEF phaseBar
<1>6. triedBar' = [r \in Run |-> IF r \notin N THEN triedBar[r]
                               ELSE IF v[r] = "done" THEN 0 ELSE 1]
  BY <1>0, <1>2 DEF triedBar
<1>7. originBar' = originBar
  BY <1>0, <1>2 DEF originBar
<1>8. QED
  BY <1>1, <1>4, <1>5, <1>6, <1>7
  DEF Lifecycle!Record, phaseBar, triedBar, originBar

\* Committing a retry is one Retry step: both rows change at once.
LEMMA SupersedesMaps ==
  ASSUME TypeInv, TypeInv', RowInv, NEW p \in Run, NEW n \in Run,
         Supersedes(p, n)
  PROVE  Lifecycle!Retry(p, n)
<1>0. /\ Inserts(n)
      /\ n # p
      /\ row[p].retry_count \in Nat
      /\ row'[n].retry_count = row[p].retry_count + 1
      /\ row'[n].parent = p
      /\ row'[p].retry_count = row[p].retry_count
      /\ row'[p].parent = row[p].parent
      /\ \A r \in Run \ {n, p} : row'[r] = row[r]
  BY RowFacts DEF Supersedes, OthersSame, Inserts, Waiting
<1> DEFINE v == phaseOf(row'[n])
<1>1. /\ phaseOf(row[p]) = "waiting"
      /\ phaseOf(row'[p]) = "superseded"
  BY PhaseOf DEF Supersedes, Waiting
<1>2. /\ phaseOf(row[n]) = "none"
      /\ v \in Lifecycle!Verdicts(row[p].retry_count + 1)
  BY <1>0, InsertsPhase DEF Lifecycle!Verdicts, Inserts
<1> HIDE DEF v
<1>3. phaseBar' = [phaseBar EXCEPT ![p] = "superseded", ![n] = v]
  BY <1>0, <1>1 DEF phaseBar, v
<1>4. triedBar' = [triedBar EXCEPT ![n] = triedBar[p] + 1]
  BY <1>0 DEF triedBar
<1>5. originBar' = [originBar EXCEPT ![n] = p]
  BY <1>0 DEF originBar
<1>6. /\ phaseBar[p] = "waiting"
      /\ phaseBar[n] = "none"
      /\ v \in Lifecycle!Verdicts(triedBar[p] + 1)
  BY <1>1, <1>2 DEF phaseBar, triedBar
<1>7. QED
  BY <1>3, <1>4, <1>5, <1>6
  DEF Lifecycle!Retry, phaseBar, triedBar, originBar

\* Charging an unrecorded try is a Charge step.
LEMMA ChargesMaps ==
  ASSUME TypeInv, NEW r \in Run, Charges(r)
  PROVE  Lifecycle!Charge(r)
<1>0. /\ row[r].retry_count \in Nat
      /\ row'[r].retry_count = row[r].retry_count + 1
      /\ row'[r].parent = row[r].parent
      /\ \A s \in Run \ {r} : row'[s] = row[s]
  BY RowFacts DEF Charges, OthersSame
<1> DEFINE v == IF row[r].retry_count + 1 >= MaxRetries THEN "dead" ELSE "waiting"
<1>1. phaseOf(row[r]) = "waiting"
  BY PhaseOf DEF Charges, Waiting
<1>2. phaseOf(row'[r]) = v
  <2>1. CASE row[r].retry_count + 1 >= MaxRetries
    BY <1>0, <2>1, PhaseOf, RetryQueueAssumption DEF Charges
  <2>2. CASE ~(row[r].retry_count + 1 >= MaxRetries)
    BY <1>0, <2>2, PhaseOf, RetryQueueAssumption DEF Charges
  <2>3. QED
    BY <2>1, <2>2
<1>3. phaseBar' = [phaseBar EXCEPT ![r] = v]
  BY <1>0, <1>2 DEF phaseBar
<1>4. triedBar' = [triedBar EXCEPT ![r] = @ + 1]
  BY <1>0 DEF triedBar
<1>5. originBar' = originBar
  BY <1>0 DEF originBar
<1>6. phaseBar[r] = "waiting" /\ triedBar[r] = row[r].retry_count
  BY <1>1 DEF phaseBar, triedBar
<1>7. QED
  BY <1>3, <1>4, <1>5, <1>6
  DEF Lifecycle!Charge, phaseBar, triedBar, originBar

\* Taking a run over is a GiveUp step.
LEMMA TakesOverMaps ==
  ASSUME TypeInv, NEW r \in Run, TakesOver(r)
  PROVE  Lifecycle!GiveUp(r)
<1>0. /\ row'[r].retry_count = row[r].retry_count
      /\ row'[r].parent = row[r].parent
      /\ \A s \in Run \ {r} : row'[s] = row[s]
  BY DEF TakesOver, OthersSame
<1>1. phaseOf(row[r]) \in {"done", "waiting", "superseded", "dead"}
  <2>1. row[r].is_dead_letter \in BOOLEAN
    BY DEF TypeInv, TypeOK, WorkflowRun
  <2>2. QED
    BY <2>1, PhaseOf DEF TakesOver, Exists
<1>2. phaseOf(row'[r]) = "dead"
  BY PhaseOf DEF TakesOver, Exists
<1>3. phaseBar' = [phaseBar EXCEPT ![r] = "dead"]
  BY <1>0, <1>2 DEF phaseBar
<1>4. triedBar' = triedBar
  BY <1>0 DEF triedBar
<1>5. originBar' = originBar
  BY <1>0 DEF originBar
<1>6. phaseBar[r] \in {"done", "waiting", "superseded", "dead"}
  BY <1>1 DEF phaseBar
<1>7. QED
  BY <1>3, <1>4, <1>5, <1>6
  DEF Lifecycle!GiveUp, phaseBar, triedBar, originBar

\* Deleting a workflow is a Forget step for its runs.
LEMMA DeletesMaps ==
  ASSUME TypeInv, NEW wf \in Workflow, Deletes(wf)
  PROVE  \E S \in SUBSET Run : Lifecycle!Forget(S)
<1> DEFINE S == {r \in Run : Exists(r) /\ row[r].workflow = wf}
<1>1. \A r \in S : /\ row'[r].status = "DELETED"
                   /\ row'[r].retry_count = 0
                   /\ row'[r].parent = NoRun
  BY DEF Deletes, NoRow
<1>2. \A r \in Run \ S : row'[r] = row[r]
  BY DEF Deletes
<1>3. \A r \in S : phaseOf(row[r]) # "none" /\ phaseOf(row'[r]) = "deleted"
  <2>1. \A r \in S : row[r].is_dead_letter \in BOOLEAN
    BY DEF TypeInv, TypeOK, WorkflowRun
  <2>2. QED
    BY <1>1, <2>1, PhaseOf DEF Exists
<1>4. S \in SUBSET Run
  OBVIOUS
<1> HIDE DEF S
<1>5. /\ phaseBar' = [r \in Run |-> IF r \in S THEN "deleted" ELSE phaseBar[r]]
      /\ \A r \in S : phaseBar[r] # "none"
  BY <1>2, <1>3, <1>4 DEF phaseBar
<1>6. triedBar' = [r \in Run |-> IF r \in S THEN 0 ELSE triedBar[r]]
  BY <1>1, <1>2, <1>4 DEF triedBar
<1>7. originBar' = [r \in Run |-> IF r \in S THEN NoRun ELSE originBar[r]]
  BY <1>1, <1>2, <1>4 DEF originBar
<1>8. QED
  BY <1>4, <1>5, <1>6, <1>7
  DEF Lifecycle!Forget, phaseBar, triedBar, originBar

\* The empty table is the initial state of the life cycle.
LEMMA InitMaps == Init => Lifecycle!Init
<1> SUFFICES ASSUME Init PROVE Lifecycle!Init
  OBVIOUS
<1>1. \A r \in Run : /\ row[r].status = "ABSENT"
                     /\ row[r].retry_count = 0
                     /\ row[r].parent = NoRun
  BY DEF Init, NoRow
<1>2. \A r \in Run : phaseOf(row[r]) = "none"
  BY <1>1, PhaseOf
<1>3. QED
  BY <1>1, <1>2 DEF Lifecycle!Init

\* Every step of the queue is a life-cycle step or a stutter.
LEMMA StepMaps == IInv /\ IInv' /\ [Next]_vars => [Lifecycle!Next]_(Lifecycle!vars)
<1> SUFFICES ASSUME IInv, IInv', [Next]_vars
             PROVE  [Lifecycle!Next]_(Lifecycle!vars)
  OBVIOUS
<1>1. TypeInv /\ TypeInv' /\ RowInv /\ RowEffect
  BY StepEffect DEF IInv
<1>2. CASE row' = row
  BY <1>2 DEF Lifecycle!vars
<1>3. ASSUME NEW N \in SUBSET Run, RecordsFirst(N) PROVE Lifecycle!Next
  BY <1>1, <1>3, RecordsFirstMaps DEF Lifecycle!Next
<1>4. ASSUME NEW p \in Run, NEW n \in Run, Supersedes(p, n) PROVE Lifecycle!Next
  BY <1>1, <1>4, SupersedesMaps DEF Lifecycle!Next
<1>5. ASSUME NEW r \in Run, Charges(r) PROVE Lifecycle!Next
  BY <1>1, <1>5, ChargesMaps DEF Lifecycle!Next
<1>6. ASSUME NEW r \in Run, TakesOver(r) PROVE Lifecycle!Next
  BY <1>1, <1>6, TakesOverMaps DEF Lifecycle!Next
<1>7. ASSUME NEW wf \in Workflow, Deletes(wf) PROVE Lifecycle!Next
  BY <1>1, <1>7, DeletesMaps DEF Lifecycle!Next
<1>8. QED
  BY <1>1, <1>2, <1>3, <1>4, <1>5, <1>6, <1>7 DEF RowEffect

\* Whatever the interleaving, a failed attempt is superseded by its one
\* successor, charged or given up as AttemptLifecycle says, in single steps.
THEOREM Refinement == Spec => ImplementsLifecycle
<1>1. Init => Lifecycle!Init
  BY InitMaps
<1>2. IInv /\ IInv' /\ [Next]_vars => [Lifecycle!Next]_(Lifecycle!vars)
  BY StepMaps
<1>3. QED
  BY <1>1, <1>2, Invariant, PTL DEF Spec, ImplementsLifecycle, Lifecycle!Spec
=============================================================================
