--------------------------- MODULE MCRetryQueue ---------------------------
(* Small instances of RetryQueue for TLC. *)
EXTENDS RetryQueue, TLC

Symmetry ==
  Permutations(Run) \cup Permutations(Worker) \cup Permutations(Session)

\* No administrator: what the workers and ordinary requests do by themselves.
WorkerNext ==
  \/ \E w \in Worker : WorkerStep(w) \/ CrashWorker(w)
  \/ \E s \in Session :
       \/ \E wfs \in SUBSET Workflow : StartRun(s, wfs)
       \/ NextRun(s)
       \/ RefuseRun(s)
       \/ FinishRun(s)
       \/ FailRun(s)
  \/ Tick

WorkerSpec == Init /\ [][WorkerNext]_vars

LiveSpec == WorkerSpec /\ Fairness

\* Few enough first attempts that neither the quota nor the row identities run
\* out: every retry can be recorded.
AmpleNext ==
  \/ \E w \in Worker : WorkerStep(w) \/ CrashWorker(w)
  \/ \E s \in Session :
       \/ RunCount < 2 /\ \E wfs \in SUBSET Workflow : StartRun(s, wfs)
       \/ NextRun(s)
       \/ RefuseRun(s)
       \/ FinishRun(s)
       \/ FailRun(s)
  \/ Tick

AmpleSpec == Init /\ [][AmpleNext]_vars /\ Fairness
=============================================================================
