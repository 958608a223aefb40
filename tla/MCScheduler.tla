---------------------------- MODULE MCScheduler ----------------------------
(* Small instances of Scheduler for TLC. *)
EXTENDS Scheduler, TLC

Symmetry ==
  Permutations(Workflow) \cup Permutations(Worker) \cup Permutations(Editor)
=============================================================================
