----------------------------- MODULE MCSession -----------------------------
(* Small instances of Session for TLC. *)
EXTENDS Session, TLC

Symmetry == Permutations(Tab) \cup Permutations(User)
=============================================================================
