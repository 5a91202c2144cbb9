---------------------------- MODULE MCReconciler ----------------------------
(* Small instances of Reconciler and of the RequestLog under it. *)
EXTENDS Reconciler, TLC

\* Inodes are only compared, so any two are alike.
AnyInode == Permutations(Inodes)

\* What is promised ends with the first circumstance that is not survived:
\* states behind it are not explored.
Unexcused == excuses = {} /\ doubts = {}
=============================================================================
