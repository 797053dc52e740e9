---------------------------- MODULE MCWorkspaces ----------------------------
(***************************************************************************)
(* Workspaces on a small instance: tasks are interchangeable, and so are     *)
(* handlers.                                                                *)
(***************************************************************************)
EXTENDS Workspaces, TLC

Symmetry == Permutations(Names) \cup Permutations(Ops)

\* The search ends where the code has given something up for good: a topic it could not
\* archive, a branch it does not claim, a commit it cannot see, closings that overlap.
NothingGivenUp == excused \subseteq Names \cup {"crash"}
=============================================================================
