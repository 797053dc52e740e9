-------------------------- MODULE MCCollaborative --------------------------
(***************************************************************************)
(* Collaborative with the symmetry of its chats: nothing orders them.       *)
(***************************************************************************)
EXTENDS Collaborative

Symmetry == Permutations(Chats)
=============================================================================
