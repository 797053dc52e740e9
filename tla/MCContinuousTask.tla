-------------------------- MODULE MCContinuousTask --------------------------
(***************************************************************************)
(* ContinuousTask on a small instance: step processes are interchangeable.   *)
(***************************************************************************)
EXTENDS ContinuousTask, TLC

Symmetry == Permutations(Pids)

\* The search ends where a step has died without a result: the other two runs go on.
NoOrphans == deaths = 0
=============================================================================
