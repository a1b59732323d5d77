------------------------------- MODULE MCIdle -------------------------------
(* IdleLifecycle for interchangeable invocations. *)
EXTENDS IdleLifecycle, TLC

ProcSymmetry == Permutations(Procs)
=============================================================================
