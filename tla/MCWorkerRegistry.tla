-------------------------- MODULE MCWorkerRegistry --------------------------
(* A small instance of WorkerRegistry for TLC; the constants are in the cfg. *)
EXTENDS WorkerRegistry
=============================================================================
