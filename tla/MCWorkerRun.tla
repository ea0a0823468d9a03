---------------------------- MODULE MCWorkerRun ----------------------------
(* The instances of WorkerRun for TLC: all constants are numbers. *)
EXTENDS WorkerRun
============================================================================
