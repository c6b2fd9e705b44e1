--------------------------- MODULE MCWorkerProcess ----------------------------
(* Instances of WorkerProcess for TLC. *)
EXTENDS WorkerProcess

CONSTANTS j1, j2, term, int
=============================================================================
