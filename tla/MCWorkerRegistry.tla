-------------------------- MODULE MCWorkerRegistry --------------------------
(* Small instances of WorkerRegistry.  No statement looks at two rows at   *)
(* once, so that one worker shows what any number of them do.              *)
EXTENDS WorkerRegistry

CONSTANTS w1
=============================================================================
