---------------------------- MODULE MCQwenWorker ----------------------------
(* An instance of QwenWorker for TLC. *)
EXTENDS QwenWorker, TLC

CONSTANTS o1, o2

\* A voice is prepared, and later evicted or unloaded with the model.
PrepareAndEvict == o1 :> {"load", "prewarm"} @@ o2 :> {"invalidate", "unload"}
=============================================================================
