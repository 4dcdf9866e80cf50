------------------------- MODULE MCExecutorDispatch -------------------------
(* TLC instance of ExecutorDispatch: three accounts competing for two      *)
(* places and one execution slot, and a restart at any point.              *)
EXTENDS ExecutorDispatch
=============================================================================
