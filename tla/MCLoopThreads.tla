------------------------------ MODULE MCLoopThreads ------------------------------
(* Numbers only: see the configuration.  *)
EXTENDS LoopThreads

================================================================================
