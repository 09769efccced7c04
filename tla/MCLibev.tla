-------------------------------- MODULE MCLibev --------------------------------
(* Three timers and an io watcher. *)
EXTENDS Libev

CONSTANTS t1, t2, t3, i1

TimersDef == {t1, t2, t3}
IosDef == {i1}
StoppedDef == {t1, t2}
DelaysDef == {1, 2}

================================================================================
