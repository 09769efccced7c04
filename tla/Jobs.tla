---------------------------------- MODULE Jobs ----------------------------------
(***************************************************************************)
(* What StepDrv promises to the code above it: it has at most one job, a   *)
(* move or a calibration; a new move replaces the move under way, nothing  *)
(* but a new calibration touches a calibration; the motor turns for the    *)
(* job only, and a calibration ends after N measured points, each taken    *)
(* with the motor at rest.  No pins, no timers, no events.                 *)
(***************************************************************************)
EXTENDS Naturals

CONSTANTS
  N,            \* points of a calibration, at least one
  Destinations  \* where a move may lead

VARIABLES
  job,       \* "idle", "moving" or "calibrating"
  target,    \* destination of the last move
  turning,   \* does the motor turn?
  measured   \* points the calibration under way has taken

jobVars == <<job, target, turning, measured>>

JobsInit ==
  /\ job = "idle" /\ target = 0 /\ turning = FALSE /\ measured = 0

Go ==
  /\ job # "calibrating"
  /\ job' = "moving" /\ turning' = TRUE
  /\ target' \in Destinations
  /\ UNCHANGED measured

Arrive ==
  /\ job = "moving"
  /\ job' = "idle" /\ turning' = FALSE
  /\ UNCHANGED <<target, measured>>

Sweep ==
  /\ job # "moving"
  /\ job' = "calibrating" /\ turning' = TRUE /\ measured' = 0
  /\ UNCHANGED target

Rest ==
  /\ job = "calibrating" /\ turning
  /\ turning' = FALSE
  /\ UNCHANGED <<job, target, measured>>

Measure ==
  /\ job = "calibrating" /\ ~turning /\ measured < N - 1
  /\ measured' = measured + 1 /\ turning' = TRUE
  /\ UNCHANGED <<job, target>>

Finish ==
  /\ job = "calibrating" /\ ~turning /\ measured = N - 1
  /\ job' = "idle" /\ measured' = 0
  /\ UNCHANGED <<target, turning>>

JobsNext == Go \/ Arrive \/ Sweep \/ Rest \/ Measure \/ Finish

JobsSpec == JobsInit /\ [][JobsNext]_jobVars

================================================================================
