------------------------------ MODULE StepDrvJobs ------------------------------
(* StepDrv whose users do not calibrate during a move implements Jobs. *)
EXTENDS StepDrv

Job ==
  IF onCalibration THEN "calibrating"
  ELSE IF mstate = "Idle" THEN "idle" ELSE "moving"

(* The padding is a point that was not measured. *)
Measured == IF onCalibration THEN Len(calibPoints) - 1 ELSE 0

J == INSTANCE Jobs WITH
       N <- CalibPoints, Destinations <- 0..360,
       job <- Job, target <- destAzimuth, turning <- step.busy,
       measured <- Measured

(* Every behaviour of the driver is, seen from above, one of Jobs: one job  *)
(* at a time, a calibration of exactly CalibPoints measurements with the    *)
(* motor at rest, and no motor turning without a job.                       *)
ImplementsJobs == J!JobsSpec

================================================================================
