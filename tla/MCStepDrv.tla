------------------------------- MODULE MCStepDrv -------------------------------
(* Values of the constants of StepDrv for TLC.  With a target at the top of *)
(* the circle the headings fall into every range onTimerCb distinguishes,   *)
(* in both directions: below 5 degrees, up to the slow approach, below 90,  *)
(* up to 180 and above.                                                     *)
EXTENDS StepDrvJobs

MCHeadings == {0, 3, 40, 100, 200}
FewHeadings == {0, 40, 200}
MCTargets == {-450, 0, 360}
MCSpeeds == {3, 20, 60}
TwoSpeeds == {3, 60}

================================================================================
