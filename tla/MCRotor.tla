-------------------------------- MODULE MCRotor --------------------------------
(* Values of the constants of Rotor: a motor of 24 degrees a step, so that  *)
(* it passes the window of 5 degrees now and then, and calibrations in      *)
(* steps of 120 degrees.                                                    *)
EXTENDS Rotor

AllHeadings == 0..359
MCTargets == {552}
MCSpeeds == {3, 60}

================================================================================
