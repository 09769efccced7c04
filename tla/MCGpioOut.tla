------------------------------- MODULE MCGpioOut -------------------------------
(* Series of one to eight pulses, and the values pulseCnt may start with:    *)
(* the ones its tests single out, and others.                               *)
EXTENDS GpioOut

MCSeries == {1, 2, 3, 8}
MCGarbage == {-7, -1, 0, 1, 2, 9}

================================================================================
