-------------------------------- MODULE Azimuth --------------------------------
(***************************************************************************)
(* The arithmetic of the pointer (src/stepdrv.cpp): folding a requested    *)
(* azimuth into the circle, the distance left to the target in the turning *)
(* direction, the choice of the direction, and the period of the step      *)
(* signal for a speed.  Pure operators, no state.                          *)
(***************************************************************************)
EXTENDS Integers

CONSTANTS
  Divider,      \* microstep divider of the motor driver, [stepper]divider
  StepTenths    \* step of the motor in tenths of a degree, [stepper]stepsize

ASSUME GearAssumption ==
  /\ Divider \in Nat \ {0}
  /\ StepTenths \in Nat \ {0}

(* The values of a C int.  IntMin has no absolute value in that type. *)
IntMax == 2147483647
IntMin == -IntMax - 1

Directions == {"CounterClock", "Clockwise", "Nearest"}

STEPPER_SPEED_MAX == 50
STEPPER_SPEED_SLOW == 5
CALIBRATION_SPEED == 7

--------------------------------------------------------------------------------
(* normalizeAzimuth for every int but IntMin: C's / truncates toward zero,  *)
(* so the remainder keeps the sign of the dividend.                         *)
Remainder(a) == IF a < 0 THEN -((-a) % 360) ELSE a % 360

(* Mutant: the fold of several turns is forgotten.                          *)
NormalizeAzimuth_OneTurn(a) == IF a < 0 THEN 360 + a ELSE a

NormalizeAzimuth(a) ==
  LET r == IF a > 360 \/ a < -360 THEN Remainder(a) ELSE a
  IN  IF r < 0 THEN 360 + r ELSE r

(* What normalizeAzimuth may leave in its argument.  abs(IntMin) is         *)
(* undefined: a build that negates keeps IntMin (so the first branch is not *)
(* taken), a build that compares the range takes the first branch.          *)
NormalizeOutcomes(a) ==
  IF a = IntMin
  THEN {360 + IntMin, 360 - ((IntMax % 360) + 1)}
  ELSE {NormalizeAzimuth(a)}

(* pulses: the degrees left from cur to dest in the turning direction. *)
Pulses_NoWrap(cur, dest, clkWise) == IF clkWise THEN dest - cur ELSE cur - dest
Pulses(cur, dest, clkWise) ==
  LET d == IF clkWise THEN dest - cur ELSE cur - dest
  IN  IF d < 0 THEN 360 + d ELSE d

(* The direction move() settles on: TRUE is clockwise. *)
ChooseClockwise_Farthest(cur, dest, dir) ==
  IF dir = "Nearest"
  THEN Pulses(cur, dest, FALSE) < Pulses(cur, dest, TRUE)
  ELSE dir = "Clockwise"
ChooseClockwise(cur, dest, dir) ==
  IF dir = "Nearest"
  THEN ~(Pulses(cur, dest, FALSE) < Pulses(cur, dest, TRUE))
  ELSE dir = "Clockwise"

(* speedToPeriod, in nanoseconds: between one pulse in 0.9 s and 1 kHz. *)
SpeedToPeriod(speed) ==
  IF speed <= 1
  THEN 900000000
  ELSE LET ns == (100000000 * StepTenths) \div (speed * Divider)
       IN  IF ns < 1000000 THEN 1000000 ELSE ns

(* The distance at which the last approach begins (slowPos of onTimerCb). *)
SlowPos(userSpeed) ==
  IF userSpeed > STEPPER_SPEED_MAX
  THEN STEPPER_SPEED_MAX
  ELSE userSpeed + STEPPER_SPEED_SLOW

================================================================================
