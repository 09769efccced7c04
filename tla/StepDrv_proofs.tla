----------------------------- MODULE StepDrv_proofs -----------------------------
(***************************************************************************)
(* What TLC checks of StepDrv on small instances, proved for every set of  *)
(* headings, targets and speeds, every number of points and of pulses, and *)
(* every gear; that StepDrv implements Jobs; with the pointer it turns,    *)
(* where its moves and its calibrations lead (Rotor); and the pin that     *)
(* steps the motor by itself (GpioOut).                                    *)
(***************************************************************************)
EXTENDS StepDrvJobs, Rotor, GpioOut, TLAPS

(* normalizeAzimuth leads into 0..360, whatever its argument. *)
LEMMA NormalizeRange ==
  ASSUME NEW a \in Int
  PROVE  NormalizeAzimuth(a) \in 0..360
BY DEF NormalizeAzimuth, Remainder

(* speedToPeriod gives an integer, of 1 ms at least. *)
LEMMA PeriodRange ==
  ASSUME NEW s \in Int
  PROVE  /\ SpeedToPeriod(s) \in Int
         /\ SpeedToPeriod(s) >= 1000000
BY GearAssumption DEF SpeedToPeriod

--------------------------------------------------------------------------------
(* The methods of GpioOut keep the type of a pin.                           *)

LEMMA PinUpdate ==
  ASSUME NEW p \in Pin, NEW b \in BOOLEAN, NEW n \in Int, NEW d \in Int,
         NEW cb \in Callbacks
  PROVE  [p EXCEPT !.pulseCnt = n, !.busy = b, !.period = d, !.timer = cb] \in Pin
BY DEF Pin

LEMMA RunPWMType ==
  ASSUME NEW p \in Pin, NEW period \in Int
  PROVE  RunPWM(p, period, 50) \in Pin
<1>1. "runPWMCb" \in Callbacks /\ TRUE \in BOOLEAN /\ -1 \in Int
  BY DEF Callbacks
<1>2. [p EXCEPT !.pulseCnt = -1, !.busy = TRUE, !.period = period,
                !.timer = "runPWMCb"] \in Pin
  BY <1>1, PinUpdate
<1> QED BY <1>2 DEF RunPWM

LEMMA RunPulsesType ==
  ASSUME NEW p \in Pin, NEW period \in Int, NEW n \in Nat
  PROVE  RunPulses(p, period, n) \in Pin
<1>1. RunPWM(p, period, 50) \in Pin
  BY RunPWMType
<1> QED BY <1>1 DEF RunPulses, Pin

LEMMA StopPWMType ==
  ASSUME NEW p \in Pin
  PROVE  StopPWM(p) \in Pin
BY DEF StopPWM, Pin, Callbacks

LEMMA RunPWMCbType ==
  ASSUME NEW p \in Pin
  PROVE  RunPWMCb(p) \in Pin
<1>1. CASE ~p.busy
  BY <1>1 DEF RunPWMCb, Pin, Callbacks
<1>2. CASE p.busy /\ LastTick(p)
  <2>1. RunPWMCb(p) = [p EXCEPT !.pulseCnt = -1, !.busy = FALSE, !.timer = "off"]
    BY <1>2 DEF RunPWMCb
  <2>2. FALSE \in BOOLEAN /\ -1 \in Int /\ "off" \in Callbacks
    BY DEF Callbacks
  <2>3. \A n \in Int, b \in BOOLEAN, cb \in Callbacks :
          [p EXCEPT !.pulseCnt = n, !.busy = b, !.timer = cb] \in Pin
    BY DEF Pin
  <2>4. [p EXCEPT !.pulseCnt = -1, !.busy = FALSE, !.timer = "off"] \in Pin
    BY <2>2, <2>3
  <2> QED BY <2>1, <2>4
<1>3. CASE p.busy /\ ~LastTick(p)
  <2> DEFINE q == SetVal(p, ~p.prevVal)
  <2>1. q \in Pin
    BY DEF SetVal, Pin
  <2>2. RunPWMCb(p) = [q EXCEPT !.pulseCnt = IF @ = -1 THEN @ ELSE @ - 1,
                                !.timer = "runPWMCb"]
    BY <1>3 DEF RunPWMCb
  <2> HIDE DEF q
  <2>3. \A n \in Int, cb \in Callbacks :
          [q EXCEPT !.pulseCnt = n, !.timer = cb] \in Pin
    BY <2>1 DEF Pin
  <2>4. (IF q.pulseCnt = -1 THEN q.pulseCnt ELSE q.pulseCnt - 1) \in Int
    BY <2>1 DEF Pin
  <2>5. "runPWMCb" \in Callbacks
    BY DEF Callbacks
  <2>6. [q EXCEPT !.pulseCnt = IF @ = -1 THEN @ ELSE @ - 1,
                  !.timer = "runPWMCb"] \in Pin
    BY <2>3, <2>4, <2>5
  <2> QED BY <2>2, <2>6
<1> QED BY <1>1, <1>2, <1>3

(* Targets are integers. *)
LEMMA TargetType == Targets \subseteq Int
<1>1. (IntMin + 1)..IntMax \subseteq Int
  OBVIOUS
<1> QED BY <1>1, StepDrvAssumption

(* The period of a calibration step is an integer. *)
LEMMA CalibPeriodType == CalibPeriod \in Int
BY GearAssumption DEF CalibPeriod, CALIBRATION_SPEED

(* The last approach and stop() leave a pin behind. *)
LEMMA SlowStepType ==
  ASSUME step \in Pin
  PROVE  SlowStep \in Pin
<1>1. SpeedToPeriod(STEPPER_SPEED_SLOW) \in Int
  BY PeriodRange DEF STEPPER_SPEED_SLOW
<1> QED BY <1>1, StopPWMType, RunPWMType DEF SlowStep

LEMMA StoppedStepType ==
  ASSUME step \in Pin
  PROVE  StoppedStep \in Pin
BY StopPWMType DEF StoppedStep

LEMMA StoppedShownType ==
  ASSUME shown \in Notices, busy \in BOOLEAN
  PROVE  StoppedShown \in Notices
BY DEF StoppedShown, Notices

--------------------------------------------------------------------------------
(* How many points there are while onStepCb sleeps: calibStep * size counts *)
(* in steps of 360 / CalibPoints, so the test for 359 degrees is the test   *)
(* for CalibPoints of them.                                                 *)
LEMMA LastPointMeans ==
  ASSUME NEW n \in Nat
  PROVE  360 * n >= 359 * CalibPoints <=> n >= CalibPoints
BY StepDrvAssumption

(* Type correctness needs to know that a calibration has its padding when   *)
(* the sweep is over: the points are bounded, and only a calibration pauses. *)
PauseIsCalibration == loopPc = "pause" => onCalibration

TypeInv == TypeOK /\ PointsBounded /\ PauseIsCalibration

LEMMA TypeInvHolds == Spec => []TypeInv
<1>1. Init => TypeInv
  <2> SUFFICES ASSUME Init PROVE TypeInv
    OBVIOUS
  <2>1. NewPin(-1, 0) \in Pin
    BY DEF NewPin, Pin, Callbacks
  <2>2. 0 \in Headings
    BY StepDrvAssumption
  <2>3. shown \in Notices
    BY DEF Init, Notices
  <2>4. PointsBounded /\ PauseIsCalibration
    BY DEF Init, PointsBounded, PauseIsCalibration
  <2>5. /\ busy \in BOOLEAN /\ onCalibration \in BOOLEAN /\ clkWise \in BOOLEAN
        /\ timer \in BOOLEAN /\ dir \in BOOLEAN /\ enable \in BOOLEAN
        /\ useCalib \in BOOLEAN
    BY Zenon DEF Init
  <2>6. /\ destAzimuth \in 0..360 /\ userSpeed \in Int /\ mstate \in MovingState
        /\ calibPoints \in Seq(Headings) /\ table \in Seq(Headings)
        /\ loopPc \in {"poll", "pause"}
    BY DEF Init, MovingState
  <2> QED BY <2>1, <2>2, <2>3, <2>4, <2>5, <2>6 DEF Init, TypeInv, TypeOK
<1>2. TypeInv /\ [Next]_vars => TypeInv'
  <2> SUFFICES ASSUME TypeInv, [Next]_vars PROVE TypeInv'
    OBVIOUS
  <2> USE StepDrvAssumption DEF TypeInv, PointsBounded, PauseIsCalibration
  <2>1. CASE Set
    <3> SUFFICES ASSUME NEW a \in Targets, NEW d \in Directions, NEW s \in Speeds,
                        IgnoreMove(s) \/ StartMove(a, d, s)
                 PROVE  TypeInv'
      BY <2>1 DEF Set
    <3>1. s \in Int
      OBVIOUS
    <3>2. CASE IgnoreMove(s)
      BY <3>1, <3>2 DEF IgnoreMove, TypeOK, flags, request, calib, compass
    <3>3. CASE StartMove(a, d, s)
      <4>1. NormalizeAzimuth(a) \in 0..360
        BY TargetType, NormalizeRange
      <4>2. ChooseClockwise(azimuth, NormalizeAzimuth(a), d) \in BOOLEAN
        BY DEF ChooseClockwise
      <4>3. RunPWM(StoppedStep, SpeedToPeriod(s), 50) \in Pin
        BY <3>1, StoppedStepType, PeriodRange, RunPWMType DEF TypeOK
      <4>4. [StoppedShown EXCEPT !.moving = TRUE] \in Notices
        BY StoppedShownType DEF TypeOK, Notices
      <4> QED BY <3>1, <3>3, <4>1, <4>2, <4>3, <4>4
              DEF StartMove, TypeOK, calib, compass, MovingState
    <3> QED BY <3>2, <3>3
  <2>2. CASE Calib
    <3>1. RunCalibStep(StopPWM(step)) \in Pin
      BY StopPWMType, RunPulsesType, CalibPeriodType DEF RunCalibStep, TypeOK
    <3>2. FreshPoints \in Seq(Headings) /\ Len(FreshPoints) = 1
      BY DEF FreshPoints
    <3>3. [shown EXCEPT !.calibrating = TRUE] \in Notices
      BY DEF TypeOK, Notices
    <3>4. /\ busy' \in BOOLEAN /\ onCalibration' \in BOOLEAN
          /\ clkWise' \in BOOLEAN /\ dir' \in BOOLEAN /\ useCalib' \in BOOLEAN
      BY <2>2, Zenon DEF Calib
    <3>5. PointsBounded' /\ PauseIsCalibration'
      <4>1. onCalibration'
        BY <2>2, Zenon DEF Calib
      <4>2. calibPoints' = FreshPoints
        BY <2>2, Zenon DEF Calib
      <4> QED BY <4>1, <4>2, <3>2
    <3> QED BY <2>2, <3>1, <3>2, <3>3, <3>4, <3>5 DEF Calib, TypeOK
  <2>3. CASE Ctl
    BY <2>3 DEF Ctl, TypeOK, flags, request, calib, compass
  <2>4. CASE PollNear
    BY <2>4 DEF PollNear, TypeOK, flags, request, calib, compass, MovingState
  <2>5. CASE PollSlowDown
    BY <2>5, SlowStepType
       DEF PollSlowDown, TypeOK, flags, request, calib, compass, MovingState
  <2>6. CASE PollArrived
    <3>1. step' \in Pin
      BY <2>6, StoppedStepType DEF PollArrived, TypeOK
    <3>2. shown' \in Notices
      BY <2>6, StoppedShownType DEF PollArrived, TypeOK
    <3>3. mstate' \in MovingState /\ userSpeed' \in Int
      BY <2>6 DEF PollArrived, MovingState
    <3>4. busy' \in BOOLEAN /\ timer' \in BOOLEAN
      BY <2>6, Zenon DEF PollArrived
    <3>5. PointsBounded' /\ PauseIsCalibration'
      <4>1. /\ onCalibration' = onCalibration /\ calibPoints' = calibPoints
            /\ loopPc' = loopPc
        BY <2>6, Zenon DEF PollArrived, calib
      <4> QED BY <4>1, Zenon
    <3> QED BY <2>6, <3>1, <3>2, <3>3, <3>4, <3>5
            DEF PollArrived, TypeOK, request, calib, compass
  <2>7. CASE StepTick
    <3>1. step' \in Pin
      BY <2>7, RunPWMCbType DEF StepTick, TypeOK
    <3> QED BY <2>7, <3>1 DEF StepTick, TypeOK, flags, request, calib, compass
  <2>12. CASE SeriesEnd
    <3>1. step' \in Pin
      BY <2>12, RunPWMCbType DEF SeriesEnd, TypeOK
    <3>2. loopPc' \in {"poll", "pause"} /\ PauseIsCalibration'
      BY <2>12 DEF SeriesEnd, flags, TypeOK
    <3> QED BY <2>12, <3>1, <3>2 DEF SeriesEnd, TypeOK, flags, request, calib,
            compass
  <2>8. CASE TakePoint
    <3>1. RunCalibStep(step) \in Pin
      BY RunPulsesType, CalibPeriodType DEF RunCalibStep, TypeOK
    <3>2. Append(calibPoints, azimuth) \in Seq(Headings)
      BY DEF TypeOK
    <3>3. Len(calibPoints) < CalibPoints
      BY <2>8, LastPointMeans DEF TakePoint, LastPoint, TypeOK
    <3>4. Len(Append(calibPoints, azimuth)) \in 1..CalibPoints
      BY <3>3 DEF TypeOK
    <3> QED BY <2>8, <3>1, <3>2, <3>4
            DEF TakePoint, TypeOK, flags, request, compass
  <2>9. CASE EndCalibration
    <3>1. calibPoints' \in Seq(Headings) /\ Len(calibPoints') = Len(calibPoints)
      BY <2>9 DEF EndCalibration, TypeOK
    <3>2. Len(calibPoints) >= 1
      BY <2>9 DEF EndCalibration, TypeOK
    <3>3. table' \in Seq(Headings)
      <4>1. calibPoints'[1] \in Headings
        BY <3>1, <3>2
      <4> QED BY <2>9, <3>1, <4>1 DEF EndCalibration, CalibrationSet
    <3>4. shown' \in Notices
      BY <2>9 DEF EndCalibration, TypeOK, Notices
    <3> QED BY <2>9, <3>1, <3>3, <3>4 DEF EndCalibration, TypeOK, request
  <2>10. CASE Heading
    BY <2>10 DEF Heading, TypeOK, flags, request, calib
  <2>11. CASE UNCHANGED vars
    BY <2>11 DEF vars, flags, request, calib, compass, TypeOK
  <2> QED BY <2>1, <2>2, <2>3, <2>4, <2>5, <2>6, <2>7, <2>8, <2>9, <2>10, <2>11,
            <2>12
          DEF Next, Command, Poll, PollStays, StepTimer, Resume
<1> QED BY <1>1, <1>2, PTL DEF Spec

(* Every destination is on the circle, every recorded point is a heading,   *)
(* the pins stay pins.                                                      *)
THEOREM TypeCorrect == Spec => []TypeOK
<1>1. TypeInv => TypeOK
  BY DEF TypeInv
<1> QED BY <1>1, TypeInvHolds, PTL

(* A calibration never holds more points than it asks for.                  *)
THEOREM PointsAreBounded == Spec => []PointsBounded
<1>1. TypeInv => PointsBounded
  BY DEF TypeInv
<1> QED BY <1>1, TypeInvHolds, PTL

--------------------------------------------------------------------------------
(* What the methods of GpioOut do to the fields of a pin.                   *)

(* runPWM on a busy pin is refused, on another one it starts. *)
LEMMA RunPWMFields ==
  ASSUME NEW p \in Pin, NEW period \in Int
  PROVE  /\ RunPWM(p, period, 50).busy
         /\ p.busy => RunPWM(p, period, 50) = p
         /\ ~p.busy => /\ RunPWM(p, period, 50).pulseCnt = -1
                       /\ RunPWM(p, period, 50).period = period
                       /\ RunPWM(p, period, 50).timer = "runPWMCb"
<1>1. CASE p.busy
  BY <1>1 DEF RunPWM, CanRun
<1>2. CASE ~p.busy
  <2>1. RunPWM(p, period, 50) =
          [p EXCEPT !.pulseCnt = -1, !.busy = TRUE, !.period = period,
                    !.timer = "runPWMCb"]
    BY <1>2 DEF RunPWM, CanRun
  <2> QED BY <1>2, <2>1 DEF Pin
<1> QED BY <1>1, <1>2

(* A series overwrites the count in any case. *)
LEMMA RunPulsesFields ==
  ASSUME NEW p \in Pin, NEW period \in Int, NEW n \in Nat
  PROVE  /\ RunPulses(p, period, n).busy
         /\ RunPulses(p, period, n).pulseCnt = 2 * n
         /\ ~p.busy => /\ RunPulses(p, period, n).period = period
                       /\ RunPulses(p, period, n).timer = "runPWMCb"
<1>1. RunPWM(p, period, 50) \in Pin
  BY RunPWMType
<1> QED BY <1>1, RunPWMFields DEF RunPulses, Pin

(* A stopped pin is not busy, and its timer is off if it was busy. *)
LEMMA StopPWMFields ==
  ASSUME NEW p \in Pin
  PROVE  /\ ~StopPWM(p).busy
         /\ StopPWM(p).timer = IF p.busy THEN "off" ELSE p.timer
         /\ StopPWM(p).pulseCnt = p.pulseCnt
<1>1. CASE p.busy
  <2>1. StopPWM(p) = [p EXCEPT !.busy = FALSE, !.timer = "off"]
    BY <1>1 DEF StopPWM
  <2> QED BY <1>1, <2>1 DEF Pin
<1>2. CASE ~p.busy
  BY <1>2 DEF StopPWM
<1> QED BY <1>1, <1>2

(* A tick of a busy pin either ends its series or goes on. *)
LEMMA RunPWMCbFields ==
  ASSUME NEW p \in Pin, p.busy
  PROVE  /\ LastTick(p) => ~RunPWMCb(p).busy /\ RunPWMCb(p).timer = "off"
         /\ ~LastTick(p) =>
              /\ RunPWMCb(p).busy /\ RunPWMCb(p).timer = "runPWMCb"
              /\ RunPWMCb(p).period = p.period
              /\ RunPWMCb(p).pulseCnt =
                   IF p.pulseCnt = -1 THEN -1 ELSE p.pulseCnt - 1
<1>1. CASE LastTick(p)
  <2>1. RunPWMCb(p) = [p EXCEPT !.pulseCnt = -1, !.busy = FALSE, !.timer = "off"]
    BY <1>1 DEF RunPWMCb
  <2> QED BY <1>1, <2>1 DEF Pin
<1>2. CASE ~LastTick(p)
  <2> DEFINE q == SetVal(p, ~p.prevVal)
  <2>1. q \in Pin /\ q.busy /\ q.pulseCnt = p.pulseCnt /\ q.period = p.period
    BY DEF SetVal, Pin
  <2>2. RunPWMCb(p) = [q EXCEPT !.pulseCnt = IF @ = -1 THEN @ ELSE @ - 1,
                                !.timer = "runPWMCb"]
    BY <1>2 DEF RunPWMCb
  <2> HIDE DEF q
  <2> QED BY <1>2, <2>1, <2>2 DEF Pin
<1> QED BY <1>1, <1>2

--------------------------------------------------------------------------------
(* The invariant of the driver for commands that come at any time.  The     *)
(* properties support one another: a series ends in a pause only because it *)
(* belongs to a calibration, and a calibration that ends leaves no motor    *)
(* running only because onStepCb sleeps with the pin at rest.               *)
PauseIsStill == loopPc = "pause" => ~step.busy

DrvInv ==
  /\ PollFollowsAutomaton
  /\ PinAgreesWithTimer
  /\ SeriesBelongsToCalibration
  /\ PauseIsStill
  /\ MeasuresRaw
  /\ TableIsWhole

(* The parts about the pin, as one formula of the pin, for the actions that *)
(* put a new one in its place.                                              *)
PinInv == PinAgreesWithTimer /\ SeriesBelongsToCalibration /\ PauseIsStill

LEMMA DrvInvInit == Init => DrvInv
<1> SUFFICES ASSUME Init PROVE DrvInv
  OBVIOUS
<1>1. /\ step.busy = FALSE /\ step.timer = "off"
      /\ loopPc = "poll" /\ table = <<>>
  BY DEF Init, NewPin
<1>2. PinInv /\ TableIsWhole
  BY <1>1 DEF PinInv, PinAgreesWithTimer, SeriesBelongsToCalibration,
              PauseIsStill, TableIsWhole
<1>3. PollFollowsAutomaton /\ MeasuresRaw
  BY Zenon DEF Init, PollFollowsAutomaton, MeasuresRaw
<1> QED BY <1>2, <1>3 DEF DrvInv, PinInv

(* A pin started as a plain signal, or left stopped, is in order. *)
LEMMA PlainSignal ==
  ASSUME TypeOK, PinInv, loopPc = "poll", ~onCalibration, NEW period \in Int
  PROVE  /\ RunPWM(StoppedStep, period, 50).busy
         /\ RunPWM(StoppedStep, period, 50).timer = "runPWMCb"
         /\ RunPWM(StoppedStep, period, 50).pulseCnt = -1
<1>1. step \in Pin /\ StoppedStep \in Pin
  BY StoppedStepType DEF TypeOK
<1>2. CASE StoppedStep.busy
  <2>1. StoppedStep = step
    BY <1>1, <1>2, StopPWMFields DEF StoppedStep
  <2> QED BY <1>1, <1>2, <2>1, RunPWMFields
          DEF PinInv, PinAgreesWithTimer, SeriesBelongsToCalibration
<1>3. CASE ~StoppedStep.busy
  BY <1>1, <1>3, RunPWMFields
<1> QED BY <1>2, <1>3

LEMMA DrvInvSet == TypeInv /\ DrvInv /\ Set => DrvInv'
<1> SUFFICES ASSUME TypeInv, DrvInv, loopPc = "poll",
                    NEW a \in Targets, NEW d \in Directions, NEW s \in Speeds,
                    IgnoreMove(s) \/ StartMove(a, d, s)
             PROVE  DrvInv'
  BY DEF Set
<1>1. CASE IgnoreMove(s)
  BY <1>1 DEF IgnoreMove, DrvInv, flags, request, calib, compass,
              PollFollowsAutomaton, PinAgreesWithTimer,
              SeriesBelongsToCalibration, PauseIsStill, MeasuresRaw, TableIsWhole
<1>2. CASE StartMove(a, d, s)
  <2>1. s \in Int
    BY StepDrvAssumption
  <2>2. SpeedToPeriod(s) \in Int
    BY <2>1, PeriodRange
  <2>3. ~onCalibration /\ step' = RunPWM(StoppedStep, SpeedToPeriod(s), 50)
        /\ loopPc' = "poll"
    BY <1>2 DEF StartMove, MoveAllowed
  <2>4. step'.busy /\ step'.timer = "runPWMCb" /\ step'.pulseCnt = -1
    BY <2>2, <2>3, PlainSignal DEF DrvInv, PinInv, TypeInv
  <2>5. PinInv'
    BY <2>3, <2>4 DEF PinInv, PinAgreesWithTimer, SeriesBelongsToCalibration,
                      PauseIsStill
  <2>6. timer' /\ mstate' # "Idle"
    BY <1>2 DEF StartMove
  <2>7. MeasuresRaw' /\ TableIsWhole'
    BY <1>2, <2>3 DEF StartMove, calib, compass, DrvInv, MeasuresRaw, TableIsWhole
  <2> QED BY <2>5, <2>6, <2>7 DEF DrvInv, PinInv, PollFollowsAutomaton
<1> QED BY <1>1, <1>2

LEMMA DrvInvCalib == TypeInv /\ DrvInv /\ Calib => DrvInv'
<1> SUFFICES ASSUME TypeInv, DrvInv, Calib PROVE DrvInv'
  OBVIOUS
<1>1. step \in Pin /\ StopPWM(step) \in Pin /\ ~StopPWM(step).busy
  BY StopPWMType, StopPWMFields DEF TypeInv, TypeOK
<1>2. step' = RunCalibStep(StopPWM(step)) /\ loopPc' = "poll"
  BY DEF Calib
<1>3. SeriesPulses \in Nat \ {0}
  BY StepDrvAssumption
<1>4. step'.busy /\ step'.timer = "runPWMCb" /\ step'.pulseCnt = 2 * SeriesPulses
  BY <1>1, <1>2, <1>3, RunPulsesFields, CalibPeriodType DEF RunCalibStep
<1>5. onCalibration' /\ ~useCalib' /\ clkWise' /\ dir'
  BY Zenon DEF Calib
<1>6. PinInv'
  BY <1>2, <1>3, <1>4, <1>5
     DEF PinInv, PinAgreesWithTimer, SeriesBelongsToCalibration, PauseIsStill
<1>7. PollFollowsAutomaton' /\ TableIsWhole'
  BY DEF Calib, DrvInv, PollFollowsAutomaton, TableIsWhole
<1> QED BY <1>5, <1>6, <1>7 DEF DrvInv, PinInv, MeasuresRaw

LEMMA DrvInvPoll == TypeInv /\ DrvInv /\ Poll => DrvInv'
<1> SUFFICES ASSUME TypeInv, DrvInv, Poll PROVE DrvInv'
  OBVIOUS
<1> USE DEF flags, request, calib, compass
<1>1. CASE PollNear
  <2>1. PinInv' /\ MeasuresRaw' /\ TableIsWhole'
    BY <1>1 DEF PollNear, DrvInv, PinInv, PinAgreesWithTimer,
                SeriesBelongsToCalibration, PauseIsStill, MeasuresRaw,
                TableIsWhole
  <2>2. timer' /\ mstate' = "AlmostThere"
    BY <1>1 DEF PollNear
  <2> QED BY <2>1, <2>2 DEF DrvInv, PinInv, PollFollowsAutomaton
<1>2. CASE PollSlowDown
  <2>1. step \in Pin /\ step' = SlowStep /\ loopPc' = "poll"
        /\ (step.busy <=> step.timer = "runPWMCb") /\ step.timer # "setOnTimeCb"
    BY <1>2 DEF PollSlowDown, TypeInv, TypeOK, DrvInv, PinAgreesWithTimer
  <2>4. PinInv'
    <3>1. CASE userSpeed > STEPPER_SPEED_SLOW
      <4>1. STEPPER_SPEED_SLOW \in Int /\ SpeedToPeriod(STEPPER_SPEED_SLOW) \in Int
        BY PeriodRange DEF STEPPER_SPEED_SLOW
      <4>2. StopPWM(step) \in Pin /\ ~StopPWM(step).busy
        BY <2>1, StopPWMType, StopPWMFields
      <4>3. step' = RunPWM(StopPWM(step), SpeedToPeriod(STEPPER_SPEED_SLOW), 50)
        BY <2>1, <3>1 DEF SlowStep
      <4>4. step'.busy /\ step'.timer = "runPWMCb" /\ step'.pulseCnt = -1
        BY <4>1, <4>2, <4>3, RunPWMFields
      <4> QED BY <2>1, <4>4 DEF PinInv, PinAgreesWithTimer,
                                SeriesBelongsToCalibration, PauseIsStill
    <3>2. CASE ~(userSpeed > STEPPER_SPEED_SLOW)
      <4>1. step' = step
        BY <2>1, <3>2 DEF SlowStep
      <4> QED BY <1>2, <4>1
              DEF PollSlowDown, DrvInv, PinInv, PinAgreesWithTimer,
                  SeriesBelongsToCalibration, PauseIsStill
    <3> QED BY <3>1, <3>2
  <2>5. timer' /\ mstate' = "SlowDown"
    BY <1>2 DEF PollSlowDown
  <2>6. MeasuresRaw' /\ TableIsWhole'
    BY <1>2 DEF PollSlowDown, DrvInv, MeasuresRaw, TableIsWhole
  <2> QED BY <2>4, <2>5, <2>6 DEF DrvInv, PinInv, PollFollowsAutomaton
<1>3. CASE PollArrived
  <2>1. step \in Pin /\ step' = StoppedStep /\ loopPc' = "poll"
        /\ onCalibration' = onCalibration
    BY <1>3 DEF PollArrived, TypeInv, TypeOK
  <2>4. PinInv'
    <3>1. CASE busy
      <4>1. ~step'.busy /\ step'.timer = IF step.busy THEN "off" ELSE step.timer
        BY <2>1, <3>1, StopPWMFields DEF StoppedStep
      <4> QED BY <2>1, <4>1 DEF DrvInv, PinInv, PinAgreesWithTimer,
                                SeriesBelongsToCalibration, PauseIsStill
    <3>2. CASE ~busy
      <4>1. step' = step
        BY <2>1, <3>2 DEF StoppedStep
      <4> QED BY <1>3, <2>1, <4>1
              DEF PollArrived, DrvInv, PinInv, PinAgreesWithTimer,
                  SeriesBelongsToCalibration, PauseIsStill
    <3> QED BY <3>1, <3>2
  <2>5. timer' = FALSE /\ mstate' = "Idle"
    BY <1>3 DEF PollArrived
  <2>6. MeasuresRaw' /\ TableIsWhole'
    BY <1>3 DEF PollArrived, DrvInv, MeasuresRaw, TableIsWhole
  <2> QED BY <2>4, <2>5, <2>6 DEF DrvInv, PinInv, PollFollowsAutomaton
<1>4. CASE PollStays
  BY <1>4 DEF PollStays, vars, DrvInv, PollFollowsAutomaton, PinAgreesWithTimer,
              SeriesBelongsToCalibration, PauseIsStill, MeasuresRaw, TableIsWhole
<1> QED BY <1>1, <1>2, <1>3, <1>4 DEF Poll

LEMMA DrvInvStepTimer == TypeInv /\ DrvInv /\ StepTimer => DrvInv'
<1> SUFFICES ASSUME TypeInv, DrvInv, StepTimer PROVE DrvInv'
  OBVIOUS
<1> USE DEF flags, request, calib, compass
<1>1. /\ step \in Pin /\ step.busy /\ loopPc = "poll"
      /\ step' = RunPWMCb(step)
  BY DEF StepTimer, StepTick, SeriesEnd, TypeInv, TypeOK, DrvInv,
         PinAgreesWithTimer
<1>2. PollFollowsAutomaton' /\ MeasuresRaw' /\ TableIsWhole'
  <2>1. CASE StepTick
    BY <2>1 DEF StepTick, DrvInv, PollFollowsAutomaton, MeasuresRaw, TableIsWhole
  <2>2. CASE SeriesEnd
    BY <2>2 DEF SeriesEnd, DrvInv, PollFollowsAutomaton, MeasuresRaw, TableIsWhole
  <2> QED BY <2>1, <2>2 DEF StepTimer
<1>3. CASE StepTick
  <2>1. /\ step'.busy /\ step'.timer = "runPWMCb"
        /\ step'.pulseCnt = IF step.pulseCnt = -1 THEN -1 ELSE step.pulseCnt - 1
    BY <1>1, <1>3, RunPWMCbFields DEF StepTick
  <2>2. loopPc' = "poll" /\ onCalibration' = onCalibration /\ step.pulseCnt # 1
    BY <1>1, <1>3 DEF StepTick, LastTick
  <2>3. step.pulseCnt # -1 =>
          onCalibration /\ step.pulseCnt \in 1..(2 * SeriesPulses)
    BY <1>1 DEF DrvInv, SeriesBelongsToCalibration
  <2>4. step'.pulseCnt # -1 =>
          onCalibration' /\ step'.pulseCnt \in 1..(2 * SeriesPulses)
    BY <2>1, <2>2, <2>3, StepDrvAssumption
  <2> QED BY <1>2, <2>1, <2>2, <2>4
          DEF DrvInv, PinAgreesWithTimer, SeriesBelongsToCalibration, PauseIsStill
<1>4. CASE SeriesEnd
  <2>1. ~step'.busy /\ step'.timer = "off"
    BY <1>1, <1>4, RunPWMCbFields DEF SeriesEnd
  <2> QED BY <1>2, <2>1
          DEF DrvInv, PinAgreesWithTimer, SeriesBelongsToCalibration, PauseIsStill
<1> QED BY <1>3, <1>4 DEF StepTimer

LEMMA DrvInvResume == TypeInv /\ DrvInv /\ Resume => DrvInv'
<1> SUFFICES ASSUME TypeInv, DrvInv, Resume PROVE DrvInv'
  OBVIOUS
<1> USE DEF flags, request, calib, compass
<1>1. step \in Pin /\ ~step.busy /\ onCalibration /\ SeriesPulses \in Nat \ {0}
      /\ PinAgreesWithTimer
  BY StepDrvAssumption
     DEF Resume, TakePoint, EndCalibration, TypeInv, TypeOK, DrvInv, PauseIsStill,
         PauseIsCalibration
<1>2. CASE TakePoint
  <2>1. step' = RunCalibStep(step) /\ loopPc' = "poll"
        /\ onCalibration' = onCalibration
    BY <1>2 DEF TakePoint
  <2>2. step'.busy /\ step'.timer = "runPWMCb"
        /\ step'.pulseCnt = 2 * SeriesPulses
    BY <1>1, <2>1, RunPulsesFields, CalibPeriodType DEF RunCalibStep
  <2>3. PinInv'
    BY <1>1, <2>1, <2>2
       DEF PinInv, PinAgreesWithTimer, SeriesBelongsToCalibration, PauseIsStill
  <2>4. PollFollowsAutomaton' /\ MeasuresRaw' /\ TableIsWhole'
    BY <1>2 DEF TakePoint, DrvInv, PollFollowsAutomaton, MeasuresRaw, TableIsWhole
  <2> QED BY <2>3, <2>4 DEF DrvInv, PinInv
<1>3. CASE EndCalibration
  <2>1. step' = step /\ table' = CalibrationSet(calibPoints')
        /\ onCalibration' = FALSE /\ useCalib' = TRUE
    BY <1>3 DEF EndCalibration
  <2>2. PinInv'
    BY <1>1, <2>1
       DEF PinInv, PinAgreesWithTimer, SeriesBelongsToCalibration, PauseIsStill
  <2>8. calibPoints \in Seq(Headings) /\ azimuth \in Headings
        /\ Len(calibPoints) \in 1..CalibPoints /\ CalibPoints \in 1..359
    BY <1>1, StepDrvAssumption DEF TypeInv, TypeOK, PointsBounded
  <2>3. Len(calibPoints) = CalibPoints
    <3>1. 360 * Len(calibPoints) >= 359 * CalibPoints
      BY <1>3 DEF EndCalibration, LastPoint
    <3>2. Len(calibPoints) \in Nat
      BY <2>8
    <3>3. Len(calibPoints) >= CalibPoints
      BY <3>1, <3>2, LastPointMeans
    <3> QED BY <2>8, <3>3
  <2>4. calibPoints' \in Seq(Headings) /\ Len(calibPoints') = CalibPoints
    <3>1. calibPoints' = [calibPoints EXCEPT ![1] = azimuth]
      BY <1>3 DEF EndCalibration
    <3> QED BY <2>8, <2>3, <3>1
  <2>5. TableIsWhole'
    BY <2>1, <2>8, <2>4 DEF CalibrationSet, TableIsWhole
  <2>6. PollFollowsAutomaton'
    BY <1>3 DEF EndCalibration, DrvInv, PollFollowsAutomaton
  <2>7. MeasuresRaw'
    BY <2>1, Zenon DEF MeasuresRaw
  <2> QED BY <2>2, <2>5, <2>6, <2>7 DEF DrvInv, PinInv
<1> QED BY <1>2, <1>3 DEF Resume

LEMMA DrvInvHolds == Spec => []DrvInv
<1>1. TypeInv /\ DrvInv /\ [Next]_vars => DrvInv'
  <2> SUFFICES ASSUME TypeInv, DrvInv, [Next]_vars PROVE DrvInv'
    OBVIOUS
  <2>1. CASE Ctl \/ Heading \/ UNCHANGED vars
    BY <2>1 DEF Ctl, Heading, vars, flags, request, calib, compass, DrvInv,
                PollFollowsAutomaton, PinAgreesWithTimer,
                SeriesBelongsToCalibration, PauseIsStill, MeasuresRaw,
                TableIsWhole
  <2> QED BY <2>1, DrvInvSet, DrvInvCalib, DrvInvPoll, DrvInvStepTimer,
             DrvInvResume
          DEF Next, Command
<1> QED BY <1>1, DrvInvInit, TypeInvHolds, PTL DEF Spec

(* The poll timer is armed exactly while a move is under way. *)
THEOREM PollIsArmed == Spec => []PollFollowsAutomaton
<1>1. DrvInv => PollFollowsAutomaton
  BY DEF DrvInv
<1> QED BY <1>1, DrvInvHolds, PTL

(* No order of commands, polls and ticks leaves the pin stuck or turning    *)
(* with its flag off.                                                       *)
THEOREM PinIsInOrder == Spec => []PinAgreesWithTimer
<1>1. DrvInv => PinAgreesWithTimer
  BY DEF DrvInv
<1> QED BY <1>1, DrvInvHolds, PTL

(* A counted series is a calibration's, and its count is never missed. *)
THEOREM SeriesIsCalibrations == Spec => []SeriesBelongsToCalibration
<1>1. DrvInv => SeriesBelongsToCalibration
  BY DEF DrvInv
<1> QED BY <1>1, DrvInvHolds, PTL

(* Calibration points are raw, and all of one clockwise sweep. *)
THEOREM PointsAreRaw == Spec => []MeasuresRaw
<1>1. DrvInv => MeasuresRaw
  BY DEF DrvInv
<1> QED BY <1>1, DrvInvHolds, PTL

(* Every table of values is one complete sweep. *)
THEOREM SweepIsWhole == Spec => []TableIsWhole
<1>1. DrvInv => TableIsWhole
  BY DEF DrvInv
<1> QED BY <1>1, DrvInvHolds, PTL

--------------------------------------------------------------------------------
(* The driver whose users do not calibrate during a move: it never runs     *)
(* away, never waits for nothing, and implements Jobs.  The assumption      *)
(* ~CalibWhileMoving is needed: TLC shows the properties violated without   *)
(* it (run StepDrvRunaway).                                                 *)

(* busy is the flag of both jobs, so each must leave it right for the other. *)
BusyIsAJob == busy <=> mstate # "Idle" \/ onCalibration

JobInv ==
  /\ BusyIsAJob
  /\ OneJob
  /\ NoRunaway
  /\ BusyIsAtWork
  /\ ClientsKnow
  /\ SpeedIsTheJobs

(* The invariants the steps start from, and what they say together of the   *)
(* pin: it turns for a job, but for the pause between calibration steps.    *)
AllInv == TypeInv /\ DrvInv /\ JobInv

LEMMA JobInvInit == Init => JobInv
<1> SUFFICES ASSUME Init PROVE JobInv
  OBVIOUS
<1>1. ~step.busy
  BY DEF Init, NewPin
<1>2. ~shown.moving /\ ~shown.calibrating
  BY DEF Init
<1>3. ~busy /\ ~onCalibration /\ mstate = "Idle" /\ ~timer
  BY DEF Init
<1> QED BY <1>1, <1>2, <1>3
        DEF JobInv, BusyIsAJob, OneJob, NoRunaway, BusyIsAtWork, ClientsKnow,
            SpeedIsTheJobs, MoveSpeed

LEMMA JobInvSet == AllInv /\ Set => JobInv'
<1> SUFFICES ASSUME AllInv, loopPc = "poll",
                    NEW a \in Targets, NEW d \in Directions, NEW s \in Speeds,
                    IgnoreMove(s) \/ StartMove(a, d, s)
             PROVE  JobInv'
  BY DEF Set
<1> USE DEF AllInv, flags, request, calib, compass
<1>1. CASE IgnoreMove(s)
  <2>1. onCalibration /\ mstate = "Idle"
    BY <1>1 DEF IgnoreMove, MoveAllowed, JobInv, OneJob, DrvInv,
                PollFollowsAutomaton
  <2> QED BY <1>1, <2>1
          DEF IgnoreMove, JobInv, BusyIsAJob, OneJob, NoRunaway, BusyIsAtWork,
              ClientsKnow, SpeedIsTheJobs, MoveSpeed
<1>2. CASE StartMove(a, d, s)
  <2>1. SpeedToPeriod(s) \in Int
    BY StepDrvAssumption, PeriodRange
  <2>2. /\ busy' = TRUE /\ timer' = TRUE /\ mstate' = "Running" /\ userSpeed' = s
        /\ ~onCalibration /\ onCalibration' = onCalibration /\ loopPc' = loopPc
        /\ step' = RunPWM(StoppedStep, SpeedToPeriod(s), 50)
        /\ shown' = [StoppedShown EXCEPT !.moving = TRUE]
    BY <1>2 DEF StartMove, MoveAllowed
  <2>3. StoppedStep \in Pin /\ ~StoppedStep.busy
    <3>1. StoppedStep \in Pin /\ step \in Pin
      BY StoppedStepType DEF TypeInv, TypeOK
    <3>2. CASE busy
      BY <3>1, <3>2, StopPWMFields DEF StoppedStep
    <3>3. CASE ~busy
      BY <3>1, <3>3 DEF StoppedStep, JobInv, NoRunaway
    <3> QED BY <3>1, <3>2, <3>3
  <2>4. step'.busy /\ step'.period = SpeedToPeriod(s)
    BY <2>1, <2>2, <2>3, RunPWMFields
  <2>5. shown'.moving /\ shown'.calibrating = shown.calibrating
    <3>1. StoppedShown = [shown EXCEPT !.moving = @ /\ ~busy]
      BY DEF StoppedShown
    <3>2. shown \in Notices
      BY DEF TypeInv, TypeOK
    <3> QED BY <2>2, <3>1, <3>2 DEF Notices
  <2> QED BY <2>2, <2>4, <2>5
          DEF JobInv, BusyIsAJob, OneJob, NoRunaway, BusyIsAtWork, ClientsKnow,
              SpeedIsTheJobs, MoveSpeed
<1> QED BY <1>1, <1>2

LEMMA JobInvCalib ==
  ASSUME ~CalibWhileMoving
  PROVE  AllInv /\ Calib => JobInv'
<1> SUFFICES ASSUME AllInv, Calib PROVE JobInv'
  OBVIOUS
<1>1. mstate = "Idle" /\ mstate' = "Idle" /\ ~timer /\ timer' = timer
  BY DEF Calib, AllInv, DrvInv, PollFollowsAutomaton
<1>2. busy' = TRUE /\ onCalibration' = TRUE
      /\ step' = RunCalibStep(StopPWM(step))
      /\ shown' = [shown EXCEPT !.calibrating = TRUE]
  BY DEF Calib
<1>3. step'.busy /\ step'.period = CalibPeriod
  <2>1. step \in Pin /\ StopPWM(step) \in Pin /\ ~StopPWM(step).busy
    BY StopPWMType, StopPWMFields DEF AllInv, TypeInv, TypeOK
  <2> QED BY <1>2, <2>1, RunPulsesFields, CalibPeriodType, StepDrvAssumption
          DEF RunCalibStep
<1>4. shown'.calibrating /\ shown'.moving = shown.moving
  BY <1>2 DEF AllInv, TypeInv, TypeOK, Notices
<1> QED BY <1>1, <1>2, <1>3, <1>4
        DEF AllInv, JobInv, BusyIsAJob, OneJob, NoRunaway, BusyIsAtWork,
            ClientsKnow, SpeedIsTheJobs, MoveSpeed

LEMMA JobInvPoll == AllInv /\ Poll => JobInv'
<1> SUFFICES ASSUME AllInv, Poll PROVE JobInv'
  OBVIOUS
<1> USE DEF AllInv, flags, request, calib, compass
<1>1. timer /\ mstate # "Idle" /\ busy /\ ~onCalibration /\ step.busy
      /\ loopPc = "poll" /\ step \in Pin
  <2>1. timer /\ loopPc = "poll"
    BY DEF Poll, PollNear, PollSlowDown, PollArrived, PollStays
  <2>2. mstate # "Idle"
    BY <2>1 DEF DrvInv, PollFollowsAutomaton
  <2>3. busy /\ ~onCalibration
    BY <2>1, <2>2 DEF JobInv, BusyIsAJob, OneJob
  <2> QED BY <2>1, <2>2, <2>3 DEF JobInv, BusyIsAtWork, TypeInv, TypeOK
<1>2. CASE PollNear
  <2>1. mstate = "Running" /\ mstate' = "AlmostThere"
    BY <1>2 DEF PollNear, Near
  <2> QED BY <1>1, <1>2, <2>1
          DEF PollNear, JobInv, BusyIsAJob, OneJob, NoRunaway, BusyIsAtWork,
              ClientsKnow, SpeedIsTheJobs, MoveSpeed
<1>3. CASE PollSlowDown
  <2>1. /\ mstate = "AlmostThere" /\ mstate' = "SlowDown" /\ step' = SlowStep
        /\ userSpeed' = userSpeed
    BY <1>3 DEF PollSlowDown, AtSlowPos
  <2>2. step'.busy /\ step'.period = SpeedToPeriod(MoveSpeed')
    <3>1. CASE userSpeed > STEPPER_SPEED_SLOW
      <4>1. SpeedToPeriod(STEPPER_SPEED_SLOW) \in Int
        BY PeriodRange DEF STEPPER_SPEED_SLOW
      <4>2. StopPWM(step) \in Pin
        BY <1>1, StopPWMType
      <4>3. MoveSpeed' = STEPPER_SPEED_SLOW
        BY <2>1, <3>1 DEF MoveSpeed
      <4>4. ~StopPWM(step).busy
        BY <1>1, StopPWMFields
      <4> QED BY <2>1, <3>1, <4>1, <4>2, <4>3, <4>4, RunPWMFields DEF SlowStep
    <3>2. CASE ~(userSpeed > STEPPER_SPEED_SLOW)
      <4>1. MoveSpeed' = userSpeed /\ MoveSpeed = userSpeed
        BY <2>1, <3>2 DEF MoveSpeed
      <4>2. step' = step /\ step.period = SpeedToPeriod(MoveSpeed)
        BY <1>1, <2>1, <3>2 DEF SlowStep, JobInv, SpeedIsTheJobs
      <4> QED BY <1>1, <4>1, <4>2
    <3> QED BY <3>1, <3>2
  <2> QED BY <1>1, <1>3, <2>1, <2>2
          DEF PollSlowDown, JobInv, BusyIsAJob, OneJob, NoRunaway, BusyIsAtWork,
              ClientsKnow, SpeedIsTheJobs, MoveSpeed
<1>4. CASE PollArrived
  <2>1. /\ busy' = FALSE /\ mstate' = "Idle" /\ onCalibration' = onCalibration
        /\ step' = StoppedStep /\ shown' = StoppedShown
    BY <1>4 DEF PollArrived
  <2>2. ~step'.busy
    BY <1>1, <2>1, StopPWMFields DEF StoppedStep
  <2>3. ~shown'.moving /\ shown'.calibrating = shown.calibrating
    <3>1. shown' = [shown EXCEPT !.moving = @ /\ ~busy]
      BY <2>1 DEF StoppedShown
    <3>2. shown \in Notices
      BY DEF TypeInv, TypeOK
    <3> QED BY <1>1, <3>1, <3>2 DEF Notices
  <2> QED BY <1>1, <2>1, <2>2, <2>3
          DEF JobInv, BusyIsAJob, OneJob, NoRunaway, BusyIsAtWork, ClientsKnow,
              SpeedIsTheJobs, MoveSpeed
<1>5. CASE PollStays
  BY <1>5 DEF PollStays, vars, JobInv, BusyIsAJob, OneJob, NoRunaway,
              BusyIsAtWork, ClientsKnow, SpeedIsTheJobs, MoveSpeed
<1> QED BY <1>2, <1>3, <1>4, <1>5 DEF Poll

LEMMA JobInvStepTimer == AllInv /\ StepTimer => JobInv'
<1> SUFFICES ASSUME AllInv, StepTimer PROVE JobInv'
  OBVIOUS
<1> USE DEF AllInv, flags, request, calib, compass
<1>1. step \in Pin /\ step.busy /\ step' = RunPWMCb(step) /\ loopPc = "poll"
  BY DEF StepTimer, StepTick, SeriesEnd, TypeInv, TypeOK, DrvInv,
         PinAgreesWithTimer
<1>2. CASE StepTick
  <2>1. step'.busy /\ step'.period = step.period
    BY <1>1, <1>2, RunPWMCbFields DEF StepTick
  <2> QED BY <1>1, <1>2, <2>1
          DEF StepTick, JobInv, BusyIsAJob, OneJob, NoRunaway, BusyIsAtWork,
              ClientsKnow, SpeedIsTheJobs, MoveSpeed
<1>3. CASE SeriesEnd
  <2>1. onCalibration /\ loopPc' = "pause" /\ ~step'.busy
    <3>1. step.pulseCnt = 1
      BY <1>3 DEF SeriesEnd, LastTick
    <3>2. onCalibration
      BY <1>1, <3>1 DEF DrvInv, SeriesBelongsToCalibration
    <3> QED BY <1>1, <1>3, <3>2, RunPWMCbFields DEF SeriesEnd
  <2>2. mstate = "Idle"
    BY <2>1 DEF JobInv, OneJob, DrvInv, PollFollowsAutomaton
  <2>3. step'.period = step.period
    <3>1. step' = [step EXCEPT !.pulseCnt = -1, !.busy = FALSE, !.timer = "off"]
      BY <1>1, <1>3 DEF RunPWMCb, SeriesEnd
    <3> QED BY <1>1, <3>1 DEF Pin
  <2> QED BY <1>1, <1>3, <2>1, <2>2, <2>3
          DEF SeriesEnd, JobInv, BusyIsAJob, OneJob, NoRunaway, BusyIsAtWork,
              ClientsKnow, SpeedIsTheJobs, MoveSpeed
<1> QED BY <1>2, <1>3 DEF StepTimer

LEMMA JobInvResume == AllInv /\ Resume => JobInv'
<1> SUFFICES ASSUME AllInv, Resume PROVE JobInv'
  OBVIOUS
<1> USE DEF AllInv, flags, request, calib, compass
<1>1. /\ step \in Pin /\ ~step.busy /\ onCalibration /\ loopPc = "pause"
      /\ mstate = "Idle" /\ ~timer
  BY DEF Resume, TakePoint, EndCalibration, TypeInv, TypeOK, DrvInv, JobInv,
         PauseIsStill, PauseIsCalibration, OneJob, PollFollowsAutomaton
<1>2. CASE TakePoint
  <2>1. step' = RunCalibStep(step)
    BY <1>2 DEF TakePoint
  <2>2. step'.busy /\ step'.period = CalibPeriod
    BY <1>1, <2>1, RunPulsesFields, CalibPeriodType, StepDrvAssumption
       DEF RunCalibStep
  <2> QED BY <1>1, <1>2, <2>2
          DEF TakePoint, JobInv, BusyIsAJob, OneJob, NoRunaway, BusyIsAtWork,
              ClientsKnow, SpeedIsTheJobs, MoveSpeed
<1>3. CASE EndCalibration
  <2>1. /\ busy' = FALSE /\ onCalibration' = FALSE
        /\ step' = step /\ mstate' = mstate /\ timer' = timer
        /\ shown' = [shown EXCEPT !.calibrating = FALSE]
    BY <1>3 DEF EndCalibration
  <2>2. ~shown'.calibrating /\ shown'.moving = shown.moving
    BY <2>1 DEF TypeInv, TypeOK, Notices
  <2> QED BY <1>1, <2>1, <2>2
          DEF JobInv, BusyIsAJob, OneJob, NoRunaway, BusyIsAtWork, ClientsKnow,
              SpeedIsTheJobs, MoveSpeed
<1> QED BY <1>2, <1>3 DEF Resume

LEMMA JobInvHolds ==
  ASSUME ~CalibWhileMoving
  PROVE  Spec => []AllInv
<1>1. AllInv /\ [Next]_vars => JobInv'
  <2> SUFFICES ASSUME AllInv, [Next]_vars PROVE JobInv'
    OBVIOUS
  <2>1. CASE Ctl \/ Heading \/ UNCHANGED vars
    BY <2>1 DEF AllInv, Ctl, Heading, vars, flags, request, calib, compass,
       JobInv,
                BusyIsAJob, OneJob, NoRunaway, BusyIsAtWork, ClientsKnow,
                SpeedIsTheJobs, MoveSpeed
  <2> QED BY <2>1, JobInvSet, JobInvCalib, JobInvPoll, JobInvStepTimer,
             JobInvResume
          DEF Next, Command
<1>2. TypeInv /\ DrvInv /\ JobInv => AllInv
  BY DEF AllInv
<1>3. AllInv => JobInv
  BY DEF AllInv
<1> QED BY <1>1, <1>2, JobInvInit, TypeInvHolds, DrvInvHolds, PTL DEF Spec

(* If nobody calibrates during a move, there is never a move and a          *)
(* calibration at once, each with a callback that disturbs the other; ...   *)
THEOREM OneJobAtATime ==
  ASSUME ~CalibWhileMoving
  PROVE  Spec => []OneJob
<1>1. AllInv => OneJob
  BY DEF AllInv, JobInv
<1> QED BY <1>1, JobInvHolds, PTL

(* ... the motor never turns on its own; *)
THEOREM NeverRunsAway ==
  ASSUME ~CalibWhileMoving
  PROVE  Spec => []NoRunaway
<1>1. AllInv => NoRunaway
  BY DEF AllInv, JobInv
<1> QED BY <1>1, JobInvHolds, PTL

(* ... a driver that is busy has something that will call it back, ... *)
THEOREM NeverWaitsForNothing ==
  ASSUME ~CalibWhileMoving
  PROVE  Spec => []BusyIsAtWork
<1>1. AllInv => BusyIsAtWork
  BY DEF AllInv, JobInv
<1> QED BY <1>1, JobInvHolds, PTL

(* ... every client was told what the driver does. *)
THEOREM ClientsAreTold ==
  ASSUME ~CalibWhileMoving
  PROVE  Spec => []ClientsKnow
<1>1. AllInv => ClientsKnow
  BY DEF AllInv, JobInv
<1> QED BY <1>1, JobInvHolds, PTL

(* ... and the motor never runs at the speed of an earlier job. *)
THEOREM RunsAtTheJobsSpeed ==
  ASSUME ~CalibWhileMoving
  PROVE  Spec => []SpeedIsTheJobs
<1>1. AllInv => SpeedIsTheJobs
  BY DEF AllInv, JobInv
<1> QED BY <1>1, JobInvHolds, PTL

(* All of these together.                                                   *)
THEOREM StaysInStep ==
  ASSUME ~CalibWhileMoving
  PROVE  Spec => []InStep
<1> QED BY NeverRunsAway, NeverWaitsForNothing, ClientsAreTold,
        RunsAtTheJobsSpeed,
           PointsAreRaw, PTL DEF InStep

--------------------------------------------------------------------------------
(* The driver implements Jobs: its first state is Jobs' first state, and    *)
(* every handler is an action of Jobs or changes nothing that Jobs sees.    *)

LEMMA JobsStart == Init => J!JobsInit
<1> SUFFICES ASSUME Init PROVE J!JobsInit
  OBVIOUS
<1>1. ~onCalibration /\ mstate = "Idle" /\ destAzimuth = 0
  BY DEF Init
<1>2. step.busy = FALSE
  BY DEF Init, NewPin
<1> QED BY <1>1, <1>2 DEF J!JobsInit, Job, Measured

LEMMA JobsSet == AllInv /\ AllInv' /\ Set => [J!JobsNext]_(J!jobVars)
<1> SUFFICES ASSUME AllInv, AllInv', loopPc = "poll",
                    NEW a \in Targets, NEW d \in Directions, NEW s \in Speeds,
                    IgnoreMove(s) \/ StartMove(a, d, s)
             PROVE  [J!JobsNext]_(J!jobVars)
  BY DEF Set
<1>1. CASE IgnoreMove(s)
  BY <1>1 DEF IgnoreMove, flags, request, calib, J!jobVars, Job, Measured
<1>2. CASE StartMove(a, d, s)
  <2>1. /\ ~onCalibration /\ ~onCalibration' /\ busy' /\ loopPc' = "poll"
        /\ mstate' = "Running" /\ destAzimuth' = NormalizeAzimuth(a)
    BY <1>2 DEF StartMove, MoveAllowed
  <2>2. step'.busy
    BY <2>1 DEF AllInv, JobInv, BusyIsAtWork
  <2>3. destAzimuth' \in 0..360
    BY <2>1, TargetType, NormalizeRange
  <2>4. J!Go
    <3>1. Job # "calibrating" /\ Job' = "moving" /\ Measured = 0 /\ Measured' = 0
      BY <2>1 DEF Job, Measured
    <3> QED BY <2>2, <2>3, <3>1 DEF J!Go
  <2> QED BY <2>4 DEF J!JobsNext
<1> QED BY <1>1, <1>2

LEMMA JobsCalib == AllInv /\ AllInv' /\ Calib => [J!JobsNext]_(J!jobVars)
<1> SUFFICES ASSUME AllInv, AllInv', Calib PROVE [J!JobsNext]_(J!jobVars)
  OBVIOUS
<1>1. /\ mstate' = mstate /\ busy' /\ onCalibration' /\ loopPc' = "poll"
      /\ calibPoints' = FreshPoints /\ destAzimuth' = destAzimuth
  BY DEF Calib
<1>2. mstate = "Idle"
  BY <1>1 DEF AllInv, JobInv, OneJob, DrvInv, PollFollowsAutomaton
<1>3. step'.busy
  BY <1>1 DEF AllInv, JobInv, BusyIsAtWork
<1>4. Job # "moving" /\ Job' = "calibrating" /\ Measured' = 0
  BY <1>1, <1>2 DEF Job, Measured, FreshPoints
<1>5. J!Sweep
  BY <1>1, <1>3, <1>4 DEF J!Sweep
<1> QED BY <1>5 DEF J!JobsNext

LEMMA JobsPoll == AllInv /\ AllInv' /\ Poll => [J!JobsNext]_(J!jobVars)
<1> SUFFICES ASSUME AllInv, AllInv', Poll PROVE [J!JobsNext]_(J!jobVars)
  OBVIOUS
<1> USE DEF flags, request, calib, compass
<1>1. timer /\ loopPc = "poll"
  BY DEF Poll, PollNear, PollSlowDown, PollArrived, PollStays
<1>2. mstate # "Idle" /\ ~onCalibration /\ busy /\ step.busy
  BY <1>1 DEF AllInv, JobInv, OneJob, BusyIsAJob, BusyIsAtWork, DrvInv,
              PollFollowsAutomaton
<1>3. CASE PollNear \/ PollSlowDown
  <2>1. /\ mstate' # "Idle" /\ busy' = busy /\ onCalibration' = onCalibration
        /\ destAzimuth' = destAzimuth /\ loopPc' = "poll"
    BY <1>3 DEF PollNear, PollSlowDown
  <2>2. step'.busy
    BY <1>2, <2>1 DEF AllInv, JobInv, BusyIsAtWork
  <2>3. Job' = Job /\ Measured' = Measured /\ step'.busy = step.busy
    BY <1>2, <2>1, <2>2 DEF Job, Measured, AllInv, TypeInv, TypeOK, Pin
  <2> QED BY <2>1, <2>3 DEF J!jobVars
<1>4. CASE PollArrived
  <2>1. /\ mstate' = "Idle" /\ ~busy' /\ onCalibration' = onCalibration
        /\ destAzimuth' = destAzimuth
    BY <1>4 DEF PollArrived
  <2>2. ~step'.busy
    BY <2>1 DEF AllInv, JobInv, NoRunaway
  <2>3. Job = "moving" /\ Job' = "idle" /\ Measured' = Measured
    BY <1>2, <2>1 DEF Job, Measured
  <2>4. J!Arrive
    BY <2>1, <2>2, <2>3 DEF J!Arrive
  <2> QED BY <2>4 DEF J!JobsNext
<1>5. CASE PollStays
  BY <1>5 DEF PollStays, vars, J!jobVars, Job, Measured
<1> QED BY <1>3, <1>4, <1>5 DEF Poll

LEMMA JobsStepTimer == AllInv /\ AllInv' /\ StepTimer => [J!JobsNext]_(J!jobVars)
<1> SUFFICES ASSUME AllInv, AllInv', StepTimer PROVE [J!JobsNext]_(J!jobVars)
  OBVIOUS
<1> USE DEF flags, request, calib, compass
<1>1. /\ step \in Pin /\ step.busy /\ step' = RunPWMCb(step) /\ loopPc = "poll"
      /\ onCalibration' = onCalibration /\ mstate' = mstate
      /\ calibPoints' = calibPoints /\ destAzimuth' = destAzimuth
  BY DEF StepTimer, StepTick, SeriesEnd, AllInv, TypeInv, TypeOK, DrvInv,
         PinAgreesWithTimer
<1>2. Job' = Job /\ Measured' = Measured
  BY <1>1 DEF Job, Measured
<1>3. CASE StepTick
  <2>1. step'.busy
    BY <1>1, <1>3, RunPWMCbFields DEF StepTick
  <2>2. step'.busy = step.busy
    BY <1>1, <2>1 DEF AllInv, TypeInv, TypeOK, Pin
  <2> QED BY <1>1, <1>2, <2>2 DEF J!jobVars
<1>4. CASE SeriesEnd
  <2>1. ~step'.busy /\ step.pulseCnt = 1
    BY <1>1, <1>4, RunPWMCbFields DEF SeriesEnd, LastTick
  <2>2. onCalibration
    BY <1>1, <2>1 DEF AllInv, DrvInv, SeriesBelongsToCalibration
  <2>3. J!Rest
    BY <1>1, <1>2, <2>1, <2>2 DEF J!Rest, Job
  <2> QED BY <2>3 DEF J!JobsNext
<1> QED BY <1>3, <1>4 DEF StepTimer

LEMMA JobsResume == AllInv /\ AllInv' /\ Resume => [J!JobsNext]_(J!jobVars)
<1> SUFFICES ASSUME AllInv, AllInv', Resume PROVE [J!JobsNext]_(J!jobVars)
  OBVIOUS
<1> USE DEF flags, request, calib, compass
<1>1. /\ step \in Pin /\ ~step.busy /\ onCalibration /\ mstate = "Idle"
      /\ loopPc = "pause"
      /\ calibPoints \in Seq(Headings) /\ azimuth \in Headings
      /\ Len(calibPoints) \in 1..CalibPoints /\ CalibPoints \in 1..359
  BY StepDrvAssumption
     DEF Resume, TakePoint, EndCalibration, AllInv, TypeInv, TypeOK, DrvInv,
         JobInv, OneJob, PauseIsStill, PauseIsCalibration, PollFollowsAutomaton,
         PointsBounded
<1>2. CASE TakePoint
  <2>1. /\ onCalibration' = onCalibration /\ mstate' = mstate /\ loopPc' = "poll"
        /\ destAzimuth' = destAzimuth /\ busy' = busy
        /\ calibPoints' = Append(calibPoints, azimuth)
    BY <1>2 DEF TakePoint
  <2>2. busy
    BY <1>1 DEF AllInv, JobInv, BusyIsAJob
  <2>3. step'.busy
    BY <2>1, <2>2 DEF AllInv, JobInv, BusyIsAtWork
  <2>4. Measured < CalibPoints - 1 /\ Measured' = Measured + 1
    <3>1. ~(360 * Len(calibPoints) >= 359 * CalibPoints)
      BY <1>2 DEF TakePoint, LastPoint
    <3>2. Len(calibPoints) < CalibPoints
      BY <1>1, <3>1, LastPointMeans
    <3> QED BY <1>1, <2>1, <3>2 DEF Measured
  <2>5. J!Measure
    BY <1>1, <2>1, <2>3, <2>4 DEF J!Measure, Job
  <2> QED BY <2>5 DEF J!JobsNext
<1>3. CASE EndCalibration
  <2>1. /\ ~onCalibration' /\ mstate' = mstate /\ destAzimuth' = destAzimuth
        /\ step' = step
    BY <1>3 DEF EndCalibration
  <2>2. Measured = CalibPoints - 1
    <3>1. 360 * Len(calibPoints) >= 359 * CalibPoints
      BY <1>3 DEF EndCalibration, LastPoint
    <3>2. Len(calibPoints) \in Nat
      BY <1>1
    <3>3. Len(calibPoints) >= CalibPoints
      BY <3>1, <3>2, LastPointMeans
    <3> QED BY <1>1, <3>3 DEF Measured
  <2>3. J!Finish
    BY <1>1, <2>1, <2>2 DEF J!Finish, Job, Measured
  <2> QED BY <2>3 DEF J!JobsNext
<1> QED BY <1>2, <1>3 DEF Resume

(* At most one job at a time, no motor turning without one, and a           *)
(* calibration of exactly CalibPoints measurements with the motor at rest.  *)
THEOREM DriverImplementsJobs ==
  ASSUME ~CalibWhileMoving
  PROVE  Spec => ImplementsJobs
<1>1. AllInv /\ AllInv' /\ [Next]_vars => [J!JobsNext]_(J!jobVars)
  <2> SUFFICES ASSUME AllInv, AllInv', [Next]_vars
               PROVE  [J!JobsNext]_(J!jobVars)
    OBVIOUS
  <2>1. CASE Ctl \/ Heading \/ UNCHANGED vars
    BY <2>1 DEF Ctl, Heading, vars, flags, request, calib, compass, J!jobVars,
                Job, Measured
  <2> QED BY <2>1, JobsSet, JobsCalib, JobsPoll, JobsStepTimer, JobsResume
          DEF Next, Command
<1> QED BY <1>1, JobsStart, JobInvHolds, PTL DEF Spec, ImplementsJobs, J!JobsSpec

--------------------------------------------------------------------------------
(* The pointer and the compass around the driver (Rotor).                   *)

(* Degrees that lead around the circle, any number of times. *)
Circles(n) == n % 360 = 0

LEMMA CirclesAdd ==
  ASSUME NEW m \in Int, NEW n \in Int, Circles(m), Circles(n)
  PROVE  Circles(m + n) /\ Circles(m - n)
BY DEF Circles

(* Steps in degrees: the product the provers cannot take apart themselves. *)
LEMMA TimesUnit ==
  ASSUME NEW m \in Int, NEW n \in Int
  PROVE  /\ m * Unit \in Int
         /\ (m + n) * Unit = m * Unit + n * Unit
         /\ m <= n => m * Unit <= n * Unit
<1>1. Unit \in Int /\ Unit >= 1
  BY RotorAssumption
<1>2. m * Unit \in Int /\ (m + n) * Unit = m * Unit + n * Unit
  BY <1>1
<1>3. ASSUME m <= n PROVE m * Unit <= n * Unit
  <2>1. n - m >= 0 
    BY <1>3
  <2>2. (n - m) * Unit >= 0
    BY <1>1, <2>1
  <2>3. n * Unit = m * Unit + (n - m) * Unit
    BY <1>1
  <2> QED BY <1>1, <2>2, <2>3
<1> QED BY <1>2, <1>3

(* One motor step, either way. *)
LEMMA MotorTurns ==
  ASSUME NEW p \in Int, NEW u \in Int
  PROVE  /\ (p + u) % 360 \in 0..359
         /\ Circles(p + u - ((p + u) % 360))
         /\ (p + 360 - u) % 360 \in 0..359
         /\ Circles(p - u - ((p + 360 - u) % 360))
<1> DEFINE m == p + u
           n == p + 360 - u
<1>1. m \in Int /\ n \in Int /\ n = p - u + 360
  OBVIOUS
<1> HIDE DEF m, n
<1>2. m % 360 \in 0..359 /\ Circles(m - (m % 360))
  BY <1>1 DEF Circles
<1>3. n % 360 \in 0..359 /\ Circles(p - u - (n % 360))
  BY <1>1 DEF Circles
<1> QED BY <1>2, <1>3 DEF m, n

(* What is proved of StepDrv holds with the plant around it. *)
LEMMA RotorIsDriver == RSpec => Spec
<1>1. RInit => Init
  BY DEF RInit
<1>2. [RNext]_rvars => [Next]_vars
  BY Zenon DEF RNext, rvars, RTick, RPoll, RHeading, RResume, RCommand, Next,
     Command, StepTimer
<1> QED BY <1>1, <1>2, PTL DEF RSpec, Spec

(* The plant stays on the circle and within its bounds, and the direction   *)
(* pin shows the direction the driver counts in.                            *)
PlantType ==
  /\ pos \in 0..359
  /\ unpolled \in 0..MaxUnpolled /\ unread \in 0..MaxUnread
  /\ dir = clkWise

LEMMA PlantHolds == RSpec => []PlantType
<1>1. RInit => PlantType
  <2> SUFFICES ASSUME RInit PROVE PlantType
    OBVIOUS
  <2>1. pos = 0 /\ unpolled = 0 /\ unread = 0 /\ ~dir /\ ~clkWise /\ dir = clkWise
    BY DEF RInit, Init
  <2> QED BY <2>1, RotorAssumption DEF PlantType
<1>2. PlantType /\ [RNext]_rvars => PlantType'
  <2> SUFFICES ASSUME PlantType, [RNext]_rvars PROVE PlantType'
    OBVIOUS
  <2> USE RotorAssumption DEF PlantType
  <2>1. CASE RTick
    <3>1. UNCHANGED <<clkWise, dir>>
      BY <2>1 DEF RTick, StepTick, request
    <3>2. CASE MotorSteps
      <4>1. pos' = (IF dir THEN pos + Unit ELSE pos + 360 - Unit) % 360
        BY <2>1, <3>2 DEF RTick
      <4>2. pos' \in 0..359
        BY <4>1, MotorTurns
      <4>3. unpolled' \in 0..MaxUnpolled /\ unread' \in 0..MaxUnread
        BY <2>1, <3>2 DEF RTick
      <4> QED BY <3>1, <4>2, <4>3
    <3>3. CASE ~MotorSteps
      BY <2>1, <3>1, <3>3 DEF RTick, plant
    <3> QED BY <3>2, <3>3
  <2>2. CASE RPoll
    BY <2>2 DEF RPoll, Poll, PollNear, PollSlowDown, PollArrived, PollStays,
       request, vars
  <2>3. CASE RHeading
    BY <2>3 DEF RHeading, Heading, request
  <2>4. CASE RCommand
    <3>1. dir' = clkWise'
      <4>1. CASE Set
        <5>1. PICK a \in Targets, d \in Directions, s \in Speeds :
                IgnoreMove(s) \/ StartMove(a, d, s)
          BY <4>1 DEF Set
        <5> QED BY <5>1 DEF IgnoreMove, StartMove, request
      <4>2. CASE Calib \/ Ctl
        BY <4>2 DEF Calib, Ctl, request
      <4> QED BY <2>4, <4>1, <4>2 DEF RCommand
    <3> QED BY <2>4, <3>1 DEF RCommand
  <2>5. CASE SeriesEnd /\ UNCHANGED plant
    BY <2>5 DEF SeriesEnd, plant, request
  <2>6. CASE RResume
    BY <2>6 DEF RResume, Resume, TakePoint, EndCalibration, plant, request
  <2>7. CASE UNCHANGED rvars
    BY <2>7 DEF plant, rvars, vars, request
  <2> QED BY <2>1, <2>2, <2>3, <2>4, <2>5, <2>6, <2>7 DEF RNext
<1> QED BY <1>1, <1>2, PTL DEF RSpec

--------------------------------------------------------------------------------
(* A move ends near its target.  The compass lags by e degrees, one step of *)
(* the motor at most for each of unread; during the last approach the       *)
(* compass shows a degrees left to the target, so that a - e degrees are    *)
(* left in fact.  What is left shrinks with every step, may have become     *)
(* negative since the last poll, and jumps at a heading only as seen from   *)
(* the poll: it never leaves the range in which pulses() tells a target     *)
(* passed from one ahead.                                                   *)
Way(n) == IF clkWise THEN n ELSE -n

LagsBy(e) ==
  /\ Circles(azimuth + Way(e) - pos)
  /\ -(unread * Unit) <= e /\ e <= unread * Unit

(* The lag of the heading and what the motor turns between two polls. *)
Slack == (MaxUnread + MaxUnpolled) * Unit
Reach == 90 + MaxUnread * Unit

LeftIs(a, e) ==
  /\ Circles(azimuth + Way(a) - destAzimuth)
  /\ -Slack <= a /\ a < Reach
  /\ -((MaxUnread + unpolled) * Unit) <= a - e /\ a - e < Reach

Closing == mstate \in {"AlmostThere", "SlowDown"}

Aimed == \E e \in Int : LagsBy(e) /\ (Closing => \E a \in Int : LeftIs(a, e))

(* At its fastest (STEPPER_SPEED_MAX, 50 degrees a second) the motor turns   *)
(* some 20 degrees in the 0.4 s the heading is behind, and less than one in *)
(* the 5 ms between two polls; with more than a quarter of a turn, Running  *)
(* might go on to AlmostThere only after the target was passed.             *)
SlackIsSmall == Slack <= 90

(* Types the steps below need, and the products as plain numbers. *)
LEMMA TypeFacts ==
  ASSUME AllInv
  PROVE  /\ azimuth \in 0..360 /\ destAzimuth \in 0..360 /\ clkWise \in BOOLEAN
         /\ mstate \in MovingState /\ loopPc \in {"poll", "pause"}
         /\ step \in Pin /\ step.prevVal \in BOOLEAN
         /\ azimuth \in Int /\ destAzimuth \in Int
BY StepDrvAssumption DEF AllInv, TypeInv, TypeOK, Pin

LEMMA SlackFacts ==
  ASSUME SlackIsSmall
  PROVE  /\ MaxUnread * Unit \in Int /\ MaxUnpolled * Unit \in Int
         /\ 0 <= MaxUnread * Unit /\ 0 <= MaxUnpolled * Unit
         /\ Slack = MaxUnread * Unit + MaxUnpolled * Unit
         /\ MaxUnread * Unit + MaxUnpolled * Unit <= 90
         /\ Slack \in Int /\ Reach \in Int
<1>1. MaxUnread \in Int /\ MaxUnpolled \in Int /\ 0 <= MaxUnread /\ 0 <= MaxUnpolled
  BY RotorAssumption
<1>2. 0 * Unit = 0
  BY RotorAssumption
<1>3. /\ MaxUnread * Unit \in Int /\ MaxUnpolled * Unit \in Int
      /\ 0 * Unit <= MaxUnread * Unit /\ 0 * Unit <= MaxUnpolled * Unit
      /\ (MaxUnread + MaxUnpolled) * Unit = MaxUnread * Unit + MaxUnpolled * Unit
  BY <1>1, TimesUnit
<1> QED BY <1>2, <1>3 DEF SlackIsSmall, Slack, Reach

LEMMA Bounds ==
  ASSUME PlantType
  PROVE  /\ unread * Unit \in Int /\ unpolled * Unit \in Int
         /\ 0 <= unread * Unit /\ unread * Unit <= MaxUnread * Unit
         /\ 0 <= unpolled * Unit /\ unpolled * Unit <= MaxUnpolled * Unit
         /\ (MaxUnread + unpolled) * Unit = MaxUnread * Unit + unpolled * Unit
<1>1. /\ unread \in Int /\ unpolled \in Int /\ 0 <= unread /\ 0 <= unpolled
      /\ unread <= MaxUnread /\ unpolled <= MaxUnpolled
      /\ MaxUnread \in Int /\ MaxUnpolled \in Int
  BY RotorAssumption DEF PlantType
<1>2. 0 * Unit = 0
  BY RotorAssumption
<1>3. /\ unread * Unit \in Int /\ 0 * Unit <= unread * Unit
      /\ unread * Unit <= MaxUnread * Unit
  BY <1>1, TimesUnit
<1>4. /\ unpolled * Unit \in Int /\ 0 * Unit <= unpolled * Unit
      /\ unpolled * Unit <= MaxUnpolled * Unit
  BY <1>1, TimesUnit
<1>5. (MaxUnread + unpolled) * Unit = MaxUnread * Unit + unpolled * Unit
  BY <1>1, TimesUnit
<1> QED BY <1>2, <1>3, <1>4, <1>5

(* The plant's variables. *)
LEMMA AimInit == RInit => Aimed
<1> SUFFICES ASSUME RInit PROVE Aimed
  OBVIOUS
<1>1. /\ pos = 0 /\ unpolled = 0 /\ unread = 0 /\ azimuth = 0 /\ ~dir /\ ~clkWise
      /\ mstate = "Idle" /\ dir = clkWise
  BY DEF RInit, Init
<1>2. 0 * Unit = 0
  BY RotorAssumption
<1>3. LagsBy(0)
  BY <1>1, <1>2 DEF LagsBy, Circles, Way
<1>4. ~Closing
  BY <1>1 DEF Closing
<1> QED BY <1>3, <1>4 DEF Aimed

(* A step that leaves pointer, compass and poll alone. *)
LEMMA AimKept ==
  ASSUME Aimed,
         UNCHANGED <<plant, azimuth, clkWise>>,
         Closing' => Closing /\ destAzimuth' = destAzimuth
  PROVE  Aimed'
<1>1. PICK e \in Int : LagsBy(e) /\ (Closing => \E a \in Int : LeftIs(a, e))
  BY DEF Aimed
<1>3. LagsBy(e)'
  BY <1>1 DEF LagsBy, plant, Way
<1>4. ASSUME Closing' PROVE \E a \in Int : LeftIs(a, e)'
  <2>1. PICK a \in Int : LeftIs(a, e)
    BY <1>1, <1>4
  <2>2. LeftIs(a, e)'
    BY <2>1, <1>4 DEF LeftIs, plant, Way
  <2> QED BY <2>2
<1> QED BY <1>3, <1>4 DEF Aimed

(* A motor step adds to the lag what it takes from the way that is left. *)
LEMMA AimTick ==
  ASSUME SlackIsSmall, AllInv, PlantType, PlantType', Aimed, RTick
  PROVE  Aimed'
<1>1. /\ UNCHANGED <<azimuth, clkWise, dir, destAzimuth, mstate, timer>>
      /\ Closing' = Closing
  BY DEF RTick, StepTick, request, compass, Closing
<1>2. CASE ~MotorSteps
  <2>1. UNCHANGED plant
    BY <1>2 DEF RTick
  <2> QED BY <1>1, <2>1, AimKept
<1>3. CASE MotorSteps
  <2>1. /\ timer => unpolled < MaxUnpolled
        /\ unread < MaxUnread
        /\ pos' = (IF dir THEN pos + Unit ELSE pos + 360 - Unit) % 360
        /\ unpolled' = IF timer THEN unpolled + 1 ELSE 0
        /\ unread' = unread + 1
    BY <1>3 DEF RTick
  <2>2. pos' \in 0..359 /\ Circles(pos + Way(Unit) - pos')
    <3>1. pos \in 0..359 /\ Unit \in 1..359 /\ clkWise \in BOOLEAN /\ dir = clkWise
      BY TypeFacts, RotorAssumption DEF PlantType
    <3>2. pos' = (IF clkWise THEN pos + Unit ELSE pos + 360 - Unit) % 360
      BY <2>1, <3>1
    <3>3. CASE clkWise
      <4>1. pos' = (pos + Unit) % 360 /\ Way(Unit) = Unit
        BY <3>2, <3>3 DEF Way
      <4>2. pos \in Int /\ Unit \in Int
        BY <3>1
      <4>3. /\ (pos + Unit) % 360 \in 0..359
            /\ Circles(pos + Unit - ((pos + Unit) % 360))
        BY <4>2 DEF Circles
      <4> DEFINE q == (pos + Unit) % 360
      <4>4. q \in 0..359 /\ Circles(pos + Unit - q) /\ pos' = q
        BY <4>1, <4>3
      <4> HIDE DEF q
      <4>5. pos + Unit - q = pos + Way(Unit) - pos'
        BY <4>1, <4>4
      <4> QED BY <4>4, <4>5
    <3>4. CASE ~clkWise
      <4>1. pos' = (pos + 360 - Unit) % 360 /\ Way(Unit) = -Unit
        BY <3>2, <3>4 DEF Way
      <4>2. pos \in Int /\ Unit \in Int
        BY <3>1
      <4>3. /\ (pos + 360 - Unit) % 360 \in 0..359
            /\ Circles(pos - Unit - ((pos + 360 - Unit) % 360))
        BY <4>2 DEF Circles
      <4> DEFINE q == (pos + 360 - Unit) % 360
      <4>4. q \in 0..359 /\ Circles(pos - Unit - q) /\ pos' = q
        BY <4>1, <4>3
      <4> HIDE DEF q
      <4>5. pos - Unit - q = pos + Way(Unit) - pos'
        BY <4>1, <4>2, <4>4
      <4> QED BY <4>4, <4>5
    <3> QED BY <3>3, <3>4
  <2>4. PICK e \in Int : LagsBy(e) /\ (Closing => \E a \in Int : LeftIs(a, e))
    BY DEF Aimed
  <2>5. /\ unread * Unit \in Int /\ unpolled * Unit \in Int /\ Unit \in Int
        /\ (unread + 1) * Unit = unread * Unit + Unit
        /\ (unpolled + 1) * Unit = unpolled * Unit + Unit
    <3>1. unread \in Int /\ unpolled \in Int
      BY DEF PlantType
    <3>2. 1 * Unit = Unit /\ Unit \in Int
      BY RotorAssumption
    <3> QED BY <3>1, <3>2, TimesUnit
  <2>6. LagsBy(e + Unit)'
    <3>1. Circles(azimuth + Way(e) - pos + (pos + Way(Unit) - pos'))
      <4>1. azimuth + Way(e) - pos \in Int /\ pos + Way(Unit) - pos' \in Int
        BY <2>2, <2>5, TypeFacts DEF Way, PlantType
      <4> QED BY <2>2, <2>4, <4>1, CirclesAdd DEF LagsBy
    <3>2. azimuth + Way(e) - pos + (pos + Way(Unit) - pos')
            = azimuth' + Way(e + Unit)' - pos'
      BY <1>1, <2>2, <2>5, TypeFacts DEF Way, PlantType
    <3>3. Circles(azimuth' + Way(e + Unit)' - pos')
      BY <3>1, <3>2
    <3>4. -(unread' * Unit) <= e + Unit /\ e + Unit <= unread' * Unit
      BY <2>1, <2>4, <2>5, RotorAssumption DEF LagsBy
    <3> QED BY <3>3, <3>4 DEF LagsBy, Circles
  <2>7. ASSUME Closing' PROVE \E a \in Int : LeftIs(a, e + Unit)'
    <3>1. PICK a \in Int : LeftIs(a, e)
      BY <1>1, <2>4, <2>7
    <3>2. timer
      BY <1>1, <2>7 DEF Closing, AllInv, DrvInv, PollFollowsAutomaton
    <3>3. unpolled' = unpolled + 1
      BY <2>1, <3>2
    <3>4. /\ (MaxUnread + unpolled) * Unit = MaxUnread * Unit + unpolled * Unit
          /\ (MaxUnread + unpolled') * Unit = MaxUnread * Unit + unpolled' * Unit
          /\ MaxUnread * Unit \in Int /\ Reach \in Int
      <4>1. /\ MaxUnread \in Int /\ unpolled \in Int /\ unpolled' \in Int
        BY RotorAssumption DEF PlantType
      <4> QED BY <4>1, TimesUnit, SlackFacts
    <3>5. /\ -((MaxUnread + unpolled') * Unit) <= a - (e + Unit)
          /\ a - (e + Unit) < Reach
      BY <2>5, <3>1, <3>3, <3>4, RotorAssumption DEF LeftIs
    <3>6. LeftIs(a, e + Unit)'
      <4>1. Circles(azimuth' + Way(a)' - destAzimuth')
        BY <1>1, <3>1 DEF LeftIs, Way
      <4> QED BY <3>1, <3>5, <4>1 DEF LeftIs, Circles, Slack, Reach
    <3> QED BY <3>6
  <2>8. e + Unit \in Int
    BY <2>5
  <2> QED BY <2>6, <2>7, <2>8 DEF Aimed
<1> QED BY <1>2, <1>3

(* On which side of the pointer the heading is, and how far.                *)
LEMMA Sides ==
  ASSUME NEW h \in 0..360, NEW p \in 0..359, NEW w \in -90..90, Circles(h - w - p)
  PROVE  /\ Apart(h, p) = IF w < 0 THEN -w ELSE w
         /\ ((h + 360 - p) % 360 <= 180) <=> (0 <= w)
<1> DEFINE d == (h + 360 - p) % 360
<1>1. (h - w - p) % 360 = 0
  BY DEF Circles
<1>2. d = IF w < 0 THEN w + 360 ELSE w
  BY ONLY <1>1, h \in 0..360, p \in 0..359, w \in -90..90
<1>3. Apart(h, p) = IF d > 180 THEN 360 - d ELSE d
  BY DEF Apart
<1>4. ((h + 360 - p) % 360 <= 180) <=> (0 <= w)
  <2>1. (d <= 180) <=> (0 <= w)
    <3> HIDE DEF d
    <3> QED BY <1>2
  <2> QED BY <2>1
<1> HIDE DEF d
<1>5. Apart(h, p) = IF w < 0 THEN -w ELSE w
  BY <1>2, <1>3
<1> QED BY <1>4, <1>5

(* A heading so many steps behind, on the side of the last one, lags less.  *)
LEMMA BehindLags ==
  ASSUME SlackIsSmall, AllInv, PlantType, NEW e \in Int, LagsBy(e),
         NEW steps \in 0..unread, steps * Unit <= Apart(azimuth, pos)
  PROVE  \E f \in Int :
           /\ Circles(Behind(steps) + Way(f) - pos)
           /\ -(steps * Unit) <= f /\ f <= steps * Unit
           /\ (0 <= f /\ f <= e) \/ (e <= f /\ f <= 0)
<1> DEFINE w == -Way(e)
           n == steps * Unit
           f == IF e < 0 THEN -n ELSE n
<1>1. n \in Int /\ 0 <= n
  <2>1. steps \in Int /\ 0 <= steps /\ 0 \in Int /\ 0 * Unit = 0
    BY RotorAssumption DEF PlantType
  <2> QED BY <2>1, TimesUnit
<1>2. -90 <= e /\ e <= 90
  BY Bounds, SlackFacts DEF LagsBy
<1>3. w \in -90..90 /\ (w = e \/ w = -e)
  BY <1>2 DEF Way
<1>4. azimuth \in 0..360 /\ pos \in 0..359 /\ clkWise \in BOOLEAN
  BY TypeFacts DEF PlantType
<1>5. Circles(azimuth - w - pos)
  <2>1. azimuth - w - pos = azimuth + Way(e) - pos
    BY <1>4 DEF Way
  <2> QED BY <2>1 DEF LagsBy
<1>6. /\ Apart(azimuth, pos) = IF w < 0 THEN -w ELSE w
      /\ ((azimuth + 360 - pos) % 360 <= 180) <=> (0 <= w)
  <2> HIDE DEF w
  <2> QED BY <1>3, <1>4, <1>5, Sides
<1>7. n <= 90 /\ ((0 <= f /\ f <= e) \/ (e <= f /\ f <= 0))
  BY <1>1, <1>2, <1>3, <1>6
<1>8. Circles(Behind(steps) + Way(f) - pos)
  <2>1. Behind(steps) = (IF 0 <= w THEN pos + n ELSE pos + 360 - n) % 360
    BY <1>6 DEF Behind
  <2>2. n <= 90
    BY <1>1, <1>2, <1>3, <1>6
  <2>3. ((0 <= w \/ n = 0) /\ Way(f) = -n) \/ ((w < 0 \/ n = 0) /\ Way(f) = n)
    <3>1. /\ Way(f) = IF clkWise THEN f ELSE -f
          /\ w = IF clkWise THEN -e ELSE e
      BY DEF Way
    <3>2. n <= IF w < 0 THEN -w ELSE w
      BY <1>6
    <3> HIDE DEF n, w
    <3>3. CASE e < 0
      BY <1>1, <1>4, <3>1, <3>2, <3>3
    <3>4. CASE e >= 0
      BY <1>1, <1>4, <3>1, <3>2, <3>4
    <3> QED BY <3>3, <3>4
  <2> DEFINE b == Behind(steps)
             v == Way(f)
  <2>4. b = (IF 0 <= w THEN pos + n ELSE pos + 360 - n) % 360
    BY <2>1
  <2>5. ((0 <= w \/ n = 0) /\ v = -n) \/ ((w < 0 \/ n = 0) /\ v = n)
    BY <2>3
  <2> HIDE DEF b, v, w, n, f
  <2>6. Circles(b + v - pos)
    BY <1>1, <1>3, <1>4, <2>2, <2>4, <2>5 DEF Circles
  <2> QED BY <2>6 DEF b, v
<1> QED BY <1>1, <1>7, <1>8

(* A heading lessens the lag; what of it is gone is left in fact and seen   *)
(* from now on.                                                             *)
LEMMA AimHeading ==
  ASSUME SlackIsSmall, AllInv, PlantType, Aimed, RHeading
  PROVE  Aimed'
<1>1. /\ UNCHANGED <<pos, unpolled>>
      /\ UNCHANGED <<clkWise, dir, destAzimuth, mstate>> /\ Closing' = Closing
  BY DEF RHeading, Heading, request, Closing
<1>2. PICK steps \in 0..unread :
        /\ steps * Unit <= Apart(azimuth, pos)
        /\ azimuth' = Behind(steps) /\ unread' = steps
  BY DEF RHeading
<1>3. PICK e \in Int : LagsBy(e) /\ (Closing => \E a \in Int : LeftIs(a, e))
  BY DEF Aimed
<1>4. PICK f \in Int :
        /\ Circles(Behind(steps) + Way(f) - pos)
        /\ -(steps * Unit) <= f /\ f <= steps * Unit
        /\ (0 <= f /\ f <= e) \/ (e <= f /\ f <= 0)
  BY <1>2, <1>3, BehindLags
<1>5. LagsBy(f)'
  BY <1>1, <1>2, <1>4 DEF LagsBy, Way
<1>6. ASSUME Closing' PROVE \E a \in Int : LeftIs(a, f)'
  <2>1. PICK a \in Int : LeftIs(a, e)
    BY <1>1, <1>3, <1>6
  <2> DEFINE b == a - e + f
  <2>2. Circles(azimuth + Way(a) - destAzimuth) /\ Circles(azimuth + Way(e) - pos)
        /\ Circles(azimuth' + Way(f) - pos)
    BY <1>2, <1>3, <1>4, <2>1 DEF LagsBy, LeftIs
  <2>t. azimuth' \in Int
    BY StepDrvAssumption DEF RHeading, Heading
  <2>3. /\ azimuth + Way(a) - destAzimuth \in Int /\ azimuth + Way(e) - pos \in Int
        /\ azimuth' + Way(f) - pos \in Int
    BY <2>t, TypeFacts DEF Way, PlantType
  <2>4. Circles(azimuth' + Way(b)' - destAzimuth')
    <3> DEFINE m == azimuth + Way(a) - destAzimuth
               n == azimuth + Way(e) - pos
               k == azimuth' + Way(f) - pos
    <3>1. m \in Int /\ n \in Int /\ k \in Int /\ Circles(m) /\ Circles(n) /\ Circles(k)
      BY <2>2, <2>3
    <3>2. k - (n - m) = azimuth' + Way(b)' - destAzimuth'
      BY <1>1, <2>t, TypeFacts DEF Way, PlantType
    <3> HIDE DEF m, n, k
    <3>3. Circles(k - (n - m))
      <4>1. n - m \in Int /\ Circles(n - m)
        BY ONLY <3>1, CirclesAdd
      <4> QED BY ONLY <3>1, <4>1, CirclesAdd
    <3> QED BY <3>2, <3>3
  <2>5. /\ -((MaxUnread + unpolled) * Unit) <= a - e /\ a - e < Reach
        /\ -Slack <= a /\ a < Reach
    BY <2>1 DEF LeftIs
  <2>6. -Slack <= a - e
    BY <2>5, SlackFacts, Bounds
  <2>7. b \in Int /\ b - f = a - e /\ -Slack <= b /\ b < Reach
    BY <1>4, <2>5, <2>6, SlackFacts
  <2> HIDE DEF b
  <2>8. LeftIs(b, f)'
    BY <1>1, <2>4, <2>5, <2>7 DEF LeftIs, Circles, Slack, Reach
  <2> QED BY <2>7, <2>8
<1> QED BY <1>4, <1>5, <1>6 DEF Aimed

(* What the poll sees and the degrees the pointer has left. *)
LEMMA LeftMeans ==
  ASSUME AllInv
  PROVE  Left \in 0..360 /\ Circles(azimuth + Way(Left) - destAzimuth)
<1>1. azimuth \in 0..360 /\ destAzimuth \in 0..360 /\ clkWise \in BOOLEAN
  BY TypeFacts
<1>2. CASE clkWise
  BY <1>1, <1>2 DEF Left, Pulses, Circles, Way
<1>3. CASE ~clkWise
  BY <1>1, <1>3 DEF Left, Pulses, Circles, Way
<1> QED BY <1>2, <1>3

(* Two degrees left that are whole turns apart. *)
LEMMA SameLeft ==
  ASSUME AllInv, NEW a \in Int, NEW b \in Int,
         Circles(azimuth + Way(a) - destAzimuth),
         Circles(azimuth + Way(b) - destAzimuth)
  PROVE  Circles(a - b)
<1> DEFINE m == azimuth + Way(a) - destAzimuth
           n == azimuth + Way(b) - destAzimuth
<1>1. m \in Int /\ n \in Int /\ Circles(m) /\ Circles(n)
  BY TypeFacts DEF Way
<1>2. m - n = IF clkWise THEN a - b ELSE b - a
  BY TypeFacts DEF Way
<1> HIDE DEF m, n
<1>3. Circles(m - n)
  BY ONLY <1>1, CirclesAdd
<1> QED BY <1>1, <1>2, <1>3 DEF Circles

(* After a poll that does not stop the move the target lies ahead. *)
LEMMA AimPoll ==
  ASSUME SlackIsSmall, AllInv, PlantType, Aimed, RPoll
  PROVE  Aimed'
<1>1. /\ unpolled' = 0 /\ UNCHANGED <<pos, unread, azimuth, clkWise, dir, destAzimuth>>
      /\ timer
  BY DEF RPoll, Poll, PollNear, PollSlowDown, PollArrived, PollStays, request,
     compass, vars
<1>2. PICK e \in Int : LagsBy(e) /\ (Closing => \E a \in Int : LeftIs(a, e))
  BY DEF Aimed
<1>4. LagsBy(e)'
  BY <1>1, <1>2 DEF LagsBy, Way
<1>5. /\ -(unread * Unit) <= e /\ e <= unread * Unit
      /\ unread * Unit <= MaxUnread * Unit /\ unread * Unit \in Int
  BY <1>2, Bounds DEF LagsBy
<1>6. PICK l \in 0..360 : l = Left /\ Circles(azimuth + Way(l) - destAzimuth)
  BY LeftMeans
<1>7. ASSUME l < Reach, l - e < Reach PROVE LeftIs(l, e)'
  <2>1. Circles(azimuth' + Way(l)' - destAzimuth')
    BY <1>1, <1>6 DEF Way
  <2>2. -Slack <= l
    BY SlackFacts
  <2>3. MaxUnread + unpolled' = MaxUnread
    BY <1>1, RotorAssumption
  <2>4. -((MaxUnread + unpolled') * Unit) <= l - e
    BY <1>5, <2>3, SlackFacts
  <2> QED BY <1>7, <2>1, <2>2, <2>4 DEF LeftIs, Circles, Slack, Reach
<1>8. CASE PollNear
  <2>1. l < 90
    BY <1>6, <1>8 DEF PollNear, Near
  <2>2. l < Reach /\ l - e < Reach
    BY <1>5, <2>1, SlackFacts DEF Reach
  <2>3. LeftIs(l, e)'
    BY <1>7, <2>2
  <2> QED BY <1>4, <2>3 DEF Aimed
<1>9. CASE (PollSlowDown \/ PollStays) /\ Closing
  <2>1. l <= 180
    <3>1. CASE PollSlowDown
      <4>1. SlowPos(userSpeed) \in Int /\ SlowPos(userSpeed) <= 55
        BY DEF SlowPos, STEPPER_SPEED_MAX, STEPPER_SPEED_SLOW, AllInv, TypeInv,
           TypeOK
      <4> QED BY <1>6, <3>1, <4>1 DEF PollSlowDown, AtSlowPos
    <3>2. CASE PollStays
      BY <1>6, <1>9, <3>2 DEF PollStays, Arrived, Closing
    <3> QED BY <1>9, <3>1, <3>2
  <2>2. PICK a \in Int : LeftIs(a, e)
    BY <1>2, <1>9
  <2>3. Circles(l - a)
    BY <1>6, <2>2, SameLeft DEF LeftIs
  <2>4. -90 <= a /\ a < 180 /\ a < Reach /\ a - e < Reach
    BY <2>2, SlackFacts DEF LeftIs, SlackIsSmall, Reach
  <2>5. l = a
    BY <2>1, <2>3, <2>4 DEF Circles
  <2>6. LeftIs(l, e)'
    BY <1>7, <2>4, <2>5
  <2> QED BY <1>4, <2>6 DEF Aimed
<1>10. CASE PollArrived \/ (~Closing /\ ~PollNear)
  <2>1. ~Closing'
    BY <1>10 DEF RPoll, Poll, PollArrived, PollSlowDown, PollStays, AtSlowPos,
       Closing, vars
  <2> QED BY <1>4, <2>1 DEF Aimed
<1> QED BY <1>8, <1>9, <1>10 DEF RPoll, Poll

(* Another direction, or another target of a move that starts. *)
LEMMA AimTurned ==
  ASSUME AllInv, AllInv', PlantType, Aimed,
         UNCHANGED <<pos, unread, azimuth>>, ~Closing'
  PROVE  Aimed'
<1>1. PICK e \in Int : LagsBy(e)
  BY DEF Aimed
<1>2. clkWise \in BOOLEAN /\ clkWise' \in BOOLEAN
  BY DEF AllInv, TypeInv, TypeOK
<1>3. CASE clkWise' = clkWise
  <2>1. LagsBy(e)'
    BY <1>1, <1>3 DEF LagsBy, Way
  <2> QED BY <2>1 DEF Aimed
<1>4. CASE clkWise' # clkWise
  <2>1. Way(-e)' = Way(e)
    BY <1>2, <1>4 DEF Way
  <2>2. -(unread * Unit) <= -e /\ -e <= unread * Unit
    BY <1>1, Bounds DEF LagsBy
  <2>3. LagsBy(-e)'
    BY <1>1, <2>1, <2>2 DEF LagsBy, Circles
  <2> QED BY <2>3 DEF Aimed
<1> QED BY <1>3, <1>4

LEMMA AimCommand ==
  ASSUME ~CalibWhileMoving, AllInv, AllInv', PlantType, Aimed, RCommand
  PROVE  Aimed'
<1>1. UNCHANGED <<pos, unread>>
  BY DEF RCommand
<1>2. CASE Set /\ unpolled' = IF MoveAllowed THEN 0 ELSE unpolled
  <2>1. PICK a \in Targets, d \in Directions, s \in Speeds :
          IgnoreMove(s) \/ StartMove(a, d, s)
    BY <1>2 DEF Set
  <2>2. CASE IgnoreMove(s)
    BY <1>1, <1>2, <2>2, AimKept DEF IgnoreMove, plant, compass, request, Closing
  <2>3. CASE StartMove(a, d, s)
    <3>1. ~Closing' /\ azimuth' = azimuth
      BY <2>3 DEF StartMove, compass, Closing
    <3> QED BY <1>1, <3>1, AimTurned
  <2> QED BY <2>1, <2>2, <2>3
<1>3. CASE Calib
  <2>1. ~Closing' /\ azimuth' = azimuth
    BY <1>3 DEF Calib, Closing
  <2> QED BY <1>1, <2>1, AimTurned
<1>4. CASE Ctl /\ UNCHANGED unpolled
  BY <1>1, <1>4, AimKept DEF Ctl, plant, compass, request, Closing
<1> QED BY <1>2, <1>3, <1>4 DEF RCommand

LEMMA AimHolds ==
  ASSUME ~CalibWhileMoving, SlackIsSmall
  PROVE  RSpec => [](AllInv /\ PlantType /\ Aimed)
<1>1. AllInv /\ AllInv' /\ PlantType /\ PlantType' /\ Aimed /\ [RNext]_rvars
        => Aimed'
  <2> SUFFICES ASSUME AllInv, AllInv', PlantType, PlantType', Aimed, [RNext]_rvars
               PROVE  Aimed'
    OBVIOUS
  <2>1. CASE (SeriesEnd /\ UNCHANGED plant) \/ RResume \/ UNCHANGED rvars
    BY <2>1, AimKept
       DEF SeriesEnd, RResume, Resume, TakePoint, EndCalibration, rvars, vars, plant,
           request, compass, Closing
  <2> QED BY <2>1, AimTick, AimPoll, AimHeading, AimCommand DEF RNext
<1> QED BY <1>1, AimInit, PlantHolds, RotorIsDriver, JobInvHolds, PTL DEF RSpec

(* The poll that stops the move finds the pointer near its target. *)
LEMMA StopIsNear ==
  ASSUME SlackIsSmall, AllInv, PlantType, Aimed, [RNext]_rvars,
         mstate # "Idle", mstate' = "Idle"
  PROVE  Apart(pos, destAzimuth) < STEPPER_SPEED_SLOW + Slack
<1>1. PollArrived
  BY DEF RNext, rvars, vars, RTick, StepTick, SeriesEnd, RPoll, Poll, PollNear,
     PollSlowDown, PollStays,
    RHeading, Heading, RResume, Resume, TakePoint, EndCalibration, RCommand,
    Set, IgnoreMove, StartMove, Calib, Ctl
<1>2. Closing /\ (Left < 5 \/ Left > 180)
  BY <1>1 DEF PollArrived, Arrived, Closing, STEPPER_SPEED_SLOW
<1>3. PICK e \in Int : LagsBy(e) /\ \E a \in Int : LeftIs(a, e)
  BY <1>2 DEF Aimed
<1>4. PICK a \in Int : LeftIs(a, e)
  BY <1>3
<1>5. PICK l \in 0..360 : l = Left /\ Circles(azimuth + Way(l) - destAzimuth)
  BY LeftMeans
<1>6. /\ -(unread * Unit) <= e /\ e <= unread * Unit
      /\ unread * Unit <= MaxUnread * Unit /\ unread * Unit \in Int
  BY <1>3, Bounds DEF LagsBy
<1>7. \E x \in Int : /\ x - e \in -Slack..(4 + MaxUnread * Unit)
                    /\ Circles(azimuth + Way(x) - destAzimuth)
  <2>1. CASE l < 5
    BY <1>5, <1>6, <2>1, SlackFacts
  <2>2. CASE l > 180
    <3>1. Circles(l - a)
      BY <1>4, <1>5, SameLeft DEF LeftIs
    <3>2. -90 <= a /\ a < 180
      BY <1>4, SlackFacts DEF LeftIs, SlackIsSmall, Reach
    <3>3. a <= 0
      BY <2>2, <3>1, <3>2 DEF Circles
    <3>4. -Slack <= a - e
      BY <1>4, Bounds, SlackFacts DEF LeftIs
    <3>5. a - e \in -Slack..(4 + MaxUnread * Unit)
      BY <1>6, <3>3, <3>4, SlackFacts
    <3> QED BY <1>4, <3>5 DEF LeftIs
  <2> QED BY <1>2, <1>5, <2>1, <2>2
<1>8. PICK x \in Int : /\ x - e \in -Slack..(4 + MaxUnread * Unit)
                      /\ Circles(azimuth + Way(x) - destAzimuth)
  BY <1>7
<1> DEFINE y == Way(e) - Way(x)
<1>9. y \in Int /\ (y = e - x \/ y = x - e)
  BY DEF Way
<1>10. Circles(pos - destAzimuth - y)
  <2> DEFINE m == azimuth + Way(x) - destAzimuth
             n == azimuth + Way(e) - pos
  <2>1. m \in Int /\ n \in Int /\ Circles(m) /\ Circles(n)
    BY <1>3, <1>8, TypeFacts DEF Way, LagsBy, PlantType
  <2>2. m - n = pos - destAzimuth - y
    BY TypeFacts DEF Way, PlantType
  <2> HIDE DEF m, n
  <2>3. Circles(m - n)
    BY ONLY <2>1, CirclesAdd
  <2> QED BY <2>2, <2>3
<1> HIDE DEF y
<1>11. -180 <= y /\ y <= 180 /\ (IF y < 0 THEN -y ELSE y) < 5 + Slack
  <2>1. x - e \in Int /\ -Slack <= x - e /\ x - e <= 4 + Slack
    BY <1>8, SlackFacts
  <2>2. Slack <= 90 /\ Slack \in Int
    BY SlackFacts DEF SlackIsSmall
  <2>3. y <= 90 + 4 /\ -(90 + 4) <= y /\ y <= 4 + Slack /\ -(4 + Slack) <= y
    BY <1>9, <2>1, <2>2
  <2> QED BY <1>9, <2>2, <2>3
<1>12. Apart(pos, destAzimuth) = IF y < 0 THEN -y ELSE y
  <2>1. pos \in 0..360 /\ destAzimuth \in 0..360
    BY TypeFacts DEF PlantType
  <2>2. y \in -180..180
    BY <1>9, <1>11
  <2>3. (pos - destAzimuth - y) % 360 = 0
    BY <1>10 DEF Circles
  <2> DEFINE d == (pos + 360 - destAzimuth) % 360
  <2>4. d = IF y < 0 THEN y + 360 ELSE y
    BY ONLY <2>1, <2>2, <2>3
  <2>5. Apart(pos, destAzimuth) = IF d > 180 THEN 360 - d ELSE d
    BY DEF Apart
  <2> HIDE DEF d
  <2> QED BY <2>2, <2>4, <2>5
<1> QED BY <1>9, <1>11, <1>12 DEF STEPPER_SPEED_SLOW

(* A move ends close to where it was sent, however late the compass and the *)
(* poll are, as long as the motor turns a quarter of a turn at most         *)
(* meanwhile, and whatever commands come in between.                        *)
THEOREM StopsNearTarget ==
  ASSUME ~CalibWhileMoving, SlackIsSmall
  PROVE  RSpec => StopsAtTarget
<1>1. AllInv /\ PlantType /\ Aimed /\ [RNext]_rvars =>
        [mstate # "Idle" /\ mstate' = "Idle" =>
           Apart(pos, destAzimuth)
             < STEPPER_SPEED_SLOW + (MaxUnread + MaxUnpolled) * Unit]_rvars
  BY StopIsNear DEF Slack
<1> QED BY <1>1, AimHolds, PTL DEF RSpec, StopsAtTarget

--------------------------------------------------------------------------------
(* The points of a calibration are evenly spaced, give or take a motor      *)
(* step.  A series of 2N ticks has 2N - 1 edges; r of them rose so far, and *)
(* each of these turned the pointer by one step away from the last point.   *)
CountsDown ==
  onCalibration /\ loopPc = "poll" =>
    step.busy /\ step.pulseCnt \in 1..(2 * SeriesPulses)

Last == calibPoints[Len(calibPoints)]

Counted(r) ==
  \/ 2 * r + step.pulseCnt = 2 * SeriesPulses
  \/ step.prevVal /\ 2 * r + step.pulseCnt = 2 * SeriesPulses + 1
  \/ ~step.prevVal /\ 2 * r + step.pulseCnt = 2 * SeriesPulses - 1

SinceLast ==
  onCalibration /\ Len(calibPoints) >= 2 =>
    \E r \in 0..SeriesPulses :
      /\ pos = (Last + r * Unit) % 360
      /\ IF loopPc = "poll" THEN Counted(r) ELSE r >= SeriesPulses - 1

(* The pause is longer than the compass takes, and the motor stays enabled. *)
HeadingIsFresh == unread = 0 => azimuth = pos
MotorIsOn == onCalibration => enable

EvenInv ==
  /\ PlantType /\ HeadingIsFresh /\ MotorIsOn
  /\ CountsDown /\ SinceLast /\ PointsAlmostEven

(* A calibration step is less than a turn: 45 degrees for the 8 points of   *)
(* the code; else two points a turn apart would look the same.              *)
LessThanATurn == SeriesPulses * Unit < 360

LEMMA EvenInit == RInit => EvenInv
<1> SUFFICES ASSUME RInit PROVE EvenInv
  OBVIOUS
<1>1. /\ pos = 0 /\ unpolled = 0 /\ unread = 0 /\ azimuth = 0 /\ ~dir /\ ~clkWise
      /\ ~onCalibration /\ dir = clkWise
  BY DEF RInit, Init
<1> QED BY <1>1, RotorAssumption
        DEF EvenInv, PlantType, HeadingIsFresh, MotorIsOn, CountsDown, SinceLast, PointsAlmostEven

(* A step without a calibration before or after it. *)
LEMMA EvenIdle ==
  ASSUME EvenInv, PlantType', HeadingIsFresh', ~onCalibration'
  PROVE  EvenInv'
BY DEF EvenInv, MotorIsOn, CountsDown, SinceLast, PointsAlmostEven

(* A step that leaves the calibration alone. *)
LEMMA EvenKept ==
  ASSUME EvenInv, PlantType', HeadingIsFresh',
         UNCHANGED <<pos, onCalibration, enable, loopPc, step, calibPoints>>
  PROVE  EvenInv'
<1>1. MotorIsOn' /\ CountsDown'
  BY DEF EvenInv, MotorIsOn, CountsDown
<1>2. SinceLast'
  <2> SUFFICES ASSUME onCalibration, Len(calibPoints) >= 2
               PROVE  \E r \in 0..SeriesPulses :
                        (/\ pos = (Last + r * Unit) % 360
                         /\ IF loopPc = "poll" THEN Counted(r) ELSE r >= SeriesPulses - 1)'
    BY DEF SinceLast
  <2>1. PICK r \in 0..SeriesPulses :
          /\ pos = (Last + r * Unit) % 360
          /\ IF loopPc = "poll" THEN Counted(r) ELSE r >= SeriesPulses - 1
    BY DEF EvenInv, SinceLast
  <2>2. Last' = Last /\ (Counted(r)' <=> Counted(r))
    BY DEF Last, Counted
  <2> QED BY <2>1, <2>2
<1>3. PointsAlmostEven'
  BY DEF EvenInv, PointsAlmostEven, Turned
<1> QED BY <1>1, <1>2, <1>3 DEF EvenInv

(* The level and the count after a tick that is not the last one. *)
LEMMA TickFields ==
  ASSUME NEW p \in Pin, p.busy, ~LastTick(p), p.pulseCnt # -1
  PROVE  /\ RunPWMCb(p).busy /\ RunPWMCb(p).pulseCnt = p.pulseCnt - 1
         /\ RunPWMCb(p).prevVal = ~p.prevVal
<1> DEFINE q == SetVal(p, ~p.prevVal)
<1>1. q \in Pin /\ q.busy /\ q.pulseCnt = p.pulseCnt /\ q.prevVal = ~p.prevVal
  BY DEF SetVal, Pin
<1>2. RunPWMCb(p) = [q EXCEPT !.pulseCnt = IF @ = -1 THEN @ ELSE @ - 1,
                              !.timer = "runPWMCb"]
  BY DEF RunPWMCb
<1> HIDE DEF q
<1> QED BY <1>1, <1>2 DEF Pin

(* The last point taken is a heading. *)
LEMMA LastIsHeading ==
  ASSUME AllInv, Len(calibPoints) >= 2
  PROVE  Last \in Int
<1>1. calibPoints \in Seq(Headings)
  BY DEF AllInv, TypeInv, TypeOK
<1>2. Len(calibPoints) \in 1..Len(calibPoints)
  BY <1>1
<1>3. Last \in Headings
  BY <1>1, <1>2 DEF Last
<1> QED BY <1>3, StepDrvAssumption

LEMMA EvenTick ==
  ASSUME AllInv, EvenInv, RTick, PlantType'
  PROVE  EvenInv'
<1>1. /\ loopPc = "poll" /\ step.timer = "runPWMCb"
      /\ ~LastTick(step) /\ step' = RunPWMCb(step)
      /\ UNCHANGED <<onCalibration, enable, loopPc, calibPoints, azimuth, dir>>
  BY DEF RTick, StepTick, flags, calib, compass, request
<1>2. /\ MotorSteps => /\ pos' = (IF dir THEN pos + Unit ELSE pos + 360 - Unit) % 360
                       /\ unread' = unread + 1
      /\ ~MotorSteps => pos' = pos /\ unread' = unread
  BY DEF RTick, plant
<1>3. HeadingIsFresh'
  <2>1. CASE MotorSteps
    BY <1>2, <2>1 DEF HeadingIsFresh, EvenInv, PlantType
  <2> QED BY <1>1, <1>2, <2>1 DEF HeadingIsFresh, EvenInv
<1>4. CASE ~onCalibration
  BY <1>1, <1>3, <1>4, EvenIdle
<1>5. CASE onCalibration
  <2>1. /\ step \in Pin /\ step.busy /\ step.pulseCnt \in 1..(2 * SeriesPulses)
        /\ step.prevVal \in BOOLEAN
    BY <1>1, <1>5, TypeFacts DEF EvenInv, CountsDown
  <2>2. step.pulseCnt # 1
    BY <1>1, <2>1 DEF LastTick
  <2>3. step'.busy /\ step'.pulseCnt = step.pulseCnt - 1 /\ step'.prevVal = ~step.prevVal
    BY <1>1, <2>1, <2>2, TickFields
  <2>4. CountsDown'
    BY <2>1, <2>2, <2>3, StepDrvAssumption DEF CountsDown
  <2>5. dir /\ enable
    BY <1>5 DEF EvenInv, MotorIsOn, AllInv, DrvInv, MeasuresRaw
  <2>6. SinceLast'
    <3> SUFFICES ASSUME Len(calibPoints) >= 2
                 PROVE  \E r \in 0..SeriesPulses :
                          pos' = (Last + r * Unit) % 360 /\ Counted(r)'
      BY <1>1, <1>5 DEF SinceLast, Last
    <3>1. PICK r \in 0..SeriesPulses : pos = (Last + r * Unit) % 360 /\ Counted(r)
      BY <1>1, <1>5 DEF EvenInv, SinceLast
    <3>2. SeriesPulses \in Nat /\ r \in Int
      BY StepDrvAssumption
    <3>3. CASE step.prevVal
      <4>1. pos' = pos
        BY <1>2, <3>3 DEF MotorSteps
      <4>2. \/ 2 * r + step.pulseCnt = 2 * SeriesPulses
            \/ 2 * r + step.pulseCnt = 2 * SeriesPulses + 1
        BY <3>1, <3>3 DEF Counted
      <4>3. \/ 2 * r + step'.pulseCnt = 2 * SeriesPulses - 1
            \/ 2 * r + step'.pulseCnt = 2 * SeriesPulses
        BY <2>1, <2>3, <3>2, <4>2
      <4>4. Counted(r)'
        BY <2>3, <3>3, <4>3 DEF Counted
      <4> QED BY <3>1, <4>1, <4>4
    <3>4. CASE ~step.prevVal
      <4>1. pos' = (pos + Unit) % 360
        BY <1>2, <2>5, <3>4 DEF MotorSteps
      <4>2. r + 1 \in 0..SeriesPulses /\ Counted(r + 1)'
        <5>1. \/ 2 * r + step.pulseCnt = 2 * SeriesPulses
              \/ 2 * r + step.pulseCnt = 2 * SeriesPulses - 1
          BY <3>1, <3>4 DEF Counted
        <5>2. \/ 2 * (r + 1) + step'.pulseCnt = 2 * SeriesPulses + 1
              \/ 2 * (r + 1) + step'.pulseCnt = 2 * SeriesPulses
          <6> DEFINE c == step.pulseCnt
                     n == 2 * SeriesPulses
          <6>1. c \in Int /\ n \in Int /\ step'.pulseCnt = c - 1
            BY <2>1, <2>3, <3>2
          <6>2. 2 * r + c = n \/ 2 * r + c = n - 1
            BY <5>1
          <6> HIDE DEF c, n
          <6>3. 2 * (r + 1) + (c - 1) = n + 1 \/ 2 * (r + 1) + (c - 1) = n
            BY <3>2, <6>1, <6>2
          <6> QED BY <6>1, <6>3 DEF n
        <5>3. r + 1 \in 0..SeriesPulses
          BY <2>1, <2>2, <3>2, <5>1
        <5> QED BY <2>3, <3>4, <5>2, <5>3 DEF Counted
      <4>3. (r + 1) * Unit = r * Unit + Unit /\ r * Unit \in Int /\ Unit \in Int
        BY <3>2, RotorAssumption
      <4>4. Last \in Int
        BY LastIsHeading
      <4>5. pos' = (Last + (r + 1) * Unit) % 360
        <5> DEFINE s == r * Unit
                   t == (r + 1) * Unit
        <5>1. s \in Int /\ t = s + Unit /\ pos = (Last + s) % 360
          BY <3>1, <4>3
        <5> HIDE DEF s, t
        <5>2. pos' = (Last + t) % 360
          BY <4>1, <4>3, <4>4, <5>1
        <5> QED BY <5>2 DEF t
      <4> QED BY <4>2, <4>5
    <3> QED BY <2>1, <3>3, <3>4
  <2>7. PointsAlmostEven'
    BY <1>1 DEF EvenInv, PointsAlmostEven, Turned
  <2>8. MotorIsOn'
    BY <1>1 DEF EvenInv, MotorIsOn
  <2> QED BY <1>3, <2>4, <2>6, <2>7, <2>8 DEF EvenInv
<1> QED BY <1>4, <1>5

LEMMA EvenSeriesEnd ==
  ASSUME AllInv, EvenInv, SeriesEnd /\ UNCHANGED plant, PlantType'
  PROVE  EvenInv'
<1>1. /\ step.timer = "runPWMCb" /\ LastTick(step) /\ loopPc = "poll"
      /\ loopPc' = IF onCalibration THEN "pause" ELSE "poll"
      /\ UNCHANGED <<onCalibration, enable, calibPoints, azimuth, pos, unread>>
  BY DEF SeriesEnd, flags, calib, compass, plant
<1>2. HeadingIsFresh'
  BY <1>1 DEF HeadingIsFresh, EvenInv
<1>3. CASE ~onCalibration
  BY <1>1, <1>2, <1>3, EvenIdle
<1>4. CASE onCalibration
  <2>1. loopPc' = "pause" /\ step.pulseCnt = 1
    BY <1>1, <1>4 DEF LastTick
  <2>2. CountsDown' /\ MotorIsOn' /\ PointsAlmostEven'
    BY <1>1, <2>1 DEF CountsDown, EvenInv, MotorIsOn, PointsAlmostEven, Turned
  <2>3. SinceLast'
    <3> SUFFICES ASSUME Len(calibPoints) >= 2
                 PROVE  \E r \in 0..SeriesPulses :
                          pos = (Last + r * Unit) % 360 /\ r >= SeriesPulses - 1
      BY <1>1, <1>4, <2>1 DEF SinceLast, Last
    <3>1. PICK r \in 0..SeriesPulses : pos = (Last + r * Unit) % 360 /\ Counted(r)
      BY <1>1, <1>4 DEF EvenInv, SinceLast
    <3>2. r >= SeriesPulses - 1
      BY <2>1, <3>1, StepDrvAssumption DEF Counted
    <3> QED BY <3>1, <3>2
  <2> QED BY <1>2, <2>2, <2>3 DEF EvenInv
<1> QED BY <1>3, <1>4

(* A new count, when a calibration or one of its steps begins. *)
LEMMA RunCalibStepFields ==
  ASSUME NEW p \in Pin
  PROVE  /\ RunCalibStep(p).busy
         /\ RunCalibStep(p).pulseCnt = 2 * SeriesPulses
         /\ 2 * SeriesPulses \in 1..(2 * SeriesPulses)
BY RunPulsesFields, CalibPeriodType, StepDrvAssumption DEF RunCalibStep

(* d degrees further on the circle. *)
LEMMA TurnedBy ==
  ASSUME NEW l \in Int, NEW d \in Nat, d < 360
  PROVE  (((l + d) % 360) + 360 - l) % 360 = d
OBVIOUS

LEMMA EvenResume ==
  ASSUME LessThanATurn, AllInv, EvenInv, RResume, PlantType'
  PROVE  EvenInv'
<1>1. /\ Resume /\ loopPc = "pause" /\ loopPc' = "poll" /\ azimuth = pos /\ onCalibration
      /\ UNCHANGED <<enable, azimuth, pos, unread>>
  BY DEF RResume, Resume, TakePoint, EndCalibration, plant, compass, EvenInv,
     HeadingIsFresh,
         AllInv, TypeInv, PauseIsCalibration
<1>2. HeadingIsFresh'
  BY <1>1 DEF HeadingIsFresh
<1>3. CASE EndCalibration
  <2>1. ~onCalibration'
    BY <1>3 DEF EndCalibration
  <2> QED BY <1>2, <2>1, EvenIdle
<1>4. CASE TakePoint
  <2> DEFINE n == Len(calibPoints)
  <2>1. /\ calibPoints' = Append(calibPoints, azimuth) /\ step' = RunCalibStep(step)
        /\ onCalibration' = onCalibration
    BY <1>4 DEF TakePoint, flags
  <2>2. calibPoints \in Seq(Headings) /\ azimuth \in Headings /\ step \in Pin
    BY DEF AllInv, TypeInv, TypeOK
  <2>3. /\ n \in Nat /\ Len(calibPoints') = n + 1 /\ calibPoints'[n + 1] = azimuth
        /\ \A i \in 1..n : calibPoints'[i] = calibPoints[i]
    BY <2>1, <2>2
  <2>4. /\ step'.busy /\ step'.pulseCnt = 2 * SeriesPulses
        /\ 2 * SeriesPulses \in 1..(2 * SeriesPulses)
    BY <2>1, <2>2, RunCalibStepFields
  <2>5. CountsDown' /\ MotorIsOn'
    BY <1>1, <2>1, <2>4 DEF CountsDown, EvenInv, MotorIsOn
  <2> HIDE DEF n
  <2>6. SinceLast'
    <3>1. Last' = pos
      BY <1>1, <2>3 DEF Last
    <3>2. 0 \in 0..SeriesPulses /\ 0 * Unit = 0 /\ pos \in 0..359
      BY StepDrvAssumption, RotorAssumption DEF EvenInv, PlantType
    <3>3. pos = (pos + 0 * Unit) % 360
      BY <3>2
    <3>4. Counted(0)'
      BY <2>4, StepDrvAssumption DEF Counted
    <3> QED BY <1>1, <3>1, <3>2, <3>3, <3>4 DEF SinceLast
  <2>7. PointsAlmostEven'
    <3> SUFFICES ASSUME NEW i \in 2..n
                 PROVE  Turned(i)' \in {(SeriesPulses - 1) * Unit, SeriesPulses * Unit}
      BY <2>3 DEF PointsAlmostEven
    <3>1. CASE i < n
      <4>1. Turned(i)' = Turned(i)
        <5>1. i \in 1..n /\ i + 1 \in 1..n
          BY <2>3, <3>1
        <5> QED BY <2>3, <5>1 DEF Turned
      <4> QED BY <1>1, <2>3, <3>1, <4>1 DEF EvenInv, PointsAlmostEven, n
    <3>2. CASE i = n
      <4>1. PICK r \in 0..SeriesPulses :
              pos = (Last + r * Unit) % 360 /\ r >= SeriesPulses - 1
        BY <1>1, <2>3, <3>2 DEF EvenInv, SinceLast, n
      <4>2. r = SeriesPulses - 1 \/ r = SeriesPulses
        BY <4>1, StepDrvAssumption
      <4>3. r * Unit \in Nat /\ r * Unit < 360
        <5>1. r \in Int /\ SeriesPulses \in Int /\ 0 \in Int /\ r <= SeriesPulses /\ 0 <= r
          BY StepDrvAssumption
        <5>2. 0 * Unit = 0
          BY RotorAssumption
        <5>3. r * Unit \in Int /\ r * Unit <= SeriesPulses * Unit /\ 0 * Unit <= r * Unit
          BY <5>1, TimesUnit
        <5>4. SeriesPulses * Unit \in Int
          BY <5>1, TimesUnit
        <5> QED BY <5>2, <5>3, <5>4 DEF LessThanATurn
      <4>4. Last \in Int /\ Last = calibPoints[n]
        BY <2>3, <3>2, LastIsHeading DEF Last, n
      <4>5. Turned(i)' = (pos + 360 - Last) % 360
        <5>1. n \in 1..n
          BY <2>3, <3>2
        <5>2. calibPoints'[n] = Last /\ calibPoints'[n + 1] = pos
          BY <1>1, <2>3, <4>4, <5>1
        <5> QED BY <3>2, <5>2 DEF Turned
      <4>6. Turned(i)' = r * Unit
        BY <4>1, <4>3, <4>4, <4>5, TurnedBy
      <4> QED BY <4>2, <4>6
    <3> QED BY <2>3, <3>1, <3>2
  <2> QED BY <1>2, <2>5, <2>6, <2>7 DEF EvenInv
<1> QED BY <1>1, <1>3, <1>4 DEF Resume

LEMMA EvenCommand ==
  ASSUME ~CalibWhileMoving, ~CalibDisabled, AllInv, EvenInv, RCommand, PlantType'
  PROVE  EvenInv'
<1>1. UNCHANGED <<pos, unread>>
  BY DEF RCommand
<1>2. CASE Set
  <2>1. PICK a \in Targets, d \in Directions, s \in Speeds :
          IgnoreMove(s) \/ StartMove(a, d, s)
    BY <1>2 DEF Set
  <2>2. CASE IgnoreMove(s)
    <3>1. UNCHANGED <<onCalibration, enable, loopPc, step, calibPoints, azimuth>>
      BY <2>2 DEF IgnoreMove, flags, calib, compass
    <3>2. HeadingIsFresh'
      BY <1>1, <3>1 DEF EvenInv, HeadingIsFresh
    <3> QED BY <1>1, <3>1, <3>2, EvenKept
  <2>3. CASE StartMove(a, d, s)
    <3>1. ~onCalibration' /\ azimuth' = azimuth
      BY <2>3 DEF StartMove, MoveAllowed, compass
    <3>2. HeadingIsFresh'
      BY <1>1, <3>1 DEF EvenInv, HeadingIsFresh
    <3> QED BY <3>1, <3>2, EvenIdle
  <2> QED BY <2>1, <2>2, <2>3
<1>3. CASE Calib /\ enable
  <2>1. /\ calibPoints' = FreshPoints /\ step' = RunCalibStep(StopPWM(step))
        /\ UNCHANGED <<enable, azimuth>>
    BY <1>3 DEF Calib
  <2>2. StopPWM(step) \in Pin
    BY StopPWMType, TypeFacts
  <2>3. CountsDown'
    BY <2>1, <2>2, RunCalibStepFields DEF CountsDown
  <2>4. Len(calibPoints') = 1
    BY <2>1 DEF FreshPoints
  <2>5. SinceLast' /\ PointsAlmostEven'
    BY <2>4 DEF SinceLast, PointsAlmostEven
  <2>6. MotorIsOn' /\ HeadingIsFresh'
    BY <1>1, <1>3, <2>1 DEF EvenInv, MotorIsOn, HeadingIsFresh
  <2> QED BY <2>3, <2>5, <2>6 DEF EvenInv
<1>4. CASE Ctl /\ ~onCalibration
  <2>1. ~onCalibration' /\ azimuth' = azimuth
    BY <1>4 DEF Ctl, flags, compass
  <2>2. HeadingIsFresh'
    BY <1>1, <2>1 DEF EvenInv, HeadingIsFresh
  <2> QED BY <2>1, <2>2, EvenIdle
<1> QED BY <1>2, <1>3, <1>4 DEF RCommand

LEMMA EvenPoll ==
  ASSUME AllInv, EvenInv, RPoll, PlantType'
  PROVE  EvenInv'
<1>1. timer /\ UNCHANGED <<pos, unread, onCalibration, azimuth>>
  BY DEF RPoll, Poll, PollNear, PollSlowDown, PollArrived, PollStays, flags,
     compass, vars
<1>2. ~onCalibration'
  BY <1>1 DEF AllInv, JobInv, OneJob
<1>3. HeadingIsFresh'
  BY <1>1 DEF EvenInv, HeadingIsFresh
<1> QED BY <1>2, <1>3, EvenIdle

LEMMA EvenHeading ==
  ASSUME EvenInv, RHeading, PlantType'
  PROVE  EvenInv'
<1>1. HeadingIsFresh'
  <2>1. PICK steps \in 0..unread : azimuth' = Behind(steps) /\ unread' = steps
    BY DEF RHeading
  <2>2. pos' = pos /\ pos \in 0..359
    BY DEF RHeading, PlantType
  <2>3. Behind(0) = pos
    <3>1. 0 * Unit = 0 /\ pos % 360 = pos /\ (pos + 360) % 360 = pos
      BY <2>2, RotorAssumption
    <3> QED BY <2>2, <3>1 DEF Behind
  <2> QED BY <2>1, <2>2, <2>3 DEF HeadingIsFresh
<1>2. UNCHANGED <<pos, onCalibration, enable, loopPc, step, calibPoints>>
  BY DEF RHeading, Heading, flags, calib
<1> QED BY <1>1, <1>2, EvenKept

LEMMA EvenHolds ==
  ASSUME ~CalibWhileMoving, ~CalibDisabled, LessThanATurn
  PROVE  RSpec => []EvenInv
<1>1. AllInv /\ PlantType' /\ EvenInv /\ [RNext]_rvars => EvenInv'
  <2> SUFFICES ASSUME AllInv, PlantType', EvenInv, [RNext]_rvars
               PROVE  EvenInv'
    OBVIOUS
  <2>1. CASE UNCHANGED rvars
    <3>1. UNCHANGED <<pos, unread, azimuth, onCalibration, enable, loopPc, step,
                      calibPoints>>
      BY <2>1 DEF rvars, vars, plant, flags, calib, compass
    <3>2. HeadingIsFresh'
      BY <3>1 DEF EvenInv, HeadingIsFresh
    <3> QED BY <3>1, <3>2, EvenKept
  <2> QED BY <2>1, EvenTick, EvenSeriesEnd, EvenResume, EvenCommand, EvenPoll,
          EvenHeading
          DEF RNext
<1> QED BY <1>1, EvenInit, PlantHolds, RotorIsDriver, JobInvHolds, PTL DEF RSpec

(* Every two points of a calibration are SeriesPulses motor steps apart, or *)
(* one less, if the motor stays enabled and no move is disturbed.           *)
THEOREM PointsAreAlmostEven ==
  ASSUME ~CalibWhileMoving, ~CalibDisabled, LessThanATurn
  PROVE  RSpec => []PointsAlmostEven
<1>1. EvenInv => PointsAlmostEven
  BY DEF EvenInv
<1> QED BY <1>1, EvenHolds, PTL

--------------------------------------------------------------------------------
(* One pin by itself, under any order of calls, callbacks and expiries,    *)
(* for every set of pulse counts and whatever the constructor left in       *)
(* pulseCnt.                                                                *)

(* What the methods leave in a pin.                                         *)

LEMMA PinUpdateTimer ==
  ASSUME NEW p \in Pin, NEW n \in Int, NEW b \in BOOLEAN, NEW cb \in Callbacks
  PROVE  [p EXCEPT !.pulseCnt = n, !.busy = b, !.timer = cb] \in Pin
BY DEF Pin

LEMMA RunPWMStarts ==
  ASSUME NEW p \in Pin, NEW d, CanRun(p, d)
  PROVE  /\ RunPWM(p, 0, d) \in Pin /\ RunPWM(p, 0, d).busy
         /\ RunPWM(p, 0, d).timer = "runPWMCb" /\ RunPWM(p, 0, d).pulseCnt = -1
         /\ RunPWM(p, 0, d).prevVal = p.prevVal
<1>1. "runPWMCb" \in Callbacks /\ TRUE \in BOOLEAN /\ -1 \in Int /\ 0 \in Int
  BY DEF Callbacks
<1>2. RunPWM(p, 0, d) = [p EXCEPT !.pulseCnt = -1, !.busy = TRUE, !.period = 0,
                                  !.timer = "runPWMCb"]
  BY DEF RunPWM
<1>3. [p EXCEPT !.pulseCnt = -1, !.busy = TRUE, !.period = 0,
                !.timer = "runPWMCb"] \in Pin
  BY <1>1, PinUpdate
<1> QED BY <1>2, <1>3 DEF Pin

LEMMA RunPulsesStarts ==
  ASSUME NEW p \in Pin, NEW n \in Nat \ {0}
  PROVE  /\ RunPulses(p, 0, n) \in Pin
         /\ RunPulses(p, 0, n).pulseCnt = 2 * n
         /\ RunPulses(p, 0, n).prevVal = p.prevVal
         /\ CanRun(p, 50) => /\ RunPulses(p, 0, n).busy
                             /\ RunPulses(p, 0, n).timer = "runPWMCb"
         /\ ~CanRun(p, 50) => /\ RunPulses(p, 0, n).busy = p.busy
                              /\ RunPulses(p, 0, n).timer = p.timer
<1> DEFINE r == RunPWM(p, 0, 50)
<1>1. RunPulses(p, 0, n) = [r EXCEPT !.pulseCnt = 2 * n]
  BY DEF RunPulses
<1>2. CASE CanRun(p, 50)
  <2>1. r \in Pin /\ r.busy /\ r.timer = "runPWMCb" /\ r.prevVal = p.prevVal
    BY <1>2, RunPWMStarts
  <2> HIDE DEF r
  <2> QED BY <1>1, <1>2, <2>1 DEF Pin
<1>3. CASE ~CanRun(p, 50)
  <2>1. r = p
    BY <1>3 DEF RunPWM
  <2> HIDE DEF r
  <2> QED BY <1>1, <1>3, <2>1 DEF Pin
<1> QED BY <1>2, <1>3

(* A tick that is not the last of a series. *)
LEMMA TickGoesOn ==
  ASSUME NEW p \in Pin, p.busy, ~LastTick(p)
  PROVE  /\ RunPWMCb(p) \in Pin /\ RunPWMCb(p).busy
         /\ RunPWMCb(p).timer = "runPWMCb"
         /\ RunPWMCb(p).prevVal <=> ~p.prevVal
         /\ RunPWMCb(p).pulseCnt = IF p.pulseCnt = -1 THEN -1 ELSE p.pulseCnt - 1
<1> DEFINE q == SetVal(p, ~p.prevVal)
           n == IF p.pulseCnt = -1 THEN -1 ELSE p.pulseCnt - 1
<1>1. q \in Pin /\ q.busy /\ q.pulseCnt = p.pulseCnt /\ (q.prevVal <=> ~p.prevVal)
  BY DEF SetVal, Pin
<1>2. RunPWMCb(p) = [q EXCEPT !.pulseCnt = IF @ = -1 THEN @ ELSE @ - 1,
                              !.timer = "runPWMCb"]
  BY DEF RunPWMCb
<1>3. n \in Int /\ "runPWMCb" \in Callbacks
  BY DEF Pin, Callbacks
<1> HIDE DEF q
<1>4. RunPWMCb(p) = [q EXCEPT !.pulseCnt = n, !.timer = "runPWMCb"]
  BY <1>1, <1>2
<1> HIDE DEF n
<1>5. \A m \in Int, cb \in Callbacks : [q EXCEPT !.pulseCnt = m, !.timer = cb] \in Pin
  BY <1>1 DEF Pin
<1>6. RunPWMCb(p) \in Pin
  BY <1>3, <1>4, <1>5
<1>7. RunPWMCb(p).busy = q.busy /\ RunPWMCb(p).timer = "runPWMCb"
      /\ RunPWMCb(p).prevVal = q.prevVal /\ RunPWMCb(p).pulseCnt = n
  BY <1>1, <1>4 DEF Pin
<1> QED BY <1>1, <1>6, <1>7 DEF n

(* The last tick frees the pin. *)
LEMMA LastTickEnds ==
  ASSUME NEW p \in Pin, LastTick(p)
  PROVE  /\ RunPWMCb(p) \in Pin /\ ~RunPWMCb(p).busy
         /\ RunPWMCb(p).timer = "off" /\ RunPWMCb(p).prevVal = p.prevVal
<1>1. "off" \in Callbacks /\ -1 \in Int /\ FALSE \in BOOLEAN
  BY DEF Callbacks
<1>2. RunPWMCb(p) = [p EXCEPT !.pulseCnt = -1, !.busy = FALSE, !.timer = "off"]
  BY DEF RunPWMCb, LastTick
<1>3. [p EXCEPT !.pulseCnt = -1, !.busy = FALSE, !.timer = "off"] \in Pin
  BY <1>1, PinUpdateTimer
<1> QED BY <1>2, <1>3 DEF Pin

(* The other methods. *)
LEMMA StopPWMStops ==
  ASSUME NEW p \in Pin
  PROVE  /\ StopPWM(p) \in Pin /\ ~StopPWM(p).busy
         /\ StopPWM(p).timer = IF p.busy THEN "off" ELSE p.timer
         /\ StopPWM(p).pulseCnt = p.pulseCnt /\ StopPWM(p).prevVal = p.prevVal
<1>1. CASE p.busy
  <2>1. StopPWM(p) = [p EXCEPT !.busy = FALSE, !.timer = "off"]
    BY <1>1 DEF StopPWM
  <2> QED BY <1>1, <2>1 DEF Pin, Callbacks
<1>2. CASE ~p.busy
  BY <1>2 DEF StopPWM
<1> QED BY <1>1, <1>2

LEMMA SetOnTimeFields ==
  ASSUME NEW p \in Pin, NEW v \in BOOLEAN, ~p.busy
  PROVE  /\ SetOnTime(p, v) \in Pin /\ SetOnTime(p, v).busy
         /\ SetOnTime(p, v).timer = "setOnTimeCb"
<1>1. SetVal(p, v) \in Pin
  BY DEF SetVal, Pin
<1>2. SetOnTime(p, v) = [SetVal(p, v) EXCEPT !.busy = TRUE, !.timer = "setOnTimeCb"]
  BY DEF SetOnTime
<1> QED BY <1>1, <1>2 DEF Pin, Callbacks

LEMMA SetOnTimeCbFields ==
  ASSUME NEW p \in Pin
  PROVE  /\ SetOnTimeCb(p) \in Pin /\ ~SetOnTimeCb(p).busy
         /\ SetOnTimeCb(p).timer = "off"
<1>1. SetVal(p, ~p.prevVal) \in Pin
  BY DEF SetVal, Pin
<1>2. SetOnTimeCb(p) = [SetVal(p, ~p.prevVal) EXCEPT !.busy = FALSE, !.timer = "off"]
  BY DEF SetOnTimeCb
<1> QED BY <1>1, <1>2 DEF Pin, Callbacks

--------------------------------------------------------------------------------
(* The inductive invariant.  Besides what is to be shown it says how the    *)
(* edges of a running series alternate: the level says whether the last one *)
(* rose, so rises and falls differ by one at most.                          *)
Alternation ==
  series.state = "on" =>
    series.rises - series.falls \in (IF pin.prevVal THEN 0..1 ELSE (-1)..0)

SeriesInv ==
  /\ PinTypeOK
  /\ BusyIffArmed
  /\ CounterMatchesEdges
  /\ Alternation
  /\ EndedSeriesIsComplete
  /\ EndlessGoesOn

(* What a history is after it was set anew. *)
LEMMA HistoryFields ==
  ASSUME NEW n \in Series
  PROVE  /\ [NoSeries EXCEPT !.state = "on", !.wanted = n] \in Histories
         /\ [NoSeries EXCEPT !.state = "on", !.wanted = n].state = "on"
         /\ [NoSeries EXCEPT !.state = "on", !.wanted = n].wanted = n
         /\ [NoSeries EXCEPT !.state = "on", !.wanted = n].rises = 0
         /\ [NoSeries EXCEPT !.state = "on", !.wanted = n].falls = 0
BY DEF NoSeries, Histories

LEMMA NoHistory == NoSeries \in Histories /\ NoSeries.state = "none"
                   /\ [NoSeries EXCEPT !.state = "endless"] \in Histories
                   /\ [NoSeries EXCEPT !.state = "endless"].state = "endless"
BY DEF NoSeries, Histories

LEMMA HistoryCounts ==
  ASSUME NEW h \in Histories
  PROVE  h.rises \in Nat /\ h.falls \in Nat /\ h.wanted \in Nat
<1>1. h.rises \in Nat /\ h.falls \in Nat /\ h.wanted \in {0} \cup Series
  BY DEF Histories
<1>2. \A n \in {0} \cup Series : n \in Nat
  <2> SUFFICES ASSUME NEW n \in {0} \cup Series PROVE n \in Nat
    OBVIOUS
  <2>1. CASE n = 0
    BY <2>1
  <2>2. CASE n \in Series
    BY <2>2, SeriesAssumption
  <2> QED BY <2>1, <2>2
<1> QED BY <1>1, <1>2, Zenon

(* A series that starts on a free pin. *)
LEMMA FreshSeries ==
  ASSUME NEW n \in Series, NEW p \in Pin, CanRun(p, 50),
         pin' = RunPulses(p, 0, n),
         series' = [NoSeries EXCEPT !.state = "on", !.wanted = n]
  PROVE  SeriesInv'
<1>1. n \in Nat \ {0}
  BY SeriesAssumption
<1>2. /\ pin' \in Pin /\ pin'.pulseCnt = 2 * n /\ pin'.busy
      /\ pin'.timer = "runPWMCb"
  BY <1>1, RunPulsesStarts
<1>3. /\ series' \in Histories /\ series'.state = "on" /\ series'.wanted = n
      /\ series'.rises = 0 /\ series'.falls = 0
  BY HistoryFields
<1>4. 2 * n > 0 /\ 2 * n >= -1 /\ 0 + 0 + 2 * n = 2 * n
  BY <1>1
<1>5. PinTypeOK' /\ BusyIffArmed'
  BY <1>2, <1>3, <1>4 DEF PinTypeOK, BusyIffArmed
<1>6. CounterMatchesEdges'
  BY <1>2, <1>3, <1>4 DEF CounterMatchesEdges
<1>7. Alternation' /\ EndedSeriesIsComplete' /\ EndlessGoesOn'
  BY <1>3 DEF Alternation, EndedSeriesIsComplete, EndlessGoesOn
<1> QED BY <1>5, <1>6, <1>7 DEF SeriesInv

(* Steps after which no series is known. *)
LEMMA Forgotten ==
  ASSUME series' = NoSeries, pin' \in Pin, BusyIffArmed',
         pin'.timer = "runPWMCb" => pin'.pulseCnt >= -1
  PROVE  SeriesInv'
BY NoHistory DEF SeriesInv, PinTypeOK, CounterMatchesEdges, Alternation,
                 EndedSeriesIsComplete, EndlessGoesOn

LEMMA SeriesInvInit == PinInit => SeriesInv
<1> SUFFICES ASSUME NEW n \in Garbage, pin = NewPin(n, 0), series = NoSeries
             PROVE  SeriesInv
  BY DEF PinInit
<1>1. n \in Int
  BY SeriesAssumption
<1>2. pin \in Pin /\ ~pin.busy /\ pin.timer = "off"
  BY <1>1 DEF NewPin, Pin, Callbacks
<1> QED BY <1>2, NoHistory
        DEF SeriesInv, PinTypeOK, BusyIffArmed, CounterMatchesEdges, Alternation,
            EndedSeriesIsComplete, EndlessGoesOn

LEMMA SeriesInvRunPWM == SeriesInv /\ CallRunPWM => SeriesInv'
<1> SUFFICES ASSUME SeriesInv, NEW duty \in {-1, 50, 101},
                    pin' = RunPWM(pin, 0, duty),
                    series' = IF CanRun(pin, duty)
                              THEN [NoSeries EXCEPT !.state = "endless"]
                              ELSE series
             PROVE  SeriesInv'
  BY DEF CallRunPWM
<1>1. CASE CanRun(pin, duty)
  <2>1. pin' \in Pin /\ pin'.busy /\ pin'.timer = "runPWMCb" /\ pin'.pulseCnt = -1
    BY <1>1, RunPWMStarts DEF SeriesInv, PinTypeOK
  <2>2. series' \in Histories /\ series'.state = "endless"
    BY <1>1, NoHistory
  <2> QED BY <2>1, <2>2
          DEF SeriesInv, PinTypeOK, BusyIffArmed, CounterMatchesEdges, Alternation,
              EndedSeriesIsComplete, EndlessGoesOn
<1>2. CASE ~CanRun(pin, duty)
  <2>1. pin' = pin /\ series' = series
    BY <1>2 DEF RunPWM
  <2> QED BY <2>1
          DEF SeriesInv, PinTypeOK, BusyIffArmed, CounterMatchesEdges, Alternation,
              EndedSeriesIsComplete, EndlessGoesOn
<1> QED BY <1>1, <1>2

LEMMA SeriesInvRunPulses == SeriesInv /\ CallRunPulses => SeriesInv'
<1> SUFFICES ASSUME SeriesInv, NEW n \in Series,
                    pin' = RunPulses(pin, 0, n),
                    series' = IF CanRun(pin, 50)
                              THEN [NoSeries EXCEPT !.state = "on", !.wanted = n]
                              ELSE NoSeries
             PROVE  SeriesInv'
  BY DEF CallRunPulses
<1>1. CASE CanRun(pin, 50)
  BY <1>1, FreshSeries DEF SeriesInv, PinTypeOK
<1>2. CASE ~CanRun(pin, 50)
  <2>1. n \in Nat \ {0}
    BY SeriesAssumption
  <2>2. /\ pin' \in Pin /\ pin'.pulseCnt = 2 * n
        /\ pin'.busy = pin.busy /\ pin'.timer = pin.timer
    BY <1>2, <2>1, RunPulsesStarts DEF SeriesInv, PinTypeOK
  <2>3. 2 * n >= -1
    BY <2>1
  <2>4. BusyIffArmed'
    BY <2>2 DEF SeriesInv, BusyIffArmed
  <2> QED BY <1>2, <2>2, <2>3, <2>4, Forgotten
<1> QED BY <1>1, <1>2

LEMMA SeriesInvStopPWM == SeriesInv /\ CallStopPWM => SeriesInv'
<1> SUFFICES ASSUME SeriesInv, pin' = StopPWM(pin),
                    series' = IF pin.busy THEN NoSeries ELSE series
             PROVE  SeriesInv'
  BY DEF CallStopPWM
<1>1. CASE pin.busy
  <2>1. pin' \in Pin /\ ~pin'.busy /\ pin'.timer = "off"
    BY <1>1, StopPWMStops DEF SeriesInv, PinTypeOK
  <2> QED BY <1>1, <2>1, Forgotten DEF BusyIffArmed
<1>2. CASE ~pin.busy
  <2>1. pin' = pin /\ series' = series
    BY <1>2 DEF StopPWM
  <2> QED BY <2>1
          DEF SeriesInv, PinTypeOK, BusyIffArmed, CounterMatchesEdges, Alternation,
              EndedSeriesIsComplete, EndlessGoesOn
<1> QED BY <1>1, <1>2

LEMMA SeriesInvSetOnTime == SeriesInv /\ CallSetOnTime => SeriesInv'
<1> SUFFICES ASSUME SeriesInv, NEW v \in BOOLEAN, pin' = SetOnTime(pin, v),
                    series' = IF pin.busy THEN series ELSE NoSeries
             PROVE  SeriesInv'
  BY DEF CallSetOnTime
<1>1. CASE pin.busy
  <2>1. pin' = pin /\ series' = series
    BY <1>1 DEF SetOnTime
  <2> QED BY <2>1
          DEF SeriesInv, PinTypeOK, BusyIffArmed, CounterMatchesEdges, Alternation,
              EndedSeriesIsComplete, EndlessGoesOn
<1>2. CASE ~pin.busy
  <2>1. pin' \in Pin /\ pin'.busy /\ pin'.timer = "setOnTimeCb"
    BY <1>2, SetOnTimeFields DEF SeriesInv, PinTypeOK
  <2> QED BY <1>2, <2>1, Forgotten DEF BusyIffArmed
<1> QED BY <1>1, <1>2

LEMMA SeriesInvSetVal == SeriesInv /\ CallSetVal => SeriesInv'
<1> SUFFICES ASSUME SeriesInv, NEW v \in BOOLEAN, pin' = SetVal(pin, v),
                    series' = IF series.state = "endless" THEN series ELSE NoSeries
             PROVE  SeriesInv'
  BY DEF CallSetVal
<1>1. /\ pin' \in Pin /\ pin'.busy = pin.busy /\ pin'.timer = pin.timer
      /\ pin'.pulseCnt = pin.pulseCnt
  BY DEF SetVal, Pin, SeriesInv, PinTypeOK
<1>2. BusyIffArmed' /\ (pin'.timer = "runPWMCb" => pin'.pulseCnt >= -1)
  BY <1>1 DEF SeriesInv, PinTypeOK, BusyIffArmed
<1>3. CASE series.state = "endless"
  BY <1>1, <1>2, <1>3 DEF SeriesInv, PinTypeOK, CounterMatchesEdges, Alternation,
                          EndedSeriesIsComplete, EndlessGoesOn
<1>4. CASE series.state # "endless"
  BY <1>1, <1>2, <1>4, Forgotten
<1> QED BY <1>3, <1>4

(* One more edge: the counter goes down as the history goes up. *)
LEMMA SeriesInvTick == SeriesInv /\ PwmTick => SeriesInv'
<1> SUFFICES ASSUME SeriesInv, PwmTick PROVE SeriesInv'
  OBVIOUS
<1>1. pin.busy /\ pin.timer = "runPWMCb" /\ ~LastTick(pin) /\ pin \in Pin
      /\ pin' = RunPWMCb(pin)
  BY DEF PwmTick, SeriesInv, BusyIffArmed, PinTypeOK
<1>2. /\ pin' \in Pin /\ pin'.busy /\ pin'.timer = "runPWMCb"
      /\ (pin'.prevVal <=> ~pin.prevVal)
      /\ pin'.pulseCnt = IF pin.pulseCnt = -1 THEN -1 ELSE pin.pulseCnt - 1
  BY <1>1, TickGoesOn
<1>3. pin.pulseCnt \in Int /\ pin.pulseCnt >= -1 /\ pin.pulseCnt # 1
  BY <1>1 DEF SeriesInv, PinTypeOK, Pin, LastTick
<1>4. CASE series.state # "on"
  <2>1. series' = series
    BY <1>4 DEF PwmTick
  <2>2. pin'.pulseCnt >= -1
    BY <1>2, <1>3
  <2> QED BY <1>2, <1>4, <2>1, <2>2
          DEF SeriesInv, PinTypeOK, BusyIffArmed, CounterMatchesEdges, Alternation,
              EndedSeriesIsComplete, EndlessGoesOn
<1>5. CASE series.state = "on"
  <2>1. /\ pin.pulseCnt > 0 /\ series \in Histories
        /\ series.rises + series.falls + pin.pulseCnt = 2 * series.wanted
    BY <1>5 DEF SeriesInv, CounterMatchesEdges, PinTypeOK
  <2>2. pin'.pulseCnt = pin.pulseCnt - 1 /\ pin'.pulseCnt > 0
    BY <1>2, <1>3, <2>1
  <2>3. series.rises \in Nat /\ series.falls \in Nat /\ series.wanted \in Nat
    BY <2>1, HistoryCounts
  <2>4. CASE pin'.prevVal
    <3>1. series' = [series EXCEPT !.rises = @ + 1]
      BY <1>5, <2>4 DEF PwmTick
    <3>2. /\ series' \in Histories /\ series'.state = "on"
          /\ series'.rises = series.rises + 1 /\ series'.falls = series.falls
          /\ series'.wanted = series.wanted
      BY <1>5, <2>1, <2>3, <3>1 DEF Histories
    <3>3. series.rises - series.falls \in (-1)..0
      BY <1>2, <1>5, <2>4 DEF SeriesInv, Alternation
    <3>4. series'.rises - series'.falls \in 0..1
      BY <2>3, <3>2, <3>3
    <3>5. series'.rises + series'.falls + pin'.pulseCnt = 2 * series'.wanted
      BY <1>3, <2>1, <2>2, <2>3, <3>2
    <3>6. PinTypeOK' /\ BusyIffArmed'
      <4>1. pin'.pulseCnt >= -1
        BY <1>3, <2>2
      <4> QED BY <1>2, <3>2, <4>1 DEF PinTypeOK, BusyIffArmed
    <3>7. CounterMatchesEdges'
      BY <1>2, <2>2, <3>2, <3>5 DEF CounterMatchesEdges
    <3>8. Alternation' /\ EndedSeriesIsComplete' /\ EndlessGoesOn'
      BY <2>4, <3>2, <3>4 DEF Alternation, EndedSeriesIsComplete, EndlessGoesOn
    <3> QED BY <3>6, <3>7, <3>8 DEF SeriesInv
  <2>5. CASE ~pin'.prevVal
    <3>1. series' = [series EXCEPT !.falls = @ + 1]
      BY <1>5, <2>5 DEF PwmTick
    <3>2. /\ series' \in Histories /\ series'.state = "on"
          /\ series'.rises = series.rises /\ series'.falls = series.falls + 1
          /\ series'.wanted = series.wanted
      BY <1>5, <2>1, <2>3, <3>1 DEF Histories
    <3>3. series.rises - series.falls \in 0..1
      BY <1>2, <1>5, <2>5 DEF SeriesInv, Alternation
    <3>4. series'.rises - series'.falls \in (-1)..0
      BY <2>3, <3>2, <3>3
    <3>5. series'.rises + series'.falls + pin'.pulseCnt = 2 * series'.wanted
      BY <1>3, <2>1, <2>2, <2>3, <3>2
    <3>6. PinTypeOK' /\ BusyIffArmed'
      <4>1. pin'.pulseCnt >= -1
        BY <1>3, <2>2
      <4> QED BY <1>2, <3>2, <4>1 DEF PinTypeOK, BusyIffArmed
    <3>7. CounterMatchesEdges'
      BY <1>2, <2>2, <3>2, <3>5 DEF CounterMatchesEdges
    <3>8. Alternation' /\ EndedSeriesIsComplete' /\ EndlessGoesOn'
      BY <2>5, <3>2, <3>4 DEF Alternation, EndedSeriesIsComplete, EndlessGoesOn
    <3> QED BY <3>6, <3>7, <3>8 DEF SeriesInv
  <2> QED BY <2>4, <2>5
<1> QED BY <1>4, <1>5

(* The end of a series: the odd number of edges forbids as many rises as    *)
(* falls.                                                                   *)
LEMMA SeriesInvEnd == SeriesInv /\ PwmEnd => SeriesInv'
<1> SUFFICES ASSUME SeriesInv, PwmEnd PROVE SeriesInv'
  OBVIOUS
<1>1. pin \in Pin /\ pin.timer = "runPWMCb" /\ LastTick(pin) /\ pin.pulseCnt = 1
  BY DEF PwmEnd, SeriesInv, PinTypeOK, LastTick
<1> DEFINE p == RunPWMCb(pin)
<1>2. p \in Pin /\ ~p.busy /\ p.timer = "off"
  BY <1>1, LastTickEnds
<1>3. CASE \E n \in Series :
             /\ pin' = RunPulses(p, 0, n)
             /\ series' = [NoSeries EXCEPT !.state = "on", !.wanted = n]
  <2>1. CanRun(p, 50)
    BY <1>2 DEF CanRun
  <2> HIDE DEF p
  <2> QED BY <1>2, <1>3, <2>1, FreshSeries
<1>4. CASE /\ pin' = p
           /\ series' = IF series.state = "on"
                        THEN [series EXCEPT !.state = "ended"]
                        ELSE series
  <2>1. series.state # "endless"
    BY <1>1 DEF SeriesInv, EndlessGoesOn
  <2>2. pin' \in Pin /\ ~pin'.busy /\ pin'.timer = "off"
    BY <1>2, <1>4
  <2>3. CASE series.state # "on"
    BY <1>4, <2>1, <2>2, <2>3
       DEF SeriesInv, PinTypeOK, BusyIffArmed, CounterMatchesEdges, Alternation,
           EndedSeriesIsComplete, EndlessGoesOn
  <2>4. CASE series.state = "on"
    <3>1. series \in Histories /\ series' = [series EXCEPT !.state = "ended"]
      BY <1>4, <2>4 DEF SeriesInv, PinTypeOK
    <3>2. /\ series' \in Histories /\ series'.state = "ended"
          /\ series'.rises = series.rises /\ series'.falls = series.falls
          /\ series'.wanted = series.wanted
      BY <3>1 DEF Histories
    <3>3. series.rises \in Nat /\ series.falls \in Nat /\ series.wanted \in Nat
      BY <3>1, HistoryCounts
    <3>4. series.rises + series.falls + 1 = 2 * series.wanted
      BY <1>1, <2>4 DEF SeriesInv, CounterMatchesEdges
    <3>5. series.rises - series.falls \in (-1)..1
      <4>1. CASE pin.prevVal
        BY <2>4, <3>3, <4>1 DEF SeriesInv, Alternation
      <4>2. CASE ~pin.prevVal
        BY <2>4, <3>3, <4>2 DEF SeriesInv, Alternation
      <4> QED BY <4>1, <4>2
    <3>6. series'.rises - series'.falls \in {-1, 1}
      BY <3>2, <3>3, <3>4, <3>5
    <3>7. series'.rises + series'.falls = 2 * series'.wanted - 1
      BY <3>2, <3>3, <3>4
    <3> QED BY <2>2, <3>2, <3>6, <3>7
            DEF SeriesInv, PinTypeOK, BusyIffArmed, CounterMatchesEdges, Alternation,
                EndedSeriesIsComplete, EndlessGoesOn
  <2> QED BY <2>3, <2>4
<1> QED BY <1>3, <1>4 DEF PwmEnd

LEMMA SeriesInvOnTime == SeriesInv /\ OnTimeExpired => SeriesInv'
<1> SUFFICES ASSUME SeriesInv, OnTimeExpired PROVE SeriesInv'
  OBVIOUS
<1>1. pin' \in Pin /\ ~pin'.busy /\ pin'.timer = "off" /\ series' = series
      /\ pin.timer = "setOnTimeCb"
  BY SetOnTimeCbFields DEF OnTimeExpired, SeriesInv, PinTypeOK
<1>2. series.state # "on" /\ series.state # "endless"
  BY <1>1 DEF SeriesInv, CounterMatchesEdges, EndlessGoesOn
<1> QED BY <1>1, <1>2
        DEF SeriesInv, PinTypeOK, BusyIffArmed, CounterMatchesEdges, Alternation,
            EndedSeriesIsComplete, EndlessGoesOn

LEMMA SeriesInvHolds == PinSpec => []SeriesInv
<1>1. SeriesInv /\ [PinNext]_pinVars => SeriesInv'
  <2> SUFFICES ASSUME SeriesInv, [PinNext]_pinVars PROVE SeriesInv'
    OBVIOUS
  <2>1. CASE UNCHANGED pinVars
    BY <2>1 DEF pinVars, SeriesInv, PinTypeOK, BusyIffArmed, CounterMatchesEdges,
                Alternation, EndedSeriesIsComplete, EndlessGoesOn
  <2> QED BY <2>1, SeriesInvRunPWM, SeriesInvRunPulses, SeriesInvStopPWM, SeriesInvSetOnTime,
             SeriesInvSetVal, SeriesInvTick, SeriesInvEnd, SeriesInvOnTime
          DEF PinNext, Call, Timer
<1> QED BY <1>1, SeriesInvInit, PTL DEF PinSpec

--------------------------------------------------------------------------------
(* A pin is busy exactly while a callback of its is to come. *)
THEOREM BusyMeansArmed == PinSpec => []BusyIffArmed
<1>1. SeriesInv => BusyIffArmed
  BY DEF SeriesInv
<1> QED BY <1>1, SeriesInvHolds, PTL

(* A series of n pulses ends after 2n - 1 alternating edges, for every n.   *)
THEOREM SeriesAreComplete == PinSpec => []EndedSeriesIsComplete
<1>1. SeriesInv => EndedSeriesIsComplete
  BY DEF SeriesInv
<1> QED BY <1>1, SeriesInvHolds, PTL

(* The edges written and the counter of a running series add up.            *)
THEOREM CounterIsRight == PinSpec => []CounterMatchesEdges
<1>1. SeriesInv => CounterMatchesEdges
  BY DEF SeriesInv
<1> QED BY <1>1, SeriesInvHolds, PTL

(* A PWM is not ended by a count that an earlier series left.               *)
THEOREM PwmIsEndless == PinSpec => []EndlessGoesOn
<1>1. SeriesInv => EndlessGoesOn
  BY DEF SeriesInv
<1> QED BY <1>1, SeriesInvHolds, PTL

================================================================================
