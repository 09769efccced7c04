-------------------------------- MODULE StepDrv --------------------------------
(***************************************************************************)
(* The driver of the pointer (class StepDrv, src/stepdrv.cpp) with the     *)
(* three output pins it owns, the two timers that call it back, the        *)
(* commands RoutePrtDrv::onUserCmd passes to it and the events it passes   *)
(* to RoutePrtDrv::onStepperEvent.                                         *)
(*                                                                         *)
(* All handlers run on the event loop's thread, one after another; each is *)
(* one step, except onStepCb, which sleeps in the middle (loopPc).  The    *)
(* compass thread is the only other actor: it may replace the heading      *)
(* between any two steps and during that sleep.                            *)
(***************************************************************************)
EXTENDS Azimuth, Pwm, Sequences

CONSTANTS
  Headings,          \* whole degrees the compass may report
  Targets,           \* azimuths a command may ask for
  Speeds,            \* speeds a command may ask for, degrees per second
  CalibPoints,       \* CALIBRATION_POINTS, 8 in the code
  SeriesPulses,      \* pulses of one calibration step, 200 in the code
  CalibWhileMoving   \* may a calibration be asked for during a move?

ASSUME StepDrvAssumption ==
  /\ Headings \subseteq 0..360 /\ 0 \in Headings
  /\ Targets \subseteq (IntMin + 1)..IntMax
  /\ Speeds \subseteq Int
  /\ CalibPoints \in 1..359
  /\ SeriesPulses \in Nat \ {0}
  /\ CalibWhileMoving \in BOOLEAN

VARIABLES
  busy, onCalibration, clkWise, destAzimuth, userSpeed, mstate, calibPoints,
  timer,      \* is the position poll timer armed?
  step,       \* the step pin
  dir,        \* level of the direction pin, TRUE is clockwise
  enable,     \* level of the enable pin
  azimuth,    \* CompassDrv::m_azimuth
  useCalib,   \* CompassDrv::m_calib
  table,      \* Calibration::values, empty when there was no file
  loopPc,     \* "poll", or "pause" while onStepCb sleeps
  shown       \* what RoutePrtDrv last told the clients through UserControl

flags == <<busy, onCalibration>>
request == <<clkWise, dir, destAzimuth>>
compass == <<azimuth, useCalib>>
calib == <<calibPoints, table>>
vars == <<flags, request, userSpeed, mstate, calib, timer, step, enable,
          compass, loopPc, shown>>

MovingState == {"Idle", "Running", "AlmostThere", "SlowDown"}

Init ==
  /\ busy = FALSE /\ onCalibration = FALSE
  /\ clkWise = FALSE /\ dir = FALSE /\ destAzimuth = 0
  /\ userSpeed = 0 /\ mstate = "Idle" /\ timer = FALSE
  /\ calibPoints = <<>> /\ table = <<>>
  /\ step = NewPin(-1, 0) /\ enable = TRUE
  /\ azimuth = 0 /\ useCalib = TRUE
  /\ loopPc = "poll"
  /\ shown = [moving |-> FALSE, calibrating |-> FALSE]

--------------------------------------------------------------------------------
(* Parts of the handlers. *)

(* currentPos() against destination(): the degrees left to the target. *)
Left == Pulses(azimuth, destAzimuth, clkWise)

(* stop(): the step pin, and the clients' view, that it leaves behind.      *)
(* Mutant: the pin goes on.                                                *)
StoppedStep_LeftOn == step
StoppedStep == IF busy THEN StopPWM(step) ELSE step
StoppedShown == [shown EXCEPT !.moving = @ /\ ~busy]

(* runCalibStep *)
CalibPeriod == (100000000 * StepTenths) \div (CALIBRATION_SPEED * Divider)
RunCalibStep(p) == RunPulses(p, CalibPeriod, SeriesPulses)

(* onStepCb: calibStep * size >= 359, calibStep being 360 / CalibPoints. *)
(* Mutant: one point early.                                                 *)
LastPoint_OneEarly == 360 * (Len(calibPoints) + 1) >= 359 * CalibPoints
LastPoint == 360 * Len(calibPoints) >= 359 * CalibPoints

(* startCalibration: clear() and the padding. *)
FreshPoints == <<0>>

(* onTimerCb: the step signal of the last approach.                         *)
SlowStep ==
  IF userSpeed > STEPPER_SPEED_SLOW
  THEN RunPWM(StopPWM(step), SpeedToPeriod(STEPPER_SPEED_SLOW), 50) ELSE step

(* move(): refused during a calibration.                                    *)
MoveAllowed == ~onCalibration

(* Calibration::set: the first value closes the circle. *)
CalibrationSet(values) == Append(values, values[1])

--------------------------------------------------------------------------------
(* Commands (onUserCmd). *)

(* move() during a calibration: only the speed is kept. *)
IgnoreMove(s) ==
  /\ ~MoveAllowed
  /\ userSpeed' = s
  /\ UNCHANGED <<flags, request, mstate, calib, timer, step, enable, compass,
                 loopPc, shown>>

(* move(); one that finds the driver busy stops it first.                   *)
StartMove(a, d, s) ==
  LET dest == NormalizeAzimuth(a)
      cw == ChooseClockwise(azimuth, dest, d)
  IN  /\ MoveAllowed
      /\ busy' = TRUE
      /\ destAzimuth' = dest
      /\ clkWise' = cw /\ dir' = cw
      /\ userSpeed' = s
      /\ timer' = TRUE
      /\ step' = RunPWM(StoppedStep, SpeedToPeriod(s), 50)
      /\ mstate' = "Running"
      /\ shown' = [StoppedShown EXCEPT !.moving = TRUE]
      /\ UNCHANGED <<onCalibration, calib, enable, compass, loopPc>>

Set ==
  /\ loopPc = "poll"
  /\ \E a \in Targets, d \in Directions, s \in Speeds :
       IgnoreMove(s) \/ StartMove(a, d, s)

(* startCalibration(), then sendAllCalibration(true).  The code accepts it  *)
(* at any time; CalibWhileMoving = FALSE restricts the users, not the code. *)
Calib ==
  /\ loopPc = "poll"
  /\ CalibWhileMoving \/ mstate = "Idle"
  /\ busy' = TRUE /\ onCalibration' = TRUE
  /\ useCalib' = FALSE
  /\ calibPoints' = FreshPoints
  /\ clkWise' = TRUE /\ dir' = TRUE
  /\ step' = RunCalibStep(StopPWM(step))
  /\ shown' = [shown EXCEPT !.calibrating = TRUE]
  /\ UNCHANGED <<destAzimuth, userSpeed, mstate, table, timer, enable, azimuth,
                 loopPc>>

(* control(); its Sleep(10) comes last, and only the compass runs meanwhile. *)
Ctl ==
  /\ loopPc = "poll"
  /\ enable' \in BOOLEAN
  /\ UNCHANGED <<flags, request, userSpeed, mstate, calib, timer, step, compass,
                 loopPc, shown>>

--------------------------------------------------------------------------------
(* The position poll (onTimerCb): what it finds, and one action per outcome. *)

Near == mstate = "Running" /\ Left < 90
AtSlowPos == mstate = "AlmostThere" /\ Left <= SlowPos(userSpeed)
(* The target is reached, or passed: more than half a turn is left.         *)
Arrived ==
  \/ mstate = "AlmostThere" /\ Left > 180
  \/ mstate = "SlowDown" /\ (Left < STEPPER_SPEED_SLOW \/ Left > 180)

PollNear ==
  /\ loopPc = "poll" /\ timer /\ Near
  /\ mstate' = "AlmostThere"
  /\ UNCHANGED <<flags, request, userSpeed, calib, timer, step, enable, compass,
                 loopPc, shown>>

PollSlowDown ==
  /\ loopPc = "poll" /\ timer /\ AtSlowPos
  /\ mstate' = "SlowDown"
  /\ step' = SlowStep
  /\ UNCHANGED <<flags, request, userSpeed, calib, timer, enable, compass,
                 loopPc, shown>>

PollArrived ==
  /\ loopPc = "poll" /\ timer /\ Arrived
  /\ mstate' = "Idle" /\ userSpeed' = 0 /\ timer' = FALSE
  /\ step' = StoppedStep /\ busy' = FALSE
  /\ shown' = StoppedShown
  /\ UNCHANGED <<onCalibration, request, calib, enable, compass, loopPc>>

(* Nothing to do yet: the handler arms its timer again. *)
PollStays ==
  /\ loopPc = "poll" /\ timer /\ ~Near /\ ~AtSlowPos /\ ~Arrived
  /\ UNCHANGED vars

Poll == PollNear \/ PollSlowDown \/ PollArrived \/ PollStays

--------------------------------------------------------------------------------
(* The step pin's timer, and the calibration it drives. *)

StepTick ==
  /\ loopPc = "poll"
  /\ step.timer = "runPWMCb" /\ ~LastTick(step)
  /\ step' = RunPWMCb(step)
  /\ UNCHANGED <<flags, request, userSpeed, mstate, calib, timer, enable,
                 compass, loopPc, shown>>

(* The last pulse calls onStepCb, which does nothing but in a calibration. *)
SeriesEnd ==
  /\ loopPc = "poll"
  /\ step.timer = "runPWMCb" /\ LastTick(step)
  /\ step' = RunPWMCb(step)
  /\ loopPc' = IF onCalibration THEN "pause" ELSE "poll"
  /\ UNCHANGED <<flags, request, userSpeed, mstate, calib, timer, enable,
                 compass, shown>>

(* onStepCb after its sleep: one more point ... *)
TakePoint ==
  /\ loopPc = "pause" /\ ~LastPoint
  /\ calibPoints' = Append(calibPoints, azimuth)
  /\ step' = RunCalibStep(step)
  /\ loopPc' = "poll"
  /\ UNCHANGED <<flags, request, userSpeed, mstate, table, timer, enable,
                 compass, shown>>

(* ... or the last one, which takes the place of the padding. *)
EndCalibration ==
  /\ loopPc = "pause" /\ LastPoint
  /\ calibPoints' = [calibPoints EXCEPT ![1] = azimuth]
  /\ table' = CalibrationSet(calibPoints')
  /\ useCalib' = TRUE
  /\ busy' = FALSE /\ onCalibration' = FALSE
  /\ shown' = [shown EXCEPT !.calibrating = FALSE]
  /\ loopPc' = "poll"
  /\ UNCHANGED <<request, userSpeed, mstate, timer, step, enable, azimuth>>

StepTimer == StepTick \/ SeriesEnd
Resume == TakePoint \/ EndCalibration

--------------------------------------------------------------------------------
(* The compass thread stores a new heading. *)
Heading ==
  /\ azimuth' \in Headings
  /\ UNCHANGED <<flags, request, userSpeed, mstate, calib, timer, step, enable,
                 useCalib, loopPc, shown>>

Command == Set \/ Calib \/ Ctl
Next == Command \/ Poll \/ StepTimer \/ Resume \/ Heading

Spec == Init /\ [][Next]_vars

(* The loop serves every expired timer, and a sleep ends. *)
Fairness == WF_vars(StepTimer) /\ WF_vars(Resume) /\ WF_vars(Poll)
FairSpec == Spec /\ Fairness

--------------------------------------------------------------------------------
(* Properties that hold whenever commands come. *)

Notices == [moving : BOOLEAN, calibrating : BOOLEAN]

(* Every variable keeps its type; the number of points and the pulse count  *)
(* stay within the bounds of the procedure that owns them.                  *)
TypeOK ==
  /\ busy \in BOOLEAN /\ onCalibration \in BOOLEAN /\ clkWise \in BOOLEAN
  /\ destAzimuth \in 0..360 /\ userSpeed \in Int /\ mstate \in MovingState
  /\ calibPoints \in Seq(Headings) /\ table \in Seq(Headings)
  /\ timer \in BOOLEAN /\ step \in Pin /\ dir \in BOOLEAN /\ enable \in BOOLEAN
  /\ azimuth \in Headings /\ useCalib \in BOOLEAN
  /\ loopPc \in {"poll", "pause"} /\ shown \in Notices

(* The poll timer is armed exactly while the automaton of the movement is   *)
(* out of Idle: a return of onTimerCb that forgets to arm the timer again,  *)
(* or one that arms it after the end, breaks it.                            *)
PollFollowsAutomaton == timer <=> mstate # "Idle"

(* The step pin's busy flag and its timer agree in every state the driver   *)
(* can leave the pin in, so no pin is left refusing to start, or turning    *)
(* with the flag off.                                                       *)
PinAgreesWithTimer ==
  /\ step.busy <=> step.timer = "runPWMCb"
  /\ step.timer # "setOnTimeCb"

(* A counted series runs only for a calibration, never with a count that    *)
(* the end test of runPWMCb has already missed; so onStepCb is always the   *)
(* end of a calibration step.                                               *)
SeriesBelongsToCalibration ==
  step.busy /\ step.pulseCnt # -1 =>
    /\ onCalibration /\ loopPc = "poll"
    /\ step.pulseCnt \in 1..(2 * SeriesPulses)

(* Calibration points are measured on the uncorrected compass and while     *)
(* turning clockwise, whatever a command or a poll did since it started;    *)
(* outside of a calibration the compass is corrected.                       *)
MeasuresRaw ==
  /\ useCalib <=> ~onCalibration
  /\ onCalibration => clkWise /\ dir

(* The table handed to Calibration is one complete sweep: a value per point *)
(* and the first one again, even when a calibration was restarted halfway.  *)
TableIsWhole ==
  table # <<>> => Len(table) = CalibPoints + 1 /\ table[1] = table[Len(table)]

(* While a calibration goes on it has at most CalibPoints points, the       *)
(* padding among them.                                                      *)
PointsBounded == onCalibration => Len(calibPoints) \in 1..CalibPoints

--------------------------------------------------------------------------------
(* Properties of the driver whose users do not calibrate during a move.     *)

(* The motor never turns while the driver believes to be free: nothing      *)
(* would ever stop it.                                                      *)
NoRunaway == step.busy => busy

(* And a driver that believes to be working has its motor turning, but for  *)
(* the pause between two calibration steps: it never waits for an end that  *)
(* nothing can bring.                                                       *)
BusyIsAtWork == busy => step.busy \/ loopPc = "pause"

(* A move and a calibration exclude each other.                             *)
OneJob == ~(timer /\ onCalibration)

(* What the clients were last told is what the driver does: every start is  *)
(* followed by its end, across restarted, refused and overtaken commands.   *)
ClientsKnow ==
  /\ shown.moving <=> mstate # "Idle"
  /\ shown.calibrating <=> onCalibration

(* The motor runs at the speed of the job, and approaches the end of a move *)
(* slowly: a start of the step signal that the pin refused, because the one *)
(* before was not stopped, would leave it at the speed of before, and so    *)
(* would a change of userSpeed by a move that is refused.                   *)
MoveSpeed ==
  IF mstate = "SlowDown" /\ userSpeed > STEPPER_SPEED_SLOW
  THEN STEPPER_SPEED_SLOW ELSE userSpeed
SpeedIsTheJobs ==
  /\ mstate # "Idle" => step.period = SpeedToPeriod(MoveSpeed)
  /\ onCalibration => step.period = CalibPeriod

(* Flags, notices, pin, compass and the job agree, whatever commands come   *)
(* in between: none of the above goes wrong.                                *)
InStep == NoRunaway /\ BusyIsAtWork /\ ClientsKnow /\ SpeedIsTheJobs /\ MeasuresRaw

(* A calibration ends, unless it is started again and again.                *)
CalibrationEnds ==
  []<><<Calib>>_vars \/ (onCalibration ~> ~onCalibration)

================================================================================
