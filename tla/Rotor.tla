--------------------------------- MODULE Rotor ---------------------------------
(***************************************************************************)
(* StepDrv with the pointer it turns: the motor makes one step of Unit     *)
(* degrees on every rising edge of the step pin, in the direction of the   *)
(* direction pin, while the enable pin is set; the compass reads the       *)
(* pointer.  Motor, pointer and clock are outside src/ and idealized:      *)
(* no step is lost, the compass makes no error but to be late.             *)
(*                                                                         *)
(* It is late because the thread averages a window of readings (110 ms),   *)
(* keeps of every heading 1 - fcoef in the next (Filter), and stores one   *)
(* only when the next window is full: a heading lies somewhere between the *)
(* one before and where the pointer stands.  In the configuration of the   *)
(* repository it is 0.4 s behind on the average: 21 degrees at the highest *)
(* speed, two in the last approach.  MaxUnread bounds this in motor steps, *)
(* MaxUnpolled the steps between two polls (every 5 ms); they stand for    *)
(* the clock that step signal, poll and compass thread share.              *)
(***************************************************************************)
EXTENDS StepDrv

CONSTANTS
  Unit,         \* degrees of a motor step, StepTenths / (10 * Divider)
  MaxUnpolled,
  MaxUnread,
  CalibDisabled \* do users calibrate while the motor is switched off?

ASSUME RotorAssumption ==
  /\ Unit \in 1..359 /\ 360 % Unit = 0
  /\ MaxUnpolled \in Nat \ {0} /\ MaxUnread \in Nat \ {0}
  /\ CalibDisabled \in BOOLEAN

VARIABLES
  pos,        \* where the pointer really is
  unpolled,   \* motor steps since the last poll of the move
  unread      \* motor steps the heading is behind, at most

plant == <<pos, unpolled, unread>>
rvars == <<vars, plant>>

RInit == Init /\ pos = 0 /\ unpolled = 0 /\ unread = 0

(* The pin is about to rise, with the motor enabled. *)
MotorSteps == enable /\ ~step.prevVal

RTick ==
  /\ StepTick
  /\ IF MotorSteps
     THEN /\ timer => unpolled < MaxUnpolled
          /\ unread < MaxUnread
          /\ pos' = (IF dir THEN pos + Unit ELSE pos + 360 - Unit) % 360
          /\ unpolled' = IF timer THEN unpolled + 1 ELSE 0
          /\ unread' = unread + 1
     ELSE UNCHANGED plant

RPoll == Poll /\ unpolled' = 0 /\ UNCHANGED <<pos, unread>>

(* The shorter way between two positions on the circle. *)
Apart(a, b) == LET d == (a + 360 - b) % 360 IN IF d > 180 THEN 360 - d ELSE d

(* So many motor steps behind the pointer, on the side of the last heading. *)
Behind(steps) ==
  (IF (azimuth + 360 - pos) % 360 <= 180
   THEN pos + steps * Unit ELSE pos + 360 - steps * Unit) % 360

(* What was kept is smoothed away by and by. *)
RHeading ==
  /\ \E steps \in 0..unread :
       /\ steps < unread \/ steps = 0
       /\ steps * Unit <= Apart(azimuth, pos)
       /\ azimuth' = Behind(steps) /\ unread' = steps
  /\ Heading
  /\ UNCHANGED <<pos, unpolled>>

(* The sleep of onStepCb is so long that nothing is left of what was kept   *)
(* (Compass).                                                               *)
RResume == Resume /\ unread = 0 /\ UNCHANGED plant

(* A move starts the poll timer afresh, unless it is refused. *)
RCommand ==
  /\ \/ Set /\ unpolled' = IF MoveAllowed THEN 0 ELSE unpolled
     \/ (enable \/ CalibDisabled) /\ Calib /\ UNCHANGED unpolled
     \/ (~onCalibration \/ CalibDisabled) /\ Ctl /\ UNCHANGED unpolled
  /\ UNCHANGED <<pos, unread>>

RNext ==
  \/ RTick \/ (SeriesEnd /\ UNCHANGED plant)
  \/ RPoll \/ RHeading \/ RResume \/ RCommand

RSpec == RInit /\ [][RNext]_rvars

(* Expired timers are served, and the compass thread reads on. *)
RFairness ==
  /\ WF_rvars(RTick) /\ WF_rvars(SeriesEnd /\ UNCHANGED plant)
  /\ WF_rvars(RPoll) /\ WF_rvars(RHeading) /\ WF_rvars(RResume)
RFairSpec == RSpec /\ RFairness

--------------------------------------------------------------------------------
(* A move ends close to where it was sent: within the window onTimerCb      *)
(* stops in, the lag of the heading and what the motor turns between two    *)
(* polls.  Commands, enabling and headings come at any time.                *)
StopsAtTarget ==
  [][mstate # "Idle" /\ mstate' = "Idle" =>
       Apart(pos, destAzimuth) < STEPPER_SPEED_SLOW + (MaxUnread + MaxUnpolled) * Unit]_rvars

(* A move the users leave alone, with the motor enabled, ends.              *)
MovesEnd ==
  []<><<RCommand>>_rvars \/ []<>~enable \/ []<>(mstate = "Idle")

(* Where the points of a calibration under way, or just done, were taken:   *)
(* from the second on, how far the pointer turned since the one before.     *)
Turned(i) == (calibPoints[i + 1] + 360 - calibPoints[i]) % 360

(* Two points of a calibration are one calibration step apart, or one motor *)
(* step less.                                                               *)
PointsAlmostEven ==
  onCalibration =>
    \A i \in 2..(Len(calibPoints) - 1) :
      Turned(i) \in {(SeriesPulses - 1) * Unit, SeriesPulses * Unit}

(* calibStep is the step of the calibration in degrees                      *)
(* (include/stepdrv.h:130), and onStepCb files point i under i * calibStep. *)
PointsEven ==
  onCalibration =>
    \A i \in 2..(Len(calibPoints) - 1) : Turned(i) = SeriesPulses * Unit

================================================================================
