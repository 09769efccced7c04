-------------------------------- MODULE Compass --------------------------------
(***************************************************************************)
(* The compass thread (CompassDrv::loop) against the thread of the event   *)
(* loop, which configures the compass at start-up, switches the correction *)
(* off for a calibration and on again after it has stored a new table.     *)
(* They share m_azimuth and m_calib, plain variables, and the table of     *)
(* Calibration, under its mutex; the thread keeps a copy of the table and  *)
(* takes a new one only when calibTrigger says so.                         *)
(*                                                                         *)
(* A heading is abstracted to what it comes from: the table it was         *)
(* corrected by and, for every kind of sample, how many windows ago one    *)
(* was last averaged (0: in the window of this heading).  A filter keeps   *)
(* (1 - k) of its value when a window is added, so that all samples n or   *)
(* more windows old together have at most the part (1 - k)^n in what a     *)
(* heading is computed from; fcoef in config.ini, the k, is 0.3.  Ages     *)
(* from Windows on are not told apart.                                     *)
(***************************************************************************)
EXTENDS Integers, Sequences

CONSTANTS
  Positions,    \* where the pointer may stand
  FPoints,      \* readings averaged to one heading, fpoints in config.ini
  Windows,      \* windows of readings in the sleep of onStepCb, about 20
  CalibPoints,  \* CALIBRATION_POINTS, 8 in the code
  MaxTables     \* bound: tables made in one run of the program

ASSUME CompassAssumption ==
  /\ Positions # {}
  /\ FPoints \in Nat
  /\ Windows \in Nat \ {0}
  /\ CalibPoints \in Nat \ {0}
  /\ MaxTables \in Nat \ {0}

VARIABLES
  lpc,         \* what the loop's thread is about to do
  mcalib,      \* CompassDrv::m_calib
  configured,  \* mapping() and filtering() have been called
  table,       \* the table in Calibration, by the number of its calibration;
               \* 0: empty
  points,      \* StepDrv::calibPoints, each with where the pointer stood
  rest,        \* windows begun in the sleep of onStepCb and stored since,
               \* or NotResting
  pos,         \* where the pointer stands
  tpc,         \* what the compass thread is about to do
  window, filled,  \* the filters: samples pushed, and how many
  kept,        \* Filter::val, what is smoothed, by the age of its samples
  seen,        \* heading before it is stored
  trigger,     \* calibTrigger
  cached,      \* cpoints, cvalues: the table they are a copy of
  azimuth      \* CompassDrv::m_azimuth

loopVars == <<lpc, mcalib, configured, table, points, pos>>
threadVars == <<tpc, window, filled, kept, seen, trigger, cached, azimuth>>
vars == <<loopVars, rest, threadVars>>

Raw == -1  \* a heading no table was applied to, the correction being off
Samples == [at : Positions, configured : BOOLEAN]
NotResting == -1  \* no window was begun in a sleep

(* Ages, up to Windows: so long ago, or never. *)
Ages == [Samples -> 0..Windows]
Never == [s \in Samples |-> Windows]
OneMore(n) == IF n < Windows THEN n + 1 ELSE Windows
Older(ages) == [s \in Samples |-> OneMore(ages[s])]

HeadingsSeen == [of : Ages, by : {Raw} \cup 0..MaxTables]
NoHeading == [of |-> Never, by |-> Raw]

Init ==
  /\ lpc = "configure" /\ mcalib = FALSE /\ configured = FALSE
  /\ table = 0 /\ points = <<>> /\ rest = NotResting /\ pos \in Positions
  /\ tpc = "sample" /\ window = {} /\ filled = 0
  /\ kept = Never /\ seen = NoHeading
  /\ trigger = TRUE /\ cached = 0 /\ azimuth = NoHeading

--------------------------------------------------------------------------------
(* The loop's thread: start-up. *)

(* mapping() and filtering(), called when the thread already runs. *)
Configure ==
  /\ lpc = "configure" /\ lpc' = "read"
  /\ configured' = TRUE
  /\ UNCHANGED <<mcalib, table, points, rest, pos, threadVars>>

(* The constructor of StepDrv: calibration->read(), there may be no file or *)
(* one of any earlier calibration (CompassFile says which) ...              *)
ReadTable ==
  /\ lpc = "read" /\ lpc' = "enable"
  /\ table' \in 0..MaxTables
  /\ UNCHANGED <<mcalib, configured, points, rest, pos, threadVars>>

(* ... and, as at the end of a calibration, calib(true). *)
Enable ==
  /\ lpc = "enable" /\ lpc' = "idle"
  /\ mcalib' = TRUE
  /\ UNCHANGED <<configured, table, points, rest, pos, threadVars>>

--------------------------------------------------------------------------------
(* The loop's thread: moves and calibrations. *)

(* The motor turns, for a move or between two points. *)
Turn ==
  /\ lpc \in {"idle", "turn"}
  /\ pos' \in Positions
  /\ UNCHANGED <<lpc, mcalib, configured, table, points, rest, threadVars>>

(* startCalibration, during another calibration too; the first point is     *)
(* padding.                                                                 *)
Calib ==
  /\ lpc \in {"idle", "turn"} /\ lpc' = "turn"
  /\ table < MaxTables
  /\ mcalib' = FALSE
  /\ points' = <<[heading |-> NoHeading, at |-> pos]>>
  /\ UNCHANGED <<configured, table, rest, pos, threadVars>>

(* The series of pulses has ended: onStepCb begins, and sleeps. *)
Arrive ==
  /\ lpc = "turn" /\ lpc' = "pause"
  /\ UNCHANGED <<mcalib, configured, table, points, rest, pos, threadVars>>

(* The sleep of 2.5 s outlasts Windows windows of readings that are begun,  *)
(* full and stored in it.  Mutant: it is as short as one window.            *)
Rested_OneWindow == rest >= 1
Rested == rest = Windows

LastPoint == Len(points) >= CalibPoints

Point == [heading |-> azimuth, at |-> pos]

TakePoint ==
  /\ lpc = "pause" /\ Rested /\ ~LastPoint
  /\ lpc' = "turn" /\ rest' = NotResting
  /\ points' = Append(points, Point)
  /\ UNCHANGED <<mcalib, configured, table, pos, threadVars>>

LastTaken ==
  /\ lpc = "pause" /\ Rested /\ LastPoint
  /\ lpc' = "set" /\ rest' = NotResting
  /\ points' = [points EXCEPT ![1] = Point]
  /\ UNCHANGED <<mcalib, configured, table, pos, threadVars>>

(* Calibration::set, under the mutex.  Mutant: after calib(true).           *)
Set_AfterEnable ==
  /\ lpc = "set" /\ lpc' = IF mcalib THEN "idle" ELSE "set"
  /\ mcalib' = TRUE
  /\ table' = IF mcalib THEN table + 1 ELSE table
  /\ UNCHANGED <<configured, points, rest, pos, threadVars>>
Set ==
  /\ lpc = "set" /\ lpc' = "enable"
  /\ table' = table + 1
  /\ UNCHANGED <<mcalib, configured, points, rest, pos, threadVars>>

Loop == Configure \/ ReadTable \/ Enable \/ Turn \/ Calib \/ Arrive
        \/ TakePoint \/ LastTaken \/ Set

--------------------------------------------------------------------------------
(* The compass thread. *)

(* Filter::isReady after one more push; 0 points before filtering().        *)
Ready == filled + 1 >= IF configured THEN FPoints ELSE 0

(* A reading is pushed to the filters; a full window is averaged next. *)
Sample ==
  /\ tpc = "sample" /\ tpc' = IF Ready THEN "value" ELSE "sample"
  /\ window' = window \cup {[at |-> pos, configured |-> configured]}
  /\ filled' = filled + 1
  /\ rest' = IF lpc = "pause" /\ rest = NotResting /\ filled = 0 THEN 0 ELSE rest
  /\ UNCHANGED <<loopVars, kept, seen, trigger, cached, azimuth>>

(* What the window is added to: the value the filters keep, or nothing when *)
(* they have none, or one the test for the first value takes for none       *)
(* (filter.cpp:16).  The six filters choose alike; ages of other choices    *)
(* lie between these.                                                       *)
Base == {Never} \cup IF configured THEN {Older(kept)} ELSE {}

(* Filter::value: without a coefficient, before filtering(), the window is  *)
(* averaged and nothing kept.  The filters' windows start afresh.           *)
Value ==
  /\ tpc = "value" /\ tpc' = "check"
  /\ \E base \in Base :
       seen' = [of |-> [s \in Samples |-> IF s \in window THEN 0 ELSE base[s]],
                by |-> Raw]
  /\ kept' = IF configured THEN seen'.of ELSE kept
  /\ window' = {} /\ filled' = 0
  /\ UNCHANGED <<loopVars, rest, trigger, cached, azimuth>>

(* calibTrigger once m_calib is found off.  Mutant: it keeps its value.     *)
Rearmed_Never == trigger
Rearmed == TRUE

CheckOff ==
  /\ tpc = "check" /\ ~mcalib
  /\ trigger' = Rearmed
  /\ tpc' = "store"
  /\ UNCHANGED <<loopVars, rest, window, filled, kept, seen, cached, azimuth>>

CheckOn ==
  /\ tpc = "check" /\ mcalib
  /\ tpc' = IF trigger THEN "get" ELSE "correct"
  /\ trigger' = FALSE
  /\ UNCHANGED <<loopVars, rest, window, filled, kept, seen, cached, azimuth>>

(* Calibration::get, under the mutex. *)
Get ==
  /\ tpc = "get" /\ tpc' = "correct"
  /\ cached' = table
  /\ UNCHANGED <<loopVars, rest, window, filled, kept, seen, trigger, azimuth>>

(* The heading is mapped by the copy of the table. *)
Correct ==
  /\ tpc = "correct" /\ tpc' = "store"
  /\ seen' = [seen EXCEPT !.by = cached]
  /\ UNCHANGED <<loopVars, rest, window, filled, kept, trigger, cached, azimuth>>

Store ==
  /\ tpc = "store" /\ tpc' = "sample"
  /\ azimuth' = seen
  /\ rest' = IF rest = NotResting THEN rest ELSE OneMore(rest)
  /\ UNCHANGED <<loopVars, window, filled, kept, seen, trigger, cached>>

Thread == Sample \/ Value \/ CheckOff \/ CheckOn \/ Get \/ Correct \/ Store

Next == Loop \/ Thread

(* The thread reads on and on; of the users nothing is assumed. *)
Spec == Init /\ [][Next]_vars
FairSpec == Spec /\ WF_vars(Thread)

--------------------------------------------------------------------------------
(* Every variable keeps its type; a calibration has at most CalibPoints     *)
(* points, and a window at most FPoints readings, or one.                   *)
TypeOK ==
  /\ lpc \in {"configure", "read", "enable", "idle", "turn", "pause", "set"}
  /\ mcalib \in BOOLEAN /\ configured \in BOOLEAN /\ table \in 0..MaxTables
  /\ points \in Seq([heading : HeadingsSeen, at : Positions])
  /\ Len(points) <= CalibPoints
  /\ rest \in {NotResting} \cup 0..Windows /\ pos \in Positions
  /\ tpc \in {"sample", "value", "check", "get", "correct", "store"}
  /\ window \subseteq Samples /\ filled \in {1} \cup 0..FPoints
  /\ kept \in Ages /\ seen \in HeadingsSeen
  /\ trigger \in BOOLEAN /\ cached \in 0..MaxTables /\ azimuth \in HeadingsSeen

(* As long as the correction is on, the thread's copy is the table in force *)
(* or the thread is about to take a new copy: no order of the two threads   *)
(* makes it correct headings by the table before the last calibration.      *)
CacheIsFresh == mcalib => trigger \/ tpc = "get" \/ cached = table

(* A calibration point, the padding apart, is a heading measured without    *)
(* correction, with the configured axes, where the pointer stood when the   *)
(* point was filed.  The smoothing leaves in it something of windows begun  *)
(* before calib(false), while the motor still turned or, in the filters'    *)
(* first seconds, with other axes; but all of them are at least Windows     *)
(* windows old, so that they have at most (1 - k)^Windows of the point.     *)
MeasuredThere(p) ==
  LET here == [at |-> p.at, configured |-> TRUE]
  IN  p.heading = [of |-> [Never EXCEPT ![here] = 0], by |-> Raw]
PointsMeasured ==
  /\ \A i \in 2..Len(points) : MeasuredThere(points[i])
  /\ lpc = "set" => MeasuredThere(points[1])

(* A new table comes to be used: while no other calibration is begun, the   *)
(* headings stored are eventually corrected by it.                          *)
NewTableIsUsed ==
  \A t \in 1..MaxTables :
    lpc = "idle" /\ table = t ~> lpc # "idle" \/ azimuth.by = t

================================================================================
