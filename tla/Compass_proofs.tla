----------------------------- MODULE Compass_proofs -----------------------------
(***************************************************************************)
(* The safety of Compass for any number of positions, readings, points and *)
(* tables.  What carries it is the sleep of onStepCb: windows begun in it  *)
(* were taken at rest and found the correction off, and each of them makes *)
(* everything the filters kept from before one window older.  Then the     *)
(* same with the calibration file and crashes (CompassFile).               *)
(***************************************************************************)
EXTENDS CompassFile, SequenceTheorems, TLAPS

(* A sweep has its padding from its first moment, and begins only while     *)
(* there is a table left to make; a window is full when it is averaged.     *)
Sweeping == lpc \in {"turn", "pause", "set"}
TypeInv ==
  /\ TypeOK
  /\ Sweeping => Len(points) >= 1 /\ table < MaxTables
  /\ tpc # "value" => filled = 0 \/ filled < FPoints

(* What is done to ages leaves them ages.                                   *)
LEMMA AgeFacts ==
  /\ Never \in Ages
  /\ \A n \in 0..Windows : OneMore(n) \in 0..Windows
  /\ \A ages \in Ages : Older(ages) \in Ages
  /\ NoHeading \in HeadingsSeen
<1>1. Never \in Ages
  BY CompassAssumption DEF Never, Ages
<1>2. \A n \in 0..Windows : OneMore(n) \in 0..Windows
  BY CompassAssumption DEF OneMore
<1>3. \A ages \in Ages : Older(ages) \in Ages
  BY <1>2 DEF Ages, Older
<1>4. NoHeading \in HeadingsSeen
  BY <1>1 DEF NoHeading, HeadingsSeen
<1> QED BY <1>1, <1>2, <1>3, <1>4

LEMMA TypeInit == Init => TypeInv
<1> SUFFICES ASSUME Init PROVE TypeInv
  OBVIOUS
<1>1. NoHeading \in HeadingsSeen /\ Never \in Ages
  BY AgeFacts
<1>2. mcalib \in BOOLEAN /\ configured \in BOOLEAN /\ trigger \in BOOLEAN
  BY Zenon DEF Init
<1>3. points \in Seq([heading : HeadingsSeen, at : Positions]) /\ Len(points) = 0
  BY DEF Init
<1> QED BY <1>1, <1>2, <1>3, CompassAssumption DEF Init, TypeInv, TypeOK, Sweeping

(* Every step of the loop's thread keeps the types.                         *)
LEMMA LoopType == TypeInv /\ Loop => TypeInv'
<1> SUFFICES ASSUME TypeInv, Loop PROVE TypeInv'
  OBVIOUS
<1> USE CompassAssumption
<1>a. NoHeading \in HeadingsSeen
  BY AgeFacts
<1>1. CASE Configure
  BY <1>1 DEF Configure, TypeInv, TypeOK, Sweeping, threadVars
<1>2. CASE ReadTable
  BY <1>2 DEF ReadTable, TypeInv, TypeOK, Sweeping, threadVars
<1>3. CASE Enable
  BY <1>3 DEF Enable, TypeInv, TypeOK, Sweeping, threadVars
<1>4. CASE Turn
  BY <1>4 DEF Turn, TypeInv, TypeOK, Sweeping, threadVars
<1>5. CASE Calib
  <2> DEFINE padding == [heading |-> NoHeading, at |-> pos]
  <2>2. padding \in [heading : HeadingsSeen, at : Positions]
    BY <1>a DEF TypeInv, TypeOK
  <2>3. points' = <<padding>>
    BY <1>5 DEF Calib
  <2> HIDE DEF padding
  <2>1. /\ points' \in Seq([heading : HeadingsSeen, at : Positions])
        /\ Len(points') = 1
    BY <2>2, <2>3
  <2>4. mcalib' \in BOOLEAN
    BY <1>5, Zenon DEF Calib
  <2>5. 1 <= CalibPoints
    OBVIOUS
  <2> QED BY <2>1, <2>4, <2>5, <1>5 DEF Calib, TypeInv, TypeOK, Sweeping, threadVars
<1>6. CASE Arrive
  BY <1>6 DEF Arrive, TypeInv, TypeOK, Sweeping, threadVars
<1>b. Point \in [heading : HeadingsSeen, at : Positions]
  BY DEF Point, TypeInv, TypeOK
<1>7. CASE TakePoint
  <2>1. /\ points' \in Seq([heading : HeadingsSeen, at : Positions])
        /\ Len(points') = Len(points) + 1 /\ Len(points) < CalibPoints
    BY <1>b, <1>7 DEF TakePoint, LastPoint, TypeInv, TypeOK
  <2> QED BY <2>1, <1>7 DEF TakePoint, TypeInv, TypeOK, Sweeping, threadVars
<1>8. CASE LastTaken
  <2>1. /\ points \in Seq([heading : HeadingsSeen, at : Positions])
        /\ points' = [points EXCEPT ![1] = Point] /\ 1 \in 1..Len(points)
    BY <1>8 DEF LastTaken, TypeInv, TypeOK, Sweeping
  <2>2. /\ points' \in Seq([heading : HeadingsSeen, at : Positions])
        /\ Len(points') = Len(points)
    BY <1>b, <2>1, ExceptSeq
  <2> QED BY <2>2, <1>8 DEF LastTaken, TypeInv, TypeOK, Sweeping, threadVars
<1>9. CASE Set
  BY <1>9 DEF Set, TypeInv, TypeOK, Sweeping, threadVars
<1> QED BY <1>1, <1>2, <1>3, <1>4, <1>5, <1>6, <1>7, <1>8, <1>9 DEF Loop

(* And so does every step of the compass thread. *)
LEMMA ThreadType == TypeInv /\ Thread => TypeInv'
<1> SUFFICES ASSUME TypeInv, Thread PROVE TypeInv'
  OBVIOUS
<1> USE CompassAssumption
<1>1. CASE Sample
  <2>1. window' \subseteq Samples
    BY <1>1 DEF Sample, TypeInv, TypeOK, Samples
  <2>2. /\ filled' = filled + 1
        /\ tpc' = IF Ready THEN "value" ELSE "sample"
        /\ rest' = rest \/ rest' = 0
        /\ UNCHANGED <<loopVars, kept, seen, trigger, cached, azimuth>>
    BY <1>1 DEF Sample
  <2>3. /\ filled' \in {1} \cup 0..FPoints
        /\ ~Ready => filled' < FPoints
    <3>1. /\ tpc = "sample" /\ filled \in {1} \cup 0..FPoints
          /\ filled = 0 \/ filled < FPoints
      BY <1>1 DEF Sample, TypeInv, TypeOK
    <3>2. ~Ready => filled + 1 < FPoints \/ filled + 1 < 0
      BY <3>1 DEF Ready
    <3> QED BY <2>2, <3>1, <3>2
  <2>4. rest' \in {NotResting} \cup 0..Windows
    BY <2>2 DEF TypeInv, TypeOK
  <2> QED BY <2>1, <2>2, <2>3, <2>4 DEF TypeInv, TypeOK, Sweeping, loopVars
<1>v. CASE Value
  <2>1. PICK base \in Base :
          seen' = [of |-> [s \in Samples |-> IF s \in window THEN 0 ELSE base[s]],
                   by |-> Raw]
    BY <1>v DEF Value
  <2>2. base \in Ages
    BY AgeFacts DEF Base, TypeInv, TypeOK
  <2>3. [s \in Samples |-> IF s \in window THEN 0 ELSE base[s]] \in Ages
    BY <2>2 DEF Ages
  <2>4. seen' \in HeadingsSeen /\ seen'.of \in Ages
    BY <2>1, <2>3 DEF HeadingsSeen
  <2>5. kept' \in Ages
    BY <1>v, <2>4 DEF Value, TypeInv, TypeOK
  <2> QED BY <1>v, <2>4, <2>5 DEF Value, TypeInv, TypeOK, Sweeping, loopVars
<1>2. CASE CheckOff
  BY <1>2 DEF CheckOff, Rearmed, TypeInv, TypeOK, Sweeping, loopVars
<1>3. CASE CheckOn
  BY <1>3 DEF CheckOn, TypeInv, TypeOK, Sweeping, loopVars
<1>4. CASE Get
  BY <1>4 DEF Get, TypeInv, TypeOK, Sweeping, loopVars
<1>5. CASE Correct
  <2>1. seen' \in HeadingsSeen
    BY <1>5 DEF Correct, TypeInv, TypeOK, HeadingsSeen
  <2> QED BY <2>1, <1>5 DEF Correct, TypeInv, TypeOK, Sweeping, loopVars
<1>6. CASE Store
  <2>1. rest' \in {NotResting} \cup 0..Windows
    BY <1>6, AgeFacts DEF Store, TypeInv, TypeOK
  <2>2. filled' = 0 \/ filled' < FPoints
    BY <1>6 DEF Store, TypeInv
  <2> QED BY <2>1, <2>2, <1>6 DEF Store, TypeInv, TypeOK, Sweeping, loopVars
<1> QED BY <1>1, <1>v, <1>2, <1>3, <1>4, <1>5, <1>6 DEF Thread

LEMMA TypeStep == TypeInv /\ [Next]_vars => TypeInv'
<1> SUFFICES ASSUME TypeInv, [Next]_vars PROVE TypeInv'
  OBVIOUS
<1>1. CASE Loop
  BY <1>1, LoopType
<1>2. CASE Thread
  BY <1>2, ThreadType
<1>3. CASE UNCHANGED vars
  BY <1>3 DEF vars, loopVars, threadVars, TypeInv, TypeOK, Sweeping
<1> QED BY <1>1, <1>2, <1>3 DEF Next

(* TypeOK: the two threads keep every variable in its type, a sweep within  *)
(* CalibPoints and a window within FPoints.                                 *)
THEOREM TypeCorrect == Spec => []TypeOK
<1>1. TypeInv => TypeOK
  BY DEF TypeInv
<1> QED BY <1>1, TypeInit, TypeStep, PTL DEF Spec

--------------------------------------------------------------------------------
(* The correction is on in idle only.  Before it is switched on, at         *)
(* start-up and after a calibration, the thread is due to take a copy of    *)
(* the table, which it owes to a window that it found the correction off    *)
(* for: the one the sleep waited for.                                       *)
Due == trigger /\ tpc # "get"
CacheInv ==
  /\ CacheIsFresh
  /\ lpc # "idle" => ~mcalib
  /\ rest # NotResting => lpc = "pause"
  /\ lpc \in {"configure", "read", "set", "enable"} => Due
  /\ rest = 0 => tpc \notin {"get", "correct"} /\ (tpc = "store" => trigger)
  /\ rest \in 1..Windows => Due /\ tpc # "correct"

LEMMA CacheInit == Init => CacheInv
BY DEF Init, CacheInv, CacheIsFresh, Due, NotResting

(* Switching the correction on finds the copy due. *)
LEMMA LoopCache == TypeInv /\ CacheInv /\ Loop => CacheInv'
<1> SUFFICES ASSUME TypeInv, CacheInv, Loop PROVE CacheInv'
  OBVIOUS
<1> USE DEF CacheInv, CacheIsFresh, Due, NotResting
<1>1. CASE Configure
  BY <1>1 DEF Configure, threadVars
<1>2. CASE ReadTable
  BY <1>2 DEF ReadTable, threadVars
<1>3. CASE Enable
  BY <1>3 DEF Enable, threadVars
<1>4. CASE Turn
  BY <1>4 DEF Turn, threadVars
<1>5. CASE Calib
  BY <1>5 DEF Calib, threadVars
<1>6. CASE Arrive
  BY <1>6 DEF Arrive, threadVars
<1>7. CASE TakePoint
  BY <1>7 DEF TakePoint, threadVars
<1>8. CASE LastTaken
  BY <1>8, CompassAssumption DEF LastTaken, Rested, threadVars
<1>9. CASE Set
  BY <1>9 DEF Set, threadVars
<1> QED BY <1>1, <1>2, <1>3, <1>4, <1>5, <1>6, <1>7, <1>8, <1>9 DEF Loop

(* The thread gives its claim up only for the copy itself. *)
LEMMA ThreadCache == TypeInv /\ CacheInv /\ Thread => CacheInv'
<1> SUFFICES ASSUME TypeInv, CacheInv, Thread PROVE CacheInv'
  OBVIOUS
<1> USE DEF CacheInv, CacheIsFresh, Due
<1>1. CASE Sample
  <2>1. rest' = rest \/ (rest' = 0 /\ lpc = "pause")
    BY <1>1 DEF Sample
  <2> QED BY <1>1, <2>1 DEF Sample, loopVars
<1>v. CASE Value
  BY <1>v DEF Value, loopVars
<1>2. CASE CheckOff
  BY <1>2 DEF CheckOff, Rearmed, loopVars
<1>3. CASE CheckOn
  BY <1>3 DEF CheckOn, NotResting, loopVars
<1>4. CASE Get
  BY <1>4 DEF Get, loopVars
<1>5. CASE Correct
  BY <1>5 DEF Correct, loopVars
<1>6. CASE Store
  <2>1. rest # NotResting => rest \in 0..Windows
    BY DEF TypeInv, TypeOK
  <2>2. rest # NotResting => rest' # 0 /\ Due /\ tpc # "correct"
    BY <1>6, <2>1, CompassAssumption DEF Store, OneMore
  <2> QED BY <1>6, <2>2 DEF Store, NotResting, loopVars
<1> QED BY <1>1, <1>v, <1>2, <1>3, <1>4, <1>5, <1>6 DEF Thread

LEMMA CacheStep == TypeInv /\ CacheInv /\ [Next]_vars => CacheInv'
<1> SUFFICES ASSUME TypeInv, CacheInv, [Next]_vars PROVE CacheInv'
  OBVIOUS
<1>1. CASE Loop
  BY <1>1, LoopCache
<1>2. CASE Thread
  BY <1>2, ThreadCache
<1>3. CASE UNCHANGED vars
  BY <1>3 DEF vars, loopVars, threadVars, CacheInv, CacheIsFresh, Due
<1> QED BY <1>1, <1>2, <1>3 DEF Next

(* CacheIsFresh: whatever the order of the two threads, no heading is       *)
(* corrected by a table older than the one in force when m_calib was set,   *)
(* once the thread has passed its trigger.                                  *)
THEOREM CacheStaysFresh == Spec => []CacheIsFresh
<1>1. CacheInv => CacheIsFresh
  BY DEF CacheInv
<1> QED BY <1>1, TypeInit, TypeStep, CacheInit, CacheStep, PTL DEF Spec

--------------------------------------------------------------------------------
(* While onStepCb sleeps, windows begun in the sleep hold nothing but where *)
(* the pointer stands.  After n of them, what was averaged elsewhere or     *)
(* before is at least n windows old in the value the filters keep, and in   *)
(* every heading made of it.                                                *)
Here == {[at |-> pos, configured |-> TRUE]}
OldElsewhere(ages, n) == \A s \in Samples \ Here : ages[s] >= n
Measured(heading, n) ==
  /\ heading.by = Raw
  /\ \A s \in Here : heading.of[s] = 0
  /\ OldElsewhere(heading.of, n)
Averaging == tpc \in {"sample", "value"}
RestInv ==
  /\ lpc # "configure" => configured
  /\ filled = 0 => window = {}
  /\ rest # NotResting =>
       /\ window \subseteq Here
       /\ tpc = "value" => window = Here
       /\ Averaging => OldElsewhere(kept, rest)
       /\ ~Averaging => Measured(seen, OneMore(rest)) /\ kept = seen.of
  /\ rest \in 1..Windows => Measured(azimuth, rest)
MeasuredInv == RestInv /\ PointsMeasured

LEMMA MeasuredInit == Init => MeasuredInv
BY DEF Init, MeasuredInv, RestInv, PointsMeasured, NotResting

(* What is read at rest is a sample. *)
LEMMA HereIsSample == TypeInv => Here \subseteq Samples
<1> SUFFICES ASSUME TypeInv PROVE [at |-> pos, configured |-> TRUE] \in Samples
  BY DEF Here
<1>1. pos \in Positions
  BY DEF TypeInv, TypeOK
<1> QED BY <1>1 DEF Samples

(* A heading made of as many windows as the sleep has is a measured point.  *)
LEMMA SleepMeasures == TypeInv /\ RestInv /\ Rested => MeasuredThere(Point)
<1> SUFFICES ASSUME TypeInv, RestInv, Rested PROVE MeasuredThere(Point)
  OBVIOUS
<1> DEFINE here == [at |-> pos, configured |-> TRUE]
<1>1. Windows \in 1..Windows /\ Measured(azimuth, Windows)
  BY CompassAssumption DEF Rested, RestInv
<1>2. azimuth \in HeadingsSeen /\ here \in Samples
  BY DEF TypeInv, TypeOK, Samples
<1>3. azimuth.of \in [Samples -> 0..Windows] /\ Windows \in Nat
  BY <1>2, CompassAssumption DEF HeadingsSeen, Ages
<1>4. ASSUME NEW s \in Samples
      PROVE  azimuth.of[s] = [Never EXCEPT ![here] = 0][s]
  <2>1. CASE s = here
    BY <1>1, <2>1 DEF Measured, Here, Never
  <2>2. CASE s # here
    <3>1. azimuth.of[s] \in 0..Windows /\ azimuth.of[s] >= Windows
      BY <1>1, <1>3, <2>2 DEF Measured, OldElsewhere, Here
    <3>2. azimuth.of[s] = Windows
      BY <1>3, <3>1
    <3> QED BY <2>2, <3>2 DEF Never
  <2> QED BY <2>1, <2>2
<1>5. azimuth.of = [Never EXCEPT ![here] = 0]
  BY <1>3, <1>4 DEF Never
<1>6. azimuth = [of |-> [Never EXCEPT ![here] = 0], by |-> Raw]
  BY <1>1, <1>2, <1>5 DEF HeadingsSeen, Measured
<1> QED BY <1>6 DEF MeasuredThere, Point

(* A point is filed after the sleep only, when m_azimuth is measured here;  *)
(* until then the loop's thread leaves alone what the windows depend on.    *)
LEMMA LoopMeasured ==
  TypeInv /\ CacheInv /\ MeasuredInv /\ Loop => MeasuredInv'
<1> SUFFICES ASSUME TypeInv, CacheInv, MeasuredInv, Loop PROVE MeasuredInv'
  OBVIOUS
<1>a. points \in Seq([heading : HeadingsSeen, at : Positions])
  BY DEF TypeInv, TypeOK
<1>b. Rested /\ lpc = "pause" => MeasuredThere(Point)
  BY SleepMeasures DEF MeasuredInv
<1>1. CASE Configure \/ ReadTable \/ Enable \/ Arrive \/ Set
  <2>1. /\ RestInv'
    BY <1>1 DEF Configure, ReadTable, Enable, Arrive, Set, threadVars, CacheInv,
                MeasuredInv, RestInv, Measured, OldElsewhere, Here, Averaging
  <2>2. points' = points /\ lpc' # "set"
    BY <1>1 DEF Configure, ReadTable, Enable, Arrive, Set
  <2> QED BY <2>1, <2>2 DEF MeasuredInv, PointsMeasured, MeasuredThere
<1>2. CASE Turn
  <2>1. rest = NotResting /\ rest' = NotResting
    BY <1>2 DEF Turn, CacheInv, TypeInv, TypeOK
  <2> QED BY <1>2, <2>1 DEF Turn, threadVars, MeasuredInv, RestInv,
                            NotResting, PointsMeasured, MeasuredThere
<1>3. CASE Calib
  <2>1. rest = NotResting /\ rest' = NotResting
    BY <1>3 DEF Calib, CacheInv, TypeInv, TypeOK
  <2>2. Len(points') = 1 /\ lpc' = "turn"
    BY <1>3 DEF Calib
  <2> QED BY <1>3, <2>1, <2>2 DEF Calib, threadVars, MeasuredInv, RestInv,
                                  NotResting, PointsMeasured
<1>4. CASE TakePoint
  <2>1. \A i \in 2..Len(points') : MeasuredThere(points'[i])
    <3>1. points' = Append(points, Point) /\ MeasuredThere(Point)
      BY <1>b, <1>4 DEF TakePoint
    <3>2. \A i \in 2..Len(points') :
            \/ points'[i] = Point
            \/ i \in 2..Len(points) /\ points'[i] = points[i]
      BY <1>a, <3>1
    <3> QED BY <3>1, <3>2 DEF MeasuredInv, PointsMeasured, MeasuredThere
  <2>2. lpc' = "turn" /\ rest' = NotResting
    BY <1>4 DEF TakePoint
  <2> QED BY <1>4, <2>1, <2>2 DEF TakePoint, threadVars, MeasuredInv, RestInv,
                                  NotResting, PointsMeasured, MeasuredThere
<1>5. CASE LastTaken
  <2>1. /\ points' = [points EXCEPT ![1] = Point] /\ MeasuredThere(Point)
        /\ 1 \in 1..Len(points)
    BY <1>b, <1>5 DEF LastTaken, TypeInv, Sweeping, TypeOK
  <2>2. Point \in [heading : HeadingsSeen, at : Positions]
    BY DEF Point, TypeInv, TypeOK
  <2>3. /\ Len(points') = Len(points) /\ points'[1] = Point
        /\ \A i \in 2..Len(points) : points'[i] = points[i]
    BY <1>a, <2>1, <2>2, ExceptSeq
  <2>4. PointsMeasured'
    BY <2>1, <2>3 DEF MeasuredInv, PointsMeasured, MeasuredThere
  <2> QED BY <1>5, <2>4 DEF LastTaken, threadVars, MeasuredInv, RestInv, NotResting
<1> QED BY <1>1, <1>2, <1>3, <1>4, <1>5 DEF Loop

(* The thread, in the sleep, samples where the pointer stands and finds the *)
(* correction off.                                                          *)
LEMMA ThreadMeasured ==
  TypeInv /\ CacheInv /\ MeasuredInv /\ Thread => MeasuredInv'
<1> SUFFICES ASSUME TypeInv, CacheInv, MeasuredInv, Thread PROVE MeasuredInv'
  OBVIOUS
<1>1. PointsMeasured'
  <2>1. points' = points /\ lpc' = lpc
    BY DEF Thread, Sample, Value, CheckOff, CheckOn, Get, Correct, Store, loopVars
  <2> QED BY <2>1 DEF MeasuredInv, PointsMeasured, MeasuredThere
<1>2. RestInv'
  <2> USE DEF MeasuredInv, RestInv, Averaging
  <2>h. Here' = Here /\ lpc' = lpc /\ configured' = configured
    BY DEF Thread, Sample, Value, CheckOff, CheckOn, Get, Correct, Store, loopVars, Here
  <2>m. \A h, n : Measured(h, n)' = Measured(h, n)
    BY <2>h DEF Measured, OldElsewhere
  <2>o. \A ages, n : OldElsewhere(ages, n)' = OldElsewhere(ages, n)
    BY <2>h DEF OldElsewhere
  <2>1. CASE Sample
    <3> DEFINE pushed == window \cup {[at |-> pos, configured |-> configured]}
    <3>1. /\ tpc = "sample" /\ tpc' \in {"sample", "value"}
          /\ window' = pushed /\ filled' = filled + 1 /\ filled' # 0
          /\ UNCHANGED <<kept, seen, azimuth>>
      BY <2>1 DEF Sample, TypeInv, TypeOK
    <3>2. rest' # NotResting => lpc = "pause" /\ (rest # NotResting \/ filled = 0)
      BY <2>1 DEF Sample, CacheInv
    <3>3. rest' = rest \/ rest' = 0
      BY <2>1 DEF Sample
    <3>4. rest' # NotResting => pushed = Here
      BY <3>2 DEF Here
    <3>5. OldElsewhere(kept, 0)
      BY DEF OldElsewhere, TypeInv, TypeOK, Ages
    <3>6. rest' # NotResting => OldElsewhere(kept, rest')
      BY <3>1, <3>2, <3>3, <3>5 DEF NotResting
    <3> HIDE DEF pushed
    <3> QED BY <3>1, <3>3, <3>4, <3>6, <2>h, <2>m, <2>o
  <2>v. CASE Value
    <3>1. /\ tpc = "value" /\ tpc' = "check" /\ window' = {} /\ filled' = 0
          /\ UNCHANGED <<rest, azimuth>>
          /\ kept' = IF configured THEN seen'.of ELSE kept
      BY <2>v DEF Value
    <3>2. ASSUME rest # NotResting
          PROVE  Measured(seen', OneMore(rest)) /\ kept' = seen'.of
      <4>1. configured /\ window = Here /\ OldElsewhere(kept, rest)
        BY <3>1, <3>2 DEF CacheInv
      <4>2. PICK base \in Base :
              seen' = [of |-> [s \in Samples |-> IF s \in window THEN 0 ELSE base[s]],
                       by |-> Raw]
        BY <2>v DEF Value
      <4>3. rest \in 0..Windows /\ kept \in [Samples -> 0..Windows] /\ Windows \in Nat
        BY <3>2, CompassAssumption DEF TypeInv, TypeOK, Ages
      <4>4. OldElsewhere(base, OneMore(rest))
        BY <4>1, <4>3 DEF Base, OldElsewhere, Never, Older, OneMore
      <4>5. \A s \in Here : s \in Samples
        BY HereIsSample
      <4> QED BY <3>1, <4>1, <4>2, <4>4, <4>5 DEF Measured, OldElsewhere
    <3> QED BY <3>1, <3>2, <2>h, <2>m
  <2>2. CASE CheckOff
    BY <2>2, <2>h, <2>m DEF CheckOff
  <2>3. CASE CheckOn
    BY <2>3, <2>h, <2>m DEF CheckOn
  <2>4. CASE Get
    BY <2>4, <2>h, <2>m DEF Get
  <2>5. CASE Correct
    <3>1. rest = NotResting /\ rest' = rest
      BY <2>5 DEF Correct, CacheInv, TypeInv, TypeOK
    <3> QED BY <2>5, <3>1, <2>h DEF Correct, NotResting
  <2>6. CASE Store
    <3>1. /\ ~Averaging /\ tpc' = "sample" /\ azimuth' = seen
          /\ rest' = IF rest = NotResting THEN rest ELSE OneMore(rest)
          /\ UNCHANGED <<window, filled, kept, seen>>
      BY <2>6 DEF Store
    <3>2. rest' # NotResting => rest # NotResting
      BY <3>1
    <3>3. rest # NotResting => OldElsewhere(kept, rest')
      BY <3>1 DEF Measured
    <3>4. rest' \in 1..Windows => rest # NotResting
      BY <3>1 DEF NotResting
    <3> QED BY <3>1, <3>2, <3>3, <3>4, <2>h, <2>m, <2>o
  <2> QED BY <2>1, <2>v, <2>2, <2>3, <2>4, <2>5, <2>6 DEF Thread
<1> QED BY <1>1, <1>2 DEF MeasuredInv

LEMMA MeasuredStep ==
  TypeInv /\ CacheInv /\ MeasuredInv /\ [Next]_vars => MeasuredInv'
<1> SUFFICES ASSUME TypeInv, CacheInv, MeasuredInv, [Next]_vars
             PROVE  MeasuredInv'
  OBVIOUS
<1>1. CASE Loop
  BY <1>1, LoopMeasured
<1>2. CASE Thread
  BY <1>2, ThreadMeasured
<1>3. CASE UNCHANGED vars
  BY <1>3 DEF vars, loopVars, threadVars, MeasuredInv, RestInv, Measured,
              OldElsewhere, Averaging, Here, PointsMeasured, MeasuredThere
<1> QED BY <1>1, <1>2, <1>3 DEF Next

(* PointsMeasured: every calibration point is measured where the pointer    *)
(* stood, uncorrected and with the configured axes, however the window of   *)
(* the thread lay to startCalibration and to the end of the pulses.         *)
THEOREM PointsAreMeasured == Spec => []PointsMeasured
<1>1. MeasuredInv => PointsMeasured
  BY DEF MeasuredInv
<1> QED
  BY <1>1, TypeInit, TypeStep, CacheInit, CacheStep, MeasuredInit, MeasuredStep,
     PTL DEF Spec

--------------------------------------------------------------------------------
(* The calibration file and crashes.  A step of CompassFile is one of       *)
(* Compass or a restart, and a program that starts again starts as Compass  *)
(* does.                                                                    *)
LEMMA StepsOfCompass ==
  FileNext => [Next]_vars \/ \E f : Restart(f)
BY DEF FileNext, FileLoop, FileThread, ReadFile, SetTable, Open, WriteLine, Close,
       Others, Kill, PowerOff, Next, Loop, Thread

CompassInv == TypeInv /\ CacheInv /\ MeasuredInv

LEMMA RestartIsStart == CompassInv /\ (\E f : Restart(f)) => Init'
BY DEF CompassInv, TypeInv, TypeOK, Restart, Init

LEMMA CompassInvStep == CompassInv /\ [FileNext]_fvars => CompassInv'
<1>1. Init => CompassInv
  BY TypeInit, CacheInit, MeasuredInit DEF CompassInv
<1>2. Init' => CompassInv'
  BY <1>1, PTL
<1>3. CompassInv /\ [Next]_vars => CompassInv'
  BY TypeStep, CacheStep, MeasuredStep DEF CompassInv
<1>4. [FileNext]_fvars => [Next]_vars \/ \E f : Restart(f)
  BY StepsOfCompass DEF fvars
<1> QED BY <1>2, <1>3, <1>4, RestartIsStart

(* A file is a number of lines of one calibration, and a table read from    *)
(* one has its values first and zeros after them.                           *)
Prefix(n, t) == [i \in 1..n |-> t]
Filled(n, t) == [i \in 1..Entries |-> IF i + 1 <= n THEN t ELSE 0]

FileInv ==
  /\ \E n \in 0..FileLines, t \in 0..MaxTables : file = Prefix(n, t)
  /\ mem = <<>> \/ \E n \in 0..FileLines : mem = Filled(n, table)
  /\ spc \in {"none", "open", "write"}
  /\ spc # "none" => lpc = "enable" /\ mem = Filled(FileLines, table)
  /\ spc = "write" => written \in 0..FileLines /\ file = Prefix(written, table)
  /\ KilledLosesNothing

LEMMA FileLinesType == FileLines \in Nat /\ FileLines = Entries + 1 /\ Entries \in Nat
BY CompassAssumption DEF FileLines, Entries

LEMMA PrefixFacts ==
  ASSUME NEW n \in Nat, NEW t
  PROVE  /\ Prefix(n, t) = <<>> <=> n = 0
         /\ DOMAIN Prefix(n, t) = 1..n /\ Len(Prefix(n, t)) = n
         /\ \A i \in 1..n : Prefix(n, t)[i] = t
         /\ n = 0 => ReadBack(Prefix(n, t)) = <<>>
         /\ n # 0 => ReadBack(Prefix(n, t)) = Filled(n, t)
<1>1. Prefix(n, t) \in Seq({t}) /\ Len(Prefix(n, t)) = n
  BY DEF Prefix
<1>2. DOMAIN Prefix(n, t) = 1..n /\ \A i \in 1..n : Prefix(n, t)[i] = t
  BY DEF Prefix
<1>3. Prefix(n, t) = <<>> <=> n = 0
  BY <1>1, EmptySeq
<1>4. ASSUME n # 0 PROVE ReadBack(Prefix(n, t)) = Filled(n, t)
  <2>1. ReadBack(Prefix(n, t)) =
          [i \in 1..Entries |-> IF i + 1 \in 1..n THEN Prefix(n, t)[i + 1] ELSE 0]
    BY <1>2, <1>3, <1>4 DEF ReadBack
  <2>2. \A i \in 1..Entries :
          (IF i + 1 \in 1..n THEN Prefix(n, t)[i + 1] ELSE 0)
            = IF i + 1 <= n THEN t ELSE 0
    BY <1>2, FileLinesType
  <2> QED BY <2>1, <2>2 DEF Filled
<1>5. n = 0 => ReadBack(Prefix(n, t)) = <<>>
  BY <1>3 DEF ReadBack
<1> QED BY <1>1, <1>2, <1>3, <1>4, <1>5

(* Prefix and Filled, written by one number, are what the actions store.    *)
LEMMA StoredFacts ==
  ASSUME NEW t
  PROVE  /\ Prefix(0, t) = <<>>
         /\ Lines(t) = Prefix(FileLines, t)
         /\ Table(t) = Filled(FileLines, t)
<1>1. \A i \in 1..Entries : i + 1 <= FileLines
  BY FileLinesType
<1>2. Table(t) = Filled(FileLines, t)
  BY <1>1 DEF Table, Filled
<1>3. Prefix(0, t) = <<>>
  BY PrefixFacts
<1> QED BY <1>2, <1>3 DEF Lines, Prefix

LEMMA FileInitInv == FileInit => FileInv
<1> SUFFICES ASSUME FileInit PROVE FileInv
  OBVIOUS
<1>1. \E n \in 0..FileLines, t \in 0..MaxTables : file = Prefix(n, t)
  <2>1. 1 \in 0..MaxTables /\ 0 \in 0..FileLines /\ FileLines \in 0..FileLines
    BY CompassAssumption, FileLinesType
  <2> QED BY <2>1, StoredFacts DEF FileInit
<1> QED BY <1>1 DEF FileInit, Init, FileInv, KilledLosesNothing

LEMMA ReadFileInv == TypeInv /\ FileInv /\ ReadFile => FileInv'
<1> SUFFICES ASSUME TypeInv, FileInv, ReadFile PROVE FileInv'
  OBVIOUS
<1>1. PICK n \in 0..FileLines, t \in 0..MaxTables : file = Prefix(n, t)
  BY DEF FileInv
<1>2. n \in Nat
  BY FileLinesType
<1>3. mem' = <<>> \/ mem' = Filled(n, table')
  <2>1. CASE n = 0
    BY <1>1, <1>2, <2>1, PrefixFacts DEF ReadFile
  <2>2. CASE n # 0
    <3>1. file # <<>> /\ file[1] = t /\ ReadBack(file) = Filled(n, t)
      BY <1>1, <1>2, <2>2, PrefixFacts
    <3> QED BY <3>1 DEF ReadFile
  <2> QED BY <2>1, <2>2
<1>4. spc' = "none" /\ file' = file /\ mem' = ReadBack(file)
  BY DEF ReadFile, ReadTable, FileInv
<1>5. ReadBack(file)' = ReadBack(file)
  BY <1>4 DEF ReadBack
<1> QED BY <1>1, <1>3, <1>4, <1>5 DEF FileInv, KilledLosesNothing

LEMMA SetTableInv == TypeInv /\ FileInv /\ SetTable => FileInv'
BY StoredFacts, FileLinesType
   DEF SetTable, Set, FileInv, KilledLosesNothing

LEMMA OpenInv == TypeInv /\ FileInv /\ Open => FileInv'
<1> SUFFICES ASSUME TypeInv, FileInv, Open PROVE FileInv'
  OBVIOUS
<1>1. table' = table /\ lpc' = lpc /\ mem' = mem /\ spc' = "write" /\ written' = 0
  BY DEF Open, vars, loopVars
<1>2. file' = Prefix(0, table)
  BY StoredFacts DEF Open, Opened
<1>3. table \in 0..MaxTables /\ 0 \in 0..FileLines
  BY FileLinesType DEF TypeInv, TypeOK
<1>4. lpc = "enable" /\ mem = Filled(FileLines, table)
  BY DEF FileInv, Open
<1> QED BY <1>1, <1>2, <1>3, <1>4 DEF FileInv, KilledLosesNothing

LEMMA WriteLineInv == TypeInv /\ FileInv /\ WriteLine => FileInv'
<1> SUFFICES ASSUME TypeInv, FileInv, WriteLine PROVE FileInv'
  OBVIOUS
<1>1. /\ table' = table /\ lpc' = lpc /\ mem' = mem /\ spc' = "write"
      /\ written' = written + 1
  BY DEF WriteLine, vars, loopVars
<1>2. /\ written \in 0..FileLines /\ written < FileLines
      /\ file = Prefix(written, table)
      /\ lpc = "enable" /\ mem = Filled(FileLines, table)
  BY DEF FileInv, WriteLine, ToWrite
<1>3. file' = Prefix(written + 1, table)
  <2>1. DOMAIN file = 1..written /\ \A i \in 1..written : file[i] = table
    BY <1>2, FileLinesType, PrefixFacts
  <2>2. DOMAIN file \cup {written + 1} = 1..(written + 1)
    BY <1>2, <2>1, FileLinesType
  <2>3. file' = [i \in 1..(written + 1) |->
                   IF i = written + 1 THEN table ELSE file[i]]
    BY <2>2 DEF WriteLine
  <2>4. \A i \in 1..(written + 1) : i = written + 1 \/ i \in 1..written
    BY <1>2, FileLinesType
  <2> QED BY <2>1, <2>3, <2>4 DEF Prefix
<1>4. table \in 0..MaxTables /\ written + 1 \in 0..FileLines
  BY <1>2, FileLinesType DEF TypeInv, TypeOK
<1> QED BY <1>1, <1>2, <1>3, <1>4 DEF FileInv, KilledLosesNothing

LEMMA CloseInv == TypeInv /\ FileInv /\ Close => FileInv'
<1> SUFFICES ASSUME TypeInv, FileInv, Close PROVE FileInv'
  OBVIOUS
<1>1. /\ table' = table /\ lpc' = lpc /\ mem' = mem /\ file' = file
      /\ spc' = "none"
  BY DEF Close, vars, loopVars
<1>2. file = Prefix(FileLines, table) /\ mem = Filled(FileLines, table)
  BY DEF FileInv, Close, ToWrite
<1>3. ReadBack(file)' = mem'
  <2>1. ReadBack(file)' = ReadBack(file)
    BY <1>1 DEF ReadBack
  <2>2. FileLines \in Nat /\ FileLines # 0
    BY FileLinesType
  <2> QED BY <1>1, <1>2, <2>1, <2>2, PrefixFacts
<1> QED BY <1>1, <1>3 DEF FileInv, KilledLosesNothing

(* The steps that leave the file alone, of both threads.                    *)
LEMMA OthersInv == TypeInv /\ FileInv /\ (Others \/ FileThread) => FileInv'
<1> SUFFICES ASSUME TypeInv, FileInv, Others \/ FileThread PROVE FileInv'
  OBVIOUS
<1>1. UNCHANGED fileVars
  BY DEF Others, FileThread
<1>2. table' = table
  BY DEF Others, FileThread, Configure, Enable, Turn, Calib, Arrive, TakePoint,
         LastTaken, Sample, Value, CheckOff, CheckOn, Get, Correct, Store, loopVars
<1>3. spc # "none" => lpc' = lpc
  BY DEF FileInv, Others, FileThread, Configure, Enable, Turn, Calib, Arrive,
         TakePoint, LastTaken, Sample, Value, CheckOff, CheckOn, Get, Correct, Store, loopVars
<1>4. lpc' \notin {"configure", "read"} => lpc \notin {"configure", "read"}
  BY DEF Others, FileThread, Configure, Enable, Turn, Calib, Arrive, TakePoint,
         LastTaken, Sample, Value, CheckOff, CheckOn, Get, Correct, Store, loopVars
<1>5. ReadBack(file)' = ReadBack(file)
  BY <1>1 DEF fileVars, ReadBack
<1> QED BY <1>1, <1>2, <1>3, <1>4, <1>5 DEF FileInv, KilledLosesNothing, fileVars

LEMMA RestartInv ==
  ASSUME TypeInv, FileInv, Kill \/ PowerOff
  PROVE  FileInv'
<1>1. PICK n \in 0..FileLines, t \in 0..MaxTables : file = Prefix(n, t)
  BY DEF FileInv
<1>2. n \in Nat /\ \A k \in 0..n : k \in 0..FileLines /\ k \in Nat
  BY FileLinesType
<1>3. \A k \in 0..n : SubSeq(file, 1, k) = Prefix(k, t)
  <2> SUFFICES ASSUME NEW k \in 0..n PROVE SubSeq(file, 1, k) = Prefix(k, t)
    OBVIOUS
  <2>1. \A i \in 1..k : file[i] = t
    BY <1>1, <1>2, PrefixFacts
  <2>2. 1 \in Int /\ k \in Int /\ k - 1 + 1 = k /\ (1 <= k => k - 1 + 1 = k)
    BY <1>2
  <2>3. /\ SubSeq(file, 1, k) \in Seq({t})
        /\ Len(SubSeq(file, 1, k)) = k
        /\ \A i \in 1..k : SubSeq(file, 1, k)[i] = t
    BY <1>2, <2>1, <2>2, SubSeqProperties
  <2> QED BY <2>3 DEF Prefix
<1>4. PICK k \in 0..n : Restart(Prefix(k, t))
  <2>1. Len(file) = n /\ n \in 0..n
    BY <1>1, <1>2, PrefixFacts
  <2> QED BY <1>1, <1>3, <2>1 DEF Kill, PowerOff
<1>5. file' = Prefix(k, t) /\ k \in 0..FileLines
  BY <1>2, <1>4 DEF Restart
<1> QED BY <1>4, <1>5 DEF Restart, FileInv, KilledLosesNothing

LEMMA FileInvStep == TypeInv /\ FileInv /\ [FileNext]_fvars => FileInv'
<1> SUFFICES ASSUME TypeInv, FileInv, [FileNext]_fvars PROVE FileInv'
  OBVIOUS
<1>1. CASE UNCHANGED fvars
  BY <1>1 DEF fvars, fileVars, vars, loopVars, FileInv, KilledLosesNothing, ReadBack
<1> QED
  BY <1>1, ReadFileInv, SetTableInv, OpenInv, WriteLineInv, CloseInv, OthersInv,
     RestartInv DEF FileNext, FileLoop

(* CacheIsFresh and PointsMeasured hold across crashes, wherever they come  *)
(* in save().                                                               *)
THEOREM RestartsAreSafe == FileSpec => [](CacheIsFresh /\ PointsMeasured)
<1>1. FileInit => CompassInv
  BY TypeInit, CacheInit, MeasuredInit DEF FileInit, CompassInv
<1>2. CompassInv => CacheIsFresh /\ PointsMeasured
  BY DEF CompassInv, CacheInv, MeasuredInv
<1> QED BY <1>1, <1>2, CompassInvStep, PTL DEF FileSpec

(* TableIsOfOneCalibration: no crash leaves a file that is read back as the *)
(* values of two calibrations.                                              *)
THEOREM TablesAreNotMixed == FileSpec => []TableIsOfOneCalibration
<1>1. FileInit => CompassInv /\ FileInv
  BY TypeInit, CacheInit, MeasuredInit, FileInitInv DEF FileInit, CompassInv
<1>2. CompassInv /\ FileInv /\ [FileNext]_fvars => CompassInv' /\ FileInv'
  BY CompassInvStep, FileInvStep DEF CompassInv
<1>3. FileInv => TableIsOfOneCalibration
  <2> SUFFICES ASSUME FileInv, NEW i \in DOMAIN mem
               PROVE mem[i] = table \/ (\A j \in i..Entries : mem[j] = 0)
    BY DEF TableIsOfOneCalibration
  <2>1. CASE mem = <<>>
    BY <2>1
  <2>2. CASE \E n \in 0..FileLines : mem = Filled(n, table)
    <3>1. PICK n \in 0..FileLines : mem = Filled(n, table)
      BY <2>2
    <3>2. DOMAIN mem = 1..Entries
      BY <3>1 DEF Filled
    <3>3. \A j \in 1..Entries : mem[j] = IF j + 1 <= n THEN table ELSE 0
      BY <3>1 DEF Filled
    <3> QED BY <3>2, <3>3, FileLinesType
  <2> QED BY <2>1, <2>2 DEF FileInv
<1> QED BY <1>1, <1>2, <1>3, PTL DEF FileSpec

(* KilledLosesNothing: outside save() the file reads back as the table.     *)
THEOREM TableSurvives == FileSpec => []KilledLosesNothing
<1>1. FileInit => CompassInv /\ FileInv
  BY TypeInit, CacheInit, MeasuredInit, FileInitInv DEF FileInit, CompassInv
<1>2. CompassInv /\ FileInv /\ [FileNext]_fvars => CompassInv' /\ FileInv'
  BY CompassInvStep, FileInvStep DEF CompassInv
<1>3. FileInv => KilledLosesNothing
  BY DEF FileInv
<1> QED BY <1>1, <1>2, <1>3, PTL DEF FileSpec

================================================================================
