--------------------------- MODULE Algorithms_proofs ---------------------------
(***************************************************************************)
(* The pure algorithms for every input: the arithmetic of a move           *)
(* (AzimuthCheck), the operations on the heap of timers, the filter, the   *)
(* correction of headings, the periodics, the arrays of watchers, the      *)
(* texts that are read, the start of the program and the measurements.     *)
(* What is folded over readings, parts, watchers, lines or letters is      *)
(* defined by recursion; RecursionEnds shows once that such definitions    *)
(* have a solution.                                                        *)
(***************************************************************************)
EXTENDS Algorithms, TimerHeap_proofs, FiniteSetTheorems, SequenceTheorems

(* normalizeAzimuth leads into 0..360, whatever its argument. *)
LEMMA NormalizeRange ==
  ASSUME NEW a \in Int
  PROVE  NormalizeAzimuth(a) \in 0..360
BY DEF NormalizeAzimuth, Remainder

(* ... and keeps the direction asked for. *)
LEMMA NormalizeKeepsDirection ==
  ASSUME NEW a \in Int
  PROVE  NormalizeAzimuth(a) % 360 = a % 360
BY DEF NormalizeAzimuth, Remainder

(* Where the pointer is, as the compass says. *)
Circle == 0..360

(* pulses() stays on the circle. *)
LEMMA PulsesRange ==
  ASSUME NEW c \in Circle, NEW d \in Circle, NEW b \in BOOLEAN
  PROVE  Pulses(c, d, b) \in Circle
BY DEF Pulses, Circle

(* ... and leads there. *)
LEMMA PulsesLead ==
  ASSUME NEW c \in Circle, NEW d \in Circle, NEW b \in BOOLEAN
  PROVE  (IF b THEN c + Pulses(c, d, b) ELSE c - Pulses(c, d, b)) % 360 = d % 360
<1>1. CASE b
  BY <1>1 DEF Pulses, Circle
<1>2. CASE ~b
  BY <1>2 DEF Pulses, Circle
<1> QED BY <1>1, <1>2

(* The direction Nearest settles on is at most half a turn long. *)
LEMMA NearestIsShort ==
  ASSUME NEW c \in Circle, NEW d \in Circle
  PROVE  Pulses(c, d, ChooseClockwise(c, d, "Nearest")) <= 180
BY DEF Pulses, ChooseClockwise, Circle

LEMMA ChooseClockwiseType ==
  ASSUME NEW c \in Circle, NEW d \in Circle, NEW w
  PROVE  ChooseClockwise(c, d, w) \in BOOLEAN
<1>1. CASE w = "Nearest"
  BY <1>1, Zenon DEF ChooseClockwise
<1>2. CASE w # "Nearest"
  BY <1>2, Zenon DEF ChooseClockwise
<1> QED BY <1>1, <1>2

(* A computed request was computed by the operators of Azimuth. *)
Computed ==
  /\ asked \in Int \ {IntMin} /\ cur \in 0..360 /\ way \in Directions
  /\ done \in BOOLEAN
  /\ done => dest = NormalizeAzimuth(asked) /\ cw = ChooseClockwise(cur, dest, way)

LEMMA ComputedHolds == ASpec => []Computed
<1>1. AInit => Computed
  <2> SUFFICES ASSUME AInit PROVE Computed
    OBVIOUS
  <2>1. 0 \in Int \ {IntMin}
    BY SMT DEF IntMin, IntMax
  <2>2. asked \in Int \ {IntMin}
    <3>1. asked \in Asked \/ asked = 0
      BY DEF AInit, Init
    <3> QED BY <2>1, <3>1, AlgorithmsAssumption
  <2>3. cur \in 0..360
    <3>1. cur \in Currents \/ cur = 0
      BY DEF AInit, Init
    <3>2. Currents \subseteq 0..360
      BY AlgorithmsAssumption
    <3>3. CASE cur \in Currents
      BY <3>2, <3>3
    <3>4. CASE cur = 0
      BY <3>4
    <3> QED BY <3>1, <3>3, <3>4
  <2>4. way \in Directions
    BY DEF AInit, Init, Directions
  <2>5. done = FALSE
    BY DEF AInit, Init
  <2> QED BY <2>2, <2>3, <2>4, <2>5 DEF Computed
<1>2. Computed /\ [ANext]_avars => Computed'
  <2> SUFFICES ASSUME Computed, [ANext]_avars PROVE Computed'
    OBVIOUS
  <2>1. CASE Compute
    <3>1. dest' = NormalizeAzimuth(asked)
      BY <2>1 DEF Compute, Computed, NormalizeOutcomes
    <3> QED BY <2>1, <3>1 DEF Compute, Computed
  <2>2. CASE UNCHANGED avars
    BY <2>2 DEF avars, vars, Computed
  <2> QED BY <2>1, <2>2 DEF ANext
<1> QED BY <1>1, <1>2, PTL DEF ASpec

(* normalizeAzimuth folds every request into the circle and keeps its       *)
(* direction.                                                               *)
THEOREM FoldCorrect == ASpec => []FoldIsAzimuth
<1>1. Computed => FoldIsAzimuth
  BY NormalizeRange, NormalizeKeepsDirection DEF Computed, FoldIsAzimuth
<1> QED BY <1>1, ComputedHolds, PTL

(* move() turns the pointer to the azimuth asked for, and on the nearer way *)
(* if it may choose.                                                        *)
THEOREM WayCorrect == ASpec => []WayLeadsThere
<1>1. Computed => WayLeadsThere
  <2> SUFFICES ASSUME Computed, done
               PROVE  WayLeadsThere
    BY DEF WayLeadsThere
  <2>0. asked \in Int /\ dest = NormalizeAzimuth(asked)
    BY DEF Computed
  <2>1. dest \in Circle /\ dest % 360 = asked % 360
    BY ONLY <2>0, NormalizeRange, NormalizeKeepsDirection DEF Circle
  <2>2. cur \in Circle /\ cw = ChooseClockwise(cur, dest, way)
    BY DEF Computed, Circle
  <2>3. cw \in BOOLEAN
    BY ONLY <2>1, <2>2, ChooseClockwiseType
  <2> DEFINE left == Pulses(cur, dest, cw)
  <2>4. left \in Circle
    BY ONLY <2>1, <2>2, <2>3, PulsesRange
  <2>5. (IF cw THEN cur + left ELSE cur - left) % 360 = asked % 360
    BY ONLY <2>1, <2>2, <2>3, PulsesLead
  <2>6. way = "Nearest" => left <= 180
    BY ONLY <2>1, <2>2, NearestIsShort
  <2> HIDE DEF left
  <2> QED BY <2>4, <2>5, <2>6 DEF WayLeadsThere, left, Circle
<1> QED BY <1>1, ComputedHolds, PTL

--------------------------------------------------------------------------------
(* Every subject is an input of the algorithm it is of. *)
Subjects ==
  subject \in {NoSubject} \cup Corrections \cup Windows \cup Fetches \cup SetUps
                \cup HeapChanges \cup PeriodicChanges \cup HookChanges \cup ArrayGrowths
                \cup Files \cup Starts \cup Messages

LEMMA SubjectsHold == ASpec => []Subjects
<1>1. AInit => Subjects
  BY Zenon DEF AInit, Subjects
<1>2. Subjects /\ [ANext]_avars => Subjects'
  <2> SUFFICES ASSUME Subjects, [ANext]_avars PROVE Subjects'
    OBVIOUS
  <2>1. subject' = subject
    BY DEF ANext, avars
  <2> QED BY <2>1, Zenon DEF Subjects
<1> QED BY <1>1, <1>2, PTL DEF ASpec

LEMMA HeapSubject ==
  ASSUME Subjects, subject.of = "heap"
  PROVE  subject \in HeapChanges
<1> DEFINE of(s) == s.of
<1>1. \A s \in Corrections \cup Windows \cup Fetches \cup SetUps : s.of # "heap"
  BY DEF Corrections, Windows, Fetches, SetUps
<1>2. \A s \in PeriodicChanges \cup ArrayGrowths \cup Files \cup Starts \cup Messages :
        s.of # "heap"
  BY DEF PeriodicChanges, ArrayGrowths, Files, Starts, Messages
<1>3. \A s \in HookChanges : s.of # "heap"
  BY DEF HookChanges
<1>4. NoSubject.of # "heap"
  BY DEF NoSubject
<1> QED BY <1>1, <1>2, <1>3, <1>4, Zenon DEF Subjects

(* Another time for the timer in slot k upsets that slot only.              *)
Retimed(h, k, time) == [h EXCEPT !.at[h.slots[k]] = time]

LEMMA RetimedIs ==
  ASSUME NEW h, IsHeap(h), NEW k \in DOMAIN h.slots, NEW time \in Int
  PROVE  LET g == Retimed(h, k, time)
         IN  /\ Indexed(g) /\ g.slots = h.slots /\ g.active = h.active
             /\ g.at = [h.at EXCEPT ![h.slots[k]] = time]
             /\ OrderedBut(g, k, Len(g.slots))
<1> DEFINE g == Retimed(h, k, time)
           t == h.slots[k]
           at == [h.at EXCEPT ![t] = time]
           n == Len(h.slots)
<1>1. /\ h \in HeapType /\ n \in Nat /\ DOMAIN h.slots = 1..n /\ h.slots \in Seq(Timers)
      /\ h.at \in [Timers -> Int] /\ t \in Timers
  BY DEF IsHeap, Indexed, HeapType
<1>2. g = [h EXCEPT !.at = at]
  BY Zenon DEF Retimed
<1>3. at \in [Timers -> Int] /\ at[t] = time /\ \A u \in Timers : u # t => at[u] = h.at[u]
  BY <1>1
<1> HIDE DEF g, at
<1>4. g \in HeapType /\ g.slots = h.slots /\ g.active = h.active /\ g.at = at
  BY <1>1, <1>2, <1>3 DEF HeapType
<1>5. Indexed(g)
  BY <1>4 DEF IsHeap, Indexed
<1>6. \A i \in 1..n : i # k => At(g, i) = At(h, i)
  <2> SUFFICES ASSUME NEW i \in 1..n, i # k PROVE At(g, i) = At(h, i)
    OBVIOUS
  <2>1. h.slots[i] # t /\ h.slots[i] \in Timers
    BY <1>1 DEF IsHeap, Indexed
  <2> QED BY <1>3, <1>4, <2>1 DEF At
<1>7. OrderedBut(g, k, n)
  <2> SUFFICES ASSUME NEW i \in 2..n
               PROVE  /\ i # k /\ Parent(i) # k => At(g, Parent(i)) <= At(g, i)
                      /\ Parent(i) = k /\ k > 1 => At(g, Parent(k)) <= At(g, i)
    BY DEF OrderedBut
  <2>1. i \in 1..n /\ Parent(i) \in 1..n /\ Parent(i) # i
    <3> HIDE DEF n
    <3>1. n \in Nat /\ i \in Nat /\ i >= 2 /\ i <= n
      BY <1>1
    <3>2. Parent(i) \in 1..(i - 1)
      BY ONLY <3>1, ParentRange
    <3> QED BY ONLY <3>1, <3>2
  <2>2. At(h, Parent(i)) <= At(h, i)
    BY <1>1 DEF IsHeap, Ordered
  <2>3. ASSUME Parent(i) = k, k > 1 PROVE At(g, Parent(k)) <= At(g, i)
    <3>0. k \in Nat /\ k >= 2 /\ k \in 2..n
      BY <1>1, <2>3
    <3>5. Parent(k) \in 1..(k - 1)
      BY ONLY <3>0, ParentRange
    <3>1. k \in 2..n /\ Parent(k) \in 1..n /\ Parent(k) # k
      BY <3>0, <3>5
    <3>2. At(h, Parent(k)) <= At(h, k)
      BY <3>1, <1>1 DEF IsHeap, Ordered
    <3>3. At(h, Parent(k)) \in Int /\ At(h, k) \in Int /\ At(h, i) \in Int
      BY <1>1, <2>1, <3>1, SlotsAre DEF IsHeap
    <3>4. At(g, Parent(k)) = At(h, Parent(k)) /\ At(g, i) = At(h, i)
      BY <1>6, <2>1, <2>3, <3>1
    <3> QED BY <2>2, <2>3, <3>2, <3>3, <3>4
  <2>4. ASSUME i # k, Parent(i) # k PROVE At(g, Parent(i)) <= At(g, i)
    BY <1>6, <2>1, <2>2, <2>4
  <2> QED BY <2>3, <2>4
<1> QED BY <1>4, <1>5, <1>7 DEF g, at

(* A change of the heap h that is about the timer t only. *)
OnlyFor(h, t, g) ==
  /\ IsHeap(g)
  /\ \A u \in Timers \ {t} : g.at[u] = h.at[u] /\ (g.active[u] = 0 <=> h.active[u] = 0)

LEMMA LeaveOnlyFor ==
  ASSUME NEW h, IsHeap(h), NEW t \in Timers, h.active[t] # 0
  PROVE  OnlyFor(h, t, Leave(h, t))
BY LeaveKeeps DEF OnlyFor

LEMMA EnterOnlyFor ==
  ASSUME NEW h, IsHeap(h), NEW t \in Timers, h.active[t] = 0, NEW after \in Int
  PROVE  OnlyFor(h, t, Enter(h, t, after))
<1> DEFINE g == Enter(h, t, after)
<1>1. /\ IsHeap(g) /\ g.at = [h.at EXCEPT ![t] = after]
      /\ \A u \in Timers : g.active[u] = 0 <=> u # t /\ h.active[u] = 0
  BY EnterKeeps
<1>2. h.at \in [Timers -> Int]
  BY DEF IsHeap, Indexed, HeapType
<1> HIDE DEF g
<1>3. OnlyFor(h, t, g)
  BY <1>1, <1>2 DEF OnlyFor
<1> QED BY <1>3 DEF g

(* ev_timer_again, for a timer that is in the heap or not. *)
LEMMA AgainOnlyFor ==
  ASSUME NEW h, IsHeap(h), NEW t \in Timers, NEW repeat \in Int
  PROVE  OnlyFor(h, t, TimerAgain(h, t, repeat))
<1>1. CASE h.active[t] # 0 /\ repeat = 0
  BY <1>1, LeaveOnlyFor DEF TimerAgain
<1>2. CASE h.active[t] # 0 /\ repeat # 0
  <2> DEFINE k == h.active[t]
             r == Retimed(h, k, repeat)
             g == AdjustHeap(r, k)
  <2>1. k \in DOMAIN h.slots /\ h.slots[k] = t
    BY <1>2 DEF IsHeap, Indexed
  <2>2. TimerAgain(h, t, repeat) = g
    BY <1>2, <2>1, Zenon DEF TimerAgain, Retimed
  <2> HIDE DEF k
  <2>3. /\ Indexed(r) /\ r.slots = h.slots /\ r.active = h.active
        /\ r.at = [h.at EXCEPT ![t] = repeat] /\ OrderedBut(r, k, Len(r.slots))
    <3>1. /\ Indexed(r) /\ r.slots = h.slots /\ r.active = h.active
          /\ r.at = [h.at EXCEPT ![h.slots[k]] = repeat]
          /\ OrderedBut(r, k, Len(r.slots))
      BY ONLY <2>1, IsHeap(h), repeat \in Int, RetimedIs
    <3> HIDE DEF r
    <3> QED BY ONLY <2>1, <3>1
  <2>4. h.at \in [Timers -> Int]
    BY DEF IsHeap, Indexed, HeapType
  <2> HIDE DEF r
  <2>5. k \in DOMAIN r.slots
    BY <2>1, <2>3
  <2>6. IsHeap(g) /\ SameTimers(r, g)
    BY <2>3, <2>5, AdjustHeapOrders
  <2> HIDE DEF g
  <2> QED BY <2>2, <2>3, <2>4, <2>6 DEF OnlyFor, SameTimers
<1>3. CASE h.active[t] = 0 /\ repeat = 0
  BY <1>3 DEF TimerAgain, OnlyFor
<1>4. CASE h.active[t] = 0 /\ repeat # 0
  BY <1>4, EnterOnlyFor DEF TimerAgain
<1> QED BY <1>1, <1>2, <1>3, <1>4

(* timers_reify, for a timer that repeats. *)
LEMMA RepeatedOnlyFor ==
  ASSUME NEW h, IsHeap(h), h.slots # <<>>, NEW repeat \in Int
  PROVE  OnlyFor(h, Root(h), Repeated(h, repeat))
<1> DEFINE t == Root(h)
           next == h.at[t] + repeat
           time == IF next < 0 THEN 0 ELSE next
           k == 1
           r == Retimed(h, k, time)
           g == DownHeap(r, k)
<1>1. k \in DOMAIN h.slots /\ h.slots[k] = t /\ t \in Timers /\ h.at \in [Timers -> Int]
  BY DEF IsHeap, Indexed, HeapType, Root
<1>2. time \in Int
  BY <1>1
<1>3. Repeated(h, repeat) = g
  BY <1>1, Zenon DEF Repeated, Retimed
<1>4. ~ (k > 1)
  OBVIOUS
<1> HIDE DEF t, k, time
<1>5. /\ Indexed(r) /\ r.slots = h.slots /\ r.active = h.active
      /\ r.at = [h.at EXCEPT ![t] = time] /\ OrderedBut(r, k, Len(r.slots))
  BY <1>1, <1>2, RetimedIs
<1> HIDE DEF r
<1>6. k \in DOMAIN r.slots
  BY <1>1, <1>5
<1>7. Indexed(g) /\ SameTimers(r, g) /\ Ordered(g, Len(r.slots))
  BY ONLY <1>4, <1>5, <1>6, DownHeapOrders
<1> HIDE DEF g
<1>8. IsHeap(g)
  BY <1>7 DEF IsHeap, SameTimers
<1>9. OnlyFor(h, t, g)
  BY <1>1, <1>5, <1>7, <1>8 DEF OnlyFor, SameTimers
<1> QED BY <1>3, <1>9 DEF t

(* A jump of the clock shifts every timer of the heap alike.                *)
LEMMA RescheduledKeeps ==
  ASSUME NEW h, IsHeap(h), NEW adjust \in Int
  PROVE  LET g == TimersReschedule(h, adjust)
         IN  /\ IsHeap(g) /\ g.active = h.active /\ g.slots = h.slots
             /\ \A u \in Timers :
                  g.at[u] = IF h.active[u] = 0 THEN h.at[u] ELSE h.at[u] + adjust
<1> DEFINE g == TimersReschedule(h, adjust)
           at == [t \in Timers |-> IF h.active[t] = 0 THEN h.at[t] ELSE h.at[t] + adjust]
           n == Len(h.slots)
<1>1. /\ h \in HeapType /\ n \in Nat /\ DOMAIN h.slots = 1..n /\ h.slots \in Seq(Timers)
      /\ h.at \in [Timers -> Int]
  BY DEF IsHeap, Indexed, HeapType
<1>2. at \in [Timers -> Int]
      /\ \A u \in Timers : at[u] = IF h.active[u] = 0 THEN h.at[u] ELSE h.at[u] + adjust
  BY <1>1
<1>3. g = [h EXCEPT !.at = at]
  BY Zenon DEF TimersReschedule
<1> HIDE DEF g, at
<1>4. g \in HeapType /\ g.slots = h.slots /\ g.active = h.active /\ g.at = at
  BY <1>1, <1>2, <1>3 DEF HeapType
<1>5. Indexed(g)
  BY <1>4 DEF IsHeap, Indexed
<1>6. \A i \in 1..n : At(h, i) \in Int /\ At(g, i) = At(h, i) + adjust
  <2> SUFFICES ASSUME NEW i \in 1..n PROVE At(h, i) \in Int /\ At(g, i) = At(h, i) + adjust
    OBVIOUS
  <2>1. h.slots[i] \in Timers /\ h.active[h.slots[i]] = i /\ i # 0 /\ At(h, i) \in Int
    BY <1>1, SlotsAre DEF IsHeap
  <2> QED BY <1>2, <1>4, <2>1 DEF At
<1>7. Ordered(g, n)
  <2> SUFFICES ASSUME NEW i \in 2..n PROVE At(g, Parent(i)) <= At(g, i)
    BY DEF Ordered
  <2>1. i \in 1..n /\ Parent(i) \in 1..n
    BY <1>1, ParentRange
  <2>2. At(h, Parent(i)) <= At(h, i)
    BY DEF IsHeap, Ordered
  <2> HIDE DEF n
  <2> QED BY <1>6, <2>1, <2>2
<1>8. IsHeap(g)
  BY <1>4, <1>5, <1>7 DEF IsHeap
<1> QED BY <1>2, <1>4, <1>8 DEF g

(* What IsHeap says is that a heap is well formed.                          *)
LEMMA HeapIsWellFormed ==
  ASSUME NEW h, IsHeap(h)
  PROVE  WellFormed(h)
<1> DEFINE n == Len(h.slots)
<1>1. /\ h.slots \in Seq(Timers) /\ n \in Nat /\ DOMAIN h.slots = 1..n
      /\ \A i \in 1..n : h.active[h.slots[i]] = i
      /\ \A t \in Timers : h.active[t] # 0 => h.active[t] \in 1..n
                                              /\ h.slots[h.active[t]] = t
  BY DEF IsHeap, Indexed, HeapType
<1>2. InOrder(h)
  BY DEF IsHeap, Ordered, InOrder
<1>3. IsInjective(h.slots)
  BY <1>1 DEF IsInjective
<1>4. ASSUME NEW t \in Timers
      PROVE  h.active[t] = IF Contains(h.slots, t)
                           THEN CHOOSE k \in DOMAIN h.slots : h.slots[k] = t ELSE 0
  <2>1. CASE \E k \in 1..n : h.slots[k] = t
    <3>1. PICK k \in 1..n : h.slots[k] = t
      BY <2>1
    <3>2. h.active[t] = k /\ \A i \in 1..n : h.slots[i] = t <=> i = k
      BY <1>1, <3>1
    <3>3. (CHOOSE i \in DOMAIN h.slots : h.slots[i] = t) = k
      BY <1>1, <3>2
    <3> QED BY <2>1, <3>2, <3>3 DEF Contains
  <2>2. CASE ~ \E k \in 1..n : h.slots[k] = t
    BY <1>1, <2>2 DEF Contains
  <2> QED BY <2>1, <2>2
<1> QED BY <1>2, <1>3, <1>4 DEF WellFormed

(* ... and the heaps the run begins with are such heaps. *)
LEMMA GivenIsHeap ==
  ASSUME NEW h \in Heaps
  PROVE  IsHeap(h)
<1>1. PICK n \in HeapSizes, at \in [Timers -> HeapTimes] : h = HeapOf(n, at)
  BY DEF Heaps
<1>2. /\ n \in Nat /\ 1..n \subseteq Timers /\ Timers \subseteq Nat \ {0}
      /\ HeapTimes \subseteq Int
  BY AlgorithmsAssumption
<1> DEFINE slots == [k \in 1..n |-> k]
           times == [t \in Timers |-> IF t <= n THEN at[t] ELSE 0]
           active == [t \in Timers |-> IF t <= n THEN t ELSE 0]
<1>3. h = [slots |-> slots, at |-> times, active |-> active]
  BY <1>1, Zenon DEF HeapOf
<1>4. /\ slots \in Seq(Timers) /\ Len(slots) = n /\ DOMAIN slots = 1..n
      /\ \A k \in 1..n : slots[k] = k
  <2>1. slots \in [1..n -> Timers]
    BY <1>2
  <2> QED BY <1>2, <2>1
<1>5. times \in [Timers -> Int] /\ active \in [Timers -> Nat]
      /\ \A t \in Timers : active[t] = IF t <= n THEN t ELSE 0
  <2>1. \A t \in Timers : at[t] \in Int
    BY <1>2
  <2>2. times \in [Timers -> Int]
    BY <2>1
  <2>3. active \in [Timers -> Nat]
    BY <1>2
  <2> QED BY <2>2, <2>3
<1> HIDE DEF slots, times, active
<1>6. h \in HeapType
  BY <1>3, <1>4, <1>5 DEF HeapType
<1>7. Indexed(h)
  <2>1. \A k \in 1..n : active[slots[k]] = k
    BY <1>2, <1>4, <1>5
  <2>2. \A t \in Timers : active[t] # 0 => active[t] \in 1..n /\ slots[active[t]] = t
    BY <1>2, <1>4, <1>5
  <2> QED BY <1>3, <1>4, <1>6, <2>1, <2>2 DEF Indexed
<1>8. InOrder(h)
  BY DEF Heaps
<1> QED BY <1>7, <1>8 DEF IsHeap, Ordered, InOrder

(* ev_timer_start, ev_timer_stop, ev_timer_again and a timer that comes     *)
(* round: the heap stays well formed and the other timers stay as they are. *)
THEOREM HeapIsKeptAlways == ASpec => []HeapIsKept
<1>1. Subjects => HeapIsKept
  <2> SUFFICES ASSUME Subjects, subject.of = "heap" PROVE HeapIsKept
    BY DEF HeapIsKept
  <2> DEFINE h == subject.heap
             t == subject.timer
             after == subject.after
             g == CASE subject.how = "enter_leave" ->
                         IF h.active[t] # 0 THEN Leave(h, t) ELSE Enter(h, t, after)
                    [] subject.how = "again" -> TimerAgain(h, t, after)
                    [] subject.how = "repeat" ->
                         IF h.active[t] # 0 /\ h.slots[1] = t /\ after > 0
                         THEN Repeated(h, after) ELSE TimersReschedule(h, -1)
  <2>1. subject \in HeapChanges
    BY HeapSubject
  <2>2. /\ h \in Heaps /\ t \in Timers /\ after \in HeapTimes
        /\ subject.how \in {"enter_leave", "again", "repeat"}
    BY <2>1 DEF HeapChanges
  <2>3. IsHeap(h) /\ after \in Int
    BY <2>2, GivenIsHeap, AlgorithmsAssumption
  <2> SUFFICES /\ IsHeap(g)
               /\ \A u \in Timers \ {t} :
                    /\ g.active[u] = 0 <=> h.active[u] = 0
                    /\ \/ g.at[u] = h.at[u]
                       \/ subject.how = "repeat" /\ g.at[u] = h.at[u] - 1
    BY HeapIsWellFormed, Zenon DEF HeapIsKept
  <2> HIDE DEF h, t, after
  <2>4. CASE subject.how = "enter_leave"
    <3>1. g = IF h.active[t] # 0 THEN Leave(h, t) ELSE Enter(h, t, after)
      BY <2>4
    <3>2. OnlyFor(h, t, g)
      BY <2>2, <2>3, <3>1, LeaveOnlyFor, EnterOnlyFor
    <3> QED BY <3>2 DEF OnlyFor
  <2>5. CASE subject.how = "again"
    <3>1. g = TimerAgain(h, t, after)
      BY <2>5
    <3>2. OnlyFor(h, t, g)
      BY <2>2, <2>3, <3>1, AgainOnlyFor
    <3> QED BY <3>2 DEF OnlyFor
  <2>6. CASE subject.how = "repeat" /\ h.active[t] # 0 /\ h.slots[1] = t /\ after > 0
    <3>1. g = Repeated(h, after)
      BY <2>6
    <3>2. h.slots # <<>>
      BY <2>2, <2>3, <2>6 DEF IsHeap, Indexed
    <3>3. OnlyFor(h, t, g)
      BY <2>3, <2>6, <3>1, <3>2, RepeatedOnlyFor DEF Root
    <3> QED BY <3>3 DEF OnlyFor
  <2>7. CASE subject.how = "repeat" /\ ~ (h.active[t] # 0 /\ h.slots[1] = t /\ after > 0)
    <3>1. g = TimersReschedule(h, -1)
      BY <2>7
    <3> HIDE DEF g
    <3>2. /\ IsHeap(g) /\ g.active = h.active
          /\ \A u \in Timers : g.at[u] = IF h.active[u] = 0 THEN h.at[u] ELSE h.at[u] + (-1)
      BY <2>3, <3>1, RescheduledKeeps
    <3>3. h.at \in [Timers -> Int]
      BY <2>3 DEF IsHeap, Indexed, HeapType
    <3> QED BY <2>7, <3>2, <3>3
  <2> QED BY <2>2, <2>4, <2>5, <2>6, <2>7
<1> QED BY <1>1, SubjectsHold, PTL

--------------------------------------------------------------------------------
(* What a recursive definition says has a solution: H[f] is the right-hand  *)
(* side with f for what is defined, and looks only at what is of less rank. *)
Recursive(D, V, rank, bound, H) ==
  /\ V # {} /\ bound \in Nat /\ rank \in [D -> 0..bound]
  /\ H \in [[D -> V] -> [D -> V]]
  /\ \A f, g \in [D -> V] : \A d \in D :
       (\A e \in D : rank[e] < rank[d] => f[e] = g[e]) => H[f][d] = H[g][d]

LEMMA RecursionEnds ==
  ASSUME NEW D, NEW V, NEW rank, NEW bound, NEW H, Recursive(D, V, rank, bound, H)
  PROVE  \E f \in [D -> V] : f = H[f]
<1> DEFINE Good(f, m) == \A d \in D : rank[d] < m => f[d] = H[f][d]
           S == {m \in Nat : \E f \in [D -> V] : Good(f, m)}
<1>1. 0 \in S
  <2>1. PICK v \in V : TRUE
    BY DEF Recursive
  <2> DEFINE f == [d \in D |-> v]
  <2>2. f \in [D -> V]
    OBVIOUS
  <2>3. Good(f, 0)
    BY DEF Recursive
  <2> HIDE DEF f, Good
  <2> QED BY <2>2, <2>3
<1>2. ASSUME NEW m \in Nat, m \in S
      PROVE  m + 1 \in S
  <2>1. PICK f \in [D -> V] : Good(f, m)
    BY <1>2
  <2> DEFINE g == H[f]
  <2>2. g \in [D -> V]
    BY DEF Recursive
  <2>3. ASSUME NEW d \in D, rank[d] < m + 1
        PROVE  g[d] = H[g][d]
    <3>1. \A e \in D : rank[e] < rank[d] => f[e] = g[e]
      <4> SUFFICES ASSUME NEW e \in D, rank[e] < rank[d] PROVE f[e] = g[e]
        OBVIOUS
      <4>1. rank[e] < m
        BY <2>3 DEF Recursive
      <4> QED BY <2>1, <4>1
    <3> HIDE DEF g
    <3>2. H[f][d] = H[g][d]
      BY <2>2, <3>1 DEF Recursive
    <3> QED BY <3>2 DEF g
  <2>4. Good(g, m + 1)
    BY <2>3
  <2> HIDE DEF g, Good
  <2> QED BY <2>2, <2>4
<1>3. bound + 1 \in S
  <2> HIDE DEF S
  <2>1. Nat \subseteq S
    BY <1>1, <1>2, Induction
  <2> QED BY <2>1 DEF Recursive
<1>4. PICK f \in [D -> V] : Good(f, bound + 1)
  BY <1>3
<1>5. \A d \in D : f[d] = H[f][d]
  BY <1>4 DEF Recursive
<1>6. H[f] \in [D -> V]
  BY DEF Recursive
<1>7. f = H[f]
  BY <1>5, <1>6
<1> QED BY <1>7

--------------------------------------------------------------------------------
(* The filter. *)

(* The sum over a part of the readings that FoldSeq comes by, whatever the  *)
(* order it takes them in. *)
SumOver(s, g) ==
  g = [P \in SUBSET (DOMAIN s) |->
         IF P = {} THEN 0
         ELSE LET x == CHOOSE x \in P : TRUE IN s[x] + g[P \ {x}]]

LEMMA PartsAreFinite ==
  ASSUME NEW n \in Nat, NEW P \in SUBSET (1..n)
  PROVE  /\ Cardinality(P) \in 0..n /\ (Cardinality(P) = 0 <=> P = {})
         /\ P # {} => \A x \in P : /\ P \ {x} \in SUBSET (1..n)
                                   /\ Cardinality(P \ {x}) = Cardinality(P) - 1
<1>1. IsFiniteSet(1..n) /\ Cardinality(1..n) = n
  BY FS_Interval
<1>2. IsFiniteSet(P) /\ Cardinality(P) <= n
  BY <1>1, FS_Subset
<1>3. Cardinality(P) \in Nat
  BY <1>2, FS_CardinalityType
<1>4. \A x \in P : Cardinality(P \ {x}) = Cardinality(P) - 1
  BY <1>2, FS_RemoveElement
<1>5. Cardinality(P) = 0 <=> P = {}
  BY <1>2, FS_EmptySet
<1> QED BY <1>2, <1>3, <1>4, <1>5

LEMMA SumExists ==
  ASSUME NEW s \in Seq(Int)
  PROVE  \E g : SumOver(s, g)
<1> DEFINE n == Len(s)
           D == SUBSET (1..n)
           Sum(f, P) == IF P = {} THEN 0
                        ELSE LET x == CHOOSE x \in P : TRUE IN s[x] + f[P \ {x}]
           H == [f \in [D -> Int] |-> [P \in D |-> Sum(f, P)]]
           rank == [P \in D |-> Cardinality(P)]
<1>1. n \in Nat /\ DOMAIN s = 1..n /\ \A i \in 1..n : s[i] \in Int
  OBVIOUS
<1>2. rank \in [D -> 0..n] /\ \A P \in D : rank[P] = Cardinality(P)
  BY <1>1, PartsAreFinite
<1>3. ASSUME NEW f \in [D -> Int], NEW P \in D
      PROVE  Sum(f, P) \in Int
  <2>1. CASE P # {}
    <3> DEFINE x == CHOOSE x \in P : TRUE
    <3>1. x \in P
      BY <2>1
    <3>2. x \in 1..n /\ P \ {x} \in D
      BY <3>1
    <3>3. Sum(f, P) = s[x] + f[P \ {x}]
      BY <2>1
    <3> HIDE DEF x, Sum, D
    <3>4. s[x] \in Int /\ f[P \ {x}] \in Int
      BY <1>1, <3>2
    <3> QED BY <3>3, <3>4
  <2> QED BY <2>1
<1>4. H \in [[D -> Int] -> [D -> Int]]
  BY <1>3
<1>5. ASSUME NEW f \in [D -> Int], NEW g \in [D -> Int], NEW P \in D,
             \A e \in D : rank[e] < rank[P] => f[e] = g[e]
      PROVE  Sum(f, P) = Sum(g, P)
  <2>1. CASE P # {}
    <3> DEFINE x == CHOOSE x \in P : TRUE
    <3>1. x \in P
      BY <2>1
    <3>2. /\ P \ {x} \in D /\ Cardinality(P) \in Nat
          /\ Cardinality(P \ {x}) = Cardinality(P) - 1
      <4> HIDE DEF x
      <4>1. P \in SUBSET (1..n) /\ P # {}
        BY <2>1
      <4>2. /\ Cardinality(P) \in 0..n
            /\ \A y \in P : /\ P \ {y} \in SUBSET (1..n)
                           /\ Cardinality(P \ {y}) = Cardinality(P) - 1
        <5> HIDE DEF n
        <5> QED BY ONLY <1>1, <4>1, PartsAreFinite
      <4> QED BY <3>1, <4>2
    <3>3. Sum(f, P) = s[x] + f[P \ {x}] /\ Sum(g, P) = s[x] + g[P \ {x}]
      BY <2>1
    <3> HIDE DEF x, Sum, D, rank
    <3>4. rank[P \ {x}] < rank[P]
      BY <1>2, <3>2
    <3> QED BY <1>5, <3>2, <3>3, <3>4
  <2> QED BY <2>1
<1>6. \A f \in [D -> Int], P \in D : H[f][P] = Sum(f, P)
  OBVIOUS
<1> HIDE DEF D, rank, Sum
<1>7. Recursive(D, Int, rank, n, H)
  <2> HIDE DEF H
  <2>1. ASSUME NEW f \in [D -> Int], NEW g \in [D -> Int], NEW P \in D,
               \A e \in D : rank[e] < rank[P] => f[e] = g[e]
        PROVE  H[f][P] = H[g][P]
    <3>1. Sum(f, P) = Sum(g, P)
      BY ONLY <1>5, <2>1, Zenon
    <3> QED BY <1>6, <3>1, Zenon
  <2>2. Int # {}
    BY 0 \in Int
  <2> QED BY ONLY <1>1, <1>2, <1>4, <2>1, <2>2, Zenon DEF Recursive
<1>8. PICK f \in [D -> Int] : f = H[f]
  <2> HIDE DEF H
  <2> QED BY <1>7, RecursionEnds
<1>9. f = [P \in D |-> Sum(f, P)]
  BY <1>8
<1>10. SumOver(s, f)
  BY <1>1, <1>9 DEF D, Sum, SumOver
<1> QED BY <1>10

LEMMA MeanIsOfSum ==
  ASSUME NEW s
  PROVE  Mean(s) = (CHOOSE g : SumOver(s, g))[DOMAIN s] \div Len(s)
BY Zenon DEF Mean, FoldSeq, FoldFunction, FoldFunctionOnSet, MapThenFoldSet,
   SumOver

(* A quotient is where its bounds say.                                      *)
LEMMA QuotientBetween ==
  ASSUME NEW a \in Int, NEW n \in Nat \ {0}, NEW lo \in Int, NEW hi \in Int,
         n * lo <= a, a <= n * hi
  PROVE  a \div n \in Int /\ lo <= a \div n /\ a \div n <= hi
<1> DEFINE q == a \div n
<1>1. q \in Int /\ n * q <= a /\ a < n * (q + 1)
  OBVIOUS
<1> HIDE DEF q
<1>2. ASSUME q < lo PROVE FALSE
  <2>1. q + 1 <= lo
    BY <1>1, <1>2
  <2>2. n * (q + 1) <= n * lo
    BY <1>1, <2>1
  <2> QED BY <1>1, <2>2
<1>3. ASSUME hi < q PROVE FALSE
  <2>1. hi + 1 <= q
    BY <1>1, <1>3
  <2>2. n * (hi + 1) <= n * q
    BY <1>1, <2>1
  <2>3. n * (hi + 1) = n * hi + n
    OBVIOUS
  <2> QED BY <1>1, <2>2, <2>3
<1> QED BY <1>1, <1>2, <1>3 DEF q

(* The mean is between any bounds of the readings.                          *)
LEMMA MeanBetween ==
  ASSUME NEW s \in Seq(Int), s # <<>>, NEW lo \in Int, NEW hi \in Int,
         \A i \in 1..Len(s) : lo <= s[i] /\ s[i] <= hi
  PROVE  Mean(s) \in Int /\ lo <= Mean(s) /\ Mean(s) <= hi
<1> DEFINE n == Len(s)
           g == CHOOSE g : SumOver(s, g)
           S == {m \in Nat : \A P \in SUBSET (1..n) :
                   Cardinality(P) = m => /\ g[P] \in Int
                                         /\ m * lo <= g[P] /\ g[P] <= m * hi}
<1>1. n \in Nat \ {0} /\ DOMAIN s = 1..n /\ \A i \in 1..n : s[i] \in Int
  OBVIOUS
<1>2. SumOver(s, g)
  BY SumExists
<1> HIDE DEF g
<1>3. \A P \in SUBSET (1..n) :
        g[P] = IF P = {} THEN 0
               ELSE LET x == CHOOSE x \in P : TRUE IN s[x] + g[P \ {x}]
  <2> HIDE DEF n
  <2> QED BY <1>1, <1>2 DEF SumOver
<1> HIDE DEF n
<1>4. 0 \in S
  <2> SUFFICES ASSUME NEW P \in SUBSET (1..n), Cardinality(P) = 0
               PROVE  g[P] \in Int /\ 0 * lo <= g[P] /\ g[P] <= 0 * hi
    OBVIOUS
  <2>1. P = {}
    BY <1>1, PartsAreFinite
  <2>2. g[P] = 0
    BY <1>3, <2>1
  <2> QED BY <2>2
<1>5. ASSUME NEW m \in Nat, m \in S
      PROVE  m + 1 \in S
  <2> SUFFICES ASSUME NEW P \in SUBSET (1..n), Cardinality(P) = m + 1
               PROVE  g[P] \in Int /\ (m + 1) * lo <= g[P] /\ g[P] <= (m + 1) * hi
    OBVIOUS
  <2> DEFINE x == CHOOSE x \in P : TRUE
             Q == P \ {x}
  <2>1. P # {}
    BY <1>1, PartsAreFinite
  <2>2. x \in P
    BY <2>1
  <2>3. g[P] = s[x] + g[Q]
    BY <1>3, <2>1
  <2> HIDE DEF x
  <2>4. Q \in SUBSET (1..n) /\ Cardinality(Q) = m
    <3>1. \A y \in P : Cardinality(P \ {y}) = Cardinality(P) - 1
      BY <1>1, <2>1, PartsAreFinite
    <3> QED BY <2>2, <3>1
  <2> HIDE DEF Q
  <2>5. g[Q] \in Int /\ m * lo <= g[Q] /\ g[Q] <= m * hi
    BY <1>5, <2>4
  <2>6. s[x] \in Int /\ lo <= s[x] /\ s[x] <= hi
    BY <1>1, <2>2 DEF n
  <2>7. (m + 1) * lo = m * lo + lo /\ (m + 1) * hi = m * hi + hi
        /\ m * lo \in Int /\ m * hi \in Int
    OBVIOUS
  <2> QED BY <2>3, <2>5, <2>6, <2>7
<1>6. n \in S
  <2> HIDE DEF S
  <2> QED BY <1>1, <1>4, <1>5, Induction
<1> DEFINE sum == g[1..n]
<1>7. sum \in Int /\ n * lo <= sum /\ sum <= n * hi
  <2>1. Cardinality(1..n) = n
    BY <1>1, FS_Interval
  <2> QED BY <1>6, <2>1
<1>8. Mean(s) = sum \div n
  BY <1>1, MeanIsOfSum DEF g, n
<1> HIDE DEF sum
<1>9. sum \div n \in Int /\ lo <= sum \div n /\ sum \div n <= hi
  BY <1>1, <1>7, QuotientBetween
<1> QED BY <1>8, <1>9

(* v is within the first n readings. *)
Within(r, n, v) == \E i, j \in 1..n : r[i] <= v /\ v <= r[j]

LEMMA WithinIsBounds ==
  ASSUME NEW r \in Seq(Int), NEW n \in 1..Len(r)
  PROVE  \E lo, hi \in Int : \A v \in Int : Within(r, n, v) <=> lo <= v /\ v <= hi
<1> DEFINE a == [i \in 1..n |-> r[i]]
           b == [i \in 1..n |-> -r[i]]
           C == 1..n
<1>1. n \in Nat /\ n > 0 /\ \A i \in 1..n : r[i] \in Int
  OBVIOUS
<1>2. a \in [1..n -> Int] /\ \A i \in 1..n : a[i] = r[i]
  BY <1>1
<1>3. b \in [1..n -> Int] /\ \A i \in 1..n : b[i] = -r[i]
  BY <1>1
<1>4. C \in SUBSET (1..n) /\ C # {}
  BY <1>1
<1> HIDE DEF a, b, C
<1>5. PICK i \in C : \A d \in C : a[i] < a[d] \/ (a[i] = a[d] /\ i <= d)
  BY ONLY <1>1, <1>2, <1>4, FirstLeast
<1>6. PICK j \in C : \A d \in C : b[j] < b[d] \/ (b[j] = b[d] /\ j <= d)
  BY ONLY <1>1, <1>3, <1>4, FirstLeast
<1>7. /\ i \in 1..n /\ j \in 1..n
      /\ \A d \in 1..n : r[i] <= r[d] /\ r[d] <= r[j]
  <2>1. i \in 1..n /\ j \in 1..n
    BY DEF C
  <2> SUFFICES ASSUME NEW d \in 1..n PROVE r[i] <= r[d] /\ r[d] <= r[j]
    BY <2>1
  <2>2. a[i] < a[d] \/ a[i] = a[d]
    BY <1>5 DEF C
  <2>3. b[j] < b[d] \/ b[j] = b[d]
    BY <1>6 DEF C
  <2>4. r[i] \in Int /\ r[j] \in Int /\ r[d] \in Int
    BY <1>1, <2>1
  <2>5. a[i] = r[i] /\ a[d] = r[d] /\ b[j] = -r[j] /\ b[d] = -r[d]
    BY ONLY <1>2, <1>3, <2>1, d \in 1..n
  <2>6. r[i] <= r[d]
    BY ONLY <2>2, <2>4, <2>5
  <2>7. -r[j] <= -r[d]
    BY ONLY <2>3, <2>4, <2>5
  <2> QED BY ONLY <2>4, <2>6, <2>7
<1>8. ASSUME NEW v \in Int
      PROVE  Within(r, n, v) <=> r[i] <= v /\ v <= r[j]
  <2>1. ASSUME Within(r, n, v) PROVE r[i] <= v /\ v <= r[j]
    <3>1. PICK x \in 1..n, y \in 1..n : r[x] <= v /\ v <= r[y]
      BY <2>1 DEF Within
    <3>2. r[x] \in Int /\ r[y] \in Int /\ r[i] \in Int /\ r[j] \in Int
      BY <1>1, <1>7
    <3>3. r[i] <= r[x] /\ r[y] <= r[j]
      BY ONLY <1>7, x \in 1..n, y \in 1..n
    <3> QED BY ONLY <3>1, <3>2, <3>3, v \in Int
  <2> QED BY <1>7, <2>1 DEF Within
<1> QED BY <1>1, <1>7, <1>8

FilterType == [points : Nat, k : 0..10, values : Seq(Int), val : Int]

(* What a filter holds comes from the first n readings.                     *)
Sifts(r, n, f) ==
  /\ f \in FilterType
  /\ \A i \in 1..Len(f.values) : Within(r, n, f.values[i])
  /\ f.val = 0 \/ Within(r, n, f.val)

(* One reading more. *)
LEMMA PushSifts ==
  ASSUME NEW r \in Seq(Int), NEW n \in 1..Len(r), NEW f, Sifts(r, n - 1, f)
  PROVE  Sifts(r, n, Push(f, r[n])) /\ Push(f, r[n]).values # <<>>
<1> DEFINE values == Append(f.values, r[n])
           p == Push(f, r[n])
<1>1. /\ f \in FilterType /\ f.values \in Seq(Int) /\ f.val \in Int /\ r[n] \in Int
      /\ n \in Nat /\ n > 0
  BY DEF Sifts, FilterType
<1>2. p = [f EXCEPT !.values = values]
  BY Zenon DEF Push
<1>3. /\ values \in Seq(Int) /\ Len(values) = Len(f.values) + 1
      /\ \A i \in 1..Len(f.values) : values[i] = f.values[i]
      /\ values[Len(f.values) + 1] = r[n]
  BY <1>1
<1> HIDE DEF values, p
<1>4. values # <<>>
  BY <1>1, <1>3
<1>5. p \in FilterType /\ p.values = values /\ p.val = f.val
  BY <1>1, <1>2, <1>3 DEF FilterType
<1>6. \A v : Within(r, n - 1, v) => Within(r, n, v)
  BY <1>1 DEF Within
<1>7. Within(r, n, r[n])
  BY <1>1 DEF Within
<1>8. ASSUME NEW i \in 1..Len(values) PROVE Within(r, n, values[i])
  <2>1. CASE i \in 1..Len(f.values)
    BY <1>3, <1>6, <2>1 DEF Sifts
  <2>2. CASE i = Len(f.values) + 1
    BY <1>3, <1>7, <2>2
  <2> QED BY <1>1, <1>3, <2>1, <2>2
<1>9. Sifts(r, n, p)
  BY <1>5, <1>6, <1>8 DEF Sifts
<1> QED BY <1>4, <1>5, <1>9 DEF p

(* A weighted mean is where both its parts are.                             *)
LEMMA MixBetween ==
  ASSUME NEW a \in Int, NEW b \in Int, NEW k \in 0..10, NEW lo \in Int, NEW hi \in Int,
         lo <= a, a <= hi, lo <= b, b <= hi
  PROVE  LET mix == a * (10 - k) + b * k
         IN  mix \in Int /\ 10 * lo <= mix /\ mix <= 10 * hi
<1> DEFINE c == 10 - k
<1>1. c \in Nat /\ k \in Nat /\ c + k = 10
  OBVIOUS
<1> HIDE DEF c
<1>2. lo * c <= a * c /\ a * c <= hi * c
  BY <1>1
<1>3. lo * k <= b * k /\ b * k <= hi * k
  BY <1>1
<1>4. lo * c + lo * k = 10 * lo /\ hi * c + hi * k = 10 * hi
  <2>1. lo * (c + k) = lo * c + lo * k /\ hi * (c + k) = hi * c + hi * k
    BY <1>1
  <2> QED BY <1>1, <2>1
<1>5. /\ lo * c \in Int /\ lo * k \in Int /\ hi * c \in Int /\ hi * k \in Int
      /\ a * c \in Int /\ b * k \in Int
  BY <1>1
<1>6. LET mix == a * c + b * k
      IN  mix \in Int /\ 10 * lo <= mix /\ mix <= 10 * hi
  BY <1>2, <1>3, <1>4, <1>5
<1> QED BY <1>6 DEF c

(* The value of a window and of what was smoothed before.                   *)
LEMMA ValueSifts ==
  ASSUME NEW r \in Seq(Int), NEW n \in 1..Len(r), NEW p, Sifts(r, n, p), p.values # <<>>
  PROVE  Value(p) \in Int /\ Within(r, n, Value(p)) /\ Sifts(r, n, AfterValue(p))
<1>1. /\ p \in FilterType /\ p.values \in Seq(Int) /\ p.val \in Int /\ p.k \in 0..10
      /\ p.points \in Nat /\ Len(p.values) \in Nat
      /\ \A i \in 1..Len(p.values) : p.values[i] \in Int
  BY DEF Sifts, FilterType
<1>2. PICK lo \in Int, hi \in Int :
        \A v \in Int : Within(r, n, v) <=> lo <= v /\ v <= hi
  BY WithinIsBounds
<1> DEFINE mean == Mean(p.values)
           mix == p.val * (10 - p.k) + mean * p.k
<1>3. mean \in Int /\ lo <= mean /\ mean <= hi
  <2>1. \A i \in 1..Len(p.values) : lo <= p.values[i] /\ p.values[i] <= hi
    BY <1>1, <1>2 DEF Sifts
  <2> QED BY <1>1, <2>1, MeanBetween
<1> HIDE DEF mean
<1>4. ASSUME ~ (p.val < 1)
      PROVE  mix \div 10 \in Int /\ lo <= mix \div 10 /\ mix \div 10 <= hi
  <2>1. lo <= p.val /\ p.val <= hi
    BY <1>1, <1>2, <1>4 DEF Sifts
  <2>8. mix \in Int /\ 10 * lo <= mix /\ mix <= 10 * hi
    BY ONLY <1>1, <1>3, <2>1, MixBetween
  <2> HIDE DEF mix
  <2> QED BY <2>8, QuotientBetween
<1>5. Smoothed(p) \in Int /\ lo <= Smoothed(p) /\ Smoothed(p) <= hi
  BY <1>3, <1>4 DEF Smoothed, mean
<1>6. Value(p) \in Int /\ lo <= Value(p) /\ Value(p) <= hi
  BY <1>3, <1>5 DEF Value, mean
<1> DEFINE val == IF p.k > 0 THEN Smoothed(p) ELSE p.val
           a == AfterValue(p)
<1>7. a = [p EXCEPT !.val = val, !.values = <<>>]
  BY Zenon DEF AfterValue
<1>8. val \in Int /\ (val = 0 \/ Within(r, n, val))
  BY <1>1, <1>2, <1>5 DEF Sifts
<1> HIDE DEF val, a
<1>9. <<>> \in Seq(Int) /\ Len(<<>>) = 0
  OBVIOUS
<1>10. a \in FilterType /\ a.values = <<>> /\ a.val = val
  BY <1>1, <1>7, <1>8, <1>9 DEF FilterType
<1>11. Sifts(r, n, a)
  BY <1>8, <1>9, <1>10 DEF Sifts
<1> QED BY <1>2, <1>6, <1>11 DEF a

(* One round of a filter that is fed, and configured in between. *)
Pushed(f, v) == LET p == Push(f, v) IN IF IsReady(p) THEN AfterValue(p) ELSE p
FilterNext(s, f, n) ==
  LET before == IF n = 0 THEN NewFilter ELSE Pushed(f, s.readings[n])
  IN  IF n = s.initAt THEN FilterInit(before, s.points, s.k) ELSE before

LEMMA FilterNextSifts ==
  ASSUME NEW s \in Windows, NEW n \in 0..Len(s.readings), NEW f,
         n > 0 => Sifts(s.readings, n - 1, f)
  PROVE  Sifts(s.readings, n, FilterNext(s, f, n))
<1> DEFINE r == s.readings
           before == IF n = 0 THEN NewFilter ELSE Pushed(f, r[n])
<1>1. r \in Seq(Int) /\ s.points \in Nat /\ s.k \in 0..10
  BY AlgorithmsAssumption DEF Windows
<1>2. Sifts(r, n, before)
  <2>1. CASE n = 0
    <3>1. NewFilter \in FilterType /\ NewFilter.val = 0 /\ Len(NewFilter.values) = 0
      BY DEF NewFilter, FilterType
    <3> QED BY <2>1, <3>1 DEF Sifts
  <2>2. CASE n # 0
    <3> DEFINE p == Push(f, r[n])
    <3>1. n \in 1..Len(r) /\ Sifts(r, n - 1, f)
      BY <2>2
    <3> HIDE DEF r
    <3>2. Sifts(r, n, p) /\ p.values # <<>>
      BY ONLY <1>1, <3>1, PushSifts
    <3>3. before = IF IsReady(p) THEN AfterValue(p) ELSE p
      BY <2>2 DEF Pushed
    <3> HIDE DEF p, before
    <3>4. Sifts(r, n, AfterValue(p))
      BY ONLY <1>1, <3>1, <3>2, ValueSifts
    <3> QED BY <3>2, <3>3, <3>4
  <2> QED BY <2>1, <2>2
<1>3. FilterNext(s, f, n) = IF n = s.initAt THEN FilterInit(before, s.points, s.k) ELSE before
  BY Zenon DEF FilterNext
<1> HIDE DEF r, before
<1> DEFINE g == FilterInit(before, s.points, s.k)
<1>4. before \in FilterType
  BY <1>2 DEF Sifts
<1>5. g = [before EXCEPT !.points = s.points, !.k = s.k]
  BY Zenon DEF FilterInit
<1> HIDE DEF g
<1>6. g \in FilterType /\ g.values = before.values /\ g.val = before.val
  BY <1>1, <1>4, <1>5 DEF FilterType
<1>7. Sifts(r, n, g)
  BY <1>2, <1>6 DEF Sifts
<1> QED BY <1>2, <1>3, <1>7 DEF g, r

(* A filter keeps its type, whatever it held.                               *)
LEMMA MeanType ==
  ASSUME NEW s \in Seq(Int), s # <<>>
  PROVE  Mean(s) \in Int
<1> DEFINE n == Len(s)
<1>1. n \in 1..Len(s) /\ \A i \in 1..n : s[i] \in Int
  OBVIOUS
<1>2. PICK lo \in Int, hi \in Int :
        \A v \in Int : Within(s, n, v) <=> lo <= v /\ v <= hi
  <2> HIDE DEF n
  <2> QED BY <1>1, WithinIsBounds
<1>3. \A i \in 1..Len(s) : lo <= s[i] /\ s[i] <= hi
  <2> SUFFICES ASSUME NEW i \in 1..Len(s) PROVE lo <= s[i] /\ s[i] <= hi
    OBVIOUS
  <2>1. s[i] \in Int /\ s[i] <= s[i]
    BY <1>1
  <2>2. Within(s, n, s[i])
    BY <2>1 DEF Within
  <2> HIDE DEF n
  <2> QED BY <1>2, <2>1, <2>2
<1> QED BY <1>3, MeanBetween

LEMMA FilterNextType ==
  ASSUME NEW s \in Windows, NEW n \in 0..Len(s.readings), NEW f \in FilterType
  PROVE  FilterNext(s, f, n) \in FilterType
<1> DEFINE r == s.readings
           before == IF n = 0 THEN NewFilter ELSE Pushed(f, r[n])
<1>1. r \in Seq(Int) /\ s.points \in Nat /\ s.k \in 0..10
  BY AlgorithmsAssumption DEF Windows
<1>2. before \in FilterType
  <2>1. CASE n = 0
    BY <2>1 DEF NewFilter, FilterType
  <2>2. CASE n # 0
    <3> DEFINE p == Push(f, r[n])
               values == Append(f.values, r[n])
    <3>1. n \in 1..Len(r)
      BY <2>2
    <3> HIDE DEF r
    <3>2. f.values \in Seq(Int) /\ r[n] \in Int
      BY <1>1, <3>1 DEF FilterType
    <3>3. values \in Seq(Int) /\ Len(values) = Len(f.values) + 1 /\ Len(f.values) \in Nat
      BY <3>2
    <3>4. p = [f EXCEPT !.values = values]
      BY Zenon DEF Push
    <3>5. before = IF IsReady(p) THEN AfterValue(p) ELSE p
      BY <2>2 DEF Pushed
    <3> HIDE DEF values, p, before
    <3>6. values # <<>>
      BY <3>3
    <3>7. p \in FilterType /\ p.values = values
      BY <3>3, <3>4 DEF FilterType
    <3> DEFINE mean == Mean(p.values)
               val == IF p.k > 0 THEN Smoothed(p) ELSE p.val
               a == AfterValue(p)
    <3>8. mean \in Int
      BY <3>3, <3>6, <3>7, MeanType
    <3> HIDE DEF mean
    <3>9. p.k \in 0..10 /\ p.val \in Int
      BY <3>7 DEF FilterType
    <3> DEFINE mix == p.val * (10 - p.k) + mean * p.k
    <3>14. mix \in Int
      <4>1. 10 - p.k \in Int /\ p.k \in Int
        BY <3>9
      <4>2. p.val * (10 - p.k) \in Int /\ mean * p.k \in Int
        BY ONLY <4>1, <3>8, <3>9
      <4> QED BY ONLY <4>2
    <3>15. mix \div 10 \in Int
      <4> HIDE DEF mix
      <4> QED BY ONLY <3>14
    <3>10. Smoothed(p) \in Int
      <4>1. Smoothed(p) = IF p.val < 1 THEN mean ELSE mix \div 10
        BY Zenon DEF Smoothed, mean
      <4> QED BY ONLY <3>8, <3>15, <4>1
    <3>11. val \in Int
      BY <3>9, <3>10
    <3>12. a = [p EXCEPT !.val = val, !.values = <<>>]
      BY Zenon DEF AfterValue
    <3> HIDE DEF val, a
    <3>13. a \in FilterType
      <4>1. <<>> \in Seq(Int)
        OBVIOUS
      <4> QED BY <3>7, <3>11, <3>12, <4>1 DEF FilterType
    <3> QED BY <3>5, <3>7, <3>13 DEF a
  <2> QED BY <2>1, <2>2
<1>3. FilterNext(s, f, n) = IF n = s.initAt THEN FilterInit(before, s.points, s.k) ELSE before
  BY Zenon DEF FilterNext
<1> HIDE DEF r, before
<1>4. FilterInit(before, s.points, s.k) = [before EXCEPT !.points = s.points, !.k = s.k]
  BY Zenon DEF FilterInit
<1>5. FilterInit(before, s.points, s.k) \in FilterType
  BY <1>1, <1>2, <1>4 DEF FilterType, r
<1> QED BY <1>2, <1>3, <1>5

(* What Returned(s) folds over the readings. *)
FilterRun(s, f) ==
  f = [n \in 0..Len(s.readings) |->
         LET before == IF n = 0 THEN NewFilter ELSE
                         LET p == Push(f[n - 1], s.readings[n])
                         IN  IF IsReady(p) THEN AfterValue(p) ELSE p
         IN  IF n = s.initAt THEN FilterInit(before, s.points, s.k) ELSE before]

LEMMA FilterRunExists ==
  ASSUME NEW s \in Windows
  PROVE  \E f : FilterRun(s, f)
<1> DEFINE N == Len(s.readings)
           D == 0..N
           Step(f, n) == FilterNext(s, IF n = 0 THEN NewFilter ELSE f[n - 1], n)
           H == [f \in [D -> FilterType] |-> [n \in D |-> Step(f, n)]]
           rank == [n \in D |-> n]
<1>1. s.readings \in Seq(Int) /\ N \in Nat /\ NewFilter \in FilterType
  BY AlgorithmsAssumption DEF Windows, NewFilter, FilterType
<1>2. rank \in [D -> 0..N] /\ \A n \in D : rank[n] = n
  OBVIOUS
<1>3. ASSUME NEW f \in [D -> FilterType], NEW n \in D
      PROVE  Step(f, n) \in FilterType
  <2> DEFINE g == IF n = 0 THEN NewFilter ELSE f[n - 1]
  <2>1. n # 0 => n - 1 \in D
    BY <1>1
  <2>2. g \in FilterType
    BY <1>1, <2>1
  <2>3. n \in 0..Len(s.readings)
    OBVIOUS
  <2> HIDE DEF g, D
  <2>4. FilterNext(s, g, n) \in FilterType
    BY ONLY s \in Windows, <2>2, <2>3, FilterNextType
  <2> QED BY <2>4 DEF g
<1>4. H \in [[D -> FilterType] -> [D -> FilterType]]
  BY <1>3
<1>5. ASSUME NEW f \in [D -> FilterType], NEW g \in [D -> FilterType], NEW n \in D,
             \A e \in D : rank[e] < rank[n] => f[e] = g[e]
      PROVE  Step(f, n) = Step(g, n)
  <2>1. n # 0 => n - 1 \in D /\ rank[n - 1] < rank[n]
    BY <1>1, <1>2
  <2>2. (IF n = 0 THEN NewFilter ELSE f[n - 1]) = (IF n = 0 THEN NewFilter ELSE g[n - 1])
    BY <1>5, <2>1
  <2> QED BY <2>2
<1>6. \A f \in [D -> FilterType], n \in D : H[f][n] = Step(f, n)
  OBVIOUS
<1> HIDE DEF D, rank, Step
<1>7. Recursive(D, FilterType, rank, N, H)
  <2> HIDE DEF H, N
  <2>1. ASSUME NEW f \in [D -> FilterType], NEW g \in [D -> FilterType], NEW n \in D,
               \A e \in D : rank[e] < rank[n] => f[e] = g[e]
        PROVE  H[f][n] = H[g][n]
    <3>1. Step(f, n) = Step(g, n)
      BY ONLY <1>5, <2>1, Zenon
    <3> QED BY <1>6, <3>1, Zenon
  <2>2. FilterType # {}
    BY <1>1
  <2> QED BY ONLY <1>1, <1>2, <1>4, <2>1, <2>2, Zenon DEF Recursive
<1>8. PICK f \in [D -> FilterType] : f = H[f]
  <2> HIDE DEF H, N
  <2> QED BY <1>7, RecursionEnds
<1>9. f = [n \in D |-> Step(f, n)]
  BY <1>8
<1>10. \A n \in D :
         Step(f, n) =
           LET before == IF n = 0 THEN NewFilter ELSE
                           LET p == Push(f[n - 1], s.readings[n])
                           IN  IF IsReady(p) THEN AfterValue(p) ELSE p
           IN  IF n = s.initAt THEN FilterInit(before, s.points, s.k) ELSE before
  BY Zenon DEF Step, FilterNext, Pushed
<1>11. FilterRun(s, f)
  BY <1>9, <1>10, Zenon DEF D, FilterRun
<1> QED BY <1>11

LEMMA RunSifts ==
  ASSUME NEW s \in Windows, NEW f, FilterRun(s, f), NEW n \in 0..Len(s.readings)
  PROVE  Sifts(s.readings, n, f[n])
<1> DEFINE r == s.readings
           N == Len(r)
           S == {m \in Nat : m <= N => Sifts(r, m, f[m])}
<1>1. r \in Seq(Int) /\ N \in Nat
  BY AlgorithmsAssumption DEF Windows
<1>2. \A m \in 0..N : f[m] = FilterNext(s, f[m - 1], m)
  <2> SUFFICES ASSUME NEW m \in 0..N PROVE f[m] = FilterNext(s, f[m - 1], m)
    OBVIOUS
  <2> QED BY Zenon DEF FilterRun, FilterNext, Pushed
<1>3. ASSUME NEW m \in 0..N, m > 0 => Sifts(r, m - 1, f[m - 1])
      PROVE  Sifts(r, m, f[m])
  <2> DEFINE g == f[m - 1]
  <2>1. m \in 0..Len(s.readings) /\ (m > 0 => Sifts(s.readings, m - 1, g))
    BY <1>3
  <2> HIDE DEF g
  <2>2. Sifts(s.readings, m, FilterNext(s, g, m))
    BY ONLY s \in Windows, <2>1, FilterNextSifts
  <2> QED BY <1>2, <2>2 DEF g
<1>4. 0 \in S
  BY <1>1, <1>3
<1>5. ASSUME NEW m \in Nat, m \in S PROVE m + 1 \in S
  <2>1. m + 1 <= N => Sifts(r, m, f[m])
    BY <1>1, <1>5
  <2>2. m + 1 <= N => m + 1 \in 0..N /\ (m + 1) - 1 = m
    BY <1>1
  <2> HIDE DEF r, N
  <2>3. m + 1 <= N => Sifts(r, m + 1, f[m + 1])
    BY <1>3, <2>1, <2>2
  <2> QED BY <2>3
<1>6. n \in S
  <2>1. n \in Nat
    BY <1>1
  <2> HIDE DEF S
  <2>2. Nat \subseteq S
    BY ONLY <1>4, <1>5, Induction
  <2> QED BY ONLY <2>1, <2>2
<1> QED BY <1>6

LEMMA ReturnedWithin ==
  ASSUME NEW s \in Windows, NEW n \in DOMAIN s.readings, NEW v \in Returned(s)[n]
  PROVE  Within(s.readings, n, v)
<1> DEFINE r == s.readings
           f == CHOOSE f : FilterRun(s, f)
           p == Push(f[n - 1], r[n])
<1>1. r \in Seq(Int) /\ Len(r) \in Nat /\ n \in 1..Len(r)
  BY AlgorithmsAssumption DEF Windows
<1>2. FilterRun(s, f)
  BY FilterRunExists
<1>3. v \in IF IsReady(p) THEN {Value(p)} ELSE {}
  BY <1>1, Zenon DEF Returned, FilterRun
<1>4. v = Value(p)
  BY <1>3
<1> DEFINE g == f[n - 1]
<1>5. n - 1 \in 0..Len(r)
  BY <1>1
<1> HIDE DEF f
<1>6. Sifts(r, n - 1, g)
  BY <1>2, <1>5, RunSifts
<1> HIDE DEF g, r
<1>7. Sifts(r, n, Push(g, r[n])) /\ Push(g, r[n]).values # <<>>
  BY ONLY <1>1, <1>6, PushSifts
<1>8. p = Push(g, r[n])
  BY DEF g, r
<1> HIDE DEF p
<1>9. Within(r, n, Value(p))
  BY ONLY <1>1, <1>7, <1>8, ValueSifts
<1> QED BY <1>4, <1>9 DEF r

LEMMA WindowSubject ==
  ASSUME Subjects, subject.of = "filter"
  PROVE  subject \in Windows
<1>1. \A s \in Corrections \cup HeapChanges \cup Fetches \cup SetUps : s.of # "filter"
  BY DEF Corrections, HeapChanges, Fetches, SetUps
<1>2. \A s \in PeriodicChanges \cup ArrayGrowths \cup Files \cup Starts \cup Messages :
        s.of # "filter"
  BY DEF PeriodicChanges, ArrayGrowths, Files, Starts, Messages
<1>3. \A s \in HookChanges : s.of # "filter"
  BY DEF HookChanges
<1>4. NoSubject.of # "filter"
  BY DEF NoSubject
<1> QED BY <1>1, <1>2, <1>3, <1>4, Zenon DEF Subjects

(* Filter::push and value, with init() whenever it comes: what is returned  *)
(* is between two of the readings that were pushed.                         *)
THEOREM FilterIsBetween == ASpec => []FilterStaysBetween
<1>1. Subjects => FilterStaysBetween
  <2> SUFFICES ASSUME Subjects, subject.of = "filter",
                      NEW n \in DOMAIN subject.readings, NEW v \in Returned(subject)[n]
               PROVE  \E i, j \in 1..n : subject.readings[i] <= v /\ v <= subject.readings[j]
    BY DEF FilterStaysBetween
  <2>1. subject \in Windows
    BY WindowSubject
  <2>2. Within(subject.readings, n, v)
    BY <2>1, ReturnedWithin
  <2> QED BY <2>2, Zenon DEF Within
<1> QED BY <1>1, SubjectsHold, PTL

--------------------------------------------------------------------------------
(* The correction of headings. *)

ArcIn(a, b) == Arc(a, b) = IF a <= b THEN b - a ELSE b + 360 - a

LEMMA ArcIs ==
  ASSUME NEW a \in Degrees, NEW b \in Degrees
  PROVE  ArcIn(a, b)
BY DEF Arc, ArcIn, Degrees

(* One range, of w degrees from p to q, for what is measured from a to b:   *)
(* it takes the directions on the way from a to b, and the ends to the ends. *)
RangeGiven(x, a, b, p, q, w, m) ==
  /\ x \in Degrees /\ a \in Degrees /\ b \in Degrees /\ a # b
  /\ p \in Degrees /\ w \in 1..359 /\ p + w <= 360
  /\ q \in Degrees /\ q = (IF p + w = 360 THEN 0 ELSE p + w)
  /\ m = RangeMap(x, a, b, p, q)
RangeFits(x, a, b, p, q, w, m) ==
  /\ m # Outside => /\ Arc(a, x) <= Arc(a, b)
                    /\ m \in Degrees /\ Arc(p, m) <= w
                    /\ Arc(a, x) = 0 => m = p
                    /\ Arc(a, x) = Arc(a, b) => m = q
  /\ Arc(a, x) < Arc(a, b) /\ (x # 0 \/ Arc(a, x) = 0) => m # Outside

LEMMA RangeMapIs ==
  ASSUME NEW x, NEW a, NEW b, NEW p, NEW q, NEW w, NEW m, RangeGiven(x, a, b, p, q, w, m)
  PROVE  RangeFits(x, a, b, p, q, w, m)
<1>0. /\ x \in Degrees /\ a \in Degrees /\ b \in Degrees /\ a # b
      /\ p \in Degrees /\ w \in 1..359 /\ p + w <= 360
      /\ q \in Degrees /\ q = (IF p + w = 360 THEN 0 ELSE p + w)
      /\ m = RangeMap(x, a, b, p, q)
  BY Zenon DEF RangeGiven
<1>a. Arc(a, x) = IF a <= x THEN x - a ELSE x + 360 - a
  <2>1. ArcIn(a, x)
    BY ONLY <1>0, ArcIs
  <2> QED BY ONLY <2>1 DEF ArcIn
<1>b. Arc(a, b) = IF a <= b THEN b - a ELSE b + 360 - a
  <2>1. ArcIn(a, b)
    BY ONLY <1>0, ArcIs
  <2> QED BY ONLY <2>1 DEF ArcIn
<1>c. m \in Degrees => Arc(p, m) = IF p <= m THEN m - p ELSE m + 360 - p
  <2>1. m \in Degrees => ArcIn(p, m)
    BY ONLY <1>0, ArcIs
  <2> QED BY ONLY <2>1 DEF ArcIn
<1> DEFINE l == Lifted(x, a, b)
           len == Unwound(a, b) - a
           quot == ((l - a) * w) \div len
           into == Arc(a, x)
<1>1. len \in 1..359 /\ len = Arc(a, b) /\ l \in Int
  BY <1>0, <1>b DEF Unwound, Lifted, Degrees
<1>2. Unwound(p, q) - p = w
  BY <1>0 DEF Unwound
<1>3. m = IF l < a \/ l > a + len THEN Outside
          ELSE IF len = 0 THEN NaN
          ELSE IF p + quot >= 360 THEN 0 ELSE p + quot
  <2>1. m = RangeMap(x, a, b, p, q)
    BY <1>0
  <2> QED BY ONLY <1>2, <2>1, Zenon DEF RangeMap
<1>4. into \in Degrees /\ into = IF a <= x THEN x - a ELSE x + 360 - a
  BY <1>0, <1>a DEF Degrees
<1>5. l = IF b < a /\ 0 < x /\ x < b THEN x + 360 ELSE x
  BY <1>0 DEF Lifted
<1>6. len = IF a <= b THEN b - a ELSE b + 360 - a
  BY <1>1, <1>b
<1>7. ~ (l < a \/ l > a + len) => l - a = into /\ into <= len
  <2> HIDE DEF l, len, into
  <2> QED BY <1>0, <1>1, <1>4, <1>5, <1>6
<1>8. into < len /\ (x # 0 \/ into = 0) => ~ (l < a \/ l > a + len)
  <2> HIDE DEF l, len, into
  <2> QED BY <1>0, <1>1, <1>4, <1>5, <1>6 DEF Degrees
<1>9. ASSUME ~ (l < a \/ l > a + len)
      PROVE  /\ quot \in 0..w
             /\ into = 0 => quot = 0
             /\ into = len => quot = w
  <2> DEFINE prod == (l - a) * w
  <2>1. prod = into * w
    BY <1>7, <1>9
  <2> HIDE DEF l, len, into, prod
  <2>2. prod \in Int /\ 0 <= prod /\ prod <= len * w
    <3>1. into \in Nat /\ into <= len
      BY <1>4, <1>7, <1>9 DEF Degrees
    <3>2. into * w <= len * w /\ 0 <= into * w /\ into * w \in Int
      BY ONLY <1>1, <3>1, <1>0
    <3> QED BY <2>1, <3>2
  <2>6. len \in Nat \ {0} /\ 0 \in Int /\ w \in Int /\ prod \in Int
    BY ONLY <1>0, <1>1, <2>2
  <2>3. prod \div len \in Int /\ 0 <= prod \div len /\ prod \div len <= w
    <3>1. len * 0 <= prod /\ prod <= len * w
      BY <1>1, <2>2
    <3> QED BY ONLY <2>6, <3>1, QuotientBetween
  <2>4. into = 0 => prod \div len = 0
    <3>1. ASSUME into = 0 PROVE len * 0 <= prod /\ prod <= len * 0
      BY <1>0, <1>1, <2>1, <3>1
    <3>2. ASSUME into = 0
          PROVE  prod \div len \in Int /\ 0 <= prod \div len /\ prod \div len <= 0
      <4>1. prod \in Int /\ len \in Nat \ {0} /\ 0 \in Int
        BY <2>6
      <4>2. len * 0 <= prod /\ prod <= len * 0
        BY <3>1, <3>2
      <4> QED BY ONLY <4>1, <4>2, QuotientBetween
    <3> QED BY <3>2
  <2>5. into = len => prod \div len = w
    <3>1. ASSUME into = len
          PROVE  w <= prod \div len
      <4>1. prod \in Int /\ len \in Nat \ {0} /\ w \in Int
        BY <2>6
      <4>2. len * w <= prod /\ prod <= len * w
        BY ONLY <2>1, <2>2, <2>6, <3>1
      <4> QED BY ONLY <4>1, <4>2, QuotientBetween
    <3> QED BY <1>0, <2>3, <3>1
  <2> QED BY <2>3, <2>4, <2>5 DEF prod
<1> HIDE DEF l, len, quot, into
<1>10. ASSUME ~ (l < a \/ l > a + len)
       PROVE  /\ m \in Degrees /\ m = IF p + quot = 360 THEN 0 ELSE p + quot
              /\ into = 0 => m = p
              /\ into = len => m = q
  <2>1. quot \in 0..w /\ (into = 0 => quot = 0) /\ (into = len => quot = w)
    BY ONLY <1>9, <1>10
  <2>2. m = IF p + quot >= 360 THEN 0 ELSE p + quot
    BY ONLY <1>1, <1>3, <1>10
  <2>3. p \in Degrees /\ w \in 1..359 /\ p + w <= 360
        /\ q = (IF p + w = 360 THEN 0 ELSE p + w)
    BY ONLY <1>0
  <2> QED BY ONLY <2>1, <2>2, <2>3 DEF Degrees
<1>11. ASSUME ~ (l < a \/ l > a + len)
       PROVE  Arc(p, m) <= w
  <2>1. Arc(p, m) = IF p <= m THEN m - p ELSE m + 360 - p
    BY <1>10, <1>11, <1>c
  <2>2. quot \in 0..w
    BY <1>9, <1>11
  <2> QED BY <1>0, <1>10, <1>11, <2>1, <2>2
<1>12. m # Outside <=> ~ (l < a \/ l > a + len)
  BY <1>3, <1>10 DEF Outside, Degrees
<1>13. len = Arc(a, b)
  BY <1>1
<1> QED BY <1>7, <1>8, <1>10, <1>11, <1>12, <1>13 DEF into, RangeFits

(* Points that are evenly apart. *)
EvenlyApart(n, w, i) ==
  n \in Nat \ {0, 1} /\ w \in Int /\ n * w = 360 /\ i \in 1..n
EvenPoint(n, w, i) ==
  LET p == (i - 1) * w
  IN  /\ w \in 1..180 /\ p \in Degrees /\ i * w = p + w
      /\ i < n => p + w < 360
      /\ i = n => p + w = 360

LEMMA PointsAre ==
  ASSUME NEW n, NEW w, NEW i, EvenlyApart(n, w, i)
  PROVE  EvenPoint(n, w, i)
<1>0. n \in Nat \ {0, 1} /\ w \in Int /\ n * w = 360 /\ i \in 1..n
  BY DEF EvenlyApart
<1>1. w \in Int /\ n * w = 360 /\ n \in Nat
  BY <1>0
<1>2. w >= 1
  <2>1. ASSUME w <= 0 PROVE FALSE
    <3>1. n * w <= 0
      BY ONLY <1>1, <2>1
    <3> QED BY <1>1, <3>1
  <2> QED BY <1>1, <2>1
<1>3. w <= 180
  <2>1. n >= 2
    BY <1>0
  <2>2. n * w >= 2 * w
    BY ONLY <1>1, <1>2, <2>1
  <2> QED BY ONLY <1>1, <2>2
<1> DEFINE p == (i - 1) * w
           e == i * w
<1>4. i \in Nat /\ i >= 1 /\ i <= n
  BY <1>0
<1>5. p \in Int /\ e \in Int /\ e = p + w /\ p >= 0
  BY ONLY <1>1, <1>2, <1>4
<1>6. i < n => e + w <= n * w
  <2>1. ASSUME i < n PROVE (i + 1) * w <= n * w
    <3>1. i + 1 \in Nat /\ i + 1 <= n
      BY ONLY <1>1, <1>4, <2>1
    <3> QED BY ONLY <1>1, <1>2, <3>1
  <2>2. (i + 1) * w = i * w + w
    BY ONLY <1>1, <1>4
  <2> QED BY ONLY <2>1, <2>2
<1>7. i = n => e = 360
  BY <1>1
<1> HIDE DEF p, e
<1>8. /\ p \in Degrees /\ (i < n => p + w < 360) /\ (i = n => p + w = 360)
  BY ONLY <1>1, <1>2, <1>4, <1>5, <1>6, <1>7 DEF Degrees
<1> QED BY ONLY <1>1, <1>2, <1>3, <1>5, <1>8 DEF p, e, EvenPoint

(* The directions that are corrected, and where to, by the range of point i. *)
RangeOf(v, i, x) ==
  LET w == 360 \div Len(v)
      m == RangeMap(x, v[i], Closed(v)[i + 1],
                    (i - 1) * w, IF i = Len(v) THEN 0 ELSE i * w)
  IN  m

Into(v, i, x) == Arc(v[i], x)
Span(v, i) == Arc(v[i], Closed(v)[i + 1])

LEMMA ElementOf ==
  ASSUME NEW S, NEW s \in Seq(S), NEW i \in 1..Len(s)
  PROVE  s[i] \in S /\ Len(s) \in Nat
OBVIOUS

LEMMA LengthOf ==
  ASSUME NEW S, NEW s \in Seq(S)
  PROVE  Len(s) \in Nat
OBVIOUS

LEMMA ClosedOf ==
  ASSUME NEW S, NEW s \in Seq(S), NEW i \in 1..Len(s)
  PROVE  Closed(s)[i + 1] = (IF i = Len(s) THEN s[1] ELSE s[i + 1]) /\ Closed(s)[i + 1] \in S
BY DEF Closed

RangeSound(v, i, x, m) ==
  LET w == 360 \div Len(v)
      p == (i - 1) * w
      q == IF i = Len(v) THEN 0 ELSE i * w
  IN  /\ m # Outside => /\ Into(v, i, x) <= Span(v, i)
                        /\ m \in Degrees /\ Arc(p, m) <= w
                        /\ Into(v, i, x) = 0 => m = p
                        /\ Into(v, i, x) = Span(v, i) => m = q
      /\ Into(v, i, x) < Span(v, i) /\ (x # 0 \/ Into(v, i, x) = 0) => m # Outside

LEMMA RangeOfIs ==
  ASSUME NEW v \in Seq(Degrees), GoesRound(v), NEW i \in 1..Len(v), NEW x \in Degrees
  PROVE  RangeSound(v, i, x, RangeOf(v, i, x))
<1> DEFINE n == Len(v)
           w == 360 \div n
           p == (i - 1) * w
           q == IF i = n THEN 0 ELSE i * w
           m == RangeOf(v, i, x)
           a == v[i]
           b == Closed(v)[i + 1]
<1>1. n \in Nat \ {0, 1} /\ n * w = 360 /\ w \in Int /\ a # b
  <2>1. n > 1 /\ n * w = 360 /\ a # b
    BY Zenon DEF GoesRound
  <2>2. n \in Nat
    BY ElementOf, Zenon
  <2>3. n \in Nat \ {0, 1}
    <3>1. n > 1
      BY <2>1
    <3> HIDE DEF n
    <3> QED BY ONLY <2>2, <3>1
  <2>4. w \in Int
    BY ONLY <2>3
  <2> QED BY <2>1, <2>3, <2>4
<1>2. a \in Degrees /\ b \in Degrees
  BY ElementOf, ClosedOf, Zenon
<1>4. EvenPoint(n, w, i)
  <2> HIDE DEF w
  <2>1. n \in Nat \ {0, 1} /\ w \in Int /\ n * w = 360
    BY <1>1
  <2> HIDE DEF n
  <2>2. i \in 1..n
    BY DEF n
  <2>3. EvenlyApart(n, w, i)
    BY <2>1, <2>2, Zenon DEF EvenlyApart
  <2> QED BY ONLY <2>3, PointsAre, Zenon
<1>5. w \in 1..359 /\ p \in Degrees /\ p + w <= 360 /\ q \in Degrees
      /\ q = IF p + w = 360 THEN 0 ELSE p + w
  <2> DEFINE e == i * w
  <2>1. /\ w \in 1..180 /\ p \in Degrees /\ e = p + w
        /\ i < n => p + w < 360
        /\ i = n => p + w = 360
    BY <1>4, Zenon DEF EvenPoint
  <2>2. n \in Nat /\ i \in 1..n
    BY <1>1
  <2> HIDE DEF n, w, p, e
  <2>3. q = IF i = n THEN 0 ELSE e
    BY DEF e
  <2> HIDE DEF q
  <2> QED BY ONLY <2>1, <2>2, <2>3 DEF Degrees
<1>6. m = RangeMap(x, a, b, p, q)
  BY Zenon DEF RangeOf
<1> HIDE DEF n, w, p, q, m, a, b
<1>7. RangeFits(x, a, b, p, q, w, m)
  <2>1. RangeGiven(x, a, b, p, q, w, m)
    BY <1>1, <1>2, <1>5, <1>6, Zenon DEF RangeGiven
  <2> QED BY ONLY <2>1, RangeMapIs, Zenon
<1> QED BY <1>7, Zenon DEF n, w, p, q, m, a, b, Into, Span, RangeFits, RangeSound

PointsOf(n) == [k \in 1..n |-> (k - 1) * (360 \div n)]

LEMMA CorrectedIs ==
  ASSUME NEW v \in Seq(Degrees), GoesRound(v), NEW x \in Degrees
  PROVE  LET maps == [i \in 1..Len(v) |-> RangeOf(v, i, x)]
             hits == {i \in 1..Len(v) : maps[i] # Outside}
         IN  Corrected(x, Closed(PointsOf(Len(v))), Closed(v)) =
               IF hits = {} THEN x ELSE maps[CHOOSE i \in hits : \A j \in hits : i <= j]
<1> DEFINE n == Len(v)
           w == 360 \div n
           points == PointsOf(n)
           maps == [i \in 1..Len(Closed(v)) - 1 |->
                      RangeMap(x, Closed(v)[i], Closed(v)[i + 1],
                               Closed(points)[i], Closed(points)[i + 1])]
           mine == [i \in 1..n |-> RangeOf(v, i, x)]
<1>1. n \in Nat \ {0, 1}
  <2>1. n > 1
    BY Zenon DEF GoesRound
  <2>2. n \in Nat
    BY LengthOf, Zenon
  <2> HIDE DEF n
  <2> QED BY ONLY <2>1, <2>2
<1>2. Len(Closed(v)) = n + 1 /\ Len(Closed(v)) - 1 = n
  <2>1. Len(Closed(v)) = n + 1
    BY DEF Closed
  <2> HIDE DEF n
  <2> QED BY ONLY <1>1, <2>1
<1>3. w \in Int
  <2> HIDE DEF n
  <2> QED BY <1>1
<1>4. points \in Seq(Int) /\ Len(points) = n /\ \A i \in 1..n : points[i] = (i - 1) * w
  <2> HIDE DEF n
  <2>1. points = [i \in 1..n |-> (i - 1) * w]
    BY DEF PointsOf
  <2> HIDE DEF w, points
  <2>2. \A i \in 1..n : (i - 1) * w \in Int
    BY ONLY <1>1, <1>3
  <2>3. points \in [1..n -> Int]
    BY ONLY <2>1, <2>2
  <2> QED BY ONLY <1>1, <2>1, <2>3
<1>5. ASSUME NEW i \in 1..n
      PROVE  RangeMap(x, Closed(v)[i], Closed(v)[i + 1], Closed(points)[i], Closed(points)[i + 1])
               = RangeOf(v, i, x)
  <2>1. Closed(v)[i] = v[i]
    BY <1>1 DEF Closed
  <2>2. Closed(points)[i] = (i - 1) * w
    <3> HIDE DEF n, w, points
    <3>1. Closed(points)[i] = points[i]
      BY ONLY <1>1, <1>4, i \in 1..n DEF Closed
    <3> QED BY ONLY <1>4, <3>1, i \in 1..n
  <2>3. Closed(points)[i + 1] = IF i = n THEN 0 ELSE i * w
    <3> HIDE DEF n, w, points
    <3>1. Closed(points)[i + 1] = IF i = n THEN points[1] ELSE points[i + 1]
      BY ONLY <1>4, i \in 1..n, ClosedOf
    <3>2. points[1] = 0
      <4>1. points[1] = (1 - 1) * w
        BY ONLY <1>1, <1>4
      <4> QED BY ONLY <1>3, <4>1
    <3>3. i # n => points[i + 1] = i * w
      <4>1. i # n => i + 1 \in 1..n /\ (i + 1) - 1 = i
        BY ONLY <1>1, i \in 1..n
      <4>2. i # n => points[i + 1] = ((i + 1) - 1) * w
        BY ONLY <1>4, <4>1
      <4> QED BY <4>1, <4>2
    <3> QED BY ONLY <3>1, <3>2, <3>3
  <2>4. RangeOf(v, i, x) =
          RangeMap(x, v[i], Closed(v)[i + 1], (i - 1) * w, IF i = n THEN 0 ELSE i * w)
    BY Zenon DEF RangeOf
  <2> HIDE DEF n, w, points
  <2> QED BY <2>1, <2>2, <2>3, <2>4, Zenon
<1>6. maps = mine
  <2> HIDE DEF n, w, points
  <2> QED BY <1>2, <1>5, Zenon
<1>7. Corrected(x, Closed(points), Closed(v)) =
        LET hits == {i \in DOMAIN maps : maps[i] # Outside}
        IN  IF hits = {} THEN x ELSE maps[CHOOSE i \in hits : \A j \in hits : i <= j]
  BY Zenon DEF Corrected
<1>8. DOMAIN mine = 1..n
  OBVIOUS
<1> HIDE DEF maps, mine, n
<1>9. Corrected(x, Closed(points), Closed(v)) =
        LET hits == {i \in 1..n : mine[i] # Outside}
        IN  IF hits = {} THEN x ELSE mine[CHOOSE i \in hits : \A j \in hits : i <= j]
  BY ONLY <1>6, <1>7, <1>8, Zenon
<1> QED BY <1>9, Zenon DEF mine, n

LEMMA SameArc ==
  ASSUME NEW a \in Degrees, NEW b \in Degrees, NEW c \in Degrees, Arc(a, b) = Arc(a, c)
  PROVE  b = c
<1> DEFINE f == IF a <= b THEN b - a ELSE b + 360 - a
           g == IF a <= c THEN c - a ELSE c + 360 - a
<1>1. ArcIn(a, b) /\ ArcIn(a, c)
  BY ArcIs
<1>2. Arc(a, b) = f /\ Arc(a, c) = g
  <2>1. Arc(a, b) = f
    BY ONLY <1>1 DEF ArcIn
  <2>2. Arc(a, c) = g
    BY ONLY <1>1 DEF ArcIn
  <2> QED BY ONLY <2>1, <2>2
<1>3. f = g
  <2> HIDE DEF f, g
  <2> QED BY <1>2, Zenon
<1>4. a \in Int /\ b \in Int /\ c \in Int /\ 0 <= b /\ b < 360 /\ 0 <= c /\ c < 360
  BY DEF Degrees
<1>5. CASE a <= b /\ a <= c
  BY ONLY <1>3, <1>4, <1>5
<1>6. CASE a <= b /\ ~ (a <= c)
  BY ONLY <1>3, <1>4, <1>6
<1>7. CASE ~ (a <= b) /\ a <= c
  BY ONLY <1>3, <1>4, <1>7
<1>8. CASE ~ (a <= b) /\ ~ (a <= c)
  BY ONLY <1>3, <1>4, <1>8
<1> QED BY ONLY <1>5, <1>6, <1>7, <1>8

ArcKept(v, i, x) ==
  LET w == 360 \div Len(v)
      p == (i - 1) * w
      h == Corrected(x, Closed(PointsOf(Len(v))), Closed(v))
  IN  h \in Degrees /\ Arc(p, h) <= w /\ (Into(v, i, x) = 0 => h = p)

LEMMA CorrectedKeeps ==
  ASSUME NEW v \in Seq(Degrees), GoesRound(v), NEW x \in Degrees, NEW i \in 1..Len(v),
         Into(v, i, x) < Span(v, i), x # 0 \/ Into(v, i, x) = 0
  PROVE  ArcKept(v, i, x)
<1> DEFINE n == Len(v)
           w == 360 \div n
           p == (i - 1) * w
           maps == [k \in 1..n |-> RangeOf(v, k, x)]
           hits == {k \in 1..n : maps[k] # Outside}
           j == CHOOSE k \in hits : \A e \in hits : k <= e
           h == Corrected(x, Closed(PointsOf(n)), Closed(v))
           Fits(k) == RangeSound(v, k, x, maps[k])
<1>1. n \in Nat \ {0, 1}
  <2>1. n > 1
    BY Zenon DEF GoesRound
  <2>2. n \in Nat
    BY LengthOf, Zenon
  <2> HIDE DEF n
  <2> QED BY ONLY <2>1, <2>2
<1>2. \A k \in 1..n : Fits(k)
  <2> SUFFICES ASSUME NEW k \in 1..n PROVE Fits(k)
    OBVIOUS
  <2>1. maps[k] = RangeOf(v, k, x)
    OBVIOUS
  <2> QED BY <2>1, RangeOfIs, Zenon
<1>3. h = IF hits = {} THEN x ELSE maps[j]
  BY CorrectedIs, Zenon
<1>4. \A k \in 1..n : Into(v, k, x) < Span(v, k) => k = i
  <2>1. \A k, e \in 1..n, d \in Degrees :
          Arc(v[k], d) < Arc(v[k], Closed(v)[k + 1])
          /\ Arc(v[e], d) < Arc(v[e], Closed(v)[e + 1]) => k = e
    BY Zenon DEF GoesRound
  <2>2. \A k, e \in 1..n, d \in Degrees :
          Into(v, k, d) < Span(v, k) /\ Into(v, e, d) < Span(v, e) => k = e
    BY <2>1, Zenon DEF Into, Span
  <2> QED BY <2>2, Zenon
<1>5. \A k \in 1..n : Into(v, k, x) \in Degrees /\ Span(v, k) \in 1..359
  <2> SUFFICES ASSUME NEW k \in 1..n PROVE Into(v, k, x) \in Degrees /\ Span(v, k) \in 1..359
    OBVIOUS
  <2> DEFINE a == v[k]
             b == Closed(v)[k + 1]
  <2>1. a \in Degrees /\ b \in Degrees
    BY ElementOf, ClosedOf, Zenon
  <2>2. a # b
    BY Zenon DEF GoesRound
  <2>3. Into(v, k, x) = Arc(a, x) /\ Span(v, k) = Arc(a, b)
    BY Zenon DEF Into, Span
  <2> HIDE DEF a, b
  <2>4. Arc(a, x) \in Degrees
    BY ONLY <2>1, x \in Degrees DEF Arc, Degrees
  <2>5. Arc(a, b) \in 1..359
    <3>1. ArcIn(a, b)
      BY ONLY <2>1, ArcIs
    <3>2. Arc(a, b) = IF a <= b THEN b - a ELSE b + 360 - a
      BY ONLY <3>1 DEF ArcIn
    <3> QED BY ONLY <2>1, <2>2, <3>2 DEF Degrees
  <2> QED BY <2>3, <2>4, <2>5
(* A range that is left at its end is the one before. *)
<1>6. ASSUME NEW k \in 1..n, k < n, Into(v, k, x) = Span(v, k)
      PROVE  k + 1 \in 1..n /\ Into(v, k + 1, x) = 0
  <2> DEFINE a == v[k]
             b == v[k + 1]
  <2>1. k + 1 \in 1..n /\ k # n
    <3> HIDE DEF n
    <3> QED BY ONLY <1>1, <1>6, k \in 1..n
  <2>2. a \in Degrees /\ b \in Degrees /\ Closed(v)[k + 1] = b
    <3>1. a \in Degrees /\ b \in Degrees
      BY <2>1, ElementOf, Zenon
    <3>2. Closed(v)[k + 1] = IF k = n THEN v[1] ELSE v[k + 1]
      BY ClosedOf, Zenon
    <3> QED BY ONLY <2>1, <3>1, <3>2, Zenon
  <2>3. Arc(a, x) = Arc(a, b)
    BY <1>6, <2>2, Zenon DEF Into, Span
  <2>4. Into(v, k + 1, x) = Arc(b, x)
    BY Zenon DEF Into
  <2> HIDE DEF a, b
  <2>5. x = b
    <3>1. a \in Degrees /\ b \in Degrees /\ x \in Degrees
      BY <2>2
    <3> QED BY ONLY <2>3, <3>1, SameArc, Zenon
  <2>6. Arc(b, x) = 0
    BY ONLY <2>2, <2>5 DEF Arc, Degrees
  <2> QED BY <2>1, <2>4, <2>6
<1>7. i \in hits
  BY <1>2, Zenon DEF RangeSound
<1>8. j \in hits /\ j <= i
  <2> HIDE DEF n
  <2>1. hits \in SUBSET Nat /\ hits # {}
    BY <1>1, <1>7
  <2>2. \E k \in hits : \A e \in hits : k <= e
    BY ONLY <2>1, LeastOne
  <2> HIDE DEF hits
  <2> QED BY <1>7, <2>2
<1>9. h = maps[j] /\ j \in 1..n /\ maps[j] # Outside
  BY <1>3, <1>8
<1> HIDE DEF h, j, hits, maps
<1>10. CASE j = i
  <2>1. Fits(i)
    BY <1>2
  <2> QED BY <1>9, <1>10, <2>1, Zenon DEF h, ArcKept, RangeSound
<1>11. CASE j # i
  <2>1. Fits(j)
    BY <1>2, <1>9
  <2>2. Into(v, j, x) = Span(v, j)
    <3>1. Into(v, j, x) <= Span(v, j) /\ ~ (Into(v, j, x) < Span(v, j))
      BY ONLY <1>4, <1>9, <1>11, <2>1, Zenon DEF RangeSound
    <3>2. Into(v, j, x) \in Degrees /\ Span(v, j) \in 1..359
      BY ONLY <1>5, <1>9, Zenon
    <3> DEFINE f == Into(v, j, x)
               g == Span(v, j)
    <3>3. f \in Degrees /\ g \in 1..359 /\ f <= g /\ ~ (f < g)
      BY ONLY <3>1, <3>2, Zenon
    <3> HIDE DEF f, g
    <3>4. f = g
      BY ONLY <3>3 DEF Degrees
    <3> QED BY ONLY <3>4 DEF f, g
  <2>3. j < n /\ j # n /\ j \in Nat
    <3>1. i \in 1..n
      OBVIOUS
    <3> HIDE DEF n
    <3> QED BY ONLY <1>1, <1>8, <1>9, <1>11, <3>1
  <2>4. j + 1 \in 1..n /\ Into(v, j + 1, x) = 0
    BY <1>6, <1>9, <2>2, <2>3
  <2>5. Into(v, j + 1, x) < Span(v, j + 1)
    <3>1. Span(v, j + 1) \in 1..359
      BY ONLY <1>5, <2>4, Zenon
    <3> DEFINE f == Into(v, j + 1, x)
               g == Span(v, j + 1)
    <3>2. f = 0 /\ g \in 1..359
      BY ONLY <2>4, <3>1, Zenon
    <3> HIDE DEF f, g
    <3>3. f < g
      BY ONLY <3>2
    <3> QED BY ONLY <3>3 DEF f, g
  <2>6. j + 1 = i
    BY <1>4, <2>4, <2>5
  <2>7. i - 1 = j
    BY ONLY <2>3, <2>6
  <2>8. h = p /\ h \in Degrees
    <3>1. h \in Degrees /\ h = IF j = n THEN 0 ELSE j * w
      BY ONLY <1>9, <2>1, <2>2, Zenon DEF RangeSound
    <3> QED BY ONLY <2>3, <2>7, <3>1, Zenon
  <2>9. Arc(p, h) <= w
    <3>1. Arc(p, h) = 0
      <4>1. h = p /\ h \in Degrees
        BY <2>8
      <4> HIDE DEF p
      <4> QED BY ONLY <4>1 DEF Arc, Degrees
    <3>2. w >= 0
      <4> HIDE DEF n
      <4> QED BY <1>1
    <3> QED BY <3>1, <3>2
  <2> QED BY <2>8, <2>9, Zenon DEF h, ArcKept
<1> QED BY <1>10, <1>11

LEMMA CorrectionSubject ==
  ASSUME Subjects, subject.of = "correction"
  PROVE  subject \in Corrections
<1>1. \A s \in Windows \cup HeapChanges \cup Fetches \cup SetUps : s.of # "correction"
  BY DEF Windows, HeapChanges, Fetches, SetUps
<1>2. \A s \in PeriodicChanges \cup ArrayGrowths \cup Files \cup Starts \cup Messages :
        s.of # "correction"
  BY DEF PeriodicChanges, ArrayGrowths, Files, Starts, Messages
<1>3. \A s \in HookChanges : s.of # "correction"
  BY DEF HookChanges
<1>4. NoSubject.of # "correction"
  BY DEF NoSubject
<1> QED BY <1>1, <1>2, <1>3, <1>4, Zenon DEF Subjects

(* The first elements of a closed sequence are its own.                     *)
LEMMA ClosedKeeps ==
  ASSUME NEW S, NEW s \in Seq(S), NEW i \in 1..Len(s)
  PROVE  Closed(s)[i] = s[i]
BY DEF Closed

(* The correction in CompassDrv::loop: a heading between the values of two  *)
(* neighbouring points comes out between the points.                        *)
THEOREM CorrectionIsKept == ASpec => []CorrectionKeepsArcs
<1>1. Subjects => CorrectionKeepsArcs
  <2> SUFFICES ASSUME Subjects, subject.of = "correction" PROVE CorrectionKeepsArcs
    BY DEF CorrectionKeepsArcs
  <2> DEFINE v == subject.values
             x == subject.heading
             n == Len(v)
             w == 360 \div n
             points == [k \in 1..n |-> (k - 1) * w]
             h == Corrected(x, Closed(points), Closed(v))
  <2>1. v \in Seq(Degrees) /\ GoesRound(v) /\ x \in Degrees
    <3>1. subject \in Corrections
      BY CorrectionSubject
    <3>2. v \in Tables /\ x \in Headings
      BY <3>1 DEF Corrections
    <3>3. \A t \in Tables : t \in Seq(Degrees) /\ GoesRound(t)
      BY AlgorithmsAssumption, Zenon
    <3>4. Headings \subseteq Degrees
      BY AlgorithmsAssumption, Zenon
    <3> HIDE DEF v, x
    <3>5. x \in Degrees
      BY ONLY <3>2, <3>4
    <3> QED BY ONLY <3>2, <3>3, <3>5, Zenon
  <2>2. ASSUME NEW i \in 1..n,
               Arc(Closed(v)[i], x) < Arc(Closed(v)[i], Closed(v)[i + 1]),
               x # 0 \/ Arc(Closed(v)[i], x) = 0
        PROVE  /\ h \in Degrees
               /\ Arc(Closed(points)[i], h) <= w
               /\ Arc(Closed(v)[i], x) = 0 => h = Closed(points)[i]
    <3> HIDE DEF v, x
    <3>1. Closed(v)[i] = v[i]
      BY <2>1, ClosedKeeps, Zenon
    <3>2. Closed(points)[i] = (i - 1) * w
      <4>1. n \in Nat /\ n > 1
        <5>1. n \in Nat
          BY <2>1, LengthOf, Zenon
        <5>2. n > 1
          BY <2>1, Zenon DEF GoesRound
        <5> QED BY <5>1, <5>2
      <4> HIDE DEF n
      <4>2. w \in Int
        BY <4>1
      <4> HIDE DEF w
      <4>3. \A k \in 1..n : (k - 1) * w \in Int
        BY ONLY <4>1, <4>2
      <4>4. points \in [1..n -> Int] /\ \A k \in 1..n : points[k] = (k - 1) * w
        BY ONLY <4>3
      <4> HIDE DEF points
      <4>5. points \in Seq(Int) /\ Len(points) = n
        BY ONLY <4>1, <4>4
      <4>6. Closed(points)[i] = points[i]
        BY ONLY <4>5, i \in 1..n, ClosedKeeps
      <4> QED BY ONLY <4>4, <4>6, i \in 1..n
    <3>3. Into(v, i, x) < Span(v, i) /\ (x # 0 \/ Into(v, i, x) = 0)
      BY <2>2, <3>1, Zenon DEF Into, Span
    <3>4. points = PointsOf(n)
      BY Zenon DEF PointsOf
    <3>5. LET p == (i - 1) * w
          IN  h \in Degrees /\ Arc(p, h) <= w /\ (Into(v, i, x) = 0 => h = p)
      <4>1. h = Corrected(x, Closed(PointsOf(Len(v))), Closed(v))
        BY <3>4, Zenon
      <4> HIDE DEF points, h
      <4>2. ArcKept(v, i, x)
        <5>1. i \in 1..Len(v)
          OBVIOUS
        <5> QED BY ONLY <2>1, <3>3, <5>1, CorrectedKeeps, Zenon
      <4> QED BY ONLY <4>1, <4>2, Zenon DEF ArcKept
    <3> QED BY <3>1, <3>2, <3>5, Zenon DEF Into
  <2> QED BY <2>2, Zenon DEF CorrectionKeepsArcs
<1> QED BY <1>1, SubjectsHold, PTL

--------------------------------------------------------------------------------
(* The periodics: first, what a loop that is a fold from the left does.     *)

(* A fold from the left goes along the segments 1..k of the numbers.        *)
LEMMA SegmentMax ==
  ASSUME NEW k \in Nat \ {0}
  PROVE  Max(1..k) = k /\ (1..k) \ {k} = 1..(k - 1) /\ 1..k # {} /\ 1..0 = {}
<1>1. k \in 1..k /\ \A y \in 1..k : k >= y
  OBVIOUS
<1>2. \A x \in 1..k : (\A y \in 1..k : x >= y) => x = k
  BY <1>1
<1>3. (CHOOSE x \in 1..k : \A y \in 1..k : x >= y) = k
  BY <1>1, <1>2
<1> QED BY <1>3 DEF Max

LEMMA MaxIsOf ==
  ASSUME NEW n \in Nat, NEW P \in SUBSET (1..n), P # {}
  PROVE  Max(P) \in P /\ Max(P) \in 1..n
<1>1. \E x \in P : \A y \in P : x >= y
  <2> DEFINE a == [i \in 1..n |-> -i]
  <2>1. a \in [1..n -> Int] /\ \A i \in 1..n : a[i] = -i
    OBVIOUS
  <2>2. P \in SUBSET (1..n) /\ P # {}
    OBVIOUS
  <2> HIDE DEF a
  <2>3. PICK x \in P : \A y \in P : a[x] < a[y] \/ (a[x] = a[y] /\ x <= y)
    BY ONLY <2>1, <2>2, n \in Nat, FirstLeast
  <2>4. ASSUME NEW y \in P PROVE x >= y
    <3>1. x \in 1..n /\ y \in 1..n
      BY <2>2
    <3>2. a[x] = -x /\ a[y] = -y
      BY <2>1, <3>1
    <3>3. a[x] < a[y] \/ (a[x] = a[y] /\ x <= y)
      BY <2>3
    <3> QED BY ONLY <3>1, <3>2, <3>3, n \in Nat
  <2> QED BY <2>4
<1>2. Max(P) \in P
  BY <1>1 DEF Max
<1> QED BY <1>2

LeftFold(n, base, step, f) ==
  \A P \in SUBSET (1..n) :
    f[P] = IF P = {} THEN base ELSE step[f[P \ {Max(P)}]][Max(P)]

(* There is such a fold, if every step stays in V.                          *)
LEMMA LeftExists ==
  ASSUME NEW n \in Nat, NEW V, NEW base \in V, NEW step \in [V -> [1..n -> V]]
  PROVE  \E f \in [SUBSET (1..n) -> V] : LeftFold(n, base, step, f)
<1> DEFINE D == SUBSET (1..n)
           Fold(f, P) == IF P = {} THEN base ELSE step[f[P \ {Max(P)}]][Max(P)]
           H == [f \in [D -> V] |-> [P \in D |-> Fold(f, P)]]
           rank == [P \in D |-> Cardinality(P)]
<1>2. rank \in [D -> 0..n] /\ \A P \in D : rank[P] = Cardinality(P)
  BY PartsAreFinite
<1>3. ASSUME NEW P \in D, P # {}
      PROVE  Max(P) \in P /\ Max(P) \in 1..n /\ P \ {Max(P)} \in D /\ rank[P \ {Max(P)}] < rank[P]
  <2>1. P \in SUBSET (1..n)
    BY DEF D
  <2>2. Max(P) \in P
    BY <1>3, <2>1, MaxIsOf
  <2> DEFINE x == Max(P)
  <2> HIDE DEF x, rank
  <2>3. P \in SUBSET (1..n) /\ x \in P /\ P # {}
    BY <1>3, <2>2 DEF x
  <2>4. /\ Cardinality(P) \in 0..n
        /\ \A y \in P : /\ P \ {y} \in SUBSET (1..n)
                        /\ Cardinality(P \ {y}) = Cardinality(P) - 1
    BY ONLY <2>3, n \in Nat, PartsAreFinite
  <2>5. x \in 1..n /\ P \ {x} \in D /\ P \in D
    BY <2>3, <2>4
  <2>6. rank[P] = Cardinality(P) /\ rank[P \ {x}] = Cardinality(P \ {x})
    BY <1>2, <2>5
  <2>7. rank[P \ {x}] < rank[P]
    <3>1. Cardinality(P) \in Int /\ Cardinality(P \ {x}) = Cardinality(P) - 1
      BY <2>3, <2>4
    <3> QED BY ONLY <2>6, <3>1
  <2> QED BY <2>3, <2>5, <2>7 DEF x
<1>4. ASSUME NEW f \in [D -> V], NEW P \in D
      PROVE  Fold(f, P) \in V
  <2>1. CASE P # {}
    <3>1. Max(P) \in 1..n /\ P \ {Max(P)} \in D
      BY <1>3, <2>1
    <3> HIDE DEF D
    <3>2. f[P \ {Max(P)}] \in V
      BY <3>1
    <3>3. step[f[P \ {Max(P)}]][Max(P)] \in V
      BY <3>1, <3>2
    <3> QED BY <2>1, <3>3
  <2> QED BY <2>1
<1>5. H \in [[D -> V] -> [D -> V]] /\ \A f \in [D -> V], P \in D : H[f][P] = Fold(f, P)
  BY <1>4
<1>6. ASSUME NEW f \in [D -> V], NEW g \in [D -> V], NEW P \in D,
             \A e \in D : rank[e] < rank[P] => f[e] = g[e]
      PROVE  H[f][P] = H[g][P]
  <2>1. P # {} => f[P \ {Max(P)}] = g[P \ {Max(P)}]
    <3> HIDE DEF D, rank
    <3> QED BY <1>3, <1>6
  <2>2. Fold(f, P) = Fold(g, P)
    <3> HIDE DEF D, rank
    <3> QED BY <2>1, Zenon
  <2> HIDE DEF H, Fold, D, rank
  <2> QED BY <1>5, <2>2, Zenon
<1>7. \E f \in [D -> V] : f = H[f]
  <2> HIDE DEF H, D, rank
  <2>1. V # {}
    OBVIOUS
  <2>2. Recursive(D, V, rank, n, H)
    BY ONLY <1>2, <1>5, <1>6, <2>1, n \in Nat, Zenon DEF Recursive
  <2> QED BY <2>2, RecursionEnds
<1>8. PICK f \in [D -> V] : f = H[f]
  BY <1>7
<1>9. \A P \in D : f[P] = Fold(f, P)
  <2> HIDE DEF H, Fold, D
  <2> QED BY <1>5, <1>8, Zenon
<1> QED BY <1>9 DEF LeftFold

(* The periodics that are started one after the other. *)
StartedOver(order, now, g) ==
  g = [P \in SUBSET DOMAIN order |->
         IF P = {} THEN EmptyHeap
         ELSE LET x == Max(P) IN PeriodicStart(g[P \ {x}], PeriodicSet, order[x], now)]

LEMMA StartedIsFold ==
  ASSUME NEW order, NEW now
  PROVE  Started(order, now) = (CHOOSE g : StartedOver(order, now, g))[DOMAIN order]
BY Zenon DEF Started, FoldLeft, MapThenFoldSet, StartedOver

(* Multiples of i leave nothing when divided by i.                          *)
LEMMA MultipleLeavesNothing ==
  ASSUME NEW i \in Nat \ {0}, NEW q \in Int
  PROVE  (i * q) % i = 0
<1> DEFINE d == (i * q) \div i
           r == (i * q) % i
<1>1. i * q \in Int
  OBVIOUS
<1>2. d \in Int /\ r \in 0..(i - 1) /\ i * q = i * d + r
  BY <1>1
<1> HIDE DEF d, r
<1>3. i * (q - d) = r
  BY <1>2
<1>4. ASSUME q - d >= 1 PROVE FALSE
  <2>1. i * (q - d) >= i * 1
    BY <1>2, <1>4
  <2> QED BY <1>2, <1>3, <2>1
<1>5. ASSUME q - d <= -1 PROVE FALSE
  <2>1. i * (q - d) <= i * (-1)
    BY <1>2, <1>5
  <2> QED BY <1>2, <1>3, <2>1
<1>6. q = d
  BY <1>2, <1>4, <1>5
<1> QED BY <1>2, <1>3, <1>6 DEF r

PeriodicType == [offset : Int, interval : Nat, rescheduled : BOOLEAN]

(* When a periodic is due next: a callback says when, or it is the first    *)
(* of its times after now.                                                  *)
IsNextTime(w, now, time) ==
  IF w.rescheduled THEN time >= now
  ELSE w.interval > 0 => /\ (time - w.offset) % w.interval = 0
                         /\ now < time /\ time - w.interval <= now

LEMMA NextTimeComes ==
  ASSUME NEW w \in PeriodicType, NEW now \in Int
  PROVE  NextTime(w, now) \in Int /\ IsNextTime(w, now, NextTime(w, now))
<1> DEFINE o == w.offset
           i == w.interval
           time == NextTime(w, now)
<1>1. o \in Int /\ i \in Nat /\ w.rescheduled \in BOOLEAN
  BY DEF PeriodicType
<1>2. CASE w.rescheduled
  <2>1. RescheduleCb(now) \in Int /\ RescheduleCb(now) >= now
    BY DEF RescheduleCb
  <2> QED BY <1>2, <2>1 DEF NextTime, IsNextTime
<1>3. CASE ~w.rescheduled /\ i > 0
  <2> DEFINE q == (now - o) \div i
             low == o + i * q
  <2>1. q \in Int /\ i * q <= now - o /\ now - o < i * (q + 1)
    BY <1>1, <1>3
  <2>2. time = IF low <= now THEN low + i ELSE low
    BY <1>3, Zenon DEF NextTime, PeriodicRecalc
  <2> HIDE DEF q, time, o, i
  <2>3. i * q \in Int /\ i * (q + 1) = i * q + i
    BY <1>1, <2>1
  <2>4. low \in Int /\ low <= now
    BY <1>1, <2>1, <2>3
  <2>5. time = o + i * (q + 1)
    BY <1>1, <2>2, <2>3, <2>4
  <2>6. (i * (q + 1)) % i = 0
    BY <1>1, <1>3, <2>1, MultipleLeavesNothing
  <2>7. i * (q + 1) \in Int
    BY <1>1, <2>1, <2>3
  <2>8. time \in Int /\ time - o = i * (q + 1) /\ now < time /\ time - i <= now
    BY ONLY <1>1, <2>1, <2>3, <2>4, <2>5, <2>7, now \in Int
  <2>9. (time - o) % i = 0
    BY <2>6, <2>8
  <2> QED BY <1>3, <2>8, <2>9 DEF IsNextTime, time, o, i
<1>4. CASE ~w.rescheduled /\ i = 0
  BY <1>1, <1>4 DEF NextTime, IsNextTime
<1> QED BY <1>1, <1>2, <1>3, <1>4

(* What the periodics are. *)
LEMMA PeriodicsAre ==
  /\ \A t \in DOMAIN PeriodicSet : t \in Timers /\ PeriodicSet[t] \in PeriodicType
  /\ Len(PeriodicSet) \in Nat /\ DOMAIN PeriodicSet = 1..Len(PeriodicSet)
  /\ 1 \in DOMAIN PeriodicSet
<1>1. /\ PeriodicSet \in Seq(PeriodicType) /\ PeriodicSet # <<>>
      /\ DOMAIN PeriodicSet \subseteq Timers
  BY AlgorithmsAssumption DEF PeriodicType
<1> HIDE DEF PeriodicType
<1> QED BY ONLY <1>1

(* ev_periodic_start, of a periodic that is started already or not.         *)
LEMMA PeriodicStartKeeps ==
  ASSUME NEW h, IsHeap(h), NEW t \in DOMAIN PeriodicSet, NEW now \in Int
  PROVE  LET g == PeriodicStart(h, PeriodicSet, t, now)
             time == NextTime(PeriodicSet[t], now)
         IN  /\ IsHeap(g)
             /\ \A u \in Timers : g.active[u] # 0 <=> u = t \/ h.active[u] # 0
             /\ \A u \in Timers : g.at[u] = IF u = t /\ h.active[t] = 0 THEN time
                                           ELSE h.at[u]
<1> DEFINE time == NextTime(PeriodicSet[t], now)
           g == Enter(h, t, time)
<1>1. CASE h.active[t] # 0
  BY <1>1 DEF PeriodicStart
<1>2. CASE h.active[t] = 0
  <2>1. t \in Timers /\ time \in Int
    BY PeriodicsAre, NextTimeComes
  <2> HIDE DEF time
  <2>2. /\ IsHeap(g) /\ g.at = [h.at EXCEPT ![t] = time]
        /\ \A u \in Timers : g.active[u] = 0 <=> u # t /\ h.active[u] = 0
    BY <1>2, <2>1, EnterKeeps
  <2>3. h.at \in [Timers -> Int]
    BY DEF IsHeap, Indexed, HeapType
  <2>4. PeriodicStart(h, PeriodicSet, t, now) = g
    BY <1>2, Zenon DEF PeriodicStart, time
  <2> HIDE DEF g
  <2> QED BY <1>2, <2>2, <2>3, <2>4 DEF time
<1> QED BY <1>1, <1>2

(* In every order all of them come. *)
LEMMA OrdersAreWhole ==
  ASSUME NEW order \in SetToSeqs(DOMAIN PeriodicSet)
  PROVE  /\ order \in [1..Len(PeriodicSet) -> DOMAIN PeriodicSet]
         /\ \A t \in DOMAIN PeriodicSet : \E i \in DOMAIN order : order[i] = t
<1> DEFINE n == Len(PeriodicSet)
           S == DOMAIN PeriodicSet
<1>1. n \in Nat /\ S = 1..n
  BY PeriodicsAre
<1> HIDE DEF n, S
<1>2. IsFiniteSet(S) /\ Cardinality(S) = n
  BY <1>1, FS_Interval
<1>3. order \in [S -> S] /\ \A i, j \in S : i # j => order[i] # order[j]
  BY <1>1, <1>2 DEF SetToSeqs, S
<1>4. order \in Injection(S, S)
  BY <1>3 DEF Injection, IsInjective
<1>5. order \in Surjection(S, S)
  BY <1>2, <1>4, FS_Injection
<1> QED BY <1>1, <1>3, <1>5 DEF Surjection, S, n

InTime(h, now) ==
  \A t \in Timers : h.active[t] # 0 => h.at[t] = NextTime(PeriodicSet[t], now)

LEMMA StartedHeaps ==
  ASSUME NEW order \in SetToSeqs(DOMAIN PeriodicSet), NEW now \in Int
  PROVE  LET h == Started(order, now)
         IN  /\ IsHeap(h)
             /\ \A t \in Timers : h.active[t] # 0 <=> t \in DOMAIN PeriodicSet
             /\ \A t \in DOMAIN PeriodicSet : h.at[t] = NextTime(PeriodicSet[t], now)
<1> DEFINE n == Len(PeriodicSet)
           V == {h \in HeapType : IsHeap(h)}
           start(h, i) == PeriodicStart(h, PeriodicSet, order[i], now)
           step == [h \in V |-> [i \in 1..n |-> start(h, i)]]
           Over(g) == g = [P \in SUBSET DOMAIN order |->
                             IF P = {} THEN EmptyHeap ELSE start(g[P \ {Max(P)}], Max(P))]
           g == CHOOSE g : Over(g)
<1>1. /\ n \in Nat /\ DOMAIN order = 1..n /\ \A i \in 1..n : order[i] \in DOMAIN PeriodicSet
      /\ \A t \in DOMAIN PeriodicSet : \E i \in 1..n : order[i] = t
  BY OrdersAreWhole, PeriodicsAre
<1>2. Started(order, now) = g[1..n]
  BY <1>1, StartedIsFold, Zenon DEF StartedOver
<1>3. EmptyHeap \in V
  BY EmptyIsHeap DEF IsHeap, Indexed
<1>4. ASSUME NEW h \in V, NEW i \in 1..n
      PROVE  /\ start(h, i) \in V
             /\ \A u \in Timers : start(h, i).active[u] # 0 <=> u = order[i] \/ h.active[u] # 0
             /\ InTime(h, now) => InTime(start(h, i), now)
  <2>1. IsHeap(h) /\ order[i] \in DOMAIN PeriodicSet
    BY <1>1, <1>4
  <2>2. /\ IsHeap(start(h, i))
        /\ \A u \in Timers : start(h, i).active[u] # 0 <=> u = order[i] \/ h.active[u] # 0
    BY ONLY <2>1, now \in Int, PeriodicStartKeeps, Zenon
  <2>3. \A u \in Timers : start(h, i).at[u] = IF u = order[i] /\ h.active[order[i]] = 0
                                             THEN NextTime(PeriodicSet[order[i]], now)
                                             ELSE h.at[u]
    BY ONLY <2>1, now \in Int, PeriodicStartKeeps, Zenon
  <2> HIDE DEF start
  <2>4. InTime(h, now) => InTime(start(h, i), now)
    BY <2>2, <2>3 DEF InTime
  <2> QED BY <2>2, <2>4 DEF IsHeap, Indexed
<1>5. step \in [V -> [1..n -> V]]
  BY <1>4
<1>6. \E f : Over(f)
  <2> HIDE DEF V, n, step
  <2>1. PICK f \in [SUBSET (1..n) -> V] : LeftFold(n, EmptyHeap, step, f)
    BY ONLY <1>1, <1>3, <1>5, LeftExists
  <2>2. ASSUME NEW P \in SUBSET (1..n), P # {}
        PROVE  step[f[P \ {Max(P)}]][Max(P)] = start(f[P \ {Max(P)}], Max(P))
    <3>1. Max(P) \in 1..n
      BY <1>1, <2>2, MaxIsOf
    <3>2. f[P \ {Max(P)}] \in V
      OBVIOUS
    <3> QED BY <3>1, <3>2 DEF step
  <2>3. \A P \in SUBSET (1..n) :
          f[P] = IF P = {} THEN EmptyHeap ELSE start(f[P \ {Max(P)}], Max(P))
    <3> HIDE DEF start
    <3> QED BY <2>1, <2>2, Zenon DEF LeftFold
  <2>4. Over(f)
    <3> HIDE DEF start
    <3> QED BY <1>1, <2>3
  <2> QED BY <2>4
<1>7. Over(g)
  BY <1>6, Zenon
<1>8. /\ g[{}] = EmptyHeap
      /\ \A k \in 1..n : g[1..k] = start(g[1..(k - 1)], k)
  <2> HIDE DEF start, g
  <2>1. g[{}] = EmptyHeap
    BY <1>7
  <2>2. ASSUME NEW k \in 1..n PROVE g[1..k] = start(g[1..(k - 1)], k)
    <3>1. 1..k \in SUBSET (1..n) /\ k \in Nat \ {0}
      BY <1>1
    <3>2. Max(1..k) = k /\ (1..k) \ {k} = 1..(k - 1) /\ 1..k # {}
      BY <3>1, SegmentMax
    <3>3. g[1..k] = start(g[(1..k) \ {Max(1..k)}], Max(1..k))
      BY <1>1, <1>7, <3>1, <3>2
    <3> QED BY <3>2, <3>3
  <2> QED BY <2>1, <2>2
<1> DEFINE Good(k) == /\ g[1..k] \in V /\ InTime(g[1..k], now)
                      /\ \A t \in Timers : g[1..k].active[t] # 0 <=> \E i \in 1..k : order[i] = t
           S == {k \in Nat : k <= n => Good(k)}
<1>9. 0 \in S
  <2>1. 1..0 = {}
    OBVIOUS
  <2>2. \A t \in Timers : EmptyHeap.active[t] = 0
    BY DEF EmptyHeap
  <2> HIDE DEF V, g
  <2>3. InTime(EmptyHeap, now)
    BY <2>2 DEF InTime
  <2> QED BY <1>3, <1>8, <2>1, <2>2, <2>3
<1>10. ASSUME NEW k \in Nat, k \in S PROVE k + 1 \in S
  <2> HIDE DEF Good
  <2>0. k \in Nat /\ (k <= n => Good(k)) /\ k + 1 \in Nat
    BY <1>10
  <2> SUFFICES ASSUME k + 1 <= n PROVE Good(k + 1)
    BY <2>0
  <2>9. Good(k)
    BY <1>1, <2>0
  <2> DEFINE h == g[1..k]
             m == k + 1
  <2>1. m \in 1..n /\ m - 1 = k
    BY <1>1
  <2>2. /\ h \in V /\ InTime(h, now)
        /\ \A t \in Timers : h.active[t] # 0 <=> \E i \in 1..k : order[i] = t
    BY <2>9 DEF Good
  <2>3. g[1..m] = start(h, m)
    BY <1>8, <2>1
  <2> HIDE DEF g, V, h, start
  <2>4. /\ start(h, m) \in V /\ InTime(start(h, m), now)
        /\ \A u \in Timers : start(h, m).active[u] # 0 <=> u = order[m] \/ h.active[u] # 0
    BY ONLY <1>4, <2>1, <2>2, Zenon
  <2>5. \A t : (\E i \in 1..m : order[i] = t) <=> t = order[m] \/ \E i \in 1..k : order[i] = t
    <3>1. 1..m = (1..k) \cup {m}
      BY <2>1
    <3> QED BY <3>1, Zenon
  <2> QED BY <2>2, <2>3, <2>4, <2>5 DEF Good
<1>11. n \in S
  <2> HIDE DEF S
  <2> QED BY <1>1, <1>9, <1>10, Induction
<1>12. Good(n)
  <2> HIDE DEF Good
  <2> QED BY <1>1, <1>11
<1> HIDE DEF g
<1>13. /\ IsHeap(g[1..n])
       /\ \A t \in Timers : g[1..n].active[t] # 0 <=> t \in DOMAIN PeriodicSet
  BY <1>1, <1>12, PeriodicsAre
<1>14. \A t \in DOMAIN PeriodicSet : g[1..n].at[t] = NextTime(PeriodicSet[t], now)
  BY <1>12, <1>13, PeriodicsAre DEF InTime
<1> QED BY <1>2, <1>13, <1>14

(* A heap of periodics. *)
HoldsPeriodics(h) ==
  /\ IsHeap(h)
  /\ \A t \in Timers : h.active[t] # 0 => t \in DOMAIN PeriodicSet

(* One that is past: its next time, or it is stopped. *)
LEMMA PeriodicReifiedIs ==
  ASSUME NEW h, HoldsPeriodics(h), h.slots # <<>>, NEW now \in Int
  PROVE  LET t == Root(h)
             w == PeriodicSet[t]
             g == PeriodicReified(h, PeriodicSet, now)
         IN  /\ t \in DOMAIN PeriodicSet /\ h.active[t] # 0
             /\ HoldsPeriodics(g)
             /\ \A u \in Timers :
                  /\ g.active[u] = 0 <=> h.active[u] = 0 \/ (u = t /\ ~ComesAgain(w))
                  /\ g.at[u] = IF u = t /\ ComesAgain(w) THEN NextTime(w, now) ELSE h.at[u]
<1> DEFINE t == Root(h)
           w == PeriodicSet[t]
           time == NextTime(w, now)
           g == PeriodicReified(h, PeriodicSet, now)
<1>1. 1 \in DOMAIN h.slots /\ h.slots[1] = t /\ t \in Timers /\ h.at \in [Timers -> Int]
  BY DEF HoldsPeriodics, IsHeap, Indexed, HeapType, Root
<1>2. h.active[t] # 0 /\ IsHeap(h)
  BY <1>1 DEF HoldsPeriodics, IsHeap, Indexed
<1>3. t \in DOMAIN PeriodicSet
  BY <1>1, <1>2 DEF HoldsPeriodics
<1>4. time \in Int
  BY <1>3, PeriodicsAre, NextTimeComes
<1> HIDE DEF t, w, time
<1>5. CASE ComesAgain(w)
  <2> DEFINE r == Retimed(h, 1, time)
             d == DownHeap(r, 1)
  <2>1. g = d
    BY <1>1, <1>5, Zenon DEF PeriodicReified, Retimed, t, w, time
  <2>2. /\ Indexed(r) /\ r.slots = h.slots /\ r.active = h.active
        /\ r.at = [h.at EXCEPT ![t] = time] /\ OrderedBut(r, 1, Len(r.slots))
    BY <1>1, <1>2, <1>4, RetimedIs
  <2> HIDE DEF r
  <2>3. 1 \in DOMAIN r.slots /\ ~(1 > 1)
    BY <1>1, <2>2
  <2>4. Indexed(d) /\ SameTimers(r, d) /\ Ordered(d, Len(r.slots))
    BY ONLY <2>2, <2>3, DownHeapOrders
  <2> HIDE DEF d, g
  <2>5. IsHeap(g)
    BY <2>1, <2>4 DEF IsHeap, SameTimers
  <2>6. \A u \in Timers : /\ g.active[u] = 0 <=> h.active[u] = 0
                          /\ g.at[u] = IF u = t THEN time ELSE h.at[u]
    BY <1>1, <2>1, <2>2, <2>4 DEF SameTimers
  <2>7. HoldsPeriodics(g)
    BY <2>5, <2>6 DEF HoldsPeriodics
  <2> QED BY <1>2, <1>3, <1>5, <2>6, <2>7 DEF t, w, time, g
<1>6. CASE ~ComesAgain(w)
  <2> DEFINE d == Leave(h, t)
  <2>1. g = d
    BY <1>6, Zenon DEF PeriodicReified, t, w
  <2>2. IsHeap(d) /\ d.at = h.at /\ \A u \in Timers : d.active[u] = 0 <=> u = t \/ h.active[u] = 0
    BY <1>1, <1>2, LeaveKeeps
  <2> HIDE DEF d, g
  <2>3. HoldsPeriodics(g)
    BY <2>1, <2>2 DEF HoldsPeriodics
  <2> QED BY <1>2, <1>3, <1>6, <2>1, <2>2, <2>3 DEF t, w, time, g
<1> QED BY <1>5, <1>6

(* periodics_reify, one at a time. *)
Reified(r, now) ==
  IF r.heap.slots = <<>> \/ At(r.heap, 1) >= now THEN r
  ELSE [heap |-> PeriodicReified(r.heap, PeriodicSet, now),
        called |-> Append(r.called, Root(r.heap))]
ReifiedOver(heap, now, g) ==
  g = [P \in SUBSET DOMAIN heap.slots |->
         IF P = {} THEN [heap |-> heap, called |-> <<>>]
         ELSE LET x == Max(P) IN Reified(g[P \ {x}], now)]

LEMMA ReifyIsFold ==
  ASSUME NEW heap, NEW now
  PROVE  PeriodicsReify(heap, PeriodicSet, now)
           = (CHOOSE g : ReifiedOver(heap, now, g))[DOMAIN heap.slots]
BY Zenon DEF PeriodicsReify, FoldLeft, MapThenFoldSet, ReifiedOver, Reified

(* So far, of the periodics of heap: those that are called were past, each  *)
(* is called once and comes again after now or not at all; the others stay. *)
ReifiedType == [heap : {h \in HeapType : HoldsPeriodics(h)}, called : Seq(Timers)]
CalledIs(heap, now, r, t) ==
  /\ heap.active[t] # 0 /\ heap.at[t] < now
  /\ r.heap.active[t] = 0 <=> ~ComesAgain(PeriodicSet[t])
  /\ r.heap.at[t] = IF ComesAgain(PeriodicSet[t]) THEN NextTime(PeriodicSet[t], now)
                    ELSE heap.at[t]
StaysSo(heap, r, t) ==
  r.heap.at[t] = heap.at[t] /\ (r.heap.active[t] = 0 <=> heap.active[t] = 0)
ReifiedPart(heap, now, r) ==
  /\ r \in ReifiedType
  /\ \A i, j \in DOMAIN r.called : r.called[i] = r.called[j] => i = j
  /\ \A t \in Timers : IF t \in ToSet(r.called) THEN CalledIs(heap, now, r, t)
                       ELSE StaysSo(heap, r, t)
NothingIsPast(h, now) == h.slots = <<>> \/ At(h, 1) >= now

LEMMA ComingIsNotPast ==
  ASSUME NEW t \in DOMAIN PeriodicSet, ComesAgain(PeriodicSet[t]), NEW now \in Int
  PROVE  NextTime(PeriodicSet[t], now) >= now
<1> DEFINE w == PeriodicSet[t]
           time == NextTime(w, now)
<1>1. w \in PeriodicType
  BY PeriodicsAre
<1> HIDE DEF w
<1>2. time \in Int /\ IsNextTime(w, now, time)
  BY <1>1, NextTimeComes
<1> HIDE DEF time
<1>3. ComesAgain(w) => time >= now
  BY <1>2, now \in Int DEF IsNextTime, ComesAgain
<1> QED BY <1>3 DEF time, w

LEMMA ReifiedGoesOn ==
  ASSUME NEW heap, NEW now \in Int, NEW r, ReifiedPart(heap, now, r)
  PROVE  LET s == Reified(r, now)
         IN  /\ ReifiedPart(heap, now, s)
             /\ \/ NothingIsPast(r.heap, now) /\ s = r
                \/ Len(s.called) = Len(r.called) + 1
<1> DEFINE h == r.heap
           t == Root(h)
           w == PeriodicSet[t]
           g == PeriodicReified(h, PeriodicSet, now)
           c == r.called
           d == Append(c, t)
           s == Reified(r, now)
<1>1. CASE NothingIsPast(h, now)
  BY <1>1 DEF Reified, NothingIsPast
<1>2. CASE ~NothingIsPast(h, now)
  <2>1. s = [heap |-> g, called |-> d]
    BY <1>2, Zenon DEF Reified, NothingIsPast
  <2>2. h.slots # <<>> /\ HoldsPeriodics(h) /\ h \in HeapType /\ c \in Seq(Timers)
    BY <1>2 DEF NothingIsPast, ReifiedPart, ReifiedType
  <2>3. /\ t \in DOMAIN PeriodicSet /\ h.active[t] # 0
        /\ HoldsPeriodics(g)
        /\ \A u \in Timers :
             /\ g.active[u] = 0 <=> h.active[u] = 0 \/ (u = t /\ ~ComesAgain(w))
             /\ g.at[u] = IF u = t /\ ComesAgain(w) THEN NextTime(w, now) ELSE h.at[u]
    BY <2>2, PeriodicReifiedIs
  <2>4. t \in Timers /\ h.at[t] \in Int /\ h.at[t] < now
    <3>1. 1 \in DOMAIN h.slots /\ At(h, 1) = h.at[t] /\ t \in Timers
      BY <2>2 DEF HeapType, At, Root
    <3>2. h.at[t] \in Int
      BY <2>2, <3>1 DEF HeapType
    <3> QED BY <1>2, <3>1, <3>2 DEF NothingIsPast
  <2> HIDE DEF g, t, h, c, s
  <2>5. t \notin ToSet(c)
    <3> SUFFICES ASSUME t \in ToSet(c) PROVE FALSE
      OBVIOUS
    <3>1. /\ h.active[t] = 0 <=> ~ComesAgain(w)
          /\ ComesAgain(w) => h.at[t] = NextTime(w, now)
      BY <2>4, Zenon DEF ReifiedPart, CalledIs, h, c
    <3>2. ComesAgain(w) /\ h.at[t] = NextTime(w, now)
      BY <2>3, <3>1, Zenon
    <3>3. NextTime(w, now) >= now
      BY <2>3, <3>2, ComingIsNotPast
    <3> QED BY <2>4, <3>2, <3>3
  <2>6. /\ d \in Seq(Timers) /\ Len(d) = Len(c) + 1
        /\ \A u : u \in ToSet(d) <=> u = t \/ u \in ToSet(c)
    <3>1. /\ d \in Seq(Timers) /\ Len(d) = Len(c) + 1 /\ Len(c) \in Nat
          /\ DOMAIN d = 1..(Len(c) + 1) /\ DOMAIN c = 1..Len(c)
          /\ d[Len(c) + 1] = t /\ \A i \in 1..Len(c) : d[i] = c[i]
      BY <2>2, <2>4
    <3> HIDE DEF d
    <3> QED BY <3>1 DEF ToSet
  <2>7. \A i, j \in DOMAIN d : d[i] = d[j] => i = j
    <3>1. /\ Len(c) \in Nat
          /\ DOMAIN d = 1..(Len(c) + 1) /\ DOMAIN c = 1..Len(c)
          /\ d[Len(c) + 1] = t /\ \A i \in 1..Len(c) : d[i] = c[i] /\ c[i] \in ToSet(c)
      BY <2>2, <2>4 DEF ToSet
    <3>2. \A i, j \in 1..Len(c) : c[i] = c[j] => i = j
      BY <3>1 DEF ReifiedPart, c
    <3> HIDE DEF d
    <3> QED BY <2>5, <3>1, <3>2
  <2>8. s.heap = g /\ s.called = d /\ s \in ReifiedType
    <3>1. g \in HeapType
      BY <2>3 DEF HoldsPeriodics, IsHeap, Indexed
    <3> HIDE DEF d
    <3> QED BY <2>1, <2>3, <2>6, <3>1 DEF ReifiedType
  <2>9. ASSUME NEW u \in Timers
        PROVE  IF u \in ToSet(d) THEN CalledIs(heap, now, s, u) ELSE StaysSo(heap, s, u)
    <3> HIDE DEF d, w
    <3>1. IF u \in ToSet(c) THEN CalledIs(heap, now, r, u) ELSE StaysSo(heap, r, u)
      BY Zenon DEF ReifiedPart, c
    <3>2. CASE u = t
      <4>1. StaysSo(heap, r, t)
        BY <2>5, <3>1, <3>2, Zenon
      <4>2. heap.active[t] # 0 /\ heap.at[t] < now /\ heap.at[t] = h.at[t]
        BY <2>3, <2>4, <4>1 DEF StaysSo, h
      <4>3. CalledIs(heap, now, s, t)
        BY <2>3, <2>4, <2>8, <4>2 DEF CalledIs, w
      <4> QED BY <2>6, <3>2, <4>3, Zenon
    <3>3. CASE u # t
      <4>1. s.heap.at[u] = r.heap.at[u] /\ (s.heap.active[u] = 0 <=> r.heap.active[u] = 0)
        BY <2>3, <2>8, <3>3, Zenon DEF h
      <4>2. CalledIs(heap, now, r, u) => CalledIs(heap, now, s, u)
        BY <4>1, Zenon DEF CalledIs
      <4>3. StaysSo(heap, r, u) => StaysSo(heap, s, u)
        BY <4>1, Zenon DEF StaysSo
      <4> QED BY <2>6, <3>1, <3>3, <4>2, <4>3, Zenon
    <3> QED BY <3>2, <3>3
  <2>10. ReifiedPart(heap, now, s)
    <3> HIDE DEF d
    <3> QED BY <2>7, <2>8, <2>9 DEF ReifiedPart
  <2> QED BY <2>6, <2>8, <2>10 DEF s, c
<1> QED BY <1>1, <1>2

LEMMA ReifiedEnds ==
  ASSUME NEW heap, HoldsPeriodics(heap), NEW now \in Int
  PROVE  LET r == PeriodicsReify(heap, PeriodicSet, now)
         IN  /\ ReifiedPart(heap, now, r)
             /\ Len(r.called) = Len(heap.slots) \/ NothingIsPast(r.heap, now)
<1> DEFINE n == Len(heap.slots)
           V == {r \in ReifiedType : ReifiedPart(heap, now, r)}
           base == [heap |-> heap, called |-> <<>>]
           step == [r \in V |-> [i \in 1..n |-> Reified(r, now)]]
           Over(g) == g = [P \in SUBSET DOMAIN heap.slots |->
                             IF P = {} THEN base ELSE Reified(g[P \ {Max(P)}], now)]
           g == CHOOSE g : Over(g)
<1>1. n \in Nat /\ DOMAIN heap.slots = 1..n /\ heap \in HeapType
  BY DEF HoldsPeriodics, IsHeap, Indexed, HeapType
<1>2. PeriodicsReify(heap, PeriodicSet, now) = g[1..n]
  BY <1>1, ReifyIsFold, Zenon DEF ReifiedOver
<1>3. base \in V
  <2>1. base \in ReifiedType /\ base.heap = heap /\ base.called = <<>>
    BY <1>1 DEF ReifiedType
  <2> HIDE DEF base
  <2>2. ToSet(base.called) = {} /\ DOMAIN base.called = {}
    BY <2>1 DEF ToSet
  <2>3. ReifiedPart(heap, now, base)
    BY <2>1, <2>2 DEF ReifiedPart, StaysSo
  <2> QED BY <2>1, <2>3
<1>4. ASSUME NEW r \in V
      PROVE  /\ Reified(r, now) \in V
             /\ \/ NothingIsPast(r.heap, now) /\ Reified(r, now) = r
                \/ Len(Reified(r, now).called) = Len(r.called) + 1
  <2>1. ReifiedPart(heap, now, r)
    BY <1>4
  <2>2. /\ ReifiedPart(heap, now, Reified(r, now))
        /\ \/ NothingIsPast(r.heap, now) /\ Reified(r, now) = r
           \/ Len(Reified(r, now).called) = Len(r.called) + 1
    BY ONLY <2>1, now \in Int, ReifiedGoesOn, Zenon
  <2> QED BY <2>2, Zenon DEF ReifiedPart
<1> HIDE DEF base, V
<1>5. step \in [V -> [1..n -> V]]
  BY <1>4
<1>6. \E f : Over(f)
  <2> HIDE DEF n, step
  <2>1. PICK f \in [SUBSET (1..n) -> V] : LeftFold(n, base, step, f)
    BY ONLY <1>1, <1>3, <1>5, LeftExists
  <2>2. ASSUME NEW P \in SUBSET (1..n), P # {}
        PROVE  step[f[P \ {Max(P)}]][Max(P)] = Reified(f[P \ {Max(P)}], now)
    <3>1. Max(P) \in 1..n
      BY <1>1, <2>2, MaxIsOf
    <3>2. f[P \ {Max(P)}] \in V
      OBVIOUS
    <3> QED BY <3>1, <3>2 DEF step
  <2>3. \A P \in SUBSET (1..n) :
          f[P] = IF P = {} THEN base ELSE Reified(f[P \ {Max(P)}], now)
    BY <2>1, <2>2, Zenon DEF LeftFold
  <2>4. Over(f)
    BY <1>1, <2>3
  <2> QED BY <2>4
<1>7. Over(g)
  BY <1>6, Zenon
<1>8. /\ g[{}] = base
      /\ \A k \in 1..n : g[1..k] = Reified(g[1..(k - 1)], now)
  <2> HIDE DEF g
  <2>1. g[{}] = base
    BY <1>7
  <2>2. ASSUME NEW k \in 1..n PROVE g[1..k] = Reified(g[1..(k - 1)], now)
    <3>1. 1..k \in SUBSET (1..n) /\ k \in Nat \ {0}
      BY <1>1
    <3>2. Max(1..k) = k /\ (1..k) \ {k} = 1..(k - 1) /\ 1..k # {}
      BY <3>1, SegmentMax
    <3>3. g[1..k] = Reified(g[(1..k) \ {Max(1..k)}], now)
      BY <1>1, <1>7, <3>1, <3>2
    <3> QED BY <3>2, <3>3
  <2> QED BY <2>1, <2>2
<1> DEFINE Good(k) == /\ g[1..k] \in V
                      /\ Len(g[1..k].called) = k \/ NothingIsPast(g[1..k].heap, now)
           S == {k \in Nat : k <= n => Good(k)}
<1>9. 0 \in S
  <2>1. 1..0 = {} /\ Len(<<>>) = 0 /\ base.called = <<>>
    BY DEF base
  <2> HIDE DEF g
  <2> QED BY <1>3, <1>8, <2>1
<1>10. ASSUME NEW k \in Nat, k \in S PROVE k + 1 \in S
  <2> DEFINE r == g[1..k]
             m == k + 1
             s == g[1..m]
  <2> SUFFICES ASSUME m <= n PROVE Good(m)
    <3> HIDE DEF Good
    <3> QED OBVIOUS
  <2>1. Good(k)
    <3> HIDE DEF Good
    <3> QED BY <1>1, <1>10
  <2>2. m \in 1..n /\ m - 1 = k
    BY <1>1
  <2>3. r \in V /\ (Len(r.called) = k \/ NothingIsPast(r.heap, now))
    BY <2>1
  <2>4. s = Reified(r, now)
    BY <1>8, <2>2
  <2> HIDE DEF g, r, s
  <2>5. /\ s \in V
        /\ \/ NothingIsPast(r.heap, now) /\ s = r
           \/ Len(s.called) = Len(r.called) + 1
    BY ONLY <1>4, <2>3, <2>4, Zenon
  <2>6. CASE NothingIsPast(r.heap, now)
    <3>1. s = r
      BY <2>4, <2>6, Zenon DEF Reified, NothingIsPast
    <3> QED BY <2>5, <2>6, <3>1 DEF s
  <2>7. CASE Len(r.called) = k /\ ~NothingIsPast(r.heap, now)
    <3>1. Len(s.called) = m
      BY <2>5, <2>7
    <3> QED BY <2>5, <3>1 DEF s
  <2> QED BY <2>3, <2>6, <2>7
<1>11. n \in S
  <2> HIDE DEF S
  <2> QED BY <1>1, <1>9, <1>10, Induction
<1>12. Good(n)
  <2> HIDE DEF Good
  <2> QED BY <1>1, <1>11
<1> HIDE DEF g
<1>13. ReifiedPart(heap, now, g[1..n])
  BY <1>12 DEF V
<1> QED BY <1>2, <1>12, <1>13

(* The loop ends because nothing is past any more, or because all have been *)
(* called, as each is called only once: there are as many.                  *)
LEMMA AllPastAreCalled ==
  ASSUME NEW heap, HoldsPeriodics(heap), NEW now \in Int,
         NEW r, ReifiedPart(heap, now, r),
         Len(r.called) = Len(heap.slots) \/ NothingIsPast(r.heap, now),
         NEW t \in Timers, heap.active[t] # 0, heap.at[t] < now
  PROVE  t \in ToSet(r.called)
<1> DEFINE n == Len(heap.slots)
           c == r.called
           f == [j \in 1..n |-> heap.active[c[j]]]
<1>1. /\ n \in Nat /\ DOMAIN heap.slots = 1..n /\ heap.at \in [Timers -> Int]
      /\ \A u \in Timers : heap.active[u] # 0 =>
           heap.active[u] \in 1..n /\ heap.slots[heap.active[u]] = u
  BY DEF HoldsPeriodics, IsHeap, Indexed, HeapType
<1>2. CASE Len(c) = n
  <2>1. c \in Seq(Timers) /\ \A i, j \in DOMAIN c : c[i] = c[j] => i = j
    BY DEF ReifiedPart, ReifiedType
  <2>2. DOMAIN c = 1..n
    BY <1>2, <2>1
  <2>3. \A j \in 1..n : c[j] \in Timers /\ c[j] \in ToSet(c)
    BY <2>1, <2>2 DEF ToSet
  <2>4. \A j \in 1..n : heap.active[c[j]] # 0
    BY <2>3 DEF ReifiedPart, CalledIs
  <2> HIDE DEF n, c
  <2>5. f \in [1..n -> 1..n]
    BY <1>1, <2>3, <2>4
  <2>6. ASSUME NEW i \in 1..n, NEW j \in 1..n, f[i] = f[j] PROVE i = j
    <3>1. heap.active[c[i]] = heap.active[c[j]]
      BY <2>6
    <3>2. c[i] = c[j]
      BY <1>1, <2>3, <2>4, <3>1
    <3> QED BY <2>1, <2>2, <3>2
  <2>7. f \in Injection(1..n, 1..n)
    <3> HIDE DEF f
    <3> QED BY <2>5, <2>6 DEF Injection, IsInjective
  <2>8. IsFiniteSet(1..n)
    <3>1. n \in Int /\ 1 \in Int
      BY <1>1
    <3> QED BY ONLY <3>1, FS_Interval
  <2>9. f \in Surjection(1..n, 1..n)
    <3> HIDE DEF f
    <3> QED BY ONLY <2>7, <2>8, FS_Injection
  <2>10. PICK j \in 1..n : f[j] = heap.active[t]
    <3> HIDE DEF f
    <3> QED BY <1>1, <2>9 DEF Surjection
  <2>11. c[j] = t
    BY <1>1, <2>3, <2>4, <2>10
  <2> QED BY <2>3, <2>11 DEF c
<1>3. CASE NothingIsPast(r.heap, now)
  <2> DEFINE h == r.heap
             k == h.active[t]
  <2> SUFFICES ASSUME t \notin ToSet(c) PROVE FALSE
    OBVIOUS
  <2>1. StaysSo(heap, r, t)
    BY Zenon DEF ReifiedPart
  <2>2. h.at[t] = heap.at[t] /\ k # 0 /\ heap.at[t] \in Int
    BY <1>1, <2>1 DEF StaysSo
  <2>3. IsHeap(h) /\ Indexed(h)
    BY DEF ReifiedPart, ReifiedType, HoldsPeriodics, IsHeap
  <2> HIDE DEF h
  <2>4. k \in DOMAIN h.slots /\ h.slots[k] = t
    BY <2>2, <2>3 DEF Indexed
  <2> HIDE DEF k
  <2>5. DOMAIN h.slots = 1..Len(h.slots) /\ Len(h.slots) \in Nat /\ At(h, k) \in Int
    BY <2>3, <2>4, SlotsAre
  <2>6. 1 \in DOMAIN h.slots /\ h.slots # <<>>
    BY <2>4, <2>5
  <2>7. At(h, 1) \in Int /\ At(h, 1) <= At(h, k)
    BY <2>3, <2>4, <2>6, SlotsAre, RootIsFirst
  <2>8. At(h, k) = h.at[t] /\ At(h, 1) >= now
    BY <1>3, <2>4, <2>6 DEF NothingIsPast, At, h
  <2> QED BY <2>2, <2>5, <2>7, <2>8
<1> QED BY <1>2, <1>3

--------------------------------------------------------------------------------
(* reheap: one slot after the other rises, and then it is a heap whatever   *)
(* the times were.                                                          *)
ReheapOver(h, g) ==
  g = [P \in SUBSET DOMAIN h.slots |->
         IF P = {} THEN h
         ELSE LET x == Max(P) IN UpHeap(g[P \ {x}], [k \in DOMAIN h.slots |-> k][x])]

LEMMA ReheapIsFold ==
  ASSUME NEW h
  PROVE  Reheap(h) = (CHOOSE g : ReheapOver(h, g))[DOMAIN h.slots]
<1>1. DOMAIN [k \in DOMAIN h.slots |-> k] = DOMAIN h.slots
  OBVIOUS
<1> QED BY <1>1, Zenon DEF Reheap, FoldLeft, MapThenFoldSet, ReheapOver

(* upheap exchanges the timers of some slots. *)
LEMMA UpHeapKeeps ==
  ASSUME NEW h, Indexed(h), NEW k \in DOMAIN h.slots
  PROVE  Indexed(UpHeap(h, k)) /\ SameTimers(h, UpHeap(h, k))
<1> DEFINE next == Rise(h, h.slots[k])
           rank == [j \in DOMAIN h.slots |-> j]
<1>1. DOMAIN next = DOMAIN h.slots /\ Descends(next, rank, Len(h.slots))
  BY RiseDescends
<1>2. UpHeap(h, k) = Moved(h, k, next)
  BY Zenon DEF UpHeap
<1> HIDE DEF next, rank
<1>3. Indexed(Moved(h, k, next)) /\ SameTimers(h, Moved(h, k, next))
  BY <1>1, MovedKeeps
<1> QED BY <1>2, <1>3

(* The slots before k being in order, that of k rises to where it belongs.  *)
LEMMA NextRises ==
  ASSUME NEW h, Indexed(h), NEW k \in DOMAIN h.slots, Ordered(h, k - 1)
  PROVE  Ordered(UpHeap(h, k), k)
<1>1. k \in Nat \ {0}
  BY SlotsAre
<1>2. ASSUME NEW i \in 2..k
      PROVE  Parent(i) # k /\ (i # k => At(h, Parent(i)) <= At(h, i))
  <2>1. Parent(i) \in 1..(i - 1)
    BY <1>1, ParentRange
  <2>2. i # k => i \in 2..(k - 1)
    BY <1>1
  <2> QED BY <1>1, <2>1, <2>2 DEF Ordered
<1>3. OrderedBut(h, k, k)
  BY <1>2 DEF OrderedBut
<1>4. k \in 1..k
  BY <1>1
<1> QED BY <1>2, <1>3, <1>4, UpHeapOrders

LEMMA ReheapOrders ==
  ASSUME NEW h, Indexed(h)
  PROVE  IsHeap(Reheap(h)) /\ SameTimers(h, Reheap(h))
<1> DEFINE n == Len(h.slots)
           V == {g \in HeapType : Indexed(g) /\ SameTimers(h, g)}
           step == [r \in V |-> [i \in 1..n |-> UpHeap(r, i)]]
           Over(g) == g = [P \in SUBSET DOMAIN h.slots |->
                             IF P = {} THEN h
                             ELSE UpHeap(g[P \ {Max(P)}], [k \in DOMAIN h.slots |-> k][Max(P)])]
           g == CHOOSE g : Over(g)
<1>1. n \in Nat /\ DOMAIN h.slots = 1..n /\ h \in HeapType
  BY DEF Indexed, HeapType
<1>2. Reheap(h) = g[1..n]
  BY <1>1, ReheapIsFold, Zenon DEF ReheapOver
<1>3. h \in V
  BY <1>1 DEF SameTimers
<1>4. ASSUME NEW r \in V, NEW i \in 1..n
      PROVE  UpHeap(r, i) \in V /\ (Ordered(r, i - 1) => Ordered(UpHeap(r, i), i))
  <2>1. Indexed(r) /\ SameTimers(h, r) /\ i \in DOMAIN r.slots
    <3>1. Len(r.slots) = n /\ r.slots \in Seq(Timers)
      BY <1>4 DEF SameTimers, HeapType
    <3> QED BY <1>4, <3>1
  <2>2. Indexed(UpHeap(r, i)) /\ SameTimers(r, UpHeap(r, i))
    BY <2>1, UpHeapKeeps
  <2>3. Ordered(r, i - 1) => Ordered(UpHeap(r, i), i)
    BY <2>1, NextRises
  <2>4. SameTimers(h, UpHeap(r, i))
    BY <2>1, <2>2, Zenon DEF SameTimers
  <2> QED BY <2>2, <2>3, <2>4 DEF Indexed
<1> HIDE DEF V
<1>5. step \in [V -> [1..n -> V]]
  BY <1>4
<1>6. \E f : Over(f)
  <2> HIDE DEF n, step
  <2>1. PICK f \in [SUBSET (1..n) -> V] : LeftFold(n, h, step, f)
    BY ONLY <1>1, <1>3, <1>5, LeftExists
  <2>2. ASSUME NEW P \in SUBSET (1..n), P # {}
        PROVE  step[f[P \ {Max(P)}]][Max(P)]
                 = UpHeap(f[P \ {Max(P)}], [k \in DOMAIN h.slots |-> k][Max(P)])
    <3>1. Max(P) \in 1..n
      BY <1>1, <2>2, MaxIsOf
    <3>2. f[P \ {Max(P)}] \in V
      OBVIOUS
    <3>3. [k \in DOMAIN h.slots |-> k][Max(P)] = Max(P)
      BY <1>1, <3>1
    <3>4. step[f[P \ {Max(P)}]][Max(P)] = UpHeap(f[P \ {Max(P)}], Max(P))
      BY <3>1, <3>2 DEF step
    <3> QED BY <3>3, <3>4
  <2>3. \A P \in SUBSET (1..n) :
          f[P] = IF P = {} THEN h
                 ELSE UpHeap(f[P \ {Max(P)}], [k \in DOMAIN h.slots |-> k][Max(P)])
    BY <2>1, <2>2, Zenon DEF LeftFold
  <2>4. Over(f)
    BY <1>1, <2>3
  <2> QED BY <2>4
<1>7. Over(g)
  BY <1>6, Zenon
<1>8. /\ g[{}] = h
      /\ \A k \in 1..n : g[1..k] = UpHeap(g[1..(k - 1)], k)
  <2> HIDE DEF g
  <2>1. g[{}] = h
    BY <1>7
  <2>2. ASSUME NEW k \in 1..n PROVE g[1..k] = UpHeap(g[1..(k - 1)], k)
    <3>1. 1..k \in SUBSET (1..n) /\ k \in Nat \ {0}
      BY <1>1
    <3>2. Max(1..k) = k /\ (1..k) \ {k} = 1..(k - 1) /\ 1..k # {}
      BY <3>1, SegmentMax
    <3>3. g[1..k] = UpHeap(g[(1..k) \ {Max(1..k)}], [j \in DOMAIN h.slots |-> j][Max(1..k)])
      BY <1>1, <1>7, <3>1, <3>2
    <3>4. [j \in DOMAIN h.slots |-> j][k] = k
      BY <1>1
    <3> QED BY <3>2, <3>3, <3>4
  <2> QED BY <2>1, <2>2
<1> DEFINE Good(k) == g[1..k] \in V /\ Ordered(g[1..k], k)
           S == {k \in Nat : k <= n => Good(k)}
<1>9. 0 \in S
  <2>1. 1..0 = {} /\ Ordered(h, 0)
    BY DEF Ordered
  <2> HIDE DEF g
  <2> QED BY <1>3, <1>8, <2>1
<1>10. ASSUME NEW k \in Nat, k \in S PROVE k + 1 \in S
  <2> DEFINE m == k + 1
  <2> SUFFICES ASSUME m <= n PROVE Good(m)
    <3> HIDE DEF Good
    <3> QED OBVIOUS
  <2>1. Good(k)
    <3> HIDE DEF Good
    <3> QED BY <1>1, <1>10
  <2>2. m \in 1..n /\ m - 1 = k
    BY <1>1
  <2>3. g[1..m] = UpHeap(g[1..k], m)
    BY <1>8, <2>2
  <2> HIDE DEF g, m
  <2> QED BY <1>4, <2>1, <2>2, <2>3
<1>11. n \in S
  <2> HIDE DEF S
  <2> QED BY <1>1, <1>9, <1>10, Induction
<1>12. Good(n)
  <2> HIDE DEF Good
  <2> QED BY <1>1, <1>11
<1> HIDE DEF g
<1>13. Indexed(g[1..n]) /\ SameTimers(h, g[1..n]) /\ Ordered(g[1..n], n)
  BY <1>12 DEF V
<1> QED BY <1>2, <1>13 DEF IsHeap, SameTimers

(* periodics_reschedule: after a jump those that come again are at their    *)
(* next times and the others where they were.                               *)
LEMMA RescheduleComes ==
  ASSUME NEW h, HoldsPeriodics(h), NEW now \in Int
  PROVE  LET g == PeriodicsReschedule(h, PeriodicSet, now)
         IN  /\ HoldsPeriodics(g)
             /\ \A u \in Timers :
                  /\ g.active[u] = 0 <=> h.active[u] = 0
                  /\ g.at[u] = IF h.active[u] # 0 /\ ComesAgain(PeriodicSet[u])
                               THEN NextTime(PeriodicSet[u], now) ELSE h.at[u]
<1> DEFINE at == [t \in Timers |->
                    IF h.active[t] # 0 /\ ComesAgain(PeriodicSet[t])
                    THEN NextTime(PeriodicSet[t], now) ELSE h.at[t]]
           c == [h EXCEPT !.at = at]
           g == Reheap(c)
<1>1. /\ h \in HeapType /\ h.at \in [Timers -> Int] /\ Indexed(h)
      /\ \A t \in Timers : h.active[t] # 0 => t \in DOMAIN PeriodicSet
  BY DEF HoldsPeriodics, IsHeap, Indexed, HeapType
<1>2. ASSUME NEW t \in Timers
      PROVE  /\ at[t] \in Int
             /\ at[t] = IF h.active[t] # 0 /\ ComesAgain(PeriodicSet[t])
                        THEN NextTime(PeriodicSet[t], now) ELSE h.at[t]
  <2>1. at[t] = IF h.active[t] # 0 /\ ComesAgain(PeriodicSet[t])
                THEN NextTime(PeriodicSet[t], now) ELSE h.at[t]
    BY Zenon
  <2>2. h.active[t] # 0 => NextTime(PeriodicSet[t], now) \in Int
    <3> SUFFICES ASSUME h.active[t] # 0 PROVE NextTime(PeriodicSet[t], now) \in Int
      OBVIOUS
    <3>1. PeriodicSet[t] \in PeriodicType
      BY <1>1, PeriodicsAre
    <3> QED BY <3>1, NextTimeComes
  <2> HIDE DEF at
  <2> QED BY <1>1, <2>1, <2>2
<1>3. at \in [Timers -> Int]
  <2>1. at = [t \in Timers |-> at[t]]
    BY Zenon
  <2> HIDE DEF at
  <2> QED BY <1>2, <2>1
<1>4. PeriodicsReschedule(h, PeriodicSet, now) = g
  BY Zenon DEF PeriodicsReschedule
<1> HIDE DEF at
<1>5. c \in HeapType /\ c.slots = h.slots /\ c.active = h.active /\ c.at = at
  BY <1>1, <1>3 DEF HeapType
<1> HIDE DEF c
<1>6. Indexed(c)
  BY <1>1, <1>5 DEF Indexed
<1>7. IsHeap(g) /\ SameTimers(c, g)
  BY <1>6, ReheapOrders
<1> HIDE DEF g
<1>8. HoldsPeriodics(g)
  BY <1>1, <1>5, <1>7 DEF HoldsPeriodics, SameTimers
<1> QED BY <1>2, <1>4, <1>5, <1>7, <1>8 DEF SameTimers

(* ev_periodic_again, of a periodic that is started. *)
LEMMA PeriodicAgainComes ==
  ASSUME NEW h, IsHeap(h), NEW t \in DOMAIN PeriodicSet, h.active[t] # 0, NEW now \in Int
  PROVE  LET g == PeriodicAgain(h, PeriodicSet, t, now)
         IN  /\ IsHeap(g)
             /\ \A u \in Timers :
                  /\ g.active[u] = 0 <=> h.active[u] = 0
                  /\ g.at[u] = IF u = t THEN NextTime(PeriodicSet[t], now) ELSE h.at[u]
<1> DEFINE d == Leave(h, t)
           time == NextTime(PeriodicSet[t], now)
           g == PeriodicStart(d, PeriodicSet, t, now)
<1>1. t \in Timers
  BY PeriodicsAre
<1>2. /\ IsHeap(d) /\ d.at = h.at
      /\ \A u \in Timers : d.active[u] = 0 <=> u = t \/ h.active[u] = 0
  BY <1>1, LeaveKeeps
<1>3. PeriodicAgain(h, PeriodicSet, t, now) = g
  BY Zenon DEF PeriodicAgain, PeriodicStop
<1> HIDE DEF d
<1>4. /\ IsHeap(g)
      /\ \A u \in Timers : g.active[u] # 0 <=> u = t \/ d.active[u] # 0
      /\ \A u \in Timers : g.at[u] = IF u = t /\ d.active[t] = 0 THEN time ELSE d.at[u]
  BY <1>2, PeriodicStartKeeps, Zenon
<1> HIDE DEF g, time
<1>5. \A u \in Timers : g.active[u] = 0 <=> h.active[u] = 0
  BY <1>1, <1>2, <1>4
<1>6. \A u \in Timers : g.at[u] = IF u = t THEN time ELSE h.at[u]
  BY <1>1, <1>2, <1>4
<1> QED BY <1>3, <1>4, <1>5, <1>6 DEF time

LEMMA PeriodicSubject ==
  ASSUME Subjects, subject.of = "periodic"
  PROVE  subject \in PeriodicChanges
<1>1. \A s \in Corrections \cup Windows \cup Fetches \cup SetUps : s.of # "periodic"
  BY DEF Corrections, Windows, Fetches, SetUps
<1>2. \A s \in HeapChanges \cup ArrayGrowths \cup Files \cup Starts \cup Messages :
        s.of # "periodic"
  BY DEF HeapChanges, ArrayGrowths, Files, Starts, Messages
<1>3. \A s \in HookChanges : s.of # "periodic"
  BY DEF HookChanges
<1>4. NoSubject.of # "periodic"
  BY DEF NoSubject
<1> QED BY <1>1, <1>2, <1>3, <1>4, Zenon DEF Subjects

(* What becomes of the periodics in moved, and of the others.               *)
ComeNext(h, g, moved, gone, now) ==
  /\ IsHeap(g)
  /\ \A t \in DOMAIN PeriodicSet :
       /\ g.active[t] # 0 <=> t \notin gone
       /\ g.at[t] = IF t \in moved /\ ComesAgain(PeriodicSet[t])
                    THEN NextTime(PeriodicSet[t], now) ELSE h.at[t]

(* periodics_reify, ev_resume and ev_periodic_again, whatever the periodics *)
(* and the clock: who is past is called once, who comes again is due at the *)
(* first of its times after now, who does not is stopped.                   *)
THEOREM PeriodicsAreDue == ASpec => []PeriodicsComeNext
<1>1. Subjects => PeriodicsComeNext
  <2> SUFFICES ASSUME Subjects, subject.of = "periodic" PROVE PeriodicsComeNext
    BY DEF PeriodicsComeNext
  <2> DEFINE h == subject.heap
             now == subject.now
             p == PeriodicSet
             past == {t \in DOMAIN p : h.active[t] # 0 /\ h.at[t] < now}
             r == PeriodicsReify(h, p, now)
             timers == TimersReschedule(h, 3)
             again == PeriodicsReschedule(h, p, now)
             one == PeriodicAgain(h, p, 1, now)
             new == CASE subject.how = "reify" -> r.heap
                      [] subject.how = "resume" -> again
                      [] subject.how = "again" -> one
             moved == CASE subject.how = "reify" -> past
                        [] subject.how = "resume" -> DOMAIN p
                        [] subject.how = "again" -> {1}
             gone == IF subject.how = "reify" THEN {t \in past : ~ComesAgain(p[t])} ELSE {}
  <2>1. /\ h \in PeriodicHeaps /\ now \in Int
        /\ subject.how \in {"reify", "resume", "again"}
    BY PeriodicSubject, AlgorithmsAssumption DEF PeriodicChanges
  <2>2. PICK order \in SetToSeqs(DOMAIN p), before \in Int : h = Started(order, before)
    BY <2>1, AlgorithmsAssumption DEF PeriodicHeaps
  <2>3. /\ IsHeap(h) /\ HoldsPeriodics(h)
        /\ \A t \in DOMAIN p : t \in Timers /\ h.active[t] # 0
        /\ \A t \in DOMAIN p : h.at[t] = NextTime(p[t], before)
    BY <2>2, StartedHeaps, PeriodicsAre DEF HoldsPeriodics
  <2> HIDE DEF h, now
  <2>4. h.at \in [Timers -> Int]
    BY <2>3 DEF IsHeap, Indexed, HeapType
  <2>5. /\ ReifiedPart(h, now, r)
        /\ \A t \in past : t \in ToSet(r.called)
    <3>1. /\ ReifiedPart(h, now, r)
          /\ Len(r.called) = Len(h.slots) \/ NothingIsPast(r.heap, now)
      BY <2>1, <2>3, ReifiedEnds
    <3> HIDE DEF r
    <3>2. ASSUME NEW t \in past PROVE t \in ToSet(r.called)
      BY <2>1, <2>3, <3>1, AllPastAreCalled
    <3> QED BY <3>1, <3>2
  <2>6. ToSet(r.called) = past /\ IsInjective(r.called)
    <3> HIDE DEF r
    <3>1. r.called \in Seq(Timers) /\ ToSet(r.called) \subseteq Timers
      BY <2>5 DEF ReifiedPart, ReifiedType, ToSet
    <3>2. \A t \in ToSet(r.called) : h.active[t] # 0 /\ h.at[t] < now
      BY <2>5, <3>1 DEF ReifiedPart, CalledIs
    <3>3. \A t \in ToSet(r.called) : t \in DOMAIN p
      BY <2>3, <3>1, <3>2 DEF HoldsPeriodics
    <3>4. IsInjective(r.called)
      BY <2>5 DEF ReifiedPart, IsInjective
    <3> QED BY <2>5, <3>2, <3>3, <3>4
  <2>7. IsHeap(timers) /\ \A t \in ToSet(h.slots) : timers.at[t] = h.at[t] + 3
    <3>1. /\ IsHeap(timers)
          /\ \A u \in Timers : timers.at[u] = IF h.active[u] = 0 THEN h.at[u] ELSE h.at[u] + 3
      BY <2>3, RescheduledKeeps
    <3> HIDE DEF timers
    <3>2. \A t \in ToSet(h.slots) : t \in Timers /\ h.active[t] # 0
      BY <2>3, SlotsAre DEF IsHeap, ToSet
    <3> QED BY <3>1, <3>2
  <2>8. ComeNext(h, new, moved, gone, now)
    <3>1. CASE subject.how = "reify"
      <4>1. new = r.heap /\ moved = past /\ gone = {t \in past : ~ComesAgain(p[t])}
        BY <3>1
      <4> HIDE DEF r, new, moved, gone
      <4>2. IsHeap(r.heap)
        BY <2>5 DEF ReifiedPart, ReifiedType, HoldsPeriodics
      <4>3. ASSUME NEW t \in DOMAIN p
            PROVE  /\ r.heap.active[t] # 0 <=> t \notin gone
                   /\ r.heap.at[t] = IF t \in past /\ ComesAgain(p[t])
                                     THEN NextTime(p[t], now) ELSE h.at[t]
        <5>1. t \in Timers /\ h.active[t] # 0
          BY <2>3
        <5>2. CASE t \in past
          <6>1. CalledIs(h, now, r, t)
            BY <2>5, <5>1, <5>2, Zenon DEF ReifiedPart
          <6> HIDE DEF past
          <6>2. t \in gone <=> ~ComesAgain(p[t])
            BY <4>1, <5>2
          <6> QED BY <5>2, <6>1, <6>2, Zenon DEF CalledIs
        <5>3. CASE t \notin past
          <6>1. StaysSo(h, r, t)
            BY <2>5, <2>6, <5>1, <5>3, Zenon DEF ReifiedPart
          <6> HIDE DEF past
          <6> QED BY <4>1, <5>1, <5>3, <6>1 DEF StaysSo
        <5> QED BY <5>2, <5>3
      <4> HIDE DEF past
      <4> QED BY <4>1, <4>2, <4>3 DEF ComeNext
    <3>2. CASE subject.how = "resume"
      <4>1. new = again /\ moved = DOMAIN p /\ gone = {}
        BY <3>2
      <4>2. /\ HoldsPeriodics(again)
            /\ \A u \in Timers :
                 /\ again.active[u] = 0 <=> h.active[u] = 0
                 /\ again.at[u] = IF h.active[u] # 0 /\ ComesAgain(p[u])
                                  THEN NextTime(p[u], now) ELSE h.at[u]
        BY <2>1, <2>3, RescheduleComes
      <4> HIDE DEF again, new, moved, gone
      <4> QED BY <2>3, <4>1, <4>2 DEF ComeNext, HoldsPeriodics
    <3>3. CASE subject.how = "again"
      <4>1. new = one /\ moved = {1} /\ gone = {}
        BY <3>3
      <4>2. 1 \in DOMAIN p
        BY PeriodicsAre
      <4>3. /\ IsHeap(one)
            /\ \A u \in Timers :
                 /\ one.active[u] = 0 <=> h.active[u] = 0
                 /\ one.at[u] = IF u = 1 THEN NextTime(p[1], now) ELSE h.at[u]
        BY <2>1, <2>3, <4>2, PeriodicAgainComes
      <4>4. ~ComesAgain(p[1]) => NextTime(p[1], now) = h.at[1]
        <5> SUFFICES ASSUME ~ComesAgain(p[1]) PROVE NextTime(p[1], now) = h.at[1]
          OBVIOUS
        <5>1. NextTime(p[1], now) = p[1].offset /\ NextTime(p[1], before) = p[1].offset
          BY Zenon DEF NextTime, ComesAgain
        <5> QED BY <2>3, <4>2, <5>1
      <4> HIDE DEF one, new, moved, gone
      <4> QED BY <2>3, <4>1, <4>3, <4>4 DEF ComeNext
    <3> QED BY <2>1, <3>1, <3>2, <3>3
  <2>9. /\ EvResume(h, h, p, 3, now).timers = timers
        /\ EvResume(h, h, p, 3, now).periodics = again
    BY DEF EvResume
  <2>10. WellFormed(new) /\ WellFormed(timers)
    <3> HIDE DEF new, timers
    <3> QED BY <2>7, <2>8, HeapIsWellFormed DEF ComeNext
  <2>11. ASSUME NEW t \in DOMAIN p
         PROVE  /\ new.active[t] # 0 <=> ComesAgain(p[t]) \/ subject.how # "reify" \/ t \notin past
                /\ IF t \notin moved \/ ~ComesAgain(p[t]) THEN new.at[t] = h.at[t]
                   ELSE IF p[t].rescheduled THEN new.at[t] >= now
                   ELSE /\ (new.at[t] - p[t].offset) % p[t].interval = 0
                        /\ now < new.at[t] /\ new.at[t] - p[t].interval <= now
    <3>1. t \notin gone <=> ComesAgain(p[t]) \/ subject.how # "reify" \/ t \notin past
      <4> HIDE DEF past
      <4> QED OBVIOUS
    <3> HIDE DEF new, moved, gone, past
    <3>2. IsNextTime(p[t], now, NextTime(p[t], now))
      <4>1. p[t] \in PeriodicType
        BY PeriodicsAre
      <4> QED BY <2>1, <4>1, NextTimeComes
    <3>3. /\ new.active[t] # 0 <=> t \notin gone
          /\ new.at[t] = IF t \in moved /\ ComesAgain(p[t])
                         THEN NextTime(p[t], now) ELSE h.at[t]
      BY <2>8, Zenon DEF ComeNext
    <3>4. CASE t \in moved /\ ComesAgain(p[t])
      <4>1. new.at[t] = NextTime(p[t], now)
        BY <3>3, <3>4
      <4>2. IsNextTime(p[t], now, new.at[t])
        BY <3>2, <4>1, Zenon
      <4> QED BY <3>1, <3>3, <3>4, <4>2, Zenon DEF IsNextTime, ComesAgain
    <3>5. CASE ~(t \in moved /\ ComesAgain(p[t]))
      BY <3>1, <3>3, <3>5, Zenon
    <3> QED BY <3>4, <3>5
  <2> HIDE DEF past, r, timers, again, one, gone
  <2> QED BY <2>6, <2>7, <2>9, <2>10, <2>11, ZenonT(60) DEF PeriodicsComeNext, h, now, past, r, one
<1> QED BY <1>1, SubjectsHold, PTL

--------------------------------------------------------------------------------
(* The arrays of watchers: first, lists.                                    *)

(* A recursion along a list has a solution, if every step stays in V.       *)
Along(n, base, step, f) ==
  f = [k \in 0..n |-> IF k = 0 THEN base ELSE step[f[k - 1]][k]]

LEMMA AlongExists ==
  ASSUME NEW n \in Nat, NEW V, NEW base \in V, NEW step \in [V -> [1..n -> V]]
  PROVE  \E f \in [0..n -> V] : Along(n, base, step, f)
<1> DEFINE D == 0..n
           NextOf(f, k) == IF k = 0 THEN base ELSE step[f[k - 1]][k]
           H == [f \in [D -> V] |-> [k \in D |-> NextOf(f, k)]]
           rank == [k \in D |-> k]
<1>1. rank \in [D -> 0..n] /\ \A k \in D : rank[k] = k
  OBVIOUS
<1>2. ASSUME NEW k \in D, k # 0 PROVE k - 1 \in D /\ k \in 1..n /\ rank[k - 1] < rank[k]
  BY <1>2
<1>3. ASSUME NEW f \in [D -> V], NEW k \in D PROVE NextOf(f, k) \in V
  <2>1. CASE k # 0
    <3>1. k - 1 \in D /\ k \in 1..n
      BY <1>2, <2>1
    <3> HIDE DEF D
    <3>2. f[k - 1] \in V
      BY <3>1
    <3>3. step[f[k - 1]][k] \in V
      BY <3>1, <3>2
    <3> QED BY <2>1, <3>3
  <2> QED BY <2>1
<1>4. H \in [[D -> V] -> [D -> V]] /\ \A f \in [D -> V], k \in D : H[f][k] = NextOf(f, k)
  BY <1>3
<1>5. ASSUME NEW f \in [D -> V], NEW g \in [D -> V], NEW k \in D,
             \A e \in D : rank[e] < rank[k] => f[e] = g[e]
      PROVE  H[f][k] = H[g][k]
  <2>1. k # 0 => f[k - 1] = g[k - 1]
    <3> HIDE DEF D, rank
    <3> QED BY <1>2, <1>5
  <2>2. NextOf(f, k) = NextOf(g, k)
    <3> HIDE DEF D, rank
    <3> QED BY <2>1, Zenon
  <2> HIDE DEF H, NextOf, D, rank
  <2> QED BY <1>4, <2>2, Zenon
<1>6. \E f \in [D -> V] : f = H[f]
  <2> HIDE DEF H, D, rank
  <2>1. V # {}
    OBVIOUS
  <2>2. Recursive(D, V, rank, n, H)
    BY ONLY <1>1, <1>4, <1>5, <2>1, n \in Nat, Zenon DEF Recursive
  <2> QED BY <2>2, RecursionEnds
<1>7. PICK f \in [D -> V] : f = H[f]
  BY <1>6
<1>8. f = [k \in D |-> NextOf(f, k)]
  BY <1>7
<1> QED BY <1>8 DEF Along

(* What is passed over is missing, and nothing else.                        *)
PassOver(S, s, g) ==
  g = [n \in 0..Len(s) |->
         IF n = 0 THEN <<>> ELSE IF s[n] \in S THEN g[n - 1] ELSE Append(g[n - 1], s[n])]

LEMMA WithoutIsPassed ==
  ASSUME NEW S, NEW s
  PROVE  Without(S, s) = (CHOOSE g : PassOver(S, s, g))[Len(s)]
BY Zenon DEF Without, PassOver

LEMMA PassOverExists ==
  ASSUME NEW V, NEW S, NEW s \in Seq(V)
  PROVE  /\ PassOver(S, s, CHOOSE g : PassOver(S, s, g))
         /\ (CHOOSE g : PassOver(S, s, g)) \in [0..Len(s) -> Seq(V)]
<1> DEFINE n == Len(s)
           T == Seq(V)
           pass(r, k) == IF s[k] \in S THEN r ELSE Append(r, s[k])
           step == [r \in T |-> [k \in 1..n |-> pass(r, k)]]
           base == <<>>
<1>1. n \in Nat /\ base \in T /\ \A k \in 1..n : s[k] \in V
  OBVIOUS
<1>2. \A r \in T, k \in 1..n : pass(r, k) \in T
  BY <1>1
<1>3. step \in [T -> [1..n -> T]] /\ \A r \in T, k \in 1..n : step[r][k] = pass(r, k)
  BY <1>2
<1>4. PICK f \in [0..n -> T] : Along(n, base, step, f)
  <2> HIDE DEF n, T, step, base
  <2> QED BY <1>1, <1>3, AlongExists
<1> HIDE DEF step, T, pass, base
<1>5. \A k \in 0..n : f[k] = IF k = 0 THEN base ELSE pass(f[k - 1], k)
  <2> SUFFICES ASSUME NEW k \in 0..n PROVE f[k] = IF k = 0 THEN base ELSE pass(f[k - 1], k)
    OBVIOUS
  <2>1. f[k] = IF k = 0 THEN base ELSE step[f[k - 1]][k]
    BY <1>4 DEF Along
  <2>2. k # 0 => f[k - 1] \in T /\ k \in 1..n
    BY <1>1
  <2> QED BY <1>3, <2>1, <2>2
<1>6. PassOver(S, s, f)
  BY <1>5 DEF PassOver, pass, base
<1>7. ASSUME NEW g, PassOver(S, s, g) PROVE g = f
  <2> DEFINE Z == {k \in Nat : k <= n => g[k] = f[k]}
  <2>1. 0 \in Z
    BY <1>1, <1>6, <1>7 DEF PassOver
  <2>2. ASSUME NEW k \in Nat, k \in Z PROVE k + 1 \in Z
    <3> SUFFICES ASSUME k + 1 <= n PROVE g[k + 1] = f[k + 1]
      OBVIOUS
    <3> DEFINE m == k + 1
    <3>1. g[k] = f[k] /\ m \in 0..n /\ m # 0 /\ m - 1 = k
      BY <1>1, <2>2
    <3> HIDE DEF Z, m
    <3>2. g[m - 1] = f[m - 1]
      BY <3>1
    <3>3. g[m] = f[m]
      BY ONLY <1>6, <1>7, <3>1, <3>2, Zenon DEF PassOver, n
    <3> QED BY <3>3 DEF m
  <2>3. \A k \in 0..n : g[k] = f[k]
    <3> HIDE DEF Z
    <3>1. Nat \subseteq Z
      BY <2>1, <2>2, Induction
    <3> QED BY <1>1, <3>1 DEF Z
  <2> QED BY <1>1, <1>4, <1>7, <2>3 DEF PassOver
<1>8. PassOver(S, s, CHOOSE g : PassOver(S, s, g))
  BY <1>6, Zenon
<1> HIDE DEF n
<1>9. (CHOOSE g : PassOver(S, s, g)) = f
  BY <1>7, <1>8, Zenon
<1> QED BY <1>4, <1>8, <1>9, Zenon DEF T, n

LEMMA WithoutKeeps ==
  ASSUME NEW V, NEW S, NEW s \in Seq(V)
  PROVE  /\ Without(S, s) \in Seq(V)
         /\ ToSet(Without(S, s)) = ToSet(s) \ S
         /\ IsInjective(s) => IsInjective(Without(S, s))
<1> DEFINE g == CHOOSE g : PassOver(S, s, g)
           n == Len(s)
<1>1. n \in Nat /\ DOMAIN s = 1..n /\ Without(S, s) = g[n]
  BY WithoutIsPassed
<1>2. PassOver(S, s, g) /\ g \in [0..n -> Seq(V)]
  BY PassOverExists
<1> HIDE DEF g
<1> DEFINE Good(k) == /\ ToSet(g[k]) = {s[i] : i \in 1..k} \ S
                      /\ IsInjective(s) => IsInjective(g[k])
           Z == {k \in Nat : k <= n => Good(k)}
<1>3. 0 \in Z
  <2>1. g[0] = <<>>
    BY <1>1, <1>2 DEF PassOver
  <2> QED BY <2>1 DEF ToSet, IsInjective
<1>4. ASSUME NEW k \in Nat, k \in Z PROVE k + 1 \in Z
  <2> SUFFICES ASSUME k + 1 <= n PROVE Good(k + 1)
    OBVIOUS
  <2> DEFINE m == k + 1
             a == g[k]
             x == s[m]
  <2>1. Good(k) /\ m \in 1..n /\ m - 1 = k /\ k \in 0..n /\ m # 0 /\ m \in 0..n
    BY <1>1, <1>4
  <2>2. a \in Seq(V) /\ x \in V
    BY <1>1, <1>2, <2>1
  <2>3. g[m] = IF x \in S THEN a ELSE Append(a, x)
    BY <1>2, <2>1, Zenon DEF PassOver
  <2>4. {s[i] : i \in 1..m} = {s[i] : i \in 1..k} \cup {x}
    <3>1. 1..m = (1..k) \cup {m}
      BY <2>1
    <3> HIDE DEF m
    <3> QED BY <3>1
  <2>5. IsInjective(s) => x \notin {s[i] : i \in 1..k}
    <3>1. \A i \in 1..k : i \in DOMAIN s /\ i # m
      BY <1>1, <2>1
    <3> HIDE DEF m
    <3> QED BY <1>1, <2>1, <3>1 DEF IsInjective
  <2> HIDE DEF m, x, a
  <2>6. CASE x \in S
    BY <2>1, <2>3, <2>4, <2>6 DEF a
  <2>7. CASE x \notin S
    <3>1. ToSet(a) = {s[i] : i \in 1..k} \ S /\ (IsInjective(s) => IsInjective(a))
      BY <2>1 DEF a
    <3>2. ToSet(Append(a, x)) = ToSet(a) \cup {x}
      <4> DEFINE b == Append(a, x)
      <4>1. /\ Len(a) \in Nat /\ DOMAIN a = 1..Len(a) /\ DOMAIN b = 1..(Len(a) + 1)
            /\ b[Len(a) + 1] = x /\ \A i \in 1..Len(a) : b[i] = a[i]
        BY <2>2
      <4>2. 1..(Len(a) + 1) = (1..Len(a)) \cup {Len(a) + 1}
        BY <4>1
      <4> HIDE DEF b
      <4>3. ToSet(b) = ToSet(a) \cup {x}
        BY ONLY <4>1, <4>2 DEF ToSet
      <4> QED BY <4>3 DEF b
    <3>3. x \notin ToSet(a) /\ IsInjective(a) => IsInjective(Append(a, x))
      BY <2>2 DEF ToSet, IsInjective
    <3>4. g[m] = Append(a, x)
      BY <2>3, <2>7
    <3>5. ToSet(g[m]) = {s[i] : i \in 1..m} \ S
      BY ONLY <2>4, <2>7, <3>1, <3>2, <3>4
    <3>6. IsInjective(s) => IsInjective(g[m])
      BY ONLY <2>5, <3>1, <3>3, <3>4, Zenon
    <3> QED BY <3>5, <3>6 DEF m
  <2> QED BY <2>6, <2>7 DEF m
<1>5. Good(n)
  <2> HIDE DEF Good
  <2>1. Nat \subseteq Z
    <3> HIDE DEF Z
    <3> QED BY <1>3, <1>4, Induction
  <2> QED BY <1>1, <2>1
<1>6. g[n] \in Seq(V)
  BY <1>1, <1>2
<1>7. {s[i] : i \in 1..n} = ToSet(s)
  BY <1>1, Zenon DEF ToSet
<1> HIDE DEF n
<1> QED BY <1>1, <1>5, <1>6, <1>7, Zenon

(* What comes twice in two lists put together is in both of them.           *)
LEMMA TwiceIsInBoth ==
  ASSUME NEW V, NEW a \in Seq(V), NEW b \in Seq(V), IsInjective(a), IsInjective(b)
  PROVE  /\ a \o b \in Seq(V) /\ ToSet(a \o b) = ToSet(a) \cup ToSet(b)
         /\ \A i, j \in DOMAIN (a \o b) :
              (a \o b)[i] = (a \o b)[j] /\ i # j => (a \o b)[i] \in ToSet(a) \cap ToSet(b)
<1> DEFINE c == a \o b
           m == Len(a)
           n == Len(b)
<1>1. /\ m \in Nat /\ n \in Nat /\ c \in Seq(V) /\ DOMAIN c = 1..(m + n)
      /\ DOMAIN a = 1..m /\ DOMAIN b = 1..n
      /\ \A i \in 1..(m + n) : c[i] = IF i <= m THEN a[i] ELSE b[i - m]
  OBVIOUS
<1> HIDE DEF c, m, n
<1>2. ToSet(c) \subseteq ToSet(a) \cup ToSet(b)
  <2> SUFFICES ASSUME NEW i \in 1..(m + n) PROVE c[i] \in ToSet(a) \cup ToSet(b)
    BY <1>1 DEF ToSet
  <2>1. i <= m => i \in 1..m
    BY <1>1
  <2>2. ~(i <= m) => i - m \in 1..n
    BY <1>1
  <2> QED BY <1>1, <2>1, <2>2 DEF ToSet
<1>3. ToSet(a) \cup ToSet(b) \subseteq ToSet(c)
  <2>1. ASSUME NEW i \in 1..m PROVE i \in 1..(m + n) /\ c[i] = a[i]
    BY <1>1
  <2>2. ASSUME NEW i \in 1..n PROVE m + i \in 1..(m + n) /\ c[m + i] = b[i]
    BY <1>1
  <2>3. \A y : y \in ToSet(a) => y \in ToSet(c)
    BY ONLY <1>1, <2>1 DEF ToSet
  <2>4. \A y : y \in ToSet(b) => y \in ToSet(c)
    <3> SUFFICES ASSUME NEW i \in 1..n PROVE b[i] \in ToSet(c)
      BY <1>1, Zenon DEF ToSet
    <3> DEFINE k == m + i
    <3>1. k \in DOMAIN c /\ c[k] = b[i]
      BY <1>1, <2>2
    <3> HIDE DEF k
    <3> QED BY <3>1, Zenon DEF ToSet
  <2> QED BY ONLY <2>3, <2>4
<1>4. ASSUME NEW i \in DOMAIN c, NEW j \in DOMAIN c, c[i] = c[j], i < j
      PROVE  c[i] \in ToSet(a) \cap ToSet(b)
  <2>1. ~(j <= m)
    BY <1>1, <1>4 DEF IsInjective
  <2>2. i <= m
    <3> SUFFICES ASSUME ~(i <= m) PROVE FALSE
      OBVIOUS
    <3>1. i - m \in 1..n /\ j - m \in 1..n /\ i - m # j - m
      BY <1>1, <1>4, <2>1
    <3>2. c[i] = b[i - m] /\ c[j] = b[j - m]
      BY <1>1, <1>4, <2>1
    <3> QED BY ONLY <1>1, <1>4, <3>1, <3>2, IsInjective(b) DEF IsInjective
  <2>3. c[i] = a[i] /\ c[j] = b[j - m] /\ i \in 1..m /\ j - m \in 1..n
    BY <1>1, <2>1, <2>2
  <2> QED BY <1>1, <1>4, <2>3 DEF ToSet
<1>5. \A i, j \in DOMAIN c : c[i] = c[j] /\ i # j => c[i] \in ToSet(a) \cap ToSet(b)
  <2> SUFFICES ASSUME NEW i \in DOMAIN c, NEW j \in DOMAIN c, c[i] = c[j], i # j
               PROVE  c[i] \in ToSet(a) \cap ToSet(b)
    OBVIOUS
  <2>1. i < j \/ j < i
    BY <1>1
  <2> QED BY <1>4, <2>1
<1> QED BY <1>1, <1>2, <1>3, <1>5 DEF c

LEMMA ReverseKeeps ==
  ASSUME NEW V, NEW a \in Seq(V)
  PROVE  /\ Reverse(a) \in Seq(V) /\ ToSet(Reverse(a)) = ToSet(a)
         /\ IsInjective(a) => IsInjective(Reverse(a))
<1> DEFINE n == Len(a)
           r == Reverse(a)
<1>1. /\ n \in Nat /\ DOMAIN a = 1..n /\ r \in Seq(V) /\ DOMAIN r = 1..n
      /\ \A i \in 1..n : r[i] = a[(n - i) + 1]
  BY DEF Reverse
<1> HIDE DEF n, r
<1>2. \A i \in 1..n : (n - i) + 1 \in 1..n /\ (n - ((n - i) + 1)) + 1 = i
  BY <1>1
<1>3. ToSet(r) = ToSet(a)
  BY <1>1, <1>2 DEF ToSet
<1>4. IsInjective(a) => IsInjective(r)
  BY <1>1, <1>2 DEF IsInjective
<1> QED BY <1>1, <1>3, <1>4 DEF r

(* A loop and its watchers, each of the kind kinds says.                    *)
LoopType ==
  [arrays : [Kinds -> Seq(Hooks)], active : [Hooks -> Nat], activecnt : Int, idleall : Int,
   queue : Seq(Hooks), called : Seq(Hooks)]

(* What keeps ev_run running, s being the lengths of the arrays.           *)
Counting(s) == s["idle"] + s["prepare"] + s["check"] + s["fork"] + s["async"]

(* Who is active has its place and who has a place is active.               *)
Placed(arrays, active, kinds) ==
  /\ \A w \in Hooks : active[w] # 0 =>
       active[w] \in DOMAIN arrays[kinds[w]] /\ arrays[kinds[w]][active[w]] = w
  /\ \A k \in Kinds : \A i \in DOMAIN arrays[k] :
       kinds[arrays[k][i]] = k /\ active[arrays[k][i]] = i

Lens(arrays) == [k \in Kinds |-> Len(arrays[k])]
Counted(l) == l.idleall = Lens(l.arrays)["idle"] /\ l.activecnt = Counting(Lens(l.arrays))

HoldsHooks(l, kinds) ==
  /\ l \in LoopType /\ kinds \in [Hooks -> Kinds]
  /\ Placed(l.arrays, l.active, kinds) /\ Counted(l)

(* A loop of these parts.                                                   *)
LoopOf(arrays, active, n, m, queue, called) ==
  [arrays |-> arrays, active |-> active, activecnt |-> n, idleall |-> m,
   queue |-> queue, called |-> called]

(* What a watcher of the kind k adds to activecnt and to idleall.           *)
Counts(k) == IF k = "cleanup" THEN 0 ELSE 1
Idles(k) == IF k = "idle" THEN 1 ELSE 0

LEMMA LoopIs ==
  ASSUME NEW l \in LoopType
  PROVE  /\ l = LoopOf(l.arrays, l.active, l.activecnt, l.idleall, l.queue, l.called)
         /\ l.arrays \in [Kinds -> Seq(Hooks)] /\ l.active \in [Hooks -> Nat]
         /\ l.activecnt \in Int /\ l.idleall \in Int
         /\ l.queue \in Seq(Hooks) /\ l.called \in Seq(Hooks)
BY DEF LoopType, LoopOf

LEMMA LoopHas ==
  ASSUME NEW a, NEW b, NEW n, NEW m, NEW q, NEW c
  PROVE  LET l == LoopOf(a, b, n, m, q, c)
         IN  /\ l.arrays = a /\ l.active = b /\ l.activecnt = n /\ l.idleall = m
             /\ l.queue = q /\ l.called = c
BY DEF LoopOf

(* ev_xxx_start and ev_xxx_stop, but for what a kind adds.                  *)
LEMMA EvStartIs ==
  ASSUME NEW a, NEW b, NEW n, NEW m, NEW q, NEW c, NEW w, NEW x
  PROVE  EvStart(LoopOf(a, b, n, m, q, c), w, x) = LoopOf(a, [b EXCEPT ![w] = x], n + 1, m, q, c)
<1> DEFINE l == LoopOf(a, b, n, m, q, c)
           y == [b EXCEPT ![w] = x]
           s == [l EXCEPT !.active[w] = x]
<1>1. s = LoopOf(a, y, n, m, q, c)
  <2>1. s = [l EXCEPT !.active = y]
    BY LoopHas
  <2> QED BY <2>1 DEF LoopOf
<1>2. s.activecnt = n
  BY <1>1, LoopHas
<1> HIDE DEF y, s
<1>3. [s EXCEPT !.activecnt = n + 1] = LoopOf(a, y, n + 1, m, q, c)
  BY <1>1 DEF LoopOf
<1>4. EvRef(s) = [s EXCEPT !.activecnt = n + 1]
  BY <1>2, Zenon DEF EvRef
<1> QED BY <1>3, <1>4, Zenon DEF s, y, EvStart

LEMMA EvStopIs ==
  ASSUME NEW a, NEW b, NEW n, NEW m, NEW q, NEW c, NEW w
  PROVE  EvStop(LoopOf(a, b, n, m, q, c), w) = LoopOf(a, [b EXCEPT ![w] = 0], n - 1, m, q, c)
<1> DEFINE l == LoopOf(a, b, n, m, q, c)
           y == [b EXCEPT ![w] = 0]
           s == [l EXCEPT !.active[w] = 0]
<1>1. s = LoopOf(a, y, n, m, q, c)
  <2>1. s = [l EXCEPT !.active = y]
    BY LoopHas
  <2> QED BY <2>1 DEF LoopOf
<1>2. s.activecnt = n
  BY <1>1, LoopHas
<1> HIDE DEF y, s
<1>3. [s EXCEPT !.activecnt = n - 1] = LoopOf(a, y, n - 1, m, q, c)
  BY <1>1 DEF LoopOf
<1>4. EvUnref(s) = [s EXCEPT !.activecnt = n - 1]
  BY <1>2, Zenon DEF EvUnref
<1> QED BY <1>3, <1>4, Zenon DEF s, y, EvStop

LEMMA EnlistIs ==
  ASSUME NEW a, NEW b, NEW n, NEW m, NEW q, NEW c, NEW w, NEW k
  PROVE  Enlist(LoopOf(a, b, n, m, q, c), k, w) =
           LoopOf([a EXCEPT ![k] = Append(@, w)], [b EXCEPT ![w] = Len(a[k]) + 1], n + 1, m, q, c)
<1> DEFINE l == LoopOf(a, b, n, m, q, c)
           y == [b EXCEPT ![w] = Len(a[k]) + 1]
           z == [a EXCEPT ![k] = Append(@, w)]
           s == EvStart(l, w, Len(a[k]) + 1)
<1>1. s = LoopOf(a, y, n + 1, m, q, c)
  BY EvStartIs
<1>2. l.arrays = a
  BY LoopHas
<1>3. s.arrays = a
  BY <1>1, LoopHas
<1> HIDE DEF y
<1>4. [s EXCEPT !.arrays = z] = LoopOf(z, y, n + 1, m, q, c)
  BY <1>1 DEF LoopOf
<1> HIDE DEF s, l
<1>5. Enlist(l, k, w) = [s EXCEPT !.arrays[k] = Append(@, w)]
  BY <1>2, Zenon DEF Enlist, s
<1>6. [s EXCEPT !.arrays[k] = Append(@, w)] = [s EXCEPT !.arrays = z]
  BY <1>3, Zenon
<1> QED BY <1>4, <1>5, <1>6, Zenon DEF l, y

(* The arrays, and the places, when w stops.                                *)
ArraysWithout(a, b, k, w) == [a EXCEPT ![k] = Front([a[k] EXCEPT ![b[w]] = Last(a[k])])]
PlacesWithout(a, b, k, w) == [[b EXCEPT ![Last(a[k])] = b[w]] EXCEPT ![w] = 0]

LEMMA DelistIs ==
  ASSUME NEW a, NEW b, NEW n, NEW m, NEW q, NEW c, NEW w, NEW k
  PROVE  Delist(LoopOf(a, b, n, m, q, c), k, w) =
           LoopOf(ArraysWithout(a, b, k, w), PlacesWithout(a, b, k, w), n - 1, m, q, c)
<1> DEFINE l == LoopOf(a, b, n, m, q, c)
           i == b[w]
           v == Last(a[k])
           y == [b EXCEPT ![v] = i]
           f == Front([a[k] EXCEPT ![i] = v])
           z == [a EXCEPT ![k] = f]
           s == [l EXCEPT !.arrays = z]
           t == TakePlace(l, k, w)
<1>1. l.arrays = a /\ l.active = b
  BY LoopHas
<1>2. s = LoopOf(z, b, n, m, q, c)
  BY DEF LoopOf
<1>3. s.active = b
  BY <1>2, LoopHas
<1>5. [l EXCEPT !.arrays[k] = f] = s
  BY <1>1, Zenon
<1>6. t = [[l EXCEPT !.arrays[k] = f] EXCEPT !.active[v] = i]
  <2> HIDE DEF l
  <2> QED BY <1>1, Zenon DEF TakePlace
<1> HIDE DEF s, l, f, v, i
<1>4. [s EXCEPT !.active = y] = LoopOf(z, y, n, m, q, c)
  <2> HIDE DEF y, z
  <2> QED BY <1>2 DEF LoopOf
<1>7. [s EXCEPT !.active[v] = i] = [s EXCEPT !.active = y]
  BY <1>3, Zenon
<1>8. t = LoopOf(z, y, n, m, q, c)
  BY <1>4, <1>5, <1>6, <1>7, Zenon
<1> HIDE DEF t
<1>9. Delist(l, k, w) = EvStop(t, w)
  BY Zenon DEF Delist, t
<1> HIDE DEF z, y
<1>10. EvStop(t, w) = LoopOf(z, [y EXCEPT ![w] = 0], n - 1, m, q, c)
  BY <1>8, EvStopIs
<1> QED BY <1>9, <1>10, Zenon DEF l, z, y, f, v, i, ArraysWithout, PlacesWithout


LEMMA StartIs ==
  ASSUME NEW l \in LoopType, NEW k \in Kinds, NEW w, l.active[w] = 0
  PROVE  Start(l, k, w) =
           LoopOf([l.arrays EXCEPT ![k] = Append(@, w)],
                  [l.active EXCEPT ![w] = Len(l.arrays[k]) + 1],
                  l.activecnt + Counts(k), l.idleall + Idles(k), l.queue, l.called)
<1> DEFINE z == [l.arrays EXCEPT ![k] = Append(@, w)]
           y == [l.active EXCEPT ![w] = Len(l.arrays[k]) + 1]
           n == l.activecnt
           m == l.idleall
           q == l.queue
           c == l.called
           e == Enlist(l, k, w)
<1>1. l = LoopOf(l.arrays, l.active, n, m, q, c) /\ n \in Int /\ m \in Int
  BY LoopIs
<1>2. e = LoopOf(z, y, n + 1, m, q, c)
  <2> DEFINE a == l.arrays
             b == l.active
  <2> HIDE DEF n, m, q, c
  <2>1. Enlist(LoopOf(a, b, n, m, q, c), k, w) =
          LoopOf([a EXCEPT ![k] = Append(@, w)], [b EXCEPT ![w] = Len(a[k]) + 1], n + 1, m, q, c)
    <3> HIDE DEF a, b
    <3> QED BY EnlistIs
  <2> QED BY <1>1, <2>1, Zenon
<1>3. (n + 1) - 1 = n /\ n + 0 = n /\ m + 0 = m
  BY <1>1
<1> HIDE DEF z, y, n, m, q, c, e
<1>4. e.activecnt = n + 1 /\ e.idleall = m
  BY <1>2, LoopHas
<1>5. [e EXCEPT !.idleall = @ + 1] = LoopOf(z, y, n + 1, m + 1, q, c)
  BY <1>2 DEF LoopOf
<1>6. EvUnref(e) = LoopOf(z, y, n, m, q, c)
  BY <1>1, <1>2, <1>3 DEF LoopOf, EvUnref
<1>7. CASE k = "idle"
  <2>1. Start(l, k, w) = [e EXCEPT !.idleall = @ + 1] /\ Counts(k) = 1 /\ Idles(k) = 1
    BY <1>7 DEF Start, IdleStart, e, Counts, Idles
  <2> QED BY <1>5, <2>1 DEF z, y, n, m, q, c
<1>8. CASE k = "cleanup"
  <2>1. Start(l, k, w) = EvUnref(e) /\ Counts(k) = 0 /\ Idles(k) = 0
    BY <1>8 DEF Start, CleanupStart, e, Counts, Idles
  <2> QED BY <1>3, <1>6, <2>1 DEF z, y, n, m, q, c
<1>9. CASE k \notin {"idle", "cleanup"}
  <2>1. Start(l, k, w) = e /\ Counts(k) = 1 /\ Idles(k) = 0
    BY <1>9 DEF Start, PrepareStart, CheckStart, ForkStart, AsyncStart, e, Counts, Idles, Kinds
  <2> QED BY <1>2, <1>3, <2>1 DEF z, y, n, m, q, c
<1> QED BY <1>7, <1>8, <1>9

LEMMA UnqueuedIs ==
  ASSUME NEW l \in LoopType, NEW w
  PROVE  /\ Unqueued(l, w) = LoopOf(l.arrays, l.active, l.activecnt, l.idleall,
                                    Without({w}, l.queue), l.called)
         /\ Unqueued(l, w) \in LoopType
<1>1. Without({w}, l.queue) \in Seq(Hooks)
  BY LoopIs, WithoutKeeps
<1> DEFINE q == Without({w}, l.queue)
<1>2. Unqueued(l, w) = [l EXCEPT !.queue = q]
  BY Zenon DEF Unqueued
<1> HIDE DEF q
<1>3. [l EXCEPT !.queue = q] = LoopOf(l.arrays, l.active, l.activecnt, l.idleall, q, l.called)
  BY DEF LoopType, LoopOf
<1>4. [l EXCEPT !.queue = q] \in LoopType
  BY <1>1 DEF LoopType, q
<1> QED BY <1>2, <1>3, <1>4, Zenon DEF q

LEMMA DelistedIs ==
  ASSUME NEW l \in LoopType, NEW k \in Kinds, NEW w, l.active[w] # 0
  PROVE  Stop(l, k, w) =
           LoopOf(ArraysWithout(l.arrays, l.active, k, w),
                  PlacesWithout(l.arrays, l.active, k, w),
                  l.activecnt - Counts(k), l.idleall - Idles(k),
                  Without({w}, l.queue), l.called)
<1> DEFINE z == ArraysWithout(l.arrays, l.active, k, w)
           y == PlacesWithout(l.arrays, l.active, k, w)
           n == l.activecnt
           m == l.idleall
           q == Without({w}, l.queue)
           c == l.called
           u == Unqueued(l, w)
           d == Delist(u, k, w)
           r == Delist(EvRef(u), k, w)
<1>1. u = LoopOf(l.arrays, l.active, n, m, q, c) /\ n \in Int /\ m \in Int
  BY UnqueuedIs, LoopIs
<1>2. d = LoopOf(z, y, n - 1, m, q, c)
  <2> DEFINE a == l.arrays
             b == l.active
  <2> HIDE DEF u, n, m, q, c
  <2>1. Delist(LoopOf(a, b, n, m, q, c), k, w) =
          LoopOf(ArraysWithout(a, b, k, w), PlacesWithout(a, b, k, w), n - 1, m, q, c)
    <3> HIDE DEF a, b
    <3> QED BY ONLY DelistIs
  <2> QED BY <1>1, <2>1, Zenon
<1>3. (n + 1) - 1 = n /\ n - 0 = n /\ m - 0 = m
  BY <1>1
<1>4. EvRef(u) = LoopOf(l.arrays, l.active, n + 1, m, q, c)
  <2> HIDE DEF u, n, m, q, c
  <2> QED BY <1>1 DEF EvRef, LoopOf
<1>5. r = LoopOf(z, y, (n + 1) - 1, m, q, c)
  <2> DEFINE a == l.arrays
             b == l.active
             more == n + 1
  <2> HIDE DEF u, n, m, q, c
  <2>1. Delist(LoopOf(a, b, more, m, q, c), k, w) =
          LoopOf(ArraysWithout(a, b, k, w), PlacesWithout(a, b, k, w), more - 1, m, q, c)
    <3> HIDE DEF a, b, more
    <3> QED BY ONLY DelistIs
  <2> QED BY <1>4, <2>1, Zenon
<1>6. u.active[w] # 0
  <2> HIDE DEF u
  <2> QED BY <1>1, LoopHas
<1> HIDE DEF z, y, n, m, q, c, u, d, r
<1>7. [d EXCEPT !.idleall = @ - 1] = LoopOf(z, y, n - 1, m - 1, q, c)
  BY <1>2 DEF LoopOf
<1>8. CASE k = "idle"
  <2>1. Stop(l, k, w) = [d EXCEPT !.idleall = @ - 1] /\ Counts(k) = 1 /\ Idles(k) = 1
    BY <1>6, <1>8 DEF Stop, IdleStop, d, u, Counts, Idles
  <2> QED BY <1>7, <2>1 DEF z, y, n, m, q, c
<1>9. CASE k = "cleanup"
  <2>1. Stop(l, k, w) = r /\ Counts(k) = 0 /\ Idles(k) = 0
    BY <1>6, <1>9 DEF Stop, CleanupStop, r, u, Counts, Idles
  <2> QED BY <1>3, <1>5, <2>1 DEF z, y, n, m, q, c
<1>10. CASE k \notin {"idle", "cleanup"}
  <2>1. Stop(l, k, w) = d /\ Counts(k) = 1 /\ Idles(k) = 0
    BY <1>6, <1>10 DEF Stop, PrepareStop, CheckStop, ForkStop, AsyncStop, d, u, Counts, Idles,
                       Kinds
  <2> QED BY <1>2, <1>3, <2>1 DEF z, y, n, m, q, c
<1> QED BY <1>8, <1>9, <1>10

(* One watcher of the kind k more.                                          *)
OneMore(more, less, k) == \A j \in Kinds : more[j] = less[j] + IF j = k THEN 1 ELSE 0

LEMMA CountingFollows ==
  ASSUME NEW s \in [Kinds -> Nat], NEW e \in [Kinds -> Nat], NEW k \in Kinds, OneMore(e, s, k)
  PROVE  /\ e["idle"] = s["idle"] + Idles(k)
         /\ Counting(e) = Counting(s) + Counts(k)
<1>0. \A j \in {"idle", "prepare", "check", "fork", "async"} :
             j \in Kinds /\ s[j] \in Nat /\ e[j] \in Nat
  BY DEF Kinds
<1>1. CASE k = "idle"
  BY <1>0, <1>1 DEF Counting, OneMore, Counts, Idles
<1>2. CASE k = "prepare"
  BY <1>0, <1>2 DEF Counting, OneMore, Counts, Idles
<1>3. CASE k = "check"
  BY <1>0, <1>3 DEF Counting, OneMore, Counts, Idles
<1>4. CASE k = "fork"
  BY <1>0, <1>4 DEF Counting, OneMore, Counts, Idles
<1>5. CASE k = "async"
  BY <1>0, <1>5 DEF Counting, OneMore, Counts, Idles
<1>6. CASE k = "cleanup"
  BY <1>0, <1>6 DEF Counting, OneMore, Counts, Idles
<1> QED BY <1>1, <1>2, <1>3, <1>4, <1>5, <1>6 DEF Kinds

ArePlaced(z, y, kinds) ==
  z \in [Kinds -> Seq(Hooks)] /\ y \in [Hooks -> Nat] /\ Placed(z, y, kinds)

LEMMA LensAre ==
  ASSUME NEW arrays \in [Kinds -> Seq(Hooks)]
  PROVE  /\ Lens(arrays) \in [Kinds -> Nat]
         /\ \A k \in Kinds : Lens(arrays)[k] = Len(arrays[k])
BY DEF Lens

(* A watcher gets the last place, and the last takes that of one that stops. *)
LEMMA AppendPlaces ==
  ASSUME NEW arrays \in [Kinds -> Seq(Hooks)], NEW active \in [Hooks -> Nat],
         NEW kinds \in [Hooks -> Kinds], Placed(arrays, active, kinds),
         NEW w \in Hooks, active[w] = 0
  PROVE  LET k == kinds[w]
             z == [arrays EXCEPT ![k] = Append(@, w)]
             y == [active EXCEPT ![w] = Len(arrays[k]) + 1]
         IN  /\ ArePlaced(z, y, kinds) /\ OneMore(Lens(z), Lens(arrays), k)
             /\ \A v \in Hooks : y[v] # 0 <=> v = w \/ active[v] # 0
<1> DEFINE k == kinds[w]
           a == arrays[k]
           n == Len(a)
           b == Append(a, w)
           z == [arrays EXCEPT ![k] = b]
           y == [active EXCEPT ![w] = n + 1]
<1>1. /\ k \in Kinds /\ a \in Seq(Hooks) /\ n \in Nat /\ DOMAIN a = 1..n
  OBVIOUS
<1>2. /\ b \in Seq(Hooks) /\ Len(b) = n + 1 /\ DOMAIN b = 1..(n + 1) /\ b[n + 1] = w
      /\ \A i \in 1..n : b[i] = a[i]
  BY <1>1
<1> HIDE DEF b, n
<1>3. z \in [Kinds -> Seq(Hooks)] /\ z[k] = b /\ \A j \in Kinds : j # k => z[j] = arrays[j]
  BY <1>1, <1>2
<1>4. y \in [Hooks -> Nat] /\ y[w] = n + 1 /\ \A v \in Hooks : v # w => y[v] = active[v]
  BY <1>1
<1> HIDE DEF z, y, k
<1>5. \A v \in Hooks : y[v] # 0 => y[v] \in DOMAIN z[kinds[v]] /\ z[kinds[v]][y[v]] = v
  <2> SUFFICES ASSUME NEW v \in Hooks, y[v] # 0
               PROVE  y[v] \in DOMAIN z[kinds[v]] /\ z[kinds[v]][y[v]] = v
    OBVIOUS
  <2>1. CASE v = w
    BY <1>1, <1>2, <1>3, <1>4, <2>1 DEF k
  <2>2. CASE v # w
    <3>1. active[v] \in DOMAIN arrays[kinds[v]] /\ arrays[kinds[v]][active[v]] = v
      BY <1>4, <2>2 DEF Placed
    <3>2. CASE kinds[v] = k
      BY <1>1, <1>2, <1>3, <1>4, <2>2, <3>1, <3>2
    <3>3. CASE kinds[v] # k
      BY <1>3, <1>4, <2>2, <3>1, <3>3
    <3> QED BY <3>2, <3>3
  <2> QED BY <2>1, <2>2
<1>6. ASSUME NEW j \in Kinds, NEW i \in DOMAIN z[j]
      PROVE  kinds[z[j][i]] = j /\ y[z[j][i]] = i
  <2>1. \A h \in Kinds : \A e \in DOMAIN arrays[h] :
          /\ arrays[h][e] \in Hooks /\ arrays[h][e] # w
          /\ kinds[arrays[h][e]] = h /\ active[arrays[h][e]] = e
    BY DEF Placed
  <2>2. CASE j # k
    BY <1>3, <1>4, <2>1, <2>2
  <2>3. CASE j = k /\ i = n + 1
    BY <1>2, <1>3, <1>4, <2>3 DEF k
  <2>4. CASE j = k /\ i # n + 1
    <3>1. i \in 1..n
      BY <1>1, <1>2, <1>3, <2>4
    <3>2. a[i] \in Hooks /\ a[i] # w /\ kinds[a[i]] = k /\ active[a[i]] = i
      BY <1>1, <2>1, <3>1
    <3>3. z[j][i] = a[i]
      BY <1>2, <1>3, <2>4, <3>1
    <3> QED BY <1>4, <2>4, <3>2, <3>3
  <2> QED BY <2>2, <2>3, <2>4
<1>7. Placed(z, y, kinds)
  BY <1>5, <1>6, Zenon DEF Placed
<1>8. OneMore(Lens(z), Lens(arrays), k)
  <2>1. \A j \in Kinds : Len(z[j]) = Len(arrays[j]) + IF j = k THEN 1 ELSE 0
    BY <1>1, <1>2, <1>3 DEF n
  <2> QED BY <1>3, <2>1, LensAre DEF OneMore
<1>9. \A v \in Hooks : y[v] # 0 <=> v = w \/ active[v] # 0
  BY <1>1, <1>4
<1> QED BY <1>3, <1>4, <1>7, <1>8, <1>9, Zenon DEF z, y, k, b, n, ArePlaced

LessPlaced(arrays, active, kinds, w, k) ==
  LET z == ArraysWithout(arrays, active, k, w)
      y == PlacesWithout(arrays, active, k, w)
  IN  /\ ArePlaced(z, y, kinds) /\ OneMore(Lens(arrays), Lens(z), k)
      /\ \A v \in Hooks : y[v] # 0 <=> v # w /\ active[v] # 0

LEMMA RemovePlaces ==
  ASSUME NEW arrays \in [Kinds -> Seq(Hooks)], NEW active \in [Hooks -> Nat],
         NEW kinds \in [Hooks -> Kinds], Placed(arrays, active, kinds),
         NEW w \in Hooks, active[w] # 0
  PROVE  LessPlaced(arrays, active, kinds, w, kinds[w])
<1> DEFINE k == kinds[w]
           a == arrays[k]
           n == Len(a)
           p == active[w]
           x == Last(a)
           b == Front([a EXCEPT ![p] = x])
           z == [arrays EXCEPT ![k] = b]
           y == [[active EXCEPT ![x] = p] EXCEPT ![w] = 0]
<1>1. /\ k \in Kinds /\ a \in Seq(Hooks) /\ n \in Nat /\ DOMAIN a = 1..n
  OBVIOUS
<1>2. p \in 1..n /\ a[p] = w /\ n \in 1..n /\ x = a[n] /\ x \in Hooks
      /\ kinds[x] = k /\ active[x] = n
  <2>1. p \in 1..n /\ a[p] = w
    BY <1>1 DEF Placed
  <2>2. n \in 1..n
    BY <1>1, <2>1
  <2>3. x = a[n] /\ x \in Hooks
    BY <1>1, <2>2 DEF Last
  <2>4. kinds[a[n]] = k /\ active[a[n]] = n
    <3> HIDE DEF n
    <3> QED BY <1>1, <2>2 DEF Placed
  <2> QED BY <2>1, <2>2, <2>3, <2>4
<1>3. /\ b \in Seq(Hooks) /\ Len(b) = n - 1 /\ DOMAIN b = 1..(n - 1)
      /\ \A i \in 1..(n - 1) : b[i] = IF i = p THEN x ELSE a[i]
  <2> DEFINE e == [a EXCEPT ![p] = x]
  <2>1. /\ e \in Seq(Hooks) /\ Len(e) = n /\ \A i \in 1..n : e[i] = IF i = p THEN x ELSE a[i]
    <3> HIDE DEF p, x
    <3> QED BY <1>1, <1>2
  <2> HIDE DEF e, n, x, p
  <2>2. b = SubSeq(e, 1, n - 1)
    BY <2>1 DEF Front, e
  <2> HIDE DEF b
  <2>3. n \in Nat /\ n - 1 \in 0..n /\ 1 \in 1..(n + 1)
    BY <1>1, <1>2
  <2>4. b \in Seq(Hooks) /\ Len(b) = n - 1 /\ \A i \in 1..(n - 1) : b[i] = e[i]
    BY ONLY <2>1, <2>2, <2>3, SMTT(30)
  <2>5. DOMAIN b = 1..(n - 1)
    BY ONLY <2>4
  <2>6. ASSUME NEW i \in 1..(n - 1) PROVE b[i] = IF i = p THEN x ELSE a[i]
    <3>1. i \in 1..n
      BY ONLY <2>3, i \in 1..(n - 1)
    <3> QED BY ONLY <2>1, <2>4, <3>1, i \in 1..(n - 1)
  <2> QED BY ONLY <2>4, <2>5, <2>6
<1> HIDE DEF b, n, x
<1>4. z \in [Kinds -> Seq(Hooks)] /\ z[k] = b /\ \A j \in Kinds : j # k => z[j] = arrays[j]
  BY <1>1, <1>3
<1>5. /\ y \in [Hooks -> Nat] /\ y[w] = 0 /\ (x # w => y[x] = p)
      /\ \A v \in Hooks : v # w /\ v # x => y[v] = active[v]
  BY <1>2
<1> HIDE DEF z, y, k, p
<1>6. \A v \in Hooks : y[v] # 0 => y[v] \in DOMAIN z[kinds[v]] /\ z[kinds[v]][y[v]] = v
  <2> SUFFICES ASSUME NEW v \in Hooks, y[v] # 0
               PROVE  y[v] \in DOMAIN z[kinds[v]] /\ z[kinds[v]][y[v]] = v
    OBVIOUS
  <2>0. v # w
    BY <1>5
  <2>1. CASE v = x
    <3>1. p # n
      BY <1>2, <2>0, <2>1
    <3>2. p \in 1..(n - 1)
      BY <1>1, <1>2, <3>1
    <3> QED BY <1>2, <1>3, <1>4, <1>5, <2>0, <2>1, <3>2
  <2>2. CASE v # x
    <3>1. active[v] \in DOMAIN arrays[kinds[v]] /\ arrays[kinds[v]][active[v]] = v
          /\ y[v] = active[v]
      BY <1>5, <2>0, <2>2 DEF Placed
    <3>2. CASE kinds[v] = k
      <4>1. active[v] # p /\ active[v] # n
        BY <1>2, <2>0, <2>2, <3>1, <3>2
      <4>2. active[v] \in 1..(n - 1)
        BY <1>1, <3>1, <3>2, <4>1
      <4> QED BY <1>3, <1>4, <3>1, <3>2, <4>1, <4>2
    <3>3. CASE kinds[v] # k
      BY <1>4, <3>1, <3>3
    <3> QED BY <3>2, <3>3
  <2> QED BY <2>1, <2>2
<1>7. ASSUME NEW j \in Kinds, NEW i \in DOMAIN z[j]
      PROVE  kinds[z[j][i]] = j /\ y[z[j][i]] = i
  <2>1. \A h \in Kinds : \A e \in DOMAIN arrays[h] :
          /\ arrays[h][e] \in Hooks
          /\ kinds[arrays[h][e]] = h /\ active[arrays[h][e]] = e
    BY DEF Placed
  <2>2. CASE j # k
    <3>1. z[j][i] = arrays[j][i] /\ i \in DOMAIN arrays[j]
      BY <1>4, <2>2
    <3>2. arrays[j][i] # w /\ arrays[j][i] # x
      BY <1>2, <2>1, <2>2, <3>1 DEF k
    <3> QED BY <1>5, <2>1, <3>1, <3>2
  <2>3. CASE j = k
    <3>0. i \in 1..(n - 1)
      BY <1>3, <1>4, <2>3
    <3>1. i \in 1..(n - 1) /\ i \in 1..n /\ i # n
      BY <1>1, <3>0
    <3>4. z[j][i] = IF i = p THEN x ELSE a[i]
      BY <1>3, <1>4, <2>3, <3>1
    <3>2. CASE i = p
      <4>1. x # w
        BY <1>1, <1>2, <3>1, <3>2 DEF p
      <4> QED BY <1>2, <1>5, <2>3, <3>2, <3>4, <4>1
    <3>3. CASE i # p
      <4>1. z[j][i] = a[i]
        BY <3>3, <3>4
      <4>2. a[i] \in Hooks /\ kinds[a[i]] = k /\ active[a[i]] = i
        BY <1>1, <2>1, <3>1
      <4>3. a[i] # w /\ a[i] # x
        BY <1>2, <3>1, <3>3, <4>2 DEF p
      <4> QED BY <1>5, <2>3, <4>1, <4>2, <4>3
    <3> QED BY <3>2, <3>3
  <2> QED BY <2>2, <2>3
<1>8. Placed(z, y, kinds)
  BY <1>6, <1>7, Zenon DEF Placed
<1>9. OneMore(Lens(arrays), Lens(z), k)
  <2>1. \A j \in Kinds : Len(arrays[j]) = Len(z[j]) + IF j = k THEN 1 ELSE 0
    <3>1. \A j \in Kinds : Len(arrays[j]) \in Nat
      OBVIOUS
    <3>2. Len(arrays[k]) = n /\ Len(z[k]) = n - 1
      BY <1>3, <1>4 DEF n
    <3>3. \A j \in Kinds : j # k => Len(z[j]) = Len(arrays[j])
      BY <1>4
    <3> SUFFICES ASSUME NEW j \in Kinds
                 PROVE  Len(arrays[j]) = Len(z[j]) + IF j = k THEN 1 ELSE 0
      OBVIOUS
    <3>4. CASE j = k
      BY <1>1, <3>2, <3>4
    <3>5. CASE j # k
      BY <3>1, <3>3, <3>5
    <3> QED BY <3>4, <3>5
  <2> QED BY <1>4, <2>1, LensAre DEF OneMore
<1>10. \A v \in Hooks : y[v] # 0 <=> v # w /\ active[v] # 0
  BY <1>1, <1>2, <1>5
<1>11. z = ArraysWithout(arrays, active, k, w) /\ y = PlacesWithout(arrays, active, k, w)
  BY Zenon DEF z, y, b, n, x, p, ArraysWithout, PlacesWithout
<1> QED BY <1>4, <1>5, <1>8, <1>9, <1>10, <1>11, Zenon DEF k, ArePlaced, LessPlaced


(* ev_xxx_start and ev_xxx_stop: every watcher has its place and is counted, *)
(* and only w starts or stops.                                              *)
LEMMA StartHolds ==
  ASSUME NEW l, NEW kinds, HoldsHooks(l, kinds), NEW w \in Hooks
  PROVE  LET g == Start(l, kinds[w], w)
         IN  /\ HoldsHooks(g, kinds) /\ g.queue = l.queue /\ g.called = l.called
             /\ \A v \in Hooks : g.active[v] # 0 <=> v = w \/ l.active[v] # 0
<1> DEFINE k == kinds[w]
           g == Start(l, k, w)
<1>0. l \in LoopType /\ kinds \in [Hooks -> Kinds] /\ k \in Kinds
  BY DEF HoldsHooks
<1>1. CASE l.active[w] # 0
  <2>1. g = l
    BY <1>1 DEF Start
  <2> QED BY <1>0, <1>1, <2>1
<1>2. CASE l.active[w] = 0
  <2> DEFINE z == [l.arrays EXCEPT ![k] = Append(@, w)]
             y == [l.active EXCEPT ![w] = Len(l.arrays[k]) + 1]
             n == l.activecnt + Counts(k)
             m == l.idleall + Idles(k)
  <2>1. g = LoopOf(z, y, n, m, l.queue, l.called)
    BY <1>0, <1>2, StartIs, Zenon
  <2>2. /\ l.arrays \in [Kinds -> Seq(Hooks)] /\ l.active \in [Hooks -> Nat]
        /\ l.activecnt \in Int /\ l.idleall \in Int
        /\ l.queue \in Seq(Hooks) /\ l.called \in Seq(Hooks)
    BY <1>0, LoopIs
  <2>3. /\ ArePlaced(z, y, kinds) /\ OneMore(Lens(z), Lens(l.arrays), k)
        /\ \A v \in Hooks : y[v] # 0 <=> v = w \/ l.active[v] # 0
    <3> DEFINE a == l.arrays
               b == l.active
    <3>1. Placed(a, b, kinds)
      BY DEF HoldsHooks
    <3>2. /\ a \in [Kinds -> Seq(Hooks)] /\ b \in [Hooks -> Nat] /\ b[w] = 0
          /\ kinds \in [Hooks -> Kinds] /\ w \in Hooks
      BY <1>0, <1>2, <2>2
    <3> HIDE DEF a, b
    <3>3. LET z1 == [a EXCEPT ![kinds[w]] = Append(@, w)]
              y1 == [b EXCEPT ![w] = Len(a[kinds[w]]) + 1]
          IN  /\ ArePlaced(z1, y1, kinds) /\ OneMore(Lens(z1), Lens(a), kinds[w])
              /\ \A v \in Hooks : y1[v] # 0 <=> v = w \/ b[v] # 0
      BY ONLY <3>1, <3>2, AppendPlaces
    <3> QED BY <3>3, Zenon DEF a, b
  <2>4. /\ n \in Int /\ m \in Int
    BY <2>2 DEF Counts, Idles
  <2> HIDE DEF z, y, g
  <2>8. /\ z \in [Kinds -> Seq(Hooks)] /\ y \in [Hooks -> Nat] /\ Placed(z, y, kinds)
    BY <2>3, Zenon DEF ArePlaced
  <2>5. m = Lens(z)["idle"] /\ n = Counting(Lens(z))
    <3> DEFINE s == Lens(l.arrays)
               e == Lens(z)
    <3>1. l.idleall = s["idle"] /\ l.activecnt = Counting(s)
      BY Zenon DEF HoldsHooks, Counted
    <3>2. s \in [Kinds -> Nat] /\ e \in [Kinds -> Nat]
      BY <2>2, <2>8, LensAre
    <3> HIDE DEF s, e, k
    <3>3. OneMore(e, s, k)
      BY <2>3, Zenon DEF s, e
    <3>4. /\ e["idle"] = s["idle"] + Idles(k)
          /\ Counting(e) = Counting(s) + Counts(k)
      BY ONLY <1>0, <3>2, <3>3, CountingFollows
    <3>6. Idles(k) \in Int /\ Counts(k) \in Int /\ e["idle"] \in Int /\ Counting(e) \in Int
      BY <3>2 DEF Idles, Counts, Counting, Kinds
    <3>5. m = e["idle"] /\ n = Counting(e)
      BY <2>2, <3>1, <3>4, <3>6
    <3> QED BY <3>5 DEF e
  <2> HIDE DEF n, m, k
  <2>6. /\ g.arrays = z /\ g.active = y /\ g.activecnt = n /\ g.idleall = m
        /\ g.queue = l.queue /\ g.called = l.called
    BY <2>1, LoopHas
  <2>7. g \in LoopType
    BY <2>1, <2>2, <2>4, <2>8 DEF LoopOf, LoopType
  <2>9. HoldsHooks(g, kinds)
    BY <1>0, <2>5, <2>6, <2>7, <2>8, Zenon DEF HoldsHooks, Counted
  <2> QED BY <2>3, <2>6, <2>9, Zenon DEF g, k
<1> QED BY <1>1, <1>2

OnlyStops(l, g, kinds, w) ==
  /\ HoldsHooks(g, kinds) /\ g.queue = Without({w}, l.queue) /\ g.called = l.called
  /\ \A v \in Hooks : g.active[v] # 0 <=> v # w /\ l.active[v] # 0

LEMMA StopHolds ==
  ASSUME NEW l, NEW kinds, HoldsHooks(l, kinds), NEW w \in Hooks
  PROVE  OnlyStops(l, Stop(l, kinds[w], w), kinds, w)
<1> DEFINE k == kinds[w]
           g == Stop(l, k, w)
           q == Without({w}, l.queue)
<1>0. l \in LoopType /\ kinds \in [Hooks -> Kinds] /\ k \in Kinds
  BY DEF HoldsHooks
<1>1. CASE l.active[w] = 0
  <2> DEFINE u == Unqueued(l, w)
  <2>1. /\ u = LoopOf(l.arrays, l.active, l.activecnt, l.idleall, q, l.called)
        /\ u \in LoopType
    BY <1>0, UnqueuedIs
  <2> HIDE DEF u, q
  <2>2. /\ u.arrays = l.arrays /\ u.active = l.active /\ u.activecnt = l.activecnt
        /\ u.idleall = l.idleall /\ u.queue = q /\ u.called = l.called
    BY <2>1, LoopHas
  <2>3. g = u
    BY <1>1, <2>2 DEF Stop, u
  <2>4. HoldsHooks(u, kinds)
    BY <1>0, <2>1, <2>2, Zenon DEF HoldsHooks, Counted
  <2> QED BY <1>1, <2>2, <2>3, <2>4 DEF q, OnlyStops
<1>2. CASE l.active[w] # 0
  <2> DEFINE z == ArraysWithout(l.arrays, l.active, k, w)
             y == PlacesWithout(l.arrays, l.active, k, w)
             n == l.activecnt - Counts(k)
             m == l.idleall - Idles(k)
  <2>1. g = LoopOf(z, y, n, m, q, l.called)
    BY <1>0, <1>2, DelistedIs, Zenon
  <2>2. /\ l.arrays \in [Kinds -> Seq(Hooks)] /\ l.active \in [Hooks -> Nat]
        /\ l.activecnt \in Int /\ l.idleall \in Int
        /\ q \in Seq(Hooks) /\ l.called \in Seq(Hooks)
    BY <1>0, LoopIs, WithoutKeeps
  <2>3. /\ ArePlaced(z, y, kinds) /\ OneMore(Lens(l.arrays), Lens(z), k)
        /\ \A v \in Hooks : y[v] # 0 <=> v # w /\ l.active[v] # 0
    <3> DEFINE a == l.arrays
               b == l.active
    <3>1. Placed(a, b, kinds)
      BY DEF HoldsHooks
    <3>2. /\ a \in [Kinds -> Seq(Hooks)] /\ b \in [Hooks -> Nat] /\ b[w] # 0
          /\ kinds \in [Hooks -> Kinds] /\ w \in Hooks
      BY <1>0, <1>2, <2>2
    <3> HIDE DEF a, b
    <3>3. LessPlaced(a, b, kinds, w, kinds[w])
      BY ONLY <3>1, <3>2, RemovePlaces
    <3> QED BY <3>3, Zenon DEF a, b, LessPlaced
  <2>4. /\ n \in Int /\ m \in Int
    BY <2>2 DEF Counts, Idles
  <2> HIDE DEF z, y, g, q
  <2>8. /\ z \in [Kinds -> Seq(Hooks)] /\ y \in [Hooks -> Nat] /\ Placed(z, y, kinds)
    BY <2>3, Zenon DEF ArePlaced
  <2>5. m = Lens(z)["idle"] /\ n = Counting(Lens(z))
    <3> DEFINE s == Lens(l.arrays)
               e == Lens(z)
    <3>1. l.idleall = s["idle"] /\ l.activecnt = Counting(s)
      BY Zenon DEF HoldsHooks, Counted
    <3>2. s \in [Kinds -> Nat] /\ e \in [Kinds -> Nat]
      BY <2>2, <2>8, LensAre
    <3> HIDE DEF s, e, k
    <3>3. OneMore(s, e, k)
      BY <2>3, Zenon DEF s, e
    <3>4. /\ s["idle"] = e["idle"] + Idles(k)
          /\ Counting(s) = Counting(e) + Counts(k)
      BY ONLY <1>0, <3>2, <3>3, CountingFollows
    <3>6. Idles(k) \in Int /\ Counts(k) \in Int /\ e["idle"] \in Int /\ Counting(e) \in Int
      BY <3>2 DEF Idles, Counts, Counting, Kinds
    <3>5. m = e["idle"] /\ n = Counting(e)
      BY <2>2, <3>1, <3>4, <3>6
    <3> QED BY <3>5 DEF e
  <2> HIDE DEF n, m, k
  <2>6. /\ g.arrays = z /\ g.active = y /\ g.activecnt = n /\ g.idleall = m
        /\ g.queue = q /\ g.called = l.called
    BY <2>1, LoopHas
  <2>7. g \in LoopType
    BY <2>1, <2>2, <2>4, <2>8 DEF LoopOf, LoopType
  <2>9. HoldsHooks(g, kinds)
    BY <1>0, <2>5, <2>6, <2>7, <2>8, Zenon DEF HoldsHooks, Counted
  <2> QED BY <2>3, <2>6, <2>9, Zenon DEF g, k, q, OnlyStops
<1> QED BY <1>1, <1>2


(* Who is in the array of a kind: its watchers that are active, each once.  *)
LEMMA ArraysAre ==
  ASSUME NEW l, NEW kinds, HoldsHooks(l, kinds)
  PROVE  \A k \in Kinds :
           /\ l.arrays[k] \in Seq(Hooks) /\ IsInjective(l.arrays[k])
           /\ \A w : w \in ToSet(l.arrays[k]) <=> w \in Hooks /\ kinds[w] = k /\ l.active[w] # 0
<1> SUFFICES ASSUME NEW k \in Kinds
             PROVE  /\ l.arrays[k] \in Seq(Hooks) /\ IsInjective(l.arrays[k])
                    /\ \A w : w \in ToSet(l.arrays[k])
                              <=> w \in Hooks /\ kinds[w] = k /\ l.active[w] # 0
  OBVIOUS
<1> DEFINE a == l.arrays[k]
<1>1. /\ a \in Seq(Hooks) /\ Len(a) \in Nat /\ DOMAIN a = 1..Len(a)
      /\ l.active \in [Hooks -> Nat] /\ kinds \in [Hooks -> Kinds]
  BY LoopIs DEF HoldsHooks
<1>2. \A i \in DOMAIN a : a[i] \in Hooks /\ kinds[a[i]] = k /\ l.active[a[i]] = i
  BY <1>1 DEF HoldsHooks, Placed
<1>3. \A w \in Hooks : kinds[w] = k /\ l.active[w] # 0 =>
             l.active[w] \in DOMAIN a /\ a[l.active[w]] = w
  BY DEF HoldsHooks, Placed
<1> HIDE DEF a
<1>4. IsInjective(a)
  BY <1>2, Zenon DEF IsInjective
<1>5. \A i \in DOMAIN a : i # 0
  BY <1>1
<1>6. \A w : w \in ToSet(a) => w \in Hooks /\ kinds[w] = k /\ l.active[w] # 0
  BY <1>2, <1>5 DEF ToSet
<1>7. \A w : w \in Hooks /\ kinds[w] = k /\ l.active[w] # 0 => w \in ToSet(a)
  BY <1>3, Zenon DEF ToSet
<1> QED BY <1>1, <1>4, <1>6, <1>7 DEF a

(* queue_events, ev_invoke_pending. *)
LEMMA QueueEventsIs ==
  ASSUME NEW l \in LoopType, NEW k \in Kinds, IsInjective(l.queue), IsInjective(l.arrays[k])
  PROVE  LET g == QueueEvents(l, k)
         IN  /\ g \in LoopType /\ g.arrays = l.arrays /\ g.idleall = l.idleall
             /\ g.called = l.called /\ IsInjective(g.queue)
             /\ ToSet(g.queue) = ToSet(l.queue) \cup ToSet(l.arrays[k])
<1> DEFINE r == Without(ToSet(l.queue), l.arrays[k])
           q == l.queue \o r
           g == QueueEvents(l, k)
<1>1. l.queue \in Seq(Hooks) /\ l.arrays[k] \in Seq(Hooks)
  BY LoopIs
<1>2. r \in Seq(Hooks) /\ IsInjective(r) /\ ToSet(r) = ToSet(l.arrays[k]) \ ToSet(l.queue)
  BY <1>1, WithoutKeeps
<1>3. g = [l EXCEPT !.queue = q]
  BY Zenon DEF QueueEvents
<1> HIDE DEF r, g
<1>4. /\ q \in Seq(Hooks) /\ ToSet(q) = ToSet(l.queue) \cup ToSet(r)
      /\ \A i, j \in DOMAIN q : q[i] = q[j] /\ i # j => q[i] \in ToSet(l.queue) \cap ToSet(r)
  BY <1>1, <1>2, TwiceIsInBoth
<1> HIDE DEF q
<1>5. IsInjective(q)
  BY <1>2, <1>4 DEF IsInjective
<1>6. /\ g \in LoopType /\ g.arrays = l.arrays /\ g.idleall = l.idleall /\ g.called = l.called
      /\ g.queue = q
  BY <1>3, <1>4 DEF LoopType
<1> QED BY <1>2, <1>4, <1>5, <1>6 DEF g

LEMMA InvokedIs ==
  ASSUME NEW l \in LoopType
  PROVE  LET g == Invoked(l)
         IN  /\ g \in LoopType /\ g.arrays = l.arrays /\ g.idleall = l.idleall
             /\ g.called = l.called \o Reverse(l.queue) /\ g.queue = <<>>
<1> DEFINE c == l.called \o Reverse(l.queue)
           b == [l EXCEPT !.called = c]
           e == <<>>
<1>1. c \in Seq(Hooks)
  <2>1. l.called \in Seq(Hooks) /\ Reverse(l.queue) \in Seq(Hooks)
    BY LoopIs, ReverseKeeps
  <2> QED BY <2>1
<1>2. e \in Seq(Hooks)
  OBVIOUS
<1>3. Invoked(l) = [b EXCEPT !.queue = e]
  BY Zenon DEF Invoked
<1> HIDE DEF c, b, e
<1>4. b \in LoopType /\ b.arrays = l.arrays /\ b.idleall = l.idleall /\ b.called = c
  BY <1>1 DEF b, LoopType
<1> DEFINE g == [b EXCEPT !.queue = e]
<1>5. g \in LoopType /\ g.arrays = b.arrays /\ g.idleall = b.idleall /\ g.called = b.called
      /\ g.queue = e
  BY <1>2, <1>4 DEF LoopType
<1> HIDE DEF g
<1> QED BY <1>3, <1>4, <1>5, Zenon DEF g, c, e

(* ev_run: a kind that has watchers is queued and called, with whom is      *)
(* pending, each once.                                                      *)
LEMMA CallAllIs ==
  ASSUME NEW l \in LoopType, NEW k \in Kinds, IsInjective(l.queue), IsInjective(l.arrays[k])
  PROVE  LET g == CallAll(l, k)
         IN  /\ g \in LoopType /\ g.arrays = l.arrays /\ g.idleall = l.idleall
             /\ IF l.arrays[k] = <<>> THEN g = l
                ELSE /\ g.queue = <<>>
                     /\ \E b \in Seq(Hooks) :
                          /\ IsInjective(b) /\ g.called = l.called \o b
                          /\ ToSet(b) = ToSet(l.queue) \cup ToSet(l.arrays[k])
<1>1. CASE l.arrays[k] = <<>>
  BY <1>1 DEF CallAll
<1>2. CASE l.arrays[k] # <<>>
  <2> DEFINE e == QueueEvents(l, k)
             g == Invoked(e)
             b == Reverse(e.queue)
  <2>1. CallAll(l, k) = g
    BY <1>2 DEF CallAll
  <2>2. /\ e \in LoopType /\ e.arrays = l.arrays /\ e.idleall = l.idleall
        /\ e.called = l.called /\ IsInjective(e.queue)
        /\ ToSet(e.queue) = ToSet(l.queue) \cup ToSet(l.arrays[k])
    BY QueueEventsIs
  <2> HIDE DEF e
  <2>3. /\ g \in LoopType /\ g.arrays = e.arrays /\ g.idleall = e.idleall
        /\ g.called = e.called \o b /\ g.queue = <<>>
    BY <2>2, InvokedIs
  <2>4. e.queue \in Seq(Hooks)
    BY <2>2, LoopIs
  <2>5. b \in Seq(Hooks) /\ IsInjective(b) /\ ToSet(b) = ToSet(e.queue)
    BY <2>2, <2>4, ReverseKeeps
  <2> HIDE DEF g, b
  <2>6. g.called = l.called \o b /\ ToSet(b) = ToSet(l.queue) \cup ToSet(l.arrays[k])
    BY <2>2, <2>3, <2>5
  <2> QED BY <1>2, <2>1, <2>2, <2>3, <2>5, <2>6, Zenon
<1> QED BY <1>1, <1>2

LEMMA ShortLists ==
  ASSUME NEW V, NEW x \in V
  PROVE  /\ <<>> \in Seq(V) /\ IsInjective(<<>>) /\ ToSet(<<>>) = {}
         /\ <<x>> \in Seq(V) /\ IsInjective(<<x>>) /\ ToSet(<<x>>) = {x} /\ <<x>> # <<>>
<1>1. <<>> \in Seq(V) /\ DOMAIN <<>> = {}
  OBVIOUS
<1>2. <<x>> \in Seq(V) /\ DOMAIN <<x>> = {1} /\ <<x>>[1] = x /\ <<x>> # <<>>
  OBVIOUS
<1>3. IsInjective(<<>>) /\ ToSet(<<>>) = {}
  BY ONLY <1>1 DEF IsInjective, ToSet
<1> DEFINE s == <<x>>
<1> HIDE DEF s
<1>4. DOMAIN s = {1} /\ s[1] = x
  BY <1>2 DEF s
<1>5. IsInjective(s) /\ ToSet(s) = {x}
  BY ONLY <1>4 DEF IsInjective, ToSet
<1> QED BY <1>1, <1>2, <1>3, <1>5, Zenon DEF s

LEMMA AtMostOne ==
  ASSUME NEW V, NEW x, NEW s \in Seq(V), IsInjective(s), ToSet(s) \subseteq {x}
  PROVE  s = <<>> \/ s = <<x>>
<1>1. Len(s) \in Nat /\ DOMAIN s = 1..Len(s)
  OBVIOUS
<1>2. \A i \in DOMAIN s : s[i] = x
  BY DEF ToSet
<1>3. Len(s) < 2
  <2> SUFFICES ASSUME Len(s) >= 2 PROVE FALSE
    BY <1>1
  <2>1. 1 \in DOMAIN s /\ 2 \in DOMAIN s
    BY <1>1
  <2>2. s[1] = s[2]
    BY <1>2, <2>1
  <2> QED BY <2>1, <2>2 DEF IsInjective
<1>4. CASE Len(s) = 0
  BY <1>4
<1>5. CASE Len(s) = 1
  <2>1. s[1] = x
    BY <1>1, <1>2, <1>5
  <2> QED BY <1>5, <2>1
<1> QED BY <1>1, <1>3, <1>4, <1>5

LEMMA NobodyIsIn ==
  ASSUME NEW V, NEW s \in Seq(V)
  PROVE  s = <<>> <=> ToSet(s) = {}
<1>1. CASE s = <<>>
  <2>1. DOMAIN s = {}
    BY <1>1
  <2> QED BY ONLY <1>1, <2>1 DEF ToSet
<1>2. CASE s # <<>>
  <2>1. 1 \in DOMAIN s
    BY <1>2
  <2> QED BY <1>2, <2>1, Zenon DEF ToSet
<1> QED BY <1>1, <1>2

(* A round of ev_run: who is called and who is queued.                      *)
CalledOf(l, called) ==
  LET of(k) == ToSet(l.arrays[k])
  IN  /\ \A i, j \in DOMAIN called :
           called[i] = called[j] /\ i # j =>
             called[i] = Fed /\ Fed \in of("prepare") /\ of("fork") # {}
      /\ of("fork") \cup of("prepare") \subseteq ToSet(called)

RoundOf(l, round) ==
  LET of(k) == ToSet(l.arrays[k])
  IN  /\ CalledOf(l, round.called)
      /\ IsInjective(round.queue)
      /\ of("check") \subseteq ToSet(round.queue)
      /\ of("idle") \subseteq ToSet(round.queue) \/ Contains(round.queue, Fed)

(* Who is called before poll(), and who is left in the queue.               *)
LEMMA BeforePollIs ==
  ASSUME NEW l, NEW kinds, HoldsHooks(l, kinds), l.called = <<>>,
         l.queue \in {<<>>, <<Fed>>}, Fed \in Hooks
  PROVE  LET b == BeforePoll(l, TRUE)
         IN  /\ b \in LoopType /\ b.arrays = l.arrays /\ b.idleall = l.idleall
             /\ b.queue \in {<<>>, <<Fed>>}
             /\ CalledOf(l, b.called)
<1> DEFINE a == CallAll(l, "fork")
           b == CallAll(a, "prepare")
           f == l.arrays["fork"]
           p == l.arrays["prepare"]
           q == l.queue
<1>0. l \in LoopType /\ "fork" \in Kinds /\ "prepare" \in Kinds
  BY DEF HoldsHooks, Kinds
<1>1. /\ q \in Seq(Hooks) /\ IsInjective(q) /\ ToSet(q) \subseteq {Fed}
      /\ IsInjective(<<>>) /\ <<>> \in Seq(Hooks) /\ ToSet(<<>>) = {}
  <2>1. /\ <<>> \in Seq(Hooks) /\ IsInjective(<<>>) /\ ToSet(<<>>) = {}
        /\ <<Fed>> \in Seq(Hooks) /\ IsInjective(<<Fed>>) /\ ToSet(<<Fed>>) = {Fed}
    BY ShortLists
  <2>2. CASE q = <<>>
    BY <2>1, <2>2
  <2>3. CASE q = <<Fed>>
    BY <2>1, <2>3
  <2> QED BY <2>2, <2>3
<1>2. /\ f \in Seq(Hooks) /\ IsInjective(f) /\ p \in Seq(Hooks) /\ IsInjective(p)
      /\ ToSet(f) \cap ToSet(p) = {}
  <2>1. /\ \A w : w \in ToSet(f) => kinds[w] = "fork"
        /\ \A w : w \in ToSet(p) => kinds[w] = "prepare"
    BY <1>0, ArraysAre
  <2> QED BY <1>0, <2>1, ArraysAre
<1>3. BeforePoll(l, TRUE) = b
  BY Zenon DEF BeforePoll
<1>4. /\ a \in LoopType /\ a.arrays = l.arrays /\ a.idleall = l.idleall
      /\ f = <<>> => a.queue = q /\ a.called = <<>>
      /\ f # <<>> => /\ a.queue = <<>>
                     /\ \E c \in Seq(Hooks) :
                          /\ IsInjective(c) /\ a.called = <<>> \o c
                          /\ ToSet(c) = ToSet(q) \cup ToSet(f)
  <2> DEFINE e == <<>>
  <2>1. e = l.called
    OBVIOUS
  <2> HIDE DEF e
  <2>2. /\ a \in LoopType /\ a.arrays = l.arrays /\ a.idleall = l.idleall
        /\ IF f = <<>> THEN a = l
           ELSE /\ a.queue = <<>>
                /\ \E c \in Seq(Hooks) :
                     /\ IsInjective(c) /\ a.called = e \o c /\ ToSet(c) = ToSet(q) \cup ToSet(f)
    BY <1>0, <1>1, <1>2, <2>1, CallAllIs
  <2> HIDE DEF a, f, q
  <2> QED BY <2>1, <2>2 DEF e, q
<1> HIDE DEF a, f, p, q
<1>5. /\ a.queue \in Seq(Hooks) /\ IsInjective(a.queue) /\ a.queue \in {<<>>, <<Fed>>}
      /\ ToSet(a.queue) \subseteq {Fed}
  BY <1>1, <1>4, ShortLists DEF q
<1>6. /\ a.called \in Seq(Hooks) /\ IsInjective(a.called)
      /\ ToSet(a.called) = IF f = <<>> THEN {} ELSE ToSet(q) \cup ToSet(f)
  <2>1. CASE f = <<>>
    BY <1>1, <1>4, <2>1
  <2>2. CASE f # <<>>
    <3>1. PICK c \in Seq(Hooks) : /\ IsInjective(c) /\ a.called = <<>> \o c
                                  /\ ToSet(c) = ToSet(q) \cup ToSet(f)
      BY <1>4, <2>2
    <3>2. a.called = c
      BY <3>1
    <3> QED BY <2>2, <3>1, <3>2
  <2> QED BY <2>1, <2>2
<1>7. /\ b \in LoopType /\ b.arrays = l.arrays /\ b.idleall = l.idleall
      /\ IF p = <<>> THEN b = a
         ELSE /\ b.queue = <<>>
              /\ \E c \in Seq(Hooks) :
                   /\ IsInjective(c) /\ b.called = a.called \o c
                   /\ ToSet(c) = ToSet(a.queue) \cup ToSet(p)
  <2>1. a \in LoopType /\ IsInjective(a.queue) /\ IsInjective(a.arrays["prepare"])
        /\ a.arrays["prepare"] = p
    BY <1>2, <1>4, <1>5 DEF p
  <2>2. /\ b \in LoopType /\ b.arrays = a.arrays /\ b.idleall = a.idleall
        /\ IF a.arrays["prepare"] = <<>> THEN b = a
           ELSE /\ b.queue = <<>>
                /\ \E c \in Seq(Hooks) :
                     /\ IsInjective(c) /\ b.called = a.called \o c
                     /\ ToSet(c) = ToSet(a.queue) \cup ToSet(a.arrays["prepare"])
    BY ONLY <1>0, <2>1, CallAllIs
  <2> HIDE DEF b
  <2> QED BY <1>4, <2>1, <2>2
<1> HIDE DEF b
<1>8. f = <<>> <=> ToSet(f) = {}
  BY <1>2, NobodyIsIn
<1>9. CASE p = <<>>
  <2>1. ToSet(p) = {} /\ b = a
    BY <1>7, <1>9 DEF ToSet
  <2>2. ToSet(f) \cup ToSet(p) \subseteq ToSet(b.called)
    BY <1>6, <1>8, <2>1
  <2>3. \A i, j \in DOMAIN b.called : b.called[i] = b.called[j] => i = j
    BY <1>6, <2>1 DEF IsInjective
  <2>4. CalledOf(l, b.called)
    BY <2>2, <2>3, Zenon DEF CalledOf, f, p
  <2> QED BY <1>3, <1>5, <1>7, <2>1, <2>4
<1>10. CASE p # <<>>
  <2>1. PICK c \in Seq(Hooks) :
          /\ IsInjective(c) /\ b.called = a.called \o c /\ ToSet(c) = ToSet(a.queue) \cup ToSet(p)
    BY <1>7, <1>10
  <2>2. b.queue = <<>>
    BY <1>7, <1>10
  <2>3. /\ ToSet(b.called) = ToSet(a.called) \cup ToSet(c)
        /\ \A i, j \in DOMAIN b.called :
             b.called[i] = b.called[j] /\ i # j =>
               b.called[i] \in ToSet(a.called) \cap ToSet(c)
    <3> DEFINE s == a.called
    <3>1. s \in Seq(Hooks) /\ IsInjective(s) /\ c \in Seq(Hooks) /\ IsInjective(c)
          /\ b.called = s \o c
      BY <1>6, <2>1
    <3> HIDE DEF s
    <3>2. /\ ToSet(s \o c) = ToSet(s) \cup ToSet(c)
          /\ \A i, j \in DOMAIN (s \o c) :
               (s \o c)[i] = (s \o c)[j] /\ i # j => (s \o c)[i] \in ToSet(s) \cap ToSet(c)
      BY ONLY <3>1, TwiceIsInBoth
    <3> QED BY <3>1, <3>2, Zenon DEF s
  <2>4. ToSet(f) \cup ToSet(p) \subseteq ToSet(b.called)
    BY <1>6, <1>8, <2>1, <2>3
  <2>5. ASSUME NEW x, x \in ToSet(a.called) \cap ToSet(c)
        PROVE  x = Fed /\ Fed \in ToSet(p) /\ ToSet(f) # {}
    <3>1. f # <<>> /\ x \in ToSet(q) \cup ToSet(f)
      BY <1>6, <2>5
    <3>2. a.queue = <<>>
      BY <1>4, <3>1
    <3>3. x \in ToSet(p)
      BY <1>1, <2>1, <2>5, <3>2
    <3> QED BY <1>1, <1>2, <1>8, <3>1, <3>3
  <2>6. CalledOf(l, b.called)
    BY <2>3, <2>4, <2>5, Zenon DEF CalledOf, f, p
  <2> QED BY <1>3, <1>7, <2>2, <2>6
<1> QED BY <1>9, <1>10

LEMMA RoundCalls ==
  ASSUME NEW l, NEW kinds, HoldsHooks(l, kinds), l.called = <<>>,
         l.queue \in {<<>>, <<Fed>>}, Fed \in Hooks
  PROVE  RoundOf(l, AfterPoll(BeforePoll(l, TRUE)))
<1> DEFINE b == BeforePoll(l, TRUE)
           c == IdleReify(b)
           d == QueueEvents(c, "check")
           e == QueueEvents(b, "idle")
           i == l.arrays["idle"]
           h == l.arrays["check"]
           q == b.queue
<1>0. "check" \in Kinds /\ "idle" \in Kinds
  BY DEF Kinds
<1>1. /\ b \in LoopType /\ b.arrays = l.arrays /\ b.idleall = l.idleall
      /\ q \in {<<>>, <<Fed>>}
  BY BeforePollIs
<1>2. /\ i \in Seq(Hooks) /\ IsInjective(i) /\ h \in Seq(Hooks) /\ IsInjective(h)
  BY <1>0, ArraysAre
<1>3. IsInjective(q) /\ (q # <<>> => Fed \in ToSet(q))
  BY <1>1, ShortLists
<1>4. l.idleall > 0 <=> i # <<>>
  <2>1. l.idleall = Len(i)
    BY <1>0, LoopIs, LensAre DEF HoldsHooks, Counted
  <2> QED BY <1>2, <2>1
<1> HIDE DEF b
<1>5. /\ e \in LoopType /\ e.arrays = l.arrays /\ e.called = b.called /\ IsInjective(e.queue)
      /\ ToSet(e.queue) = ToSet(q) \cup ToSet(i)
  <2>1. b \in LoopType /\ IsInjective(b.queue) /\ IsInjective(b.arrays["idle"])
        /\ b.arrays["idle"] = i /\ b.queue = q
    BY <1>1, <1>2, <1>3
  <2> HIDE DEF i, q
  <2>2. /\ e \in LoopType /\ e.arrays = b.arrays /\ e.called = b.called /\ IsInjective(e.queue)
        /\ ToSet(e.queue) = ToSet(b.queue) \cup ToSet(b.arrays["idle"])
    BY ONLY <1>0, <2>1, QueueEventsIs
  <2> HIDE DEF e
  <2> QED BY <1>1, <2>1, <2>2
<1>6. c = IF i # <<>> /\ q = <<>> THEN e ELSE b
  BY <1>1, <1>4 DEF IdleReify
<1> HIDE DEF e, c, i, q, h
<1>7. /\ c \in LoopType /\ c.arrays = l.arrays /\ c.called = b.called /\ IsInjective(c.queue)
      /\ ToSet(i) \subseteq ToSet(c.queue) \/ Fed \in ToSet(c.queue)
  <2>1. CASE i # <<>> /\ q = <<>>
    BY <1>5, <1>6, <2>1
  <2>2. CASE i = <<>>
    <3>1. ToSet(i) = {}
      BY <2>2 DEF ToSet
    <3> QED BY <1>1, <1>3, <1>6, <2>2, <3>1 DEF q
  <2>3. CASE q # <<>>
    BY <1>1, <1>3, <1>6, <2>3 DEF q
  <2> QED BY <2>1, <2>2, <2>3
<1>8. /\ d \in LoopType /\ d.called = c.called /\ IsInjective(d.queue)
      /\ ToSet(d.queue) = ToSet(c.queue) \cup ToSet(h)
  <2>1. c \in LoopType /\ IsInjective(c.queue) /\ IsInjective(c.arrays["check"])
        /\ c.arrays["check"] = h
    BY <1>2, <1>7 DEF h
  <2>2. /\ d \in LoopType /\ d.called = c.called /\ IsInjective(d.queue)
        /\ ToSet(d.queue) = ToSet(c.queue) \cup ToSet(c.arrays["check"])
    BY ONLY <1>0, <2>1, QueueEventsIs
  <2> HIDE DEF d
  <2> QED BY <2>1, <2>2
<1>9. AfterPoll(b) = d
  BY DEF AfterPoll, c
<1> HIDE DEF d
<1>10. Fed \in ToSet(d.queue) => Contains(d.queue, Fed)
  <2>1. d.queue \in Seq(Hooks)
    BY <1>8, LoopIs
  <2> QED BY <2>1 DEF ToSet, Contains
<1>11. CalledOf(l, d.called)
  <2>1. d.called = b.called
    BY <1>7, <1>8
  <2>2. CalledOf(l, b.called)
    BY BeforePollIs DEF b
  <2> QED BY <2>1, <2>2
<1>12. RoundOf(l, d)
  BY <1>7, <1>8, <1>10, <1>11 DEF RoundOf, i, h
<1> QED BY <1>9, <1>12 DEF b


(* The watchers that are started one after the other.                       *)
HookedOver(kinds, order, g) ==
  g = [P \in SUBSET DOMAIN order |->
         IF P = {} THEN NoHooks
         ELSE LET x == Max(P) IN Start(g[P \ {x}], kinds[order[x]], order[x])]

LEMMA HookedIsFold ==
  ASSUME NEW kinds, NEW order
  PROVE  Hooked(kinds, order) = (CHOOSE g : HookedOver(kinds, order, g))[DOMAIN order]
BY Zenon DEF Hooked, FoldLeft, MapThenFoldSet, HookedOver

HookedLoops(kinds) ==
  {l \in LoopType : HoldsHooks(l, kinds) /\ l.queue = <<Fed>> /\ l.called = <<>>}

LEMMA NoHooksHold ==
  ASSUME NEW kinds \in [Hooks -> Kinds], Fed \in Hooks
  PROVE  NoHooks \in HookedLoops(kinds)
<1> DEFINE l == NoHooks
           z == [k \in Kinds |-> <<>>]
           y == [w \in Hooks |-> 0]
<1>1. l = LoopOf(z, y, 0, 0, <<Fed>>, <<>>)
  BY Zenon DEF NoHooks, LoopOf
<1>2. /\ z \in [Kinds -> Seq(Hooks)] /\ y \in [Hooks -> Nat]
      /\ <<Fed>> \in Seq(Hooks) /\ <<>> \in Seq(Hooks)
  OBVIOUS
<1>3. \A k \in Kinds : DOMAIN z[k] = {} /\ Len(z[k]) = 0
  OBVIOUS
<1>4. Placed(z, y, kinds)
  BY <1>3 DEF Placed
<1>5. Lens(z)["idle"] = 0 /\ Counting(Lens(z)) = 0
  <2>1. \A k \in Kinds : Lens(z)[k] = 0
    BY <1>3 DEF Lens
  <2> HIDE DEF z
  <2> QED BY <2>1 DEF Counting, Kinds
<1> HIDE DEF z, y
<1>6. /\ l.arrays = z /\ l.active = y /\ l.activecnt = 0 /\ l.idleall = 0
      /\ l.queue = <<Fed>> /\ l.called = <<>>
  BY <1>1, LoopHas
<1> HIDE DEF l
<1>7. l \in LoopType
  BY <1>1, <1>2 DEF LoopOf, LoopType
<1>8. HoldsHooks(l, kinds)
  BY <1>4, <1>5, <1>6, <1>7 DEF HoldsHooks, Counted
<1> QED BY <1>6, <1>7, <1>8 DEF HookedLoops, l

LEMMA HookedHolds ==
  ASSUME NEW kinds \in [Hooks -> Kinds], Fed \in Hooks, NEW order \in Seq(Hooks)
  PROVE  Hooked(kinds, order) \in HookedLoops(kinds)
<1> DEFINE n == Len(order)
           V == HookedLoops(kinds)
           start(l, i) == Start(l, kinds[order[i]], order[i])
           step == [l \in V |-> [i \in 1..n |-> start(l, i)]]
           Over(g) == g = [P \in SUBSET DOMAIN order |->
                             IF P = {} THEN NoHooks ELSE start(g[P \ {Max(P)}], Max(P))]
           g == CHOOSE g : Over(g)
<1>1. n \in Nat /\ DOMAIN order = 1..n /\ \A i \in 1..n : order[i] \in Hooks
  OBVIOUS
<1>2. Hooked(kinds, order) = g[1..n]
  BY <1>1, HookedIsFold, Zenon DEF HookedOver
<1>3. NoHooks \in V
  BY NoHooksHold
<1>4. ASSUME NEW l \in V, NEW i \in 1..n
      PROVE  start(l, i) \in V
  <2>1. HoldsHooks(l, kinds) /\ order[i] \in Hooks /\ l.queue = <<Fed>> /\ l.called = <<>>
    BY <1>1 DEF HookedLoops
  <2>2. /\ HoldsHooks(start(l, i), kinds)
        /\ start(l, i).queue = l.queue /\ start(l, i).called = l.called
    BY ONLY <2>1, StartHolds
  <2> HIDE DEF start
  <2> QED BY <2>1, <2>2 DEF HookedLoops, HoldsHooks
<1>5. step \in [V -> [1..n -> V]]
  BY <1>4
<1>6. \E f : Over(f)
  <2> HIDE DEF V, n, step
  <2>1. PICK f \in [SUBSET (1..n) -> V] : LeftFold(n, NoHooks, step, f)
    BY ONLY <1>1, <1>3, <1>5, LeftExists
  <2>2. ASSUME NEW P \in SUBSET (1..n), P # {}
        PROVE  step[f[P \ {Max(P)}]][Max(P)] = start(f[P \ {Max(P)}], Max(P))
    <3>1. Max(P) \in 1..n
      BY <1>1, <2>2, MaxIsOf
    <3>2. f[P \ {Max(P)}] \in V
      OBVIOUS
    <3> QED BY <3>1, <3>2 DEF step
  <2>3. \A P \in SUBSET (1..n) :
          f[P] = IF P = {} THEN NoHooks ELSE start(f[P \ {Max(P)}], Max(P))
    <3> HIDE DEF start
    <3> QED BY <2>1, <2>2, Zenon DEF LeftFold
  <2>4. Over(f)
    <3> HIDE DEF start
    <3> QED BY <1>1, <2>3
  <2> QED BY <2>4
<1>7. Over(g)
  BY <1>6, Zenon
<1>8. /\ g[{}] = NoHooks
      /\ \A k \in 1..n : g[1..k] = start(g[1..(k - 1)], k)
  <2> HIDE DEF start, g
  <2>1. g[{}] = NoHooks
    BY <1>7
  <2>2. ASSUME NEW k \in 1..n PROVE g[1..k] = start(g[1..(k - 1)], k)
    <3>1. 1..k \in SUBSET (1..n) /\ k \in Nat \ {0}
      BY <1>1
    <3>2. Max(1..k) = k /\ (1..k) \ {k} = 1..(k - 1) /\ 1..k # {}
      BY <3>1, SegmentMax
    <3>3. g[1..k] = start(g[(1..k) \ {Max(1..k)}], Max(1..k))
      BY <1>1, <1>7, <3>1, <3>2
    <3> QED BY <3>2, <3>3
  <2> QED BY <2>1, <2>2
<1> DEFINE S == {k \in Nat : k <= n => g[1..k] \in V}
<1>9. 0 \in S
  <2>1. 1..0 = {}
    OBVIOUS
  <2> HIDE DEF V, g
  <2> QED BY <1>3, <1>8, <2>1
<1>10. ASSUME NEW k \in Nat, k \in S PROVE k + 1 \in S
  <2> SUFFICES ASSUME k + 1 <= n PROVE g[1..(k + 1)] \in V
    OBVIOUS
  <2> DEFINE m == k + 1
  <2>1. m \in 1..n /\ m - 1 = k
    BY <1>1
  <2>2. g[1..k] \in V
    BY <1>1, <1>10
  <2> HIDE DEF g, V, start, m
  <2>3. g[1..m] = start(g[1..k], m)
    BY <1>8, <2>1
  <2>4. g[1..m] \in V
    BY <1>4, <2>1, <2>2, <2>3
  <2> QED BY <2>4 DEF m
<1>11. n \in S
  <2> HIDE DEF S
  <2> QED BY <1>1, <1>9, <1>10, Induction
<1> HIDE DEF g, V
<1> QED BY <1>1, <1>2, <1>11 DEF V

LEMMA HookOrdersAre ==
  ASSUME NEW order \in HookOrders
  PROVE  order \in Seq(Hooks)
<1>1. PICK S \in SUBSET Hooks : order \in SetToSeqs(S)
  BY DEF HookOrders
<1>2. Cardinality(S) \in Nat
  <2>1. IsFiniteSet(S)
    BY AlgorithmsAssumption, FS_Subset
  <2> QED BY <2>1, FS_CardinalityType
<1>3. order \in [1..Cardinality(S) -> S]
  BY <1>1, Zenon DEF SetToSeqs
<1> QED BY <1>2, <1>3

LEMMA HookSubject ==
  ASSUME Subjects, subject.of = "hooks"
  PROVE  \E kinds \in [Hooks -> Kinds], order \in Seq(Hooks) :
           /\ subject.kinds = kinds /\ subject.watcher \in Hooks /\ subject.start \in BOOLEAN
           /\ subject.loop = Hooked(kinds, order)
<1>1. \A s \in Corrections \cup Windows \cup Fetches \cup SetUps : s.of # "hooks"
  BY DEF Corrections, Windows, Fetches, SetUps
<1>2. \A s \in HeapChanges \cup ArrayGrowths \cup Files \cup Starts \cup Messages :
        s.of # "hooks"
  BY DEF HeapChanges, ArrayGrowths, Files, Starts, Messages
<1>3. \A s \in PeriodicChanges : s.of # "hooks"
  BY DEF PeriodicChanges
<1>4. NoSubject.of # "hooks"
  BY DEF NoSubject
<1>5. subject \in HookChanges
  BY <1>1, <1>2, <1>3, <1>4, Zenon DEF Subjects
<1>6. PICK kinds \in HookKinds :
        subject \in [of : {"hooks"}, kinds : {kinds}, watcher : Hooks, start : BOOLEAN,
                     loop : {Hooked(kinds, order) : order \in HookOrders}]
  BY <1>5, Zenon DEF HookChanges
<1>7. /\ subject.kinds = kinds /\ subject.watcher \in Hooks /\ subject.start \in BOOLEAN
      /\ subject.loop \in {Hooked(kinds, order) : order \in HookOrders}
  BY <1>6
<1>8. PICK order \in HookOrders : subject.loop = Hooked(kinds, order)
  BY <1>7
<1>9. kinds \in [Hooks -> Kinds]
  BY AlgorithmsAssumption
<1> QED BY <1>7, <1>8, <1>9, HookOrdersAre

LEMMA RoundsAreKept ==
  ASSUME Subjects
  PROVE  RoundIsKept
<1> SUFFICES ASSUME subject.of = "hooks" PROVE RoundIsKept
  BY Zenon DEF RoundIsKept
<1> DEFINE l == subject.loop
           w == subject.watcher
           k == subject.kinds[w]
           new == IF subject.start THEN Start(l, k, w) ELSE Stop(l, k, w)
           of(j) == ToSet(new.arrays[j])
           round == AfterPoll(BeforePoll(new, TRUE))
<1>1. PICK kinds \in [Hooks -> Kinds], order \in Seq(Hooks) :
        /\ subject.kinds = kinds /\ w \in Hooks /\ subject.start \in BOOLEAN
        /\ l = Hooked(kinds, order)
  BY HookSubject
<1>2. Fed \in Hooks
  BY AlgorithmsAssumption
<1>3. l \in HookedLoops(kinds)
  BY <1>1, <1>2, HookedHolds
<1>4. HoldsHooks(l, kinds) /\ l.queue = <<Fed>> /\ l.called = <<>>
  BY <1>3 DEF HookedLoops
<1> HIDE DEF l, w
<1>5. /\ HoldsHooks(new, kinds) /\ new.called = <<>>
      /\ new.queue = IF subject.start THEN <<Fed>> ELSE Without({w}, <<Fed>>)
      /\ \A v \in Hooks : new.active[v] # 0 <=> IF subject.start THEN v = w \/ l.active[v] # 0
                                               ELSE v # w /\ l.active[v] # 0
  <2>1. CASE subject.start
    <3>1. new = Start(l, kinds[w], w)
      BY <1>1, <2>1
    <3> HIDE DEF new
    <3> QED BY <1>1, <1>4, <2>1, <3>1, StartHolds
  <2>2. CASE ~subject.start
    <3>1. new = Stop(l, kinds[w], w)
      BY <1>1, <2>2
    <3> HIDE DEF new
    <3>2. OnlyStops(l, new, kinds, w)
      BY ONLY <1>1, <1>4, <3>1, StopHolds
    <3> QED BY <1>4, <2>2, <3>2 DEF OnlyStops
  <2> QED BY <2>1, <2>2
<1> HIDE DEF new
<1>6. /\ new.queue \in {<<>>, <<Fed>>}
      /\ ~subject.start => w \notin ToSet(new.queue)
      /\ new.queue \in Seq(Hooks)
  <2> DEFINE q == Without({w}, <<Fed>>)
  <2>1. q \in Seq(Hooks) /\ ToSet(q) = ToSet(<<Fed>>) \ {w} /\ IsInjective(q)
    BY <1>2, ShortLists, WithoutKeeps
  <2>2. <<Fed>> \in Seq(Hooks) /\ ToSet(<<Fed>>) = {Fed}
    BY <1>2, ShortLists
  <2>3. q = <<>> \/ q = <<Fed>>
    <3> HIDE DEF q
    <3> QED BY <2>1, <2>2, AtMostOne
  <2>4. CASE subject.start
    BY <1>5, <2>2, <2>4
  <2>5. CASE ~subject.start
    <3> HIDE DEF q
    <3>1. new.queue = q
      BY <1>5, <2>5 DEF q
    <3> QED BY <2>1, <2>3, <3>1
  <2> QED BY <2>4, <2>5
<1>7. \A j \in Kinds :
        /\ new.arrays[j] \in Seq(Hooks)
        /\ \A v : v \in of(j) <=> v \in Hooks /\ kinds[v] = j /\ new.active[v] # 0
  BY <1>5, ArraysAre
<1>8. \A v \in Hooks : new.active[v] # 0 <=> \E j \in Kinds : v \in of(j)
  <2> HIDE DEF of
  <2> QED BY <1>7
<1>9. RoundOf(new, round)
  BY <1>2, <1>5, <1>6, RoundCalls
<1>10. /\ GoesOn(new) <=> \E j \in Kinds \ {"cleanup"} : of(j) # {}
       /\ MayWait(new) <=> of("idle") = {} /\ GoesOn(new)
       /\ new.activecnt >= -1 /\ new.idleall >= 0
  <2> DEFINE s == Lens(new.arrays)
  <2>1. new.idleall = s["idle"] /\ new.activecnt = Counting(s)
    BY <1>5, Zenon DEF HoldsHooks, Counted
  <2>2. \A j \in Kinds : s[j] \in Nat /\ (s[j] = 0 <=> of(j) = {})
    <3>1. new.arrays \in [Kinds -> Seq(Hooks)]
      BY <1>5, LoopIs DEF HoldsHooks
    <3>2. \A j \in Kinds : s[j] = Len(new.arrays[j])
      BY <3>1, LensAre
    <3>3. \A j \in Kinds : new.arrays[j] = <<>> <=> of(j) = {}
      BY <3>1, NobodyIsIn
    <3>4. \A j \in Kinds : Len(new.arrays[j]) \in Nat
           /\ (Len(new.arrays[j]) = 0 <=> new.arrays[j] = <<>>)
      BY <3>1
    <3> HIDE DEF s, of
    <3> QED BY <3>2, <3>3, <3>4
  <2> HIDE DEF s, of
  <2>3. /\ s["idle"] \in Nat /\ s["prepare"] \in Nat /\ s["check"] \in Nat
        /\ s["fork"] \in Nat /\ s["async"] \in Nat
    BY <2>2 DEF Kinds
  <2>4. Counting(s) >= 0 /\ (Counting(s) = 0 <=> \A j \in Kinds \ {"cleanup"} : s[j] = 0)
    <3>1. /\ Counting(s) >= 0
          /\ Counting(s) = 0 <=> /\ s["idle"] = 0 /\ s["prepare"] = 0 /\ s["check"] = 0
                                  /\ s["fork"] = 0 /\ s["async"] = 0
      <4> DEFINE a == s["idle"]
                 b == s["prepare"]
                 c == s["check"]
                 d == s["fork"]
                 e == s["async"]
      <4>1. a \in Nat /\ b \in Nat /\ c \in Nat /\ d \in Nat /\ e \in Nat
        BY <2>3
      <4>2. Counting(s) = a + b + c + d + e
        BY Zenon DEF Counting
      <4> HIDE DEF a, b, c, d, e
      <4>3. a + b + c + d + e >= 0
        BY ONLY <4>1
      <4>4. a + b + c + d + e = 0 <=> a = 0 /\ b = 0 /\ c = 0 /\ d = 0 /\ e = 0
        BY ONLY <4>1
      <4> QED BY <4>2, <4>3, <4>4, Zenon DEF a, b, c, d, e
    <3>2. Kinds \ {"cleanup"} = {"idle", "prepare", "check", "fork", "async"}
      BY DEF Kinds
    <3> QED BY ONLY <3>1, <3>2
  <2>5. new.activecnt # 0 <=> \E j \in Kinds \ {"cleanup"} : of(j) # {}
    BY <2>1, <2>2, <2>4
  <2>6. new.idleall = 0 <=> of("idle") = {}
    BY <2>1, <2>2 DEF Kinds
  <2>7. new.activecnt >= -1 /\ new.idleall >= 0
    <3>1. Counting(s) \in Int
      BY <2>3 DEF Counting
    <3> QED BY ONLY <2>1, <2>3, <2>4, <3>1
  <2> QED BY <2>5, <2>6, <2>7 DEF GoesOn, MayWait
<1>11. EvVerify(new)
  <2>1. \A j \in Kinds : \A i \in DOMAIN new.arrays[j] : new.active[new.arrays[j][i]] = i
    BY <1>5 DEF HoldsHooks, Placed
  <2> QED BY <1>10, <2>1 DEF EvVerify, ArrayVerify
<1>12. ~subject.start => ~Contains(new.queue, w)
  BY <1>6 DEF Contains, ToSet
<1>13. /\ new.active[w] # 0 <=> subject.start
       /\ \A v \in Hooks : v # w => (new.active[v] # 0 <=> l.active[v] # 0)
  BY <1>1, <1>5
<1> HIDE DEF round
<1> QED
  BY <1>8, <1>9, <1>10, <1>11, <1>12, <1>13, ZenonT(60)
     DEF RoundIsKept, RoundOf, CalledOf, l, w, new, round


--------------------------------------------------------------------------------
(* array_nextsize.                                                          *)

(* Doubling ends, at a size that is large enough.                           *)
DoublesTo(cnt, f) == f = [n \in Nat \ {0} |-> IF cnt > n THEN f[2 * n] ELSE n]

LEMMA DoublingEnds ==
  ASSUME NEW cnt \in Nat
  PROVE  \E f : DoublesTo(cnt, f)
<1> DEFINE D == Nat \ {0}
           Twice(f, n) == IF cnt > n THEN f[2 * n] ELSE n
           H == [f \in [D -> Nat] |-> [n \in D |-> Twice(f, n)]]
           rank == [n \in D |-> IF cnt > n THEN cnt - n ELSE 0]
<1>1. /\ rank \in [D -> 0..cnt]
      /\ \A n \in D : cnt > n => 2 * n \in D /\ rank[2 * n] < rank[n]
  OBVIOUS
<1>2. \A f \in [D -> Nat], n \in D : Twice(f, n) \in Nat
  <2> SUFFICES ASSUME NEW f \in [D -> Nat], NEW n \in D PROVE Twice(f, n) \in Nat
    OBVIOUS
  <2>1. 2 * n \in D /\ n \in Nat
    OBVIOUS
  <2> HIDE DEF D
  <2> QED BY <2>1
<1>3. H \in [[D -> Nat] -> [D -> Nat]] /\ \A f \in [D -> Nat], n \in D : H[f][n] = Twice(f, n)
  BY <1>2
<1>4. ASSUME NEW f \in [D -> Nat], NEW g \in [D -> Nat], NEW n \in D,
             \A e \in D : rank[e] < rank[n] => f[e] = g[e]
      PROVE  H[f][n] = H[g][n]
  <2>1. cnt > n => f[2 * n] = g[2 * n]
    <3> HIDE DEF D, rank
    <3> QED BY <1>1, <1>4
  <2>2. Twice(f, n) = Twice(g, n)
    <3> HIDE DEF D, rank
    <3> QED BY <2>1, Zenon
  <2> HIDE DEF H, Twice, D, rank
  <2> QED BY <1>3, <2>2, Zenon
<1>5. \E f \in [D -> Nat] : f = H[f]
  <2> HIDE DEF H, D, rank
  <2>1. Nat # {}
    BY 0 \in Nat
  <2>2. Recursive(D, Nat, rank, cnt, H)
    BY ONLY <1>1, <1>3, <1>4, <2>1, cnt \in Nat, Zenon DEF Recursive
  <2> QED BY <2>2, RecursionEnds
<1>6. PICK f \in [D -> Nat] : f = H[f]
  BY <1>5
<1>7. f = [n \in D |-> Twice(f, n)]
  BY <1>6
<1> QED BY <1>7 DEF DoublesTo

LEMMA DoubledIs ==
  ASSUME NEW had, NEW cnt
  PROVE  Doubled(had, cnt) = (CHOOSE f : DoublesTo(cnt, f))[2 * (had + 1)]
BY Zenon DEF Doubled, DoublesTo

LEMMA DoublesEnough ==
  ASSUME NEW had \in Nat, NEW cnt \in Nat
  PROVE  LET n == Doubled(had, cnt)
         IN  n \in Nat /\ n >= cnt /\ n >= 2 * (had + 1)
<1> DEFINE f == CHOOSE f : DoublesTo(cnt, f)
           D == Nat \ {0}
           Good(n) == f[n] \in Nat /\ f[n] >= cnt /\ f[n] >= n
           S == {m \in Nat : \A n \in D : n + m >= cnt => Good(n)}
<1>1. DoublesTo(cnt, f)
  BY DoublingEnds, Zenon
<1> HIDE DEF f
<1>2. \A n \in D : f[n] = IF cnt > n THEN f[2 * n] ELSE n
  BY <1>1 DEF DoublesTo
<1>3. 0 \in S
  BY <1>2
<1>4. ASSUME NEW m \in Nat, m \in S PROVE m + 1 \in S
  <2> SUFFICES ASSUME NEW n \in D, n + (m + 1) >= cnt PROVE Good(n)
    OBVIOUS
  <2>1. 2 * n \in D /\ 2 * n + m >= cnt /\ 2 * n >= n
    BY <1>4
  <2>2. Good(2 * n)
    BY <1>4, <2>1
  <2>3. CASE cnt > n
    <3>1. f[n] = f[2 * n]
      BY <1>2, <2>3
    <3> QED BY <2>1, <2>2, <3>1
  <2>4. CASE ~(cnt > n)
    <3>1. f[n] = n
      BY <1>2, <2>4
    <3> QED BY <2>4, <3>1
  <2> QED BY <2>3, <2>4
<1>5. cnt \in S
  <2> HIDE DEF S
  <2> QED BY <1>3, <1>4, Induction
<1>6. 2 * (had + 1) \in D /\ 2 * (had + 1) + cnt >= cnt
  OBVIOUS
<1>7. Good(2 * (had + 1))
  BY <1>5, <1>6
<1> QED BY <1>7, DoubledIs DEF f

(* What fills the pages has room for one more, and leaves no whole element. *)
LEMMA PagesAreFilled ==
  ASSUME NEW size \in {4, 8, 16, 24, 32}, NEW n \in Nat, NEW pointer \in {4, 8}
  PROVE  LET b == n * size + size + MallocRound - 1 + 4 * pointer
             new == ((b \div MallocRound) * MallocRound - 4 * pointer) \div size
             bytes == new * size + 4 * pointer
         IN  /\ new \in Int /\ new >= n
             /\ (MallocRound - (bytes % MallocRound)) % MallocRound < size
<1> DEFINE p == 4 * pointer
           b == n * size + size + 4096 - 1 + p
           q == b \div 4096
           new == (q * 4096 - p) \div size
           bytes == new * size + p
<1>1. p \in {16, 32} /\ size \in Nat
  OBVIOUS
<1> HIDE DEF p
<1>2. n * size \in Nat
  BY <1>1
<1> DEFINE ns == n * size
<1> HIDE DEF ns
<1>3. b \in Nat /\ b = ns + size + 4095 + p
  BY <1>1, <1>2 DEF ns
<1>4. q \in Nat /\ q * 4096 <= b /\ b < q * 4096 + 4096
  <2> HIDE DEF b
  <2> QED BY <1>3
<1> HIDE DEF b, q
<1>5. q * 4096 - p >= ns + size /\ q * 4096 - p \in Int
  BY <1>1, <1>2, <1>3, <1>4 DEF ns
<1> DEFINE r == q * 4096 - p
<1>6. new \in Int /\ new * size <= r /\ r < new * size + size
  <2>1. r \in Int
    BY <1>5
  <2> DEFINE parts(s) == r \div s
  <2>0. new = parts(size)
    OBVIOUS
  <2> HIDE DEF r, parts, new
  <2>2. CASE size = 4
    <3>1. parts(4) = r \div 4
      BY DEF parts
    <3> HIDE DEF new
    <3> QED BY <2>0, <2>1, <2>2, <3>1
  <2>3. CASE size = 8
    <3>1. parts(8) = r \div 8
      BY DEF parts
    <3> HIDE DEF new
    <3> QED BY <2>0, <2>1, <2>3, <3>1
  <2>4. CASE size = 16
    <3>1. parts(16) = r \div 16
      BY DEF parts
    <3> HIDE DEF new
    <3> QED BY <2>0, <2>1, <2>4, <3>1
  <2>5. CASE size = 24
    <3>1. parts(24) = r \div 24
      BY DEF parts
    <3> HIDE DEF new
    <3> QED BY <2>0, <2>1, <2>5, <3>1
  <2>6. CASE size = 32
    <3>1. parts(32) = r \div 32
      BY DEF parts
    <3> HIDE DEF new
    <3> QED BY <2>0, <2>1, <2>6, <3>1
  <2> QED BY <2>2, <2>3, <2>4, <2>5, <2>6
<1> HIDE DEF new
<1>7. new >= n
  <2>1. CASE size = 4
    BY <1>5, <1>6, <2>1 DEF ns
  <2>2. CASE size = 8
    BY <1>5, <1>6, <2>2 DEF ns
  <2>3. CASE size = 16
    BY <1>5, <1>6, <2>3 DEF ns
  <2>4. CASE size = 24
    BY <1>5, <1>6, <2>4 DEF ns
  <2>5. CASE size = 32
    BY <1>5, <1>6, <2>5 DEF ns
  <2> QED BY <2>1, <2>2, <2>3, <2>4, <2>5
<1>8. bytes \in Int /\ bytes <= q * 4096 /\ q * 4096 < bytes + size
  <2>1. new * size \in Int
    BY <1>1, <1>6
  <2> QED BY <1>1, <1>4, <1>6, <2>1
<1> HIDE DEF bytes
<1>9. (4096 - (bytes % 4096)) % 4096 < size
  <2>1. size <= 32
    OBVIOUS
  <2>2. CASE bytes = q * 4096
    <3>1. bytes % 4096 = 0
      BY <1>4, <2>2
    <3> QED BY <1>1, <3>1
  <2>3. CASE bytes < q * 4096
    <3> DEFINE d == q * 4096 - bytes
    <3>1. d \in 1..31 /\ d < size /\ bytes = (q - 1) * 4096 + (4096 - d)
      BY <1>1, <1>4, <1>8, <2>1, <2>3
    <3> HIDE DEF d
    <3>2. bytes % 4096 = 4096 - d
      BY <1>4, <3>1
    <3> QED BY <1>1, <3>1, <3>2
  <2> QED BY <1>4, <1>8, <2>2, <2>3
<1> QED BY <1>6, <1>7, <1>9 DEF bytes, new, q, b, p, MallocRound

LEMMA GrowthSubject ==
  ASSUME Subjects, subject.of = "array"
  PROVE  /\ subject.size \in {4, 8, 16, 24, 32} /\ subject.pointer \in {4, 8}
         /\ subject.cur \in Nat /\ subject.cnt \in Nat
<1>1. \A s \in Corrections \cup Windows \cup Fetches \cup SetUps : s.of # "array"
  BY DEF Corrections, Windows, Fetches, SetUps
<1>2. \A s \in HeapChanges \cup PeriodicChanges \cup Files \cup Starts \cup Messages :
        s.of # "array"
  BY DEF HeapChanges, PeriodicChanges, Files, Starts, Messages
<1>3. \A s \in HookChanges : s.of # "array"
  BY DEF HookChanges
<1>4. NoSubject.of # "array"
  BY DEF NoSubject
<1>5. subject \in ArrayGrowths
  BY <1>1, <1>2, <1>3, <1>4, Zenon DEF Subjects
<1> QED BY <1>5, AlgorithmsAssumption DEF ArrayGrowths

LEMMA ArraysGrow ==
  ASSUME Subjects
  PROVE  ArrayGrows
<1> SUFFICES ASSUME subject.of = "array", subject.cnt > subject.cur PROVE ArrayGrows
  BY DEF ArrayGrows
<1> DEFINE size == subject.size
           pointer == subject.pointer
           n == Doubled(subject.cur, subject.cnt)
           new == NextSize(size, subject.cur, subject.cnt, pointer)
           bytes == new * size + 4 * pointer
<1>1. /\ size \in {4, 8, 16, 24, 32} /\ pointer \in {4, 8}
      /\ subject.cur \in Nat /\ subject.cnt \in Nat
  BY GrowthSubject
<1>2. n \in Nat /\ n >= subject.cnt /\ n >= 2 * (subject.cur + 1)
  BY <1>1, DoublesEnough
<1> HIDE DEF n, size, pointer
<1> DEFINE pages == (((n * size + size + MallocRound - 1 + 4 * pointer) \div MallocRound)
                       * MallocRound - 4 * pointer) \div size
<1>3. new = IF size * n <= MallocRound - 4 * pointer THEN n ELSE pages
  BY Zenon DEF NextSize, n
<1>4. /\ pages \in Int /\ pages >= n
      /\ LET b == pages * size + 4 * pointer
         IN  (MallocRound - (b % MallocRound)) % MallocRound < size
  <2> DEFINE x == n * size + size + MallocRound - 1 + 4 * pointer
             y == ((x \div MallocRound) * MallocRound - 4 * pointer) \div size
             z == y * size + 4 * pointer
  <2>1. y \in Int /\ y >= n /\ (MallocRound - (z % MallocRound)) % MallocRound < size
    BY ONLY <1>1, <1>2, PagesAreFilled, Zenon DEF x, y, z
  <2>2. pages = y
    BY Zenon DEF pages, x, y
  <2> QED BY <2>1, <2>2, Zenon DEF z
<1> HIDE DEF new, pages
<1>5. CASE size * n <= MallocRound - 4 * pointer
  <2>1. new = n
    BY <1>3, <1>5
  <2>2. size * n = n * size /\ n * size \in Nat
    BY <1>1, <1>2
  <2>3. ~(bytes > MallocRound)
    BY <1>1, <1>5, <2>1, <2>2 DEF MallocRound
  <2> QED BY <1>2, <2>1, <2>3, Zenon DEF ArrayGrows, new, size, pointer
<1>6. CASE ~(size * n <= MallocRound - 4 * pointer)
  <2>1. new = pages
    BY <1>3, <1>6
  <2>2. (MallocRound - (bytes % MallocRound)) % MallocRound < size
    BY <1>4, <2>1
  <2>3. new >= subject.cnt /\ new >= 2 * (subject.cur + 1)
    BY <1>1, <1>2, <1>4, <2>1
  <2> QED BY <2>2, <2>3, Zenon DEF ArrayGrows, new, size, pointer
<1> QED BY <1>5, <1>6

(* Whoever has been started is in its array, once, knows its place and is   *)
(* called in every round, whatever the watchers, their kinds and the order  *)
(* they were started in; and array_nextsize makes room in time.             *)
THEOREM ArraysAreKeptAlways == ASpec => []ArraysAreKept
<1>1. Subjects => ArraysAreKept
  BY RoundsAreKept, ArraysGrow DEF ArraysAreKept
<1> QED BY <1>1, SubjectsHold, PTL

--------------------------------------------------------------------------------
(* The texts a file is read from and a client sends.  What is left of a      *)
(* list, character by character.                                             *)

(* One element more: it is passed over or it stays.                         *)
LEMMA WithoutAppend ==
  ASSUME NEW V, NEW S, NEW s \in Seq(V), NEW x \in V
  PROVE  Without(S, Append(s, x)) =
           IF x \in S THEN Without(S, s) ELSE Append(Without(S, s), x)
<1> DEFINE r == Append(s, x)
           n == Len(s)
           g == CHOOSE g : PassOver(S, r, g)
           h == CHOOSE h : PassOver(S, s, h)
<1>1. /\ r \in Seq(V) /\ n \in Nat /\ Len(r) = n + 1 /\ r[n + 1] = x
      /\ \A i \in 1..n : r[i] = s[i]
  OBVIOUS
<1> HIDE DEF r
<1>2. PassOver(S, r, g) /\ PassOver(S, s, h)
  BY <1>1, PassOverExists
<1>3. Without(S, r) = g[n + 1] /\ Without(S, s) = h[n]
  BY <1>1, WithoutIsPassed
<1> HIDE DEF g, h, n
<1> DEFINE Z == {k \in Nat : k <= n => g[k] = h[k]}
<1>4. g[0] = <<>> /\ h[0] = <<>>
  BY <1>1, <1>2 DEF PassOver, n
<1>5. ASSUME NEW k \in Nat, k + 1 <= n, g[k] = h[k] PROVE g[k + 1] = h[k + 1]
  <2> DEFINE m == k + 1
  <2>1. m \in 0..n /\ m \in 0..(n + 1) /\ m # 0 /\ m - 1 = k /\ m \in 1..n
    BY <1>1, <1>5
  <2> HIDE DEF m
  <2>2. r[m] = s[m]
    BY <1>1, <2>1
  <2>3. g[m] = IF r[m] \in S THEN g[m - 1] ELSE Append(g[m - 1], r[m])
    BY ONLY <1>1, <1>2, <2>1, Zenon DEF PassOver
  <2>4. h[m] = IF s[m] \in S THEN h[m - 1] ELSE Append(h[m - 1], s[m])
    BY ONLY <1>1, <1>2, <2>1, Zenon DEF PassOver, n
  <2> QED BY <1>5, <2>1, <2>2, <2>3, <2>4 DEF m
<1>6. g[n] = h[n]
  <2>1. 0 \in Z
    BY <1>4
  <2>2. ASSUME NEW k \in Nat, k \in Z PROVE k + 1 \in Z
    BY <1>1, <1>5, <2>2
  <2> HIDE DEF Z
  <2>3. Nat \subseteq Z
    BY <2>1, <2>2, Induction
  <2> QED BY <1>1, <2>3 DEF Z
<1>7. g[n + 1] = IF x \in S THEN g[n] ELSE Append(g[n], x)
  <2> DEFINE m == n + 1
  <2>1. m \in 0..(n + 1) /\ m # 0 /\ m - 1 = n /\ r[m] = x
    BY <1>1
  <2> HIDE DEF m
  <2>2. g[m] = IF r[m] \in S THEN g[m - 1] ELSE Append(g[m - 1], r[m])
    BY ONLY <1>1, <1>2, <2>1, Zenon DEF PassOver
  <2> QED BY <2>1, <2>2 DEF m
<1> QED BY <1>3, <1>6, <1>7 DEF r

LEMMA WithoutEmpty ==
  ASSUME NEW S
  PROVE  Without(S, <<>>) = <<>>
<1> DEFINE s == <<>>
           g == CHOOSE g : PassOver(S, s, g)
<1>1. s \in Seq({0}) /\ Len(s) = 0 /\ 0 \in 0..Len(s)
  OBVIOUS
<1> HIDE DEF s
<1>2. PassOver(S, s, g)
  BY <1>1, PassOverExists
<1>3. Without(S, s) = g[0]
  BY <1>1, WithoutIsPassed
<1> HIDE DEF g
<1>4. g[0] = <<>>
  BY <1>1, <1>2 DEF PassOver
<1> QED BY <1>3, <1>4 DEF s

(* What holds of the empty list, and of a list with one element more, holds *)
(* of every list: Z are the lists it holds of.                              *)
LEMMA ListsGrow ==
  ASSUME NEW V, NEW Z, <<>> \in Z,
         \A s \in Seq(V) : s \in Z => \A x \in V : Append(s, x) \in Z
  PROVE  Seq(V) \subseteq Z
<1> DEFINE N == {n \in Nat : \A s \in Seq(V) : Len(s) = n => s \in Z}
<1>1. 0 \in N
  <2>1. \A s \in Seq(V) : Len(s) = 0 => s = <<>>
    OBVIOUS
  <2> QED BY <2>1
<1>2. ASSUME NEW n \in Nat, n \in N PROVE n + 1 \in N
  <2> SUFFICES ASSUME NEW s \in Seq(V), Len(s) = n + 1 PROVE s \in Z
    OBVIOUS
  <2> DEFINE f == SubSeq(s, 1, n)
             x == s[n + 1]
  <2>1. f \in Seq(V) /\ Len(f) = n /\ x \in V /\ s = Append(f, x)
    OBVIOUS
  <2> HIDE DEF f, x
  <2>2. f \in Z
    BY <1>2, <2>1
  <2> QED BY <2>1, <2>2
<1>3. Nat \subseteq N
  <2> HIDE DEF N
  <2> QED BY <1>1, <1>2, Induction
<1> QED BY <1>3

JoinsOne(S, a, b, x) ==
  (IF x \in S THEN a \o b ELSE Append(a \o b, x)) =
    a \o (IF x \in S THEN b ELSE Append(b, x))

LEMMA JoinedOneMore ==
  ASSUME NEW V, NEW S, NEW a \in Seq(V), NEW b \in Seq(V), NEW x \in V
  PROVE  JoinsOne(S, a, b, x)
BY DEF JoinsOne

Joins(S, s, t) == Without(S, s \o t) = Without(S, s) \o Without(S, t)

LEMMA WithoutConcat ==
  ASSUME NEW V, NEW S, NEW s \in Seq(V), NEW t \in Seq(V)
  PROVE  Joins(S, s, t)
<1> DEFINE w(r) == Without(S, r)
           Z == {r \in Seq(V) : w(s \o r) = w(s) \o w(r)}
<1>1. \A r \in Seq(V) : w(r) \in Seq(V)
  BY WithoutKeeps
<1>2. <<>> \in Z
  <2>1. w(<<>>) = <<>>
    BY WithoutEmpty
  <2> HIDE DEF w
  <2> QED BY <1>1, <2>1
<1>3. ASSUME NEW r \in Seq(V), r \in Z, NEW x \in V PROVE Append(r, x) \in Z
  <2> DEFINE a == Append(r, x)
             c == s \o r
             ws == w(s)
             wr == w(r)
             wa == w(a)
             wc == w(c)
             wx == w(Append(c, x))
  <2>1. a \in Seq(V) /\ c \in Seq(V) /\ s \o a = Append(c, x)
    OBVIOUS
  <2>2. wa = IF x \in S THEN wr ELSE Append(wr, x)
    BY WithoutAppend
  <2>3. wx = IF x \in S THEN wc ELSE Append(wc, x)
    <3> HIDE DEF c
    <3> QED BY <2>1, WithoutAppend
  <2>4. ws \in Seq(V) /\ wr \in Seq(V) /\ wc = ws \o wr
    BY <1>1, <1>3
  <2>5. w(s \o a) = wx
    BY <2>1
  <2> HIDE DEF w, c, wx, wc, ws, wr, wa
  <2>6. wx = ws \o wa
    <3>1. JoinsOne(S, ws, wr, x)
      BY <2>4, JoinedOneMore, Zenon
    <3> QED BY ONLY <2>2, <2>3, <2>4, <3>1, Zenon DEF JoinsOne
  <2>7. w(s \o a) = w(s) \o w(a)
    BY <2>5, <2>6 DEF ws, wa
  <2> QED BY <2>1, <2>7
<1>4. Seq(V) \subseteq Z
  <2> HIDE DEF Z
  <2> QED BY <1>2, <1>3, ListsGrow
<1> QED BY <1>4 DEF Joins

LEMMA WithoutNone ==
  ASSUME NEW V, NEW S, NEW s \in Seq(V), \A i \in 1..Len(s) : s[i] \notin S
  PROVE  Without(S, s) = s
<1> DEFINE Z == {r \in Seq(V) : (\A i \in 1..Len(r) : r[i] \notin S) => Without(S, r) = r}
<1>1. <<>> \in Z
  BY WithoutEmpty
<1>2. ASSUME NEW r \in Seq(V), r \in Z, NEW x \in V PROVE Append(r, x) \in Z
  <2> DEFINE a == Append(r, x)
  <2>1. /\ a \in Seq(V) /\ Len(a) \in Nat /\ Len(a) = Len(r) + 1 /\ a[Len(a)] = x
        /\ Len(a) \in 1..Len(a) /\ \A i \in 1..Len(r) : a[i] = r[i] /\ i \in 1..Len(a)
    BY AppendProperties
  <2>2. Without(S, a) = IF x \in S THEN Without(S, r) ELSE Append(Without(S, r), x)
    BY WithoutAppend
  <2>3. a = Append(r, x)
    OBVIOUS
  <2> HIDE DEF a
  <2>4. ASSUME \A i \in 1..Len(a) : a[i] \notin S PROVE Without(S, a) = a
    <3>1. x \notin S /\ \A i \in 1..Len(r) : r[i] \notin S
      BY <2>1, <2>4
    <3>2. Without(S, r) = r
      BY <1>2, <3>1
    <3> QED BY <2>2, <2>3, <3>1, <3>2
  <2>5. a \in Z
    BY <2>1, <2>4
  <2> QED BY <2>3, <2>5
<1>3. Seq(V) \subseteq Z
  <2> HIDE DEF Z
  <2> QED BY <1>1, <1>2, ListsGrow
<1> QED BY <1>3

LEMMA WithoutAll ==
  ASSUME NEW V, NEW S, NEW s \in Seq(V), \A i \in 1..Len(s) : s[i] \in S
  PROVE  Without(S, s) = <<>>
<1> DEFINE w == Without(S, s)
<1>1. w \in Seq(V) /\ ToSet(w) = ToSet(s) \ S
  BY WithoutKeeps
<1>2. ToSet(s) \subseteq S
  BY DEF ToSet
<1> HIDE DEF w
<1>3. \A i \in 1..Len(w) : w[i] \in ToSet(w)
  BY <1>1 DEF ToSet
<1>4. Len(w) = 0
  BY <1>1, <1>2, <1>3
<1> QED BY <1>1, <1>4 DEF w

--------------------------------------------------------------------------------
(* Where the next of some characters is.                                    *)

LEMMA UntilIs ==
  ASSUME NEW V, NEW line \in Seq(V), NEW ends, NEW i \in 1..(Len(line) + 1),
         NEW p \in i..(Len(line) + 1),
         \A j \in i..(p - 1) : line[j] \notin ends,
         p = Len(line) + 1 \/ line[p] \in ends
  PROVE  Until(line, i, ends) = p
<1> DEFINE n == Len(line)
           at == {j \in i..n : line[j] \in ends}
<1>1. n \in Nat /\ i \in 1..(n + 1) /\ p \in i..(n + 1)
  OBVIOUS
<1>2. \A j \in at : p <= j /\ j \in Int
  <2> HIDE DEF n
  <2> QED BY <1>1
<1>3. CASE p = n + 1
  <2>1. at = {}
    <3> HIDE DEF n
    <3> QED BY <1>1, <1>2, <1>3
  <2> QED BY <1>3, <2>1 DEF Until
<1>4. CASE p # n + 1
  <2>1. p \in at
    <3> HIDE DEF n
    <3> QED BY <1>1, <1>4 DEF n
  <2> HIDE DEF at, n
  <2>2. (CHOOSE j \in at : \A k \in at : j <= k) = p
    <3>1. \E j \in at : \A k \in at : j <= k
      BY <1>2, <2>1
    <3> DEFINE q == CHOOSE j \in at : \A k \in at : j <= k
    <3>2. q \in at /\ \A k \in at : q <= k
      BY <3>1
    <3> HIDE DEF q
    <3>3. q = p
      BY <1>1, <1>2, <2>1, <3>2
    <3> QED BY <3>3 DEF q
  <2> QED BY <2>1, <2>2 DEF Until, at, n
<1> QED BY <1>3, <1>4

LEMMA UntilComes ==
  ASSUME NEW V, NEW line \in Seq(V), NEW ends, NEW i \in 1..(Len(line) + 1)
  PROVE  /\ Until(line, i, ends) \in i..(Len(line) + 1)
         /\ \A j \in i..(Until(line, i, ends) - 1) : line[j] \notin ends
         /\ \/ Until(line, i, ends) = Len(line) + 1
            \/ line[Until(line, i, ends)] \in ends
<1> DEFINE n == Len(line)
           at == {j \in i..n : line[j] \in ends}
<1>1. n \in Nat /\ i \in 1..(n + 1)
  OBVIOUS
<1>2. CASE at = {}
  <2>1. \A j \in i..n : line[j] \notin ends
    BY <1>2
  <2> HIDE DEF n
  <2>2. n + 1 \in i..(n + 1) /\ (n + 1) - 1 = n
    BY <1>1
  <2>3. Until(line, i, ends) = n + 1
    BY <1>2 DEF Until, n
  <2> QED BY <2>1, <2>2, <2>3 DEF n
<1>3. CASE at # {}
  <2> DEFINE a == [j \in 1..n |-> j]
             q == CHOOSE j \in at : \A k \in at : j <= k
  <2>1. at \in SUBSET (1..n) /\ a \in [1..n -> Int] /\ \A j \in 1..n : a[j] = j
    <3> HIDE DEF n
    <3> QED BY <1>1
  <2> HIDE DEF a
  <2>2. \E x \in at : \A y \in at : a[x] < a[y] \/ (a[x] = a[y] /\ x <= y)
    <3> HIDE DEF at, n
    <3> QED BY ONLY <1>1, <1>3, <2>1, FirstLeast
  <2>3. \E x \in at : \A y \in at : x <= y
    <3> HIDE DEF at, n
    <3>1. PICK x \in at : \A y \in at : a[x] < a[y] \/ (a[x] = a[y] /\ x <= y)
      BY <2>2
    <3>2. ASSUME NEW y \in at PROVE x <= y
      <4>1. x \in 1..n /\ y \in 1..n
        BY <2>1
      <4>2. a[x] = x /\ a[y] = y
        BY <2>1, <4>1
      <4> QED BY ONLY <1>1, <3>1, <4>1, <4>2, y \in at
    <3> QED BY <3>2
  <2>4. q \in at /\ \A k \in at : q <= k
    BY <2>3
  <2>5. Until(line, i, ends) = q
    BY <1>3, Zenon DEF Until
  <2> HIDE DEF q
  <2>6. q \in i..n /\ line[q] \in ends /\ \A j \in i..n : line[j] \in ends => q <= j
    BY <2>4
  <2> HIDE DEF at, n
  <2>7. q \in i..(n + 1) /\ \A j \in i..(q - 1) : line[j] \notin ends
    BY <1>1, <2>6
  <2> QED BY <2>5, <2>6, <2>7 DEF n
<1> QED BY <1>2, <1>3

(* A stretch m, behind a, without one of them, up to one of them or the end. *)
Stretches(line, a, m, ends) ==
  LET p == Until(line, Len(a) + 1, ends)
  IN  p = Len(a) + Len(m) + 1 /\ SubSeq(line, Len(a) + 1, p - 1) = m

EndsAt(q, ends) == q = <<>> \/ q[1] \in ends
AllIn(w, S) == \A i \in 1..Len(w) : w[i] \in S
Lacks(w, S) == \A i \in 1..Len(w) : w[i] \notin S

LEMMA Stretch ==
  ASSUME NEW V, NEW a \in Seq(V), NEW m \in Seq(V), NEW q \in Seq(V), NEW ends,
         Lacks(m, ends), EndsAt(q, ends), NEW line, line = a \o (m \o q)
  PROVE  Stretches(line, a, m, ends)
<1> DEFINE n == Len(a)
           l == Len(m)
           p == n + l + 1
<1>1. /\ n \in Nat /\ l \in Nat /\ line \in Seq(V) /\ Len(line) = n + l + Len(q)
      /\ Len(q) \in Nat /\ (q # <<>> => Len(q) > 0)
  OBVIOUS
<1>2. \A j \in 1..l : line[n + j] = m[j]
  OBVIOUS
<1>3. q # <<>> => line[p] = q[1]
  OBVIOUS
<1>4. SubSeq(line, n + 1, n + l) = m
  OBVIOUS
<1>8. \A j \in 1..Len(m) : m[j] \notin ends
  BY DEF Lacks
<1>9. q = <<>> \/ q[1] \in ends
  BY DEF EndsAt
<1>5. \A j \in (n + 1)..(p - 1) : line[j] \notin ends
  <2> SUFFICES ASSUME NEW j \in (n + 1)..(p - 1) PROVE line[j] \notin ends
    OBVIOUS
  <2> DEFINE k == j - n
  <2>1. k \in 1..l /\ n + k = j
    <3> HIDE DEF n, l
    <3> QED BY <1>1
  <2> HIDE DEF k
  <2> QED BY ONLY <1>2, <1>8, <2>1 DEF l
<1>6. Until(line, n + 1, ends) = p
  <2> HIDE DEF n, l
  <2>1. /\ n + 1 \in 1..(Len(line) + 1) /\ p \in (n + 1)..(Len(line) + 1)
        /\ q = <<>> => p = Len(line) + 1
    BY <1>1
  <2>2. p = Len(line) + 1 \/ line[p] \in ends
    BY <1>3, <1>9, <2>1
  <2> HIDE DEF p
  <2> QED BY <1>1, <1>5, <2>1, <2>2, UntilIs
<1>7. p - 1 = n + l
  BY <1>1
<1> QED BY <1>4, <1>6, <1>7 DEF Stretches

--------------------------------------------------------------------------------
(* A line of the configuration file.                                        *)

(* What a line begins with is behind the blanks, if it is not blank.        *)
LEMMA FirstOfIs ==
  ASSUME NEW V, NEW line \in Seq(V)
  PROVE  /\ (\A i \in 1..Len(line) : line[i] \in Blanks) => FirstOf(line) = 0
         /\ \A s \in 1..Len(line) :
              (\A i \in 1..(s - 1) : line[i] \in Blanks) /\ line[s] \notin Blanks
                => FirstOf(line) = s
<1> DEFINE n == Len(line)
           I == {i \in 1..n : line[i] \notin Blanks}
<1>1. FirstOf(line) = IF I # {} THEN Min(I) ELSE 0
  BY DEF FirstOf, SelectInSeq
<1>2. ASSUME \A i \in 1..n : line[i] \in Blanks PROVE FirstOf(line) = 0
  BY <1>1, <1>2
<1>3. ASSUME NEW s \in 1..n, \A i \in 1..(s - 1) : line[i] \in Blanks, line[s] \notin Blanks
      PROVE  FirstOf(line) = s
  <2>0. n \in Nat
    OBVIOUS
  <2>1. s \in I /\ \A y \in I : s <= y /\ y \in Nat
    <3> HIDE DEF n
    <3> QED BY <2>0, <1>3
  <2> HIDE DEF I, n
  <2>2. \A x \in I : (\A y \in I : x <= y) => x = s
    BY <2>1
  <2>3. (CHOOSE x \in I : \A y \in I : x <= y) = s
    BY <2>1, <2>2
  <2> QED BY <1>1, <2>1, <2>3 DEF Min
<1> QED BY <1>2, <1>3

LEMMA BeginsBehind ==
  ASSUME NEW V, NEW b \in Seq(V), NEW q \in Seq(V), q # <<>>,
         \A i \in 1..Len(b) : b[i] \in Blanks, q[1] \notin Blanks
  PROVE  FirstOf(b \o q) = Len(b) + 1 /\ (b \o q)[Len(b) + 1] = q[1]
<1> DEFINE line == b \o q
           s == Len(b) + 1
<1>1. line \in Seq(V) /\ s \in 1..Len(line) /\ line[s] = q[1]
  OBVIOUS
<1>2. \A i \in 1..(s - 1) : line[i] \in Blanks
  OBVIOUS
<1> HIDE DEF line, s
<1>3. FirstOf(line) = s
  BY <1>1, <1>2, FirstOfIs
<1> QED BY <1>1, <1>3 DEF line, s

(* The characters of a line, with those of the sections there are.          *)
Symbols == Chars \cup {"DEFAULT"}
Maps == UNION {[D -> Seq(Symbols)] : D \in SUBSET (Seq(Symbols) \X Seq(Symbols))}
Read == [section : Seq(Symbols), config : Maps]

LEMMA PartOf ==
  ASSUME NEW V, NEW s \in Seq(V), NEW i \in Nat \ {0}, NEW k \in Nat, k <= Len(s) + 1
  PROVE  SubSeq(s, i, k - 1) \in Seq(V)
<1> DEFINE j == k - 1
<1>1. i \in Int /\ j \in Int /\ \A m \in i..j : m \in 1..Len(s)
  OBVIOUS
<1> HIDE DEF j
<1>2. \A m \in i..j : s[m] \in V
  BY <1>1
<1>3. SubSeq(s, i, j) \in Seq(V)
  BY ONLY <1>1, <1>2, SubSeqProperties
<1> QED BY <1>3 DEF j

LEMMA PartsOfLine ==
  ASSUME NEW line \in Seq(Symbols), NEW s \in 1..(Len(line) + 1), NEW g \in Symbols
  PROVE  /\ s <= Len(line) => Section(line, s) \in Seq(Symbols)
         /\ KeyOf(line, s) \in Seq(Symbols)
         /\ s + 1 <= Len(line) + 1 =>
              Until(line, s + 1, {"="}) \in (s + 1)..(Len(line) + 1)
         /\ \A from \in 1..(Len(line) + 2) : ValueOf(line, from, g) \in Seq(Symbols)
<1> DEFINE n == Len(line)
<1>0. n \in Nat /\ "NUL" \in Symbols
  <2>1. "NUL" \in Symbols
    BY Zenon DEF Symbols, Chars
  <2> QED BY <2>1
<1>1. \A i \in 1..n + 2 : CharAt(line, i, g) \in Symbols /\ CharAt(line, i, "NUL") \in Symbols
  BY <1>0 DEF CharAt
<1>2. ASSUME NEW i \in 1..n + 1, NEW ends
      PROVE  Until(line, i, ends) \in i..(n + 1)
  BY UntilComes
<1>3. ASSUME NEW i \in 1..n + 3, NEW ends
      PROVE  SubSeq(line, i, Until(line, i, ends) - 1) \in Seq(Symbols)
  <2> DEFINE u == Until(line, i, ends)
  <2>1. CASE i \in 1..n + 1
    <3>1. u \in i..(n + 1)
      BY <1>2, <2>1
    <3> HIDE DEF u
    <3>2. SubSeq(line, i, u - 1) \in Seq(Symbols)
      BY <1>0, <3>1, PartOf
    <3> QED BY <3>2 DEF u
  <2>2. CASE i \notin 1..n + 1
    <3>1. {j \in i..n : line[j] \in ends} = {}
      BY <1>0, <2>2
    <3>2. u = n + 1
      BY <3>1 DEF Until
    <3> HIDE DEF u
    <3>3. SubSeq(line, i, u - 1) \in Seq(Symbols)
      BY <1>0, <2>2, <3>2, PartOf
    <3> QED BY <3>3 DEF u
  <2> QED BY <2>1, <2>2
<1>4. ASSUME NEW i \in 1..n + 2, NEW ends, NEW S, NEW c \in Symbols
      PROVE  Without(S, <<c>> \o SubSeq(line, i + 1, Until(line, i + 1, ends) - 1))
               \in Seq(Symbols)
  <2> DEFINE w == SubSeq(line, i + 1, Until(line, i + 1, ends) - 1)
  <2>1. i + 1 \in 1..n + 3
    BY <1>0
  <2>2. w \in Seq(Symbols)
    BY <1>3, <2>1
  <2> HIDE DEF w
  <2>3. <<c>> \o w \in Seq(Symbols)
    BY <2>2
  <2>4. Without(S, <<c>> \o w) \in Seq(Symbols)
    BY <2>3, WithoutKeeps
  <2> QED BY <2>4 DEF w
<1> HIDE DEF n
<1>5. s \in 1..n + 2 /\ s + 1 \in 1..n + 3 /\ (s + 1 <= n + 1 => s + 1 \in 1..n + 1)
  BY <1>0 DEF n
<1>6. KeyOf(line, s) \in Seq(Symbols)
  BY <1>1, <1>4, <1>5 DEF KeyOf
<1>7. Section(line, s) \in Seq(Symbols)
  BY <1>3, <1>5 DEF Section
<1>8. ASSUME NEW from \in 1..n + 2 PROVE ValueOf(line, from, g) \in Seq(Symbols)
  <2> DEFINE w == Without(Blanks \cup {"=", "\r"}, <<CharAt(line, from, g)>>
                            \o SubSeq(line, from + 1, Until(line, from + 1, EndsValue) - 1))
  <2>1. w \in Seq(Symbols)
    BY <1>1, <1>4
  <2>2. ValueOf(line, from, g) = IF CharAt(line, from, g) \in EndsValue THEN <<>> ELSE w
    BY Zenon DEF ValueOf
  <2> HIDE DEF w
  <2> QED BY <2>1, <2>2
<1> QED BY <1>2, <1>5, <1>6, <1>7, <1>8 DEF n

LEMMA FirstOfComes ==
  ASSUME NEW V, NEW line \in Seq(V)
  PROVE  FirstOf(line) \in 0..Len(line)
<1> DEFINE ends == V \ Blanks
           n == Len(line)
           s == Until(line, 1, ends)
<1>1. n \in Nat /\ \A i \in 1..n : line[i] \in V
  OBVIOUS
<1>2. /\ s \in 1..(n + 1) /\ \A j \in 1..(s - 1) : line[j] \notin ends
      /\ s = n + 1 \/ line[s] \in ends
  <2>1. 1 \in 1..(n + 1)
    BY <1>1
  <2> QED BY <2>1, UntilComes
<1> HIDE DEF s
<1>3. CASE s = n + 1
  <2>1. \A i \in 1..n : line[i] \in Blanks
    <3> HIDE DEF n
    <3> QED BY <1>1, <1>2, <1>3
  <2>2. FirstOf(line) = 0
    BY <2>1, FirstOfIs
  <2> QED BY <2>2
<1>4. CASE s # n + 1
  <2>1. s \in 1..n /\ (\A i \in 1..(s - 1) : line[i] \in Blanks) /\ line[s] \notin Blanks
    <3> HIDE DEF n
    <3> QED BY <1>1, <1>2, <1>4
  <2>2. FirstOf(line) = s
    BY <2>1, FirstOfIs
  <2> QED BY <2>1, <2>2
<1> QED BY <1>3, <1>4

LEMMA WithKeeps ==
  ASSUME NEW m \in Maps, NEW k \in Seq(Symbols) \X Seq(Symbols), NEW v \in Seq(Symbols)
  PROVE  /\ With(m, k, v) \in Maps /\ DOMAIN With(m, k, v) = DOMAIN m \cup {k}
         /\ With(m, k, v)[k] = v
<1>1. PICK D \in SUBSET (Seq(Symbols) \X Seq(Symbols)) : m \in [D -> Seq(Symbols)]
  BY DEF Maps
<1>2. D \cup {k} \in SUBSET (Seq(Symbols) \X Seq(Symbols)) /\ DOMAIN m = D
  BY <1>1
<1>3. With(m, k, v) \in [D \cup {k} -> Seq(Symbols)]
  BY <1>1, <1>2 DEF With
<1>4. With(m, k, v) \in Maps
  BY <1>2, <1>3 DEF Maps
<1> QED BY <1>2, <1>4 DEF With

(* What a line says: nothing, the section from now on, or a setting.        *)
Says(r, line, g, new) ==
  LET first == FirstOf(line)
      s == IF first = 0 THEN Len(line) + 1 ELSE first
      key == KeyOf(line, s)
      value == ValueOf(line, IF s > Len(line) THEN s + 1 ELSE Until(line, s + 1, {"="}), g)
  IN  /\ first # 0 /\ line[s] = "#" => new = r
      /\ first # 0 /\ line[s] = "[" =>
           new.section = Section(line, s) /\ new.config = r.config
      /\ ~(first # 0 /\ line[s] \in {"#", "["}) =>
           /\ new.section = r.section
           /\ IF Len(line) > 2 /\ key # <<>> /\ value # <<>>
              THEN new.config = With(r.config, <<r.section, key>>, value)
              ELSE new.config = r.config

LEMMA ParseLineReads ==
  ASSUME NEW r \in Read, NEW line \in Seq(Symbols), NEW g \in Symbols
  PROVE  ParseLine(r, line, g) \in Read /\ Says(r, line, g, ParseLine(r, line, g))
<1> DEFINE first == FirstOf(line)
           n == Len(line)
           s == IF first = 0 THEN n + 1 ELSE first
           from == IF s > n THEN s + 1 ELSE Until(line, s + 1, {"="})
           key == KeyOf(line, s)
           value == ValueOf(line, from, g)
           pair == <<r.section, key>>
           new == ParseLine(r, line, g)
           named == [r EXCEPT !.section = Section(line, s)]
           set == [r EXCEPT !.config = With(r.config, pair, value)]
<1>1. n \in Nat /\ first \in 0..n /\ s \in 1..(n + 1)
  BY FirstOfComes
<1>2. new = IF first # 0 /\ line[s] = "#" THEN r
            ELSE IF first # 0 /\ line[s] = "[" THEN named
            ELSE IF n > 2 /\ key # <<>> /\ value # <<>> THEN set ELSE r
  BY Zenon DEF ParseLine
<1> HIDE DEF first, new
<1>3. /\ s <= n => Section(line, s) \in Seq(Symbols)
      /\ key \in Seq(Symbols)
      /\ s + 1 <= n + 1 => Until(line, s + 1, {"="}) \in (s + 1)..(n + 1)
      /\ \A i \in 1..(n + 2) : ValueOf(line, i, g) \in Seq(Symbols)
  <2> HIDE DEF s
  <2> QED BY <1>1, PartsOfLine
<1>4. from \in 1..(n + 2)
  <2> HIDE DEF s, n
  <2> QED BY <1>1, <1>3
<1>5. value \in Seq(Symbols)
  BY <1>3, <1>4
<1>6. r.section \in Seq(Symbols) /\ r.config \in Maps
  BY DEF Read
<1> HIDE DEF value, key, from
<1>7. pair \in Seq(Symbols) \X Seq(Symbols)
  BY <1>3, <1>6
<1>8. set \in Read /\ set.section = r.section /\ set.config = With(r.config, pair, value)
  <2> HIDE DEF pair
  <2>1. With(r.config, pair, value) \in Maps
    BY <1>5, <1>6, <1>7, WithKeeps
  <2> QED BY <2>1 DEF Read
<1>9. s <= n => /\ named \in Read /\ named.section = Section(line, s)
                /\ named.config = r.config
  <2> HIDE DEF s
  <2> QED BY <1>3 DEF Read
<1>10. first # 0 => s <= n
  BY <1>1
<1> HIDE DEF set, named, pair, n, s
<1>11. new \in Read
  BY <1>2, <1>8, <1>9, <1>10
<1>12. /\ first # 0 /\ line[s] = "#" => new = r
       /\ first # 0 /\ line[s] = "[" => new.section = Section(line, s) /\ new.config = r.config
       /\ ~(first # 0 /\ line[s] \in {"#", "["}) =>
            /\ new.section = r.section
            /\ IF n > 2 /\ key # <<>> /\ value # <<>>
               THEN new.config = With(r.config, pair, value)
               ELSE new.config = r.config
  BY ONLY <1>2, <1>8, <1>9, <1>10
<1> QED BY <1>11, <1>12, Zenon DEF Says, new, first, s, n, key, value, pair, from

(* A line that says nothing sets at most what nobody asks for.              *)
LEMMA NothingSaid ==
  ASSUME NEW r \in Read, NEW line, SaysNothing(line), NEW g \in Symbols, NEW new \in Read,
         Says(r, line, g, new)
  PROVE  /\ new.section = r.section
         /\ \A c \in DOMAIN new.config : c \in DOMAIN r.config \/ Contains(c[2], "NUL")
<1> DEFINE n == Len(line)
           first == FirstOf(line)
           s == IF first = 0 THEN n + 1 ELSE first
           from == IF s > n THEN s + 1 ELSE Until(line, s + 1, {"="})
           key == KeyOf(line, s)
           value == ValueOf(line, from, g)
           pair == <<r.section, key>>
<1>1. line \in Seq(Symbols) /\ n \in Nat /\ DOMAIN line = 1..n
  <2>1. line \in Seq(Chars)
    BY DEF SaysNothing
  <2>2. line \in Seq(Symbols)
    BY <2>1 DEF Symbols
  <2> QED BY <2>2
<1>2. /\ first # 0 /\ line[s] = "#" => new = r
      /\ ~(first # 0 /\ line[s] \in {"#", "["}) =>
           /\ new.section = r.section
           /\ IF n > 2 /\ key # <<>> /\ value # <<>>
              THEN new.config = With(r.config, pair, value)
              ELSE new.config = r.config
  BY Zenon DEF Says
<1>3. DOMAIN With(r.config, pair, value) = DOMAIN r.config \cup {pair}
  BY DEF With
<1>4. CASE \A i \in 1..n : line[i] \in Blanks
  <2>1. first = 0
    BY <1>1, <1>4, FirstOfIs
  <2>2. s = n + 1
    BY <2>1
  <2>3. key = <<"NUL">>
    <3> DEFINE S == Blanks \cup {"\r"}
               u == Until(line, n + 2, {"="})
    <3>1. u = n + 1
      <4>1. {j \in (n + 2)..n : line[j] \in {"="}} = {}
        BY <1>1
      <4> QED BY <4>1 DEF Until
    <3>2. SubSeq(line, n + 2, u - 1) = <<>>
      <4> HIDE DEF u, n
      <4>1. n + 2 \in Int /\ u - 1 \in Int /\ u - 1 < n + 2
        BY <1>1, <3>1
      <4> QED BY <4>1, SubSeqEmpty
    <3>3. CharAt(line, n + 1, "NUL") = "NUL"
      BY <1>1 DEF CharAt
    <3>4. s + 1 = n + 2
      BY <1>1, <2>2
    <3>5. key = Without(S, <<"NUL">> \o <<>>)
      BY <2>2, <3>2, <3>3, <3>4 DEF KeyOf
    <3>6. Without(S, <<"NUL">>) = <<"NUL">>
      <4> DEFINE w == <<"NUL">>
      <4>1. w \in Seq({"NUL"}) /\ Len(w) = 1 /\ w[1] = "NUL"
        OBVIOUS
      <4>2. "NUL" \notin S
        BY DEF Blanks
      <4> HIDE DEF w, S
      <4>3. \A i \in 1..Len(w) : w[i] \notin S
        BY <4>1, <4>2
      <4>4. Without(S, w) = w
        BY <4>1, <4>3, WithoutNone
      <4> QED BY <4>4 DEF w
    <3>7. <<"NUL">> \o <<>> = <<"NUL">>
      OBVIOUS
    <3> HIDE DEF key
    <3> QED BY <3>5, <3>6, <3>7
  <2> HIDE DEF key, value, s, first, n
  <2>4. Contains(pair[2], "NUL")
    BY <2>3 DEF Contains
  <2> HIDE DEF pair
  <2> QED BY <1>2, <1>3, <2>1, <2>4
<1>5. CASE ~\A i \in 1..n : line[i] \in Blanks
  <2>1. PICK k \in 1..n :
          /\ \A i \in 1..(k - 1) : line[i] \in Blanks
          /\ line[k] \notin Blanks \cup {"["}
          /\ \/ line[k] = "#" \/ n <= 2
             \/ \E e \in (k + 1)..n :
                  /\ line[e] = "=" /\ \A i \in (k + 1)..(e - 1) : line[i] # "="
                  /\ \A i \in (e + 1)..n :
                       \/ line[i] \in Blanks \cup {"=", "\r"}
                       \/ \E j \in (e + 1)..i : line[j] \in EndsValue
    BY <1>1, <1>5 DEF SaysNothing
  <2>2. first = k /\ s = k /\ k # 0
    <3>1. first = k
      BY <1>1, <2>1, FirstOfIs
    <3> QED BY <2>1, <3>1
  <2>3. CASE line[k] = "#"
    <3> HIDE DEF first, s, n, key, value, pair
    <3> QED BY <1>2, <2>2, <2>3
  <2>4. CASE line[k] # "#" /\ n <= 2
    <3>1. ~(n > 2)
      BY <1>1, <2>4
    <3> HIDE DEF first, s, n, key, value, pair
    <3> QED BY <1>2, <2>1, <2>2, <2>4, <3>1
  <2>5. CASE line[k] # "#" /\ ~(n <= 2)
    <3>1. PICK e \in (k + 1)..n :
            /\ line[e] = "=" /\ \A i \in (k + 1)..(e - 1) : line[i] # "="
            /\ \A i \in (e + 1)..n :
                 \/ line[i] \in Blanks \cup {"=", "\r"}
                 \/ \E j \in (e + 1)..i : line[j] \in EndsValue
      BY <2>1, <2>5
    <3>2. from = e
      <4>1. Until(line, k + 1, {"="}) = e
        <5>1. /\ k + 1 \in 1..(n + 1) /\ e \in (k + 1)..(n + 1)
              /\ \A j \in (k + 1)..(e - 1) : line[j] \notin {"="}
              /\ line[e] \in {"="}
          BY <1>1, <3>1
        <5> QED BY <1>1, <5>1, UntilIs
      <4> QED BY <1>1, <2>2, <4>1
    <3>3. value = <<>>
      <4> DEFINE S == Blanks \cup {"=", "\r"}
                 u == Until(line, e + 1, EndsValue)
                 w == SubSeq(line, e + 1, u - 1)
                 v == <<"=">> \o w
      <4>1. u \in (e + 1)..(n + 1) /\ \A j \in (e + 1)..(u - 1) : line[j] \notin EndsValue
        <5>1. e + 1 \in 1..(n + 1)
          BY <1>1, <3>1
        <5> QED BY <1>1, <5>1, UntilComes
      <4>2. CharAt(line, e, g) = "="
        BY <1>1, <3>1 DEF CharAt
      <4>3. value = Without(S, v)
        BY <3>2, <4>2, Zenon DEF ValueOf, EndsValue
      <4> HIDE DEF u, n, value
      <4>4. \A i \in (e + 1)..(u - 1) : line[i] \in S
        BY <1>1, <3>1, <4>1
      <4>5. /\ e + 1 \in Int /\ u - 1 \in Int /\ e \in Nat /\ u \in Nat /\ e + 1 <= u
            /\ \A i \in (e + 1)..(u - 1) : line[i] \in Symbols
        BY <1>1, <3>1, <4>1
      <4> DEFINE z == u - 1
                 a == e + 1
      <4>6. a \in Int /\ z \in Int /\ \A i \in a..z : line[i] \in S
        BY <4>4, <4>5
      <4> HIDE DEF z, a, S
      <4>7. SubSeq(line, a, z) \in Seq(S)
        BY <4>6, SubSeqProperties
      <4>8. w \in Seq(S) /\ "=" \in S
        BY <4>7 DEF z, a, S
      <4> HIDE DEF w
      <4>9. v \in Seq(S) /\ \A i \in 1..Len(v) : v[i] \in S
        BY <4>8
      <4> HIDE DEF v
      <4> QED BY <4>3, <4>9, WithoutAll
    <3> HIDE DEF first, s, n, key, value, pair
    <3> QED BY <1>2, <2>1, <2>2, <2>5, <3>3
  <2> QED BY <2>3, <2>4, <2>5
<1> QED BY <1>4, <1>5

(* A line with a setting is taken for it.                                   *)
Special == Blanks \cup {"\r", "=", "#", ";", "[", "]"}
Passed == Blanks \cup {"\r"}
One(c) == <<c>>

LEMMA Cat ==
  ASSUME NEW V, NEW v \in Seq(V), NEW w \in Seq(V)
  PROVE  /\ v \o w \in Seq(V) /\ Len(v \o w) = Len(v) + Len(w)
         /\ Len(v) \in Nat /\ Len(w) \in Nat
OBVIOUS

LEMMA CatElements ==
  ASSUME NEW V, NEW v \in Seq(V), NEW w \in Seq(V)
  PROVE  /\ \A i \in 1..Len(v) : (v \o w)[i] = v[i]
         /\ \A i \in 1..Len(w) : (v \o w)[Len(v) + i] = w[i]
OBVIOUS

LEMMA HoldsConcat ==
  ASSUME NEW V, NEW S, NEW v \in Seq(V), NEW w \in Seq(V)
  PROVE  /\ AllIn(v, S) /\ AllIn(w, S) => AllIn(v \o w, S)
         /\ Lacks(v, S) /\ Lacks(w, S) => Lacks(v \o w, S)
<1> DEFINE z == v \o w
           n == Len(v)
           l == Len(w)
<1>1. z \in Seq(V) /\ n \in Nat /\ l \in Nat /\ Len(z) = n + l
  BY Cat
<1>2. (\A i \in 1..n : z[i] = v[i]) /\ \A i \in 1..l : z[n + i] = w[i]
  BY CatElements
<1> HIDE DEF z, n, l
<1>3. ASSUME NEW i \in 1..Len(z)
      PROVE  (i \in 1..n /\ z[i] = v[i]) \/ \E j \in 1..l : z[i] = w[j]
  <2>1. CASE i \in 1..n
    BY ONLY <1>2, <2>1
  <2>2. CASE i \notin 1..n
    <3> DEFINE j == i - n
    <3>1. j \in 1..l /\ n + j = i
      BY <1>1, <2>2
    <3> HIDE DEF j
    <3>2. z[i] = w[j]
      BY ONLY <1>2, <3>1
    <3> QED BY <3>1, <3>2
  <2> QED BY <2>1, <2>2
<1>4. AllIn(v, S) /\ AllIn(w, S) => AllIn(z, S)
  BY ONLY <1>3 DEF AllIn, n, l
<1>5. Lacks(v, S) /\ Lacks(w, S) => Lacks(z, S)
  BY ONLY <1>3 DEF Lacks, n, l
<1> QED BY <1>4, <1>5 DEF z

(* Margin, name, margin, =, margin, value, and what ends the line: tail, a   *)
(* margin, and q, a comment.                                                *)
IsSetting(line, b, h, t, w, tail, q) ==
  /\ b \in Seq(Symbols) /\ h \in Symbols /\ t \in Seq(Symbols) /\ w \in Seq(Symbols)
  /\ tail \in Seq(Symbols) /\ q \in Seq(Symbols)
  /\ AllIn(b, Blanks) /\ AllIn(tail, Passed) /\ w # <<>>
  /\ Lacks(One(h) \o t, Special) /\ Lacks(w, Special)
  /\ EndsAt(q, EndsValue)
  /\ line = ((b \o One(h)) \o (t \o b)) \o (One("=") \o ((b \o (w \o tail)) \o q))

LEMMA Assoc ==
  ASSUME NEW V, NEW u \in Seq(V), NEW v \in Seq(V), NEW w \in Seq(V)
  PROVE  (u \o v) \o w = u \o (v \o w)
OBVIOUS

LEMMA OneIs ==
  ASSUME NEW V, NEW c \in V
  PROVE  One(c) \in Seq(V) /\ One(c)[1] = c /\ Len(One(c)) = 1 /\ One(c) # <<>>
BY DEF One

(* How such a line is made of its parts, whatever they are.                  *)
Shape(V, b, one, t, eq, w, tail, q, line) ==
  LET a1 == b \o one
      m1 == t \o b
      m2 == b \o (w \o tail)
      mq == m2 \o q
      q1 == eq \o mq
      a2 == (a1 \o m1) \o eq
  IN  /\ a1 \in Seq(V) /\ m1 \in Seq(V) /\ m2 \in Seq(V) /\ mq \in Seq(V)
      /\ q1 \in Seq(V) /\ a2 \in Seq(V) /\ m1 \o q1 \in Seq(V) /\ line \in Seq(V)
      /\ Len(a1) = Len(b) + Len(one) /\ Len(m1) = Len(t) + Len(b)
      /\ Len(m2) = Len(b) + (Len(w) + Len(tail))
      /\ Len(a2) = Len(a1) + Len(m1) + Len(eq)
      /\ Len(line) = Len(a2) + (Len(m2) + Len(q))
      /\ line = a1 \o (m1 \o q1) /\ line = b \o (one \o (m1 \o q1))
      /\ line = a2 \o (m2 \o q)
LEMMA SettingShape ==
  ASSUME NEW V, NEW b, NEW one, NEW t, NEW eq, NEW w, NEW tail, NEW q, NEW line,
         /\ b \in Seq(V) /\ one \in Seq(V) /\ t \in Seq(V) /\ eq \in Seq(V)
         /\ w \in Seq(V) /\ tail \in Seq(V) /\ q \in Seq(V),
         line = ((b \o one) \o (t \o b)) \o (eq \o ((b \o (w \o tail)) \o q))
  PROVE  Shape(V, b, one, t, eq, w, tail, q, line)
<1> DEFINE a1 == b \o one
           m1 == t \o b
           wt == w \o tail
           m2 == b \o wt
           mq == m2 \o q
           q1 == eq \o mq
           am == a1 \o m1
           a2 == am \o eq
           mr == m1 \o q1
           x == one \o mr
<1>1. a1 \in Seq(V) /\ Len(a1) = Len(b) + Len(one)
  BY Cat
<1>2. m1 \in Seq(V) /\ Len(m1) = Len(t) + Len(b)
  BY Cat
<1>3. wt \in Seq(V) /\ Len(wt) = Len(w) + Len(tail)
  BY Cat
<1> HIDE DEF a1, m1, wt
<1>4. m2 \in Seq(V) /\ Len(m2) = Len(b) + Len(wt)
  BY ONLY <1>3, b \in Seq(V), Cat
<1> HIDE DEF m2
<1>5. mq \in Seq(V) /\ Len(mq) = Len(m2) + Len(q)
  BY ONLY <1>4, q \in Seq(V), Cat
<1> HIDE DEF mq
<1>6. q1 \in Seq(V) /\ Len(q1) = Len(eq) + Len(mq)
  BY ONLY <1>5, eq \in Seq(V), Cat
<1>7. am \in Seq(V) /\ Len(am) = Len(a1) + Len(m1)
  BY ONLY <1>1, <1>2, Cat
<1>8. line = am \o q1
  BY Zenon DEF a1, am, q1, m1, m2, mq, wt
<1> HIDE DEF am
<1>9. a2 \in Seq(V) /\ Len(a2) = Len(am) + Len(eq)
  BY ONLY <1>7, eq \in Seq(V), Cat
<1>10. am \o (eq \o mq) = (am \o eq) \o mq
  <2>1. am \in Seq(V) /\ mq \in Seq(V)
    BY <1>5, <1>7
  <2> QED BY ONLY <2>1, eq \in Seq(V), Assoc, SMT
<1>11. line = a2 \o mq
  BY ONLY <1>8, <1>10
<1> HIDE DEF q1, a2
<1>12. mr \in Seq(V)
  BY ONLY <1>2, <1>6, Cat
<1>13. line = a1 \o mr
  <2>1. (a1 \o m1) \o q1 = a1 \o (m1 \o q1)
    <3>1. a1 \in Seq(V) /\ m1 \in Seq(V) /\ q1 \in Seq(V)
      BY <1>1, <1>2, <1>6
    <3> QED BY ONLY <3>1, Assoc, SMT
  <2> QED BY ONLY <1>8, <2>1 DEF am
<1> HIDE DEF mr
<1>14. line = b \o x
  <2>1. (b \o one) \o mr = b \o (one \o mr)
    BY ONLY <1>12, b \in Seq(V), one \in Seq(V)
  <2> QED BY ONLY <1>13, <2>1 DEF a1
<1>15. line \in Seq(V) /\ Len(line) = Len(a2) + Len(mq)
  BY ONLY <1>5, <1>9, <1>11, Cat
<1>16. /\ Len(m2) = Len(b) + (Len(w) + Len(tail)) /\ Len(a2) = Len(a1) + Len(m1) + Len(eq)
       /\ Len(line) = Len(a2) + (Len(m2) + Len(q))
  BY ONLY <1>3, <1>4, <1>5, <1>7, <1>9, <1>15
<1> QED BY <1>1, <1>2, <1>4, <1>5, <1>6, <1>9, <1>11, <1>12, <1>13, <1>14, <1>15, <1>16,
           Zenon DEF Shape, a1, m1, wt, m2, mq, q1, am, a2, mr

(* What parts of such a line are without what is passed over.               *)
Parts(b, h, t, w, tail, q) ==
  /\ b \in Seq(Symbols) /\ h \in Symbols /\ t \in Seq(Symbols)
  /\ w \in Seq(Symbols) /\ tail \in Seq(Symbols) /\ q \in Seq(Symbols)
  /\ One(h) \in Seq(Symbols) /\ One("=") \in Seq(Symbols)
  /\ h \notin Blanks /\ h \notin {"#", "["}
  /\ Lacks(t \o b, {"="}) /\ Lacks(b \o (w \o tail), EndsValue)
  /\ Without(Blanks \cup {"\r"}, One(h) \o (t \o b)) = One(h) \o t
  /\ Without(Blanks \cup {"=", "\r"}, One("=") \o (b \o (w \o tail))) = w

LEMMA PartsOfSetting ==
  ASSUME NEW b, NEW h, NEW t, NEW w, NEW tail, NEW q, NEW line,
         IsSetting(line, b, h, t, w, tail, q)
  PROVE  Parts(b, h, t, w, tail, q)
<1> DEFINE one == One(h)
           eq == One("=")
           k == one \o t
           wt == w \o tail
           m == b \o wt
           P == Blanks \cup {"\r"}
           Q == Blanks \cup {"=", "\r"}
<1>1. /\ b \in Seq(Symbols) /\ h \in Symbols /\ t \in Seq(Symbols)
      /\ w \in Seq(Symbols) /\ tail \in Seq(Symbols) /\ q \in Seq(Symbols)
  BY DEF IsSetting
<1>2. "=" \in Symbols
  BY Zenon DEF Symbols, Chars
<1>3. one \in Seq(Symbols) /\ one[1] = h /\ Len(one) = 1
  BY <1>1, OneIs
<1>4. eq \in Seq(Symbols) /\ eq[1] = "=" /\ Len(eq) = 1
  BY <1>2, OneIs
<1>5. AllIn(b, Blanks) /\ AllIn(tail, Passed) /\ Lacks(k, Special) /\ Lacks(w, Special)
  BY DEF IsSetting
<1> HIDE DEF one, eq
<1>6. k \in Seq(Symbols) /\ Len(k) = 1 + Len(t) /\ Len(t) \in Nat
  BY ONLY <1>1, <1>3, Cat
<1>7. k[1] = h /\ \A i \in 1..Len(t) : k[1 + i] = t[i]
  <2>1. one \in Seq(Symbols) /\ t \in Seq(Symbols)
    BY <1>1, <1>3
  <2>2. (\A i \in 1..Len(one) : k[i] = one[i]) /\ \A i \in 1..Len(t) : k[Len(one) + i] = t[i]
    BY ONLY <2>1, CatElements
  <2> HIDE DEF k
  <2> QED BY <1>3, <2>2
<1> HIDE DEF k
<1>8. h \notin Special /\ Lacks(t, Special)
  <2>1. 1 \in 1..Len(k) /\ \A i \in 1..Len(t) : 1 + i \in 1..Len(k)
    BY <1>6
  <2> QED BY ONLY <1>5, <1>7, <2>1 DEF Lacks
<1>9. h \notin Blanks /\ h \notin {"#", "["}
  BY <1>8, Zenon DEF Special
<1>10. Lacks(t \o b, {"="})
  <2>1. Lacks(t, {"="})
    BY ONLY <1>8, Zenon DEF Lacks, Special
  <2>2. Lacks(b, {"="})
    <3>1. \A c \in Blanks : c # "="
      BY DEF Blanks
    <3> QED BY ONLY <1>5, <3>1, Zenon DEF Lacks, AllIn
  <2> QED BY ONLY <1>1, <2>1, <2>2, HoldsConcat
<1>11. wt \in Seq(Symbols) /\ Lacks(wt, EndsValue)
  <2>1. Lacks(w, EndsValue)
    BY ONLY <1>5, Zenon DEF Lacks, Special, EndsValue
  <2>2. Lacks(tail, EndsValue)
    <3>1. \A c \in Passed : c \notin EndsValue
      BY DEF Passed, Blanks, EndsValue
    <3> QED BY ONLY <1>5, <3>1, Zenon DEF Lacks, AllIn
  <2> QED BY ONLY <1>1, <2>1, <2>2, Cat, HoldsConcat
<1>12. m \in Seq(Symbols) /\ Lacks(m, EndsValue)
  <2>1. Lacks(b, EndsValue)
    <3>1. \A c \in Blanks : c \notin EndsValue
      BY DEF Blanks, EndsValue
    <3> QED BY ONLY <1>5, <3>1, Zenon DEF Lacks, AllIn
  <2> HIDE DEF wt
  <2> QED BY ONLY <1>1, <1>11, <2>1, Cat, HoldsConcat
<1>13. Without(P, one \o (t \o b)) = k
  <2>1. one \o (t \o b) = k \o b
    <3>1. one \in Seq(Symbols) /\ t \in Seq(Symbols) /\ b \in Seq(Symbols)
      BY <1>1, <1>3
    <3>2. (one \o t) \o b = one \o (t \o b)
      BY ONLY <3>1, Assoc, SMT
    <3> QED BY ONLY <3>2 DEF k
  <2>2. Without(P, k \o b) = Without(P, k) \o Without(P, b)
    <3>1. k \in Seq(Symbols) /\ b \in Seq(Symbols)
      BY <1>1, <1>6
    <3> HIDE DEF P
    <3>2. Joins(P, k, b)
      BY ONLY <3>1, WithoutConcat, SMT
    <3> QED BY ONLY <3>2, Zenon DEF Joins
  <2>3. Without(P, k) = k
    <3>1. \A i \in 1..Len(k) : k[i] \notin P
      BY ONLY <1>5, Zenon DEF Lacks, Special
    <3> QED BY ONLY <1>6, <3>1, WithoutNone
  <2>4. Without(P, b) = <<>>
    <3>1. \A i \in 1..Len(b) : b[i] \in P
      BY ONLY <1>5, Zenon DEF AllIn
    <3> QED BY ONLY <1>1, <3>1, WithoutAll
  <2>5. k \o <<>> = k
    BY ONLY <1>6, ConcatEmptySeq
  <2> HIDE DEF P
  <2> QED BY ONLY <2>1, <2>2, <2>3, <2>4, <2>5
<1>14. Without(Q, eq \o m) = w
  <2>1. Without(Q, w) = w
    <3>1. \A i \in 1..Len(w) : w[i] \notin Q
      BY ONLY <1>5, Zenon DEF Lacks, Special
    <3> QED BY ONLY <1>1, <3>1, WithoutNone
  <2>2. Without(Q, b) = <<>>
    <3>1. \A i \in 1..Len(b) : b[i] \in Q
      BY ONLY <1>5, Zenon DEF AllIn
    <3> QED BY ONLY <1>1, <3>1, WithoutAll
  <2>3. Without(Q, tail) = <<>>
    <3>1. \A i \in 1..Len(tail) : tail[i] \in Q
      BY ONLY <1>5, Zenon DEF AllIn, Passed
    <3> QED BY ONLY <1>1, <3>1, WithoutAll
  <2>4. Without(Q, eq) = <<>>
    <3>1. "=" \in Q
      BY Zenon
    <3> HIDE DEF Q
    <3>2. \A i \in 1..Len(eq) : eq[i] \in Q
      BY ONLY <1>4, <3>1
    <3> QED BY ONLY <1>4, <3>2, WithoutAll
  <2> HIDE DEF Q
  <2>5. Without(Q, wt) = Without(Q, w) \o Without(Q, tail)
    <3>1. w \in Seq(Symbols) /\ tail \in Seq(Symbols)
      BY <1>1
    <3> QED BY ONLY <3>1, WithoutConcat, SMT DEF Joins, wt
  <2> HIDE DEF wt
  <2>6. Without(Q, m) = Without(Q, b) \o Without(Q, wt)
    <3>1. b \in Seq(Symbols) /\ wt \in Seq(Symbols)
      BY <1>1, <1>11
    <3> QED BY ONLY <3>1, WithoutConcat, SMT DEF Joins, m
  <2> HIDE DEF m
  <2>7. Without(Q, eq \o m) = Without(Q, eq) \o Without(Q, m)
    <3>1. eq \in Seq(Symbols) /\ m \in Seq(Symbols)
      BY <1>4, <1>12
    <3>2. Joins(Q, eq, m)
      BY ONLY <3>1, WithoutConcat, SMT
    <3> QED BY ONLY <3>2, Zenon DEF Joins
  <2>8. w \o <<>> = w /\ <<>> \o w = w
    BY ONLY <1>1, ConcatEmptySeq
  <2> QED BY ONLY <2>1, <2>2, <2>3, <2>4, <2>5, <2>6, <2>7, <2>8
<1> QED BY <1>1, <1>3, <1>4, <1>9, <1>10, <1>12, <1>13, <1>14, Zenon
           DEF Parts, one, eq, k, m, wt, P, Q

IsSet(r, new, k, w) ==
  new.section = r.section /\ new.config = With(r.config, <<r.section, k>>, w)

LEMMA SettingSaid ==
  ASSUME NEW r \in Read, NEW g \in Symbols, NEW new \in Read, NEW line,
         NEW b, NEW h, NEW t, NEW w, NEW tail, NEW q, IsSetting(line, b, h, t, w, tail, q),
         Says(r, line, g, new)
  PROVE  IsSet(r, new, One(h) \o t, w)
<1> DEFINE one == One(h)
           k == one \o t
           a1 == b \o one
           m1 == t \o b
           eq == One("=")
           m2 == b \o (w \o tail)
           q1 == eq \o (m2 \o q)
           a2 == (a1 \o m1) \o eq
           r1 == m1 \o q1
           n == Len(line)
           first == FirstOf(line)
           s == IF first = 0 THEN n + 1 ELSE first
           from == IF s > n THEN s + 1 ELSE Until(line, s + 1, {"="})
           key == KeyOf(line, s)
           value == ValueOf(line, from, g)
           pair == <<r.section, key>>
           e == Len(a1) + Len(m1) + 1
<1>1. /\ first # 0 /\ line[s] = "#" => new = r
      /\ ~(first # 0 /\ line[s] \in {"#", "["}) =>
           /\ new.section = r.section
           /\ IF n > 2 /\ key # <<>> /\ value # <<>>
              THEN new.config = With(r.config, pair, value)
              ELSE new.config = r.config
  BY Zenon DEF Says
<1>2. /\ b \in Seq(Symbols) /\ h \in Symbols /\ t \in Seq(Symbols)
      /\ w \in Seq(Symbols) /\ tail \in Seq(Symbols) /\ q \in Seq(Symbols)
      /\ one \in Seq(Symbols) /\ eq \in Seq(Symbols)
      /\ h \notin Blanks /\ h \notin {"#", "["}
      /\ Lacks(m1, {"="}) /\ Lacks(m2, EndsValue)
      /\ Without(Blanks \cup {"\r"}, one \o m1) = k
      /\ Without(Blanks \cup {"=", "\r"}, eq \o m2) = w
  <2>1. Parts(b, h, t, w, tail, q)
    BY PartsOfSetting
  <2> QED BY ONLY <2>1, Zenon DEF Parts, one, eq, k, m1, m2
<1>3. /\ AllIn(b, Blanks) /\ w # <<>>
      /\ EndsAt(q, EndsValue)
      /\ line = ((b \o one) \o (t \o b)) \o (eq \o ((b \o (w \o tail)) \o q))
  BY DEF IsSetting
<1>4. one[1] = h /\ Len(one) = 1 /\ one # <<>> /\ eq[1] = "=" /\ Len(eq) = 1 /\ eq # <<>>
  <2>1. "=" \in Symbols
    BY Zenon DEF Symbols, Chars
  <2> QED BY <1>2, <2>1, OneIs
<1> HIDE DEF one, eq
<1>5. /\ a1 \in Seq(Symbols) /\ m1 \in Seq(Symbols) /\ m2 \in Seq(Symbols)
      /\ q1 \in Seq(Symbols) /\ a2 \in Seq(Symbols) /\ r1 \in Seq(Symbols)
      /\ line \in Seq(Symbols) /\ m2 \o q \in Seq(Symbols)
      /\ Len(a1) = Len(b) + Len(one) /\ Len(m1) = Len(t) + Len(b)
      /\ Len(m2) = Len(b) + (Len(w) + Len(tail))
      /\ Len(a2) = Len(a1) + Len(m1) + Len(eq)
      /\ Len(line) = Len(a2) + (Len(m2) + Len(q))
      /\ line = a1 \o r1 /\ line = b \o (one \o r1) /\ line = a2 \o (m2 \o q)
  <2>1. Shape(Symbols, b, one, t, eq, w, tail, q, line)
    BY ONLY <1>2, <1>3, SettingShape, Zenon
  <2> QED BY ONLY <2>1, Zenon DEF Shape, r1, q1, a1, m1, m2, a2
<1> HIDE DEF k, a1, m1, m2, a2
<1>6. /\ Len(b) \in Nat /\ Len(t) \in Nat /\ Len(w) \in Nat /\ Len(w) > 0
      /\ Len(tail) \in Nat /\ Len(q) \in Nat
  BY ONLY <1>2, <1>3
<1>7. /\ n \in Nat /\ e \in Nat /\ Len(a2) = e /\ e <= n /\ n > 2 /\ Len(a1) = Len(b) + 1
      /\ Len(b) + 1 \in 1..n /\ e \in 1..n
  BY ONLY <1>4, <1>5, <1>6
<1>8. q1[1] = "="
  <2> DEFINE z == m2 \o q
  <2>1. eq \in Seq(Symbols) /\ z \in Seq(Symbols)
    BY <1>2, <1>5
  <2> HIDE DEF z
  <2>2. \A i \in 1..Len(eq) : (eq \o z)[i] = eq[i]
    BY ONLY <2>1, CatElements
  <2>3. (eq \o z)[1] = "="
    BY ONLY <1>4, <2>2
  <2> QED BY <2>3 DEF z
<1>9. line[e] = "="
  <2> DEFINE am == a1 \o m1
  <2>1. am \in Seq(Symbols) /\ Len(am) = Len(a1) + Len(m1)
    BY ONLY <1>5, Cat
  <2>2. a2 = am \o eq
    BY DEF a2
  <2> HIDE DEF am
  <2>3. \A i \in 1..Len(eq) : a2[Len(am) + i] = eq[i]
    <3>1. am \in Seq(Symbols) /\ eq \in Seq(Symbols)
      BY ONLY <1>2, <2>1
    <3>2. \A i \in 1..Len(eq) : (am \o eq)[Len(am) + i] = eq[i]
      BY ONLY <3>1, CatElements
    <3> QED BY ONLY <2>2, <3>2
  <2>4. a2[e] = "="
    BY ONLY <1>4, <2>1, <2>3 DEF e
  <2> DEFINE z == m2 \o q
  <2>5. a2 \in Seq(Symbols) /\ z \in Seq(Symbols) /\ line = a2 \o z
    BY <1>5
  <2> HIDE DEF z
  <2>6. \A i \in 1..Len(a2) : line[i] = a2[i]
    BY ONLY <2>5, CatElements
  <2> QED BY ONLY <1>7, <2>4, <2>6
<1>10. first = Len(b) + 1 /\ line[first] = h /\ first # 0 /\ s = first
  <2> DEFINE z == one \o r1
  <2>1. z \in Seq(Symbols) /\ Len(z) = Len(one) + Len(r1) /\ Len(r1) \in Nat
    BY ONLY <1>2, <1>5, Cat
  <2>2. z # <<>>
    BY <1>4, <2>1
  <2>3. z[1] = h
    <3> HIDE DEF r1
    <3>1. \A i \in 1..Len(one) : z[i] = one[i]
      BY ONLY <1>2, <1>5, CatElements
    <3> HIDE DEF z
    <3> QED BY ONLY <1>4, <3>1
  <2>4. line = b \o z
    BY <1>5
  <2> HIDE DEF z
  <2>5. FirstOf(line) = Len(b) + 1 /\ line[Len(b) + 1] = z[1]
    <3>1. \A i \in 1..Len(b) : b[i] \in Blanks
      BY <1>3 DEF AllIn
    <3> QED BY ONLY <1>2, <2>1, <2>2, <2>3, <2>4, <3>1, BeginsBehind
  <2>6. first = Len(b) + 1 /\ first # 0
    BY <1>6, <2>5
  <2> QED BY ONLY <2>3, <2>5, <2>6 DEF s, first
<1> HIDE DEF first, s, n, e
<1>11. s = Len(a1) /\ s \in Nat /\ s <= n /\ s \in 1..n
  BY ONLY <1>6, <1>7, <1>10
<1>12. Until(line, s + 1, {"="}) = e /\ SubSeq(line, s + 1, e - 1) = m1
  <2>1. line = a1 \o (m1 \o q1) /\ EndsAt(q1, {"="})
    BY <1>5, <1>8 DEF EndsAt
  <2>2. a1 \in Seq(Symbols) /\ m1 \in Seq(Symbols) /\ q1 \in Seq(Symbols) /\ Lacks(m1, {"="})
    BY <1>2, <1>5
  <2> HIDE DEF q1
  <2>3. Stretches(line, a1, m1, {"="})
    BY ONLY <2>1, <2>2, Stretch, Zenon
  <2>4. Until(line, Len(a1) + 1, {"="}) = e /\ SubSeq(line, Len(a1) + 1, e - 1) = m1
    BY ONLY <2>3, Zenon DEF Stretches, e
  <2> QED BY ONLY <1>11, <2>4
<1>13. key = k
  <2>1. CharAt(line, s, "NUL") = h
    <3>1. s <= Len(line) /\ line[s] = h
      BY <1>10, <1>11 DEF n
    <3> QED BY ONLY <3>1 DEF CharAt
  <2>2. key = Without(Blanks \cup {"\r"}, one \o m1)
    BY ONLY <1>12, <2>1, Zenon DEF KeyOf, one, One, key
  <2> QED BY <1>2, <2>2
<1>14. from = e
  <2>1. ~(s > n)
    BY ONLY <1>7, <1>11
  <2> QED BY <1>12, <2>1
<1>15. value = w
  <2>1. Stretches(line, a2, m2, EndsValue)
    <3>1. /\ a2 \in Seq(Symbols) /\ m2 \in Seq(Symbols) /\ q \in Seq(Symbols)
          /\ line = a2 \o (m2 \o q) /\ Lacks(m2, EndsValue) /\ EndsAt(q, EndsValue)
      BY <1>2, <1>3, <1>5
    <3> QED BY ONLY <3>1, Stretch, Zenon
  <2>2. SubSeq(line, e + 1, Until(line, e + 1, EndsValue) - 1) = m2
    BY ONLY <1>7, <2>1, Zenon DEF Stretches
  <2>3. CharAt(line, e, g) = "="
    <3>1. e <= Len(line) /\ line[e] = "="
      BY ONLY <1>7, <1>9 DEF n
    <3> QED BY ONLY <3>1 DEF CharAt
  <2>4. "=" \notin EndsValue
    BY DEF EndsValue
  <2>5. value = Without(Blanks \cup {"=", "\r"}, eq \o m2)
    BY ONLY <1>14, <2>2, <2>3, <2>4, Zenon DEF ValueOf, eq, One, value
  <2> QED BY <1>2, <2>5
<1>16. k # <<>>
  <2>1. k \in Seq(Symbols) /\ Len(k) = Len(one) + Len(t)
    BY ONLY <1>2, Cat DEF k
  <2> QED BY ONLY <1>4, <1>6, <2>1
<1> HIDE DEF key, value, pair
<1>17. pair = <<r.section, k>>
  BY <1>13 DEF pair
<1>18. line[s] \notin {"#", "["}
  BY <1>2, <1>10
<1>19. new.section = r.section /\ new.config = With(r.config, pair, value)
  BY ONLY <1>1, <1>3, <1>7, <1>13, <1>15, <1>16, <1>18
<1> QED BY <1>15, <1>17, <1>19 DEF k, one, IsSet

(* A line with a section is taken for it.                                   *)
IsHead(line, b, w, rest) ==
  /\ b \in Seq(Symbols) /\ w \in Seq(Symbols) /\ rest \in Seq(Symbols)
  /\ AllIn(b, Blanks) /\ Lacks(w, Special)
  /\ line = (b \o One("[")) \o (w \o (One("]") \o rest))

LEMMA IsHeadType ==
  ASSUME NEW line, NEW b, NEW w, NEW rest, IsHead(line, b, w, rest)
  PROVE  line \in Seq(Symbols)
<1> DEFINE open == One("[")
           close == One("]")
           a == b \o open
           q == close \o rest
           m == w \o q
<1>1. /\ b \in Seq(Symbols) /\ w \in Seq(Symbols) /\ rest \in Seq(Symbols)
      /\ line = a \o m
  BY DEF IsHead
<1>2. open \in Seq(Symbols) /\ close \in Seq(Symbols)
  <2>1. "[" \in Symbols /\ "]" \in Symbols
    BY Zenon DEF Symbols, Chars
  <2> QED BY ONLY <2>1, OneIs
<1> HIDE DEF open, close
<1>3. a \in Seq(Symbols) /\ q \in Seq(Symbols)
  BY ONLY <1>1, <1>2, Cat
<1> HIDE DEF a, q
<1>4. m \in Seq(Symbols)
  BY ONLY <1>1, <1>3, Cat
<1> HIDE DEF m
<1> QED BY ONLY <1>1, <1>3, <1>4, Cat

LEMMA IsSettingType ==
  ASSUME NEW line, NEW b, NEW h, NEW t, NEW w, NEW tail, NEW q,
         IsSetting(line, b, h, t, w, tail, q)
  PROVE  line \in Seq(Symbols)
<1> DEFINE one == One(h)
           eq == One("=")
<1>1. Parts(b, h, t, w, tail, q)
  BY PartsOfSetting
<1>2. /\ b \in Seq(Symbols) /\ t \in Seq(Symbols) /\ w \in Seq(Symbols)
      /\ tail \in Seq(Symbols) /\ q \in Seq(Symbols)
      /\ one \in Seq(Symbols) /\ eq \in Seq(Symbols)
  BY ONLY <1>1, Zenon DEF Parts
<1>3. line = ((b \o one) \o (t \o b)) \o (eq \o ((b \o (w \o tail)) \o q))
  BY DEF IsSetting
<1> HIDE DEF one, eq
<1>4. Shape(Symbols, b, one, t, eq, w, tail, q, line)
  BY ONLY <1>2, <1>3, SettingShape, Zenon
<1> QED BY ONLY <1>4, Zenon DEF Shape

LEMMA BeginsWith ==
  ASSUME NEW V, NEW one, NEW rest, NEW c,
         one \in Seq(V) /\ rest \in Seq(V) /\ Len(one) = 1 /\ one[1] = c
  PROVE  one \o rest \in Seq(V) /\ one \o rest # <<>> /\ (one \o rest)[1] = c
OBVIOUS

LEMMA HeadSaid ==
  ASSUME NEW r \in Read, NEW g \in Symbols, NEW new \in Read, NEW line,
         NEW b, NEW w, NEW rest, IsHead(line, b, w, rest), Says(r, line, g, new)
  PROVE  new.section = w /\ new.config = r.config
<1> DEFINE open == One("[")
           close == One("]")
           a == b \o open
           q == close \o rest
           m == w \o q
           z == open \o m
           ends == {"]", "\r"}
           n == Len(line)
           first == FirstOf(line)
           s == IF first = 0 THEN n + 1 ELSE first
<1>1. first # 0 /\ line[s] = "[" => new.section = Section(line, s) /\ new.config = r.config
  BY Zenon DEF Says
<1>2. /\ b \in Seq(Symbols) /\ w \in Seq(Symbols) /\ rest \in Seq(Symbols)
      /\ AllIn(b, Blanks) /\ Lacks(w, Special) /\ line = a \o m
  BY DEF IsHead
<1>3. /\ open \in Seq(Symbols) /\ open[1] = "[" /\ Len(open) = 1
      /\ close \in Seq(Symbols) /\ close[1] = "]" /\ Len(close) = 1
  <2>1. "[" \in Symbols /\ "]" \in Symbols
    BY Zenon DEF Symbols, Chars
  <2> QED BY ONLY <2>1, OneIs
<1> HIDE DEF open, close
<1>4. a \in Seq(Symbols) /\ Len(a) = Len(b) + 1 /\ Len(b) \in Nat
  BY ONLY <1>2, <1>3, Cat
<1>5. q \in Seq(Symbols) /\ q # <<>> /\ q[1] = "]"
  BY ONLY <1>2, <1>3, BeginsWith
<1> HIDE DEF q
<1>6. m \in Seq(Symbols)
  BY ONLY <1>2, <1>5, Cat
<1> HIDE DEF m
<1>7. z \in Seq(Symbols) /\ z # <<>> /\ z[1] = "["
  BY ONLY <1>3, <1>6, BeginsWith
<1>8. line = b \o z
  <2>1. b \in Seq(Symbols) /\ open \in Seq(Symbols) /\ m \in Seq(Symbols)
    BY <1>2, <1>3, <1>6
  <2>2. (b \o open) \o m = b \o (open \o m)
    BY ONLY <2>1, Assoc, SMT
  <2> QED BY ONLY <1>2, <2>2
<1> HIDE DEF a, z
<1>9. FirstOf(line) = Len(b) + 1 /\ line[Len(b) + 1] = "["
  <2>1. \A i \in 1..Len(b) : b[i] \in Blanks
    BY <1>2 DEF AllIn
  <2>2. z[1] \notin Blanks
    BY <1>7 DEF Blanks
  <2> QED BY ONLY <1>2, <1>7, <1>8, <2>1, <2>2, BeginsBehind
<1>10. first # 0 /\ s = Len(a) /\ line[s] = "["
  <2>1. first = Len(a) /\ first # 0 /\ line[first] = "["
    BY ONLY <1>4, <1>9 DEF first
  <2> QED BY ONLY <2>1 DEF s
<1> HIDE DEF first, s, n
<1>11. Section(line, s) = w
  <2>1. Lacks(w, ends)
    BY ONLY <1>2, Zenon DEF Lacks, Special
  <2>2. EndsAt(q, ends)
    BY ONLY <1>5, Zenon DEF EndsAt
  <2> HIDE DEF ends
  <2>3. Stretches(line, a, w, ends)
    <3>1. /\ a \in Seq(Symbols) /\ w \in Seq(Symbols) /\ q \in Seq(Symbols)
          /\ line = a \o (w \o q)
      BY <1>2, <1>4, <1>5 DEF m
    <3> QED BY ONLY <2>1, <2>2, <3>1, Stretch, Zenon
  <2>4. SubSeq(line, s + 1, Until(line, s + 1, ends) - 1) = w
    BY ONLY <1>10, <2>3, Zenon DEF Stretches
  <2> QED BY ONLY <2>4, Zenon DEF Section, ends
<1> QED BY <1>1, <1>10, <1>11

(* The lines of the file, whatever is around the words.                     *)
Lists6(V, a, o, w, c, m, e) ==
  /\ a \in Seq(V) /\ o \in Seq(V) /\ w \in Seq(V)
  /\ c \in Seq(V) /\ m \in Seq(V) /\ e \in Seq(V)
Regrouped(a, o, w, c, m, e) ==
  ((((a \o o) \o w) \o c) \o m) \o e = (a \o o) \o (w \o (c \o (m \o e)))

LEMMA Grouped ==
  ASSUME NEW V, NEW a, NEW o, NEW w, NEW c, NEW m, NEW e, Lists6(V, a, o, w, c, m, e)
  PROVE  Regrouped(a, o, w, c, m, e)
<1> DEFINE x == a \o o
           y == x \o w
           z == y \o c
           me == m \o e
           cme == c \o me
<1> USE DEF Lists6
<1>1. x \in Seq(V)
  BY Cat
<1> HIDE DEF x
<1>2. y \in Seq(V)
  BY <1>1, Cat
<1> HIDE DEF y
<1>3. z \in Seq(V)
  BY <1>2, Cat
<1> HIDE DEF z
<1>4. me \in Seq(V)
  BY Cat
<1>5. (z \o m) \o e = z \o me
  <2>1. z \in Seq(V) /\ m \in Seq(V) /\ e \in Seq(V)
    BY <1>3
  <2> QED BY ONLY <2>1, Assoc, SMT
<1> HIDE DEF me
<1>6. cme \in Seq(V)
  BY <1>4, Cat
<1>7. z \o me = y \o cme
  <2>1. (y \o c) \o me = y \o (c \o me)
    <3>1. y \in Seq(V) /\ c \in Seq(V) /\ me \in Seq(V)
      BY <1>2, <1>4
    <3> QED BY ONLY <3>1, Assoc, SMT
  <2> QED BY ONLY <2>1 DEF z, cme
<1> HIDE DEF cme
<1>8. y \o cme = x \o (w \o cme)
  <2>1. (x \o w) \o cme = x \o (w \o cme)
    <3>1. x \in Seq(V) /\ w \in Seq(V) /\ cme \in Seq(V)
      BY <1>1, <1>6
    <3> QED BY ONLY <3>1, Assoc, SMT
  <2> QED BY ONLY <2>1 DEF y
<1> QED BY ONLY <1>5, <1>7, <1>8, Zenon DEF Regrouped, x, y, z, me, cme

LEMMA HeadLine ==
  ASSUME NEW b, NEW w, NEW comment, NEW end,
         /\ b \in Seq(Symbols) /\ w \in Seq(Symbols)
         /\ comment \in Seq(Symbols) /\ end \in Seq(Symbols),
         AllIn(b, Blanks), Lacks(w, Special)
  PROVE  IsHead(b \o <<"[">> \o w \o <<"]">> \o comment \o end, b, w, comment \o end)
<1> DEFINE open == One("[")
           close == One("]")
           rest == comment \o end
           line == ((((b \o open) \o w) \o close) \o comment) \o end
<1>1. open \in Seq(Symbols) /\ close \in Seq(Symbols)
  <2>1. "[" \in Symbols /\ "]" \in Symbols
    BY Zenon DEF Symbols, Chars
  <2> QED BY ONLY <2>1, OneIs
<1> HIDE DEF open, close
<1>2. line = (b \o open) \o (w \o (close \o rest))
  <2>1. Lists6(Symbols, b, open, w, close, comment, end)
    BY <1>1 DEF Lists6
  <2>2. Regrouped(b, open, w, close, comment, end)
    BY ONLY <2>1, Grouped, SMT
  <2> QED BY ONLY <2>2, Zenon DEF Regrouped
<1>3. rest \in Seq(Symbols)
  BY Cat
<1> HIDE DEF rest, line
<1>4. IsHead(line, b, w, rest)
  BY <1>2, <1>3, Zenon DEF IsHead, open, close
<1> QED BY ONLY <1>4, Zenon DEF line, rest, open, close, One

SettingGroups(b, one, t, eq, w, comment, end) ==
  LET ce == comment \o end
      front == (b \o one) \o (t \o b)
      whole == (((((((b \o (one \o t)) \o b) \o eq) \o b) \o w) \o b) \o comment) \o end
  IN  /\ whole = front \o (eq \o ((b \o (w \o b)) \o ce))
      /\ whole = front \o (eq \o (b \o (w \o (b \o ce))))

LEMMA SettingGrouped ==
  ASSUME NEW V, NEW b, NEW one, NEW t, NEW eq, NEW w, NEW comment, NEW end,
         /\ b \in Seq(V) /\ one \in Seq(V) /\ t \in Seq(V) /\ eq \in Seq(V)
         /\ w \in Seq(V) /\ comment \in Seq(V) /\ end \in Seq(V)
  PROVE  SettingGroups(b, one, t, eq, w, comment, end)
<1> DEFINE ce == comment \o end
           bo == b \o one
           tb == t \o b
           ot == one \o t
           bot == b \o ot
           x == bot \o b
           y == x \o eq
           wb == w \o b
           bc == b \o ce
           wbc == w \o bc
           z == b \o wbc
           yb == y \o b
           front == bo \o tb
           bwb == b \o wb
           whole == ((((y \o b) \o w) \o b) \o comment) \o end
<1>1. /\ ce \in Seq(V) /\ bo \in Seq(V) /\ tb \in Seq(V) /\ ot \in Seq(V) /\ wb \in Seq(V)
  BY Cat
<1> HIDE DEF ce, bo, tb, ot, wb
<1>2. bot \in Seq(V) /\ bc \in Seq(V)
  BY ONLY <1>1, b \in Seq(V), Cat
<1> HIDE DEF bot, bc
<1>3. x \in Seq(V) /\ wbc \in Seq(V)
  BY ONLY <1>2, b \in Seq(V), w \in Seq(V), Cat
<1> HIDE DEF x, wbc
<1>4. y \in Seq(V) /\ z \in Seq(V)
  BY ONLY <1>3, b \in Seq(V), eq \in Seq(V), Cat
<1> HIDE DEF y, z
<1>5. whole = yb \o wbc
  <2>1. Lists6(V, y, b, w, b, comment, end)
    BY <1>4 DEF Lists6
  <2>2. Regrouped(y, b, w, b, comment, end)
    BY ONLY <2>1, Grouped, SMT
  <2> QED BY ONLY <2>2, Zenon DEF Regrouped, whole, yb, wbc, bc, ce
<1>6. yb \o wbc = y \o z
  <2>1. y \in Seq(V) /\ b \in Seq(V) /\ wbc \in Seq(V)
    BY <1>3, <1>4
  <2>2. (y \o b) \o wbc = y \o (b \o wbc)
    BY ONLY <2>1, Assoc, SMT
  <2> QED BY ONLY <2>2, Zenon DEF yb, z
<1>7. y \o z = x \o (eq \o z)
  <2>1. x \in Seq(V) /\ eq \in Seq(V) /\ z \in Seq(V)
    BY <1>3, <1>4
  <2>2. (x \o eq) \o z = x \o (eq \o z)
    BY ONLY <2>1, Assoc, SMT
  <2> QED BY ONLY <2>2, Zenon DEF y
<1>8. x = front
  <2>1. bo \in Seq(V) /\ t \in Seq(V) /\ b \in Seq(V) /\ one \in Seq(V)
    BY <1>1
  <2>2. (b \o one) \o t = b \o (one \o t)
    BY ONLY <2>1, Assoc, SMT
  <2>3. (bo \o t) \o b = bo \o (t \o b)
    BY ONLY <2>1, Assoc, SMT
  <2> QED BY ONLY <2>2, <2>3, Zenon DEF x, bot, ot, bo, front, tb
<1>9. z = bwb \o ce
  <2>1. b \in Seq(V) /\ w \in Seq(V) /\ ce \in Seq(V) /\ wb \in Seq(V)
    BY <1>1
  <2>2. (w \o b) \o ce = w \o (b \o ce)
    BY ONLY <2>1, Assoc, SMT
  <2>3. (b \o wb) \o ce = b \o (wb \o ce)
    BY ONLY <2>1, Assoc, SMT
  <2> QED BY ONLY <2>2, <2>3, Zenon DEF z, wbc, bc, wb, bwb
<1> HIDE DEF whole, yb, front, bwb
<1>10. whole = front \o (eq \o (bwb \o ce)) /\ whole = front \o (eq \o z)
  BY ONLY <1>5, <1>6, <1>7, <1>8, <1>9, Zenon
<1> QED BY ONLY <1>10, Zenon DEF SettingGroups, whole, front, bo, tb, bwb, wb, z, wbc, bc, ce,
           y, x, bot, ot

LEMMA SettingLine ==
  ASSUME NEW b, NEW h, NEW t, NEW w, NEW comment, NEW end,
         /\ b \in Seq(Symbols) /\ h \in Symbols /\ t \in Seq(Symbols) /\ w \in Seq(Symbols)
         /\ comment \in Seq(Symbols) /\ end \in Seq(Symbols),
         AllIn(b, Blanks), AllIn(end, Passed), w # <<>>,
         Lacks(One(h) \o t, Special), Lacks(w, Special), EndsAt(comment, EndsValue)
  PROVE  \E tail, q :
           IsSetting(b \o (One(h) \o t) \o b \o <<"=">> \o b \o w \o b \o comment \o end,
                     b, h, t, w, tail, q)
<1> DEFINE one == One(h)
           eq == One("=")
           ce == comment \o end
           be == b \o end
           front == (b \o one) \o (t \o b)
           line == (((((((b \o (one \o t)) \o b) \o eq) \o b) \o w) \o b) \o comment) \o end
<1>1. one \in Seq(Symbols) /\ eq \in Seq(Symbols)
  <2>1. "=" \in Symbols
    BY Zenon DEF Symbols, Chars
  <2> QED BY <2>1, OneIs
<1> HIDE DEF one, eq
<1>2. /\ line = front \o (eq \o ((b \o (w \o b)) \o ce))
      /\ line = front \o (eq \o (b \o (w \o (b \o ce))))
  <2>1. SettingGroups(b, one, t, eq, w, comment, end)
    BY <1>1, SettingGrouped, SMT
  <2> QED BY ONLY <2>1, Zenon DEF SettingGroups, ce, front, line
<1>3. AllIn(b, Passed)
  BY Zenon DEF AllIn, Passed
<1>4. ce \in Seq(Symbols) /\ be \in Seq(Symbols)
  BY Cat
<1> HIDE DEF line
<1>5. CASE comment # <<>>
  <2>1. EndsAt(ce, EndsValue)
    <3>1. comment[1] \in EndsValue /\ 1 \in 1..Len(comment)
      BY <1>5 DEF EndsAt
    <3>2. ce[1] = comment[1]
      BY ONLY <3>1, CatElements, comment \in Seq(Symbols), end \in Seq(Symbols)
    <3> QED BY <3>1, <3>2 DEF EndsAt
  <2> HIDE DEF ce
  <2>2. IsSetting(line, b, h, t, w, b, ce)
    BY <1>2, <1>3, <1>4, <2>1, Zenon DEF IsSetting, front, one, eq
  <2> QED BY <2>2, Zenon DEF line, one, eq, One
<1>6. CASE comment = <<>>
  <2>1. ce = end
    BY <1>6, ConcatEmptySeq
  <2>2. AllIn(be, Passed)
    BY <1>3, HoldsConcat
  <2> DEFINE wbe == w \o be
             m == b \o wbe
  <2> HIDE DEF be
  <2>3. wbe \in Seq(Symbols)
    BY <1>4, Cat
  <2> HIDE DEF wbe
  <2>4. m \in Seq(Symbols)
    BY <2>3, Cat
  <2>5. line = front \o (eq \o m)
    BY ONLY <1>2, <2>1, Zenon DEF m, wbe, be
  <2> HIDE DEF m
  <2>6. m \o <<>> = m
    BY ONLY <2>4, ConcatEmptySeq
  <2>7. <<>> \in Seq(Symbols) /\ EndsAt(<<>>, EndsValue)
    BY DEF EndsAt
  <2>8. line = front \o (eq \o ((b \o (w \o be)) \o <<>>))
    BY ONLY <2>5, <2>6, Zenon DEF m, wbe
  <2>9. IsSetting(line, b, h, t, w, be, <<>>)
    BY <1>4, <2>2, <2>7, <2>8, Zenon DEF IsSetting, front, one, eq
  <2> QED BY <2>9, Zenon DEF line, one, eq, One
<1> QED BY <1>5, <1>6

(* What is read so far, line after line.                                    *)
ParsedOver(lines, behind, g) ==
  g = [P \in SUBSET DOMAIN lines |->
         IF P = {} THEN NothingRead
         ELSE LET x == Max(P) IN ParseLine(g[P \ {x}], lines[x], behind)]

LEMMA ParseIsFold ==
  ASSUME NEW lines, NEW behind
  PROVE  Parse(lines, behind) =
           (CHOOSE g : ParsedOver(lines, behind, g))[DOMAIN lines]
BY Zenon DEF Parse, FoldLeft, MapThenFoldSet, ParsedOver

LEMMA NothingIsRead == NothingRead \in Read
<1> DEFINE c == <<>>
           name == <<"DEFAULT">>
<1>1. name \in Seq(Symbols)
  <2>1. "DEFAULT" \in Symbols
    BY Zenon DEF Symbols
  <2> HIDE DEF name
  <2>2. One("DEFAULT") \in Seq(Symbols)
    BY <2>1, OneIs
  <2> QED BY <2>2 DEF One, name
<1>2. c \in [{} -> Seq(Symbols)] /\ {} \in SUBSET (Seq(Symbols) \X Seq(Symbols))
  OBVIOUS
<1> HIDE DEF c, name
<1>3. c \in Maps
  BY <1>2, Zenon DEF Maps
<1>4. NothingRead = [section |-> name, config |-> c]
  BY Zenon DEF NothingRead, c, name
<1> QED BY <1>1, <1>3, <1>4 DEF Read

LineByLine(lines, behind, f) ==
  /\ f[0] = NothingRead /\ f[Len(lines)] = Parse(lines, behind)
  /\ \A k \in 0..Len(lines) : f[k] \in Read
  /\ \A k \in 1..Len(lines) : Says(f[k - 1], lines[k], behind, f[k])

LEMMA ParsedByLines ==
  ASSUME NEW lines \in Seq(Seq(Symbols)), NEW behind \in Symbols
  PROVE  \E f : LineByLine(lines, behind, f)
<1> DEFINE n == Len(lines)
           V == Read
           parse(r, i) == ParseLine(r, lines[i], behind)
           step == [r \in V |-> [i \in 1..n |-> parse(r, i)]]
           Over(g) == g = [P \in SUBSET DOMAIN lines |->
                             IF P = {} THEN NothingRead ELSE parse(g[P \ {Max(P)}], Max(P))]
           g == CHOOSE g : Over(g)
           f == [k \in 0..n |-> g[1..k]]
<1>1. n \in Nat /\ DOMAIN lines = 1..n /\ \A i \in 1..n : lines[i] \in Seq(Symbols)
  OBVIOUS
<1>2. Parse(lines, behind) = g[1..n]
  BY <1>1, ParseIsFold, Zenon DEF ParsedOver
<1>3. NothingRead \in V
  BY NothingIsRead
<1>4. ASSUME NEW r \in V, NEW i \in 1..n
      PROVE  parse(r, i) \in V /\ Says(r, lines[i], behind, parse(r, i))
  <2>1. lines[i] \in Seq(Symbols)
    BY <1>1
  <2> QED BY ONLY <2>1, ParseLineReads, r \in V, behind \in Symbols
<1> HIDE DEF parse
<1>5. step \in [V -> [1..n -> V]]
  BY <1>4
<1>6. \E h : Over(h)
  <2> HIDE DEF V, n, step
  <2>1. PICK h \in [SUBSET (1..n) -> V] : LeftFold(n, NothingRead, step, h)
    BY ONLY <1>1, <1>3, <1>5, LeftExists
  <2>2. ASSUME NEW P \in SUBSET (1..n), P # {}
        PROVE  step[h[P \ {Max(P)}]][Max(P)] = parse(h[P \ {Max(P)}], Max(P))
    <3>1. Max(P) \in 1..n
      BY <1>1, <2>2, MaxIsOf
    <3>2. h[P \ {Max(P)}] \in V
      OBVIOUS
    <3> QED BY <3>1, <3>2 DEF step
  <2>3. \A P \in SUBSET (1..n) :
          h[P] = IF P = {} THEN NothingRead ELSE parse(h[P \ {Max(P)}], Max(P))
    BY <2>1, <2>2, Zenon DEF LeftFold
  <2>4. Over(h)
    BY <1>1, <2>3
  <2> QED BY <2>4
<1>7. Over(g)
  BY <1>6, Zenon
<1>8. /\ g[{}] = NothingRead
      /\ \A k \in 1..n : g[1..k] = parse(g[1..(k - 1)], k)
  <2> HIDE DEF g
  <2>1. g[{}] = NothingRead
    BY <1>7
  <2>2. ASSUME NEW k \in 1..n PROVE g[1..k] = parse(g[1..(k - 1)], k)
    <3>1. 1..k \in SUBSET (1..n) /\ k \in Nat \ {0}
      BY <1>1
    <3>2. Max(1..k) = k /\ (1..k) \ {k} = 1..(k - 1) /\ 1..k # {}
      BY <3>1, SegmentMax
    <3>3. g[1..k] = parse(g[(1..k) \ {Max(1..k)}], Max(1..k))
      BY <1>1, <1>7, <3>1, <3>2
    <3> QED BY <3>2, <3>3
  <2> QED BY <2>1, <2>2
<1> HIDE DEF g, step, V
<1>9. f[0] = NothingRead /\ \A k \in 1..n : f[k] = parse(f[k - 1], k)
  <2>1. 1..0 = {} /\ 0 \in 0..n
    BY <1>1
  <2>2. \A k \in 1..n : k \in 0..n /\ k - 1 \in 0..n
    BY <1>1
  <2> QED BY <1>8, <2>1, <2>2
<1>10. f[n] = Parse(lines, behind)
  BY <1>1, <1>2
<1> HIDE DEF f, n
<1> DEFINE S == {k \in Nat : k <= n => f[k] \in V}
<1>11. 0 \in S
  BY <1>3, <1>9
<1>12. ASSUME NEW k \in Nat, k \in S PROVE k + 1 \in S
  <2> SUFFICES ASSUME k + 1 <= n PROVE f[k + 1] \in V
    OBVIOUS
  <2> DEFINE m == k + 1
  <2>1. m \in 1..n /\ m - 1 = k
    BY <1>1
  <2>2. f[k] \in V
    BY <1>1, <1>12
  <2> HIDE DEF m
  <2>3. f[m] = parse(f[k], m)
    BY <1>9, <2>1
  <2>4. f[m] \in V
    BY <1>4, <2>1, <2>2, <2>3
  <2> QED BY <2>4 DEF m
<1>13. \A k \in 0..n : f[k] \in V
  <2> HIDE DEF S
  <2>1. Nat \subseteq S
    BY <1>11, <1>12, Induction
  <2> QED BY <1>1, <2>1 DEF S
<1>14. \A k \in 1..n : Says(f[k - 1], lines[k], behind, f[k])
  <2> SUFFICES ASSUME NEW k \in 1..n PROVE Says(f[k - 1], lines[k], behind, f[k])
    OBVIOUS
  <2>1. f[k - 1] \in V /\ f[k] = parse(f[k - 1], k)
    BY <1>1, <1>9, <1>13
  <2> QED BY <1>4, <2>1
<1>15. LineByLine(lines, behind, f)
  BY <1>9, <1>10, <1>13, <1>14, Zenon DEF LineByLine, n, V
<1> QED BY <1>15

FileParts(s) ==
  /\ IsWord(s.section) /\ IsWord(s.key) /\ IsWord(s.value) /\ SaysNothing(s.noise)
  /\ s.blank \in Seq(Symbols) /\ AllIn(s.blank, Blanks)
  /\ s.comment \in Seq(Symbols) /\ EndsAt(s.comment, EndsValue)
  /\ s.end \in Seq(Symbols) /\ AllIn(s.end, Passed) /\ s.behind \in Symbols

LEMMA ShortHold ==
  ASSUME NEW V, NEW S, NEW a \in V, NEW b \in V, NEW c \in V
  PROVE  /\ <<>> \in Seq(V) /\ <<a>> \in Seq(V) /\ <<a, b>> \in Seq(V) /\ <<a, b, c>> \in Seq(V)
         /\ <<a>>[1] = a /\ <<a, b, c>>[1] = a
         /\ AllIn(<<>>, S) /\ (a \in S => AllIn(<<a>>, S))
         /\ a \in S /\ b \in S => AllIn(<<a, b>>, S)
BY DEF AllIn

LEMMA FilesAre ==
  ASSUME NEW s \in Files
  PROVE  FileParts(s)
<1>1. /\ s.section \in Words /\ s.key \in Words /\ s.value \in Words /\ s.noise \in Noise
      /\ s.blank \in {<<>>, <<" ">>, <<"\t", " ">>}
      /\ s.comment \in {<<>>, <<"#", "]", "=">>, <<";">>}
      /\ s.end \in {<<>>, <<"\r">>} /\ s.behind \in Chars
  BY DEF Files
<1>2. /\ " " \in Symbols /\ "\t" \in Symbols /\ "\r" \in Symbols /\ "#" \in Symbols
      /\ "]" \in Symbols /\ "=" \in Symbols /\ ";" \in Symbols
  BY Zenon DEF Symbols, Chars, Blanks
<1>3. " " \in Blanks /\ "\t" \in Blanks /\ "\r" \in Passed /\ "#" \in EndsValue /\ ";" \in EndsValue
  BY Zenon DEF Blanks, Passed, EndsValue
<1>4. s.blank \in Seq(Symbols) /\ AllIn(s.blank, Blanks)
  <2>1. /\ <<>> \in Seq(Symbols) /\ AllIn(<<>>, Blanks)
        /\ <<" ">> \in Seq(Symbols) /\ AllIn(<<" ">>, Blanks)
    BY ONLY <1>2, <1>3, ShortHold, Zenon
  <2>2. <<"\t", " ">> \in Seq(Symbols) /\ AllIn(<<"\t", " ">>, Blanks)
    BY ONLY <1>2, <1>3, ShortHold, Zenon
  <2> QED BY ONLY <1>1, <2>1, <2>2, Zenon
<1>5. s.comment \in Seq(Symbols) /\ EndsAt(s.comment, EndsValue)
  <2>1. /\ <<>> \in Seq(Symbols) /\ EndsAt(<<>>, EndsValue)
    BY ONLY <1>2, ShortHold, Zenon DEF EndsAt
  <2>2. <<";">> \in Seq(Symbols) /\ EndsAt(<<";">>, EndsValue)
    BY ONLY <1>2, <1>3, ShortHold, Zenon DEF EndsAt
  <2>3. <<"#", "]", "=">> \in Seq(Symbols) /\ EndsAt(<<"#", "]", "=">>, EndsValue)
    BY ONLY <1>2, <1>3, ShortHold, Zenon DEF EndsAt
  <2> QED BY ONLY <1>1, <2>1, <2>2, <2>3, Zenon
<1>6. s.end \in Seq(Symbols) /\ AllIn(s.end, Passed)
  <2>1. /\ <<>> \in Seq(Symbols) /\ AllIn(<<>>, Passed)
        /\ <<"\r">> \in Seq(Symbols) /\ AllIn(<<"\r">>, Passed)
    BY ONLY <1>2, <1>3, ShortHold, Zenon
  <2> QED BY ONLY <1>1, <2>1, Zenon
<1>7. s.behind \in Symbols
  BY <1>1 DEF Symbols
<1>8. IsWord(s.section) /\ IsWord(s.key) /\ IsWord(s.value) /\ SaysNothing(s.noise)
  BY <1>1, InputAssumption
<1> QED BY <1>4, <1>5, <1>6, <1>7, <1>8 DEF FileParts

LEMMA FileSubject ==
  ASSUME Subjects, subject.of = "file"
  PROVE  FileParts(subject)
<1>1. \A s \in Corrections \cup Windows \cup Fetches \cup SetUps : s.of # "file"
  BY DEF Corrections, Windows, Fetches, SetUps
<1>2. \A s \in HeapChanges \cup PeriodicChanges \cup ArrayGrowths \cup Starts \cup Messages :
        s.of # "file"
  BY DEF HeapChanges, PeriodicChanges, ArrayGrowths, Starts, Messages
<1>3. \A s \in HookChanges : s.of # "file"
  BY DEF HookChanges
<1>4. NoSubject.of # "file"
  BY DEF NoSubject
<1>5. subject \in Files
  BY <1>1, <1>2, <1>3, <1>4, Zenon DEF Subjects
<1> QED BY <1>5, FilesAre

(* A word is a letter and more.                                             *)
LEMMA WordsAre ==
  ASSUME NEW w, IsWord(w)
  PROVE  /\ w \in Seq(Symbols) /\ Lacks(w, Special) /\ w # <<>>
         /\ \E h \in Symbols, t \in Seq(Symbols) : w = One(h) \o t
<1>1. w \in Seq(Symbols) /\ w # <<>>
  <2>1. w \in Seq(Chars) /\ w # <<>>
    BY Zenon DEF IsWord
  <2> QED BY <2>1 DEF Symbols
<1>2. Lacks(w, Special)
  <2>1. DOMAIN w = 1..Len(w)
    BY <1>1
  <2> QED BY <2>1 DEF IsWord, Lacks, Special
<1>3. w = <<Head(w)>> \o Tail(w) /\ Head(w) \in Symbols /\ Tail(w) \in Seq(Symbols)
  BY <1>1
<1> QED BY <1>1, <1>2, <1>3, Zenon DEF One

FileLines(s) ==
  <<s.noise,
    s.blank \o <<"[">> \o s.section \o <<"]">> \o s.comment \o s.end,
    s.noise,
    s.blank \o s.key \o s.blank \o <<"=">> \o s.blank \o s.value \o s.blank \o s.comment \o s.end>>

FileTold(s) ==
  LET config == Parse(FileLines(s), s.behind).config
      setting == <<s.section, s.key>>
  IN  /\ setting \in DOMAIN config /\ config[setting] = s.value
      /\ \A c \in DOMAIN config \ {setting} : Contains(c[2], "NUL")

LEMMA FileIsTold ==
  ASSUME NEW s, FileParts(s)
  PROVE  FileTold(s)
<1> DEFINE b == s.blank
           noise == s.noise
           head == b \o <<"[">> \o s.section \o <<"]">> \o s.comment \o s.end
           set == b \o s.key \o b \o <<"=">> \o b \o s.value \o b \o s.comment \o s.end
           lines == <<noise, head, noise, set>>
           behind == s.behind
           setting == <<s.section, s.key>>
<1>1. /\ SaysNothing(noise) /\ behind \in Symbols
      /\ s.section \in Seq(Symbols) /\ Lacks(s.section, Special)
      /\ s.key \in Seq(Symbols) /\ Lacks(s.key, Special)
      /\ s.value \in Seq(Symbols) /\ Lacks(s.value, Special) /\ s.value # <<>>
  BY WordsAre DEF FileParts
<1>2. noise \in Seq(Symbols)
  BY <1>1 DEF SaysNothing, Symbols
<1>3. IsHead(head, b, s.section, s.comment \o s.end)
  BY <1>1, HeadLine DEF FileParts
<1>4. PICK h \in Symbols, t \in Seq(Symbols) : s.key = One(h) \o t
  BY WordsAre DEF FileParts
<1>5. PICK tail, q : IsSetting(set, b, h, t, s.value, tail, q)
  BY <1>1, <1>4, SettingLine DEF FileParts
<1> HIDE DEF head, set, noise, behind
<1>6. head \in Seq(Symbols) /\ set \in Seq(Symbols)
  <2>1. head \in Seq(Symbols)
    BY <1>3, IsHeadType
  <2>2. set \in Seq(Symbols)
    BY <1>5, IsSettingType
  <2> QED BY <2>1, <2>2
<1>7. lines \in Seq(Seq(Symbols)) /\ Len(lines) = 4
  BY <1>2, <1>6
<1>8. lines[1] = noise /\ lines[2] = head /\ lines[3] = noise /\ lines[4] = set
  OBVIOUS
<1> HIDE DEF lines
<1>9. PICK f : LineByLine(lines, behind, f)
  BY <1>1, <1>7, ParsedByLines
<1>10. /\ f[0] = NothingRead /\ f[4] = Parse(lines, behind)
       /\ f[0] \in Read /\ f[1] \in Read /\ f[2] \in Read /\ f[3] \in Read /\ f[4] \in Read
       /\ Says(f[0], noise, behind, f[1]) /\ Says(f[1], head, behind, f[2])
       /\ Says(f[2], noise, behind, f[3]) /\ Says(f[3], set, behind, f[4])
  <2>1. \A k \in 0..4 : f[k] \in Read
    BY <1>7, <1>9 DEF LineByLine
  <2>2. \A k \in 1..4 : Says(f[k - 1], lines[k], behind, f[k])
    BY <1>7, <1>9 DEF LineByLine
  <2>3. f[0] = NothingRead /\ f[4] = Parse(lines, behind)
    BY <1>7, <1>9 DEF LineByLine
  <2>4. 1 - 1 = 0 /\ 2 - 1 = 1 /\ 3 - 1 = 2 /\ 4 - 1 = 3
    OBVIOUS
  <2> QED BY <1>8, <2>1, <2>2, <2>3, <2>4
<1> DEFINE C(c) == Contains(c[2], "NUL")
           D(k) == DOMAIN f[k].config
<1>11. \A c \in D(1) : c \in D(0) \/ C(c)
  BY <1>1, <1>10, NothingSaid
<1>12. f[2].section = s.section /\ f[2].config = f[1].config
  BY <1>1, <1>3, <1>10, HeadSaid
<1>13. f[3].section = f[2].section /\ \A c \in D(3) : c \in D(2) \/ C(c)
  BY <1>1, <1>10, NothingSaid
<1>14. f[4].config = With(f[3].config, <<f[3].section, One(h) \o t>>, s.value)
  <2>1. /\ f[3] \in Read /\ f[4] \in Read /\ behind \in Symbols
        /\ Says(f[3], set, behind, f[4])
    BY <1>1, <1>10
  <2>2. IsSet(f[3], f[4], One(h) \o t, s.value)
    BY ONLY <1>5, <2>1, SettingSaid
  <2> QED BY ONLY <2>2, Zenon DEF IsSet
<1>15. f[4].config = With(f[3].config, setting, s.value)
  BY <1>4, <1>12, <1>13, <1>14
<1>16. D(0) = {}
  BY <1>10 DEF NothingRead
<1> HIDE DEF setting
<1>17. /\ D(4) = D(3) \cup {setting} /\ setting \in D(4) /\ f[4].config[setting] = s.value
  BY <1>15 DEF With
<1>18. \A c \in D(4) \ {setting} : C(c)
  BY ONLY <1>11, <1>12, <1>13, <1>16, <1>17
<1>19. lines = FileLines(s)
  BY DEF lines, noise, head, set, FileLines
<1> QED BY <1>10, <1>17, <1>18, <1>19, Zenon DEF FileTold, setting, behind

LEMMA FilesAreRead ==
  ASSUME Subjects
  PROVE  FileIsRead
<1>1. subject.of = "file" => FileTold(subject)
  BY FileSubject, FileIsTold
<1> QED BY <1>1, Zenon DEF FileIsRead, FileTold, FileLines

(* Lists put behind each other.                                             *)
Flattens(s, g) ==
  g = [i \in 1..Len(s) |-> IF i = 1 THEN s[i] ELSE g[i - 1] \o s[i]]

LEMMA FlattenIs ==
  ASSUME NEW s
  PROVE  FlattenSeq(s) = IF Len(s) = 0 THEN s ELSE (CHOOSE g : Flattens(s, g))[Len(s)]
BY Zenon DEF FlattenSeq, Flattens

LEMMA FlattenRuns ==
  ASSUME NEW V, NEW s \in Seq(Seq(V))
  PROVE  \E g : Flattens(s, g) /\ \A i \in 1..Len(s) : g[i] \in Seq(V)
<1> DEFINE n == Len(s)
           T == Seq(V)
           step == [r \in T |-> [k \in 1..n |-> r \o s[k]]]
           base == <<>>
<1>1. n \in Nat /\ base \in T /\ \A k \in 1..n : s[k] \in T
  OBVIOUS
<1>2. ASSUME NEW r \in T, NEW k \in 1..n PROVE r \o s[k] \in T
  <2>1. s[k] \in Seq(V)
    BY <1>1
  <2> QED BY <2>1, Cat
<1>3. step \in [T -> [1..n -> T]] /\ \A r \in T, k \in 1..n : step[r][k] = r \o s[k]
  BY <1>2
<1>4. PICK f \in [0..n -> T] : Along(n, base, step, f)
  <2> HIDE DEF n, T, step, base
  <2> QED BY <1>1, <1>3, AlongExists
<1> HIDE DEF step, T, base
<1>5. \A k \in 1..n : f[k] = f[k - 1] \o s[k]
  <2> SUFFICES ASSUME NEW k \in 1..n PROVE f[k] = f[k - 1] \o s[k]
    OBVIOUS
  <2>1. k \in 0..n /\ k # 0 /\ k - 1 \in 0..n
    BY <1>1
  <2>2. f[k] = step[f[k - 1]][k] /\ f[k - 1] \in T
    BY <1>4, <2>1 DEF Along
  <2> QED BY <1>3, <2>2
<1>6. f[0] = base
  BY <1>1, <1>4 DEF Along
<1> DEFINE g == [i \in 1..n |-> f[i]]
<1>7. \A i \in 1..n : g[i] = IF i = 1 THEN s[i] ELSE g[i - 1] \o s[i]
  <2> SUFFICES ASSUME NEW i \in 1..n PROVE g[i] = IF i = 1 THEN s[i] ELSE g[i - 1] \o s[i]
    OBVIOUS
  <2>1. g[i] = f[i - 1] \o s[i]
    BY <1>5
  <2>2. CASE i = 1
    <3>1. f[i - 1] = <<>>
      BY <1>6, <2>2 DEF base
    <3>2. s[i] \in Seq(V)
      BY <1>1 DEF T
    <3>3. <<>> \o s[i] = s[i]
      BY <3>2, ConcatEmptySeq
    <3> QED BY ONLY <2>1, <2>2, <3>1, <3>3
  <2>3. CASE i # 1
    <3>1. i - 1 \in 1..n
      BY <1>1, <2>3
    <3>2. g[i - 1] = f[i - 1]
      BY <3>1
    <3> HIDE DEF g
    <3> QED BY <2>1, <2>3, <3>2
  <2> QED BY <2>2, <2>3
<1>8. \A i \in 1..n : g[i] \in T
  <2> SUFFICES ASSUME NEW i \in 1..n PROVE g[i] \in T
    OBVIOUS
  <2>1. i \in 0..n
    BY <1>1
  <2> QED BY <2>1
<1>9. Flattens(s, g)
  <2>1. g = [i \in 1..n |-> g[i]]
    OBVIOUS
  <2> HIDE DEF g
  <2> QED BY <1>7, <2>1 DEF Flattens
<1> QED BY <1>8, <1>9 DEF T

(* One list more.                                                           *)
LEMMA FlattenAppend ==
  ASSUME NEW V, NEW s \in Seq(Seq(V)), NEW x \in Seq(V)
  PROVE  FlattenSeq(s) \in Seq(V) /\ FlattenSeq(Append(s, x)) = FlattenSeq(s) \o x
<1> DEFINE r == Append(s, x)
           n == Len(s)
           g == CHOOSE g : Flattens(s, g)
           h == CHOOSE f : Flattens(r, f)
<1>1. /\ r \in Seq(Seq(V)) /\ n \in Nat /\ Len(r) = n + 1 /\ r[n + 1] = x
      /\ \A i \in 1..n : r[i] = s[i]
  OBVIOUS
<1> HIDE DEF r
<1>2. Flattens(s, g) /\ Flattens(r, h)
  <2>1. (\E f : Flattens(s, f)) /\ \E f : Flattens(r, f)
    BY <1>1, FlattenRuns
  <2> QED BY <2>1, Zenon
<1>3. /\ FlattenSeq(s) = IF n = 0 THEN s ELSE g[n]
      /\ FlattenSeq(r) = h[n + 1]
  <2>1. n + 1 # 0
    BY <1>1
  <2> QED BY <1>1, <2>1, FlattenIs
<1>4. PICK f : Flattens(s, f) /\ \A i \in 1..Len(s) : f[i] \in Seq(V)
  BY FlattenRuns
<1> HIDE DEF g, h, n
<1>5. /\ \A i \in 1..n : g[i] = IF i = 1 THEN s[i] ELSE g[i - 1] \o s[i]
      /\ \A i \in 1..n : f[i] = IF i = 1 THEN s[i] ELSE f[i - 1] \o s[i]
  <2>1. /\ g = [i \in 1..Len(s) |-> IF i = 1 THEN s[i] ELSE g[i - 1] \o s[i]]
        /\ f = [i \in 1..Len(s) |-> IF i = 1 THEN s[i] ELSE f[i - 1] \o s[i]]
    BY <1>2, <1>4, Zenon DEF Flattens
  <2>2. \A i \in 1..n : g[i] = IF i = 1 THEN s[i] ELSE g[i - 1] \o s[i]
    BY ONLY <2>1, Zenon DEF n
  <2>3. \A i \in 1..n : f[i] = IF i = 1 THEN s[i] ELSE f[i - 1] \o s[i]
    BY ONLY <2>1, Zenon DEF n
  <2> QED BY ONLY <2>2, <2>3
<1>6. \A i \in 1..(n + 1) : h[i] = IF i = 1 THEN r[i] ELSE h[i - 1] \o r[i]
  BY <1>1, <1>2, Zenon DEF Flattens
<1> DEFINE Z == {k \in Nat : k <= n /\ k > 0 => g[k] = h[k] /\ g[k] = f[k]}
<1>7. 0 \in Z
  OBVIOUS
<1>8. ASSUME NEW k \in Nat, k \in Z PROVE k + 1 \in Z
  <2> SUFFICES ASSUME k + 1 <= n PROVE g[k + 1] = h[k + 1] /\ g[k + 1] = f[k + 1]
    OBVIOUS
  <2> DEFINE m == k + 1
  <2>1. m \in 1..n /\ m \in 1..(n + 1) /\ (m # 1 => m - 1 = k /\ k > 0 /\ k <= n)
    BY <1>1
  <2> HIDE DEF m
  <2>2. m # 1 => g[m - 1] = h[m - 1] /\ g[m - 1] = f[m - 1]
    BY <1>8, <2>1
  <2>3. g[m] = h[m] /\ g[m] = f[m]
    <3>1. r[m] = s[m]
      BY <1>1, <2>1
    <3>2. /\ g[m] = IF m = 1 THEN s[m] ELSE g[m - 1] \o s[m]
          /\ f[m] = IF m = 1 THEN s[m] ELSE f[m - 1] \o s[m]
          /\ h[m] = IF m = 1 THEN r[m] ELSE h[m - 1] \o r[m]
      BY ONLY <1>5, <1>6, <2>1, Zenon
    <3> QED BY ONLY <2>2, <3>1, <3>2, Zenon
  <2> QED BY <2>3 DEF m
<1>9. n > 0 => g[n] = h[n] /\ g[n] = f[n]
  <2> HIDE DEF Z
  <2>1. Nat \subseteq Z
    BY <1>7, <1>8, Induction
  <2> QED BY <1>1, <2>1 DEF Z
<1>10. CASE n = 0
  <2>1. h[n + 1] = x
    <3> DEFINE m == n + 1
    <3>1. m \in 1..(n + 1) /\ m = 1 /\ r[m] = x
      BY <1>1, <1>10
    <3> HIDE DEF m
    <3>2. h[m] = x
      BY ONLY <1>6, <3>1, Zenon
    <3> QED BY <3>2 DEF m
  <2>2. s = <<>>
    BY <1>10 DEF n
  <2>3. <<>> \in Seq(V) /\ <<>> \o x = x
    BY ConcatEmptySeq
  <2> QED BY <1>3, <1>10, <2>1, <2>2, <2>3 DEF r
<1>11. CASE n # 0
  <2> DEFINE m == n + 1
  <2>1. m \in 1..(n + 1) /\ m # 1 /\ m - 1 = n /\ r[m] = x /\ n \in 1..n /\ n > 0
    BY <1>1, <1>11
  <2> HIDE DEF m
  <2>2. h[m] = h[m - 1] \o r[m]
    BY ONLY <1>6, <2>1, Zenon
  <2>3. h[m] = g[n] \o x
    BY ONLY <1>9, <2>1, <2>2
  <2>4. g[n] \in Seq(V)
    BY <1>4, <1>9, <2>1 DEF n
  <2> QED BY <1>3, <1>11, <2>3, <2>4 DEF m, r
<1> QED BY <1>10, <1>11

LEMMA FlattenEmpty == FlattenSeq(<<>>) = <<>>
BY FlattenIs

LEMMA AppendBehind ==
  ASSUME NEW V, NEW o \in Seq(V), NEW t \in Seq(V), NEW y \in V
  PROVE  /\ Append(t, y) \in Seq(V) /\ o \o t \in Seq(V)
         /\ o \o Append(t, y) = Append(o \o t, y)
OBVIOUS

(* One list before the others.                                              *)
LEMMA FlattenBefore ==
  ASSUME NEW V, NEW x \in Seq(V), NEW s \in Seq(Seq(V))
  PROVE  FlattenSeq(<<x>> \o s) = x \o FlattenSeq(s)
<1> DEFINE W == Seq(V)
           o == One(x)
           f(t) == FlattenSeq(t)
           Z == {t \in Seq(W) : f(o \o t) = x \o f(t)}
<1>1. o \in Seq(W) /\ \A t \in Seq(W) : f(t) \in W
  <2>1. o \in Seq(W)
    BY OneIs
  <2>2. \A t \in Seq(W) : f(t) \in W
    BY FlattenAppend
  <2> QED BY <2>1, <2>2
<1>2. o = Append(<<>>, x)
  BY DEF One
<1>3. <<>> \in Z
  <2>1. f(<<>>) = <<>>
    BY FlattenEmpty
  <2>2. <<>> \in Seq(W)
    OBVIOUS
  <2>3. f(Append(<<>>, x)) = f(<<>>) \o x
    BY <2>2, FlattenAppend
  <2>4. <<>> \o x = x /\ x \o <<>> = x
    BY ConcatEmptySeq
  <2> HIDE DEF o, f
  <2>5. o \o <<>> = o
    BY <1>1, ConcatEmptySeq
  <2> QED BY <1>2, <2>1, <2>2, <2>3, <2>4, <2>5
<1>4. ASSUME NEW t \in Seq(W), t \in Z, NEW y \in W PROVE Append(t, y) \in Z
  <2> DEFINE a == Append(t, y)
             c == o \o t
  <2> HIDE DEF o
  <2>1. a \in Seq(W) /\ c \in Seq(W) /\ o \o a = Append(c, y)
    <3> HIDE DEF W
    <3>1. o \in Seq(W) /\ t \in Seq(W) /\ y \in W
      BY <1>1
    <3> QED BY ONLY <3>1, AppendBehind
  <2>2. f(a) = f(t) \o y
    BY FlattenAppend
  <2>3. f(Append(c, y)) = f(c) \o y
    <3> HIDE DEF c
    <3> QED BY <2>1, FlattenAppend
  <2>4. f(c) = x \o f(t)
    BY <1>4
  <2> HIDE DEF f
  <2>5. (x \o f(t)) \o y = x \o (f(t) \o y)
    <3>1. x \in Seq(V) /\ f(t) \in Seq(V) /\ y \in Seq(V)
      BY <1>1
    <3> QED BY ONLY <3>1, Assoc, SMT
  <2> HIDE DEF a, c
  <2>6. f(o \o a) = x \o f(a)
    BY ONLY <2>1, <2>2, <2>3, <2>4, <2>5
  <2>7. a \in Z
    BY <2>1, <2>6
  <2> QED BY <2>7 DEF a
<1>5. Seq(W) \subseteq Z
  <2> HIDE DEF Z, W
  <2> QED BY <1>3, <1>4, ListsGrow
<1> HIDE DEF o
<1>6. f(o \o s) = x \o f(s)
  BY <1>5
<1> QED BY <1>6 DEF o, One

--------------------------------------------------------------------------------
(* A client's message.                                                      *)

LEMMA FoundIs ==
  ASSUME NEW str, NEW delim, NEW prev
  PROVE  Found(str, delim, prev) = Until(str, prev, {delim})
<1> DEFINE at == {i \in prev..Len(str) : str[i] = delim}
           to == {i \in prev..Len(str) : str[i] \in {delim}}
<1>1. at = to
  OBVIOUS
<1> HIDE DEF at, to
<1>2. Found(str, delim, prev)
        = IF at = {} THEN Len(str) + 1 ELSE CHOOSE i \in at : \A j \in at : i <= j
  BY Zenon DEF Found, at
<1>3. Until(str, prev, {delim})
        = IF to = {} THEN Len(str) + 1 ELSE CHOOSE i \in to : \A j \in to : i <= j
  BY Zenon DEF Until, to
<1> QED BY <1>1, <1>2, <1>3

(* The token from prev on, as a list of none or one.                        *)
TokensAt(str, prev) ==
  LET token == SubSeq(str, prev, Found(str, " ", prev) - 1)
  IN  IF token = <<>> THEN <<>> ELSE <<token>>

GoesOnAt(str, prev) ==
  LET pos == Found(str, " ", prev)
  IN  pos < Len(str) + 1 /\ pos + 1 < Len(str) + 1

SplitBy(str, f) ==
  f = [prev \in 1..Len(str) + 2 |->
         IF GoesOnAt(str, prev)
         THEN TokensAt(str, prev) \o f[Found(str, " ", prev) + 1] ELSE TokensAt(str, prev)]

LEMMA SplitIs ==
  ASSUME NEW str
  PROVE  Split(str, " ") = (CHOOSE f : SplitBy(str, f))[1]
BY Zenon DEF Split, SplitBy, TokensAt, GoesOnAt

LEMMA TokensAre ==
  ASSUME NEW V, NEW str \in Seq(V), NEW prev \in 1..Len(str) + 2
  PROVE  /\ TokensAt(str, prev) \in Seq(Seq(V))
         /\ Found(str, " ", prev) \in 1..(Len(str) + 1)
         /\ GoesOnAt(str, prev) => /\ Found(str, " ", prev) + 1 \in 1..Len(str) + 2
                                   /\ Found(str, " ", prev) + 1 > prev
<1> DEFINE n == Len(str)
           pos == Found(str, " ", prev)
           token == SubSeq(str, prev, pos - 1)
           ends == {" "}
<1>1. n \in Nat /\ prev \in 1..n + 2
  OBVIOUS
<1>2. pos = Until(str, prev, ends)
  BY FoundIs
<1> HIDE DEF pos, ends
<1>3. pos \in 1..(n + 1) /\ (prev <= n + 1 => prev <= pos) /\ (prev = n + 2 => pos = n + 1)
  <2>1. CASE prev <= n + 1
    <3>1. prev \in 1..(n + 1)
      BY <1>1, <2>1
    <3>2. Until(str, prev, ends) \in prev..(n + 1)
      BY <3>1, UntilComes
    <3> HIDE DEF n
    <3> QED BY <1>1, <1>2, <2>1, <3>1, <3>2
  <2>2. CASE ~(prev <= n + 1)
    <3>1. {j \in prev..n : str[j] \in ends} = {}
      BY <1>1, <2>2
    <3>2. pos = n + 1
      BY <1>2, <3>1 DEF Until
    <3> HIDE DEF n
    <3> QED BY <1>1, <2>2, <3>2
  <2> QED BY <2>1, <2>2
<1>4. token \in Seq(V)
  <2>1. prev \in Nat \ {0} /\ pos \in Nat /\ pos <= n + 1
    BY <1>1, <1>3
  <2> QED BY <2>1, PartOf
<1>5. TokensAt(str, prev) = IF token = <<>> THEN <<>> ELSE One(token)
  BY Zenon DEF TokensAt, token, pos, One
<1> HIDE DEF token, n
<1>6. TokensAt(str, prev) \in Seq(Seq(V))
  <2> DEFINE W == Seq(V)
  <2>1. token \in W
    BY <1>4
  <2> HIDE DEF W
  <2>2. One(token) \in Seq(W) /\ <<>> \in Seq(W)
    BY <2>1, OneIs
  <2>3. TokensAt(str, prev) \in Seq(W)
    BY <1>5, <2>2
  <2> QED BY <2>3 DEF W
<1>7. GoesOnAt(str, prev) => pos < n + 1 /\ pos + 1 < n + 1
  BY Zenon DEF GoesOnAt, pos, n
<1>8. GoesOnAt(str, prev) => pos + 1 \in 1..n + 2 /\ pos + 1 > prev
  BY <1>1, <1>3, <1>7
<1> QED BY <1>3, <1>6, <1>8 DEF pos, n

LEMMA SplitEnds ==
  ASSUME NEW V, NEW str \in Seq(V)
  PROVE  \E f \in [1..Len(str) + 2 -> Seq(Seq(V))] : SplitBy(str, f)
<1> DEFINE n == Len(str)
           D == 1..n + 2
           W == Seq(V)
           T == Seq(W)
           tok(d) == TokensAt(str, d)
           goes(d) == GoesOnAt(str, d)
           next(d) == Found(str, " ", d) + 1
           From(f, d) == IF goes(d) THEN tok(d) \o f[next(d)] ELSE tok(d)
           H == [f \in [D -> T] |-> [d \in D |-> From(f, d)]]
           rank == [d \in D |-> n + 2 - d]
<1>1. n \in Nat
  OBVIOUS
<1>2. \A d \in D : tok(d) \in T /\ (goes(d) => next(d) \in D /\ next(d) > d)
  BY TokensAre
<1> HIDE DEF n, W, tok, goes, next
<1>3. rank \in [D -> 0..n + 2] /\ \A d \in D : rank[d] = n + 2 - d
  BY <1>1
<1>4. ASSUME NEW f \in [D -> T], NEW d \in D PROVE From(f, d) \in T
  <2> HIDE DEF D
  <2>1. CASE goes(d)
    <3>1. f[next(d)] \in T /\ tok(d) \in T
      BY <1>2, <2>1
    <3> DEFINE u == tok(d)
               v == f[next(d)]
    <3>2. u \in Seq(W) /\ v \in Seq(W)
      BY <3>1
    <3> HIDE DEF u, v
    <3>3. u \o v \in Seq(W)
      BY <3>2, Cat
    <3> QED BY <2>1, <3>3 DEF u, v
  <2>2. CASE ~goes(d)
    BY <1>2, <2>2
  <2> QED BY <2>1, <2>2
<1>5. H \in [[D -> T] -> [D -> T]] /\ \A f \in [D -> T], d \in D : H[f][d] = From(f, d)
  <2> HIDE DEF From, D, T
  <2> QED BY <1>4
<1>6. ASSUME NEW f \in [D -> T], NEW g \in [D -> T], NEW d \in D,
             \A e \in D : rank[e] < rank[d] => f[e] = g[e]
      PROVE  H[f][d] = H[g][d]
  <2>1. goes(d) => f[next(d)] = g[next(d)]
    <3> SUFFICES ASSUME goes(d) PROVE f[next(d)] = g[next(d)]
      OBVIOUS
    <3>1. next(d) \in D /\ next(d) > d
      BY <1>2
    <3>2. rank[next(d)] < rank[d]
      <4>1. rank[next(d)] = n + 2 - next(d) /\ rank[d] = n + 2 - d
        BY <1>3, <3>1
      <4> QED BY <1>1, <3>1, <4>1
    <3> HIDE DEF D, rank
    <3> QED BY <1>6, <3>1, <3>2
  <2>2. From(f, d) = From(g, d)
    <3> HIDE DEF D, rank
    <3> QED BY <2>1, Zenon
  <2> HIDE DEF H, From, D, rank
  <2> QED BY <1>5, <2>2, Zenon
<1>7. PICK f \in [D -> T] : f = H[f]
  <2> HIDE DEF H, D, rank
  <2>1. T # {}
    <3>1. <<>> \in Seq(W)
      OBVIOUS
    <3> QED BY <3>1
  <2>2. n + 2 \in Nat
    BY <1>1
  <2> HIDE DEF T
  <2>3. Recursive(D, T, rank, n + 2, H)
    BY ONLY <1>3, <1>5, <1>6, <2>1, <2>2, Zenon DEF Recursive
  <2> QED BY <2>3, RecursionEnds
<1>8. f = [d \in D |-> From(f, d)]
  <2> HIDE DEF H, From, D
  <2>1. \A d \in D : f[d] = From(f, d)
    BY <1>5, <1>7, Zenon
  <2> QED BY <2>1
<1>9. SplitBy(str, f)
  BY ONLY <1>8, Zenon DEF SplitBy, D, n, tok, goes, next
<1> QED BY <1>9 DEF D, n, T, W

(* Where a word begins, of those from prev on.                              *)
Begins(str, d, prev) ==
  {i \in prev..Len(str) : str[i] # d /\ (i = prev \/ str[i - 1] = d)}

(* r is what is behind prev, word by word.                                  *)
SplitWell(V, str, d, prev, r) ==
  /\ r \in Seq(Seq(V))
  /\ FlattenSeq(r) = Without({d}, SubSeq(str, prev, Len(str)))
  /\ Len(r) = Cardinality(Begins(str, d, prev))

LEMMA BeginsFew ==
  ASSUME NEW V, NEW str \in Seq(V), NEW d, NEW prev \in 1..(Len(str) + 1)
  PROVE  /\ IsFiniteSet(Begins(str, d, prev))
         /\ prev = Len(str) + 1 => Begins(str, d, prev) = {}
<1>1. Len(str) \in Nat
  OBVIOUS
<1>2. Begins(str, d, prev) \in SUBSET (prev..Len(str))
  BY DEF Begins
<1>3. IsFiniteSet(prev..Len(str))
  BY <1>1, FS_Interval
<1>4. IsFiniteSet(Begins(str, d, prev))
  BY ONLY <1>2, <1>3, FS_Subset
<1>5. prev = Len(str) + 1 => prev..Len(str) = {}
  BY <1>1
<1> QED BY <1>2, <1>4, <1>5

(* Lists behind each other, element by element.                             *)
LEMMA CatIs ==
  ASSUME NEW V, NEW z \in Seq(V), NEW u \in Seq(V), NEW v \in Seq(V),
         Len(z) = Len(u) + Len(v), \A i \in 1..Len(u) : z[i] = u[i],
         \A j \in 1..Len(v) : z[Len(u) + j] = v[j]
  PROVE  z = u \o v
<1> DEFINE c == u \o v
           n == Len(u)
           l == Len(v)
<1>1. c \in Seq(V) /\ Len(c) = n + l /\ n \in Nat /\ l \in Nat
  BY Cat
<1>2. (\A i \in 1..n : c[i] = u[i]) /\ \A j \in 1..l : c[n + j] = v[j]
  BY CatElements
<1>3. ASSUME NEW i \in 1..(n + l) PROVE z[i] = c[i]
  <2> HIDE DEF c
  <2>1. CASE i \in 1..n
    BY <1>2, <2>1
  <2>2. CASE i \notin 1..n
    <3> DEFINE j == i - n
    <3> HIDE DEF n, l
    <3>1. j \in 1..l /\ n + j = i
      BY <1>1, <2>2
    <3> HIDE DEF j
    <3>2. c[n + j] = v[j] /\ z[n + j] = v[j]
      BY <1>2, <3>1 DEF n, l
    <3> QED BY ONLY <3>1, <3>2
  <2> QED BY <2>1, <2>2
<1>4. Len(z) = n + l
  OBVIOUS
<1> HIDE DEF c, n, l
<1>5. z = c
  BY ONLY <1>1, <1>3, <1>4, z \in Seq(V), SeqEqual
<1> QED BY <1>5 DEF c

(* From prev on: a token up to pos, and what is behind it.                  *)
Suffix(V, str, prev, pos) ==
  LET n == Len(str)
      token == SubSeq(str, prev, pos - 1)
  IN  /\ token \in Seq(V) /\ SubSeq(str, pos, n) \in Seq(V)
      /\ token = <<>> <=> pos = prev
      /\ \A i \in 1..Len(token) : prev + i - 1 \in prev..(pos - 1)
                                  /\ token[i] = str[prev + i - 1]
      /\ SubSeq(str, prev, n) = token \o SubSeq(str, pos, n)
      /\ pos = n + 1 => SubSeq(str, pos, n) = <<>>
      /\ pos <= n => /\ SubSeq(str, pos + 1, n) \in Seq(V)
                     /\ SubSeq(str, pos, n) = One(str[pos]) \o SubSeq(str, pos + 1, n)

LEMMA SuffixSplits ==
  ASSUME NEW V, NEW str \in Seq(V), NEW prev \in 1..(Len(str) + 1),
         NEW pos \in prev..(Len(str) + 1)
  PROVE  Suffix(V, str, prev, pos)
<1> DEFINE n == Len(str)
           token == SubSeq(str, prev, pos - 1)
           tail == SubSeq(str, pos, n)
           less == SubSeq(str, pos + 1, n)
           whole == SubSeq(str, prev, n)
<1>1. n \in Nat /\ prev \in 1..(n + 1) /\ pos \in prev..(n + 1) /\ prev \in Nat /\ pos \in Nat
  OBVIOUS
<1>2. /\ token \in Seq(V) /\ Len(token) = pos - prev
      /\ \A i \in 1..Len(token) : token[i] = str[prev + i - 1]
  OBVIOUS
<1>3. /\ tail \in Seq(V) /\ Len(tail) = n + 1 - pos
      /\ \A i \in 1..Len(tail) : tail[i] = str[pos + i - 1]
  OBVIOUS
<1>4. /\ whole \in Seq(V) /\ Len(whole) = n + 1 - prev
      /\ \A i \in 1..Len(whole) : whole[i] = str[prev + i - 1]
  OBVIOUS
<1>5. pos <= n => /\ less \in Seq(V) /\ Len(less) = n - pos
                  /\ \A i \in 1..Len(less) : less[i] = str[pos + i]
  OBVIOUS
<1>6. pos <= n => str[pos] \in V
  OBVIOUS
<1> HIDE DEF token, tail, whole, less, n
<1>7. token = <<>> <=> pos = prev
  BY <1>1, <1>2
<1>8. \A i \in 1..Len(token) : prev + i - 1 \in prev..(pos - 1)
  BY <1>1, <1>2
<1>9. whole = token \o tail
  <2>1. Len(whole) = Len(token) + Len(tail) /\ Len(token) \in Nat /\ Len(tail) \in Nat
    BY <1>1, <1>2, <1>3, <1>4
  <2>2. ASSUME NEW i \in 1..Len(token) PROVE whole[i] = token[i]
    <3>1. i \in 1..Len(whole)
      BY <2>1
    <3> QED BY <1>2, <1>4, <3>1
  <2>3. ASSUME NEW j \in 1..Len(tail) PROVE whole[Len(token) + j] = tail[j]
    <3> DEFINE k == Len(token) + j
    <3>1. k \in 1..Len(whole) /\ prev + k - 1 = pos + j - 1
      BY <1>1, <1>2, <2>1
    <3> HIDE DEF k
    <3>2. whole[k] = tail[j]
      BY <1>3, <1>4, <3>1
    <3> QED BY <3>2 DEF k
  <2> QED BY ONLY <1>2, <1>3, <1>4, <2>1, <2>2, <2>3, CatIs
<1>10. pos = n + 1 => tail = <<>>
  BY <1>1, <1>3
<1>11. pos <= n => tail = One(str[pos]) \o less
  <2> SUFFICES ASSUME pos <= n PROVE tail = One(str[pos]) \o less
    OBVIOUS
  <2>1. One(str[pos]) \in Seq(V) /\ Len(One(str[pos])) = 1 /\ One(str[pos])[1] = str[pos]
    BY <1>6, OneIs
  <2> DEFINE o == One(str[pos])
  <2> HIDE DEF o
  <2>2. o \in Seq(V) /\ Len(o) = 1 /\ o[1] = str[pos]
    BY <2>1 DEF o
  <2>3. tail = o \o less
    <3>1. /\ tail \in Seq(V) /\ less \in Seq(V)
          /\ Len(tail) = Len(o) + Len(less) /\ Len(less) \in Nat /\ Len(o) = 1
      <4>1. Len(tail) = n + 1 - pos /\ Len(less) = n - pos /\ Len(o) = 1
        BY <1>3, <1>5, <2>2
      <4>2. n - pos \in Nat /\ n + 1 - pos = 1 + (n - pos)
        BY ONLY <1>1, pos <= n
      <4>3. tail \in Seq(V) /\ less \in Seq(V)
        BY <1>3, <1>5
      <4> QED BY ONLY <4>1, <4>2, <4>3
    <3>2. \A i \in 1..Len(o) : tail[i] = o[i]
      BY <1>1, <1>3, <2>2, <3>1
    <3>3. ASSUME NEW j \in 1..Len(less) PROVE tail[Len(o) + j] = less[j]
      <4> DEFINE k == Len(o) + j
      <4>1. k \in 1..Len(tail) /\ pos + k - 1 = pos + j
        BY <1>1, <3>1
      <4> HIDE DEF k
      <4>2. tail[k] = less[j]
        BY <1>3, <1>5, <4>1
      <4> QED BY <4>2 DEF k
    <3> QED BY ONLY <2>2, <3>1, <3>2, <3>3, CatIs
  <2> QED BY <2>3 DEF o
<1> QED BY <1>2, <1>3, <1>5, <1>7, <1>8, <1>9, <1>10, <1>11, Zenon
           DEF Suffix, token, tail, whole, less, n

LEMMA BeginsSplit ==
  ASSUME NEW V, NEW str \in Seq(V), NEW d, NEW prev \in 1..(Len(str) + 1),
         NEW pos \in prev..(Len(str) + 1),
         \A j \in prev..(pos - 1) : str[j] # d,
         pos = Len(str) + 1 \/ str[pos] = d
  PROVE  LET later == IF pos = Len(str) + 1 THEN {} ELSE Begins(str, d, pos + 1)
         IN  /\ prev \notin later
             /\ Begins(str, d, prev) = IF pos = prev THEN later ELSE later \cup {prev}
<1> DEFINE n == Len(str)
           later == IF pos = n + 1 THEN {} ELSE Begins(str, d, pos + 1)
           B == Begins(str, d, prev)
<1>1. n \in Nat /\ prev \in 1..(n + 1) /\ pos \in prev..(n + 1)
  OBVIOUS
<1> HIDE DEF n
<1>2. prev \notin later
  BY <1>1 DEF Begins, n
<1>3. ASSUME NEW i \in B PROVE i \in later \/ (i = prev /\ pos # prev)
  <2>1. i \in prev..n /\ str[i] # d /\ (i = prev \/ str[i - 1] = d)
    BY DEF Begins, n
  <2>2. CASE i <= pos
    <3>1. i # pos
      BY <1>1, <2>1 DEF n
    <3>2. i = prev
      <4> SUFFICES ASSUME i # prev PROVE FALSE
        OBVIOUS
      <4>1. i - 1 \in prev..(pos - 1)
        BY <1>1, <2>1, <2>2
      <4> QED BY <2>1, <4>1
    <3> QED BY <3>1, <3>2
  <2>3. CASE ~(i <= pos)
    <3>1. i \in (pos + 1)..n /\ pos # n + 1 /\ i # prev
      BY <1>1, <2>1, <2>3
    <3>2. i \in Begins(str, d, pos + 1)
      BY <2>1, <3>1 DEF Begins, n
    <3> QED BY <3>1, <3>2
  <2> QED BY <2>2, <2>3
<1>4. ASSUME NEW i \in later PROVE i \in B
  <2>1. /\ pos # n + 1 /\ i \in (pos + 1)..n /\ str[i] # d
        /\ i = pos + 1 \/ str[i - 1] = d
    BY <1>4 DEF Begins, n
  <2>2. i \in prev..n /\ (i = pos + 1 => i - 1 = pos)
    BY <1>1, <2>1
  <2>3. str[i - 1] = d
    BY <2>1, <2>2 DEF n
  <2> QED BY <2>1, <2>2, <2>3 DEF Begins, n
<1>5. pos # prev => prev \in B
  <2> SUFFICES ASSUME pos # prev PROVE prev \in B
    OBVIOUS
  <2>1. prev \in prev..n /\ prev \in prev..(pos - 1)
    BY <1>1
  <2> QED BY <2>1 DEF Begins, n
<1> HIDE DEF later, B
<1>6. B = IF pos = prev THEN later ELSE later \cup {prev}
  BY <1>3, <1>4, <1>5
<1> QED BY <1>2, <1>6 DEF later, B, n

(* If what is behind the token is split well, so is what is behind prev.    *)
LEMMA SplitGoesOn ==
  ASSUME NEW V, NEW str \in Seq(V), NEW d, NEW prev \in 1..(Len(str) + 1),
         NEW pos \in prev..(Len(str) + 1), NEW r, NEW tokens,
         \A j \in prev..(pos - 1) : str[j] # d,
         pos = Len(str) + 1 \/ str[pos] = d,
         IF pos = Len(str) + 1 THEN r = <<>> ELSE SplitWell(V, str, d, pos + 1, r),
         tokens = (LET token == SubSeq(str, prev, pos - 1)
                   IN  IF token = <<>> THEN <<>> ELSE One(token))
  PROVE  SplitWell(V, str, d, prev, tokens \o r)
<1> DEFINE n == Len(str)
           token == SubSeq(str, prev, pos - 1)
           tail == SubSeq(str, pos, n)
           less == SubSeq(str, pos + 1, n)
           whole == SubSeq(str, prev, n)
           ends == {d}
           later == IF pos = n + 1 THEN {} ELSE Begins(str, d, pos + 1)
           W == Seq(V)
           w(s) == Without(ends, s)
<1>1. n \in Nat /\ prev \in 1..(n + 1) /\ pos \in prev..(n + 1)
  OBVIOUS
<1>2. Suffix(V, str, prev, pos)
  BY SuffixSplits
<1>3. /\ token \in Seq(V) /\ tail \in Seq(V)
      /\ token = <<>> <=> pos = prev
      /\ \A i \in 1..Len(token) : prev + i - 1 \in prev..(pos - 1)
                                  /\ token[i] = str[prev + i - 1]
      /\ whole = token \o tail
      /\ pos = n + 1 => tail = <<>>
      /\ pos <= n => less \in Seq(V) /\ tail = One(str[pos]) \o less
  BY ONLY <1>2, Zenon DEF Suffix, token, tail, less, whole, n
<1>4. tokens = IF token = <<>> THEN <<>> ELSE One(token)
  OBVIOUS
<1>5. IF pos = n + 1 THEN r = <<>>
      ELSE r \in Seq(W) /\ FlattenSeq(r) = w(less) /\ Len(r) = Cardinality(Begins(str, d, pos + 1))
  BY Zenon DEF SplitWell, W, less, ends, n
<1>6. /\ prev \notin later
      /\ Begins(str, d, prev) = IF pos = prev THEN later ELSE later \cup {prev}
  BY BeginsSplit DEF later, n
<1>7. r \in Seq(W) /\ Len(r) = Cardinality(later) /\ IsFiniteSet(later)
  <2>1. CASE pos = n + 1
    <3>1. <<>> \in Seq(W) /\ Len(<<>>) = 0
      OBVIOUS
    <3>2. IsFiniteSet({}) /\ Cardinality({}) = 0
      BY FS_EmptySet
    <3> HIDE DEF W
    <3> QED BY <1>5, <2>1, <3>1, <3>2
  <2>2. CASE pos # n + 1
    <3>1. pos + 1 \in 1..(n + 1)
      BY <1>1, <2>2
    <3>2. IsFiniteSet(Begins(str, d, pos + 1))
      BY <3>1, BeginsFew
    <3> QED BY <1>5, <2>2, <3>2
  <2> QED BY <2>1, <2>2
<1>8. FlattenSeq(r) = w(tail)
  <2>1. CASE pos = n + 1
    BY <1>3, <1>5, <2>1, WithoutEmpty, FlattenEmpty, Zenon
  <2>2. CASE pos # n + 1
    <3>1. pos <= n /\ str[pos] = d /\ str[pos] \in V
      BY <1>1, <2>2
    <3> DEFINE o == One(d)
    <3>2. o \in Seq(V) /\ o[1] = d /\ Len(o) = 1
      BY <3>1, OneIs
    <3>3. less \in Seq(V) /\ tail = o \o less
      BY <1>3, <3>1
    <3> HIDE DEF o, less, tail, ends
    <3>4. Joins(ends, o, less)
      BY ONLY <3>2, <3>3, WithoutConcat, SMT
    <3>5. w(o) = <<>>
      <4>1. \A i \in 1..Len(o) : o[i] \in ends
        BY <3>2 DEF ends
      <4> QED BY <3>2, <4>1, WithoutAll
    <3>6. w(less) \in Seq(V)
      BY <3>3, WithoutKeeps
    <3>7. <<>> \o w(less) = w(less)
      BY <3>6, ConcatEmptySeq
    <3> QED BY <1>5, <2>2, <3>3, <3>4, <3>5, <3>7, Zenon DEF Joins
  <2> QED BY <2>1, <2>2
<1> HIDE DEF later, less, n, ends
<1>9. w(whole) = token \o w(tail) /\ w(tail) \in Seq(V)
  <2>1. w(token) = token
    <3>1. \A i \in 1..Len(token) : token[i] \notin ends
      <4> HIDE DEF token
      <4> QED BY <1>3 DEF ends
    <3> HIDE DEF token
    <3> QED BY <1>3, <3>1, WithoutNone
  <2> HIDE DEF token, tail
  <2>2. Joins(ends, token, tail)
    BY ONLY <1>3, WithoutConcat, SMT
  <2>3. w(tail) \in Seq(V)
    BY <1>3, WithoutKeeps
  <2> QED BY <1>3, <2>1, <2>2, <2>3, Zenon DEF Joins
<1> HIDE DEF token, tail, whole, w
<1>10. CASE token = <<>>
  <2>1. <<>> \o r = r
    <3> HIDE DEF W
    <3> QED BY <1>7, ConcatEmptySeq
  <2>2. <<>> \o w(tail) = w(tail)
    BY <1>9, ConcatEmptySeq
  <2>3. tokens \o r = r /\ w(whole) = w(tail) /\ Begins(str, d, prev) = later
    BY <1>3, <1>4, <1>6, <1>9, <1>10, <2>1, <2>2, Zenon
  <2> QED BY <1>7, <1>8, <2>3, Zenon DEF SplitWell, W, w, whole, ends, n
<1>11. CASE token # <<>>
  <2> DEFINE o == One(token)
             v == o \o r
  <2>1. o \in Seq(W) /\ Len(o) = 1
    <3>1. token \in W
      BY <1>3
    <3> HIDE DEF W
    <3> QED BY <3>1, OneIs
  <2>2. FlattenSeq(v) = token \o FlattenSeq(r)
    BY <1>3, <1>7, FlattenBefore DEF One
  <2> HIDE DEF o
  <2>3. v \in Seq(W) /\ Len(v) = 1 + Len(r)
    <3> HIDE DEF W
    <3> QED BY ONLY <1>7, <2>1, Cat
  <2> HIDE DEF v
  <2>4. Begins(str, d, prev) = later \cup {prev}
    BY <1>3, <1>6, <1>11
  <2>5. Cardinality(later \cup {prev}) = Cardinality(later) + 1
    BY <1>6, <1>7, FS_AddElement
  <2>6. Len(v) = Cardinality(Begins(str, d, prev))
    <3>1. Len(r) \in Nat
      <4> HIDE DEF W
      <4> QED BY <1>7
    <3> QED BY ONLY <1>7, <2>3, <2>4, <2>5, <3>1
  <2>7. FlattenSeq(v) = w(whole)
    BY <1>8, <1>9, <2>2
  <2>8. tokens \o r = v
    BY <1>4, <1>11 DEF v, o
  <2> QED BY <2>3, <2>6, <2>7, <2>8, Zenon DEF SplitWell, W, w, whole, ends, n
<1> QED BY <1>10, <1>11

LEMMA SplitIsWell ==
  ASSUME NEW V, NEW str \in Seq(V)
  PROVE  SplitWell(V, str, " ", 1, Split(str, " "))
<1> DEFINE n == Len(str)
           d == " "
           f == CHOOSE f : SplitBy(str, f)
           pos(p) == Found(str, " ", p)
           tok(p) == TokensAt(str, p)
           goes(p) == GoesOnAt(str, p)
           Well(p, r) == SplitWell(V, str, d, p, r)
           Z == {m \in Nat : \A p \in 1..(n + 1) : p > n + 1 - m => Well(p, f[p])}
<1>1. n \in Nat
  OBVIOUS
<1>2. \A p \in 1..(n + 2) : f[p] = IF goes(p) THEN tok(p) \o f[pos(p) + 1] ELSE tok(p)
  <2>1. \E g : SplitBy(str, g)
    BY SplitEnds, Zenon
  <2>2. SplitBy(str, f)
    BY <2>1, Zenon
  <2> HIDE DEF f
  <2> QED BY <2>2, Zenon DEF SplitBy, n
<1>3. Split(str, " ") = f[1]
  BY SplitIs
<1>4. ASSUME NEW p \in 1..(n + 1)
      PROVE  /\ pos(p) \in p..(n + 1)
             /\ \A j \in p..(pos(p) - 1) : str[j] # d
             /\ pos(p) = n + 1 \/ str[pos(p)] = d
  <2> DEFINE ends == {d}
  <2>1. pos(p) = Until(str, p, ends)
    BY FoundIs
  <2> HIDE DEF pos, d
  <2>2. /\ pos(p) \in p..(n + 1)
        /\ \A j \in p..(pos(p) - 1) : str[j] \notin ends
        /\ pos(p) = n + 1 \/ str[pos(p)] \in ends
    BY <2>1, UntilComes
  <2> QED BY <2>2
<1>5. \A p : tok(p) = (LET token == SubSeq(str, p, pos(p) - 1)
                       IN  IF token = <<>> THEN <<>> ELSE One(token))
  BY Zenon DEF TokensAt, One
<1>6. \A p : goes(p) <=> pos(p) < n + 1 /\ pos(p) + 1 < n + 1
  BY Zenon DEF GoesOnAt
<1> HIDE DEF f, pos, tok, goes, d
<1>7. ASSUME NEW p \in 1..(n + 1), NEW r,
             IF pos(p) = n + 1 THEN r = <<>> ELSE Well(pos(p) + 1, r)
      PROVE  Well(p, tok(p) \o r)
  BY <1>4, <1>5, <1>7, SplitGoesOn
<1>8. ASSUME NEW m \in Nat, m \in Z PROVE m + 1 \in Z
  <2> SUFFICES ASSUME NEW p \in 1..(n + 1), p > n + 1 - (m + 1) PROVE Well(p, f[p])
    BY DEF Z
  <2>1. p \in 1..(n + 2) /\ pos(p) \in p..(n + 1)
    BY <1>1, <1>4
  <2>2. CASE goes(p)
    <3> DEFINE q == pos(p) + 1
    <3>1. q \in 1..(n + 1) /\ q > n + 1 - m /\ pos(p) # n + 1
      BY <1>1, <1>6, <2>1, <2>2
    <3> HIDE DEF q, Well
    <3>2. Well(q, f[q])
      BY <1>8, <3>1
    <3>3. Well(p, tok(p) \o f[q])
      BY <1>7, <3>1, <3>2 DEF q
    <3>4. f[p] = tok(p) \o f[q]
      BY <1>2, <2>1, <2>2 DEF q
    <3> QED BY <3>3, <3>4
  <2>3. CASE ~goes(p)
    <3>1. tok(p) \o <<>> = tok(p)
      <4> DEFINE W == Seq(V)
      <4>1. tok(p) \in Seq(W)
        BY <2>1, TokensAre DEF tok, n
      <4> HIDE DEF W
      <4> QED BY <4>1, ConcatEmptySeq
    <3>2. pos(p) # n + 1 => Well(pos(p) + 1, <<>>)
      <4> SUFFICES ASSUME pos(p) # n + 1 PROVE Well(pos(p) + 1, <<>>)
        OBVIOUS
      <4> DEFINE q == pos(p) + 1
      <4>1. q = n + 1
        BY <1>1, <1>6, <2>1, <2>3
      <4>2. Begins(str, d, q) = {}
        BY <1>1, <4>1, BeginsFew
      <4>3. Cardinality({}) = 0
        BY FS_EmptySet
      <4>4. SubSeq(str, q, n) = <<>>
        <5> HIDE DEF q
        <5> QED BY <1>1, <4>1, SubSeqEmpty
      <4>5. Without({d}, <<>>) = <<>>
        BY WithoutEmpty
      <4> HIDE DEF q
      <4>6. /\ <<>> \in Seq(Seq(V))
            /\ FlattenSeq(<<>>) = Without({d}, SubSeq(str, q, Len(str)))
            /\ Len(<<>>) = Cardinality(Begins(str, d, q))
        BY <4>2, <4>3, <4>4, <4>5, FlattenEmpty
      <4> QED BY <4>6 DEF SplitWell, q
    <3> HIDE DEF Well
    <3>3. Well(p, tok(p) \o <<>>)
      BY <1>7, <3>2
    <3>4. f[p] = tok(p)
      BY <1>2, <2>1, <2>3
    <3> QED BY <3>1, <3>3, <3>4
  <2> QED BY <2>2, <2>3
<1>9. 0 \in Z
  <2> SUFFICES ASSUME NEW p \in 1..(n + 1), p > n + 1 - 0 PROVE FALSE
    OBVIOUS
  <2> QED BY <1>1
<1>10. n + 1 \in Z
  <2> HIDE DEF Z
  <2>1. Nat \subseteq Z
    BY <1>8, <1>9, Induction
  <2> QED BY <1>1, <2>1
<1>11. Well(1, f[1])
  <2>1. 1 \in 1..(n + 1) /\ 1 > n + 1 - (n + 1)
    BY <1>1
  <2> HIDE DEF Well
  <2> QED BY <1>10, <2>1
<1> QED BY <1>3, <1>11 DEF d

LEMMA MessageSubject ==
  ASSUME Subjects, subject.of = "message"
  PROVE  subject.text \in Seq(Chars)
<1>1. \A s \in Corrections \cup Windows \cup Fetches \cup SetUps : s.of # "message"
  BY DEF Corrections, Windows, Fetches, SetUps
<1>2. \A s \in HeapChanges \cup PeriodicChanges \cup ArrayGrowths \cup Files \cup Starts :
        s.of # "message"
  BY DEF HeapChanges, PeriodicChanges, ArrayGrowths, Files, Starts
<1>3. \A s \in HookChanges : s.of # "message"
  BY DEF HookChanges
<1>4. NoSubject.of # "message"
  BY DEF NoSubject
<1>5. subject \in Messages
  BY <1>1, <1>2, <1>3, <1>4, Zenon DEF Subjects
<1> HIDE DEF Chars
<1>6. subject.text \in Texts
  BY <1>5 DEF Messages
<1> QED BY <1>6, InputAssumption, Zenon

LEMMA MessagesAreSplit ==
  ASSUME Subjects
  PROVE  MessageIsSplit
<1> SUFFICES ASSUME subject.of = "message" PROVE MessageIsSplit
  BY DEF MessageIsSplit
<1> DEFINE str == subject.text
           words == Split(str, " ")
           letter(c) == c # " "
           starts == {i \in DOMAIN str : letter(str[i]) /\ (i = 1 \/ ~letter(str[i - 1]))}
<1>1. str \in Seq(Chars)
  BY MessageSubject
<1>2. SplitWell(Chars, str, " ", 1, words)
  BY <1>1, SplitIsWell
<1>3. SubSeq(str, 1, Len(str)) = str
  BY <1>1
<1>4. starts = Begins(str, " ", 1)
  <2>1. DOMAIN str = 1..Len(str)
    BY <1>1
  <2> QED BY <2>1 DEF Begins
<1>5. FlattenSeq(words) = Without({" "}, str) /\ Len(words) = Cardinality(starts)
  BY <1>2, <1>3, <1>4, Zenon DEF SplitWell
<1>6. OnCtlReadyMsgCb(str) = {}
  BY DEF OnCtlReadyMsgCb, CommandType
<1> QED BY <1>5, <1>6, Zenon DEF MessageIsSplit

--------------------------------------------------------------------------------
(* The start of the program.                                                *)

ProgOf(told, made, pins) == [told |-> told, made |-> made, pins |-> pins]

LEMMA ProgIs ==
  ASSUME NEW told, NEW made, NEW pins
  PROVE  /\ ProgOf(told, made, pins).told = told /\ ProgOf(told, made, pins).made = made
         /\ ProgOf(told, made, pins).pins = pins
         /\ Running(ProgOf(told, made, pins)) <=> told = NoSection
         /\ \A s : Fails(ProgOf(told, made, pins), s) = ProgOf(s, made, pins)
         /\ \A part, as : Make(ProgOf(told, made, pins), part, as)
                            = ProgOf(told, With(made, part, as), pins)
BY DEF ProgOf, Running, Fails, Make

StepperKeys == {"en", "dir", "step", "err", "divider", "stepsize"}

(* What each section makes of a program that runs: first whether it fails.  *)
LEMMA CommonDoes ==
  ASSUME NEW conf, NEW world, NEW made, NEW pins
  PROVE  LET p == Common(ProgOf(NoSection, made, pins), conf)
         IN  IF Wrong(conf, world, "common") THEN p = ProgOf("common", made, pins)
             ELSE \E as : p = ProgOf(NoSection, With(made, "calibration", as), pins)
<1> DEFINE file == Conf(conf, "common", "calibfile")
           q == ProgOf(NoSection, made, pins)
           p == Common(q, conf)
<1>1. p = IF file = <<"text", "">> THEN Fails(q, "common") ELSE Make(q, "calibration", file)
  BY Zenon DEF Common, SetFileName
<1>2. Wrong(conf, world, "common") <=> file = <<"text", "">>
  BY DEF Wrong
<1>3. /\ Fails(q, "common") = ProgOf("common", made, pins)
      /\ Make(q, "calibration", file) = ProgOf(NoSection, With(made, "calibration", file), pins)
  BY ProgIs
<1> HIDE DEF p, q, file
<1> QED BY <1>1, <1>2, <1>3, Zenon DEF p, q

LEMMA ServerDoes ==
  ASSUME NEW conf, NEW world, NEW made, NEW pins
  PROVE  LET p == Server(ProgOf(NoSection, made, pins), conf, world)
         IN  IF Wrong(conf, world, "tcpctl") THEN p = ProgOf("tcpctl", made, pins)
             ELSE \E as : p = ProgOf(NoSection, With(made, "server", as), pins)
<1> DEFINE good == AreNumbers(conf, "tcpctl", {"port", "keepalive"}) /\ world.binds
           q == ProgOf(NoSection, made, pins)
           p == Server(q, conf, world)
           as == TcpServer(conf)
<1>1. p = IF good THEN Make(q, "server", as) ELSE Fails(q, "tcpctl")
  BY Zenon DEF Server
<1>2. Wrong(conf, world, "tcpctl") <=> ~good
  BY Zenon DEF Wrong
<1>3. /\ Fails(q, "tcpctl") = ProgOf("tcpctl", made, pins)
      /\ Make(q, "server", as) = ProgOf(NoSection, With(made, "server", as), pins)
  BY ProgIs
<1> HIDE DEF p, q, as, good
<1> QED BY <1>1, <1>2, <1>3, Zenon DEF p, q

AxesOf(conf) == [a \in {"x", "y", "z"} |-> Conf(conf, "msensor", AxisKey[a])[2]]

LEMMA MsensorDoes ==
  ASSUME NEW conf, NEW world, NEW made, NEW pins
  PROVE  LET p == Msensor(ProgOf(NoSection, made, pins), conf, world)
         IN  IF Wrong(conf, world, "msensor") THEN \E m : p = ProgOf("msensor", m, pins)
             ELSE \E as : p = ProgOf(NoSection, With(With(made, "compass", as),
                                                     "axes", AxesOf(conf)), pins)
<1> DEFINE q == ProgOf(NoSection, made, pins)
           p == Msensor(q, conf, world)
           c == CompassMade(q, conf)
           as == SensorOf(Conf(conf, "msensor", "device"))
           mc == With(made, "compass", as)
           ma == With(mc, "axes", AxesOf(conf))
           axes == \A a \in {"x", "y", "z"} : IsAxis(Conf(conf, "msensor", AxisKey[a]))
           numbers == AreNumbers(conf, "msensor", {"fpoints", "fcoef"})
           bus == I2c(conf, world)
<1>1. p = IF ~bus THEN Fails(q, "msensor")
          ELSE IF ~axes THEN Fails(c, "msensor")
          ELSE IF ~numbers THEN Fails(Mapped(c, conf), "msensor") ELSE Mapped(c, conf)
  BY Zenon DEF Msensor
<1>2. c = ProgOf(NoSection, mc, pins)
  <2>1. Make(q, "compass", as) = ProgOf(NoSection, mc, pins)
    BY ProgIs
  <2> QED BY ONLY <2>1, Zenon DEF CompassMade, c, as
<1>3. Mapped(c, conf) = ProgOf(NoSection, ma, pins)
  <2> HIDE DEF mc, c
  <2>1. Make(c, "axes", AxesOf(conf)) = ProgOf(NoSection, ma, pins)
    BY <1>2, ProgIs
  <2> QED BY ONLY <2>1, Zenon DEF Mapped, AxesOf
<1>4. Wrong(conf, world, "msensor") <=> ~bus \/ ~axes \/ ~numbers
  <2> DEFINE three == AreNumbers(conf, "msensor", {"i2cbus", "fpoints", "fcoef"})
  <2>1. Wrong(conf, world, "msensor") <=> ~three \/ ~world.bus \/ ~axes
    BY DEF Wrong, Axes
  <2>2. three <=> numbers /\ IsNumber(Conf(conf, "msensor", "i2cbus"))
    BY Zenon DEF AreNumbers
  <2>3. bus <=> IsNumber(Conf(conf, "msensor", "i2cbus")) /\ world.bus
    BY Zenon DEF I2c
  <2> HIDE DEF three, numbers, bus, axes
  <2> QED BY <2>1, <2>2, <2>3
<1>5. /\ Fails(q, "msensor") = ProgOf("msensor", made, pins)
      /\ Fails(c, "msensor") = ProgOf("msensor", mc, pins)
      /\ Fails(Mapped(c, conf), "msensor") = ProgOf("msensor", ma, pins)
  <2> HIDE DEF mc, ma, c
  <2> QED BY <1>2, <1>3, ProgIs
<1> HIDE DEF p, q, c, as, axes, numbers, bus
<1> QED BY <1>1, <1>3, <1>4, <1>5, Zenon DEF p, q, mc, ma

PinsOf(conf) == [k \in {"en", "dir", "step", "err"} |-> Conf(conf, "stepper", k)[2]]

LEMMA StepperDoes ==
  ASSUME NEW conf, NEW world, NEW made, NEW pins
  PROVE  LET p == Stepper(ProgOf(NoSection, made, pins), conf, world)
             n == PinsOf(conf)
         IN  IF Wrong(conf, world, "stepper") THEN p = ProgOf("stepper", made, pins)
             ELSE \E as : p = ProgOf(NoSection, With(made, "table", as),
                                     ErrorPin(StepPins(pins, n), n))
<1> DEFINE good == AreNumbers(conf, "stepper", StepperKeys) /\ world.file # "spoilt"
           q == ProgOf(NoSection, made, pins)
           p == Stepper(q, conf, world)
           n == PinsOf(conf)
           as == IF world.file = "table" THEN "read" ELSE "empty"
           r == Make(q, "table", as)
           newpins == ErrorPin(StepPins(pins, n), n)
<1>1. p = IF good THEN StepDrvMade(q, n, world) ELSE Fails(q, "stepper")
  BY Zenon DEF Stepper, PinsOf, StepperKeys
<1>2. Wrong(conf, world, "stepper") <=> ~good
  BY DEF Wrong, StepperKeys
<1>3. /\ Fails(q, "stepper") = ProgOf("stepper", made, pins)
      /\ r = ProgOf(NoSection, With(made, "table", as), pins)
  BY ProgIs
<1>4. StepDrvMade(q, n, world) = [r EXCEPT !.pins = ErrorPin(StepPins(@, n), n)]
  BY Zenon DEF StepDrvMade
<1> HIDE DEF p, q, good, as, r, n
<1>5. StepDrvMade(q, n, world) = ProgOf(NoSection, With(made, "table", as), newpins)
  <2> DEFINE m == With(made, "table", as)
  <2>1. [ProgOf(NoSection, m, pins) EXCEPT !.pins = ErrorPin(StepPins(@, n), n)]
          = ProgOf(NoSection, m, newpins)
    <3>1. [ProgOf(NoSection, m, pins) EXCEPT !.pins = ErrorPin(StepPins(@, n), n)]
            = [ProgOf(NoSection, m, pins) EXCEPT
                 !.pins = ErrorPin(StepPins(ProgOf(NoSection, m, pins).pins, n), n)]
      OBVIOUS
    <3> HIDE DEF m
    <3>2. ProgOf(NoSection, m, pins).pins = pins
      BY DEF ProgOf
    <3>3. [ProgOf(NoSection, m, pins) EXCEPT !.pins = newpins] = ProgOf(NoSection, m, newpins)
      <4> HIDE DEF newpins
      <4> QED BY DEF ProgOf
    <3> QED BY ONLY <3>1, <3>2, <3>3, Zenon DEF newpins
  <2> QED BY <1>3, <1>4, <2>1
<1> HIDE DEF newpins
<1> QED BY <1>1, <1>2, <1>3, <1>5, Zenon DEF p, q, newpins, n

(* The pins.                                                                *)
PinType == [dir : {"none", "in", "out"}, level : BOOLEAN, edge : {"none", "rising"}]

GpioSet(N, pins, n, dir, new) ==
  /\ new \in [N -> PinType] /\ new[n].dir = dir
  /\ \A k \in N : /\ k # n => new[k] = pins[k]
                  /\ pins[k].edge = "none" => new[k].edge = "none"

LEMMA GpioDoes ==
  ASSUME NEW N, NEW pins \in [N -> PinType], NEW n \in N, NEW dir \in {"in", "out"}
  PROVE  GpioSet(N, pins, n, dir, Gpio(pins, n, dir))
<1> DEFINE e == Export(pins, n)
           new == Gpio(pins, n, dir)
           fresh == [NotExported EXCEPT !.dir = "in"]
<1>1. NotExported \in PinType /\ NotExported.edge = "none"
  BY DEF NotExported, PinType
<1>2. e = IF pins[n].dir # "none" THEN pins ELSE [pins EXCEPT ![n] = fresh]
  BY Zenon DEF Export
<1>3. fresh \in PinType /\ fresh.edge = "none"
  BY <1>1 DEF PinType
<1> HIDE DEF e, fresh
<1>4. /\ e \in [N -> PinType]
      /\ \A k \in N : k # n => e[k] = pins[k]
      /\ pins[n].edge = "none" => e[n].edge = "none"
  <2> HIDE DEF PinType
  <2> QED BY <1>2, <1>3
<1>5. new = [e EXCEPT ![n].dir = dir]
  BY Zenon DEF Gpio, e
<1> DEFINE r == [e[n] EXCEPT !.dir = dir]
<1>6. r \in PinType /\ r.dir = dir /\ r.edge = e[n].edge
  <2>1. e[n] \in PinType
    BY <1>4
  <2> QED BY <2>1 DEF PinType
<1>7. new = [e EXCEPT ![n] = r]
  BY <1>5
<1> HIDE DEF r, new
<1>8. new \in [N -> PinType] /\ new[n] = r /\ \A k \in N : k # n => new[k] = e[k]
  <2> HIDE DEF PinType
  <2> QED BY <1>4, <1>6, <1>7
<1> HIDE DEF PinType
<1>9. \A k \in N : /\ k # n => new[k] = pins[k]
                   /\ pins[k].edge = "none" => new[k].edge = "none"
  BY <1>4, <1>6, <1>8
<1> QED BY <1>6, <1>8, <1>9 DEF new, GpioSet

PinsWell(N, pins, n, new) ==
  /\ new \in [N -> PinType]
  /\ new[n.en] = [dir |-> "out", level |-> TRUE, edge |-> "none"]
  /\ new[n.dir].dir = "out" /\ new[n.step].dir = "out"
  /\ \A k \in N : new[k].edge = "none"

LEMMA PinIs ==
  ASSUME NEW x \in PinType, NEW dir, NEW level, NEW edge,
         x.dir = dir, x.level = level, x.edge = edge
  PROVE  x = [dir |-> dir, level |-> level, edge |-> edge]
BY DEF PinType

LEMMA StepPinsDo ==
  ASSUME NEW N, NEW pins \in [N -> PinType], NEW n,
         n.en \in N /\ n.dir \in N /\ n.step \in N, \A k \in N : pins[k].edge = "none"
  PROVE  PinsWell(N, pins, n, StepPins(pins, n))
<1> DEFINE a == Gpio(pins, n.step, "out")
           b == Gpio(a, n.dir, "out")
           c == Gpio(b, n.en, "out")
           new == StepPins(pins, n)
<1>1. /\ a \in [N -> PinType] /\ a[n.step].dir = "out" /\ \A k \in N : a[k].edge = "none"
  BY GpioDoes DEF GpioSet
<1> HIDE DEF a
<1>2. /\ b \in [N -> PinType] /\ b[n.dir].dir = "out" /\ b[n.step].dir = "out"
      /\ \A k \in N : b[k].edge = "none"
  <2>1. /\ b \in [N -> PinType] /\ b[n.dir].dir = "out"
        /\ \A k \in N : (k # n.dir => b[k] = a[k]) /\ (a[k].edge = "none" => b[k].edge = "none")
    <3>1. GpioSet(N, a, n.dir, "out", b)
      BY <1>1, GpioDoes, Zenon DEF b
    <3> QED BY ONLY <3>1 DEF GpioSet
  <2> HIDE DEF b, PinType
  <2> QED BY <1>1, <2>1
<1> HIDE DEF b
<1>3. /\ c \in [N -> PinType] /\ c[n.en].dir = "out" /\ c[n.dir].dir = "out"
      /\ c[n.step].dir = "out" /\ \A k \in N : c[k].edge = "none"
  <2>1. /\ c \in [N -> PinType] /\ c[n.en].dir = "out"
        /\ \A k \in N : (k # n.en => c[k] = b[k]) /\ (b[k].edge = "none" => c[k].edge = "none")
    <3>1. GpioSet(N, b, n.en, "out", c)
      BY <1>2, GpioDoes, Zenon DEF c
    <3> QED BY ONLY <3>1 DEF GpioSet
  <2> HIDE DEF c, PinType
  <2> QED BY <1>2, <2>1
<1> DEFINE r == [c[n.en] EXCEPT !.level = TRUE]
<1>4. new = [c EXCEPT ![n.en].level = (TRUE # FALSE)]
  BY Zenon DEF StepPins, SetVal, a, b, c
<1> HIDE DEF c
<1>5. new = [c EXCEPT ![n.en] = r]
  BY <1>4
<1>6. /\ r \in PinType /\ r = [dir |-> "out", level |-> TRUE, edge |-> "none"]
      /\ r.dir = "out" /\ r.edge = "none"
  <2>1. c[n.en] \in PinType /\ c[n.en].dir = "out" /\ c[n.en].edge = "none"
    BY <1>3
  <2>2. r \in PinType /\ r.dir = "out" /\ r.edge = "none" /\ r.level = TRUE
    BY <2>1 DEF PinType
  <2> HIDE DEF r, PinType
  <2> QED BY <2>2, PinIs
<1> HIDE DEF r, new, PinType
<1>7. new \in [N -> PinType] /\ new[n.en] = r /\ \A k \in N : k # n.en => new[k] = c[k]
  BY <1>3, <1>5, <1>6
<1>8. /\ new[n.dir].dir = "out" /\ new[n.step].dir = "out"
      /\ \A k \in N : new[k].edge = "none"
  BY <1>3, <1>6, <1>7
<1> QED BY <1>6, <1>7, <1>8 DEF PinsWell, new

LEMMA ErrorPinDoes ==
  ASSUME NEW N, NEW pins, NEW q, NEW n, PinsWell(N, pins, n, q),
         n.en \in N /\ n.dir \in N /\ n.step \in N /\ n.err \in N,
         n.err # 0 => n.err # n.en /\ n.err # n.dir /\ n.err # n.step
  PROVE  LET new == ErrorPin(q, n)
         IN  /\ new[n.en] = [dir |-> "out", level |-> TRUE, edge |-> "none"]
             /\ new[n.dir].dir = "out" /\ new[n.step].dir = "out"
             /\ new[n.err].edge = "rising" <=> n.err # 0
<1> DEFINE g == Gpio(q, n.err, "in")
           new == ErrorPin(q, n)
<1>1. new = IF n.err = 0 THEN q ELSE SetRisingEdge(g, n.err)
  BY Zenon DEF ErrorPin
<1>2. /\ q \in [N -> PinType]
      /\ q[n.en] = [dir |-> "out", level |-> TRUE, edge |-> "none"]
      /\ q[n.dir].dir = "out" /\ q[n.step].dir = "out" /\ q[n.err].edge = "none"
  BY DEF PinsWell
<1>3. g \in [N -> PinType] /\ \A k \in N : k # n.err => g[k] = q[k]
  BY <1>2, GpioDoes DEF GpioSet
<1> HIDE DEF g, new
<1>4. CASE n.err = 0
  BY <1>1, <1>2, <1>4 DEF new
<1>5. CASE n.err # 0
  <2>1. new = [g EXCEPT ![n.err].edge = "rising"]
    BY <1>1, <1>5, Zenon DEF SetRisingEdge
  <2>2. g[n.err] \in PinType
    BY <1>3
  <2> DEFINE r == [g[n.err] EXCEPT !.edge = "rising"]
  <2>3. r.edge = "rising"
    BY <2>2 DEF PinType
  <2>4. new = [g EXCEPT ![n.err] = r]
    BY <2>1
  <2> HIDE DEF r, PinType
  <2>5. new[n.err] = r /\ \A k \in N : k # n.err => new[k] = q[k]
    BY <1>3, <2>4
  <2>6. new[n.en] = q[n.en] /\ new[n.dir] = q[n.dir] /\ new[n.step] = q[n.step]
    BY <1>5, <2>5
  <2> QED BY <1>2, <1>5, <2>3, <2>5, <2>6 DEF new
<1> QED BY <1>4, <1>5

LEMMA MapAxesKeeps ==
  ASSUME NEW axes, DOMAIN axes = {"x", "y", "z"}, \A a \in {"x", "y", "z"} : axes[a] \in AxisNames,
         IsInjective(axes)
  PROVE  IsInjective(MapAxes(axes, [x |-> 1, y |-> 2, z |-> 3]))
<1> DEFINE m == [x |-> 1, y |-> 2, z |-> 3]
           new == MapAxes(axes, m)
           A == {"x", "y", "z"}
<1>1. DOMAIN new = A
  BY DEF MapAxes
<1>2. ASSUME NEW a \in A
      PROVE  /\ axes[a] = "axis_x" => new[a] = 1
             /\ axes[a] = "axis_y" => new[a] = 2
             /\ axes[a] = "axis_z" => new[a] = 3
             /\ axes[a] = "-axis_x" => new[a] = -1
             /\ axes[a] = "-axis_y" => new[a] = -2
             /\ axes[a] = "-axis_z" => new[a] = -3
  BY DEF MapAxes
<1> HIDE DEF new, A
<1>3. ASSUME NEW a \in A, NEW b \in A, new[a] = new[b] PROVE a = b
  <2>1. axes[a] \in AxisNames /\ axes[b] \in AxisNames
    BY DEF A
  <2>2. axes[a] = axes[b]
    BY <1>2, <1>3, <2>1 DEF AxisNames
  <2> QED BY <2>2 DEF IsInjective, A
<1>4. IsInjective(new)
  BY <1>1, <1>3 DEF IsInjective
<1> QED BY <1>4 DEF new, m

(* What runs, and with what.                                                *)
Runs(p, conf) ==
  LET pin(k) == p.pins[Conf(conf, "stepper", k)[2]]
      m == [x |-> 1, y |-> 2, z |-> 3]
  IN  /\ Running(p)
      /\ DOMAIN p.made = {"calibration", "server", "compass", "axes", "table", "loop"}
      /\ p.made.loop.watched /\ p.made.loop.entered
      /\ pin("en") = [dir |-> "out", level |-> TRUE, edge |-> "none"]
      /\ pin("dir").dir = "out" /\ pin("step").dir = "out"
      /\ pin("err").edge = "rising" <=> Conf(conf, "stepper", "err")[2] # 0
      /\ IsInjective(p.made.axes) => IsInjective(MapAxes(p.made.axes, m))

Unset(exported) ==
  [n \in Pins |-> [NotExported EXCEPT !.dir = IF exported THEN "in" ELSE @]]

Sections == <<"common", "tcpctl", "msensor", "stepper">>

StartTold(conf, world, exported) ==
  LET pins == Unset(exported)
      p == RoutePrtDrv(conf, world, pins)
      wrong == {i \in DOMAIN Sections : Wrong(conf, world, Sections[i])}
  IN  IF wrong # {}
      THEN /\ \E i \in wrong : (\A j \in wrong : i <= j) /\ p.told = Sections[i]
           /\ p.pins = pins
      ELSE Runs(p, conf)

(* The parts, once they are all made.                                       *)
LEMMA PartsMade ==
  ASSUME NEW a1, NEW a2, NEW a3, NEW a4, NEW a5, NEW pins
  PROVE  LET m1 == With(<<>>, "calibration", a1)
             m2 == With(m1, "server", a2)
             m4 == With(With(m2, "compass", a3), "axes", a4)
             m5 == With(m4, "table", a5)
             p == Entered(LibEvMain(ProgOf(NoSection, m5, pins)))
         IN  /\ Running(p) /\ p.pins = pins /\ p.made["axes"] = a4
             /\ DOMAIN p.made = {"calibration", "server", "compass", "axes", "table", "loop"}
             /\ p.made["loop"].watched /\ p.made["loop"].entered
<1> DEFINE m1 == With(<<>>, "calibration", a1)
           m2 == With(m1, "server", a2)
           m3 == With(m2, "compass", a3)
           m4 == With(m3, "axes", a4)
           m5 == With(m4, "table", a5)
           m6 == With(m5, "loop", LibEvMainP)
           q == ProgOf(NoSection, m6, pins)
           p == Entered(LibEvMain(ProgOf(NoSection, m5, pins)))
           loop == [m6["loop"] EXCEPT !.entered = ~m6["loop"].running]
           m7 == [m6 EXCEPT !["loop"] = loop]
<1>1. DOMAIN m1 = {"calibration"}
  BY DEF With
<1> HIDE DEF m1
<1>2. DOMAIN m2 = {"calibration", "server"}
  BY <1>1 DEF With
<1> HIDE DEF m2
<1>3. DOMAIN m3 = {"calibration", "server", "compass"}
  BY <1>2 DEF With
<1> HIDE DEF m3
<1>4. DOMAIN m4 = {"calibration", "server", "compass", "axes"} /\ m4["axes"] = a4
  BY <1>3 DEF With
<1> HIDE DEF m4
<1>5. /\ DOMAIN m5 = {"calibration", "server", "compass", "axes", "table"} /\ m5["axes"] = a4
  BY <1>4 DEF With
<1> HIDE DEF m5
<1>6. /\ DOMAIN m6 = {"calibration", "server", "compass", "axes", "table", "loop"}
      /\ m6["axes"] = a4 /\ m6["loop"] = LibEvMainP /\ m6 = [c \in DOMAIN m6 |-> m6[c]]
  BY <1>5 DEF With
<1> HIDE DEF m6
<1>7. LibEvMain(ProgOf(NoSection, m5, pins)) = q
  BY ProgIs DEF LibEvMain, m6
<1>8. p = [q EXCEPT !.made["loop"].entered = ~q.made["loop"].running]
  BY <1>7, Zenon DEF Entered
<1>9. q.made = m6
  BY ProgIs
<1> HIDE DEF p
<1>10. p = ProgOf(NoSection, m7, pins)
  <2>1. p = [q EXCEPT !.made["loop"].entered = ~m6["loop"].running]
    BY <1>8, <1>9
  <2> QED BY <2>1 DEF ProgOf
<1>11. loop.watched /\ loop.entered
  <2> DEFINE made == LibEvMainP
             now == [made EXCEPT !.entered = ~made.running]
  <2>1. loop = now
    BY <1>6
  <2>2. /\ made.watched = TRUE /\ made.running = FALSE
        /\ DOMAIN made = {"watched", "running", "entered"}
    BY DEF LibEvMainP
  <2> HIDE DEF loop, made
  <2>3. now.watched = made.watched /\ now.entered = ~made.running
    BY ONLY <2>2
  <2> HIDE DEF now
  <2> QED BY ONLY <2>1, <2>2, <2>3
<1> HIDE DEF loop
<1>12. m7["loop"] = loop /\ m7["axes"] = a4 /\ DOMAIN m7 = DOMAIN m6
  BY <1>6
<1> HIDE DEF m7, q
<1>13. Running(p) /\ p.pins = pins /\ p.made = m7
  BY <1>10, ProgIs
<1> QED BY <1>6, <1>11, <1>12, <1>13, Zenon DEF p, m1, m2, m3, m4, m5

LEMMA StartsAre ==
  ASSUME NEW conf \in Configs, NEW world, NEW exported \in BOOLEAN
  PROVE  StartTold(conf, world, exported)
<1> DEFINE pins == Unset(exported)
           p == RoutePrtDrv(conf, world, pins)
           W(s) == Wrong(conf, world, s)
           wrong == {i \in DOMAIN Sections : W(Sections[i])}
           n == PinsOf(conf)
           v(k) == Conf(conf, "stepper", k)
           p0 == ProgOf(NoSection, <<>>, pins)
           p1 == Common(p0, conf)
           p2 == IF Running(p1) THEN Server(p1, conf, world) ELSE p1
           p3 == IF Running(p2) THEN Msensor(p2, conf, world) ELSE p2
           p4 == IF Running(p3) THEN Stepper(p3, conf, world) ELSE p3
<1>1. p = IF Running(p4) THEN Entered(LibEvMain(p4)) ELSE p4
  BY Zenon DEF RoutePrtDrv, ProgOf
<1>2. /\ \A k \in {"en", "dir", "step", "err"} : IsNumber(v(k)) => v(k)[2] \in Pins
      /\ IsNumber(v("err")) /\ v("err")[2] # 0 =>
           \A k \in {"en", "dir", "step"} : IsNumber(v(k)) => v(k)[2] # v("err")[2]
  <2>1. PinsApart(conf)
    BY InputAssumption
  <2> QED BY <2>1, Zenon DEF PinsApart
<1>3. /\ pins \in [Pins -> PinType] /\ \A k \in Pins : pins[k].edge = "none"
  <2>1. ASSUME NEW e \in {"none", "in"}
        PROVE  /\ [NotExported EXCEPT !.dir = e] \in PinType
               /\ [NotExported EXCEPT !.dir = e].edge = "none"
    BY DEF NotExported, PinType
  <2>2. NotExported.dir = "none"
    BY DEF NotExported
  <2> DEFINE r == [NotExported EXCEPT !.dir = IF exported THEN "in" ELSE @]
  <2>3. r \in PinType /\ r.edge = "none"
    <3> HIDE DEF PinType
    <3>1. CASE exported
      BY <2>1, <3>1
    <3>2. CASE ~exported
      BY <2>1, <2>2, <3>2
    <3> QED BY <3>1, <3>2
  <2> HIDE DEF r
  <2>4. pins = [k \in Pins |-> r]
    BY Zenon DEF Unset, r
  <2> HIDE DEF pins, PinType
  <2> QED BY <2>3, <2>4
<1>4. /\ DOMAIN Sections = 1..4 /\ Sections[1] = "common" /\ Sections[2] = "tcpctl"
      /\ Sections[3] = "msensor" /\ Sections[4] = "stepper"
  BY DEF Sections
<1> HIDE DEF pins
<1>5. IF W("common") THEN p1 = ProgOf("common", <<>>, pins)
      ELSE \E as : p1 = ProgOf(NoSection, With(<<>>, "calibration", as), pins)
  BY CommonDoes
<1>6. /\ NoSection # "common" /\ NoSection # "tcpctl" /\ NoSection # "msensor"
      /\ NoSection # "stepper"
  BY DEF NoSection
<1> DEFINE Ends(i) == /\ i \in 1..4 /\ W(Sections[i]) /\ \A j \in 1..(i - 1) : ~W(Sections[j])
                      /\ p.told = Sections[i] /\ p.pins = pins
<1>7. ASSUME NEW i, Ends(i) PROVE StartTold(conf, world, exported)
  <2>1. i \in wrong /\ \A j \in wrong : i <= j
    <3> HIDE DEF W
    <3>1. i \in wrong
      BY <1>4, <1>7
    <3>2. ASSUME NEW j \in wrong PROVE i <= j
      <4>1. j \in 1..4 /\ W(Sections[j]) /\ i \in 1..4
        BY <1>4, <1>7
      <4>2. j \notin 1..(i - 1)
        BY <1>7, <4>1
      <4> QED BY <4>1, <4>2
    <3> QED BY <3>1, <3>2
  <2>2. p.told = Sections[i] /\ p.pins = pins
    BY <1>7
  <2> HIDE DEF p
  <2> QED BY <2>1, <2>2, Zenon DEF StartTold, pins, p
<1> HIDE DEF p1
<1>8. CASE W("common")
  <2>1. p1 = ProgOf("common", <<>>, pins) /\ ~Running(p1)
    BY <1>5, <1>6, <1>8, ProgIs
  <2>2. p = p1
    BY <1>1, <2>1, Zenon
  <2>3. p.told = "common" /\ p.pins = pins
    BY <2>1, <2>2, ProgIs
  <2> HIDE DEF p, W
  <2>4. 1 \in 1..4 /\ \A j \in 1..(1 - 1) : ~W(Sections[j])
    OBVIOUS
  <2>5. Ends(1)
    BY <1>4, <1>8, <2>3, <2>4
  <2> QED BY <1>7, <2>5
<1>9. CASE ~W("common")
  <2>1. PICK a1 : p1 = ProgOf(NoSection, With(<<>>, "calibration", a1), pins)
    BY <1>5, <1>9, Zenon
  <2> DEFINE m1 == With(<<>>, "calibration", a1)
  <2>2. Running(p1)
    BY <2>1, ProgIs
  <2>3. p2 = Server(ProgOf(NoSection, m1, pins), conf, world)
    BY <2>1, <2>2, Zenon
  <2> HIDE DEF m1, p2
  <2>4. IF W("tcpctl") THEN p2 = ProgOf("tcpctl", m1, pins)
        ELSE \E as : p2 = ProgOf(NoSection, With(m1, "server", as), pins)
    BY <2>3, ServerDoes
  <2>5. CASE W("tcpctl")
    <3>1. p2 = ProgOf("tcpctl", m1, pins) /\ ~Running(p2)
      BY <1>6, <2>4, <2>5, ProgIs
    <3>2. p = p2
      BY <1>1, <3>1, Zenon
    <3>3. p.told = "tcpctl" /\ p.pins = pins
      BY <3>1, <3>2, ProgIs
    <3> HIDE DEF p, W
    <3>4. 2 \in 1..4 /\ \A j \in 1..(2 - 1) : j = 1
      OBVIOUS
    <3>5. Ends(2)
      BY <1>4, <1>9, <2>5, <3>3, <3>4
    <3> QED BY <1>7, <3>5
  <2>6. CASE ~W("tcpctl")
    <3>1. PICK a2 : p2 = ProgOf(NoSection, With(m1, "server", a2), pins)
      BY <2>4, <2>6, Zenon
    <3> DEFINE m2 == With(m1, "server", a2)
    <3>2. Running(p2)
      BY <3>1, ProgIs
    <3>3. p3 = Msensor(ProgOf(NoSection, m2, pins), conf, world)
      BY <3>1, <3>2, Zenon
    <3> HIDE DEF m2, p3
    <3>4. IF W("msensor") THEN \E m : p3 = ProgOf("msensor", m, pins)
          ELSE \E as : p3 = ProgOf(NoSection, With(With(m2, "compass", as),
                                                   "axes", AxesOf(conf)), pins)
      BY <3>3, MsensorDoes
    <3>5. CASE W("msensor")
      <4>1. PICK m : p3 = ProgOf("msensor", m, pins)
        BY <3>4, <3>5, Zenon
      <4>2. ~Running(p3)
        BY <1>6, <4>1, ProgIs
      <4>3. p = p3
        BY <1>1, <4>2, Zenon
      <4>4. p.told = "msensor" /\ p.pins = pins
        BY <4>1, <4>3, ProgIs
      <4> HIDE DEF p, W
      <4>5. 3 \in 1..4 /\ \A j \in 1..(3 - 1) : j \in {1, 2}
        OBVIOUS
      <4>6. Ends(3)
        BY <1>4, <1>9, <2>6, <3>5, <4>4, <4>5
      <4> QED BY <1>7, <4>6
    <3>6. CASE ~W("msensor")
      <4>1. PICK a3 : p3 = ProgOf(NoSection, With(With(m2, "compass", a3), "axes", AxesOf(conf)),
                                  pins)
        BY <3>4, <3>6, Zenon
      <4> DEFINE m4 == With(With(m2, "compass", a3), "axes", AxesOf(conf))
      <4>2. Running(p3)
        BY <4>1, ProgIs
      <4>3. p4 = Stepper(ProgOf(NoSection, m4, pins), conf, world)
        BY <4>1, <4>2, Zenon
      <4> HIDE DEF m4, p4
      <4>4. IF W("stepper") THEN p4 = ProgOf("stepper", m4, pins)
            ELSE \E as : p4 = ProgOf(NoSection, With(m4, "table", as),
                                     ErrorPin(StepPins(pins, n), n))
        BY <4>3, StepperDoes
      <4>5. CASE W("stepper")
        <5>1. p4 = ProgOf("stepper", m4, pins) /\ ~Running(p4)
          BY <1>6, <4>4, <4>5, ProgIs
        <5>2. p = p4
          BY <1>1, <5>1, Zenon
        <5>3. p.told = "stepper" /\ p.pins = pins
          BY <5>1, <5>2, ProgIs
        <5> HIDE DEF p, W
        <5>4. 4 \in 1..4 /\ \A j \in 1..(4 - 1) : j \in {1, 2, 3}
          OBVIOUS
        <5>5. Ends(4)
          BY <1>4, <1>9, <2>6, <3>6, <4>5, <5>3, <5>4
        <5> QED BY <1>7, <5>5
      <4>6. CASE ~W("stepper")
        <5>1. PICK a5 : p4 = ProgOf(NoSection, With(m4, "table", a5),
                                    ErrorPin(StepPins(pins, n), n))
          BY <4>4, <4>6, Zenon
        <5> DEFINE new == ErrorPin(StepPins(pins, n), n)
                   m5 == With(m4, "table", a5)
        <5>2. Running(p4)
          BY <5>1, ProgIs
        <5>3. p = Entered(LibEvMain(ProgOf(NoSection, m5, new)))
          BY <1>1, <5>1, <5>2, Zenon
        <5> HIDE DEF new
        <5>4. /\ Running(p) /\ p.pins = new /\ p.made["axes"] = AxesOf(conf)
              /\ DOMAIN p.made = {"calibration", "server", "compass", "axes", "table", "loop"}
              /\ p.made["loop"].watched /\ p.made["loop"].entered
          BY <5>3, PartsMade DEF m1, m2, m4
        <5> HIDE DEF p
        <5>5. \A k \in {"en", "dir", "step", "err"} : IsNumber(v(k))
          BY <4>6 DEF Wrong, AreNumbers
        <5>6. /\ n.en = v("en")[2] /\ n.dir = v("dir")[2] /\ n.step = v("step")[2]
              /\ n.err = v("err")[2]
          BY DEF PinsOf
        <5> HIDE DEF n, v
        <5>7. /\ n.en \in Pins /\ n.dir \in Pins /\ n.step \in Pins /\ n.err \in Pins
              /\ n.err # 0 => n.err # n.en /\ n.err # n.dir /\ n.err # n.step
          BY <1>2, <5>5, <5>6
        <5>8. /\ new[n.en] = [dir |-> "out", level |-> TRUE, edge |-> "none"]
              /\ new[n.dir].dir = "out" /\ new[n.step].dir = "out"
              /\ new[n.err].edge = "rising" <=> n.err # 0
          <6> HIDE DEF PinType
          <6>1. PinsWell(Pins, pins, n, StepPins(pins, n))
            BY <1>3, <5>7, StepPinsDo
          <6> QED BY <5>7, <6>1, ErrorPinDoes DEF new
        <5>9. IsInjective(p.made["axes"]) =>
                IsInjective(MapAxes(p.made["axes"], [x |-> 1, y |-> 2, z |-> 3]))
          <6> DEFINE axes == AxesOf(conf)
          <6>1. DOMAIN axes = {"x", "y", "z"} /\ \A a \in {"x", "y", "z"} : axes[a] \in AxisNames
            <7>1. \A a \in {"x", "y", "z"} : IsAxis(Conf(conf, "msensor", AxisKey[a]))
              BY <3>6 DEF Wrong, Axes
            <7> QED BY <7>1 DEF AxesOf, IsAxis
          <6> HIDE DEF axes
          <6> QED BY ONLY <5>4, <6>1, MapAxesKeeps DEF axes
        <5>10. Runs(p, conf)
          BY <5>4, <5>6, <5>8, <5>9, Zenon DEF Runs, v
        <5>11. wrong = {}
          <6> HIDE DEF W
          <6>1. \A i \in 1..4 : i = 1 \/ i = 2 \/ i = 3 \/ i = 4
            OBVIOUS
          <6> QED BY <1>4, <1>9, <2>6, <3>6, <4>6, <6>1
        <5> HIDE DEF wrong
        <5>12. wrong # {} \/ Runs(p, conf)
          BY <5>10
        <5> QED BY <5>10, <5>11, Zenon DEF StartTold, pins, p, wrong
      <4> QED BY <4>5, <4>6
    <3> QED BY <3>5, <3>6
  <2> QED BY <2>5, <2>6
<1> QED BY <1>8, <1>9

LEMMA StartSubject ==
  ASSUME Subjects, subject.of = "start"
  PROVE  subject.conf \in Configs /\ subject.exported \in BOOLEAN
<1>1. \A s \in Corrections \cup Windows \cup Fetches \cup SetUps : s.of # "start"
  BY DEF Corrections, Windows, Fetches, SetUps
<1>2. \A s \in HeapChanges \cup PeriodicChanges \cup ArrayGrowths \cup Files \cup Messages :
        s.of # "start"
  BY DEF HeapChanges, PeriodicChanges, ArrayGrowths, Files, Messages
<1>3. \A s \in HookChanges : s.of # "start"
  BY DEF HookChanges
<1>4. NoSubject.of # "start"
  BY DEF NoSubject
<1>5. subject \in Starts
  BY <1>1, <1>2, <1>3, <1>4, Zenon DEF Subjects
<1> QED BY <1>5 DEF Starts

LEMMA StartsAreAsConfigured ==
  ASSUME Subjects
  PROVE  StartIsAsConfigured
<1>1. subject.of = "start" => StartTold(subject.conf, subject.world, subject.exported)
  BY StartSubject, StartsAre
<1> QED BY <1>1, Zenon DEF StartIsAsConfigured, StartTold, Unset, Sections, Runs

(* What comes from outside is taken for what it says, whatever the words,   *)
(* the noise, the configuration and the message.                            *)
THEOREM InputIsReadAlways == ASpec => []InputIsRead
<1>1. Subjects => InputIsRead
  BY FilesAreRead, StartsAreAsConfigured, MessagesAreSplit DEF InputIsRead
<1> QED BY <1>1, SubjectsHold, PTL

--------------------------------------------------------------------------------
(* Measurements: the bytes that are fetched, and what init() left in the    *)
(* registers.                                                               *)

(* A byte is of its register and of a sample.                               *)
LEMMA ByteIs ==
  ASSUME NEW a, NEW b, NEW c
  PROVE  <<a, b>> \o <<c>> = <<a, b, c>>
<1> DEFINE V == {a, b, c}
           s == <<a, b>>
           t == <<c>>
           u == <<a, b, c>>
<1>1. s \in Seq(V) /\ t \in Seq(V) /\ u \in Seq(V)
  OBVIOUS
<1>2. /\ Len(s) = 2 /\ Len(t) = 1 /\ s[1] = a /\ s[2] = b /\ t[1] = c
      /\ Len(u) = 3 /\ u[1] = a /\ u[2] = b /\ u[3] = c
  OBVIOUS
<1> HIDE DEF s, t, u, V
<1>3. /\ s \o t \in Seq(V) /\ Len(s \o t) = 3
      /\ \A i \in 1..3 : (s \o t)[i] = IF i <= 2 THEN s[i] ELSE t[i - 2]
  <2>1. /\ s \o t \in Seq(V)
        /\ Len(s \o t) = Len(s) + Len(t)
        /\ \A i \in 1..(Len(s) + Len(t)) :
             (s \o t)[i] = IF i <= Len(s) THEN s[i] ELSE t[i - Len(s)]
    BY ONLY <1>1, ConcatProperties
  <2> QED BY ONLY <1>2, <2>1
<1>4. \A i \in 1..3 : (s \o t)[i] = u[i]
  BY ONLY <1>2, <1>3
<1>5. s \o t = u
  <2> DEFINE v == s \o t
  <2>1. v \in Seq(V) /\ Len(v) = Len(u) /\ \A i \in 1..Len(v) : v[i] = u[i]
    BY ONLY <1>2, <1>3, <1>4
  <2> HIDE DEF v
  <2>2. v = u
    BY ONLY <1>1, <2>1, SeqEqual
  <2> QED BY <2>2 DEF v
<1> QED BY <1>5 DEF s, t, u

LEMMA TwoAre ==
  ASSUME NEW s, NEW i \in Int
  PROVE  SubSeq(s, i, i + 1)[1] = s[i] /\ SubSeq(s, i, i + 1)[2] = s[i + 1]
<1> DEFINE V == {s[i], s[i + 1]}
           n == i + 1
<1>1. n \in Int /\ \A j \in i..n : s[j] \in V
  OBVIOUS
<1> HIDE DEF V
<1>2. \A j \in 1..(n - i + 1) : SubSeq(s, i, n)[j] = s[i + j - 1]
  BY <1>1, SubSeqProperties
<1> QED BY <1>2

(* The bytes of an axis stand next to each other, in the order of the       *)
(* device.                                                                  *)
ReadsAxis(d, a) ==
  LET i == Reader(d)[a]
      f == Reader(d).first
  IN  /\ i \in 1..5 /\ f \in {"msb", "lsb"}
      /\ Registers(d)[i] = <<a, f>>
      /\ Registers(d)[i + 1] = <<a, IF f = "msb" THEN "lsb" ELSE "msb">>

LEMMA AxesAreRead == \A d \in Devices, a \in Axes : ReadsAxis(d, a)
<1>1. ASSUME NEW order, NEW reader, NEW a \in Axes, NEW d,
             Registers(d) = order, Reader(d) = reader,
             \/ order = MagneticOrder /\ reader = [x |-> 1, z |-> 3, y |-> 5, first |-> "msb"]
             \/ order = AccelerationOrder
                  /\ reader = [x |-> 1, y |-> 3, z |-> 5, first |-> "lsb"]
      PROVE  ReadsAxis(d, a)
  <2>1. CASE order = MagneticOrder /\ reader = [x |-> 1, z |-> 3, y |-> 5, first |-> "msb"]
    BY <1>1, <2>1 DEF ReadsAxis, MagneticOrder, Axes
  <2>2. CASE /\ order = AccelerationOrder
             /\ reader = [x |-> 1, y |-> 3, z |-> 5, first |-> "lsb"]
    BY <1>1, <2>2 DEF ReadsAxis, AccelerationOrder, Axes
  <2> QED BY <1>1, <2>1, <2>2
<1>2. /\ Registers("lsm magnetic") = MagneticOrder
      /\ Reader("lsm magnetic") = [x |-> 1, z |-> 3, y |-> 5, first |-> "msb"]
  BY Zenon DEF Registers, Reader, GetMagnLsm
<1>3. /\ Registers("lsm acceleration") = AccelerationOrder
      /\ Reader("lsm acceleration") = [x |-> 1, y |-> 3, z |-> 5, first |-> "lsb"]
  BY "lsm acceleration" # "lsm magnetic", Zenon DEF Registers, Reader, GetAccLsm
<1>4. /\ Registers("hmc") = MagneticOrder
      /\ Reader("hmc") = [x |-> 1, z |-> 3, y |-> 5, first |-> "msb"]
  BY "hmc" # "lsm magnetic", "hmc" # "lsm acceleration", Zenon
     DEF Registers, Reader, GetMagnHmc, HmcOrder
<1>5. /\ Registers("qmc") = AccelerationOrder
      /\ Reader("qmc") = [x |-> 1, y |-> 3, z |-> 5, first |-> "lsb"]
  BY "qmc" # "lsm magnetic", "qmc" # "lsm acceleration", "qmc" # "hmc", Zenon
     DEF Registers, Reader, GetMagnQmc, QmcOrder
<1>6. \A a \in Axes : /\ ReadsAxis("lsm magnetic", a) /\ ReadsAxis("lsm acceleration", a)
                      /\ ReadsAxis("hmc", a) /\ ReadsAxis("qmc", a)
  BY <1>1, <1>2, <1>3, <1>4, <1>5
<1> QED BY <1>6, Zenon DEF Devices

(* A measurement is whole: the old one after a failure, or one whose halves *)
(* are of their registers and, if the device holds them, of one sample.     *)
FetchedAs(d, failed, a, half, byte) ==
  IF failed <= 6 THEN byte = <<a, half, 0>>
  ELSE IF Holds(d) THEN byte = <<a, half, 1>>
  ELSE byte = <<a, half, 1>> \/ byte = <<a, half, 2>>

LEMMA FetchIsWhole ==
  ASSUME NEW d \in Devices, NEW failed \in 1..7, NEW u \in 1..7, NEW a \in Axes,
         NEW half \in {"msb", "lsb"}, NEW old,
         old = [b \in Axes |-> [msb |-> <<b, "msb", 0>>, lsb |-> <<b, "lsb", 0>>]]
  PROVE  FetchedAs(d, failed, a, half, Measured(d, old, failed, u)[a][half])
<1> DEFINE m == Measured(d, old, failed, u)
<1>1. CASE failed <= 6
  <2>1. m = old
    BY <1>1 DEF Measured, ReadAll
  <2> HIDE DEF m
  <2>2. m[a][half] = <<a, half, 0>>
    <3>1. m[a] = [msb |-> <<a, "msb", 0>>, lsb |-> <<a, "lsb", 0>>]
      BY <2>1
    <3> QED BY <3>1
  <2> QED BY <1>1, <2>2 DEF m, FetchedAs
<1>2. CASE failed > 6
  <2> DEFINE bytes == Bytes(d, failed, u)
             i == Reader(d)[a]
             f == Reader(d).first
             g == IF f = "msb" THEN "lsb" ELSE "msb"
             two == SubSeq(bytes, i, i + 1)
             s(k) == IF k >= u /\ ~Holds(d) THEN 2 ELSE 1
  <2>1. m[a] = Sh16(f, two)
    <3>1. ReadAll(failed)
      BY <1>2 DEF ReadAll
    <3> QED BY <3>1, Zenon DEF Measured
  <2>2. /\ i \in 1..5 /\ f \in {"msb", "lsb"}
        /\ Registers(d)[i] = <<a, f>> /\ Registers(d)[i + 1] = <<a, g>>
    BY AxesAreRead, Zenon DEF ReadsAxis
  <2> HIDE DEF i, f, m
  <2>3. bytes[i] = <<a, f, s(i)>> /\ bytes[i + 1] = <<a, g, s(i + 1)>>
    <3>1. \A k \in 1..6 : bytes[k] = Registers(d)[k] \o <<s(k)>>
      <4>1. \A k \in 1..6 : k < failed
        BY <1>2
      <4> QED BY <4>1 DEF Bytes, Byte
    <3> HIDE DEF bytes, s, g
    <3>2. i \in 1..6 /\ i + 1 \in 1..6
      BY <2>2
    <3> QED BY <2>2, <3>1, <3>2, ByteIs
  <2> HIDE DEF bytes
  <2>4. two[1] = <<a, f, s(i)>> /\ two[2] = <<a, g, s(i + 1)>>
    BY <2>2, <2>3, TwoAre
  <2> HIDE DEF two
  <2>5. m[a][half] = <<a, half, s(i)>> \/ m[a][half] = <<a, half, s(i + 1)>>
    <3> HIDE DEF s
    <3> QED BY <2>1, <2>2, <2>4 DEF Sh16
  <2>6. \A k : s(k) \in {1, 2} /\ (Holds(d) => s(k) = 1)
    OBVIOUS
  <2> HIDE DEF s
  <2>7. ~(failed <= 6)
    BY <1>2
  <2> QED BY <2>5, <2>6, <2>7, Zenon DEF m, FetchedAs
<1> QED BY <1>1, <1>2

(* What init() writes, in numbers.                                          *)
LEMMA LsmWrites ==
  /\ InitLsm.writes = <<<<"cra", 28>>, <<"crb", 128>>, <<"mr", 0>>,
                       <<"ctrl1", 119>>, <<"ctrl4", 8>>>>
  /\ InitLsm.rng = 450 /\ InitLsm.as = 10000
BY DEF InitLsm, Put, Field, LsmRate, LsmGain, LsmMode, LsmAxes, LsmOdr, LsmHigh, LsmFull

LEMMA HmcWrites ==
  /\ InitHmc.writes = <<<<"conf_a", 112>>, <<"conf_b", 128>>, <<"mode", 128>>>>
  /\ InitHmc.rng = 440
BY DEF InitHmc, Put, Field, HmcMeasure, HmcRate, HmcSamples, HmcGain, HmcMode, HmcHighSpeed

LEMMA QmcWrites ==
  /\ InitQmc.writes = <<<<"control1", 17>>, <<"period", 1>>>>
  /\ InitQmc.rng = 435
BY DEF InitQmc, Put, Field, QmcMode, QmcRate, QmcRange, QmcSampling

(* The fields, read back.                                                   *)
LEMMA LsmFits ==
  ASSUME NEW r, r["mr"] = 0, r["crb"] = 128, r["ctrl1"] = 119, r["ctrl4"] = 8
  PROVE  ScalesAgree("lsm", r, InitLsm)
<1>1. /\ Get(LsmMode, 0) = 0 /\ Get(LsmGain, 128) = 4
      /\ Get(LsmFull, 8) + 1 = 1 /\ Get(LsmOdr, 119) = 7
  BY DEF Get, Field, LsmMode, LsmGain, LsmFull, LsmOdr
<1>2. \A a \in Axes : Get(LsmAxes[a], 119) = 1
  BY DEF Get, Field, LsmAxes, Axes
<1>3. LsmScale[4] = 450 /\ LsmAccScale[1] = 10000 /\ 7 # 0
  BY DEF LsmScale, LsmAccScale
<1>4. /\ Get(LsmMode, r["mr"]) = 0
      /\ InitLsm.rng = LsmScale[Get(LsmGain, r["crb"])]
      /\ InitLsm.as = LsmAccScale[Get(LsmFull, r["ctrl4"]) + 1]
      /\ Get(LsmOdr, r["ctrl1"]) # 0
      /\ \A a \in Axes : Get(LsmAxes[a], r["ctrl1"]) = 1
  BY <1>1, <1>2, <1>3, LsmWrites
<1> QED BY <1>4, Zenon DEF ScalesAgree

LEMMA HmcFits ==
  ASSUME NEW r, r["mode"] = 128, r["conf_a"] = 112, r["conf_b"] = 128
  PROVE  ScalesAgree("hmc", r, InitHmc)
<1>1. Get(HmcMode, 128) = 0 /\ Get(HmcMeasure, 112) = 0 /\ Get(HmcGain, 128) + 1 = 5
  BY DEF Get, Field, HmcMode, HmcMeasure, HmcGain
<1>2. HmcScale[5] = 440 /\ "hmc" # "lsm"
  BY DEF HmcScale
<1>3. /\ Get(HmcMode, r["mode"]) = 0
      /\ Get(HmcMeasure, r["conf_a"]) = 0
      /\ InitHmc.rng = HmcScale[Get(HmcGain, r["conf_b"]) + 1]
  BY <1>1, <1>2, HmcWrites
<1> QED BY <1>3, <1>2, Zenon DEF ScalesAgree

LEMMA QmcFits ==
  ASSUME NEW r, r["control1"] = 17
  PROVE  ScalesAgree("qmc", r, InitQmc)
<1>1. Get(QmcMode, 17) = 1 /\ Get(QmcRange, 17) + 1 = 2
  BY DEF Get, Field, QmcMode, QmcRange
<1>2. QmcScale[2] = 435 /\ "qmc" # "lsm" /\ "qmc" # "hmc"
  BY DEF QmcScale
<1>3. /\ Get(QmcMode, r["control1"]) = 1
      /\ InitQmc.rng = QmcScale[Get(QmcRange, r["control1"]) + 1]
  BY <1>1, <1>2, QmcWrites
<1> QED BY <1>3, <1>2, Zenon DEF ScalesAgree

(* No register is written twice, so each holds its byte, or what it held.   *)
WrittenWell(d, regs, failed, n, new) ==
  LET writes == InitOf(d).writes
  IN  /\ DOMAIN new = DOMAIN regs
      /\ \A r \in DOMAIN regs : new[r] \in 0..255
      /\ \A i \in (1..n) \ failed : new[writes[i][1]] = writes[i][2]

LEMMA WrittenIs ==
  ASSUME NEW d, NEW regs, NEW failed, NEW n \in Nat, Len(InitOf(d).writes) = n,
         DOMAIN InitOf(d).writes = 1..n,
         \A i, j \in 1..n : InitOf(d).writes[i][1] = InitOf(d).writes[j][1] => i = j,
         \A i \in 1..n : /\ InitOf(d).writes[i][1] \in DOMAIN regs
                         /\ InitOf(d).writes[i][2] \in 0..255,
         \A r \in DOMAIN regs : regs[r] \in 0..255
  PROVE  WrittenWell(d, regs, failed, n, Written(d, regs, failed))
<1> DEFINE writes == InitOf(d).writes
           to(r) == {i \in DOMAIN writes \ failed : writes[i][1] = r}
           last(r) == CHOOSE i \in to(r) : \A j \in to(r) : j <= i
           w == Written(d, regs, failed)
<1>1. w = [r \in DOMAIN regs |-> IF to(r) = {} THEN regs[r] ELSE writes[last(r)][2]]
  BY Zenon DEF Written
<1>2. \A r : \A i \in to(r) : i \in 1..n /\ writes[i][1] = r /\ last(r) = i
  <2> SUFFICES ASSUME NEW r, NEW i \in to(r) PROVE i \in 1..n /\ writes[i][1] = r /\ last(r) = i
    OBVIOUS
  <2>1. i \in 1..n /\ writes[i][1] = r /\ \A j \in to(r) : j = i
    OBVIOUS
  <2>2. \A j \in to(r) : j <= i
    BY <2>1
  <2> HIDE DEF to
  <2>3. last(r) \in to(r)
    BY <2>2, Zenon
  <2> QED BY <2>1, <2>3
<1>3. \A i \in (1..n) \ failed : i \in to(writes[i][1])
  OBVIOUS
<1> HIDE DEF w, to, last, writes
<1>4. \A r \in DOMAIN regs : w[r] = IF to(r) = {} THEN regs[r] ELSE writes[last(r)][2]
  BY <1>1
<1>5. \A r \in DOMAIN regs : w[r] \in 0..255
  <2> SUFFICES ASSUME NEW r \in DOMAIN regs PROVE w[r] \in 0..255
    OBVIOUS
  <2>1. CASE to(r) = {}
    BY <1>4, <2>1
  <2>2. CASE to(r) # {}
    <3>1. PICK i : i \in to(r)
      BY <2>2
    <3>2. i \in 1..n /\ last(r) = i
      BY <1>2, <3>1
    <3>3. w[r] = writes[i][2]
      BY <1>4, <2>2, <3>2
    <3> QED BY <3>2, <3>3 DEF writes
  <2> QED BY <2>1, <2>2
<1>6. \A i \in (1..n) \ failed : w[writes[i][1]] = writes[i][2]
  BY <1>2, <1>3, <1>4 DEF writes
<1> QED BY <1>1, <1>5, <1>6, Zenon DEF WrittenWell, w, writes

(* What init() of a device leaves in registers that held anything.          *)
FitsAfter(d, before, failed) ==
  LET writes == InitOf(d).writes
      regs == Written(d, [r \in {writes[i][1] : i \in DOMAIN writes} |-> before], failed)
  IN  /\ \A r \in DOMAIN regs : regs[r] \in 0..255
      /\ failed \cap DOMAIN writes = {} => ScalesAgree(d, regs, InitOf(d))

LEMMA WritesFit ==
  ASSUME NEW d, NEW before \in 0..255, NEW failed, NEW n \in Nat,
         Len(InitOf(d).writes) = n, DOMAIN InitOf(d).writes = 1..n,
         \A i, j \in 1..n : InitOf(d).writes[i][1] = InitOf(d).writes[j][1] => i = j,
         \A i \in 1..n : InitOf(d).writes[i][2] \in 0..255,
         \A regs : (\A i \in 1..n : regs[InitOf(d).writes[i][1]] = InitOf(d).writes[i][2])
                     => ScalesAgree(d, regs, InitOf(d))
  PROVE  FitsAfter(d, before, failed)
<1> DEFINE writes == InitOf(d).writes
           old == [r \in {writes[i][1] : i \in DOMAIN writes} |-> before]
           new == Written(d, old, failed)
<1>1. /\ \A i \in 1..n : writes[i][1] \in DOMAIN old
      /\ \A r \in DOMAIN old : old[r] \in 0..255
  OBVIOUS
<1> HIDE DEF old
<1>2. /\ DOMAIN new = DOMAIN old
      /\ \A r \in DOMAIN old : new[r] \in 0..255
      /\ \A i \in (1..n) \ failed : new[writes[i][1]] = writes[i][2]
  <2>1. WrittenWell(d, old, failed, n, new)
    <3>1. /\ \A i \in 1..n : InitOf(d).writes[i][1] \in DOMAIN old
                            /\ InitOf(d).writes[i][2] \in 0..255
      BY <1>1
    <3> HIDE DEF writes
    <3> QED BY <1>1, <3>1, WrittenIs, Zenon
  <2> QED BY <2>1, Zenon DEF WrittenWell
<1> HIDE DEF new
<1>3. ASSUME failed \cap DOMAIN writes = {} PROVE ScalesAgree(d, new, InitOf(d))
  <2>1. \A i \in 1..n : new[writes[i][1]] = writes[i][2]
    BY <1>2, <1>3
  <2> QED BY <2>1
<1> QED BY <1>2, <1>3, Zenon DEF FitsAfter, new, old, writes

LEMMA DevicesFit ==
  ASSUME NEW d \in {"lsm", "hmc", "qmc"}, NEW before \in 0..255, NEW failed
  PROVE  FitsAfter(d, before, failed)
<1>1. CASE d = "lsm"
  <2>1. InitOf(d) = InitLsm
    BY <1>1, Zenon DEF InitOf
  <2> DEFINE w == InitOf(d).writes
  <2>2. w = <<<<"cra", 28>>, <<"crb", 128>>, <<"mr", 0>>, <<"ctrl1", 119>>, <<"ctrl4", 8>>>>
    BY <2>1, LsmWrites
  <2> HIDE DEF w
  <2>3. /\ Len(w) = 5 /\ DOMAIN w = 1..5
        /\ \A i, j \in 1..5 : w[i][1] = w[j][1] => i = j
        /\ \A i \in 1..5 : w[i][2] \in 0..255
    BY <2>2
  <2>4. ASSUME NEW regs, \A i \in 1..5 : regs[w[i][1]] = w[i][2]
        PROVE  ScalesAgree(d, regs, InitOf(d))
    <3>1. /\ regs["mr"] = 0 /\ regs["crb"] = 128
          /\ regs["ctrl1"] = 119 /\ regs["ctrl4"] = 8
      BY <2>2, <2>4
    <3> QED BY <1>1, <2>1, <3>1, LsmFits
  <2> QED BY <2>3, <2>4, WritesFit DEF w
<1>2. CASE d = "hmc"
  <2>1. InitOf(d) = InitHmc
    BY <1>2, "hmc" # "lsm", Zenon DEF InitOf
  <2> DEFINE w == InitOf(d).writes
  <2>2. w = <<<<"conf_a", 112>>, <<"conf_b", 128>>, <<"mode", 128>>>>
    BY <2>1, HmcWrites
  <2> HIDE DEF w
  <2>3. /\ Len(w) = 3 /\ DOMAIN w = 1..3
        /\ \A i, j \in 1..3 : w[i][1] = w[j][1] => i = j
        /\ \A i \in 1..3 : w[i][2] \in 0..255
    BY <2>2
  <2>4. ASSUME NEW regs, \A i \in 1..3 : regs[w[i][1]] = w[i][2]
        PROVE  ScalesAgree(d, regs, InitOf(d))
    <3>1. regs["conf_a"] = 112 /\ regs["conf_b"] = 128 /\ regs["mode"] = 128
      BY <2>2, <2>4
    <3> QED BY <1>2, <2>1, <3>1, HmcFits
  <2> QED BY <2>3, <2>4, WritesFit DEF w
<1>3. CASE d = "qmc"
  <2>1. InitOf(d) = InitQmc
    BY <1>3, "qmc" # "lsm", "qmc" # "hmc", Zenon DEF InitOf
  <2> DEFINE w == InitOf(d).writes
  <2>2. w = <<<<"control1", 17>>, <<"period", 1>>>>
    BY <2>1, QmcWrites
  <2> HIDE DEF w
  <2>3. /\ Len(w) = 2 /\ DOMAIN w = 1..2
        /\ \A i, j \in 1..2 : w[i][1] = w[j][1] => i = j
        /\ \A i \in 1..2 : w[i][2] \in 0..255
    BY <2>2
  <2>4. ASSUME NEW regs, \A i \in 1..2 : regs[w[i][1]] = w[i][2]
        PROVE  ScalesAgree(d, regs, InitOf(d))
    <3>1. regs["control1"] = 17
      BY <2>2, <2>4
    <3> QED BY <1>3, <2>1, <3>1, QmcFits
  <2> QED BY <2>3, <2>4, WritesFit DEF w
<1> QED BY <1>1, <1>2, <1>3

LEMMA FetchSubject ==
  ASSUME Subjects, subject.of = "sensor"
  PROVE  subject.device \in Devices /\ subject.failed \in 1..7 /\ subject.update \in 1..7
<1>1. \A s \in Corrections \cup Windows \cup SetUps : s.of # "sensor"
  BY DEF Corrections, Windows, SetUps
<1>2. \A s \in HeapChanges \cup PeriodicChanges \cup ArrayGrowths : s.of # "sensor"
  BY DEF HeapChanges, PeriodicChanges, ArrayGrowths
<1>3. \A s \in Files \cup Starts \cup Messages : s.of # "sensor"
  BY DEF Files, Starts, Messages
<1>4. \A s \in HookChanges : s.of # "sensor"
  BY DEF HookChanges
<1>5. NoSubject.of # "sensor"
  BY DEF NoSubject
<1>6. subject \in Fetches
  BY <1>1, <1>2, <1>3, <1>4, <1>5, Zenon DEF Subjects
<1> QED BY <1>6 DEF Fetches

LEMMA SetUpSubject ==
  ASSUME Subjects, subject.of = "setup"
  PROVE  subject.device \in {"lsm", "hmc", "qmc"} /\ subject.before \in 0..255
<1>1. \A s \in Corrections \cup Windows \cup Fetches : s.of # "setup"
  BY DEF Corrections, Windows, Fetches
<1>2. \A s \in HeapChanges \cup PeriodicChanges \cup ArrayGrowths : s.of # "setup"
  BY DEF HeapChanges, PeriodicChanges, ArrayGrowths
<1>3. \A s \in Files \cup Starts \cup Messages : s.of # "setup"
  BY DEF Files, Starts, Messages
<1>4. \A s \in HookChanges : s.of # "setup"
  BY DEF HookChanges
<1>5. NoSubject.of # "setup"
  BY DEF NoSubject
<1>6. subject \in SetUps
  BY <1>1, <1>2, <1>3, <1>4, <1>5, Zenon DEF Subjects
<1> QED BY <1>6 DEF SetUps

LEMMA FetchesAreWhole ==
  ASSUME Subjects
  PROVE  FetchedWhole
<1> SUFFICES ASSUME subject.of = "sensor" PROVE FetchedWhole
  BY DEF FetchedWhole
<1> DEFINE d == subject.device
           old == [a \in Axes |-> [msb |-> <<a, "msb", 0>>, lsb |-> <<a, "lsb", 0>>]]
           m == Measured(d, old, subject.failed, subject.update)
           samples == IF subject.failed <= 6 THEN {0} ELSE IF Holds(d) THEN {1} ELSE {1, 2}
<1>1. d \in Devices /\ subject.failed \in 1..7 /\ subject.update \in 1..7
  BY FetchSubject
<1>2. ASSUME NEW a \in Axes, NEW half \in {"msb", "lsb"}
      PROVE  \E sample \in samples : m[a][half] = <<a, half, sample>>
  <2>1. FetchedAs(d, subject.failed, a, half, m[a][half])
    <3> HIDE DEF d
    <3> QED BY <1>1, FetchIsWhole
  <2> HIDE DEF m, d
  <2> QED BY <2>1 DEF FetchedAs
<1>3. \A a \in Axes, half \in {"msb", "lsb"} :
        \E sample \in samples : m[a][half] = <<a, half, sample>>
  BY <1>2
<1> QED BY <1>3, Zenon DEF FetchedWhole

LEMMA SetUpsAgree ==
  ASSUME Subjects
  PROVE  SetUpAgrees
<1>1. subject.of = "setup" => FitsAfter(subject.device, subject.before, subject.failed)
  BY SetUpSubject, DevicesFit
<1> QED BY <1>1, Zenon DEF SetUpAgrees, FitsAfter

(* Whichever transfers fail, a measurement is whole and of its sample, and  *)
(* after a set-up that succeeds of the scale it is multiplied by, whatever  *)
(* the registers held before.                                               *)
THEOREM MeasurementIsWholeAlways == ASpec => []MeasurementIsWhole
<1>1. Subjects => MeasurementIsWhole
  BY FetchesAreWhole, SetUpsAgree DEF MeasurementIsWhole
<1> QED BY <1>1, SubjectsHold, PTL

================================================================================
