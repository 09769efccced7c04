-------------------------------- MODULE Algorithms --------------------------------
(***************************************************************************)
(* The other pure algorithms beside AzimuthCheck's, each against what it   *)
(* is for: the correction of headings, the filter, the fetching of a       *)
(* measurement, the configuration file, and of libev the heap of timers,   *)
(* the periodics and the arrays of watchers.  Every input is a subject, a  *)
(* record named for the algorithm, and is computed in one step.            *)
(***************************************************************************)
EXTENDS AzimuthCheck, Correction, Filter, Sensor, Periodics, LibevHooks, IniFile,
        SensorSetup, StartUp, UserControl

CONSTANTS
  Headings,      \* headings to correct
  Tables,        \* calibration tables: the values at points evenly apart
  Readings,      \* sequences of readings to filter
  HeapSizes,     \* sizes of heaps
  HeapTimes,     \* when the timers of a heap expire
  PeriodicSet,   \* periodics, of Timers, and what they are
  Clocks,        \* wall clock times they are started and looked at
  Hooks,         \* watchers that are kept in arrays
  HookKinds,     \* what kind each of them may be of
  Fed,           \* the one that has an event, be it started or not
  Letters,       \* the characters without a meaning of their own
  Words, Noise,  \* words of a configuration file, and lines that say nothing
  Texts,         \* what a client sends
  Config,        \* a configuration the program starts with
  WrongValues,   \* what may stand in its place
  Pins,          \* the pins there are, by number
  Room           \* how many elements there is room for, and how many are needed

Degrees == 0..359

(* From a to b, clockwise.                                                  *)
Arc(a, b) == (b + 360 - a) % 360

(* The values of a table go round the circle once: no direction is on the   *)
(* way from one to the next twice.                                          *)
GoesRound(v) ==
  /\ Len(v) > 1 /\ Len(v) * (360 \div Len(v)) = 360
  /\ \A i \in 1..Len(v) : v[i] # Closed(v)[i + 1]
  /\ \A i, j \in 1..Len(v), d \in Degrees :
       /\ Arc(v[i], d) < Arc(v[i], Closed(v)[i + 1])
       /\ Arc(v[j], d) < Arc(v[j], Closed(v)[j + 1])
       => i = j

(* What a file is written in, words that are a name or a value wherever     *)
(* they stand, and lines that say nothing: blanks, a comment, too little,   *)
(* or a name without a value.                                               *)
Chars == Letters \cup Blanks \cup {"\r", "=", "#", ";", "[", "]", "NUL"}
IsWord(w) ==
  /\ w \in Seq(Chars) /\ w # <<>>
  /\ \A i \in DOMAIN w : w[i] \notin Blanks \cup {"\r", "=", "#", ";", "[", "]"}
SaysNothing(line) ==
  /\ line \in Seq(Chars)
  /\ \/ \A i \in DOMAIN line : line[i] \in Blanks
     \/ \E s \in DOMAIN line :
          /\ \A i \in 1..(s - 1) : line[i] \in Blanks
          /\ line[s] \notin Blanks \cup {"["}
          /\ \/ line[s] = "#"
             \/ Len(line) <= 2
             \/ \E e \in (s + 1)..Len(line) :
                  /\ line[e] = "=" /\ \A i \in (s + 1)..(e - 1) : line[i] # "="
                  /\ \A i \in (e + 1)..Len(line) :
                       \/ line[i] \in Blanks \cup {"=", "\r"}
                       \/ \E j \in (e + 1)..i : line[j] \in EndsValue

(* A configuration whose pins are there, and whose error pin is no other's. *)
PinsApart(conf) ==
  LET n(k) == Conf(conf, "stepper", k)
  IN  /\ \A k \in {"en", "dir", "step", "err"} : IsNumber(n(k)) => n(k)[2] \in Pins
      /\ IsNumber(n("err")) /\ n("err")[2] # 0 =>
           \A k \in {"en", "dir", "step"} : IsNumber(n(k)) => n(k)[2] # n("err")[2]

(* Starts have at most two settings that are missing or wrong.              *)
Configs ==
  {[Config EXCEPT ![s] = v, ![t] = u] : s, t \in DOMAIN Config, v, u \in WrongValues}
    \cup {Config}

(* A request is any int but the lowest.  Timers are numbers, the first of   *)
(* them in the heaps, and expire at whole times.                            *)
ASSUME AlgorithmsAssumption ==
  /\ Asked \subseteq Int \ {IntMin} /\ Currents \subseteq 0..360
  /\ Timers \subseteq Nat \ {0} /\ HeapTimes \subseteq Int
  /\ \A n \in HeapSizes : n \in Nat /\ 1..n \subseteq Timers
  /\ Readings \subseteq Seq(Int)
  /\ Clocks \subseteq Int /\ DOMAIN PeriodicSet \subseteq Timers
  /\ PeriodicSet \in Seq([offset : Int, interval : Nat, rescheduled : BOOLEAN])
  /\ PeriodicSet # <<>>
  /\ IsFiniteSet(Hooks) /\ Fed \in Hooks
  /\ \A kinds \in HookKinds : kinds \in [Hooks -> Kinds]
  /\ Room \subseteq Nat
  /\ Headings \subseteq Degrees
  /\ \A v \in Tables : v \in Seq(Degrees) /\ GoesRound(v)

ASSUME InputAssumption ==
  /\ \A w \in Words : IsWord(w)
  /\ \A line \in Noise : SaysNothing(line)
  /\ Texts \subseteq Seq(Chars)
  /\ \A conf \in Configs : PinsApart(conf)

VARIABLE subject

avars == <<vars, subject>>

NoSubject == [of |-> "azimuth"]

Corrections ==
  [of : {"correction"}, heading : Headings, values : Tables]
Windows ==
  [of : {"filter"}, readings : Readings, points : 1..2, k : {0, 3, 10},
   initAt : 0..2]
Fetches ==
  [of : {"sensor"}, device : Devices, failed : 1..7, update : 1..7]

(* The timers are numbers, and each slot of the heap has that of its number. *)
HeapOf(n, at) ==
  [slots |-> [k \in 1..n |-> k],
   at |-> [t \in Timers |-> IF t <= n THEN at[t] ELSE 0],
   active |-> [t \in Timers |-> IF t <= n THEN t ELSE 0]]

InOrder(h) == \A k \in 2..Len(h.slots) : At(h, Parent(k)) <= At(h, k)

Heaps ==
  {h \in {HeapOf(n, at) : n \in HeapSizes, at \in [Timers -> HeapTimes]} :
     InOrder(h)}
HeapChanges ==
  [of : {"heap"}, heap : Heaps, timer : Timers, after : HeapTimes,
   how : {"enter_leave", "again", "repeat"}]

(* Periodics that were started in some order at one time.                   *)
Started(order, now) ==
  FoldLeft(LAMBDA h, t : PeriodicStart(h, PeriodicSet, t, now), EmptyHeap, order)
PeriodicHeaps ==
  {Started(order, now) : order \in SetToSeqs(DOMAIN PeriodicSet), now \in Clocks}
PeriodicChanges ==
  [of : {"periodic"}, heap : PeriodicHeaps, now : Clocks,
   how : {"reify", "resume", "again"}]

(* Watchers that were started in some order, one with an event pending.     *)
NoHooks ==
  [arrays |-> [k \in Kinds |-> <<>>], active |-> [w \in Hooks |-> 0],
   activecnt |-> 0, idleall |-> 0, queue |-> <<Fed>>, called |-> <<>>]
Hooked(kinds, order) == FoldLeft(LAMBDA l, w : Start(l, kinds[w], w), NoHooks, order)
HookOrders == UNION {SetToSeqs(S) : S \in SUBSET Hooks}
HookChanges ==
  UNION {[of : {"hooks"}, kinds : {kinds}, watcher : Hooks, start : BOOLEAN,
          loop : {Hooked(kinds, order) : order \in HookOrders}] : kinds \in HookKinds}

ArrayGrowths ==
  [of : {"array"}, size : {4, 8, 16, 24, 32}, cur : Room, cnt : Room, pointer : {4, 8}]

SetUps ==
  [of : {"setup"}, device : {"lsm", "hmc", "qmc"}, failed : SUBSET (1..5), before : 0..255]

(* The pins are exported already or not.                                    *)
Starts ==
  [of : {"start"}, conf : Configs,
   world : [binds : BOOLEAN, bus : BOOLEAN, file : {"none", "table", "spoilt"}],
   exported : BOOLEAN]

Messages == [of : {"message"}, text : Texts]

(* A section, a setting and lines that say nothing, with blanks and a       *)
(* comment as people write them.                                            *)
Files ==
  [of : {"file"}, section : Words, key : Words, value : Words, noise : Noise,
   blank : {<<>>, <<" ">>, <<"\t", " ">>}, comment : {<<>>, <<"#", "]", "=">>, <<";">>},
   end : {<<>>, <<"\r">>}, behind : Chars]

AInit ==
  \/ Init /\ subject = NoSubject
  \/ /\ asked = 0 /\ cur = 0 /\ way = "Nearest" /\ speed = 1
     /\ done = FALSE /\ dest = 0 /\ cw = FALSE /\ period = 0
     /\ subject \in Corrections \cup Windows \cup Fetches \cup SetUps \cup HeapChanges
                      \cup PeriodicChanges \cup HookChanges \cup ArrayGrowths
                      \cup Files \cup Starts \cup Messages

ANext == subject = NoSubject /\ Compute /\ UNCHANGED subject

ASpec == AInit /\ [][ANext]_avars

--------------------------------------------------------------------------------
(* A heading between the values measured at two neighbouring points is      *)
(* corrected to one between the two points, across north too; at a value it *)
(* is the point.  (Not for a heading of exactly 0 between values on both    *)
(* sides of north: it is not corrected.)                                    *)
CorrectionKeepsArcs ==
  subject.of = "correction" =>
    LET n == Len(subject.values)
        values == Closed(subject.values)
        points == Closed([i \in 1..n |-> (i - 1) * (360 \div n)])
        h == Corrected(subject.heading, points, values)
    IN  \A i \in 1..n :
          LET into == Arc(values[i], subject.heading)
          IN  /\ into < Arc(values[i], values[i + 1])
              /\ subject.heading # 0 \/ into = 0
              => /\ h \in Degrees
                 /\ Arc(points[i], h) <= 360 \div n
                 /\ into = 0 => h = points[i]

(* Whenever init() comes, and whatever the coefficient, what a filter       *)
(* returns is within what was pushed: the zero it begins with has no part.  *)
Returned(s) ==
  LET f[n \in 0..Len(s.readings)] ==
        LET before == IF n = 0 THEN NewFilter ELSE
                        LET p == Push(f[n - 1], s.readings[n])
                        IN  IF IsReady(p) THEN AfterValue(p) ELSE p
        IN  IF n = s.initAt THEN FilterInit(before, s.points, s.k) ELSE before
  IN  [n \in 1..Len(s.readings) |->
         LET p == Push(f[n - 1], s.readings[n])
         IN  IF IsReady(p) THEN {Value(p)} ELSE {}]

FilterStaysBetween ==
  subject.of = "filter" =>
    \A n \in DOMAIN subject.readings :
      \A v \in Returned(subject)[n] :
        \E i, j \in 1..n : subject.readings[i] <= v /\ v <= subject.readings[j]

(* A transfer that fails leaves the whole of the old measurement.  A new    *)
(* one has every axis from its own two registers, and is of one sample if   *)
(* the device holds it; the acceleration of the lsm may mix two.            *)
FetchedWhole ==
  subject.of = "sensor" =>
    LET d == subject.device
        old == [a \in Axes |-> [msb |-> <<a, "msb", 0>>, lsb |-> <<a, "lsb", 0>>]]
        m == Measured(d, old, subject.failed, subject.update)
        samples == IF subject.failed <= 6 THEN {0}
                   ELSE IF Holds(d) THEN {1} ELSE {1, 2}
    IN  \A a \in Axes, half \in {"msb", "lsb"} :
          \E sample \in samples : m[a][half] = <<a, half, sample>>

(* The device measures over and over, in the range the driver takes it to   *)
(* have.                                                                    *)
ScalesAgree(d, regs, init) ==
  CASE d = "lsm" -> /\ Get(LsmMode, regs["mr"]) = 0
                    /\ init.rng = LsmScale[Get(LsmGain, regs["crb"])]
                    /\ init.as = LsmAccScale[Get(LsmFull, regs["ctrl4"]) + 1]
                    /\ Get(LsmOdr, regs["ctrl1"]) # 0
                    /\ \A a \in Axes : Get(LsmAxes[a], regs["ctrl1"]) = 1
    [] d = "hmc" -> /\ Get(HmcMode, regs["mode"]) = 0
                    /\ Get(HmcMeasure, regs["conf_a"]) = 0
                    /\ init.rng = HmcScale[Get(HmcGain, regs["conf_b"]) + 1]
    [] d = "qmc" -> /\ Get(QmcMode, regs["control1"]) = 1
                    /\ init.rng = QmcScale[Get(QmcRange, regs["control1"]) + 1]

(* What is read is of the scale it is multiplied by, whatever was in the    *)
(* registers, if no transfer of init() failed (nobody looks).               *)
SetUpAgrees ==
  subject.of = "setup" =>
    LET d == subject.device
        writes == InitOf(d).writes
        before == [r \in {writes[i][1] : i \in DOMAIN writes} |-> subject.before]
        regs == Written(d, before, subject.failed)
    IN  /\ \A r \in DOMAIN regs : regs[r] \in 0..255
        /\ subject.failed \cap DOMAIN writes = {} => ScalesAgree(d, regs, InitOf(d))

(* A measurement is one of its own, whole and of its scale.                 *)
MeasurementIsWhole == FetchedWhole /\ SetUpAgrees

(* A heap in which every timer knows its slot and none is before its parent. *)
WellFormed(h) ==
  /\ InOrder(h)
  /\ \A t \in Timers :
       h.active[t] = IF Contains(h.slots, t) THEN CHOOSE k \in DOMAIN h.slots : h.slots[k] = t
                     ELSE 0
  /\ IsInjective(h.slots)

(* A timer enters, leaves, is put off or comes round again without a trace: *)
(* the others keep their times and places in or out of a heap that is well  *)
(* formed.                                                                  *)
HeapIsKept ==
  subject.of = "heap" =>
    LET h == subject.heap
        t == subject.timer
        inside == h.active[t] # 0
        new == CASE subject.how = "enter_leave" ->
                      IF inside THEN Leave(h, t) ELSE Enter(h, t, subject.after)
                 [] subject.how = "again" -> TimerAgain(h, t, subject.after)
                 [] subject.how = "repeat" ->
                      IF inside /\ h.slots[1] = t /\ subject.after > 0
                      THEN Repeated(h, subject.after) ELSE TimersReschedule(h, -1)
    IN  /\ WellFormed(new)
        /\ \A u \in Timers \ {t} :
             /\ new.active[u] = 0 <=> h.active[u] = 0
             /\ \/ new.at[u] = h.at[u]
                \/ subject.how = "repeat" /\ new.at[u] = h.at[u] - 1

(* Whenever the clock is looked at, and however it has jumped: every        *)
(* periodic that was past is called once and no other, those that come      *)
(* again are due at their next time, the first after now, and the others    *)
(* are stopped; after a jump all that come again are due so, and none is    *)
(* stopped, while timers only go on from where they were.                   *)
PeriodicsComeNext ==
  subject.of = "periodic" =>
    LET h == subject.heap
        now == subject.now
        p == PeriodicSet
        past == {t \in DOMAIN p : h.active[t] # 0 /\ h.at[t] < now}
        r == PeriodicsReify(h, p, now)
        resumed == EvResume(h, h, p, 3, now)
        new == CASE subject.how = "reify" -> r.heap
                 [] subject.how = "resume" -> resumed.periodics
                 [] subject.how = "again" -> PeriodicAgain(h, p, 1, now)
        moved == CASE subject.how = "reify" -> past
                   [] subject.how = "resume" -> DOMAIN p
                   [] subject.how = "again" -> {1}
    IN  /\ WellFormed(new) /\ WellFormed(resumed.timers)
        /\ \A t \in ToSet(h.slots) : resumed.timers.at[t] = h.at[t] + 3
        /\ subject.how = "reify" => ToSet(r.called) = past /\ IsInjective(r.called)
        /\ \A t \in DOMAIN p :
             /\ new.active[t] # 0 <=> ComesAgain(p[t]) \/ subject.how # "reify" \/ t \notin past
             /\ IF t \notin moved \/ ~ComesAgain(p[t]) THEN new.at[t] = h.at[t]
                ELSE IF p[t].rescheduled THEN new.at[t] >= now
                ELSE /\ (new.at[t] - p[t].offset) % p[t].interval = 0
                     /\ now < new.at[t] /\ new.at[t] - p[t].interval <= now

(* Whatever starts and stops, in whatever order: every watcher knows its    *)
(* place in its array and no watcher that is stopped thinks to have one or  *)
(* stays in the queue; a round of ev_run calls each fork and prepare        *)
(* watcher and queues each check watcher, and each idle watcher unless      *)
(* something else is pending, and none of them twice (but a prepare watcher *)
(* that has an event of its own and is called for it with the fork          *)
(* watchers); it waits only without idle watchers, and goes on just as long *)
(* as there is a watcher that is no cleanup watcher.                        *)
RoundIsKept ==
  subject.of = "hooks" =>
    LET l == subject.loop
        w == subject.watcher
        k == subject.kinds[w]
        new == IF subject.start THEN Start(l, k, w) ELSE Stop(l, k, w)
        of(j) == ToSet(new.arrays[j])
        round == AfterPoll(BeforePoll(new, TRUE))
    IN  /\ EvVerify(new)
        /\ \A v \in Hooks :
             /\ new.active[v] # 0 <=> \E j \in Kinds : v \in of(j)
             /\ v # w => (new.active[v] # 0 <=> l.active[v] # 0)
        /\ new.active[w] # 0 <=> subject.start
        /\ ~subject.start => ~Contains(new.queue, w)
        /\ GoesOn(new) <=> \E j \in Kinds \ {"cleanup"} : of(j) # {}
        /\ MayWait(new) <=> of("idle") = {} /\ GoesOn(new)
        /\ \A i, j \in DOMAIN round.called :
             round.called[i] = round.called[j] /\ i # j =>
               round.called[i] = Fed /\ Fed \in of("prepare") /\ of("fork") # {}
        /\ IsInjective(round.queue)
        /\ of("fork") \cup of("prepare") \subseteq ToSet(round.called)
        /\ of("check") \subseteq ToSet(round.queue)
        /\ of("idle") \subseteq ToSet(round.queue) \/ Contains(round.queue, Fed)

(* An array that is too small becomes large enough, and at least twice as   *)
(* large; one of pages and malloc's pointers fills the pages.               *)
ArrayGrows ==
  subject.of = "array" /\ subject.cnt > subject.cur =>
    LET new == NextSize(subject.size, subject.cur, subject.cnt, subject.pointer)
        bytes == new * subject.size + 4 * subject.pointer
    IN  /\ new >= subject.cnt /\ new >= 2 * (subject.cur + 1)
        /\ bytes > MallocRound
           => (MallocRound - (bytes % MallocRound)) % MallocRound < subject.size

(* The arrays of watchers hold who has been started, and grow in time.      *)
ArraysAreKept == RoundIsKept /\ ArrayGrows

(* What a file says is what is read, wherever the blanks are and whatever   *)
(* stands behind; lines that say nothing set nothing the program asks for.  *)
FileIsRead ==
  subject.of = "file" =>
    LET b == subject.blank
        lines == <<subject.noise,
                   b \o <<"[">> \o subject.section \o <<"]">> \o subject.comment \o subject.end,
                   subject.noise,
                   b \o subject.key \o b \o <<"=">> \o b \o subject.value \o b
                     \o subject.comment \o subject.end>>
        config == Parse(lines, subject.behind).config
        setting == <<subject.section, subject.key>>
    IN  /\ setting \in DOMAIN config /\ config[setting] = subject.value
        /\ \A c \in DOMAIN config \ {setting} : Contains(c[2], "NUL")

(* What the constructor needs of each section.                              *)
Wrong(conf, world, s) ==
  CASE s = "common" -> Conf(conf, s, "calibfile") = <<"text", "">>
    [] s = "tcpctl" -> ~AreNumbers(conf, s, {"port", "keepalive"}) \/ ~world.binds
    [] s = "msensor" ->
         \/ ~AreNumbers(conf, s, {"i2cbus", "fpoints", "fcoef"}) \/ ~world.bus
         \/ \E a \in Axes : ~IsAxis(Conf(conf, s, AxisKey[a]))
    [] s = "stepper" ->
         ~AreNumbers(conf, s, {"en", "dir", "step", "err", "divider", "stepsize"})
         \/ world.file = "spoilt"

(* A client's message is taken apart at blanks without losing a letter, and *)
(* then does nothing.                                                       *)
MessageIsSplit ==
  subject.of = "message" =>
    LET words == Split(subject.text, " ")
        letter(c) == c # " "
        starts == {i \in DOMAIN subject.text :
                     /\ letter(subject.text[i])
                     /\ i = 1 \/ ~letter(subject.text[i - 1])}
    IN  /\ FlattenSeq(words) = Without({" "}, subject.text)
        /\ Len(words) = Cardinality(starts)
        /\ OnCtlReadyMsgCb(subject.text) = {}

(* With whatever is wrong in the configuration or around the program, it    *)
(* ends with the first section that is wrong (for a spoilt calibration file *)
(* that is "stepper") and has touched no pin; otherwise it runs, its pins   *)
(* are as configured, the motor enabled, and the axes of a measurement are  *)
(* exchanged without loss.                                                  *)
StartIsAsConfigured ==
  subject.of = "start" =>
    LET conf == subject.conf
        pins == [n \in Pins |->
                   [NotExported EXCEPT !.dir = IF subject.exported THEN "in" ELSE @]]
        p == RoutePrtDrv(conf, subject.world, pins)
        sections == <<"common", "tcpctl", "msensor", "stepper">>
        wrong == {i \in DOMAIN sections : Wrong(conf, subject.world, sections[i])}
        pin(k) == p.pins[Conf(conf, "stepper", k)[2]]
        m == [x |-> 1, y |-> 2, z |-> 3]
    IN  IF wrong # {}
        THEN /\ \E i \in wrong : (\A j \in wrong : i <= j) /\ p.told = sections[i]
             /\ p.pins = pins
        ELSE /\ Running(p)
             /\ DOMAIN p.made =
                  {"calibration", "server", "compass", "axes", "table", "loop"}
             /\ p.made.loop.watched /\ p.made.loop.entered
             /\ pin("en") = [dir |-> "out", level |-> TRUE, edge |-> "none"]
             /\ pin("dir").dir = "out" /\ pin("step").dir = "out"
             /\ pin("err").edge = "rising" <=> Conf(conf, "stepper", "err")[2] # 0
             /\ IsInjective(p.made.axes) => IsInjective(MapAxes(p.made.axes, m))

(* What comes from outside - the configuration file, the settings at the    *)
(* start, a client's message - is taken for what it says.                   *)
InputIsRead == FileIsRead /\ StartIsAsConfigured /\ MessageIsSplit

================================================================================
