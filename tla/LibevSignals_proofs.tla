-------------------------- MODULE LibevSignals_proofs --------------------------
(***************************************************************************)
(* Any number of threads, signals, asyncs and children against the loop:   *)
(* it does not sleep on what was signalled, and a child that was reaped is *)
(* told of.                                                                *)
(***************************************************************************)
EXTENDS LibevSignals, SequenceTheorems, FiniteSetTheorems, TLAPS

Places == {"top", "wanted", "poll", "peek", "polled", "unwanted", "invoke", "pipe", "unskip",
           "sig", "take_sig", "scan_sig", "async", "take_async", "scan_async"}

TypeOK ==
  /\ news \in [Kids -> {"none", "runs", "stopped", "halted", "exited", "reaped"}]
  /\ wpc \in [Threads -> [at : {"idle", "blocked", "test", "set", "skip", "ask", "clear",
                                "write"},
                          for : DOMAIN Flags]]
  /\ marked \subseteq Signals \cup Asyncs
  /\ flag \in [DOMAIN Flags -> BOOLEAN]
  /\ skipped \in BOOLEAN /\ wanted \in BOOLEAN /\ counter \in BOOLEAN
  /\ lpc \in Places
  /\ todo \subseteq Signals \cup Asyncs
  /\ queue \in [max : Seq({pipe_w, childev} \cup ChildWatchers),
                normal : Seq((SigWatchers \ {childev}) \cup Asyncs)]
  /\ childev \in active
  /\ rpid \in [ChildWatchers -> Kids \cup {AnyKid}]

(* Someone is going to set the flag, to write, or to ask again whether to.  *)
Flagging(f) == \E t \in Threads : wpc[t].at \in {"test", "set"} /\ wpc[t].for = f
Writing == \E t \in Threads : wpc[t].at \in {"skip", "clear", "write"}
Reconsidering == \E t \in Threads : wpc[t].at \in {"ask", "clear"}

(* pipe_write_wanted is set exactly around the poll.                        *)
WantedAroundPoll == wanted <=> lpc \in {"wanted", "poll", "peek", "polled"}

(* What is queued where.  The eventfd's watcher is alone when it is, and    *)
(* childev is called after all watchers it has fed.                         *)
Empty == [max |-> <<>>, normal |-> <<>>]
OnlyPipe == [max |-> <<pipe_w>>, normal |-> <<>>]
ChildevFirst(s) ==
  /\ Len(s) > 0 /\ s[1] = childev
  /\ \A i \in 2..Len(s) : s[i] \in ChildWatchers

QueueInOrder ==
  /\ lpc \in {"top", "wanted", "poll", "peek"} => queue = Empty
  /\ lpc \in {"polled", "unwanted"} => queue \in {Empty, OnlyPipe}
  /\ lpc = "invoke" =>
       queue = OnlyPipe \/ queue.max = <<>> \/ ChildevFirst(queue.max)
  /\ lpc \in {"pipe", "unskip", "sig", "take_sig", "scan_sig", "async", "take_async",
              "scan_async"} => queue.max \in {<<>>, <<childev>>}

(* A mark has its flag, or soon will have it, or is being looked for.       *)
MarksAreFlagged ==
  \A f \in DOMAIN Flags : \A x \in marked \cap Flags[f] :
    (f = "async" => x \in active) =>
      flag[f] \/ (lpc = Scanning[f] /\ x \in todo) \/ Flagging(f)

(* A flag is known to the loop, or it is about to learn of it.              *)
Looking == [sig |-> {"pipe", "unskip", "sig", "take_sig"},
            async |-> {"pipe", "unskip", "sig", "take_sig", "scan_sig", "async",
                       "take_async"}]
FlagsAreWritten ==
  \A f \in DOMAIN Flags : flag[f] =>
    \/ counter \/ skipped \/ queue = OnlyPipe \/ lpc \in Looking[f]
    \/ Writing

(* Whoever has skipped the write while the loop polls looks again.          *)
SkippedIsReconsidered == lpc = "poll" /\ skipped => Reconsidering

SleepInv ==
  /\ TypeOK
  /\ WantedAroundPoll
  /\ QueueInOrder
  /\ MarksAreFlagged
  /\ FlagsAreWritten
  /\ SkippedIsReconsidered

LEMMA SleepInvInit == Init => SleepInv
<1> SUFFICES ASSUME Init PROVE SleepInv
  OBVIOUS
<1> USE SignalsAssumption DEF Init
<1>1. TypeOK
  <2>1. queue \in [max : Seq({pipe_w, childev} \cup ChildWatchers),
                   normal : Seq((SigWatchers \ {childev}) \cup Asyncs)]
    BY EmptySeq
  <2> QED BY <2>1 DEF TypeOK, Places, EvpipeInit, Flags
<1> QED BY <1>1 DEF SleepInv, WantedAroundPoll, QueueInOrder, MarksAreFlagged, FlagsAreWritten,
                    SkippedIsReconsidered, Empty, Flags

(* Sequences of a finite set hold every element of it.                      *)
LEMMA SeqsOfSet ==
  ASSUME NEW S, IsFiniteSet(S), NEW s \in SetToSeqs(S)
  PROVE  s \in Seq(S) /\ Len(s) = Cardinality(S) /\ \A x \in S : Contains(s, x)
<1> DEFINE n == Cardinality(S)
<1>1. n \in Nat /\ s \in [1..n -> S] /\ \A i, j \in 1..n : i # j => s[i] # s[j]
  BY FS_CardinalityType DEF SetToSeqs
<1>2. s \in Seq(S) /\ Len(s) = n
  BY <1>1, SeqDef
<1>3. s \in Injection(1..n, S)
  BY <1>1 DEF Injection, IsInjective
<1>4. s \in Surjection(1..n, S)
  <2>1. IsFiniteSet(1..n) /\ Cardinality(1..n) = n
    BY <1>1, FS_Interval
  <2> QED BY <1>3, <2>1, FS_Injection
<1> QED BY <1>2, <1>4 DEF Surjection, Contains

LEMMA FeedsPipe ==
  ASSUME queue \in {Empty, OnlyPipe}
  PROVE  Feed(queue, pipe_w) = OnlyPipe
<1>1. Priority(pipe_w) = "max"
  BY DEF Priority
<1>2. CASE queue = Empty
  <2>1. ~Pends(queue, pipe_w)
    BY <1>1, <1>2 DEF Pends, Contains, Empty
  <2>2. Append(<<>>, pipe_w) = <<pipe_w>>
    OBVIOUS
  <2> QED BY <1>1, <1>2, <2>1, <2>2 DEF Feed, Empty, OnlyPipe
<1>3. CASE queue = OnlyPipe
  <2>1. Contains(<<pipe_w>>, pipe_w)
    BY DEF Contains
  <2> QED BY <1>1, <1>3, <2>1 DEF Feed, Pends, OnlyPipe
<1> QED BY <1>2, <1>3

(* Handlers.  A thread that has marked something goes on to the flag.       *)
LEMMA SleepInvMark ==
  ASSUME SleepInv, NEW t \in Threads, NEW f \in DOMAIN Flags, NEW x \in Flags[f],
         Mark(t, x, f)
  PROVE  SleepInv'
<1> USE DEF SleepInv, Mark, loopVars
<1>1. /\ wpc' \in [Threads -> [at : {"idle", "blocked", "test", "set", "skip", "ask",
                                      "clear", "write"}, for : DOMAIN Flags]]
      /\ wpc'[t] = [at |-> "test", for |-> f]
      /\ \A u \in Threads : wpc[u].at # "idle" => wpc'[u] = wpc[u]
  BY DEF TypeOK
<1>2. TypeOK'
  <2>1. x \in Signals \cup Asyncs
    BY DEF Flags
  <2> QED BY <1>1, <2>1 DEF TypeOK
<1>3. MarksAreFlagged'
  <2> SUFFICES ASSUME NEW g \in DOMAIN Flags, NEW y \in marked' \cap Flags[g],
                      g = "async" => y \in active
               PROVE  \/ flag[g] \/ (lpc = Scanning[g] /\ y \in todo)
                      \/ Flagging(g)'
    BY DEF MarksAreFlagged
  <2>1. CASE y = x
    <3>1. f = g
      BY <2>1, SignalsAssumption DEF Flags
    <3> QED BY <1>1, <3>1 DEF Flagging
  <2>2. CASE y # x
    BY <1>1, <2>2 DEF MarksAreFlagged, Flagging
  <2> QED BY <2>1, <2>2
<1>4. FlagsAreWritten' /\ SkippedIsReconsidered'
  BY <1>1 DEF FlagsAreWritten, SkippedIsReconsidered, Writing, Reconsidering
<1> QED BY <1>2, <1>3, <1>4 DEF WantedAroundPoll, QueueInOrder

LEMMA GoesTo ==
  ASSUME NEW t \in Threads, NEW from, TypeOK,
         NEW to \in {"idle", "set", "skip", "ask", "clear", "write"}, Goes(t, from, to)
  PROVE  /\ wpc[t].at = from /\ wpc'[t].at = to /\ wpc'[t].for = wpc[t].for
         /\ \A u \in Threads \ {t} : wpc'[u] = wpc[u]
         /\ wpc' \in [Threads -> [at : {"idle", "blocked", "test", "set", "skip", "ask",
                                         "clear", "write"}, for : DOMAIN Flags]]
<1>1. wpc[t].at = from /\ wpc' = [wpc EXCEPT ![t] = [wpc[t] EXCEPT !.at = to]]
  BY DEF Goes
<1>2. wpc[t] \in [at : {"idle", "blocked", "test", "set", "skip", "ask", "clear", "write"},
                  for : DOMAIN Flags]
  BY DEF TypeOK
<1>3. [wpc[t] EXCEPT !.at = to] = [at |-> to, for |-> wpc[t].for]
  BY <1>2
<1> QED BY <1>1, <1>2, <1>3 DEF TypeOK

(* The steps of evpipe_write, one by one.                                   *)
WriteStep(t) ==
  /\ wpc'[t].for = wpc[t].for
  /\ \A u \in Threads \ {t} : wpc'[u] = wpc[u]
  /\ wpc' \in [Threads -> [at : {"idle", "blocked", "test", "set", "skip", "ask",
                                  "clear", "write"}, for : DOMAIN Flags]]
  /\ \/ /\ wpc[t].at = "test" /\ UNCHANGED <<flag, skipped, counter>>
        /\ wpc'[t].at = IF flag[wpc[t].for] THEN "idle" ELSE "set"
     \/ /\ wpc[t].at = "set" /\ wpc'[t].at = "skip" /\ UNCHANGED <<skipped, counter>>
        /\ flag' = [flag EXCEPT ![wpc[t].for] = TRUE]
     \/ /\ wpc[t].at = "skip" /\ wpc'[t].at = "ask" /\ skipped' /\ skipped' \in BOOLEAN
        /\ UNCHANGED <<flag, counter>>
     \/ /\ wpc[t].at = "ask" /\ wpc'[t].at = (IF wanted THEN "clear" ELSE "idle")
        /\ UNCHANGED <<flag, skipped, counter>>
     \/ /\ wpc[t].at = "clear" /\ wpc'[t].at = "write"
        /\ ~skipped' /\ skipped' \in BOOLEAN /\ UNCHANGED <<flag, counter>>
     \/ /\ wpc[t].at = "write" /\ wpc'[t].at = "idle"
        /\ counter' /\ counter' \in BOOLEAN /\ UNCHANGED <<flag, skipped>>

LEMMA WriteSteps ==
  ASSUME NEW t \in Threads, TypeOK, EvpipeWrite(t)
  PROVE  WriteStep(t)
<1> USE DEF WriteStep
<1>1. CASE Test(t)
  BY <1>1, GoesTo DEF Test
<1>2. CASE Set(t)
  BY <1>2, GoesTo DEF Set
<1>3. CASE Skip(t)
  BY <1>3, GoesTo DEF Skip
<1>4. CASE Write(t)
  BY <1>4, GoesTo DEF Write
<1> QED BY <1>1, <1>2, <1>3, <1>4 DEF EvpipeWrite

LEMMA SleepInvWrite ==
  ASSUME SleepInv, NEW t \in Threads, EvpipeWrite(t)
  PROVE  SleepInv'
<1> USE DEF SleepInv, loopVars, WriteStep
<1>1. /\ UNCHANGED <<news, marked, wanted, lpc, todo, queue, active, rpid>>
      /\ WriteStep(t)
  BY WriteSteps DEF EvpipeWrite, kernelVars
<1>2. wpc[t].for \in DOMAIN Flags /\ DOMAIN flag = DOMAIN Flags
  BY DEF TypeOK
<1>3. TypeOK'
  BY <1>1, <1>2 DEF TypeOK
<1>4. WantedAroundPoll' /\ QueueInOrder'
  BY <1>1 DEF WantedAroundPoll, QueueInOrder
<1>5. MarksAreFlagged'
  <2> SUFFICES ASSUME NEW g \in DOMAIN Flags, NEW y \in marked \cap Flags[g],
                      g = "async" => y \in active,
                      ~flag'[g], ~(lpc = Scanning[g] /\ y \in todo)
               PROVE  Flagging(g)'
    BY <1>1 DEF MarksAreFlagged
  <2>1. ~flag[g]
    BY <1>1, <1>2 DEF TypeOK
  <2>2. PICK u \in Threads : wpc[u].at \in {"test", "set"} /\ wpc[u].for = g
    BY <2>1 DEF MarksAreFlagged, Flagging
  <2>3. CASE u # t
    BY <1>1, <2>2, <2>3 DEF Flagging
  <2>4. CASE u = t
    <3>1. wpc'[t].at = "set"
      BY <1>1, <1>2, <2>1, <2>2, <2>4 DEF TypeOK
    <3> QED BY <1>1, <2>2, <2>4, <3>1 DEF Flagging
  <2> QED BY <2>3, <2>4
<1>6. FlagsAreWritten'
  <2> SUFFICES ASSUME NEW g \in DOMAIN Flags, flag'[g],
                      ~counter', ~skipped', queue # OnlyPipe, lpc \notin Looking[g]
               PROVE  Writing'
    BY <1>1 DEF FlagsAreWritten
  <2>1. CASE wpc'[t].at \in {"skip", "clear", "write"}
    BY <2>1 DEF Writing, Reconsidering
  <2>2. CASE wpc'[t].at \notin {"skip", "clear", "write"}
    <3>1. flag' = flag /\ counter' = counter /\ skipped' = skipped
      BY <1>1, <2>2 DEF TypeOK
    <3>2. wpc[t].at \in {"test", "ask"}
      BY <1>1, <2>2, <3>1 DEF TypeOK
    <3>3. PICK u \in Threads : wpc[u].at \in {"skip", "clear", "write"}
      BY <3>1 DEF FlagsAreWritten, Writing
    <3> QED BY <1>1, <3>2, <3>3 DEF Writing, Reconsidering
  <2> QED BY <2>1, <2>2
<1>7. SkippedIsReconsidered'
  <2> SUFFICES ASSUME lpc = "poll", skipped'
               PROVE  Reconsidering'
    BY <1>1 DEF SkippedIsReconsidered
  <2>1. CASE wpc'[t].at \in {"ask", "clear"}
    BY <2>1 DEF Writing, Reconsidering
  <2>2. CASE wpc'[t].at \notin {"ask", "clear"}
    <3>1. wanted
      BY DEF WantedAroundPoll
    <3>2. wpc[t].at \notin {"skip", "ask", "clear"} /\ skipped' = skipped
      BY <1>1, <2>2, <3>1
    <3>3. PICK u \in Threads : wpc[u].at \in {"ask", "clear"}
      BY <3>2 DEF SkippedIsReconsidered, Reconsidering
    <3> QED BY <1>1, <3>2, <3>3 DEF Writing, Reconsidering
  <2> QED BY <2>1, <2>2
<1> QED BY <1>3, <1>4, <1>5, <1>6, <1>7

(* The loop, up to its poll and after it.                                   *)
LEMMA SleepInvBeforePoll == SleepInv /\ BeforePoll => SleepInv'
<1> SUFFICES ASSUME SleepInv, BeforePoll PROVE SleepInv'
  OBVIOUS
<1> USE DEF SleepInv, BeforePoll, Want, Step, Same, kernelVars, Scanning, Looking, Flags
<1>1. TypeOK' /\ WantedAroundPoll' /\ QueueInOrder'
  BY DEF TypeOK, Places, WantedAroundPoll, QueueInOrder
<1>2. MarksAreFlagged'
  BY DEF MarksAreFlagged, Flagging
<1>3. FlagsAreWritten' /\ SkippedIsReconsidered'
  BY DEF FlagsAreWritten, SkippedIsReconsidered, Writing, Reconsidering
<1> QED BY <1>1, <1>2, <1>3

LEMMA PipeAloneIsTyped ==
  OnlyPipe \in [max : Seq({pipe_w, childev} \cup ChildWatchers),
                normal : Seq((SigWatchers \ {childev}) \cup Asyncs)]
<1>1. <<pipe_w>> \in Seq({pipe_w, childev} \cup ChildWatchers)
  OBVIOUS
<1> QED BY <1>1, EmptySeq DEF OnlyPipe

LEMMA SleepInvPoll == SleepInv /\ (Poll \/ AfterPoll) => SleepInv'
<1> SUFFICES ASSUME SleepInv, Poll \/ AfterPoll PROVE SleepInv'
  OBVIOUS
<1> USE DEF SleepInv, Step, Same, kernelVars, Scanning, Looking, Flags
<1>1. queue \in {Empty, OnlyPipe}
  BY DEF Poll, AfterPoll, QueueInOrder
<1>2. /\ queue' \in {queue, OnlyPipe}
      /\ lpc = "unwanted" /\ skipped => queue' = OnlyPipe
  BY <1>1, FeedsPipe DEF Poll, AfterPoll
<1>3. TypeOK'
  BY <1>2, PipeAloneIsTyped DEF TypeOK, Places, Poll, AfterPoll
<1>4. WantedAroundPoll' /\ QueueInOrder'
  BY <1>1, <1>2 DEF WantedAroundPoll, QueueInOrder, Poll, AfterPoll, Empty
<1>5. MarksAreFlagged'
  BY DEF MarksAreFlagged, Flagging, Poll, AfterPoll
<1>6. FlagsAreWritten' /\ SkippedIsReconsidered'
  BY <1>2 DEF FlagsAreWritten, SkippedIsReconsidered, Writing, Reconsidering, Poll, AfterPoll
<1> QED BY <1>3, <1>4, <1>5, <1>6

(* The steps of pipecb, one by one.                                         *)
PipeStep ==
  \/ /\ lpc = "pipe" /\ lpc' = "unskip" /\ counter' = FALSE /\ UNCHANGED <<skipped, flag, todo>>
  \/ /\ lpc = "unskip" /\ lpc' = "sig" /\ skipped' = FALSE /\ UNCHANGED <<counter, flag, todo>>
  \/ /\ lpc = "sig" /\ flag["sig"] /\ lpc' = "take_sig"
     /\ UNCHANGED <<skipped, counter, flag, todo>>
  \/ /\ lpc = "async" /\ flag["async"] /\ lpc' = "take_async"
     /\ UNCHANGED <<skipped, counter, flag, todo>>
  \/ /\ lpc = "take_sig" /\ lpc' = "scan_sig" /\ UNCHANGED <<skipped, counter>>
     /\ flag' = [flag EXCEPT !["sig"] = FALSE] /\ todo' = Signals
  \/ /\ lpc = "take_async" /\ lpc' = "scan_async" /\ UNCHANGED <<skipped, counter>>
     /\ flag' = [flag EXCEPT !["async"] = FALSE] /\ todo' = Asyncs
  \/ /\ lpc = "sig" /\ ~flag["sig"] /\ lpc' = "async"
     /\ UNCHANGED <<skipped, counter, flag, todo>>
  \/ /\ lpc = "async" /\ ~flag["async"] /\ lpc' = "invoke"
     /\ UNCHANGED <<skipped, counter, flag, todo>>

LEMMA PipeSteps ==
  ASSUME PipeCb
  PROVE  /\ UNCHANGED <<news, wpc, marked, active, rpid, wanted, queue>>
         /\ PipeStep
<1> USE DEF PipeCb, Same, kernelVars, PipeStep
<1>1. ASSUME PipeRead \/ Unskip, UNCHANGED <<flag, todo>>
      PROVE  PipeStep
  BY <1>1 DEF PipeRead, Unskip, Step
<1>2. ASSUME TakeFlag("sig") \/ NoFlag("sig"), UNCHANGED <<skipped, counter>>
      PROVE  PipeStep
  BY <1>2 DEF TakeFlag, NoFlag, After, Taking, Scanning, Flags
<1>3. ASSUME TakeFlag("async") \/ NoFlag("async"), UNCHANGED <<skipped, counter>>
      PROVE  PipeStep
  BY <1>3 DEF TakeFlag, NoFlag, After, Taking, Scanning, Flags
<1>4. DOMAIN Flags = {"sig", "async"}
  BY DEF Flags
<1> QED BY <1>1, <1>2, <1>3, <1>4

LEMMA SleepInvPipeCb == SleepInv /\ PipeCb => SleepInv'
<1> SUFFICES ASSUME SleepInv, PipeCb PROVE SleepInv'
  OBVIOUS
<1>1. UNCHANGED <<news, wpc, marked, active, rpid, wanted, queue>> /\ PipeStep
  BY PipeSteps
<1>2. DOMAIN Flags = {"sig", "async"} /\ Flags["sig"] = Signals /\ Flags["async"] = Asyncs
  BY DEF Flags
<1> USE DEF SleepInv, PipeStep
<1>3. flag \in [{"sig", "async"} -> BOOLEAN]
  BY <1>2 DEF TypeOK
<1>4. TypeOK'
  BY <1>1, <1>2 DEF TypeOK, Places
<1>5. WantedAroundPoll' /\ QueueInOrder'
  <2>1. ChildevFirst(<<childev>>)
    BY DEF ChildevFirst
  <2> QED BY <1>1, <2>1 DEF WantedAroundPoll, QueueInOrder
<1>6. MarksAreFlagged'
  <2> SUFFICES ASSUME NEW f \in {"sig", "async"}, NEW x \in marked \cap Flags[f],
                      f = "async" => x \in active
               PROVE  \/ flag'[f] \/ (lpc' = Scanning[f] /\ x \in todo')
                      \/ Flagging(f)
    BY <1>1, <1>2 DEF MarksAreFlagged, Flagging
  <2>1. flag[f] \/ (lpc = Scanning[f] /\ x \in todo) \/ Flagging(f)
    BY <1>2 DEF MarksAreFlagged
  <2>2. CASE f = "sig"
    BY <1>1, <1>2, <1>3, <2>1, <2>2 DEF Scanning
  <2>3. CASE f = "async"
    BY <1>1, <1>2, <1>3, <2>1, <2>3 DEF Scanning
  <2> QED BY <2>2, <2>3
<1>7. FlagsAreWritten'
  <2> SUFFICES ASSUME NEW f \in {"sig", "async"}, flag'[f]
               PROVE  \/ counter' \/ skipped' \/ queue = OnlyPipe \/ lpc' \in Looking[f]
                      \/ Writing
    BY <1>1, <1>2 DEF FlagsAreWritten, Writing
  <2>1. flag[f]
    BY <1>1, <1>2 DEF TypeOK
  <2>2. \/ counter \/ skipped \/ queue = OnlyPipe \/ lpc \in Looking[f]
        \/ Writing
    BY <1>2, <2>1 DEF FlagsAreWritten
  <2>3. CASE f = "sig"
    <3>1. Looking[f] = {"pipe", "unskip", "sig", "take_sig"}
      BY <2>3 DEF Looking
    <3>2. lpc # "take_sig"
      BY <1>1, <1>3, <2>3
    <3>3. flag["sig"]
      BY <2>1, <2>3
    <3> QED BY <1>1, <2>2, <3>1, <3>2, <3>3
  <2>4. CASE f = "async"
    <3>1. Looking[f] = {"pipe", "unskip", "sig", "take_sig", "scan_sig", "async",
                        "take_async"}
      BY <2>4 DEF Looking
    <3> QED BY <1>1, <1>3, <2>1, <2>2, <2>4, <3>1
  <2> QED BY <2>3, <2>4
<1>8. SkippedIsReconsidered'
  BY <1>1 DEF SkippedIsReconsidered
<1> QED BY <1>4, <1>5, <1>6, <1>7, <1>8

(* Watchers of signals and asyncs are fed with their own priority: of them, *)
(* only childev is among the urgent.                                        *)
LEMMA FeedsSignal ==
  ASSUME TypeOK, NEW x \in Signals \cup Asyncs, NEW q \in Feeds(queue, WatchersOf(x)),
         queue.max \in {<<>>, <<childev>>}
  PROVE  /\ q.max \in {<<>>, <<childev>>}
         /\ q \in [max : Seq({pipe_w, childev} \cup ChildWatchers),
                   normal : Seq((SigWatchers \ {childev}) \cup Asyncs)]
<1> DEFINE W == WatchersOf(x)
           U == Unfed(queue, W, "max")
           V == Unfed(queue, W, "normal")
<1>1. W \subseteq SigWatchers \cup Asyncs /\ IsFiniteSet(W)
  <2>1. CASE x \in Asyncs
    <3>1. W \subseteq {x} /\ IsFiniteSet({x})
      BY <2>1, FS_Singleton DEF WatchersOf
    <3> QED BY <2>1, <3>1, FS_Subset
  <2>2. CASE x \notin Asyncs
    <3>1. W \subseteq SigWatchers /\ IsFiniteSet(SigWatchers)
      BY <2>2, SignalsAssumption DEF WatchersOf
    <3> QED BY <3>1, FS_Subset
  <2> QED BY <2>1, <2>2
<1>2. PICK m \in SetToSeqs(U), n \in SetToSeqs(V) :
        q = [max |-> queue.max \o m, normal |-> queue.normal \o n]
  BY DEF Feeds
<1>3. U \subseteq {childev} /\ V \subseteq (SigWatchers \ {childev}) \cup Asyncs
  <2>1. \A w \in SigWatchers \cup Asyncs :
          Priority(w) = IF w = childev THEN "max" ELSE "normal"
    BY SignalsAssumption DEF Priority
  <2> QED BY <1>1, <2>1 DEF Unfed
<1>4. IsFiniteSet(U) /\ IsFiniteSet(V)
  BY <1>1, FS_Subset DEF Unfed
<1> HIDE DEF U, V, W
<1>5. m \in Seq(U) /\ Len(m) = Cardinality(U) /\ n \in Seq(V)
  BY <1>4, SeqsOfSet
<1>6. queue.max \o m \in {<<>>, <<childev>>}
  <2>1. CASE U = {}
    <3>1. m = <<>>
      BY <1>4, <1>5, <2>1, FS_EmptySet
    <3> QED BY <3>1
  <2>2. CASE U = {childev}
    <3>1. Len(m) = 1 /\ m[1] = childev
      <4>1. Cardinality({childev}) = 1
        BY FS_Singleton
      <4>2. m \in Seq({childev}) /\ Len(m) = 1
        BY <1>5, <2>2, <4>1
      <4>3. m[1] \in {childev}
        <5>1. 1 \in 1..Len(m)
          BY <4>2
        <5> QED BY <4>2, <5>1, ElementOfSeq
      <4> QED BY <4>2, <4>3
    <3>2. m = <<childev>>
      BY <1>5, <3>1
    <3>3. queue.max = <<>>
      <4>1. Contains(<<childev>>, childev)
        BY DEF Contains
      <4>2. ~Contains(queue.max, childev)
        BY <2>2 DEF U, Unfed, Pends
      <4> QED BY <4>1, <4>2
    <3> QED BY <3>2, <3>3
  <2> QED BY <1>3, <2>1, <2>2
<1>7. queue.normal \o n \in Seq((SigWatchers \ {childev}) \cup Asyncs)
  <2>1. n \in Seq((SigWatchers \ {childev}) \cup Asyncs)
    BY <1>3, <1>5, SeqMonotonic
  <2> QED BY <2>1, ConcatProperties DEF TypeOK
<1>8. <<>> \in Seq({pipe_w, childev} \cup ChildWatchers)
      /\ <<childev>> \in Seq({pipe_w, childev} \cup ChildWatchers)
  OBVIOUS
<1> QED BY <1>2, <1>6, <1>7, <1>8

LEMMA SleepInvScan ==
  ASSUME SleepInv, NEW f \in {"sig", "async"}, Scan(f)
  PROVE  SleepInv'
<1> USE DEF SleepInv, Scan, kernelVars
<1>1. DOMAIN Flags = {"sig", "async"} /\ Flags["sig"] = Signals /\ Flags["async"] = Asyncs
      /\ Scanning["sig"] = "scan_sig" /\ Scanning["async"] = "scan_async"
  BY DEF Flags, Scanning
<1>2. lpc \in {"scan_sig", "scan_async"} /\ queue.max \in {<<>>, <<childev>>}
  BY <1>1 DEF QueueInOrder
<1>3. /\ queue'.max \in {<<>>, <<childev>>}
      /\ queue' \in [max : Seq({pipe_w, childev} \cup ChildWatchers),
                     normal : Seq((SigWatchers \ {childev}) \cup Asyncs)]
  <2>1. \A x \in todo : x \in Signals \cup Asyncs
    BY DEF TypeOK
  <2>2. CASE queue' = queue
    BY <1>2, <2>2 DEF TypeOK
  <2>3. CASE \E x \in todo : queue' \in Feeds(queue, WatchersOf(x))
    BY <1>2, <2>1, <2>3, FeedsSignal
  <2> QED BY <2>2, <2>3
<1>4. UNCHANGED <<news, wpc, flag, skipped, wanted, counter, active, rpid>>
      /\ marked' \subseteq marked /\ todo' \subseteq todo
  BY DEF Scan
<1>5. \/ lpc' = lpc
      \/ lpc = "scan_sig" /\ lpc' = "async"
      \/ lpc = "scan_async" /\ lpc' = "invoke"
  BY <1>1, <1>2 DEF After
<1>6. TypeOK'
  BY <1>3, <1>4, <1>5 DEF TypeOK, Places
<1>7. WantedAroundPoll' /\ QueueInOrder'
  <2>1. ChildevFirst(<<childev>>)
    BY DEF ChildevFirst
  <2> QED BY <1>2, <1>3, <1>4, <1>5, <2>1 DEF WantedAroundPoll, QueueInOrder
<1>8. MarksAreFlagged'
  <2> SUFFICES ASSUME NEW g \in {"sig", "async"}, NEW y \in marked' \cap Flags[g],
                      g = "async" => y \in active
               PROVE  flag[g] \/ (lpc' = Scanning[g] /\ y \in todo') \/ Flagging(g)
    BY <1>1, <1>4 DEF MarksAreFlagged, Flagging
  <2>1. flag[g] \/ (lpc = Scanning[g] /\ y \in todo) \/ Flagging(g)
    BY <1>1, <1>4 DEF MarksAreFlagged
  <2>2. ASSUME lpc = Scanning[g], y \in todo
        PROVE  lpc' = Scanning[g] /\ y \in todo'
    <3>1. PICK x \in todo : /\ todo' = todo \ {x} /\ lpc' = lpc
                            /\ \/ x \in marked /\ marked' = IF x \in Asyncs \ active
                                                            THEN marked ELSE marked \ {x}
                               \/ x \notin marked /\ marked' = marked
      BY <2>2
    <3>2. y # x
      BY <1>1, <3>1, SignalsAssumption
    <3> QED BY <2>2, <3>1, <3>2
  <2> QED BY <2>1, <2>2
<1>9. FlagsAreWritten'
  <2>1. queue # OnlyPipe
    <3>1. pipe_w # childev
      BY SignalsAssumption
    <3> QED BY <1>2, <3>1 DEF OnlyPipe
  <2> SUFFICES ASSUME NEW g \in {"sig", "async"}, flag[g]
               PROVE  counter \/ skipped \/ lpc' \in Looking[g] \/ Writing
    BY <1>1, <1>4 DEF FlagsAreWritten, Writing
  <2>2. counter \/ skipped \/ lpc \in Looking[g] \/ Writing
    BY <1>1, <2>1 DEF FlagsAreWritten
  <2>3. Looking["sig"] = {"pipe", "unskip", "sig", "take_sig"}
        /\ Looking["async"] = {"pipe", "unskip", "sig", "take_sig", "scan_sig", "async",
                               "take_async"}
    BY DEF Looking
  <2> QED BY <1>5, <2>2, <2>3
<1>10. SkippedIsReconsidered'
  BY <1>2, <1>5 DEF SkippedIsReconsidered
<1> QED BY <1>6, <1>7, <1>8, <1>9, <1>10

LEMMA SleepInvOutside ==
  ASSUME SleepInv, (\E s \in Signals : Raise(s)) \/ (\E k \in Kids : Change(k))
  PROVE  SleepInv'
<1>1. UNCHANGED <<wpc, pipeVars, loopVars>>
  BY DEF Raise, Change
<1>2. TypeOK'
  BY <1>1 DEF SleepInv, TypeOK, Raise, Change, pipeVars, loopVars
<1> QED BY <1>1, <1>2
        DEF SleepInv, pipeVars, loopVars, WantedAroundPoll, QueueInOrder, MarksAreFlagged,
            FlagsAreWritten, SkippedIsReconsidered, Flagging, Writing, Reconsidering

(* What is left in the queue when the next watcher has been taken from it.  *)
Queues == [max : Seq({pipe_w, childev} \cup ChildWatchers),
           normal : Seq((SigWatchers \ {childev}) \cup Asyncs)]

LEMMA FrontOfSeq ==
  ASSUME NEW S, NEW s \in Seq(S), s # <<>>
  PROVE  /\ Len(s) \in Nat \ {0} /\ Last(s) = s[Len(s)] /\ Last(s) \in S
         /\ Front(s) \in Seq(S) /\ Len(Front(s)) = Len(s) - 1
         /\ \A i \in 1..Len(s) - 1 : Front(s)[i] = s[i]
<1>1. Len(s) \in Nat \ {0}
  BY EmptySeq
<1>2. \A i \in 1..Len(s) - 1 : s[i] \in S
  BY <1>1, ElementOfSeq
<1>3. Last(s) \in S
  <2>1. Len(s) \in 1..Len(s)
    BY <1>1
  <2> QED BY <2>1, ElementOfSeq DEF Last
<1>4. /\ SubSeq(s, 1, Len(s) - 1) \in Seq(S)
      /\ Len(SubSeq(s, 1, Len(s) - 1)) = IF 1 <= Len(s) - 1 THEN Len(s) - 1 - 1 + 1 ELSE 0
      /\ \A i \in 1..Len(s) - 1 - 1 + 1 : SubSeq(s, 1, Len(s) - 1)[i] = s[1 + i - 1]
  BY <1>1, <1>2, SubSeqProperties
<1>5. \A i \in 1..Len(s) - 1 : Front(s)[i] = s[i]
  BY <1>1, <1>4 DEF Front
<1>6. Front(s) \in Seq(S) /\ Len(Front(s)) = Len(s) - 1
  <2> DEFINE n == Len(s)
             m == Len(SubSeq(s, 1, n - 1))
  <2>1. n \in Nat \ {0} /\ m = IF 1 <= n - 1 THEN n - 1 - 1 + 1 ELSE 0
    BY <1>1, <1>4
  <2> HIDE DEF m, n
  <2>2. m = n - 1
    BY <2>1
  <2> QED BY <1>4, <2>2 DEF Front, m, n
<1> QED BY <1>1, <1>3, <1>5, <1>6 DEF Last

LEMMA NextInQueue ==
  ASSUME TypeOK, QueueInOrder, lpc = "invoke", ~Idle
  PROVE  /\ Popped \in Queues
         /\ Next1 = pipe_w => queue = OnlyPipe /\ Popped = Empty
         /\ Next1 = childev => queue.max = <<childev>> /\ Popped.max = <<>>
         /\ Next1 \in ChildWatchers => ChildevFirst(queue.max) /\ ChildevFirst(Popped.max)
                                       /\ Popped.max = Front(queue.max)
         /\ Next1 \in (SigWatchers \ {childev}) \cup Asyncs =>
              queue.max = <<>> /\ Popped.max = <<>>
<1>1. queue \in Queues /\ (queue.max # <<>> \/ queue.normal # <<>>)
  BY DEF TypeOK, Idle, Queues
<1>2. CASE queue.max = <<>>
  <2>1. Next1 \in (SigWatchers \ {childev}) \cup Asyncs
    BY <1>1, <1>2, FrontOfSeq DEF Next1, Queues
  <2>2. Popped = [max |-> <<>>, normal |-> Front(queue.normal)]
    BY <1>1, <1>2 DEF Popped, Queues
  <2>3. Popped \in Queues
    BY <1>1, <1>2, <2>2, FrontOfSeq, EmptySeq DEF Queues
  <2> QED BY <1>2, <2>1, <2>2, <2>3, SignalsAssumption
<1>3. CASE queue = OnlyPipe
  <2>1. Next1 = pipe_w
    BY <1>3 DEF Next1, OnlyPipe, Last
  <2>2. Front(<<pipe_w>>) = <<>>
    BY DEF Front
  <2>3. Popped = Empty
    BY <1>3, <2>2 DEF Popped, OnlyPipe, Empty
  <2>4. Popped \in Queues
    BY <2>3, EmptySeq DEF Queues, Empty
  <2> QED BY <1>3, <2>1, <2>3, <2>4, SignalsAssumption
<1>4. CASE queue.max # <<>> /\ ChildevFirst(queue.max)
  <2> DEFINE s == queue.max
  <2>1. s # <<>> /\ ChildevFirst(s)
    BY <1>4
  <2>2. s \in Seq({pipe_w, childev} \cup ChildWatchers) /\ s # <<>>
    BY <1>1, <1>4 DEF Queues
  <2>3. Next1 = Last(s) /\ Popped = [max |-> Front(s), normal |-> queue.normal]
    BY <1>1, <1>4 DEF Next1, Popped, Queues
  <2>4. /\ Len(s) \in Nat \ {0} /\ Last(s) = s[Len(s)]
        /\ Front(s) \in Seq({pipe_w, childev} \cup ChildWatchers)
        /\ Len(Front(s)) = Len(s) - 1 /\ \A i \in 1..Len(s) - 1 : Front(s)[i] = s[i]
    BY <2>2, FrontOfSeq
  <2> HIDE DEF s
  <2>5. Popped \in Queues
    BY <1>1, <2>3, <2>4 DEF Queues
  <2>6. CASE Len(s) = 1
    <3>1. s = <<childev>> /\ Next1 = childev
      BY <2>1, <2>2, <2>3, <2>4, <2>6 DEF ChildevFirst
    <3>2. Front(s) = <<>>
      BY <2>4, <2>6, EmptySeq
    <3> QED BY <2>3, <2>5, <3>1, <3>2, SignalsAssumption DEF s
  <2>7. CASE Len(s) # 1
    <3>1. Next1 \in ChildWatchers
      BY <2>1, <2>3, <2>4, <2>7 DEF ChildevFirst
    <3>2. ChildevFirst(Front(s))
      BY <2>1, <2>4, <2>7 DEF ChildevFirst
    <3> QED BY <2>1, <2>3, <2>5, <3>1, <3>2, SignalsAssumption DEF s
  <2> QED BY <2>6, <2>7
<1> QED BY <1>2, <1>3, <1>4 DEF QueueInOrder

(* childcb puts itself first and the watchers of the child behind it.       *)
LEMMA FedBehindChildev ==
  ASSUME TypeOK, NEW q \in Queues, q.max = <<>>, NEW k \in Kids, NEW r \in Fed(q, k)
  PROVE  /\ r \in Queues /\ ChildevFirst(r.max)
         /\ \A w \in Hear(k) : Contains(r.max, w)
<1> DEFINE q1 == Feed(q, childev)
           U == Unfed(q1, Hear(k), "max")
           V == Unfed(q1, Hear(k), "normal")
<1>1. q1 = [max |-> <<childev>>, normal |-> q.normal]
  <2>1. ~Pends(q, childev) /\ Priority(childev) = "max"
    BY DEF Pends, Contains, Priority
  <2>2. Append(<<>>, childev) = <<childev>>
    OBVIOUS
  <2> QED BY <2>1, <2>2 DEF Feed, Queues
<1>2. PICK m \in SetToSeqs(U), n \in SetToSeqs(V) :
        r = [max |-> q1.max \o m, normal |-> q1.normal \o n]
  BY DEF Fed, Again, Feeds
<1>3. /\ Hear(k) \subseteq ChildWatchers /\ childev \notin ChildWatchers
      /\ \A w \in Hear(k) : Priority(w) = "max"
  BY SignalsAssumption DEF Hear, Priority
<1>4. U = Hear(k) /\ V = {}
  <2>1. \A w \in Hear(k) : ~Contains(q1.max, w)
    BY <1>1, <1>3 DEF Contains
  <2> QED BY <1>3, <2>1 DEF Unfed, Pends
<1>5. IsFiniteSet(Hear(k))
  BY <1>3, FS_Subset, SignalsAssumption
<1> HIDE DEF q1, U, V
<1>6. /\ m \in Seq(Hear(k)) /\ Len(m) = Cardinality(Hear(k))
      /\ \A w \in Hear(k) : Contains(m, w)
  BY <1>4, <1>5, SeqsOfSet
<1>7. n = <<>>
  <2>1. n \in Seq({}) /\ Len(n) = 0
    BY <1>4, FS_EmptySet, SeqsOfSet
  <2> QED BY <2>1, EmptySeq
<1>8. /\ <<childev>> \in Seq({pipe_w, childev} \cup ChildWatchers)
      /\ m \in Seq({pipe_w, childev} \cup ChildWatchers)
  <2>1. m \in Seq({pipe_w, childev} \cup ChildWatchers)
    BY <1>3, <1>6, SeqMonotonic
  <2> QED BY <2>1
<1>9. /\ r.max = <<childev>> \o m /\ r.normal = q.normal \o <<>>
      /\ q.normal \in Seq((SigWatchers \ {childev}) \cup Asyncs)
  BY <1>1, <1>2, <1>7 DEF Queues
<1>10. r.normal = q.normal
  BY <1>9, ConcatEmptySeq
<1>11. /\ r.max \in Seq({pipe_w, childev} \cup ChildWatchers)
       /\ Len(r.max) = 1 + Len(m) /\ r.max[1] = childev
       /\ \A i \in 1..Len(m) : r.max[i + 1] = m[i]
  <2>1. Len(m) \in Nat /\ Len(<<childev>>) = 1
    BY <1>6, LenProperties
  <2>2. /\ r.max \in Seq({pipe_w, childev} \cup ChildWatchers)
        /\ Len(r.max) = Len(<<childev>>) + Len(m)
        /\ \A i \in 1..Len(<<childev>>) + Len(m) :
             r.max[i] = IF i <= Len(<<childev>>) THEN <<childev>>[i]
                        ELSE m[i - Len(<<childev>>)]
    BY <1>8, <1>9, ConcatProperties
  <2> DEFINE l == Len(m)
             s == r.max
             c == <<childev>>
  <2>3. l \in Nat /\ Len(c) = 1 /\ c[1] = childev
    BY <2>1
  <2>4. /\ Len(s) = Len(c) + l
        /\ \A i \in 1..Len(c) + l : s[i] = IF i <= Len(c) THEN c[i] ELSE m[i - Len(c)]
    BY <2>2
  <2> HIDE DEF l, s, c
  <2>5. Len(s) = 1 + l /\ s[1] = childev
    BY <2>3, <2>4
  <2>6. ASSUME NEW i \in 1..l PROVE s[i + 1] = m[i]
    <3>1. i + 1 \in 1..Len(c) + l /\ ~(i + 1 <= Len(c)) /\ i + 1 - Len(c) = i
      BY <2>3
    <3> QED BY <2>4, <3>1
  <2> QED BY <2>2, <2>5, <2>6 DEF l, s
<1>12. \A i \in 2..Len(r.max) : r.max[i] \in ChildWatchers
  <2> TAKE i \in 2..Len(r.max)
  <2>1. i - 1 \in 1..Len(m) /\ r.max[i] = m[i - 1]
    <3>1. Len(m) \in Nat
      BY <1>6, LenProperties
    <3>2. i - 1 \in 1..Len(m)
      BY <1>11, <3>1
    <3>3. r.max[(i - 1) + 1] = m[i - 1]
      BY <1>11, <3>2
    <3>4. (i - 1) + 1 = i
      BY <3>1, <1>11
    <3> QED BY <3>2, <3>3, <3>4
  <2>2. m[i - 1] \in Hear(k)
    BY <1>6, <2>1, ElementOfSeq
  <2> QED BY <1>3, <2>1, <2>2
<1>13. \A w \in Hear(k) : Contains(r.max, w)
  <2> TAKE w \in Hear(k)
  <2>1. PICK i \in 1..Len(m) : m[i] = w
    BY <1>6 DEF Contains
  <2>2. i + 1 \in 1..Len(r.max) /\ r.max[i + 1] = w
    BY <1>6, <1>11, <2>1, LenProperties
  <2> QED BY <2>2 DEF Contains
<1>14. r \in Queues
  BY <1>2, <1>9, <1>10, <1>11 DEF Queues
<1> QED BY <1>6, <1>11, <1>12, <1>13, <1>14, LenProperties DEF ChildevFirst

LEMMA ClearedIsQueue ==
  ASSUME NEW q \in Queues, NEW w \in (SigWatchers \ {childev}) \cup Asyncs
  PROVE  ClearPending(q, w) \in Queues /\ ClearPending(q, w).max = q.max
<1> DEFINE n == q.normal
           i == PendingAt(q, w)
           N == (SigWatchers \ {childev}) \cup Asyncs
<1>1. Priority(w) = "normal" /\ q["normal"] = n /\ n \in Seq(N)
  BY SignalsAssumption DEF Priority, Queues
<1>2. CASE Pends(q, w)
  <2>1. i \in DOMAIN n
    <3>1. \E j \in DOMAIN n : n[j] = w
      BY <1>1, <1>2, LenProperties DEF Pends, Contains
    <3> QED BY <1>1, <3>1 DEF PendingAt
  <2>2. Len(n) \in Nat /\ i \in 1..Len(n)
    BY <1>1, <2>1, LenProperties
  <2> HIDE DEF i
  <2>3. \A j \in 1..i - 1 : n[j] \in N
    BY <1>1, <2>2, ElementOfSeq
  <2>4. \A j \in i + 1..Len(n) : n[j] \in N
    BY <1>1, <2>2, ElementOfSeq
  <2>5. SubSeq(n, 1, i - 1) \in Seq(N) /\ SubSeq(n, i + 1, Len(n)) \in Seq(N)
    <3>1. 1 \in Int /\ i - 1 \in Int /\ i + 1 \in Int /\ Len(n) \in Int
      BY <2>2
    <3> QED BY <2>3, <2>4, <3>1, SubSeqProperties
  <2>6. RemoveAt(n, i) \in Seq(N)
    BY <2>5, ConcatProperties DEF RemoveAt
  <2>7. ClearPending(q, w) = [q EXCEPT !["normal"] = RemoveAt(q["normal"], i)]
    BY <1>1, <1>2 DEF ClearPending, i
  <2>8. ClearPending(q, w) = [max |-> q.max, normal |-> RemoveAt(n, i)]
    BY <1>1, <2>7 DEF Queues
  <2> QED BY <2>6, <2>8 DEF Queues
<1>3. CASE ~Pends(q, w)
  BY <1>3 DEF ClearPending
<1> QED BY <1>2, <1>3

(* Callbacks, whatever they do, leave flags and marks to each other.        *)
InvokeStep ==
  /\ lpc = "invoke" /\ UNCHANGED <<wpc, flag, skipped, wanted, counter, todo>>
  /\ news' \in [Kids -> {"none", "runs", "stopped", "halted", "exited", "reaped"}]
  /\ rpid' \in [ChildWatchers -> Kids \cup {AnyKid}]
  /\ queue' \in Queues /\ marked' \subseteq marked
  /\ \A x \in marked' \cap Asyncs : x \in active' => x \in active
  /\ childev \in active'
  /\ \/ lpc' = "top" /\ queue' = Empty /\ queue # OnlyPipe
     \/ lpc' = "pipe" /\ queue' = Empty
     \/ /\ lpc' = "invoke" /\ queue # OnlyPipe
        /\ queue'.max = <<>> \/ ChildevFirst(queue'.max)

LEMMA InvokeSteps ==
  ASSUME TypeOK, QueueInOrder, Invoke
  PROVE  InvokeStep
<1> USE DEF InvokeStep, kernelVars
<1>1. /\ lpc = "invoke" /\ UNCHANGED <<wpc, flag, skipped, wanted, counter, todo>>
      /\ queue \in Queues /\ childev \in active
  BY DEF Invoke, TypeOK, Queues
<1>2. CASE Idle
  <2>1. queue = Empty
    BY <1>1, <1>2 DEF Queues, Empty, Idle
  <2>2. queue # OnlyPipe
    BY <2>1 DEF Empty, OnlyPipe
  <2>3. lpc' = "top" /\ UNCHANGED <<news, marked, queue, active, rpid>>
    BY <1>2 DEF Invoke
  <2> QED BY <1>1, <2>1, <2>2, <2>3 DEF TypeOK
<1>3. CASE ~Idle
  <2>1. /\ Popped \in Queues
        /\ Next1 = pipe_w => queue = OnlyPipe /\ Popped = Empty
        /\ Next1 = childev => queue.max = <<childev>> /\ Popped.max = <<>>
        /\ Next1 \in ChildWatchers => ChildevFirst(queue.max) /\ ChildevFirst(Popped.max)
        /\ Next1 \in (SigWatchers \ {childev}) \cup Asyncs =>
             queue.max = <<>> /\ Popped.max = <<>>
    BY <1>1, <1>3, NextInQueue
  <2>2. queue.max # <<pipe_w>> => queue # OnlyPipe
    BY DEF OnlyPipe
  <2>3. CASE Next1 = pipe_w /\ lpc' = "pipe" /\ queue' = Popped
             /\ UNCHANGED <<kernelVars, marked, active, rpid, told>>
    BY <1>1, <2>1, <2>3 DEF TypeOK
  <2>4. CASE Next1 = childev /\ ChildCb(Popped)
    <3>1. queue # OnlyPipe
      BY <2>1, <2>2, <2>4, SignalsAssumption
    <3>2. UNCHANGED <<marked, lpc, active>>
      BY <2>4 DEF ChildCb
    <3>3. queue' = Popped \/ \E k \in Kids : queue' \in Fed(Popped, k)
      BY <2>4 DEF ChildCb
    <3>4. queue' \in Queues /\ (queue'.max = <<>> \/ ChildevFirst(queue'.max))
      BY <2>1, <2>4, <3>3, FedBehindChildev
    <3>5. news' \in [Kids -> {"none", "runs", "stopped", "halted", "exited", "reaped"}]
      BY <2>4 DEF ChildCb, TypeOK
    <3>6. rpid' \in [ChildWatchers -> Kids \cup {AnyKid}]
      BY <2>4 DEF ChildCb, TypeOK
    <3> QED BY <1>1, <3>1, <3>2, <3>4, <3>5, <3>6
  <2>5. CASE Next1 \in ChildWatchers /\ ChildTold(Popped, Next1)
    <3>1. queue # OnlyPipe
      <4>1. queue.max[1] = childev
        BY <2>1, <2>5 DEF ChildevFirst
      <4> QED BY <4>1, SignalsAssumption DEF OnlyPipe
    <3>2. UNCHANGED <<news, marked, lpc, active, rpid>> /\ queue' = Popped
      BY <2>5 DEF ChildTold
    <3> QED BY <1>1, <2>1, <2>5, <3>1, <3>2 DEF TypeOK
  <2>6. CASE Next1 \in (SigWatchers \ {childev}) \cup Asyncs /\ Callback(Popped)
    <3>1. queue # OnlyPipe
      <4>1. queue.max = <<>> /\ <<>> # <<pipe_w>>
        BY ONLY <2>1, <2>6
      <4> QED BY <2>2, <4>1
    <3>2. UNCHANGED <<news, lpc, rpid>> /\ marked' \subseteq marked
      BY <2>6 DEF Callback, Started, StoppedW
    <3>3. queue' \in Queues /\ queue'.max = <<>>
      BY <2>1, <2>6, ClearedIsQueue DEF Callback, Started, StoppedW
    <3>4. childev \in active' /\ \A x \in marked' \cap Asyncs : x \in active' => x \in active
      BY <1>1, <2>6, SignalsAssumption DEF Callback, Started, StoppedW
    <3> QED BY <1>1, <3>1, <3>2, <3>3, <3>4 DEF TypeOK
  <2> QED BY <1>3, <2>3, <2>4, <2>5, <2>6 DEF Invoke, Called
<1> QED BY <1>2, <1>3

LEMMA SleepInvInvoke == SleepInv /\ Invoke => SleepInv'
<1> SUFFICES ASSUME SleepInv, Invoke PROVE SleepInv'
  OBVIOUS
<1> USE DEF SleepInv
<1>1. InvokeStep
  BY InvokeSteps
<1>2. TypeOK'
  BY <1>1 DEF TypeOK, InvokeStep, Queues, Places
<1>3. WantedAroundPoll' /\ QueueInOrder'
  BY <1>1 DEF WantedAroundPoll, QueueInOrder, InvokeStep, Empty
<1>4. DOMAIN Flags = {"sig", "async"} /\ Flags["sig"] = Signals /\ Flags["async"] = Asyncs
      /\ Scanning["sig"] = "scan_sig" /\ Scanning["async"] = "scan_async"
      /\ {"pipe"} \subseteq Looking["sig"] \cap Looking["async"]
      /\ {"invoke"} \cap (Looking["sig"] \cup Looking["async"]) = {}
  BY DEF Flags, Scanning, Looking
<1>5. MarksAreFlagged'
  BY <1>1, <1>4 DEF MarksAreFlagged, InvokeStep, Flagging
<1>6. FlagsAreWritten'
  <2>1. queue' # OnlyPipe
    <3>1. ASSUME ChildevFirst(<<pipe_w>>) PROVE FALSE
      BY <3>1, SignalsAssumption DEF ChildevFirst
    <3> QED BY <1>1, <3>1 DEF InvokeStep, Empty, OnlyPipe
  <2> QED BY <1>1, <1>4 DEF FlagsAreWritten, InvokeStep, Writing
<1>7. SkippedIsReconsidered'
  BY <1>1 DEF SkippedIsReconsidered, InvokeStep
<1> QED BY <1>2, <1>3, <1>5, <1>6, <1>7

LEMMA SleepInvNext == SleepInv /\ [Next]_vars => SleepInv'
<1> SUFFICES ASSUME SleepInv, [Next]_vars PROVE SleepInv'
  OBVIOUS
<1> DOMAIN Flags = {"sig", "async"} /\ Flags["sig"] = Signals /\ Flags["async"] = Asyncs
  BY DEF Flags
<1>1. ASSUME NEW t \in Threads, EvpipeWrite(t) PROVE SleepInv'
  BY <1>1, SleepInvWrite
<1>2. ASSUME NEW t \in Threads, NEW s \in Signals, Deliver(t, s) PROVE SleepInv'
  BY <1>2, SleepInvMark DEF Deliver
<1>3. ASSUME NEW t \in Threads, NEW a \in Asyncs, Send(t, a) PROVE SleepInv'
  BY <1>3, SleepInvMark DEF Send
<1>4. CASE BeforePoll \/ AfterPoll \/ PipeCb \/ Invoke \/ Poll
  BY <1>4, SleepInvBeforePoll, SleepInvPoll, SleepInvPipeCb, SleepInvInvoke
<1>5. ASSUME NEW f \in DOMAIN Flags, Scan(f) PROVE SleepInv'
  BY <1>5, SleepInvScan
<1>6. CASE (\E s \in Signals : Raise(s)) \/ (\E k \in Kids : Change(k))
  BY <1>6, SleepInvOutside
<1>7. CASE UNCHANGED vars
  BY <1>7 DEF vars, kernelVars, pipeVars, loopVars, SleepInv, TypeOK, WantedAroundPoll,
              QueueInOrder, MarksAreFlagged, FlagsAreWritten, SkippedIsReconsidered,
              Flagging, Writing, Reconsidering
<1> QED BY <1>1, <1>2, <1>3, <1>4, <1>5, <1>6, <1>7 DEF Next, Handlers, Loop, Outside

LEMMA SleepInvAlways == Spec => []SleepInv
BY SleepInvInit, SleepInvNext, PTL DEF Spec

(* The loop never sleeps on a signal, a child or an async, however many     *)
(* threads mark them and whenever: while poll() may sleep with a mark or a  *)
(* flag set, some thread in evpipe_write has yet to write to the eventfd.   *)
THEOREM NeverSleepsOnSignals == Spec => []SleeperIsWoken
<1>1. SleepInv => SleeperIsWoken
  <2> SUFFICES ASSUME SleepInv, lpc = "poll", ~counter,
                      \/ \E f \in DOMAIN Flags : flag[f]
                      \/ \E x \in marked : WatchersOf(x) # {}
               PROVE  \E t \in Threads : WillWrite(t)
    BY DEF SleeperIsWoken
  <2>1. DOMAIN Flags = {"sig", "async"} /\ Flags["sig"] = Signals /\ Flags["async"] = Asyncs
        /\ Scanning["sig"] = "scan_sig" /\ Scanning["async"] = "scan_async"
        /\ {"poll"} \cap (Looking["sig"] \cup Looking["async"]) = {}
    BY DEF Flags, Scanning, Looking
  <2>2. ASSUME NEW f \in DOMAIN Flags, flag[f]
        PROVE  \E t \in Threads : WillWrite(t)
    <3>1. queue # OnlyPipe
      BY DEF SleepInv, QueueInOrder, Empty, OnlyPipe
    <3>2. skipped \/ Writing
      BY <2>1, <2>2, <3>1 DEF SleepInv, FlagsAreWritten
    <3>3. Reconsidering \/ Writing
      BY <3>2 DEF SleepInv, SkippedIsReconsidered
    <3> QED BY <3>3 DEF Reconsidering, Writing, WillWrite
  <2>3. ASSUME NEW x \in marked, WatchersOf(x) # {}
        PROVE  \E t \in Threads : WillWrite(t)
    <3>1. PICK f \in DOMAIN Flags : x \in Flags[f] /\ (f = "async" => x \in active)
      <4>1. x \in Signals \cup Asyncs
        BY DEF SleepInv, TypeOK
      <4>2. x \in Asyncs => x \in active
        BY <2>3 DEF WatchersOf
      <4> QED BY <2>1, <4>1, <4>2
    <3>2. flag[f] \/ Flagging(f)
      BY <2>1, <3>1 DEF SleepInv, MarksAreFlagged
    <3> QED BY <2>2, <3>2 DEF Flagging, WillWrite
  <2> QED BY <2>2, <2>3
<1> QED BY <1>1, SleepInvAlways, PTL

--------------------------------------------------------------------------------
(* Of the queue, what ReapedIsTold needs is in SleepInv: a watcher of all   *)
(* children is called before childev is called again.                       *)
LEMMA ReapedInvoked ==
  ASSUME TypeOK, QueueInOrder, ReapedIsTold, lpc = "invoke", ~Idle, Called(Next1)
  PROVE  ReapedIsTold'
<1>1. /\ Popped \in Queues
      /\ Next1 = pipe_w => queue = OnlyPipe
      /\ Next1 = childev => queue.max = <<childev>> /\ Popped.max = <<>>
      /\ Next1 \in ChildWatchers => ChildevFirst(queue.max) /\ Popped.max = Front(queue.max)
      /\ Next1 \in (SigWatchers \ {childev}) \cup Asyncs => queue.max = <<>>
  BY NextInQueue
<1>2. queue.max \in {<<>>, <<childev>>, <<pipe_w>>}
        => \A w \in ChildWatchers : ~Contains(queue.max, w)
  BY SignalsAssumption DEF Contains
<1>3. CASE Next1 = pipe_w \/ Next1 \in (SigWatchers \ {childev}) \cup Asyncs
  <2>1. \A w \in ChildWatchers : ~Contains(queue.max, w)
    BY <1>1, <1>2, <1>3 DEF OnlyPipe
  <2>2. Next1 # childev /\ Next1 \notin ChildWatchers
    BY <1>3, SignalsAssumption
  <2>3. UNCHANGED <<news, told>> /\ ChildWatchers \cap active' = ChildWatchers \cap active
    BY <2>2, SignalsAssumption DEF Called, Callback, Started, StoppedW, kernelVars
  <2> QED BY <2>1, <2>3 DEF ReapedIsTold
<1>4. CASE Next1 = childev
  <2>1. \A w \in ChildWatchers : ~Contains(queue.max, w)
    BY <1>1, <1>2, <1>4
  <2>2. ChildCb(Popped)
    BY <1>4, SignalsAssumption DEF Called
  <2>3. UNCHANGED <<active, told>>
    BY <2>2 DEF ChildCb
  <2>4. CASE UNCHANGED news
    BY <2>1, <2>3, <2>4 DEF ReapedIsTold
  <2>5. ASSUME NEW k \in Kids, news[k] \in {"stopped", "exited"}, queue' \in Fed(Popped, k),
               news' = [news EXCEPT ![k] = IF @ = "exited" THEN "reaped" ELSE "halted"],
               rpid' = [w \in ChildWatchers |-> IF w \in Hear(k) THEN k ELSE rpid[w]]
        PROVE  ReapedIsTold'
    <3>1. \A w \in Hear(k) : Contains(queue'.max, w)
      BY <1>1, <1>4, <2>5, FedBehindChildev
    <3> SUFFICES ASSUME NEW j \in Kids, news'[j] = "reaped", j \notin told,
                        NEW w \in ChildWatchers \cap active, pid[w] = AnyKid
                 PROVE  rpid'[w] = j /\ Contains(queue'.max, w)
      BY <2>3 DEF ReapedIsTold
    <3>2. news[j] # "reaped"
      BY <2>1 DEF ReapedIsTold
    <3>3. j = k /\ news[k] = "exited"
      BY <2>5, <3>2 DEF TypeOK
    <3>4. w \in Hear(k)
      BY <3>3 DEF Hear
    <3> QED BY <2>5, <3>1, <3>3, <3>4
  <2> QED BY <2>2, <2>4, <2>5 DEF ChildCb
<1>5. CASE Next1 \in ChildWatchers
  <2>1. ChildTold(Popped, Next1)
    BY <1>5, SignalsAssumption DEF Called
  <2>2. UNCHANGED <<news, active, rpid>> /\ queue' = Popped /\ told \subseteq told'
        /\ (pid[Next1] = AnyKid /\ news[rpid[Next1]] = "reaped" => rpid[Next1] \in told')
    BY <2>1 DEF ChildTold, kernelVars
  <2> SUFFICES ASSUME NEW k \in Kids, news[k] = "reaped", k \notin told',
                      NEW w \in ChildWatchers \cap active, pid[w] = AnyKid
               PROVE  rpid[w] = k /\ Contains(Popped.max, w)
    BY <2>2 DEF ReapedIsTold
  <2>3. rpid[w] = k /\ Contains(queue.max, w)
    BY <2>2 DEF ReapedIsTold
  <2>4. w # Next1
    BY <2>2, <2>3
  <2>5. Contains(Front(queue.max), w)
    <3> DEFINE s == queue.max
    <3>1. s \in Seq({pipe_w, childev} \cup ChildWatchers) /\ s # <<>>
      <4>1. \E i \in 1..Len(s) : TRUE
        BY <2>3 DEF Contains
      <4> QED BY <4>1 DEF TypeOK
    <3>2. Next1 = Last(s)
      BY <3>1 DEF Next1
    <3> HIDE DEF s
    <3>3. /\ Len(s) \in Nat \ {0} /\ Last(s) = s[Len(s)]
          /\ Len(Front(s)) = Len(s) - 1 /\ \A i \in 1..Len(s) - 1 : Front(s)[i] = s[i]
      BY <3>1, FrontOfSeq
    <3>4. PICK i \in 1..Len(s) : s[i] = w
      BY <2>3 DEF Contains, s
    <3>5. i \in 1..Len(s) - 1
      BY <2>4, <3>2, <3>3, <3>4
    <3> QED BY <3>3, <3>4, <3>5 DEF Contains, s
  <2> QED BY <1>1, <1>5, <2>3, <2>5
<1> QED BY <1>3, <1>4, <1>5 DEF Called

LEMMA ReapedNext ==
  SleepInv /\ ReapedIsTold /\ [Next]_vars => ReapedIsTold'
<1> SUFFICES ASSUME TypeOK, QueueInOrder, ReapedIsTold, [Next]_vars
             PROVE  ReapedIsTold'
  BY DEF SleepInv
<1>1. ASSUME UNCHANGED <<news, active, rpid, told>>, UNCHANGED queue \/
               \A w \in ChildWatchers : ~Contains(queue.max, w)
      PROVE  ReapedIsTold'
  BY <1>1 DEF ReapedIsTold
<1>2. ASSUME NEW k \in Kids, Change(k) PROVE ReapedIsTold'
  <2>1. UNCHANGED <<active, rpid, told, queue>>
        /\ \A j \in Kids : news'[j] = "reaped" => news[j] = "reaped"
    BY <1>2 DEF Change, loopVars, TypeOK
  <2> QED BY <2>1 DEF ReapedIsTold
<1>3. CASE Handlers
  BY <1>1, <1>3 DEF Handlers, EvpipeWrite, Deliver, Mark, kernelVars, loopVars
<1>4. CASE Outside
  BY <1>1, <1>2, <1>4 DEF Outside, Raise, Send, Mark, loopVars
<1>5. CASE BeforePoll \/ PipeCb
  BY <1>1, <1>5 DEF BeforePoll, PipeCb, Same, kernelVars
<1>6. CASE Poll \/ AfterPoll
  <2>1. queue \in {Empty, OnlyPipe}
    BY <1>6 DEF Poll, AfterPoll, QueueInOrder, Step
  <2>2. UNCHANGED <<active, rpid, told, news>>
    BY <1>6 DEF Poll, AfterPoll, Same, kernelVars
  <2>3. \A w \in ChildWatchers : ~Contains(queue.max, w)
    BY <2>1, SignalsAssumption DEF Empty, OnlyPipe, Contains
  <2> QED BY <1>1, <2>2, <2>3
<1>7. ASSUME NEW f \in DOMAIN Flags, Scan(f) PROVE ReapedIsTold'
  <2>1. queue.max \in {<<>>, <<childev>>}
    BY <1>7 DEF Scan, QueueInOrder, Scanning, Flags
  <2>2. \A w \in ChildWatchers : ~Contains(queue.max, w)
    BY <2>1, SignalsAssumption DEF Contains
  <2> QED BY <1>1, <1>7, <2>2 DEF Scan, kernelVars
<1>8. CASE Invoke
  <2>1. CASE Idle
    BY <1>1, <1>8, <2>1 DEF Invoke, kernelVars
  <2>2. CASE ~Idle
    BY <1>8, <2>2, ReapedInvoked DEF Invoke
  <2> QED BY <2>1, <2>2
<1>9. CASE UNCHANGED vars
  BY <1>1, <1>9 DEF vars, kernelVars, loopVars
<1> QED BY <1>3, <1>4, <1>5, <1>6, <1>7, <1>8, <1>9 DEF Next, Loop

(* Every child that is reaped is told to a watcher of all children: what    *)
(* rpid says of it stays until the watcher has been called, whatever other  *)
(* children end and whatever else is queued meanwhile.                      *)
THEOREM ReapedChildrenAreTold == Spec => []ReapedIsTold
<1>1. Init => ReapedIsTold
  BY DEF Init, ReapedIsTold
<1> QED BY <1>1, ReapedNext, SleepInvAlways, PTL DEF Spec

================================================================================
