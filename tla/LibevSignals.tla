------------------------------ MODULE LibevSignals ------------------------------
(***************************************************************************)
(* How a signal, a child that has changed or an async reaches the loop of  *)
(* libev: the handler, in whatever thread the kernel chose, marks it and   *)
(* writes to an eventfd, unless the loop is awake and will look anyway;    *)
(* pipecb, called for the eventfd, feeds what is marked.  ev_default_loop  *)
(* watches SIGCHLD this way in every program, this one too.                *)
(*                                                                         *)
(* One step of a handler and of the loop is one access to what they share: *)
(* the fences are there to make that so.  A handler that interrupts the    *)
(* loop's own thread is one that runs while the loop takes no step.  poll  *)
(* has no timeout here: the worst case.                                    *)
(***************************************************************************)
EXTENDS Integers, Sequences, FiniteSets, SequencesExt

CONSTANTS
  Signals, SIGCHLD,     \* signals, SIGCHLD among them
  Threads,              \* threads handlers run in and asyncs are sent from
  SigWatchers, childev, \* signal watchers, childev among them
  signum,               \* the signal of each
  Asyncs,
  ChildWatchers, pid,   \* and the child each is for, or AnyKid
  Traced,               \* child watchers that want to hear of stops, too
  Kids, AnyKid,
  pipe_w, Nobody,
  MaxSent               \* bound: signals raised and asyncs sent

ASSUME SignalsAssumption ==
  /\ SIGCHLD \in Signals /\ childev \in SigWatchers /\ AnyKid \notin Kids
  /\ signum \in [SigWatchers -> Signals] /\ signum[childev] = SIGCHLD
  /\ pid \in [ChildWatchers -> Kids \cup {AnyKid}] /\ Traced \subseteq ChildWatchers
  /\ IsFiniteSet(SigWatchers) /\ IsFiniteSet(ChildWatchers) /\ Signals \cap Asyncs = {}
  /\ SigWatchers \cap Asyncs = {} /\ ChildWatchers \cap (SigWatchers \cup Asyncs) = {}
  /\ pipe_w \notin SigWatchers \cup Asyncs \cup ChildWatchers
  /\ MaxSent \in Nat

VARIABLES
  raised,   \* signals the kernel has not delivered yet; it keeps one of each
  news,     \* each child: "none" (not started), "runs", "stopped", "halted", "exited", "reaped";
            \* of "stopped" and "exited" waitpid() has not told yet
  wpc,      \* each thread: where it is in evpipe_write, and for which flag;
            \* "blocked" if it blocks all signals
  marked,   \* signals[].pending of signals, sent of asyncs
  flag,     \* sig_pending and async_pending, by "sig" and "async"
  skipped, wanted,  \* pipe_write_skipped, pipe_write_wanted
  counter,  \* the eventfd has something
  lpc,      \* the loop
  todo,     \* what pipecb still looks at
  called,   \* the watcher whose callback ran last
  queue,    \* pendings by priority: "max" and "normal"
  active,   \* watchers that are started
  rpid,     \* the child each child watcher is called for
  told,     \* children whose end a watcher of every child was called for
  sends     \* how many were sent, or never will be

kernelVars == <<raised, news>>
pipeVars == <<marked, flag, skipped, wanted, counter>>
loopVars == <<lpc, todo, called, queue, active, rpid, told>>
vars == <<kernelVars, wpc, pipeVars, loopVars, sends>>

Priority(w) == IF w \in {pipe_w, childev} \cup ChildWatchers THEN "max" ELSE "normal"
Flags == [sig |-> Signals, async |-> Asyncs]

(* evpipe_init: the eventfd is empty, and pipe_w watches it for ever.        *)
EvpipeInit == counter = FALSE

(* ev_default_loop, which starts childev, and the program's watchers.       *)
Init ==
  /\ raised = {} /\ news \in [Kids -> {"none", "runs"}]
  /\ wpc \in [Threads -> [at : {"idle", "blocked"}, for : {"sig"}]]
  /\ marked = {} /\ flag = [f \in DOMAIN Flags |-> FALSE]
  /\ skipped = FALSE /\ wanted = FALSE /\ EvpipeInit
  /\ lpc = "top" /\ todo = {} /\ called = Nobody
  /\ queue = [max |-> <<>>, normal |-> <<>>]
  /\ active \in {{childev} \cup ChildWatchers,
                 SigWatchers \cup Asyncs \cup ChildWatchers}
  /\ rpid = [w \in ChildWatchers |-> AnyKid] /\ told = {} /\ sends \in 0..MaxSent

--------------------------------------------------------------------------------
(* The kernel and the children. *)

(* sigaction: signals that have a watcher. *)
Handled == {signum[w] : w \in active \cap SigWatchers}

Raise(s) ==
  /\ s \in Handled \ {SIGCHLD} /\ sends < MaxSent
  /\ raised' = raised \cup {s} /\ sends' = sends + 1
  /\ UNCHANGED <<news, wpc, pipeVars, loopVars>>

Change(k) ==
  /\ \/ news[k] = "runs" /\ news' = [news EXCEPT ![k] = "stopped"]
     \/ news[k] \in {"runs", "stopped", "halted"}
        /\ news' = [news EXCEPT ![k] = "exited"]
  /\ raised' = raised \cup {SIGCHLD}
  /\ UNCHANGED <<wpc, pipeVars, loopVars, sends>>

--------------------------------------------------------------------------------
(* Handlers and senders. *)

Mark(t, x, f) ==
  /\ wpc[t].at = "idle"
  /\ marked' = marked \cup {x}
  /\ wpc' = [wpc EXCEPT ![t] = [at |-> "test", for |-> f]]
  /\ UNCHANGED <<news, flag, skipped, wanted, counter, loopVars>>

(* ev_sighandler, ev_feed_signal *)
Deliver(t, s) ==
  /\ s \in raised /\ raised' = raised \ {s}
  /\ Mark(t, s, "sig")
  /\ UNCHANGED sends

Send(t, a) ==
  /\ sends < MaxSent /\ sends' = sends + 1
  /\ Mark(t, a, "async")
  /\ UNCHANGED raised

Goes(t, from, to) == wpc[t].at = from /\ wpc' = [wpc EXCEPT ![t].at = to]

(* evpipe_write returns if the flag is set, or sets it. *)
Test(t) ==
  /\ Goes(t, "test", IF flag[wpc[t].for] THEN "idle" ELSE "set")
  /\ UNCHANGED <<flag, skipped, counter>>
Set(t) ==
  /\ Goes(t, "set", "skip")
  /\ flag' = [flag EXCEPT ![wpc[t].for] = TRUE]
  /\ UNCHANGED <<skipped, counter>>

(* Then it says that it has not written, and writes if the loop wants it.   *)
(* Mutant: the other way, first the question, then the notice.              *)
Skip_AskedFirst(t) ==
  \/ /\ Goes(t, "skip", IF wanted THEN "clear" ELSE "say")
     /\ UNCHANGED <<flag, skipped, counter>>
  \/ Goes(t, "say", "idle") /\ skipped' = TRUE /\ UNCHANGED <<flag, counter>>
Skip(t) ==
  \/ Goes(t, "skip", "ask") /\ skipped' = TRUE /\ UNCHANGED <<flag, counter>>
  \/ /\ Goes(t, "ask", IF wanted THEN "clear" ELSE "idle")
     /\ UNCHANGED <<flag, skipped, counter>>

Write(t) ==
  \/ Goes(t, "clear", "write") /\ skipped' = FALSE /\ UNCHANGED <<flag, counter>>
  \/ Goes(t, "write", "idle") /\ counter' = TRUE /\ UNCHANGED <<flag, skipped>>

EvpipeWrite(t) ==
  /\ Test(t) \/ Set(t) \/ Skip(t) \/ Write(t)
  /\ UNCHANGED <<kernelVars, marked, wanted, loopVars, sends>>

--------------------------------------------------------------------------------
(* The loop. *)

Pends(q, w) == Contains(q[Priority(w)], w)
Feed(q, w) == IF Pends(q, w) THEN q ELSE [q EXCEPT ![Priority(w)] = Append(@, w)]

(* Several watchers, in the order of their list, which is any.              *)
Unfed(q, ws, p) == {w \in ws : Priority(w) = p /\ ~Pends(q, w)}
Feeds(q, ws) ==
  {[max |-> q.max \o m, normal |-> q.normal \o n] :
     m \in SetToSeqs(Unfed(q, ws, "max")), n \in SetToSeqs(Unfed(q, ws, "normal"))}

PendingAt(q, w) == CHOOSE i \in DOMAIN q[Priority(w)] : q[Priority(w)][i] = w
ClearPending(q, w) ==
  IF Pends(q, w) THEN [q EXCEPT ![Priority(w)] = RemoveAt(@, PendingAt(q, w))] ELSE q

Idle == \A p \in DOMAIN queue : queue[p] = <<>>

Step(from, to) == lpc = from /\ lpc' = to
Same == UNCHANGED <<kernelVars, wpc, marked, called, active, rpid, told, sends>>

(* ev_run up to the poll: it says that it wants to be written to before it  *)
(* looks for what was skipped.                                              *)
Want ==
  \/ Step("top", "wanted") /\ wanted' = TRUE
  \/ Step("wanted", IF skipped THEN "peek" ELSE "poll") /\ UNCHANGED wanted

BeforePoll ==
  /\ Want
  /\ Same /\ UNCHANGED <<flag, skipped, counter, todo, queue>>

(* poll returns: for the eventfd, or for a descriptor of the program.       *)
Poll ==
  /\ lpc \in {"poll", "peek"} /\ lpc' = "polled"
  /\ queue' = IF counter THEN Feed(queue, pipe_w) ELSE queue
  /\ Same /\ UNCHANGED <<flag, skipped, wanted, counter, todo>>

AfterPoll ==
  /\ \/ Step("polled", "unwanted") /\ wanted' = FALSE /\ UNCHANGED queue
     \/ /\ Step("unwanted", "invoke")
        /\ queue' = IF skipped THEN Feed(queue, pipe_w) ELSE queue
        /\ UNCHANGED wanted
  /\ Same /\ UNCHANGED <<flag, skipped, counter, todo>>

(* pipecb: the eventfd, the notice, then for each flag the marks.  What was *)
(* fed without READ is read, too, here: an eventfd with nothing stays so.   *)
PipeRead == Step("pipe", "unskip") /\ counter' = FALSE /\ UNCHANGED skipped
Unskip == Step("unskip", "sig") /\ skipped' = FALSE /\ UNCHANGED counter

Taking == [sig |-> "take_sig", async |-> "take_async"]
Scanning == [sig |-> "scan_sig", async |-> "scan_async"]

(* The flag is taken down before the first mark is looked at.               *)
TakeFlag(f) ==
  \/ /\ lpc = f /\ flag[f] /\ lpc' = Taking[f]
     /\ UNCHANGED <<flag, todo>>
  \/ /\ lpc = Taking[f] /\ lpc' = Scanning[f]
     /\ flag' = [flag EXCEPT ![f] = FALSE] /\ todo' = Flags[f]

After(f) == IF f = "sig" THEN "async" ELSE "invoke"

NoFlag(f) == lpc = f /\ ~flag[f] /\ lpc' = After(f) /\ UNCHANGED <<flag, todo>>

(* What a mark is for: the watchers of the signal, an async that is active. *)
WatchersOf(x) ==
  IF x \in Asyncs THEN {x} \cap active
  ELSE {w \in active \cap SigWatchers : signum[w] = x}

PipeCb ==
  /\ \/ (PipeRead \/ Unskip) /\ UNCHANGED <<flag, todo>>
     \/ /\ \E f \in DOMAIN Flags : TakeFlag(f) \/ NoFlag(f)
        /\ UNCHANGED <<skipped, counter>>
  /\ Same /\ UNCHANGED <<wanted, queue>>

(* ev_feed_signal_event, and the same for an async. *)
Scan(f) ==
  /\ lpc = Scanning[f]
  /\ IF todo = {}
     THEN lpc' = After(f) /\ UNCHANGED <<marked, todo, queue>>
     ELSE \E x \in todo :
            /\ todo' = todo \ {x} /\ UNCHANGED lpc
            /\ \/ /\ x \in marked
                  /\ marked' = IF x \in Asyncs \ active THEN marked ELSE marked \ {x}
                  /\ queue' \in Feeds(queue, WatchersOf(x))
               \/ x \notin marked /\ UNCHANGED <<marked, queue>>
  /\ UNCHANGED <<kernelVars, wpc, flag, skipped, wanted, counter, called, active,
                 rpid, told, sends>>

(* child_reap: a stop is told to watchers that trace only.                  *)
Hear(k) == {w \in ChildWatchers \cap active :
              pid[w] \in {k, AnyKid} /\ (news[k] = "exited" \/ w \in Traced)}

(* childcb: one child, and itself again, to be called when the watchers of  *)
(* the child have been.  Mutants: fed after them; not fed again.            *)
Again_Never(q) == {q}
Again(q) == {Feed(q, childev)}
Fed_Last(q, k) == UNION {Again(fed) : fed \in Feeds(q, Hear(k))}
Fed(q, k) == UNION {Feeds(again, Hear(k)) : again \in Again(q)}

ChildCb(q) ==
  /\ \/ \E k \in Kids :
          /\ news[k] \in {"stopped", "exited"}
          /\ news' = [news EXCEPT ![k] = IF @ = "exited" THEN "reaped" ELSE "halted"]
          /\ queue' \in Fed(q, k)
          /\ rpid' = [w \in ChildWatchers |-> IF w \in Hear(k) THEN k ELSE rpid[w]]
     \/ /\ \A k \in Kids : news[k] \notin {"stopped", "exited"}
        /\ queue' = q /\ UNCHANGED <<news, rpid>>
  /\ UNCHANGED <<raised, marked, lpc, active, told>>

(* The callback of a child watcher of the program. *)
ChildTold(q, w) ==
  /\ queue' = q
  /\ told' = IF pid[w] = AnyKid /\ news[rpid[w]] = "reaped"
             THEN told \cup {rpid[w]} ELSE told
  /\ UNCHANGED <<kernelVars, marked, lpc, active, rpid>>

(* Other callbacks start and stop signal watchers and asyncs; the default   *)
(* action of a signal that has lost its last watcher is not looked into.    *)
Started(q, w) == active' = active \cup {w} /\ marked' = marked \ {w} /\ queue' = q
StoppedW(q, w) == active' = active \ {w} /\ queue' = ClearPending(q, w) /\ UNCHANGED marked

Callback(q) ==
  /\ \/ \E w \in (SigWatchers \ {childev}) \cup Asyncs :
          IF w \in active THEN StoppedW(q, w) ELSE Started(q, w)
     \/ queue' = q /\ UNCHANGED <<active, marked>>
  /\ raised' = {s \in raised : \E w \in active' \cap SigWatchers : signum[w] = s}
  /\ UNCHANGED <<news, lpc, rpid, told>>

(* ev_invoke_pending: the highest priority first, the last one fed first.   *)
Next1 == IF queue.max # <<>> THEN Last(queue.max) ELSE Last(queue.normal)

Popped == IF queue.max # <<>> THEN [queue EXCEPT !.max = Front(@)]
          ELSE [queue EXCEPT !.normal = Front(@)]

Called(w) ==
  \/ /\ w = pipe_w /\ lpc' = "pipe" /\ queue' = Popped
     /\ UNCHANGED <<kernelVars, marked, active, rpid, told>>
  \/ w = childev /\ ChildCb(Popped)
  \/ w \in ChildWatchers /\ ChildTold(Popped, w)
  \/ w \in (SigWatchers \ {childev}) \cup Asyncs /\ Callback(Popped)

Invoke ==
  /\ lpc = "invoke"
  /\ \/ /\ Idle /\ lpc' = "top" /\ called' = Nobody
        /\ UNCHANGED <<kernelVars, marked, queue, active, rpid, told>>
     \/ ~Idle /\ Called(Next1) /\ called' = Next1
  /\ UNCHANGED <<wpc, flag, skipped, wanted, counter, todo, sends>>

Handlers ==
  \E t \in Threads :
    EvpipeWrite(t) \/ \E s \in Signals : Deliver(t, s)
Loop ==
  \/ BeforePoll \/ AfterPoll \/ PipeCb \/ Invoke
  \/ \E f \in DOMAIN Flags : Scan(f)
Outside ==
  \/ \E s \in Signals : Raise(s)
  \/ \E k \in Kids : Change(k)
  \/ \E t \in Threads, a \in Asyncs : Send(t, a)

Next == Handlers \/ Loop \/ Poll \/ Outside

(* Threads go on; poll returns when there is something in the eventfd or it *)
(* was told not to wait, and may sleep for ever otherwise.                  *)
Spec == Init /\ [][Next]_vars
Fairness ==
  /\ WF_vars(Loop) /\ WF_vars((counter \/ lpc = "peek") /\ Poll)
  /\ \A t \in Threads :
       WF_vars(EvpipeWrite(t) \/ \E s \in Signals : Deliver(t, s))
FairSpec == Spec /\ Fairness

--------------------------------------------------------------------------------
(* The loop does not sleep on a mark: if one is set, or its flag, someone   *)
(* is on the way to write to the eventfd.                                   *)
WillWrite(t) ==
  \/ wpc[t].at \in {"set", "skip", "ask", "clear", "write"}
  \/ wpc[t].at = "test" /\ ~flag[wpc[t].for]
SleeperIsWoken ==
  /\ lpc = "poll" /\ ~counter
  /\ \/ \E f \in DOMAIN Flags : flag[f]
     \/ \E x \in marked : WatchersOf(x) # {}
  => \E t \in Threads : WillWrite(t)

(* A watcher of all children hears of every one that is reaped: it is       *)
(* called before another child takes the place of the first in rpid.        *)
ReapedIsTold ==
  \A k \in Kids :
    news[k] = "reaped" =>
      \/ k \in told
      \/ \A w \in ChildWatchers \cap active : pid[w] = AnyKid =>
           rpid[w] = k /\ Contains(queue.max, w)

(* A signal that was delivered is handled, however many handlers run and    *)
(* whatever else is signalled; children are reaped though many of their     *)
(* signals may be one.                                                      *)
NothingIsForgotten ==
  /\ \A w \in SigWatchers \cup Asyncs :
       (w \in Asyncs /\ w \in marked) \/ (w \in SigWatchers /\ signum[w] \in marked)
         ~> called = w \/ w \notin active
  /\ \A k \in Kids : news[k] = "exited" ~> news[k] = "reaped"

================================================================================
