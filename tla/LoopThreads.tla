------------------------------- MODULE LoopThreads -------------------------------
(***************************************************************************)
(* The threads that talk through eventfds (Event): the listener, which     *)
(* waits for edges of the error pin (GpioInListner), the event loop, which *)
(* reports them (StepDrv::errorHandler), and a thread that stops the loop  *)
(* for a while (LibEvMain::pause and resume).                              *)
(*                                                                         *)
(* evgpios, which the listener fills and nobody reads, is left out.  No    *)
(* part of the program calls remove() or pause(); a program that pauses    *)
(* runs the loop by LibEvMain::start() and is the controller here.         *)
(***************************************************************************)
EXTENDS Integers

CONSTANTS
  MaxEdges,   \* bound: edges of the error pin
  MaxPauses   \* bound: calls of pause()

ASSUME LoopThreadsAssumption == MaxEdges \in Nat /\ MaxPauses \in Nat

VARIABLES
  lpc,        \* the loop's thread: "insert" and "add" (insert() under mu),
              \* "update", then "loop", or "hold": in que_cb, at mu.lock()
  epc,        \* the listener: "wait", "handle", "raise" (under mu), "exited"
  cpc,        \* the controller: "idle", "raise" and "paused": LibEvMain's mu is held
  listed,     \* the pin is in gpios
  pin,        \* epoll has an edge of the pin that epoll_wait did not return yet
  last,       \* events, which epoll_wait fills
  evUpdate, errEvent, cmd,  \* the counters of the eventfds
  heavy,      \* what raise() adds to them by mistake leaves room for no more
  pending,    \* callbacks the loop is about to call
  errPause,   \* StepDrv::errPause
  errPauseTimer,  \* "off", "on" or "expired"
  edges, pauses,  \* how many there were
  interrupted \* epoll_wait has been interrupted

counters == <<evUpdate, errEvent, cmd, heavy>>
errorVars == <<errPause, errPauseTimer>>
threadVars == <<lpc, epc, cpc, listed, pin, last, counters, pending, errorVars,
                edges, pauses, interrupted>>

Sources == {"update", "kill", "pin"}

(* The thread of the listener starts in its constructor, with events        *)
(* uninitialised; the loop has errEvent and cmd watched before it runs.     *)
ThreadsInit ==
  /\ lpc = "insert" /\ epc = "wait" /\ cpc = "idle"
  /\ listed = FALSE /\ pin = FALSE /\ last \in Sources \cup {"none"}
  /\ evUpdate = 0 /\ errEvent = 0 /\ cmd = 0 /\ heavy \in BOOLEAN
  /\ pending = {}
  /\ errPause = FALSE /\ errPauseTimer = "off"
  /\ edges = 0 /\ pauses = 0 /\ interrupted = FALSE

(* Event::raise writes 8 bytes from a 1-byte buffer: to the counter is      *)
(* added whatever follows it on the stack, above 1 too.  A counter is 0, 1: *)
(* there is room for more, or Full: the next raise blocks.                  *)
Full == 2
Raise(e) == e < Full /\ e' \in {1} \cup (IF heavy THEN {Full} ELSE {})

(* Event::end blocks on 0, and leaves 0. *)
End(e) == e > 0 /\ e' = 0

--------------------------------------------------------------------------------
(* The loop's thread, start-up: GpioInListner::insert. *)

(* The pin is in the list before epoll knows of it, all under mu; sysfs     *)
(* may report an edge at once.  Mutant: epoll first, the list after it.     *)
Insert_AddFirst ==
  \/ /\ lpc = "insert" /\ lpc' = "added"
     /\ pin' = TRUE /\ edges' = edges + 1
     /\ UNCHANGED listed
  \/ /\ lpc = "added" /\ epc # "raise" /\ lpc' = "update"
     /\ listed' = TRUE
     /\ UNCHANGED <<pin, edges>>
Insert ==
  \/ /\ lpc = "insert" /\ epc # "raise" /\ lpc' = "add"
     /\ listed' = TRUE
     /\ UNCHANGED <<pin, edges>>
  \/ /\ lpc = "add" /\ lpc' = "update"
     /\ pin' \in BOOLEAN /\ edges' = IF pin' THEN edges + 1 ELSE edges
     /\ UNCHANGED listed

Inserting ==
  /\ Insert
  /\ UNCHANGED <<epc, cpc, last, counters, pending, errorVars, pauses,
                 interrupted>>

Update ==
  /\ lpc = "update" /\ lpc' = "loop"
  /\ Raise(evUpdate)
  /\ UNCHANGED <<epc, cpc, listed, pin, last, errEvent, cmd, heavy, pending,
                 errorVars, edges, pauses, interrupted>>

--------------------------------------------------------------------------------
(* The loop's thread: ev_run. *)

Callbacks == [error |-> errEvent > 0, que |-> cmd > 0,
              reset |-> errPauseTimer = "expired"]
Ready == {c \in DOMAIN Callbacks : Callbacks[c]}

Poll ==
  /\ lpc = "loop" /\ pending = {} /\ Ready # {}
  /\ pending' = Ready
  /\ UNCHANGED <<lpc, epc, cpc, listed, pin, last, counters, errorVars, edges,
                 pauses, interrupted>>

(* errorHandler, after the timers of this round: cb(ErrorOccured) unless in *)
(* the pause after the last one.                                            *)
ErrorHandler ==
  /\ lpc = "loop" /\ "error" \in pending /\ "reset" \notin pending
  /\ End(errEvent)
  /\ errPause' = TRUE
  /\ errPauseTimer' = IF errPause THEN errPauseTimer ELSE "on"
  /\ pending' = pending \ {"error"}
  /\ UNCHANGED <<lpc, epc, cpc, listed, pin, last, evUpdate, cmd, heavy, edges,
                 pauses, interrupted>>

(* errPauseReset.  Mutant: it also throws away what came in the pause.      *)
PauseReset_Drains == errPause' = FALSE /\ errEvent' = 0
PauseReset == errPause' = FALSE /\ UNCHANGED errEvent

ErrPauseReset ==
  /\ lpc = "loop" /\ "reset" \in pending
  /\ PauseReset
  /\ errPauseTimer' = "off"
  /\ pending' = pending \ {"reset"}
  /\ UNCHANGED <<lpc, epc, cpc, listed, pin, last, evUpdate, cmd, heavy,
                 edges, pauses, interrupted>>

(* que_cb: the counter first, then the mutex, which is let go at once.      *)
(* Mutants: the counter is read with the mutex held, or after it.           *)
QueCalled == lpc = "loop" /\ "que" \in pending /\ "reset" \notin pending
QueCb_EndLocked ==
  \/ QueCalled /\ lpc' = "hold" /\ UNCHANGED <<cmd, pending>>
  \/ lpc = "hold" /\ cpc = "idle" /\ lpc' = "loop" /\ cmd' = 0
     /\ pending' = pending \ {"que"}
QueCb_EndLast ==
  \/ QueCalled /\ lpc' = "hold" /\ UNCHANGED <<cmd, pending>>
  \/ lpc = "hold" /\ cpc = "idle" /\ lpc' = "held" /\ UNCHANGED <<cmd, pending>>
  \/ lpc = "held" /\ lpc' = "loop" /\ cmd' = 0 /\ pending' = pending \ {"que"}
QueCb ==
  \/ QueCalled /\ End(cmd) /\ lpc' = "hold" /\ pending' = pending \ {"que"}
  \/ lpc = "hold" /\ cpc = "idle" /\ lpc' = "loop" /\ UNCHANGED <<cmd, pending>>

Que ==
  /\ QueCb
  /\ UNCHANGED <<epc, cpc, listed, pin, last, evUpdate, errEvent, heavy, errorVars,
                 edges, pauses, interrupted>>

Loop == Inserting \/ Update \/ Poll \/ ErrorHandler \/ ErrPauseReset \/ Que

--------------------------------------------------------------------------------
(* The listener. *)

Arrivals == [update |-> evUpdate > 0, pin |-> pin]
Found == {e \in DOMAIN Arrivals : Arrivals[e]}

(* epoll_wait returns one event; an edge is returned once. *)
Wait ==
  /\ epc = "wait" /\ epc' = "handle"
  /\ last' \in Found
  /\ pin' = (pin /\ last' # "pin")
  /\ UNCHANGED <<lpc, cpc, listed, counters, pending, errorVars, edges, pauses,
                 interrupted>>

(* A process that was stopped and goes on: epoll_wait fails, which is not   *)
(* looked at, and the last event is handled again.  Bound: once in a run.   *)
Interrupt ==
  /\ epc = "wait" /\ Found = {} /\ epc' = "handle"
  /\ ~interrupted /\ interrupted' = TRUE
  /\ UNCHANGED <<lpc, cpc, listed, pin, last, counters, pending, errorVars,
                 edges, pauses>>

HandleUpdate ==
  /\ epc = "handle" /\ last = "update" /\ epc' = "wait"
  /\ End(evUpdate)
  /\ UNCHANGED <<lpc, cpc, listed, pin, last, errEvent, cmd, heavy, pending,
                 errorVars, edges, pauses, interrupted>>

(* The pin is looked for in the list, under mu, for the event it is about. *)
HandlePin ==
  /\ epc = "handle" /\ last = "pin" /\ lpc # "add"
  /\ epc' = IF listed THEN "raise" ELSE "wait"
  /\ UNCHANGED <<lpc, cpc, listed, pin, last, counters, pending, errorVars,
                 edges, pauses, interrupted>>

HandleOther ==
  /\ epc = "handle" /\ last \in {"none", "kill"}
  /\ epc' = IF last = "kill" THEN "exited" ELSE "wait"
  /\ UNCHANGED <<lpc, cpc, listed, pin, last, counters, pending, errorVars,
                 edges, pauses, interrupted>>

RaiseError ==
  /\ epc = "raise" /\ epc' = "wait"
  /\ Raise(errEvent)
  /\ UNCHANGED <<lpc, cpc, listed, pin, last, evUpdate, cmd, heavy, pending,
                 errorVars, edges, pauses, interrupted>>

Listener == Wait \/ HandleUpdate \/ HandlePin \/ HandleOther \/ RaiseError

--------------------------------------------------------------------------------
(* The controller, the pin and the clock. *)

Pause ==
  /\ cpc = "idle" /\ pauses < MaxPauses /\ cpc' = "raise"
  /\ pauses' = pauses + 1
  /\ UNCHANGED <<lpc, epc, listed, pin, last, counters, pending, errorVars,
                 edges, interrupted>>

RaiseCmd ==
  /\ cpc = "raise" /\ cpc' = "paused"
  /\ Raise(cmd)
  /\ UNCHANGED <<lpc, epc, listed, pin, last, evUpdate, errEvent, heavy,
                 pending, errorVars, edges, pauses, interrupted>>

Resume ==
  /\ cpc = "paused" /\ cpc' = "idle"
  /\ UNCHANGED <<lpc, epc, listed, pin, last, counters, pending, errorVars,
                 edges, pauses, interrupted>>

Edge ==
  /\ lpc \in {"update", "loop", "hold"} /\ edges < MaxEdges
  /\ pin' = TRUE /\ edges' = edges + 1
  /\ UNCHANGED <<lpc, epc, cpc, listed, last, counters, pending, errorVars,
                 pauses, interrupted>>

Expire ==
  /\ errPauseTimer = "on" /\ errPauseTimer' = "expired"
  /\ UNCHANGED <<lpc, epc, cpc, listed, pin, last, counters, pending, errPause,
                 edges, pauses, interrupted>>

ThreadsNext ==
  Loop \/ Listener \/ Interrupt \/ Pause \/ RaiseCmd \/ Resume \/ Edge \/ Expire

(* Threads that can go on do, and time passes; that the controller resumes, *)
(* and when, is up to it.                                                   *)
ThreadsSpec == ThreadsInit /\ [][ThreadsNext]_threadVars
FairSpec ==
  /\ ThreadsSpec
  /\ WF_threadVars(Loop) /\ WF_threadVars(Listener)
  /\ WF_threadVars(RaiseCmd) /\ WF_threadVars(Expire)

--------------------------------------------------------------------------------
(* The loop never sleeps in Event::end(), nor the listener as long as       *)
(* epoll_wait is not interrupted: what a callback was called for is still   *)
(* in the counter.  (Interrupted after its first event, the listener waits  *)
(* in evUpdate.end() for ever.)                                             *)
NobodySleepsInEnd ==
  /\ "error" \in pending => errEvent > 0
  /\ "que" \in pending => cmd > 0
  /\ epc = "handle" /\ last = "update" /\ ~interrupted => evUpdate > 0

(* An edge is reported, or comes in the pause after a report, whatever the  *)
(* order of the threads, unless epoll_wait was interrupted; and the pause   *)
(* ends.  Or the loop stands still for good.                                *)
EdgesAreReported ==
  \/ <>[](lpc = "hold")
  \/ (pin ~> errPause \/ interrupted) /\ (errPause ~> ~errPause)

(* pause() does not wait, with the mutex held, for a loop that waits for    *)
(* the mutex: not the first two calls, whatever raise() adds.  (The third   *)
(* in a row may, for ever: the loop has left the second in the counter, and *)
(* a heavy one fills it.)                                                   *)
PauseReturns == cpc = "raise" /\ pauses <= 2 ~> cpc = "paused" \/ pauses > 2

(* Every pause takes effect, if it is not over before: it is not lost to a  *)
(* que_cb that was called for an earlier one.                               *)
PauseTakesEffect == cpc = "paused" ~> lpc = "hold" \/ cpc # "paused"

================================================================================
