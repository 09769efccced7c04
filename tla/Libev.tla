---------------------------------- MODULE Libev ----------------------------------
(***************************************************************************)
(* The loop of libev (ev_run in src/include/ev/ev.c) as the program uses   *)
(* it: one-shot timers and io watchers that stay active, all of priority   *)
(* 0, one thread.  An iteration polls, moves the expired timers from the   *)
(* heap to the queue pendings and empties the queue from its end; between  *)
(* two callbacks nothing happens, in a callback the program sets and stops *)
(* timers and spends time.                                                 *)
(*                                                                         *)
(* Time is counted in units of the shortest time poll() can wait, 1 ms,    *)
(* and relative to mn_now, the loop's idea of now; lag is what the clock   *)
(* is ahead of it.                                                         *)
(***************************************************************************)
EXTENDS TimerHeap, SequencesExt

CONSTANTS
  Ios,      \* io watchers
  Stopped,  \* timers that are also stopped; errPauseTimer never is
  Nobody,   \* pending_w, no watcher of the program
  Delays,   \* times timers are set to
  MaxLag,   \* bound: time the callbacks of one iteration take together
  MaxLate   \* bound: time by which poll() may oversleep

ASSUME LibevAssumption ==
  /\ Timers \cap Ios = {} /\ Stopped \subseteq Timers
  /\ Nobody \notin Timers \cup Ios
  /\ Delays \subseteq Nat /\ \E m \in Delays : \A d \in Delays : d <= m
  /\ MaxLag \in Nat /\ MaxLate \in Nat

Watchers == Timers \cup Ios

VARIABLES
  heap,      \* timers, see TimerHeap
  pendings,  \* the queue of watchers to be called, emptied from its end
  pending,   \* each watcher's place in the queue, 0: none
  running,   \* the watcher whose callback runs
  lag        \* the clock less mn_now

vars == <<heap, pendings, pending, running, lag>>

Init ==
  /\ heap = EmptyHeap
  /\ pendings = <<>> /\ pending = [w \in Watchers |-> 0]
  /\ running = Nobody /\ lag = 0

--------------------------------------------------------------------------------
(* The queue. *)

(* ev_feed_event, for watchers that are not pending, one after the other.   *)
(* Mutant: the second watcher takes the place of the first.                 *)
Fed_Overwritten(ws) == IF ws = <<>> THEN ws ELSE <<Last(ws)>>
Fed(ws) == ws

Place(queue) ==
  [w \in Watchers |->
     IF \E i \in DOMAIN queue : queue[i] = w
     THEN CHOOSE i \in DOMAIN queue : queue[i] = w
     ELSE 0]

(* clear_pending: an entry of the queue goes to nobody.                     *)
(* Mutant: the watcher goes on to think it is in the queue.                 *)
ClearPending_FlagKept(t) ==
  IF pending[t] = 0
  THEN UNCHANGED <<pendings, pending>>
  ELSE /\ pendings' = [pendings EXCEPT ![pending[t]] = Nobody]
       /\ UNCHANGED pending
ClearPending(t) ==
  IF pending[t] = 0
  THEN UNCHANGED <<pendings, pending>>
  ELSE /\ pendings' = [pendings EXCEPT ![pending[t]] = Nobody]
       /\ pending' = [pending EXCEPT ![t] = 0]

--------------------------------------------------------------------------------
(* The loop. *)

(* The queue is empty and no callback runs. *)
Polling == running = Nobody /\ pendings = <<>>

(* The time poll() is to wait at most: until the first timer expires.       *)
WaitTime ==
  IF heap.slots = <<>> THEN Max(Delays) ELSE Max({0, At(heap, 1) - lag})

(* timers_reify: the timers that have expired, in that order, and the heap  *)
(* without them.                                                            *)
ReifyOne(r) ==
  IF r.heap.slots # <<>> /\ At(r.heap, 1) < 0
  THEN [heap |-> Leave(r.heap, Root(r.heap)),
        expired |-> Append(r.expired, Root(r.heap))]
  ELSE r
TimersReify(h) ==
  LET reified[i \in 0..Len(h.slots)] ==
        IF i = 0 THEN [heap |-> h, expired |-> <<>>]
        ELSE ReifyOne(reified[i - 1])
  IN  reified[Len(h.slots)]

(* feed_reverse and feed_reverse_done: the last to expire is fed first, so  *)
(* that it is called last.  Mutant: fed in the order of expiry.             *)
FedReverse_InOrder(ws) == Fed(ws)
FedReverse(ws) == Fed(Reverse(ws))

(* What is fed by the poll, then by the timers.  Mutant: the other way.     *)
Queue_TimersFirst(ready, expired) == FedReverse(expired) \o Fed(ready)
Queue(ready, expired) == Fed(ready) \o FedReverse(expired)

(* time_update, before and after the poll: the clock is looked at.          *)
Passed(d) ==
  [heap EXCEPT !.at = [t \in Timers |->
     IF heap.active[t] # 0 THEN @[t] - lag - d ELSE 0]]

Iterate(d, ready) ==
  LET r == TimersReify(Passed(d))
  IN  /\ Polling
      /\ d <= WaitTime + MaxLate
      /\ heap' = r.heap
      /\ pendings' = Queue(ready, r.expired)
      /\ pending' = Place(pendings')
      /\ lag' = 0
      /\ UNCHANGED running

(* One round of ev_invoke_pending; an entry of nobody calls pendingcb.      *)
Invoke ==
  /\ running = Nobody /\ pendings # <<>>
  /\ running' = Last(pendings)
  /\ pendings' = Front(pendings)
  /\ pending' = [w \in Watchers |-> IF w = running' THEN 0 ELSE pending[w]]
  /\ UNCHANGED <<heap, lag>>

Return ==
  /\ running # Nobody
  /\ running' = Nobody
  /\ UNCHANGED <<heap, pendings, pending, lag>>

--------------------------------------------------------------------------------
(* What a callback does. *)

(* ev_timer_stop: the heap without the timer. *)
Disarmed(t) == IF heap.active[t] # 0 THEN Leave(heap, t) ELSE heap

(* set() stops a timer that is active and starts it again; one that is not  *)
(* active it leaves in the queue.                                           *)
FreezeGuard(t) ==
  IF heap.active[t] # 0 THEN ClearPending(t) ELSE UNCHANGED <<pendings, pending>>

(* The macro timerStart: set(), start(). *)
SetTimer(t, after) ==
  /\ running # Nobody
  /\ heap' = Enter(Disarmed(t), t, after)
  /\ FreezeGuard(t)
  /\ UNCHANGED <<running, lag>>

StopTimer(t) ==
  /\ running # Nobody
  /\ heap' = Disarmed(t)
  /\ ClearPending(t)
  /\ UNCHANGED <<running, lag>>

(* Computing, writing to files, sleeping. *)
Work ==
  /\ running # Nobody
  /\ lag < MaxLag /\ lag' = lag + 1
  /\ UNCHANGED <<heap, pendings, pending, running>>

Callback ==
  \/ Work
  \/ \E t \in Stopped : StopTimer(t)
  \/ \E t \in Timers, a \in Delays : SetTimer(t, a)

Waits == 0..(Max(Delays) + MaxLate)
ReadyIos == {s \in UNION {[1..n -> Ios] : n \in 0..Cardinality(Ios)} :
               \A i, j \in DOMAIN s : s[i] = s[j] => i = j}

Next ==
  \/ \E d \in Waits, ready \in ReadyIos : Iterate(d, ready)
  \/ Invoke \/ Return \/ Callback

Spec == Init /\ [][Next]_vars

(* The loop goes round and callbacks return.  Time passes: in a loop that   *)
(* polls for ever, armed timers come nearer for ever (strong fairness of an *)
(* iteration that takes time, spelled out).                                 *)
TimePasses ==
  []<>Polling =>
    []<><<Polling /\ \/ heap.slots = <<>>
                     \/ \E t \in Timers : /\ heap.active[t] # 0
                                          /\ heap'.at[t] # heap.at[t]>>_vars
Fairness == WF_vars(Invoke) /\ WF_vars(Return) /\ TimePasses
FairSpec == Spec /\ Fairness

--------------------------------------------------------------------------------
(* What ev_verify asserts, and its converse.  Every timer of the heap knows *)
(* its slot and none expires before its parent, and no other timer thinks   *)
(* it has a slot; queue and watchers point to each other, so that a watcher *)
(* that is stopped has no entry left.                                       *)
VerifyHeap ==
  /\ \A k \in DOMAIN heap.slots :
       /\ heap.active[heap.slots[k]] = k
       /\ k > 1 => At(heap, Parent(k)) <= At(heap, k)
  /\ \A t \in Timers :
       heap.active[t] # 0 => /\ heap.active[t] \in DOMAIN heap.slots
                             /\ heap.slots[heap.active[t]] = t
VerifyWatchers ==
  /\ \A w \in Watchers :
       pending[w] # 0 => /\ pending[w] \in DOMAIN pendings
                         /\ pendings[pending[w]] = w
  /\ \A i \in DOMAIN pendings :
       pendings[i] # Nobody => pending[pendings[i]] = i
Verify == VerifyHeap /\ VerifyWatchers

(* When the callback of an io watcher runs, no timer is due: a command from *)
(* a client, which comes from an io callback, cannot set a timer that is    *)
(* about to be called, which would leave its old call in the queue.         *)
TimersBeforeIo == running \in Ios => \A t \in Timers : pending[t] = 0

(* The timers of a queue in the order they are called in. *)
Calls(queue) ==
  LET calls[i \in 0..Len(queue)] ==
        IF i = 0 THEN <<>>
        ELSE IF queue[i] \in Timers THEN <<queue[i]>> \o calls[i - 1]
        ELSE calls[i - 1]
  IN  calls[Len(queue)]

(* The loop keeps the promise: heap, queue and indices together are a set   *)
(* of armed timers and a queue of due ones in the order of expiry.          *)
Promise ==
  INSTANCE TimerPromise
  WITH left <- [t \in {u \in Timers : heap.active[u] # 0} |-> heap.at[t]],
       due <- Calls(pendings),
       Passes <- 0..(Max(Delays) + MaxLate + MaxLag)
ImplementsPromise == Promise!Spec

(* A timer that nobody stops is called after it was set, whatever is done   *)
(* to the others, unless callbacks set it again and again.                  *)
TimersAreCalled ==
  \A t \in Timers \ Stopped :
    \/ []<><<\E a \in Delays : SetTimer(t, a)>>_vars
    \/ heap.active[t] # 0 \/ pending[t] # 0 ~> running = t

================================================================================
