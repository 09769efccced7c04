------------------------------ MODULE TimerPromise ------------------------------
(***************************************************************************)
(* What the loop promises of its timers, without heap, queue or indices:   *)
(* each timer has some time left or none, those whose time is over become  *)
(* due together, and due timers are called one by one, the one that        *)
(* expired first before the others.  A timer that is stopped is called no  *)
(* more.  One that is set again while it is armed starts afresh; one that  *)
(* is set again after it became due and before its call keeps that call.   *)
(***************************************************************************)
EXTENDS Integers, SequencesExt

CONSTANTS
  Timers,
  Delays,   \* times timers are set to
  Passes    \* time that may pass between two looks at the clock

VARIABLES
  left,  \* the time each armed timer has left; armed is its domain
  due    \* the timers to be called, the first one next

vars == <<left, due>>

Armed == DOMAIN left
DueTimers == {due[i] : i \in DOMAIN due}
Dropped(t) ==
  IF t \in DueTimers THEN RemoveAt(due, CHOOSE i \in DOMAIN due : due[i] = t) ELSE due

Init == left = [t \in {} |-> 0] /\ due = <<>>

Start(t, after) ==
  /\ left' = [u \in Armed \cup {t} |-> IF u = t THEN after ELSE left[u]]
  /\ due' = IF t \in Armed THEN Dropped(t) ELSE due

Stop(t) ==
  /\ left' = [u \in Armed \ {t} |-> left[u]]
  /\ due' = Dropped(t)

(* Time passes, and is looked at: what has expired becomes due. *)
Expire(d) ==
  LET expired == {t \in Armed : left[t] < d}
  IN  /\ due = <<>>
      /\ left' = [t \in Armed \ expired |-> left[t] - d]
      /\ DOMAIN due' = 1..Len(due') /\ DueTimers' = expired
      /\ \A i, j \in DOMAIN due' :
           i < j => due'[i] # due'[j] /\ left[due'[i]] <= left[due'[j]]

Call ==
  /\ due # <<>>
  /\ due' = Tail(due)
  /\ UNCHANGED left

Next ==
  \/ \E t \in Timers : Stop(t) \/ \E after \in Delays : Start(t, after)
  \/ \E d \in Passes : Expire(d)
  \/ Call

Spec == Init /\ [][Next]_vars

================================================================================
