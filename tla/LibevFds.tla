--------------------------------- MODULE LibevFds ---------------------------------
(***************************************************************************)
(* The io watchers of libev down to the kernel (src/include/ev/ev.c and    *)
(* ev_poll.c): each descriptor has a list of watchers and the events the   *)
(* kernel was last asked for; what has changed since is noted in fdchanges *)
(* and made good by fd_reify before the next poll(), which is given an     *)
(* array with an index by descriptor.  poll() fails, descriptors are       *)
(* closed by callbacks and their numbers used again.                       *)
(*                                                                         *)
(* Of the pending watchers any may be called next: they have any priority. *)
(***************************************************************************)
EXTENDS Integers, Sequences, SequencesExt

CONSTANTS Fds, Watchers

ASSUME FdsAssumption == Fds \subseteq Nat

Events == {"READ", "WRITE"}

VARIABLES
  open,       \* descriptors that are open
  head,       \* anfds[].head: each descriptor's list of watchers
  events,     \* anfds[].events: what the backend was told
  fdchanges,  \* descriptors with anfds[].reify
  polls,      \* the array for poll(): records of fd and events
  pollidxs,   \* each descriptor's place in it, 0: none
  asks,       \* the events of each active watcher
  got,        \* what each watcher is to be called for, if it is pending
  trusts,     \* watchers the program has started and takes for active
  at          \* where the loop is: "reify", "poll", "invoke", "callback"

fdVars == <<head, fdchanges, asks>>
pollVars == <<events, polls, pollidxs>>
vars == <<open, fdVars, pollVars, got, trusts, at>>

Init ==
  /\ open = Fds
  /\ head = [f \in Fds |-> <<>>] /\ fdchanges = <<>>
  /\ events = [f \in Fds |-> {}] /\ polls = <<>> /\ pollidxs = [f \in Fds |-> 0]
  /\ asks = [w \in Watchers |-> {}]
  /\ got = [w \in Watchers |-> {}]
  /\ trusts = {} /\ at = "callback"

Active(w) == \E f \in Fds : Contains(head[f], w)

--------------------------------------------------------------------------------
(* Parts that are used below, of a state s with the lists and what is got.  *)

State == [head |-> head, changes |-> fdchanges, asks |-> asks, got |-> got]

(* fd_change *)
FdChange(s, f) ==
  IF Contains(s.changes, f) THEN s ELSE [s EXCEPT !.changes = Append(@, f)]

(* wlist_add and wlist_del, by the functions that start and stop.           *)
IoStart(s, w, f, e) ==
  FdChange([s EXCEPT !.head[f] = <<w>> \o @, !.asks[w] = e], f)

WlistDel(l, w) == RemoveAt(l, CHOOSE i \in DOMAIN l : l[i] = w)

ClearPending(s, w) == [s EXCEPT !.got[w] = {}]

IoStop(s, w) ==
  LET in == {f \in Fds : Contains(s.head[f], w)}
      f == CHOOSE f \in in : TRUE
      c == ClearPending(s, w)
  IN  IF in = {} THEN c
      ELSE FdChange([c EXCEPT !.head[f] = WlistDel(@, w), !.asks[w] = {}], f)

(* fd_kill: one after the other is stopped, then told.  Mutant: told, then  *)
(* stopped, which takes what it was told from it.                           *)
Killed(s, f, e) ==
  IF s.head[f] = <<>> THEN s
  ELSE FdChange([s EXCEPT !.head[f] = <<>>,
                   !.asks = [w \in Watchers |-> IF Contains(s.head[f], w) THEN {} ELSE @[w]],
                   !.got = [w \in Watchers |-> IF Contains(s.head[f], w) THEN e ELSE @[w]]], f)
FdKill_FedFirst(s, f) == Killed(s, f, {})
FdKill(s, f) == Killed(s, f, Events \cup {"ERROR"})

Becomes(s) ==
  /\ head' = s.head /\ fdchanges' = s.changes /\ asks' = s.asks /\ got' = s.got

--------------------------------------------------------------------------------
(* fd_reify and poll_modify. *)

(* The last entry takes the place of one that goes.                         *)
(* Mutant: and is not told its new place.                                   *)
Removed_NotTold(p, f) ==
  LET i == p.idxs[f]
  IN  [arr |-> Front([p.arr EXCEPT ![i] = Last(p.arr)]),
       idxs |-> [p.idxs EXCEPT ![f] = 0]]
Removed(p, f) ==
  LET i == p.idxs[f]
      n == Len(p.arr)
  IN  [arr |-> Front([p.arr EXCEPT ![i] = Last(p.arr)]),
       idxs |-> IF i < n THEN [p.idxs EXCEPT ![f] = 0, ![p.arr[n].fd] = i]
                ELSE [p.idxs EXCEPT ![f] = 0]]

Entered(p, f) ==
  IF p.idxs[f] # 0 THEN p
  ELSE [arr |-> Append(p.arr, [fd |-> f, events |-> {}]),
        idxs |-> [p.idxs EXCEPT ![f] = Len(p.arr) + 1]]

PollModify(p, f, oev, nev) ==
  IF oev = nev THEN p
  ELSE LET q == Entered(p, f)
       IN  IF nev = {} THEN Removed(q, f)
           ELSE [q EXCEPT !.arr[q.idxs[f]].events = nev]

(* What the watchers of the list ask for together. *)
Wanted(f) == UNION {asks[w] : w \in ToSet(head[f])}

Reified(f) ==
  /\ LET p == PollModify([arr |-> polls, idxs |-> pollidxs], f, events[f], Wanted(f))
     IN  polls' = p.arr /\ pollidxs' = p.idxs
  /\ events' = [events EXCEPT ![f] = Wanted(f)]

(* One step is one turn of its loop: nothing comes between them.            *)
FdReify ==
  /\ at = "reify"
  /\ \/ /\ fdchanges # <<>> /\ Reified(Head(fdchanges))
        /\ fdchanges' = Tail(fdchanges) /\ UNCHANGED at
     \/ fdchanges = <<>> /\ at' = "poll" /\ UNCHANGED <<pollVars, fdchanges>>
  /\ UNCHANGED <<open, head, asks, got, trusts>>

--------------------------------------------------------------------------------
(* poll_poll.  A descriptor is ready for some of what was asked, or has an  *)
(* error or its peer has gone: both events then.  One that is closed is     *)
(* POLLNVAL, for which an assertion ends the program.                       *)
Revents(i) == (SUBSET polls[i].events) \cup {Events}

(* fd_event, for each entry: every watcher of the descriptor is fed what it *)
(* asks for, unless something has changed since the kernel was asked.       *)
Heard(w, r) ==
  asks[w] \cap UNION {r[i] : i \in {i \in DOMAIN polls :
                        Contains(head[polls[i].fd], w) /\ ~Contains(fdchanges, polls[i].fd)}}

PollReady ==
  /\ \A i \in DOMAIN polls : polls[i].fd \in open
  /\ \E r \in [DOMAIN polls -> SUBSET Events] :
       /\ \A i \in DOMAIN polls : r[i] \in Revents(i)
       /\ got' = [w \in Watchers |-> got[w] \cup Heard(w, r)]
  /\ UNCHANGED fdVars

(* ENOMEM: fd_enomem gives up the highest descriptor.                       *)
PollNoMemory ==
  LET asked == {f \in Fds : events[f] # {}}
  IN  \/ asked = {} /\ Becomes(State)
      \/ \E f \in asked : (\A g \in asked : g <= f) /\ Becomes(FdKill(State, f))

PollInterrupted == Becomes(State)

PollPoll ==
  /\ at = "poll" /\ at' = "invoke"
  /\ PollReady \/ PollNoMemory \/ PollInterrupted
  /\ UNCHANGED <<open, pollVars, trusts>>

(* ev_invoke_pending.  A callback that gets an error knows that its watcher *)
(* has been stopped.                                                        *)
Invoke ==
  /\ at = "invoke"
  /\ \/ /\ \A w \in Watchers : got[w] = {}
        /\ at' = "reify" /\ UNCHANGED <<got, trusts>>
     \/ \E w \in Watchers :
          /\ got[w] # {} /\ got' = [got EXCEPT ![w] = {}]
          /\ at' = "callback"
          /\ trusts' = IF "ERROR" \in got[w] THEN trusts \ {w} ELSE trusts
  /\ UNCHANGED <<open, fdVars, pollVars>>

--------------------------------------------------------------------------------
(* What callbacks do, and what the program does before the loop runs.       *)

InCallback == at = "callback" /\ UNCHANGED <<at, pollVars>>

Return ==
  /\ at = "callback" /\ at' = "invoke"
  /\ UNCHANGED <<open, fdVars, pollVars, got, trusts>>

Fd(w) == CHOOSE f \in Fds : Contains(head[f], w)

(* set(fd, events) and start() of ev++.h.                                   *)
Start(w, f, e) ==
  /\ InCallback /\ f \in open
  /\ Becomes(IoStart(IF Active(w) THEN IoStop(State, w) ELSE State, w, f, e))
  /\ trusts' = trusts \cup {w}
  /\ UNCHANGED open

(* set(events) of a watcher that is active, which stops and starts it.      *)
Modify(w, e) ==
  /\ InCallback /\ Active(w) /\ e # asks[w]
  /\ Becomes(IoStart(IoStop(State, w), w, Fd(w), e))
  /\ UNCHANGED <<open, trusts>>

Stop(w) ==
  /\ InCallback /\ Becomes(IoStop(State, w))
  /\ trusts' = trusts \ {w}
  /\ UNCHANGED open

(* The program stops the watchers of a descriptor before it closes it.      *)
Close(f) ==
  /\ InCallback /\ f \in open /\ head[f] = <<>>
  /\ open' = open \ {f}
  /\ UNCHANGED <<fdVars, got, trusts>>
Open(f) ==
  /\ InCallback /\ f \notin open
  /\ open' = open \cup {f}
  /\ UNCHANGED <<fdVars, got, trusts>>

Callback ==
  \/ \E w \in Watchers : \/ Stop(w)
                         \/ \E f \in Fds, e \in (SUBSET Events) \ {{}} : Start(w, f, e)
                         \/ \E e \in (SUBSET Events) \ {{}} : Modify(w, e)
  \/ \E f \in Fds : Close(f) \/ Open(f)

Next == FdReify \/ PollPoll \/ Invoke \/ Callback \/ Return

Spec == Init /\ [][Next]_vars

(* What ev_verify asserts of the lists: nobody is in two or twice in one.   *)
VerifyFds ==
  /\ \A f \in Fds : IsInjective(head[f])
  /\ \A f, g \in Fds : f # g => ToSet(head[f]) \cap ToSet(head[g]) = {}

--------------------------------------------------------------------------------
(* Whatever callbacks start, change, stop, close and open again between two *)
(* polls, in any order: poll() is asked once for every descriptor that has  *)
(* an active watcher, for what these ask for together, for no other, and    *)
(* for none that is closed; and the index agrees with the array.  Always,   *)
(* what ev_verify asserts of the lists holds.                               *)
AskedIsWanted ==
  /\ VerifyFds
  /\ at = "poll" =>
    \A f \in Fds :
      LET p == {i \in DOMAIN polls : polls[i].fd = f}
          of == {w \in Watchers : Contains(head[f], w)}
      IN  IF of = {} THEN p = {} /\ pollidxs[f] = 0
          ELSE /\ f \in open /\ p = {pollidxs[f]}
               /\ polls[pollidxs[f]].events = UNION {asks[w] : w \in of}

(* No watcher is dropped without a word: one the program has started and    *)
(* takes for active is, or it is pending, to be called with an error.       *)
NobodyStopsSilently ==
  \A w \in trusts : Active(w) \/ "ERROR" \in got[w]

================================================================================
