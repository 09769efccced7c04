-------------------------------- MODULE LibevHooks --------------------------------
(***************************************************************************)
(* The watchers of libev (src/include/ev/ev.c) that are kept in arrays:    *)
(* idle, prepare, check, fork, cleanup and async.  Each knows its place in *)
(* the array of its kind, the last takes the place of one that stops, and  *)
(* activecnt counts what keeps ev_run running.  Pure operators on a loop,  *)
(* a record:                                                               *)
(*                                                                         *)
(*   arrays     for each kind, its watchers                                *)
(*   active     ev_active of each watcher, 0: not active                   *)
(*   activecnt, idleall                                                    *)
(*   queue, called   the pending watchers, and those that were called      *)
(***************************************************************************)
EXTENDS Integers, Sequences, SequencesExt, Lists

Kinds == {"idle", "prepare", "check", "fork", "cleanup", "async"}

EvRef(l) == [l EXCEPT !.activecnt = @ + 1]
EvUnref(l) == [l EXCEPT !.activecnt = @ - 1]
EvStart(l, w, n) == EvRef([l EXCEPT !.active[w] = n])
EvStop(l, w) == EvUnref([l EXCEPT !.active[w] = 0])

(* What start and stop of every kind have in common. *)
Enlist(l, k, w) ==
  [EvStart(l, w, Len(l.arrays[k]) + 1) EXCEPT !.arrays[k] = Append(@, w)]

Unqueued(l, w) == [l EXCEPT !.queue = Without({w}, @)]

(* The last takes the place; it may be the one that stops.                  *)
TakePlace(l, k, w) ==
  LET a == l.arrays[k]
      i == l.active[w]
  IN  [l EXCEPT !.arrays[k] = Front([a EXCEPT ![i] = Last(a)]),
                !.active[Last(a)] = i]

(* Mutant: stopped first; the last one then takes its own place.            *)
Delist_StoppedFirst(l, k, w) ==
  LET s == EvStop(l, w)
  IN  [TakePlace(l, k, w) EXCEPT !.activecnt = s.activecnt]
Delist(l, k, w) == EvStop(TakePlace(l, k, w), w)

(* ev_idle_start, ...: the kind's own part. *)
IdleStart(l, w) == [Enlist(l, "idle", w) EXCEPT !.idleall = @ + 1]
PrepareStart(l, w) == Enlist(l, "prepare", w)
CheckStart(l, w) == Enlist(l, "check", w)
ForkStart(l, w) == Enlist(l, "fork", w)
CleanupStart(l, w) == EvUnref(Enlist(l, "cleanup", w))
AsyncStart(l, w) == Enlist(l, "async", w)

IdleStop(l, w) == [Delist(l, "idle", w) EXCEPT !.idleall = @ - 1]
PrepareStop(l, w) == Delist(l, "prepare", w)
CheckStop(l, w) == Delist(l, "check", w)
ForkStop(l, w) == Delist(l, "fork", w)
CleanupStop(l, w) == Delist(EvRef(l), "cleanup", w)
AsyncStop(l, w) == Delist(l, "async", w)

Start(l, k, w) ==
  IF l.active[w] # 0 THEN l
  ELSE CASE k = "idle" -> IdleStart(l, w)
         [] k = "prepare" -> PrepareStart(l, w)
         [] k = "check" -> CheckStart(l, w)
         [] k = "fork" -> ForkStart(l, w)
         [] k = "cleanup" -> CleanupStart(l, w)
         [] k = "async" -> AsyncStart(l, w)

Stop(loop, k, w) ==
  LET l == Unqueued(loop, w)
  IN  IF l.active[w] = 0 THEN l
      ELSE CASE k = "idle" -> IdleStop(l, w)
             [] k = "prepare" -> PrepareStop(l, w)
             [] k = "check" -> CheckStop(l, w)
             [] k = "fork" -> ForkStop(l, w)
             [] k = "cleanup" -> CleanupStop(l, w)
             [] k = "async" -> AsyncStop(l, w)

(* queue_events: a kind's watchers, but those that are pending already.     *)
QueueEvents(l, k) ==
  [l EXCEPT !.queue = @ \o Without(ToSet(l.queue), l.arrays[k])]

(* idle_reify, for watchers of one priority.                                *)
IdleReify(l) ==
  IF l.idleall > 0 /\ l.queue = <<>> THEN QueueEvents(l, "idle") ELSE l

(* ev_invoke_pending, for callbacks that change nothing here.               *)
Invoked(l) == [l EXCEPT !.called = @ \o Reverse(l.queue), !.queue = <<>>]

(* ev_run: a kind that has watchers is queued and called at once.           *)
CallAll(l, k) == IF l.arrays[k] = <<>> THEN l ELSE Invoked(QueueEvents(l, k))
BeforePoll(l, forked) == CallAll(IF forked THEN CallAll(l, "fork") ELSE l, "prepare")
AfterPoll(l) == QueueEvents(IdleReify(l), "check")

(* ev_run asks poll() to wait, and goes on after a round. *)
MayWait(l) == l.idleall = 0 /\ l.activecnt # 0
GoesOn(l) == l.activecnt # 0

--------------------------------------------------------------------------------
(* What ev_verify asserts of the arrays. *)
ArrayVerify(l, k) == \A i \in DOMAIN l.arrays[k] : l.active[l.arrays[k][i]] = i
EvVerify(l) == l.activecnt >= -1 /\ l.idleall >= 0 /\ \A k \in Kinds : ArrayVerify(l, k)

(* array_nextsize: room for cnt elements of a size where there was for cur, *)
(* doubled; what is large fills pages of MALLOC_ROUND but for what malloc   *)
(* keeps for itself, four pointers.                                         *)
MallocRound == 4096
Doubled(cur, cnt) ==
  LET f[n \in Nat \ {0}] == IF cnt > n THEN f[2 * n] ELSE n IN f[2 * (cur + 1)]
NextSize(size, cur, cnt, pointer) ==
  LET n == Doubled(cur, cnt)
      bytes == n * size + size + MallocRound - 1 + 4 * pointer
  IN  IF size * n <= MallocRound - 4 * pointer THEN n
      ELSE ((bytes \div MallocRound) * MallocRound - 4 * pointer) \div size

================================================================================
