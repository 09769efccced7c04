------------------------------- MODULE TimerHeap -------------------------------
(***************************************************************************)
(* The heap of libev's timers (src/include/ev/ev.c) as a value: a record   *)
(* for the array and what the watchers keep of it, one operator per        *)
(* function.                                                               *)
(*                                                                         *)
(*   slots   the array timers from HEAP0 on, slot 1 being the root         *)
(*   at      ev_at of each timer, relative to the loop's time mn_now: less *)
(*           than 0 is expired                                             *)
(*   active  ev_active of each timer: its slot, 0 when it is not in the    *)
(*           heap                                                          *)
(***************************************************************************)
EXTENDS Integers, Sequences, FiniteSetsExt

CONSTANTS
  Timers,
  DHEAP     \* branching factor: 4 in the build of the program (EV_USE_4HEAP)

ASSUME HeapAssumption == DHEAP \in Nat \ {0, 1}

EmptyHeap == [slots |-> <<>>, at |-> [t \in Timers |-> 0],
              active |-> [t \in Timers |-> 0]]

Root(h) == h.slots[1]
At(h, k) == h.at[h.slots[k]]

(* HPARENT. *)
Parent(k) == (k - 2) \div DHEAP + 1

(* The children of slot k among n slots.                                    *)
Children(k, n) == (DHEAP * (k - 1) + 2 .. DHEAP * k + 1) \cap 1..n

(* "find minimum child": the first of those that expire first. *)
MinChild(h, k, n) ==
  LET C == Children(k, n)
  IN  CHOOSE c \in C : \A d \in C : \/ At(h, c) < At(h, d)
                                    \/ At(h, c) = At(h, d) /\ c <= d

(* The timers on the slots of path take the places from gives them.         *)
Refill(h, path, from) ==
  [h EXCEPT
     !.slots = [k \in DOMAIN h.slots |->
                  IF k \in path THEN from[k] ELSE h.slots[k]],
     !.active = [t \in Timers |->
                   IF \E k \in path : from[k] = t
                   THEN CHOOSE k \in path : from[k] = t
                   ELSE h.active[t]]]

(* Where a timer goes on to from each slot; it stays where that is itself.  *)
(* Towards the root it passes the parents that expire later, away from it   *)
(* the children that expire first.                                          *)
Rise(h, t) ==
  [j \in DOMAIN h.slots |->
     IF j = 1 \/ At(h, Parent(j)) <= h.at[t] THEN j ELSE Parent(j)]
Sink(h, t) ==
  LET n == Len(h.slots)
  IN  [j \in DOMAIN h.slots |->
         IF Children(j, n) = {} \/ h.at[t] <= At(h, MinChild(h, j, n)) THEN j
         ELSE MinChild(h, j, n)]

(* The slots from k on. *)
Path(next, k) ==
  LET path[j \in DOMAIN next] ==
        IF next[j] = j THEN {j} ELSE {j} \cup path[next[j]]
  IN  path[k]

(* The loop of upheap and downheap: those it passes come one slot nearer.   *)
Moved(h, k, next) ==
  Refill(h, Path(next, k), [j \in Path(next, k) |->
                              IF next[j] = j THEN h.slots[k] ELSE h.slots[next[j]]])

UpHeap(h, k) == Moved(h, k, Rise(h, h.slots[k]))
DownHeap(h, k) == Moved(h, k, Sink(h, h.slots[k]))

(* Mutant: the last timer never rises in the place of one that is removed.  *)
AdjustHeap_DownOnly(h, k) == DownHeap(h, k)
AdjustHeap(h, k) ==
  IF k > 1 /\ At(h, k) <= At(h, Parent(k)) THEN UpHeap(h, k) ELSE DownHeap(h, k)

(* The part of ev_timer_start and ev_timer_stop that is about the heap.     *)
Enter(h, t, after) ==
  LET n == Len(h.slots) + 1
  IN  UpHeap([h EXCEPT !.slots = Append(@, t), !.at[t] = after,
                       !.active[t] = n], n)

Leave(h, t) ==
  LET k == h.active[t]
      n == Len(h.slots) - 1
      cut == [h EXCEPT !.slots = SubSeq(@, 1, n), !.active[t] = 0]
  IN  IF k = n + 1 THEN cut
      ELSE AdjustHeap([cut EXCEPT !.slots[k] = h.slots[n + 1]], k)

================================================================================
