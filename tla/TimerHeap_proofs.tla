---------------------------- MODULE TimerHeap_proofs ----------------------------
(***************************************************************************)
(* The heap of libev's timers, for any number of timers and any branching  *)
(* factor: ev_timer_start and ev_timer_stop keep it a heap, and change     *)
(* nobody but the timer they are called for (EnterKeeps, LeaveKeeps).      *)
(*                                                                         *)
(* The slots a timer passes are defined recursively (Path); what is said   *)
(* of them is shown by induction (Induction), which the library states     *)
(* only for operators, from its fact that < is well-founded.               *)
(***************************************************************************)
EXTENDS TimerHeap, SequenceTheorems, WellFoundedInduction, TLAPS

--------------------------------------------------------------------------------
(* Induction. *)

(* A set of numbers that is not empty has a least one.                      *)
LEMMA LeastOne ==
  ASSUME NEW S \in SUBSET Nat, S # {}
  PROVE  \E m \in S : \A n \in S : m <= n
<1> DEFINE R == OpToRel(<, Nat)
<1>1. IsWellFoundedOn(R, Nat)
  BY NatLessThanWellFounded
<1>2. \A x, y \in Nat : x < y => <<x, y>> \in R
  BY DEF OpToRel
<1> HIDE DEF R
<1>3. \E m \in S : \A n \in S : ~ (<<n, m>> \in R)
  BY <1>1, WFMin
<1>4. PICK m \in S : \A n \in S : ~ (<<n, m>> \in R)
  BY <1>3
<1>5. \A n \in S : ~ (n < m)
  BY <1>2, <1>4
<1>6. \A n \in S : m <= n
  BY <1>5
<1> QED
  BY <1>6

(* A set with 0 and with the successor of each of its numbers has them all. *)
LEMMA Induction ==
  ASSUME NEW S, 0 \in S, \A n \in Nat : n \in S => n + 1 \in S
  PROVE  Nat \subseteq S
<1> DEFINE T == Nat \ S
<1>1. SUFFICES ASSUME T # {} PROVE FALSE
  OBVIOUS
<1>2. PICK m \in T : \A n \in T : m <= n
  BY <1>1, LeastOne
<1>3. m # 0 /\ m - 1 \in Nat
  BY <1>2
<1>4. m - 1 \in S
  BY <1>2, <1>3
<1> QED
  BY <1>2, <1>3, <1>4

--------------------------------------------------------------------------------
(* The parent of a slot is nearer to the root, and a slot has the children  *)
(* whose parent it is.                                                      *)
LEMMA ParentRange ==
  ASSUME NEW k \in Nat, k >= 2
  PROVE  Parent(k) \in 1..(k - 1)
BY HeapAssumption DEF Parent

LEMMA ChildrenAre ==
  ASSUME NEW j \in Nat \ {0}, NEW n \in Nat
  PROVE  Children(j, n) = {c \in 2..n : Parent(c) = j}
BY HeapAssumption DEF Parent, Children

--------------------------------------------------------------------------------
(* Paths. *)

(* Every step of next comes nearer, by rank, to where it stays. *)
Descends(next, rank, bound) ==
  /\ next \in [DOMAIN next -> DOMAIN next]
  /\ bound \in Nat /\ rank \in [DOMAIN next -> 0..bound]
  /\ \A j \in DOMAIN next : next[j] # j => rank[next[j]] < rank[j]

IsPaths(f, next) ==
  f = [j \in DOMAIN next |-> IF next[j] = j THEN {j} ELSE {j} \cup f[next[j]]]

(* The recursion of Path comes to an end.                                   *)
LEMMA PathsExist ==
  ASSUME NEW next, NEW rank, NEW bound, Descends(next, rank, bound)
  PROVE  \E f : IsPaths(f, next)
<1> DEFINE D == DOMAIN next
           Upto(n) == {j \in D : rank[j] < n}
           IsPart(f, n) ==
             f = [j \in Upto(n) |-> IF next[j] = j THEN {j} ELSE {j} \cup f[next[j]]]
           S == {n \in Nat : \E f : IsPart(f, n)}
<1>1. 0 \in S
  <2>1. Upto(0) = {}
    BY DEF Descends
  <2>2. IsPart([j \in {} |-> {}], 0)
    BY <2>1
  <2> QED BY <2>2
<1>2. ASSUME NEW n \in Nat, n \in S
      PROVE  n + 1 \in S
  <2>1. PICK f : IsPart(f, n)
    BY <1>2
  <2> DEFINE g == [j \in Upto(n + 1) |->
                     IF next[j] = j THEN {j} ELSE {j} \cup f[next[j]]]
  <2>2. \A j \in Upto(n + 1) : next[j] # j => next[j] \in Upto(n)
    BY DEF Descends
  <2>3. Upto(n) \subseteq Upto(n + 1)
    BY DEF Descends
  <2>4. \A j \in Upto(n) : g[j] = f[j]
    BY <2>1, <2>3
  <2>5. IsPart(g, n + 1)
    BY <2>2, <2>4
  <2> HIDE DEF g, IsPart
  <2> QED BY <2>5
<1>3. Nat \subseteq S
  BY <1>1, <1>2, Induction
<1>4. Upto(bound + 1) = D
  BY DEF Descends
<1>5. PICK f : IsPart(f, bound + 1)
  <2> HIDE DEF IsPart
  <2>1. bound + 1 \in S
    BY <1>3 DEF Descends
  <2> QED BY <2>1
<1>6. IsPaths(f, next)
  BY <1>4, <1>5 DEF IsPaths
<1> QED BY <1>6

(* A way from slot k, each slot on it reached from one before. *)
IsWay(P, next, rank, k) ==
  /\ k \in P /\ P \subseteq DOMAIN next
  /\ \A i \in P : next[i] \in P
  /\ \A i \in P \ {k} : \E c \in P : c # i /\ next[c] = i
  /\ \A i \in P : rank[i] <= rank[k]
  /\ \A a, b \in P : next[a] = next[b] /\ next[a] # a /\ next[b] # b => a = b
  /\ \E e \in P : next[e] = e
  /\ \A e, i \in P : next[e] = e => rank[e] <= rank[i] /\ (next[i] = i => e = i)

LEMMA WayStays ==
  ASSUME NEW next, NEW rank, NEW bound, Descends(next, rank, bound),
         NEW j \in DOMAIN next, next[j] = j
  PROVE  IsWay({j}, next, rank, j)
BY DEF IsWay, Descends

LEMMA WayGoesOn ==
  ASSUME NEW next, NEW rank, NEW bound, Descends(next, rank, bound),
         NEW j \in DOMAIN next, next[j] # j, NEW Q, IsWay(Q, next, rank, next[j])
  PROVE  IsWay({j} \cup Q, next, rank, j)
<1> DEFINE P == {j} \cup Q
<1>1. \A i \in P : i \in DOMAIN next /\ next[i] \in DOMAIN next /\ rank[i] \in Nat
                   /\ (next[i] # i => rank[next[i]] < rank[i])
  BY DEF IsWay, Descends
<1>2. \A i \in Q : rank[i] < rank[j]
  BY <1>1 DEF IsWay, Descends
<1>3. j \notin Q
  BY <1>1, <1>2
<1>4. \A i \in P \ {j} : \E c \in P : c # i /\ next[c] = i
  BY <1>3 DEF IsWay
<1>5. \A i \in P : rank[i] <= rank[j]
  BY <1>1, <1>2
<1>6. ASSUME NEW b \in Q, next[b] = next[j], next[b] # b
      PROVE  FALSE
  BY <1>6, <1>1 DEF IsWay
<1>7. \A a, b \in P : next[a] = next[b] /\ next[a] # a /\ next[b] # b => a = b
  BY <1>6 DEF IsWay
<1>8. \A e, i \in P : next[e] = e => rank[e] <= rank[i] /\ (next[i] = i => e = i)
  BY <1>1, <1>2 DEF IsWay
<1>9. (\A i \in P : next[i] \in P) /\ (\E e \in P : next[e] = e) /\ j \in P
  BY DEF IsWay
<1> QED BY <1>1, <1>4, <1>5, <1>7, <1>8, <1>9 DEF IsWay

(* The path from k is such a way.                                           *)
LEMMA PathIsWay ==
  ASSUME NEW next, NEW rank, NEW bound, Descends(next, rank, bound),
         NEW k \in DOMAIN next
  PROVE  IsWay(Path(next, k), next, rank, k)
<1> DEFINE f == CHOOSE g : IsPaths(g, next)
<1>1. IsPaths(f, next)
  <2> HIDE DEF f
  <2>1. \E g : IsPaths(g, next)
    BY PathsExist
  <2> QED BY <2>1 DEF f
<1>2. Path(next, k) = f[k]
  BY DEF Path, IsPaths
<1> HIDE DEF f
<1> DEFINE S == {n \in Nat : \A j \in DOMAIN next :
                   rank[j] < n => IsWay(f[j], next, rank, j)}
<1>3. 0 \in S
  BY DEF Descends
<1>4. ASSUME NEW n \in Nat, n \in S
      PROVE  n + 1 \in S
  <2> SUFFICES ASSUME NEW j \in DOMAIN next, rank[j] < n + 1
               PROVE  IsWay(f[j], next, rank, j)
    OBVIOUS
  <2>1. CASE next[j] = j
    <3>1. f[j] = {j}
      BY <1>1, <2>1 DEF IsPaths
    <3> QED BY <2>1, <3>1, WayStays
  <2>2. CASE next[j] # j
    <3>1. f[j] = {j} \cup f[next[j]]
      BY <1>1, <2>2 DEF IsPaths
    <3>2. next[j] \in DOMAIN next /\ rank[next[j]] < n
      BY <2>2 DEF Descends
    <3>3. IsWay(f[next[j]], next, rank, next[j])
      BY <1>4, <3>2
    <3> QED BY <2>2, <3>1, <3>3, WayGoesOn
  <2> QED BY <2>1, <2>2
<1> HIDE DEF S
<1>5. Nat \subseteq S
  BY <1>3, <1>4, Induction
<1>6. bound + 1 \in S /\ rank[k] < bound + 1
  BY <1>5 DEF Descends
<1>7. IsWay(f[k], next, rank, k)
  BY <1>6 DEF S
<1> QED BY <1>2, <1>7

--------------------------------------------------------------------------------
(* Heaps. *)

HeapType == [slots : Seq(Timers), at : [Timers -> Int], active : [Timers -> Nat]]

(* Every timer knows its slot, and who has none knows that.                 *)
Indexed(h) ==
  /\ h \in HeapType
  /\ \A k \in DOMAIN h.slots : h.active[h.slots[k]] = k
  /\ \A t \in Timers :
       h.active[t] # 0 => h.active[t] \in DOMAIN h.slots /\ h.slots[h.active[t]] = t

(* None of the first m slots expires before its parent.                     *)
Ordered(h, m) == \A i \in 2..m : At(h, Parent(i)) <= At(h, i)

IsHeap(h) == Indexed(h) /\ Ordered(h, Len(h.slots))

(* Nobody entered or left, and nobody's time changed.                       *)
SameTimers(h, g) ==
  /\ g.at = h.at /\ Len(g.slots) = Len(h.slots)
  /\ \A t \in Timers : g.active[t] = 0 <=> h.active[t] = 0

(* What is in a slot.                                                       *)
LEMMA SlotsAre ==
  ASSUME NEW h, Indexed(h), NEW k \in DOMAIN h.slots
  PROVE  /\ h.slots \in Seq(Timers) /\ Len(h.slots) \in Nat
         /\ DOMAIN h.slots = 1..Len(h.slots) /\ k \in Nat \ {0}
         /\ h.slots[k] \in Timers /\ h.at[h.slots[k]] \in Int /\ At(h, k) \in Int
         /\ h.active[h.slots[k]] = k
BY DEF Indexed, HeapType, At

(* Slots that exchange their timers, whatever the order. *)
Exchanged(h, P, from) ==
  /\ P \in SUBSET DOMAIN h.slots /\ from \in [P -> Timers]
  /\ \A i, j \in P : from[i] = from[j] => i = j
  /\ \A i \in P : \E j \in P : from[i] = h.slots[j]
  /\ \A j \in P : \E i \in P : from[i] = h.slots[j]

Refilled(h, P, from, g) ==
  /\ Indexed(g) /\ SameTimers(h, g) /\ DOMAIN g.slots = DOMAIN h.slots
  /\ \A i \in DOMAIN h.slots : g.slots[i] = IF i \in P THEN from[i] ELSE h.slots[i]

(* Slots that exchange their timers leave every timer with its slot.        *)
LEMMA RefillKeeps ==
  ASSUME NEW h, Indexed(h), NEW P, NEW from, Exchanged(h, P, from)
  PROVE  Refilled(h, P, from, Refill(h, P, from))
<1> DEFINE g == Refill(h, P, from)
           n == Len(h.slots)
           slots == [k \in DOMAIN h.slots |-> IF k \in P THEN from[k] ELSE h.slots[k]]
           active == [t \in Timers |-> IF \E k \in P : from[k] = t
                                       THEN CHOOSE k \in P : from[k] = t
                                       ELSE h.active[t]]
<1> USE DEF Exchanged
<1>1. g.slots = slots /\ g.active = active /\ g.at = h.at
      /\ g = [slots |-> slots, at |-> h.at, active |-> active]
  <2> HIDE DEF slots, active
  <2>1. g = [h EXCEPT !.slots = slots, !.active = active]
    BY Zenon DEF Refill, slots, active
  <2> HIDE DEF g
  <2>2. h \in HeapType
    BY DEF Indexed
  <2> QED BY <2>1, <2>2 DEF HeapType
<1>2. n \in Nat /\ DOMAIN h.slots = 1..n /\ \A i \in 1..n : h.slots[i] \in Timers
  BY DEF Indexed, HeapType
<1>3. slots \in Seq(Timers) /\ Len(slots) = n /\ DOMAIN slots = 1..n
  <2>1. slots \in [1..n -> Timers]
    BY <1>2
  <2> QED BY <1>2, <2>1
<1> HIDE DEF slots, active, g
<1>4. \A i \in P : active[from[i]] = i
  <2> SUFFICES ASSUME NEW i \in P PROVE active[from[i]] = i
    OBVIOUS
  <2>1. from[i] \in Timers
    OBVIOUS
  <2>2. active[from[i]] = CHOOSE k \in P : from[k] = from[i]
    BY <2>1 DEF active
  <2> QED BY <2>2
<1>5. \A t \in Timers : (\A k \in P : from[k] # t) => active[t] = h.active[t]
  BY DEF active
<1>0. \A i, j \in DOMAIN h.slots : h.slots[i] = h.slots[j] => i = j
  BY DEF Indexed
<1>6. \A i \in 1..n \ P : \A k \in P : from[k] # h.slots[i]
  <2> SUFFICES ASSUME NEW i \in 1..n \ P, NEW k \in P
               PROVE  from[k] # h.slots[i]
    OBVIOUS
  <2>1. PICK j \in P : from[k] = h.slots[j]
    OBVIOUS
  <2> QED BY <1>0, <1>2, <2>1
<1>7. ASSUME NEW i \in DOMAIN slots
      PROVE  active[slots[i]] = i
  <2>1. CASE i \in P
    BY <1>2, <1>3, <1>4, <2>1 DEF slots
  <2>2. CASE i \notin P
    BY <1>2, <1>3, <1>5, <1>6, <2>2 DEF slots, Indexed
  <2> QED BY <2>1, <2>2
<1>8. ASSUME NEW t \in Timers
      PROVE  /\ active[t] \in Nat
             /\ active[t] # 0 => active[t] \in DOMAIN slots /\ slots[active[t]] = t
             /\ active[t] = 0 <=> h.active[t] = 0
  <2>1. CASE \E k \in P : from[k] = t
    <3>1. PICK k \in P : from[k] = t
      BY <2>1
    <3>2. active[t] = k /\ slots[k] = t /\ k \in 1..n
      BY <1>2, <1>4, <3>1 DEF slots
    <3>3. h.active[t] # 0
      <4>1. PICK j \in P : from[k] = h.slots[j]
        OBVIOUS
      <4>2. h.active[t] = j /\ j \in 1..n
        BY <1>2, <3>1, <4>1 DEF Indexed
      <4> QED BY <4>2
    <3>4. active[t] \in Nat /\ active[t] \in DOMAIN slots
      BY <1>3, <3>2
    <3>5. k # 0
      BY <3>2
    <3> QED BY <3>2, <3>3, <3>4, <3>5
  <2>2. CASE \A k \in P : from[k] # t
    <3>1. active[t] = h.active[t] /\ active[t] \in Nat
      BY <1>5, <2>2 DEF Indexed, HeapType
    <3>2. ASSUME h.active[t] # 0
          PROVE  h.active[t] \in 1..n \ P /\ h.slots[h.active[t]] = t
      <4>1. h.active[t] \in 1..n /\ h.slots[h.active[t]] = t
        BY <1>2, <3>2 DEF Indexed
      <4>2. ASSUME h.active[t] \in P PROVE FALSE
        <5>1. PICK i \in P : from[i] = h.slots[h.active[t]]
          BY <4>2
        <5> QED BY <2>2, <4>1, <5>1
      <4> QED BY <4>1, <4>2
    <3> QED BY <1>3, <3>1, <3>2 DEF slots
  <2> QED BY <2>1, <2>2
<1>9. active \in [Timers -> Nat] /\ h.at \in [Timers -> Int]
  BY <1>8 DEF active, Indexed, HeapType
<1>10. g \in HeapType
  BY <1>1, <1>3, <1>9 DEF HeapType
<1>11. Indexed(g)
  BY <1>1, <1>7, <1>8, <1>10 DEF Indexed
<1>12. SameTimers(h, g)
  BY <1>1, <1>3, <1>8 DEF SameTimers
<1>13. \A i \in DOMAIN h.slots : slots[i] = IF i \in P THEN from[i] ELSE h.slots[i]
  BY DEF slots
<1>14. g.slots = slots /\ DOMAIN g.slots = DOMAIN h.slots
  BY <1>1, <1>2, <1>3
<1>15. Refilled(h, P, from, g)
  BY <1>11, <1>12, <1>13, <1>14 DEF Refilled
<1> QED BY <1>15 DEF g

(* What the loop of upheap or downheap does to the slots. *)
LEMMA MovedKeeps ==
  ASSUME NEW h, Indexed(h), NEW k \in DOMAIN h.slots, NEW next, NEW rank, NEW bound,
         DOMAIN next = DOMAIN h.slots, Descends(next, rank, bound)
  PROVE  LET g == Moved(h, k, next)
             P == Path(next, k)
         IN  /\ IsWay(P, next, rank, k)
             /\ Indexed(g) /\ SameTimers(h, g) /\ DOMAIN g.slots = DOMAIN h.slots
             /\ \A i \in DOMAIN h.slots :
                  /\ i \notin P => At(g, i) = At(h, i)
                  /\ i \in P /\ next[i] = i => At(g, i) = At(h, k)
                  /\ i \in P /\ next[i] # i => At(g, i) = At(h, next[i])
<1> DEFINE P == Path(next, k)
           from == [j \in P |-> IF next[j] = j THEN h.slots[k] ELSE h.slots[next[j]]]
<1>1. IsWay(P, next, rank, k)
  BY PathIsWay
<1>2. Moved(h, k, next) = Refill(h, P, from)
  BY DEF Moved
<1> HIDE DEF P
<1>3. P \in SUBSET DOMAIN h.slots /\ k \in P
  BY <1>1 DEF IsWay
<1>4. \A i, j \in DOMAIN h.slots : h.slots[i] = h.slots[j] => i = j
  BY DEF Indexed
<1>5. \A i \in DOMAIN h.slots : h.slots[i] \in Timers
  BY DEF Indexed, HeapType
<1>6. \A i \in P : from[i] = IF next[i] = i THEN h.slots[k] ELSE h.slots[next[i]]
  OBVIOUS
<1>7. from \in [P -> Timers]
  BY <1>1, <1>3, <1>5 DEF IsWay
<1> HIDE DEF from
<1>8. \A i \in P : next[i] # i => next[i] # k
  BY <1>1 DEF IsWay, Descends
<1>9. \A i, j \in P : from[i] = from[j] => i = j
  BY <1>1, <1>3, <1>4, <1>6, <1>8 DEF IsWay
<1>10. \A i \in P : \E j \in P : from[i] = h.slots[j]
  BY <1>1, <1>6 DEF IsWay
<1>11. \A j \in P : \E i \in P : from[i] = h.slots[j]
  <2> SUFFICES ASSUME NEW j \in P PROVE \E i \in P : from[i] = h.slots[j]
    OBVIOUS
  <2>1. CASE j = k
    BY <1>1, <1>6, <2>1 DEF IsWay
  <2>2. CASE j # k
    BY <1>1, <1>6, <2>2 DEF IsWay
  <2> QED BY <2>1, <2>2
<1> DEFINE g == Refill(h, P, from)
<1>14. Exchanged(h, P, from)
  BY <1>3, <1>7, <1>9, <1>10, <1>11 DEF Exchanged
<1>15. Refilled(h, P, from, g)
  BY <1>14, RefillKeeps
<1> HIDE DEF g
<1>12. /\ Indexed(g) /\ SameTimers(h, g) /\ DOMAIN g.slots = DOMAIN h.slots
       /\ \A i \in DOMAIN h.slots : g.slots[i] = IF i \in P THEN from[i] ELSE h.slots[i]
  BY <1>15 DEF Refilled
<1>13. \A i \in DOMAIN h.slots :
         /\ i \notin P => At(g, i) = At(h, i)
         /\ i \in P /\ next[i] = i => At(g, i) = At(h, k)
         /\ i \in P /\ next[i] # i => At(g, i) = At(h, next[i])
  BY <1>6, <1>12 DEF At, SameTimers
<1> QED BY <1>1, <1>2, <1>12, <1>13 DEF P, g

--------------------------------------------------------------------------------
(* upheap *)

(* Every step of upheap comes nearer to the root.                           *)
LEMMA RiseDescends ==
  ASSUME NEW h, Indexed(h), NEW t
  PROVE  /\ DOMAIN Rise(h, t) = DOMAIN h.slots
         /\ Descends(Rise(h, t), [j \in DOMAIN h.slots |-> j], Len(h.slots))
<1> DEFINE next == Rise(h, t)
           n == Len(h.slots)
           rank == [j \in DOMAIN h.slots |-> j]
<1>1. n \in Nat /\ DOMAIN h.slots = 1..n
  BY DEF Indexed, HeapType
<1>2. \A j \in 1..n : j # 1 => Parent(j) \in 1..(j - 1)
  BY ParentRange
<1>3. /\ DOMAIN next = 1..n
      /\ \A j \in 1..n : next[j] = IF j = 1 \/ At(h, Parent(j)) <= h.at[t] THEN j
                                   ELSE Parent(j)
      /\ next = [j \in 1..n |-> next[j]]
  BY <1>1 DEF Rise
<1>4. rank \in [1..n -> 0..n] /\ \A j \in 1..n : rank[j] = j
  BY <1>1
<1> HIDE DEF next, rank
<1>5. \A j \in 1..n : next[j] \in 1..n /\ (next[j] # j => next[j] < j)
  <2> SUFFICES ASSUME NEW j \in 1..n
               PROVE  next[j] \in 1..n /\ (next[j] # j => next[j] < j)
    OBVIOUS
  <2>1. next[j] = j \/ (j # 1 /\ next[j] = Parent(j))
    BY <1>3
  <2>2. j # 1 => Parent(j) \in 1..(j - 1)
    BY <1>2
  <2> QED BY <1>1, <2>1, <2>2
<1>6. next \in [1..n -> 1..n]
  BY <1>3, <1>5
<1> QED BY <1>1, <1>3, <1>4, <1>5, <1>6 DEF Descends, next, rank

(* Ordered but for slot k, on either side, where it may be passed over.     *)
OrderedBut(h, k, m) ==
  \A i \in 2..m :
    /\ i # k /\ Parent(i) # k => At(h, Parent(i)) <= At(h, i)
    /\ Parent(i) = k /\ k > 1 => At(h, Parent(k)) <= At(h, i)

(* A timer that is not later than its children rises to where it belongs,   *)
(* in a heap of the first m slots.                                          *)
LEMMA UpHeapOrders ==
  ASSUME NEW h, Indexed(h), NEW m \in DOMAIN h.slots, NEW k \in 1..m,
         OrderedBut(h, k, m),
         \A i \in 2..m : Parent(i) = k => At(h, k) <= At(h, i)
  PROVE  LET g == UpHeap(h, k)
         IN  Indexed(g) /\ SameTimers(h, g) /\ Ordered(g, m)
<1> DEFINE next == Rise(h, h.slots[k])
           rank == [j \in DOMAIN h.slots |-> j]
           P == Path(next, k)
           n == Len(h.slots)
           g == UpHeap(h, k)
<1>1. n \in Nat /\ DOMAIN h.slots = 1..n /\ m \in 1..n /\ k \in DOMAIN h.slots
      /\ \A i \in 1..n : At(h, i) \in Int
  <2>1. n \in Nat /\ DOMAIN h.slots = 1..n
    BY DEF Indexed, HeapType
  <2>2. \A i \in DOMAIN h.slots : At(h, i) \in Int
    BY SlotsAre
  <2> QED BY <2>1, <2>2
<1>2. \A i \in 2..m : Parent(i) \in 1..(i - 1)
  BY <1>1, ParentRange
<1>3. \A j \in 1..n : next[j] = IF j = 1 \/ At(h, Parent(j)) <= At(h, k) THEN j
                                ELSE Parent(j)
  BY <1>1 DEF Rise, At
<1>4. DOMAIN next = DOMAIN h.slots /\ Descends(next, rank, n)
  BY RiseDescends
<1>5. \A j \in 1..n : rank[j] = j
  BY <1>1
<1> HIDE DEF next, rank
<1>6. /\ IsWay(P, next, rank, k)
      /\ Indexed(g) /\ SameTimers(h, g)
      /\ \A i \in DOMAIN h.slots :
           /\ i \notin P => At(g, i) = At(h, i)
           /\ i \in P /\ next[i] = i => At(g, i) = At(h, k)
           /\ i \in P /\ next[i] # i => At(g, i) = At(h, next[i])
  BY <1>1, <1>4, MovedKeeps DEF UpHeap, next
<1> HIDE DEF P, g
<1>7. ASSUME NEW i \in 2..m, NEW p, p = Parent(i)
      PROVE  At(g, p) <= At(g, i)
  <2>1. p \in 1..(i - 1) /\ i \in 1..n /\ p \in 1..n
    BY <1>1, <1>2, <1>7
  <2>2. \A j \in P : j \in 1..n /\ j <= k
    BY <1>1, <1>4, <1>5, <1>6 DEF IsWay
  <2>3. p # k /\ i # k => At(h, p) <= At(h, i)
    BY <1>7 DEF OrderedBut
  (* A slot the timer leaves behind, beyond k. *)
  <2>4. ASSUME NEW j \in P, next[j] # j
        PROVE  /\ next[j] = Parent(j) /\ next[j] \in P /\ next[j] < j /\ j > 1
               /\ At(h, k) < At(h, Parent(j)) /\ next[j] # k
               /\ At(g, j) = At(h, Parent(j))
    <3>1. j \in 1..n /\ next[j] = Parent(j) /\ j > 1 /\ ~(At(h, Parent(j)) <= At(h, k))
      BY <1>3, <2>2, <2>4
    <3>2. next[j] \in P /\ next[j] < j
      <4>1. next[j] \in P
        BY <1>6 DEF IsWay
      <4>2. rank[next[j]] < rank[j]
        BY <1>1, <1>4, <2>4, <3>1 DEF Descends
      <4> QED BY <1>5, <2>2, <4>1, <4>2
    <3>3. At(h, Parent(j)) \in Int
      BY <1>1, <2>2, <3>1, <3>2
    <3>4. At(g, j) = At(h, Parent(j))
      BY <1>1, <1>6, <2>4, <3>1
    <3> QED BY <1>1, <2>2, <3>1, <3>2, <3>3, <3>4
  <2>5. CASE i \in P /\ next[i] # i
    <3>1. p \in P /\ p # k /\ At(g, i) = At(h, p) /\ At(h, k) < At(h, p)
      BY <1>7, <2>4, <2>5
    <3>2. CASE next[p] = p
      BY <1>1, <1>6, <2>1, <3>1, <3>2
    <3>3. CASE next[p] # p
      <4>1. At(g, p) = At(h, Parent(p)) /\ p \in 2..m /\ Parent(p) # k
        BY <2>1, <2>4, <3>1, <3>3
      <4>2. At(h, Parent(p)) <= At(h, p)
        BY <3>1, <4>1 DEF OrderedBut
      <4> QED BY <3>1, <4>1, <4>2
    <3> QED BY <3>2, <3>3
  <2>6. CASE i \in P /\ next[i] = i
    <3>1. p \notin P
      BY <1>5, <1>6, <2>1, <2>6 DEF IsWay
    <3>2. At(h, p) <= At(h, k)
      BY <1>3, <1>7, <2>1, <2>6, <1>2
    <3> QED BY <1>1, <1>6, <2>1, <2>6, <3>1, <3>2
  <2>7. CASE i \notin P /\ p \in P
    <3>1. At(g, i) = At(h, i) /\ i # k
      BY <1>1, <1>6, <2>1, <2>7 DEF IsWay
    <3>2. CASE p = k
      <4>1. At(h, k) <= At(h, i)
        BY <1>7, <3>2
      <4>2. k > 1 => At(h, Parent(k)) <= At(h, i)
        BY <1>7, <3>2 DEF OrderedBut
      <4>3. CASE next[p] = p
        BY <1>1, <1>6, <2>1, <2>7, <3>1, <3>2, <4>1, <4>3
      <4>4. CASE next[p] # p
        BY <2>4, <2>7, <3>1, <3>2, <4>2, <4>4
      <4> QED BY <4>3, <4>4
    <3>3. CASE p # k
      <4>1. At(h, p) <= At(h, i)
        BY <2>3, <3>1, <3>3
      <4>2. PICK c \in P : c # p /\ next[c] = p
        BY <1>6, <2>7, <3>3 DEF IsWay
      <4>3. At(h, k) < At(h, p)
        BY <2>4, <4>2
      <4>4. CASE next[p] = p
        BY <1>1, <1>6, <2>1, <2>7, <3>1, <4>1, <4>3, <4>4
      <4>5. CASE next[p] # p
        <5>1. At(g, p) = At(h, Parent(p)) /\ p \in 2..m /\ Parent(p) # k
          BY <2>1, <2>4, <2>7, <4>5
        <5>2. At(h, Parent(p)) <= At(h, p)
          BY <3>3, <5>1 DEF OrderedBut
        <5>3. At(h, Parent(p)) \in Int
          BY <1>1, <1>2, <2>1, <5>1
        <5> QED BY <1>1, <2>1, <3>1, <4>1, <5>1, <5>2, <5>3
      <4> QED BY <4>4, <4>5
    <3> QED BY <3>2, <3>3
  <2>8. CASE i \notin P /\ p \notin P
    BY <1>1, <1>6, <2>1, <2>3, <2>8 DEF IsWay
  <2> QED BY <2>5, <2>6, <2>7, <2>8
<1>8. Ordered(g, m)
  BY <1>7 DEF Ordered
<1> QED BY <1>6, <1>8 DEF g

--------------------------------------------------------------------------------
(* downheap *)

(* Of some slots there is a first among those that expire first. *)
LEMMA FirstLeast ==
  ASSUME NEW n \in Nat, NEW a \in [1..n -> Int], NEW C \in SUBSET (1..n), C # {}
  PROVE  \E c \in C : \A d \in C : a[c] < a[d] \/ (a[c] = a[d] /\ c <= d)
<1> DEFINE Least(D) == \E c \in D : \A d \in D : a[c] < a[d] \/ (a[c] = a[d] /\ c <= d)
           S == {m \in Nat : \A D \in SUBSET (1..n) :
                   D # {} /\ D \subseteq 1..m => Least(D)}
<1>1. 0 \in S
  <2>1. \A D : D \subseteq 1..0 => D = {}
    OBVIOUS
  <2> HIDE DEF Least
  <2> QED BY <2>1
<1>2. ASSUME NEW m \in Nat, m \in S
      PROVE  m + 1 \in S
  <2> SUFFICES ASSUME NEW D \in SUBSET (1..n), D # {}, D \subseteq 1..(m + 1)
               PROVE  Least(D)
    OBVIOUS
  <2>1. CASE m + 1 \notin D
    <3>1. D \subseteq 1..m
      BY <2>1
    <3> QED BY <1>2, <3>1
  <2>2. CASE D = {m + 1}
    BY <2>2
  <2>3. CASE m + 1 \in D /\ D # {m + 1}
    <3> DEFINE E == D \ {m + 1}
    <3>1. E # {} /\ E \subseteq 1..m /\ E \in SUBSET (1..n)
      BY <2>3
    <3>2. PICK c \in E : \A d \in E : a[c] < a[d] \/ (a[c] = a[d] /\ c <= d)
      BY <1>2, <3>1
    <3>3. c \in 1..m /\ a[c] \in Int /\ a[m + 1] \in Int /\ c \in D
          /\ \A d \in E : a[d] \in Int
      BY <2>3, <3>1
    <3>4. CASE a[m + 1] < a[c]
      <4>1. \A d \in E : a[m + 1] < a[d]
        BY <3>2, <3>3, <3>4
      <4>2. \A d \in D : a[m + 1] < a[d] \/ (a[m + 1] = a[d] /\ m + 1 <= d)
        BY <3>3, <4>1
      <4> QED BY ONLY <2>3, <4>2
    <3>5. CASE ~(a[m + 1] < a[c])
      <4>1. \A d \in D : a[c] < a[d] \/ (a[c] = a[d] /\ c <= d)
        BY <3>2, <3>3, <3>5
      <4> QED BY <3>3, <4>1
    <3> QED BY <3>4, <3>5
  <2> QED BY <2>1, <2>2, <2>3
<1> HIDE DEF S
<1>3. n \in S
  BY <1>1, <1>2, Induction
<1> QED BY <1>3 DEF S

(* The child that MinChild chooses expires first.                           *)
LEMMA MinChildIsLeast ==
  ASSUME NEW h, Indexed(h), NEW j \in DOMAIN h.slots, NEW n, n = Len(h.slots),
         Children(j, n) # {}
  PROVE  /\ MinChild(h, j, n) \in Children(j, n)
         /\ \A d \in Children(j, n) : At(h, MinChild(h, j, n)) <= At(h, d)
<1> DEFINE a == [i \in 1..n |-> At(h, i)]
           C == Children(j, n)
<1>1. n \in Nat /\ DOMAIN h.slots = 1..n
  BY DEF Indexed, HeapType
<1>2. \A i \in 1..n : At(h, i) \in Int
  BY <1>1, SlotsAre
<1>3. a \in [1..n -> Int] /\ \A i \in 1..n : a[i] = At(h, i)
  BY <1>2
<1>4. C \in SUBSET (1..n)
  BY DEF Children
<1> HIDE DEF a, C
<1>5. \E c \in C : \A d \in C : a[c] < a[d] \/ (a[c] = a[d] /\ c <= d)
  BY <1>1, <1>3, <1>4, FirstLeast DEF C
<1>6. \E c \in C : \A d \in C : At(h, c) < At(h, d) \/ (At(h, c) = At(h, d) /\ c <= d)
  BY <1>3, <1>4, <1>5
<1>7. /\ MinChild(h, j, n) \in C
      /\ \A d \in C : \/ At(h, MinChild(h, j, n)) < At(h, d)
                      \/ At(h, MinChild(h, j, n)) = At(h, d) /\ MinChild(h, j, n) <= d
  BY <1>6 DEF MinChild, C
<1>8. \A d \in C : At(h, MinChild(h, j, n)) <= At(h, d)
  <2> DEFINE m == MinChild(h, j, n)
  <2>1. At(h, m) \in Int /\ \A d \in C : At(h, d) \in Int
    BY <1>2, <1>4, <1>7
  <2>2. \A d \in C : At(h, m) < At(h, d) \/ At(h, m) = At(h, d)
    BY <1>7
  <2> HIDE DEF m
  <2>3. \A d \in C : At(h, m) <= At(h, d)
    BY <2>1, <2>2
  <2> QED BY <2>3 DEF m
<1> QED BY <1>7, <1>8 DEF C

(* What Sink says of a slot. *)
LEMMA SinkGoes ==
  ASSUME NEW h, Indexed(h), NEW t \in Timers, NEW j \in DOMAIN h.slots
  PROVE  LET next == Sink(h, t)
             n == Len(h.slots)
         IN  \/ next[j] = j /\ \A i \in 2..n : Parent(i) = j => h.at[t] <= At(h, i)
             \/ /\ next[j] \in 2..n /\ Parent(next[j]) = j /\ next[j] > j
                /\ At(h, next[j]) < h.at[t]
                /\ \A i \in 2..n : Parent(i) = j => At(h, next[j]) <= At(h, i)
<1> DEFINE next == Sink(h, t)
           n == Len(h.slots)
           m == MinChild(h, j, n)
<1>1. n \in Nat /\ DOMAIN h.slots = 1..n /\ j \in Nat \ {0} /\ h.at[t] \in Int
  BY DEF Indexed, HeapType
<1>2. \A i \in 1..n : At(h, i) \in Int
  BY <1>1, SlotsAre
<1>3. Children(j, n) = {c \in 2..n : Parent(c) = j}
  BY <1>1, ChildrenAre
<1>4. next[j] = IF Children(j, n) = {} \/ h.at[t] <= At(h, m) THEN j ELSE m
  BY DEF Sink
<1>5. CASE Children(j, n) = {}
  BY <1>3, <1>4, <1>5
<1>6. CASE Children(j, n) # {}
  <2>1. m \in Children(j, n) /\ \A d \in Children(j, n) : At(h, m) <= At(h, d)
    BY <1>6, MinChildIsLeast
  <2> HIDE DEF next, m
  <2>2. m \in 2..n /\ Parent(m) = j /\ m > j /\ At(h, m) \in Int
    BY <1>1, <1>2, <1>3, <2>1, ParentRange
  <2>3. \A i \in 2..n : Parent(i) = j => At(h, m) <= At(h, i)
    BY <1>3, <2>1
  <2>4. CASE h.at[t] <= At(h, m)
    <3>1. \A i \in 2..n : Parent(i) = j => h.at[t] <= At(h, i)
      BY <1>1, <1>2, <2>2, <2>3, <2>4
    <3> QED BY <1>4, <2>4, <3>1 DEF next
  <2>5. CASE ~(h.at[t] <= At(h, m))
    BY <1>1, <1>4, <1>6, <2>2, <2>3, <2>5 DEF next
  <2> QED BY <2>4, <2>5
<1> QED BY <1>5, <1>6

(* Every step of downheap comes nearer to the last slot.                    *)
LEMMA SinkDescends ==
  ASSUME NEW h, Indexed(h), NEW t \in Timers
  PROVE  /\ DOMAIN Sink(h, t) = DOMAIN h.slots
         /\ Descends(Sink(h, t), [j \in DOMAIN h.slots |-> Len(h.slots) - j], Len(h.slots))
<1> DEFINE next == Sink(h, t)
           n == Len(h.slots)
           rank == [j \in DOMAIN h.slots |-> n - j]
<1>1. n \in Nat /\ DOMAIN h.slots = 1..n
  BY DEF Indexed, HeapType
<1>2. DOMAIN next = 1..n /\ next = [j \in 1..n |-> next[j]]
  BY <1>1 DEF Sink
<1>3. rank \in [1..n -> 0..n] /\ \A j \in 1..n : rank[j] = n - j
  BY <1>1
<1>4. \A j \in 1..n : next[j] \in 1..n /\ (next[j] # j => next[j] > j)
  <2> SUFFICES ASSUME NEW j \in 1..n
               PROVE  next[j] \in 1..n /\ (next[j] # j => next[j] > j)
    OBVIOUS
  <2>1. next[j] = j \/ (next[j] \in 2..n /\ next[j] > j)
    BY <1>1, SinkGoes
  <2> QED BY <1>1, <2>1
<1> HIDE DEF next, rank
<1>5. next \in [1..n -> 1..n]
  BY <1>2, <1>4
<1>6. \A j \in 1..n : next[j] # j => rank[next[j]] < rank[j]
  BY <1>1, <1>3, <1>4
<1> QED BY <1>1, <1>2, <1>3, <1>5, <1>6 DEF Descends, next, rank

(* A timer that is not before its parent sinks to where it belongs. *)
LEMMA DownHeapOrders ==
  ASSUME NEW h, Indexed(h), NEW k \in DOMAIN h.slots,
         OrderedBut(h, k, Len(h.slots)), k > 1 => At(h, Parent(k)) <= At(h, k)
  PROVE  LET g == DownHeap(h, k)
         IN  Indexed(g) /\ SameTimers(h, g) /\ Ordered(g, Len(h.slots))
<1> DEFINE t == h.slots[k]
           next == Sink(h, t)
           P == Path(next, k)
           n == Len(h.slots)
           rank == [j \in DOMAIN h.slots |-> n - j]
           g == DownHeap(h, k)
<1>1. n \in Nat /\ DOMAIN h.slots = 1..n /\ k \in 1..n /\ t \in Timers /\ h.at[t] = At(h, k)
  BY DEF Indexed, HeapType, At
<1>2. \A i \in 1..n : At(h, i) \in Int
  BY <1>1, SlotsAre
<1>3. \A i \in 2..n : Parent(i) \in 1..(i - 1)
  BY <1>1, ParentRange
<1>4. \A j \in 1..n :
        \/ next[j] = j /\ \A i \in 2..n : Parent(i) = j => At(h, k) <= At(h, i)
        \/ /\ next[j] \in 2..n /\ Parent(next[j]) = j /\ next[j] > j
           /\ At(h, next[j]) < At(h, k)
           /\ \A i \in 2..n : Parent(i) = j => At(h, next[j]) <= At(h, i)
  BY <1>1, SinkGoes
<1>5. DOMAIN next = DOMAIN h.slots /\ Descends(next, rank, n)
  BY <1>1, SinkDescends
<1>6. \A j \in 1..n : rank[j] = n - j
  BY <1>1
<1> HIDE DEF next, rank
<1>7. /\ IsWay(P, next, rank, k)
      /\ Indexed(g) /\ SameTimers(h, g)
      /\ \A i \in DOMAIN h.slots :
           /\ i \notin P => At(g, i) = At(h, i)
           /\ i \in P /\ next[i] = i => At(g, i) = At(h, k)
           /\ i \in P /\ next[i] # i => At(g, i) = At(h, next[i])
  BY <1>1, <1>5, MovedKeeps DEF DownHeap, next
<1> HIDE DEF P, g, t
<1>8. \A j \in P : j \in 1..n /\ k <= j
  <2>1. \A j \in P : j \in 1..n /\ rank[j] <= rank[k]
    BY <1>1, <1>5, <1>7 DEF IsWay
  <2> QED BY <1>1, <1>6, <2>1
(* Another slot of the way is the first child of its parent. *)
<1>9. ASSUME NEW i \in P, i # k
      PROVE  i \in 2..n /\ Parent(i) \in P /\ next[Parent(i)] = i /\ Parent(i) # i
  <2>1. PICK c \in P : c # i /\ next[c] = i
    BY <1>7, <1>9 DEF IsWay
  <2> QED BY <1>4, <1>8, <2>1
<1>10. ASSUME NEW i \in 2..n, NEW p, p = Parent(i)
       PROVE  At(g, p) <= At(g, i)
  <2>1. p \in 1..(i - 1) /\ i \in 1..n /\ p \in 1..n
    BY <1>1, <1>3, <1>10
  <2>2. CASE p \in P
    <3>0. i # k
      BY <1>8, <2>1, <2>2
    <3>1. CASE next[p] = p
      <4>1. i \notin P
        BY <1>9, <1>10, <2>1, <3>0, <3>1
      <4>2. At(g, p) = At(h, k) /\ At(g, i) = At(h, i)
        BY <1>1, <1>7, <2>1, <2>2, <3>1, <4>1
      <4> QED BY <1>4, <1>10, <2>1, <3>1, <4>2
    <3>2. CASE next[p] # p
      <4>1. /\ next[p] \in 2..n /\ Parent(next[p]) = p
            /\ At(h, next[p]) < At(h, k) /\ At(h, next[p]) <= At(h, i)
            /\ At(g, p) = At(h, next[p])
        BY <1>1, <1>4, <1>7, <1>10, <2>1, <2>2, <3>2
      <4>2. CASE i \notin P
        BY <1>1, <1>7, <2>1, <4>1, <4>2
      <4>3. CASE i \in P /\ next[i] = i
        BY <1>1, <1>2, <1>7, <2>1, <4>1, <4>3
      <4>4. CASE i \in P /\ next[i] # i
        <5>1. next[p] = i /\ p # i
          BY <1>9, <1>10, <3>0, <4>4
        <5>2. next[i] \in 2..n /\ Parent(next[i]) = i /\ At(g, i) = At(h, next[i])
              /\ next[i] # k
          BY <1>1, <1>4, <1>7, <1>8, <2>1, <4>4
        <5>3. At(h, i) <= At(h, next[i])
          BY <3>0, <5>2 DEF OrderedBut
        <5> QED BY <4>1, <5>1, <5>2, <5>3
      <4> QED BY <4>2, <4>3, <4>4
    <3> QED BY <3>1, <3>2
  <2>3. CASE p \notin P /\ i \in P
    <3>1. i = k /\ p = Parent(k) /\ k > 1
      BY <1>9, <1>10, <2>1, <2>3
    <3>2. At(g, p) = At(h, p)
      BY <1>1, <1>7, <2>1, <2>3
    <3>3. CASE next[k] = k
      BY <1>1, <1>7, <2>3, <3>1, <3>2, <3>3
    <3>4. CASE next[k] # k
      <4>1. next[k] \in 2..n /\ Parent(next[k]) = k /\ At(g, k) = At(h, next[k])
        BY <1>1, <1>4, <1>7, <2>3, <3>1, <3>4
      <4> QED BY <3>1, <3>2, <4>1 DEF OrderedBut
    <3> QED BY <3>3, <3>4
  <2>4. CASE p \notin P /\ i \notin P
    <3>1. i # k /\ p # k
      BY <1>7, <2>4 DEF IsWay
    <3>2. At(h, p) <= At(h, i)
      BY <1>10, <3>1 DEF OrderedBut
    <3> QED BY <1>1, <1>7, <2>1, <2>4, <3>2
  <2> QED BY <2>2, <2>3, <2>4
<1>11. Ordered(g, n)
  BY <1>10 DEF Ordered
<1> QED BY <1>7, <1>11 DEF g

(* adjustheap: wherever the timer in slot k belongs, it goes there. *)
LEMMA AdjustHeapOrders ==
  ASSUME NEW h, Indexed(h), NEW k \in DOMAIN h.slots, OrderedBut(h, k, Len(h.slots))
  PROVE  IsHeap(AdjustHeap(h, k)) /\ SameTimers(h, AdjustHeap(h, k))
<1> DEFINE n == Len(h.slots)
<1>1. n \in Nat /\ DOMAIN h.slots = 1..n /\ k \in 1..n /\ n \in DOMAIN h.slots
  BY DEF Indexed, HeapType
<1>2. \A i \in 1..n : At(h, i) \in Int
  BY <1>1, SlotsAre
<1>3. k > 1 => Parent(k) \in 1..n
  BY <1>1, ParentRange
<1>4. CASE k > 1 /\ At(h, k) <= At(h, Parent(k))
  <2>1. \A i \in 2..n : Parent(i) = k => At(h, k) <= At(h, i)
    BY <1>1, <1>2, <1>3, <1>4 DEF OrderedBut
  <2>2. Indexed(UpHeap(h, k)) /\ SameTimers(h, UpHeap(h, k)) /\ Ordered(UpHeap(h, k), n)
    BY <1>1, <2>1, UpHeapOrders
  <2> QED BY <1>4, <2>2 DEF AdjustHeap, IsHeap, SameTimers
<1>5. CASE ~(k > 1 /\ At(h, k) <= At(h, Parent(k)))
  <2>1. k > 1 => At(h, Parent(k)) <= At(h, k)
    BY <1>1, <1>2, <1>3, <1>5
  <2>2. Indexed(DownHeap(h, k)) /\ SameTimers(h, DownHeap(h, k))
        /\ Ordered(DownHeap(h, k), n)
    BY <2>1, DownHeapOrders
  <2>3. AdjustHeap(h, k) = DownHeap(h, k)
    BY <1>5 DEF AdjustHeap
  <2> QED BY <2>2, <2>3 DEF IsHeap, SameTimers
<1> QED BY <1>4, <1>5

(* Nobody expires before the root. *)
LEMMA RootIsFirst ==
  ASSUME NEW h, IsHeap(h), NEW k \in DOMAIN h.slots
  PROVE  At(h, 1) <= At(h, k)
<1> DEFINE n == Len(h.slots)
           S == {m \in Nat : \A i \in 1..n : i <= m => At(h, 1) <= At(h, i)}
<1>1. n \in Nat /\ DOMAIN h.slots = 1..n
  BY DEF IsHeap, Indexed, HeapType
<1>2. \A i \in 1..n : At(h, i) \in Int
  BY <1>1, SlotsAre DEF IsHeap
<1>3. 0 \in S
  BY <1>1
<1>4. ASSUME NEW m \in Nat, m \in S
      PROVE  m + 1 \in S
  <2> SUFFICES ASSUME NEW i \in 1..n, i <= m + 1
               PROVE  At(h, 1) <= At(h, i)
    OBVIOUS
  <2>1. CASE i = 1
    BY <1>1, <1>2, <2>1
  <2>2. CASE i > 1
    <3>1. Parent(i) \in 1..(i - 1) /\ Parent(i) \in 1..n /\ Parent(i) <= m
      BY <1>1, <2>2, ParentRange
    <3>2. At(h, 1) <= At(h, Parent(i))
      BY <1>4, <3>1
    <3>3. At(h, Parent(i)) <= At(h, i)
      BY <1>1, <2>2 DEF IsHeap, Ordered
    <3>4. 1 \in 1..n
      BY <1>1
    <3> QED BY <1>2, <3>1, <3>2, <3>3, <3>4
  <2> QED BY <1>1, <2>1, <2>2
<1> HIDE DEF S
<1>5. n \in S
  BY <1>1, <1>3, <1>4, Induction
<1> QED BY <1>1, <1>5 DEF S

--------------------------------------------------------------------------------
(* Timers enter and leave. *)

(* The heap of a new loop.                                                  *)
LEMMA EmptyIsHeap == IsHeap(EmptyHeap)
BY DEF IsHeap, Indexed, Ordered, EmptyHeap, HeapType

(* ev_timer_start: the heap has one timer more, which expires after that    *)
(* time, and the others stay.                                               *)
LEMMA EnterKeeps ==
  ASSUME NEW h, IsHeap(h), NEW t \in Timers, h.active[t] = 0, NEW after \in Int
  PROVE  LET g == Enter(h, t, after)
         IN  /\ IsHeap(g) /\ g.at = [h.at EXCEPT ![t] = after]
             /\ Len(g.slots) = Len(h.slots) + 1
             /\ \A u \in Timers : g.active[u] = 0 <=> u # t /\ h.active[u] = 0
<1> DEFINE n == Len(h.slots) + 1
           slots == Append(h.slots, t)
           at == [h.at EXCEPT ![t] = after]
           active == [h.active EXCEPT ![t] = n]
           c == [slots |-> slots, at |-> at, active |-> active]
           g == Enter(h, t, after)
<1>1. /\ h \in HeapType /\ n \in Nat /\ DOMAIN h.slots = 1..(n - 1) /\ n > 0
      /\ h.slots \in Seq(Timers) /\ h.at \in [Timers -> Int] /\ h.active \in [Timers -> Nat]
  BY DEF IsHeap, Indexed, HeapType
<1>2. g = UpHeap(c, n)
  <2> DEFINE e == [h EXCEPT !.slots = Append(@, t), !.at[t] = after, !.active[t] = n]
  <2>1. e = [h EXCEPT !.slots = slots, !.at = at, !.active = active]
    BY Zenon
  <2> HIDE DEF e, slots, at, active
  <2>2. e = c
    BY <1>1, <2>1 DEF HeapType
  <2>3. g = UpHeap(e, n)
    BY Zenon DEF Enter, e
  <2> QED BY <2>2, <2>3
<1>3. /\ slots \in Seq(Timers) /\ Len(slots) = n /\ DOMAIN slots = 1..n /\ slots[n] = t
      /\ \A i \in 1..(n - 1) : slots[i] = h.slots[i]
  BY <1>1
<1>4. at \in [Timers -> Int] /\ \A u \in Timers \ {t} : at[u] = h.at[u]
  BY <1>1
<1>5. active \in [Timers -> Nat] /\ active[t] = n
      /\ \A u \in Timers \ {t} : active[u] = h.active[u]
  BY <1>1
<1> HIDE DEF slots, at, active
<1>6. \A i \in 1..(n - 1) : h.slots[i] \in Timers /\ h.slots[i] # t
                            /\ h.active[h.slots[i]] = i
  BY <1>1 DEF IsHeap, Indexed
<1>7. \A i \in 1..n : active[slots[i]] = i
  <2> SUFFICES ASSUME NEW i \in 1..n PROVE active[slots[i]] = i
    OBVIOUS
  <2>1. CASE i = n
    BY <1>3, <1>5, <2>1
  <2>2. CASE i # n
    <3>1. i \in 1..(n - 1)
      BY <1>1, <2>2
    <3> QED BY <1>3, <1>5, <1>6, <3>1
  <2> QED BY <2>1, <2>2
<1>8. \A u \in Timers : active[u] # 0 => active[u] \in 1..n /\ slots[active[u]] = u
  <2> SUFFICES ASSUME NEW u \in Timers, active[u] # 0
               PROVE  active[u] \in 1..n /\ slots[active[u]] = u
    OBVIOUS
  <2>1. CASE u = t
    BY <1>1, <1>3, <1>5, <2>1
  <2>2. CASE u # t
    <3>1. h.active[u] \in 1..(n - 1) /\ h.slots[h.active[u]] = u /\ active[u] = h.active[u]
      BY <1>1, <1>5, <2>2 DEF IsHeap, Indexed
    <3>2. active[u] \in 1..n /\ active[u] \in 1..(n - 1)
      BY <1>1, <3>1
    <3> QED BY <1>3, <3>1, <3>2
  <2> QED BY <2>1, <2>2
<1>9. Indexed(c)
  BY <1>3, <1>4, <1>5, <1>7, <1>8 DEF Indexed, HeapType
<1>10. \A i \in 1..(n - 1) : At(c, i) = At(h, i)
  BY <1>3, <1>4, <1>6 DEF At
<1>11. \A i \in 2..n : Parent(i) \in 1..(i - 1)
  BY <1>1, ParentRange
<1>12. OrderedBut(c, n, n)
  <2>1. ASSUME NEW i \in 2..n, i # n
        PROVE  At(c, Parent(i)) <= At(c, i)
    <3>1. Parent(i) \in 1..(i - 1)
      BY <1>11
    <3>3. Parent(i) \in 1..(n - 1) /\ i \in 2..(n - 1) /\ i \in 1..(n - 1)
      <4> HIDE DEF n
      <4>1. n \in Nat /\ i \in Nat /\ 2 <= i /\ i <= n - 1
        BY <1>1, <2>1
      <4> QED BY <3>1, <4>1
    <3>2. At(h, Parent(i)) <= At(h, i)
      BY <1>1, <3>3 DEF IsHeap, Ordered
    <3> QED BY <1>10, <3>2, <3>3
  <2>2. \A i \in 2..n : Parent(i) # n
    BY <1>1, <1>11
  <2> QED BY <2>1, <2>2 DEF OrderedBut
<1>13. n \in DOMAIN c.slots /\ n \in 1..n /\ \A i \in 2..n : Parent(i) # n
  BY <1>1, <1>3, <1>11
<1> HIDE DEF c, n
<1>14. Indexed(g) /\ SameTimers(c, g) /\ Ordered(g, n)
  BY <1>2, <1>9, <1>12, <1>13, UpHeapOrders
<1> HIDE DEF g
<1>15. Len(g.slots) = n /\ g.at = at /\ \A u \in Timers : g.active[u] = 0 <=> active[u] = 0
  BY <1>3, <1>14 DEF SameTimers, c
<1>16. \A u \in Timers : g.active[u] = 0 <=> u # t /\ h.active[u] = 0
  BY <1>1, <1>5, <1>15
<1> QED BY <1>14, <1>15, <1>16 DEF IsHeap, g, at, n

(* upheap and downheap tell the timer its slot, which need not know it.     *)
MinOf(slots, at, j, n) ==
  LET C == Children(j, n)
  IN  CHOOSE c \in C : \A d \in C : \/ at[slots[c]] < at[slots[d]]
                                    \/ at[slots[c]] = at[slots[d]] /\ c <= d
RiseOf(slots, at, t) ==
  [j \in DOMAIN slots |->
     IF j = 1 \/ at[slots[Parent(j)]] <= at[t] THEN j ELSE Parent(j)]
SinkOf(slots, at, t) ==
  [j \in DOMAIN slots |->
     IF Children(j, Len(slots)) = {} \/ at[t] <= at[slots[MinOf(slots, at, j, Len(slots))]]
     THEN j ELSE MinOf(slots, at, j, Len(slots))]

(* Where a timer goes depends on slots and times only.                      *)
LEMMA StepsOfSlots ==
  ASSUME NEW h, NEW t
  PROVE  Rise(h, t) = RiseOf(h.slots, h.at, t) /\ Sink(h, t) = SinkOf(h.slots, h.at, t)
<1>1. Rise(h, t) = RiseOf(h.slots, h.at, t)
  BY DEF Rise, RiseOf, At
<1>2. \A j, n : MinChild(h, j, n) = MinOf(h.slots, h.at, j, n)
  BY DEF MinChild, MinOf, At
<1>3. Sink(h, t) = SinkOf(h.slots, h.at, t)
  BY <1>2 DEF Sink, SinkOf, At
<1> QED BY <1>1, <1>3

SameButActive(h, c, t) ==
  /\ h \in HeapType /\ c \in HeapType /\ h.slots = c.slots /\ h.at = c.at
  /\ \A u \in Timers \ {t} : h.active[u] = c.active[u]

(* ev_timer_stop runs upheap or downheap with one index still wrong, that of *)
(* the timer it moves; both set it and look at none.                        *)
LEMMA MovedTells ==
  ASSUME NEW h, NEW c, NEW k \in DOMAIN h.slots, SameButActive(h, c, h.slots[k]),
         NEW next, NEW rank, NEW bound, Descends(next, rank, bound),
         DOMAIN next = DOMAIN h.slots
  PROVE  Moved(h, k, next) = Moved(c, k, next)
<1> DEFINE P == Path(next, k)
           from == [j \in P |-> IF next[j] = j THEN h.slots[k] ELSE h.slots[next[j]]]
           slots == [i \in DOMAIN h.slots |-> IF i \in P THEN from[i] ELSE h.slots[i]]
           active(g) == [t \in Timers |-> IF \E i \in P : from[i] = t
                                          THEN CHOOSE i \in P : from[i] = t
                                          ELSE g.active[t]]
<1>1. IsWay(P, next, rank, k)
  BY PathIsWay
<1>2. Moved(h, k, next) = Refill(h, P, from) /\ Moved(c, k, next) = Refill(c, P, from)
  BY DEF Moved, SameButActive
<1>3. \E i \in P : from[i] = h.slots[k]
  BY <1>1 DEF IsWay
<1>4. /\ Refill(h, P, from) = [h EXCEPT !.slots = slots, !.active = active(h)]
      /\ Refill(c, P, from) = [c EXCEPT !.slots = slots, !.active = active(c)]
  BY Zenon DEF Refill, SameButActive
<1> HIDE DEF P, from
<1>5. \A t \in Timers : (\A i \in P : from[i] # t) => h.active[t] = c.active[t]
  BY <1>3 DEF SameButActive
<1>6. active(h) = active(c)
  BY <1>5
<1> HIDE DEF slots, active
<1>7. [h EXCEPT !.slots = slots, !.active = active(h)]
        = [c EXCEPT !.slots = slots, !.active = active(c)]
  BY <1>6 DEF SameButActive, HeapType
<1> QED BY <1>2, <1>4, <1>7

(* The same of adjustheap.                                                  *)
LEMMA AdjustHeapTells ==
  ASSUME NEW h, NEW c, NEW k \in DOMAIN h.slots, SameButActive(h, c, h.slots[k]),
         Indexed(c)
  PROVE  AdjustHeap(h, k) = AdjustHeap(c, k)
<1>1. h.slots = c.slots /\ h.at = c.at /\ h.slots[k] = c.slots[k] /\ h.slots[k] \in Timers
  BY DEF SameButActive, HeapType
<1>2. \A t : Rise(h, t) = Rise(c, t) /\ Sink(h, t) = Sink(c, t)
  BY <1>1, StepsOfSlots
<1>3. UpHeap(h, k) = UpHeap(c, k)
  <2> DEFINE next == Rise(c, h.slots[k])
             rank == [j \in DOMAIN c.slots |-> j]
  <2>1. DOMAIN next = DOMAIN c.slots /\ Descends(next, rank, Len(c.slots))
    BY RiseDescends
  <2> HIDE DEF next, rank
  <2>2. Moved(h, k, next) = Moved(c, k, next)
    BY <1>1, <2>1, MovedTells
  <2> QED BY <1>1, <1>2, <2>2 DEF UpHeap, next
<1>4. DownHeap(h, k) = DownHeap(c, k)
  <2> DEFINE next == Sink(c, h.slots[k])
             rank == [j \in DOMAIN c.slots |-> Len(c.slots) - j]
  <2>1. DOMAIN next = DOMAIN c.slots /\ Descends(next, rank, Len(c.slots))
    BY <1>1, SinkDescends
  <2> HIDE DEF next, rank
  <2>2. Moved(h, k, next) = Moved(c, k, next)
    BY <1>1, <2>1, MovedTells
  <2> QED BY <1>1, <1>2, <2>2 DEF DownHeap, next
<1> QED BY <1>1, <1>3, <1>4 DEF AdjustHeap, At

(* ev_timer_stop: the heap has one timer less, wherever it was.             *)
LEMMA LeaveKeeps ==
  ASSUME NEW h, IsHeap(h), NEW t \in Timers, h.active[t] # 0
  PROVE  LET g == Leave(h, t)
         IN  /\ IsHeap(g) /\ g.at = h.at
             /\ Len(g.slots) = Len(h.slots) - 1
             /\ \A u \in Timers : g.active[u] = 0 <=> u = t \/ h.active[u] = 0
<1> DEFINE k == h.active[t]
           n == Len(h.slots) - 1
           last == h.slots[n + 1]
           slots == SubSeq(h.slots, 1, n)
           active == [h.active EXCEPT ![t] = 0]
           cut == [slots |-> slots, at |-> h.at, active |-> active]
           g == Leave(h, t)
<1>1. /\ h \in HeapType /\ n + 1 \in Nat /\ n = Len(h.slots) - 1
      /\ DOMAIN h.slots = 1..(n + 1) /\ h.slots \in Seq(Timers)
      /\ h.at \in [Timers -> Int] /\ h.active \in [Timers -> Nat]
  BY DEF IsHeap, Indexed, HeapType
<1>2. k \in 1..(n + 1) /\ h.slots[k] = t /\ n \in Nat
  BY <1>1 DEF IsHeap, Indexed
<1>3. /\ slots \in Seq(Timers) /\ Len(slots) = n /\ DOMAIN slots = 1..n
      /\ \A i \in 1..n : slots[i] = h.slots[i]
  BY <1>1, <1>2
<1>4. active \in [Timers -> Nat] /\ active[t] = 0
      /\ \A u \in Timers \ {t} : active[u] = h.active[u]
  BY <1>1
<1>5. g = IF k = n + 1 THEN cut ELSE AdjustHeap([cut EXCEPT !.slots[k] = last], k)
  <2> DEFINE e == [h EXCEPT !.slots = SubSeq(@, 1, n), !.active[t] = 0]
  <2>1. e = [h EXCEPT !.slots = slots, !.active = active]
    BY Zenon
  <2>2. g = IF k = n + 1 THEN e ELSE AdjustHeap([e EXCEPT !.slots[k] = last], k)
    BY Zenon DEF Leave
  <2> HIDE DEF e, slots, active, g
  <2>3. e = cut
    BY <1>1, <2>1 DEF HeapType
  <2> QED BY <2>2, <2>3
<1> HIDE DEF g, slots, active
<1>6. \A i \in 1..(n + 1) : h.slots[i] \in Timers /\ h.active[h.slots[i]] = i
                            /\ (i # k => h.slots[i] # t) /\ At(h, i) \in Int
  <2>0. \A i \in DOMAIN h.slots : h.slots[i] \in Timers /\ h.active[h.slots[i]] = i
    BY SlotsAre DEF IsHeap
  <2>1. \A i \in 1..(n + 1) : h.slots[i] \in Timers /\ h.active[h.slots[i]] = i
    BY <1>1, <2>0
  <2>2. \A i \in 1..(n + 1) : At(h, i) \in Int
    BY <1>1, <2>1 DEF At
  <2>3. \A i \in 1..(n + 1) : h.slots[i] = t => i = k
    BY <2>1
  <2> HIDE DEF k, n
  <2> QED BY <2>1, <2>2, <2>3
<1>7. \A u \in Timers \ {t} : active[u] # 0 =>
        /\ active[u] \in 1..(n + 1) \ {k} /\ h.slots[active[u]] = u
  <2>1. \A u \in Timers : h.active[u] # 0 =>
          h.active[u] \in 1..(n + 1) /\ h.slots[h.active[u]] = u
    BY <1>1 DEF IsHeap, Indexed
  <2> HIDE DEF n, k
  <2> QED BY <1>2, <1>4, <2>1
<1>8. \A i \in 2..(n + 1) : Parent(i) \in 1..(i - 1) /\ At(h, Parent(i)) <= At(h, i)
  BY <1>1, ParentRange DEF IsHeap, Ordered
<1>9. \A u \in Timers : active[u] = 0 <=> u = t \/ h.active[u] = 0
  BY <1>4
<1>10. CASE k = n + 1
  <2>1. \A i \in 1..n : active[slots[i]] = i
    <3> SUFFICES ASSUME NEW i \in 1..n PROVE active[slots[i]] = i
      OBVIOUS
    <3>1. i \in 1..(n + 1) /\ i # k
      BY <1>2, <1>10
    <3> QED BY <1>3, <1>4, <1>6, <3>1
  <2>2. \A u \in Timers : active[u] # 0 => active[u] \in 1..n /\ slots[active[u]] = u
    <3> SUFFICES ASSUME NEW u \in Timers, active[u] # 0
                 PROVE  active[u] \in 1..n /\ slots[active[u]] = u
      OBVIOUS
    <3>1. active[u] \in 1..(n + 1) \ {k} /\ h.slots[active[u]] = u
      BY <1>4, <1>7
    <3>2. active[u] \in 1..n
      BY <1>2, <1>10, <3>1
    <3> QED BY <1>3, <3>1, <3>2
  <2>3. Indexed(cut)
    BY <1>1, <1>3, <1>4, <2>1, <2>2 DEF Indexed, HeapType
  <2>4. \A i \in 1..n : At(cut, i) = At(h, i)
    BY <1>3 DEF At
  <2>5. Ordered(cut, n)
    BY <1>2, <1>8, <2>4 DEF Ordered
  <2> QED BY <1>3, <1>5, <1>9, <1>10, <2>3, <2>5 DEF IsHeap, g, n
<1>11. CASE k # n + 1
  <2> DEFINE filled == [slots EXCEPT ![k] = last]
             told == [active EXCEPT ![last] = k]
             c == [slots |-> filled, at |-> h.at, active |-> told]
             d == [slots |-> filled, at |-> h.at, active |-> active]
  <2>0. k \in 1..n /\ last \in Timers /\ last # t /\ h.active[last] = n + 1
        /\ active[last] = n + 1
    BY <1>2, <1>4, <1>6, <1>11
  <2>1. /\ filled \in Seq(Timers) /\ Len(filled) = n /\ DOMAIN filled = 1..n
        /\ filled[k] = last /\ \A i \in 1..n \ {k} : filled[i] = h.slots[i]
    BY <1>2, <1>3, <2>0
  <2>2. /\ told \in [Timers -> Nat] /\ told[last] = k
        /\ \A u \in Timers \ {last} : told[u] = active[u]
    BY <1>2, <1>4, <2>0
  <2>3. d = [cut EXCEPT !.slots[k] = last]
    OBVIOUS
  <2> HIDE DEF filled, told, cut, last
  <2>4. \A i \in 1..n : told[filled[i]] = i
    <3> SUFFICES ASSUME NEW i \in 1..n PROVE told[filled[i]] = i
      OBVIOUS
    <3>1. CASE i = k
      BY <2>1, <2>2, <3>1
    <3>2. CASE i # k
      <4>1. filled[i] = h.slots[i] /\ i \in 1..(n + 1) /\ i # n + 1
        BY <1>2, <2>1, <3>2
      <4>2. h.slots[i] # last /\ h.slots[i] # t /\ h.active[h.slots[i]] = i
            /\ h.slots[i] \in Timers
        BY <1>6, <2>0, <3>2, <4>1
      <4> QED BY <1>4, <2>2, <4>1, <4>2
    <3> QED BY <3>1, <3>2
  <2>5. \A u \in Timers : told[u] # 0 => told[u] \in 1..n /\ filled[told[u]] = u
    <3> SUFFICES ASSUME NEW u \in Timers, told[u] # 0
                 PROVE  told[u] \in 1..n /\ filled[told[u]] = u
      OBVIOUS
    <3>1. CASE u = last
      BY <2>0, <2>1, <2>2, <3>1
    <3>2. CASE u # last
      <4>1. told[u] = active[u] /\ u # t
        BY <1>4, <2>2, <3>2
      <4>2. active[u] \in 1..(n + 1) \ {k} /\ h.slots[active[u]] = u
        BY <1>7, <4>1
      <4>3. active[u] # n + 1
        BY <3>2, <4>2 DEF last
      <4> QED BY <1>2, <2>1, <4>1, <4>2, <4>3
    <3> QED BY <3>1, <3>2
  <2>6. Indexed(c)
    BY <1>1, <2>1, <2>2, <2>4, <2>5 DEF Indexed, HeapType
  <2>7. \A i \in 1..n \ {k} : At(c, i) = At(h, i)
    BY <2>1 DEF At
  <2>8. OrderedBut(c, k, n)
    <3>1. \A i \in 2..n : /\ Parent(i) \in 1..n /\ Parent(i) < i /\ At(h, Parent(i)) \in Int
                          /\ At(h, i) \in Int /\ At(h, Parent(i)) <= At(h, i)
      BY <1>2, <1>6, <1>8
    <3>2. ASSUME NEW i \in 2..n, i # k, Parent(i) # k
          PROVE  At(c, Parent(i)) <= At(c, i)
      BY <2>7, <3>1, <3>2
    <3>3. ASSUME NEW i \in 2..n, Parent(i) = k, k > 1
          PROVE  At(c, Parent(k)) <= At(c, i)
      <4>1. k \in 2..n
        BY <1>2, <2>0, <3>3
      <4>2. At(h, Parent(k)) <= At(h, k) /\ At(h, k) <= At(h, i)
            /\ At(h, Parent(k)) \in Int /\ At(h, k) \in Int /\ At(h, i) \in Int
            /\ Parent(k) \in 1..n \ {k} /\ i # k
        BY <3>1, <3>3, <4>1
      <4>3. At(c, Parent(k)) = At(h, Parent(k)) /\ At(c, i) = At(h, i)
        BY <2>7, <4>2
      <4> QED BY <4>2, <4>3
    <3> QED BY <3>2, <3>3 DEF OrderedBut
  <2>9. Len(c.slots) = n /\ k \in DOMAIN c.slots
    BY <2>0, <2>1
  <2>10. SameButActive(d, c, d.slots[k]) /\ k \in DOMAIN d.slots
    BY <1>1, <1>4, <2>0, <2>1, <2>2 DEF SameButActive, HeapType
  <2>11. c.at = h.at /\ c.active = told
    OBVIOUS
  <2> HIDE DEF c, d, n, k
  <2>12. AdjustHeap(d, k) = AdjustHeap(c, k)
    BY <2>6, <2>10, AdjustHeapTells
  <2>13. IsHeap(AdjustHeap(c, k)) /\ SameTimers(c, AdjustHeap(c, k))
    BY <2>6, <2>8, <2>9, AdjustHeapOrders
  <2>14. g = AdjustHeap(c, k)
    BY <1>5, <1>11, <2>3, <2>12
  <2>15. \A u \in Timers : told[u] = 0 <=> active[u] = 0
    BY <1>2, <2>0, <2>2
  <2> QED BY <1>1, <1>9, <2>9, <2>11, <2>13, <2>14, <2>15 DEF SameTimers, g
<1> QED BY <1>10, <1>11

================================================================================
