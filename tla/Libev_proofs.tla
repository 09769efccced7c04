------------------------------ MODULE Libev_proofs ------------------------------
(***************************************************************************)
(* The loop with any number of timers and io watchers, whatever delays,    *)
(* lateness and time in callbacks: heap, queue and indices agree, timers   *)
(* are called before io watchers, and the loop keeps TimerPromise.         *)
(***************************************************************************)
EXTENDS Libev, TimerHeap_proofs

(* There is a longest delay. *)
LEMMA LongestDelay == Max(Delays) \in Nat
<1>1. PICK m \in Delays : \A d \in Delays : d <= m
  BY LibevAssumption
<1>2. \E x \in Delays : \A y \in Delays : x >= y
  BY <1>1, LibevAssumption
<1>3. Max(Delays) \in Delays
  BY <1>2 DEF Max
<1> QED BY <1>3, LibevAssumption

--------------------------------------------------------------------------------
(* What timers_reify does. *)

(* What timers_reify has done to heap h after i looks at the root. *)
Reified(h, i, g, expired) ==
  /\ IsHeap(g) /\ g.at = h.at
  /\ expired \in Seq(Timers)
  /\ \A t \in Timers :
       g.active[t] # 0 <=>
         h.active[t] # 0 /\ \A j \in DOMAIN expired : expired[j] # t
  /\ \A j \in DOMAIN expired :
       /\ h.active[expired[j]] # 0 /\ h.at[expired[j]] < 0
       /\ \A k \in DOMAIN expired :
            j < k => expired[j] # expired[k] /\ h.at[expired[j]] <= h.at[expired[k]]
       /\ \A t \in Timers : g.active[t] # 0 => h.at[expired[j]] <= h.at[t]
  /\ \/ g.slots = <<>> \/ At(g, 1) >= 0
     \/ Len(g.slots) = Len(h.slots) - i

(* It looks at the root once more.                                          *)
LEMMA ReifyOneKeeps ==
  ASSUME NEW h, IsHeap(h), NEW i \in Nat, NEW r, Reified(h, i, r.heap, r.expired)
  PROVE  Reified(h, i + 1, ReifyOne(r).heap, ReifyOne(r).expired)
<1>1. /\ IsHeap(r.heap) /\ r.heap.at = h.at /\ r.expired \in Seq(Timers)
      /\ h.slots \in Seq(Timers) /\ h.at \in [Timers -> Int] /\ h.active \in [Timers -> Nat]
      /\ r.heap.slots \in Seq(Timers) /\ r.heap.active \in [Timers -> Nat]
  BY DEF Reified, IsHeap, Indexed, HeapType
<1>2. CASE ~ (r.heap.slots # <<>> /\ At(r.heap, 1) < 0)
  <2>1. ReifyOne(r) = r
    BY <1>2 DEF ReifyOne
  <2>2. r.heap.slots = <<>> \/ At(r.heap, 1) >= 0
    <3>1. r.heap.slots # <<>> => 1 \in DOMAIN r.heap.slots
      BY <1>1
    <3>2. 1 \in DOMAIN r.heap.slots => At(r.heap, 1) \in Int
      BY <1>1 DEF At
    <3> QED BY <1>2, <3>1, <3>2
  <2> QED BY <2>1, <2>2 DEF Reified
<1>3. CASE r.heap.slots # <<>> /\ At(r.heap, 1) < 0
  <2> DEFINE u == Root(r.heap)
             g == Leave(r.heap, u)
             e == Append(r.expired, u)
             n == Len(r.expired)
  <2>1. ReifyOne(r) = [heap |-> g, expired |-> e]
    BY <1>3 DEF ReifyOne
  <2>2. 1 \in DOMAIN r.heap.slots /\ u \in Timers /\ u = r.heap.slots[1]
    BY <1>1, <1>3 DEF Root
  <2>3. r.heap.active[u] = 1 /\ At(r.heap, 1) = h.at[u]
    BY <1>1, <2>2 DEF At, IsHeap, Indexed
  <2> HIDE DEF u
  <2>4. /\ IsHeap(g) /\ g.at = r.heap.at /\ Len(g.slots) = Len(r.heap.slots) - 1
        /\ \A t \in Timers : g.active[t] = 0 <=> t = u \/ r.heap.active[t] = 0
    <3> DEFINE a == r.heap
    <3>1. IsHeap(a) /\ a.active[u] # 0 /\ g = Leave(a, u)
      BY <1>1, <2>3
    <3> HIDE DEF a, g
    <3>2. LET c == Leave(a, u)
          IN  /\ IsHeap(c) /\ c.at = a.at
              /\ Len(c.slots) = Len(a.slots) - 1
              /\ \A v \in Timers : c.active[v] = 0 <=> v = u \/ a.active[v] = 0
      BY ONLY <3>1, <2>2, LeaveKeeps
    <3> QED BY <3>1, <3>2 DEF a
  <2> HIDE DEF g
  <2>16. \A s \in Seq(Timers) : \A w \in Timers :
           LET a == Append(s, w)
           IN  /\ a \in Seq(Timers) /\ Len(s) \in Nat /\ DOMAIN s = 1..Len(s)
               /\ DOMAIN a = 1..(Len(s) + 1) /\ a[Len(s) + 1] = w
               /\ \A j \in 1..Len(s) : a[j] = s[j] /\ a[j] \in Timers
    OBVIOUS
  <2>5. /\ e \in Seq(Timers) /\ n \in Nat /\ DOMAIN r.expired = 1..n
        /\ DOMAIN e = 1..(n + 1) /\ e[n + 1] = u
        /\ \A j \in 1..n : e[j] = r.expired[j] /\ e[j] \in Timers
    BY <1>1, <2>2, <2>16
  <2> HIDE DEF e, n
  <2>6. \A t \in Timers : r.heap.active[t] # 0 => h.at[u] <= h.at[t]
    <3> SUFFICES ASSUME NEW t \in Timers, r.heap.active[t] # 0 PROVE h.at[u] <= h.at[t]
      OBVIOUS
    <3> DEFINE k == r.heap.active[t]
    <3>1. k \in DOMAIN r.heap.slots /\ r.heap.slots[k] = t
      BY <1>1 DEF IsHeap, Indexed
    <3> HIDE DEF k
    <3>2. At(r.heap, 1) <= At(r.heap, k)
      BY <1>1, <3>1, RootIsFirst
    <3> QED BY <1>1, <2>3, <3>1, <3>2 DEF At
  <2>7. /\ \A j \in 1..n : /\ h.active[e[j]] # 0 /\ h.at[e[j]] < 0
                           /\ \A t \in Timers : r.heap.active[t] # 0 => h.at[e[j]] <= h.at[t]
        /\ \A j, k \in 1..n : j < k => e[j] # e[k] /\ h.at[e[j]] <= h.at[e[k]]
        /\ \A t \in Timers :
             r.heap.active[t] # 0 <=> h.active[t] # 0 /\ \A j \in 1..n : e[j] # t
    <3> DEFINE x == r.expired
    <3>1. /\ \A j \in DOMAIN x :
                /\ h.active[x[j]] # 0 /\ h.at[x[j]] < 0
                /\ \A k \in DOMAIN x : j < k => x[j] # x[k] /\ h.at[x[j]] <= h.at[x[k]]
                /\ \A t \in Timers : r.heap.active[t] # 0 => h.at[x[j]] <= h.at[t]
          /\ \A t \in Timers :
               r.heap.active[t] # 0 <=> h.active[t] # 0 /\ \A j \in DOMAIN x : x[j] # t
      BY Zenon DEF Reified
    <3>2. DOMAIN x = 1..n /\ \A j \in 1..n : e[j] = x[j]
      BY <2>5
    <3> HIDE DEF x
    <3> QED BY ONLY <3>1, <3>2
  <2>8. h.active[u] # 0 /\ h.at[u] < 0 /\ \A j \in 1..n : e[j] # u
    BY <1>3, <2>2, <2>3, <2>7
  <2>9. \A t \in Timers : g.active[t] # 0 <=> h.active[t] # 0 /\ \A j \in 1..(n + 1) : e[j] # t
    <3> SUFFICES ASSUME NEW t \in Timers
                 PROVE  g.active[t] # 0 <=> h.active[t] # 0 /\ \A j \in 1..(n + 1) : e[j] # t
      OBVIOUS
    <3>1. (\A j \in 1..(n + 1) : e[j] # t) <=> (\A j \in 1..n : e[j] # t) /\ u # t
      BY <2>5
    <3> QED BY <2>4, <2>7, <3>1
  <2>10. \A j \in 1..(n + 1) :
           /\ h.active[e[j]] # 0 /\ h.at[e[j]] < 0
           /\ \A t \in Timers : g.active[t] # 0 => h.at[e[j]] <= h.at[t]
    <3> SUFFICES ASSUME NEW j \in 1..(n + 1)
                 PROVE  /\ h.active[e[j]] # 0 /\ h.at[e[j]] < 0
                        /\ \A t \in Timers : g.active[t] # 0 => h.at[e[j]] <= h.at[t]
      OBVIOUS
    <3>1. CASE j = n + 1
      BY <2>4, <2>5, <2>6, <2>8, <3>1
    <3>2. CASE j \in 1..n
      BY <2>4, <2>7, <3>2
    <3> QED BY <2>5, <3>1, <3>2
  <2>11. \A j, k \in 1..(n + 1) : j < k => e[j] # e[k] /\ h.at[e[j]] <= h.at[e[k]]
    <3> SUFFICES ASSUME NEW j \in 1..(n + 1), NEW k \in 1..(n + 1), j < k
                 PROVE  e[j] # e[k] /\ h.at[e[j]] <= h.at[e[k]]
      OBVIOUS
    <3>1. CASE k = n + 1
      <4>1. j \in 1..n
        BY <2>5, <3>1
      <4> QED BY <2>2, <2>3, <2>5, <2>7, <2>8, <3>1, <4>1
    <3>2. CASE k # n + 1
      <4>1. j \in 1..n /\ k \in 1..n
        BY <2>5, <3>2
      <4> QED BY <2>7, <4>1
    <3> QED BY <3>1, <3>2
  <2>12. Len(r.heap.slots) = Len(h.slots) - i
    <3>1. At(r.heap, 1) \in Int
      BY <1>1, <2>2, <2>3
    <3> QED BY <1>3, <3>1 DEF Reified
  <2>13. Len(g.slots) = Len(h.slots) - (i + 1)
    <3>1. Len(h.slots) \in Nat
      BY <1>1
    <3> QED BY <2>4, <2>12, <3>1
  <2>17. /\ \A t \in Timers :
               g.active[t] # 0 <=> h.active[t] # 0 /\ \A j \in DOMAIN e : e[j] # t
         /\ \A j \in DOMAIN e :
               /\ h.active[e[j]] # 0 /\ h.at[e[j]] < 0
               /\ \A k \in DOMAIN e : j < k => e[j] # e[k] /\ h.at[e[j]] <= h.at[e[k]]
               /\ \A t \in Timers : g.active[t] # 0 => h.at[e[j]] <= h.at[t]
    BY <2>5, <2>9, <2>10, <2>11
  <2>15. Reified(h, i + 1, g, e)
    <3>1. IsHeap(g) /\ g.at = h.at /\ e \in Seq(Timers)
      BY <1>1, <2>4, <2>5
    <3> QED BY ONLY <2>13, <2>17, <3>1, Zenon DEF Reified
  <2> QED BY <2>1, <2>15
<1> QED BY <1>2, <1>3

(* The recursion of TimersReify comes to an end.                            *)
LEMMA ReifyingExists ==
  ASSUME NEW r, NEW n \in Nat
  PROVE  \E f : f = [i \in 0..n |-> IF i = 0 THEN r ELSE ReifyOne(f[i - 1])]
<1> DEFINE IsPart(f, m) == f = [i \in 0..m |-> IF i = 0 THEN r ELSE ReifyOne(f[i - 1])]
           S == {m \in Nat : \E f : IsPart(f, m)}
<1>1. 0 \in S
  <2> DEFINE f == [i \in 0..0 |-> r]
  <2>1. IsPart(f, 0)
    OBVIOUS
  <2> HIDE DEF f, IsPart
  <2> QED BY <2>1
<1>2. ASSUME NEW m \in Nat, m \in S
      PROVE  m + 1 \in S
  <2>1. PICK f : IsPart(f, m)
    BY <1>2
  <2> DEFINE g == [i \in 0..(m + 1) |-> IF i = 0 THEN r ELSE ReifyOne(f[i - 1])]
  <2>2. \A i \in 0..m : g[i] = f[i]
    BY <2>1
  <2>3. \A i \in 0..(m + 1) : i # 0 => i - 1 \in 0..m
    OBVIOUS
  <2>4. IsPart(g, m + 1)
    BY <2>2, <2>3
  <2> HIDE DEF g, IsPart
  <2> QED BY <2>4
<1>3. n \in S
  BY <1>1, <1>2, Induction
<1> QED BY <1>3

(* It has looked at the root as often as there were timers.                 *)
LEMMA TimersReifyKeeps ==
  ASSUME NEW h, IsHeap(h)
  PROVE  Reified(h, Len(h.slots), TimersReify(h).heap, TimersReify(h).expired)
<1> DEFINE n == Len(h.slots)
           r == [heap |-> h, expired |-> <<>>]
           IsReifying(g) == g = [i \in 0..n |-> IF i = 0 THEN r ELSE ReifyOne(g[i - 1])]
           f == CHOOSE g : IsReifying(g)
           S == {i \in Nat : i <= n => Reified(h, i, f[i].heap, f[i].expired)}
<1>1. n \in Nat /\ h.at \in [Timers -> Int]
  BY DEF IsHeap, Indexed, HeapType
<1>2. TimersReify(h) = f[n]
  BY Zenon DEF TimersReify
<1>3. IsReifying(f)
  <2>1. \E g : IsReifying(g)
    <3> HIDE DEF r, n
    <3> QED BY <1>1, ReifyingExists
  <2> HIDE DEF IsReifying
  <2> QED BY <2>1
<1>4. /\ f[0] = r
      /\ \A i \in 1..n : f[i] = ReifyOne(f[i - 1])
  <2> HIDE DEF r, f, n
  <2> QED BY <1>1, <1>3
<1> HIDE DEF f, IsReifying, n
<1>5. 0 \in S
  <2>1. Reified(h, 0, h, <<>>)
    BY <1>1 DEF Reified, n
  <2> QED BY <1>4, <2>1
<1>6. ASSUME NEW i \in Nat, i \in S
      PROVE  i + 1 \in S
  <2> SUFFICES ASSUME i + 1 <= n
               PROVE  Reified(h, i + 1, f[i + 1].heap, f[i + 1].expired)
    BY <1>1
  <2> DEFINE a == f[i]
  <2>1. Reified(h, i, a.heap, a.expired)
    BY <1>1, <1>6
  <2>2. f[i + 1] = ReifyOne(a)
    <3>1. i + 1 \in 1..n /\ (i + 1) - 1 = i
      BY <1>1
    <3>2. f[i + 1] = ReifyOne(f[(i + 1) - 1])
      BY ONLY <1>4, <3>1
    <3> QED BY ONLY <3>1, <3>2
  <2> HIDE DEF a
  <2> QED BY <2>1, <2>2, ReifyOneKeeps
<1>7. n \in S
  BY <1>1, <1>5, <1>6, Induction
<1> QED BY <1>1, <1>2, <1>7 DEF n

(* What timers_reify takes off the heap, and what it leaves.                *)
LEMMA TimersReifyTells ==
  ASSUME NEW h, IsHeap(h)
  PROVE  LET g == TimersReify(h).heap
             s == TimersReify(h).expired
         IN  /\ IsHeap(g) /\ g.at = h.at /\ s \in Seq(Timers)
             /\ \A t \in Timers : g.active[t] # 0 <=> h.active[t] # 0 /\ h.at[t] >= 0
             /\ \A t \in Timers :
                  (\E i \in DOMAIN s : s[i] = t) <=> h.active[t] # 0 /\ h.at[t] < 0
             /\ \A i, j \in DOMAIN s : i < j => s[i] # s[j] /\ h.at[s[i]] <= h.at[s[j]]
<1> DEFINE g == TimersReify(h).heap
           s == TimersReify(h).expired
           n == Len(h.slots)
<1>1. Reified(h, n, g, s)
  BY TimersReifyKeeps
<1>2. n \in Nat /\ h.at \in [Timers -> Int]
  BY DEF IsHeap, Indexed, HeapType
<1> HIDE DEF g, s, n
<1>3. IsHeap(g) /\ g.at = h.at /\ s \in Seq(Timers)
  BY <1>1 DEF Reified
<1>4. ASSUME NEW t \in Timers, g.active[t] # 0
      PROVE  h.at[t] >= 0
  <2> DEFINE k == g.active[t]
  <2>1. k \in DOMAIN g.slots /\ g.slots[k] = t /\ g.slots # <<>> /\ Len(g.slots) # 0
        /\ 1 \in DOMAIN g.slots
    BY <1>3, <1>4 DEF IsHeap, Indexed, HeapType
  <2> HIDE DEF k
  <2>2. At(g, 1) <= At(g, k) /\ At(g, k) = h.at[t]
    BY <1>3, <2>1, RootIsFirst DEF At
  <2>3. At(g, 1) \in Int /\ Len(g.slots) \in Nat
    BY <1>2, <1>3, <2>1 DEF At, IsHeap, Indexed, HeapType
  <2>4. At(g, 1) >= 0
    BY <1>1, <1>2, <2>1, <2>3 DEF Reified, n
  <2> QED BY <1>2, <2>2, <2>3, <2>4
<1>5. \A t \in Timers :
        g.active[t] # 0 <=> h.active[t] # 0 /\ \A j \in DOMAIN s : s[j] # t
  BY <1>1 DEF Reified
<1>6. /\ \A i \in DOMAIN s : h.active[s[i]] # 0 /\ h.at[s[i]] < 0
      /\ \A i, j \in DOMAIN s : i < j => s[i] # s[j] /\ h.at[s[i]] <= h.at[s[j]]
  BY <1>1 DEF Reified
<1>7. \A t \in Timers : g.active[t] # 0 <=> h.active[t] # 0 /\ h.at[t] >= 0
  <2> SUFFICES ASSUME NEW t \in Timers
               PROVE  g.active[t] # 0 <=> h.active[t] # 0 /\ h.at[t] >= 0
    OBVIOUS
  <2> QED BY <1>2, <1>4, <1>5, <1>6
<1>8. \A t \in Timers : (\E i \in DOMAIN s : s[i] = t) <=> h.active[t] # 0 /\ h.at[t] < 0
  <2> SUFFICES ASSUME NEW t \in Timers
               PROVE  (\E i \in DOMAIN s : s[i] = t) <=> h.active[t] # 0 /\ h.at[t] < 0
    OBVIOUS
  <2>1. h.at[t] \in Int
    BY <1>2
  <2> QED BY <1>5, <1>6, <1>7, <2>1
<1> QED BY <1>3, <1>6, <1>7, <1>8 DEF g, s

(* Time passes for all armed timers alike.                                  *)
LEMMA PassedIsHeap ==
  ASSUME IsHeap(heap), lag \in Int, NEW d \in Int
  PROVE  LET g == Passed(d)
         IN  /\ IsHeap(g) /\ g.slots = heap.slots /\ g.active = heap.active
             /\ \A t \in Timers : heap.active[t] # 0 => g.at[t] = heap.at[t] - lag - d
<1> DEFINE g == Passed(d)
           at == [t \in Timers |-> IF heap.active[t] # 0 THEN heap.at[t] - lag - d ELSE 0]
           n == Len(heap.slots)
<1>1. /\ heap \in HeapType /\ heap.at \in [Timers -> Int] /\ n \in Nat
      /\ DOMAIN heap.slots = 1..n /\ heap.slots \in Seq(Timers)
  BY DEF IsHeap, Indexed, HeapType
<1>2. g = [slots |-> heap.slots, at |-> at, active |-> heap.active]
  <2>1. g = [heap EXCEPT !.at = [t \in Timers |->
               IF heap.active[t] # 0 THEN heap.at[t] - lag - d ELSE 0]]
    BY <1>1 DEF Passed, HeapType
  <2> QED BY <1>1, <2>1 DEF HeapType
<1>3. at \in [Timers -> Int] /\ \A t \in Timers : heap.active[t] # 0 => at[t] = heap.at[t] - lag - d
  BY <1>1
<1>4. /\ g.slots = heap.slots /\ g.at = at /\ g.active = heap.active /\ g \in HeapType
  BY <1>1, <1>2, <1>3 DEF HeapType
<1> HIDE DEF g, at
<1>5. \A i \in 1..n : At(g, i) = At(heap, i) - lag - d /\ At(heap, i) \in Int
  <2> SUFFICES ASSUME NEW i \in 1..n
               PROVE  At(g, i) = At(heap, i) - lag - d /\ At(heap, i) \in Int
    OBVIOUS
  <2>1. heap.active[heap.slots[i]] = i /\ heap.slots[i] \in Timers
    BY <1>1 DEF IsHeap, Indexed
  <2> QED BY <1>1, <1>3, <1>4, <2>1 DEF At
<1> HIDE DEF n
<1>6. Ordered(g, n)
  <2> SUFFICES ASSUME NEW i \in 2..n PROVE At(g, Parent(i)) <= At(g, i)
    BY DEF Ordered
  <2> DEFINE p == Parent(i)
  <2>1. p \in 1..(i - 1) /\ i \in 1..n
    BY <1>1, ParentRange
  <2>2. At(heap, p) <= At(heap, i)
    BY DEF IsHeap, Ordered, n
  <2> HIDE DEF p
  <2>3. p \in 1..n
    BY <1>1, <2>1
  <2>4. At(g, p) <= At(g, i)
    BY <1>5, <2>1, <2>2, <2>3
  <2> QED BY <2>4 DEF p
<1>7. Indexed(g)
  BY <1>4 DEF IsHeap, Indexed
<1> QED BY <1>3, <1>4, <1>6, <1>7 DEF g, n, IsHeap

--------------------------------------------------------------------------------
(* The invariant. *)

(* The queue and the watchers point to each other. *)
Linked(queue, place) ==
  /\ queue \in Seq(Watchers \cup {Nobody}) /\ place \in [Watchers -> Nat]
  /\ \A w \in Watchers : place[w] # 0 => place[w] \in DOMAIN queue /\ queue[place[w]] = w
  /\ \A i \in DOMAIN queue : queue[i] # Nobody => place[queue[i]] = i

(* Every timer is nearer to the end of the queue than any io watcher. *)
TimersLast(queue) ==
  \A i, j \in DOMAIN queue : queue[i] \in Timers /\ queue[j] \in Ios => j < i

Inv ==
  /\ IsHeap(heap) /\ Linked(pendings, pending) /\ TimersLast(pendings)
  /\ TimersBeforeIo
  /\ running \in Watchers \cup {Nobody} /\ lag \in 0..MaxLag

(* A loop starts with nothing in it.                                        *)
LEMMA InvInit == Init => Inv
<1> SUFFICES ASSUME Init PROVE Inv
  OBVIOUS
<1>1. IsHeap(heap)
  BY EmptyIsHeap DEF Init
<1>2. Linked(pendings, pending) /\ TimersLast(pendings)
  BY DEF Init, Linked, TimersLast
<1>3. TimersBeforeIo /\ running \in Watchers \cup {Nobody} /\ lag \in 0..MaxLag
  BY LibevAssumption DEF Init, TimersBeforeIo, Watchers
<1> QED BY <1>1, <1>2, <1>3 DEF Inv

(* The queue that an iteration makes. *)
LEMMA QueueIs ==
  ASSUME NEW ready \in ReadyIos, NEW s \in Seq(Timers),
         \A i, j \in DOMAIN s : i < j => s[i] # s[j]
  PROVE  LET q == Queue(ready, s)
             n == Len(ready)
             m == Len(s)
         IN  /\ n \in Nat /\ m \in Nat /\ Len(q) = n + m /\ DOMAIN q = 1..(n + m)
             /\ q \in Seq(Watchers)
             /\ \A i \in 1..n : q[i] \in Ios
             /\ \A i \in 1..m : q[n + i] = s[m - i + 1]
             /\ \A i, j \in 1..(n + m) : q[i] = q[j] => i = j
<1> DEFINE q == Queue(ready, s)
           n == Len(ready)
           m == Len(s)
           z == Reverse(s)
<1>1. /\ n \in Nat /\ ready \in Seq(Ios) /\ DOMAIN ready = 1..n
      /\ \A i, j \in 1..n : ready[i] = ready[j] => i = j
  BY DEF ReadyIos
<1>2. m \in Nat /\ DOMAIN s = 1..m /\ \A i \in 1..m : s[i] \in Timers
  OBVIOUS
<1>3. /\ z \in Seq(Timers) /\ Len(z) = m /\ DOMAIN z = 1..m
      /\ \A i \in 1..m : z[i] = s[m - i + 1]
  <2>1. z = [i \in 1..m |-> s[(m - i) + 1]]
    BY DEF Reverse
  <2>2. \A i \in 1..m : (m - i) + 1 \in 1..m
    BY <1>2
  <2>3. z \in [1..m -> Timers]
    BY <1>2, <2>1, <2>2
  <2> QED BY <1>2, <2>1, <2>3
<1>4. q = ready \o z
  BY DEF Queue, Fed, FedReverse
<1> HIDE DEF n, m, z, q
<1>5. /\ q \in Seq(Watchers) /\ Len(q) = n + m /\ DOMAIN q = 1..(n + m)
      /\ \A i \in 1..n : q[i] = ready[i]
      /\ \A i \in (n + 1)..(n + m) : q[i] = z[i - n]
  <2>1. ready \in Seq(Watchers) /\ z \in Seq(Watchers)
    BY <1>1, <1>3 DEF Watchers
  <2> QED BY <1>1, <1>2, <1>3, <1>4, <2>1 DEF n
<1>6. \A i \in 1..n : q[i] \in Ios
  BY <1>1, <1>5
<1>7. \A i \in 1..m : q[n + i] = s[m - i + 1]
  <2> SUFFICES ASSUME NEW i \in 1..m PROVE q[n + i] = s[m - i + 1]
    OBVIOUS
  <2>1. n + i \in (n + 1)..(n + m) /\ (n + i) - n = i
    BY <1>1, <1>2
  <2> QED BY <1>3, <1>5, <2>1
<1>8. ASSUME NEW i \in 1..(n + m), NEW j \in 1..(n + m), q[i] = q[j]
      PROVE  i = j
  <2>1. \A k \in (n + 1)..(n + m) :
          /\ k - n \in 1..m /\ m - (k - n) + 1 \in 1..m
          /\ q[k] = s[m - (k - n) + 1] /\ q[k] \in Timers
    BY <1>1, <1>2, <1>3, <1>5
  <2>2. CASE i \in 1..n /\ j \in 1..n
    BY <1>1, <1>5, <1>8, <2>2
  <2>3. CASE i \in (n + 1)..(n + m) /\ j \in (n + 1)..(n + m)
    <3> DEFINE a == m - (i - n) + 1
               b == m - (j - n) + 1
    <3>1. a \in 1..m /\ b \in 1..m /\ s[a] = s[b]
      BY <1>8, <2>1, <2>3
    <3>2. a = b
      <4> HIDE DEF a, b
      <4>1. a < b \/ b < a \/ a = b
        BY <1>2, <3>1
      <4> QED BY <1>2, <3>1, <4>1
    <3> QED BY <1>1, <1>2, <2>3, <3>2
  <2>4. i \in 1..n \/ i \in (n + 1)..(n + m)
    BY <1>1, <1>2
  <2>5. j \in 1..n \/ j \in (n + 1)..(n + m)
    BY <1>1, <1>2
  <2> QED BY <1>6, <1>8, <2>1, <2>2, <2>3, <2>4, <2>5, LibevAssumption
<1> QED BY <1>1, <1>2, <1>5, <1>6, <1>7, <1>8 DEF n, m, q

(* Fed once each, the watchers know their places.                           *)
LEMMA PlaceLinks ==
  ASSUME NEW q \in Seq(Watchers), \A i, j \in DOMAIN q : q[i] = q[j] => i = j
  PROVE  Linked(q, Place(q))
<1> DEFINE p == Place(q)
           n == Len(q)
<1>1. n \in Nat /\ DOMAIN q = 1..n /\ \A i \in 1..n : q[i] \in Watchers
  OBVIOUS
<1>2. \A w \in Watchers :
        p[w] = IF \E i \in 1..n : q[i] = w THEN CHOOSE i \in 1..n : q[i] = w ELSE 0
  BY <1>1 DEF Place
<1>3. \A w \in Watchers : /\ p[w] \in Nat
                          /\ p[w] # 0 => p[w] \in 1..n /\ q[p[w]] = w
                          /\ (\E i \in 1..n : q[i] = w) => p[w] \in 1..n /\ q[p[w]] = w
  <2> SUFFICES ASSUME NEW w \in Watchers
               PROVE  /\ p[w] \in Nat
                      /\ p[w] # 0 => p[w] \in 1..n /\ q[p[w]] = w
                      /\ (\E i \in 1..n : q[i] = w) => p[w] \in 1..n /\ q[p[w]] = w
    OBVIOUS
  <2>1. CASE \E i \in 1..n : q[i] = w
    <3> DEFINE k == CHOOSE i \in 1..n : q[i] = w
    <3>1. k \in 1..n /\ q[k] = w
      BY <2>1
    <3>2. p[w] = k
      BY <1>2, <2>1
    <3> HIDE DEF k, p
    <3> QED BY <1>1, <3>1, <3>2
  <2>2. CASE ~ \E i \in 1..n : q[i] = w
    BY <1>2, <2>2
  <2> QED BY <2>1, <2>2
<1>4. p \in [Watchers -> Nat]
  <2>1. p = [w \in Watchers |-> p[w]]
    BY DEF Place
  <2> HIDE DEF p
  <2> QED BY <1>3, <2>1
<1> HIDE DEF p, n
<1>5. \A i \in 1..n : p[q[i]] = i
  BY <1>1, <1>3
<1> QED BY <1>1, <1>3, <1>4, <1>5 DEF Linked, p

(* An iteration fills the queue again.                                      *)
LEMMA IterateKeeps ==
  ASSUME Inv, NEW d \in Waits, NEW ready \in ReadyIos, Iterate(d, ready)
  PROVE  Inv'
<1> DEFINE h == Passed(d)
           g == TimersReify(h).heap
           s == TimersReify(h).expired
           q == Queue(ready, s)
           n == Len(ready)
           m == Len(s)
<1>1. d \in Int /\ lag \in Int
  BY LongestDelay, LibevAssumption DEF Waits, Inv
<1>2. IsHeap(h)
  BY <1>1, PassedIsHeap DEF Inv
<1>3. heap' = g /\ pendings' = q /\ pending' = Place(q) /\ lag' = 0 /\ running' = Nobody
  BY DEF Iterate, Polling
<1> HIDE DEF h
<1>4. /\ IsHeap(g) /\ s \in Seq(Timers)
      /\ \A i, j \in DOMAIN s : i < j => s[i] # s[j]
  BY <1>2, TimersReifyTells
<1> HIDE DEF g, s
<1>5. /\ n \in Nat /\ m \in Nat /\ DOMAIN q = 1..(n + m) /\ q \in Seq(Watchers)
      /\ \A i \in 1..n : q[i] \in Ios
      /\ \A i \in 1..m : q[n + i] = s[m - i + 1]
      /\ \A i, j \in DOMAIN q : q[i] = q[j] => i = j
  BY <1>4, QueueIs
<1> HIDE DEF q, n
<1>6. Linked(q, Place(q))
  BY <1>5, PlaceLinks
<1>7. TimersLast(q)
  <2> SUFFICES ASSUME NEW i \in 1..(n + m), NEW j \in 1..(n + m), q[i] \in Timers, q[j] \in Ios
               PROVE  j < i
    BY <1>5 DEF TimersLast
  <2>1. i \notin 1..n
    BY <1>5, LibevAssumption
  <2>2. ASSUME j \notin 1..n PROVE FALSE
    <3> DEFINE k == j - n
    <3>1. k \in 1..m /\ n + k = j /\ m - k + 1 \in 1..m
      BY <1>5, <2>2
    <3> HIDE DEF k
    <3>2. q[j] = s[m - k + 1]
      BY <1>5, <3>1
    <3>3. s[m - k + 1] \in Timers
      BY <1>4, <3>1
    <3> QED BY <3>2, <3>3, LibevAssumption
  <2> QED BY <1>5, <2>1, <2>2
<1>8. TimersBeforeIo' /\ running' \in Watchers \cup {Nobody} /\ lag' \in 0..MaxLag
  BY <1>3, LibevAssumption DEF TimersBeforeIo, Watchers
<1> QED BY <1>3, <1>4, <1>6, <1>7, <1>8 DEF Inv

(* Nobody takes an entry over. *)
LEMMA ClearKeeps ==
  ASSUME NEW t \in Timers, Linked(pendings, pending), TimersLast(pendings),
         ClearPending(t)
  PROVE  /\ Linked(pendings', pending') /\ TimersLast(pendings')
         /\ \A w \in Watchers : pending[w] = 0 => pending'[w] = 0
<1>1. CASE pending[t] = 0
  BY <1>1 DEF ClearPending
<1>2. CASE pending[t] # 0
  <2> DEFINE k == pending[t]
             q == [pendings EXCEPT ![k] = Nobody]
             p == [pending EXCEPT ![t] = 0]
  <2>1. pendings' = q /\ pending' = p
    BY <1>2 DEF ClearPending
  <2>2. /\ pendings \in Seq(Watchers \cup {Nobody}) /\ pending \in [Watchers -> Nat]
        /\ k \in DOMAIN pendings /\ pendings[k] = t /\ t \in Watchers
    BY <1>2 DEF Linked, Watchers
  <2> HIDE DEF k
  <2>3. /\ q \in Seq(Watchers \cup {Nobody}) /\ DOMAIN q = DOMAIN pendings
        /\ \A i \in DOMAIN pendings : q[i] = IF i = k THEN Nobody ELSE pendings[i]
    BY <2>2
  <2>4. p \in [Watchers -> Nat] /\ \A w \in Watchers : p[w] = IF w = t THEN 0 ELSE pending[w]
    BY <2>2
  <2> HIDE DEF p, q
  <2>5. \A w \in Watchers : p[w] # 0 => p[w] \in DOMAIN q /\ q[p[w]] = w
    BY <2>2, <2>3, <2>4 DEF Linked
  <2>6. \A i \in DOMAIN q : q[i] # Nobody => p[q[i]] = i
    BY <2>2, <2>3, <2>4 DEF Linked
  <2>7. TimersLast(q)
    BY <2>3, LibevAssumption DEF TimersLast
  <2>8. \A w \in Watchers : pending[w] = 0 => p[w] = 0
    BY <2>4
  <2> QED BY <2>1, <2>3, <2>4, <2>5, <2>6, <2>7, <2>8 DEF Linked
<1> QED BY <1>1, <1>2

(* A timer is off the heap, the others stay.                                *)
LEMMA DisarmedKeeps ==
  ASSUME NEW t \in Timers, IsHeap(heap)
  PROVE  LET g == Disarmed(t)
         IN  /\ IsHeap(g) /\ g.at = heap.at
             /\ \A u \in Timers : g.active[u] = 0 <=> u = t \/ heap.active[u] = 0
<1>1. CASE heap.active[t] # 0
  BY <1>1, LeaveKeeps DEF Disarmed
<1>2. CASE heap.active[t] = 0
  BY <1>2 DEF Disarmed
<1> QED BY <1>1, <1>2

(* The callback sets a timer, armed, pending or neither.                    *)
LEMMA SetKeeps ==
  ASSUME Inv, NEW t \in Timers, NEW after \in Delays, SetTimer(t, after)
  PROVE  Inv'
<1> DEFINE g == Disarmed(t)
           e == Enter(g, t, after)
<1>1. IsHeap(g) /\ g.active[t] = 0
  BY DisarmedKeeps DEF Inv
<1> HIDE DEF g
<1>2. after \in Int
  BY LibevAssumption
<1>3. IsHeap(e)
  BY <1>1, <1>2, EnterKeeps
<1>4. heap' = e /\ running' = running /\ lag' = lag /\ FreezeGuard(t)
  BY DEF SetTimer, g
<1> HIDE DEF e
<1>5. /\ Linked(pendings', pending') /\ TimersLast(pendings')
      /\ \A w \in Watchers : pending[w] = 0 => pending'[w] = 0
  <2>1. CASE heap.active[t] # 0
    BY <1>4, <2>1, ClearKeeps DEF FreezeGuard, Inv
  <2>2. CASE heap.active[t] = 0
    BY <1>4, <2>2 DEF FreezeGuard, Inv
  <2> QED BY <2>1, <2>2
<1>6. TimersBeforeIo'
  BY <1>4, <1>5 DEF Inv, TimersBeforeIo, Watchers
<1> QED BY <1>3, <1>4, <1>5, <1>6 DEF Inv

(* The callback stops a timer.                                              *)
LEMMA StopKeeps ==
  ASSUME Inv, NEW t \in Timers, StopTimer(t)
  PROVE  Inv'
<1>1. heap' = Disarmed(t) /\ running' = running /\ lag' = lag /\ ClearPending(t)
  BY DEF StopTimer
<1>2. IsHeap(Disarmed(t))
  BY DisarmedKeeps DEF Inv
<1>3. /\ Linked(pendings', pending') /\ TimersLast(pendings')
      /\ \A w \in Watchers : pending[w] = 0 => pending'[w] = 0
  BY <1>1, ClearKeeps DEF Inv
<1>4. TimersBeforeIo'
  BY <1>1, <1>3 DEF Inv, TimersBeforeIo, Watchers
<1> QED BY <1>1, <1>2, <1>3, <1>4 DEF Inv

(* The queue without its end. *)
LEMMA FrontIs ==
  ASSUME NEW S, NEW q \in Seq(S), q # <<>>
  PROVE  LET n == Len(q)
         IN  /\ n \in Nat \ {0} /\ DOMAIN q = 1..n
             /\ Front(q) \in Seq(S) /\ Len(Front(q)) = n - 1 /\ DOMAIN Front(q) = 1..(n - 1)
             /\ \A i \in 1..(n - 1) : Front(q)[i] = q[i]
             /\ Last(q) = q[n] /\ Last(q) \in S
<1> DEFINE n == Len(q)
<1>1. n \in Nat \ {0} /\ DOMAIN q = 1..n /\ \A i \in 1..n : q[i] \in S
  OBVIOUS
<1>2. Front(q) = [i \in 1..(n - 1) |-> q[i]]
  BY <1>1 DEF Front
<1>3. Front(q) \in [1..(n - 1) -> S]
  BY <1>1, <1>2
<1>4. Front(q) \in Seq(S) /\ Len(Front(q)) = n - 1
  BY <1>1, <1>2, <1>3
<1> QED BY <1>1, <1>2, <1>4 DEF Last

(* The next callback is that of the queue's end.                            *)
LEMMA InvokeKeeps ==
  ASSUME Inv, Invoke
  PROVE  Inv'
<1> DEFINE n == Len(pendings)
           w == Last(pendings)
           q == Front(pendings)
           p == [v \in Watchers |-> IF v = w THEN 0 ELSE pending[v]]
<1>1. /\ heap' = heap /\ pendings' = q /\ running' = w /\ lag' = lag
      /\ pending' = p
  BY DEF Invoke
<1>2. /\ n \in Nat \ {0} /\ DOMAIN pendings = 1..n
      /\ q \in Seq(Watchers \cup {Nobody}) /\ DOMAIN q = 1..(n - 1)
      /\ \A i \in 1..(n - 1) : q[i] = pendings[i]
      /\ w = pendings[n] /\ w \in Watchers \cup {Nobody}
  BY FrontIs DEF Inv, Invoke, Linked
<1>3. /\ pending \in [Watchers -> Nat]
      /\ \A v \in Watchers : pending[v] # 0 => pending[v] \in 1..n /\ pendings[pending[v]] = v
      /\ \A i \in 1..n : pendings[i] # Nobody => pending[pendings[i]] = i
      /\ \A i \in 1..n : pendings[i] \in Watchers \cup {Nobody}
  BY <1>2 DEF Inv, Linked
<1>4. p \in [Watchers -> Nat] /\ \A v \in Watchers : p[v] = IF v = w THEN 0 ELSE pending[v]
  BY <1>3
<1> HIDE DEF n, w, q, p
<1>5. \A v \in Watchers : p[v] # 0 => p[v] \in 1..(n - 1) /\ q[p[v]] = v
  BY <1>2, <1>3, <1>4
<1>6. \A i \in 1..(n - 1) : q[i] # Nobody => p[q[i]] = i
  <2> SUFFICES ASSUME NEW i \in 1..(n - 1), q[i] # Nobody PROVE p[q[i]] = i
    OBVIOUS
  <2>1. i \in 1..n /\ i # n /\ q[i] = pendings[i] /\ q[i] \in Watchers
    BY <1>2, <1>3
  <2>2. pending[q[i]] = i
    BY <1>3, <2>1
  <2>3. q[i] # w
    BY <1>2, <1>3, <2>1, <2>2
  <2> QED BY <1>4, <2>1, <2>2, <2>3
<1>7. TimersLast(q)
  BY <1>2 DEF Inv, TimersLast
<1>8. ASSUME w \in Ios, NEW t \in Timers PROVE p[t] = 0
  <2> SUFFICES ASSUME p[t] # 0 PROVE FALSE
    OBVIOUS
  <2>1. t \in Watchers
    BY DEF Watchers
  <2>2. p[t] \in 1..(n - 1) /\ q[p[t]] = t
    BY <1>5, <2>1
  <2>3. pendings[p[t]] = t /\ p[t] \in 1..n
    BY <1>2, <2>2
  <2>4. n < p[t]
    BY <1>2, <1>8, <2>3 DEF Inv, TimersLast
  <2> QED BY <1>2, <2>2, <2>4
<1>9. TimersBeforeIo'
  BY <1>1, <1>8 DEF TimersBeforeIo
<1>10. Linked(q, p)
  BY <1>2, <1>4, <1>5, <1>6 DEF Linked
<1> QED BY <1>1, <1>2, <1>7, <1>9, <1>10 DEF Inv

(* Every step keeps the invariant.                                          *)
LEMMA InvStep == Inv /\ [Next]_vars => Inv'
<1> SUFFICES ASSUME Inv, [Next]_vars PROVE Inv'
  OBVIOUS
<1>1. CASE \E d \in Waits, ready \in ReadyIos : Iterate(d, ready)
  BY <1>1, IterateKeeps
<1>2. CASE Invoke
  BY <1>2, InvokeKeeps
<1>3. CASE Return
  <2>1. /\ heap' = heap /\ pendings' = pendings /\ pending' = pending /\ lag' = lag
        /\ running' = Nobody
    BY <1>3 DEF Return
  <2>2. TimersBeforeIo'
    BY <2>1, LibevAssumption DEF TimersBeforeIo
  <2> QED BY <2>1, <2>2 DEF Inv
<1>4. CASE Work
  BY <1>4, LibevAssumption DEF Work, Inv, TimersBeforeIo, Linked, TimersLast
<1>5. CASE \E t \in Stopped : StopTimer(t)
  BY <1>5, StopKeeps, LibevAssumption
<1>6. CASE \E t \in Timers, a \in Delays : SetTimer(t, a)
  BY <1>6, SetKeeps
<1>7. CASE UNCHANGED vars
  BY <1>7 DEF vars, Inv, TimersBeforeIo, Linked, TimersLast
<1> QED BY <1>1, <1>2, <1>3, <1>4, <1>5, <1>6, <1>7 DEF Next, Callback

(* It holds in every state of the loop.                                     *)
THEOREM InvHolds == Spec => []Inv
<1> QED BY InvInit, InvStep, PTL DEF Spec

(* ev_verify never aborts: every timer of the heap knows its slot and none  *)
(* expires before its parent, and queue and watchers point to each other.   *)
THEOREM LoopVerifies == Spec => []Verify
<1>1. Inv => Verify
  <2> SUFFICES ASSUME Inv PROVE Verify
    OBVIOUS
  <2>1. VerifyWatchers
    BY DEF Inv, Linked, VerifyWatchers
  <2>2. \A k \in DOMAIN heap.slots : k > 1 => At(heap, Parent(k)) <= At(heap, k)
    BY DEF Inv, IsHeap, Indexed, HeapType, Ordered
  <2> QED BY <2>1, <2>2 DEF Verify, VerifyHeap, Inv, IsHeap, Indexed
<1> QED BY <1>1, InvHolds, PTL

(* While an io callback of ev_invoke_pending runs, no timer waits in the    *)
(* queue to be called.                                                      *)
THEOREM TimersComeBeforeIo == Spec => []TimersBeforeIo
<1>1. Inv => TimersBeforeIo
  BY DEF Inv
<1> QED BY <1>1, InvHolds, PTL

--------------------------------------------------------------------------------
(* The order of calls. *)

(* Sequences with the same elements are the same.                           *)
LEMMA SameSeqs ==
  ASSUME NEW S, NEW s \in Seq(S), NEW z \in Seq(S), Len(s) = Len(z),
         \A i \in 1..Len(s) : s[i] = z[i]
  PROVE  s = z
OBVIOUS

(* A sequence with one more element before the first. *)
LEMMA BeforeIs ==
  ASSUME NEW S, NEW s \in Seq(S), NEW u \in S
  PROVE  LET z == <<u>> \o s
         IN  /\ z \in Seq(S) /\ Len(s) \in Nat /\ Len(z) = Len(s) + 1
             /\ DOMAIN s = 1..Len(s) /\ DOMAIN z = 1..(Len(s) + 1)
             /\ z # <<>> /\ Tail(z) = s
             /\ z[1] = u /\ \A i \in 1..Len(s) : z[i + 1] = s[i]
             /\ \A i \in 2..(Len(s) + 1) : z[i] = s[i - 1]
<1> DEFINE z == <<u>> \o s
           n == Len(s)
<1>1. n \in Nat /\ DOMAIN s = 1..n /\ \A i \in 1..n : s[i] \in S
  OBVIOUS
<1>2. /\ z \in Seq(S) /\ Len(z) = n + 1 /\ DOMAIN z = 1..(n + 1)
      /\ z[1] = u /\ \A i \in 2..(n + 1) : z[i] = s[i - 1]
  <2>1. <<u>> \in Seq(S) /\ Len(<<u>>) = 1 /\ <<u>>[1] = u
    OBVIOUS
  <2> QED BY <1>1, <2>1
<1> HIDE DEF n
<1>3. \A i \in 1..n : z[i + 1] = s[i]
  <2> SUFFICES ASSUME NEW i \in 1..n PROVE z[i + 1] = s[i]
    OBVIOUS
  <2>1. i + 1 \in 2..(n + 1) /\ (i + 1) - 1 = i
    BY <1>1
  <2> HIDE DEF z
  <2> QED BY <1>2, <2>1
<1>4. z # <<>>
  BY <1>1, <1>2
<1>5. Tail(z) = s
  <2> HIDE DEF z
  <2>1. Tail(z) \in Seq(S) /\ Len(Tail(z)) = Len(z) - 1
        /\ \A i \in 1..Len(Tail(z)) : Tail(z)[i] = z[i + 1]
    BY <1>2, <1>4, HeadTailProperties
  <2>2. Len(Tail(z)) = n
    BY <1>1, <1>2, <2>1
  <2>3. \A i \in 1..n : Tail(z)[i] = s[i]
    <3> SUFFICES ASSUME NEW i \in 1..n PROVE Tail(z)[i] = s[i]
      OBVIOUS
    <3>1. Tail(z)[i] = z[i + 1]
      BY <2>1, <2>2
    <3>2. z[i + 1] = s[i]
      BY <1>3
    <3> QED BY <3>1, <3>2
  <2>4. Tail(z) \in Seq(S)
    BY <2>1
  <2> QED BY <2>2, <2>3, <2>4, SameSeqs DEF n
<1> QED BY <1>1, <1>2, <1>3, <1>4, <1>5 DEF n

(* No element is twice in a sequence.                                       *)
Injective(s) == \A i, j \in DOMAIN s : s[i] = s[j] => i = j

(* A sequence without the element t. *)
Drop(s, t) == RemoveAt(s, CHOOSE i \in DOMAIN s : s[i] = t)

(* z is s without element k. *)
IsDrop(S, z, s, k) ==
  /\ z \in Seq(S) /\ Len(s) \in Nat \ {0} /\ Len(z) = Len(s) - 1
  /\ \A i \in 1..(Len(s) - 1) : z[i] = IF i < k THEN s[i] ELSE s[i + 1]

LEMMA DropIs ==
  ASSUME NEW S, NEW s \in Seq(S), Injective(s), NEW k \in 1..Len(s)
  PROVE  IsDrop(S, Drop(s, s[k]), s, k)
<1> DEFINE z == Drop(s, s[k])
           n == Len(s)
           a == SubSeq(s, 1, k - 1)
           b == SubSeq(s, k + 1, n)
<1>1. n \in Nat \ {0} /\ DOMAIN s = 1..n /\ (\A i \in 1..n : s[i] \in S) /\ k \in 1..n
  OBVIOUS
<1>2. (CHOOSE i \in DOMAIN s : s[i] = s[k]) = k
  <2>1. \A i \in DOMAIN s : s[i] = s[k] <=> i = k
    BY <1>1 DEF Injective
  <2> QED BY <1>1, <2>1
<1>3. z = a \o b
  BY <1>2 DEF Drop, RemoveAt
<1>4. /\ a \in Seq(S) /\ Len(a) = k - 1
      /\ \A i \in 1..(k - 1) : a[i] = s[i]
  BY <1>1
<1>5. /\ b \in Seq(S) /\ Len(b) = n - k
      /\ \A i \in 1..(n - k) : b[i] = s[k + i]
  <2>1. b = [i \in 1..(n - k) |-> s[k + i]]
    BY <1>1
  <2>2. \A i \in 1..(n - k) : k + i \in 1..n
    BY <1>1
  <2>3. b \in [1..(n - k) -> S]
    BY <1>1, <2>1, <2>2
  <2>4. n - k \in Nat
    BY <1>1
  <2> QED BY <2>1, <2>3, <2>4
<1> HIDE DEF z, n, a, b
<1>6. /\ z \in Seq(S) /\ Len(z) = n - 1
      /\ \A i \in 1..(n - 1) : z[i] = IF i <= k - 1 THEN a[i] ELSE b[i - (k - 1)]
  BY <1>1, <1>3, <1>4, <1>5
<1>7. \A i \in 1..(n - 1) : z[i] = IF i < k THEN s[i] ELSE s[i + 1]
  <2> SUFFICES ASSUME NEW i \in 1..(n - 1)
               PROVE  z[i] = IF i < k THEN s[i] ELSE s[i + 1]
    OBVIOUS
  <2>1. CASE i < k
    BY <1>1, <1>4, <1>6, <2>1
  <2>2. CASE ~ (i < k)
    <3> DEFINE j == i - (k - 1)
    <3>1. j \in 1..(n - k) /\ k + j = i + 1 /\ ~ (i <= k - 1)
      BY <1>1, <2>2
    <3>2. z[i] = b[j]
      BY <1>6, <3>1
    <3> HIDE DEF j
    <3> QED BY <1>5, <2>2, <3>1, <3>2
  <2> QED BY <2>1, <2>2
<1>8. z \in Seq(S) /\ Len(z) = n - 1
  BY <1>6
<1>9. Len(s) = n
  BY DEF n
<1>10. IsDrop(S, z, s, k)
  BY <1>1, <1>7, <1>8, <1>9 DEF IsDrop
<1> QED BY <1>10 DEF z

(* Without its first element a sequence is its rest.                        *)
LEMMA DropFirst ==
  ASSUME NEW S, NEW s \in Seq(S), NEW t \in S, Injective(<<t>> \o s)
  PROVE  Drop(<<t>> \o s, t) = s
<1> DEFINE z == <<t>> \o s
           d == Drop(z, t)
           n == Len(s)
<1>1. /\ z \in Seq(S) /\ n \in Nat /\ Len(z) = n + 1 /\ z[1] = t
      /\ \A i \in 1..n : z[i + 1] = s[i]
  BY BeforeIs
<1> HIDE DEF z, n
<1>2. /\ d \in Seq(S) /\ Len(d) = Len(z) - 1
      /\ \A i \in 1..(Len(z) - 1) : d[i] = IF i < 1 THEN z[i] ELSE z[i + 1]
  <2> DEFINE k == 1
  <2>1. k \in 1..Len(z) /\ z[k] = t /\ Injective(z)
    BY <1>1 DEF z
  <2> HIDE DEF k
  <2>2. IsDrop(S, Drop(z, z[k]), z, k)
    BY ONLY <1>1, <2>1, DropIs
  <2> QED BY <2>1, <2>2 DEF k, IsDrop
<1> HIDE DEF d
<1>3. Len(d) = n /\ \A i \in 1..n : d[i] = s[i]
  BY <1>1, <1>2
<1>4. d = s
  BY <1>2, <1>3, SameSeqs DEF n
<1> QED BY <1>4 DEF d, z

(* To take out a later element is to take it out of the rest.               *)
LEMMA DropLater ==
  ASSUME NEW S, NEW s \in Seq(S), NEW u \in S, NEW k \in 1..Len(s), Injective(<<u>> \o s)
  PROVE  Injective(s) /\ Drop(<<u>> \o s, s[k]) = <<u>> \o Drop(s, s[k])
<1> DEFINE z == <<u>> \o s
           t == s[k]
           d == Drop(s, t)
           e == <<u>> \o d
           c == Drop(z, t)
           n == Len(s)
           m == k + 1
<1>1. /\ z \in Seq(S) /\ n \in Nat /\ Len(z) = n + 1 /\ z[1] = u
      /\ DOMAIN s = 1..n /\ DOMAIN z = 1..(n + 1)
      /\ \A i \in 1..n : z[i + 1] = s[i]
      /\ \A i \in 2..(n + 1) : z[i] = s[i - 1]
  BY BeforeIs
<1>2. k \in 1..n /\ m \in 1..(n + 1) /\ n # 0 /\ m = k + 1
  BY <1>1
<1> HIDE DEF z, m, n
<1>3. z[m] = t
  BY <1>1, <1>2 DEF m
<1>4. Injective(z)
  BY DEF z
<1>5. Injective(s)
  <2> SUFFICES ASSUME NEW i \in 1..n, NEW j \in 1..n, s[i] = s[j] PROVE i = j
    BY <1>1 DEF Injective
  <2>1. z[i + 1] = z[j + 1] /\ i + 1 \in 1..(n + 1) /\ j + 1 \in 1..(n + 1)
    BY <1>1
  <2>2. i + 1 = j + 1
    BY <1>1, <1>4, <2>1 DEF Injective
  <2> QED BY <2>2
<1>6. /\ d \in Seq(S) /\ Len(d) = n - 1
      /\ \A i \in 1..(n - 1) : d[i] = IF i < k THEN s[i] ELSE s[i + 1]
  <2>1. k \in 1..Len(s)
    BY <1>2 DEF n
  <2>2. IsDrop(S, d, s, k)
    BY <1>5, <2>1, DropIs
  <2> QED BY <2>2 DEF IsDrop, n
<1>7. /\ c \in Seq(S) /\ Len(c) = n
      /\ \A i \in 1..n : c[i] = IF i < m THEN z[i] ELSE z[i + 1]
  <2>1. m \in 1..Len(z) /\ Len(z) - 1 = n
    BY <1>1, <1>2
  <2>2. IsDrop(S, Drop(z, z[m]), z, m)
    BY ONLY <1>1, <1>4, <2>1, DropIs
  <2>3. IsDrop(S, c, z, m)
    BY <1>3, <2>2
  <2> HIDE DEF c
  <2> QED BY <2>1, <2>3 DEF IsDrop
<1> HIDE DEF d, c
<1>8. /\ e \in Seq(S) /\ Len(e) = n /\ e[1] = u
      /\ \A i \in 2..n : e[i] = d[i - 1]
  <2>1. Len(d) + 1 = n
    BY <1>1, <1>6
  <2>2. /\ e \in Seq(S) /\ Len(e) = Len(d) + 1 /\ e[1] = u
        /\ \A i \in 2..(Len(d) + 1) : e[i] = d[i - 1]
    BY <1>6, BeforeIs
  <2> QED BY <2>1, <2>2
<1> HIDE DEF e
<1>9. \A i \in 1..n : c[i] = e[i]
  <2> SUFFICES ASSUME NEW i \in 1..n PROVE c[i] = e[i]
    OBVIOUS
  <2>1. CASE i = 1
    BY <1>1, <1>2, <1>7, <1>8, <2>1
  <2>2. CASE i # 1
    <3> DEFINE j == i - 1
    <3>1. j \in 1..(n - 1) /\ i = j + 1 /\ i \in 2..n /\ i \in 2..(n + 1) /\ i + 1 \in 2..(n + 1)
          /\ (i + 1) - 1 = j + 1 /\ (j < k <=> i < m)
      BY <1>1, <1>2, <2>2
    <3>2. e[i] = d[j] /\ z[i] = s[j] /\ z[i + 1] = s[j + 1]
      BY <1>1, <1>8, <3>1
    <3> HIDE DEF j
    <3> QED BY <1>6, <1>7, <3>1, <3>2
  <2> QED BY <2>1, <2>2
<1>10. c = e
  BY <1>7, <1>8, <1>9, SameSeqs
<1> QED BY <1>5, <1>10 DEF c, e, z, d

(* The recursion of Calls. *)
CallNext(w, s) == IF w \in Timers THEN <<w>> \o s ELSE s
Calling(q, f) ==
  /\ f[0] = <<>>
  /\ \A i \in 1..Len(q) :
       f[i] = IF q[i] \in Timers THEN <<q[i]>> \o f[i - 1] ELSE f[i - 1]

(* The recursion of Calls comes to an end.                                  *)
LEMMA CallsAre ==
  ASSUME NEW S, NEW q \in Seq(S)
  PROVE  \E f : Calling(q, f) /\ Calls(q) = f[Len(q)]
<1> DEFINE n == Len(q)
           Is(f, m) == f = [i \in 0..m |-> IF i = 0 THEN <<>> ELSE CallNext(q[i], f[i - 1])]
           N == {m \in Nat : \E f : Is(f, m)}
           c == CHOOSE f : Is(f, n)
<1>1. n \in Nat
  OBVIOUS
<1>2. 0 \in N
  <2> DEFINE f == [i \in 0..0 |-> <<>>]
  <2>1. Is(f, 0)
    OBVIOUS
  <2> HIDE DEF f, Is
  <2> QED BY <2>1
<1>3. ASSUME NEW m \in Nat, m \in N
      PROVE  m + 1 \in N
  <2>1. PICK f : Is(f, m)
    BY <1>3
  <2> DEFINE g == [i \in 0..(m + 1) |-> IF i = 0 THEN <<>> ELSE CallNext(q[i], f[i - 1])]
  <2>2. \A i \in 0..m : g[i] = f[i]
    BY <2>1
  <2>3. \A i \in 0..(m + 1) : i # 0 => i - 1 \in 0..m
    OBVIOUS
  <2>4. Is(g, m + 1)
    BY <2>2, <2>3
  <2> HIDE DEF g, Is
  <2> QED BY <2>4
<1>4. \E f : Is(f, n)
  <2> HIDE DEF Is, n
  <2> QED BY <1>1, <1>2, <1>3, Induction
<1>5. Calls(q) = c[n]
  BY Zenon DEF Calls, CallNext
<1>6. Is(c, n)
  <2> HIDE DEF Is
  <2> QED BY <1>4
<1>7. Calling(q, c)
  <2> HIDE DEF c, n
  <2>1. c[0] = <<>> /\ \A i \in 1..n : c[i] = CallNext(q[i], c[i - 1])
    BY <1>1, <1>6
  <2> QED BY <2>1 DEF Calling, CallNext, n
<1> HIDE DEF c
<1> QED BY <1>5, <1>7

(* The calls of the first k depend on these only. *)
LEMMA SameCalls ==
  ASSUME NEW S, NEW q \in Seq(S), NEW z \in Seq(S), NEW f, NEW g,
         Calling(q, f), Calling(z, g), NEW k \in Nat, k <= Len(q), k <= Len(z),
         \A i \in 1..k : q[i] = z[i]
  PROVE  f[k] = g[k]
<1> DEFINE N == {i \in Nat : i <= k => f[i] = g[i]}
<1>1. 0 \in N
  BY DEF Calling
<1>2. ASSUME NEW i \in Nat, i \in N
      PROVE  i + 1 \in N
  <2> SUFFICES ASSUME i + 1 <= k PROVE f[i + 1] = g[i + 1]
    OBVIOUS
  <2> DEFINE j == i + 1
  <2>1. j \in 1..k /\ j \in 1..Len(q) /\ j \in 1..Len(z) /\ f[j - 1] = g[j - 1]
    BY <1>2
  <2> HIDE DEF j
  <2>2. f[j] = g[j]
    BY <2>1 DEF Calling
  <2> QED BY <2>2 DEF j
<1>3. k \in N
  BY <1>1, <1>2, Induction
<1> QED BY <1>3

(* The next to be called is the queue's end.                                *)
LEMMA CallsOfFront ==
  ASSUME NEW S, NEW q \in Seq(S), q # <<>>
  PROVE  Calls(q) = IF Last(q) \in Timers THEN <<Last(q)>> \o Calls(Front(q))
                                          ELSE Calls(Front(q))
<1> DEFINE n == Len(q)
           z == Front(q)
           k == n - 1
<1>1. /\ n \in Nat \ {0} /\ z \in Seq(S) /\ Len(z) = k /\ k \in Nat
      /\ \A i \in 1..k : z[i] = q[i]
      /\ Last(q) = q[n]
  BY FrontIs
<1>2. PICK f : Calling(q, f) /\ Calls(q) = f[n]
  BY CallsAre
<1> HIDE DEF z
<1>3. PICK g : Calling(z, g) /\ Calls(z) = g[k]
  BY <1>1, CallsAre
<1>4. f[k] = g[k]
  <2>1. k <= Len(q) /\ k <= Len(z)
    BY <1>1
  <2> HIDE DEF n, k
  <2>2. \A i \in 1..k : q[i] = z[i]
    BY <1>1
  <2> QED BY ONLY <1>1, <1>2, <1>3, <2>1, <2>2, q \in Seq(S), SameCalls
<1>5. f[n] = IF q[n] \in Timers THEN <<q[n]>> \o f[n - 1] ELSE f[n - 1]
  BY <1>1, <1>2 DEF Calling
<1> QED BY <1>1, <1>2, <1>3, <1>4, <1>5 DEF z

(* What is called of an iteration's queue: the timers, as they expired.     *)
LEMMA CallsOfQueue ==
  ASSUME NEW ready \in ReadyIos, NEW s \in Seq(Timers),
         \A i, j \in DOMAIN s : i < j => s[i] # s[j]
  PROVE  Calls(Queue(ready, s)) = s
<1> DEFINE q == Queue(ready, s)
           n == Len(ready)
           m == Len(s)
<1>1. /\ n \in Nat /\ m \in Nat /\ Len(q) = n + m /\ q \in Seq(Watchers)
      /\ \A i \in 1..n : q[i] \in Ios
      /\ \A i \in 1..m : q[n + i] = s[m - i + 1]
  BY QueueIs
<1> HIDE DEF q, n
<1>2. PICK f : Calling(q, f) /\ Calls(q) = f[n + m]
  BY <1>1, CallsAre
<1>3. f[n] = <<>>
  <2> DEFINE N == {i \in Nat : i <= n => f[i] = <<>>}
  <2>1. 0 \in N
    BY <1>2 DEF Calling
  <2>2. ASSUME NEW i \in Nat, i \in N
        PROVE  i + 1 \in N
    <3> SUFFICES ASSUME i + 1 <= n PROVE f[i + 1] = <<>>
      OBVIOUS
    <3> DEFINE j == i + 1
    <3>1. j \in 1..n /\ j \in 1..Len(q) /\ f[j - 1] = <<>>
      BY <1>1, <2>2
    <3> HIDE DEF j
    <3>2. f[j] = <<>>
      BY <1>1, <1>2, <3>1, LibevAssumption DEF Calling
    <3> QED BY <3>2 DEF j
  <2>3. n \in N
    BY <1>1, <2>1, <2>2, Induction
  <2> QED BY <2>3
<1> DEFINE N == {i \in Nat : i <= m => f[n + i] = SubSeq(s, m - i + 1, m)}
<1>4. 0 \in N
  <2>1. SubSeq(s, m - 0 + 1, m) = <<>> /\ n + 0 = n
    BY <1>1
  <2> QED BY <1>3, <2>1
<1>5. ASSUME NEW i \in Nat, i \in N
      PROVE  i + 1 \in N
  <2> SUFFICES ASSUME i + 1 <= m
               PROVE  f[n + (i + 1)] = SubSeq(s, m - (i + 1) + 1, m)
    OBVIOUS
  <2> DEFINE j == n + (i + 1)
             b == m - i
             a == SubSeq(s, b + 1, m)
             c == SubSeq(s, b, m)
             u == s[b]
  <2>1. /\ j \in 1..Len(q) /\ j - 1 = n + i /\ i + 1 \in 1..m
        /\ m - (i + 1) + 1 = b /\ m - i + 1 = b + 1 /\ b \in 1..m /\ b \in Nat /\ b <= m
    BY <1>1, <1>5
  <2>2. q[j] = u
    BY <1>1, <2>1
  <2>3. u \in Timers
    BY <2>1
  <2>4. f[j - 1] = a
    BY <1>5, <2>1
  <2> HIDE DEF j, b
  <2>5. f[j] = <<u>> \o a
    BY <1>2, <2>1, <2>2, <2>3, <2>4 DEF Calling
  <2>6. <<u>> \o a = c
    <3>1. b \in 1..Len(s) /\ m \in b..Len(s)
      BY <1>1, <2>1
    <3> HIDE DEF m
    <3> QED BY <3>1, SubSeqRecursiveFirst
  <2> QED BY <2>1, <2>5, <2>6 DEF j
<1>6. m \in N
  <2> HIDE DEF N, m
  <2> QED BY <1>1, <1>4, <1>5, Induction
<1>7. SubSeq(s, m - m + 1, m) = s
  BY <1>1
<1> QED BY <1>1, <1>2, <1>6, <1>7 DEF q

(* No timer is twice in the queue. *)
TimersOnce(q) == \A i, j \in DOMAIN q : q[i] \in Timers /\ q[i] = q[j] => i = j

(* s has the timers of the first k entries of the queue, once each.         *)
CallsOf(q, k, s) ==
  /\ s \in Seq(Timers) /\ Injective(s)
  /\ \A t \in Timers : (\E i \in DOMAIN s : s[i] = t) <=> \E j \in 1..k : q[j] = t

(* Every timer in the queue is called.                                      *)
LEMMA CallsMembers ==
  ASSUME NEW S, NEW q \in Seq(S), TimersOnce(q), NEW f, Calling(q, f), NEW k \in 0..Len(q)
  PROVE  CallsOf(q, k, f[k])
<1> DEFINE n == Len(q)
           N == {i \in Nat : i <= n => CallsOf(q, i, f[i])}
<1>1. n \in Nat /\ DOMAIN q = 1..n /\ 1..0 = {}
  OBVIOUS
<1>2. 0 \in N
  <2>1. CallsOf(q, 0, <<>>)
    BY <1>1 DEF CallsOf, Injective
  <2> QED BY <2>1 DEF Calling
<1>3. ASSUME NEW i \in Nat, i \in N
      PROVE  i + 1 \in N
  <2> SUFFICES ASSUME i + 1 <= n PROVE CallsOf(q, i + 1, f[i + 1])
    OBVIOUS
  <2> DEFINE j == i + 1
             s == f[i]
             u == q[j]
             z == <<u>> \o s
  <2>1. j \in 1..n /\ j - 1 = i /\ CallsOf(q, i, s)
    BY <1>1, <1>3
  <2> HIDE DEF s
  <2>2. f[j] = IF u \in Timers THEN z ELSE s
    <3> HIDE DEF j
    <3> QED BY <2>1 DEF Calling, s
  <2>3. /\ 1..j = 1..i \cup {j} /\ 1..i \subseteq 1..n /\ j \notin 1..i
    BY <1>1, <2>1
  <2> HIDE DEF n, j, N
  <2>4. CASE u \in Timers
    <3> DEFINE l == Len(s)
    <3>1. /\ z \in Seq(Timers) /\ l \in Nat /\ z[1] = u
          /\ DOMAIN s = 1..l /\ DOMAIN z = 1..(l + 1)
          /\ \A m \in 1..l : z[m + 1] = s[m]
          /\ \A m \in 2..(l + 1) : z[m] = s[m - 1]
      BY <2>1, <2>4, BeforeIs DEF CallsOf
    <3> HIDE DEF z, l
    <3>2. \A m \in 1..l : s[m] \in Timers /\ s[m] # u
      <4> SUFFICES ASSUME NEW m \in 1..l, s[m] = u PROVE FALSE
        BY <2>1, <3>1 DEF CallsOf
      <4>1. PICK b \in 1..i : q[b] = u
        BY <2>1, <2>4, <3>1 DEF CallsOf
      <4> QED BY <1>1, <2>1, <2>3, <2>4, <4>1 DEF TimersOnce
    <3>3. \A m \in 2..(l + 1) : m - 1 \in 1..l /\ z[m] # u
      BY <3>1, <3>2
    <3>4. Injective(z)
      <4> SUFFICES ASSUME NEW a \in 1..(l + 1), NEW b \in 1..(l + 1), z[a] = z[b]
                   PROVE  a = b
        BY <3>1 DEF Injective
      <4>1. CASE a = 1 \/ b = 1
        BY <3>1, <3>3, <4>1
      <4>2. CASE a # 1 /\ b # 1
        <5>1. a \in 2..(l + 1) /\ b \in 2..(l + 1)
          BY <3>1, <4>2
        <5>2. a - 1 = b - 1
          <6>1. /\ a - 1 \in DOMAIN s /\ b - 1 \in DOMAIN s
                /\ s[a - 1] = z[a] /\ s[b - 1] = z[b]
            BY <3>1, <3>3, <5>1
          <6>2. Injective(s)
            BY <2>1 DEF CallsOf
          <6>3. s[a - 1] = s[b - 1]
            BY <6>1
          <6> HIDE DEF z
          <6> QED BY <6>1, <6>2, <6>3 DEF Injective
        <5> QED BY <5>2
      <4> QED BY <4>1, <4>2
    <3>5. ASSUME NEW t \in Timers
          PROVE  (\E m \in 1..(l + 1) : z[m] = t) <=> \E b \in 1..j : q[b] = t
      <4>1. (\E m \in 1..(l + 1) : z[m] = t) <=> t = u \/ \E m \in 1..l : s[m] = t
        <5>1. ASSUME NEW m \in 1..l, s[m] = t
              PROVE  \E b \in 1..(l + 1) : z[b] = t
          <6>1. m + 1 \in 1..(l + 1) /\ z[m + 1] = t
            BY <3>1, <5>1
          <6> QED BY <6>1
        <5>2. 1 \in 1..(l + 1)
          BY <3>1
        <5>3. ASSUME NEW m \in 1..(l + 1), z[m] = t, t # u
              PROVE  \E b \in 1..l : s[b] = t
          <6>1. m \in 2..(l + 1)
            BY <3>1, <5>3
          <6> QED BY <3>1, <3>3, <5>3, <6>1
        <5> QED BY <3>1, <5>1, <5>2, <5>3
      <4>2. (\E m \in 1..l : s[m] = t) <=> \E b \in 1..i : q[b] = t
        BY <2>1, <3>1 DEF CallsOf
      <4> QED BY <2>3, <4>1, <4>2
    <3>6. CallsOf(q, j, z)
      BY <3>1, <3>4, <3>5 DEF CallsOf
    <3> QED BY <2>2, <2>4, <3>6 DEF j, z
  <2>5. CASE u \notin Timers
    <3>1. CallsOf(q, j, s)
      BY <2>1, <2>3, <2>5 DEF CallsOf
    <3> QED BY <2>2, <2>5, <3>1 DEF j
  <2> QED BY <2>4, <2>5
<1>4. k \in N
  <2> HIDE DEF N
  <2> QED BY <1>1, <1>2, <1>3, Induction
<1> QED BY <1>4

(* A timer whose entry is cleared is not called, and the others are as before. *)
LEMMA CallsOfCleared ==
  ASSUME NEW q \in Seq(Watchers \cup {Nobody}), TimersOnce(q), NEW k \in DOMAIN q,
         q[k] \in Timers
  PROVE  Calls([q EXCEPT ![k] = Nobody]) = Drop(Calls(q), q[k])
<1> DEFINE n == Len(q)
           z == [q EXCEPT ![k] = Nobody]
           t == q[k]
           S == Watchers \cup {Nobody}
<1>1. /\ n \in Nat /\ DOMAIN q = 1..n /\ k \in 1..n
      /\ z \in Seq(S) /\ Len(z) = n /\ z[k] = Nobody
      /\ \A i \in 1..n : i # k => z[i] = q[i]
  OBVIOUS
<1> HIDE DEF z, S
<1>2. PICK f : Calling(q, f) /\ Calls(q) = f[n]
  BY CallsAre
<1>3. PICK g : Calling(z, g) /\ Calls(z) = g[n]
  BY <1>1, CallsAre
<1> HIDE DEF n
<1>4. \A i \in 0..n : CallsOf(q, i, f[i])
  BY <1>2, CallsMembers DEF n
<1>5. /\ \A i \in 1..n : f[i] = IF q[i] \in Timers THEN <<q[i]>> \o f[i - 1] ELSE f[i - 1]
      /\ \A i \in 1..n : g[i] = IF z[i] \in Timers THEN <<z[i]>> \o g[i - 1] ELSE g[i - 1]
  BY <1>1, <1>2, <1>3 DEF Calling, n
<1>6. g[k - 1] = f[k - 1]
  <2> DEFINE l == k - 1
  <2>1. l \in Nat /\ l <= Len(q) /\ l <= Len(z) /\ \A i \in 1..l : q[i] = z[i]
    BY <1>1 DEF n
  <2>2. q \in Seq(S)
    BY DEF S
  <2> HIDE DEF l, z
  <2>3. f[l] = g[l]
    BY ONLY <1>1, <1>2, <1>3, <2>1, <2>2, SameCalls
  <2> QED BY <2>3 DEF l
<1> DEFINE N == {m \in Nat : k + m <= n => g[k + m] = Drop(f[k + m], t)}
<1>7. 0 \in N
  <2>1. g[k] = f[k - 1]
    BY <1>1, <1>5, <1>6, LibevAssumption DEF Watchers
  <2> DEFINE s == f[k - 1]
  <2>2. f[k] = <<t>> \o s
    BY <1>1, <1>5
  <2>3. s \in Seq(Timers) /\ Injective(f[k])
    <3>1. k - 1 \in 0..n /\ k \in 0..n
      BY <1>1
    <3> QED BY <1>4, <3>1 DEF CallsOf
  <2> HIDE DEF s
  <2>4. Drop(f[k], t) = s
    BY <2>2, <2>3, DropFirst
  <2>5. k + 0 = k
    BY <1>1
  <2> QED BY <2>1, <2>4, <2>5 DEF s
<1>8. ASSUME NEW m \in Nat, m \in N
      PROVE  m + 1 \in N
  <2> SUFFICES ASSUME k + (m + 1) <= n
               PROVE  g[k + (m + 1)] = Drop(f[k + (m + 1)], t)
    OBVIOUS
  <2> DEFINE i == k + m
             j == k + (m + 1)
             s == f[i]
             u == q[j]
  <2>1. /\ i \in 0..n /\ j \in 1..n /\ j - 1 = i /\ j # k /\ g[i] = Drop(s, t) /\ k \in 1..i
        /\ j \in 0..n
    BY <1>1, <1>8
  <2>2. CallsOf(q, i, s) /\ CallsOf(q, j, f[j])
    BY <1>4, <2>1
  <2> HIDE DEF i, j, s
  <2>3. /\ f[j] = IF u \in Timers THEN <<u>> \o s ELSE s
        /\ g[j] = IF u \in Timers THEN <<u>> \o Drop(s, t) ELSE Drop(s, t)
    BY <1>1, <1>5, <2>1 DEF s
  <2>4. CASE u \in Timers
    <3>1. PICK b \in DOMAIN s : s[b] = t
      BY <2>1, <2>2 DEF CallsOf
    <3>2. s \in Seq(Timers) /\ b \in 1..Len(s) /\ Injective(<<u>> \o s)
      BY <2>2, <2>3, <2>4, <3>1 DEF CallsOf
    <3>3. Drop(<<u>> \o s, s[b]) = <<u>> \o Drop(s, s[b])
      BY <2>4, <3>2, DropLater
    <3> QED BY <2>3, <2>4, <3>1, <3>3 DEF j
  <2>5. CASE u \notin Timers
    BY <2>3, <2>5 DEF j
  <2> QED BY <2>4, <2>5
<1>9. n - k \in N
  <2>1. n - k \in Nat
    BY <1>1
  <2> HIDE DEF N
  <2> QED BY <1>7, <1>8, <2>1, Induction
<1>10. k + (n - k) = n
  BY <1>1
<1> QED BY <1>1, <1>2, <1>3, <1>9, <1>10 DEF z

--------------------------------------------------------------------------------
(* The promise. *)

(* A watcher with a place has one.                                          *)
LEMMA LinkedOnce ==
  ASSUME NEW q, NEW place, Linked(q, place)
  PROVE  TimersOnce(q)
BY LibevAssumption DEF Linked, TimersOnce

(* The timers due are those that are pending. *)
LEMMA DueIsPending ==
  ASSUME Inv
  PROVE  /\ Calls(pendings) \in Seq(Timers)
         /\ \A t \in Timers : t \in Promise!DueTimers <=> pending[t] # 0
<1> DEFINE n == Len(pendings)
           S == Watchers \cup {Nobody}
<1>1. /\ pendings \in Seq(S) /\ n \in Nat /\ DOMAIN pendings = 1..n /\ n \in 0..n
      /\ TimersOnce(pendings)
  BY LinkedOnce DEF Inv, Linked
<1> HIDE DEF S
<1>2. PICK f : Calling(pendings, f) /\ Calls(pendings) = f[n]
  BY <1>1, CallsAre
<1>3. CallsOf(pendings, n, Calls(pendings))
  BY <1>1, <1>2, CallsMembers
<1>4. \A t \in Timers : t \in Promise!DueTimers <=> \E j \in 1..n : pendings[j] = t
  BY <1>3 DEF CallsOf, Promise!DueTimers
<1> HIDE DEF n
<1>5. \A t \in Timers : (\E j \in 1..n : pendings[j] = t) <=> pending[t] # 0
  BY <1>1, LibevAssumption DEF Inv, Linked, Watchers
<1> QED BY <1>3, <1>4, <1>5 DEF CallsOf

(* clear_pending takes the timer from those that are due.                   *)
LEMMA ClearDrops ==
  ASSUME Inv, NEW t \in Timers, ClearPending(t)
  PROVE  Calls(pendings') = Promise!Dropped(t)
<1>1. CASE pending[t] = 0
  <2>1. pendings' = pendings
    BY <1>1 DEF ClearPending
  <2>2. t \notin Promise!DueTimers
    BY <1>1, DueIsPending
  <2> QED BY <2>1, <2>2 DEF Promise!Dropped
<1>2. CASE pending[t] # 0
  <2> DEFINE k == pending[t]
  <2>1. /\ pendings' = [pendings EXCEPT ![k] = Nobody]
        /\ k \in DOMAIN pendings /\ pendings[k] = t
        /\ pendings \in Seq(Watchers \cup {Nobody})
    BY <1>2 DEF ClearPending, Inv, Linked, Watchers
  <2>2. TimersOnce(pendings)
    BY LinkedOnce DEF Inv
  <2> HIDE DEF k
  <2>3. Calls(pendings') = Drop(Calls(pendings), t)
    BY <2>1, <2>2, CallsOfCleared
  <2>4. t \in Promise!DueTimers
    BY <1>2, DueIsPending
  <2> QED BY <2>3, <2>4 DEF Promise!Dropped, Drop, RemoveAt, Promise!RemoveAt
<1> QED BY <1>1, <1>2

(* A timer that is set is started.                                          *)
LEMMA SetStarts ==
  ASSUME Inv, NEW t \in Timers, NEW after \in Delays, SetTimer(t, after)
  PROVE  Promise!Start(t, after)
<1> DEFINE g == Disarmed(t)
           e == Enter(g, t, after)
           armed == {u \in Timers : heap.active[u] # 0}
           left == [u \in armed |-> heap.at[u]]
<1>1. /\ IsHeap(g) /\ g.at = heap.at
      /\ \A u \in Timers : g.active[u] = 0 <=> u = t \/ heap.active[u] = 0
  BY DisarmedKeeps DEF Inv
<1> HIDE DEF g
<1>2. /\ e.at = [g.at EXCEPT ![t] = after]
      /\ \A u \in Timers : e.active[u] = 0 <=> u # t /\ g.active[u] = 0
  BY <1>1, LibevAssumption, EnterKeeps
<1>3. heap' = e
  BY DEF SetTimer, g
<1> HIDE DEF e
<1>4. heap.at \in [Timers -> Int]
  BY DEF Inv, IsHeap, Indexed, HeapType
<1>5. {u \in Timers : heap'.active[u] # 0} = armed \cup {t}
  BY <1>1, <1>2, <1>3
<1>6. [u \in {v \in Timers : heap'.active[v] # 0} |-> heap'.at[u]] =
        [u \in armed \cup {t} |-> IF u = t THEN after ELSE left[u]]
  <2>1. \A u \in armed \cup {t} :
          heap'.at[u] = IF u = t THEN after ELSE left[u]
    BY <1>1, <1>2, <1>3, <1>4
  <2> QED BY <1>5, <2>1
<1>7. Calls(pendings') = IF t \in armed THEN Promise!Dropped(t) ELSE Calls(pendings)
  <2>1. CASE t \in armed
    BY <2>1, ClearDrops DEF SetTimer, FreezeGuard
  <2>2. CASE t \notin armed
    BY <2>2 DEF SetTimer, FreezeGuard
  <2> QED BY <2>1, <2>2
<1>8. Promise!Armed = armed
  BY DEF Promise!Armed
<1> QED BY <1>6, <1>7, <1>8 DEF Promise!Start

(* A timer that is stopped is neither armed nor due.                        *)
LEMMA StopStops ==
  ASSUME Inv, NEW t \in Timers, StopTimer(t)
  PROVE  Promise!Stop(t)
<1> DEFINE g == Disarmed(t)
           armed == {u \in Timers : heap.active[u] # 0}
           left == [u \in armed |-> heap.at[u]]
<1>1. /\ g.at = heap.at
      /\ \A u \in Timers : g.active[u] = 0 <=> u = t \/ heap.active[u] = 0
  BY DisarmedKeeps DEF Inv
<1>2. heap' = g /\ ClearPending(t)
  BY DEF StopTimer
<1> HIDE DEF g
<1>3. {u \in Timers : heap'.active[u] # 0} = armed \ {t}
  BY <1>1, <1>2
<1>4. [u \in {v \in Timers : heap'.active[v] # 0} |-> heap'.at[u]] =
        [u \in armed \ {t} |-> left[u]]
  BY <1>1, <1>2, <1>3
<1>5. Promise!Armed = armed
  BY DEF Promise!Armed
<1> QED BY <1>2, <1>4, <1>5, ClearDrops DEF Promise!Stop

(* The promise's step of time. *)
ExpireOf(left, rest, due, called, p) ==
  LET expired == {t \in DOMAIN left : left[t] < p}
  IN  /\ due = <<>>
      /\ rest = [t \in DOMAIN left \ expired |-> left[t] - p]
      /\ DOMAIN called = 1..Len(called) /\ {called[i] : i \in DOMAIN called} = expired
      /\ \A i, j \in DOMAIN called :
           i < j => called[i] # called[j] /\ left[called[i]] <= left[called[j]]

(* An iteration makes due what has expired, first what expired first.       *)
LEMMA IterateExpires ==
  ASSUME Inv, NEW d \in Waits, NEW ready \in ReadyIos, Iterate(d, ready)
  PROVE  \E p \in 0..(Max(Delays) + MaxLate + MaxLag) : Promise!Expire(p)
<1>15. /\ d \in Int /\ lag \in Int
       /\ lag + d \in 0..(Max(Delays) + MaxLate + MaxLag)
       /\ heap.at \in [Timers -> Int]
  BY LongestDelay, LibevAssumption DEF Waits, Inv, IsHeap, Indexed, HeapType
<1>16. PICK p \in 0..(Max(Delays) + MaxLate + MaxLag) : p = lag + d
  BY <1>15
<1> DEFINE h == Passed(d)
           g == TimersReify(h).heap
           s == TimersReify(h).expired
           armed == {u \in Timers : heap.active[u] # 0}
           left == [u \in armed |-> heap.at[u]]
           expired == {t \in armed : left[t] < p}
<1>1. /\ d \in Int /\ lag \in Int /\ p \in Int /\ p = lag + d
      /\ heap.at \in [Timers -> Int]
  BY <1>15, <1>16
<1>2. /\ IsHeap(h) /\ h.active = heap.active /\ h.at \in [Timers -> Int]
      /\ \A t \in Timers : heap.active[t] # 0 => h.at[t] = heap.at[t] - lag - d
  BY <1>1, PassedIsHeap DEF Inv, IsHeap, Indexed, HeapType
<1>3. heap' = g /\ pendings' = Queue(ready, s) /\ pendings = <<>>
  BY DEF Iterate, Polling
<1> HIDE DEF h
<1>4. /\ g.at = h.at /\ s \in Seq(Timers)
      /\ \A t \in Timers : g.active[t] # 0 <=> h.active[t] # 0 /\ h.at[t] >= 0
      /\ \A t \in Timers : (\E i \in DOMAIN s : s[i] = t) <=> h.active[t] # 0 /\ h.at[t] < 0
      /\ \A i, j \in DOMAIN s : i < j => s[i] # s[j] /\ h.at[s[i]] <= h.at[s[j]]
  BY <1>2, TimersReifyTells
<1> HIDE DEF g, s
<1>5. Calls(pendings') = s
  BY <1>3, <1>4, CallsOfQueue
<1>6. Calls(pendings) = <<>>
  <2>1. <<>> \in Seq(Timers) /\ Len(<<>>) = 0
    OBVIOUS
  <2>2. PICK f : Calling(<<>>, f) /\ Calls(<<>>) = f[0]
    BY <2>1, CallsAre
  <2> QED BY <1>3, <2>2 DEF Calling
<1>7. \A t \in armed : h.at[t] = left[t] - p /\ (h.at[t] >= 0 <=> ~ (left[t] < p))
                       /\ (h.at[t] < 0 <=> left[t] < p)
  <2> SUFFICES ASSUME NEW t \in armed
               PROVE  /\ h.at[t] = left[t] - p /\ (h.at[t] >= 0 <=> ~ (left[t] < p))
                      /\ (h.at[t] < 0 <=> left[t] < p)
    OBVIOUS
  <2>1. heap.at[t] \in Int /\ left[t] = heap.at[t] /\ h.at[t] = heap.at[t] - lag - d
    BY <1>1, <1>2
  <2> QED BY <1>1, <2>1
<1>14. \A t \in Timers : /\ g.active[t] # 0 <=> t \in armed \ expired
                         /\ (\E i \in DOMAIN s : s[i] = t) <=> t \in expired
  <2> SUFFICES ASSUME NEW t \in Timers
               PROVE  /\ g.active[t] # 0 <=> t \in armed \ expired
                      /\ (\E i \in DOMAIN s : s[i] = t) <=> t \in expired
    OBVIOUS
  <2>1. t \in armed <=> h.active[t] # 0
    BY <1>2
  <2> HIDE DEF left
  <2> QED BY <1>4, <1>7, <2>1
<1> HIDE DEF left
<1>8. {u \in Timers : heap'.active[u] # 0} = armed \ expired
  BY <1>3, <1>14
<1>9. [u \in {v \in Timers : heap'.active[v] # 0} |-> heap'.at[u]] =
        [t \in armed \ expired |-> left[t] - p]
  <2> HIDE DEF armed, expired
  <2>1. \A t \in armed \ expired : heap'.at[t] = left[t] - p
    BY <1>3, <1>4, <1>7
  <2> QED BY <1>8, <2>1
<1>10. {s[i] : i \in DOMAIN s} = expired
  <2>1. \A i \in DOMAIN s : s[i] \in Timers
    BY <1>4
  <2> QED BY <1>14, <2>1
<1>11. \A i, j \in DOMAIN s : i < j => s[i] # s[j] /\ left[s[i]] <= left[s[j]]
  <2> SUFFICES ASSUME NEW i \in DOMAIN s, NEW j \in DOMAIN s, i < j
               PROVE  s[i] # s[j] /\ left[s[i]] <= left[s[j]]
    OBVIOUS
  <2>1. s[i] \in armed /\ s[j] \in armed
    BY <1>10
  <2>2. left[s[i]] \in Int /\ left[s[j]] \in Int
    BY <1>1, <2>1 DEF left
  <2>3. h.at[s[i]] <= h.at[s[j]] /\ s[i] # s[j]
    BY <1>4
  <2>4. h.at[s[i]] = left[s[i]] - p /\ h.at[s[j]] = left[s[j]] - p
    BY <1>7, <2>1
  <2> QED BY <1>1, <2>2, <2>3, <2>4
<1>12. DOMAIN s = 1..Len(s)
  BY <1>4
<1>13. Promise!Expire(p)
  <2> DEFINE rest == [u \in {v \in Timers : heap'.active[v] # 0} |-> heap'.at[u]]
             called == Calls(pendings')
  <2>1. DOMAIN left = armed
    BY DEF left
  <2>2. ExpireOf(left, rest, Calls(pendings), called, p)
    <3> HIDE DEF rest, called, armed
    <3>1. rest = [t \in armed \ expired |-> left[t] - p] /\ called = s
      BY <1>5, <1>9 DEF rest, called, armed
    <3> QED BY <1>6, <1>10, <1>11, <1>12, <2>1, <3>1, Zenon DEF ExpireOf
  <2> QED BY <2>1, <2>2, Zenon DEF ExpireOf, left, Promise!Expire,
          Promise!Armed, Promise!DueTimers
<1> QED BY <1>13

(* ev_invoke_pending calls the timer that is due first; an io watcher, or   *)
(* nobody, is a stutter.                                                    *)
LEMMA InvokeCalls ==
  ASSUME Inv, Invoke
  PROVE  Promise!Call \/ UNCHANGED Promise!vars
<1> DEFINE w == Last(pendings)
           q == Front(pendings)
           S == Watchers \cup {Nobody}
<1>1. heap' = heap /\ pendings' = q /\ pendings \in Seq(S) /\ pendings # <<>>
  BY DEF Invoke, Inv, Linked
<1> HIDE DEF S
<1>2. Calls(pendings) = IF w \in Timers THEN <<w>> \o Calls(q) ELSE Calls(q)
  BY <1>1, CallsOfFront
<1>3. q \in Seq(S)
  BY <1>1, FrontIs
<1>4. CASE w \in Timers
  <2> DEFINE s == Calls(q)
  <2>1. s \in Seq(Timers)
    <3>1. Linked(q, pending')
      BY <1>1, InvokeKeeps DEF Inv
    <3>2. TimersOnce(q)
      BY <3>1, LinkedOnce
    <3>3. PICK f : Calling(q, f) /\ Calls(q) = f[Len(q)]
      BY <1>3, CallsAre
    <3>4. Len(q) \in 0..Len(q)
      BY <1>3
    <3> HIDE DEF q
    <3>5. CallsOf(q, Len(q), f[Len(q)])
      BY <1>3, <3>2, <3>3, <3>4, CallsMembers
    <3> QED BY <3>3, <3>5 DEF CallsOf
  <2> HIDE DEF s, w
  <2>2. <<w>> \o s # <<>> /\ Tail(<<w>> \o s) = s
    BY <1>4, <2>1, BeforeIs
  <2> QED BY <1>1, <1>2, <1>4, <2>2 DEF Promise!Call, s
<1>5. CASE w \notin Timers
  BY <1>1, <1>2, <1>5 DEF Promise!vars
<1> QED BY <1>4, <1>5

(* The loop starts with no timer armed or due.                              *)
LEMMA PromiseInit == Init => Promise!Init
<1> SUFFICES ASSUME Init PROVE Promise!Init
  OBVIOUS
<1>1. <<>> \in Seq(Timers) /\ Len(<<>>) = 0
  OBVIOUS
<1>2. PICK f : Calling(<<>>, f) /\ Calls(<<>>) = f[0]
  BY <1>1, CallsAre
<1>3. Calls(pendings) = <<>>
  BY <1>2 DEF Calling, Init
<1>4. {u \in Timers : heap.active[u] # 0} = {}
  BY DEF Init, EmptyHeap
<1>5. [t \in {u \in Timers : heap.active[u] # 0} |-> heap.at[t]] = [t \in {} |-> 0]
  BY <1>4
<1> QED BY <1>3, <1>5 DEF Promise!Init

(* Every step of the loop is a step of the promise or a stutter.            *)
LEMMA PromiseStep == Inv /\ [Next]_vars => [Promise!Next]_Promise!vars
<1> SUFFICES ASSUME Inv, [Next]_vars PROVE [Promise!Next]_Promise!vars
  OBVIOUS
<1>1. CASE \E d \in Waits, ready \in ReadyIos : Iterate(d, ready)
  BY <1>1, IterateExpires DEF Promise!Next
<1>2. CASE Invoke
  BY <1>2, InvokeCalls DEF Promise!Next
<1>3. CASE Return \/ Work \/ UNCHANGED vars
  BY <1>3 DEF Return, Work, vars, Promise!vars
<1>4. CASE \E t \in Stopped : StopTimer(t)
  BY <1>4, StopStops, LibevAssumption DEF Promise!Next
<1>5. CASE \E t \in Timers, a \in Delays : SetTimer(t, a)
  BY <1>5, SetStarts DEF Promise!Next
<1> QED BY <1>1, <1>2, <1>3, <1>4, <1>5 DEF Next, Callback

(* The loop of ev_run implements TimerPromise, for any number of timers: what *)
(* is armed expires no earlier and no later than it should, and those that are *)
(* due are called in the order of expiry, unless they are stopped.          *)
THEOREM LoopKeepsPromise == Spec => ImplementsPromise
<1>1. Spec => Promise!Init
  BY PromiseInit DEF Spec
<1> QED BY <1>1, PromiseStep, InvHolds, PTL DEF Spec, ImplementsPromise,
        Promise!Spec

================================================================================
