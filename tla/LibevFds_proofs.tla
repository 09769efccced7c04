---------------------------- MODULE LibevFds_proofs ----------------------------
(***************************************************************************)
(* Any number of descriptors and watchers: before each poll() the array    *)
(* for it is what the watchers ask for together, and no watcher is dropped *)
(* without a word.  At the end, the threads that wake the loop through     *)
(* eventfds (LoopThreads).                                                 *)
(***************************************************************************)
EXTENDS LibevFds, LoopThreads, SequenceTheorems, TLAPS

Records == [head : [Fds -> Seq(Watchers)], changes : Seq(Fds),
            asks : [Watchers -> SUBSET Events],
            got : [Watchers -> SUBSET (Events \cup {"ERROR"})]]

TypeOK ==
  /\ open \subseteq Fds
  /\ State \in Records
  /\ events \in [Fds -> SUBSET Events]
  /\ polls \in Seq([fd : Fds, events : SUBSET Events])
  /\ pollidxs \in [Fds -> Nat]
  /\ trusts \subseteq Watchers
  /\ at \in {"reify", "poll", "invoke", "callback"}

(* The lists of a state s: nobody is in two or twice in one, and whoever is *)
(* in one asks for something.                                               *)
Apart(s) ==
  /\ \A f \in Fds : IsInjective(s.head[f])
  /\ \A f, g \in Fds, w \in Watchers :
       Contains(s.head[f], w) /\ Contains(s.head[g], w) => f = g
Asking(s) == \A f \in Fds, w \in Watchers : Contains(s.head[f], w) => s.asks[w] # {}

Sound(s) == s \in Records /\ Apart(s) /\ Asking(s)

(* What has changed since the backend was told is noted.                    *)
Wants(s, f) == UNION {s.asks[w] : w \in ToSet(s.head[f])}
Noted(s, ev) == \A f \in Fds : Contains(s.changes, f) \/ ev[f] = Wants(s, f)

(* Who has watchers is open.                                                *)
Opened(s, o) == \A f \in Fds : s.head[f] # <<>> => f \in o

(* The program has no other to rely on than those it takes for active.      *)
Told(s, S) ==
  \A w \in S : (\E f \in Fds : Contains(s.head[f], w)) \/ "ERROR" \in s.got[w]

(* The array p.arr and its index p.idxs agree, and with the events asked.   *)
Asked(p, f, e) ==
  IF e = {} THEN p.idxs[f] = 0
  ELSE p.idxs[f] \in 1..Len(p.arr) /\ p.arr[p.idxs[f]] = [fd |-> f, events |-> e]
Indexed(p, ev) ==
  /\ \A f \in Fds : Asked(p, f, ev[f])
  /\ \A i \in 1..Len(p.arr) : p.idxs[p.arr[i].fd] = i

FdsInv ==
  /\ TypeOK
  /\ Apart(State) /\ Asking(State) /\ Noted(State, events) /\ Opened(State, open)
  /\ Told(State, trusts)
  /\ Indexed([arr |-> polls, idxs |-> pollidxs], events)
  /\ at = "poll" => fdchanges = <<>>

--------------------------------------------------------------------------------
(* Lists.  What a list holds when something is put before it or goes.       *)

LEMMA SeqDomain ==
  ASSUME NEW S, NEW l \in Seq(S)
  PROVE  Len(l) \in Nat /\ DOMAIN l = 1..Len(l) /\ \A i \in 1..Len(l) : l[i] \in S
<1>1. \A i \in 1..Len(l) : l[i] \in S
  BY ElementOfSeq
<1> QED BY <1>1

LEMMA Prepended ==
  ASSUME NEW S, NEW l \in Seq(S), NEW w \in S, IsInjective(l), ~Contains(l, w)
  PROVE  /\ <<w>> \o l \in Seq(S) /\ IsInjective(<<w>> \o l)
         /\ \A v : Contains(<<w>> \o l, v) <=> v = w \/ Contains(l, v)
<1> DEFINE m == <<w>> \o l
           n == Len(l)
<1>1. <<w>> \in Seq(S) /\ Len(<<w>>) = 1 /\ <<w>>[1] = w
  OBVIOUS
<1>2. n \in Nat /\ DOMAIN l = 1..n
  BY SeqDomain
<1>3. /\ m \in Seq(S) /\ Len(m) = n + 1
      /\ \A i \in 1..(n + 1) : m[i] = IF i <= 1 THEN w ELSE l[i - 1]
  BY <1>1, <1>2, ConcatProperties
<1>4. DOMAIN m = 1..(n + 1)
  BY <1>3, SeqDomain
<1>5. /\ \A a, b \in 1..n : l[a] = l[b] => a = b
      /\ \A i \in 1..n : l[i] # w
  BY <1>2 DEF IsInjective, Contains
<1>6. m[1] = w /\ \A i \in 1..n : m[i + 1] = l[i]
  BY <1>2, <1>3
<1>7. Len(m) = n + 1
  BY <1>3
<1> HIDE DEF m, n
<1>8. IsInjective(m)
  <2> SUFFICES ASSUME NEW a \in 1..(n + 1), NEW b \in 1..(n + 1), m[a] = m[b]
               PROVE  a = b
    BY <1>4 DEF IsInjective
  <2>1. CASE a = 1 /\ b # 1
    BY <1>2, <1>3, <1>5, <2>1
  <2>2. CASE a # 1 /\ b = 1
    BY <1>2, <1>3, <1>5, <2>2
  <2>3. CASE a # 1 /\ b # 1
    <3>1. a - 1 \in 1..n /\ b - 1 \in 1..n /\ l[a - 1] = l[b - 1]
      BY <1>2, <1>3, <2>3
    <3> QED BY <1>2, <1>5, <3>1
  <2> QED BY <2>1, <2>2, <2>3
<1>9. ASSUME NEW v PROVE Contains(m, v) <=> v = w \/ Contains(l, v)
  <2>1. ASSUME Contains(m, v), v # w PROVE Contains(l, v)
    <3>1. PICK i \in 1..(n + 1) : m[i] = v
      BY <1>7, <2>1 DEF Contains
    <3>2. i - 1 \in 1..n /\ l[i - 1] = v
      BY <1>2, <1>3, <2>1, <3>1
    <3> QED BY <3>2 DEF Contains, n
  <2>2. ASSUME v = w PROVE Contains(m, v)
    <3>1. 1 \in 1..Len(m)
      BY <1>2, <1>7
    <3> QED BY <1>6, <2>2, <3>1 DEF Contains
  <2>3. ASSUME Contains(l, v) PROVE Contains(m, v)
    <3>1. PICK i \in 1..n : l[i] = v
      BY <2>3 DEF Contains, n
    <3>2. i + 1 \in 1..Len(m) /\ m[i + 1] = v
      BY <1>2, <1>6, <1>7, <3>1
    <3> QED BY <3>2 DEF Contains
  <2> QED BY <2>1, <2>2, <2>3
<1> QED BY <1>3, <1>8, <1>9 DEF m

LEMMA Deleted ==
  ASSUME NEW S, NEW l \in Seq(S), NEW w, IsInjective(l), Contains(l, w)
  PROVE  /\ WlistDel(l, w) \in Seq(S) /\ IsInjective(WlistDel(l, w))
         /\ \A v : Contains(WlistDel(l, w), v) <=> v # w /\ Contains(l, v)
<1> DEFINE n == Len(l)
           k == CHOOSE i \in DOMAIN l : l[i] = w
           a == SubSeq(l, 1, k - 1)
           b == SubSeq(l, k + 1, n)
           m == a \o b
<1>1. n \in Nat /\ DOMAIN l = 1..n /\ \A i \in 1..n : l[i] \in S
  BY SeqDomain
<1>2. k \in 1..n /\ l[k] = w
  BY <1>1 DEF Contains
<1>3. WlistDel(l, w) = m
  BY DEF WlistDel, RemoveAt
<1> HIDE DEF n, k
<1>4. /\ a \in Seq(S) /\ Len(a) = k - 1
      /\ \A i \in 1..(k - 1) : a[i] = l[i]
  <2>1. \A i \in 1..(k - 1) : l[i] \in S
    BY <1>1, <1>2
  <2>2. 1 \in Int /\ k - 1 \in Int /\ k - 1 - 1 + 1 = k - 1
    BY <1>1, <1>2
  <2>3. /\ a \in Seq(S) /\ Len(a) = IF 1 <= k - 1 THEN k - 1 - 1 + 1 ELSE 0
        /\ \A i \in 1..(k - 1 - 1 + 1) : a[i] = l[1 + i - 1]
    BY <2>1, <2>2, SubSeqProperties
  <2> HIDE DEF a
  <2> QED BY <1>1, <1>2, <2>3
<1>5. /\ b \in Seq(S) /\ Len(b) = n - k
      /\ \A i \in 1..(n - k) : b[i] = l[k + i]
  <2>1. \A i \in (k + 1)..n : l[i] \in S
    BY <1>1, <1>2
  <2>2. k + 1 \in Int /\ n \in Int
    BY <1>1, <1>2
  <2>3. /\ b \in Seq(S) /\ Len(b) = IF k + 1 <= n THEN n - (k + 1) + 1 ELSE 0
        /\ \A i \in 1..(n - (k + 1) + 1) : b[i] = l[k + 1 + i - 1]
    BY <2>1, <2>2, SubSeqProperties
  <2> HIDE DEF b
  <2> QED BY <1>1, <1>2, <2>3
<1> HIDE DEF a, b
<1>6. /\ m \in Seq(S) /\ Len(m) = Len(a) + Len(b)
      /\ \A i \in 1..(Len(a) + Len(b)) : m[i] = IF i <= Len(a) THEN a[i] ELSE b[i - Len(a)]
  BY <1>4, <1>5, ConcatProperties
<1> HIDE DEF m
<1>7. Len(m) = n - 1 /\ DOMAIN m = 1..(n - 1)
  BY <1>1, <1>2, <1>4, <1>5, <1>6, SeqDomain
<1>8. /\ \A i \in 1..(n - 1) : i < k => m[i] = l[i]
      /\ \A i \in 1..(n - 1) : ~(i < k) => m[i] = l[i + 1]
  <2>1. ASSUME NEW i \in 1..(n - 1), i < k PROVE m[i] = l[i]
    BY <1>1, <1>2, <1>4, <1>5, <1>6, <2>1
  <2>2. ASSUME NEW i \in 1..(n - 1), ~(i < k) PROVE m[i] = l[i + 1]
    <3>1. m[i] = b[i - (k - 1)] /\ i - (k - 1) \in 1..(n - k) /\ k + (i - (k - 1)) = i + 1
      BY <1>1, <1>2, <1>4, <1>5, <1>6, <2>2
    <3> QED BY <1>5, <3>1
  <2> QED BY <2>1, <2>2
<1>9. \A i, j \in 1..n : l[i] = l[j] => i = j
  BY <1>1 DEF IsInjective
<1>10. IsInjective(m)
  <2> SUFFICES ASSUME NEW i \in 1..(n - 1), NEW j \in 1..(n - 1), m[i] = m[j]
               PROVE  i = j
    BY <1>7 DEF IsInjective
  <2>1. i \in 1..n /\ j \in 1..n /\ i + 1 \in 1..n /\ j + 1 \in 1..n
    BY <1>1
  <2> QED BY <1>2, <1>8, <1>9, <2>1
<1>11. ASSUME NEW v PROVE Contains(m, v) <=> v # w /\ Contains(l, v)
  <2>1. ASSUME Contains(m, v) PROVE v # w /\ Contains(l, v)
    <3>1. PICK i \in 1..(n - 1) : m[i] = v
      BY <1>7, <2>1 DEF Contains
    <3>2. i \in 1..n /\ i + 1 \in 1..n
      BY <1>1
    <3>3. Contains(l, v)
      BY <1>8, <3>1, <3>2 DEF Contains, n
    <3> QED BY <1>2, <1>8, <1>9, <3>1, <3>2, <3>3
  <2>2. ASSUME v # w, Contains(l, v) PROVE Contains(m, v)
    <3>1. PICK i \in 1..n : l[i] = v
      BY <2>2 DEF Contains, n
    <3>2. CASE i < k
      <4>1. i \in 1..(n - 1) /\ m[i] = v
        BY <1>1, <1>2, <1>8, <3>1, <3>2
      <4> QED BY <1>7, <4>1 DEF Contains
    <3>3. CASE ~(i < k)
      <4>1. i # k
        BY <1>2, <2>2, <3>1
      <4>2. i - 1 \in 1..(n - 1) /\ ~(i - 1 < k) /\ i - 1 + 1 = i
        BY <1>1, <1>2, <3>3, <4>1
      <4> QED BY <1>7, <1>8, <3>1, <4>2 DEF Contains
    <3> QED BY <3>2, <3>3
  <2> QED BY <2>1, <2>2
<1> QED BY <1>3, <1>6, <1>10, <1>11

--------------------------------------------------------------------------------
(* The parts.  What starting, stopping and killing do to a state s.         *)

LEMMA ListedOnce ==
  ASSUME NEW S, NEW l \in Seq(S), NEW v
  PROVE  v \in ToSet(l) <=> Contains(l, v)
<1>1. DOMAIN l = 1..Len(l)
  BY SeqDomain
<1> QED BY <1>1 DEF ToSet, Contains

LEMMA FdChanges ==
  ASSUME NEW s \in Records, NEW f \in Fds
  PROVE  /\ FdChange(s, f) \in Records
         /\ FdChange(s, f).head = s.head /\ FdChange(s, f).asks = s.asks
         /\ FdChange(s, f).got = s.got
         /\ \A g : Contains(FdChange(s, f).changes, g) <=> g = f \/ Contains(s.changes, g)
<1>1. CASE Contains(s.changes, f)
  BY <1>1 DEF FdChange
<1>2. CASE ~Contains(s.changes, f)
  <2> DEFINE c == s.changes
             a == Append(c, f)
             n == Len(c)
  <2>1. c \in Seq(Fds) /\ n \in Nat
    BY SeqDomain DEF Records
  <2>2. FdChange(s, f) = [head |-> s.head, changes |-> a, asks |-> s.asks, got |-> s.got]
    BY <1>2 DEF FdChange, Records
  <2>3. /\ a \in Seq(Fds) /\ Len(a) = n + 1 /\ a[n + 1] = f
        /\ \A i \in 1..n : a[i] = c[i]
    BY <2>1, AppendProperties
  <2>4. n = Len(s.changes)
    OBVIOUS
  <2> HIDE DEF a, n
  <2>5. ASSUME NEW g PROVE Contains(a, g) <=> g = f \/ Contains(c, g)
    <3>1. ASSUME Contains(a, g), g # f PROVE Contains(c, g)
      <4>1. PICK i \in 1..(n + 1) : a[i] = g
        BY <2>3, <3>1 DEF Contains
      <4>2. i \in 1..n /\ c[i] = g
        BY <2>1, <2>3, <3>1, <4>1
      <4> QED BY <2>4, <4>2 DEF Contains
    <3>2. n + 1 \in 1..Len(a)
      BY <2>1, <2>3
    <3>3. ASSUME Contains(c, g) PROVE Contains(a, g)
      <4>1. PICK i \in 1..n : c[i] = g
        BY <2>4, <3>3 DEF Contains
      <4>2. i \in 1..Len(a) /\ a[i] = g
        BY <2>1, <2>3, <4>1
      <4> QED BY <4>2 DEF Contains
    <3> QED BY <2>3, <3>1, <3>2, <3>3 DEF Contains
  <2> HIDE DEF c
  <2>6. FdChange(s, f) \in Records
    BY <2>2, <2>3 DEF Records
  <2> QED BY <2>2, <2>5, <2>6 DEF c
<1> QED BY <1>1, <1>2

(* Whoever is stopped goes from its list and is not pending; the others     *)
(* keep what they have.                                                     *)
LEMMA Stopped ==
  ASSUME NEW s, Sound(s), NEW w \in Watchers
  PROVE  /\ Sound(IoStop(s, w))
         /\ \A f \in Fds, v \in Watchers :
              Contains(IoStop(s, w).head[f], v) <=> v # w /\ Contains(s.head[f], v)
         /\ \A v \in Watchers \ {w} : /\ IoStop(s, w).asks[v] = s.asks[v]
                                      /\ IoStop(s, w).got[v] = s.got[v]
         /\ \A f \in Fds : IoStop(s, w).head[f] # <<>> => s.head[f] # <<>>
         /\ \A ev : Noted(s, ev) => Noted(IoStop(s, w), ev)
<1> DEFINE in == {f \in Fds : Contains(s.head[f], w)}
           f == CHOOSE f \in in : TRUE
           c == ClearPending(s, w)
           r == IoStop(s, w)
<1>1. /\ c \in Records /\ c.head = s.head /\ c.changes = s.changes /\ c.asks = s.asks
      /\ c.got = [s.got EXCEPT ![w] = {}]
  BY DEF ClearPending, Records, Sound
<1> HIDE DEF c
<1>2. CASE in = {}
  <2>1. r = c
    BY <1>2 DEF IoStop, c
  <2>2. \A g \in Fds : ~Contains(s.head[g], w)
    BY <1>2
  <2>3. Sound(c)
    BY <1>1 DEF Sound, Apart, Asking
  <2>4. \A ev : Noted(s, ev) => Noted(c, ev)
    BY <1>1 DEF Noted, Wants
  <2>5. \A v \in Watchers \ {w} : c.got[v] = s.got[v]
    BY <1>1 DEF Records, Sound
  <2> HIDE DEF r
  <2> QED BY <1>1, <2>1, <2>2, <2>3, <2>4, <2>5 DEF r
<1>3. CASE in # {}
  <2> DEFINE d == [c EXCEPT !.head[f] = WlistDel(@, w), !.asks[w] = {}]
             l == WlistDel(s.head[f], w)
  <2>1. r = FdChange(d, f)
    BY <1>3 DEF IoStop, c
  <2>2. f \in Fds /\ Contains(s.head[f], w)
    BY <1>3
  <2> HIDE DEF in, f
  <2>3. s.head[f] \in Seq(Watchers) /\ IsInjective(s.head[f])
    BY <2>2 DEF Sound, Records, Apart
  <2>4. /\ l \in Seq(Watchers) /\ IsInjective(l)
        /\ \A v : Contains(l, v) <=> v # w /\ Contains(s.head[f], v)
    BY <2>2, <2>3, Deleted
  <2>5. /\ d.head = [s.head EXCEPT ![f] = l] /\ d.changes = s.changes
        /\ d.asks = [s.asks EXCEPT ![w] = {}] /\ d.got = c.got
    BY <1>1, <2>2 DEF Records
  <2>6. d \in Records
    <3>1. WlistDel(c.head[f], w) \in Seq(Watchers)
      BY <1>1, <2>4
    <3> HIDE DEF l
    <3> QED BY <1>1, <2>2, <3>1 DEF Records
  <2> HIDE DEF d, l
  <2>7. /\ r \in Records
        /\ r.head = [s.head EXCEPT ![f] = l]
        /\ r.asks = [s.asks EXCEPT ![w] = {}]
        /\ r.got = [s.got EXCEPT ![w] = {}]
        /\ \A g : Contains(r.changes, g) <=> g = f \/ Contains(s.changes, g)
    <3>1. /\ r \in Records /\ r.head = d.head /\ r.asks = d.asks /\ r.got = d.got
          /\ \A g : Contains(r.changes, g) <=> g = f \/ Contains(d.changes, g)
      BY <2>1, <2>2, <2>6, FdChanges
    <3> QED BY <1>1, <2>5, <3>1
  <2> HIDE DEF r
  <2>8. \A g \in Fds : r.head[g] = IF g = f THEN l ELSE s.head[g]
    BY <2>7 DEF Sound, Records
  <2>9. \A g \in Fds : g # f => ~Contains(s.head[g], w)
    BY <2>2 DEF Sound, Apart
  <2>10. \A g \in Fds, v \in Watchers :
           Contains(r.head[g], v) <=> v # w /\ Contains(s.head[g], v)
    BY <2>4, <2>8, <2>9
  <2>11. \A v \in Watchers \ {w} : r.asks[v] = s.asks[v] /\ r.got[v] = s.got[v]
    BY <2>7 DEF Sound, Records
  <2>12. Apart(r) /\ Asking(r)
    BY <2>4, <2>8, <2>10, <2>11 DEF Sound, Apart, Asking
  <2>13. \A g \in Fds : r.head[g] # <<>> => s.head[g] # <<>>
    <3>1. s.head[f] # <<>>
      BY <2>2 DEF Contains
    <3> QED BY <2>8, <3>1
  <2>14. ASSUME NEW ev, Noted(s, ev), NEW g \in Fds
         PROVE  Contains(r.changes, g) \/ ev[g] = Wants(r, g)
    <3>1. CASE g = f
      BY <2>7, <3>1
    <3>2. CASE g # f
      <4>1. \A v \in ToSet(s.head[g]) : v \in Watchers \ {w}
        BY <2>9, <3>2, ListedOnce, SeqDomain DEF Sound, Records, ToSet
      <4>2. Wants(r, g) = Wants(s, g)
        BY <2>8, <2>11, <3>2, <4>1 DEF Wants
      <4> QED BY <2>7, <2>14, <4>2 DEF Noted
    <3> QED BY <3>1, <3>2
  <2> QED BY <2>7, <2>10, <2>11, <2>12, <2>13, <2>14 DEF Sound, Noted, r
<1> QED BY <1>2, <1>3

(* Whoever is started, from no list, is first in that of f.                 *)
LEMMA Started ==
  ASSUME NEW s, Sound(s), NEW w \in Watchers, NEW f \in Fds,
         NEW e \in SUBSET Events, e # {}, \A g \in Fds : ~Contains(s.head[g], w)
  PROVE  /\ Sound(IoStart(s, w, f, e))
         /\ \A g \in Fds, v \in Watchers :
              Contains(IoStart(s, w, f, e).head[g], v)
                <=> (g = f /\ v = w) \/ Contains(s.head[g], v)
         /\ IoStart(s, w, f, e).got = s.got
         /\ \A g \in Fds : g # f => IoStart(s, w, f, e).head[g] = s.head[g]
         /\ \A ev : Noted(s, ev) => Noted(IoStart(s, w, f, e), ev)
<1> DEFINE d == [s EXCEPT !.head[f] = <<w>> \o @, !.asks[w] = e]
           l == <<w>> \o s.head[f]
           r == IoStart(s, w, f, e)
<1>1. s.head[f] \in Seq(Watchers) /\ IsInjective(s.head[f])
  BY DEF Sound, Records, Apart
<1>2. /\ l \in Seq(Watchers) /\ IsInjective(l)
      /\ \A v : Contains(l, v) <=> v = w \/ Contains(s.head[f], v)
  BY <1>1, Prepended
<1>3. /\ d.head = [s.head EXCEPT ![f] = l] /\ d.changes = s.changes
      /\ d.asks = [s.asks EXCEPT ![w] = e] /\ d.got = s.got
  BY DEF Sound, Records
<1>4. d \in Records
  BY <1>2 DEF Sound, Records
<1>5. r = FdChange(d, f)
  BY DEF IoStart
<1> HIDE DEF d, l
<1>6. /\ r \in Records /\ r.head = d.head /\ r.asks = d.asks /\ r.got = d.got
      /\ \A g : Contains(r.changes, g) <=> g = f \/ Contains(d.changes, g)
  BY <1>4, <1>5, FdChanges
<1> HIDE DEF r
<1>7. \A g \in Fds : r.head[g] = IF g = f THEN l ELSE s.head[g]
  BY <1>3, <1>6 DEF Sound, Records
<1>8. \A v \in Watchers : r.asks[v] = IF v = w THEN e ELSE s.asks[v]
  BY <1>3, <1>6 DEF Sound, Records
<1>9. \A g \in Fds, v \in Watchers :
        Contains(r.head[g], v) <=> (g = f /\ v = w) \/ Contains(s.head[g], v)
  BY <1>2, <1>7
<1>10. Apart(r) /\ Asking(r)
  <2>1. \A g \in Fds : IsInjective(r.head[g])
    BY <1>2, <1>7 DEF Sound, Apart
  <2>2. \A g, h \in Fds, v \in Watchers :
          Contains(r.head[g], v) /\ Contains(r.head[h], v) => g = h
    BY <1>9 DEF Sound, Apart
  <2>3. ASSUME NEW g \in Fds, NEW v \in Watchers, Contains(r.head[g], v)
        PROVE  r.asks[v] # {}
    <3>1. CASE v = w
      BY <1>8, <3>1
    <3>2. CASE v # w
      BY <1>8, <1>9, <2>3, <3>2 DEF Sound, Asking
    <3> QED BY <3>1, <3>2
  <2> QED BY <2>1, <2>2, <2>3 DEF Apart, Asking
<1>11. ASSUME NEW ev, Noted(s, ev), NEW g \in Fds
       PROVE  Contains(r.changes, g) \/ ev[g] = Wants(r, g)
  <2>1. CASE g = f
    BY <1>6, <2>1
  <2>2. CASE g # f
    <3>1. \A v \in ToSet(s.head[g]) : v \in Watchers \ {w}
      BY ListedOnce, SeqDomain DEF Sound, Records, ToSet
    <3>2. Wants(r, g) = Wants(s, g)
      BY <1>7, <1>8, <2>2, <3>1 DEF Wants
    <3> QED BY <1>3, <1>6, <1>11, <3>2 DEF Noted
  <2> QED BY <2>1, <2>2
<1> QED BY <1>3, <1>6, <1>7, <1>9, <1>10, <1>11 DEF Sound, Noted, r

(* Whoever has a descriptor that is killed is told e, and nobody else.      *)
LEMMA KilledAll ==
  ASSUME NEW s, Sound(s), NEW f \in Fds, NEW e \in SUBSET (Events \cup {"ERROR"})
  PROVE  /\ Sound(Killed(s, f, e))
         /\ \A g \in Fds, v \in Watchers :
              Contains(Killed(s, f, e).head[g], v) <=> g # f /\ Contains(s.head[g], v)
         /\ \A v \in Watchers :
              Killed(s, f, e).got[v] = IF Contains(s.head[f], v) THEN e ELSE s.got[v]
         /\ \A g \in Fds : Killed(s, f, e).head[g] # <<>> => s.head[g] # <<>>
         /\ \A ev : Noted(s, ev) => Noted(Killed(s, f, e), ev)
<1> DEFINE r == Killed(s, f, e)
<1>0. \A v : ~Contains(<<>>, v)
  BY DEF Contains
<1>1. CASE s.head[f] = <<>>
  <2>1. r = s
    BY <1>1 DEF Killed
  <2> HIDE DEF r
  <2> QED BY <1>0, <1>1, <2>1 DEF r
<1>2. CASE s.head[f] # <<>>
  <2> DEFINE A == [w \in Watchers |-> IF Contains(s.head[f], w) THEN {} ELSE s.asks[w]]
             G == [w \in Watchers |-> IF Contains(s.head[f], w) THEN e ELSE s.got[w]]
             d == [s EXCEPT !.head[f] = <<>>,
                     !.asks = [w \in Watchers |-> IF Contains(s.head[f], w) THEN {} ELSE @[w]],
                     !.got = [w \in Watchers |-> IF Contains(s.head[f], w) THEN e ELSE @[w]]]
  <2>1. r = FdChange(d, f)
    BY <1>2 DEF Killed
  <2>2. /\ d.head = [s.head EXCEPT ![f] = <<>>] /\ d.changes = s.changes
        /\ d.asks = A /\ d.got = G
    BY DEF Sound, Records
  <2>3. d \in Records
    <3>1. A \in [Watchers -> SUBSET Events] /\ G \in [Watchers -> SUBSET (Events \cup {"ERROR"})]
      BY DEF Sound, Records
    <3>2. <<>> \in Seq(Watchers)
      OBVIOUS
    <3> HIDE DEF A, G
    <3> QED BY <3>1, <3>2 DEF Sound, Records, A, G
  <2> HIDE DEF d
  <2>4. /\ r \in Records /\ r.head = d.head /\ r.asks = d.asks /\ r.got = d.got
        /\ \A g : Contains(r.changes, g) <=> g = f \/ Contains(d.changes, g)
    BY <2>1, <2>3, FdChanges
  <2> HIDE DEF r
  <2>5. \A g \in Fds : r.head[g] = IF g = f THEN <<>> ELSE s.head[g]
    BY <2>2, <2>4 DEF Sound, Records
  <2>6. \A g \in Fds, v \in Watchers :
          Contains(r.head[g], v) <=> g # f /\ Contains(s.head[g], v)
    BY <1>0, <2>5
  <2>7. \A v \in Watchers : ~Contains(s.head[f], v) => r.asks[v] = s.asks[v]
    BY <2>2, <2>4
  <2>8. \A v \in Watchers : r.got[v] = IF Contains(s.head[f], v) THEN e ELSE s.got[v]
    BY <2>2, <2>4
  <2>9. IsInjective(<<>>)
    BY DEF IsInjective
  <2>10. Apart(r) /\ Asking(r)
    BY <2>5, <2>6, <2>7, <2>9 DEF Sound, Apart, Asking
  <2>11. ASSUME NEW ev, Noted(s, ev), NEW g \in Fds
         PROVE  Contains(r.changes, g) \/ ev[g] = Wants(r, g)
    <3>1. CASE g = f
      BY <2>4, <3>1
    <3>2. CASE g # f
      <4>1. \A v \in ToSet(s.head[g]) : v \in Watchers /\ ~Contains(s.head[f], v)
        BY <3>2, ListedOnce, SeqDomain DEF Sound, Records, ToSet, Apart
      <4>2. Wants(r, g) = Wants(s, g)
        BY <2>5, <2>7, <3>2, <4>1 DEF Wants
      <4> QED BY <2>2, <2>4, <2>11, <4>2 DEF Noted
    <3> QED BY <3>1, <3>2
  <2> QED BY <1>2, <2>4, <2>5, <2>6, <2>8, <2>10, <2>11 DEF Sound, Noted, r
<1> QED BY <1>1, <1>2

--------------------------------------------------------------------------------
(* The array for poll() and its index.                                      *)

Entries == [fd : Fds, events : SUBSET Events]
Arrays == [arr : Seq(Entries), idxs : [Fds -> Nat]]

(* All agree but f, which has an entry, whatever that asks for.             *)
IndexedBut(p, ev, f) ==
  /\ p \in Arrays
  /\ p.idxs[f] \in 1..Len(p.arr) /\ p.arr[p.idxs[f]].fd = f
  /\ \A g \in Fds \ {f} : Asked(p, g, ev[g])
  /\ \A i \in 1..Len(p.arr) : p.idxs[p.arr[i].fd] = i

LEMMA EnteredIsIndexed ==
  ASSUME NEW p \in Arrays, NEW ev \in [Fds -> SUBSET Events], NEW f \in Fds, Indexed(p, ev)
  PROVE  IndexedBut(Entered(p, f), ev, f)
<1>1. CASE p.idxs[f] # 0
  <2>1. Asked(p, f, ev[f]) /\ ev[f] # {}
    BY <1>1 DEF Indexed, Asked
  <2>2. p.idxs[f] \in 1..Len(p.arr) /\ p.arr[p.idxs[f]].fd = f
    BY <2>1 DEF Asked
  <2> QED BY <1>1, <2>2 DEF Entered, Indexed, IndexedBut
<1>2. CASE p.idxs[f] = 0
  <2> DEFINE n == Len(p.arr)
             e == [fd |-> f, events |-> {}]
             a == Append(p.arr, e)
             x == [p.idxs EXCEPT ![f] = n + 1]
             q == Entered(p, f)
  <2>1. q = [arr |-> a, idxs |-> x]
    BY <1>2 DEF Entered
  <2>2. p.arr \in Seq(Entries) /\ e \in Entries /\ e.fd = f
    BY DEF Arrays, Entries
  <2>3. n \in Nat /\ \A i \in 1..n : p.arr[i] \in Entries
    BY <2>2, SeqDomain
  <2> HIDE DEF e
  <2>4. /\ a \in Seq(Entries) /\ Len(a) = n + 1 /\ a[n + 1] = e
        /\ \A i \in 1..n : a[i] = p.arr[i]
    BY <2>2, <2>3, AppendProperties
  <2>5. n = Len(p.arr)
    OBVIOUS
  <2> HIDE DEF n, a
  <2>6. x \in [Fds -> Nat] /\ \A g \in Fds : x[g] = IF g = f THEN n + 1 ELSE p.idxs[g]
    BY <2>3 DEF Arrays
  <2> HIDE DEF x
  <2>7. q \in Arrays /\ q.arr = a /\ q.idxs = x
    BY <2>1, <2>4, <2>6 DEF Arrays
  <2> HIDE DEF q
  <2>8. q.idxs[f] \in 1..Len(q.arr) /\ q.arr[q.idxs[f]].fd = f
    BY <2>2, <2>3, <2>4, <2>6, <2>7
  <2>9. ASSUME NEW g \in Fds \ {f}
        PROVE  Asked(q, g, ev[g])
    <3>0. Asked(p, g, ev[g])
      BY DEF Indexed
    <3>1. q.idxs[g] = p.idxs[g]
      BY <2>6, <2>7
    <3>2. CASE ev[g] = {}
      BY <3>0, <3>1, <3>2 DEF Asked
    <3>3. CASE ev[g] # {}
      <4>1. p.idxs[g] \in 1..n /\ p.arr[p.idxs[g]] = [fd |-> g, events |-> ev[g]]
        BY <2>5, <3>0, <3>3 DEF Asked
      <4> QED BY <2>3, <2>4, <2>7, <3>1, <3>3, <4>1 DEF Asked
    <3> QED BY <3>2, <3>3
  <2>10. ASSUME NEW i \in 1..Len(q.arr) PROVE q.idxs[q.arr[i].fd] = i
    <3>1. CASE i = n + 1
      BY <2>2, <2>4, <2>6, <2>7, <3>1
    <3>2. CASE i # n + 1
      <4>1. i \in 1..n /\ a[i] = p.arr[i] /\ p.idxs[p.arr[i].fd] = i
        BY <2>3, <2>4, <2>5, <2>7, <3>2 DEF Indexed
      <4>2. p.arr[i].fd \in Fds /\ p.arr[i].fd # f
        BY <1>2, <2>3, <4>1 DEF Entries
      <4> QED BY <2>6, <2>7, <4>1, <4>2
    <3> QED BY <3>1, <3>2
  <2> QED BY <2>7, <2>8, <2>9, <2>10 DEF IndexedBut, q
<1> QED BY <1>1, <1>2

(* An entry that is changed in place.                                       *)
Changed(q, f, nev) == [q EXCEPT !.arr[q.idxs[f]].events = nev]

LEMMA ChangedIsIndexed ==
  ASSUME NEW q, NEW ev \in [Fds -> SUBSET Events], NEW f \in Fds, IndexedBut(q, ev, f),
         NEW nev \in SUBSET Events, nev # {}
  PROVE  Changed(q, f, nev) \in Arrays /\ Indexed(Changed(q, f, nev), [ev EXCEPT ![f] = nev])
<1> DEFINE k == q.idxs[f]
           n == Len(q.arr)
           a == [q.arr EXCEPT ![k] = [@ EXCEPT !.events = nev]]
           r == Changed(q, f, nev)
<1>1. q \in Arrays /\ q.arr \in Seq(Entries) /\ q.idxs \in [Fds -> Nat]
  BY DEF IndexedBut, Arrays
<1>2. n \in Nat /\ DOMAIN q.arr = 1..n /\ \A i \in 1..n : q.arr[i] \in Entries
  BY <1>1, SeqDomain
<1>3. k \in 1..n /\ q.arr[k].fd = f
  BY DEF IndexedBut
<1>4. r.arr = a /\ r.idxs = q.idxs
  BY <1>1 DEF Arrays, Changed, IndexedBut
<1>5. [q.arr[k] EXCEPT !.events = nev] = [fd |-> f, events |-> nev]
  BY <1>2, <1>3 DEF Entries
<1>6. [fd |-> f, events |-> nev] \in Entries
  BY DEF Entries
<1>7. a \in Seq(Entries) /\ Len(a) = n
  BY <1>1, <1>2, <1>3, <1>5, <1>6
<1>8. \A i \in 1..n : a[i] = IF i = k THEN [fd |-> f, events |-> nev] ELSE q.arr[i]
  BY <1>2, <1>5
<1>9. r \in Arrays
  BY <1>1, <1>4, <1>7 DEF Arrays, Changed, IndexedBut
<1>10. n = Len(q.arr) /\ k = q.idxs[f]
  OBVIOUS
<1> HIDE DEF k, n, a, r
<1>11. ASSUME NEW g \in Fds
       PROVE  Asked(r, g, [ev EXCEPT ![f] = nev][g])
  <2>1. CASE g = f
    BY <1>3, <1>4, <1>7, <1>8, <1>10, <2>1 DEF Asked
  <2>2. CASE g # f
    <3>1. [ev EXCEPT ![f] = nev][g] = ev[g]
      BY <2>2
    <3>2. Asked(q, g, ev[g])
      BY <2>2 DEF IndexedBut
    <3>3. CASE ev[g] = {}
      BY <1>4, <3>1, <3>2, <3>3 DEF Asked
    <3>4. CASE ev[g] # {}
      <4>1. q.idxs[g] \in 1..n /\ q.arr[q.idxs[g]] = [fd |-> g, events |-> ev[g]]
        BY <1>10, <3>2, <3>4 DEF Asked
      <4>2. q.idxs[g] # k
        BY <1>3, <2>2, <4>1
      <4> QED BY <1>4, <1>7, <1>8, <3>1, <3>4, <4>1, <4>2 DEF Asked
    <3> QED BY <3>3, <3>4
  <2> QED BY <2>1, <2>2
<1>12. ASSUME NEW i \in 1..Len(r.arr) PROVE r.idxs[r.arr[i].fd] = i
  <2>1. i \in 1..n /\ r.arr[i].fd = q.arr[i].fd
    BY <1>3, <1>4, <1>7, <1>8
  <2> QED BY <1>4, <1>10, <2>1 DEF IndexedBut
<1> QED BY <1>9, <1>11, <1>12 DEF Indexed, r

LEMMA FrontOfSeq ==
  ASSUME NEW S, NEW s \in Seq(S), s # <<>>
  PROVE  /\ Front(s) \in Seq(S) /\ Len(Front(s)) = Len(s) - 1
         /\ \A i \in 1..(Len(s) - 1) : Front(s)[i] = s[i]
<1> DEFINE n == Len(s)
<1>1. n \in Nat \ {0} /\ \A i \in 1..n : s[i] \in S
  BY SeqDomain, EmptySeq
<1>2. \A i \in 1..(n - 1) : s[i] \in S
  BY <1>1
<1>3. 1 \in Int /\ n - 1 \in Int
  BY <1>1
<1>4. /\ SubSeq(s, 1, n - 1) \in Seq(S)
      /\ Len(SubSeq(s, 1, n - 1)) = IF 1 <= n - 1 THEN n - 1 - 1 + 1 ELSE 0
      /\ \A i \in 1..(n - 1 - 1 + 1) : SubSeq(s, 1, n - 1)[i] = s[1 + i - 1]
  BY <1>2, <1>3, SubSeqProperties
<1>5. Front(s) = SubSeq(s, 1, n - 1)
  BY DEF Front
<1>6. n = Len(s)
  OBVIOUS
<1> HIDE DEF n
<1>7. n - 1 - 1 + 1 = n - 1 /\ \A i \in 1..(n - 1) : 1 + i - 1 = i
  BY <1>1
<1>8. Len(Front(s)) = n - 1
  BY <1>1, <1>4, <1>5
<1>9. \A i \in 1..(n - 1) : Front(s)[i] = s[i]
  BY <1>4, <1>5, <1>7
<1> QED BY <1>4, <1>5, <1>6, <1>8, <1>9

(* An entry that goes, and the last that takes its place.                   *)
LEMMA RemovedIsIndexed ==
  ASSUME NEW q, NEW ev \in [Fds -> SUBSET Events], NEW f \in Fds, IndexedBut(q, ev, f)
  PROVE  Removed(q, f) \in Arrays /\ Indexed(Removed(q, f), [ev EXCEPT ![f] = {}])
<1> DEFINE k == q.idxs[f]
           n == Len(q.arr)
           a == [q.arr EXCEPT ![k] = Last(q.arr)]
           b == Front(a)
           x == IF k < n THEN [q.idxs EXCEPT ![f] = 0, ![q.arr[n].fd] = k]
                ELSE [q.idxs EXCEPT ![f] = 0]
           r == Removed(q, f)
<1>1. q.arr \in Seq(Entries) /\ q.idxs \in [Fds -> Nat]
  BY DEF IndexedBut, Arrays
<1>2. n \in Nat /\ DOMAIN q.arr = 1..n /\ \A i \in 1..n : q.arr[i] \in Entries
  BY <1>1, SeqDomain
<1>3. k \in 1..n /\ q.arr[k].fd = f
  BY DEF IndexedBut
<1>4. Last(q.arr) = q.arr[n] /\ n \in 1..n /\ q.arr[n] \in Entries
  BY <1>2, <1>3 DEF Last
<1>5. /\ a \in Seq(Entries) /\ Len(a) = n /\ a # <<>>
      /\ \A i \in 1..n : a[i] = IF i = k THEN q.arr[n] ELSE q.arr[i]
  BY <1>1, <1>2, <1>3, <1>4
<1>6. r = [arr |-> b, idxs |-> x]
  BY DEF Removed
<1>7. \A i \in 1..n : q.idxs[q.arr[i].fd] = i /\ q.arr[i].fd \in Fds
  BY <1>2 DEF IndexedBut, Entries
<1>8. n = Len(q.arr) /\ k = q.idxs[f]
  OBVIOUS
<1> HIDE DEF n, k, a
<1>9. /\ b \in Seq(Entries) /\ Len(b) = n - 1
      /\ \A i \in 1..(n - 1) : b[i] = IF i = k THEN q.arr[n] ELSE q.arr[i]
  BY <1>2, <1>5, FrontOfSeq
<1> HIDE DEF b
<1>10. k < n => q.arr[n].fd # f
  BY <1>2, <1>3, <1>4, <1>7, <1>8
<1>11. /\ x \in [Fds -> Nat] /\ x[f] = 0
       /\ \A g \in Fds \ {f} : x[g] = IF k < n /\ g = q.arr[n].fd THEN k ELSE q.idxs[g]
  <2>1. CASE k < n
    <3>1. x = [q.idxs EXCEPT ![f] = 0, ![q.arr[n].fd] = k] /\ q.arr[n].fd \in Fds /\ k \in Nat
      BY <1>2, <1>3, <1>4, <1>7, <2>1
    <3> QED BY <1>1, <1>10, <2>1, <3>1
  <2>2. CASE ~(k < n)
    BY <1>1, <2>2
  <2> QED BY <2>1, <2>2
<1> HIDE DEF x
<1>12. r \in Arrays /\ r.arr = b /\ r.idxs = x
  BY <1>6, <1>9, <1>11 DEF Arrays
<1> HIDE DEF r
<1>13. ASSUME NEW g \in Fds PROVE Asked(r, g, [ev EXCEPT ![f] = {}][g])
  <2>1. CASE g = f
    BY <1>11, <1>12, <2>1 DEF Asked
  <2>2. CASE g # f
    <3>1. [ev EXCEPT ![f] = {}][g] = ev[g] /\ Asked(q, g, ev[g])
      BY <2>2 DEF IndexedBut
    <3>2. CASE ev[g] = {}
      <4>1. q.idxs[g] = 0
        BY <3>1, <3>2 DEF Asked
      <4>2. g # q.arr[n].fd
        BY <1>2, <1>4, <1>7, <4>1
      <4> QED BY <1>11, <1>12, <2>2, <3>1, <3>2, <4>1, <4>2 DEF Asked
    <3>3. CASE ev[g] # {}
      <4>1. q.idxs[g] \in 1..n /\ q.arr[q.idxs[g]] = [fd |-> g, events |-> ev[g]]
        BY <1>8, <3>1, <3>3 DEF Asked
      <4>2. q.idxs[g] # k /\ q.arr[q.idxs[g]].fd = g
        BY <1>3, <2>2, <4>1
      <4>3. CASE g = q.arr[n].fd
        <5>1. q.idxs[g] = n /\ k < n
          BY <1>2, <1>3, <1>4, <1>7, <4>2, <4>3
        <5>2. x[g] = k /\ k \in 1..(n - 1) /\ b[k] = q.arr[n]
          BY <1>2, <1>3, <1>9, <1>11, <2>2, <4>3, <5>1
        <5> QED BY <1>9, <1>12, <3>1, <3>3, <4>1, <5>1, <5>2 DEF Asked
      <4>4. CASE g # q.arr[n].fd
        <5>1. q.idxs[g] # n
          BY <4>2, <4>4
        <5>2. x[g] = q.idxs[g] /\ q.idxs[g] \in 1..(n - 1)
          BY <1>2, <1>11, <2>2, <4>1, <4>4, <5>1
        <5>3. b[q.idxs[g]] = q.arr[q.idxs[g]]
          BY <1>9, <4>2, <5>2
        <5> QED BY <1>9, <1>12, <3>1, <3>3, <4>1, <5>2, <5>3 DEF Asked
      <4> QED BY <4>3, <4>4
    <3> QED BY <3>2, <3>3
  <2> QED BY <2>1, <2>2
<1>14. ASSUME NEW i \in 1..Len(r.arr) PROVE r.idxs[r.arr[i].fd] = i
  <2>1. i \in 1..(n - 1) /\ i \in 1..n
    BY <1>2, <1>9, <1>12
  <2>2. CASE i = k
    BY <1>2, <1>4, <1>7, <1>9, <1>10, <1>11, <1>12, <2>1, <2>2
  <2>3. CASE i # k
    <3>1. q.arr[i].fd # f /\ q.arr[i].fd # q.arr[n].fd
      BY <1>2, <1>4, <1>7, <1>8, <2>1, <2>3
    <3> QED BY <1>7, <1>9, <1>11, <1>12, <2>1, <2>3, <3>1
  <2> QED BY <2>2, <2>3
<1> QED BY <1>12, <1>13, <1>14 DEF Indexed, r

(* poll_modify makes good what the kernel is asked of f.                    *)
LEMMA PollModified ==
  ASSUME NEW p \in Arrays, NEW ev \in [Fds -> SUBSET Events], NEW f \in Fds, Indexed(p, ev),
         NEW nev \in SUBSET Events
  PROVE  /\ PollModify(p, f, ev[f], nev) \in Arrays
         /\ Indexed(PollModify(p, f, ev[f], nev), [ev EXCEPT ![f] = nev])
<1> DEFINE q == Entered(p, f)
<1>1. IndexedBut(q, ev, f)
  BY EnteredIsIndexed
<1> HIDE DEF q
<1>2. CASE ev[f] = nev
  <2>1. [ev EXCEPT ![f] = nev] = ev
    BY <1>2
  <2> QED BY <1>2, <2>1 DEF PollModify
<1>3. CASE ev[f] # nev /\ nev = {}
  <2>1. PollModify(p, f, ev[f], nev) = Removed(q, f)
    BY <1>3 DEF PollModify, q
  <2>2. Removed(q, f) \in Arrays /\ Indexed(Removed(q, f), [ev EXCEPT ![f] = {}])
    BY ONLY <1>1, RemovedIsIndexed, f \in Fds, ev \in [Fds -> SUBSET Events]
  <2> QED BY <1>3, <2>1, <2>2
<1>4. CASE ev[f] # nev /\ nev # {}
  <2>1. PollModify(p, f, ev[f], nev) = Changed(q, f, nev)
    BY <1>4 DEF PollModify, q, Changed
  <2>2. Changed(q, f, nev) \in Arrays /\ Indexed(Changed(q, f, nev), [ev EXCEPT ![f] = nev])
    <3>1. nev # {}
      BY <1>4
    <3> QED BY ONLY <1>1, <3>1, ChangedIsIndexed, nev \in SUBSET Events, f \in Fds,
                    ev \in [Fds -> SUBSET Events]
  <2> QED BY <2>1, <2>2
<1> QED BY <1>2, <1>3, <1>4

--------------------------------------------------------------------------------
(* The invariant.                                                           *)

PollArray == [arr |-> polls, idxs |-> pollidxs]

LEMMA FdsInvInit == Init => FdsInv
<1> SUFFICES ASSUME Init PROVE FdsInv
  OBVIOUS
<1> USE DEF Init, State
<1>1. \A f \in Fds : head[f] = <<>>
  OBVIOUS
<1>2. \A f \in Fds, v \in Watchers : ~Contains(head[f], v)
  BY <1>1 DEF Contains
<1>3. TypeOK
  <2>1. <<>> \in Seq(Watchers) /\ <<>> \in Seq(Fds)
        /\ <<>> \in Seq([fd : Fds, events : SUBSET Events])
    OBVIOUS
  <2> QED BY <2>1 DEF TypeOK, Records
<1>4. Apart(State) /\ Asking(State)
  <2>1. IsInjective(<<>>)
    BY DEF IsInjective
  <2> QED BY <1>1, <1>2, <2>1 DEF Apart, Asking
<1>5. Noted(State, events)
  <2>1. ASSUME NEW f \in Fds PROVE Wants(State, f) = {}
    <3>1. ToSet(<<>>) = {}
      BY DEF ToSet
    <3> QED BY <1>1, <3>1 DEF Wants
  <2> QED BY <2>1 DEF Noted
<1>6. Opened(State, open) /\ Told(State, trusts)
  BY DEF Opened, Told
<1>7. Indexed([arr |-> polls, idxs |-> pollidxs], events)
  BY DEF Indexed, Asked
<1> QED BY <1>3, <1>4, <1>5, <1>6, <1>7 DEF FdsInv

(* A step that gives the lists and what is pending from a state s, and      *)
(* leaves the array for poll() alone.                                       *)
LEMMA GoesToState ==
  ASSUME FdsInv, NEW s, Becomes(s), UNCHANGED pollVars, Sound(s), Noted(s, events),
         Opened(s, open'), Told(s, trusts'), open' \subseteq Fds, trusts' \subseteq Watchers,
         at' \in {"reify", "invoke", "callback"}
  PROVE  FdsInv'
<1>1. State' = s
  <2>1. s = [head |-> s.head, changes |-> s.changes, asks |-> s.asks, got |-> s.got]
    BY DEF Sound, Records
  <2> QED BY <2>1 DEF Becomes, State
<1>2. TypeOK'
  BY <1>1 DEF TypeOK, FdsInv, Sound, pollVars
<1>3. (Apart(State) /\ Asking(State) /\ Noted(State, events) /\ Opened(State, open)
        /\ Told(State, trusts))'
  BY <1>1 DEF Sound, pollVars
<1>4. Indexed([arr |-> polls, idxs |-> pollidxs], events)'
  BY DEF FdsInv, pollVars
<1> QED BY <1>2, <1>3, <1>4 DEF FdsInv

LEMMA SoundState ==
  ASSUME FdsInv
  PROVE  /\ Sound(State) /\ Noted(State, events) /\ Opened(State, open) /\ Told(State, trusts)
         /\ open \subseteq Fds /\ trusts \subseteq Watchers
         /\ State.head = head /\ State.asks = asks /\ State.got = got
         /\ State.changes = fdchanges
BY DEF FdsInv, TypeOK, Sound, State

(* Nothing but what is pending changes.                                     *)
LEMMA PendingChanges ==
  ASSUME NEW s, Sound(s), NEW g \in [Watchers -> SUBSET (Events \cup {"ERROR"})]
  PROVE  /\ Sound([s EXCEPT !.got = g])
         /\ [s EXCEPT !.got = g].head = s.head /\ [s EXCEPT !.got = g].asks = s.asks
         /\ [s EXCEPT !.got = g].changes = s.changes /\ [s EXCEPT !.got = g].got = g
BY DEF Sound, Records, Apart, Asking

(* fd_reify: the descriptor it comes to is made good, the others stay noted. *)
LEMMA FdsInvReify == FdsInv /\ FdReify => FdsInv'
<1> SUFFICES ASSUME FdsInv, FdReify PROVE FdsInv'
  OBVIOUS
<1>1. UNCHANGED <<open, head, asks, got, trusts>>
  BY DEF FdReify
<1>2. CASE fdchanges = <<>> /\ at' = "poll" /\ UNCHANGED <<pollVars, fdchanges>>
  <2>1. State' = State
    BY <1>1, <1>2 DEF State
  <2>2. TypeOK'
    BY <1>1, <1>2, <2>1 DEF FdsInv, TypeOK, pollVars
  <2> QED BY <1>1, <1>2, <2>1, <2>2 DEF FdsInv, pollVars
<1>3. CASE /\ fdchanges # <<>> /\ Reified(Head(fdchanges))
           /\ fdchanges' = Tail(fdchanges) /\ UNCHANGED at
  <2> DEFINE f == Head(fdchanges)
             p == [arr |-> polls, idxs |-> pollidxs]
             q == PollModify(p, f, events[f], Wanted(f))
  <2>1. fdchanges \in Seq(Fds) /\ at \in {"reify"} /\ at' = at
    BY <1>3 DEF FdReify, FdsInv, TypeOK, State, Records
  <2>2. /\ f \in Fds /\ Tail(fdchanges) \in Seq(Fds)
        /\ Len(Tail(fdchanges)) = Len(fdchanges) - 1
        /\ \A i \in 1..Len(Tail(fdchanges)) : Tail(fdchanges)[i] = fdchanges[i + 1]
    BY <1>3, <2>1, HeadTailProperties
  <2>3. Wanted(f) = Wants(State, f)
    BY DEF Wanted, Wants, State
  <2>4. Wanted(f) \in SUBSET Events
    <3>1. \A v \in ToSet(head[f]) : v \in Watchers
      BY <2>2, SeqDomain DEF FdsInv, TypeOK, State, Records, ToSet
    <3>2. \A v \in Watchers : asks[v] \subseteq Events
      BY DEF FdsInv, TypeOK, State, Records
    <3> QED BY <3>1, <3>2 DEF Wanted
  <2>5. p \in Arrays /\ events \in [Fds -> SUBSET Events] /\ Indexed(p, events)
    BY DEF FdsInv, TypeOK, Arrays, Entries
  <2>6. polls' = q.arr /\ pollidxs' = q.idxs /\ events' = [events EXCEPT ![f] = Wanted(f)]
    BY <1>3 DEF Reified
  <2> HIDE DEF f, p
  <2>7. q \in Arrays /\ Indexed(q, [events EXCEPT ![f] = Wanted(f)])
    BY <2>2, <2>4, <2>5, PollModified
  <2> HIDE DEF q
  <2>8. [arr |-> polls', idxs |-> pollidxs'] = q
    BY <2>6, <2>7 DEF Arrays
  <2>9. Indexed([arr |-> polls, idxs |-> pollidxs], events)'
    BY <2>6, <2>7, <2>8
  <2>10. State' = [head |-> head, changes |-> Tail(fdchanges), asks |-> asks, got |-> got]
    BY <1>1, <1>3 DEF State
  <2>11. TypeOK'
    <3>1. State' \in Records
      BY <2>2, <2>10 DEF FdsInv, TypeOK, State, Records
    <3>2. polls' \in Seq([fd : Fds, events : SUBSET Events]) /\ pollidxs' \in [Fds -> Nat]
      BY <2>6, <2>7 DEF Arrays, Entries
    <3>3. events' \in [Fds -> SUBSET Events]
      BY <2>4, <2>5, <2>6
    <3> QED BY <1>1, <2>1, <3>1, <3>2, <3>3 DEF FdsInv, TypeOK
  <2>12. Apart(State') /\ Asking(State') /\ Opened(State', open) /\ Told(State', trusts)
    BY <2>10 DEF FdsInv, State, Apart, Asking, Opened, Told
  <2>13. ASSUME NEW g \in Fds
         PROVE  Contains(Tail(fdchanges), g) \/ [events EXCEPT ![f] = Wanted(f)][g] = Wants(State, g)
    <3>1. CASE g = f
      BY <2>3, <2>5, <3>1
    <3>2. CASE g # f /\ Contains(fdchanges, g)
      <4>1. PICK i \in 1..Len(fdchanges) : fdchanges[i] = g
        BY <3>2 DEF Contains
      <4>2. i # 1
        BY <3>2, <4>1 DEF f
      <4>3. Len(fdchanges) \in Nat
        BY <2>1, SeqDomain
      <4> DEFINE n == Len(fdchanges)
                 t == Tail(fdchanges)
      <4>4. n \in Nat /\ i \in 1..n /\ Len(t) = n - 1 /\ \A j \in 1..Len(t) : t[j] = fdchanges[j + 1]
        BY <2>2, <4>1, <4>3
      <4> HIDE DEF n, t
      <4>5. i - 1 \in 1..Len(t) /\ t[i - 1] = g
        BY <4>1, <4>2, <4>4
      <4> QED BY <4>5 DEF Contains, t
    <3>3. CASE g # f /\ ~Contains(fdchanges, g)
      <4>1. events[g] = Wants(State, g)
        BY <3>3 DEF FdsInv, Noted, State
      <4> QED BY <2>5, <3>3, <4>1
    <3> QED BY <3>1, <3>2, <3>3
  <2>14. \A g \in Fds : Wants(State', g) = Wants(State, g)
    BY <2>10 DEF Wants, State
  <2>15. Noted(State', events')
    BY <2>6, <2>10, <2>13, <2>14 DEF Noted
  <2> QED BY <1>1, <2>1, <2>9, <2>11, <2>12, <2>15 DEF FdsInv
<1> QED BY <1>2, <1>3 DEF FdReify

(* poll_poll: what it feeds is added to what is pending; fd_enomem tells    *)
(* all whom it stops.                                                       *)
LEMMA FdsInvPoll == FdsInv /\ PollPoll => FdsInv'
<1> SUFFICES ASSUME FdsInv, PollPoll PROVE FdsInv'
  OBVIOUS
<1>1. at' \in {"reify", "invoke", "callback"} /\ UNCHANGED <<open, pollVars, trusts>>
  BY DEF PollPoll
<1> DEFINE S == State
<1>2. /\ Sound(S) /\ Noted(S, events) /\ Opened(S, open) /\ Told(S, trusts)
      /\ open \subseteq Fds /\ trusts \subseteq Watchers
  BY SoundState
<1>3. S.head = head /\ S.asks = asks /\ S.got = got /\ S.changes = fdchanges
  BY SoundState
<1> HIDE DEF S
<1>4. CASE PollReady
  <2>1. PICK r : got' = [w \in Watchers |-> got[w] \cup Heard(w, r)]
    BY <1>4 DEF PollReady
  <2>2. \A w \in Watchers : Heard(w, r) \subseteq Events
    BY <1>2, <1>3 DEF Heard, Sound, Records
  <2>3. got' \in [Watchers -> SUBSET (Events \cup {"ERROR"})]
    BY <1>2, <1>3, <2>1, <2>2 DEF Sound, Records
  <2> DEFINE s == [S EXCEPT !.got = got']
  <2>4. Sound(s) /\ s.head = S.head /\ s.asks = S.asks /\ s.changes = S.changes /\ s.got = got'
    BY <1>2, <2>3, PendingChanges
  <2> HIDE DEF s
  <2>5. Becomes(s)
    BY <1>3, <1>4, <2>4 DEF Becomes, PollReady, fdVars
  <2>6. Noted(s, events) /\ Opened(s, open')
    BY <1>1, <1>2, <2>4 DEF Noted, Wants, Opened
  <2>7. Told(s, trusts')
    BY <1>1, <1>2, <1>3, <2>1, <2>4 DEF Told
  <2> QED BY <1>1, <1>2, <2>4, <2>5, <2>6, <2>7, GoesToState
<1>5. CASE Becomes(S)
  BY <1>1, <1>2, <1>5, GoesToState
<1>6. ASSUME NEW f \in Fds, Becomes(FdKill(S, f)) PROVE FdsInv'
  <2> DEFINE e == Events \cup {"ERROR"}
             s == Killed(S, f, e)
  <2>1. FdKill(S, f) = s
    BY DEF FdKill
  <2>2. e \in SUBSET (Events \cup {"ERROR"}) /\ "ERROR" \in e
    OBVIOUS
  <2> HIDE DEF e
  <2>3. /\ Sound(s) /\ Noted(s, events)
        /\ \A g \in Fds, v \in Watchers : Contains(s.head[g], v) <=> g # f /\ Contains(S.head[g], v)
        /\ \A v \in Watchers : s.got[v] = IF Contains(S.head[f], v) THEN e ELSE S.got[v]
        /\ \A g \in Fds : s.head[g] # <<>> => S.head[g] # <<>>
    BY <1>2, <2>2, KilledAll
  <2> HIDE DEF s
  <2>4. Opened(s, open')
    BY <1>1, <1>2, <2>3 DEF Opened
  <2>5. Told(s, trusts')
    BY <1>1, <1>2, <2>2, <2>3 DEF Told
  <2> QED BY <1>1, <1>2, <1>6, <2>1, <2>3, <2>4, <2>5, GoesToState
<1> QED BY <1>4, <1>5, <1>6 DEF PollPoll, PollNoMemory, PollInterrupted, S

(* Callbacks, and what they do.                                             *)
LEMMA FdsInvInvoke == FdsInv /\ (Invoke \/ Return) => FdsInv'
<1> SUFFICES ASSUME FdsInv, Invoke \/ Return PROVE FdsInv'
  OBVIOUS
<1>1. at' \in {"reify", "invoke", "callback"} /\ UNCHANGED <<open, fdVars, pollVars>>
  BY DEF Invoke, Return
<1> DEFINE S == State
<1>2. /\ Sound(S) /\ Noted(S, events) /\ Opened(S, open) /\ Told(S, trusts)
      /\ open \subseteq Fds /\ trusts \subseteq Watchers
  BY SoundState
<1>3. S.head = head /\ S.asks = asks /\ S.got = got /\ S.changes = fdchanges
  BY SoundState
<1> HIDE DEF S
<1>4. CASE UNCHANGED <<got, trusts>>
  <2>1. Becomes(S)
    BY <1>1, <1>3, <1>4 DEF Becomes, fdVars
  <2> QED BY <1>1, <1>2, <1>4, <2>1, GoesToState
<1>5. ASSUME NEW w \in Watchers, got' = [got EXCEPT ![w] = {}],
             trusts' = IF "ERROR" \in got[w] THEN trusts \ {w} ELSE trusts
      PROVE  FdsInv'
  <2>1. got' \in [Watchers -> SUBSET (Events \cup {"ERROR"})]
    BY <1>2, <1>3, <1>5 DEF Sound, Records
  <2> DEFINE s == [S EXCEPT !.got = got']
  <2>2. Sound(s) /\ s.head = S.head /\ s.asks = S.asks /\ s.changes = S.changes /\ s.got = got'
    BY <1>2, <2>1, PendingChanges
  <2> HIDE DEF s
  <2>3. Becomes(s)
    BY <1>1, <1>3, <2>2 DEF Becomes, fdVars
  <2>4. Noted(s, events) /\ Opened(s, open')
    BY <1>1, <1>2, <2>2 DEF Noted, Wants, Opened
  <2>5. Told(s, trusts') /\ trusts' \subseteq Watchers
    BY <1>2, <1>3, <1>5, <2>2 DEF Told, Sound, Records
  <2> QED BY <1>1, <1>2, <2>2, <2>3, <2>4, <2>5, GoesToState
<1> QED BY <1>4, <1>5 DEF Invoke, Return

LEMMA FdsInvCallback == FdsInv /\ Callback => FdsInv'
<1> SUFFICES ASSUME FdsInv, Callback PROVE FdsInv'
  OBVIOUS
<1>1. at' \in {"reify", "invoke", "callback"} /\ UNCHANGED pollVars
  BY DEF Callback, Start, Modify, Stop, Close, Open, InCallback
<1> DEFINE S == State
<1>2. /\ Sound(S) /\ Noted(S, events) /\ Opened(S, open) /\ Told(S, trusts)
      /\ open \subseteq Fds /\ trusts \subseteq Watchers
  BY SoundState
<1>3. S.head = head /\ S.asks = asks /\ S.got = got /\ S.changes = fdchanges
  BY SoundState
<1>4. \A w \in Watchers : Active(w) <=> \E f \in Fds : Contains(S.head[f], w)
  BY <1>3 DEF Active
<1>5. S = State
  OBVIOUS
<1> HIDE DEF S
<1>6. ASSUME NEW w \in Watchers
      PROVE  LET s == IoStop(S, w)
             IN  /\ Sound(s) /\ Noted(s, events) /\ Opened(s, open) /\ Told(s, trusts \ {w})
                 /\ \A f \in Fds : ~Contains(s.head[f], w)
  <2> DEFINE s == IoStop(S, w)
  <2>1. /\ Sound(s) /\ Noted(s, events)
        /\ \A f \in Fds, v \in Watchers :
             Contains(s.head[f], v) <=> v # w /\ Contains(S.head[f], v)
        /\ \A v \in Watchers \ {w} : s.asks[v] = S.asks[v] /\ s.got[v] = S.got[v]
        /\ \A f \in Fds : s.head[f] # <<>> => S.head[f] # <<>>
    BY <1>2, Stopped
  <2> HIDE DEF s
  <2>2. Opened(s, open)
    BY <1>2, <2>1 DEF Opened
  <2>3. Told(s, trusts \ {w})
    BY <1>2, <2>1 DEF Told
  <2> QED BY <2>1, <2>2, <2>3 DEF s
<1>7. ASSUME NEW w \in Watchers, NEW f \in open, NEW e \in SUBSET Events, e # {},
             NEW s, Sound(s), Noted(s, events), Opened(s, open), Told(s, trusts \ {w}),
             \A g \in Fds : ~Contains(s.head[g], w), Becomes(IoStart(s, w, f, e)),
             trusts' \subseteq trusts \cup {w}, UNCHANGED open
      PROVE  FdsInv'
  <2> DEFINE r == IoStart(s, w, f, e)
  <2>1. f \in Fds
    BY <1>2
  <2>2. /\ Sound(r) /\ Noted(r, events)
        /\ \A g \in Fds, v \in Watchers :
             Contains(r.head[g], v) <=> (g = f /\ v = w) \/ Contains(s.head[g], v)
        /\ r.got = s.got
        /\ \A g \in Fds : g # f => r.head[g] = s.head[g]
    BY <1>7, <2>1, Started
  <2> HIDE DEF r
  <2>3. Opened(r, open')
    BY <1>7, <2>2 DEF Opened
  <2>4. Told(r, trusts') /\ trusts' \subseteq Watchers
    BY <1>2, <1>7, <2>1, <2>2 DEF Told
  <2>5. Becomes(r)
    BY <1>7 DEF r
  <2> QED BY <1>1, <1>2, <1>7, <2>2, <2>3, <2>4, <2>5, GoesToState
<1>8. ASSUME NEW w \in Watchers, Stop(w) PROVE FdsInv'
  <2>1. Becomes(IoStop(S, w)) /\ trusts' = trusts \ {w} /\ UNCHANGED open
    BY <1>5, <1>8 DEF Stop
  <2> QED BY <1>1, <1>2, <1>6, <2>1, GoesToState
<1>9. ASSUME NEW w \in Watchers, NEW f \in Fds, NEW e \in SUBSET Events, e # {}, Start(w, f, e)
      PROVE  FdsInv'
  <2> DEFINE s == IF Active(w) THEN IoStop(S, w) ELSE S
  <2>1. f \in open /\ Becomes(IoStart(s, w, f, e)) /\ trusts' = trusts \cup {w} /\ UNCHANGED open
    BY <1>5, <1>9 DEF Start
  <2>2. /\ Sound(s) /\ Noted(s, events) /\ Opened(s, open) /\ Told(s, trusts \ {w})
        /\ \A g \in Fds : ~Contains(s.head[g], w)
    <3>1. CASE Active(w)
      BY <1>6, <3>1
    <3>2. CASE ~Active(w)
      BY <1>2, <1>4, <3>2 DEF Told
    <3> QED BY <3>1, <3>2
  <2> HIDE DEF s
  <2> QED BY <1>7, <1>9, <2>1, <2>2
<1>10. ASSUME NEW w \in Watchers, NEW e \in SUBSET Events, e # {}, Modify(w, e)
       PROVE  FdsInv'
  <2> DEFINE f == Fd(w)
             s == IoStop(S, w)
  <2>1. Active(w) /\ Becomes(IoStart(s, w, f, e)) /\ UNCHANGED <<open, trusts>>
    BY <1>5, <1>10 DEF Modify
  <2>2. f \in Fds /\ Contains(head[f], w)
    BY <2>1 DEF Active, Fd
  <2>3. f \in open
    <3>1. head[f] # <<>>
      BY <2>2 DEF Contains
    <3> QED BY <1>2, <1>3, <2>2, <3>1 DEF Opened
  <2>4. /\ Sound(s) /\ Noted(s, events) /\ Opened(s, open) /\ Told(s, trusts \ {w})
        /\ \A g \in Fds : ~Contains(s.head[g], w)
    BY <1>6
  <2> HIDE DEF f, s
  <2>5. trusts' \subseteq trusts \cup {w} /\ UNCHANGED open
    BY <2>1
  <2> QED BY <1>7, <1>10, <2>1, <2>3, <2>4, <2>5
<1>11. ASSUME NEW f \in Fds, Close(f) \/ Open(f) PROVE FdsInv'
  <2>1. UNCHANGED <<fdVars, got, trusts>>
    BY <1>11 DEF Close, Open
  <2>2. open' \subseteq Fds /\ \A g \in Fds : S.head[g] # <<>> /\ g \in open => g \in open'
    BY <1>2, <1>3, <1>11 DEF Close, Open
  <2>3. Becomes(S)
    BY <1>3, <2>1 DEF Becomes, fdVars
  <2>4. Opened(S, open')
    BY <1>2, <2>2 DEF Opened
  <2> QED BY <1>1, <1>2, <2>1, <2>2, <2>3, <2>4, GoesToState
<1> QED
  <2>1. \A e \in (SUBSET Events) \ {{}} : e \in SUBSET Events /\ e # {}
    OBVIOUS
  <2> QED BY <1>8, <1>9, <1>10, <1>11, <2>1 DEF Callback

LEMMA FdsInvAlways == Spec => []FdsInv
<1>1. FdsInv /\ [Next]_vars => FdsInv'
  <2>1. FdsInv /\ UNCHANGED vars => FdsInv'
    <3> SUFFICES ASSUME FdsInv, UNCHANGED vars PROVE FdsInv'
      OBVIOUS
    <3>1. /\ UNCHANGED <<open, head, fdchanges, asks, events, polls, pollidxs, got, trusts, at>>
          /\ State' = State
      BY DEF vars, fdVars, pollVars, State
    <3> QED BY <3>1 DEF FdsInv, TypeOK
  <2> QED BY <2>1, FdsInvReify, FdsInvPoll, FdsInvInvoke, FdsInvCallback DEF Next
<1> QED BY <1>1, FdsInvInit, PTL DEF Spec

--------------------------------------------------------------------------------
(* Before every poll, the kernel is asked for what the watchers want, and   *)
(* ev_verify's assertions about the lists hold (ev.c, fd_reify; ev_poll.c,  *)
(* poll_modify).                                                            *)
THEOREM PollAsksWhatIsWanted == Spec => []AskedIsWanted
<1>1. FdsInv => AskedIsWanted
  <2> SUFFICES ASSUME FdsInv PROVE AskedIsWanted
    OBVIOUS
  <2>1. State.head = head /\ State.asks = asks /\ Sound(State)
    BY SoundState
  <2>2. VerifyFds
    <3>1. ASSUME NEW f \in Fds, NEW g \in Fds, f # g PROVE ToSet(head[f]) \cap ToSet(head[g]) = {}
      <4>1. head[f] \in Seq(Watchers) /\ head[g] \in Seq(Watchers)
        BY <2>1 DEF Sound, Records
      <4>2. \A v \in ToSet(head[f]) : v \in Watchers
        BY <4>1, SeqDomain DEF ToSet
      <4> QED BY <2>1, <3>1, <4>1, <4>2, ListedOnce DEF Sound, Apart
    <3> QED BY <2>1, <3>1 DEF VerifyFds, Sound, Apart
  <2>3. ASSUME at = "poll", NEW f \in Fds
        PROVE  LET p == {i \in DOMAIN polls : polls[i].fd = f}
                   of == {w \in Watchers : Contains(head[f], w)}
               IN  IF of = {} THEN p = {} /\ pollidxs[f] = 0
                   ELSE /\ f \in open /\ p = {pollidxs[f]}
                        /\ polls[pollidxs[f]].events = UNION {asks[w] : w \in of}
    <3> DEFINE p == {i \in DOMAIN polls : polls[i].fd = f}
               of == {w \in Watchers : Contains(head[f], w)}
               U == UNION {asks[w] : w \in of}
    <3>1. ~Contains(fdchanges, f)
      BY <2>3 DEF FdsInv, Contains
    <3>2. head[f] \in Seq(Watchers)
      BY <2>1 DEF Sound, Records
    <3>3. of = ToSet(head[f])
      <4>1. \A v \in ToSet(head[f]) : v \in Watchers
        BY <3>2, SeqDomain DEF ToSet
      <4> QED BY <3>2, <4>1, ListedOnce
    <3>4. events[f] = U
      BY <2>1, <3>1, <3>3 DEF FdsInv, Noted, Wants, State
    <3>5. \A w \in of : asks[w] # {}
      BY <2>1 DEF Sound, Asking
    <3>6. DOMAIN polls = 1..Len(polls)
      BY SeqDomain DEF FdsInv, TypeOK
    <3>7. \A i \in 1..Len(polls) : pollidxs[polls[i].fd] = i
      BY DEF FdsInv, Indexed
    <3>8. Asked([arr |-> polls, idxs |-> pollidxs], f, U)
      BY <3>4 DEF FdsInv, Indexed
    <3>9. Len(polls) \in Nat
      BY SeqDomain DEF FdsInv, TypeOK
    <3>10. CASE of = {}
      <4>1. U = {}
        BY <3>10
      <4>2. pollidxs[f] = 0
        BY <3>8, <4>1 DEF Asked
      <4>3. p = {}
        BY <3>6, <3>7, <3>9, <4>2
      <4> QED BY <3>10, <4>2, <4>3
    <3>11. CASE of # {}
      <4>1. U # {}
        BY <3>5, <3>11
      <4>2. pollidxs[f] \in 1..Len(polls) /\ polls[pollidxs[f]] = [fd |-> f, events |-> U]
        BY <3>8, <4>1 DEF Asked
      <4>3. p = {pollidxs[f]} /\ polls[pollidxs[f]].events = U
        BY <3>6, <3>7, <4>2
      <4>4. f \in open
        <5>1. head[f] # <<>>
          BY <3>11 DEF Contains
        <5> QED BY <2>1, <5>1 DEF FdsInv, Opened
      <4> HIDE DEF p, of, U
      <4> QED BY <3>11, <4>3, <4>4 DEF p, of, U
    <3> QED BY <3>10, <3>11
  <2> QED BY <2>2, <2>3 DEF AskedIsWanted
<1> QED BY <1>1, FdsInvAlways, PTL

(* Whoever the program takes for active is so, or is pending with an error  *)
(* (ev.c, fd_kill).                                                         *)
THEOREM KilledAreTold == Spec => []NobodyStopsSilently
<1>1. FdsInv => NobodyStopsSilently
  BY SoundState DEF NobodyStopsSilently, Told, Active
<1> QED BY <1>1, FdsInvAlways, PTL

--------------------------------------------------------------------------------
(* The threads and their eventfds, with any number of edges and pauses:     *)
(* whoever calls Event::end() finds what it was called for.                 *)

Counters ==
  /\ evUpdate \in 0..Full /\ errEvent \in 0..Full /\ cmd \in 0..Full

(* A callback that is about to be called, or an event that is being         *)
(* handled, has its counter; only its own end() takes it.                   *)
ThreadsInv == Counters /\ NobodySleepsInEnd

LEMMA RaiseFills ==
  ASSUME NEW e, NEW f, f \in {1} \cup (IF heavy THEN {Full} ELSE {})
  PROVE  f \in 0..Full /\ f > 0
BY DEF Full

LEMMA ThreadsInvInit == ThreadsInit => ThreadsInv
BY DEF ThreadsInit, ThreadsInv, Counters, NobodySleepsInEnd, Full

LEMMA ThreadsInvLoop == ThreadsInv /\ Loop => ThreadsInv'
<1> SUFFICES ASSUME ThreadsInv, Loop PROVE ThreadsInv'
  OBVIOUS
<1> USE DEF ThreadsInv, Counters, counters, errorVars
<1>1. CASE Inserting
  <2>1. UNCHANGED <<epc, last, evUpdate, errEvent, cmd, pending, interrupted>>
    BY <1>1 DEF Inserting
  <2> QED BY <2>1 DEF NobodySleepsInEnd
<1>2. CASE Update
  <2>1. evUpdate' \in 0..Full /\ evUpdate' > 0
        /\ UNCHANGED <<epc, last, errEvent, cmd, pending, interrupted>>
    BY <1>2, RaiseFills DEF Update, Raise
  <2> QED BY <2>1 DEF NobodySleepsInEnd
<1>3. CASE Poll
  <2>1. /\ "error" \in pending' => errEvent > 0
        /\ "que" \in pending' => cmd > 0
    BY <1>3 DEF Poll, Ready, Callbacks
  <2>2. UNCHANGED <<epc, last, evUpdate, errEvent, cmd, interrupted>>
    BY <1>3 DEF Poll
  <2> QED BY <2>1, <2>2 DEF NobodySleepsInEnd
<1>4. CASE ErrorHandler
  <2>1. errEvent' = 0 /\ pending' = pending \ {"error"}
        /\ UNCHANGED <<epc, last, evUpdate, cmd, interrupted>>
    BY <1>4 DEF ErrorHandler, End
  <2> QED BY <2>1 DEF NobodySleepsInEnd, Full
<1>5. CASE ErrPauseReset
  <2>1. pending' \subseteq pending
        /\ UNCHANGED <<epc, last, evUpdate, errEvent, cmd, interrupted>>
    BY <1>5 DEF ErrPauseReset, PauseReset
  <2> QED BY <2>1 DEF NobodySleepsInEnd
<1>6. CASE Que
  <2>1. UNCHANGED <<epc, last, evUpdate, errEvent, interrupted>>
    BY <1>6 DEF Que
  <2>2. \/ cmd' = 0 /\ pending' = pending \ {"que"}
        \/ UNCHANGED <<cmd, pending>>
    BY <1>6 DEF Que, QueCb, End
  <2> QED BY <2>1, <2>2 DEF NobodySleepsInEnd, Full
<1> QED BY <1>1, <1>2, <1>3, <1>4, <1>5, <1>6 DEF Loop

LEMMA ThreadsInvListener == ThreadsInv /\ Listener => ThreadsInv'
<1> SUFFICES ASSUME ThreadsInv, Listener PROVE ThreadsInv'
  OBVIOUS
<1> USE DEF ThreadsInv, Counters, counters, errorVars
<1>1. CASE Wait
  <2>1. last' = "update" => evUpdate > 0
    <3>1. last' = "update" => Arrivals["update"]
      BY <1>1 DEF Wait, Found
    <3>2. Arrivals.update = (evUpdate > 0)
      BY DEF Arrivals
    <3> QED BY <3>1, <3>2
  <2>2. UNCHANGED <<evUpdate, errEvent, cmd, pending, interrupted>>
    BY <1>1 DEF Wait
  <2> QED BY <2>1, <2>2 DEF NobodySleepsInEnd
<1>2. CASE HandleUpdate
  <2>1. evUpdate' = 0 /\ epc' = "wait" /\ UNCHANGED <<errEvent, cmd, pending>>
    BY <1>2 DEF HandleUpdate, End
  <2> QED BY <2>1 DEF NobodySleepsInEnd, Full
<1>3. CASE HandlePin \/ HandleOther
  <2>1. epc' # "handle" /\ UNCHANGED <<evUpdate, errEvent, cmd, pending>>
    BY <1>3 DEF HandlePin, HandleOther
  <2> QED BY <2>1 DEF NobodySleepsInEnd
<1>4. CASE RaiseError
  <2>1. errEvent' \in 0..Full /\ errEvent' > 0 /\ epc' = "wait"
        /\ UNCHANGED <<evUpdate, cmd, pending>>
    BY <1>4, RaiseFills DEF RaiseError, Raise
  <2> QED BY <2>1 DEF NobodySleepsInEnd
<1> QED BY <1>1, <1>2, <1>3, <1>4 DEF Listener

LEMMA ThreadsInvOthers ==
  /\ ThreadsInv /\ (Interrupt \/ Pause \/ RaiseCmd \/ Resume \/ Edge \/ Expire) => ThreadsInv'
  /\ ThreadsInv /\ UNCHANGED threadVars => ThreadsInv'
<1> USE DEF ThreadsInv, Counters, counters, errorVars
<1>1. ThreadsInv /\ Interrupt => ThreadsInv'
  BY DEF Interrupt, NobodySleepsInEnd
<1>2. ASSUME ThreadsInv, RaiseCmd PROVE ThreadsInv'
  <2>1. cmd' \in 0..Full /\ cmd' > 0
        /\ UNCHANGED <<epc, last, evUpdate, errEvent, pending, interrupted>>
    BY <1>2, RaiseFills DEF RaiseCmd, Raise
  <2> QED BY <1>2, <2>1 DEF NobodySleepsInEnd
<1>3. ASSUME ThreadsInv, Pause \/ Resume \/ Edge \/ Expire \/ UNCHANGED threadVars
      PROVE  ThreadsInv'
  <2>1. UNCHANGED <<epc, last, evUpdate, errEvent, cmd, pending, interrupted>>
    BY <1>3 DEF Pause, Resume, Edge, Expire, threadVars
  <2> QED BY <1>3, <2>1 DEF NobodySleepsInEnd
<1> QED BY <1>1, <1>2, <1>3

(* No callback of the loop sleeps in Event::end(), nor does the listener as *)
(* long as epoll_wait is not interrupted.                                   *)
THEOREM EndFindsItsCount == ThreadsSpec => []NobodySleepsInEnd
<1>1. ThreadsInv /\ [ThreadsNext]_threadVars => ThreadsInv'
  BY ThreadsInvLoop, ThreadsInvListener, ThreadsInvOthers DEF ThreadsNext
<1>2. ThreadsInv => NobodySleepsInEnd
  BY DEF ThreadsInv
<1> QED BY <1>1, <1>2, ThreadsInvInit, PTL DEF ThreadsSpec

================================================================================
