---------------------------- MODULE CtlServer_proofs ----------------------------
(***************************************************************************)
(* The control server with any number of connections and descriptors:      *)
(* descriptors that are used again never confuse two clients.              *)
(***************************************************************************)
EXTENDS CtlServer, TLAPS

(* Who has what.  A client is listened to exactly while it lives, under its *)
(* own descriptor; one that is dropped has given its descriptor back.       *)
HeadsAreOwn ==
  \A f \in Fds, c \in Conns : c \in heads[f] <=> object[c] = "live" /\ fd[c] = f

DroppedHaveNone == \A c \in Conns : object[c] \in {"marked", "freed"} => fd[c] = NoFd

WaitingAreNew == \A c \in backlog : object[c] = "none"

LiveAreListed ==
  /\ \A c \in Conns : object[c] = "live" => c \in clients
  /\ \A c \in clients : object[c] # "none"

(* A client that is to be called is alive and has something to receive, be  *)
(* it the end.                                                              *)
CalledForSomething ==
  \A c \in Conns :
    c \in pendings => object[c] = "live" /\ (unread[c] > 0 \/ c \in hungUp)

(* poll() would only be asked about open descriptors, at any moment.        *)
OpenArePolled == polled \ changed \subseteq Open

Inv ==
  /\ TypeOK
  /\ DescriptorsAreOwn
  /\ HeadsAreOwn
  /\ DroppedHaveNone
  /\ WaitingAreNew
  /\ LiveAreListed
  /\ CalledForSomething
  /\ OpenArePolled
  /\ OnlyGoneAreDropped
  /\ MessagesAreOwn

LEMMA InvInit == Init => Inv
<1> SUFFICES ASSUME Init PROVE Inv
  OBVIOUS
<1> USE DEF Init
<1>1. Open = {}
  BY DEF Open
<1>2. conn \in [Open -> Conns]
  BY <1>1
<1>3. TypeOK
  BY <1>1, <1>2, CtlServerAssumption DEF TypeOK, Watchers
<1>4. DescriptorsAreOwn /\ HeadsAreOwn
  BY <1>1 DEF DescriptorsAreOwn, HeadsAreOwn
<1> QED BY <1>1, <1>3, <1>4
        DEF Inv, DroppedHaveNone, WaitingAreNew, LiveAreListed, CalledForSomething,
            OpenArePolled, OnlyGoneAreDropped, MessagesAreOwn

(* The peers touch nothing but what they sent and whether they are there.   *)
LEMMA InvPeer == Inv /\ Peer => Inv'
<1> SUFFICES ASSUME Inv, NEW c \in Conns, Connect(c) \/ Send(c) \/ HangUp(c)
             PROVE  Inv'
  BY DEF Peer
<1> USE DEF libevVars
<1>1. /\ UNCHANGED <<conn, object, fd, clients, heads, changed, polled, pendings,
                     got, up>>
      /\ Open' = Open
  BY DEF Connect, Send, HangUp, Open
<1>2. hungUp \subseteq hungUp' /\ hungUp' \subseteq Conns
  BY DEF Connect, Send, HangUp, Inv, TypeOK
<1>3. backlog' \subseteq Conns /\ \A d \in backlog' : object[d] = "none"
  BY DEF Connect, Send, HangUp, Inv, TypeOK, WaitingAreNew
<1>4. unread' \in [Conns -> 0..MaxSent]
  <2>1. unread \in [Conns -> 0..MaxSent] /\ MaxSent \in Nat
    BY CtlServerAssumption DEF Inv, TypeOK
  <2>2. CASE Connect(c)
    BY <2>1, <2>2 DEF Connect
  <2>3. CASE Send(c)
    <3>1. unread[c] + 1 \in 0..MaxSent
      BY <2>1, <2>3 DEF Send
    <3> QED BY <2>1, <2>3, <3>1 DEF Send
  <2>4. CASE HangUp(c)
    BY <2>1, <2>4 DEF HangUp
  <2> QED BY <2>2, <2>3, <2>4
<1>5. \A d \in Conns : unread[d] > 0 => unread'[d] > 0 \/ d \in hungUp'
  <2>1. unread \in [Conns -> 0..MaxSent] /\ MaxSent \in Nat
    BY CtlServerAssumption DEF Inv, TypeOK
  <2>2. CASE Connect(c)
    BY <2>2 DEF Connect
  <2>3. CASE Send(c)
    BY <2>1, <2>3 DEF Send
  <2>4. CASE HangUp(c)
    BY <2>1, <2>4 DEF HangUp
  <2> QED BY <2>2, <2>3, <2>4
<1>6. TypeOK'
  BY <1>1, <1>2, <1>3, <1>4 DEF Inv, TypeOK, Open, Watchers
<1>7. DescriptorsAreOwn' /\ HeadsAreOwn' /\ DroppedHaveNone' /\ LiveAreListed'
  BY <1>1 DEF Inv, DescriptorsAreOwn, HeadsAreOwn, DroppedHaveNone, LiveAreListed
<1>8. WaitingAreNew' /\ OpenArePolled' /\ MessagesAreOwn'
  BY <1>1, <1>3 DEF Inv, WaitingAreNew, OpenArePolled, MessagesAreOwn
<1>9. CalledForSomething' /\ OnlyGoneAreDropped'
  BY <1>1, <1>2, <1>5 DEF Inv, CalledForSomething, OnlyGoneAreDropped
<1> QED BY <1>6, <1>7, <1>8, <1>9 DEF Inv

LEMMA InvPoll == Inv /\ Poll => Inv'
<1> SUFFICES ASSUME Inv, Poll PROVE Inv'
  OBVIOUS
<1> USE DEF peerVars
<1>1. /\ UNCHANGED <<backlog, unread, hungUp, conn, object, fd, clients, heads,
                     got, up>>
      /\ Open' = Open /\ polled' = Reified /\ changed' = {}
  BY DEF Poll, Open
<1>2. Reified \subseteq Open /\ Open \subseteq Fds
  <2>1. \A f \in Fds : heads[f] # {} => f \in Open
    BY DEF Inv, TypeOK, HeadsAreOwn, DescriptorsAreOwn
  <2> QED BY <2>1 DEF Inv, TypeOK, OpenArePolled, Reified
<1>3. \A c \in Conns :
        c \in pendings' => object[c] = "live" /\ (unread[c] > 0 \/ c \in hungUp)
  <2> SUFFICES ASSUME NEW c \in Conns, c \in pendings'
               PROVE  object[c] = "live" /\ (unread[c] > 0 \/ c \in hungUp)
    OBVIOUS
  <2>1. PICK f \in Reified \cap Open : Readable(f) /\ c \in heads[f]
    BY CtlServerAssumption DEF Poll
  <2>2. object[c] = "live" /\ fd[c] = f /\ conn[f] = c
    BY <1>2, <2>1 DEF Inv, HeadsAreOwn, DescriptorsAreOwn
  <2> QED BY <2>1, <2>2 DEF Readable
<1>4. pendings' \subseteq Watchers
  <2> SUFFICES ASSUME NEW w \in pendings' PROVE w \in Watchers
    OBVIOUS
  <2>1. CASE w = Server
    BY <2>1 DEF Watchers
  <2>2. CASE w # Server
    <3>1. PICK f \in Reified \cap Open : w \in heads[f]
      BY <2>2 DEF Poll
    <3> QED BY <1>2, <3>1 DEF Inv, TypeOK, Watchers
  <2> QED BY <2>1, <2>2
<1>5. TypeOK'
  BY <1>1, <1>2, <1>4 DEF Inv, TypeOK, Open, Watchers
<1>6. DescriptorsAreOwn' /\ HeadsAreOwn' /\ DroppedHaveNone' /\ LiveAreListed'
      /\ WaitingAreNew' /\ MessagesAreOwn' /\ OnlyGoneAreDropped'
  BY <1>1 DEF Inv, DescriptorsAreOwn, HeadsAreOwn, DroppedHaveNone, LiveAreListed,
              WaitingAreNew, MessagesAreOwn, OnlyGoneAreDropped
<1>7. CalledForSomething' /\ OpenArePolled'
  BY <1>1, <1>2, <1>3 DEF CalledForSomething, OpenArePolled
<1> QED BY <1>5, <1>6, <1>7 DEF Inv

(* What is known of a client that is called. *)
LEMMA Called ==
  ASSUME Inv, NEW c \in Conns, c \in pendings
  PROVE  /\ object[c] = "live" /\ fd[c] \in Open /\ fd[c] \in Fds /\ conn[fd[c]] = c
         /\ unread[c] > 0 \/ c \in hungUp
         /\ \A f \in Fds : c \in heads[f] <=> f = fd[c]
         /\ \A d \in Conns : object[d] = "live" /\ d # c => fd[d] # fd[c]
<1>1. object[c] = "live" /\ (unread[c] > 0 \/ c \in hungUp)
  BY DEF Inv, CalledForSomething
<1>2. fd[c] \in Open /\ fd[c] \in Fds /\ conn[fd[c]] = c
  BY <1>1 DEF Inv, DescriptorsAreOwn, TypeOK
<1>3. \A f \in Fds : c \in heads[f] <=> f = fd[c]
  BY <1>1 DEF Inv, HeadsAreOwn
<1>4. \A d \in Conns : object[d] = "live" /\ d # c => fd[d] # fd[c]
  BY <1>2 DEF Inv, DescriptorsAreOwn
<1> QED BY <1>1, <1>2, <1>3, <1>4

LEMMA InvReceive ==
  ASSUME NEW c \in Conns
  PROVE  Inv /\ Receive(c) => Inv'
<1> SUFFICES ASSUME Inv, Receive(c) PROVE Inv'
  OBVIOUS
<1>1. /\ UNCHANGED <<backlog, hungUp, conn, object, fd, clients, heads, changed,
                     polled, up>>
      /\ Open' = Open /\ pendings' = pendings \ {c} /\ c \in pendings
      /\ got' = [got EXCEPT ![c] = @ \cup {conn[fd[c]]}]
  BY DEF Receive, Open
<1>2. conn[fd[c]] = c
  BY <1>1, Called
<1>3. PICK n \in 1..MaxSent :
        n <= unread[c] /\ unread' = [unread EXCEPT ![c] = @ - n]
  BY <1>2 DEF Receive
<1>4. /\ unread' \in [Conns -> 0..MaxSent]
      /\ \A d \in Conns \ {c} : unread'[d] = unread[d]
  BY <1>3, CtlServerAssumption DEF Inv, TypeOK
<1>5. /\ got' \in [Conns -> SUBSET Conns]
      /\ \A d \in Conns : got'[d] \subseteq {d}
  BY <1>1, <1>2 DEF Inv, TypeOK, MessagesAreOwn
<1>6. TypeOK'
  BY <1>1, <1>4, <1>5 DEF Inv, TypeOK, Open, Watchers
<1>7. DescriptorsAreOwn' /\ HeadsAreOwn' /\ DroppedHaveNone' /\ LiveAreListed'
      /\ WaitingAreNew' /\ OpenArePolled' /\ OnlyGoneAreDropped'
  BY <1>1 DEF Inv, DescriptorsAreOwn, HeadsAreOwn, DroppedHaveNone, LiveAreListed,
              WaitingAreNew, OpenArePolled, OnlyGoneAreDropped
<1>8. CalledForSomething'
  BY <1>1, <1>4 DEF Inv, CalledForSomething
<1>9. MessagesAreOwn'
  BY <1>5 DEF MessagesAreOwn
<1> QED BY <1>6, <1>7, <1>8, <1>9 DEF Inv

(* A client is dropped: its descriptor, its watcher and its place under the *)
(* descriptor go together.                                                  *)
LEMMA InvReceiveNothing ==
  ASSUME NEW c \in Conns
  PROVE  Inv /\ ReceiveNothing(c) => Inv'
<1> SUFFICES ASSUME Inv, ReceiveNothing(c) PROVE Inv'
  OBVIOUS
<1> DEFINE f == fd[c]
<1>1. /\ UNCHANGED <<backlog, unread, hungUp, clients, polled, got, up>>
      /\ c \in pendings /\ pendings' = pendings \ {c}
      /\ heads' = [g \in Fds |-> heads[g] \ {c}]
      /\ changed' = changed \cup {g \in Fds : c \in heads[g]}
      /\ conn' = [g \in Open \ {f} |-> conn[g]]
      /\ fd' = [fd EXCEPT ![c] = NoFd]
      /\ object' = [object EXCEPT ![c] = "marked"]
  BY DEF ReceiveNothing, DeleteLater, Unwatched, Without, FdAfterDelete, peerVars
<1>2. /\ object[c] = "live" /\ f \in Open /\ f \in Fds /\ conn[f] = c
      /\ unread[c] > 0 \/ c \in hungUp
      /\ \A g \in Fds : c \in heads[g] <=> g = f
      /\ \A d \in Conns : object[d] = "live" /\ d # c => fd[d] # f
  BY <1>1, Called
<1>3. c \in hungUp
  <2>1. unread[c] = 0
    BY <1>2 DEF ReceiveNothing, NothingToRead
  <2> QED BY <1>2, <2>1
<1>4. /\ Open' = Open \ {f} /\ \A g \in Open' : conn'[g] = conn[g]
      /\ conn' \in [Open' -> Conns]
  <2>1. Open' = Open \ {f}
    BY <1>1 DEF Open
  <2>2. \A g \in Open' : conn'[g] = conn[g]
    BY <1>1, <2>1
  <2> QED BY <1>1, <2>1, <2>2 DEF Inv, TypeOK
<1>5. /\ fd'[c] = NoFd /\ object'[c] = "marked"
      /\ \A d \in Conns \ {c} : fd'[d] = fd[d] /\ object'[d] = object[d]
      /\ fd' \in [Conns -> Fds \cup {NoFd}]
      /\ object' \in [Conns -> {"none", "live", "marked", "freed"}]
  BY <1>1 DEF Inv, TypeOK
<1>6. changed' = changed \cup {f}
  BY <1>1, <1>2
<1> HIDE DEF f
<1>7. TypeOK'
  BY <1>1, <1>2, <1>4, <1>5, <1>6 DEF Inv, TypeOK, Watchers
<1>8. DescriptorsAreOwn'
  <2>1. \A d \in Conns : object'[d] = "live" => fd'[d] \in Open' /\ conn'[fd'[d]] = d
    BY <1>2, <1>4, <1>5 DEF Inv, DescriptorsAreOwn
  <2>2. \A g \in Open' : object'[conn'[g]] = "live" /\ fd'[conn'[g]] = g
    <3> SUFFICES ASSUME NEW g \in Open'
                 PROVE  object'[conn'[g]] = "live" /\ fd'[conn'[g]] = g
      OBVIOUS
    <3>1. g \in Open /\ g # f /\ conn'[g] = conn[g] /\ conn[g] \in Conns
      BY <1>4 DEF Inv, TypeOK
    <3>2. object[conn[g]] = "live" /\ fd[conn[g]] = g
      BY <3>1 DEF Inv, DescriptorsAreOwn
    <3>3. conn[g] # c
      BY <3>1, <3>2 DEF f
    <3> QED BY <1>5, <3>1, <3>2, <3>3
  <2> QED BY <2>1, <2>2 DEF DescriptorsAreOwn
<1>9. HeadsAreOwn'
  <2> SUFFICES ASSUME NEW g \in Fds, NEW d \in Conns
               PROVE  d \in heads'[g] <=> object'[d] = "live" /\ fd'[d] = g
    BY DEF HeadsAreOwn
  <2>1. heads'[g] = heads[g] \ {c}
    BY <1>1
  <2>2. CASE d = c
    BY <1>5, <2>1, <2>2
  <2>3. CASE d # c
    BY <1>5, <2>1, <2>3 DEF Inv, HeadsAreOwn
  <2> QED BY <2>2, <2>3
<1>10. DroppedHaveNone' /\ LiveAreListed' /\ WaitingAreNew'
  <2>1. backlog' \subseteq Conns \ {c}
    BY <1>1, <1>2 DEF Inv, TypeOK, WaitingAreNew
  <2> QED BY <1>1, <1>5, <2>1
          DEF Inv, DroppedHaveNone, LiveAreListed, WaitingAreNew
<1>11. CalledForSomething' /\ OnlyGoneAreDropped' /\ MessagesAreOwn'
  BY <1>1, <1>3, <1>5 DEF Inv, CalledForSomething, OnlyGoneAreDropped, MessagesAreOwn
<1>12. OpenArePolled'
  BY <1>1, <1>4, <1>6 DEF Inv, OpenArePolled
<1> QED BY <1>7, <1>8, <1>9, <1>10, <1>11, <1>12 DEF Inv

(* A client comes.  The clients swept meanwhile have no descriptor and no   *)
(* watcher left, so nothing of the others is touched.                       *)
LEMMA InvAccept ==
  ASSUME NEW c \in Conns
  PROVE  Inv /\ Accept(c) => Inv'
<1> SUFFICES ASSUME Inv, Accept(c) PROVE Inv'
  OBVIOUS
<1>1. PICK f \in Fds :
        /\ Lowest(f)
        /\ conn' = [g \in (Open \cup {f}) \ ClosedBy(Swept) |->
                      IF g = f THEN c ELSE conn[g]]
        /\ fd' = [fd EXCEPT ![c] = f]
        /\ heads' = [g \in Fds |->
                       (IF g = f THEN heads[g] \cup {c} ELSE heads[g]) \ Swept]
        /\ changed' = changed \cup {f} \cup {g \in Fds : heads[g] \cap Swept # {}}
  BY DEF Accept, TcpCtlClient, CtlClientWatches
<1>2. /\ UNCHANGED <<unread, hungUp, polled, got, up>>
      /\ object' = [d \in Conns |-> IF d = c THEN "live"
                                    ELSE IF d \in Swept THEN "freed"
                                    ELSE object[d]]
      /\ clients' = (clients \ Swept) \cup {c}
      /\ backlog' = backlog \ {c} /\ pendings' = pendings \ ({Server} \cup Swept)
      /\ up /\ c \in backlog
  BY DEF Accept, Add
<1>3. object[c] = "none" /\ f \notin Open /\ Open \subseteq Fds
  BY <1>1, <1>2 DEF Inv, WaitingAreNew, TypeOK, Lowest, Free
<1>4. Swept \subseteq Conns
      /\ \A d \in Swept : object[d] = "marked" /\ fd[d] = NoFd /\ d \in hungUp
  BY <1>2 DEF Swept, Marked, Inv, DroppedHaveNone, OnlyGoneAreDropped
<1>5. NoFd \notin Fds /\ Server \notin Conns
  BY CtlServerAssumption
<1>6. ClosedBy(Swept) \cap Fds = {}
  BY <1>4, <1>5 DEF ClosedBy
<1>7. /\ Open' = Open \cup {f}
      /\ conn'[f] = c /\ \A g \in Open : conn'[g] = conn[g]
      /\ conn' \in [Open' -> Conns]
  <2>1. (Open \cup {f}) \ ClosedBy(Swept) = Open \cup {f}
    BY <1>1, <1>3, <1>6
  <2>2. conn' = [g \in Open \cup {f} |-> IF g = f THEN c ELSE conn[g]]
    BY <1>1, <2>1
  <2>3. Open' = Open \cup {f}
    BY <2>2 DEF Open
  <2>4. conn'[f] = c /\ \A g \in Open : conn'[g] = conn[g]
    BY <1>3, <2>2
  <2> QED BY <2>2, <2>3, <2>4 DEF Inv, TypeOK
<1>8. /\ fd'[c] = f /\ object'[c] = "live"
      /\ \A d \in Conns \ {c} : fd'[d] = fd[d]
      /\ \A d \in Conns \ {c} :
           object'[d] = IF d \in Swept THEN "freed" ELSE object[d]
      /\ fd' \in [Conns -> Fds \cup {NoFd}]
      /\ object' \in [Conns -> {"none", "live", "marked", "freed"}]
  <2>1. fd'[c] = f /\ \A d \in Conns \ {c} : fd'[d] = fd[d]
    BY <1>1 DEF Inv, TypeOK
  <2>2. fd' \in [Conns -> Fds \cup {NoFd}]
    BY <1>1 DEF Inv, TypeOK
  <2> QED BY <1>2, <2>1, <2>2 DEF Inv, TypeOK
<1>9. \A g \in Fds : heads[g] \cap Swept = {}
  BY <1>4 DEF Inv, HeadsAreOwn
<1>10. /\ changed' = changed \cup {f}
       /\ \A g \in Fds : heads'[g] = IF g = f THEN heads[g] \cup {c} ELSE heads[g]
  <2>1. c \notin Swept
    BY <1>3, <1>4
  <2> QED BY <1>1, <1>9, <2>1
<1>11. TypeOK'
  <2>1. heads' \in [Fds -> SUBSET Conns]
    BY <1>1 DEF Inv, TypeOK
  <2>2. changed' \subseteq Fds /\ Open' \subseteq Fds
    BY <1>1, <1>3, <1>7, <1>10 DEF Inv, TypeOK
  <2>3. clients' \subseteq Conns /\ backlog' \subseteq Conns
        /\ pendings' \subseteq Watchers
    BY <1>2 DEF Inv, TypeOK
  <2> QED BY <1>2, <1>7, <1>8, <2>1, <2>2, <2>3 DEF Inv, TypeOK, Watchers
<1>12. DescriptorsAreOwn'
  <2>1. \A d \in Conns : object'[d] = "live" => fd'[d] \in Open' /\ conn'[fd'[d]] = d
    <3> SUFFICES ASSUME NEW d \in Conns, object'[d] = "live"
                 PROVE  fd'[d] \in Open' /\ conn'[fd'[d]] = d
      OBVIOUS
    <3>1. CASE d = c
      BY <1>7, <1>8, <3>1
    <3>2. CASE d # c
      <4>1. object[d] = "live" /\ fd'[d] = fd[d]
        BY <1>8, <3>2
      <4> QED BY <1>7, <4>1 DEF Inv, DescriptorsAreOwn
    <3> QED BY <3>1, <3>2
  <2>2. \A g \in Open' : object'[conn'[g]] = "live" /\ fd'[conn'[g]] = g
    <3> SUFFICES ASSUME NEW g \in Open'
                 PROVE  object'[conn'[g]] = "live" /\ fd'[conn'[g]] = g
      OBVIOUS
    <3>1. CASE g = f
      BY <1>7, <1>8, <3>1
    <3>2. CASE g # f
      <4>1. g \in Open /\ conn'[g] = conn[g] /\ conn[g] \in Conns
        BY <1>7, <3>2 DEF Inv, TypeOK
      <4>2. object[conn[g]] = "live" /\ fd[conn[g]] = g
        BY <4>1 DEF Inv, DescriptorsAreOwn
      <4>3. conn[g] # c /\ conn[g] \notin Swept
        BY <1>3, <1>4, <4>2
      <4> QED BY <1>8, <4>1, <4>2, <4>3
    <3> QED BY <3>1, <3>2
  <2> QED BY <2>1, <2>2 DEF DescriptorsAreOwn
<1>13. HeadsAreOwn'
  <2> SUFFICES ASSUME NEW g \in Fds, NEW d \in Conns
               PROVE  d \in heads'[g] <=> object'[d] = "live" /\ fd'[d] = g
    BY DEF HeadsAreOwn
  <2>1. CASE d = c
    <3>1. c \notin heads[g]
      BY <1>3 DEF Inv, HeadsAreOwn
    <3> QED BY <1>8, <1>10, <2>1, <3>1
  <2>2. CASE d # c
    <3>1. d \in heads'[g] <=> d \in heads[g]
      BY <1>10, <2>2
    <3>2. object'[d] = "live" <=> object[d] = "live"
      BY <1>4, <1>8, <2>2
    <3> QED BY <1>8, <2>2, <3>1, <3>2 DEF Inv, HeadsAreOwn
  <2> QED BY <2>1, <2>2
<1>14. DroppedHaveNone' /\ OnlyGoneAreDropped'
  <2> SUFFICES ASSUME NEW d \in Conns, object'[d] \in {"marked", "freed"}
               PROVE  fd'[d] = NoFd /\ (up' => d \in hungUp')
    BY DEF DroppedHaveNone, OnlyGoneAreDropped
  <2>1. d # c
    BY <1>8
  <2>2. d \in Swept \/ object[d] \in {"marked", "freed"}
    BY <1>8, <2>1
  <2> QED BY <1>2, <1>4, <1>8, <2>1, <2>2 DEF Inv, DroppedHaveNone, OnlyGoneAreDropped
<1>15. LiveAreListed' /\ WaitingAreNew'
  <2>1. \A d \in Conns : object'[d] = "live" => d \in clients'
    <3> SUFFICES ASSUME NEW d \in Conns, object'[d] = "live", d # c
                 PROVE  d \in clients'
      BY <1>2
    <3>1. object[d] = "live" /\ d \notin Swept
      BY <1>8
    <3> QED BY <1>2, <3>1 DEF Inv, LiveAreListed
  <2>2. \A d \in backlog' : object'[d] = "none"
    BY <1>2, <1>4, <1>8 DEF Inv, WaitingAreNew, TypeOK
  <2>3. \A d \in clients' : object'[d] # "none"
    BY <1>2, <1>8 DEF Inv, LiveAreListed, TypeOK
  <2> QED BY <2>1, <2>2, <2>3 DEF LiveAreListed, WaitingAreNew
<1>16. CalledForSomething' /\ MessagesAreOwn'
  <2>1. \A d \in Conns : d \in pendings' => d \in pendings /\ d # c /\ d \notin Swept
    BY <1>2, <1>3 DEF Inv, CalledForSomething
  <2> QED BY <1>2, <1>8, <2>1 DEF Inv, CalledForSomething, MessagesAreOwn
<1>17. OpenArePolled'
  BY <1>2, <1>7, <1>10 DEF Inv, OpenArePolled
<1> QED BY <1>11, <1>12, <1>13, <1>14, <1>15, <1>16, <1>17 DEF Inv

LEMMA InvAcceptFails == Inv /\ AcceptFails => Inv'
<1> SUFFICES ASSUME Inv, AcceptFails PROVE Inv'
  OBVIOUS
<1>1. /\ UNCHANGED <<backlog, unread, hungUp, conn, object, fd, clients, heads,
                     changed, polled, got, up>>
      /\ Open' = Open /\ pendings' \subseteq pendings
  BY DEF AcceptFails, Open, peerVars
<1> QED BY <1>1 DEF Inv, TypeOK, Open, Watchers, DescriptorsAreOwn, HeadsAreOwn,
                    DroppedHaveNone, LiveAreListed, WaitingAreNew,
                    CalledForSomething, OpenArePolled, OnlyGoneAreDropped,
                    MessagesAreOwn

(* The server goes, and takes every client with it. *)
LEMMA InvShutdown == Inv /\ Shutdown => Inv'
<1> SUFFICES ASSUME Inv, Shutdown PROVE Inv'
  OBVIOUS
<1>1. /\ up' = FALSE /\ UNCHANGED <<backlog, unread, hungUp, clients, polled, got>>
      /\ conn' = [g \in Open \ ClosedBy(clients) |-> conn[g]]
      /\ object' = [d \in Conns |-> IF d \in clients THEN "freed" ELSE object[d]]
      /\ fd' = [d \in Conns |-> IF d \in clients THEN NoFd ELSE fd[d]]
      /\ heads' = [g \in Fds |-> heads[g] \ clients]
      /\ changed' = changed \cup {g \in Fds : heads[g] \cap clients # {}}
      /\ pendings' = pendings \ ({Server} \cup clients)
  BY DEF Shutdown, peerVars
<1>2. \A g \in Open : conn[g] \in clients /\ fd[conn[g]] = g
  BY DEF Inv, DescriptorsAreOwn, LiveAreListed, TypeOK
<1>3. Open' = {}
  <2>1. Open' = Open \ ClosedBy(clients)
    BY <1>1 DEF Open
  <2> QED BY <1>2, <2>1 DEF ClosedBy
<1>4. conn' \in [Open' -> Conns]
  <2>1. Open \ ClosedBy(clients) = {}
    BY <1>2 DEF ClosedBy
  <2> QED BY <1>1, <1>3, <2>1
<1>5. \A d \in Conns : object'[d] # "live" /\ d \notin pendings'
  BY <1>1 DEF Inv, LiveAreListed, CalledForSomething
<1>6. \A g \in Fds : heads'[g] = {}
  BY <1>1 DEF Inv, HeadsAreOwn, LiveAreListed, TypeOK
<1>7. TypeOK'
  <2>1. fd' \in [Conns -> Fds \cup {NoFd}] /\ heads' \in [Fds -> SUBSET Conns]
        /\ object' \in [Conns -> {"none", "live", "marked", "freed"}]
    BY <1>1 DEF Inv, TypeOK
  <2> QED BY <1>1, <1>3, <1>4, <2>1 DEF Inv, TypeOK, Watchers
<1>8. DescriptorsAreOwn' /\ HeadsAreOwn' /\ LiveAreListed' /\ CalledForSomething'
  <2>1. \A d \in clients' : object'[d] # "none"
    BY <1>1 DEF Inv, TypeOK
  <2> QED BY <1>3, <1>5, <1>6, <2>1
          DEF DescriptorsAreOwn, HeadsAreOwn, LiveAreListed, CalledForSomething
<1>9. DroppedHaveNone' /\ OnlyGoneAreDropped' /\ MessagesAreOwn'
  BY <1>1 DEF Inv, DroppedHaveNone, OnlyGoneAreDropped, MessagesAreOwn
<1>10. WaitingAreNew'
  <2>1. \A d \in backlog : d \in Conns /\ d \notin clients
    BY DEF Inv, WaitingAreNew, LiveAreListed, TypeOK
  <2> QED BY <1>1, <2>1 DEF Inv, WaitingAreNew
<1>11. OpenArePolled'
  <2>1. \A g \in Open : g \in Fds /\ heads[g] \cap clients # {}
    BY <1>2 DEF Inv, HeadsAreOwn, DescriptorsAreOwn, TypeOK
  <2>2. Open \subseteq changed'
    BY <1>1, <2>1
  <2> QED BY <1>1, <1>3, <2>2 DEF Inv, OpenArePolled
<1> QED BY <1>7, <1>8, <1>9, <1>10, <1>11 DEF Inv

LEMMA InvHolds == Spec => []Inv
<1>1. Inv /\ [Next]_vars => Inv'
  <2> SUFFICES ASSUME Inv, [Next]_vars PROVE Inv'
    OBVIOUS
  <2>1. CASE UNCHANGED vars
    BY <2>1 DEF vars, peerVars, libevVars, Inv, TypeOK, Open, Watchers,
                DescriptorsAreOwn, HeadsAreOwn, DroppedHaveNone, LiveAreListed,
                WaitingAreNew, CalledForSomething, OpenArePolled,
                OnlyGoneAreDropped, MessagesAreOwn
  <2> QED BY <2>1, InvPeer, InvPoll, InvReceive, InvReceiveNothing, InvAccept,
             InvAcceptFails, InvShutdown
          DEF Next, Loop
<1> QED BY <1>1, InvInit, PTL DEF Spec

--------------------------------------------------------------------------------
(* A client and its descriptor stay together, however often descriptors are *)
(* used again and whoever is cleaned up in between.                         *)
THEOREM ClientsKeepDescriptors == Spec => []DescriptorsAreOwn
<1>1. Inv => DescriptorsAreOwn
  BY DEF Inv
<1> QED BY <1>1, InvHolds, PTL

(* No watcher is called in a client that is marked or freed.                *)
THEOREM NoDeadWatcher == Spec => []WatchersAreAlive
<1>1. Inv => WatchersAreAlive
  <2> SUFFICES ASSUME Inv, NEW w \in pendings \cup (UNION {heads[f] : f \in Fds}),
                      w \in Conns
               PROVE  object[w] = "live"
    BY DEF WatchersAreAlive
  <2>1. CASE w \in pendings
    BY <2>1 DEF Inv, CalledForSomething
  <2>2. CASE \E f \in Fds : w \in heads[f]
    BY <2>2 DEF Inv, HeadsAreOwn
  <2> QED BY <2>1, <2>2
<1> QED BY <1>1, InvHolds, PTL

(* A client is dropped only when its peer has closed.                       *)
THEOREM DroppedHaveHungUp == Spec => []OnlyGoneAreDropped
<1>1. Inv => OnlyGoneAreDropped
  BY DEF Inv
<1> QED BY <1>1, InvHolds, PTL

(* poll() is asked about open descriptors only.                             *)
THEOREM NoClosedIsPolled == Spec => []PolledIsOpen
<1>1. Inv => PolledIsOpen
  <2>1. Inv => \A f \in Fds : heads[f] # {} => f \in Open
    BY DEF Inv, TypeOK, HeadsAreOwn, DescriptorsAreOwn
  <2> QED BY <2>1 DEF Inv, TypeOK, OpenArePolled, PolledIsOpen, Reified
<1> QED BY <1>1, InvHolds, PTL

(* What a client is given was sent on its own connection.                   *)
THEOREM MessagesReachTheirClient == Spec => []MessagesAreOwn
<1>1. Inv => MessagesAreOwn
  BY DEF Inv
<1> QED BY <1>1, InvHolds, PTL

================================================================================
