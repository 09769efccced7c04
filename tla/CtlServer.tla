-------------------------------- MODULE CtlServer --------------------------------
(***************************************************************************)
(* The control server: TcpCtlServer, its clients (CtlClient), the io       *)
(* watchers of libev they are called through, and the descriptors the      *)
(* kernel hands out, which it uses again as soon as they are closed.       *)
(*                                                                         *)
(* A client is named by its connection: every accept makes a new object.   *)
(* The order in which poll() finds descriptors ready depends on what was   *)
(* removed from its array before; pending watchers are called in any order.*)
(***************************************************************************)
EXTENDS Integers

CONSTANTS
  Conns,    \* connections, each made at most once
  Fds,      \* descriptors there are for clients; accept fails without one
  Server,   \* the watcher of the listening socket
  NoFd,     \* -1
  MaxSent   \* bound: messages a peer sends on one connection

ASSUME CtlServerAssumption ==
  /\ Server \notin Conns
  /\ Fds \subseteq Nat /\ NoFd \notin Fds
  /\ MaxSent \in Nat

VARIABLES
  backlog,  \* connections made and not accepted
  unread,   \* what was sent on each connection and not yet received
  hungUp,   \* connections the peer has closed
  conn,     \* the open descriptors of clients: the connection of each
  object,   \* each client: "none", "live", "marked" (m_deleteLater), "freed"
  fd,       \* CtlClient::fd
  clients,  \* CtlServer::clients, a list; nothing depends on its order
  heads,    \* libev: the watchers on the list of each descriptor, anfds
  changed,  \* libev: descriptors whose list has changed, fdchanges
  polled,   \* libev: descriptors poll() is asked about, polls
  pendings, \* libev: watchers to be called
  got,      \* what each client received: the connections it came from
  up        \* the server exists

peerVars == <<backlog, unread, hungUp>>
libevVars == <<heads, changed, polled, pendings>>
vars == <<peerVars, conn, object, fd, clients, libevVars, got, up>>

Watchers == Conns \cup {Server}
Open == DOMAIN conn
Free == Fds \ Open
Marked == {c \in Conns : object[c] = "marked"}

Init ==
  /\ backlog = {} /\ unread = [c \in Conns |-> 0] /\ hungUp = {}
  /\ conn = [f \in {} |-> Server]
  /\ object = [c \in Conns |-> "none"] /\ fd = [c \in Conns |-> NoFd]
  /\ clients = {}
  /\ heads = [f \in Fds |-> {}] /\ changed = {} /\ polled = {}
  /\ pendings = {}
  /\ got = [c \in Conns |-> {}] /\ up = TRUE

--------------------------------------------------------------------------------
(* The peers, at any time. *)

Connect(c) ==
  /\ c \notin backlog /\ object[c] = "none" /\ c \notin hungUp
  /\ backlog' = backlog \cup {c}
  /\ UNCHANGED <<unread, hungUp, conn, object, fd, clients, libevVars, got, up>>

Connected(c) == c \in backlog \/ \E f \in Open : conn[f] = c

Send(c) ==
  /\ Connected(c) /\ c \notin hungUp
  /\ unread[c] < MaxSent
  /\ unread' = [unread EXCEPT ![c] = @ + 1]
  /\ UNCHANGED <<backlog, hungUp, conn, object, fd, clients, libevVars, got, up>>

(* The peer closes: what it sent may be lost, and a connection that waits   *)
(* may vanish before it is accepted.                                        *)
HangUp(c) ==
  /\ Connected(c) /\ c \notin hungUp
  /\ hungUp' = hungUp \cup {c}
  /\ unread' \in {unread, [unread EXCEPT ![c] = 0]}
  /\ backlog' \in {backlog, backlog \ {c}}
  /\ UNCHANGED <<conn, object, fd, clients, libevVars, got, up>>

--------------------------------------------------------------------------------
(* The loop: fd_reify and poll. *)

Readable(f) == unread[conn[f]] > 0 \/ conn[f] \in hungUp

(* fd_reify: poll() is asked about the descriptors that have watchers.      *)
(* Mutant: a descriptor closed and used again in between is taken out, as   *)
(* if it were closed.                                                       *)
Reified_Toggled ==
  (polled \ changed) \cup {f \in changed \ polled : heads[f] # {}}
Reified ==
  (polled \ changed) \cup {f \in changed : heads[f] # {}}

(* A descriptor in the set that is closed would end in POLLNVAL and, for    *)
(* libev, in an assertion: see PolledIsOpen.                                *)
Poll ==
  LET ready == {f \in Reified \cap Open : Readable(f)}
  IN  /\ up /\ pendings = {}
      /\ polled' = Reified /\ changed' = {}
      /\ pendings' = (UNION {heads[f] : f \in ready})
                     \cup (IF backlog # {} THEN {Server} ELSE {})
      /\ UNCHANGED <<peerVars, conn, object, fd, clients, heads, got, up>>

--------------------------------------------------------------------------------
(* The callbacks of clients. *)

(* ev_io_stop, by deleteLater. *)
Unwatched(c) == [f \in Fds |-> heads[f] \ {c}]

(* ::close(fd), then fd = -1: what deleteLater does to descriptors.         *)
(* Mutant: the client keeps the number of the descriptor it has closed.     *)
FdAfterDelete_Kept(c) == fd[c]
FdAfterDelete(c) == NoFd

Without(f) == [g \in Open \ {f} |-> conn[g]]

(* deleteLater, from read().  Mutant: it closes the descriptor and leaves   *)
(* the rest to the destructor.                                              *)
DeleteLater_CloseOnly(c) ==
  /\ UNCHANGED <<heads, changed, fd>>
  /\ conn' = Without(fd[c])
  /\ object' = [object EXCEPT ![c] = "marked"]
DeleteLater(c) ==
  /\ heads' = Unwatched(c) /\ changed' = changed \cup {f \in Fds : c \in heads[f]}
  /\ conn' = Without(fd[c])
  /\ fd' = [fd EXCEPT ![c] = FdAfterDelete(c)]
  /\ object' = [object EXCEPT ![c] = "marked"]

(* recv has something: any part of it becomes the client's message.         *)
Receive(c) ==
  /\ c \in pendings /\ fd[c] \in Open /\ unread[conn[fd[c]]] > 0
  /\ \E n \in 1..MaxSent :
       /\ n <= unread[conn[fd[c]]]
       /\ unread' = [unread EXCEPT ![conn[fd[c]]] = @ - n]
  /\ got' = [got EXCEPT ![c] = @ \cup {conn[fd[c]]}]
  /\ pendings' = pendings \ {c}
  /\ UNCHANGED <<backlog, hungUp, conn, object, fd, clients, heads, changed,
                 polled, up>>

(* recv has nothing, the peer having closed or for any other reason: the    *)
(* client is to be deleted.  Mutant: it also takes a short message, one     *)
(* that does not fill the buffer, for the end.                              *)
NothingToRead_Short(c) == fd[c] \in Open => unread[conn[fd[c]]] <= 1
NothingToRead(c) == fd[c] \in Open => unread[conn[fd[c]]] = 0

ReceiveNothing(c) ==
  /\ c \in pendings /\ NothingToRead(c)
  /\ DeleteLater(c)
  /\ pendings' = pendings \ {c}
  /\ UNCHANGED <<peerVars, clients, polled, got, up>>

--------------------------------------------------------------------------------
(* The callback of the listening socket. *)

(* The destructor of a client calls deleteLater a second time.              *)
ClosedBy(cs) == {fd[c] : c \in cs}

(* cleanUp: the clients it deletes. *)
Swept == clients \cap Marked

(* accept() gives the lowest descriptor that is free. *)
Lowest(f) == f \in Free /\ \A g \in Free : f <= g

(* The constructors of the new client, which is watched from then on; and   *)
(* add, which sweeps before it takes the client in.                         *)
TcpCtlClient(c, f) == [fd EXCEPT ![c] = f]
CtlClientWatches(c, f) ==
  [g \in Fds |-> IF g = f THEN heads[g] \cup {c} ELSE heads[g]]
Add(c) == (clients \ Swept) \cup {c}

(* acceptCb: the new client is being watched before the old ones are swept. *)
Accept(c) ==
  /\ up /\ Server \in pendings /\ c \in backlog
  /\ \E f \in Fds :
       /\ Lowest(f)
       /\ conn' = [g \in (Open \cup {f}) \ ClosedBy(Swept) |->
                    IF g = f THEN c ELSE conn[g]]
       /\ fd' = TcpCtlClient(c, f)
       /\ heads' = [g \in Fds |-> CtlClientWatches(c, f)[g] \ Swept]
       /\ changed' = changed \cup {f} \cup {g \in Fds : heads[g] \cap Swept # {}}
  /\ object' = [d \in Conns |-> IF d = c THEN "live"
                                ELSE IF d \in Swept THEN "freed"
                                ELSE object[d]]
  /\ clients' = Add(c)
  /\ backlog' = backlog \ {c}
  /\ pendings' = pendings \ ({Server} \cup Swept)
  /\ UNCHANGED <<unread, hungUp, polled, got, up>>

(* accept fails: nobody waits any more, or there is no descriptor.          *)
AcceptFails ==
  /\ Server \in pendings
  /\ backlog = {} \/ Free = {}
  /\ pendings' = pendings \ {Server}
  /\ UNCHANGED <<peerVars, conn, object, fd, clients, heads, changed, polled,
                 got, up>>

(* The destructors of TcpCtlServer and CtlServer, after the loop.           *)
Shutdown ==
  /\ up /\ up' = FALSE
  /\ conn' = [g \in Open \ ClosedBy(clients) |-> conn[g]]
  /\ object' = [d \in Conns |-> IF d \in clients THEN "freed" ELSE object[d]]
  /\ fd' = [d \in Conns |-> IF d \in clients THEN NoFd ELSE fd[d]]
  /\ heads' = [g \in Fds |-> heads[g] \ clients]
  /\ changed' = changed \cup {g \in Fds : heads[g] \cap clients # {}}
  /\ pendings' = pendings \ ({Server} \cup clients)
  /\ UNCHANGED <<peerVars, clients, polled, got>>

Peer == \E c \in Conns : Connect(c) \/ Send(c) \/ HangUp(c)
Loop ==
  \/ Poll \/ AcceptFails
  \/ \E c \in Conns : Receive(c) \/ ReceiveNothing(c) \/ Accept(c)

Next == Peer \/ Loop \/ Shutdown

(* The loop goes on as long as there is something to do. *)
Spec == Init /\ [][Next]_vars
FairSpec == Spec /\ WF_vars(Loop)

--------------------------------------------------------------------------------
(* Every variable keeps its type.                                           *)
TypeOK ==
  /\ backlog \subseteq Conns /\ unread \in [Conns -> 0..MaxSent]
  /\ hungUp \subseteq Conns
  /\ Open \subseteq Fds /\ conn \in [Open -> Conns]
  /\ object \in [Conns -> {"none", "live", "marked", "freed"}]
  /\ fd \in [Conns -> Fds \cup {NoFd}] /\ clients \subseteq Conns
  /\ heads \in [Fds -> SUBSET Conns] /\ changed \subseteq Fds
  /\ polled \subseteq Fds /\ pendings \subseteq Watchers
  /\ got \in [Conns -> SUBSET Conns] /\ up \in BOOLEAN

(* Live clients and open descriptors belong to each other one to one: no    *)
(* client loses its descriptor to the clean-up of one that had the same     *)
(* number before, and none is left open.                                    *)
DescriptorsAreOwn ==
  /\ \A c \in Conns : object[c] = "live" => fd[c] \in Open /\ conn[fd[c]] = c
  /\ \A f \in Open : object[conn[f]] = "live" /\ fd[conn[f]] = f

(* Only a client whose peer has closed is dropped: none is for an event     *)
(* that was meant for another, or for nothing to read yet.                  *)
OnlyGoneAreDropped ==
  up => \A c \in Conns : object[c] \in {"marked", "freed"} => c \in hungUp

(* libev keeps no watcher of a client that is marked or freed: none is      *)
(* called in an object that does not exist any more.                        *)
WatchersAreAlive ==
  \A w \in pendings \cup (UNION {heads[f] : f \in Fds}) :
    w \in Conns => object[w] = "live"

(* poll() is only asked about open descriptors; libev asserts so.           *)
PolledIsOpen == pendings = {} => Reified \subseteq Open

(* A client gets what its own peer sent.                                    *)
MessagesAreOwn == \A c \in Conns : got[c] \subseteq {c}

(* What is sent is read: no descriptor that is used again is forgotten by   *)
(* poll().                                                                  *)
MessagesAreRead ==
  \A c \in Conns :
    unread[c] > 0 /\ object[c] = "live" ~> c \in got[c] \/ c \in hungUp \/ ~up

================================================================================
