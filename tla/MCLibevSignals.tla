----------------------------- MODULE MCLibevSignals -----------------------------
(* Two kinds of program: with two children that stop and end at any time,  *)
(* a watcher of all and one of one of them; or with a signal and an async, *)
(* and two threads that are interrupted or send.                           *)
EXTENDS LibevSignals

CONSTANTS USR, k1, k2, usr, any, one, a1, t1, t2

SignalsDef == {USR, SIGCHLD}
SigWatchersDef == {usr, childev}
SignumDef == [w \in SigWatchersDef |-> IF w = usr THEN USR ELSE SIGCHLD]
KidsDef == {k1, k2}
ChildWatchersDef == {any, one}
PidDef == [w \in ChildWatchersDef |-> IF w = any THEN AnyKid ELSE k1]
TracedDef == {one}
ThreadsDef == {t1, t2}
AsyncsDef == {a1}

OneKind ==
  \/ /\ sends = MaxSent /\ \A k \in Kids : news[k] = "runs"
     /\ \A t \in Threads : wpc[t].at = "blocked" <=> t = t2
  \/ /\ sends = 0 /\ \A k \in Kids : news[k] = "none"
     /\ \A t \in Threads : wpc[t].at = "idle"
MCInit == Init /\ OneKind
MCSpec == MCInit /\ [][Next]_vars /\ Fairness

================================================================================
