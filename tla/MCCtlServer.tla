------------------------------ MODULE MCCtlServer ------------------------------
(* Three connections and two descriptors: a descriptor is used again, and   *)
(* the last one is in use when a client comes.                              *)
EXTENDS CtlServer

CONSTANTS c1, c2, c3

ConnsDef == {c1, c2, c3}
FdsDef == {5, 6}
MinusOne == -1

================================================================================
