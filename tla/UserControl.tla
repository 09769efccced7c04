-------------------------------- MODULE UserControl --------------------------------
(***************************************************************************)
(* UserControl (src/usercontrol.cpp): what becomes of a client's message,  *)
(* a sequence of characters.  It is split into words; the protocol is not  *)
(* written yet, and every command has the type No.  Pure operators.        *)
(***************************************************************************)
EXTENDS Integers, Sequences, SequencesExt

(* find: where the delimiter is next, from a place on, or behind the end.   *)
Found(str, delim, prev) ==
  LET at == {i \in prev..Len(str) : str[i] = delim}
  IN  IF at = {} THEN Len(str) + 1 ELSE CHOOSE i \in at : \A j \in at : i <= j

(* split, with a delimiter of one character: from prev to the end.          *)
Split(str, delim) ==
  LET from[prev \in 1..Len(str) + 2] ==
        LET pos == Found(str, delim, prev)
            token == SubSeq(str, prev, pos - 1)
            tokens == IF token = <<>> THEN <<>> ELSE <<token>>
        IN  IF pos < Len(str) + 1 /\ pos + 1 < Len(str) + 1
            THEN tokens \o from[pos + 1] ELSE tokens
  IN  from[1]

(* onCtlReadyMsgCb: the types of the commands that reach the handler.       *)
CommandType == "No"
OnCtlReadyMsgCb(msg) ==
  IF Split(msg, " ") = <<>> \/ CommandType = "No" THEN {} ELSE {CommandType}

================================================================================
