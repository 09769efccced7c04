----------------------------------- MODULE Lists -----------------------------------
(***************************************************************************)
(* Lists and maps, as the program takes them apart and fills them.         *)
(***************************************************************************)
EXTENDS Integers, Sequences

(* What is left of a list when some of its elements are passed over: the    *)
(* characters of a setting without the blanks, a queue without the watcher  *)
(* that stops.                                                              *)
Without(S, s) ==
  LET rest[n \in 0..Len(s)] ==
        IF n = 0 THEN <<>>
        ELSE IF s[n] \in S THEN rest[n - 1] ELSE Append(rest[n - 1], s[n])
  IN  rest[Len(s)]

(* A map in which k stands for v from now on.                               *)
With(f, k, v) == [c \in DOMAIN f \cup {k} |-> IF c = k THEN v ELSE f[c]]

================================================================================
