---------------------------------- MODULE Filter ----------------------------------
(***************************************************************************)
(* Class Filter (src/filter.cpp) as a value.  Readings are whole numbers,  *)
(* the coefficient k is in tenths, and a quotient is rounded down.         *)
(*                                                                         *)
(*   points  readings a window needs                                       *)
(*   k       weight of a new mean, 0: no smoothing                         *)
(*   values  the window                                                    *)
(*   val     the smoothed value                                            *)
(***************************************************************************)
EXTENDS Integers, Sequences, SequencesExt

(* FLT_MIN is taken for 0. *)
NewFilter == [points |-> 0, k |-> 0, values |-> <<>>, val |-> 0]

FilterInit(f, points, k) == [f EXCEPT !.points = points, !.k = k]

Push(f, v) == [f EXCEPT !.values = Append(@, v)]

IsReady(f) == Len(f.values) >= f.points

Mean(s) == FoldSeq(LAMBDA v, sum : v + sum, 0, s) \div Len(s)

(* The next smoothed value.  Mutant: the first mean is mixed with the 0 the *)
(* filter begins with.                                                      *)
Smoothed_FromZero(f) == (f.val * (10 - f.k) + Mean(f.values) * f.k) \div 10
Smoothed(f) ==
  IF f.val < 1 THEN Mean(f.values)
  ELSE (f.val * (10 - f.k) + Mean(f.values) * f.k) \div 10

(* value() of a filter that is ready: what it returns, and what it leaves.  *)
Value(f) == IF f.k > 0 THEN Smoothed(f) ELSE Mean(f.values)
AfterValue(f) ==
  [f EXCEPT !.val = IF f.k > 0 THEN Smoothed(f) ELSE @, !.values = <<>>]

================================================================================
