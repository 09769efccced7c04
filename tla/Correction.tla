-------------------------------- MODULE Correction --------------------------------
(***************************************************************************)
(* How CompassDrv::loop corrects a heading by the calibration table        *)
(* (src/compassdrv.cpp): the first range of two neighbouring values the    *)
(* heading is in is mapped on the arc between their points.  Pure          *)
(* operators.  Degrees are whole numbers; a quotient is rounded down.      *)
(***************************************************************************)
EXTENDS Integers, Sequences

(* What a range does not contain, and 0 * (x / 0). *)
Outside == -1
NaN == -2

(* range_map: a range across north is continued above 360.                  *)
(* Mutants: only its end is, not the heading; only the heading is.          *)
Lifted_Never(x, inMin, inMax) == x
Lifted(x, inMin, inMax) ==
  IF inMax < inMin /\ 0 < x /\ x < inMax THEN x + 360 ELSE x
Unwound(min, max) == IF max < min THEN max + 360 ELSE max

RangeMap(heading, inMin, inMax, outMin, outMax) ==
  LET x == Lifted(heading, inMin, inMax)
      inLen == Unwound(inMin, inMax) - inMin
      outLen == Unwound(outMin, outMax) - outMin
      ret == outMin + ((x - inMin) * outLen) \div inLen
  IN  IF x < inMin \/ x > inMin + inLen THEN Outside
      ELSE IF inLen = 0 THEN NaN
      ELSE IF ret >= 360 THEN 0 ELSE ret

(* The table as Calibration::set leaves it: the first entry comes again at  *)
(* the end.                                                                 *)
Closed(s) == Append(s, s[1])

(* The loop over the ranges; a heading in none of them stays as it is.      *)
Corrected(heading, points, values) ==
  LET maps == [i \in 1..Len(values) - 1 |->
                 RangeMap(heading, values[i], values[i + 1],
                          points[i], points[i + 1])]
      hits == {i \in DOMAIN maps : maps[i] # Outside}
  IN  IF hits = {} THEN heading
      ELSE maps[CHOOSE i \in hits : \A j \in hits : i <= j]

================================================================================
