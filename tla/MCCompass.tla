------------------------------- MODULE MCCompass -------------------------------
(* Two positions for the pointer to stand at.  *)
EXTENDS CompassFile

CONSTANTS p1, p2

PositionsDef == {p1, p2}

================================================================================
