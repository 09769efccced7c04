----------------------------- MODULE AzimuthCheck -----------------------------
(***************************************************************************)
(* The arithmetic of a move() against what it is for: every request is     *)
(* folded, given a direction and a period as the code does, in one step,   *)
(* and compared with the geometry of the circle.                           *)
(***************************************************************************)
EXTENDS Azimuth

CONSTANTS
  Asked,       \* azimuths asked for
  Currents,    \* where the pointer is
  AskedSpeeds  \* speeds asked for

VARIABLES asked, cur, way, speed, done, dest, cw, period

vars == <<asked, cur, way, speed, done, dest, cw, period>>

(* Azimuth and speed do not interact: each is enumerated with the other fixed. *)
Init ==
  /\ \/ asked \in Asked /\ cur \in Currents /\ way \in Directions /\ speed = 1
     \/ asked = 0 /\ cur = 0 /\ way = "Nearest" /\ speed \in AskedSpeeds
  /\ done = FALSE /\ dest = 0 /\ cw = FALSE /\ period = 0

Compute ==
  /\ ~done
  /\ done' = TRUE
  /\ dest' \in NormalizeOutcomes(asked)
  /\ cw' = ChooseClockwise(cur, dest', way)
  /\ period' = SpeedToPeriod(speed)
  /\ UNCHANGED <<asked, cur, way, speed>>

Next == Compute
Spec == Init /\ [][Next]_vars

--------------------------------------------------------------------------------
(* The folded azimuth is one of the circle and the same direction as the    *)
(* one asked for.                                                           *)
FoldIsAzimuth ==
  done => dest \in 0..360 /\ dest % 360 = asked % 360

(* The distance pulses() gives leads, in the direction taken, from the      *)
(* current position to the one asked for, and Nearest never takes more than *)
(* half a turn.                                                             *)
WayLeadsThere ==
  LET left == Pulses(cur, dest, cw)
  IN  done => /\ left \in 0..360
              /\ (IF cw THEN cur + left ELSE cur - left) % 360 = asked % 360
              /\ way = "Nearest" => left <= 180

================================================================================
