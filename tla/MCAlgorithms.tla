----------------------------- MODULE MCAlgorithms -----------------------------
(* Inputs of Algorithms.  Azimuths: more than two turns each way, degree by *)
(* degree, and the ends of int but the lowest; positions around every       *)
(* boundary of the circle.  Tables: four values in their order around the   *)
(* circle, from any of them on, near each other and far apart.  Heaps: ten  *)
(* slots are the fewest for a timer to rise when another leaves.            *)
(* Periodics: two of different intervals, one that is rescheduled by a      *)
(* callback, and two that are due once.  Hooks: three of a kind, so that    *)
(* one in the middle stops, beside an idle and a cleanup watcher.           *)
EXTENDS Algorithms

MCAsked == -725..725 \cup {IntMin + 1, IntMin + 8, IntMax - 7, IntMax}
MCCurrents == {0, 1, 90, 179, 180, 181, 270, 359, 360}
MCSpeeds == -1..300

MCHeadings == {5 * i : i \in 0..71} \cup {1, 359}
Values == {0, 5, 20, 100, 180, 270, 355}
MCTables ==
  {v \in [1..4 -> Values] :
     LET turn == Arc(v[1], v[2]) + Arc(v[2], v[3]) + Arc(v[3], v[4]) + Arc(v[4], v[1])
     IN  turn = 360 /\ \A i, j \in 1..4 : i # j => v[i] # v[j]}
MCReadings == [1..4 -> {-3, 0, 2, 7}]

TimersDef == 1..10
MCHeapSizes == {0, 1, 5, 9, 10}
MCHeapTimes == {0, 1, 2}

Periodic(offset, interval, rescheduled) ==
  [offset |-> offset, interval |-> interval, rescheduled |-> rescheduled]
MCPeriodicSet ==
  <<Periodic(0, 3, FALSE), Periodic(2, 5, FALSE), Periodic(0, 0, TRUE),
    Periodic(4, 0, FALSE), Periodic(0, 0, FALSE)>>
MCClocks == {-4, 0, 3, 5, 11}

HooksDef == 1..5
MCHookKinds ==
  {<<k, k, k, "idle", "cleanup">> : k \in Kinds}
    \cup {<<"fork", "prepare", "fork", "check", "prepare">>}

LettersDef == {"a", "b"}
MCTexts == UNION {[1..n -> {"a", "b", " "}] : n \in 0..7}
MCWords == {<<"a">>, <<"b", "a">>, <<"a", "b", "a">>}
MCNoise ==
  {<<>>, <<" ", "\t", " ">>, <<"#", "a", "=", "b">>, <<" ", "#">>, <<"a", "=">>,
   <<"\r">>, <<" ", "a", "=", " ", "#", "b">>}

MCRoom == {0, 1, 2, 63, 64, 125, 126, 127, 128, 129, 1000, 1023, 4097}

Number(n) == <<"number", n>>
Text(t) == <<"text", t>>
MCConfig ==
  (<<"common", "calibfile">> :> Text("calib")) @@
  (<<"tcpctl", "port">> :> Number(65537)) @@ (<<"tcpctl", "keepalive">> :> Number(1)) @@
  (<<"msensor", "device">> :> Text("lsm")) @@ (<<"msensor", "i2cbus">> :> Number(1)) @@
  (<<"msensor", "axis_x">> :> Text("-axis_y")) @@ (<<"msensor", "axis_y">> :> Text("axis_x")) @@
  (<<"msensor", "axis_z">> :> Text("-axis_z")) @@
  (<<"msensor", "fpoints">> :> Number(10)) @@ (<<"msensor", "fcoef">> :> Number(3)) @@
  (<<"stepper", "en">> :> Number(1)) @@ (<<"stepper", "dir">> :> Number(2)) @@
  (<<"stepper", "step">> :> Number(3)) @@ (<<"stepper", "err">> :> Number(4)) @@
  (<<"stepper", "divider">> :> Number(4)) @@ (<<"stepper", "stepsize">> :> Number(1))
PinsDef == 0..5
MCWrongValues == {Text(""), Text("axis_x"), Number(0)}

================================================================================
