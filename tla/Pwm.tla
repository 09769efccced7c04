---------------------------------- MODULE Pwm ----------------------------------
(***************************************************************************)
(* Class GpioOut (include/gpiodrv.h, src/gpiodrv.cpp) as a value: a record *)
(* for the object and one operator per method.  The modules that own pins  *)
(* (GpioOut, StepDrv) call these in the order the code calls the methods.  *)
(*                                                                         *)
(*   busy     GpioOut::busy                                                *)
(*   pulseCnt GpioOut::pulseCnt, -1 when pulses are not counted            *)
(*   prevVal  GpioOut::prevVal, the logical level last written             *)
(*   period   the PWM period dutyTime and pauseTime are halves of          *)
(*   timer    the callback the libev timer of the pin is armed with, "off" *)
(*            when the timer is neither active nor pending                 *)
(***************************************************************************)
EXTENDS Integers

Callbacks == {"off", "runPWMCb", "setOnTimeCb"}

Pin == [busy : BOOLEAN, pulseCnt : Int, prevVal : BOOLEAN, period : Int,
        timer : Callbacks]

(* GpioOut::GpioOut; it leaves pulseCnt and the two times unset. *)
NewPin(pulseCnt, period) ==
  [busy |-> FALSE, pulseCnt |-> pulseCnt, prevVal |-> FALSE,
   period |-> period, timer |-> "off"]

(* setVal; the sysfs write itself is outside the model. *)
SetVal(p, val) == [p EXCEPT !.prevVal = val]

(* runPWM: refused while the pin is busy or for an impossible duty cycle. *)
CanRun(p, dutyCycle) == ~p.busy /\ dutyCycle <= 100 /\ dutyCycle >= 0

RunPWM(p, period, dutyCycle) ==
  IF CanRun(p, dutyCycle)
  THEN [p EXCEPT !.pulseCnt = -1, !.busy = TRUE, !.period = period,
                 !.timer = "runPWMCb"]
  ELSE p

(* runPulses overwrites the count even when runPWM refused to start.        *)
(* Mutant: a pulse is counted as one tick.                                  *)
RunPulses_NotDoubled(p, period, pulseCnt) ==
  [RunPWM(p, period, 50) EXCEPT !.pulseCnt = pulseCnt]
RunPulses(p, period, pulseCnt) ==
  [RunPWM(p, period, 50) EXCEPT !.pulseCnt = 2 * pulseCnt]

(* stopPWM, stopPulses.  Mutant: the timer is not stopped.                  *)
StopPWM_TimerLeftArmed(p) == [p EXCEPT !.busy = FALSE]
StopPWM(p) == IF p.busy THEN [p EXCEPT !.busy = FALSE, !.timer = "off"] ELSE p

SetOnTime(p, val) ==
  IF p.busy
  THEN p
  ELSE [SetVal(p, val) EXCEPT !.busy = TRUE, !.timer = "setOnTimeCb"]

(* setOnTimeCb.  libev disarms a one-shot timer before it calls back. *)
SetOnTimeCb(p) ==
  [SetVal(p, ~p.prevVal) EXCEPT !.busy = FALSE, !.timer = "off"]

(* The test runPWMCb makes after it decremented pulseCnt. *)
(* Mutant: one tick early.                                                  *)
LastTick_OffByOne(p) == p.busy /\ p.pulseCnt = 2
LastTick(p) == p.busy /\ p.pulseCnt = 1

(* runPWMCb; on the last tick the caller goes on with pulsesEnd().          *)
(* Mutants: the pin stays busy after a series; the timer is armed once.     *)
RunPWMCb_BusyKept(p) ==
  IF LastTick(p) THEN [p EXCEPT !.pulseCnt = -1, !.timer = "off"]
  ELSE [SetVal(p, ~p.prevVal) EXCEPT
          !.pulseCnt = IF @ = -1 THEN @ ELSE @ - 1, !.timer = "runPWMCb"]
RunPWMCb_NotRearmed(p) ==
  IF LastTick(p) THEN [p EXCEPT !.pulseCnt = -1, !.busy = FALSE, !.timer = "off"]
  ELSE [SetVal(p, ~p.prevVal) EXCEPT
          !.pulseCnt = IF @ = -1 THEN @ ELSE @ - 1, !.timer = "off"]
RunPWMCb(p) ==
  IF ~p.busy THEN [p EXCEPT !.timer = "off"]
  ELSE IF LastTick(p)
       THEN [p EXCEPT !.pulseCnt = -1, !.busy = FALSE, !.timer = "off"]
       ELSE [SetVal(p, ~p.prevVal) EXCEPT
               !.pulseCnt = IF @ = -1 THEN @ ELSE @ - 1,
               !.timer = "runPWMCb"]

================================================================================
