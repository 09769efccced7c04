-------------------------------- MODULE GpioOut --------------------------------
(***************************************************************************)
(* One output pin (class GpioOut) driven by its public methods, in any     *)
(* order the event loop may call them, and by the libev timer it owns.     *)
(* All of it runs on the loop's thread, so a method or a callback is one   *)
(* step; the calls and the expiry of the timer interleave freely.          *)
(*                                                                         *)
(* series is a history variable: the edges written on the pin on behalf of *)
(* the last runPulses, and whether that series is still running ("on"),    *)
(* was completed by pulsesEnd ("ended") or was given up ("none"); it is    *)
(* "endless" while a PWM started by runPWM runs instead.                   *)
(***************************************************************************)
EXTENDS Pwm

CONSTANTS
  Series,     \* pulse counts runPulses is called with
  Garbage     \* what pulseCnt may hold before the first start

ASSUME SeriesAssumption == Series \subseteq Nat \ {0} /\ Garbage \subseteq Int

VARIABLES pin, series
pinVars == <<pin, series>>

NoSeries == [state |-> "none", wanted |-> 0, rises |-> 0, falls |-> 0]

PinInit ==
  /\ \E n \in Garbage : pin = NewPin(n, 0)
  /\ series = NoSeries

--------------------------------------------------------------------------------
(* The public methods. *)

CallRunPWM ==
  \E duty \in {-1, 50, 101} :
    /\ pin' = RunPWM(pin, 0, duty)
    /\ series' = IF CanRun(pin, duty)
                 THEN [NoSeries EXCEPT !.state = "endless"]
                 ELSE series

(* A series that is started on an idle pin is counted from its first edge;  *)
(* runPulses on a busy pin turns what is running into a series of its own.  *)
CallRunPulses ==
  \E n \in Series :
    /\ pin' = RunPulses(pin, 0, n)
    /\ series' = IF CanRun(pin, 50)
                 THEN [NoSeries EXCEPT !.state = "on", !.wanted = n]
                 ELSE NoSeries

CallStopPWM ==
  /\ pin' = StopPWM(pin)
  /\ series' = IF pin.busy THEN NoSeries ELSE series

CallSetOnTime ==
  \E v \in BOOLEAN :
    /\ pin' = SetOnTime(pin, v)
    /\ series' = IF pin.busy THEN series ELSE NoSeries

CallSetVal ==
  \E v \in BOOLEAN :
    /\ pin' = SetVal(pin, v)
    /\ series' = IF series.state = "endless" THEN series ELSE NoSeries

Call == CallRunPWM \/ CallRunPulses \/ CallStopPWM \/ CallSetOnTime \/ CallSetVal

--------------------------------------------------------------------------------
(* The timer. *)

(* One edge of the PWM. *)
PwmTick ==
  /\ pin.timer = "runPWMCb"
  /\ ~LastTick(pin)
  /\ pin' = RunPWMCb(pin)
  /\ series' = IF series.state # "on" THEN series
               ELSE IF pin'.prevVal
                    THEN [series EXCEPT !.rises = @ + 1]
                    ELSE [series EXCEPT !.falls = @ + 1]

(* The end of a series: pulsesEnd() is called with the pin already free, so *)
(* that the callback may start the next series, as StepDrv::onStepCb does.  *)
PwmEnd ==
  /\ pin.timer = "runPWMCb"
  /\ LastTick(pin)
  /\ \/ /\ pin' = RunPWMCb(pin)
        /\ series' = IF series.state = "on"
                     THEN [series EXCEPT !.state = "ended"]
                     ELSE series
     \/ \E n \in Series :
          /\ pin' = RunPulses(RunPWMCb(pin), 0, n)
          /\ series' = [NoSeries EXCEPT !.state = "on", !.wanted = n]

OnTimeExpired ==
  /\ pin.timer = "setOnTimeCb"
  /\ pin' = SetOnTimeCb(pin)
  /\ UNCHANGED series

Timer == PwmTick \/ PwmEnd \/ OnTimeExpired

PinNext == Call \/ Timer
PinSpec == PinInit /\ [][PinNext]_pinVars

(* The loop calls every timer that is due, so an armed timer expires. *)
PinFairSpec == PinSpec /\ WF_pinVars(Timer)

--------------------------------------------------------------------------------
Histories == [state : {"none", "endless", "on", "ended"}, wanted : {0} \cup Series,
              rises : Nat, falls : Nat]

(* The pin and its history keep their types, and a count that is in use is  *)
(* not below the -1 of an endless PWM, whatever the constructor left in it. *)
PinTypeOK ==
  /\ pin \in Pin /\ series \in Histories
  /\ pin.timer = "runPWMCb" => pin.pulseCnt >= -1

(* The busy flag is set exactly while the pin's timer is armed, whichever   *)
(* of the two users of the timer armed it: a pin is neither left busy with  *)
(* nothing to free it nor free with a callback still to come.               *)
BusyIffArmed == pin.busy <=> pin.timer # "off"

(* A running series still has to write what it has not written: the edges   *)
(* and the counter add up, over refused starts, calls on a busy pin and     *)
(* counts left by an earlier series.                                        *)
CounterMatchesEdges ==
  series.state = "on" =>
    /\ pin.timer = "runPWMCb" /\ pin.pulseCnt > 0
    /\ series.rises + series.falls + pin.pulseCnt = 2 * series.wanted

(* A series that ended wrote 2 * wanted - 1 edges, one fewer than two per   *)
(* pulse, and they alternate.                                               *)
EndedSeriesIsComplete ==
  series.state = "ended" =>
    /\ series.rises + series.falls = 2 * series.wanted - 1
    /\ series.rises - series.falls \in {-1, 1}

(* A PWM started by runPWM is endless: while nobody stops it or turns it    *)
(* into a series its timer stays armed, and no count left by an earlier     *)
(* series, or never set, makes it end.                                      *)
EndlessGoesOn ==
  series.state = "endless" => pin.timer = "runPWMCb" /\ pin.pulseCnt = -1

(* A series comes to its end if nobody touches the pin; a callback that     *)
(* starts the next series from that end goes from end to end.               *)
SeriesEnds ==
  []<><<Call>>_pinVars \/ []<>(series.state # "on") \/ []<><<PwmEnd>>_pinVars

================================================================================
