---------------------------------- MODULE StartUp ----------------------------------
(***************************************************************************)
(* The start of the program: RoutePrtDrv::RoutePrtDrv (src/routeptrdrv.cpp)*)
(* makes the parts one after the other from the sections of the            *)
(* configuration, and the first that throws ends the program, for main     *)
(* does not catch.  Pure operators on a program, a record:                 *)
(*                                                                         *)
(*   told      the section in the message it ended with, or NoSection      *)
(*   made      the parts it has, and how they are set up                   *)
(*   pins      the pins in sysfs, by number                                *)
(*                                                                         *)
(* A configuration is a function from <<section, key>> to values, which    *)
(* are <<"number", n>> or <<"text", t>>; what is missing reads as the      *)
(* empty text.  The world is what else may fail: `binds` (the server's     *)
(* address), `bus` (the I2C device), and `file` ("none", "table" or        *)
(* "spoilt": the calibration file).                                        *)
(***************************************************************************)
EXTENDS Integers, Sequences, Lists

NoSection == "no section"

Conf(conf, s, k) == IF <<s, k>> \in DOMAIN conf THEN conf[<<s, k>>] ELSE <<"text", "">>
IsNumber(v) == v[1] = "number"
AreNumbers(conf, s, keys) == \A k \in keys : IsNumber(Conf(conf, s, k))

(* The program with one part more, or ended by a throw in this section.     *)
Running(p) == p.told = NoSection
Fails(p, s) == [p EXCEPT !.told = s]
Make(p, part, as) == [p EXCEPT !.made = With(@, part, as)]

--------------------------------------------------------------------------------
(* Pins in sysfs: Gpio::Gpio, setVal, setRisingEdge. *)

NotExported == [dir |-> "none", level |-> FALSE, edge |-> "none"]

Export(pins, n) ==
  IF pins[n].dir # "none" THEN pins
  ELSE [pins EXCEPT ![n] = [NotExported EXCEPT !.dir = "in"]]
Gpio(pins, n, dir) == [Export(pins, n) EXCEPT ![n].dir = dir]
SetVal(pins, n, val, inverse) == [pins EXCEPT ![n].level = (val # inverse)]
SetRisingEdge(pins, n) == [pins EXCEPT ![n].edge = "rising"]

--------------------------------------------------------------------------------
(* The sections, in the order of the constructor. *)

(* Calibration::instance, setFileName. *)
SetFileName(p, file) == Make(p, "calibration", file)
Common(p, conf) ==
  LET file == Conf(conf, "common", "calibfile")
  IN  IF file = <<"text", "">> THEN Fails(p, "common")
      ELSE SetFileName(p, file)

(* stoi of both, then the socket; the port is cut to 16 bits.               *)
TcpServer(conf) ==
  [port |-> Conf(conf, "tcpctl", "port")[2] % 2 ^ 16,
   keepalive |-> Conf(conf, "tcpctl", "keepalive")[2] # 0]
Server(p, conf, world) ==
  IF AreNumbers(conf, "tcpctl", {"port", "keepalive"}) /\ world.binds
  THEN Make(p, "server", TcpServer(conf))
  ELSE Fails(p, "tcpctl")

(* A name it does not know is a qmc.                                        *)
SensorOf(name) ==
  IF name = <<"text", "lsm">> THEN "lsm" ELSE IF name = <<"text", "hmc">> THEN "hmc" ELSE "qmc"

AxisKey == [x |-> "axis_x", y |-> "axis_y", z |-> "axis_z"]
AxisNames == {"axis_x", "axis_y", "axis_z", "-axis_x", "-axis_y", "-axis_z"}
IsAxis(v) == ~IsNumber(v) /\ v[2] \in AxisNames

(* I2c::I2c: the device of this bus, and the sensor's address on it.         *)
I2c(conf, world) == IsNumber(Conf(conf, "msensor", "i2cbus")) /\ world.bus

(* The bus is opened and the thread of the compass runs before the axes and *)
(* the filter are read.                                                     *)
CompassMade(p, conf) == Make(p, "compass", SensorOf(Conf(conf, "msensor", "device")))
Mapped(p, conf) ==
  Make(p, "axes", [a \in {"x", "y", "z"} |-> Conf(conf, "msensor", AxisKey[a])[2]])
Msensor(p, conf, world) ==
  IF ~I2c(conf, world) THEN Fails(p, "msensor")
  ELSE LET c == CompassMade(p, conf)
       IN  IF ~\A a \in {"x", "y", "z"} : IsAxis(Conf(conf, "msensor", AxisKey[a]))
           THEN Fails(c, "msensor")
           ELSE IF ~AreNumbers(conf, "msensor", {"fpoints", "fcoef"})
           THEN Fails(Mapped(c, conf), "msensor")
           ELSE Mapped(c, conf)

(* mapAxes, of a measurement m.                                             *)
MapAxes(axes, m) ==
  [a \in {"x", "y", "z"} |->
     CASE axes[a] = "axis_x" -> m.x [] axes[a] = "axis_y" -> m.y [] axes[a] = "axis_z" -> m.z
       [] axes[a] = "-axis_x" -> -m.x [] axes[a] = "-axis_y" -> -m.y [] axes[a] = "-axis_z" -> -m.z]

(* StepDrv::StepDrv: the table, the pins, and the error pin if it has a     *)
(* number.  The direction pin is inverse; the motor is enabled.             *)
StepPins(pins, n) ==
  SetVal(Gpio(Gpio(Gpio(pins, n.step, "out"), n.dir, "out"), n.en, "out"), n.en, TRUE, FALSE)
ErrorPin(pins, n) ==
  IF n.err = 0 THEN pins ELSE SetRisingEdge(Gpio(pins, n.err, "in"), n.err)
StepDrvMade(p, n, world) ==
  LET q == Make(p, "table", IF world.file = "table" THEN "read" ELSE "empty")
  IN  [q EXCEPT !.pins = ErrorPin(StepPins(@, n), n)]
Stepper(p, conf, world) ==
  IF /\ AreNumbers(conf, "stepper", {"en", "dir", "step", "err", "divider", "stepsize"})
     /\ world.file # "spoilt"
  THEN StepDrvMade(p, [k \in {"en", "dir", "step", "err"} |-> Conf(conf, "stepper", k)[2]],
                   world)
  ELSE Fails(p, "stepper")

(* The loop's own watcher, for pause(), and the loop, which main enters     *)
(* unless a thread of its own already runs it.  All watchers but this one   *)
(* were started before the loop was made, and are kept.                     *)
LibEvMainP == [watched |-> TRUE, running |-> FALSE, entered |-> FALSE]
LibEvMain(p) == Make(p, "loop", LibEvMainP)
Entered(p) == [p EXCEPT !.made["loop"].entered = ~p.made["loop"].running]

(* RoutePrtDrv::RoutePrtDrv and main. *)
RoutePrtDrv(conf, world, pins) ==
  LET p0 == [told |-> NoSection, made |-> <<>>, pins |-> pins]
      p1 == Common(p0, conf)
      p2 == IF Running(p1) THEN Server(p1, conf, world) ELSE p1
      p3 == IF Running(p2) THEN Msensor(p2, conf, world) ELSE p2
      p4 == IF Running(p3) THEN Stepper(p3, conf, world) ELSE p3
  IN  IF Running(p4) THEN Entered(LibEvMain(p4)) ELSE p4

================================================================================
