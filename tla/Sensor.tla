---------------------------------- MODULE Sensor ----------------------------------
(***************************************************************************)
(* How a measurement is fetched: getMagn and getAcc of the drivers         *)
(* (src/lsm303dlhc.cpp, hmc5883.cpp, qmc5883l.cpp) by I2c::read, one SMBus *)
(* transfer for every byte, each of which may fail.  Pure operators.       *)
(*                                                                         *)
(* A byte is named by the register and the sample it is from.  Left out    *)
(* are the scaling to units and the status register, which is read first;  *)
(* not ready is like failed at once.                                       *)
(***************************************************************************)
EXTENDS Integers, Sequences

Axes == {"x", "y", "z"}
Devices == {"lsm magnetic", "lsm acceleration", "hmc", "qmc"}

(* The order of the registers in each device, from the first that is read.  *)
MagneticOrder == <<<<"x", "msb">>, <<"x", "lsb">>, <<"z", "msb">>,
                   <<"z", "lsb">>, <<"y", "msb">>, <<"y", "lsb">>>>
AccelerationOrder == <<<<"x", "lsb">>, <<"x", "msb">>, <<"y", "lsb">>,
                       <<"y", "msb">>, <<"z", "lsb">>, <<"z", "msb">>>>
HmcOrder == MagneticOrder
QmcOrder == AccelerationOrder

Registers(d) ==
  CASE d = "lsm magnetic" -> MagneticOrder
    [] d = "lsm acceleration" -> AccelerationOrder
    [] d = "hmc" -> HmcOrder
    [] d = "qmc" -> QmcOrder

(* A device that holds its registers while they are read: a magnetometer    *)
(* does, the accelerometer only with block data update, which init() leaves *)
(* off.                                                                     *)
Holds(d) == d # "lsm acceleration"

(* I2c::read of six bytes: those of a new sample come from byte u on, if    *)
(* the device does not hold the old one; transfer number `failed` fails.    *)
(* Mutant: what was read before a failure is taken for all.                 *)
Stack == <<"stack", "", 0>>
Byte(d, i, u) == Registers(d)[i] \o <<IF i >= u /\ ~Holds(d) THEN 2 ELSE 1>>
Bytes(d, failed, u) ==
  [i \in 1..6 |-> IF i < failed THEN Byte(d, i, u) ELSE Stack]
ReadAll_AnyLength(failed) == failed > 1
ReadAll(failed) == failed > 6

(* How the bytes become axes: where those of each axis begin, and which of  *)
(* the two comes first, sh16_msb or sh16_lsb.                               *)
GetMagnLsm == [x |-> 1, z |-> 3, y |-> 5, first |-> "msb"]
GetAccLsm == [x |-> 1, y |-> 3, z |-> 5, first |-> "lsb"]
GetMagnHmc == [x |-> 1, z |-> 3, y |-> 5, first |-> "msb"]
GetMagnQmc == [x |-> 1, y |-> 3, z |-> 5, first |-> "lsb"]

Reader(d) ==
  CASE d = "lsm magnetic" -> GetMagnLsm
    [] d = "lsm acceleration" -> GetAccLsm
    [] d = "hmc" -> GetMagnHmc
    [] d = "qmc" -> GetMagnQmc

Sh16(first, two) ==
  IF first = "msb" THEN [msb |-> two[1], lsb |-> two[2]]
  ELSE [msb |-> two[2], lsb |-> two[1]]

(* The measurement after the call, old being the one before it.             *)
Measured(d, old, failed, u) ==
  IF ReadAll(failed)
  THEN [a \in Axes |->
          LET i == Reader(d)[a]
          IN  Sh16(Reader(d).first, SubSeq(Bytes(d, failed, u), i, i + 1))]
  ELSE old

================================================================================
