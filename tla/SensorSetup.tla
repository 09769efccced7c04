------------------------------- MODULE SensorSetup -------------------------------
(***************************************************************************)
(* What init() of the magnetic sensors writes to their registers           *)
(* (src/lsm303dlhc.cpp, hmc5883.cpp, qmc5883l.cpp), byte by byte through   *)
(* I2c::write, and the scales by which the driver then multiplies what it  *)
(* reads.  Pure operators.  The fields of a register are where the macros  *)
(* of the drivers have them; unit is a one shifted to the field.           *)
(***************************************************************************)
EXTENDS Integers, Sequences

Field(unit, mask) == [unit |-> unit, mask |-> mask]
Put(f, code) == code * f.unit
Get(f, byte) == (byte \div f.unit) % (f.mask \div f.unit + 1)

--------------------------------------------------------------------------------
(* lsm: rate, gain and mode of the magnetometer.  Scales are counts per     *)
(* gauss, which DIGRES inverts, by the code of the gain.                    *)
LsmRate == Field(4, 28)
LsmGain == Field(32, 224)
LsmMode == Field(1, 3)
LsmScale == <<1100, 855, 670, 450, 400, 330, 230>>

(* Its accelerometer: rate, axes, full scale and resolution; scales are in  *)
(* ten thousandths, by the code of the full scale.                          *)
LsmAxes == [x |-> Field(1, 1), y |-> Field(2, 2), z |-> Field(4, 4)]
LsmOdr == Field(16, 240)
LsmHigh == Field(8, 8)
LsmFull == Field(16, 48)
LsmAccScale == <<10000, 5000, 2500, 834>>

(* hmc: measurement, rate, samples; gain; mode and high speed.              *)
HmcMeasure == Field(1, 3)
HmcRate == Field(4, 28)
HmcSamples == Field(32, 96)
HmcGain == Field(32, 224)
HmcMode == Field(1, 3)
HmcHighSpeed == Field(128, 128)
HmcScale == <<1370, 1090, 820, 660, 440, 390, 330, 230>>

(* qmc: mode, rate, range, oversampling; the scale, in hundredths.          *)
QmcMode == Field(1, 3)
QmcRate == Field(4, 12)
QmcRange == Field(16, 48)
QmcSampling == Field(64, 192)
QmcScale == <<122, 435>>

--------------------------------------------------------------------------------
(* What init() writes, in order, and the scale it sets.                     *)
InitLsm ==
  [writes |-> <<<<"cra", Put(LsmRate, 7)>>, <<"crb", Put(LsmGain, 4)>>,
                <<"mr", Put(LsmMode, 0)>>,
                <<"ctrl1", Put(LsmOdr, 7) + Put(LsmAxes.x, 1) + Put(LsmAxes.y, 1)
                             + Put(LsmAxes.z, 1)>>,
                <<"ctrl4", Put(LsmFull, 0) + Put(LsmHigh, 1)>>>>,
   rng |-> 450, as |-> 10000]
InitHmc ==
  [writes |-> <<<<"conf_a", Put(HmcMeasure, 0) + Put(HmcRate, 4) + Put(HmcSamples, 3)>>,
                <<"conf_b", Put(HmcGain, 4)>>,
                <<"mode", Put(HmcMode, 0) + Put(HmcHighSpeed, 1)>>>>,
   rng |-> 440, as |-> 0]
InitQmc ==
  [writes |-> <<<<"control1", Put(QmcMode, 1) + Put(QmcRate, 0) + Put(QmcRange, 1)
                                + Put(QmcSampling, 0)>>,
                <<"period", 1>>>>,
   rng |-> 435, as |-> 0]
InitOf(d) == CASE d = "lsm" -> InitLsm [] d = "hmc" -> InitHmc [] d = "qmc" -> InitQmc

(* I2c::write, byte by byte; the result is not looked at.  `failed` are the  *)
(* transfers that fail; of the others the last one to a register counts.    *)
Written(d, regs, failed) ==
  LET writes == InitOf(d).writes
      to(r) == {i \in DOMAIN writes \ failed : writes[i][1] = r}
      last(r) == CHOOSE i \in to(r) : \A j \in to(r) : j <= i
  IN  [r \in DOMAIN regs |-> IF to(r) = {} THEN regs[r] ELSE writes[last(r)][2]]

================================================================================
