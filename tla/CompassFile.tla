------------------------------- MODULE CompassFile -------------------------------
(***************************************************************************)
(* The compass with its calibration file, across crashes: Calibration::save *)
(* truncates the file and writes it line by line, every line flushed by    *)
(* endl, with the mutex of the table held; the program is killed, or the   *)
(* machine loses power, at any time, and starts again with what is left.   *)
(*                                                                         *)
(* A line is abstracted to the number of the calibration it is from.  Left *)
(* out is a last line cut in the middle, read as a shorter number.         *)
(***************************************************************************)
EXTENDS Compass

VARIABLES
  file,     \* its lines: the number of points, then a point and a value each
  written,  \* lines written by save() so far
  spc,      \* onStepCb after set(): "none", "open" and "write", in save()
  mem       \* the table in Calibration, by points and values; 0: a zero

fileVars == <<file, written, spc, mem>>
fvars == <<vars, fileVars>>

Entries == 2 * CalibPoints
FileLines == 1 + Entries
Lines(t) == [i \in 1..FileLines |-> t]
Table(t) == [i \in 1..Entries |-> t]

(* Calibration::read of what is left of a file: the first line has the      *)
(* number of points; points and values that are missing stay 0.             *)
(* Without a first line there is no table.                                  *)
ReadBack(f) ==
  IF f = <<>> THEN <<>>
  ELSE [i \in 1..Entries |-> IF i + 1 \in DOMAIN f THEN f[i + 1] ELSE 0]

FileInit ==
  /\ Init
  /\ file \in {<<>>, Lines(1)}
  /\ written = 0 /\ spc = "none" /\ mem = <<>>

--------------------------------------------------------------------------------
ReadFile ==
  /\ ReadTable
  /\ table' = IF file = <<>> THEN 0 ELSE file[1]
  /\ mem' = ReadBack(file)
  /\ UNCHANGED <<file, written, spc>>

SetTable ==
  /\ Set
  /\ mem' = Table(table')
  /\ spc' = "open"
  /\ UNCHANGED <<file, written>>

(* ofstream::open truncates.  Mutant: the old lines stay until they are     *)
(* written over.                                                            *)
Opened_Kept == file
Opened == <<>>

Open ==
  /\ spc = "open" /\ spc' = "write"
  /\ file' = Opened
  /\ written' = 0
  /\ UNCHANGED <<vars, mem>>

(* Mutant: the last point, taken for the one that closes the circle, is     *)
(* left out.                                                                *)
ToWrite_LessOne == FileLines - 2
ToWrite == FileLines

WriteLine ==
  /\ spc = "write" /\ written < ToWrite
  /\ written' = written + 1
  /\ file' = [i \in DOMAIN file \cup {written + 1} |->
                IF i = written + 1 THEN table ELSE file[i]]
  /\ UNCHANGED <<vars, spc, mem>>

Close ==
  /\ spc = "write" /\ written = ToWrite
  /\ spc' = "none"
  /\ UNCHANGED <<vars, file, written, mem>>

(* calib(true) after save(); get() waits for the mutex. *)
Others ==
  /\ Configure \/ (Enable /\ spc = "none") \/ Turn \/ Calib \/ Arrive \/ TakePoint
     \/ LastTaken
  /\ UNCHANGED fileVars

FileThread ==
  /\ Sample \/ Value \/ CheckOff \/ CheckOn \/ (Get /\ spc # "write") \/ Correct
     \/ Store
  /\ UNCHANGED fileVars

(* Killed, or without power: then the end of the file may not be on disk.   *)
(* The program starts again.                                                *)
Restart(f) ==
  /\ lpc' = "configure" /\ mcalib' = FALSE /\ configured' = FALSE
  /\ table' = 0 /\ points' = <<>> /\ rest' = NotResting /\ pos' = pos
  /\ tpc' = "sample" /\ window' = {} /\ filled' = 0
  /\ kept' = Never /\ seen' = NoHeading
  /\ trigger' = TRUE /\ cached' = 0 /\ azimuth' = NoHeading
  /\ file' = f /\ written' = 0 /\ spc' = "none" /\ mem' = <<>>
Kill == Restart(file)
PowerOff == \E n \in 0..Len(file) : Restart(SubSeq(file, 1, n))

FileLoop == ReadFile \/ SetTable \/ Open \/ WriteLine \/ Close \/ Others

FileNext == FileLoop \/ FileThread \/ Kill \/ PowerOff

(* save() goes on, and the thread reads on and on. *)
FileSpec ==
  /\ FileInit /\ [][FileNext]_fvars
  /\ WF_fvars(FileThread) /\ WF_fvars(Open \/ WriteLine \/ Close)

--------------------------------------------------------------------------------
(* The table in use comes from one calibration, however often save() was    *)
(* cut short: what is missing are zeros, all at the end, and never the      *)
(* lines of an older calibration.                                           *)
TableIsOfOneCalibration ==
  \A i \in DOMAIN mem :
    mem[i] = table \/ (\A j \in i..Entries : mem[j] = 0)

(* Except in save(), a program that is killed finds the table it had.       *)
KilledLosesNothing ==
  spc = "none" /\ lpc \notin {"configure", "read"} => ReadBack(file) = mem

================================================================================
