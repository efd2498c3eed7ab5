----------------------------- MODULE Bus3Loops -----------------------------
(***************************************************************************)
(* The loops of ast/ast.go that hold i2c bus 3 of a running BMC against    *)
(* its firmware: AstI2c3Disable takes the pins away, in register 0x90 of   *)
(* the SCU, and AstI2c3Speed slows the bus down, in register 0x104 of the  *)
(* i2c block.  Each turn reads a register and may write it back changed;   *)
(* the firmware does the same at any time.                                 *)
(***************************************************************************)
EXTENDS Naturals

CONSTANTS MaxWrites,   \* bound on the writes of the firmware
          Locks        \* whether the SCU may be locked, or locked again

BoundsAssumption == MaxWrites \in Nat /\ Locks \subseteq BOOLEAN /\ Locks # {}

VARIABLES
  scu90, i2c104,  \* the registers: their field that matters, and the rest
  locked,         \* the SCU ignores writes
  writes,         \* of the firmware so far
  loop, pc, got,  \* AstI2c3Disable or AstI2c3Speed, and the register as it was read
  report,
  touched         \* history: the firmware wrote the register after the loop read it

hardware == <<scu90, i2c104, locked, writes>>
program == <<loop, pc, got, report>>
vars == <<hardware, program, touched>>

Fast == 5
Slow == 11
Enabled == 1   \* bit 17 of 0x90
Rests == {0, 1}
Scu90s == [field : {0, Enabled}, rest : Rests]
I2c104s == [field : {Fast, Slow, 0}, rest : Rests]   \* 0: any other speed

TypeOK ==
  /\ scu90 \in Scu90s /\ i2c104 \in I2c104s /\ locked \in Locks /\ writes \in 0..MaxWrites
  /\ loop \in {"disable", "speed"} /\ pc \in {"read", "write", "done"}
  /\ got \in IF loop = "disable" THEN Scu90s ELSE I2c104s
  /\ report \in {"none", "disabled", "not disabled"} /\ touched \in BOOLEAN

Init ==
  /\ scu90 \in Scu90s /\ i2c104 \in I2c104s /\ locked \in Locks /\ writes = 0
  /\ \/ loop = "disable" /\ got = [field |-> 0, rest |-> 0]
     \/ loop = "speed" /\ got = i2c104
  /\ pc = "read" /\ report = "none" /\ touched = TRUE
-----------------------------------------------------------------------------
\* The firmware may set what the loop keeps clearing, or change the rest.
Firmware ==
  /\ pc # "done" /\ writes < MaxWrites
  /\ writes' = writes + 1
  /\ \/ scu90' \in Scu90s /\ i2c104' = i2c104
     \/ i2c104' \in I2c104s /\ scu90' = scu90
  /\ locked' \in Locks
  /\ touched' = TRUE
  /\ UNCHANGED program

Register == IF loop = "disable" THEN scu90 ELSE i2c104

\* The whole register compared, not its field.
WrongWhole(r) == r = [field |-> IF loop = "disable" THEN Enabled ELSE Fast, rest |-> 0]

Wrong(r) == r.field = IF loop = "disable" THEN Enabled ELSE Fast

Read ==
  /\ pc = "read"
  /\ got' = Register
  /\ pc' = IF Wrong(Register) THEN "write" ELSE "read"
  /\ touched' = FALSE
  /\ UNCHANGED <<hardware, loop, report>>

Corrected(r) == [r EXCEPT !.field = IF loop = "disable" THEN 0 ELSE Slow]

\* What is written is what was read: a change of the rest in between is undone.
Write ==
  /\ pc = "write" /\ pc' = "read"
  /\ \/ loop = "disable" /\ scu90' = (IF locked THEN scu90 ELSE Corrected(got)) /\ i2c104' = i2c104
     \/ loop = "speed" /\ i2c104' = Corrected(got) /\ scu90' = scu90
  /\ UNCHANGED <<locked, writes, loop, got, report, touched>>

\* The same, of the value that was written.
VerdictWritten(r) == IF Corrected(r).field = Enabled THEN "not disabled" ELSE "disabled"

Verdict(r) == IF r.field = Enabled THEN "not disabled" ELSE "disabled"

\* 120 seconds are over.  Before the first read the register counts as 0.
Deadline ==
  /\ loop = "disable" /\ pc = "read" /\ pc' = "done"
  /\ report' = Verdict(got)
  /\ UNCHANGED <<hardware, loop, got, touched>>

Loop == Read \/ Write \/ Deadline
Next == Loop \/ Firmware

Spec == Init /\ [][Next]_vars /\ WF_vars(Read) /\ WF_vars(Write)
-----------------------------------------------------------------------------
(* Properties *)

\* "PMbus is now disabled" is the truth unless the firmware wrote again since the
\* loop last looked, and although the SCU may have ignored what the loop wrote.
DisabledTruly ==
  report = "disabled" => touched \/ scu90.field # Enabled

\* Once the firmware is quiet the bus does not stay fast.
Hot == loop = "speed" /\ writes = MaxWrites /\ i2c104.field = Fast
SpeedSettles == Hot ~> ~Hot
=============================================================================
