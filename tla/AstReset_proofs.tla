-------------------------- MODULE AstReset_proofs --------------------------
(***************************************************************************)
(* For every set of families and buses: a stop that met no locked SCU      *)
(* leaves the BMC quiet, and a restart leaves it booting from SPI, running *)
(* or about to be started, whatever the firmware, the watchdogs and killed *)
(* runs did before.                                                        *)
(***************************************************************************)
EXTENDS AstReset, TLAPS

LEMMA InitIInv == Init => IInv
<1> SUFFICES ASSUME Init PROVE IInv
  OBVIOUS
<1>1. TypeOK
  BY DEF Init, TypeOK, StrapBits, Watchdogs, Present, NoPrev, Pcs, StopPcs, RestartPcs
<1>2. StopInv /\ StrapInv /\ GoalInv /\ WillRevive
  BY FamiliesAssumption DEF Init, StopInv, StrapInv, GoalInv, WillRevive, Halted, Quieted,
     RestartPcs
<1> QED BY <1>1, <1>2 DEF IInv

\* A new run promises nothing yet.
LEMMA StartIInv ==
  ASSUME IInv, NEW g \in {"stop", "reset", "resume"}, Start(g)
  PROVE  IInv'
<1> USE FamiliesAssumption DEF IInv, Start, bmc, NoPrev, SpiBoot, SpiSelected
<1>1. TypeOK'
  <2>1. prev' \in [rst70State : SUBSET StrapBits, wdt2Prev : BOOLEAN]
    <3>1. \A s \in SUBSET StrapBits : (s \ {0, 1}) \cup {1} \in SUBSET StrapBits
      BY DEF StrapBits
    <3>2. strap \in SUBSET StrapBits /\ {} \in SUBSET StrapBits
      BY DEF TypeOK
    <3>3. PICK s \in SUBSET StrapBits, b \in BOOLEAN :
            prev' = [rst70State |-> s, wdt2Prev |-> b]
      BY <3>1, <3>2
    <3> QED BY <3>3
  <2>2. pc' \in Pcs
    BY DEF Pcs, StopPcs, RestartPcs
  <2> QED BY <2>1, <2>2 DEF TypeOK, Present
<1>2. StopInv'
  BY DEF TypeOK, StopInv, Halted, Quieted, CpuDisabled, Watchdogs, Present, GoalInv, StrapInv, RestartPcs
<1>3. StrapInv'
  BY DEF TypeOK, StrapInv, CpuDisabled, RestartPcs, GoalInv, SpiSelected
<1>4. GoalInv'
  BY DEF TypeOK, GoalInv, RestartPcs
<1>5. WillRevive'
  BY DEF TypeOK, WillRevive, CpuDisabled, StrapInv, Watchdogs
<1> QED BY <1>1, <1>2, <1>3, <1>4, <1>5

LEMMA UnlockIInv ==
  ASSUME IInv, \/ Unlock("unlock", "save") \/ Unlock("unlock2", "clear")
  PROVE  IInv'
<1> USE FamiliesAssumption DEF IInv, Unlock, At
<1>1. TypeOK'
  BY DEF TypeOK, StrapBits, Watchdogs, Present, Pcs, StopPcs, RestartPcs
<1>2. StopInv'
  BY DEF TypeOK, StopInv, Halted, Quieted, CpuDisabled, Watchdogs, Present, GoalInv, StrapInv, RestartPcs
<1>3. StrapInv'
  BY DEF TypeOK, StrapInv, CpuDisabled, RestartPcs, GoalInv, SpiSelected
<1>4. GoalInv'
  BY DEF TypeOK, GoalInv, RestartPcs
<1>5. WillRevive'
  BY DEF TypeOK, WillRevive, CpuDisabled, StrapInv, Watchdogs
<1> QED BY <1>1, <1>2, <1>3, <1>4, <1>5

LEMMA SaveIInv ==
  ASSUME IInv, Save
  PROVE  IInv'
<1> USE FamiliesAssumption DEF IInv, Save, At, bmc
<1>1. TypeOK'
  BY DEF TypeOK, StrapBits, Watchdogs, Present, Pcs, StopPcs, RestartPcs
<1>2. StopInv'
  BY DEF TypeOK, StopInv, Halted, Quieted, CpuDisabled, Watchdogs, Present, GoalInv, StrapInv, RestartPcs
<1>3. StrapInv'
  BY DEF TypeOK, StrapInv, CpuDisabled, RestartPcs, GoalInv, SpiSelected
<1>4. GoalInv'
  BY DEF TypeOK, GoalInv, RestartPcs
<1>5. WillRevive'
  BY DEF TypeOK, WillRevive, CpuDisabled, StrapInv, Watchdogs
<1> QED BY <1>1, <1>2, <1>3, <1>4, <1>5

\* The second round is what counts: the CPU that could enable them again is down.
LEMMA WdtOffIInv ==
  ASSUME IInv, \/ WdtOff(1, "off1", "off2") \/ WdtOff(2, "off2", Third("off3", "halt"))
         \/ WdtOff(3, "off3", "halt")
         \/ WdtOff(1, "again1", "again2") \/ WdtOff(2, "again2", Third("again3", "i2c"))
         \/ WdtOff(3, "again3", "i2c")
  PROVE  IInv'
<1> USE FamiliesAssumption DEF IInv, WdtOff, At, Third
<1>1. TypeOK'
  <2>1. PICK i \in Watchdogs, from \in Pcs, to \in Pcs : WdtOff(i, from, to)
    BY DEF Watchdogs, Pcs, StopPcs
  <2>2. wdt' \in [Watchdogs -> BOOLEAN] /\ \A j \in Watchdogs : wdt'[j] => wdt[j]
    BY <2>1 DEF TypeOK
  <2> QED BY <2>1, <2>2 DEF TypeOK, Present
<1>2. StopInv'
  BY DEF TypeOK, StopInv, Halted, Quieted, CpuDisabled, Watchdogs, Present, GoalInv, StrapInv, RestartPcs
<1>3. StrapInv'
  BY DEF TypeOK, StrapInv, CpuDisabled, RestartPcs, GoalInv, SpiSelected
<1>4. GoalInv'
  BY DEF TypeOK, GoalInv, RestartPcs
<1>5. WillRevive'
  BY DEF TypeOK, WillRevive, CpuDisabled, StrapInv, Watchdogs
<1> QED BY <1>1, <1>2, <1>3, <1>4, <1>5

LEMMA HaltIInv ==
  ASSUME IInv, Halt
  PROVE  IInv'
<1> USE FamiliesAssumption DEF IInv, Halt, At, WriteStrap
<1>1. TypeOK'
  BY DEF TypeOK, StrapBits, Watchdogs, Present, Pcs, StopPcs, RestartPcs
<1>2. StopInv'
  BY DEF TypeOK, StopInv, Halted, Quieted, CpuDisabled, Watchdogs, Present, GoalInv, StrapInv, RestartPcs
<1>3. StrapInv'
  BY DEF TypeOK, StrapInv, CpuDisabled, RestartPcs, GoalInv, SpiSelected
<1>4. GoalInv'
  BY DEF TypeOK, GoalInv, RestartPcs
<1>5. WillRevive'
  BY DEF TypeOK, WillRevive, CpuDisabled, StrapInv, Watchdogs
<1> QED BY <1>1, <1>2, <1>3, <1>4, <1>5

LEMMA I2cOffIInv ==
  ASSUME IInv, I2cOff
  PROVE  IInv'
<1> USE FamiliesAssumption DEF IInv, I2cOff, At, I2cEnabledSet
<1>1. TypeOK'
  BY DEF TypeOK, StrapBits, Watchdogs, Present, Pcs, StopPcs, RestartPcs
<1>2. StopInv'
  BY DEF TypeOK, StopInv, Halted, Quieted, CpuDisabled, Watchdogs, Present, GoalInv, StrapInv, RestartPcs
<1>3. StrapInv'
  BY DEF TypeOK, StrapInv, CpuDisabled, RestartPcs, GoalInv, SpiSelected
<1>4. GoalInv'
  BY DEF TypeOK, GoalInv, RestartPcs
<1>5. WillRevive'
  BY DEF TypeOK, WillRevive, CpuDisabled, StrapInv, Watchdogs
<1> QED BY <1>1, <1>2, <1>3, <1>4, <1>5

LEMMA LpcOffIInv ==
  ASSUME IInv, LpcOff
  PROVE  IInv'
<1> USE FamiliesAssumption DEF IInv, LpcOff, At, ForceSpi, SpiBoot, SpiSelected
<1>1. TypeOK'
  BY DEF TypeOK, StrapBits, Watchdogs, Present, Pcs, StopPcs, RestartPcs
<1>2. StopInv'
  BY DEF TypeOK, StopInv, Halted, Quieted, CpuDisabled, Watchdogs, Present, GoalInv, StrapInv, RestartPcs
<1>3. StrapInv'
  BY DEF TypeOK, StrapInv, CpuDisabled, RestartPcs, GoalInv, SpiSelected
<1>4. GoalInv'
  BY DEF TypeOK, GoalInv, RestartPcs
<1>5. WillRevive'
  BY DEF TypeOK, WillRevive, CpuDisabled, StrapInv, Watchdogs
<1> QED BY <1>1, <1>2, <1>3, <1>4, <1>5

LEMMA EndSessionIInv ==
  ASSUME IInv, EndSession
  PROVE  IInv'
<1> USE FamiliesAssumption DEF IInv, EndSession, At, bmc
<1>1. TypeOK'
  BY DEF TypeOK, StrapBits, Watchdogs, Present, Pcs, StopPcs, RestartPcs
<1>2. StopInv'
  BY DEF TypeOK, StopInv, Halted, Quieted, CpuDisabled, Watchdogs, Present, GoalInv, StrapInv, RestartPcs
<1>3. StrapInv'
  BY DEF TypeOK, StrapInv, CpuDisabled, RestartPcs, GoalInv, SpiSelected
<1>4. GoalInv'
  BY DEF TypeOK, GoalInv, RestartPcs
<1>5. WillRevive'
  BY DEF TypeOK, WillRevive, CpuDisabled, StrapInv, Watchdogs
<1> QED BY <1>1, <1>2, <1>3, <1>4, <1>5

LEMMA ClearStrapIInv ==
  ASSUME IInv, ClearStrap
  PROVE  IInv'
<1> USE FamiliesAssumption DEF IInv, ClearStrap, At, WriteStrap, SpiSelected
<1>1. TypeOK'
  <2>1. strap' \subseteq StrapBits /\ lost' \in BOOLEAN
    <3>1. CASE family = 24
      BY <3>1 DEF TypeOK, StrapBits
    <3>2. CASE family = 25
      BY <3>2 DEF TypeOK, StrapBits
    <3>3. CASE family = 26
      BY <3>3 DEF TypeOK, StrapBits
    <3> QED BY <3>1, <3>2, <3>3 DEF TypeOK
  <2>2. pc' \in Pcs
    BY DEF Pcs, RestartPcs
  <2> QED BY <2>1, <2>2 DEF TypeOK, Present
<1>2. StopInv'
  BY DEF TypeOK, StopInv, Halted, Quieted, CpuDisabled, Watchdogs, Present, GoalInv, StrapInv, RestartPcs
<1>3. StrapInv'
  <2>1. /\ pc' = "set" /\ prev' = prev /\ family' = family
        /\ SpiSelected(prev.rst70State)
    BY DEF StrapInv, RestartPcs
  <2>2. family <= 25 => 1 \in strap'
    BY DEF TypeOK, StrapInv
  <2>3. ~lost' /\ family = 25 => 0 \notin strap' /\ 13 \notin strap'
    <3>1. SUFFICES ASSUME ~lost', family = 25
                   PROVE  0 \notin strap' /\ 13 \notin strap'
      OBVIOUS
    <3>2. strap' = IF unlocked THEN strap \ {0, 12, 13} ELSE strap
      BY <3>1
    <3>3. lost' = (lost \/ ~unlocked)
      BY <3>1
    <3>4. unlocked
      BY ONLY <3>1, <3>3, Zenon
    <3>5. strap' = strap \ {0, 12, 13}
      BY <3>2, <3>4
    <3> QED BY ONLY <3>5
  <2> QED BY <2>1, <2>2, <2>3 DEF StrapInv
<1>4. GoalInv'
  BY DEF TypeOK, GoalInv, RestartPcs
<1>5. WillRevive'
  BY DEF TypeOK, WillRevive, CpuDisabled, StrapInv, Watchdogs
<1> QED BY <1>1, <1>2, <1>3, <1>4, <1>5

\* Each family ends with a strap that lets the CPU run.
LEMMA SetStrapIInv ==
  ASSUME IInv, SetStrap
  PROVE  IInv'
<1> USE FamiliesAssumption DEF IInv, SetStrap, At, WriteStrap, SpiSelected
<1>1. TypeOK'
  <2>1. strap' \subseteq StrapBits /\ lost' \in BOOLEAN
    <3>1. CASE family = 24
      BY <3>1 DEF TypeOK, StrapBits
    <3>2. CASE family = 25
      BY <3>2 DEF TypeOK, StrapBits
    <3>3. CASE family = 26
      BY <3>3 DEF TypeOK, StrapBits
    <3> QED BY <3>1, <3>2, <3>3 DEF TypeOK
  <2>2. pc' \in Pcs
    BY DEF Pcs, RestartPcs
  <2> QED BY <2>1, <2>2 DEF TypeOK, Present
<1>2. StopInv'
  BY DEF TypeOK, StopInv, Halted, Quieted, CpuDisabled, Watchdogs, Present, GoalInv, StrapInv, RestartPcs
<1>3. StrapInv'
  <2>1. pc' \in {"wdt2", "arm"} /\ prev' = prev /\ family' = family
    OBVIOUS
  <2>2. /\ SpiSelected(prev.rst70State)
        /\ family <= 25 => 1 \in strap
        /\ ~lost /\ family = 25 => 0 \notin strap /\ 13 \notin strap
    BY DEF StrapInv, RestartPcs
  <2>3. /\ family <= 25 => 1 \in strap'
        /\ ~lost' => ~CpuDisabled(strap')
        /\ ~lost' /\ family = 25 => 12 \in strap' /\ 13 \notin strap'
    <3>1. CASE family = 24
      <4>1. /\ strap' = IF unlocked THEN prev.rst70State ELSE strap
            /\ lost' = (lost \/ ~unlocked)
        BY <3>1
      <4>2. 1 \in strap' /\ (~lost' => 0 \notin strap')
        <5>1. 1 \in strap /\ 1 \in prev.rst70State /\ 0 \notin prev.rst70State
          BY <2>2, <3>1
        <5>2. CASE unlocked
          BY ONLY <4>1, <5>1, <5>2
        <5>3. CASE ~unlocked
          <6>1. lost'
            BY ONLY <4>1, <5>3, Zenon
          <6> QED BY ONLY <4>1, <5>1, <5>3, <6>1
        <5> QED BY <5>2, <5>3
      <4> QED BY <3>1, <4>2 DEF CpuDisabled
    <3>2. CASE family = 25
      <4>1. /\ strap' = IF unlocked THEN strap \cup {12} ELSE strap
            /\ lost' = (lost \/ ~unlocked)
        BY <3>2
      <4>2. 1 \in strap'
        BY <2>2, <3>2, <4>1
      <4>3. ~lost' => 12 \in strap' /\ 0 \notin strap' /\ 13 \notin strap'
        <5>1. SUFFICES ASSUME ~lost' PROVE 12 \in strap' /\ 0 \notin strap' /\ 13 \notin strap'
          OBVIOUS
        <5>2. ~lost /\ unlocked
          BY ONLY <4>1, <5>1, Zenon
        <5>3. strap' = strap \cup {12} /\ 0 \notin strap /\ 13 \notin strap
          BY <2>2, <3>2, <4>1, <5>2
        <5> QED BY ONLY <5>3
      <4> QED BY <3>2, <4>2, <4>3 DEF CpuDisabled
    <3>3. CASE family = 26
      <4>1. /\ strap' = IF unlocked THEN strap \ {0} ELSE strap
            /\ lost' = (lost \/ ~unlocked)
        BY <3>3
      <4>2. ~lost' => 0 \notin strap'
        <5>1. SUFFICES ASSUME ~lost' PROVE 0 \notin strap'
          OBVIOUS
        <5>2. unlocked
          BY ONLY <4>1, <5>1, Zenon
        <5> QED BY ONLY <4>1, <5>2
      <4> QED BY <3>3, <4>2 DEF CpuDisabled
    <3> QED BY <3>1, <3>2, <3>3
  <2>4. ~lost' => ~CpuDisabled(strap)'
    BY <2>1, <2>3 DEF CpuDisabled
  <2> QED BY <2>1, <2>2, <2>3, <2>4 DEF StrapInv, RestartPcs
<1>4. GoalInv'
  BY DEF TypeOK, GoalInv, RestartPcs
<1>5. WillRevive'
  BY DEF TypeOK, WillRevive, CpuDisabled, StrapInv, Watchdogs
<1> QED BY <1>1, <1>2, <1>3, <1>4, <1>5

LEMMA RestoreWdt2IInv ==
  ASSUME IInv, RestoreWdt2
  PROVE  IInv'
<1> USE FamiliesAssumption DEF IInv, RestoreWdt2, At
<1>1. TypeOK'
  BY DEF TypeOK, StrapBits, Watchdogs, Present, Pcs, StopPcs, RestartPcs
<1>2. StopInv'
  BY DEF TypeOK, StopInv, Halted, Quieted, CpuDisabled, Watchdogs, Present, GoalInv, StrapInv, RestartPcs
<1>3. StrapInv'
  BY DEF TypeOK, StrapInv, CpuDisabled, RestartPcs, GoalInv, SpiSelected
<1>4. GoalInv'
  BY DEF TypeOK, GoalInv, RestartPcs
<1>5. WillRevive'
  BY DEF TypeOK, WillRevive, CpuDisabled, StrapInv, Watchdogs
<1> QED BY <1>1, <1>2, <1>3, <1>4, <1>5

LEMMA ArmWdt1IInv ==
  ASSUME IInv, ArmWdt1
  PROVE  IInv'
<1> USE FamiliesAssumption DEF IInv, ArmWdt1, At
<1>1. TypeOK'
  BY DEF TypeOK, StrapBits, Watchdogs, Present, Pcs, StopPcs, RestartPcs
<1>2. StopInv'
  BY DEF TypeOK, StopInv, Halted, Quieted, CpuDisabled, Watchdogs, Present, GoalInv, StrapInv, RestartPcs
<1>3. StrapInv'
  BY DEF TypeOK, StrapInv, CpuDisabled, RestartPcs, GoalInv, SpiSelected
<1>4. GoalInv'
  BY DEF TypeOK, GoalInv, RestartPcs
<1>5. WillRevive'
  BY DEF TypeOK, WillRevive, CpuDisabled, StrapInv, Watchdogs
<1> QED BY <1>1, <1>2, <1>3, <1>4, <1>5

LEMMA KillIInv ==
  ASSUME IInv, Kill
  PROVE  IInv'
<1> USE FamiliesAssumption DEF IInv, Kill, bmc
<1>1. TypeOK'
  BY DEF TypeOK, StrapBits, Watchdogs, Present, Pcs, StopPcs, RestartPcs
<1>2. StopInv'
  BY DEF TypeOK, StopInv, Halted, Quieted, CpuDisabled, Watchdogs, Present, GoalInv, StrapInv, RestartPcs
<1>3. StrapInv'
  BY DEF TypeOK, StrapInv, CpuDisabled, RestartPcs, GoalInv, SpiSelected
<1>4. GoalInv'
  BY DEF TypeOK, GoalInv, RestartPcs
<1>5. WillRevive'
  BY DEF TypeOK, WillRevive, CpuDisabled, StrapInv, Watchdogs
<1> QED BY <1>1, <1>2, <1>3, <1>4, <1>5

\* The firmware only acts while the CPU runs.
LEMMA FirmwareIInv ==
  ASSUME IInv, Firmware
  PROVE  IInv'
<1> USE FamiliesAssumption DEF IInv, Firmware, others
<1>1. TypeOK'
  <2>1. wdt' \in [Watchdogs -> BOOLEAN] /\ \A j \in Watchdogs \ Present : wdt'[j] = wdt[j]
    BY DEF TypeOK, Present, Watchdogs
  <2>2. pins' \subseteq Buses /\ i2cOn' \subseteq Buses
    BY DEF TypeOK
  <2> QED BY <2>1, <2>2 DEF TypeOK, Present
<1>2. StopInv'
  BY DEF TypeOK, StopInv, Halted, Quieted, CpuDisabled, Watchdogs, Present, GoalInv, StrapInv, RestartPcs
<1>3. StrapInv'
  BY DEF TypeOK, StrapInv, CpuDisabled, RestartPcs, GoalInv, SpiSelected
<1>4. GoalInv'
  BY DEF TypeOK, GoalInv, RestartPcs
<1>5. WillRevive'
  BY DEF TypeOK, WillRevive, CpuDisabled, StrapInv, Watchdogs
<1> QED BY <1>1, <1>2, <1>3, <1>4, <1>5

\* A reset starts the CPU only if the strap lets it.
LEMMA ExpireIInv ==
  ASSUME IInv, NEW i \in Watchdogs, Expire(i)
  PROVE  IInv'
<1> USE FamiliesAssumption DEF IInv, Expire
<1>1. TypeOK'
  BY DEF TypeOK, StrapBits, Watchdogs, Present, Pcs, StopPcs, RestartPcs
<1>2. StopInv'
  BY DEF TypeOK, StopInv, Halted, Quieted, CpuDisabled, Watchdogs, Present, GoalInv, StrapInv, RestartPcs
<1>3. StrapInv'
  BY DEF TypeOK, StrapInv, CpuDisabled, RestartPcs, GoalInv, SpiSelected
<1>4. GoalInv'
  BY DEF TypeOK, GoalInv, RestartPcs
<1>5. WillRevive'
  BY DEF TypeOK, WillRevive, CpuDisabled, StrapInv, Watchdogs
<1> QED BY <1>1, <1>2, <1>3, <1>4, <1>5

\* Every step of the program, the firmware and the watchdogs keeps the invariant.
LEMMA NextIInv == IInv /\ [Next]_vars => IInv'
<1> SUFFICES ASSUME IInv, [Next]_vars PROVE IInv'
  OBVIOUS
<1>1. ASSUME NEW g \in {"stop", "reset", "resume"}, Start(g) PROVE IInv'
  BY <1>1, StartIInv
<1>2. CASE Program
  BY <1>2, UnlockIInv, SaveIInv, WdtOffIInv, HaltIInv, I2cOffIInv, LpcOffIInv,
     ClearStrapIInv, SetStrapIInv, RestoreWdt2IInv, ArmWdt1IInv DEF Program
<1>3. CASE EndSession
  BY <1>3, EndSessionIInv
<1>4. CASE Kill
  BY <1>4, KillIInv
<1>5. CASE Firmware
  BY <1>5, FirmwareIInv
<1>6. ASSUME NEW i \in Watchdogs, Expire(i) PROVE IInv'
  BY <1>6, ExpireIInv
<1>7. CASE UNCHANGED vars
  BY <1>7 DEF vars, IInv, TypeOK, StopInv, StrapInv, GoalInv, WillRevive, Halted, Quieted,
     Present, CpuDisabled
<1> QED BY <1>1, <1>2, <1>3, <1>4, <1>5, <1>6, <1>7 DEF Next

THEOREM ResetInvariant == Spec => []IInv
  BY InitIInv, NextIInv, PTL DEF Spec

\* Every variable keeps its type.
THEOREM TypeCorrect == Spec => []TypeOK
<1>1. IInv => TypeOK
  BY DEF IInv
<1> QED BY <1>1, ResetInvariant, PTL

\* The BMC that AstStop returns is quiet, and stays so.
THEOREM StoppedAlwaysQuiet == Spec => []StoppedIsQuiet
<1>1. IInv => StoppedIsQuiet
  BY DEF IInv, TypeOK, StopInv, StoppedIsQuiet, Halted, Quieted, Present, Watchdogs
<1> QED BY <1>1, ResetInvariant, PTL

\* A completed restart never leaves the CPU down for good.
THEOREM RestartWillRevive == Spec => []WillRevive
<1>1. IInv => WillRevive
  BY DEF IInv
<1> QED BY <1>1, ResetInvariant, PTL

\* On families 24 and 25 a completed restart boots from SPI.
THEOREM RestartBootsFromSpi == Spec => []BootsFromSpi
<1>1. IInv => BootsFromSpi
  BY DEF IInv, TypeOK, StrapInv, BootsFromSpi, CpuDisabled, SpiSelected
<1> QED BY <1>1, ResetInvariant, PTL
-----------------------------------------------------------------------------
(* The buses that AstStop stops on any family                              *)

NamedOff == ~lost /\ pc \in {"lpc", "session"} => i2cOn \cap I2cEnabledSet = {}

\* Behind the halt nobody is left who could enable a bus or its pins.
LEMMA NextNamedOff ==
  ASSUME IInv, NamedOff, [Next]_vars
  PROVE  NamedOff'
<1>1. pc' \in {"lpc", "session"} /\ ~lost' => ~lost /\ (pc \in {"lpc", "session"} \/ I2cOff)
  BY DEF vars, Next, Start, Program, At, Unlock, Save, WdtOff, Third, WriteStrap, Halt, I2cOff,
     LpcOff, EndSession, ClearStrap, SetStrap, RestoreWdt2, ArmWdt1, Kill, Firmware, others,
     Expire, bmc
<1>2. CASE ~lost /\ pc \in {"lpc", "session"}
  <2>1. cpu = "halt"
    BY <1>2 DEF IInv, StopInv, Halted
  <2>2. i2cOn' \subseteq i2cOn /\ pins' = pins /\ family' = family
    BY <1>2, <2>1 DEF vars, Next, Start, Program, At, Unlock, Save, WdtOff, Halt, I2cOff, LpcOff,
       EndSession, ClearStrap, SetStrap, RestoreWdt2, ArmWdt1, Kill, Firmware, others, Expire, bmc
  <2> QED BY <1>2, <2>2 DEF NamedOff, I2cEnabledSet
<1>3. CASE I2cOff
  BY <1>3 DEF I2cOff, At, NamedOff, I2cEnabledSet
<1> QED BY <1>1, <1>2, <1>3 DEF NamedOff

\* Whatever the firmware enables while it is stopped, and whatever was killed before:
\* of the buses that I2cEnabledSet names none is on when AstStop has returned.
THEOREM NamedBusesStopped ==
  Spec => [](pc = "session" /\ ~lost => i2cOn \cap I2cEnabledSet = {})
<1>1. Init => NamedOff
  BY DEF Init, NamedOff
<1>2. NamedOff => (pc = "session" /\ ~lost => i2cOn \cap I2cEnabledSet = {})
  BY DEF NamedOff
<1> QED BY <1>1, <1>2, NextNamedOff, ResetInvariant, PTL DEF Spec
=============================================================================
