------------------------------ MODULE AstReset ------------------------------
(***************************************************************************)
(* AstStop, AstRestart, AstReset and AstResume (ast/ast.go): the host      *)
(* stops the BMC under a firmware that runs on until its CPU is halted,    *)
(* works on it (flash, i2c), and starts it again through watchdog 1.  The  *)
(* program can be killed between any two register writes and run again.    *)
(***************************************************************************)
EXTENDS Integers, FiniteSets

CONSTANTS Families,     \* AstHandle.Family: 24, 25, 26
          Buses,        \* i2c controllers
          FixedBuses    \* the buses I2cEnabledSet names for family 26

ASSUME FamiliesAssumption == Families \subseteq {24, 25, 26}
ASSUME BusesAssumption == FixedBuses \subseteq Buses

VARIABLES family,     \* of the BMC in this host
          strap,      \* the bits set in SCU70 (24, 25) or SCU500 (26)
          cpu,        \* "run" or "halt"
          unlocked,   \* the SCU accepts writes
          wdt,        \* wdt[i]: watchdog i is enabled
          pins,       \* buses whose pins are enabled
          i2cOn,      \* buses whose controller is enabled
          lpcOn,      \* LPC channels, KCS and BT are enabled
          pc,         \* the next register write of the program, or "off"
          goal,       \* "stop" (FmcNew, asti2c), "reset", or "resume" on the BMC
          prev,       \* AstPrevState: [rst70State, wdt2Prev]
          lost        \* history: a strap write of this run met a locked SCU

bmc == <<strap, cpu, unlocked, wdt, pins, i2cOn, lpcOn>>
vars == <<family, strap, cpu, unlocked, wdt, pins, i2cOn, lpcOn, pc, goal, prev, lost>>

\* AstStop and AstRestart, in the order of their writes.
StopPcs == {"unlock", "save", "off1", "off2", "off3", "halt",
            "again1", "again2", "again3", "i2c", "lpc"}
RestartPcs == {"unlock2", "clear", "set", "wdt2", "arm"}
Pcs == StopPcs \cup RestartPcs \cup {"off", "session", "armed"}

Watchdogs == {1, 2, 3}
Present == IF family = 24 THEN {1, 2} ELSE Watchdogs
StrapBits == {0, 1, 12, 13}
CpuDisabled(s) == IF family = 26 THEN 0 \in s ELSE {0, 1} \subseteq s
SpiSelected(s) == 1 \in s /\ 0 \notin s
\* "(s &^ 3) | 2".  Variant: the number of the bit for its value.
SpiBootBit2(s) == (s \ {0, 1}) \cup {2}
SpiBoot(s) == (s \ {0, 1}) \cup {1}
NoPrev == [rst70State |-> {}, wdt2Prev |-> FALSE]

TypeOK ==
  /\ family \in Families
  /\ strap \subseteq StrapBits
  /\ cpu \in {"run", "halt"}
  /\ unlocked \in BOOLEAN
  /\ wdt \in [Watchdogs -> BOOLEAN]
  /\ \A i \in Watchdogs \ Present : ~wdt[i]
  /\ pins \subseteq Buses /\ i2cOn \subseteq Buses
  /\ lpcOn \in BOOLEAN
  /\ pc \in Pcs
  /\ goal \in {"stop", "reset", "resume"}
  /\ prev \in [rst70State : SUBSET StrapBits, wdt2Prev : BOOLEAN]
  /\ lost \in BOOLEAN

\* A BMC that is up and boots from SPI, in one of two SPI modes (bits 13:12).
Init ==
  /\ family \in Families
  /\ strap \in IF family = 26 THEN {{}} ELSE {{1, 12}, {1, 13}}
  /\ cpu = "run"
  /\ unlocked = FALSE
  /\ wdt \in [Watchdogs -> BOOLEAN] /\ \A i \in Watchdogs \ Present : ~wdt[i]
  /\ pins \in SUBSET Buses
  /\ i2cOn \in SUBSET Buses
  /\ lpcOn \in BOOLEAN
  /\ pc = "off" /\ goal = "stop" /\ prev = NoPrev /\ lost = FALSE
-----------------------------------------------------------------------------
(* The program *)

\* AstStop refuses to run on the BMC itself; AstResume needs no stop.  It takes the
\* strap from SCU70, another register on family 26 (line 223).
Start(g) ==
  /\ pc \in {"off", "armed"}
  /\ goal' = g
  /\ lost' = FALSE
  /\ \/ /\ g # "resume"
        /\ pc' = "unlock" /\ prev' = NoPrev
     \/ /\ g = "resume" /\ cpu = "run"
        /\ pc' = "unlock2"
        /\ \E s \in IF family = 26 THEN SUBSET StrapBits ELSE {strap} :
             prev' = [rst70State |-> SpiBoot(s), wdt2Prev |-> FALSE]
  /\ UNCHANGED <<bmc, family>>

At(from, to) == pc = from /\ pc' = to /\ UNCHANGED <<family, goal>>

Unlock(from, to) ==
  /\ At(from, to)
  /\ unlocked' = TRUE
  /\ UNCHANGED <<strap, cpu, wdt, pins, i2cOn, lpcOn, prev, lost>>

\* Line 122: only families 24 and 25 remember watchdog 2.
Save ==
  /\ At("save", "off1")
  /\ prev' = [prev EXCEPT !.wdt2Prev = family <= 25 /\ wdt[2]]
  /\ UNCHANGED <<bmc, lost>>

\* Variant: the watchdogs are disabled before the halt only.
WdtOffOnce(i, from, to) ==
  /\ At(from, to)
  /\ wdt' = IF pc \in {"off1", "off2", "off3"} THEN [wdt EXCEPT ![i] = FALSE] ELSE wdt
  /\ UNCHANGED <<strap, cpu, unlocked, pins, i2cOn, lpcOn, prev, lost>>

WdtOff(i, from, to) ==
  /\ At(from, to)
  /\ wdt' = [wdt EXCEPT ![i] = FALSE]
  /\ UNCHANGED <<strap, cpu, unlocked, pins, i2cOn, lpcOn, prev, lost>>

Third(i3, next) == IF family >= 25 THEN i3 ELSE next

\* The SCU takes a write only while it is unlocked.
WriteStrap(s) ==
  /\ strap' = IF unlocked THEN s ELSE strap
  /\ lost' = (lost \/ ~unlocked)

\* Lines 130-136.  A strap that disables the CPU stops it at once.
Halt ==
  /\ At("halt", "again1")
  /\ WriteStrap(IF family = 26 THEN strap \cup {0} ELSE strap \cup {0, 1})
  /\ cpu' = IF unlocked THEN "halt" ELSE cpu
  /\ prev' = [prev EXCEPT !.rst70State = strap]
  /\ UNCHANGED <<unlocked, wdt, pins, i2cOn, lpcOn>>

I2cEnabledSet == IF family = 26 THEN FixedBuses ELSE pins

I2cOff ==
  /\ At("i2c", "lpc")
  /\ i2cOn' = i2cOn \ I2cEnabledSet
  /\ UNCHANGED <<strap, cpu, unlocked, wdt, pins, lpcOn, prev, lost>>

\* Variant: the strap is put back as AstStop found it.
KeepSelect(s) == s

\* Lines 214-218: a boot select that is not SPI, 3 for one, becomes SPI.
ForceSpi(s) == IF SpiSelected(s) THEN s ELSE SpiBoot(s)

\* The end of AstStop.  Its callers go on working on the stopped BMC, AstReset
\* restarts it.
LpcOff ==
  /\ At("lpc", IF goal = "reset" THEN "unlock2" ELSE "session")
  /\ lpcOn' = FALSE
  /\ prev' = IF goal = "reset" THEN [prev EXCEPT !.rst70State = ForceSpi(@)] ELSE prev
  /\ UNCHANGED <<strap, cpu, unlocked, wdt, pins, i2cOn, lost>>

\* Nothing restarts the BMC after FmcNew.
EndSession ==
  /\ At("session", "off")
  /\ UNCHANGED <<bmc, prev, lost>>

\* Lines 171-180.  SCU70 of family 25 and SCU500 of family 26 set the bits that
\* are written as 1, SCU7c and SCU504 clear them; SCU70 of family 24 takes the value.
ClearStrap ==
  /\ At("clear", "set")
  /\ \/ family = 25 /\ WriteStrap(strap \ {0, 12, 13})
     \/ family = 24 /\ UNCHANGED <<strap, lost>>
     \/ family = 26 /\ WriteStrap(strap \cup prev.rst70State)
  /\ UNCHANGED <<cpu, unlocked, wdt, pins, i2cOn, lpcOn, prev>>

\* Variant: the spi-master write for family 25 is missing.
SetStrapNoMaster ==
  /\ At("set", IF family <= 25 THEN "wdt2" ELSE "arm")
  /\ \/ family = 25 /\ UNCHANGED <<strap, lost>>
     \/ family = 24 /\ WriteStrap(prev.rst70State)
     \/ family = 26 /\ WriteStrap(strap \ {0})
  /\ UNCHANGED <<cpu, unlocked, wdt, pins, i2cOn, lpcOn, prev>>

SetStrap ==
  /\ At("set", IF family <= 25 THEN "wdt2" ELSE "arm")
  /\ \/ family = 25 /\ WriteStrap(strap \cup {12})
     \/ family = 24 /\ WriteStrap(prev.rst70State)
     \/ family = 26 /\ WriteStrap(strap \ {0})
  /\ UNCHANGED <<cpu, unlocked, wdt, pins, i2cOn, lpcOn, prev>>

RestoreWdt2 ==
  /\ At("wdt2", "arm")
  /\ wdt' = [wdt EXCEPT ![2] = prev.wdt2Prev]
  /\ UNCHANGED <<strap, cpu, unlocked, pins, i2cOn, lpcOn, prev, lost>>

\* Variant: the restart register of watchdog 1 is not written.
ArmWdt1Unloaded ==
  /\ At("arm", "armed")
  /\ UNCHANGED <<bmc, prev, lost>>

\* Lines 204-211: watchdog 1 is loaded with 16 ticks, enabled and restarted.
ArmWdt1 ==
  /\ At("arm", "armed")
  /\ wdt' = [wdt EXCEPT ![1] = TRUE]
  /\ UNCHANGED <<strap, cpu, unlocked, pins, i2cOn, lpcOn, prev, lost>>

Program ==
  \/ Unlock("unlock", "save") \/ Save
  \/ WdtOff(1, "off1", "off2") \/ WdtOff(2, "off2", Third("off3", "halt"))
  \/ WdtOff(3, "off3", "halt")
  \/ Halt
  \/ WdtOff(1, "again1", "again2") \/ WdtOff(2, "again2", Third("again3", "i2c"))
  \/ WdtOff(3, "again3", "i2c")
  \/ I2cOff \/ LpcOff
  \/ Unlock("unlock2", "clear") \/ ClearStrap \/ SetStrap \/ RestoreWdt2 \/ ArmWdt1

Kill ==
  /\ pc \notin {"off", "armed"}
  /\ pc' = "off"
  /\ UNCHANGED <<bmc, family, goal, prev, lost>>
-----------------------------------------------------------------------------
(* The BMC *)

others == <<family, pc, goal, prev>>

\* The firmware, as long as its CPU runs: watchdogs, i2c, LPC, the SCU lock.
Firmware ==
  /\ cpu = "run"
  /\ \/ /\ \E i \in Present, b \in BOOLEAN : wdt' = [wdt EXCEPT ![i] = b]
        /\ UNCHANGED <<unlocked, pins, i2cOn, lpcOn>>
     \/ /\ unlocked' \in BOOLEAN
        /\ UNCHANGED <<wdt, pins, i2cOn, lpcOn>>
     \/ /\ \E b \in Buses : pins' = pins \cup {b} /\ i2cOn' = i2cOn \cup {b}
        /\ UNCHANGED <<wdt, unlocked, lpcOn>>
     \/ /\ lpcOn' = TRUE
        /\ UNCHANGED <<wdt, unlocked, pins, i2cOn>>
  /\ UNCHANGED <<strap, cpu, others, lost>>

\* A watchdog resets the BMC: the SCU is locked again, the strap stays, and the
\* CPU starts unless the strap disables it.  A program that runs on it is gone.
Expire(i) ==
  /\ wdt[i]
  /\ wdt' = [wdt EXCEPT ![i] = FALSE]
  /\ unlocked' = FALSE
  /\ cpu' = IF CpuDisabled(strap) THEN "halt" ELSE "run"
  /\ i2cOn' \in {i2cOn, {}} /\ lpcOn' \in {lpcOn, FALSE}
  /\ pc' = IF goal = "resume" THEN "off" ELSE pc
  /\ UNCHANGED <<strap, pins, family, goal, prev, lost>>

Next ==
  \/ \E g \in {"stop", "reset", "resume"} : Start(g)
  \/ Program \/ EndSession \/ Kill \/ Firmware
  \/ \E i \in Watchdogs : Expire(i)

Spec == Init /\ [][Next]_vars

\* A program that is not killed runs on; a watchdog that stays enabled expires.
FairSpec == Spec /\ WF_vars(Program) /\ \A i \in Watchdogs : WF_vars(Expire(i))
-----------------------------------------------------------------------------
(* Properties *)

\* From the return of AstStop on nothing runs on the BMC and nothing will start
\* it: not the CPU, no watchdog the firmware enabled again while it was being
\* stopped, no LPC channel, and on the chips whose pins are looked at no i2c bus.
\* FmcNew and asti2c count on this while they drive its controllers.
StoppedIsQuiet ==
  pc = "session" /\ ~lost =>
    /\ cpu = "halt" /\ \A i \in Present : ~wdt[i]
    /\ ~lpcOn
    /\ family <= 25 => i2cOn \cap pins = {}

\* "Return a bitmask of which i2c busses have their pin enabled" (ast.go:69):
\* AstStop disables them all.
EnabledBusesStopped == pc = "session" /\ ~lost => i2cOn \cap pins = {}

\* A completed AstReset or AstResume has the BMC running or about to be started,
\* also when earlier runs were killed and left the CPU disabled in the strap.
WillRevive ==
  pc = "armed" /\ ~lost /\ cpu = "halt" => wdt[1] /\ ~CpuDisabled(strap)

\* The strap a restart leaves on families 24 and 25 boots from SPI, on 25 with the
\* SPI master enabled, whatever runs were killed before.
BootsFromSpi ==
  pc = "armed" /\ ~lost =>
    /\ family <= 25 => SpiSelected(strap)
    /\ family = 25 => 12 \in strap /\ 13 \notin strap

\* After a restart the BMC comes up, unless the next program stops it first.
Revives == pc = "armed" /\ ~lost ~> cpu = "run" \/ pc # "armed"
-----------------------------------------------------------------------------
(* The inductive invariant behind the safety properties                     *)

\* In a run that met no locked SCU: from the halt to the restart the CPU is
\* down and cannot come up, and the watchdogs go off one after the other.
Halted == \/ pc \in {"again1", "again2", "again3", "i2c", "lpc", "session"}
          \/ pc = "unlock2" /\ goal = "reset"
Quieted == \/ pc \in {"i2c", "lpc", "session"}
           \/ pc \in {"unlock2", "clear", "set", "wdt2"} /\ goal = "reset"

StopInv ==
  ~lost =>
    /\ Halted => cpu = "halt" /\ CpuDisabled(strap)
    /\ Quieted => cpu = "halt"
    /\ Quieted \/ pc \in {"again2", "again3"} => ~wdt[1]
    /\ Quieted \/ pc = "again3" => ~wdt[2]
    /\ Quieted => ~wdt[3]
    /\ pc \in {"lpc", "session"} /\ family <= 25 => i2cOn \cap pins = {}
    /\ pc = "session" => ~lpcOn

\* The strap on the way back to a CPU that may run.
StrapInv ==
  /\ family <= 25 => 1 \in strap
  /\ pc \in RestartPcs => SpiSelected(prev.rst70State)
  /\ ~lost /\ pc = "set" /\ family = 25 => 0 \notin strap /\ 13 \notin strap
  /\ ~lost /\ pc \in {"wdt2", "arm", "armed"} =>
       /\ ~CpuDisabled(strap)
       /\ family = 25 => 12 \in strap /\ 13 \notin strap

GoalInv ==
  /\ goal = "stop" => pc \notin RestartPcs \cup {"armed"}
  /\ goal = "resume" => pc \in RestartPcs \cup {"armed", "off"}
  /\ family = 26 => pc # "wdt2"

IInv == TypeOK /\ StopInv /\ StrapInv /\ GoalInv /\ WillRevive
=============================================================================
