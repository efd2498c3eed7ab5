------------------------------ MODULE MiiPoll ------------------------------
(***************************************************************************)
(* ast/mii.go: MiiInfo asks the PHY of the BMC for its link state through  *)
(* the MDIO controller, which the BMC's own driver uses at the same time.  *)
(***************************************************************************)
EXTENDS Naturals

CONSTANTS Layouts   \* of the controller's registers, see below

\* "old" and "new" of family 25, by bit 31 of register 0x40, and family 26 differ in
\* addresses and positions only, but for one thing: in the new ones the data of a
\* write command stays in the command register.  Any other family is refused.
LayoutsAssumption == Layouts \subseteq {"old", "new", "26", "other"} /\ Layouts # {}

VARIABLES
  layout,
  cmd, data, \* the controller: command register, and what was read of the PHY last
  link, odd, \* the PHY: link up, and the upper byte of its status is not 0x79
  pc, seen, try, report, \* MiiInfo, its copy of the command register, what it printed
  last,      \* history: the link state the last status read found
  alone,     \* history: in this call nobody was in the way, and the PHY answered in time
  quiet      \* history: no command of the driver since MiiInfo last read that register

controller == <<cmd, data, link, odd, last>>
program == <<pc, seen, try, report>>
vars == <<layout, controller, program, alone, quiet>>

\* "other" is another register, or one of another PHY.  The bit "up" is the link in the
\* status register; "mark" says that the upper byte is 0x79.
PhyRegs == {"status", "other"}
Values == [reg : PhyRegs, mark : BOOLEAN, up : BOOLEAN]
Commands == [busy : BOOLEAN, reg : PhyRegs, write : BOOLEAN]
Reports == {"none", "up", "down", "cannot"}

TypeOK ==
  /\ layout \in Layouts /\ cmd \in Commands /\ data \in Values
  /\ {link, odd, last, alone, quiet} \subseteq BOOLEAN
  /\ pc \in {"start", "try", "status", "again", "sleep", "done"}
  /\ seen \in Commands /\ try \in 0..2 /\ report \in Reports
  /\ pc = "done" => report # "none"

\* The driver does not write the status register of the PHY, which is read only, nor
\* a 0 to another, after which the new layouts would look idle.
Sensible(c) == c.write => c.reg = "other"

Idle(c) == ~c.busy /\ (layout = "old" \/ ~c.write)
Answered(c) == ~c.busy /\ c.reg = "status" /\ ~c.write

Init ==
  /\ layout \in Layouts /\ cmd \in Commands /\ Sensible(cmd) /\ data \in Values
  /\ link \in BOOLEAN /\ odd \in BOOLEAN /\ last \in BOOLEAN
  /\ Answered(cmd) => data.reg = "status"
  /\ data.reg = "status" => last = data.up /\ data.mark = ~odd
  /\ pc = "start" /\ seen = cmd /\ try = 0 /\ report = "none"
  /\ alone = (Idle(cmd) /\ ~odd /\ layout # "other") /\ quiet = TRUE
-----------------------------------------------------------------------------
(* The BMC *)

\* The driver looks whether the controller is busy, but not at what it does later:
\* its command may replace the one of MiiInfo, as that one may replace its own.
Driver ==
  /\ \E c \in Commands : c.busy /\ Sensible(c) /\ cmd' = c
  /\ alone' = FALSE /\ quiet' = FALSE
  /\ UNCHANGED <<layout, data, link, odd, last, program>>

Complete ==
  /\ cmd.busy
  /\ cmd' = [cmd EXCEPT !.busy = FALSE]
  /\ \/ cmd.write /\ UNCHANGED <<data, last>>
     \/ /\ ~cmd.write /\ cmd.reg = "status"
        /\ last' = link /\ data' = [reg |-> "status", mark |-> ~odd, up |-> link]
     \/ ~cmd.write /\ cmd.reg = "other" /\ last' = last /\ data' \in {v \in Values : v.reg = "other"}
  /\ UNCHANGED <<layout, link, odd, program, alone, quiet>>

LinkChanges ==
  /\ link' = ~link
  /\ UNCHANGED <<layout, cmd, data, odd, last, program, alone, quiet>>
-----------------------------------------------------------------------------
(* MiiInfo *)

Start ==
  /\ pc = "start"
  /\ \/ layout # "other" /\ pc' = "try" /\ seen' = cmd /\ report' = report
     \/ layout = "other" /\ pc' = "done" /\ report' = "cannot" /\ seen' = seen
  /\ quiet' = TRUE
  /\ UNCHANGED <<layout, controller, try, alone>>

OneTry == try < 1
MoreTries == try < 2

Try ==
  /\ pc = "try"
  /\ pc' = IF ~MoreTries THEN "done" ELSE IF Answered(seen) THEN "status" ELSE "again"
  /\ report' = IF MoreTries THEN report ELSE "cannot"
  /\ UNCHANGED <<layout, controller, seen, try, alone, quiet>>

\* All MiiInfo knows of the data: its upper byte.
IsStatusUnchecked == TRUE
IsStatus == data.mark

ReadStatus ==
  /\ pc = "status"
  /\ \/ IsStatus /\ pc' = "done" /\ report' = IF data.up THEN "up" ELSE "down"
     \/ ~IsStatus /\ pc' = "again" /\ report' = report
  /\ UNCHANGED <<layout, controller, seen, try, alone, quiet>>

Again ==
  /\ pc = "again"
  /\ \/ /\ Idle(seen)
        /\ cmd' = [busy |-> TRUE, reg |-> "status", write |-> FALSE]
        /\ pc' = "sleep" /\ report' = report
     \/ ~Idle(seen) /\ pc' = "done" /\ report' = "cannot" /\ cmd' = cmd
  /\ UNCHANGED <<layout, data, link, odd, last, seen, try, alone, quiet>>

Slept ==
  /\ pc = "sleep" /\ pc' = "try"
  /\ seen' = cmd /\ try' = try + 1
  /\ alone' = (alone /\ ~cmd.busy) /\ quiet' = TRUE
  /\ UNCHANGED <<layout, controller, report>>

MiiInfo == Start \/ Try \/ ReadStatus \/ Again \/ Slept

Next == MiiInfo \/ Driver \/ Complete \/ LinkChanges

Spec == Init /\ [][Next]_vars /\ WF_vars(MiiInfo)
-----------------------------------------------------------------------------
(* Properties *)

\* The driver's command came between MiiInfo's reads of command and data, and what it
\* read elsewhere looks like the status: MiiInfo has no means to tell.
Mistakable == ~quiet /\ data.reg = "other" /\ data.mark

\* The link state MiiInfo prints is the one that was read from the PHY last, by
\* itself or by the driver, although the driver may have replaced command and
\* data between the two reads (mii.go:33, 36) - but for data nobody could tell
\* from it.
LinkReported ==
  [][report' \in {"up", "down"} /\ ~Mistakable => report' = report \/ (report' = "up") = last]_vars

\* Alone, on a PHY that answers within a millisecond, MiiInfo finds out.
AloneSucceeds == pc = "done" /\ alone => report \in {"up", "down"}
=============================================================================
