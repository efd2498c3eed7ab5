------------------------------ MODULE SpiWrite ------------------------------
(***************************************************************************)
(* "ast -spiwrite": FmcNew and doSpiWrite over spiXfer (ast/spi.go,        *)
(* cmds/ast/ast.go).  The program can be killed between any two bus cycles *)
(* and started again with the same image; the flash and the state of the   *)
(* chip survive.  The BMC is stopped meanwhile (AstReset) and the bus is   *)
(* the atomic memory that P2aBridge implements.                            *)
(***************************************************************************)
EXTENDS SpiChip

CONSTANTS WordSize,      \* cells that one 32-bit cycle moves (4)
          CanSwitch,     \* spi4B and spi3B know how to set the mode of the chip
          Jobs,          \* [off, buf, len]: -spioff, the image file, -spilen
          FlashInits,    \* what the flash may hold before the first run
          Rejects,       \* the chip may refuse an erase or a program
          KillInHeader   \* a kill may come between a PP opcode and its address

Images == Seq(Cells)

ASSUME JobsAssumption ==
  \A j \in Jobs : j.off \in Nat /\ j.len \in Int /\ j.buf \in Images
ASSUME FlashInitsAssumption == FlashInits \subseteq [CellAddrs -> Cells]
ASSUME WordAssumption ==
  WordSize \in Nat \ {0} /\ EraseSize % WordSize = 0 /\ CanSwitch \in BOOLEAN

VARIABLES flash,      \* the cells of the chip
          chip,       \* the rest of the chip's state, see SpiChip
          ctl4,       \* FMC register 0x04: the controller sends 4-byte addresses
          pc,         \* the transfer doSpiWrite makes next, or how it ended
          io,         \* the stage of that transfer in spiXfer
          rbuf,       \* what the transfer has read
          x,          \* doSpiWrite's x: offset of the block in the image
          pos,        \* Write's progress in the block
          spimode,    \* flag -spimode of this run
          job,        \* the arguments, the same for every run
          flash0,     \* history: the flash before the first run
          cleanStart, \* history: the chip was ready when this run began
          excused     \* history: the chip refused or was late in this run

vars == <<flash, chip, ctl4, pc, io, rbuf, x, pos, spimode, job, flash0,
          cleanStart, excused>>

\* doSpiWrite 59-63: -spilen if it is given, else the whole file.
Wanted == IF job.len > 0 THEN job.len ELSE Len(job.buf)
Smaller(a, b) == IF a < b THEN a ELSE b
Chunk == Smaller(EraseSize, Wanted - x)
Sector == job.off + x
Image(from, n) == SubSeq(job.buf, from + 1, from + n)
Flash(a, n) == [i \in 1 .. n |-> flash[(a + i - 1) % FlashSize]]

\* Write 182-185: up to the end of the page or of the data.
PageChunk == Smaller(PageSize - ((Sector + pos) % PageSize), Chunk - pos)

\* 5 stands for every value of -spimode that FmcNew does not know.
SpiModes == {0, 3, 4, 5}

Ended == {"off", "done", "fatal", "panic", "killed"}
Polls == {"ewait", "pwait"}
Running == pc \notin Ended

CommandOf ==
  [rdid |-> "RDID", stat |-> "RDSR", wrdi |-> "WRDI", mode4 |-> "EN4B",
   mode3 |-> "EX4B", is4b |-> "RDCR", read |-> "READ", wren1 |-> "WREN",
   erase |-> "ERASE", ewait |-> "RDSR", wren2 |-> "WREN", prog |-> "PP",
   pwait |-> "RDSR", verify |-> "READ"]
Transfers == DOMAIN CommandOf
Pcs == Transfers \cup {"setctl"} \cup Ended

AddressOf == IF pc = "verify" THEN job.off
             ELSE IF pc = "prog" THEN Sector + pos
             ELSE Sector
InSize == IF pc = "verify" THEN Wanted ELSE Chunk
Nothing == [none |-> TRUE]
Answers == [known : BOOLEAN] \cup [wip : BOOLEAN, wel : BOOLEAN, flags : BOOLEAN]
             \cup [mode4 : BOOLEAN] \cup [cells : Images]
AtRest == x = 0 /\ pos = 0

TypeOK ==
  /\ flash \in [CellAddrs -> Cells]
  /\ chip \in Chips
  /\ ctl4 \in BOOLEAN
  /\ pc \in Pcs
  /\ io \in {"idle", "addr", "data", "in", "desel"}
  /\ rbuf \in Answers \cup {Nothing}
  /\ x \in 0 .. Wanted + EraseSize - 1
  /\ pos \in 0 .. EraseSize - 1
  /\ spimode \in SpiModes
  /\ job \in Jobs
  /\ cleanStart \in BOOLEAN /\ excused \in BOOLEAN

Init ==
  /\ flash \in FlashInits
  /\ \E m, f \in BOOLEAN : chip = [ReadyChip(m) EXCEPT !.flags = f] /\ ctl4 = m
  /\ pc = "off" /\ io = "idle" /\ rbuf = Nothing
  /\ AtRest
  /\ spimode = 0
  /\ job \in Jobs
  /\ flash0 = flash
  /\ cleanStart = TRUE /\ excused = FALSE
-----------------------------------------------------------------------------
(* spiXfer: select and opcode, address, data out, data in, deselect.        *)

frame == <<pc, x, pos, spimode, job, flash0, cleanStart, excused>>

SendOpcode ==
  /\ pc \in Transfers /\ io = "idle"
  /\ chip' = Opcode(chip, CommandOf[pc])
  /\ io' = CASE pc \in {"read", "verify", "erase", "prog"} -> "addr"
             [] pc \in {"rdid", "stat", "is4b"} \cup Polls -> "in"
             [] OTHER -> "desel"
  /\ UNCHANGED <<flash, ctl4, rbuf, frame>>

SendAddress ==
  /\ io = "addr"
  /\ chip' = Address(chip, AddressOf)
  /\ io' = CASE pc = "prog" -> "data"
             [] pc \in {"read", "verify"} -> "in"
             [] OTHER -> "desel"
  /\ UNCHANGED <<flash, ctl4, rbuf, frame>>

SendData ==
  /\ io = "data"
  /\ chip' = [chip EXCEPT !.data = Image(x + pos, PageChunk)]
  /\ io' = "desel"
  /\ UNCHANGED <<flash, ctl4, rbuf, frame>>

\* What the chip answers.  An identification is recognised only from a ready
\* chip that was not selected before: spiDb holds no answer of another command.
Answer ==
  CASE CommandOf[pc] = "RDID" ->
         [known |-> chip.cmd = "RDID" /\ ~chip.junk /\ ~Busy(chip)]
    [] CommandOf[pc] = "RDSR" -> 
         [wip |-> Busy(chip), wel |-> chip.wel, flags |-> chip.flags]
    [] CommandOf[pc] = "RDCR" -> [mode4 |-> chip.mode4]
    [] OTHER -> [cells |-> Flash(chip.addr, InSize)]

\* Whole words only: a rest makes PutUint32 panic past the end of buf (72).
Torn == pc \in {"read", "verify"} /\ InSize % WordSize # 0

ReadIn ==
  /\ io = "in" /\ ~Torn
  /\ rbuf' = Answer
  /\ io' = "desel"
  /\ UNCHANGED <<flash, chip, ctl4, frame>>

Dies(how) == pc' = how /\ io' = "idle" /\ rbuf' = Nothing /\ x' = 0 /\ pos' = 0

\* The run is over, and the chip stays selected.
ReadPanic ==
  /\ io = "in" /\ Torn
  /\ Dies("panic")
  /\ UNCHANGED <<flash, chip, ctl4, spimode, job, flash0, cleanStart, excused>>

\* The end of transfer t, and what the code does with its answer up to the next.
Deselected(t) ==
  /\ pc = t /\ io = "desel"
  /\ chip' \in Deselect(chip)
  /\ UNCHANGED <<flash, ctl4, spimode, job, flash0, cleanStart>>

Goto(next) == pc' = next /\ io' = "idle" /\ rbuf' = Nothing
GotoKeeping(next) == Goto(next) /\ UNCHANGED <<x, pos, excused>>
Fatal == Dies("fatal")
-----------------------------------------------------------------------------
(* FmcNew *)

Start(mode) ==
  /\ ~Running
  /\ spimode' = mode
  /\ pc' = IF job.len > Len(job.buf) THEN "fatal" ELSE "rdid"
  /\ cleanStart' = (/\ ~chip.sel /\ ~Busy(chip) /\ ~chip.flags
                    /\ mode # 0 \/ chip.mode4 = ctl4)
  /\ excused' = FALSE
  /\ UNCHANGED <<flash, chip, ctl4, io, rbuf, x, pos, job, flash0>>

\* Variant: log.Fatal before the deselection.
GotIdSelected ==
  \/ Deselected("rdid") /\ rbuf.known /\ GotoKeeping("stat")
  \/ /\ pc = "rdid" /\ io = "desel" /\ ~rbuf.known
     /\ Fatal
     /\ UNCHANGED <<flash, chip, ctl4, spimode, job, flash0, cleanStart, excused>>

GotId ==
  /\ Deselected("rdid")
  /\ \/ rbuf.known /\ GotoKeeping("stat")
     \/ ~rbuf.known /\ Fatal /\ UNCHANGED excused

\* -spimode is obeyed, or refused, once the chip has no write enabled.
ModeRefused == spimode = 5 \/ (spimode # 0 /\ ~CanSwitch)
Moded == IF spimode = 0 THEN "is4b" ELSE IF spimode = 4 THEN "mode4" ELSE "mode3"
AfterStatus ==
  \/ ~ModeRefused /\ GotoKeeping(Moded)
  \/ ModeRefused /\ Fatal /\ UNCHANGED excused

\* Lines 239-245: any bit but WEL and 0x40 ends the run; a write enable that was
\* left behind is taken back.
BadStatus == rbuf.wip \/ rbuf.flags
GotStatus ==
  /\ Deselected("stat")
  /\ \/ BadStatus /\ Fatal /\ UNCHANGED excused
     \/ ~BadStatus /\ rbuf.wel /\ GotoKeeping("wrdi")
     \/ ~BadStatus /\ ~rbuf.wel /\ AfterStatus

WriteDisabled == Deselected("wrdi") /\ AfterStatus

ModeSet == (Deselected("mode4") \/ Deselected("mode3")) /\ GotoKeeping("setctl")

SetCtl ==
  /\ pc = "setctl"
  /\ ctl4' = (spimode = 4)
  /\ pc' = "is4b"
  /\ UNCHANGED <<flash, chip, io, rbuf, x, pos, spimode, job, flash0, cleanStart, excused>>

\* The loop of doSpiWrite at offset y.
LoopAt(y) == x' = y /\ pos' = 0 /\ Goto(IF y < Wanted THEN "read" ELSE "verify")

\* The last test of FmcNew, and doSpiWrite's own test of the alignment.
GotMode ==
  /\ Deselected("is4b")
  /\ \/ rbuf.mode4 = ctl4 /\ job.off % EraseSize = 0 /\ LoopAt(0)
     \/ (rbuf.mode4 # ctl4 \/ job.off % EraseSize # 0) /\ Fatal
  /\ UNCHANGED excused
-----------------------------------------------------------------------------
(* doSpiWrite *)

\* Line 76.  Variant: every block is written, changed or not.
NothingSame == FALSE
SameBlock == rbuf.cells = Image(x, Chunk)

Compared ==
  /\ Deselected("read")
  /\ \/ SameBlock /\ LoopAt(x + EraseSize) /\ UNCHANGED excused
     \/ ~SameBlock /\ GotoKeeping("wren1")

EnabledErase == Deselected("wren1") /\ GotoKeeping("erase")
Erasing == Deselected("erase") /\ GotoKeeping("ewait")

\* spiWait: the status it returns is the outer s, always 0 (151-159), so nothing
\* but WIP is looked at.  Variant: the first status ends the wait.
NeverBusy == FALSE
StillBusy == rbuf.wip

ErasePoll ==
  /\ Deselected("ewait")
  /\ \/ StillBusy /\ GotoKeeping("ewait")
     \/ ~StillBusy /\ GotoKeeping("wren2")

EnabledProgram == Deselected("wren2") /\ GotoKeeping("prog")
Programming == Deselected("prog") /\ GotoKeeping("pwait")

\* Write 181, 192-193.  Variant: a page more after the last one.
OnePageMore == pos + PageChunk <= Chunk
MorePages == pos + PageChunk < Chunk

ProgramPoll ==
  /\ Deselected("pwait")
  /\ \/ StillBusy /\ GotoKeeping("pwait")
     \/ /\ ~StillBusy /\ MorePages
        /\ pos' = pos + PageChunk /\ Goto("wren2") /\ UNCHANGED <<x, excused>>
     \/ /\ ~StillBusy /\ ~MorePages
        /\ LoopAt(x + EraseSize) /\ UNCHANGED excused

\* Ten seconds have passed and the last status read still said busy.
\* Variant: every status read starts the ten seconds again.
NoDeadline(t) == FALSE
TimedOut(t) ==
  /\ Deselected(t)
  /\ rbuf.wip /\ Fatal /\ excused' = TRUE

\* Line 88.  Variant: only the first block is compared.
FirstBlockReread ==
  LET n == Smaller(EraseSize, Wanted) IN SubSeq(rbuf.cells, 1, n) = Image(0, n)
Reread == rbuf.cells = Image(0, Wanted)

Verified ==
  /\ Deselected("verify")
  /\ \/ Reread /\ Dies("done")
     \/ ~Reread /\ Fatal
  /\ UNCHANGED excused
-----------------------------------------------------------------------------
(* The rest of the world *)

Kill ==
  /\ Running
  /\ KillInHeader \/ ~(pc = "prog" /\ io = "addr")
  /\ Dies("killed")
  /\ UNCHANGED <<flash, chip, ctl4, spimode, job, flash0, cleanStart, excused>>

OpDone(flags) ==
  chip' = [chip EXCEPT !.op = NoOperation, !.wel = FALSE, !.flags = flags]

ChipFinishes ==
  /\ Busy(chip)
  /\ flash' \in Outcome(flash, chip.op)
  /\ OpDone(chip.flags)
  /\ UNCHANGED <<ctl4, io, rbuf, frame>>

\* A protected or failing block: WIP clears, the cells stay, a flag may tell.
ChipRejects ==
  /\ Rejects /\ Busy(chip)
  /\ \E f \in {chip.flags, TRUE} : OpDone(f)
  /\ excused' = TRUE
  /\ UNCHANGED <<flash, ctl4, pc, io, rbuf, x, pos, spimode, job, flash0, cleanStart>>

Program ==
  \/ SendOpcode \/ SendAddress \/ SendData \/ ReadIn \/ ReadPanic
  \/ GotId \/ GotStatus \/ WriteDisabled \/ ModeSet \/ SetCtl \/ GotMode
  \/ Compared \/ EnabledErase \/ Erasing \/ ErasePoll
  \/ EnabledProgram \/ Programming \/ ProgramPoll \/ Verified

Next ==
  \/ Program
  \/ \E t \in Polls : TimedOut(t)
  \/ \E mode \in SpiModes : Start(mode)
  \/ Kill \/ ChipFinishes \/ ChipRejects

Spec == Init /\ [][Next]_vars

\* The program runs on, and a poll loop whose chip stays busy meets its deadline.
\* Nothing is assumed of the chip, and nobody has to start a run.
FairSpec ==
  Spec /\ WF_vars(Program) /\ \A t \in Polls : SF_vars(TimedOut(t))
-----------------------------------------------------------------------------
(* Properties *)

\* A run that reports no error has left the image in the flash, at the addresses
\* asked for, even if the chip refused operations or the address wrapped.
DoneMeansWritten ==
  pc = "done" =>
    \A i \in 1 .. Wanted : flash[(job.off + i - 1) % FlashSize] = job.buf[i]

ArgumentsOk ==
  /\ job.len <= Len(job.buf) /\ job.off % EraseSize = 0
  /\ spimode \in {0, 3, 4} /\ (spimode # 0 => CanSwitch)
WholeWords == Wanted % WordSize = 0

\* A run that found the chip ready (deselected, idle, with nothing but WEL and 0x40
\* in its status, in the mode of the controller or told its mode), with arguments in
\* order and an image that ends on the chip, has failed although the chip neither
\* refused anything nor was late.
FailedForNothing ==
  /\ pc \in {"fatal", "panic"} /\ cleanStart /\ ~excused
  /\ ArgumentsOk /\ job.off + Wanted <= FlashSize

\* No run of whole words does: what an earlier killed run may leave, a write
\* enable or half a block, is dealt with (243-245, 76-84), and a reread that is
\* not the image has a reason outside the program.  A size that is no multiple of
\* a word is refused nowhere, and panics in line 72.
CleanRunSucceeds == WholeWords => ~FailedForNothing

\* Every run that ends by itself leaves the chip deselected, one that began with
\* the chip selected by a killed run too, so the run after it starts clean.  The
\* one exception is the panic of line 72, and an image of whole words never meets it.
EndsDeselected ==
  pc \in {"done", "fatal", "panic"} /\ job.len <= Len(job.buf) =>
    /\ chip.sel <=> pc = "panic"
    /\ pc = "panic" => ~WholeWords

\* Unless it is killed, a run ends: spiWait has a deadline (152-156).
RunEnds == Running ~> ~Running

\* An upper bound of the transfers of a run from the present one on, not counting
\* how often a status is read again; a page takes three, a block four more.
TransfersLeft ==
  LET perBlock == 3 * EraseSize + 5
      block == (Wanted - x) * perBlock
      page == 3 * (Chunk - pos)
  IN  CASE pc = "rdid" -> (Wanted + 1) * perBlock + 6
        [] pc = "stat" -> (Wanted + 1) * perBlock + 5
        [] pc = "wrdi" -> (Wanted + 1) * perBlock + 4
        [] pc \in {"mode4", "mode3"} -> (Wanted + 1) * perBlock + 3
        [] pc = "setctl" -> (Wanted + 1) * perBlock + 2
        [] pc = "is4b" -> (Wanted + 1) * perBlock + 1
        [] pc = "read" -> block + 3 * EraseSize + 4
        [] pc = "wren1" -> block + 3 * EraseSize + 3
        [] pc = "erase" -> block + 3 * EraseSize + 2
        [] pc = "ewait" -> block + 3 * EraseSize + 1
        [] pc = "wren2" -> block + page
        [] pc = "prog" -> block + page - 1
        [] pc = "pwait" -> block + page - 2
        [] pc = "verify" -> 1
        [] OTHER -> 0

\* Why a run ends once every wait does: it never goes back to a place in the image
\* it has been at, whatever the chip refuses or still does for a run killed before.
WriteAdvances ==
  [][Running /\ <<pc, x, pos>>' # <<pc, x, pos>>
       => TransfersLeft' >= 0 /\ TransfersLeft' < TransfersLeft]_vars

\* The erase blocks the image reaches into; the last one may be covered in part.
NBlocks == (Wanted + EraseSize - 1) \div EraseSize
BlocksOf(f) ==
  [b \in 0 .. NBlocks - 1 |->
     [i \in 1 .. EraseSize |-> f[job.off + b * EraseSize + i - 1]]]
Covered(a) == job.off <= a /\ a < job.off + NBlocks * EraseSize

Update == INSTANCE BlockWrite WITH
  area <- BlocksOf(flash),
  rest <- [a \in {c \in CellAddrs : ~Covered(c)} |-> flash[a]],
  orig <- BlocksOf(flash0),
  goal <- [b \in 0 .. NBlocks - 1 |->
             [i \in 1 .. Smaller(EraseSize, Wanted - b * EraseSize) |->
                job.buf[b * EraseSize + i]]],
  status <- IF Running THEN "running" ELSE IF pc = "done" THEN "ok" ELSE "ended"

\* For a chip that does what it is told, an image that fits, and kills that do not
\* cut a program command before its address: at every moment at most one block
\* is neither as it was nor as it will be, whatever was killed and started again.
BlockByBlock == Update!Spec

\* Only the cells asked for change: -spioff and -spilen are "flash offset to read
\* or write" and "size to read write" (cmds/ast/ast.go:274-275).
OnlyRangeTouched ==
  \A a \in CellAddrs :
    a < job.off \/ a >= job.off + Wanted => flash[a] = flash0[a]
-----------------------------------------------------------------------------
(* The inductive invariant behind the safety properties                     *)

\* From the first transfer after the identification on, the chip is selected
\* exactly while a transfer lasts and works on the command of that transfer.
BusInv ==
  /\ io # "idle" => pc \in Transfers
  /\ ~chip.sel => chip.cmd = "none"
  /\ io = "addr" => pc \in {"read", "verify", "erase", "prog"}
  /\ io = "data" => pc = "prog"
  /\ io = "in" => pc \in {"rdid", "stat", "is4b", "read", "verify"} \cup Polls
  /\ Running /\ pc # "rdid" =>
       /\ io = "idle" => ~chip.sel
       /\ io # "idle" => chip.cmd = CommandOf[pc]
  /\ pc = "erase" /\ io = "desel" => chip.addr \in CellAddrs
  /\ pc = "rdid" /\ io # "idle" /\ chip.cmd # "RDID" => chip.junk

\* Between a status read that saw WIP clear and the next erase or program the
\* chip is ready, so the flash cannot change.
Settled == {"wrdi", "mode4", "mode3", "setctl", "is4b", "read", "wren1", "erase",
            "wren2", "prog", "verify", "done"}
BusyInv ==
  /\ pc \in Settled => ~Busy(chip)
  /\ pc \in {"stat"} \cup Polls /\ io = "desel" /\ ~rbuf.wip => ~Busy(chip)

VerifyInv ==
  pc = "verify" =>
    /\ io \in {"in", "desel"} => chip.addr = job.off % FlashSize
    /\ io = "desel" => rbuf.cells = Flash(chip.addr, Wanted)

InBlock == {"read", "wren1", "erase", "ewait", "wren2", "prog", "pwait"}
LoopInv ==
  /\ Running \/ pc = "done" => job.len <= Len(job.buf)
  /\ ~Running => AtRest
  /\ pc \in InBlock => x < Wanted /\ pos < Chunk /\ x % EraseSize = 0

IInv == TypeOK /\ BusInv /\ BusyInv /\ VerifyInv /\ LoopInv
          /\ DoneMeansWritten /\ EndsDeselected
-----------------------------------------------------------------------------
(* The inductive invariant behind CleanRunSucceeds                          *)

\* No byte too many comes in, but in a command a killed run had begun, and the
\* write enable is on when it is needed.  A clean start finds the chip ready.
ReadyInv ==
  /\ ~chip.sel => ~chip.junk
  /\ Running /\ pc # "rdid" => ~chip.junk
  /\ pc \in {"erase", "prog"} => chip.wel
  /\ cleanStart /\ pc = "rdid" =>
       /\ io = "idle" => ~chip.sel
       /\ io # "idle" => chip.cmd = "RDID" /\ ~chip.junk
       /\ io = "desel" => rbuf.known
  /\ cleanStart /\ pc \in {"rdid", "stat"} => ~Busy(chip) /\ ~chip.flags
  /\ cleanStart /\ pc = "stat" /\ io = "desel" => ~BadStatus

\* Chip and controller agree on the mode, from the start or because both are told.
ModeInv ==
  /\ pc = "mode4" => spimode = 4
  /\ pc = "mode3" => spimode = 3
  /\ pc = "setctl" => chip.mode4 = (spimode = 4)
  /\ cleanStart /\ spimode = 0 /\ pc \in {"rdid", "stat", "wrdi"} => chip.mode4 = ctl4
  /\ cleanStart /\ pc = "is4b" =>
       /\ chip.mode4 = ctl4
       /\ io = "desel" => rbuf.mode4 = ctl4

\* What the chip has heard of the transfers of the loop, and what a read got.
CommandInv ==
  /\ pc \in {"read", "erase"} /\ io \in {"in", "desel"} => chip.addr = Sector % FlashSize
  /\ pc = "read" /\ io = "desel" => rbuf.cells = Flash(chip.addr, Chunk)
  /\ pc = "prog" /\ io \in {"data", "desel"} => chip.addr = (Sector + pos) % FlashSize
  /\ pc = "prog" /\ io = "desel" => chip.data = Image(x + pos, PageChunk)

\* The image up to x, and of the block at x: n cells programmed, the others blank.
WrittenUpTo(n) == \A i \in 1 .. Wanted : i <= n => flash[job.off + i - 1] = job.buf[i]
BlockUpTo(n) ==
  /\ \A i \in 1 .. Chunk : i <= n => flash[Sector + i - 1] = job.buf[x + i]
  /\ \A i \in 1 .. EraseSize : i > n => flash[Sector + i - 1] = Erased

\* As long as the chip refuses nothing, an image that fits gets into the flash
\* block by block, each erased first and then programmed from its start on.
ContentInv ==
  /\ pc \in InBlock \cup {"verify"} => job.off % EraseSize = 0 /\ x % EraseSize = 0
  /\ pc = "verify" => x >= Wanted
  /\ pc \in {"read", "wren1", "erase", "ewait"} => pos = 0
  /\ ~excused /\ job.off + Wanted <= FlashSize =>
       /\ pc \in InBlock \cup {"verify"} => WrittenUpTo(x)
       /\ pc = "ewait" => IF Busy(chip)
                            THEN /\ chip.op.kind = "ERASE" /\ chip.op.addr = Sector
                            ELSE BlockUpTo(0)
       /\ pc \in {"wren2", "prog"} => BlockUpTo(pos)
       /\ pc = "pwait" => IF Busy(chip)
                            THEN /\ chip.op.kind = "PP" /\ chip.op.addr = Sector + pos
                                 /\ chip.op.data = Image(x + pos, PageChunk) /\ ~chip.op.junk
                                 /\ BlockUpTo(pos)
                            ELSE BlockUpTo(pos + PageChunk)

CInv == ReadyInv /\ ModeInv /\ CommandInv /\ ContentInv /\ CleanRunSucceeds
-----------------------------------------------------------------------------
(* The inductive invariant behind BlockByBlock                              *)

\* What BlockByBlock is said of.
Obedient == ~Rejects /\ ~KillInHeader
ImagesFit ==
  \A j \in Jobs : j.off + (IF j.len > 0 THEN j.len ELSE Len(j.buf)) <= FlashSize

\* A program without an address is only ever under way, never left behind.
HeadInv ==
  /\ ~chip.sel => chip.addr = NoAddr
  /\ chip.cmd = "PP" /\ chip.addr = NoAddr => pc = "prog" /\ io = "addr"
  /\ Running => ~excused

\* a is a cell of the block at y of the image.
Aims(a, y) ==
  y < Wanted /\ job.off % EraseSize = 0 /\ job.off + y <= a /\ a < job.off + y + EraseSize

\* The block at y is the one being written, or the last one that was: the image is
\* before it, the old contents behind it, and whatever the chip does or has been
\* told, by this run or one that was killed, is for this block.
Frontier(y) ==
  /\ y % EraseSize = 0
  /\ WrittenUpTo(y)
  /\ \A a \in CellAddrs : a >= job.off + y + EraseSize => flash[a] = flash0[a]
  /\ Busy(chip) => Aims(chip.op.addr, y)
  /\ chip.cmd \in {"ERASE", "PP"} /\ chip.addr # NoAddr => Aims(chip.addr, y)

Writing == {"wren1", "erase", "ewait", "wren2", "prog", "pwait"}
FrontierInv ==
  /\ \E y \in 0 .. Wanted : Frontier(y)
  /\ pc \in Writing => Frontier(x)

RInv == HeadInv /\ FrontierInv
=============================================================================
