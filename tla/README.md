# hwmisc in TLA+

A verification development for `lprylli/hwmisc`: host-side tools that poke at
PCI configuration space, MSRs, physical memory, and above all at the ASPEED BMC
of a server (registers, flash, i2c), often while that BMC is running.

Line numbers are those of the sources under `src/`.

## The system

| part | state it keeps | operations | interacts with |
|---|---|---|---|
| `ast/p2a.go` bridge | `p2aGlob`: mapped BAR1, mutex, cached page `f004`; in the device: page register, enable bit | `Map`, `Read32/8`, `Write32/8` | every other `ast` file goes through it; `pci` finds the device, `pmem` maps BAR1 |
| `ast/ast.go` stop / restart | registers of the BMC (straps, watchdogs, i2c, LPC), `AstPrevState` in the process | `AstStop`, `AstRestart`, `AstReset`, `AstResume`, `AstI2c3*` | the running firmware; `FmcNew` and `asti2c` stop the BMC first |
| `ast/spi.go`, `cmds/ast` flash | chip (WIP, WEL, address mode, cells), FMC register 4, progress of the loop | `FmcNew`, `SpiRead`, `EraseBlock`, `Write`, `doSpiWrite` | bridge, stopped BMC |
| `ast/i2c.go`, `cmds/asti2c` | controller registers, `i2cBus.starting` | `I2cDev`, `Tx` and its steps, eeprom read/write | bridge, stopped BMC |
| `pmem/monitor.go`, i2c decoder in `cmds/ast` | last sample of each register, decoder context | `MonLoopFun`, `i2cSmart`, `i2cExtra` | a controller that somebody else drives |
| `ast/mii.go` | MDIO controller | `MiiInfo` | the BMC's own driver |
| `pmem/map.go`, `file.go` | cache of mapped regions | `Map`, reads, writes | /dev/mem |
| `pci` | device list, capability maps, parent links | `PciInit`, `AddDev`, `EcapInit`, `capInit` | configuration space |
| `cmds/pcimon` | error counters per device | `errPoll`, `monLinks`, `errBrowse` | devices that set status bits at any time |
| `kpoke`, `fru`, `spiMakeEnv` in `cmds/ast` | a mapping, a position in a buffer | one access or block; cutting and filling a file | `pmem`, the flash image |
| `msr`, `reg.go`, `lmesg`, `hwinfo`, `elfcore` | none worth the name | decoding and I/O | |

What is hard here: nothing in this code is protected by transactions. Programs
can be killed between any two register writes, what they leave behind lives in
hardware and is found by the next run; the firmware of the BMC and the hardware
itself act in between; one window and one page register are shared by all.
`PROJECT.json` lists each such hazard at its line.

## Modules

| module | models | checked by | proved in |
|---|---|---|---|
| `AstSpace` | abstract: what `ast.Map` promises, one atomic memory | | |
| `P2aBridge` | `ast/p2a.go`, line by line, with its hardware | `MCP2aBridge` | `P2aBridge_proofs` |
| `SpiChip` | external: the flash chip as `spi.go` uses it | | |
| `BlockWrite` | abstract: a flash that is rewritten block by block | | |
| `SpiWrite` | `FmcNew` and `doSpiWrite` over `spiXfer` | `MCSpiWrite` | `SpiWrite_proofs`, `SpiWriteClean_proofs` |
| `AstReset` | `AstStop`, `AstRestart`, `AstReset`, `AstResume` beside firmware and watchdogs | `MCAstReset` | `AstReset_proofs` |
| `PciErrMon` | `pcimon`: `errPoll`, `monLinks`, `errBrowse` and the order of `Main`, beside the devices | `MCPciErrMon` | `PciErrMon_proofs` |
| `I2cMaster` | `ast/i2c.go` and `asti2c`, with controller, mux and switch | `MCI2cMaster` | `I2cMaster_proofs` |
| `PciScan` | `pci/defs.go`: `AddDev`, the capability lists, `PciInit`, `InitNickName` | `MCPciScan` | `PciScan_proofs` |
| `I2cMonitor` | `pmem/monitor.go` and the decoder of `ast -i2cmon`, beside i2c controllers | `MCHostTools` | `HostTools_proofs` |
| `MiiPoll` | `ast/mii.go`, beside the BMC's own driver | `MCHostTools` | `HostTools_proofs` |
| `Bus3Loops` | `AstI2c3Speed`, `AstI2c3Disable`, beside the firmware | `MCHostTools` | `HostTools_proofs` |
| `Kpoke` | `cmds/kpoke`: lengths of mappings, accesses, blocks | `MCHostTools` | `HostTools_proofs` |
| `FileTools` | `spiMakeEnv` and `cmds/fru` | `MCHostTools` | `HostTools_proofs` |
| `HostTools` | one of these five at a time | `MCHostTools` | `HostTools_proofs` |

In some modules a definition is preceded by a *variant* of it, a plausible
mistake (`IndexHitAny`, `OnePageMore`...). No specification uses them; they are
substituted one at a time to see that a property really fails on a broken model.

### P2aBridge

One variable per thing: `hwPage`, `hwOn` and `mem` are the device and the BMC;
`cache`, `bar1`, `handles`, `noop`, `lock` are the package variables of each
process; `pc` and `req` say where each goroutine is in `Map` or in one of the
four accesses. The steps are the separate bus cycles of the code, so that other
goroutines run between them: write of 0xf004 (`WritePage`), write of 0xf000 and
update of the cache (`Enable`), data cycle (`Access`), posting read, unlock and
return (`Finish`). 8- and 32-bit accesses differ only in width; a cell stands for
either. `MapFatal`, `CallPanic` and `Exit` end a process at any point; a new one
starts from the zero values of the package variables, while the device keeps
what it has. The device also starts in any state.

`AtomicSpace` is the refinement: `P2aBridge` implements `AstSpace`, with the
operation pending from its call, performed at the data cycle and gone at the
return. `WindowRight` is the reason why: at each data cycle the window is
enabled and shows the right page, although the code usually skips the register
writes.

### SpiChip and SpiWrite

`SpiChip` is the environment: a command lasts from selection to deselection; an
erase or a program is carried out at deselection if write enable is set, goes on
alone (WIP), and clears write enable. Cells are sets of 1 bits, so "program can
only clear bits" is an intersection. A chip that was left selected takes the next
command as data of the old one; a program whose address never came takes what
comes first.

`SpiWrite` makes each transfer of the program a small sequence of its own, the
loop body of `spiXfer`: opcode, address, data out, data in, deselect (`io`). `pc`
names the transfer: `rdid stat wrdi mode4 mode3 setctl is4b` are `FmcNew`;
`read`, `wren1 erase ewait`, `wren2 prog pwait`, `verify` are `doSpiWrite`. A
data phase is one step (a kill inside it leaves what a kill after it leaves, or
less data of the same page). `Kill` ends the run anywhere, `Start` begins another
with the same image; the chip goes on in between. `ReadPanic` is the slice panic
of a read that is not a whole number of words: it ends the run with the chip
selected (`pc` is `panic`), and only an image of such a size meets it. `flags`
stands for the bits of the status beside WIP, WEL and 0x40, protection or a failed
operation: `FmcNew` gives up when one is set (`BadStatus`), as it does on a value of
`-spimode` it does not know. `spiWait` returns the outer `s`,
which is always 0, so the model has no status check after erase or program: that
is what the code does.

`CleanRunSucceeds` is about images of whole words. One of another size is refused
nowhere, and its run panics at the read of the last block; the next run finds a
selected chip. `EndsDeselected` says that this is
the only way to end with one.

`BlockByBlock` is the refinement of `BlockWrite`: at every moment, across all
kills and restarts, at most one erase block is neither old nor new. Its instance
keeps to an obedient chip and to kills that do not fall between the opcode and
the address of a program, because then a stray program may hit any page.

### AstReset

One step per register write of `AstStop` and `AstRestart` that matters, in the
order of the code, with the differences of the families 24, 25 and 26 as
disjuncts. `strap` is the set of bits of SCU70 or SCU500; SCU70 of the AST2500
sets the bits written as 1 and SCU7c clears them, the AST2400 register takes the
value. `Firmware` enables watchdogs, i2c buses, LPC, and locks or unlocks the SCU
as long as the CPU runs; `Expire` is a watchdog reset. A run ends in `session`
(the BMC stays stopped: `FmcNew`, `asti2c`) or in `armed` (watchdog 1 loaded).
`AstResume` takes the strap from SCU70 also on family 26, where that is another
register: any value. A strap write that meets a locked SCU is ignored by the hardware and not noticed
by the code; `lost` remembers that, and the properties speak of runs in which it
did not happen.

### PciErrMon

`sta` is the set of error status bits that are set in the devices; `Rise` sets
one at any time. `ReadStatus` is the read of a register and the decision on what
was read, `Clear` the write-1-to-clear together with the count or the printed
line; between the two the device goes on. `phase` says which loop runs: `slow` is
the walk over all links, `fast` the second of polling those with errors
(`linksWithErr`, here `fast`), `show` and `clear` are the two calls of
`errBrowse`; both clear what they find, although the help text of `-err` is "show
err". `at` and `k` say which device and register come next. `edges`,
`seen` and `before` are history and guard nothing.

### I2cMaster

The controller is its state machine (`state`), the command not yet finished
(`pend`), its status bits (`sts`) and byte registers. `Finish` is the controller
together with the slave addressed: it may acknowledge, refuse, or do nothing for
as long as it likes. A slave takes effect at the end of the message (`Absorb`).
The program is always in some `Tx` (`pc`), at one operation of it (`op`), before
or after the command (`step`); `Return` is what `asti2c` does when that `Tx` was
fine. `log.Fatal` ends the run where it is called (`Die`) and leaves the
controller as it stands; `Kill` does so anywhere, `Start` begins another run.
`clean` remembers whether anything outside the program misbehaved in this run: a
slave refused or delayed a byte, the file could not be read or written, or an
earlier run left a status. A clean run may still end at a switch whose id `idtInfo`
does not know (`unknown`), and `CleanRunSucceeds` says that it does so only there.
`I2cDev` is called for both slaves, and clears the status each time;
`-info` reads the id of the switch twice. The file of `-eein` may be shorter than
the eeprom; a longer one, whose end the code sends to addresses that the device may
not have, is left out.

### PciScan

A configuration space is a constant record per device; the scan is a sequential
program, and its choices are the order in which the system lists the devices and
what they hold. `Walk` is one turn of the loops of `capInit` and `EcapInit`;
`CapsDone` and `EcapsDone` the rest of `AddDev`; `Sort`, `Link`, `Name` are the
three parts of `PciInit`. Names are tuples: what the code formats into a nickname,
kept apart as far as the text keeps it apart. Of a device that reads as ones
nothing is added, and what hung below it has no parent; a downstream port without
one is the nil dereference of line 167 (phase `panic`). `ScanEnds` asks for a scan
that names every device, so it has the hypothesis that no downstream port has lost
its switch (`SwitchesComplete`) beside the one that no list has a cycle.

A bridge that nobody has configured has secondary bus 0, and line 146 enters it as
the bridge to bus 0: it is then the parent of the devices of that bus, and of
itself. `PathsNested` is stated for configured bridges, `PathsUnique` for all.

`EcapInit` keeps 8 bits of the id although the comment above it says 16 (line
82); `KeyOf` does what the code does, so a capability whose id is beyond 255 is
filed under another one. The properties compare with the whole ids of the lists:
`CapsRight` is about lists whose extended ids have 8 bits (`Narrow`). It is false
without that: where a list has the capabilities 1 and 257, the map has the later one
of the two, under 1.

### I2cMonitor

The controllers are the environment, in the terms the decoder itself uses: the
state and the command of register 0x14, the bytes on the wire numbered so that a
wrong one is seen, and the two places they are received into, pool and DRAM.
`Sample` is the read of register 0x14 and the decision of `i2cExtra` on it;
`ReadDma`, `ReadLen`, `ReadTxd`, `ReadPtr`, `ReadPool`, `ReadDram` are its
further reads, each a step, because the controller goes on in between. `EndPass`
closes a pass over all monitors and prints the batch (`Flush` with `Printed` and
`Refused`, which are `i2cSmart`) when it is full or old.

A decoder that samples can miss things, so what it may promise needs history:
`taken` says whether the present state of a controller was sampled and what goes
with it was read before the controller went on, `excused` collects the messages
of which that is not so. `Decoded` then says that the damage is confined: every
other message, also one after a message that was missed in part, is printed as
it was on the wire, and no Fatal is about one. What the decoder does not support
or does wrong even undisturbed is excused too and named in `Beyond`: other
commands (it says so itself, line 117), a receive of 32 bytes or more, at whose
32nd byte the pointer modulo 32 is 0 and the monitor dies (line 142), and a
buffer that is not aligned, of which the aligned word is read at the unaligned
position (lines 182 and 146).

### MiiPoll, Bus3Loops

Both are loops in competition with firmware that uses the same registers.
`MiiPoll` has one set of actions for the three copies of the loop in `mii.go`,
which differ in addresses and bit positions; what does differ, that on the newer
controllers a finished write command still counts as busy, is in `Idle`. The BMC
driver replaces the command at any time (`Driver`), the controller completes what
stands in the register then (`Complete`). Of the data the model keeps whose it is,
whether its upper byte is 0x79 (`mark`), which is all that MiiInfo looks at, and the
bit that is the link in the status. Other registers and other PHYs may have that
byte too: when the driver's command came between the two reads of MiiInfo and
brought such data, `MiiInfo` prints its bit as the link, and `LinkReported` says so
by its exception `Mistakable`. `Bus3Loops`
reads, and writes back what it read with one field changed (`Write`): the
firmware's own change of another field in between is lost, which the model shows
and no property excludes. The SCU may be locked, then nothing is written, and
`Deadline` decides by the last read, not by the last write.

### Kpoke, FileTools

Sequential, over all small inputs. `Kpoke` keeps what the length of a mapping
depends on: the offset in the page, the block, and the three kinds of mapping,
of which a file or a memory can fail where it is used. An access that is not a
multiple of its size away from the page may end beyond the mapping, in the code and
in the model (a word at offset 4095: the length is rounded without the width of the
access); `InsideMap` is about aligned ones. `FileTools` keeps bytes:
`Body` is what `spiMakeEnv` writes, `tlv`, `Fields` and `Area` how `fru` cuts an
area. The product of the offsets in the header of a fru and 8 is a `uint8` and
wraps (`Start`); `FruTiled` speaks of areas within the first 256 bytes, since
one that begins beyond them is looked for elsewhere. -spienv is "comma separated" by its help text
(`cmds/ast/ast.go:277`) and split at newlines by the code (line 29); the model does
what the code does, `FilesRight` is about lines, and the finding `env_commas`
(`EnvAtCommas`) about what the help text says.

`HostTools` starts one of the five and lets it run beside its environment; the
variables of the others rest in one of their initial states. It gives the five
one run and one proof module, and carries their assumptions.

## Runs

| run | configuration | shows |
|---|---|---|
| `p2a_bridge` | 1 process, 2 goroutines, 3 pages of 2 cells, 2 overlapping regions, offsets inside and beyond, 0 or 1 devices | types, `WindowRight`, `AtomicSpace`, `CallsReturn` |
| `p2a_page0` | the same, 1 goroutine, a region in page 0 | finding: page 0 counts as selected in a fresh process |
| `spi_write` | 3 blocks of 2 pages of 2 cells, whole, partial and `-spilen` images, three initial flash contents | types, `BlockByBlock`, `RunEnds` |
| `spi_hard` | 2 blocks, a chip that refuses and sets flags in its status, every kind of `-spimode`, kills everywhere, wrapping, torn, unaligned and short images, no mode switch | `DoneMeansWritten`, `CleanRunSucceeds`, `EndsDeselected` |
| `spi_tail` | an image of one and a half blocks | finding: the rest of the last block is erased |
| `ast_reset` | three families, two i2c buses | types, `StoppedIsQuiet`, `WillRevive`, `BootsFromSpi`, `Revives` |
| `ast_reset_buses` | family 26 | finding: enabled buses outside the constant are not stopped |
| `pci_mon` | two links, a bit that is always and one that is only with `-ur` looked at, four of the places that can raise one, `-iters -1` and 1, all other options after it, two errors at any time, kills and restarts | types, `ExactCount`, `TotalRight`, `FastRight`, `ErrorsNoticed` |
| `i2c_master` | an eeprom of two bytes of two values, a mux of two settings, a switch that `idtInfo` knows or not, every set of options, files that fail or are short, kills and restarts | types, `EeoutTrue`, `EeinTrue`, `EndsIdle`, `CleanRunSucceeds`, `RunEnds` |
| `pci_scan` | a root port, a switch with two ports, two functions, in all 720 orders; bridges that are not configured; a device with 144 lists of up to three cells, ids 1, 2 and 257 | types, `CapsRight`, `PathsNested`, `PathsUnique`, `ScanEnds` |
| `host_tools` | `I2cMonitor`: one bus, two messages of four bytes in all, pool, DMA and byte receives of up to three bytes, `Wrap` 3 for 32, `MaxBatch` 2 for 200, one missed step; `MiiPoll`: all layouts and register contents; `Bus3Loops`: two firmware writes; `Kpoke`: offsets at both ends of a page, blocks of -8 to 4098 bytes; `FileTools`: environments of up to four bytes with empty lines, fru files of three to five | types, `Decoded`, `Delivered`, `LinkReported`, `AloneSucceeds`, `DisabledTruly`, `SpeedSettles`, `FilesRight`, `InsideMap` |
| `env_commas` | the same inputs as `host_tools` | finding: entries separated by commas come back as one |

Bounds. Two goroutines suffice for a mutex and one window: a third only repeats
the second's role, and the proofs cover any number. Two pages per block and two
blocks per image let every loop turn at least twice and end both on and off its
boundary; one-bit cells distinguish erased, programmed and stale. Two buses:
one that family 26's constant names and one that it does not. Two errors
(`MaxEvents`) can fall on one bit, before and after it is cleared, or on two
links at once. Two eeprom bytes make the loop turn and an answer to the question
before differ from the right one. Three cells are enough for a list that skips,
leads backwards, repeats an id or runs in a circle. For the decoder four bytes
hold two messages with a receive each, or a receive of two bytes after another
message; one missed step is enough to leave every context it can leave, and a
second could only excuse the next message too; `Wrap` lies in the middle of the
receives as 32 does; several busses share nothing but the batch. The firmware of
`Bus3Loops` needs one write to break in and one to do so between read and write.
No state
constraint is used; all state spaces are finite and explored completely.

Assumed of the outside: an answer to RDID from a busy or confused chip is never
the id of a chip in `spiDb`; a chip stays selected until deselected and
forgets nothing when the host program dies; a strap that disables the CPU stops
it at once; a watchdog reset locks the SCU and keeps the strap. Nobody but
`pcimon` clears the PCI status it looks at (a kernel with AER does, which is why
the proofs speak of one program), and no device drops off while it is monitored.
An i2c slave takes what it was told at the end of the message; disabling the
master may or may not clear its status and free the bus. The devices of
`PciScan` are in one domain and buses are numbered downwards; `w.Bus` has no
domain in its key, so the second domain of a large host is outside the model.
An i2c controller goes through the states the decoder names, with the command and
the buffers of the present transfer in place when a state begins; differences of
the 32-bit ticks of the monitor are right, which they are across a wrap.

## Fairness

`P2aBridge`: a goroutine that has called runs on (weak fairness of its steps),
and Go's mutex hands itself over to a waiter that has waited long enough (strong
fairness of taking it). Nobody has to call. `SpiWrite`: the program runs on
(weak), and a poll loop in which the chip stays busy meets the deadline of ten
seconds sooner or later (strong fairness of `TimedOut`); nothing is assumed of
the chip. `AstReset`: the program runs on, and a watchdog that stays enabled
expires, which is what a watchdog is. `PciErrMon`: the program runs on, and the
second of the fast loop passes (strong fairness of `IterationEnd`, which is
enabled once in each round); no fairness for the devices. `I2cMaster`: the
program runs on, which includes the deadline of `Wait`; nothing of controller and
slaves. `PciScan`: the program runs on. `HostTools`: the monitor runs on, and the
five seconds after which a batch is printed pass (strong fairness of an `EndPass`
that finds it old: the clock is read in each pass); the loops of `Bus3Loops` run
on. Nothing of controllers and firmware. The tools of one turn need no fairness.

## Proofs

All proofs are for every value of the constants that satisfies the named
assumptions of the modules.

**P2aBridge.** `IInv` = types, requests (a goroutine past its call has a request
outside page 0), mutual exclusion (`LockInv`: exactly the goroutine in a critical
section holds the lock), dead processes are idle, and the window invariant: the
cache is 0, or the window shows the cached page, or somebody is between the two
register writes. `WindowRight` alone is not inductive because it says nothing of
the cache between accesses. Proved under `OneProcess` (the code has one cache per
process and one page register per host) and `AvoidsPageZero` (the finding
`p2a_page0`): types, `WindowRight`, and that the bridge implements `AstSpace`.

**SpiWrite.** `IInv` = types; `BusInv`, the chip works on the command of the
transfer the program is in; `BusyInv`, from a status read that shows WIP clear to
the next erase or program the chip is ready; `VerifyInv`, what the verification
has read is what the flash holds at the address asked for; `LoopInv`, both loops
stay inside the image. The core of the argument is that the chip cannot change the
flash between the start of the verification and the end of the run, although
earlier killed runs may have left an operation in progress: every path to the
verification passes a status read. Proved: types, `DoneMeansWritten`,
`EndsDeselected` (with the panic as its one exception, and no panic for images of
whole words), for any geometry with words and pages that divide blocks and blocks
that divide the chip, any images and offsets (the address may wrap), with refusals and
kills everywhere.

`CleanRunSucceeds` needs much more, because a run that fails nowhere must have
done everything right; `SpiWriteClean_proofs` proves it from `IInv` and a second
invariant `CInv` = `ReadyInv`, the chip has heard a command and no byte too many,
has its write enable when an erase or a program is sent, and is ready at the
identification if it was so at the start; `ModeInv`, chip and controller agree on
the address mode, because they did or because both are told; `CommandInv`, the
address, the data and what was read are those of the block at x; and
`ContentInv`: unless the chip refused something, the flash holds the image up to
x, and of the block at x as many cells as are programmed, the others being
erased. The heart is a lemma for each of the two operations of the chip: an erase
sent to the start of a block changes that block only (`EraseOutcome`), a program
no longer than the rest of its page changes the cells it was sent to only
(`ProgramOutcome`), which on erased cells leaves the data. The verification then
cannot fail, and `log.Fatal` is left for wrong arguments, a status with flags at the
start, a refusal and a deadline.

`BlockByBlock`, the refinement of `BlockWrite`, is proved in the same module from
`IInv`, `CInv` and a third invariant, `RInv`. It says that there is a frontier: an
erase block of the image such that the image is before it, the old contents are
behind it, and everything that can still reach the flash (the operation going on,
the address of an erase or a program the chip has been sent, by this run or one
that was killed) is for this block. A frontier and the x of the run are two
things: after a kill the next run compares from the first block on, and the proof
that it does not start to write before the frontier is that every block there
compares equal (`ComparedFrontier`). No operation leaves the block of its address
(`OutcomeInBlock`, pages being parts of blocks), so each is a `Change` of
`BlockWrite` at the frontier; all other steps begin, end or go on with a run.
The theorem has two hypotheses on the constants. `Obedient`: no refusals, since a
refused operation lets a run go on past a block that is not written, and no kill
between the opcode and the address of a program, after which the chip takes the
next command for an address and may program any page. `ImagesFit`: the image ends
on the chip; one that wraps writes its first blocks twice. The run `spi_write` is
an instance of both.

The finding `spi_tail` loses the rest of the last erase block, and nothing else:
`WholeBlocksTouchOnlyRange` proves `OnlyRangeTouched` under the same hypotheses for
images that are whole blocks (`WholeBlocks`), from the refinement, in which the
rest of the flash is never touched.

**AstReset.** `IInv` = types; `StopInv`, the watchdogs go off one by one behind a
CPU that is down and cannot come up; `StrapInv`, bit 1 of the strap is never lost
on families 24 and 25, and the strap on its way to the restart lets the CPU run;
`GoalInv`, which writes belong to which command. Proved: types, `StoppedIsQuiet`,
`WillRevive`, `BootsFromSpi`. One more theorem says how far the finding
`ast_reset_buses` goes: no bus that `I2cEnabledSet` names is on when `AstStop` has
returned (`NamedBusesStopped`).

**PciErrMon.** `IInv` = types; `ExactCount`; `GotInv`, what was read and not yet
cleared is still set, because nobody else clears it; `MarkInv`, in the slow phase
the marks of the links already passed are those of this iteration and of the rest
those of the one before, and `linksWithErr` is what the two say together.
`ExactCount` alone is not inductive: the count at `Clear` is right only because
of `GotInv`. `FastRight` is a property of the step into the fast phase and follows
from `MarkInv`. `TotalRight` compares what `LinkDone` and `IterationEnd` add up
with a fold over the counters: `TotalInv` says it with `Total` opaque, and the
lemmas on sums say what the counters of `Start` and of `Clear` sum up to. Proved
for any number of devices, links, bits, errors and restarts: types, `ExactCount`,
`FastRight`, `TotalRight`.

**I2cMaster.** `IInv` = types; `WireInv`, what a slave may have heard from a run
that was killed is the start of a message that some `Tx` writes; and while a `Tx`
goes on: `ControlInv`, program and controller agree on where they are, with one
command on its way or its status in place; `MessageInv`, the slave has heard the
first bytes of the message; `ReadInv`, the bytes received are the first of those
the slave says, or all are those of a floating line; `SlaveInv`, mux, question and
written cells are those of the messages that are complete; `CleanInv`, nothing was
refused in a run in which no slave misbehaved. `EeoutTrue` is right because a
floating line is told from an answer by its tag, and an old answer by its index.
Proved for any size and contents of the eeprom, any channels, options, kills and
restarts: types, `EeoutTrue`, `EeinTrue`, `EndsIdle`, `CleanRunSucceeds`.

**PciScan.** `IInv` = types; `ListInv`, whatever a bus leads to is a bridge that
was listed; `LinkInv`, the devices are sorted, and the parent of a device is the
bridge to its bus; `NameInv`, the path of each named device is that of its parent
and one step if the parent comes before it (`Above`), which every configured bridge
does, and of one step alone if it does not, and that step tells it from its siblings:
numbers of ports and of equal labels are below the counter that gives the next one
out, functions and addresses differ by themselves. Two equal paths have equal
parents, by that invariant, and equal last steps, so they are of one device.
Proved for any set of devices, listed in any order, with any configuration space
whose configured buses are numbered downwards: types, `PathsNested`, `PathsUnique`. The sort
is stated by what it gives, each device at its rank (`Sorted`), which is a
permutation in order; `LabelsAssumption` names the label that the code itself
writes for a root port. `CapsRight` has an invariant of its own, `CapsInv`: a walk
through a list without a cycle stands at one of its headers and has in its map
the headers before it, of each key the last one (`Seen`). For ids of 8 bits, which
those of `capInit` are by their width, the keys are the ids. Proved for any finite
number of places and any order of the headers.

**HostTools.** One invariant for each tool, proved over its own `Next` and lifted to
the composition, where the other tools leave its variables alone. `PokeInv`: the
mapping holds whole pages and the block, the loop counter is a multiple of 4; the
word that contains the end of the block then ends inside the mapping too.
`MiiInv`: data that is the status register's is what was read last, and as long as the driver gave no
command since MiiInfo read its own, that command is still the one in the register.
`AloneInv`:
what MiiInfo has seen and what the controller does agree from state to state,
until the second try. `BusInv`: the last read is what the register holds, or the
bit was set in it. `FileInv`: the body of the sector is the input with each newline
followed by a NUL, so that its entries end where the lines end and have the ranks of
the lines (`SectorEnds`, `SameRanks`); nothing else in the sector is a NUL before the
filling, which is why `EnvAssumption` has input without one. `MonTypes`: the
decoder's counters count bytes received, so a pointer into a message never leaves
the pool, and a batch is a sequence of whole changes; `MonsAssumption` asks for a
highest DMA address, which the hardware has. Proved: `TypeOK` of all tools,
`InsideMap`, `LinkReported`, `AloneSucceeds`, `DisabledTruly`, `FilesRight`, `Decoded`,
for all offsets, lengths, layouts and inputs, any number of writes of the firmware
and any traffic on any number of busses.

`Decoded` is the one that needs most. What -i2cmon has printed says little about a
step, so `DecInv` says where every byte of a message is that is not excused:
`Streams`, what is printed, then what the complete changes of the batch will print,
then what the controller still holds and the monitor has not taken in, put together
are what was on the wire. That a change will print the right byte rests on
`BusRight`, the context of a bus (`rx`, `rbytes`, where the DMA goes) follows its
controller as long as no state was missed, and starts afresh with the next message
whatever was missed (`After`, `Follows`, `Understood`); on `LatestRight`, what is
still being read for the latest change belongs to it, or its message is excused
because the controller went on between the two reads; and on `RefusedRight`, the
changes i2cSmart dies of are of excused messages. `LengthsAssumption` has `Wrap` in
1..256, because the pointer is a byte: it is compared modulo `Wrap` after it was
reduced modulo 256.

**Why runs end.** Liveness cannot be proved here, but the reason for it can: a
number that every step makes smaller and that never becomes negative.
`ScanAdvances`: without a cyclic list each step of a scan decreases `StepsLeft`,
the devices still to be added, linked and named and the headers of the list being
walked (counted by the ranks `Nth` gives them). `RunShortens`: each step of
`asti2c` decreases its `StepsLeft`, lexicographically the calls of `Tx` a run may
still make (every cell asked for, read twice and stored), the bus operations of
the present one, and the half of the operation; so a run takes at most
22 * (4 * Size + 9) + 4 steps, and only `Wait` could make it last, which is what the
deadline is for. `WriteAdvances`: `-spiwrite` never goes back to a place in the
image, the bound `TransfersLeft` counting blocks, then pages, then transfers; the
two loops of `spiWait` stay where they are until the chip is ready or the deadline
has passed. All three are proved from the
invariants above for all values of the constants (`EveryStepAdvances`,
`EveryStepShortens`, `WritesAdvance`); no run repeats them, since the runs check
`ScanEnds` and the two `RunEnds`. What these say beyond the theorems, and what is
left to TLC, is that a step is always possible and, under fairness, taken.

**Recursion.** What a recursive definition computes for every input is an
induction over data, and the induction theorems of the library have an operator
for a parameter, which the provers cannot instantiate. Three of the proofs need one
nevertheless, and take the smallest counterexample instead: there is no smallest
set of counters for which the sums disagree (`MinimalSet` in `PciErrMon_proofs`),
no first header for which the recursion of `Nth` is undefined or goes on after
the end (`Least` in `PciScan_proofs`), no shortest sequence that `FlattenSeq` does
not join piece by piece (`Join` and the lemmas on it in `HostTools_proofs`, used for
the lines of a file and for the bytes of a message). All of them come from the
well-foundedness of strict inclusion on finite sets.

Every invariant and every action property that a passing run checks is proved. Only
model-checked are the liveness properties (`CallsReturn`, `RunEnds`, `Revives`, `ErrorsNoticed`,
`ScanEnds`, `Delivered`, `SpeedSettles`): temporal proofs under fairness need
ENABLED, which the prover does not handle.

## Not modelled, and what is left

Not modelled, because there is nothing to get wrong that the model could tell:
`AstInfo`, `SpiInfo`, `-spiread`, the raw mode of the monitor and the dumps of
`kpoke` (they read and print); `reg.go` (a table from text in the source);
`lmesg` (prints a buffer record by record); `hwinfo`, `elfcore`, the platform
files of `pci` and `msr` (I/O only; `msr` opens its file at each access, since
the descriptor is never stored, `msr.go:18`); the cache of `pmem.Map`, which one
goroutine uses.

Outside the models: two host processes at once, which the code does not support
(`OneProcess`); `ast.Map` on the BMC itself; a composition that discharges what `SpiWrite` and
`I2cMaster` assume (a quiet BMC, an atomic bus) from `AstReset` and `AstSpace`:
`StoppedIsQuiet` and `AtomicSpace` are those assumptions, the product of the state
spaces is beyond TLC and would show nothing more.
