----------------------------- MODULE HostTools -----------------------------
(***************************************************************************)
(* The tools that watch, poll or only compute, used one at a time: ast     *)
(* -i2cmon, ast -mii, ast -i2c3 and -i2c3dis, -spienv and fru, kpoke.      *)
(* Each finds its part of the BMC, or its arguments, in any state the      *)
(* component allows.                                                       *)
(***************************************************************************)
EXTENDS Integers

CONSTANTS NumMons, DmaAddrs, Lengths, Wrap, MaxBatch, MaxMsgs, MaxBytes, MaxMisses,
          Layouts, MaxWrites, Locks,
          Envs, EnvSize, Frus, Areas, Unit, ByteMod, Skip,
          Offsets, BlockLengths

VARIABLES tool,  \* the one that runs
          ctl, store, at, monPc, late, old, ctx, change, taken, misses, excused, victim, wire, out,
          layout, cmd, data, link, odd, miiPc, seen, try, miiReport, last, alone, quiet,
          scu90, i2c104, locked, writes, loop, busPc, got, busReport, busTouched,
          job, input, image, filePc, result,
          off, ioLen, block, width, write, via, mapped, i, pokePc, touched

monVars == <<ctl, store, at, monPc, late, old, ctx, change, taken, misses, excused, victim, wire, out>>
miiVars == <<layout, cmd, data, link, odd, miiPc, seen, try, miiReport, last, alone, quiet>>
busVars == <<scu90, i2c104, locked, writes, loop, busPc, got, busReport, busTouched>>
fileVars == <<job, input, image, filePc, result>>
pokeVars == <<off, ioLen, block, width, write, via, mapped, i, pokePc, touched>>
vars == <<tool, monVars, miiVars, busVars, fileVars, pokeVars>>

Mon == INSTANCE I2cMonitor WITH pc <- monPc
Mii == INSTANCE MiiPoll WITH pc <- miiPc, report <- miiReport
Bus == INSTANCE Bus3Loops WITH pc <- busPc, report <- busReport, touched <- busTouched
File == INSTANCE FileTools WITH pc <- filePc
Poke == INSTANCE Kpoke WITH pc <- pokePc, Lengths <- BlockLengths

\* The parameters of the components.
ASSUME MonAssumption == Mon!MonsAssumption /\ Mon!LengthsAssumption /\ Mon!BoundsAssumption
ASSUME MiiAssumption == Mii!LayoutsAssumption
ASSUME BusAssumption == Bus!BoundsAssumption
ASSUME FileAssumption == File!EnvAssumption /\ File!FruAssumption
ASSUME PokeAssumption == Poke!OffsetsAssumption /\ Poke!LengthsAssumption

Tools == {"i2cmon", "mii", "i2c3", "file", "kpoke"}

TypeOK ==
  /\ tool \in Tools
  /\ Mon!TypeOK /\ Mii!TypeOK /\ Bus!TypeOK /\ File!TypeOK /\ Poke!TypeOK

\* What is not the tool's is in one state only.
MiiParked ==
  /\ layout = (CHOOSE l \in Layouts : TRUE) /\ ~link /\ ~odd /\ ~last
  /\ cmd = [busy |-> FALSE, reg |-> "other", write |-> FALSE]
  /\ data = [reg |-> "other", mark |-> FALSE, up |-> FALSE]

BusParked ==
  /\ loop = "disable" /\ locked = CHOOSE l \in Locks : TRUE
  /\ scu90 = [field |-> 0, rest |-> 0] /\ i2c104 = [field |-> 0, rest |-> 0]

FileParked ==
  /\ job = "env" /\ input = CHOOSE e \in Envs : TRUE
  /\ image = [known |-> FALSE, cleared |-> FALSE]

PokeParked == off = (CHOOSE o \in Offsets : TRUE) /\ width = 0 /\ ~write /\ via = "mmap"

Init ==
  /\ tool \in Tools
  /\ Mon!Init
  /\ Mii!Init /\ (tool # "mii" => MiiParked)
  /\ Bus!Init /\ (tool # "i2c3" => BusParked)
  /\ File!Init /\ (tool # "file" => FileParked)
  /\ Poke!Init /\ (tool # "kpoke" => PokeParked)
-----------------------------------------------------------------------------
\* A step of one tool, or of what it works on.
Only(t) ==
  /\ tool = t /\ tool' = t
  /\ t # "i2cmon" => UNCHANGED monVars
  /\ t # "mii" => UNCHANGED miiVars
  /\ t # "i2c3" => UNCHANGED busVars
  /\ t # "file" => UNCHANGED fileVars
  /\ t # "kpoke" => UNCHANGED pokeVars

Next ==
  \/ Only("i2cmon") /\ Mon!Next
  \/ Only("mii") /\ Mii!Next
  \/ Only("i2c3") /\ Bus!Next
  \/ Only("file") /\ File!Next
  \/ Only("kpoke") /\ Poke!Next

\* The loops of the monitor and of the bus run on, and a batch that is not full gets old.
Spec ==
  /\ Init /\ [][Next]_vars
  /\ WF_vars(Only("i2cmon") /\ Mon!Monitor)
  /\ SF_vars(Only("i2cmon") /\ Mon!EndPass /\ late')
  /\ WF_vars(Only("i2c3") /\ Bus!Read) /\ WF_vars(Only("i2c3") /\ Bus!Write)
-----------------------------------------------------------------------------
(* The properties of the components, of whatever tool runs *)

\* What -i2cmon prints of the messages it has seen in full is what was on the wire,
\* and it dies of no other (I2cMonitor).
Decoded == Mon!Decoded

\* What -i2cmon has sampled it prints (I2cMonitor).
Delivered == Mon!Delivered

\* The link state -mii prints is the one that was read last, unless the driver's
\* data passed for it in between (MiiPoll).
LinkReported == Mii!LinkReported

\* Undisturbed, -mii finds the link state (MiiPoll).
AloneSucceeds == Mii!AloneSucceeds

\* The report of -i2c3dis is the truth unless the firmware wrote since (Bus3Loops).
DisabledTruly == Bus!DisabledTruly

\* -i2c3 outlasts the firmware (Bus3Loops).
SpeedSettles == Bus!SpeedSettles

\* The lines of the environment read back, the strings of a fru tile an area that
\* begins within 256 bytes (FileTools).
FilesRight == File!FilesRight

\* The environment is separated by commas (cmds/ast/ast.go:277, FileTools).
EnvAtCommas == File!EnvAtCommas

\* An aligned access of kpoke lies inside its mapping (Kpoke).
InsideMap == Poke!InsideMap
=============================================================================
