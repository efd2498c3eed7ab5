----------------------------- MODULE I2cMonitor -----------------------------
(***************************************************************************)
(* ast -i2cmon: the sampling loop of pmem/monitor.go and the decoder of    *)
(* cmds/ast/ast.go, watching i2c controllers that the firmware of the BMC  *)
(* drives.  A sample is one read of register 0x14; what the decoder needs  *)
(* besides is read afterwards, while the controller goes on.               *)
(***************************************************************************)
EXTENDS Integers, Sequences, SequencesExt

CONSTANTS NumMons,   \* busses monitored
          DmaAddrs,  \* where the firmware puts receive buffers in DRAM
          Lengths,   \* of a receive in bytes
          Wrap,      \* a pointer that is a multiple of it is refused: 32 in the code
          MaxBatch,  \* changes that are printed at once: 200
          \* bounds on the traffic of the busses, and on how often a controller goes on
          \* before the monitor has taken in its state
          MaxMsgs, MaxBytes, MaxMisses

MonsAssumption == /\ NumMons \in Nat \ {0} /\ DmaAddrs \subseteq Nat
                  /\ \E top \in DmaAddrs : \A a \in DmaAddrs : a <= top
LengthsAssumption ==
  /\ Lengths \subseteq Nat \ {0} /\ Lengths # {} /\ Wrap \in 1..256   \* a pointer is a byte
  /\ \A a \in DmaAddrs, n \in Lengths : a >= n   \* below them is the pool
BoundsAssumption == MaxBatch \in Nat \ {0} /\ {MaxMsgs, MaxBytes, MaxMisses} \subseteq Nat

Mons == 1..NumMons
States == {"idle", "mstart", "mtxd", "mrxack", "mrx", "mtxack", "mstop"}
DmaCmds == {"dma", "stop"}            \* 0x238, 0x20
RxCmds == {"pool"} \cup DmaCmds       \* 0x98
Modes == {"pool", "dma", "byte"}
TxCmds == {"tx", "txbuf"}             \* 2, 0x102 or 0x122; any other
Unknown == "unknown"                  \* OldValid is false
\* The bytes on the wire are numbered; the decoder never looks at their values.
Bytes == 0..MaxBytes
Size == 4 * (MaxBytes + 1) + CHOOSE a \in DmaAddrs : \A b \in DmaAddrs : a >= b

VARIABLES
  ctl,      \* per bus, the controller: register 0x14 and what else is read
  store,    \* per bus, the receive buffers: pool from 0 on, and DRAM
  at, pc,   \* the monitor in turn, what is read next; pc is "dead" after log.Fatal
  late,     \* 5000000 ticks have passed since the first change of the batch
  old,      \* OldVal
  ctx,      \* i2cCtxt
  change,   \* the batch
  \* history: how far the state of a controller was taken in, how often it was not,
  \* the messages of a bus that were not seen in full or are beyond the decoder, the
  \* one a Fatal was about, the bytes on the wire, and the bytes printed
  taken, misses, excused, victim, wire, out

hardware == <<ctl, store, wire>>
monitor == <<at, pc, late, old, ctx, change, out, victim>>
vars == <<hardware, monitor, taken, misses, excused>>

Entries == [bus : Mons, msg : 0..MaxMsgs, kind : {"T", "R"}, byte : Bytes]
Steps == {"sample", "dma", "len", "txd", "ptr", "pool", "dram"}

TypeOK ==
  /\ \A b \in Mons :
       /\ ctl[b].state \in States /\ ctl[b].cmd \in {"none"} \cup TxCmds \cup Modes \cup DmaCmds
       /\ ctl[b].txd \in Bytes /\ ctl[b].dma \in {0} \cup DmaAddrs /\ ctl[b].msg \in 0..MaxMsgs
       /\ ctl[b].len \in {0} \cup Lengths /\ ctl[b].ptr \in 0..ctl[b].len
       /\ ctx[b].rbytes \in 0..ctx[b].dmaLen
  /\ store \in [Mons -> [0..Size - 1 -> Bytes]]
  /\ at \in 1..NumMons + 1 /\ pc \in Steps \cup {"dead"}
  /\ at > NumMons => pc = "sample"
  /\ late \in BOOLEAN /\ old \in [Mons -> States \cup {Unknown}]
  /\ Len(change) < MaxBatch + NumMons
  /\ taken \in [Mons -> {"new", "sampled", "taken"}]
  /\ misses \in 0..MaxMisses /\ excused \in [Mons -> SUBSET (0..MaxMsgs)]
  /\ wire \in Seq(Entries) /\ out \in Seq(Entries)

Init ==
  /\ ctl = [b \in Mons |-> [state |-> "idle", cmd |-> "none", txd |-> 0, dma |-> 0,
                            len |-> 0, ptr |-> 0, msg |-> 0]]
  /\ store = [b \in Mons |-> [a \in 0..Size - 1 |-> 0]]
  /\ at = 1 /\ pc = "sample" /\ late = FALSE /\ old = [b \in Mons |-> Unknown]
  /\ ctx = [b \in Mons |-> [dmaAddr |-> 0, dmaLen |-> 0, rx |-> FALSE, cmd |-> "none",
                            rbytes |-> 0]]
  /\ change = <<>>
  /\ taken = [b \in Mons |-> "new"] /\ misses = 0 /\ excused = [b \in Mons |-> {}]
  /\ victim = <<>> /\ wire = <<>> /\ out = <<>>
-----------------------------------------------------------------------------
(* The controllers, as the decoder understands them *)

\* What the decoder does not know or gets wrong: other commands, which it says it
\* does not support; a receive that reaches Wrap; a buffer that is not aligned,
\* of which it takes the word of one byte and the position of another.
Beyond(c) == \/ c.cmd = "txbuf"
             \/ c.state = "mrx" /\ c.cmd = "byte"
             \/ c.state = "mrx" /\ c.len >= Wrap
             \/ c.state = "mrx" /\ c.cmd \in DmaCmds /\ c.dma % 4 # 0

Goes(b, new) ==
  /\ misses' = misses + (IF taken[b] = "taken" THEN 0 ELSE 1)
  /\ misses' <= MaxMisses
  /\ ctl' = [ctl EXCEPT ![b] = new]
  /\ taken' = [taken EXCEPT ![b] = "new"]
  /\ excused' = [excused EXCEPT ![b] =
       @ \cup {m \in {ctl[b].msg} : taken[b] # "taken"} \cup {m \in {new.msg} : Beyond(new)}]
  /\ UNCHANGED monitor

OnWire(b, kind) ==
  /\ Len(wire) < MaxBytes
  /\ wire' = Append(wire, [bus |-> b, msg |-> ctl[b].msg, kind |-> kind, byte |-> Len(wire) + 1])

Between(c) == c.state = "mrxack" \/ (c.state = "mtxack" /\ c.ptr = c.len)

\* Start and repeated start, stop, the end of a message, the answer to a byte.
Signal(b) ==
  LET c == ctl[b] IN
  /\ \/ /\ c.state = "idle" /\ c.msg < MaxMsgs
        /\ Goes(b, [c EXCEPT !.state = "mstart", !.cmd = "tx", !.msg = c.msg + 1])
     \/ /\ Between(c)
        /\ Goes(b, [c EXCEPT !.state = "mstart", !.cmd = "tx"])
     \/ /\ Between(c)
        /\ Goes(b, [c EXCEPT !.state = "mstop"])
     \/ /\ c.state = "mstop"
        /\ Goes(b, [c EXCEPT !.state = "idle"])
     \/ /\ c.state = "mtxd"
        /\ Goes(b, [c EXCEPT !.state = "mrxack"])
  /\ UNCHANGED <<store, wire>>

Transmit(b) ==
  /\ ctl[b].state \in {"mstart", "mrxack"}
  /\ OnWire(b, "T")
  /\ \E cmd \in TxCmds :
       Goes(b, [ctl[b] EXCEPT !.state = "mtxd", !.cmd = cmd, !.txd = Len(wire) + 1])
  /\ UNCHANGED store

\* A receive into the pool, by DMA or byte by byte; of a DMA only the stop is left
\* in the command when the last byte is due.
Receive(b) ==
  /\ ctl[b].state = "mrxack"
  /\ \E mode \in Modes, n \in Lengths, a \in DmaAddrs \cup {ctl[b].dma} :
       /\ IF mode = "dma" THEN a \in DmaAddrs ELSE a = ctl[b].dma
       /\ mode = "byte" => n = 1
       /\ \E cmd \in {mode} \cup {x \in {"stop"} : mode = "dma" /\ n = 1} :
            Goes(b, [ctl[b] EXCEPT !.state = "mrx", !.cmd = cmd, !.dma = a, !.len = n, !.ptr = 0])
  /\ UNCHANGED <<store, wire>>

Received(b) ==
  LET c == ctl[b]
      start == IF c.cmd \in DmaCmds THEN c.dma ELSE 0 IN
  /\ c.state = "mrx"
  /\ OnWire(b, "R")
  /\ store' = IF c.cmd = "byte" THEN store ELSE [store EXCEPT ![b][start + c.ptr] = Len(wire) + 1]
  /\ \E cmd \in {c.cmd} \cup {x \in {"stop"} : c.cmd = "dma" /\ c.ptr + 1 = c.len} :
       Goes(b, [c EXCEPT !.state = "mtxack", !.cmd = cmd, !.ptr = c.ptr + 1])

ReceiveMore(b) ==
  /\ ctl[b].state = "mtxack" /\ ctl[b].ptr < ctl[b].len
  /\ Goes(b, [ctl[b] EXCEPT !.state = "mrx"])
  /\ UNCHANGED <<store, wire>>

Controller(b) == Signal(b) \/ Transmit(b) \/ Receive(b) \/ Received(b) \/ ReceiveMore(b)
-----------------------------------------------------------------------------
(* The monitor *)

Word(b, a) == [k \in 0..3 |-> store[b][4 * (a \div 4) + k]]
NoWord == [k \in 0..3 |-> 0]
Latest == change[Len(change)]

\* The turn of the next monitor.
Advance ==
  /\ pc' = "sample" /\ at' = at + 1
  /\ taken' = [taken EXCEPT ![at] = IF @ = "new" THEN "new" ELSE "taken"]

Die(b, m) == pc' = "dead" /\ victim' = <<b, m>>

\* The switch of i2cExtra: what is read next, if anything.
ToRead(s) ==
  LET c == ctx[at] IN
  CASE s = "mrx" /\ ~c.rx -> "dma"
    [] s = "mtxd" -> "txd"
    [] s = "mtxack" /\ c.cmd = "pool" -> "ptr"
    [] s = "mtxack" /\ c.cmd \in DmaCmds /\ c.rx /\ c.rbytes < c.dmaLen -> "dram"
    [] s = "mtxack" /\ c.cmd \in DmaCmds /\ (~c.rx \/ c.rbytes >= c.dmaLen) -> "dead"
    [] OTHER -> "sample"

ResetsInMtxack(s) == s = "mtxack" /\ ctx[at].cmd \notin RxCmds

ResetsRx(s) == \/ s \notin {"mrx", "mtxd", "mtxack"}
               \/ s = "mtxack" /\ ctx[at].cmd \notin RxCmds

Changed(b) == old[b] # Unknown /\ ctl[b].state # old[b]

Sample ==
  LET s == ctl[at].state IN
  /\ pc = "sample" /\ at <= NumMons
  /\ old' = [old EXCEPT ![at] = s]
  /\ \/ /\ Changed(at)
        /\ change' = Append(change, [bus |-> at, state |-> s, cmd |-> ctl[at].cmd,
                                     msg |-> ctl[at].msg, ptr |-> 0, word |-> NoWord])
        /\ pc' = ToRead(s)
        /\ ctx' = [ctx EXCEPT ![at].rx = @ /\ ~ResetsRx(s)]
        /\ victim' = IF pc' = "dead" THEN <<at, ctl[at].msg>> ELSE victim
     \/ ~Changed(at) /\ pc' = "sample" /\ UNCHANGED <<change, ctx, victim>>
  /\ at' = IF pc' = "sample" THEN at + 1 ELSE at
  /\ taken' = [taken EXCEPT ![at] = IF pc' = "sample" THEN "taken" ELSE "sampled"]
  /\ UNCHANGED <<hardware, late, out, misses, excused>>

\* The reads of i2cExtra: 0x24 and 0x28, 0x20, 0x1c and the pool, the DRAM.
ReadDma ==
  /\ pc = "dma" /\ pc' = "len"
  /\ ctx' = [ctx EXCEPT ![at].dmaAddr = ctl[at].dma]
  /\ UNCHANGED <<at, change, taken, victim>>

ReadLen ==
  /\ pc = "len" /\ Advance
  /\ ctx' = [ctx EXCEPT ![at].dmaLen = ctl[at].len, ![at].cmd = Latest.cmd,
                        ![at].rbytes = 0, ![at].rx = TRUE]
  /\ UNCHANGED <<change, victim>>

ReadTxd ==
  /\ pc = "txd" /\ Advance
  /\ change' = [change EXCEPT ![Len(change)].word[0] = ctl[at].txd]
  /\ UNCHANGED <<ctx, victim>>

\* A pointer of 0 makes an offset far beyond the region: out of bounds.
ReadPtr ==
  /\ pc = "ptr"
  /\ change' = [change EXCEPT ![Len(change)].ptr = ctl[at].ptr]
  /\ \/ ctl[at].ptr # 0 /\ pc' = "pool" /\ victim' = victim
     \/ ctl[at].ptr = 0 /\ Die(at, Latest.msg)
  /\ UNCHANGED <<at, ctx, taken>>

ReadPool ==
  /\ pc = "pool" /\ Advance
  /\ change' = [change EXCEPT ![Len(change)].word = Word(at, Latest.ptr - 1)]
  /\ UNCHANGED <<ctx, victim>>

ReadDram ==
  LET c == ctx[at] IN
  /\ pc = "dram" /\ Advance
  /\ change' = [change EXCEPT ![Len(change)].word = Word(at, c.dmaAddr + c.rbytes),
                              ![Len(change)].ptr = (c.rbytes + 1) % 256]
  /\ ctx' = [ctx EXCEPT ![at].rbytes = c.rbytes + 1]
  /\ UNCHANGED victim

Reads ==
  /\ ReadDma \/ ReadLen \/ ReadTxd \/ ReadPtr \/ ReadPool \/ ReadDram
  /\ UNCHANGED <<hardware, late, old, out, misses, excused>>

\* i2cSmart: what one change prints.  Of excused messages it is not kept.
Printed(x) ==
  IF x.msg \in excused[x.bus] THEN <<>>
  ELSE IF x.state = "mtxd" /\ x.cmd = "tx"
    THEN <<[bus |-> x.bus, msg |-> x.msg, kind |-> "T", byte |-> x.word[0]]>>
  ELSE IF x.state = "mtxack" /\ x.cmd \in RxCmds
    THEN <<[bus |-> x.bus, msg |-> x.msg, kind |-> "R", byte |-> x.word[(x.ptr - 1) % 4]]>>
  ELSE <<>>

Refused(x) == x.state = "mtxack" /\ x.cmd \in RxCmds /\ x.ptr % Wrap = 0

Flush ==
  LET bad == {i \in DOMAIN change : Refused(change[i])}
      Upto(n) == FlattenSeq([i \in 1..n |-> Printed(change[i])]) IN
  IF bad = {}
    THEN /\ out' = out \o Upto(Len(change))
         /\ change' = <<>> /\ late' = FALSE /\ UNCHANGED <<pc, victim>>
    ELSE LET worst == CHOOSE i \in bad : \A j \in bad : i <= j IN
         /\ out' = out \o Upto(worst - 1)
         /\ Die(change[worst].bus, change[worst].msg) /\ UNCHANGED <<change, late>>

DueWhenFull == Len(change) >= MaxBatch
DueWhenLate == late

Due == Len(change) >= MaxBatch \/ late

\* The end of a pass.  Time passes: differences of the ticks, a uint32, are right.
EndPass ==
  /\ pc = "sample" /\ at = NumMons + 1
  /\ IF Due THEN Flush
            ELSE late' \in {FALSE, change # <<>>} /\ UNCHANGED <<out, change, pc, victim>>
  /\ at' = 1
  /\ UNCHANGED <<hardware, old, ctx, taken, misses, excused>>

Monitor == Sample \/ Reads \/ EndPass

\* When the monitor is dead nobody looks at the busses any more.
Next == pc # "dead" /\ (Monitor \/ \E b \in Mons : Controller(b))

Spec == Init /\ [][Next]_vars /\ WF_vars(Monitor) /\ SF_vars(EndPass /\ late')
-----------------------------------------------------------------------------
(* Properties *)

Of(s, b, m) ==
  FlattenSeq([k \in 1..Len(s) |-> IF s[k].bus = b /\ s[k].msg = m THEN <<s[k]>> ELSE <<>>])

\* Every message of which each state was sampled, and what belongs to it read,
\* before the controller went on, is printed as it was on the wire, whatever was
\* missed before it: nothing of an earlier transfer clings to the decoder.  And the
\* monitor dies (ast.go:143, 180) only of a message that was not.
Decoded ==
  /\ \A b \in Mons : \A m \in 0..MaxMsgs \ excused[b] :
       IsPrefix(Of(out, b, m), Of(wire, b, m))
  /\ pc = "dead" => victim[2] \in excused[victim[1]]

\* What was sampled is printed although the bus falls silent, and
\* the batch is not full (monitor.go:63).
Delivered == change # <<>> ~> (change = <<>> \/ pc = "dead")
=============================================================================
