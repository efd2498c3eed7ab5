--------------------------- MODULE SpiWrite_proofs ---------------------------
(***************************************************************************)
(* A run of "ast -spiwrite" that reports success has left the image in the *)
(* flash, and every run that ends by itself leaves the chip deselected: for *)
(* every geometry of the chip, image, offset and earlier killed runs.      *)
(***************************************************************************)
EXTENDS SpiWrite, TLAPS, SequenceTheorems

-----------------------------------------------------------------------------
(* Arithmetic                                                              *)

\* Both reads of one address name one cell, however often it wraps.
LEMMA ModUnique ==
  ASSUME NEW n \in Nat \ {0}, NEW k \in Int, NEW l \in Int,
         NEW m \in 0 .. n - 1, NEW o \in 0 .. n - 1, n * k + m = n * l + o
  PROVE  m = o
<1>1. n * (k - l) = o - m
  OBVIOUS
<1>2. CASE k - l >= 1
  <2>1. n * (k - l) >= n
    BY <1>2
  <2> QED BY <1>1, <2>1
<1>3. CASE k - l <= -1
  <2>1. n * (k - l) <= -n
    BY <1>3
  <2> QED BY <1>1, <2>1
<1>4. CASE k = l
  BY <1>1, <1>4
<1> QED BY <1>2, <1>3, <1>4

LEMMA ModSum ==
  ASSUME NEW a \in Int, NEW b \in Int, NEW n \in Nat \ {0}
  PROVE  ((a % n) + b) % n = (a + b) % n
<1> DEFINE r == a % n
<1> DEFINE q == a \div n
<1> DEFINE s == (r + b) \div n
<1> DEFINE o == (r + b) % n
<1> DEFINE t == (a + b) \div n
<1> DEFINE m == (a + b) % n
<1>2. a = n * q + r /\ q \in Int /\ r \in Int
  OBVIOUS
<1>3. r + b = n * s + o /\ s \in Int /\ o \in 0 .. n - 1
  <2>1. r \in Int
    BY <1>2
  <2> HIDE DEF r
  <2> QED BY <2>1
<1>4. a + b = n * t + m /\ t \in Int /\ m \in 0 .. n - 1
  OBVIOUS
<1>5. o = m
  <2> HIDE DEF r, q, s, o, t, m
  <2>1. n * t + m = n * (q + s) + o
    BY <1>2, <1>3, <1>4
  <2>2. q + s \in Int
    BY <1>2, <1>3
  <2> QED BY <1>3, <1>4, <2>1, <2>2, ModUnique
<1> QED BY <1>5

LEMMA Division ==
  ASSUME NEW n \in Nat \ {0}, NEW a \in Nat
  PROVE  /\ a \div n \in Nat /\ a % n \in 0 .. n - 1
         /\ a = n * (a \div n) + (a % n)
OBVIOUS

LEMMA MultipleSum ==
  ASSUME NEW a \in Int, NEW b \in Int, a % EraseSize = 0, b % EraseSize = 0
  PROVE  (a + b) % EraseSize = 0
<1>1. EraseSize \in Nat \ {0}
  BY GeometryAssumption
<1>2. ((a % EraseSize) + b) % EraseSize = (a + b) % EraseSize
  BY <1>1, ModSum
<1> QED BY <1>1, <1>2

LEMMA Multiples == 0 % EraseSize = 0 /\ EraseSize % EraseSize = 0
<1>1. EraseSize \in Nat \ {0}
  BY GeometryAssumption
<1>2. (0 % EraseSize) + 0 \in 0 .. EraseSize - 1 /\ 0 = EraseSize * 0 + 0
  BY <1>1
<1>3. 0 % EraseSize = 0
  BY <1>1, <1>2, ModUnique, Division
<1>4. EraseSize % EraseSize = 0
  <2>1. EraseSize = EraseSize * 1 + 0 /\ 0 \in 0 .. EraseSize - 1
    BY <1>1
  <2>2. EraseSize = EraseSize * (EraseSize \div EraseSize) + (EraseSize % EraseSize)
        /\ EraseSize \div EraseSize \in Int /\ EraseSize % EraseSize \in 0 .. EraseSize - 1
    BY <1>1, Division
  <2> QED BY <1>1, <2>1, <2>2, ModUnique
<1> QED BY <1>3, <1>4

\* A multiple of a multiple, and what is left when one is taken away, are multiples.
LEMMA ProductMultiple ==
  ASSUME NEW n \in Nat \ {0}, NEW k \in Int PROVE (n * k) % n = 0
<1> DEFINE t == (n * k) \div n
           m == (n * k) % n
<1>1. n * k = n * t + m /\ t \in Int /\ m \in 0 .. n - 1
  <2>1. n * k \in Int
    OBVIOUS
  <2> QED BY <2>1
<1>2. n * k + 0 = n * t + m /\ 0 \in 0 .. n - 1
  BY <1>1
<1> HIDE DEF t, m
<1>3. m = 0
  BY <1>1, <1>2, ModUnique
<1> QED BY <1>3 DEF m

LEMMA IsMultiple ==
  ASSUME NEW n \in Nat \ {0}, NEW a \in Nat, a % n = 0
  PROVE  \E k \in Nat : a = n * k
<1> DEFINE q == a \div n
<1>1. a = n * q + (a % n) /\ q \in Nat
  BY Division
<1>2. a = n * q
  <2> HIDE DEF q
  <2> QED BY <1>1
<1> QED BY <1>1, <1>2

\* A block of an image of whole words is one, the last one too.
LEMMA WholeChunks ==
  ASSUME NEW w \in Nat, NEW y \in Nat, y < w, y % EraseSize = 0, w % WordSize = 0
  PROVE  Smaller(EraseSize, w - y) % WordSize = 0
<1>1. EraseSize \in Nat \ {0} /\ WordSize \in Nat \ {0} /\ EraseSize % WordSize = 0
  BY GeometryAssumption, WordAssumption
<1>2. PICK a \in Nat : EraseSize = WordSize * a
  BY <1>1, IsMultiple
<1>3. PICK b \in Nat : y = EraseSize * b
  BY <1>1, IsMultiple
<1>4. PICK d \in Nat : w = WordSize * d
  BY <1>1, IsMultiple
<1>5. w - y = WordSize * (d - a * b) /\ d - a * b \in Int
  <2>1. y = WordSize * (a * b) /\ a * b \in Int
    BY <1>1, <1>2, <1>3
  <2> QED BY <1>1, <1>4, <2>1
<1>6. (w - y) % WordSize = 0
  BY <1>1, <1>5, ProductMultiple
<1> QED BY <1>1, <1>6 DEF Smaller

LEMMA ModInRange ==
  ASSUME NEW a \in Int PROVE a % FlashSize \in CellAddrs
BY GeometryAssumption DEF CellAddrs
-----------------------------------------------------------------------------
(* The job and its pieces                                                  *)

LEMMA WantedNat ==
  ASSUME job \in Jobs PROVE Wanted \in Nat /\ job.buf \in Images /\ job.off \in Nat
<1>1. job.off \in Nat /\ job.len \in Int /\ job.buf \in Images
  BY JobsAssumption
<1>2. Len(job.buf) \in Nat
  BY <1>1 DEF Images
<1> QED BY <1>1, <1>2 DEF Wanted

LEMMA WantedFits ==
  ASSUME job \in Jobs, job.len <= Len(job.buf) PROVE Wanted <= Len(job.buf)
<1>1. job.len \in Int /\ Len(job.buf) \in Nat
  BY JobsAssumption DEF Images
<1> QED BY <1>1 DEF Wanted

LEMMA ChunkFacts ==
  ASSUME job \in Jobs, x \in Nat, x < Wanted
  PROVE  Chunk \in 1 .. EraseSize /\ x + Chunk <= Wanted
<1>1. Wanted \in Nat /\ EraseSize \in Nat \ {0}
  BY WantedNat, GeometryAssumption
<1> HIDE DEF Wanted
<1> QED BY <1>1 DEF Chunk, Smaller

LEMMA PageChunkFacts ==
  ASSUME job \in Jobs, x \in Nat, x < Wanted, pos \in Nat, pos < Chunk
  PROVE  PageChunk \in Nat \ {0} /\ pos + PageChunk <= Chunk
<1>1. Chunk \in 1 .. EraseSize /\ Sector \in Int /\ PageSize \in Nat \ {0}
  BY ChunkFacts, WantedNat, GeometryAssumption DEF Sector
<1>2. (Sector + pos) % PageSize \in 0 .. PageSize - 1
  BY <1>1
<1> QED BY <1>1, <1>2, GeometryAssumption DEF PageChunk, Smaller

\* A piece of the image has its length and its cells.
LEMMA ImagePiece ==
  ASSUME job \in Jobs, NEW a \in Nat, NEW n \in Nat, a + n <= Len(job.buf)
  PROVE  /\ Image(a, n) \in Images /\ Len(Image(a, n)) = n
         /\ \A i \in 1 .. n : Image(a, n)[i] = job.buf[a + i]
<1>1. job.buf \in Seq(Cells) /\ Len(job.buf) \in Nat
  BY WantedNat DEF Images
<1>2. a + 1 \in 1 .. Len(job.buf) + 1 /\ a + n \in (a + 1) - 1 .. Len(job.buf)
  BY <1>1
<1> QED BY <1>1, <1>2, SubSeqProperties DEF Image, Images

LEMMA FlashPiece ==
  ASSUME flash \in [CellAddrs -> Cells], NEW a \in Int, NEW n \in Nat
  PROVE  /\ Flash(a, n) \in Images /\ Len(Flash(a, n)) = n
         /\ \A i \in 1 .. n : Flash(a, n)[i] = flash[(a + i - 1) % FlashSize]
<1>1. \A i \in 1 .. n : (a + i - 1) % FlashSize \in CellAddrs
  BY ModInRange
<1> QED BY <1>1 DEF Flash, Images
-----------------------------------------------------------------------------
(* The chip                                                                *)

\* Deselection leaves a chip that has only started what it was commanded.
LEMMA DeselectFacts ==
  ASSUME NEW c \in Chips, NEW d \in Deselect(c),
         c.cmd = "ERASE" /\ ~c.junk => c.addr \in CellAddrs
  PROVE  /\ d \in Chips /\ ~d.sel /\ d.cmd = "none"
         /\ ~Busy(c) /\ c.cmd \notin {"ERASE", "PP"} => ~Busy(d)
<1>1. /\ Quiet(c) \in Chips /\ Quiet(c).sel = FALSE /\ Quiet(c).op = c.op
      /\ Quiet(c).cmd = "none"
  <2>1. <<>> \in Seq(Cells) /\ NoAddr \in CellAddrs \cup {NoAddr}
    OBVIOUS
  <2> QED BY <2>1 DEF Chips, Quiet
<1>2. ASSUME NEW a \in CellAddrs, c.cmd \in {"ERASE", "PP"} PROVE Operation(c, a) \in Operations
  BY <1>2 DEF Operation, Operations, Chips
<1>3. ASSUME NEW o \in Operations
      PROVE  /\ [Quiet(c) EXCEPT !.op = o] \in Chips /\ [Quiet(c) EXCEPT !.op = o].sel = FALSE
             /\ [Quiet(c) EXCEPT !.op = o].cmd = "none"
  BY <1>1, <1>3 DEF Chips
<1>4. ASSUME NEW v \in BOOLEAN
      PROVE  /\ [Quiet(c) EXCEPT !.wel = v] \in Chips /\ [Quiet(c) EXCEPT !.wel = v].sel = FALSE
             /\ [Quiet(c) EXCEPT !.wel = v].op = c.op /\ [Quiet(c) EXCEPT !.wel = v].cmd = "none"
             /\ [Quiet(c) EXCEPT !.mode4 = v] \in Chips /\ [Quiet(c) EXCEPT !.mode4 = v].sel = FALSE
             /\ [Quiet(c) EXCEPT !.mode4 = v].op = c.op
             /\ [Quiet(c) EXCEPT !.mode4 = v].cmd = "none"
  BY <1>1, <1>4 DEF Chips
<1>5. CASE d = Quiet(c)
  BY <1>1, <1>5 DEF Busy
<1>6. CASE d = [Quiet(c) EXCEPT !.wel = (c.cmd = "WREN")]
  BY <1>4, <1>6 DEF Busy
<1>7. CASE d = [Quiet(c) EXCEPT !.mode4 = (c.cmd = "EN4B")]
  BY <1>4, <1>7 DEF Busy
<1>8. CASE c.cmd = "ERASE" /\ ~c.junk /\ d = [Quiet(c) EXCEPT !.op = Operation(c, c.addr)]
  BY <1>2, <1>3, <1>8
<1>9. ASSUME NEW a \in IF c.addr = NoAddr THEN CellAddrs ELSE {c.addr},
             c.cmd = "PP", d = [Quiet(c) EXCEPT !.op = Operation(c, a)]
      PROVE  d \in Chips /\ ~d.sel /\ d.cmd = "none" /\ c.cmd \in {"ERASE", "PP"}
  <2>1. a \in CellAddrs
    BY <1>9 DEF Chips
  <2> QED BY <1>2, <1>3, <1>9, <2>1
<1>10. \/ d = Quiet(c)
       \/ d = [Quiet(c) EXCEPT !.wel = (c.cmd = "WREN")]
       \/ d = [Quiet(c) EXCEPT !.mode4 = (c.cmd = "EN4B")]
       \/ c.cmd = "ERASE" /\ ~c.junk /\ d = [Quiet(c) EXCEPT !.op = Operation(c, c.addr)]
       \/ /\ c.cmd = "PP"
          /\ \E a \in IF c.addr = NoAddr THEN CellAddrs ELSE {c.addr} :
               d = [Quiet(c) EXCEPT !.op = Operation(c, a)]
  BY DEF Deselect
<1> QED BY <1>5, <1>6, <1>7, <1>8, <1>9, <1>10

\* Whatever the chip does inside leaves cells in the flash.
LEMMA OutcomeCells ==
  ASSUME NEW f \in [CellAddrs -> Cells], NEW o \in Operations, NEW g \in Outcome(f, o)
  PROVE  g \in [CellAddrs -> Cells]
<1>1. CASE o.kind = "ERASE"
  BY <1>1 DEF Outcome, Cells, Erased
<1>2. CASE o.kind # "ERASE" /\ o.junk
  BY <1>2 DEF Outcome, Cells
<1>3. CASE o.kind # "ERASE" /\ ~o.junk
  BY <1>3 DEF Outcome, Cells
<1> QED BY <1>1, <1>2, <1>3
-----------------------------------------------------------------------------
(* The invariant                                                           *)

LEMMA InitIInv == Init => IInv
<1> SUFFICES ASSUME Init PROVE IInv
  OBVIOUS
<1> USE DEF Init
<1>1. job \in Jobs /\ Wanted \in Nat /\ EraseSize \in Nat \ {0}
  BY WantedNat, GeometryAssumption
<1>2. chip \in Chips /\ chip.sel = FALSE /\ chip.op = NoOperation /\ chip.cmd = "none"
  <2>1. <<>> \in Seq(Cells)
    OBVIOUS
  <2>2. PICK m \in BOOLEAN, f \in BOOLEAN : chip = [ReadyChip(m) EXCEPT !.flags = f]
    OBVIOUS
  <2> QED BY <2>1, <2>2 DEF ReadyChip, Chips
<1>3. TypeOK
  <2>1. x \in 0 .. Wanted + EraseSize - 1 /\ pos \in 0 .. EraseSize - 1
    BY <1>1 DEF AtRest
  <2>2. flash \in [CellAddrs -> Cells] /\ ctl4 \in BOOLEAN
    BY FlashInitsAssumption
  <2> HIDE DEF Wanted
  <2> QED BY <1>1, <1>2, <2>1, <2>2 DEF TypeOK, Pcs, Ended, SpiModes
<1>4. BusInv
  BY <1>2 DEF BusInv, Running, Ended
<1>5. BusyInv /\ VerifyInv
  BY <1>2 DEF BusyInv, Settled, Polls, VerifyInv
<1>6. LoopInv
  BY DEF LoopInv, Running, Ended, InBlock
<1>7. DoneMeansWritten /\ EndsDeselected
  BY DEF DoneMeansWritten, EndsDeselected
<1> QED BY <1>3, <1>4, <1>5, <1>6, <1>7 DEF IInv

\* Every step that ends a transfer deselects the chip, which is ready afterwards
\* if it was ready before and the transfer was not an erase or a program.
LEMMA DeselectedChip ==
  ASSUME IInv, NEW t \in Transfers, Deselected(t)
  PROVE  /\ chip' \in Chips /\ ~chip'.sel /\ chip'.cmd = "none"
         /\ ~Busy(chip) /\ pc \notin {"rdid", "erase", "prog"} => ~Busy(chip)'
<1>1. chip \in Chips /\ chip' \in Deselect(chip) /\ pc = t /\ io = "desel"
  BY DEF IInv, TypeOK, Deselected
<1>2. pc # "rdid" => chip.cmd = CommandOf[pc]
  BY <1>1 DEF IInv, BusInv, Running, Transfers, CommandOf, Ended
<1>3. chip.cmd = "ERASE" /\ ~chip.junk => chip.addr \in CellAddrs
  <2>1. CASE pc = "rdid"
    BY <1>1, <2>1 DEF IInv, BusInv
  <2>2. CASE pc = "erase"
    BY <1>1, <2>2 DEF IInv, BusInv
  <2>3. CASE pc \notin {"rdid", "erase"}
    BY <1>1, <1>2, <2>3 DEF CommandOf, Transfers
  <2> QED BY <2>1, <2>2, <2>3
<1>4. pc \notin {"rdid", "erase", "prog"} => chip.cmd \notin {"ERASE", "PP"}
  BY <1>1, <1>2 DEF CommandOf, Transfers
<1> QED BY <1>1, <1>3, <1>4, DeselectFacts DEF Busy

\* What a step that ends a transfer still has to show for the invariant.
LEMMA TransferEnds ==
  ASSUME IInv, NEW t \in Transfers, Deselected(t),
         pc' \in Pcs, io' = "idle", rbuf' = Nothing, excused' \in BOOLEAN,
         x' \in 0 .. Wanted + EraseSize - 1, pos' \in 0 .. EraseSize - 1,
         pc' \in Settled => ~Busy(chip)',
         pc' \in InBlock => x' < Wanted /\ pos' < Chunk' /\ x' % EraseSize = 0,
         pc' \in Ended => AtRest', pc' # "panic",
         pc' = "done" => DoneMeansWritten'
  PROVE  IInv'
<1>1. /\ UNCHANGED <<flash, ctl4, spimode, job, flash0, cleanStart>>
      /\ pc = t /\ chip' \in Chips /\ ~chip'.sel /\ chip'.cmd = "none" /\ Wanted' = Wanted
  BY DeselectedChip DEF Deselected, Wanted
<1>2. TypeOK'
  <2> HIDE DEF Wanted
  <2> QED BY <1>1 DEF IInv, TypeOK
<1>3. BusInv'
  BY <1>1 DEF BusInv
<1>4. BusyInv' /\ VerifyInv'
  BY <1>1 DEF BusyInv, VerifyInv, Busy
<1>5. LoopInv'
  <2>1. job.len <= Len(job.buf)
    BY <1>1 DEF IInv, LoopInv, Running, Transfers, CommandOf, Ended
  <2> QED BY <1>1, <2>1 DEF LoopInv, Running
<1>6. DoneMeansWritten' /\ EndsDeselected'
  BY <1>1 DEF DoneMeansWritten, EndsDeselected
<1> QED BY <1>2, <1>3, <1>4, <1>5, <1>6 DEF IInv

LEMMA GotIdIInv == ASSUME IInv, GotId PROVE IInv'
<1>1. /\ Deselected("rdid") /\ io' = "idle" /\ rbuf' = Nothing
      /\ \/ pc' = "stat" /\ UNCHANGED <<x, pos, excused>>
         \/ pc' = "fatal" /\ x' = 0 /\ pos' = 0 /\ UNCHANGED excused
  BY DEF GotId, GotoKeeping, Goto, Fatal, Dies
<1>2. x' \in 0 .. Wanted + EraseSize - 1 /\ pos' \in 0 .. EraseSize - 1 /\ excused' \in BOOLEAN
  BY <1>1, WantedNat, GeometryAssumption DEF IInv, TypeOK
<1>3. "rdid" \in Transfers /\ pc' \in Pcs /\ pc' \notin Settled \cup InBlock /\ pc' \notin {"done", "panic"}
  BY <1>1 DEF Transfers, CommandOf, Pcs, Ended, Settled, InBlock
<1>4. pc' \in Ended => AtRest'
  BY <1>1 DEF Ended, AtRest
<1> QED BY <1>1, <1>2, <1>3, <1>4, TransferEnds

\* AfterStatus, from either transfer it follows.
LEMMA AfterStatusIInv ==
  ASSUME IInv, NEW t \in {"stat", "wrdi"}, Deselected(t), ~Busy(chip), AfterStatus
  PROVE  IInv'
<1>1. /\ io' = "idle" /\ rbuf' = Nothing
      /\ \/ pc' \in {"is4b", "mode4", "mode3"} /\ UNCHANGED <<x, pos, excused>>
         \/ pc' = "fatal" /\ x' = 0 /\ pos' = 0 /\ UNCHANGED excused
  BY DEF AfterStatus, GotoKeeping, Goto, Fatal, Dies, Moded
<1>2. x' \in 0 .. Wanted + EraseSize - 1 /\ pos' \in 0 .. EraseSize - 1 /\ excused' \in BOOLEAN
  BY <1>1, WantedNat, GeometryAssumption DEF IInv, TypeOK
<1>3. t \in Transfers /\ pc' \in Pcs /\ pc' \notin InBlock /\ pc' \notin {"done", "panic"}
  BY <1>1 DEF Transfers, CommandOf, Pcs, Ended, InBlock
<1>4. pc' \in Ended => AtRest'
  BY <1>1 DEF Ended, AtRest
<1>5. ~Busy(chip)'
  BY <1>3, DeselectedChip DEF Deselected
<1> QED BY <1>1, <1>2, <1>3, <1>4, <1>5, TransferEnds

LEMMA GotStatusIInv == ASSUME IInv, GotStatus PROVE IInv'
<1>1. Deselected("stat") /\ pc = "stat" /\ io = "desel" /\ "stat" \in Transfers
  BY DEF GotStatus, Deselected, Transfers, CommandOf
<1>2. CASE BadStatus /\ Fatal /\ UNCHANGED excused
  <2>1. /\ pc' = "fatal" /\ io' = "idle" /\ rbuf' = Nothing
        /\ x' = 0 /\ pos' = 0 /\ excused' \in BOOLEAN
    BY <1>2 DEF Fatal, Dies, IInv, TypeOK
  <2>2. x' \in 0 .. Wanted + EraseSize - 1 /\ pos' \in 0 .. EraseSize - 1
    BY <2>1, WantedNat, GeometryAssumption DEF IInv, TypeOK
  <2>3. pc' \in Pcs /\ pc' \notin Settled \cup InBlock /\ pc' \notin {"done", "panic"} /\ AtRest'
    BY <2>1 DEF Pcs, Ended, Settled, InBlock, AtRest
  <2> QED BY <1>1, <2>1, <2>2, <2>3, TransferEnds
<1>3. ASSUME ~BadStatus PROVE ~Busy(chip)
  BY <1>1, <1>3 DEF IInv, BusyInv, BadStatus
<1>4. CASE ~BadStatus /\ rbuf.wel /\ GotoKeeping("wrdi")
  <2>1. pc' = "wrdi" /\ io' = "idle" /\ rbuf' = Nothing /\ UNCHANGED <<x, pos, excused>>
    BY <1>4 DEF GotoKeeping, Goto
  <2>2. x' \in 0 .. Wanted + EraseSize - 1 /\ pos' \in 0 .. EraseSize - 1 /\ excused' \in BOOLEAN
    BY <2>1 DEF IInv, TypeOK
  <2>3. ~Busy(chip)'
    BY <1>1, <1>3, <1>4, DeselectedChip
  <2>4. pc' \in Pcs /\ pc' \notin Ended \cup InBlock /\ pc' \notin {"done", "panic"}
    BY <2>1 DEF Pcs, Transfers, CommandOf, Ended, InBlock
  <2> QED BY <1>1, <2>1, <2>2, <2>3, <2>4, TransferEnds
<1>5. CASE ~BadStatus /\ AfterStatus
  BY <1>1, <1>3, <1>5, AfterStatusIInv
<1> QED BY <1>2, <1>4, <1>5 DEF GotStatus

LEMMA WriteDisabledIInv == ASSUME IInv, WriteDisabled PROVE IInv'
<1>1. Deselected("wrdi") /\ pc = "wrdi" /\ AfterStatus
  BY DEF WriteDisabled, Deselected
<1>2. ~Busy(chip)
  BY <1>1 DEF IInv, BusyInv, Settled
<1> QED BY <1>1, <1>2, AfterStatusIInv

\* The three ways to go on after a transfer: to the next one, to the next block,
\* and to the end.
LEMMA KeepingIInv ==
  ASSUME IInv, NEW t \in Transfers, NEW n \in Transfers \cup {"setctl"},
         Deselected(t), GotoKeeping(n),
         n \in InBlock => t \in InBlock,
         n \in Settled => ~Busy(chip)'
  PROVE  IInv'
<1>1. pc = t /\ pc' = n /\ io' = "idle" /\ rbuf' = Nothing /\ UNCHANGED <<x, pos, excused, job>>
  BY DEF GotoKeeping, Goto, Deselected
<1>2. x' \in 0 .. Wanted + EraseSize - 1 /\ pos' \in 0 .. EraseSize - 1 /\ excused' \in BOOLEAN
  BY <1>1 DEF IInv, TypeOK
<1>3. pc' \in InBlock => x' < Wanted /\ pos' < Chunk' /\ x' % EraseSize = 0
  BY <1>1 DEF IInv, LoopInv, Chunk, Wanted
<1>4. pc' \in Pcs /\ pc' \notin Ended /\ pc' \notin {"done", "panic"}
  BY <1>1 DEF Pcs, Transfers, CommandOf, Ended
<1> QED BY <1>1, <1>2, <1>3, <1>4, TransferEnds

LEMMA LoopAtIInv ==
  ASSUME IInv, NEW t \in Transfers, NEW y \in 0 .. Wanted + EraseSize - 1,
         Deselected(t), LoopAt(y), UNCHANGED excused, ~Busy(chip)',
         y % EraseSize = 0
  PROVE  IInv'
<1>1. /\ x' = y /\ pos' = 0 /\ io' = "idle" /\ rbuf' = Nothing /\ UNCHANGED <<excused, job>>
      /\ pc' = IF y < Wanted THEN "read" ELSE "verify"
  BY DEF LoopAt, Goto, Deselected
<1>2. Wanted \in Nat /\ EraseSize \in Nat \ {0} /\ Wanted' = Wanted
  BY <1>1, WantedNat, GeometryAssumption DEF IInv, TypeOK, Wanted
<1>3. pc' \in InBlock => x' < Wanted /\ pos' < Chunk' /\ x' % EraseSize = 0
  <2> HIDE DEF Wanted
  <2> QED BY <1>1, <1>2 DEF InBlock, Chunk, Smaller
<1>4. pc' \in Pcs /\ pc' \notin Ended /\ pc' \notin {"done", "panic"}
  BY <1>1 DEF Pcs, Transfers, CommandOf, Ended
<1>5. excused' \in BOOLEAN /\ pos' \in 0 .. EraseSize - 1
  BY <1>1, <1>2 DEF IInv, TypeOK
<1> QED BY <1>1, <1>3, <1>4, <1>5, TransferEnds

LEMMA FatalIInv ==
  ASSUME IInv, NEW t \in Transfers, Deselected(t), Fatal, excused' \in BOOLEAN
  PROVE  IInv'
<1>1. pc' = "fatal" /\ io' = "idle" /\ rbuf' = Nothing /\ x' = 0 /\ pos' = 0
  BY DEF Fatal, Dies
<1>2. x' \in 0 .. Wanted + EraseSize - 1 /\ pos' \in 0 .. EraseSize - 1
  BY <1>1, WantedNat, GeometryAssumption DEF IInv, TypeOK
<1>3. pc' \in Pcs /\ pc' \notin Settled \cup InBlock /\ pc' \notin {"done", "panic"} /\ AtRest'
  BY <1>1 DEF Pcs, Ended, Settled, InBlock, AtRest
<1> QED BY <1>1, <1>2, <1>3, TransferEnds

\* A chip that is ready before a transfer of one of these kinds is ready after it.
LEMMA StaysReady ==
  ASSUME IInv, NEW t \in Transfers, t \notin {"rdid", "erase", "prog"}, Deselected(t),
         t \in Settled \/ (~rbuf.wip /\ t \in {"stat"} \cup Polls)
  PROVE  ~Busy(chip)'
<1>1. pc = t /\ io = "desel"
  BY DEF Deselected
<1>2. ~Busy(chip)
  BY <1>1 DEF IInv, BusyInv
<1> QED BY <1>1, <1>2, DeselectedChip

LEMMA SimpleIInv ==
  ASSUME IInv, ModeSet \/ EnabledErase \/ Erasing \/ EnabledProgram \/ Programming
  PROVE  IInv'
<1>1. {"mode4", "mode3", "wren1", "wren2", "erase", "prog", "ewait", "pwait"} \subseteq Transfers
  BY DEF Transfers, CommandOf
<1>2. /\ {"mode4", "mode3", "setctl", "wren1", "wren2", "erase", "prog"} \subseteq Settled
      /\ {"ewait", "pwait"} \cap Settled = {}
      /\ {"wren1", "wren2", "erase", "prog", "ewait", "pwait"} \subseteq InBlock
      /\ "setctl" \notin InBlock
  BY DEF Settled, InBlock
<1>3. ASSUME NEW t \in {"mode4", "mode3", "wren1", "wren2"}, Deselected(t)
      PROVE  ~Busy(chip)'
  BY <1>1, <1>2, <1>3, StaysReady
<1>4. CASE ModeSet
  <2>1. PICK t \in {"mode4", "mode3"} : Deselected(t)
    BY <1>4 DEF ModeSet
  <2>2. GotoKeeping("setctl") /\ t \in Transfers /\ ~Busy(chip)'
    BY <1>1, <1>3, <1>4, <2>1 DEF ModeSet
  <2> QED BY <1>2, <2>1, <2>2, KeepingIInv
<1>5. CASE EnabledErase
  BY <1>1, <1>2, <1>3, <1>5, KeepingIInv DEF EnabledErase
<1>6. CASE Erasing
  BY <1>1, <1>2, <1>6, KeepingIInv DEF Erasing
<1>7. CASE EnabledProgram
  BY <1>1, <1>2, <1>3, <1>7, KeepingIInv DEF EnabledProgram
<1>8. CASE Programming
  BY <1>1, <1>2, <1>8, KeepingIInv DEF Programming
<1> QED BY <1>4, <1>5, <1>6, <1>7, <1>8

LEMMA GotModeIInv == ASSUME IInv, GotMode PROVE IInv'
<1>1. Deselected("is4b") /\ "is4b" \in Transfers /\ "is4b" \in Settled
  BY DEF GotMode, Transfers, CommandOf, Settled
<1>2. ~Busy(chip)'
  BY <1>1, StaysReady
<1>3. 0 \in 0 .. Wanted + EraseSize - 1 /\ excused' \in BOOLEAN
  BY WantedNat, GeometryAssumption DEF IInv, TypeOK, GotMode
<1>4. UNCHANGED excused /\ (LoopAt(0) \/ Fatal)
  BY DEF GotMode
<1> QED BY <1>1, <1>2, <1>3, <1>4, Multiples, LoopAtIInv, FatalIInv

LEMMA NextBlock ==
  ASSUME IInv, pc \in InBlock
  PROVE  x + EraseSize \in 0 .. Wanted + EraseSize - 1 /\ (x + EraseSize) % EraseSize = 0
<1>0. x \in Int /\ EraseSize \in Int /\ (x + EraseSize) % EraseSize = 0
  <2>1. x \in Int /\ EraseSize \in Int /\ x % EraseSize = 0
    BY WantedNat, GeometryAssumption DEF IInv, TypeOK, LoopInv
  <2> QED BY <2>1, Multiples, MultipleSum
<1>1. Wanted \in Nat /\ EraseSize \in Nat \ {0} /\ x \in 0 .. Wanted + EraseSize - 1 /\ x < Wanted
  BY WantedNat, GeometryAssumption DEF IInv, TypeOK, LoopInv
<1> HIDE DEF Wanted
<1> QED BY <1>0, <1>1

LEMMA ComparedIInv == ASSUME IInv, Compared PROVE IInv'
<1>1. /\ Deselected("read") /\ pc = "read"
      /\ "read" \in Transfers /\ "read" \in Settled /\ "read" \in InBlock
  BY DEF Compared, Transfers, CommandOf, Settled, Deselected, InBlock
<1>2. /\ ~Busy(chip)' /\ x + EraseSize \in 0 .. Wanted + EraseSize - 1
      /\ (x + EraseSize) % EraseSize = 0
  BY <1>1, StaysReady, NextBlock
<1>3. CASE LoopAt(x + EraseSize) /\ UNCHANGED excused
  BY <1>1, <1>2, <1>3, LoopAtIInv
<1>4. CASE GotoKeeping("wren1")
  <2>1. "wren1" \in Transfers
    BY DEF Transfers, CommandOf
  <2> QED BY <1>1, <1>2, <1>4, <2>1, KeepingIInv
<1> QED BY <1>3, <1>4 DEF Compared

LEMMA PollIInv ==
  ASSUME IInv, ErasePoll \/ ProgramPoll \/ \E t \in Polls : TimedOut(t)
  PROVE  IInv'
<1> USE DEF Transfers, CommandOf, InBlock, Polls
<1>1. ASSUME NEW t \in Polls, Deselected(t), ~StillBusy
      PROVE  /\ ~Busy(chip)' /\ x + EraseSize \in 0 .. Wanted + EraseSize - 1
             /\ (x + EraseSize) % EraseSize = 0
  <2>1. pc = t
    BY <1>1 DEF Deselected
  <2> QED BY <1>1, <2>1, StaysReady, NextBlock DEF StillBusy
<1>2. CASE ErasePoll
  <2>1. CASE GotoKeeping("ewait")
    BY <1>2, <2>1, KeepingIInv DEF ErasePoll, Settled
  <2>2. CASE ~StillBusy /\ GotoKeeping("wren2")
    BY <1>1, <1>2, <2>2, KeepingIInv DEF ErasePoll
  <2> QED BY <1>2, <2>1, <2>2 DEF ErasePoll
<1>3. CASE ProgramPoll
  <2>1. CASE GotoKeeping("pwait")
    BY <1>3, <2>1, KeepingIInv DEF ProgramPoll, Settled
  <2>2. CASE /\ ~StillBusy /\ MorePages
             /\ pos' = pos + PageChunk /\ Goto("wren2") /\ UNCHANGED <<x, excused>>
    <3>1. /\ Deselected("pwait") /\ pc = "pwait" /\ UNCHANGED job
          /\ pc' = "wren2" /\ io' = "idle" /\ rbuf' = Nothing
      BY <1>3, <2>2 DEF ProgramPoll, Deselected, Goto
    <3>2. job \in Jobs /\ x \in Nat /\ x < Wanted /\ pos \in Nat /\ pos < Chunk
      BY <3>1, WantedNat DEF IInv, TypeOK, LoopInv
    <3>3. Chunk \in 1 .. EraseSize /\ PageChunk \in Nat \ {0} /\ Chunk' = Chunk
      BY <2>2, <3>1, <3>2, ChunkFacts, PageChunkFacts DEF Chunk, Wanted
    <3>4. pos' \in 0 .. EraseSize - 1 /\ pos' < Chunk'
      <4> HIDE DEF Chunk, PageChunk
      <4> QED BY <2>2, <3>2, <3>3, GeometryAssumption DEF MorePages
    <3>5. x' \in 0 .. Wanted + EraseSize - 1 /\ x' < Wanted /\ x' % EraseSize = 0 /\ excused' \in BOOLEAN
      BY <2>2, <3>1, <3>2 DEF IInv, TypeOK, LoopInv
    <3>6. ~Busy(chip)'
      BY <1>1, <2>2, <3>1
    <3>7. pc' \in Pcs /\ pc' \notin Ended /\ pc' \notin {"done", "panic"}
      BY <3>1 DEF Pcs, Ended
    <3> QED BY <3>1, <3>4, <3>5, <3>6, <3>7, TransferEnds
  <2>3. CASE ~StillBusy /\ LoopAt(x + EraseSize) /\ UNCHANGED excused
    BY <1>1, <1>3, <2>3, LoopAtIInv DEF ProgramPoll
  <2> QED BY <1>3, <2>1, <2>2, <2>3 DEF ProgramPoll
<1>4. ASSUME NEW t \in Polls, TimedOut(t) PROVE IInv'
  BY <1>4, FatalIInv DEF TimedOut
<1> QED BY <1>2, <1>3, <1>4

\* The comparison of the reread is what a success stands on: the chip has been
\* ready since the read began, so the flash still is what was read.
LEMMA VerifiedIInv == ASSUME IInv, Verified PROVE IInv'
<1>1. /\ Deselected("verify") /\ pc = "verify" /\ io = "desel" /\ UNCHANGED <<flash, job, excused>>
      /\ "verify" \in Transfers /\ "verify" \in Settled
  BY DEF Verified, Transfers, CommandOf, Settled, Deselected
<1>2. excused' \in BOOLEAN
  BY <1>1 DEF IInv, TypeOK
<1>3. CASE Fatal
  BY <1>1, <1>2, <1>3, FatalIInv
<1>4. CASE Reread /\ Dies("done")
  <2>1. pc' = "done" /\ io' = "idle" /\ rbuf' = Nothing /\ x' = 0 /\ pos' = 0
    BY <1>4 DEF Dies
  <2>2. x' \in 0 .. Wanted + EraseSize - 1 /\ pos' \in 0 .. EraseSize - 1
    BY <2>1, WantedNat, GeometryAssumption DEF IInv, TypeOK
  <2>3. ~Busy(chip)' /\ pc' \in Pcs /\ pc' \notin InBlock /\ AtRest'
    BY <1>1, <2>1, StaysReady DEF Pcs, Ended, InBlock, AtRest
  <2>4. /\ flash \in [CellAddrs -> Cells] /\ job \in Jobs
        /\ Wanted \in Nat /\ job.off \in Nat /\ Wanted <= Len(job.buf)
    <3>1. job.len <= Len(job.buf)
      BY <1>1 DEF IInv, LoopInv, Running, Ended
    <3> QED BY <3>1, WantedNat, WantedFits DEF IInv, TypeOK
  <2>5. /\ rbuf.cells = Flash(job.off % FlashSize, Wanted)
        /\ rbuf.cells = Image(0, Wanted)
    BY <1>1, <1>4 DEF IInv, VerifyInv, Reread
  <2>6. ASSUME NEW i \in 1 .. Wanted
        PROVE  flash[(job.off + i - 1) % FlashSize] = job.buf[i]
    <3> HIDE DEF Wanted
    <3>1. Image(0, Wanted)[i] = job.buf[0 + i]
      BY <2>4, ImagePiece
    <3>2. job.off % FlashSize \in Int
      BY <2>4, GeometryAssumption
    <3>3. Flash(job.off % FlashSize, Wanted)[i] = flash[((job.off % FlashSize) + i - 1) % FlashSize]
      BY <2>4, <3>2, FlashPiece
    <3>4. ((job.off % FlashSize) + (i - 1)) % FlashSize = (job.off + (i - 1)) % FlashSize
      <4>1. job.off \in Int /\ i - 1 \in Int /\ FlashSize \in Nat \ {0}
        BY <2>4, GeometryAssumption
      <4> QED BY ONLY <4>1, ModSum, Zenon
    <3>5. /\ (job.off % FlashSize) + i - 1 = (job.off % FlashSize) + (i - 1)
          /\ job.off + i - 1 = job.off + (i - 1) /\ 0 + i = i
      BY <2>4, <3>2
    <3> QED BY <2>5, <3>1, <3>3, <3>4, <3>5
  <2>7. DoneMeansWritten'
    BY <1>1, <2>6 DEF DoneMeansWritten, Wanted
  <2> QED BY <1>1, <1>2, <2>1, <2>2, <2>3, <2>7, TransferEnds
<1> QED BY <1>3, <1>4 DEF Verified

LEMMA SetCtlIInv == ASSUME IInv, SetCtl PROVE IInv'
<1> USE DEF IInv, SetCtl
<1>1. TypeOK'
  BY DEF TypeOK, Pcs, Transfers, CommandOf, Wanted
<1>2. BusInv'
  BY DEF BusInv, Running, Ended, Transfers, CommandOf, Polls
<1>3. BusyInv' /\ VerifyInv'
  BY DEF BusyInv, VerifyInv, Settled, Polls, Busy
<1>4. LoopInv'
  BY DEF LoopInv, Running, Ended, InBlock
<1>5. DoneMeansWritten' /\ EndsDeselected'
  BY DEF DoneMeansWritten, EndsDeselected
<1> QED BY <1>1, <1>2, <1>3, <1>4, <1>5

LEMMA StartIInv == ASSUME IInv, NEW mode \in SpiModes, Start(mode) PROVE IInv'
<1> USE DEF IInv, Start
<1>1. job \in Jobs /\ job.len \in Int /\ Len(job.buf) \in Nat
  BY JobsAssumption DEF TypeOK, Images
<1>2. pc' \in {"rdid", "fatal"} /\ io = "idle" /\ AtRest /\ (pc' = "fatal" <=> job.len > Len(job.buf))
  BY DEF BusInv, LoopInv, Running, Ended, Transfers, CommandOf
<1>3. TypeOK'
  <2>1. chip.sel \in BOOLEAN /\ chip.mode4 \in BOOLEAN /\ ctl4 \in BOOLEAN
    BY DEF TypeOK, Chips
  <2>2. cleanStart' \in BOOLEAN /\ excused' \in BOOLEAN
    BY <2>1, Zenon
  <2> QED BY <1>2, <2>2 DEF TypeOK, Pcs, Ended, Transfers, CommandOf, Wanted
<1>4. BusInv'
  BY <1>2 DEF BusInv, Running, Ended
<1>5. BusyInv' /\ VerifyInv'
  BY <1>2 DEF BusyInv, VerifyInv, Settled, Polls, Busy
<1>6. LoopInv'
  BY <1>1, <1>2 DEF LoopInv, Running, Ended, InBlock, AtRest
<1>7. DoneMeansWritten' /\ EndsDeselected'
  BY <1>1, <1>2 DEF DoneMeansWritten, EndsDeselected
<1> QED BY <1>3, <1>4, <1>5, <1>6, <1>7
-----------------------------------------------------------------------------
(* Steps inside a transfer, the end of the program, and the chip           *)

LEMMA SendOpcodeIInv == ASSUME IInv, SendOpcode PROVE IInv'
<1>1. /\ pc \in Transfers /\ io = "idle" /\ Running
      /\ UNCHANGED <<flash, ctl4, rbuf, pc, x, pos, spimode, job, flash0, cleanStart, excused>>
  BY DEF SendOpcode, frame, Running, Transfers, CommandOf, Ended
<1>2. io' \in {"addr", "in", "desel"}
  BY DEF SendOpcode
<1>3. /\ io' = "addr" => pc \in {"read", "verify", "erase", "prog"}
      /\ io' = "in" => pc \in {"rdid", "stat", "is4b", "read", "verify"} \cup Polls
      /\ io' = "desel" => pc \notin {"stat", "erase", "verify"} \cup Polls
      /\ pc = "verify" => io' = "addr"
  BY <1>1 DEF SendOpcode, Transfers, CommandOf, Polls
<1>4. chip' \in Chips /\ chip'.op = chip.op
  <2>1. CommandOf[pc] \in Opcodes
    BY <1>1 DEF Transfers, CommandOf, Opcodes
  <2>2. chip \in Chips /\ chip' = Opcode(chip, CommandOf[pc])
    BY DEF IInv, TypeOK, SendOpcode
  <2> QED BY <2>1, <2>2 DEF Chips, Opcode
<1>5. /\ chip'.sel
      /\ pc # "rdid" => chip'.cmd = CommandOf[pc]
      /\ pc = "rdid" /\ chip'.cmd # "RDID" => chip'.junk
  <2>1. pc # "rdid" => ~chip.sel
    BY <1>1 DEF IInv, BusInv
  <2>2. chip \in Chips /\ chip' = Opcode(chip, CommandOf[pc])
    BY DEF IInv, TypeOK, SendOpcode
  <2>3. CommandOf["rdid"] = "RDID"
    BY DEF CommandOf
  <2> QED BY <2>1, <2>2, <2>3 DEF Chips, Opcode
<1>6. TypeOK'
  BY <1>1, <1>2, <1>4 DEF IInv, TypeOK, Wanted
<1>7. BusInv'
  BY <1>1, <1>2, <1>3, <1>5 DEF BusInv, Running
<1>8. BusyInv' /\ VerifyInv'
  BY <1>1, <1>2, <1>3, <1>4 DEF IInv, BusyInv, VerifyInv, Busy
<1>9. LoopInv'
  BY <1>1 DEF IInv, LoopInv, Running, Chunk, Sector, Wanted, AtRest
<1>10. DoneMeansWritten' /\ EndsDeselected'
  BY <1>1 DEF DoneMeansWritten, EndsDeselected, Running, Ended
<1> QED BY <1>6, <1>7, <1>8, <1>9, <1>10 DEF IInv

LEMMA SendAddressIInv == ASSUME IInv, SendAddress PROVE IInv'
<1>1. /\ pc \in {"read", "verify", "erase", "prog"} /\ io = "addr" /\ Running
      /\ UNCHANGED <<flash, ctl4, rbuf, pc, x, pos, spimode, job, flash0, cleanStart, excused>>
  BY DEF SendAddress, frame, IInv, BusInv, Running, Ended
<1>2. /\ io' \in {"data", "in", "desel"}
      /\ io' = "data" => pc = "prog"
      /\ io' = "in" => pc \in {"read", "verify"}
      /\ pc = "verify" => io' = "in"
  BY <1>1 DEF SendAddress
<1>3. AddressOf \in Int
  BY <1>1, WantedNat DEF AddressOf, Sector, IInv, TypeOK
<1>4. /\ chip' \in Chips /\ chip'.op = chip.op /\ chip'.cmd = chip.cmd /\ chip'.sel = chip.sel
      /\ chip'.addr = AddressOf % FlashSize /\ chip'.addr \in CellAddrs
  <2>1. AddressOf % FlashSize \in CellAddrs
    BY <1>3, ModInRange
  <2>2. chip \in Chips /\ chip' = [chip EXCEPT !.addr = AddressOf % FlashSize]
    BY DEF IInv, TypeOK, SendAddress, Address
  <2> HIDE DEF AddressOf
  <2> QED BY <2>1, <2>2 DEF Chips
<1>5. pc = "verify" => chip'.addr = job.off % FlashSize
  BY <1>4 DEF AddressOf
<1>6. TypeOK'
  BY <1>1, <1>2, <1>4 DEF IInv, TypeOK, Wanted
<1>7. BusInv'
  BY <1>1, <1>2, <1>4 DEF IInv, BusInv, Running, Transfers, CommandOf
<1>8. BusyInv' /\ VerifyInv'
  BY <1>1, <1>2, <1>4, <1>5 DEF IInv, BusyInv, VerifyInv, Busy, Polls
<1>9. LoopInv'
  BY <1>1 DEF IInv, LoopInv, Running, Chunk, Sector, Wanted, AtRest
<1>10. DoneMeansWritten' /\ EndsDeselected'
  BY <1>1 DEF DoneMeansWritten, EndsDeselected, Running, Ended
<1> QED BY <1>6, <1>7, <1>8, <1>9, <1>10 DEF IInv

LEMMA SendDataIInv == ASSUME IInv, SendData PROVE IInv'
<1>1. /\ pc = "prog" /\ io = "data" /\ io' = "desel" /\ Running
      /\ UNCHANGED <<flash, ctl4, rbuf, pc, x, pos, spimode, job, flash0, cleanStart, excused>>
  BY DEF SendData, frame, IInv, BusInv, Running, Ended
<1>2. Image(x + pos, PageChunk) \in Seq(Cells)
  <2>1. /\ job \in Jobs /\ x \in Nat /\ x < Wanted /\ pos \in Nat /\ pos < Chunk
        /\ Wanted <= Len(job.buf) /\ Wanted \in Nat /\ Len(job.buf) \in Nat
    BY <1>1, WantedNat, WantedFits DEF IInv, TypeOK, LoopInv, InBlock, Images
  <2>2. PageChunk \in Nat \ {0} /\ pos + PageChunk <= Chunk
    BY <2>1, PageChunkFacts
  <2>3. Chunk \in 1 .. EraseSize /\ x + Chunk <= Wanted
    BY <2>1, ChunkFacts
  <2>4. x + pos \in Nat /\ PageChunk \in Nat /\ (x + pos) + PageChunk <= Len(job.buf)
    <3> HIDE DEF PageChunk, Chunk, Wanted
    <3> QED BY <2>1, <2>2, <2>3, GeometryAssumption
  <2> HIDE DEF PageChunk
  <2> QED BY <2>1, <2>4, ImagePiece DEF Images
<1>3. chip' \in Chips /\ chip'.op = chip.op /\ chip'.cmd = chip.cmd /\ chip'.sel = chip.sel
  <2>1. chip \in Chips /\ chip' = [chip EXCEPT !.data = Image(x + pos, PageChunk)]
    BY DEF IInv, TypeOK, SendData
  <2> QED BY <1>2, <2>1 DEF Chips
<1>4. TypeOK'
  BY <1>1, <1>3 DEF IInv, TypeOK, Wanted
<1>5. BusInv'
  BY <1>1, <1>3 DEF IInv, BusInv, Running, Transfers, CommandOf
<1>6. BusyInv' /\ VerifyInv'
  BY <1>1, <1>3 DEF IInv, BusyInv, VerifyInv, Busy, Polls
<1>7. LoopInv'
  BY <1>1 DEF IInv, LoopInv, Running, Chunk, Sector, Wanted, AtRest
<1>8. DoneMeansWritten' /\ EndsDeselected'
  BY <1>1 DEF DoneMeansWritten, EndsDeselected, Running, Ended
<1> QED BY <1>4, <1>5, <1>6, <1>7, <1>8 DEF IInv

LEMMA ReadInIInv == ASSUME IInv, ReadIn PROVE IInv'
<1>1. /\ pc \in {"rdid", "stat", "is4b", "read", "verify"} \cup Polls
      /\ io = "in" /\ io' = "desel" /\ rbuf' = Answer /\ Running
      /\ UNCHANGED <<flash, ctl4, chip, pc, x, pos, spimode, job, flash0, cleanStart, excused>>
  BY DEF ReadIn, frame, IInv, BusInv, Running, Ended, Polls
<1>2. /\ chip \in Chips /\ job \in Jobs /\ flash \in [CellAddrs -> Cells]
      /\ job.len <= Len(job.buf)
  BY <1>1 DEF IInv, TypeOK, LoopInv
<1>3. Answer \in Answers
  <2>1. CASE pc = "rdid"
    <3>1. Answer = [known |-> chip.cmd = "RDID" /\ ~chip.junk /\ ~Busy(chip)]
      BY <2>1 DEF Answer, CommandOf
    <3>2. (chip.cmd = "RDID" /\ ~chip.junk /\ ~Busy(chip)) \in BOOLEAN
      BY Zenon
    <3> QED BY <3>1, <3>2 DEF Answers
  <2>2. CASE pc \in {"stat"} \cup Polls
    <3>1. Answer = [wip |-> Busy(chip), wel |-> chip.wel, flags |-> chip.flags]
      BY <2>2 DEF Answer, CommandOf, Polls
    <3>2. Busy(chip) \in BOOLEAN
      BY Zenon DEF Busy
    <3>3. chip.wel \in BOOLEAN /\ chip.flags \in BOOLEAN
      BY <1>2 DEF Chips
    <3> QED BY <3>1, <3>2, <3>3 DEF Answers
  <2>3. CASE pc = "is4b"
    BY <1>2, <2>3 DEF Answer, Answers, Chips, CommandOf
  <2>4. CASE pc \in {"read", "verify"}
    <3>1. Answer = [cells |-> Flash(chip.addr, InSize)]
      BY <2>4 DEF Answer, CommandOf
    <3>2. Wanted \in Nat
      BY <1>2, WantedNat
    <3>3. pc = "read" => Chunk \in Nat
      <4>1. pc = "read" => x \in Nat /\ x < Wanted
        BY <3>2 DEF IInv, TypeOK, LoopInv, InBlock
      <4> QED BY <1>2, <4>1, ChunkFacts
    <3>4. InSize \in Nat
      BY <2>4, <3>2, <3>3 DEF InSize
    <3>5. chip.addr \in Int
      BY <1>2, GeometryAssumption DEF Chips, CellAddrs, NoAddr
    <3>6. Flash(chip.addr, InSize) \in Images
      BY <1>2, <3>4, <3>5, FlashPiece
    <3> QED BY <3>1, <3>6 DEF Answers
  <2> QED BY <1>1, <2>1, <2>2, <2>3, <2>4
<1>4. TypeOK'
  BY <1>1, <1>3 DEF IInv, TypeOK, Wanted
<1>5. BusInv'
  <2>1. pc \in Transfers /\ pc # "erase"
    BY <1>1 DEF Transfers, CommandOf, Polls
  <2>2. /\ ~chip.sel => chip.cmd = "none"
        /\ pc # "rdid" => chip.cmd = CommandOf[pc]
        /\ pc = "rdid" /\ chip.cmd # "RDID" => chip.junk
    BY <1>1 DEF IInv, BusInv
  <2> QED BY <1>1, <2>1, <2>2 DEF BusInv
<1>6. BusyInv'
  <2>1. pc \in {"stat"} \cup Polls => Answer.wip = Busy(chip)
    BY DEF Answer, CommandOf, Polls
  <2> QED BY <1>1, <2>1 DEF IInv, BusyInv, Busy
<1>7. VerifyInv'
  <2>1. pc = "verify" => Answer.cells = Flash(chip.addr, Wanted)
    BY DEF Answer, CommandOf, InSize
  <2> QED BY <1>1, <2>1 DEF IInv, VerifyInv, Flash, Wanted
<1>8. LoopInv'
  BY <1>1 DEF IInv, LoopInv, Running, Chunk, Sector, Wanted, AtRest
<1>9. DoneMeansWritten' /\ EndsDeselected'
  BY <1>1 DEF DoneMeansWritten, EndsDeselected, Running, Ended
<1> QED BY <1>4, <1>5, <1>6, <1>7, <1>8, <1>9 DEF IInv

\* A run that dies where it stands, without a word to the chip.
LEMMA DiesIInv ==
  ASSUME IInv, NEW how \in {"killed", "panic"}, Dies(how),
         UNCHANGED <<flash, chip, ctl4, spimode, job, flash0, cleanStart, excused>>,
         how = "panic" => chip.sel /\ ~WholeWords
  PROVE  IInv'
<1>1. /\ pc' = how /\ io' = "idle" /\ rbuf' = Nothing /\ x' = 0 /\ pos' = 0
      /\ Wanted' = Wanted
  BY DEF Dies, Wanted
<1>2. Wanted \in Nat /\ EraseSize \in Nat \ {0}
  BY WantedNat, GeometryAssumption DEF IInv, TypeOK
<1>3. TypeOK'
  <2> HIDE DEF Wanted
  <2> QED BY <1>1, <1>2 DEF IInv, TypeOK, Pcs, Ended
<1>4. BusInv' /\ BusyInv' /\ VerifyInv'
  BY <1>1 DEF IInv, BusInv, BusyInv, VerifyInv, Running, Ended, Settled, Polls
<1>5. LoopInv'
  BY <1>1 DEF LoopInv, Running, Ended, InBlock, AtRest
<1>6. DoneMeansWritten' /\ EndsDeselected'
  BY <1>1 DEF DoneMeansWritten, EndsDeselected, WholeWords
<1> QED BY <1>3, <1>4, <1>5, <1>6 DEF IInv

LEMMA KillIInv == ASSUME IInv, Kill PROVE IInv'
BY DiesIInv DEF Kill

\* The chip has been selected for the read that panics, and that read is not of
\* whole words because the image is not.
LEMMA ReadPanicIInv == ASSUME IInv, ReadPanic PROVE IInv'
<1>1. pc \in {"read", "verify"} /\ io = "in" /\ InSize % WordSize # 0
  BY DEF ReadPanic, Torn
<1>2. chip.sel
  <2>1. chip.cmd = "READ"
    BY <1>1 DEF IInv, BusInv, Running, Ended, CommandOf
  <2> QED BY <2>1 DEF IInv, BusInv
<1>3. ~WholeWords
  <2>1. CASE pc = "verify"
    BY <1>1, <2>1 DEF InSize, WholeWords
  <2>2. CASE pc = "read"
    <3>1. Wanted \in Nat /\ x \in Nat /\ x < Wanted /\ x % EraseSize = 0
      BY <2>2, WantedNat, GeometryAssumption DEF IInv, TypeOK, LoopInv, InBlock
    <3>2. Smaller(EraseSize, Wanted - x) % WordSize # 0
      BY <1>1, <2>2 DEF InSize, Chunk
    <3> HIDE DEF Wanted
    <3> QED BY <3>1, <3>2, WholeChunks DEF WholeWords
  <2> QED BY <1>1, <2>1, <2>2
<1> QED BY <1>2, <1>3, DiesIInv DEF ReadPanic

\* The chip changes the flash only while it is busy, and it is not busy from the
\* start of the verification on.
LEMMA ChipIInv == ASSUME IInv, ChipFinishes \/ ChipRejects PROVE IInv'
<1>0. chip \in Chips
  BY DEF IInv, TypeOK
<1>1. /\ Busy(chip) /\ \E f \in BOOLEAN : OpDone(f)
      /\ UNCHANGED <<ctl4, io, rbuf, pc, x, pos, spimode, job, flash0, cleanStart>>
      /\ excused' \in BOOLEAN /\ pc \notin Settled
  BY <1>0 DEF ChipFinishes, ChipRejects, frame, IInv, TypeOK, BusyInv, Chips
<1>2. PICK f \in BOOLEAN :
        chip' = [chip EXCEPT !.op = NoOperation, !.wel = FALSE, !.flags = f]
  BY <1>1 DEF OpDone
<1>3. /\ chip' \in Chips /\ chip'.sel = chip.sel /\ chip'.cmd = chip.cmd
      /\ chip'.addr = chip.addr /\ chip'.junk = chip.junk /\ ~Busy(chip)'
  BY <1>0, <1>2 DEF Chips, Busy
<1>4. flash' \in [CellAddrs -> Cells]
  <2>1. CASE ChipFinishes
    <3>1. chip.op \in Operations /\ flash' \in Outcome(flash, chip.op)
      BY <1>0, <2>1 DEF ChipFinishes, Chips, Busy
    <3> QED BY <3>1, OutcomeCells DEF IInv, TypeOK
  <2>2. CASE ChipRejects
    BY <2>2 DEF ChipRejects, IInv, TypeOK
  <2> QED BY <2>1, <2>2
<1>5. TypeOK'
  BY <1>1, <1>3, <1>4 DEF IInv, TypeOK, Wanted
<1>6. BusInv'
  <2>1. BusInv /\ pc' = pc /\ io' = io /\ (Running' <=> Running)
    BY <1>1 DEF IInv, Running
  <2> HIDE DEF Running
  <2> QED BY <1>3, <2>1 DEF BusInv
<1>7. BusyInv' /\ VerifyInv' /\ DoneMeansWritten'
  BY <1>1, <1>3 DEF BusyInv, VerifyInv, DoneMeansWritten, Settled
<1>8. LoopInv'
  BY <1>1 DEF IInv, LoopInv, Running, Chunk, Sector, Wanted, AtRest
<1>9. EndsDeselected'
  BY <1>1, <1>3 DEF IInv, EndsDeselected, WholeWords, Wanted
<1> QED BY <1>5, <1>6, <1>7, <1>8, <1>9 DEF IInv

LEMMA NextIInv == IInv /\ [Next]_vars => IInv'
<1> SUFFICES ASSUME IInv, [Next]_vars PROVE IInv'
  OBVIOUS
<1>1. CASE Program
  BY <1>1, SendOpcodeIInv, SendAddressIInv, SendDataIInv, ReadInIInv, ReadPanicIInv,
     GotIdIInv, GotStatusIInv, WriteDisabledIInv, SimpleIInv, SetCtlIInv, GotModeIInv,
     ComparedIInv, PollIInv, VerifiedIInv DEF Program
<1>2. ASSUME NEW t \in Polls, TimedOut(t) PROVE IInv'
  BY <1>2, PollIInv
<1>3. ASSUME NEW mode \in SpiModes, Start(mode) PROVE IInv'
  BY <1>3, StartIInv
<1>4. CASE Kill
  BY <1>4, KillIInv
<1>5. CASE ChipFinishes \/ ChipRejects
  BY <1>5, ChipIInv
<1>6. CASE UNCHANGED vars
  BY <1>6 DEF vars, IInv, TypeOK, BusInv, BusyInv, VerifyInv, LoopInv, DoneMeansWritten,
     EndsDeselected, WholeWords, Running, Wanted, Chunk, AtRest, Flash, Busy
<1> QED BY <1>1, <1>2, <1>3, <1>4, <1>5, <1>6 DEF Next

THEOREM WriteInvariant == Spec => []IInv
  BY InitIInv, NextIInv, PTL DEF Spec

\* Every variable keeps its type: the loops of doSpiWrite and Write stay inside
\* the image, every address that reaches the chip is one.
THEOREM TypeCorrect == Spec => []TypeOK
<1>1. IInv => TypeOK
  BY DEF IInv
<1> QED BY <1>1, WriteInvariant, PTL

\* Success means that the image is in the flash: whatever geometry, image, offset
\* and mode, however many runs were killed before at whatever point, and although
\* the chip may have refused any erase or program without being noticed.
THEOREM SuccessMeansWritten == Spec => []DoneMeansWritten
<1>1. IInv => DoneMeansWritten
  BY DEF IInv
<1> QED BY <1>1, WriteInvariant, PTL

\* A run that ends by itself leaves the chip selected only if it ends in the panic of
\* line 72, and it does that only for an image that is not of whole words.
THEOREM AlwaysEndsDeselected == Spec => []EndsDeselected
<1>1. IInv => EndsDeselected
  BY DEF IInv
<1> QED BY <1>1, WriteInvariant, PTL
-----------------------------------------------------------------------------
(* Why a run ends                                                          *)

\* What TransfersLeft allows to k offsets of the image.
LoopTerm(k) == k * (3 * EraseSize + 5)

LEMMA LoopTermFacts ==
  ASSUME NEW k \in Nat
  PROVE  /\ LoopTerm(k) \in Nat
         /\ LoopTerm(k + 1) = LoopTerm(k) + 3 * EraseSize + 5
         /\ \A l \in Nat : l < k => LoopTerm(l) + 3 * EraseSize + 5 <= LoopTerm(k)
<1>1. EraseSize \in Nat \ {0}
  BY GeometryAssumption
<1>2. PICK e \in Nat : e = 3 * EraseSize + 5
  BY <1>1
<1>3. k * e \in Nat /\ (k + 1) * e = k * e + e
  BY <1>2
<1>4. ASSUME NEW l \in Nat, l < k PROVE l * e + e <= k * e
  <2>1. PICK m \in Nat : k = l + 1 + m
    <3>1. k - l - 1 \in Nat /\ k = l + 1 + (k - l - 1)
      BY <1>4
    <3> QED BY <3>1
  <2>2. k * e = l * e + e + m * e /\ m * e \in Nat
    BY <1>2, <2>1
  <2> QED BY <1>2, <2>2
<1>5. \A l \in Nat : LoopTerm(l) = l * e
  BY <1>2 DEF LoopTerm
<1>6. k + 1 \in Nat
  OBVIOUS
<1> QED BY <1>1, <1>2, <1>3, <1>4, <1>5, <1>6

\* The bound at each transfer.
LeftRight ==
  /\ pc \in Ended => TransfersLeft = 0
  /\ pc = "rdid" => TransfersLeft = LoopTerm(Wanted + 1) + 6
  /\ pc = "stat" => TransfersLeft = LoopTerm(Wanted + 1) + 5
  /\ pc = "wrdi" => TransfersLeft = LoopTerm(Wanted + 1) + 4
  /\ pc \in {"mode4", "mode3"} => TransfersLeft = LoopTerm(Wanted + 1) + 3
  /\ pc = "setctl" => TransfersLeft = LoopTerm(Wanted + 1) + 2
  /\ pc = "is4b" => TransfersLeft = LoopTerm(Wanted + 1) + 1
  /\ pc = "read" => TransfersLeft = LoopTerm(Wanted - x) + 3 * EraseSize + 4
  /\ pc = "wren1" => TransfersLeft = LoopTerm(Wanted - x) + 3 * EraseSize + 3
  /\ pc = "erase" => TransfersLeft = LoopTerm(Wanted - x) + 3 * EraseSize + 2
  /\ pc = "ewait" => TransfersLeft = LoopTerm(Wanted - x) + 3 * EraseSize + 1
  /\ pc = "wren2" => TransfersLeft = LoopTerm(Wanted - x) + 3 * (Chunk - pos)
  /\ pc = "prog" => TransfersLeft = LoopTerm(Wanted - x) + 3 * (Chunk - pos) - 1
  /\ pc = "pwait" => TransfersLeft = LoopTerm(Wanted - x) + 3 * (Chunk - pos) - 2
  /\ pc = "verify" => TransfersLeft = 1

LEMMA LeftIs == LeftRight
<1> USE DEF TransfersLeft, LoopTerm
<1>1. pc \in Ended => TransfersLeft = 0
  BY DEF Ended
<1>2. /\ pc = "rdid" => TransfersLeft = LoopTerm(Wanted + 1) + 6
      /\ pc = "stat" => TransfersLeft = LoopTerm(Wanted + 1) + 5
      /\ pc = "wrdi" => TransfersLeft = LoopTerm(Wanted + 1) + 4
      /\ pc \in {"mode4", "mode3"} => TransfersLeft = LoopTerm(Wanted + 1) + 3
      /\ pc = "setctl" => TransfersLeft = LoopTerm(Wanted + 1) + 2
      /\ pc = "is4b" => TransfersLeft = LoopTerm(Wanted + 1) + 1
  OBVIOUS
<1>3. /\ pc = "read" => TransfersLeft = LoopTerm(Wanted - x) + 3 * EraseSize + 4
      /\ pc = "wren1" => TransfersLeft = LoopTerm(Wanted - x) + 3 * EraseSize + 3
      /\ pc = "erase" => TransfersLeft = LoopTerm(Wanted - x) + 3 * EraseSize + 2
      /\ pc = "ewait" => TransfersLeft = LoopTerm(Wanted - x) + 3 * EraseSize + 1
  OBVIOUS
<1>4. /\ pc = "wren2" => TransfersLeft = LoopTerm(Wanted - x) + 3 * (Chunk - pos)
      /\ pc = "prog" => TransfersLeft = LoopTerm(Wanted - x) + 3 * (Chunk - pos) - 1
      /\ pc = "pwait" => TransfersLeft = LoopTerm(Wanted - x) + 3 * (Chunk - pos) - 2
      /\ pc = "verify" => TransfersLeft = 1
  OBVIOUS
<1> QED BY <1>1, <1>2, <1>3, <1>4 DEF LeftRight

LEMMA LeftIsNext == LeftRight'
BY LeftIs, PTL

Advances == TransfersLeft' >= 0 /\ TransfersLeft' < TransfersLeft

\* The numbers at a place of the image.
LEMMA PlaceNumbers ==
  ASSUME IInv, pc \in InBlock
  PROVE  /\ job \in Jobs /\ Wanted \in Nat /\ x \in Nat /\ x < Wanted /\ pos \in Nat /\ pos < Chunk
         /\ Chunk \in 1 .. EraseSize /\ EraseSize \in Nat \ {0} /\ Wanted - x \in Nat \ {0}
         /\ LoopTerm(Wanted - x) \in Nat /\ LoopTerm(Wanted - x) >= 3 * EraseSize + 5
<1>1. job \in Jobs /\ x \in Nat /\ x < Wanted /\ pos \in Nat /\ pos < Chunk /\ Wanted \in Nat
  <2>1. job \in Jobs /\ Wanted \in Nat /\ EraseSize \in Nat
    BY WantedNat, GeometryAssumption DEF IInv, TypeOK
  <2> QED BY <2>1 DEF IInv, TypeOK, LoopInv
<1>2. Chunk \in 1 .. EraseSize /\ EraseSize \in Nat \ {0}
  BY <1>1, ChunkFacts, GeometryAssumption
<1>3. Wanted - x \in Nat \ {0}
  <2> HIDE DEF Wanted
  <2> QED BY <1>1
<1>4. LoopTerm(Wanted - x) \in Nat /\ LoopTerm(Wanted - x) >= 3 * EraseSize + 5
  <2>1. PICK m \in Nat \ {0} : m = Wanted - x
    BY <1>3
  <2>2. LoopTerm(m) \in Nat /\ LoopTerm(0) \in Nat /\ LoopTerm(0) + 3 * EraseSize + 5 <= LoopTerm(m)
    BY <2>1, LoopTermFacts
  <2> HIDE DEF LoopTerm
  <2> QED BY <1>2, <2>1, <2>2
<1> QED BY <1>1, <1>2, <1>3, <1>4

LEMMA BlockLeft ==
  ASSUME IInv, pc \in InBlock
  PROVE  TransfersLeft \in Nat /\ TransfersLeft > LoopTerm(Wanted - x)
<1> HIDE DEF LoopTerm, Wanted, Chunk
<1>1. PICK k \in Nat, c \in Nat, p \in Nat, e \in Nat :
        k = LoopTerm(Wanted - x) /\ c = Chunk /\ p = pos /\ e = EraseSize /\ p < c
  BY PlaceNumbers
<1>2. \/ TransfersLeft = k + 3 * e + 4 \/ TransfersLeft = k + 3 * e + 3
      \/ TransfersLeft = k + 3 * e + 2 \/ TransfersLeft = k + 3 * e + 1
      \/ TransfersLeft = k + 3 * (c - p) \/ TransfersLeft = k + 3 * (c - p) - 1
      \/ TransfersLeft = k + 3 * (c - p) - 2
  BY <1>1, LeftIs DEF LeftRight, InBlock
<1>3. \A z \in {k + 3 * e + 4, k + 3 * e + 3, k + 3 * e + 2, k + 3 * e + 1, k + 3 * (c - p),
                k + 3 * (c - p) - 1, k + 3 * (c - p) - 2} : z \in Nat /\ z > k
  <2>1. k \in Nat /\ c \in Nat /\ p \in Nat /\ e \in Nat /\ p < c
    BY <1>1
  <2> QED BY ONLY <2>1
<1>4. TransfersLeft \in Nat /\ TransfersLeft > k
  BY <1>2, <1>3
<1> QED BY <1>1, <1>4

LEMMA HeadNumbers ==
  ASSUME IInv
  PROVE  Wanted \in Nat /\ Wanted + 1 \in Nat /\ LoopTerm(Wanted + 1) \in Nat
<1>1. Wanted \in Nat
  BY WantedNat DEF IInv, TypeOK
<1> HIDE DEF Wanted, LoopTerm
<1>2. Wanted + 1 \in Nat
  BY <1>1
<1> QED BY <1>1, <1>2, LoopTermFacts

LEMMA LeftPositive ==
  ASSUME IInv, Running
  PROVE  TransfersLeft \in Nat /\ TransfersLeft > 0
<1> HIDE DEF LoopTerm, Wanted, Chunk
<1>1. CASE pc \in InBlock
  <2>1. PICK k \in Nat : k = LoopTerm(Wanted - x)
    BY <1>1, PlaceNumbers
  <2>2. TransfersLeft \in Nat /\ TransfersLeft > k
    BY <1>1, <2>1, BlockLeft
  <2> QED BY <2>1, <2>2
<1>2. CASE pc \in {"rdid", "stat", "wrdi", "mode4", "mode3", "setctl", "is4b"}
  <2>1. PICK k \in Nat : k = LoopTerm(Wanted + 1)
    BY HeadNumbers
  <2>2. TransfersLeft \in {k + 1, k + 2, k + 3, k + 4, k + 5, k + 6}
    BY <1>2, <2>1, LeftIs DEF LeftRight
  <2> QED BY <2>1, <2>2
<1>3. CASE pc = "verify"
  BY <1>3, LeftIs DEF LeftRight
<1> QED BY <1>1, <1>2, <1>3 DEF IInv, TypeOK, Running, Pcs, Transfers, CommandOf, InBlock

LEMMA EndAdvances ==
  ASSUME IInv, Running, pc' \in Ended
  PROVE  Advances
<1>1. TransfersLeft' = 0
  BY LeftIsNext DEF LeftRight, Ended
<1> QED BY <1>1, LeftPositive DEF Advances
\* From one transfer to the next at the same place of the image.
HeadFollows ==
  {<<"rdid", "stat">>, <<"stat", "wrdi">>, <<"stat", "is4b">>, <<"stat", "mode4">>,
   <<"stat", "mode3">>, <<"wrdi", "is4b">>, <<"wrdi", "mode4">>, <<"wrdi", "mode3">>,
   <<"mode4", "setctl">>, <<"mode3", "setctl">>, <<"setctl", "is4b">>}
BlockFollows ==
  {<<"read", "wren1">>, <<"wren1", "erase">>, <<"erase", "ewait">>, <<"ewait", "wren2">>,
   <<"wren2", "prog">>, <<"prog", "pwait">>}

LEMMA HeadAdvances ==
  ASSUME IInv, UNCHANGED job, <<pc, pc'>> \in HeadFollows
  PROVE  Advances
<1>1. Wanted' = Wanted
  BY DEF Wanted
<1>2. PICK k \in Nat : k = LoopTerm(Wanted + 1) /\ k = LoopTerm(Wanted + 1)'
  BY <1>1, HeadNumbers DEF LoopTerm
<1>3. /\ pc = "rdid" => TransfersLeft = k + 6
      /\ pc = "stat" => TransfersLeft = k + 5
      /\ pc = "wrdi" => TransfersLeft = k + 4
      /\ pc \in {"mode4", "mode3"} => TransfersLeft = k + 3
      /\ pc = "setctl" => TransfersLeft = k + 2
  BY <1>2, LeftIs DEF LeftRight
<1>4. /\ pc' = "stat" => TransfersLeft' = k + 5
      /\ pc' = "wrdi" => TransfersLeft' = k + 4
      /\ pc' \in {"mode4", "mode3"} => TransfersLeft' = k + 3
      /\ pc' = "setctl" => TransfersLeft' = k + 2
      /\ pc' = "is4b" => TransfersLeft' = k + 1
  BY <1>2, LeftIsNext DEF LeftRight
<1>5. \/ pc = "rdid" /\ pc' = "stat"
      \/ pc = "stat" /\ pc' \in {"wrdi", "is4b", "mode4", "mode3"}
      \/ pc = "wrdi" /\ pc' \in {"is4b", "mode4", "mode3"}
      \/ pc \in {"mode4", "mode3"} /\ pc' = "setctl"
      \/ pc = "setctl" /\ pc' = "is4b"
  BY DEF HeadFollows
<1>6. \E o \in 1 .. 6, q \in 1 .. 6 : q < o /\ TransfersLeft = k + o /\ TransfersLeft' = k + q
  BY <1>3, <1>4, <1>5
<1> QED BY <1>2, <1>6 DEF Advances

LEMMA BlockAdvances ==
  ASSUME IInv, UNCHANGED <<job, x, pos>>, <<pc, pc'>> \in BlockFollows
  PROVE  Advances
<1>1. pc \in InBlock /\ pc' \in InBlock
  BY DEF BlockFollows, InBlock
<1>2. Wanted' = Wanted /\ Chunk' = Chunk
  BY DEF Wanted, Chunk
<1>3. PICK k \in Nat, c \in Nat, p \in Nat, e \in Nat :
        /\ k = LoopTerm(Wanted - x) /\ c = Chunk /\ p = pos /\ e = EraseSize
        /\ p < c /\ c <= e
  BY <1>1, PlaceNumbers
<1>4. k = LoopTerm(Wanted - x)' /\ c = Chunk' /\ p = pos'
  BY <1>2, <1>3 DEF LoopTerm
<1>5. /\ pc = "read" => TransfersLeft = k + 3 * e + 4
      /\ pc = "wren1" => TransfersLeft = k + 3 * e + 3
      /\ pc = "erase" => TransfersLeft = k + 3 * e + 2
      /\ pc = "ewait" => TransfersLeft = k + 3 * e + 1
      /\ pc = "wren2" => TransfersLeft = k + 3 * (c - p)
      /\ pc = "prog" => TransfersLeft = k + 3 * (c - p) - 1
  BY <1>3, LeftIs DEF LeftRight
<1>6. /\ pc' = "wren1" => TransfersLeft' = k + 3 * e + 3
      /\ pc' = "erase" => TransfersLeft' = k + 3 * e + 2
      /\ pc' = "ewait" => TransfersLeft' = k + 3 * e + 1
      /\ pc' = "wren2" => TransfersLeft' = k + 3 * (c - p)
      /\ pc' = "prog" => TransfersLeft' = k + 3 * (c - p) - 1
      /\ pc' = "pwait" => TransfersLeft' = k + 3 * (c - p) - 2
  BY <1>3, <1>4, LeftIsNext DEF LeftRight
<1>7. /\ 0 <= k + 3 * (c - p) - 2 /\ k + 3 * (c - p) - 2 < k + 3 * (c - p) - 1
      /\ k + 3 * (c - p) - 1 < k + 3 * (c - p) /\ 0 <= k + 3 * (c - p) - 1
      /\ k + 3 * (c - p) < k + 3 * e + 1 /\ 0 <= k + 3 * (c - p)
      /\ k + 3 * e + 1 < k + 3 * e + 2 /\ 0 <= k + 3 * e + 1
      /\ k + 3 * e + 2 < k + 3 * e + 3 /\ 0 <= k + 3 * e + 2
      /\ k + 3 * e + 3 < k + 3 * e + 4 /\ 0 <= k + 3 * e + 3
  <2>1. k \in Nat /\ c \in Nat /\ p \in Nat /\ e \in Nat /\ p < c /\ c <= e
    BY <1>3
  <2> QED BY ONLY <2>1
<1>8. \/ pc = "read" /\ pc' = "wren1"
      \/ pc = "wren1" /\ pc' = "erase"
      \/ pc = "erase" /\ pc' = "ewait"
      \/ pc = "ewait" /\ pc' = "wren2"
      \/ pc = "wren2" /\ pc' = "prog"
      \/ pc = "prog" /\ pc' = "pwait"
  BY DEF BlockFollows
<1> QED BY <1>5, <1>6, <1>7, <1>8 DEF Advances

\* The next page of the block.
LEMMA PageAdvances ==
  ASSUME IInv, UNCHANGED <<job, x>>, pc = "pwait", pc' = "wren2", MorePages,
         pos' = pos + PageChunk
  PROVE  Advances
<1>1. pc \in InBlock
  BY DEF InBlock
<1>2. Wanted' = Wanted /\ Chunk' = Chunk
  BY DEF Wanted, Chunk
<1>3. PageChunk \in Nat \ {0} /\ pos + PageChunk < Chunk
  BY <1>1, PlaceNumbers, PageChunkFacts DEF MorePages
<1>4. PICK k \in Nat, c \in Nat, p \in Nat, g \in Nat \ {0} :
        k = LoopTerm(Wanted - x) /\ c = Chunk /\ p = pos /\ g = PageChunk /\ p + g < c
  BY <1>1, <1>3, PlaceNumbers
<1>5. k = LoopTerm(Wanted - x)' /\ c = Chunk' /\ pos' = p + g
  BY <1>2, <1>4 DEF LoopTerm
<1>6. TransfersLeft = k + 3 * (c - p) - 2
  BY <1>4, LeftIs DEF LeftRight
<1>7. TransfersLeft' = k + 3 * (c - (p + g))
  BY <1>5, LeftIsNext DEF LeftRight
<1>8. 0 <= k + 3 * (c - (p + g)) /\ k + 3 * (c - (p + g)) < k + 3 * (c - p) - 2
  <2>1. k \in Nat /\ c \in Nat /\ p \in Nat /\ g \in Nat \ {0} /\ p + g < c
    BY <1>4
  <2> QED BY ONLY <2>1
<1> QED BY <1>6, <1>7, <1>8 DEF Advances

\* Into the loop, from one block to the next, and out of it.
LEMMA LoopAdvances ==
  ASSUME IInv, UNCHANGED job, NEW y, LoopAt(y),
         (pc = "is4b" /\ y = 0) \/ (pc \in InBlock /\ y = x + EraseSize)
  PROVE  Advances
<1>1. /\ Wanted' = Wanted /\ Wanted \in Nat /\ EraseSize \in Nat \ {0}
      /\ x' = y /\ pc' = IF y < Wanted THEN "read" ELSE "verify"
  BY WantedNat, GeometryAssumption DEF LoopAt, Goto, Wanted, IInv, TypeOK
<1>2. PICK w \in Nat, e \in Nat \ {0} : w = Wanted /\ e = EraseSize
  BY <1>1
<1>3. PICK t \in Nat : t = TransfersLeft
  BY LeftPositive DEF Running, Ended, InBlock
<1>4. y \in Nat
  BY <1>1, PlaceNumbers
<1>5. CASE y < Wanted
  <2>1. pc' = "read"
    BY <1>1, <1>5
  <2>2. w - y \in Nat
    BY <1>2, <1>4, <1>5
  <2>3. PICK k \in Nat : k = LoopTerm(w - y)
    BY <2>2, LoopTermFacts
  <2>4. TransfersLeft' = k + 3 * e + 4
    BY <1>1, <1>2, <2>1, <2>3, LeftIsNext DEF LeftRight, LoopTerm
  <2>5. t > k + 3 * e + 5
    <3>1. CASE pc = "is4b"
      <4>1. w + 1 \in Nat /\ w - y < w + 1
        BY <1>2, <1>4
      <4>2. k + 3 * e + 5 <= LoopTerm(w + 1) /\ LoopTerm(w + 1) \in Nat
        BY <1>2, <2>2, <2>3, <4>1, LoopTermFacts
      <4>3. t = LoopTerm(w + 1) + 1
        BY <1>2, <1>3, <3>1, LeftIs DEF LeftRight
      <4> QED BY <1>2, <2>3, <4>2, <4>3
    <3>2. CASE pc \in InBlock /\ y = x + EraseSize
      <4>1. w - x \in Nat /\ w - y < w - x
        BY <1>2, <3>2, PlaceNumbers
      <4>2. k + 3 * e + 5 <= LoopTerm(w - x) /\ LoopTerm(w - x) \in Nat
        BY <1>2, <2>2, <2>3, <4>1, LoopTermFacts
      <4>3. t > LoopTerm(w - x)
        BY <1>2, <1>3, <3>2, BlockLeft
      <4> QED BY <1>2, <1>3, <2>3, <4>2, <4>3
    <3> QED BY <3>1, <3>2
  <2>6. 0 <= k + 3 * e + 4 /\ k + 3 * e + 4 < k + 3 * e + 5
    BY <1>2, <2>3
  <2> QED BY <1>2, <1>3, <2>3, <2>4, <2>5, <2>6 DEF Advances
<1>6. CASE ~(y < Wanted)
  <2>1. TransfersLeft' = 1
    BY <1>1, <1>6, LeftIsNext DEF LeftRight
  <2>2. TransfersLeft > 1
    <3>1. CASE pc = "is4b"
      <4>1. PICK k \in Nat : k = LoopTerm(0) /\ k + 3 * e + 5 <= LoopTerm(w + 1)
        <5>1. 0 \in Nat /\ w + 1 \in Nat /\ 0 < w + 1
          BY <1>2
        <5> QED BY <1>2, <5>1, LoopTermFacts
      <4>2. PICK l \in Nat : l = LoopTerm(w + 1)
        BY <1>2, HeadNumbers
      <4>3. TransfersLeft = l + 1
        BY <1>2, <3>1, <4>2, LeftIs DEF LeftRight
      <4> QED BY <1>2, <4>1, <4>2, <4>3
    <3>2. CASE pc \in InBlock
      <4>1. PICK k \in Nat : k = LoopTerm(Wanted - x) /\ k >= 3 * e + 5
        BY <1>2, <3>2, PlaceNumbers
      <4>2. TransfersLeft > k
        BY <3>2, <4>1, BlockLeft
      <4> QED BY <1>2, <1>3, <4>1, <4>2
    <3> QED BY <3>1, <3>2
  <2> QED BY <2>1, <2>2 DEF Advances
<1> QED BY <1>5, <1>6

\* The program never goes back to a place in the image where it has been: for every
\* geometry and image a run that does not stay in spiWait ends after a number of
\* transfers that is known when it starts, whatever the chip does with each of them.
THEOREM WritesAdvance == Spec => WriteAdvances
<1>1. ASSUME IInv, [Next]_vars
      PROVE  [Running /\ <<pc, x, pos>>' # <<pc, x, pos>>
                => TransfersLeft' >= 0 /\ TransfersLeft' < TransfersLeft]_vars
  <2> SUFFICES ASSUME Next, Running, <<pc, x, pos>>' # <<pc, x, pos>> PROVE Advances
    BY <1>1 DEF Advances
  <2>1. CASE pc' \in Ended
    BY <1>1, <2>1, EndAdvances
  <2>2. CASE pc' \notin Ended
    <3>1. /\ \/ GotId \/ GotStatus \/ WriteDisabled \/ ModeSet \/ SetCtl \/ GotMode
             \/ Compared \/ EnabledErase \/ Erasing \/ ErasePoll
             \/ EnabledProgram \/ Programming \/ ProgramPoll
          /\ pc' \notin {"fatal", "done", "killed"}
      BY <2>2 DEF Next, Program, Start, Kill, ChipFinishes, ChipRejects, SendOpcode, SendAddress,
         SendData, ReadIn, ReadPanic, Verified, TimedOut, Dies, Fatal, frame, Ended
    <3>2. CASE GotId \/ GotStatus \/ WriteDisabled \/ ModeSet \/ SetCtl
      <4>1. <<pc, pc'>> \in HeadFollows /\ UNCHANGED job
        BY <3>1, <3>2 DEF GotId, GotStatus, WriteDisabled, ModeSet, SetCtl, AfterStatus, Moded,
           GotoKeeping, Goto, Deselected, Fatal, Dies, HeadFollows
      <4> QED BY <1>1, <4>1, HeadAdvances
    <3>3. CASE GotMode
      <4>1. LoopAt(0) /\ pc = "is4b" /\ UNCHANGED job
        BY <3>1, <3>3 DEF GotMode, Fatal, Dies, Deselected
      <4> QED BY <1>1, <4>1, LoopAdvances
    <3>4. CASE Compared
      <4>1. pc = "read" /\ UNCHANGED job /\ (LoopAt(x + EraseSize) \/ GotoKeeping("wren1"))
        BY <3>4 DEF Compared, Deselected
      <4>2. CASE LoopAt(x + EraseSize)
        BY <1>1, <4>1, <4>2, LoopAdvances DEF InBlock
      <4>3. CASE GotoKeeping("wren1")
        BY <1>1, <4>1, <4>3, BlockAdvances DEF GotoKeeping, Goto, BlockFollows
      <4> QED BY <4>1, <4>2, <4>3
    <3>5. CASE EnabledErase \/ Erasing \/ EnabledProgram \/ Programming
      <4>1. <<pc, pc'>> \in BlockFollows /\ UNCHANGED <<job, x, pos>>
        BY <3>5 DEF EnabledErase, Erasing, EnabledProgram, Programming, GotoKeeping, Goto,
           Deselected, BlockFollows
      <4> QED BY <1>1, <4>1, BlockAdvances
    <3>6. CASE ErasePoll
      <4>1. <<pc, pc'>> \in BlockFollows /\ UNCHANGED <<job, x, pos>>
        BY <3>6 DEF ErasePoll, GotoKeeping, Goto, Deselected, BlockFollows
      <4> QED BY <1>1, <4>1, BlockAdvances
    <3>7. CASE ProgramPoll
      <4>1. /\ pc = "pwait" /\ UNCHANGED job
            /\ \/ MorePages /\ pos' = pos + PageChunk /\ Goto("wren2") /\ x' = x
               \/ LoopAt(x + EraseSize)
        BY <3>7 DEF ProgramPoll, GotoKeeping, Goto, Deselected
      <4>2. CASE MorePages /\ pos' = pos + PageChunk /\ Goto("wren2") /\ x' = x
        BY <1>1, <4>1, <4>2, PageAdvances DEF Goto
      <4>3. CASE LoopAt(x + EraseSize)
        BY <1>1, <4>1, <4>3, LoopAdvances DEF InBlock
      <4> QED BY <4>1, <4>2, <4>3
    <3> QED BY <3>1, <3>2, <3>3, <3>4, <3>5, <3>6, <3>7
  <2> QED BY <2>1, <2>2
<1> QED BY <1>1, WriteInvariant, PTL DEF Spec, WriteAdvances
=============================================================================
