----------------------- MODULE SpiWriteClean_proofs -----------------------
(***************************************************************************)
(* What a run of "ast -spiwrite" can count on: one that finds the chip     *)
(* ready, with arguments in order and an image that fits, does not fail    *)
(* unless the chip refused an operation or stayed busy, whatever earlier   *)
(* runs have left in the flash; and the flash goes from the old contents   *)
(* to the image block by block, however often runs are killed: the         *)
(* refinement of BlockWrite.                                               *)
(***************************************************************************)
EXTENDS SpiWrite_proofs

-----------------------------------------------------------------------------
(* Blocks and pages                                                        *)

LEMMA DivUnique ==
  ASSUME NEW n \in Nat \ {0}, NEW k \in Int, NEW l \in Int,
         NEW m \in 0 .. n - 1, NEW o \in 0 .. n - 1, n * k + m = n * l + o
  PROVE  k = l
<1>1. m = o
  BY ModUnique
<1>2. n * (k - l) = 0
  BY <1>1
<1>3. CASE k - l >= 1
  <2>1. n * (k - l) >= n
    BY <1>3
  <2> QED BY <1>2, <2>1
<1>4. CASE k - l <= -1
  <2>1. n * (k - l) <= -n
    BY <1>4
  <2> QED BY <1>2, <2>1
<1> QED BY <1>3, <1>4

\* Numbers from a multiple on share its quotient as long as they are less than n away.
LEMMA QuotientOfSum ==
  ASSUME NEW n \in Nat \ {0}, NEW a \in Nat, NEW k \in Int, (a % n) + k \in 0 .. n - 1, a + k >= 0
  PROVE  (a + k) \div n = a \div n /\ (a + k) % n = (a % n) + k
<1> DEFINE q == a \div n
           r == a % n
           t == (a + k) \div n
           m == (a + k) % n
<1>1. a = n * q + r /\ q \in Int /\ r \in Int
  BY Division
<1>2. a + k = n * t + m /\ t \in Int /\ m \in 0 .. n - 1
  OBVIOUS
<1>3. n * t + m = n * q + (r + k) /\ r + k \in 0 .. n - 1
  <2>1. r + k \in 0 .. n - 1
    OBVIOUS
  <2> HIDE DEF q, r, t, m
  <2> QED BY <1>1, <1>2, <2>1
<1>4. t = q /\ m = r + k
  <2> HIDE DEF q, r, t, m
  <2> QED BY <1>1, <1>2, <1>3, ModUnique, DivUnique
<1> QED BY <1>4

\* An erase that is sent to the start of a block clears that block.
LEMMA BlockOf ==
  ASSUME NEW s \in Nat, s % EraseSize = 0, NEW j \in Nat
  PROVE  j \div EraseSize = s \div EraseSize <=> s <= j /\ j < s + EraseSize
<1> DEFINE E == EraseSize
           p == j \div E
           q == s \div E
           r == j % E
<1>1. E \in Nat \ {0}
  BY GeometryAssumption
<1>2. j = E * p + r /\ p \in Int /\ r \in 0 .. E - 1
  BY <1>1, Division
<1>3. s = E * q /\ q \in Int
  <2>1. s = E * q + 0 /\ q \in Int
    BY <1>1, Division
  <2> HIDE DEF q, E
  <2> QED BY <1>1, <2>1
<1>4. p = q => s <= j /\ j < s + E
  <2> HIDE DEF p, q, r, E
  <2> QED BY <1>1, <1>2, <1>3
<1>5. ASSUME s <= j, j < s + E PROVE p = q
  <2>1. (s + (j - s)) \div E = s \div E
    <3>1. (s % E) + (j - s) \in 0 .. E - 1 /\ j - s \in Int /\ s + (j - s) >= 0
      BY <1>1, <1>5
    <3> HIDE DEF E
    <3> QED BY <1>1, <3>1, QuotientOfSum
  <2>2. s + (j - s) = j
    OBVIOUS
  <2> QED BY <2>1, <2>2
<1> QED BY <1>4, <1>5

\* A block that starts on the chip lies on it.
LEMMA BlockOnChip ==
  ASSUME NEW s \in CellAddrs, s % EraseSize = 0
  PROVE  s + EraseSize <= FlashSize
<1> DEFINE E == EraseSize
           F == FlashSize
           a == s \div E
           b == F \div E
<1>1. E \in Nat \ {0} /\ F \in Nat \ {0} /\ F % E = 0 /\ s \in Nat /\ s < F
  BY GeometryAssumption DEF CellAddrs
<1>2. s = E * a + 0 /\ F = E * b + 0 /\ a \in Int /\ b \in Int
  BY <1>1, Division
<1> HIDE DEF E, F, a, b
<1>3. a < b
  <2> SUFFICES ASSUME a >= b PROVE FALSE
    BY <1>2
  <2>1. E * a >= E * b
    BY <1>1, <1>2
  <2> QED BY <1>1, <1>2, <2>1
<1>4. E * (a + 1) <= E * b
  BY <1>1, <1>2, <1>3
<1>5. E * (a + 1) = E * a + E
  BY <1>1, <1>2
<1> QED BY <1>1, <1>2, <1>4, <1>5 DEF E, F

LEMMA SmallMod == ASSUME NEW a \in CellAddrs PROVE a % FlashSize = a
<1>1. FlashSize \in Nat \ {0} /\ a \in 0 .. FlashSize - 1
  BY GeometryAssumption DEF CellAddrs
<1>2. a = FlashSize * 0 + a
  BY <1>1
<1>3. a = FlashSize * (a \div FlashSize) + (a % FlashSize)
      /\ a \div FlashSize \in Int /\ a % FlashSize \in 0 .. FlashSize - 1
  BY <1>1, Division
<1> QED BY <1>1, <1>2, <1>3, ModUnique
-----------------------------------------------------------------------------
(* The chip                                                                *)

\* What the end of a command does to a chip, besides what DeselectFacts says.
LEMMA DeselectDoes ==
  ASSUME NEW c \in Chips, NEW d \in Deselect(c)
  PROVE  /\ ~d.sel /\ ~d.junk /\ d.flags = c.flags
         /\ c.cmd \notin {"EN4B", "EX4B"} => d.mode4 = c.mode4
         /\ c.cmd \notin {"ERASE", "PP"} => d.op = c.op
         /\ ~Busy(c) /\ ~c.junk /\ c.cmd = "WREN" => d.wel
         /\ ~Busy(c) /\ ~c.junk /\ c.cmd = "EN4B" => d.mode4
         /\ ~Busy(c) /\ ~c.junk /\ c.cmd = "EX4B" => ~d.mode4
         /\ ~Busy(c) /\ ~c.junk /\ c.wel /\ c.cmd = "ERASE" => d.op = Operation(c, c.addr)
         /\ ~Busy(c) /\ c.wel /\ c.cmd = "PP" /\ c.addr # NoAddr => d.op = Operation(c, c.addr)
<1>1. /\ Quiet(c) \in Chips /\ ~Quiet(c).sel /\ ~Quiet(c).junk
      /\ Quiet(c).op = c.op /\ Quiet(c).mode4 = c.mode4 /\ Quiet(c).flags = c.flags
  <2>1. <<>> \in Seq(Cells) /\ NoAddr \in CellAddrs \cup {NoAddr}
    OBVIOUS
  <2> QED BY <2>1 DEF Chips, Quiet
<1>2. ASSUME NEW o
      PROVE  /\ ~[Quiet(c) EXCEPT !.op = o].sel /\ ~[Quiet(c) EXCEPT !.op = o].junk
             /\ [Quiet(c) EXCEPT !.op = o].mode4 = c.mode4
             /\ [Quiet(c) EXCEPT !.op = o].op = o /\ [Quiet(c) EXCEPT !.op = o].flags = c.flags
  BY <1>1 DEF Chips
<1>3. ASSUME NEW v
      PROVE  /\ ~[Quiet(c) EXCEPT !.wel = v].sel /\ ~[Quiet(c) EXCEPT !.wel = v].junk
             /\ [Quiet(c) EXCEPT !.wel = v].mode4 = c.mode4
             /\ [Quiet(c) EXCEPT !.wel = v].op = c.op
             /\ [Quiet(c) EXCEPT !.wel = v].wel = v /\ [Quiet(c) EXCEPT !.wel = v].flags = c.flags
             /\ ~[Quiet(c) EXCEPT !.mode4 = v].sel /\ ~[Quiet(c) EXCEPT !.mode4 = v].junk
             /\ [Quiet(c) EXCEPT !.mode4 = v].mode4 = v
             /\ [Quiet(c) EXCEPT !.mode4 = v].op = c.op
             /\ [Quiet(c) EXCEPT !.mode4 = v].flags = c.flags
  BY <1>1 DEF Chips
<1>4. CASE Busy(c)
  <2>1. d = Quiet(c)
    BY <1>4 DEF Deselect
  <2> QED BY <1>1, <1>4, <2>1
<1>5. CASE ~Busy(c) /\ c.cmd \in {"WREN", "WRDI"} /\ ~c.junk
  <2>1. d = [Quiet(c) EXCEPT !.wel = (c.cmd = "WREN")]
    BY <1>5 DEF Deselect
  <2> QED BY <1>3, <1>5, <2>1
<1>6. CASE ~Busy(c) /\ c.cmd \in {"EN4B", "EX4B"} /\ ~c.junk
  <2>1. d = [Quiet(c) EXCEPT !.mode4 = (c.cmd = "EN4B")]
    BY <1>6 DEF Deselect
  <2> QED BY <1>3, <1>6, <2>1
<1>7. CASE ~Busy(c) /\ c.cmd = "ERASE" /\ ~c.junk /\ c.wel
  <2>1. d = [Quiet(c) EXCEPT !.op = Operation(c, c.addr)]
    BY <1>7 DEF Deselect
  <2> QED BY <1>2, <1>7, <2>1
<1>8. CASE ~Busy(c) /\ c.cmd = "PP" /\ c.wel
  <2>1. PICK a \in IF c.addr = NoAddr THEN CellAddrs ELSE {c.addr} :
               d = [Quiet(c) EXCEPT !.op = Operation(c, a)]
    BY <1>8 DEF Deselect
  <2>2. c.addr # NoAddr => a = c.addr
    OBVIOUS
  <2> QED BY <1>2, <1>8, <2>1, <2>2
<1>9. CASE /\ ~Busy(c) /\ ~(c.cmd \in {"WREN", "WRDI", "EN4B", "EX4B"} /\ ~c.junk)
           /\ ~(c.cmd = "ERASE" /\ ~c.junk /\ c.wel) /\ ~(c.cmd = "PP" /\ c.wel)
  <2>1. d = Quiet(c)
    BY <1>9 DEF Deselect
  <2> QED BY <1>1, <1>9, <2>1
<1> QED BY <1>4, <1>5, <1>6, <1>7, <1>8, <1>9

LEMMA EraseOutcome ==
  ASSUME NEW f \in [CellAddrs -> Cells], NEW o \in Operations, NEW g \in Outcome(f, o),
         o.kind = "ERASE", o.addr % EraseSize = 0
  PROVE  \A i \in CellAddrs :
           g[i] = IF o.addr <= i /\ i < o.addr + EraseSize THEN Erased ELSE f[i]
<1>1. o.addr \in Nat
  BY GeometryAssumption DEF Operations, CellAddrs
<1>2. g = [i \in CellAddrs |-> IF i \in Block(o.addr) THEN Erased ELSE f[i]]
  BY DEF Outcome
<1>3. ASSUME NEW i \in CellAddrs
      PROVE  i \in Block(o.addr) <=> o.addr <= i /\ i < o.addr + EraseSize
  <2>1. i \in Nat
    BY GeometryAssumption DEF CellAddrs
  <2>2. i \div EraseSize = o.addr \div EraseSize <=> o.addr <= i /\ i < o.addr + EraseSize
    BY <1>1, <2>1, BlockOf
  <2> QED BY <2>2 DEF Block
<1> QED BY <1>2, <1>3

\* A program of no more than the rest of a page changes the cells it is sent to.
LEMMA ProgramOutcome ==
  ASSUME NEW f \in [CellAddrs -> Cells], NEW o \in Operations, NEW g \in Outcome(f, o),
         o.kind = "PP", ~o.junk, Len(o.data) <= PageSize - (o.addr % PageSize)
  PROVE  \A i \in CellAddrs :
           g[i] = IF o.addr <= i /\ i < o.addr + Len(o.data)
                    THEN f[i] \cap o.data[i - o.addr + 1] ELSE f[i]
<1> DEFINE a == o.addr
           n == Len(o.data)
           P == PageSize
<1>1. a \in Nat /\ n \in Nat /\ P \in Nat \ {0}
  BY GeometryAssumption DEF Operations, CellAddrs
<1>2. g = [i \in CellAddrs |-> IF i \in Page(a) /\ PageByte(o, i) <= n
                                 THEN f[i] \cap o.data[PageByte(o, i)] ELSE f[i]]
  BY DEF Outcome
<1>3. ASSUME NEW i \in CellAddrs
      PROVE  /\ i \in Page(a) /\ PageByte(o, i) <= n <=> a <= i /\ i < a + n
             /\ a <= i /\ i < a + n => PageByte(o, i) = i - a + 1
  <2>1. i \in Nat
    BY GeometryAssumption DEF CellAddrs
  <2>2. /\ a = P * (a \div P) + (a % P) /\ i = P * (i \div P) + (i % P)
        /\ a \div P \in Nat /\ i \div P \in Nat /\ a % P \in 0 .. P - 1 /\ i % P \in 0 .. P - 1
    BY <1>1, <2>1, Division
  <2>3. i \in Page(a) <=> i \div P = a \div P
    BY DEF Page
  <2>4. n <= P - (a % P)
    OBVIOUS
  <2>5. \A m \in 0 .. P - 1 : m % P = m
    <3> SUFFICES ASSUME NEW m \in 0 .. P - 1 PROVE m % P = m
      OBVIOUS
    <3> HIDE DEF P
    <3>1. m \in Nat /\ m = P * 0 + m
      BY ONLY <1>1
    <3>2. m = P * (m \div P) + (m % P) /\ m \div P \in Nat /\ m % P \in 0 .. P - 1
      BY ONLY <1>1, <3>1, Division
    <3> QED BY ONLY <1>1, <3>1, <3>2, ModUnique
  <2>6. ASSUME NEW r \in 0 .. P - 1 PROVE (r + P) % P = r
    <3> HIDE DEF P
    <3>1. r + P = P * 1 + r /\ r + P \in Nat
      BY ONLY <1>1, <2>6
    <3>2. r + P = P * ((r + P) \div P) + ((r + P) % P)
          /\ (r + P) \div P \in Nat /\ (r + P) % P \in 0 .. P - 1
      BY ONLY <1>1, <3>1, Division
    <3> QED BY ONLY <1>1, <2>6, <3>1, <3>2, ModUnique
  <2>7. ASSUME a <= i, i < a + n
        PROVE  i \div P = a \div P /\ PageByte(o, i) = i - a + 1
    <3>1. (a % P) + (i - a) \in 0 .. P - 1 /\ i - a \in 0 .. P - 1
      <4> HIDE DEF P, a, n
      <4> QED BY <1>1, <2>1, <2>2, <2>4, <2>7
    <3>2. (a + (i - a)) \div P = a \div P /\ a + (i - a) = i
      <4>1. i - a \in Int /\ a + (i - a) >= 0 /\ a + (i - a) = i
        BY <1>1, <2>1
      <4> HIDE DEF P, a, n
      <4> QED BY <1>1, <3>1, <4>1, QuotientOfSum
    <3>3. (i - a + P) % P = i - a
      BY <2>6, <3>1
    <3> QED BY <3>2, <3>3 DEF PageByte
  <2>8. ASSUME i \div P = a \div P, ~(a <= i /\ i < a + n)
        PROVE  PageByte(o, i) > n
    <3>1. i - a = (i % P) - (a % P)
      <4> HIDE DEF P, a, n
      <4> QED BY <1>1, <2>1, <2>2, <2>8
    <3>2. CASE i < a
      <4>1. i - a + P \in 0 .. P - 1 /\ i - a + P >= P - (a % P)
        <5> HIDE DEF P, a, n
        <5> QED BY <1>1, <2>1, <2>2, <3>1, <3>2
      <4>2. PageByte(o, i) = i - a + P + 1
        BY <2>5, <4>1 DEF PageByte
      <4> HIDE DEF P, a, n
      <4> QED BY <1>1, <2>1, <2>2, <2>4, <4>1, <4>2
    <3>3. CASE i >= a + n
      <4>1. i - a \in 0 .. P - 1 /\ i - a >= n
        <5> HIDE DEF P, a, n
        <5> QED BY <1>1, <2>1, <2>2, <3>1, <3>3
      <4>2. PageByte(o, i) = i - a + 1
        BY <2>6, <4>1 DEF PageByte
      <4> HIDE DEF P, a, n
      <4> QED BY <1>1, <2>1, <4>1, <4>2
    <3> HIDE DEF P, a, n
    <3> QED BY <1>1, <2>1, <2>8, <3>2, <3>3
  <2>9. PageByte(o, i) \in Int
    <3> HIDE DEF a
    <3>1. (i - a + P) % P \in Int
      BY <1>1, <2>1
    <3> QED BY <3>1 DEF PageByte, a
  <2> HIDE DEF P, a, n
  <2> QED BY <1>1, <2>1, <2>3, <2>7, <2>8, <2>9
<1> QED BY <1>2, <1>3
-----------------------------------------------------------------------------
(* Steps that end a transfer                                               *)

\* What follows after which transfer, where the invariant depends on it.
Follows(t) ==
  /\ io' = "idle" /\ pc' \notin {"rdid", "panic"}
  /\ pc' = "erase" => t = "wren1"
  /\ pc' = "prog" => t = "wren2"
  /\ pc' = "stat" => t = "rdid"
  /\ pc' = "wrdi" => t = "stat"
  /\ pc' = "is4b" => t \in {"stat", "wrdi"} /\ spimode = 0
  /\ pc' = "mode4" => spimode = 4
  /\ pc' = "mode3" => spimode = 3
  /\ pc' = "setctl" => t \in {"mode4", "mode3"}

\* The chip when a transfer ends: it got the command of the transfer and no more.
LEMMA HeardRight ==
  ASSUME IInv, CInv, NEW t \in Transfers, Deselected(t), t # "rdid" \/ cleanStart
  PROVE  /\ pc = t /\ io = "desel" /\ chip \in Chips /\ chip' \in Deselect(chip)
         /\ chip.cmd = CommandOf[t] /\ ~chip.junk
         /\ t \in Settled => ~Busy(chip)
         /\ UNCHANGED <<flash, ctl4, spimode, job, flash0, cleanStart>>
<1>1. /\ pc = t /\ io = "desel" /\ chip \in Chips /\ chip' \in Deselect(chip)
      /\ UNCHANGED <<flash, ctl4, spimode, job, flash0, cleanStart>>
  BY DEF Deselected, IInv, TypeOK
<1>2. Running
  BY <1>1 DEF Running, Transfers, CommandOf, Ended
<1>3. t \in Settled => ~Busy(chip)
  BY <1>1 DEF IInv, BusyInv
<1>4. CASE t # "rdid"
  BY <1>1, <1>2, <1>3, <1>4 DEF IInv, BusInv, CInv, ReadyInv
<1>5. CASE t = "rdid" /\ cleanStart
  BY <1>1, <1>3, <1>5 DEF CInv, ReadyInv, CommandOf
<1> QED BY <1>4, <1>5

LEMMA EndingKeeps ==
  ASSUME IInv, CInv, NEW t \in Transfers, Deselected(t), Follows(t)
  PROVE  ReadyInv' /\ ModeInv' /\ CommandInv'
<1>1. /\ pc = t /\ io = "desel" /\ chip \in Chips /\ chip' \in Deselect(chip) /\ io' = "idle"
      /\ UNCHANGED <<ctl4, spimode, job, cleanStart>>
  BY DEF Deselected, IInv, TypeOK, Follows
<1>2. ~chip'.sel /\ ~chip'.junk
  BY <1>1, DeselectDoes
<1>3. ASSUME t # "rdid" \/ cleanStart
      PROVE  chip.cmd = CommandOf[t] /\ ~chip.junk /\ (t \in Settled => ~Busy(chip))
  BY <1>3, HeardRight
<1>4. ASSUME pc' \in {"erase", "prog"} PROVE chip'.wel
  <2>1. t \in {"wren1", "wren2"}
    BY <1>4 DEF Follows
  <2>2. chip.cmd = "WREN" /\ ~chip.junk /\ ~Busy(chip)
    BY <1>3, <2>1 DEF CommandOf, Settled
  <2> QED BY <1>1, <2>2, DeselectDoes
<1>5. ASSUME cleanStart, pc' = "stat" PROVE ~Busy(chip)' /\ ~chip'.flags
  <2>1. t = "rdid" /\ chip.cmd = "RDID" /\ ~Busy(chip) /\ ~chip.flags
    BY <1>1, <1>3, <1>5 DEF Follows, CommandOf, CInv, ReadyInv
  <2>2. chip'.op = chip.op /\ chip'.flags = chip.flags
    BY <1>1, <2>1, DeselectDoes
  <2> QED BY <2>1, <2>2 DEF Busy
<1>6. ReadyInv'
  BY <1>1, <1>2, <1>4, <1>5 DEF ReadyInv, Follows
<1>7. ASSUME pc' = "setctl" PROVE chip'.mode4 = (spimode = 4)
  <2>1. t \in {"mode4", "mode3"}
    BY <1>7 DEF Follows
  <2>2. chip'.mode4 \in BOOLEAN
    BY <1>1, DeselectedChip DEF Chips
  <2>3. CASE t = "mode4"
    <3>1. chip.cmd = "EN4B" /\ ~chip.junk /\ ~Busy(chip) /\ spimode = 4
      BY <1>1, <1>3, <2>3 DEF CommandOf, Settled, CInv, ModeInv
    <3>2. chip'.mode4
      BY <1>1, <3>1, DeselectDoes
    <3> QED BY <2>2, <3>1, <3>2
  <2>4. CASE t = "mode3"
    <3>1. chip.cmd = "EX4B" /\ ~chip.junk /\ ~Busy(chip) /\ spimode = 3
      BY <1>1, <1>3, <2>4 DEF CommandOf, Settled, CInv, ModeInv
    <3>2. ~chip'.mode4
      BY <1>1, <3>1, DeselectDoes
    <3>3. (spimode = 4) = FALSE
      BY <3>1
    <3> QED BY <2>2, <3>2, <3>3
  <2> QED BY <2>1, <2>3, <2>4
<1>8. ASSUME cleanStart, spimode = 0, pc' \in {"rdid", "stat", "wrdi", "is4b"}
      PROVE  chip'.mode4 = ctl4
  <2>1. t \in {"rdid", "stat", "wrdi"}
    BY <1>8 DEF Follows
  <2>2. chip.cmd \in {"RDID", "RDSR", "WRDI"} /\ chip.mode4 = ctl4
    BY <1>1, <1>3, <1>8, <2>1 DEF CommandOf, CInv, ModeInv
  <2> QED BY <1>1, <2>2, DeselectDoes
<1>9. ModeInv'
  BY <1>1, <1>7, <1>8 DEF ModeInv, Follows
<1>10. CommandInv'
  BY <1>1 DEF CommandInv
<1> QED BY <1>6, <1>9, <1>10

LEMMA AfterStatusFollows ==
  ASSUME IInv, NEW t \in {"stat", "wrdi"}, Deselected(t), AfterStatus
  PROVE  Follows(t)
<1>1. spimode \in SpiModes
  BY DEF IInv, TypeOK
<1>2. io' = "idle" /\ pc' \in {Moded, "fatal"}
  BY DEF AfterStatus, GotoKeeping, Goto, Fatal, Dies
<1>3. spimode # 5 \/ pc' = "fatal"
  BY <1>1 DEF AfterStatus, ModeRefused, GotoKeeping, Goto, Fatal, Dies
<1> QED BY <1>1, <1>2, <1>3 DEF SpiModes, Moded, Follows

Endings ==
  \/ GotId \/ GotStatus \/ WriteDisabled \/ ModeSet \/ GotMode
  \/ Compared \/ EnabledErase \/ Erasing \/ ErasePoll
  \/ EnabledProgram \/ Programming \/ ProgramPoll \/ Verified
  \/ \E t \in Polls : TimedOut(t)

LEMMA EndingsFollow ==
  ASSUME IInv, Endings
  PROVE  \E t \in Transfers : Deselected(t) /\ Follows(t)
<1> USE DEF Goto, GotoKeeping, Fatal, Dies, LoopAt
<1>1. ASSUME NEW t \in {"rdid", "stat", "wrdi", "mode4", "mode3", "is4b", "read", "wren1",
                        "erase", "ewait", "wren2", "prog", "pwait", "verify"}
      PROVE  t \in Transfers
  BY <1>1 DEF Transfers, CommandOf
<1>2. CASE GotId
  <2>1. Deselected("rdid") /\ Follows("rdid")
    BY <1>2 DEF GotId, Follows
  <2> QED BY <1>1, <2>1
<1>3. CASE GotStatus
  <2>1. Deselected("stat") /\ Follows("stat")
    BY <1>3, AfterStatusFollows DEF GotStatus, Follows
  <2> QED BY <1>1, <2>1
<1>4. CASE WriteDisabled
  <2>1. Deselected("wrdi") /\ Follows("wrdi")
    BY <1>4, AfterStatusFollows DEF WriteDisabled
  <2> QED BY <1>1, <2>1
<1>5. CASE ModeSet
  <2>1. PICK t \in {"mode4", "mode3"} : Deselected(t)
    BY <1>5 DEF ModeSet
  <2>2. Follows(t)
    BY <1>5 DEF ModeSet, Follows
  <2> QED BY <1>1, <2>1, <2>2
<1>6. CASE GotMode
  <2>1. Deselected("is4b") /\ Follows("is4b")
    BY <1>6 DEF GotMode, Follows
  <2> QED BY <1>1, <2>1
<1>7. CASE Compared
  <2>1. Deselected("read") /\ Follows("read")
    BY <1>7 DEF Compared, Follows
  <2> QED BY <1>1, <2>1
<1>8. CASE EnabledErase
  <2>1. Deselected("wren1") /\ Follows("wren1")
    BY <1>8 DEF EnabledErase, Follows
  <2> QED BY <1>1, <2>1
<1>9. CASE Erasing
  <2>1. Deselected("erase") /\ Follows("erase")
    BY <1>9 DEF Erasing, Follows
  <2> QED BY <1>1, <2>1
<1>10. CASE ErasePoll
  <2>1. Deselected("ewait") /\ Follows("ewait")
    BY <1>10 DEF ErasePoll, Follows
  <2> QED BY <1>1, <2>1
<1>11. CASE EnabledProgram
  <2>1. Deselected("wren2") /\ Follows("wren2")
    BY <1>11 DEF EnabledProgram, Follows
  <2> QED BY <1>1, <2>1
<1>12. CASE Programming
  <2>1. Deselected("prog") /\ Follows("prog")
    BY <1>12 DEF Programming, Follows
  <2> QED BY <1>1, <2>1
<1>13. CASE ProgramPoll
  <2>1. Deselected("pwait") /\ Follows("pwait")
    BY <1>13 DEF ProgramPoll, Follows
  <2> QED BY <1>1, <2>1
<1>14. CASE Verified
  <2>1. Deselected("verify") /\ Follows("verify")
    BY <1>14 DEF Verified, Follows
  <2> QED BY <1>1, <2>1
<1>15. ASSUME NEW t \in Polls, TimedOut(t) PROVE t \in Transfers /\ Deselected(t) /\ Follows(t)
  BY <1>1, <1>15 DEF TimedOut, Follows, Polls
<1> QED
  BY <1>2, <1>3, <1>4, <1>5, <1>6, <1>7, <1>8, <1>9, <1>10, <1>11, <1>12, <1>13, <1>14,
     <1>15 DEF Endings
-----------------------------------------------------------------------------
(* The contents of the flash                                               *)

Fits == job.off + Wanted <= FlashSize

LEMMA NoContent ==
  ASSUME pc \notin InBlock \cup {"verify"}
  PROVE  ContentInv
BY DEF ContentInv, InBlock

\* Steps inside a transfer leave the flash and what goes on in the chip alone.
LEMMA ContentKept ==
  ASSUME CInv, UNCHANGED <<flash, pc, x, pos, job, excused>>, chip'.op = chip.op
  PROVE  ContentInv'
<1>1. Wanted' = Wanted /\ Chunk' = Chunk /\ Sector' = Sector /\ PageChunk' = PageChunk
  BY DEF Wanted, Chunk, Sector, PageChunk
<1>2. \A n : (WrittenUpTo(n) => WrittenUpTo(n)') /\ (BlockUpTo(n) => BlockUpTo(n)')
  BY <1>1 DEF WrittenUpTo, BlockUpTo
<1>3. Image(x + pos, PageChunk)' = Image(x + pos, PageChunk)
  BY <1>1 DEF Image
<1>4. Busy(chip)' <=> Busy(chip)
  BY DEF Busy
<1>5. pc \in InBlock \cup {"verify"} => job.off % EraseSize = 0 /\ x % EraseSize = 0
  BY DEF CInv, ContentInv
<1>6. /\ pc = "verify" => x >= Wanted
      /\ pc \in {"read", "wren1", "erase", "ewait"} => pos = 0
  BY DEF CInv, ContentInv
<1>7. ASSUME ~excused, job.off + Wanted <= FlashSize
      PROVE  /\ pc \in InBlock \cup {"verify"} => WrittenUpTo(x)'
             /\ pc = "ewait" => IF Busy(chip)
                                  THEN /\ chip.op.kind = "ERASE" /\ chip.op.addr = Sector
                                  ELSE BlockUpTo(0)'
             /\ pc \in {"wren2", "prog"} => BlockUpTo(pos)'
             /\ pc = "pwait" => IF Busy(chip)
                                  THEN /\ chip.op.kind = "PP" /\ chip.op.addr = Sector + pos
                                       /\ chip.op.data = Image(x + pos, PageChunk) /\ ~chip.op.junk
                                       /\ BlockUpTo(pos)'
                                  ELSE BlockUpTo(pos + PageChunk)'
  <2>1. x' = x /\ pos' = pos
    OBVIOUS
  <2>2. /\ pc \in InBlock \cup {"verify"} => WrittenUpTo(x)
        /\ pc = "ewait" => IF Busy(chip)
                             THEN /\ chip.op.kind = "ERASE" /\ chip.op.addr = Sector
                             ELSE BlockUpTo(0)
        /\ pc \in {"wren2", "prog"} => BlockUpTo(pos)
        /\ pc = "pwait" => IF Busy(chip)
                             THEN /\ chip.op.kind = "PP" /\ chip.op.addr = Sector + pos
                                  /\ chip.op.data = Image(x + pos, PageChunk) /\ ~chip.op.junk
                                  /\ BlockUpTo(pos)
                             ELSE BlockUpTo(pos + PageChunk)
    BY <1>7 DEF CInv, ContentInv
  <2> QED BY <1>1, <1>2, <2>1, <2>2 DEF WrittenUpTo, BlockUpTo
<1> QED BY <1>1, <1>3, <1>4, <1>5, <1>6, <1>7 DEF ContentInv

\* Where the loop is: a block of the chip and a piece of the image.
LEMMA BlockFacts ==
  ASSUME IInv, ContentInv, pc \in InBlock
  PROVE  /\ x \in Nat /\ pos \in Nat /\ job.off \in Nat /\ Wanted \in Nat /\ EraseSize \in Nat \ {0}
         /\ Chunk \in 1 .. EraseSize /\ x + Chunk <= Wanted /\ x < Wanted /\ pos < Chunk
         /\ Chunk = EraseSize \/ x + Chunk = Wanted
         /\ PageChunk \in Nat \ {0} /\ pos + PageChunk <= Chunk
         /\ Sector = job.off + x /\ Sector % EraseSize = 0 /\ (x + EraseSize) % EraseSize = 0
         /\ Fits => /\ Sector \in CellAddrs /\ Sector + EraseSize <= FlashSize
                    /\ \A i \in 1 .. Wanted : job.off + i - 1 \in CellAddrs
                    /\ \A i \in 1 .. EraseSize : Sector + i - 1 \in CellAddrs
<1>1. /\ x \in Nat /\ pos \in Nat /\ job.off \in Nat /\ Wanted \in Nat /\ job \in Jobs
      /\ EraseSize \in Nat \ {0} /\ FlashSize \in Nat \ {0} /\ x < Wanted /\ pos < Chunk
  BY WantedNat, GeometryAssumption DEF IInv, TypeOK, LoopInv
<1>2. Chunk \in 1 .. EraseSize /\ x + Chunk <= Wanted
  BY <1>1, ChunkFacts
<1>3. PageChunk \in Nat \ {0} /\ pos + PageChunk <= Chunk
  BY <1>1, PageChunkFacts
<1>4. Chunk = EraseSize \/ x + Chunk = Wanted
  <2> HIDE DEF Wanted
  <2> QED BY <1>1 DEF Chunk, Smaller
<1>5. job.off % EraseSize = 0 /\ x % EraseSize = 0
  BY DEF ContentInv
<1>6. Sector % EraseSize = 0 /\ (x + EraseSize) % EraseSize = 0
  <2>1. x \in Int /\ job.off \in Int /\ EraseSize \in Int
    BY <1>1
  <2> QED BY <1>5, <2>1, MultipleSum, Multiples DEF Sector
<1>7. ASSUME Fits
      PROVE  /\ Sector \in CellAddrs /\ Sector + EraseSize <= FlashSize
             /\ \A i \in 1 .. Wanted : job.off + i - 1 \in CellAddrs
             /\ \A i \in 1 .. EraseSize : Sector + i - 1 \in CellAddrs
  <2> HIDE DEF Wanted
  <2>1. Sector \in CellAddrs /\ Sector \in Nat
    BY <1>1, <1>7 DEF Fits, Sector, CellAddrs
  <2>2. Sector + EraseSize <= FlashSize
    BY <1>6, <2>1, BlockOnChip
  <2>3. \A i \in 1 .. Wanted : job.off + i - 1 \in CellAddrs
    BY <1>1, <1>7 DEF Fits, CellAddrs
  <2>4. \A i \in 1 .. EraseSize : Sector + i - 1 \in CellAddrs
    BY <1>1, <2>1, <2>2 DEF CellAddrs
  <2> QED BY <2>1, <2>2, <2>3, <2>4
<1> QED BY <1>1, <1>2, <1>3, <1>4, <1>6, <1>7 DEF Sector

\* A block that holds its piece of the image completes the image up to its end.
LEMMA BlockWritten ==
  ASSUME IInv, ContentInv, pc \in InBlock, WrittenUpTo(x),
         \A i \in 1 .. Chunk : flash[Sector + i - 1] = job.buf[x + i]
  PROVE  WrittenUpTo(x + EraseSize)
<1>1. /\ x \in Nat /\ job.off \in Nat /\ Wanted \in Nat /\ EraseSize \in Nat \ {0}
      /\ Chunk \in 1 .. EraseSize /\ (Chunk = EraseSize \/ x + Chunk = Wanted)
      /\ Sector = job.off + x
  BY BlockFacts
<1> SUFFICES ASSUME NEW i \in 1 .. Wanted, i <= x + EraseSize
             PROVE  flash[job.off + i - 1] = job.buf[i]
  BY DEF WrittenUpTo
<1>2. CASE i <= x
  BY <1>2 DEF WrittenUpTo
<1>3. CASE i > x
  <2>1. i - x \in 1 .. Chunk /\ Sector + (i - x) - 1 = job.off + i - 1 /\ x + (i - x) = i
    <3> HIDE DEF Wanted, Chunk, Sector
    <3> QED BY <1>1, <1>3
  <2>2. flash[Sector + (i - x) - 1] = job.buf[x + (i - x)]
    BY <2>1
  <2> QED BY <2>1, <2>2
<1> HIDE DEF Wanted
<1> QED BY <1>1, <1>2, <1>3

\* The comparison tells whether the block holds its piece of the image.
LEMMA ReadRight ==
  ASSUME IInv, CInv, pc = "read", io = "desel", Fits
  PROVE  SameBlock <=> \A i \in 1 .. Chunk : flash[Sector + i - 1] = job.buf[x + i]
<1>1. /\ pc \in InBlock /\ job \in Jobs /\ flash \in [CellAddrs -> Cells] /\ ContentInv
      /\ job.len <= Len(job.buf)
  BY DEF InBlock, IInv, TypeOK, LoopInv, Running, Ended, CInv
<1>2. /\ x \in Nat /\ EraseSize \in Nat \ {0} /\ Chunk \in 1 .. EraseSize /\ x + Chunk <= Wanted
      /\ Sector \in CellAddrs /\ Wanted \in Nat
      /\ \A i \in 1 .. EraseSize : Sector + i - 1 \in CellAddrs
  BY <1>1, BlockFacts
<1>3. rbuf.cells = Flash(Sector, Chunk)
  BY <1>2, SmallMod DEF CInv, CommandInv
<1>4. x + Chunk <= Len(job.buf)
  <2>1. Wanted <= Len(job.buf) /\ Len(job.buf) \in Nat
    BY <1>1, WantedFits, WantedNat DEF Images
  <2> HIDE DEF Wanted, Chunk
  <2> QED BY <1>2, <2>1
<1>5. Sector \in Int /\ Chunk \in Nat
  BY <1>2 DEF CellAddrs
<1>6. /\ Image(x, Chunk) \in Seq(Cells) /\ Len(Image(x, Chunk)) = Chunk
      /\ \A i \in 1 .. Chunk : Image(x, Chunk)[i] = job.buf[x + i]
  BY <1>1, <1>2, <1>4, <1>5, ImagePiece DEF Images
<1>7. /\ Flash(Sector, Chunk) \in Seq(Cells) /\ Len(Flash(Sector, Chunk)) = Chunk
      /\ \A i \in 1 .. Chunk : Flash(Sector, Chunk)[i] = flash[(Sector + i - 1) % FlashSize]
  BY <1>1, <1>5, FlashPiece DEF Images
<1>8. ASSUME NEW i \in 1 .. Chunk PROVE Flash(Sector, Chunk)[i] = flash[Sector + i - 1]
  <2>1. i \in 1 .. EraseSize
    BY <1>2
  <2>2. (Sector + i - 1) % FlashSize = Sector + i - 1
    BY <1>2, <2>1, SmallMod
  <2> QED BY <1>7, <2>2
<1>9. Flash(Sector, Chunk) = Image(x, Chunk) <=>
        \A i \in 1 .. Chunk : Flash(Sector, Chunk)[i] = Image(x, Chunk)[i]
  <2> HIDE DEF Chunk
  <2> QED BY <1>6, <1>7, SeqEqual
<1> QED BY <1>3, <1>6, <1>8, <1>9 DEF SameBlock

\* The loop goes on with what was written before.
LEMMA LoopContent ==
  ASSUME IInv, NEW t \in Transfers, Deselected(t), NEW y \in Nat, LoopAt(y),
         UNCHANGED excused, job.off % EraseSize = 0, y % EraseSize = 0,
         ~excused /\ Fits => WrittenUpTo(y)
  PROVE  ContentInv'
<1>1. /\ x' = y /\ pos' = 0 /\ pc' = (IF y < Wanted THEN "read" ELSE "verify")
      /\ UNCHANGED <<flash, job, excused>> /\ Wanted' = Wanted /\ Wanted \in Nat
  BY WantedNat DEF LoopAt, Goto, Deselected, Wanted, IInv, TypeOK
<1>2. pc' = "verify" => x' >= Wanted'
  <2> HIDE DEF Wanted
  <2> QED BY <1>1
<1>3. ~excused /\ Fits => WrittenUpTo(x)'
  BY <1>1 DEF WrittenUpTo
<1> QED BY <1>1, <1>2, <1>3 DEF ContentInv, Fits

LEMMA NoContentNext ==
  ASSUME pc' \notin InBlock \cup {"verify"}
  PROVE  ContentInv'
BY DEF ContentInv, InBlock

\* What the parts of ContentInv say stays true while nothing they speak of changes.
LEMMA PiecesKept ==
  ASSUME UNCHANGED <<flash, x, pos, job, excused>>
  PROVE  /\ Wanted' = Wanted /\ Chunk' = Chunk /\ Sector' = Sector /\ PageChunk' = PageChunk
         /\ Fits' <=> Fits
         /\ WrittenUpTo(x) => WrittenUpTo(x)'
         /\ BlockUpTo(0) => BlockUpTo(0)'
         /\ BlockUpTo(pos) => BlockUpTo(pos)'
         /\ BlockUpTo(pos + PageChunk) => BlockUpTo(pos + PageChunk)'
         /\ Image(x + pos, PageChunk)' = Image(x + pos, PageChunk)
<1>1. Wanted' = Wanted /\ Chunk' = Chunk /\ Sector' = Sector /\ PageChunk' = PageChunk
  BY DEF Wanted, Chunk, Sector, PageChunk
<1>2. WrittenUpTo(x) => WrittenUpTo(x)'
  BY <1>1 DEF WrittenUpTo
<1>3. /\ BlockUpTo(0) => BlockUpTo(0)'
      /\ BlockUpTo(pos) => BlockUpTo(pos)'
      /\ BlockUpTo(pos + PageChunk) => BlockUpTo(pos + PageChunk)'
  BY <1>1 DEF BlockUpTo
<1>4. Image(x + pos, PageChunk)' = Image(x + pos, PageChunk)
  BY <1>1 DEF Image
<1>5. Fits' <=> Fits
  BY <1>1 DEF Fits
<1> QED BY <1>1, <1>2, <1>3, <1>4, <1>5

LEMMA GotModeContent == ASSUME IInv, CInv, GotMode PROVE ContentInv'
<1>1. CASE Fatal
  BY <1>1, NoContentNext DEF Fatal, Dies, InBlock
<1>2. CASE job.off % EraseSize = 0 /\ LoopAt(0)
  <2>1. "is4b" \in Transfers /\ Deselected("is4b") /\ UNCHANGED excused
    BY DEF Transfers, CommandOf, GotMode
  <2>2. WrittenUpTo(0)
    BY DEF WrittenUpTo
  <2>3. 0 \in Nat /\ 0 % EraseSize = 0
    BY Multiples
  <2> QED BY <1>2, <2>1, <2>2, <2>3, LoopContent
<1> QED BY <1>1, <1>2 DEF GotMode

LEMMA ComparedContent == ASSUME IInv, CInv, Compared PROVE ContentInv'
<1>1. /\ pc = "read" /\ io = "desel" /\ "read" \in Transfers /\ Deselected("read")
      /\ UNCHANGED <<flash, job>> /\ pc \in InBlock /\ job \in Jobs
      /\ flash \in [CellAddrs -> Cells]
  BY DEF Compared, Deselected, Transfers, CommandOf, InBlock, IInv, TypeOK
<1>2. ContentInv /\ job.off % EraseSize = 0 /\ x % EraseSize = 0 /\ pos = 0
      /\ (~excused /\ Fits => WrittenUpTo(x))
  BY <1>1 DEF CInv, ContentInv, InBlock, Fits
<1>3. /\ x \in Nat /\ EraseSize \in Nat \ {0} /\ Chunk \in 1 .. EraseSize /\ x + Chunk <= Wanted
      /\ (x + EraseSize) % EraseSize = 0 /\ Wanted \in Nat
      /\ Fits => /\ Sector \in CellAddrs
                 /\ \A i \in 1 .. EraseSize : Sector + i - 1 \in CellAddrs
  BY <1>1, <1>2, BlockFacts
<1>4. CASE SameBlock /\ LoopAt(x + EraseSize) /\ UNCHANGED excused
  <2>1. ASSUME ~excused, Fits PROVE WrittenUpTo(x + EraseSize)
    <3>1. \A i \in 1 .. Chunk : flash[Sector + i - 1] = job.buf[x + i]
      BY <1>1, <1>4, <2>1, ReadRight
    <3> QED BY <1>1, <1>2, <2>1, <3>1, BlockWritten
  <2>2. x + EraseSize \in Nat
    BY <1>3
  <2> QED BY <1>1, <1>2, <1>3, <1>4, <2>1, <2>2, LoopContent
<1>5. CASE GotoKeeping("wren1")
  <2>1. pc' = "wren1" /\ UNCHANGED <<flash, x, pos, job, excused>>
    BY <1>1, <1>5 DEF GotoKeeping, Goto
  <2>2. (Fits' <=> Fits) /\ (WrittenUpTo(x) => WrittenUpTo(x)')
    BY <2>1, PiecesKept
  <2> QED BY <1>2, <2>1, <2>2 DEF ContentInv, Fits
<1> QED BY <1>4, <1>5 DEF Compared

LEMMA EnabledContent == ASSUME IInv, CInv, EnabledErase \/ EnabledProgram PROVE ContentInv'
<1>1. /\ UNCHANGED <<flash, x, pos, job, excused>>
      /\ \/ pc = "wren1" /\ pc' = "erase"
         \/ pc = "wren2" /\ pc' = "prog"
  BY DEF EnabledErase, EnabledProgram, Deselected, GotoKeeping, Goto
<1>2. (Fits' <=> Fits) /\ (WrittenUpTo(x) => WrittenUpTo(x)') /\ (BlockUpTo(pos) => BlockUpTo(pos)')
  BY <1>1, PiecesKept
<1>3. job.off % EraseSize = 0 /\ x % EraseSize = 0 /\ (pc' = "erase" => pos = 0)
  BY <1>1 DEF CInv, ContentInv, InBlock
<1>4. ASSUME ~excused, Fits PROVE WrittenUpTo(x) /\ (pc' = "prog" => BlockUpTo(pos))
  BY <1>1, <1>4 DEF CInv, ContentInv, InBlock, Fits
<1> QED BY <1>1, <1>2, <1>3, <1>4 DEF ContentInv, Fits

LEMMA BusyKind == ASSUME NEW o, o.kind \in {"ERASE", "PP"} PROVE o # NoOperation
BY DEF NoOperation

\* The erase and the program that a transfer starts are the ones it was for.
LEMMA ErasingContent == ASSUME IInv, CInv, Erasing PROVE ContentInv'
<1>1. /\ UNCHANGED <<flash, x, pos, job, excused>> /\ pc = "erase" /\ pc' = "ewait"
      /\ io = "desel" /\ Deselected("erase") /\ "erase" \in Transfers
      /\ pc \in InBlock /\ "erase" \in Settled
  BY DEF Erasing, Deselected, GotoKeeping, Goto, Transfers, CommandOf, InBlock, Settled
<1>2. /\ (Fits' <=> Fits) /\ (WrittenUpTo(x) => WrittenUpTo(x)') /\ Sector' = Sector
  BY <1>1, PiecesKept
<1>3. ContentInv /\ job.off % EraseSize = 0 /\ x % EraseSize = 0 /\ pos = 0
  BY <1>1 DEF CInv, ContentInv, InBlock
<1>4. ASSUME ~excused, Fits PROVE WrittenUpTo(x)
  BY <1>1, <1>4 DEF CInv, ContentInv, Fits
<1>5. ASSUME Fits PROVE Busy(chip)' /\ chip'.op.kind = "ERASE" /\ chip'.op.addr = Sector
  <2>1. /\ chip \in Chips /\ chip' \in Deselect(chip) /\ chip.cmd = "ERASE" /\ ~chip.junk
        /\ ~Busy(chip)
    BY <1>1, HeardRight DEF CommandOf
  <2>2. chip.wel /\ chip.addr = Sector
    BY <1>1, <1>3, <1>5, BlockFacts, SmallMod DEF CInv, ReadyInv, CommandInv
  <2>3. chip'.op = Operation(chip, Sector)
    BY <2>1, <2>2, DeselectDoes
  <2>4. chip'.op.kind = "ERASE" /\ chip'.op.addr = Sector
    BY <2>1, <2>3 DEF Operation
  <2> QED BY <2>4, BusyKind DEF Busy
<1> QED BY <1>1, <1>2, <1>3, <1>4, <1>5 DEF ContentInv, Fits

LEMMA ProgrammingContent == ASSUME IInv, CInv, Programming PROVE ContentInv'
<1>1. /\ UNCHANGED <<flash, x, pos, job, excused>> /\ pc = "prog" /\ pc' = "pwait"
      /\ io = "desel" /\ Deselected("prog") /\ "prog" \in Transfers
      /\ pc \in InBlock /\ "prog" \in Settled
  BY DEF Programming, Deselected, GotoKeeping, Goto, Transfers, CommandOf, InBlock, Settled
<1>2. /\ (Fits' <=> Fits) /\ (WrittenUpTo(x) => WrittenUpTo(x)') /\ Sector' = Sector
      /\ (BlockUpTo(pos) => BlockUpTo(pos)')
      /\ Image(x + pos, PageChunk)' = Image(x + pos, PageChunk)
  BY <1>1, PiecesKept
<1>3. ContentInv /\ job.off % EraseSize = 0 /\ x % EraseSize = 0
  BY <1>1 DEF CInv, ContentInv
<1>4. ASSUME ~excused, Fits PROVE WrittenUpTo(x) /\ BlockUpTo(pos)
  BY <1>1, <1>4 DEF CInv, ContentInv, Fits
<1>5. ASSUME Fits
      PROVE  /\ Busy(chip)' /\ chip'.op.kind = "PP" /\ chip'.op.addr = Sector + pos
             /\ chip'.op.data = Image(x + pos, PageChunk) /\ ~chip'.op.junk
  <2>1. /\ chip \in Chips /\ chip' \in Deselect(chip) /\ chip.cmd = "PP" /\ ~chip.junk
        /\ ~Busy(chip)
    BY <1>1, HeardRight DEF CommandOf
  <2>2. Sector + pos \in CellAddrs /\ Sector + pos # NoAddr
    <3>1. /\ pos \in Nat /\ pos < Chunk /\ Chunk \in 1 .. EraseSize /\ Sector \in CellAddrs
          /\ EraseSize \in Nat \ {0}
          /\ \A i \in 1 .. EraseSize : Sector + i - 1 \in CellAddrs
      BY <1>1, <1>3, <1>5, BlockFacts
    <3>2. pos + 1 \in 1 .. EraseSize
      <4> HIDE DEF Chunk
      <4> QED BY <3>1
    <3>3. Sector + (pos + 1) - 1 \in CellAddrs
      BY <3>1, <3>2
    <3>4. Sector + (pos + 1) - 1 = Sector + pos
      BY <3>1 DEF CellAddrs
    <3>5. Sector + pos \in CellAddrs
      BY <3>3, <3>4
    <3> HIDE DEF Sector
    <3> QED BY <3>5, GeometryAssumption DEF CellAddrs, NoAddr
  <2>3. /\ chip.wel /\ chip.addr = Sector + pos
        /\ chip.data = Image(x + pos, PageChunk)
    BY <1>1, <2>2, SmallMod DEF CInv, ReadyInv, CommandInv
  <2>4. chip'.op = Operation(chip, Sector + pos)
    BY <2>1, <2>2, <2>3, DeselectDoes
  <2>5. /\ chip'.op.kind = "PP" /\ chip'.op.addr = Sector + pos
        /\ chip'.op.data = Image(x + pos, PageChunk) /\ ~chip'.op.junk
    BY <2>1, <2>3, <2>4 DEF Operation
  <2> QED BY <2>5, BusyKind DEF Busy
<1> QED BY <1>1, <1>2, <1>3, <1>4, <1>5 DEF ContentInv, Fits

\* What a poll finds: the operation still going on, or what it has left.
LEMMA PolledChip ==
  ASSUME IInv, CInv, NEW t \in Polls, Deselected(t)
  PROVE  /\ pc = t /\ t \in Transfers /\ t \in InBlock
         /\ chip'.op = chip.op
         /\ ~rbuf.wip => ~Busy(chip)
<1>1. pc = t /\ io = "desel" /\ t \in Transfers /\ t \in InBlock /\ CommandOf[t] = "RDSR"
      /\ t # "rdid"
  BY DEF Deselected, Polls, Transfers, CommandOf, InBlock
<1>2. chip'.op = chip.op
  BY <1>1, HeardRight, DeselectDoes
<1>3. ~rbuf.wip => ~Busy(chip)
  BY <1>1 DEF IInv, BusyInv
<1> QED BY <1>1, <1>2, <1>3

LEMMA StayContent ==
  ASSUME IInv, CInv, NEW t \in Polls, Deselected(t), GotoKeeping(t)
  PROVE  ContentInv'
<1>1. pc = t /\ chip'.op = chip.op
  BY PolledChip
<1>2. UNCHANGED <<flash, pc, x, pos, job, excused>>
  BY <1>1 DEF Deselected, GotoKeeping, Goto
<1> QED BY <1>1, <1>2, ContentKept

LEMMA ErasePollContent == ASSUME IInv, CInv, ErasePoll PROVE ContentInv'
<1>1. Deselected("ewait") /\ "ewait" \in Polls
  BY DEF ErasePoll, Polls
<1>2. CASE GotoKeeping("ewait")
  BY <1>1, <1>2, StayContent
<1>3. CASE ~StillBusy /\ GotoKeeping("wren2")
  <2>1. UNCHANGED <<flash, x, pos, job, excused>> /\ pc = "ewait" /\ pc' = "wren2"
    BY <1>1, <1>3 DEF Deselected, GotoKeeping, Goto
  <2>2. (Fits' <=> Fits) /\ (WrittenUpTo(x) => WrittenUpTo(x)') /\ (BlockUpTo(pos) => BlockUpTo(pos)')
    BY <2>1, PiecesKept
  <2>3. job.off % EraseSize = 0 /\ x % EraseSize = 0 /\ pos = 0
    BY <2>1 DEF CInv, ContentInv, InBlock
  <2>4. ~Busy(chip)
    BY <1>1, <1>3, PolledChip DEF StillBusy
  <2>5. ASSUME ~excused, Fits PROVE WrittenUpTo(x) /\ BlockUpTo(pos)
    BY <2>1, <2>3, <2>4, <2>5 DEF CInv, ContentInv, InBlock, Fits
  <2> QED BY <2>1, <2>2, <2>3, <2>5 DEF ContentInv, Fits
<1> QED BY <1>2, <1>3 DEF ErasePoll

LEMMA ProgramPollContent == ASSUME IInv, CInv, ProgramPoll PROVE ContentInv'
<1>1. Deselected("pwait") /\ "pwait" \in Polls
  BY DEF ProgramPoll, Polls
<1>2. CASE GotoKeeping("pwait")
  BY <1>1, <1>2, StayContent
<1> SUFFICES ASSUME ~StillBusy PROVE ContentInv'
  BY <1>2 DEF ProgramPoll
<1>3. /\ pc = "pwait" /\ pc \in InBlock /\ "pwait" \in Transfers /\ ~Busy(chip)
      /\ UNCHANGED <<flash, job>>
  BY <1>1, PolledChip DEF StillBusy, Deselected
<1>4. ContentInv /\ job.off % EraseSize = 0 /\ x % EraseSize = 0
  BY <1>3 DEF CInv, ContentInv
<1>5. ASSUME ~excused, Fits PROVE WrittenUpTo(x) /\ BlockUpTo(pos + PageChunk)
  BY <1>3, <1>5 DEF CInv, ContentInv, Fits
<1>6. CASE pos' = pos + PageChunk /\ Goto("wren2") /\ UNCHANGED <<x, excused>>
  <2>1. pc' = "wren2" /\ UNCHANGED <<flash, x, job, excused>> /\ pos' = pos + PageChunk
    BY <1>3, <1>6 DEF Goto
  <2>2. Wanted' = Wanted /\ Chunk' = Chunk /\ Sector' = Sector
    BY <2>1 DEF Wanted, Chunk, Sector
  <2>3. WrittenUpTo(x) => WrittenUpTo(x)'
    BY <2>1, <2>2 DEF WrittenUpTo
  <2>4. BlockUpTo(pos + PageChunk) => BlockUpTo(pos)'
    BY <2>1, <2>2 DEF BlockUpTo
  <2>5. Fits' <=> Fits
    BY <2>1, <2>2 DEF Fits
  <2> QED BY <1>4, <1>5, <2>1, <2>3, <2>4, <2>5 DEF ContentInv, Fits
<1>7. CASE ~MorePages /\ LoopAt(x + EraseSize) /\ UNCHANGED excused
  <2>1. /\ x \in Nat /\ pos \in Nat /\ EraseSize \in Nat \ {0} /\ Chunk \in 1 .. EraseSize
        /\ PageChunk \in Nat \ {0} /\ pos + PageChunk <= Chunk
        /\ (x + EraseSize) % EraseSize = 0
    BY <1>3, <1>4, BlockFacts
  <2>2. pos + PageChunk = Chunk
    <3> HIDE DEF PageChunk, Chunk
    <3> QED BY <1>7, <2>1 DEF MorePages
  <2>3. ASSUME ~excused, Fits PROVE WrittenUpTo(x + EraseSize)
    <3>1. \A i \in 1 .. Chunk : flash[Sector + i - 1] = job.buf[x + i]
      BY <1>5, <2>1, <2>2, <2>3 DEF BlockUpTo
    <3> QED BY <1>3, <1>4, <1>5, <2>3, <3>1, BlockWritten
  <2>4. x + EraseSize \in Nat
    BY <2>1
  <2> QED BY <1>1, <1>3, <1>4, <1>7, <2>1, <2>3, <2>4, LoopContent
<1> QED BY <1>2, <1>6, <1>7 DEF ProgramPoll

LEMMA OtherContent ==
  ASSUME GotId \/ GotStatus \/ WriteDisabled \/ ModeSet \/ Verified
           \/ \E t \in Polls : TimedOut(t)
  PROVE  ContentInv'
<1>1. pc' \notin InBlock \cup {"verify"}
  BY DEF GotId, GotStatus, WriteDisabled, ModeSet, Verified, TimedOut, AfterStatus, Moded,
     GotoKeeping, Goto, Fatal, Dies, InBlock
<1> QED BY <1>1, NoContentNext

LEMMA EndingsContent == ASSUME IInv, CInv, Endings PROVE ContentInv'
BY GotModeContent, ComparedContent, EnabledContent, ErasingContent, ErasePollContent,
   ProgrammingContent, ProgramPollContent, OtherContent DEF Endings

\* The operation that a poll waits for does to the flash what the loop relies on.
LEMMA FinishContent == ASSUME IInv, CInv, ChipFinishes PROVE ContentInv'
<1>1. /\ Busy(chip) /\ chip' = [chip EXCEPT !.op = NoOperation, !.wel = FALSE]
      /\ flash' \in Outcome(flash, chip.op)
      /\ UNCHANGED <<pc, x, pos, job, excused>> /\ pc \notin Settled
  BY DEF ChipFinishes, OpDone, frame, IInv, BusyInv
<1>2. CASE pc \notin {"ewait", "pwait"}
  <2>1. pc' \notin InBlock \cup {"verify"}
    BY <1>1, <1>2 DEF Settled, InBlock
  <2> QED BY <2>1, NoContentNext
<1> SUFFICES ASSUME pc \in {"ewait", "pwait"} PROVE ContentInv'
  BY <1>2
<1>3. chip.op \in Operations /\ flash \in [CellAddrs -> Cells] /\ ~Busy(chip)' /\ job \in Jobs
  BY <1>1 DEF IInv, TypeOK, Chips, Busy
<1>4. ContentInv /\ pc \in InBlock /\ job.off % EraseSize = 0 /\ x % EraseSize = 0
      /\ (pc = "ewait" => pos = 0)
  BY DEF CInv, ContentInv, InBlock
<1>5. Wanted' = Wanted /\ Chunk' = Chunk /\ Sector' = Sector /\ PageChunk' = PageChunk
      /\ (Fits' <=> Fits)
  BY <1>1 DEF Wanted, Chunk, Sector, PageChunk, Fits
<1>6. /\ x \in Nat /\ pos \in Nat /\ job.off \in Nat /\ Wanted \in Nat /\ EraseSize \in Nat \ {0}
      /\ Chunk \in 1 .. EraseSize /\ x + Chunk <= Wanted /\ pos < Chunk
      /\ PageChunk \in Nat \ {0} /\ pos + PageChunk <= Chunk
      /\ Sector = job.off + x /\ Sector % EraseSize = 0
      /\ Fits => /\ Sector \in CellAddrs
                 /\ \A i \in 1 .. Wanted : job.off + i - 1 \in CellAddrs
                 /\ \A i \in 1 .. EraseSize : Sector + i - 1 \in CellAddrs
  BY <1>4, BlockFacts
<1>7. ASSUME ~excused, Fits PROVE WrittenUpTo(x)
  BY <1>4, <1>7 DEF ContentInv, Fits
\* A cell before the block at x keeps what it holds, whatever is done to that block.
<1>8. ASSUME ~excused, Fits,
             \A i \in CellAddrs : i < Sector => flash'[i] = flash[i]
      PROVE  WrittenUpTo(x)'
  <2> SUFFICES ASSUME NEW i \in 1 .. Wanted, i <= x
               PROVE  flash'[job.off + i - 1] = job.buf[i]
    BY <1>1, <1>5 DEF WrittenUpTo
  <2>1. job.off + i - 1 \in CellAddrs /\ flash[job.off + i - 1] = job.buf[i]
    BY <1>6, <1>7, <1>8 DEF WrittenUpTo
  <2>2. job.off + i - 1 < Sector
    <3> HIDE DEF Wanted, Sector
    <3> QED BY <1>6
  <2> QED BY <1>8, <2>1, <2>2
<1>9. CASE pc = "ewait"
  <2>1. ASSUME ~excused, Fits PROVE WrittenUpTo(x)' /\ BlockUpTo(0)'
    <3>1. chip.op.kind = "ERASE" /\ chip.op.addr = Sector
      BY <1>1, <1>4, <1>9, <2>1 DEF ContentInv, Fits
    <3>2. \A i \in CellAddrs :
            flash'[i] = IF Sector <= i /\ i < Sector + EraseSize THEN Erased ELSE flash[i]
      BY <1>1, <1>3, <1>6, <3>1, EraseOutcome
    <3>3. \A i \in CellAddrs : i < Sector => flash'[i] = flash[i]
      <4>1. \A i \in CellAddrs : i \in Int
        BY DEF CellAddrs
      <4>2. Sector \in Int
        BY <1>6
      <4> HIDE DEF Sector
      <4> QED BY <3>2, <4>1, <4>2
    <3>4. ASSUME NEW i \in 1 .. EraseSize PROVE flash'[Sector + i - 1] = Erased
      <4>1. Sector + i - 1 \in CellAddrs
        BY <1>6, <2>1
      <4>2. Sector <= Sector + i - 1 /\ Sector + i - 1 < Sector + EraseSize
        <5> HIDE DEF Sector
        <5> QED BY <1>6
      <4> QED BY <3>2, <4>1, <4>2
    <3>5. BlockUpTo(0)'
      BY <1>5, <1>6, <3>4 DEF BlockUpTo
    <3> QED BY <1>8, <2>1, <3>3, <3>5
  <2> QED BY <1>1, <1>3, <1>4, <1>5, <1>9, <2>1 DEF ContentInv, Fits
<1>10. CASE pc = "pwait"
  <2>1. ASSUME ~excused, Fits PROVE WrittenUpTo(x)' /\ BlockUpTo(pos + PageChunk)'
    <3> DEFINE a == Sector + pos
               n == PageChunk
               piece == Image(x + pos, n)
    <3>1. /\ chip.op.kind = "PP" /\ chip.op.addr = a /\ chip.op.data = piece
          /\ ~chip.op.junk /\ BlockUpTo(pos)
      BY <1>1, <1>4, <1>10, <2>1 DEF ContentInv, Fits
    <3>2. (x + pos) + n <= Len(job.buf) /\ Len(job.buf) \in Nat /\ job.buf \in Seq(Cells)
      <4>1. job.len <= Len(job.buf)
        BY <1>10 DEF IInv, LoopInv, Running, Ended
      <4>2. Wanted <= Len(job.buf) /\ Len(job.buf) \in Nat /\ job.buf \in Seq(Cells)
        BY <1>3, <4>1, WantedFits, WantedNat DEF Images
      <4> HIDE DEF Wanted, Chunk, PageChunk
      <4> QED BY <1>6, <4>2
    <3>3. Len(piece) = n /\ \A i \in 1 .. n : piece[i] = job.buf[x + pos + i]
      BY <1>3, <1>6, <3>2, ImagePiece
    <3>4. n <= PageSize - (a % PageSize)
      <4>1. a % PageSize \in Int /\ PageSize \in Int /\ Chunk \in Int
        BY <1>6, GeometryAssumption
      <4> HIDE DEF Chunk
      <4> QED BY <1>6, <4>1 DEF PageChunk, Smaller
    <3>5. \A i \in CellAddrs :
            flash'[i] = IF a <= i /\ i < a + n THEN flash[i] \cap piece[i - a + 1] ELSE flash[i]
      <4> HIDE DEF a, n, piece
      <4> QED BY <1>1, <1>3, <3>1, <3>3, <3>4, ProgramOutcome
    <3>6. a \in Int /\ n \in Nat \ {0} /\ Sector \in Int
      BY <1>6
    <3> HIDE DEF n
    <3>7. \A i \in CellAddrs : i < Sector => flash'[i] = flash[i]
      <4>1. \A i \in CellAddrs : i \in Int
        BY DEF CellAddrs
      <4>2. Sector <= a
        <5> HIDE DEF Sector
        <5> QED BY <1>6
      <4> HIDE DEF a, piece, Sector
      <4> SUFFICES ASSUME NEW i \in CellAddrs, i < Sector PROVE flash'[i] = flash[i]
        OBVIOUS
      <4>3. ~(a <= i /\ i < a + n)
        BY <3>6, <4>1, <4>2
      <4> QED BY <3>5, <4>3
    <3>8. ASSUME NEW i \in 1 .. EraseSize
          PROVE  /\ Sector + i - 1 \in CellAddrs
                 /\ i <= pos \/ i > pos + n => flash'[Sector + i - 1] = flash[Sector + i - 1]
                 /\ i > pos /\ i <= pos + n =>
                      /\ i - pos \in 1 .. n
                      /\ flash'[Sector + i - 1] = flash[Sector + i - 1] \cap piece[i - pos]
      <4>1. Sector + i - 1 \in CellAddrs
        BY <1>6, <2>1
      <4>2. i <= pos \/ i > pos + n => ~(a <= Sector + i - 1 /\ Sector + i - 1 < a + n)
        <5> HIDE DEF Sector
        <5> QED BY <1>6, <3>6
      <4>3. i > pos /\ i <= pos + n =>
              /\ a <= Sector + i - 1 /\ Sector + i - 1 < a + n
              /\ i - pos \in 1 .. n /\ Sector + i - 1 - a + 1 = i - pos
        <5> HIDE DEF Sector
        <5> QED BY <1>6, <3>6
      <4> HIDE DEF a, piece, Sector
      <4> DEFINE c == Sector + i - 1
      <4>4. flash'[c] = IF a <= c /\ c < a + n THEN flash[c] \cap piece[c - a + 1] ELSE flash[c]
        <5>1. c \in CellAddrs
          BY <4>1
        <5> HIDE DEF c
        <5> QED BY <3>5, <5>1, Zenon
      <4>5. i <= pos \/ i > pos + n => flash'[Sector + i - 1] = flash[Sector + i - 1]
        BY <4>2, <4>4
      <4>6. ASSUME i > pos, i <= pos + n
            PROVE  flash'[Sector + i - 1] = flash[Sector + i - 1] \cap piece[i - pos]
        <5>1. a <= c /\ c < a + n /\ c - a + 1 = i - pos
          BY <1>6, <3>6, <4>6 DEF a
        <5> HIDE DEF c
        <5>2. flash'[c] = flash[c] \cap piece[i - pos]
          BY <4>4, <5>1
        <5> QED BY <5>2 DEF c
      <4> QED BY <4>1, <4>3, <4>5, <4>6
    <3>9. ASSUME NEW i \in 1 .. Chunk, i <= pos + n
          PROVE  flash'[Sector + i - 1] = job.buf[x + i]
      <4>1. i \in 1 .. EraseSize /\ i \in Nat
        <5> HIDE DEF Chunk
        <5> QED BY <1>6
      <4>2. CASE i <= pos
        BY <3>1, <3>8, <4>1, <4>2 DEF BlockUpTo
      <4>3. CASE i > pos
        <5>1. flash[Sector + i - 1] = Erased
          BY <3>1, <4>1, <4>3 DEF BlockUpTo
        <5>2. i - pos \in 1 .. n /\ x + pos + (i - pos) = x + i
          BY <1>6, <3>8, <3>9, <4>1, <4>3
        <5>3. piece[i - pos] = job.buf[x + i]
          BY <3>3, <5>2
        <5>4. job.buf[x + i] \in SUBSET Bits
          <6>1. x + i \in 1 .. Len(job.buf)
            <7> HIDE DEF Chunk, Wanted
            <7> QED BY <1>6, <3>2, <3>6, <3>9, <4>1
          <6> QED BY <3>2, <6>1 DEF Cells
        <5>5. flash'[Sector + i - 1] = Erased \cap job.buf[x + i]
          BY <3>8, <3>9, <4>1, <4>3, <5>1, <5>3
        <5> QED BY <5>4, <5>5 DEF Erased
      <4> QED BY <1>6, <4>1, <4>2, <4>3
    <3>10. ASSUME NEW i \in 1 .. EraseSize, i > pos + n
           PROVE  flash'[Sector + i - 1] = Erased
      <4>1. i > pos
        BY <1>6, <3>6, <3>10
      <4> QED BY <3>1, <3>8, <3>10, <4>1 DEF BlockUpTo
    <3>11. BlockUpTo(pos + PageChunk)'
      <4>1. pos' = pos /\ x' = x /\ job' = job /\ PageChunk' = n
        BY <1>1, <1>5 DEF n
      <4> HIDE DEF Chunk, Sector, PageChunk
      <4> QED BY <1>5, <3>9, <3>10, <4>1 DEF BlockUpTo
    <3> QED BY <1>8, <2>1, <3>7, <3>11
  <2> QED BY <1>1, <1>3, <1>4, <1>5, <1>10, <2>1 DEF ContentInv, Fits
<1> QED BY <1>9, <1>10
-----------------------------------------------------------------------------
(* The other steps                                                         *)

LEMMA SendOpcodeKeeps == ASSUME IInv, CInv, SendOpcode PROVE ReadyInv' /\ ModeInv' /\ CommandInv'
<1>1. /\ pc \in Transfers /\ io = "idle" /\ Running /\ chip \in Chips
      /\ chip' = Opcode(chip, CommandOf[pc])
      /\ UNCHANGED <<flash, ctl4, rbuf, pc, x, pos, spimode, job, flash0, cleanStart, excused>>
  BY DEF SendOpcode, frame, Running, Transfers, CommandOf, Ended, IInv, TypeOK
<1>2. /\ chip'.sel /\ chip'.wel = chip.wel /\ chip'.mode4 = chip.mode4 /\ chip'.op = chip.op
      /\ chip'.flags = chip.flags
      /\ ~chip.sel => chip'.junk = chip.junk /\ chip'.cmd = CommandOf[pc]
  BY <1>1 DEF Opcode, Chips
<1>3. /\ pc \in {"rdid", "stat", "is4b"} => io' = "in"
      /\ pc \in {"read", "erase", "prog"} => io' = "addr"
      /\ io' # "idle"
  BY DEF SendOpcode, Polls
<1>4. pc # "rdid" \/ cleanStart => ~chip.sel
  BY <1>1 DEF IInv, BusInv, CInv, ReadyInv
<1>5. ReadyInv'
  <2>1. CommandOf["rdid"] = "RDID"
    BY DEF CommandOf
  <2> QED BY <1>1, <1>2, <1>3, <1>4, <2>1 DEF CInv, ReadyInv, Running, Busy
<1>6. ModeInv'
  BY <1>1, <1>2, <1>3 DEF CInv, ModeInv
<1>7. CommandInv'
  BY <1>1, <1>3 DEF CommandInv
<1> QED BY <1>5, <1>6, <1>7

LEMMA SendAddressKeeps == ASSUME IInv, CInv, SendAddress PROVE ReadyInv' /\ ModeInv' /\ CommandInv'
<1>1. /\ pc \in {"read", "verify", "erase", "prog"} /\ chip \in Chips
      /\ chip' = [chip EXCEPT !.addr = AddressOf % FlashSize]
      /\ UNCHANGED <<flash, ctl4, rbuf, pc, x, pos, spimode, job, flash0, cleanStart, excused>>
  BY DEF SendAddress, Address, frame, IInv, TypeOK, BusInv
<1>2. /\ chip'.sel = chip.sel /\ chip'.junk = chip.junk /\ chip'.wel = chip.wel
      /\ chip'.addr = AddressOf % FlashSize
  BY <1>1 DEF Chips
<1>3. /\ pc = "read" => io' = "in"
      /\ pc \in {"read", "erase"} => AddressOf = Sector
      /\ pc = "prog" => AddressOf = Sector + pos /\ io' = "data"
  BY DEF SendAddress, AddressOf
<1>4. Sector' = Sector
  BY <1>1 DEF Sector
<1>5. ReadyInv'
  BY <1>1, <1>2 DEF CInv, ReadyInv, Running
<1>6. ModeInv'
  BY <1>1 DEF ModeInv
<1>7. CommandInv'
  <2> HIDE DEF AddressOf
  <2> QED BY <1>1, <1>2, <1>3, <1>4 DEF CommandInv
<1> QED BY <1>5, <1>6, <1>7

LEMMA SendDataKeeps == ASSUME IInv, CInv, SendData PROVE ReadyInv' /\ ModeInv' /\ CommandInv'
<1>1. /\ pc = "prog" /\ io = "data" /\ io' = "desel" /\ chip \in Chips
      /\ chip' = [chip EXCEPT !.data = Image(x + pos, PageChunk)]
      /\ UNCHANGED <<flash, ctl4, rbuf, pc, x, pos, spimode, job, flash0, cleanStart, excused>>
  BY DEF SendData, frame, IInv, TypeOK, BusInv
<1>2. /\ chip'.sel = chip.sel /\ chip'.junk = chip.junk /\ chip'.wel = chip.wel
      /\ chip'.addr = chip.addr /\ chip'.data = Image(x + pos, PageChunk)
  BY <1>1 DEF Chips
<1>3. Sector' = Sector /\ Image(x + pos, PageChunk)' = Image(x + pos, PageChunk)
  BY <1>1 DEF Sector, Image, PageChunk, Chunk, Wanted
<1>4. ReadyInv'
  BY <1>1, <1>2 DEF CInv, ReadyInv, Running
<1>5. ModeInv'
  BY <1>1 DEF ModeInv
<1>6. CommandInv'
  BY <1>1, <1>2, <1>3 DEF CInv, CommandInv
<1> QED BY <1>4, <1>5, <1>6

LEMMA ReadInKeeps == ASSUME IInv, CInv, ReadIn PROVE ReadyInv' /\ ModeInv' /\ CommandInv'
<1>1. /\ pc \in {"rdid", "stat", "is4b", "read", "verify"} \cup Polls
      /\ io = "in" /\ io' = "desel" /\ rbuf' = Answer
      /\ UNCHANGED <<flash, ctl4, chip, pc, x, pos, spimode, job, flash0, cleanStart, excused>>
  BY DEF ReadIn, frame, IInv, BusInv
<1>2. ASSUME cleanStart, pc = "rdid" PROVE Answer.known
  <2>1. chip.cmd = "RDID" /\ ~chip.junk /\ ~Busy(chip)
    BY <1>1, <1>2 DEF CInv, ReadyInv
  <2>2. Answer = [known |-> chip.cmd = "RDID" /\ ~chip.junk /\ ~Busy(chip)]
    BY <1>2 DEF Answer, CommandOf
  <2>3. Answer.known = (chip.cmd = "RDID" /\ ~chip.junk /\ ~Busy(chip))
    BY <2>2
  <2> QED BY <2>1, <2>3, Zenon
<1>3. ASSUME cleanStart, pc = "stat" PROVE ~Answer.wip /\ ~Answer.flags
  <2>1. ~Busy(chip) /\ ~chip.flags
    BY <1>3 DEF CInv, ReadyInv
  <2>2. Answer.wip = Busy(chip) /\ Answer.flags = chip.flags
    BY <1>3 DEF Answer, CommandOf
  <2> QED BY <2>1, <2>2, Zenon
<1>4. ASSUME pc = "is4b" PROVE Answer.mode4 = chip.mode4
  BY <1>4 DEF Answer, CommandOf
<1>5. ASSUME pc = "read" PROVE Answer.cells = Flash(chip.addr, Chunk)
  BY <1>5 DEF Answer, CommandOf, InSize
<1>6. Sector' = Sector /\ Flash(chip.addr, Chunk)' = Flash(chip.addr, Chunk)
  BY <1>1 DEF Sector, Flash, Chunk, Wanted
<1>7. ReadyInv'
  BY <1>1, <1>2, <1>3 DEF CInv, ReadyInv, Running, Busy, BadStatus
<1>8. ModeInv'
  BY <1>1, <1>4 DEF CInv, ModeInv
<1>9. CommandInv'
  BY <1>1, <1>5, <1>6 DEF CInv, CommandInv, Polls
<1> QED BY <1>7, <1>8, <1>9

LEMMA SetCtlKeeps == ASSUME IInv, CInv, SetCtl PROVE ReadyInv' /\ ModeInv' /\ CommandInv'
<1>1. /\ pc = "setctl" /\ pc' = "is4b" /\ ctl4' = (spimode = 4) /\ io = "idle"
      /\ UNCHANGED <<flash, chip, io, rbuf, x, pos, spimode, job, flash0, cleanStart, excused>>
  BY DEF SetCtl, IInv, BusInv, Transfers, CommandOf
<1>2. chip.mode4 = ctl4'
  BY <1>1 DEF CInv, ModeInv
<1>3. ReadyInv'
  BY <1>1 DEF CInv, ReadyInv, Running, Ended
<1>4. ModeInv'
  BY <1>1, <1>2 DEF ModeInv
<1>5. CommandInv'
  BY <1>1 DEF CommandInv
<1> QED BY <1>3, <1>4, <1>5

LEMMA StartKeeps ==
  ASSUME IInv, CInv, NEW mode \in SpiModes, Start(mode)
  PROVE  ReadyInv' /\ ModeInv' /\ CommandInv'
<1>1. /\ pc' \in {"fatal", "rdid"} /\ spimode' = mode /\ io = "idle"
      /\ cleanStart' = (~chip.sel /\ ~Busy(chip) /\ ~chip.flags
                        /\ (mode # 0 \/ chip.mode4 = ctl4))
      /\ UNCHANGED <<flash, chip, ctl4, io, rbuf, x, pos, job, flash0>>
  BY DEF Start, IInv, BusInv, Running, Ended, Transfers, CommandOf
<1>2. cleanStart' => ~chip.sel /\ ~Busy(chip) /\ ~chip.flags /\ (mode # 0 \/ chip.mode4 = ctl4)
  BY <1>1, Zenon
<1>3. ReadyInv'
  BY <1>1, <1>2 DEF CInv, ReadyInv, Running, Ended, Busy
<1>4. ModeInv'
  BY <1>1, <1>2 DEF ModeInv
<1>5. CommandInv'
  BY <1>1 DEF CommandInv
<1> QED BY <1>3, <1>4, <1>5

LEMMA KilledKeeps ==
  ASSUME IInv, CInv, ReadPanic \/ Kill
  PROVE  ReadyInv' /\ ModeInv' /\ CommandInv'
<1>1. pc' \in {"panic", "killed"} /\ UNCHANGED chip
  BY DEF ReadPanic, Kill, Dies
<1> QED BY <1>1 DEF CInv, ReadyInv, ModeInv, CommandInv, Running, Ended

LEMMA ChipKeeps ==
  ASSUME IInv, CInv, ChipFinishes \/ ChipRejects
  PROVE  ReadyInv' /\ ModeInv' /\ CommandInv'
<1>1. /\ Busy(chip) /\ (\E f \in {chip.flags, TRUE} : OpDone(f)) /\ chip \in Chips
      /\ UNCHANGED <<ctl4, io, rbuf, pc, x, pos, spimode, job, flash0, cleanStart>>
      /\ pc \notin Settled
  BY DEF ChipFinishes, ChipRejects, frame, IInv, TypeOK, BusyInv
<1>2. /\ chip'.sel = chip.sel /\ chip'.cmd = chip.cmd /\ chip'.junk = chip.junk
      /\ chip'.mode4 = chip.mode4 /\ ~Busy(chip)'
  BY <1>1 DEF Chips, Busy, OpDone
<1>3. ReadyInv'
  BY <1>1, <1>2 DEF CInv, ReadyInv, Settled, Running
<1>4. ModeInv'
  BY <1>1, <1>2 DEF CInv, ModeInv, Settled
<1>5. CommandInv'
  BY <1>1 DEF CommandInv, Settled
<1> QED BY <1>3, <1>4, <1>5

LEMMA RestContent ==
  ASSUME IInv, CInv,
         \/ SendOpcode \/ SendAddress \/ SendData \/ ReadIn \/ ReadPanic \/ SetCtl
         \/ Kill \/ ChipRejects \/ \E mode \in SpiModes : Start(mode)
  PROVE  ContentInv'
<1>1. CASE SendOpcode \/ SendAddress \/ SendData \/ ReadIn
  <2>1. UNCHANGED <<flash, pc, x, pos, job, excused>>
    BY <1>1 DEF SendOpcode, SendAddress, SendData, ReadIn, frame
  <2>2. chip'.op = chip.op
    BY <1>1 DEF SendOpcode, SendAddress, SendData, ReadIn, Opcode, Address, IInv, TypeOK, Chips
  <2> QED BY <2>1, <2>2, ContentKept
<1>2. CASE ReadPanic \/ SetCtl \/ Kill \/ \E mode \in SpiModes : Start(mode)
  <2>1. pc' \notin InBlock \cup {"verify"}
    BY <1>2 DEF ReadPanic, SetCtl, Kill, Start, Dies, InBlock
  <2> QED BY <2>1, NoContentNext
<1>3. CASE ChipRejects
  <2>1. excused' /\ UNCHANGED <<pc, x, pos, job>>
    BY <1>3 DEF ChipRejects
  <2>2. Wanted' = Wanted
    BY <2>1 DEF Wanted
  <2> QED BY <2>1, <2>2 DEF CInv, ContentInv
<1> QED BY <1>1, <1>2, <1>3
-----------------------------------------------------------------------------
(* No way to fail                                                          *)

\* When the loop is through, the last read finds the image.
LEMMA RereadRight ==
  ASSUME IInv, CInv, pc = "verify", io = "desel", ~excused, Fits
  PROVE  Reread
<1>1. job \in Jobs /\ flash \in [CellAddrs -> Cells] /\ x \in Int
  BY WantedNat DEF IInv, TypeOK
<1>2. /\ job.off \in Nat /\ Wanted \in Nat /\ Wanted <= Len(job.buf)
      /\ Len(job.buf) \in Nat /\ FlashSize \in Nat \ {0}
  <2>1. job.len <= Len(job.buf)
    BY DEF IInv, LoopInv, Running, Ended
  <2> QED BY <1>1, <2>1, WantedNat, WantedFits, GeometryAssumption DEF Images
<1>3. x >= Wanted /\ WrittenUpTo(x)
  BY DEF CInv, ContentInv, Fits
<1>4. rbuf.cells = Flash(job.off % FlashSize, Wanted)
  BY DEF IInv, VerifyInv
<1> DEFINE n == Wanted
<1>5. n \in Nat /\ job.off + n <= FlashSize
  BY <1>2 DEF Fits
<1>6. ASSUME NEW i \in 1 .. n PROVE Flash(job.off % FlashSize, n)[i] = job.buf[i]
  <2>1. flash[job.off + i - 1] = job.buf[i]
    <3>1. i <= x
      <4> HIDE DEF n
      <4> QED BY <1>1, <1>3, <1>5 DEF n
    <3> QED BY <1>3, <3>1 DEF WrittenUpTo
  <2> HIDE DEF n
  <2>2. job.off \in CellAddrs /\ job.off + i - 1 \in CellAddrs
    BY <1>2, <1>5 DEF CellAddrs
  <2>3. job.off % FlashSize = job.off
    BY <2>2, SmallMod
  <2>4. Flash(job.off, n)[i] = flash[(job.off + i - 1) % FlashSize]
    <3>1. job.off \in Int /\ n \in Nat /\ flash \in [CellAddrs -> Cells] /\ i \in 1 .. n
      BY <1>1, <1>2, <1>5 DEF n
    <3>2. \A k \in 1 .. n : Flash(job.off, n)[k] = flash[(job.off + k - 1) % FlashSize]
      BY ONLY <3>1, FlashPiece
    <3> QED BY <3>1, <3>2
  <2>5. (job.off + i - 1) % FlashSize = job.off + i - 1
    BY <2>2, SmallMod
  <2> QED BY <2>1, <2>3, <2>4, <2>5
<1>7. /\ Flash(job.off % FlashSize, n) \in Seq(Cells) /\ Len(Flash(job.off % FlashSize, n)) = n
  <2>1. job.off % FlashSize \in Int
    BY <1>2
  <2> HIDE DEF n
  <2> QED BY <1>1, <1>5, <2>1, FlashPiece DEF Images
<1>8. /\ Image(0, n) \in Seq(Cells) /\ Len(Image(0, n)) = n
      /\ \A i \in 1 .. n : Image(0, n)[i] = job.buf[0 + i]
  <2>1. 0 + n <= Len(job.buf)
    BY <1>2, <1>5
  <2> HIDE DEF n
  <2> QED BY <1>1, <1>5, <2>1, ImagePiece DEF Images
<1>9. Flash(job.off % FlashSize, n) = Image(0, n)
  <2> HIDE DEF n
  <2>1. \A i \in 1 .. n : Flash(job.off % FlashSize, n)[i] = Image(0, n)[i]
    <3>1. \A i \in 1 .. n : 0 + i = i
      OBVIOUS
    <3> QED BY <1>6, <1>8, <3>1
  <2> QED BY <1>7, <1>8, <2>1, SeqEqual
<1> QED BY <1>4, <1>9 DEF Reread

\* The steps on which a run that began clean could fail, and the others.
LEMMA FailsNever ==
  ASSUME IInv, CInv, Endings
  PROVE  CleanRunSucceeds'
<1>0. PICK t \in Transfers : Deselected(t) /\ pc' # "panic"
  BY EndingsFollow DEF Follows
<1> SUFFICES ASSUME pc' = "fatal", cleanStart', ArgumentsOk', Fits', ~excused' PROVE FALSE
  BY <1>0 DEF CleanRunSucceeds, FailedForNothing, Fits
<1>1. Deselected(t)
  BY <1>0
<1>2. /\ pc = t /\ io = "desel" /\ UNCHANGED <<job, spimode, cleanStart>>
  BY <1>1 DEF Deselected
<1>3. cleanStart /\ job.off % EraseSize = 0 /\ ~ModeRefused /\ Fits
  BY <1>2 DEF ArgumentsOk, ModeRefused, Fits, Wanted
<1>4. CASE GotId
  <2>1. pc = "rdid" /\ ~rbuf.known
    BY <1>4 DEF GotId, Deselected, GotoKeeping, Goto
  <2> QED BY <1>2, <1>3, <2>1 DEF CInv, ReadyInv
<1>5. CASE GotStatus \/ WriteDisabled
  <2>1. ASSUME AfterStatus PROVE FALSE
    BY <1>3, <2>1 DEF AfterStatus, Moded, GotoKeeping, Goto
  <2>2. pc = "stat" /\ BadStatus
    BY <1>5, <2>1 DEF GotStatus, WriteDisabled, Deselected, GotoKeeping, Goto
  <2> QED BY <1>2, <1>3, <2>2 DEF CInv, ReadyInv
<1>6. CASE GotMode
  <2>1. pc = "is4b" /\ rbuf.mode4 # ctl4
    BY <1>3, <1>6 DEF GotMode, Deselected, LoopAt, Goto
  <2> QED BY <1>2, <1>3, <2>1 DEF CInv, ModeInv
<1>7. CASE Verified
  <2>1. pc = "verify" /\ ~Reread /\ ~excused
    BY <1>7 DEF Verified, Deselected, Dies
  <2> QED BY <1>2, <1>3, <2>1, RereadRight
<1>8. ASSUME NEW p \in Polls, TimedOut(p) PROVE FALSE
  BY <1>8 DEF TimedOut
<1>9. CASE \/ ModeSet \/ Compared \/ EnabledErase \/ Erasing \/ ErasePoll
           \/ EnabledProgram \/ Programming \/ ProgramPoll
  BY <1>9 DEF ModeSet, Compared, EnabledErase, Erasing, ErasePoll, EnabledProgram,
     Programming, ProgramPoll, GotoKeeping, Goto, LoopAt
<1> QED BY <1>4, <1>5, <1>6, <1>7, <1>8, <1>9 DEF Endings

LEMMA SamePc ==
  ASSUME CleanRunSucceeds, UNCHANGED <<pc, spimode, job, cleanStart>>, excused' = excused \/ excused'
  PROVE  CleanRunSucceeds'
<1>1. (ArgumentsOk' <=> ArgumentsOk) /\ (Fits' <=> Fits) /\ (WholeWords' <=> WholeWords)
  BY DEF ArgumentsOk, Fits, WholeWords, Wanted
<1> QED BY <1>1 DEF CleanRunSucceeds, FailedForNothing, Fits

LEMMA StartSucceeds ==
  ASSUME IInv, NEW mode \in SpiModes, Start(mode)
  PROVE  CleanRunSucceeds'
<1>1. job.len \in Int /\ Len(job.buf) \in Nat
  BY JobsAssumption DEF Images, IInv, TypeOK
<1>2. job' = job /\ pc' # "panic" /\ (pc' = "fatal" => job.len > Len(job.buf))
  BY DEF Start
<1> QED BY <1>1, <1>2 DEF CleanRunSucceeds, FailedForNothing, ArgumentsOk
-----------------------------------------------------------------------------
(* The invariant                                                           *)

LEMMA InitCInv == Init => CInv
<1> SUFFICES ASSUME Init PROVE CInv
  OBVIOUS
<1>1. pc = "off" /\ io = "idle" /\ ~chip.junk
  BY DEF Init, ReadyChip
<1>2. ReadyInv /\ ModeInv /\ CommandInv /\ CleanRunSucceeds
  BY <1>1 DEF ReadyInv, ModeInv, CommandInv, CleanRunSucceeds, FailedForNothing, Running, Ended
<1>3. ContentInv
  BY <1>1, NoContent DEF InBlock
<1> QED BY <1>2, <1>3 DEF CInv

LEMMA EndingsCInv == ASSUME IInv, CInv, Endings PROVE CInv'
<1>1. PICK t \in Transfers : Deselected(t) /\ Follows(t)
  BY EndingsFollow
<1>2. ReadyInv' /\ ModeInv' /\ CommandInv'
  BY <1>1, EndingKeeps
<1> QED BY <1>2, EndingsContent, FailsNever DEF CInv

LEMMA RestCInv ==
  ASSUME IInv, CInv,
         \/ SendOpcode \/ SendAddress \/ SendData \/ ReadIn \/ ReadPanic \/ SetCtl
         \/ Kill \/ ChipFinishes \/ ChipRejects \/ \E mode \in SpiModes : Start(mode)
  PROVE  CInv'
<1>1. ReadyInv' /\ ModeInv' /\ CommandInv'
  BY SendOpcodeKeeps, SendAddressKeeps, SendDataKeeps, ReadInKeeps, SetCtlKeeps, StartKeeps,
     KilledKeeps, ChipKeeps
<1>2. ContentInv'
  BY RestContent, FinishContent
<1>3. CASE SendOpcode \/ SendAddress \/ SendData \/ ReadIn \/ ChipFinishes \/ ChipRejects
  <2>1. /\ UNCHANGED <<pc, spimode, job, cleanStart>>
        /\ excused' = excused \/ excused'
    BY <1>3 DEF SendOpcode, SendAddress, SendData, ReadIn, ChipFinishes, ChipRejects, frame
  <2>2. CleanRunSucceeds'
    BY <2>1, SamePc DEF CInv
  <2> QED BY <1>1, <1>2, <2>2 DEF CInv
<1>4. CASE ReadPanic \/ SetCtl \/ Kill
  <2>1. pc' # "fatal"
    BY <1>4 DEF ReadPanic, SetCtl, Kill, Dies
  <2>2. EndsDeselected'
    BY <1>4, ReadPanicIInv, SetCtlIInv, KillIInv DEF IInv
  <2> QED BY <1>1, <1>2, <2>1, <2>2
        DEF CInv, CleanRunSucceeds, FailedForNothing, ArgumentsOk, EndsDeselected
<1>5. ASSUME NEW mode \in SpiModes, Start(mode) PROVE CleanRunSucceeds'
  BY <1>5, StartSucceeds
<1> QED BY <1>1, <1>2, <1>3, <1>4, <1>5 DEF CInv

LEMMA NextCInv == IInv /\ CInv /\ [Next]_vars => CInv'
<1> SUFFICES ASSUME IInv, CInv, [Next]_vars PROVE CInv'
  OBVIOUS
<1>1. CASE Endings
  BY <1>1, EndingsCInv
<1>2. CASE \/ SendOpcode \/ SendAddress \/ SendData \/ ReadIn \/ ReadPanic \/ SetCtl
           \/ Kill \/ ChipFinishes \/ ChipRejects \/ \E mode \in SpiModes : Start(mode)
  BY <1>2, RestCInv
<1>3. CASE UNCHANGED vars
  <2>1. /\ UNCHANGED <<flash, pc, x, pos, job, excused>> /\ UNCHANGED <<chip, ctl4, io, rbuf>>
        /\ UNCHANGED <<spimode, cleanStart>>
    BY <1>3 DEF vars
  <2>2. ReadyInv' /\ ModeInv'
    BY <2>1 DEF CInv, ReadyInv, ModeInv, Running, Busy, BadStatus
  <2>3. CommandInv'
    BY <2>1 DEF CInv, CommandInv, Sector, Flash, Image, Chunk, PageChunk, Wanted
  <2>4. ContentInv'
    BY <2>1, ContentKept
  <2>5. CleanRunSucceeds'
    BY <2>1, SamePc DEF CInv
  <2> QED BY <2>2, <2>3, <2>4, <2>5 DEF CInv
<1> QED BY <1>1, <1>2, <1>3 DEF Next, Program, Endings

\* A run that finds the chip ready, with arguments in order and an image that fits,
\* does not end in log.Fatal, nor with an image of whole words in a panic, unless the chip refused an operation of this run or
\* stayed busy until the deadline, whatever killed runs have left in the flash.
THEOREM CleanRunsAlwaysSucceed == Spec => []CleanRunSucceeds
<1>1. Init => IInv /\ CInv
  BY InitIInv, InitCInv
<1>2. IInv /\ CInv /\ [Next]_vars => (IInv /\ CInv)'
  BY NextIInv, NextCInv
<1>3. IInv /\ CInv => CleanRunSucceeds
  BY DEF CInv
<1> QED BY <1>1, <1>2, <1>3, PTL DEF Spec
-----------------------------------------------------------------------------
(* Block by block: what the chip can change                                *)

LEMMA JobsFit == ASSUME ImagesFit, job \in Jobs PROVE Fits
BY DEF ImagesFit, Fits, Wanted

\* A page lies in one block.
LEMMA PageInBlock ==
  ASSUME NEW s \in Nat, s % EraseSize = 0, NEW a \in Nat, s <= a, a < s + EraseSize,
         NEW i \in Nat, i \div PageSize = a \div PageSize
  PROVE  s <= i /\ i < s + EraseSize
<1> DEFINE E == EraseSize
           P == PageSize
           m == E \div P
           q == s \div E
           p == a \div P
           r == a % P
           t == i % P
<1>1. E \in Nat \ {0} /\ P \in Nat \ {0} /\ E % P = 0
  BY GeometryAssumption
<1>2. E = P * m + 0 /\ m \in Nat
  BY <1>1, Division
<1>3. s = E * q + 0 /\ q \in Nat
  BY <1>1, Division
<1>4. /\ a = P * p + r /\ p \in Nat /\ r \in 0 .. P - 1
      /\ i = P * p + t /\ t \in 0 .. P - 1
  BY <1>1, Division
<1> HIDE DEF m, q, p, r, t, P
<1>5. s = P * (m * q) /\ m * q \in Nat
  <2>1. m * q \in Nat
    BY <1>2, <1>3
  <2>2. s = (P * m) * q
    <3>1. E \in Nat /\ P * m = E
      BY <1>1, <1>2
    <3> QED BY <1>3, <3>1
  <2>3. (P * m) * q = P * (m * q)
    <3>1. P \in Nat /\ m \in Nat /\ q \in Nat
      BY <1>1, <1>2, <1>3
    <3>2. \A u, v, w \in Nat : (u * v) * w = u * (v * w)
      OBVIOUS
    <3> QED BY ONLY <3>1, <3>2
  <2> QED BY ONLY <2>1, <2>2, <2>3
<1> DEFINE n == m * q
<1>6. s = P * n /\ n \in Nat
  BY <1>5
<1> HIDE DEF n, E
<1>7. p >= n
  <2> SUFFICES ASSUME p + 1 <= n PROVE FALSE
    BY <1>4, <1>6
  <2>1. P * (p + 1) <= P * n
    BY <1>1, <1>4, <1>6
  <2>2. P * (p + 1) = P * p + P
    BY <1>1, <1>4
  <2> QED BY <1>1, <1>4, <1>6, <2>1, <2>2
<1>8. p + 1 <= n + m
  <2> SUFFICES ASSUME p >= n + m PROVE FALSE
    BY <1>2, <1>4, <1>6
  <2>1. P * p >= P * (n + m)
    BY <1>1, <1>2, <1>4, <1>6
  <2>2. P * (n + m) = P * n + P * m
    BY <1>1, <1>2, <1>6
  <2> QED BY <1>1, <1>2, <1>4, <1>6, <2>1, <2>2 DEF E
<1>9. P * p >= P * n
  BY <1>1, <1>4, <1>6, <1>7
<1>10. P * (p + 1) <= P * (n + m)
  BY <1>1, <1>2, <1>4, <1>6, <1>8
<1>11. P * (p + 1) = P * p + P /\ P * (n + m) = P * n + P * m
  BY <1>1, <1>2, <1>4, <1>6
<1> QED BY <1>1, <1>2, <1>4, <1>6, <1>9, <1>10, <1>11 DEF E

\* No operation leaves the erase block of its address.
LEMMA OutcomeInBlock ==
  ASSUME NEW f \in [CellAddrs -> Cells], NEW o \in Operations, NEW g \in Outcome(f, o),
         NEW s \in Nat, s % EraseSize = 0, s <= o.addr, o.addr < s + EraseSize
  PROVE  \A i \in CellAddrs : i < s \/ i >= s + EraseSize => g[i] = f[i]
<1> SUFFICES ASSUME NEW i \in CellAddrs, i < s \/ i >= s + EraseSize PROVE g[i] = f[i]
  OBVIOUS
<1>1. i \in Nat /\ o.addr \in Nat /\ EraseSize \in Nat /\ ~(s <= i /\ i < s + EraseSize)
  BY GeometryAssumption DEF CellAddrs, Operations
<1>2. i \notin Block(o.addr)
  <2>1. o.addr \div EraseSize = s \div EraseSize
    BY <1>1, BlockOf
  <2>2. ~(i \div EraseSize = s \div EraseSize)
    BY <1>1, BlockOf
  <2> QED BY <2>1, <2>2 DEF Block
<1>3. i \notin Page(o.addr)
  BY <1>1, PageInBlock DEF Page
<1>4. CASE o.kind = "ERASE"
  BY <1>2, <1>4 DEF Outcome
<1>5. CASE o.kind # "ERASE" /\ o.junk
  <2>1. PICK any \in [Page(o.addr) -> Cells] :
          g = [k \in CellAddrs |-> IF k \in Page(o.addr) THEN f[k] \cap any[k] ELSE f[k]]
    BY <1>5 DEF Outcome
  <2> QED BY <1>3, <2>1
<1>6. CASE o.kind # "ERASE" /\ ~o.junk
  <2>1. g = [k \in CellAddrs |-> IF k \in Page(o.addr) /\ PageByte(o, k) <= Len(o.data)
                                   THEN f[k] \cap o.data[PageByte(o, k)] ELSE f[k]]
    BY <1>6 DEF Outcome
  <2> QED BY <1>3, <2>1
<1> QED BY <1>4, <1>5, <1>6

\* What the chip does after a command, it did before or was told the address of.
Told == chip.cmd \in {"ERASE", "PP"} /\ chip.addr # NoAddr

LEMMA DeselectAims ==
  ASSUME NEW c \in Chips, NEW d \in Deselect(c),
         ~(c.cmd = "PP" /\ c.addr = NoAddr),
         c.cmd = "ERASE" /\ ~c.junk => c.addr \in CellAddrs
  PROVE  /\ d.cmd = "none" /\ d.addr = NoAddr
         /\ Busy(d) => \/ Busy(c) /\ d.op = c.op
                       \/ /\ c.cmd \in {"ERASE", "PP"} /\ c.addr # NoAddr
                          /\ d.op.addr = c.addr
<1>1. /\ Quiet(c) \in Chips /\ Quiet(c).cmd = "none" /\ Quiet(c).addr = NoAddr
      /\ Quiet(c).op = c.op
  <2>1. <<>> \in Seq(Cells) /\ NoAddr \in CellAddrs \cup {NoAddr}
    OBVIOUS
  <2> QED BY <2>1 DEF Chips, Quiet
<1>2. ASSUME NEW o
      PROVE  /\ [Quiet(c) EXCEPT !.op = o].cmd = "none" /\ [Quiet(c) EXCEPT !.op = o].addr = NoAddr
             /\ [Quiet(c) EXCEPT !.op = o].op = o
             /\ [Quiet(c) EXCEPT !.wel = o].cmd = "none" /\ [Quiet(c) EXCEPT !.wel = o].addr = NoAddr
             /\ [Quiet(c) EXCEPT !.wel = o].op = c.op
             /\ [Quiet(c) EXCEPT !.mode4 = o].cmd = "none"
             /\ [Quiet(c) EXCEPT !.mode4 = o].addr = NoAddr
             /\ [Quiet(c) EXCEPT !.mode4 = o].op = c.op
  BY <1>1 DEF Chips
<1>3. CASE d = Quiet(c)
  BY <1>1, <1>3 DEF Busy
<1>9. CASE d = [Quiet(c) EXCEPT !.wel = (c.cmd = "WREN")]
  BY <1>2, <1>9 DEF Busy
<1>10. CASE d = [Quiet(c) EXCEPT !.mode4 = (c.cmd = "EN4B")]
  BY <1>2, <1>10 DEF Busy
<1>4. ASSUME NEW a, a = c.addr, c.addr # NoAddr, c.cmd \in {"ERASE", "PP"},
             d = [Quiet(c) EXCEPT !.op = Operation(c, a)]
      PROVE  d.cmd = "none" /\ d.addr = NoAddr /\ d.op.addr = c.addr
  BY <1>2, <1>4 DEF Operation
<1>5. c.cmd = "ERASE" /\ ~c.junk => c.addr # NoAddr
  BY GeometryAssumption DEF CellAddrs, NoAddr
<1>6. \/ d = Quiet(c)
      \/ d = [Quiet(c) EXCEPT !.wel = (c.cmd = "WREN")]
      \/ d = [Quiet(c) EXCEPT !.mode4 = (c.cmd = "EN4B")]
      \/ c.cmd = "ERASE" /\ ~c.junk /\ d = [Quiet(c) EXCEPT !.op = Operation(c, c.addr)]
      \/ /\ c.cmd = "PP"
         /\ \E a \in IF c.addr = NoAddr THEN CellAddrs ELSE {c.addr} :
              d = [Quiet(c) EXCEPT !.op = Operation(c, a)]
  BY DEF Deselect
<1>7. CASE c.cmd = "ERASE" /\ ~c.junk /\ d = [Quiet(c) EXCEPT !.op = Operation(c, c.addr)]
  BY <1>4, <1>5, <1>7
<1>8. CASE /\ c.cmd = "PP"
           /\ \E a \in IF c.addr = NoAddr THEN CellAddrs ELSE {c.addr} :
                d = [Quiet(c) EXCEPT !.op = Operation(c, a)]
  <2>1. c.addr # NoAddr
    BY <1>8
  <2>2. d = [Quiet(c) EXCEPT !.op = Operation(c, c.addr)]
    BY <1>8, <2>1
  <2> QED BY <1>4, <1>8, <2>1, <2>2
<1> QED BY <1>3, <1>6, <1>7, <1>8, <1>9, <1>10
-----------------------------------------------------------------------------
(* The frontier                                                            *)

LEMMA KeepsFrontier ==
  ASSUME UNCHANGED <<flash, flash0, job>>,
         Busy(chip)' => \/ Busy(chip) /\ chip'.op = chip.op
                        \/ Told /\ chip'.op.addr = chip.addr,
         Told' => Told /\ chip'.addr = chip.addr
  PROVE  \A y : Frontier(y) => Frontier(y)'
<1> SUFFICES ASSUME NEW y, Frontier(y) PROVE Frontier(y)'
  OBVIOUS
<1>1. Wanted' = Wanted
  BY DEF Wanted
<1>2. \A a : Aims(a, y) => Aims(a, y)'
  BY <1>1 DEF Aims
<1>3. y % EraseSize = 0 /\ WrittenUpTo(y)'
  BY <1>1 DEF Frontier, WrittenUpTo
<1>4. \A a \in CellAddrs : a >= job'.off + y + EraseSize => flash'[a] = flash0'[a]
  BY DEF Frontier
<1>5. Busy(chip)' => Aims(chip.op.addr, y)'
  <2>1. Busy(chip)' => Aims(chip'.op.addr, y)
    BY DEF Frontier, Told
  <2> QED BY <1>1, <2>1 DEF Aims
<1>6. Told' => Aims(chip.addr, y)'
  <2>1. Told' => Aims(chip'.addr, y)
    BY DEF Frontier, Told
  <2> QED BY <1>1, <2>1 DEF Aims
<1> QED BY <1>3, <1>4, <1>5, <1>6 DEF Frontier, Told

\* The writing of a block goes on, or ends without another one beginning.
LEMMA FrontierGoesOn ==
  ASSUME FrontierInv, Wanted' = Wanted, \A y : Frontier(y) => Frontier(y)',
         pc' \in Writing => pc \in Writing /\ x' = x
  PROVE  FrontierInv'
<1>1. PICK y \in 0 .. Wanted : Frontier(y)
  BY DEF FrontierInv
<1>2. y \in 0 .. Wanted' /\ Frontier(y)'
  BY <1>1
<1>3. ASSUME pc' \in Writing PROVE Frontier(x)'
  <2>1. Frontier(x) /\ x' = x
    BY <1>3 DEF FrontierInv
  <2> QED BY <2>1 DEF Frontier, WrittenUpTo, Aims
<1> QED BY <1>2, <1>3 DEF FrontierInv

LEMMA FinishFrontier ==
  ASSUME IInv, Fits, ChipFinishes, NEW y \in Nat, Frontier(y)
  PROVE  /\ Frontier(y)'
         /\ Aims(chip.op.addr, y)
         /\ \A i \in CellAddrs : i < job.off + y \/ i >= job.off + y + EraseSize => flash'[i] = flash[i]
<1>1. /\ Busy(chip) /\ chip' = [chip EXCEPT !.op = NoOperation, !.wel = FALSE]
      /\ flash' \in Outcome(flash, chip.op)
      /\ UNCHANGED <<flash0, job>>
  BY DEF ChipFinishes, OpDone, frame
<1>2. /\ chip \in Chips /\ chip.op \in Operations /\ flash \in [CellAddrs -> Cells]
      /\ job.off \in Nat /\ Wanted \in Nat /\ EraseSize \in Nat \ {0}
  BY <1>1, WantedNat, GeometryAssumption DEF IInv, TypeOK, Chips, Busy
<1>3. Aims(chip.op.addr, y)
  BY <1>1 DEF Frontier
<1>4. (job.off + y) % EraseSize = 0 /\ job.off + y \in Nat
  <2>1. job.off % EraseSize = 0 /\ y % EraseSize = 0
    BY <1>3 DEF Aims, Frontier
  <2> QED BY <1>2, <2>1, MultipleSum
<1>5. \A i \in CellAddrs : i < job.off + y \/ i >= job.off + y + EraseSize => flash'[i] = flash[i]
  BY <1>1, <1>2, <1>3, <1>4, OutcomeInBlock DEF Aims
<1>6. Wanted' = Wanted
  BY <1>1 DEF Wanted
<1>7. WrittenUpTo(y)'
  <2> SUFFICES ASSUME NEW i \in 1 .. Wanted, i <= y PROVE flash'[job.off + i - 1] = job.buf[i]
    BY <1>1, <1>6 DEF WrittenUpTo
  <2>1. flash[job.off + i - 1] = job.buf[i]
    BY DEF Frontier, WrittenUpTo
  <2>2. job.off + i - 1 \in CellAddrs /\ job.off + i - 1 < job.off + y
    <3> HIDE DEF Wanted
    <3>1. i \in Nat \ {0} /\ i <= Wanted /\ FlashSize \in Nat
      BY <1>2, GeometryAssumption
    <3> QED BY <1>2, <3>1 DEF CellAddrs, Fits
  <2> QED BY <1>5, <2>1, <2>2
<1>8. \A a \in CellAddrs : a >= job'.off + y + EraseSize => flash'[a] = flash0'[a]
  BY <1>1, <1>5 DEF Frontier
<1>9. ~Busy(chip)' /\ chip'.cmd = chip.cmd /\ chip'.addr = chip.addr
  BY <1>1, <1>2 DEF Chips, Busy
<1>10. Told => Aims(chip.addr, y)'
  <2>1. Told => Aims(chip.addr, y)
    BY DEF Told, Frontier
  <2> QED BY <1>1, <1>6, <1>9, <2>1 DEF Aims
<1>11. Frontier(y)'
  BY <1>1, <1>7, <1>8, <1>9, <1>10 DEF Frontier, Told
<1> QED BY <1>3, <1>5, <1>11

\* Of two blocks one begins before the other ends.
LEMMA EarlierBlock ==
  ASSUME NEW a \in Nat, NEW b \in Nat, a % EraseSize = 0, b % EraseSize = 0, a < b + EraseSize
  PROVE  a <= b
<1> DEFINE E == EraseSize
           p == a \div E
           q == b \div E
<1>1. E \in Nat \ {0}
  BY GeometryAssumption
<1>2. a = E * p + 0 /\ b = E * q + 0 /\ p \in Nat /\ q \in Nat
  BY <1>1, Division
<1>3. E * p < E * q + E
  BY <1>1, <1>2
<1> HIDE DEF E, p, q
<1>4. E * q + E = E * (q + 1)
  BY <1>1, <1>2
<1>5. p < q + 1
  <2> SUFFICES ASSUME p >= q + 1 PROVE FALSE
    BY <1>2
  <2>1. E * p >= E * (q + 1)
    BY <1>1, <1>2
  <2> QED BY <1>1, <1>2, <1>3, <1>4, <2>1
<1>6. E * p <= E * q
  BY <1>1, <1>2, <1>5
<1>7. a = E * p /\ b = E * q
  <2>1. E * p \in Nat /\ E * q \in Nat
    BY <1>1, <1>2
  <2> QED BY <1>2, <2>1
<1> QED BY <1>6, <1>7

LEMMA EndingFrontier ==
  ASSUME IInv, HeadInv, NEW t \in Transfers, Deselected(t)
  PROVE  /\ chip'.cmd = "none" /\ chip'.addr = NoAddr
         /\ \A y : Frontier(y) => Frontier(y)'
<1>1. /\ chip \in Chips /\ chip' \in Deselect(chip) /\ pc = t /\ io = "desel"
      /\ UNCHANGED <<flash, flash0, job>>
  BY DEF IInv, TypeOK, Deselected
<1>2. chip.cmd = "ERASE" /\ ~chip.junk => chip.addr \in CellAddrs
  <2>1. CASE pc = "rdid"
    BY <1>1, <2>1 DEF IInv, BusInv
  <2>2. CASE pc = "erase"
    BY <1>1, <2>2 DEF IInv, BusInv
  <2>3. CASE pc \notin {"rdid", "erase"}
    BY <1>1, <2>3 DEF IInv, BusInv, Running, CommandOf, Transfers, Ended
  <2> QED BY <2>1, <2>2, <2>3
<1>3. ~(chip.cmd = "PP" /\ chip.addr = NoAddr)
  BY <1>1 DEF HeadInv
<1>4. /\ chip'.cmd = "none" /\ chip'.addr = NoAddr
      /\ Busy(chip)' => \/ Busy(chip) /\ chip'.op = chip.op
                        \/ Told /\ chip'.op.addr = chip.addr
  BY <1>1, <1>2, <1>3, DeselectAims DEF Told, Busy
<1>5. ~Told'
  BY <1>4 DEF Told
<1> QED BY <1>1, <1>4, <1>5, KeepsFrontier

\* The first block that differs is not behind the frontier, so it becomes the frontier.
LEMMA ComparedFrontier ==
  ASSUME IInv, CInv, RInv, Fits, Compared, pc' = "wren1"
  PROVE  Frontier(x)'
<1>1. /\ pc = "read" /\ io = "desel" /\ Deselected("read") /\ "read" \in Transfers
      /\ UNCHANGED <<flash, flash0, job, x>> /\ ~SameBlock /\ pc \in InBlock
  BY DEF Compared, Deselected, LoopAt, GotoKeeping, Goto, Transfers, CommandOf, InBlock
<1>2. ~excused /\ ContentInv /\ x % EraseSize = 0 /\ WrittenUpTo(x)
  BY <1>1 DEF RInv, HeadInv, Running, Ended, CInv, ContentInv, Fits
<1>3. /\ x \in Nat /\ EraseSize \in Nat \ {0} /\ Chunk \in 1 .. EraseSize /\ x + Chunk <= Wanted
      /\ Wanted \in Nat /\ job.off \in Nat /\ Sector = job.off + x
  BY <1>1, <1>2, BlockFacts
<1>4. PICK y \in 0 .. Wanted : Frontier(y)
  BY DEF RInv, FrontierInv
<1>5. y \in Nat /\ y % EraseSize = 0
  BY <1>3, <1>4 DEF Frontier
<1>6. y < x + EraseSize
  <2> SUFFICES ASSUME y >= x + EraseSize PROVE FALSE
    BY <1>3, <1>5
  <2>1. ASSUME NEW i \in 1 .. Chunk PROVE flash[Sector + i - 1] = job.buf[x + i]
    <3>1. x + i \in 1 .. Wanted /\ x + i <= y /\ job.off + (x + i) - 1 = Sector + i - 1
      <4> HIDE DEF Wanted, Chunk, Sector
      <4> QED BY <1>3, <1>5
    <3>2. flash[job.off + (x + i) - 1] = job.buf[x + i]
      BY <1>4, <3>1 DEF Frontier, WrittenUpTo
    <3> QED BY <3>1, <3>2
  <2> QED BY <1>1, <2>1, ReadRight
<1>7. y <= x
  BY <1>2, <1>3, <1>5, <1>6, EarlierBlock
<1>8. ASSUME NEW a \in CellAddrs, a >= job.off + x + EraseSize PROVE flash[a] = flash0[a]
  <2>1. a >= job.off + y + EraseSize
    BY <1>3, <1>5, <1>7, <1>8, GeometryAssumption DEF CellAddrs
  <2> QED BY <1>4, <2>1 DEF Frontier
<1>9. ~Busy(chip)'
  BY <1>1, DeselectedChip DEF IInv, BusyInv, Settled
<1>10. chip'.addr = NoAddr
  BY <1>1, EndingFrontier DEF RInv
<1>11. Wanted' = Wanted
  BY <1>1 DEF Wanted
<1> QED BY <1>1, <1>2, <1>8, <1>9, <1>10, <1>11 DEF Frontier, WrittenUpTo

LEMMA EndingsRInv ==
  ASSUME ImagesFit, IInv, CInv, RInv, Endings
  PROVE  RInv'
<1>1. PICK t \in Transfers : Deselected(t)
  BY EndingsFollow
<1>2. /\ pc = t /\ Running /\ ~excused /\ job' = job /\ Fits
  BY <1>1, JobsFit DEF Deselected, RInv, HeadInv, Running, Transfers, CommandOf, Ended, IInv, TypeOK
<1>3. /\ chip'.cmd = "none" /\ chip'.addr = NoAddr
      /\ \A y : Frontier(y) => Frontier(y)'
  BY <1>1, EndingFrontier DEF RInv
<1>4. excused' = excused \/ pc' = "fatal"
  BY DEF Endings, GotId, GotStatus, WriteDisabled, AfterStatus, ModeSet, GotMode, Compared,
     EnabledErase, Erasing, ErasePoll, EnabledProgram, Programming, ProgramPoll, Verified,
     TimedOut, GotoKeeping, Goto, Fatal, Dies
<1>5. HeadInv'
  BY <1>2, <1>3, <1>4 DEF HeadInv, Running, Ended
<1>6. pc' \in Writing =>
        \/ pc \in Writing /\ x' = x
        \/ Compared /\ pc' = "wren1" /\ x' = x
  BY DEF Endings, GotId, GotStatus, WriteDisabled, AfterStatus, Moded, ModeSet, GotMode,
     Compared, EnabledErase, Erasing, ErasePoll, EnabledProgram, Programming, ProgramPoll,
     Verified, TimedOut, GotoKeeping, Goto, Fatal, Dies, LoopAt, Deselected, Writing
<1>7. Wanted' = Wanted
  BY <1>2 DEF Wanted
<1>8. FrontierInv'
  <2>1. CASE Compared /\ pc' = "wren1"
    <3>1. Frontier(x)'
      BY <1>2, <2>1, ComparedFrontier
    <3>2. PICK y \in 0 .. Wanted : Frontier(y)
      BY DEF RInv, FrontierInv
    <3>3. y \in 0 .. Wanted' /\ Frontier(y)'
      BY <1>3, <1>7, <3>2
    <3> QED BY <3>1, <3>3 DEF FrontierInv
  <2>2. CASE pc' \in Writing => pc \in Writing /\ x' = x
    BY <1>3, <1>7, <2>2, FrontierGoesOn DEF RInv
  <2> QED BY <1>6, <2>1, <2>2
<1> QED BY <1>5, <1>8 DEF RInv

\* Steps after which the chip is told and does what it did before.
LEMMA QuietRInv ==
  ASSUME RInv, UNCHANGED <<flash, flash0, job>>,
         chip'.sel = chip.sel, chip'.cmd = chip.cmd, chip'.addr = chip.addr, chip'.op = chip.op,
         ~(pc = "prog" /\ io = "addr"), Running' => ~excused',
         pc' \in Writing => pc \in Writing /\ x' = x
  PROVE  RInv'
<1>1. HeadInv'
  BY DEF RInv, HeadInv
<1>2. \A y : Frontier(y) => Frontier(y)'
  BY KeepsFrontier DEF Told, Busy
<1>3. FrontierInv'
  BY <1>2, FrontierGoesOn DEF RInv, Wanted
<1> QED BY <1>1, <1>3 DEF RInv

LEMMA SendOpcodeRInv == ASSUME IInv, RInv, SendOpcode PROVE RInv'
<1>1. /\ pc \in Transfers /\ io = "idle" /\ chip \in Chips
      /\ chip' = Opcode(chip, CommandOf[pc])
      /\ UNCHANGED <<flash, flash0, job, pc, x, excused>>
      /\ pc = "prog" => io' = "addr"
  <2>1. /\ pc \in Transfers /\ io = "idle" /\ chip' = Opcode(chip, CommandOf[pc])
        /\ UNCHANGED <<flash, flash0, job, pc, x, excused>>
    BY DEF SendOpcode, frame
  <2>2. chip \in Chips
    BY DEF IInv, TypeOK
  <2>3. pc = "prog" => io' = "addr"
    BY DEF SendOpcode, Polls
  <2> QED BY <2>1, <2>2, <2>3
<1>2. /\ chip'.sel /\ chip'.addr = chip.addr /\ chip'.op = chip.op
      /\ chip.sel => chip'.cmd = chip.cmd
      /\ ~chip.sel => chip'.cmd = CommandOf[pc] /\ chip.addr = NoAddr
  BY <1>1 DEF Opcode, Chips, RInv, HeadInv
<1>3. CommandOf[pc] = "PP" => pc = "prog"
  BY <1>1 DEF Transfers, CommandOf
<1>4. HeadInv'
  <2>1. chip'.cmd = "PP" /\ chip'.addr = NoAddr => pc = "prog"
    BY <1>1, <1>2, <1>3 DEF RInv, HeadInv
  <2>2. Running' => ~excused'
    BY <1>1 DEF RInv, HeadInv, Running
  <2> QED BY <1>1, <1>2, <2>1, <2>2 DEF HeadInv
<1>5. \A y : Frontier(y) => Frontier(y)'
  BY <1>1, <1>2, KeepsFrontier DEF Told, Busy
<1>6. FrontierInv'
  BY <1>1, <1>5, FrontierGoesOn DEF RInv, Wanted
<1> QED BY <1>4, <1>6 DEF RInv

\* An address is only ever sent for the block the loop is at.
LEMMA SendAddressRInv == ASSUME ImagesFit, IInv, CInv, RInv, SendAddress PROVE RInv'
<1>1. /\ io = "addr" /\ pc \in {"read", "verify", "erase", "prog"} /\ chip \in Chips
      /\ chip' = [chip EXCEPT !.addr = AddressOf % FlashSize]
      /\ UNCHANGED <<flash, flash0, job, pc, x, pos, excused>> /\ job \in Jobs /\ Fits
  BY JobsFit DEF SendAddress, Address, frame, IInv, TypeOK, BusInv
<1>2. /\ chip.cmd = CommandOf[pc] /\ ~Busy(chip) /\ Running /\ ~excused
  BY <1>1 DEF IInv, BusInv, BusyInv, Settled, Running, Ended, RInv, HeadInv
<1>3. chip.cmd # "none" /\ chip.sel
  <2>1. chip.cmd # "none"
    BY <1>1, <1>2 DEF CommandOf
  <2> QED BY <2>1 DEF IInv, BusInv
<1>4. /\ chip'.sel = chip.sel /\ chip'.cmd = chip.cmd /\ chip'.op = chip.op
      /\ chip'.addr = AddressOf % FlashSize
  BY <1>1 DEF Chips
<1>5. AddressOf % FlashSize # NoAddr
  <2>1. AddressOf \in Int
    BY <1>1, WantedNat DEF AddressOf, Sector, IInv, TypeOK
  <2>2. AddressOf % FlashSize \in CellAddrs
    BY <2>1, ModInRange
  <2> QED BY <2>2, GeometryAssumption DEF CellAddrs, NoAddr
<1>6. HeadInv'
  BY <1>1, <1>2, <1>3, <1>4, <1>5 DEF HeadInv, Running
<1>7. CASE pc \in {"read", "verify"}
  <2>1. chip'.cmd = "READ"
    BY <1>2, <1>4, <1>7 DEF CommandOf
  <2>2. \A y : Frontier(y) => Frontier(y)'
    BY <1>1, <1>2, <1>4, <2>1, KeepsFrontier DEF Told, Busy
  <2>3. FrontierInv'
    BY <1>1, <2>2, FrontierGoesOn DEF RInv, Wanted
  <2> QED BY <1>6, <2>3 DEF RInv
<1>8. CASE pc \in {"erase", "prog"}
  <2>1. pc \in InBlock /\ pc \in Writing /\ Frontier(x) /\ ContentInv
    BY <1>8 DEF InBlock, Writing, RInv, FrontierInv, CInv
  <2>2. /\ x \in Nat /\ pos \in Nat /\ job.off \in Nat /\ Wanted \in Nat /\ EraseSize \in Nat \ {0}
        /\ Chunk \in 1 .. EraseSize /\ x < Wanted /\ pos < Chunk /\ Sector = job.off + x
        /\ \A i \in 1 .. EraseSize : Sector + i - 1 \in CellAddrs
    BY <1>1, <2>1, BlockFacts
  <2>3. \E i \in 1 .. EraseSize : AddressOf = Sector + i - 1
    <3>1. CASE pc = "erase"
      <4>1. AddressOf = Sector + 1 - 1 /\ 1 \in 1 .. EraseSize
        BY <2>2, <3>1 DEF AddressOf
      <4> QED BY <4>1
    <3>2. CASE pc = "prog"
      <4>1. AddressOf = Sector + (pos + 1) - 1 /\ pos + 1 \in 1 .. EraseSize
        <5>1. AddressOf = Sector + pos
          BY <3>2 DEF AddressOf
        <5> HIDE DEF Chunk, Sector
        <5> QED BY <2>2, <5>1
      <4> QED BY <4>1
    <3> QED BY <1>8, <3>1, <3>2
  <2>4. PICK i \in 1 .. EraseSize : AddressOf = Sector + i - 1
    BY <2>3
  <2>5. chip'.addr = job.off + x + i - 1
    <3>1. AddressOf % FlashSize = Sector + i - 1
      BY <2>2, <2>4, SmallMod
    <3> HIDE DEF AddressOf
    <3> QED BY <1>4, <2>2, <3>1
  <2>6. Wanted' = Wanted
    BY <1>1 DEF Wanted
  <2>7. Aims(chip.addr, x)'
    <3>1. job.off % EraseSize = 0
      BY <2>1 DEF ContentInv
    <3>2. job.off + x <= chip'.addr /\ chip'.addr < job.off + x + EraseSize
      BY ONLY <2>2, <2>5, i \in 1 .. EraseSize
    <3> QED BY <1>1, <2>2, <2>6, <3>1, <3>2 DEF Aims
  <2>8. ~Busy(chip)'
    BY <1>2, <1>4 DEF Busy
  <2>9. Frontier(x)'
    BY <1>1, <2>1, <2>6, <2>7, <2>8 DEF Frontier, WrittenUpTo
  <2>10. x' \in 0 .. Wanted'
    <3> HIDE DEF Wanted
    <3> QED BY <1>1, <2>2, <2>6
  <2>11. \E y \in 0 .. Wanted' : Frontier(y)'
    <3>1. PICK y : y = x
      OBVIOUS
    <3>2. y \in 0 .. Wanted' /\ Frontier(y)'
      BY <1>1, <2>9, <2>10, <3>1 DEF Frontier, WrittenUpTo, Aims
    <3> QED BY <3>2
  <2> QED BY <1>6, <2>9, <2>11 DEF RInv, FrontierInv
<1> QED BY <1>1, <1>7, <1>8

LEMMA OtherRInv ==
  ASSUME Obedient, IInv, RInv,
         \/ SendData \/ ReadIn \/ ReadPanic \/ SetCtl \/ Kill
         \/ \E mode \in SpiModes : Start(mode)
  PROVE  RInv'
<1>1. UNCHANGED <<flash, flash0, job>> /\ chip \in Chips
  BY DEF SendData, ReadIn, ReadPanic, SetCtl, Kill, Start, frame, IInv, TypeOK
<1>2. /\ chip'.sel = chip.sel /\ chip'.cmd = chip.cmd /\ chip'.addr = chip.addr
      /\ chip'.op = chip.op
  <2>1. CASE SendData
    BY <1>1, <2>1 DEF SendData, Chips
  <2>2. CASE UNCHANGED chip
    BY <2>2
  <2> QED BY <2>1, <2>2 DEF ReadIn, ReadPanic, SetCtl, Kill, Start
<1>3. ~(pc = "prog" /\ io = "addr")
  BY DEF SendData, ReadIn, ReadPanic, SetCtl, Kill, Start, Running, Ended, Obedient
<1>4. Running' => ~excused'
  BY DEF SendData, ReadIn, ReadPanic, SetCtl, Kill, Start, Dies, frame, Running, Ended, RInv, HeadInv
<1>5. pc' \in Writing => pc \in Writing /\ x' = x
  BY DEF SendData, ReadIn, ReadPanic, SetCtl, Kill, Start, Dies, frame, Writing
<1> QED BY <1>1, <1>2, <1>3, <1>4, <1>5, QuietRInv

LEMMA FinishRInv == ASSUME ImagesFit, IInv, RInv, ChipFinishes PROVE RInv'
<1>1. /\ chip \in Chips /\ job \in Jobs /\ Fits
      /\ chip' = [chip EXCEPT !.op = NoOperation, !.wel = FALSE, !.flags = chip.flags]
      /\ UNCHANGED <<io, pc, x, job, excused>>
  BY JobsFit DEF IInv, TypeOK, ChipFinishes, OpDone, frame
<1>2. chip'.sel = chip.sel /\ chip'.cmd = chip.cmd /\ chip'.addr = chip.addr
  BY <1>1 DEF Chips
<1>3. HeadInv'
  BY <1>1, <1>2 DEF RInv, HeadInv, Running
<1>4. Wanted \in Nat
  BY <1>1, WantedNat
<1>5. \A y \in Nat : Frontier(y) => Frontier(y)'
  BY <1>1, FinishFrontier
<1>6. Wanted' = Wanted
  BY <1>1 DEF Wanted
<1>7. PICK y \in 0 .. Wanted : Frontier(y)
  BY DEF RInv, FrontierInv
<1>8. y \in 0 .. Wanted' /\ Frontier(y)'
  <2>1. y \in Nat
    BY <1>4
  <2> QED BY <1>5, <1>6, <1>7, <2>1
<1>9. ASSUME pc' \in Writing PROVE Frontier(x)'
  <2>1. Frontier(x) /\ x \in Nat
    BY <1>1, <1>4, <1>9 DEF RInv, FrontierInv, IInv, TypeOK
  <2>2. PICK z \in Nat : z = x
    BY <2>1
  <2>3. Frontier(z)'
    BY <1>5, <2>1, <2>2
  <2> QED BY <1>1, <2>2, <2>3 DEF Frontier, WrittenUpTo, Aims
<1> QED BY <1>3, <1>8, <1>9 DEF RInv, FrontierInv

LEMMA InitRInv == ASSUME ImagesFit, Init PROVE RInv
<1>1. /\ pc = "off" /\ flash = flash0 /\ job \in Jobs /\ excused = FALSE
      /\ ~Busy(chip) /\ chip.cmd = "none" /\ chip.addr = NoAddr
  BY DEF Init, ReadyChip, Busy
<1>2. Wanted \in Nat
  BY <1>1, WantedNat
<1>3. WrittenUpTo(0)
  <2> HIDE DEF Wanted
  <2> QED BY <1>2 DEF WrittenUpTo
<1>4. Frontier(0)
  BY <1>1, <1>3, Multiples DEF Frontier
<1>5. 0 \in 0 .. Wanted
  <2> HIDE DEF Wanted
  <2> QED BY <1>2
<1> QED BY <1>1, <1>4, <1>5 DEF RInv, HeadInv, FrontierInv, Writing

LEMMA NextRInv == ASSUME Obedient, ImagesFit, IInv, CInv, RInv, [Next]_vars PROVE RInv'
<1>1. CASE UNCHANGED vars
  <2>1. UNCHANGED <<flash, flash0, job, chip, pc, io, x, excused>>
    BY <1>1 DEF vars
  <2>2. HeadInv'
    BY <2>1 DEF RInv, HeadInv, Running
  <2>3. \A y : Frontier(y) => Frontier(y)'
    BY <2>1, KeepsFrontier DEF Told, Busy
  <2>4. FrontierInv'
    BY <2>1, <2>3, FrontierGoesOn DEF RInv, Wanted
  <2> QED BY <2>2, <2>4 DEF RInv
<1>2. ~ChipRejects
  BY DEF ChipRejects, Obedient
<1> QED BY <1>1, <1>2, EndingsRInv, SendOpcodeRInv, SendAddressRInv, OtherRInv, FinishRInv
        DEF Next, Program, Endings

-----------------------------------------------------------------------------
(* The refinement of BlockWrite                                            *)

\* The blocks of the area are those that begin inside the image.
LEMMA BlockNumbers ==
  ASSUME job \in Jobs
  PROVE  /\ NBlocks \in Nat
         /\ \A b \in Nat : b * EraseSize < Wanted => b \in 0 .. NBlocks - 1
         /\ \A b \in 0 .. NBlocks - 1 : b * EraseSize < Wanted
<1> DEFINE E == EraseSize
           W == Wanted
           n == NBlocks
           r == (W + E - 1) % E
<1>1. E \in Nat \ {0} /\ W \in Nat
  BY WantedNat, GeometryAssumption
<1>2. W + E - 1 = E * n + r /\ n \in Nat /\ r \in 0 .. E - 1
  <2>1. W + E - 1 \in Nat
    <3> HIDE DEF W
    <3> QED BY <1>1
  <2>2. n = (W + E - 1) \div E
    BY DEF NBlocks
  <2> HIDE DEF W
  <2> QED BY <1>1, <2>1, <2>2, Division
<1> HIDE DEF E, W, n, r
<1>3. ASSUME NEW b \in Nat, b * E < W PROVE b \in 0 .. n - 1
  <2> SUFFICES ASSUME b >= n PROVE FALSE
    BY <1>2
  <2>1. b * E >= E * n
    BY <1>1, <1>2
  <2> QED BY <1>1, <1>2, <1>3, <2>1
<1>4. ASSUME NEW b \in 0 .. n - 1 PROVE b * E < W
  <2>1. b \in Nat /\ b + 1 <= n
    BY <1>2
  <2>2. E * (b + 1) <= E * n /\ E * (b + 1) = b * E + E
    BY <1>1, <1>2, <2>1
  <2>3. b * E \in Nat /\ E * n \in Nat
    BY <1>1, <1>2, <2>1
  <2> QED BY <1>1, <1>2, <2>2, <2>3
<1> QED BY <1>2, <1>3, <1>4 DEF E, W, n

\* The blocks of an aligned image that fits are blocks of the chip.
LEMMA AreaOnChip ==
  ASSUME job \in Jobs, Fits, job.off % EraseSize = 0, NEW b \in 0 .. NBlocks - 1,
         NEW i \in 1 .. EraseSize
  PROVE  job.off + b * EraseSize + i - 1 \in CellAddrs
<1>1. /\ Wanted \in Nat /\ job.off \in Nat /\ EraseSize \in Nat \ {0} /\ FlashSize \in Nat
      /\ NBlocks \in Nat /\ b * EraseSize < Wanted
  BY WantedNat, GeometryAssumption, BlockNumbers
<1>2. b \in Nat /\ b * EraseSize \in Nat
  <2> HIDE DEF NBlocks
  <2> QED BY <1>1
<1>3. (b * EraseSize) % EraseSize = 0
  BY <1>1, <1>2
<1>4. (job.off + b * EraseSize) % EraseSize = 0
  <2> DEFINE s == b * EraseSize
  <2>1. s \in Int /\ job.off \in Int /\ s % EraseSize = 0 /\ job.off % EraseSize = 0
    BY <1>1, <1>2, <1>3
  <2> HIDE DEF s
  <2>2. (job.off + s) % EraseSize = 0
    BY <2>1, MultipleSum
  <2> QED BY <2>2 DEF s
<1>5. job.off + b * EraseSize \in CellAddrs
  <2> DEFINE s == b * EraseSize
  <2> HIDE DEF s, Wanted
  <2> QED BY <1>1, <1>2 DEF CellAddrs, Fits, s
<1>6. job.off + b * EraseSize + EraseSize <= FlashSize
  BY <1>4, <1>5, BlockOnChip
<1> DEFINE s == job.off + b * EraseSize
<1>7. s \in Nat /\ s + EraseSize <= FlashSize /\ i \in Nat /\ 1 <= i /\ i <= EraseSize
  BY <1>1, <1>2, <1>6
<1> HIDE DEF s
<1>8. s + i - 1 \in CellAddrs
  BY <1>1, <1>7 DEF CellAddrs
<1> QED BY <1>8 DEF s

LEMMA WrittenIsGood ==
  ASSUME job \in Jobs, NEW b \in 0 .. NBlocks - 1,
         \A i \in 1 .. Wanted : i <= b * EraseSize + EraseSize => flash[job.off + i - 1] = job.buf[i]
  PROVE  Update!Good(b)
<1> DEFINE s == b * EraseSize
           n == Smaller(EraseSize, Wanted - s)
<1>1. /\ Wanted \in Nat /\ job.off \in Nat /\ EraseSize \in Nat \ {0}
      /\ NBlocks \in Nat /\ s < Wanted
  BY WantedNat, GeometryAssumption, BlockNumbers
<1>2. s \in Nat
  <2> HIDE DEF NBlocks
  <2> QED BY <1>1
<1> SUFFICES ASSUME NEW i \in 1 .. n PROVE flash[job.off + s + i - 1] = job.buf[s + i]
  <2>1. \A k \in 1 .. n : k \in 1 .. EraseSize
    <3> HIDE DEF s, Wanted
    <3> QED BY <1>1, <1>2 DEF Smaller
  <2> QED BY <2>1 DEF Update!Good, BlocksOf
<1>3. s + i \in 1 .. Wanted /\ s + i <= s + EraseSize /\ job.off + (s + i) - 1 = job.off + s + i - 1
  <2> HIDE DEF s, Wanted
  <2> QED BY <1>1, <1>2 DEF Smaller
<1>4. flash[job.off + (s + i) - 1] = job.buf[s + i]
  BY <1>3
<1> QED BY <1>3, <1>4

LEMMA StillArea ==
  ASSUME UNCHANGED <<flash, flash0, job>>
  PROVE  UNCHANGED <<BlocksOf(flash), BlocksOf(flash0),
                     [a \in {c \in CellAddrs : ~Covered(c)} |-> flash[a]],
                     [b \in 0 .. NBlocks - 1 |->
                        [i \in 1 .. Smaller(EraseSize, Wanted - b * EraseSize) |->
                           job.buf[b * EraseSize + i]]]>>
BY DEF BlocksOf, NBlocks, Wanted, Covered

\* A run ends well from the last comparison only.
LEMMA OnlyVerifiedIsDone == ASSUME [Next]_vars, pc' = "done", pc # "done" PROVE pc = "verify"
BY DEF Next, vars, Program, SendOpcode, SendAddress, SendData, ReadIn, ReadPanic, SetCtl, Kill, Start,
   ChipFinishes, ChipRejects, frame, GotId, GotStatus, WriteDisabled, AfterStatus, Moded, ModeSet,
   GotMode, Compared, EnabledErase, Erasing, ErasePoll, EnabledProgram, Programming, ProgramPoll,
   Verified, TimedOut, GotoKeeping, Goto, Fatal, Dies, LoopAt, Deselected

LEMMA EachBlockGood ==
  ASSUME job \in Jobs, Fits,
         \A i \in 1 .. Wanted : flash[(job.off + i - 1) % FlashSize] = job.buf[i]
  PROVE  \A b \in 0 .. NBlocks - 1 : Update!Good(b)
<1>1. job.off \in Nat /\ Wanted \in Nat /\ FlashSize \in Nat
  BY WantedNat, GeometryAssumption
<1>2. ASSUME NEW i \in 1 .. Wanted PROVE flash[job.off + i - 1] = job.buf[i]
  <2>1. job.off + i - 1 \in CellAddrs
    <3> HIDE DEF Wanted
    <3> QED BY <1>1 DEF CellAddrs, Fits
  <2>2. (job.off + i - 1) % FlashSize = job.off + i - 1
    BY <2>1, SmallMod
  <2> QED BY <2>2
<1> QED BY <1>2, WrittenIsGood

\* Whatever leaves the flash alone begins, ends or goes on with a run.
LEMMA StatusStep ==
  ASSUME ImagesFit, IInv, [Next]_vars, UNCHANGED <<flash, flash0, job>>
  PROVE  [Update!Next]_(Update!blockVars)
<1> DEFINE status == IF Running THEN "running" ELSE IF pc = "done" THEN "ok" ELSE "ended"
<1>1. UNCHANGED <<BlocksOf(flash), BlocksOf(flash0),
                  [a \in {c \in CellAddrs : ~Covered(c)} |-> flash[a]],
                  [b \in 0 .. NBlocks - 1 |->
                     [i \in 1 .. Smaller(EraseSize, Wanted - b * EraseSize) |->
                        job.buf[b * EraseSize + i]]]>>
  BY StillArea
<1>2. CASE status' = status
  BY <1>1, <1>2 DEF Update!blockVars
<1>3. CASE status' # status /\ status # "running"
  <2>1. status' \in {"running", "ended"}
    BY <1>3, OnlyVerifiedIsDone DEF Running, Ended
  <2>2. Update!Begin
    BY <1>1, <1>3, <2>1 DEF Update!Begin
  <2> QED BY <2>2 DEF Update!Next
<1>4. CASE status = "running" /\ status' = "ended"
  BY <1>1, <1>4 DEF Update!Stop, Update!Next
<1>5. CASE status = "running" /\ status' = "ok"
  <2>1. pc' = "done"
    BY <1>5
  <2>2. job \in Jobs /\ Fits /\ DoneMeansWritten'
    BY JobsFit, NextIInv DEF IInv, TypeOK
  <2>3. \A i \in 1 .. Wanted : flash[(job.off + i - 1) % FlashSize] = job.buf[i]
    BY <2>1, <2>2 DEF DoneMeansWritten, Wanted
  <2>4. \A b \in 0 .. NBlocks - 1 : Update!Good(b)
    BY <2>2, <2>3, EachBlockGood
  <2>5. Update!Succeed
    BY <1>1, <1>5, <2>4 DEF Update!Succeed, BlocksOf
  <2> QED BY <2>5 DEF Update!Next
<1> QED BY <1>2, <1>3, <1>4, <1>5

\* What the chip finishes, it finishes in the block at the frontier.
LEMMA FinishStep ==
  ASSUME ImagesFit, IInv, RInv, ChipFinishes
  PROVE  Update!Next
<1>1. /\ job \in Jobs /\ Fits /\ UNCHANGED <<pc, job, flash0>>
  BY JobsFit DEF ChipFinishes, frame, IInv, TypeOK
<1>2. /\ Wanted \in Nat /\ job.off \in Nat /\ EraseSize \in Nat \ {0} /\ NBlocks \in Nat
  BY <1>1, WantedNat, GeometryAssumption, BlockNumbers
<1>3. PICK y \in 0 .. Wanted : Frontier(y)
  BY DEF RInv, FrontierInv
<1>4. y \in Nat /\ y % EraseSize = 0
  BY <1>2, <1>3 DEF Frontier
<1>5. /\ Aims(chip.op.addr, y)
      /\ \A i \in CellAddrs : i < job.off + y \/ i >= job.off + y + EraseSize => flash'[i] = flash[i]
  BY <1>1, <1>3, <1>4, FinishFrontier
<1>6. y < Wanted /\ job.off % EraseSize = 0
  BY <1>5 DEF Aims
<1> DEFINE b == y \div EraseSize
<1>7. b \in Nat /\ y = b * EraseSize
  <2>1. y = EraseSize * b + 0 /\ b \in Nat
    BY <1>2, <1>4, Division
  <2> HIDE DEF b
  <2> QED BY <1>2, <2>1
<1> HIDE DEF b
<1>8. b \in 0 .. NBlocks - 1
  BY <1>1, <1>6, <1>7, BlockNumbers
<1>9. ASSUME NEW c \in 0 .. NBlocks - 1
      PROVE  /\ c \in Nat /\ c * EraseSize \in Nat
             /\ c < b => c * EraseSize + EraseSize <= y
             /\ c > b => y + EraseSize <= c * EraseSize
  <2>1. c \in Nat /\ c * EraseSize \in Nat
    BY <1>2
  <2>2. ASSUME NEW u \in Nat, NEW v \in Nat, u < v
        PROVE  u * EraseSize + EraseSize <= v * EraseSize
    <3>1. (u + 1) * EraseSize <= v * EraseSize
      BY <1>2, <2>2
    <3>2. (u + 1) * EraseSize = u * EraseSize + EraseSize
      BY <1>2
    <3> QED BY <3>1, <3>2
  <2> QED BY <1>7, <2>1, <2>2
<1>10. ASSUME NEW c \in 0 .. NBlocks - 1, c < b PROVE Update!Good(c)
  <2>1. c * EraseSize + EraseSize <= y /\ c * EraseSize + EraseSize \in Nat
    BY <1>2, <1>9, <1>10
  <2>2. ASSUME NEW i \in 1 .. Wanted, i <= c * EraseSize + EraseSize
        PROVE  flash[job.off + i - 1] = job.buf[i]
    <3>1. i <= y
      <4> DEFINE e == c * EraseSize + EraseSize
      <4> HIDE DEF e, Wanted
      <4> QED BY <1>2, <1>4, <2>1, <2>2 DEF e
    <3> QED BY <1>3, <3>1 DEF Frontier, WrittenUpTo
  <2> QED BY <1>1, <2>2, WrittenIsGood
<1>11. ASSUME NEW c \in 0 .. NBlocks - 1, NEW i \in 1 .. EraseSize
       PROVE  /\ job.off + c * EraseSize + i - 1 \in CellAddrs
              /\ c > b => job.off + c * EraseSize + i - 1 >= job.off + y + EraseSize
              /\ c < b => job.off + c * EraseSize + i - 1 < job.off + y
  <2>1. job.off + c * EraseSize + i - 1 \in CellAddrs
    BY <1>1, <1>6, AreaOnChip
  <2> DEFINE s == c * EraseSize
  <2>2. /\ s \in Nat /\ (c < b => s + EraseSize <= y) /\ (c > b => y + EraseSize <= s)
        /\ i \in Nat /\ 1 <= i /\ i <= EraseSize
    BY <1>2, <1>9
  <2> HIDE DEF s
  <2>3. /\ c > b => job.off + s + i - 1 >= job.off + y + EraseSize
        /\ c < b => job.off + s + i - 1 < job.off + y
    BY <1>2, <1>4, <2>2
  <2> QED BY <2>1, <2>3 DEF s
<1>12. ASSUME NEW c \in 0 .. NBlocks - 1, c > b PROVE BlocksOf(flash)[c] = BlocksOf(flash0)[c]
  <2>1. \A i \in 1 .. EraseSize : flash[job.off + c * EraseSize + i - 1] = flash0[job.off + c * EraseSize + i - 1]
    BY <1>3, <1>11, <1>12 DEF Frontier
  <2> QED BY <2>1 DEF BlocksOf
<1>13. Wanted' = Wanted /\ NBlocks' = NBlocks
  BY <1>1 DEF Wanted, NBlocks
<1>14. ASSUME NEW c \in 0 .. NBlocks - 1, c # b PROVE BlocksOf(flash)'[c] = BlocksOf(flash)[c]
  <2>1. c < b \/ c > b
    BY <1>7, <1>9, <1>14
  <2>2. \A i \in 1 .. EraseSize :
          flash'[job.off + c * EraseSize + i - 1] = flash[job.off + c * EraseSize + i - 1]
    BY <1>5, <1>11, <2>1
  <2> QED BY <1>1, <1>13, <2>2 DEF BlocksOf
<1>15. DOMAIN BlocksOf(flash) = 0 .. NBlocks - 1 /\ DOMAIN BlocksOf(flash)' = 0 .. NBlocks - 1
  BY <1>13 DEF BlocksOf
<1>16. /\ BlocksOf(flash0)' = BlocksOf(flash0)
       /\ UNCHANGED [c \in 0 .. NBlocks - 1 |->
                       [i \in 1 .. Smaller(EraseSize, Wanted - c * EraseSize) |->
                          job.buf[c * EraseSize + i]]]
       /\ UNCHANGED (IF Running THEN "running" ELSE IF pc = "done" THEN "ok" ELSE "ended")
  BY <1>1, <1>13 DEF BlocksOf, Running
<1>17. UNCHANGED [a \in {c \in CellAddrs : ~Covered(c)} |-> flash[a]]
  <2>1. \A a : Covered(a)' <=> Covered(a)
    BY <1>1, <1>13 DEF Covered
  <2>2. ASSUME NEW a \in CellAddrs, ~Covered(a) PROVE flash'[a] = flash[a]
    <3>1. NBlocks * EraseSize >= y + EraseSize /\ NBlocks * EraseSize \in Nat
      <4>1. (b + 1) * EraseSize <= NBlocks * EraseSize
        <5>1. b + 1 \in Nat /\ b + 1 <= NBlocks
          BY <1>2, <1>7, <1>8
        <5> HIDE DEF NBlocks
        <5> QED BY <1>2, <5>1
      <4>2. (b + 1) * EraseSize = b * EraseSize + EraseSize
        BY <1>2, <1>7
      <4>3. NBlocks * EraseSize \in Nat
        <5> HIDE DEF NBlocks
        <5> QED BY <1>2
      <4> QED BY <1>7, <4>1, <4>2, <4>3
    <3>2. a < job.off + y \/ a >= job.off + y + EraseSize
      <4> DEFINE e == NBlocks * EraseSize
      <4>1. a < job.off \/ a >= job.off + e
        BY <1>2, <2>2, <3>1, GeometryAssumption DEF Covered, CellAddrs
      <4>2. e \in Nat /\ e >= y + EraseSize /\ a \in Nat
        BY <3>1 DEF CellAddrs
      <4> HIDE DEF e
      <4> QED BY <1>2, <1>4, <4>1, <4>2
    <3> QED BY <1>5, <3>2
  <2> QED BY <2>1, <2>2
<1>18. Update!Change(b)
  BY <1>10, <1>12, <1>14, <1>15, <1>16, <1>17 DEF Update!Change
<1> QED BY <1>8, <1>15, <1>18 DEF Update!Next

LEMMA NextUpdate ==
  ASSUME Obedient, ImagesFit, IInv, RInv, [Next]_vars
  PROVE  [Update!Next]_(Update!blockVars)
<1>1. CASE ChipFinishes
  BY <1>1, FinishStep
<1>2. CASE ~ChipFinishes
  <2>1. UNCHANGED <<flash, flash0, job>>
    BY <1>2 DEF Next, vars, Program, SendOpcode, SendAddress, SendData, ReadIn, ReadPanic, SetCtl,
       Kill, Start, ChipRejects, frame, GotId, GotStatus, WriteDisabled, AfterStatus, ModeSet,
       GotMode, Compared, EnabledErase, Erasing, ErasePoll, EnabledProgram, Programming,
       ProgramPoll, Verified, TimedOut, Deselected
  <2> QED BY <2>1, StatusStep
<1> QED BY <1>1, <1>2

\* For a chip that does what it is told, images that fit, and kills that do not cut
\* a program command before its address, the blocks take their new contents from the
\* first to the last, one at a time, however often a run is killed and another one
\* started; the rest of the flash is never touched, and success is reported only
\* when every block holds the image.
THEOREM WritesBlockByBlock ==
  ASSUME Obedient, ImagesFit
  PROVE  Spec => BlockByBlock
<1>1. Init => IInv /\ CInv /\ RInv
  BY InitIInv, InitCInv, InitRInv
<1>2. IInv /\ CInv /\ RInv /\ [Next]_vars => (IInv /\ CInv /\ RInv)'
  BY NextIInv, NextCInv, NextRInv
<1>3. Init => Update!Init
  BY DEF Init, Update!Init, BlocksOf, Running, Ended
<1>4. IInv /\ RInv /\ [Next]_vars => [Update!Next]_(Update!blockVars)
  BY NextUpdate
<1> QED BY <1>1, <1>2, <1>3, <1>4, PTL DEF Spec, BlockByBlock, Update!Spec
-----------------------------------------------------------------------------
(* What a write may touch                                                  *)

\* The rest of the flash is as it was before the first run.
RestKept == \A a \in CellAddrs : ~Covered(a) => flash[a] = flash0[a]

LEMMA JobKept == [Next]_vars => UNCHANGED <<job, flash0>>
BY DEF Next, vars, Program, SendOpcode, SendAddress, SendData, ReadIn, ReadPanic, SetCtl,
   Kill, Start, ChipFinishes, ChipRejects, frame, GotId, GotStatus, WriteDisabled, AfterStatus,
   ModeSet, GotMode, Compared, EnabledErase, Erasing, ErasePoll, EnabledProgram, Programming,
   ProgramPoll, Verified, TimedOut, Deselected

LEMMA NextRestKept ==
  ASSUME Obedient, ImagesFit, IInv, RInv, RestKept, [Next]_vars
  PROVE  RestKept'
<1>1. Update!blockVars' = Update!blockVars \/ Update!Next
  BY NextUpdate
<1>2. UNCHANGED [a \in {c \in CellAddrs : ~Covered(c)} |-> flash[a]]
  BY <1>1 DEF Update!blockVars, Update!Next, Update!Begin, Update!Succeed, Update!Stop,
     Update!Change
<1>3. UNCHANGED <<job, flash0>>
  BY JobKept
<1>4. \A a : Covered(a)' <=> Covered(a)
  BY <1>3 DEF Covered, NBlocks, Wanted
<1>5. ASSUME NEW a \in CellAddrs, ~Covered(a) PROVE flash'[a] = flash[a]
  <2> DEFINE outside == {c \in CellAddrs : ~Covered(c)}
  <2>1. [b \in outside |-> flash'[b]] = [b \in outside |-> flash[b]] /\ a \in outside
    BY <1>2, <1>4, <1>5
  <2> HIDE DEF outside
  <2>2. [b \in outside |-> flash'[b]][a] = flash'[a] /\ [b \in outside |-> flash[b]][a] = flash[a]
    BY <2>1
  <2> QED BY <2>1, <2>2
<1> QED BY <1>3, <1>4, <1>5 DEF RestKept

\* What RestKept says of images that are whole erase blocks.
WholeBlocks ==
  \A j \in Jobs : (IF j.len > 0 THEN j.len ELSE Len(j.buf)) % EraseSize = 0

LEMMA WholeBlocksCover ==
  ASSUME WholeBlocks, job \in Jobs, NEW a \in CellAddrs, Covered(a)
  PROVE  job.off <= a /\ a < job.off + Wanted
<1>1. /\ Wanted \in Nat /\ Wanted % EraseSize = 0 /\ EraseSize \in Nat \ {0}
      /\ job.off \in Nat /\ a \in Nat
  BY WantedNat, GeometryAssumption DEF WholeBlocks, Wanted, CellAddrs
<1>2. PICK w \in Nat, e \in Nat \ {0} : w = Wanted /\ e = EraseSize /\ w % e = 0
  BY <1>1
<1>3. PICK q \in Nat : w = e * q
  <2>1. w \div e \in Nat /\ w = e * (w \div e) + (w % e)
    BY <1>2, Division
  <2>2. w = e * (w \div e)
    <3> HIDE <1>2
    <3>1. PICK k \in Nat : k = e * (w \div e)
      BY <2>1
    <3> QED BY <1>2, <2>1, <3>1
  <2> QED BY <2>1, <2>2
<1>4. NBlocks * e <= w
  <2>1. PICK m \in Nat : m = NBlocks /\ \A b \in 0 .. m - 1 : b * e < w
    BY <1>2, BlockNumbers
  <2>2. CASE m = 0
    BY <1>2, <2>1, <2>2
  <2>3. CASE m # 0
    <3>1. m - 1 \in Nat /\ (m - 1) * e < e * q
      BY <1>3, <2>1, <2>3
    <3>2. m <= q
      <4> SUFFICES ASSUME m > q PROVE FALSE
        BY <1>3, <2>1
      <4>1. m - 1 >= q
        BY <1>3, <2>1
      <4>2. (m - 1) * e >= e * q
        BY <1>2, <1>3, <3>1, <4>1
      <4>3. (m - 1) * e \in Int /\ e * q \in Int
        BY <1>2, <1>3, <3>1
      <4> QED BY <3>1, <4>2, <4>3
    <3>3. m * e <= e * q
      BY <1>2, <1>3, <2>1, <3>2
    <3> QED BY <1>3, <2>1, <3>3
  <2> QED BY <2>2, <2>3
<1>5. job.off <= a /\ a < job.off + NBlocks * e
  BY <1>2 DEF Covered
<1>6. PICK z \in Int : z = NBlocks * e
  BY <1>1, <1>2, BlockNumbers
<1> QED BY <1>1, <1>2, <1>4, <1>5, <1>6

LEMMA RestKeptAlways ==
  ASSUME Obedient, ImagesFit
  PROVE  Spec => [](IInv /\ CInv /\ RInv /\ RestKept)
<1>1. Init => IInv /\ CInv /\ RInv /\ RestKept
  BY InitIInv, InitCInv, InitRInv DEF Init, RestKept
<1>2. IInv /\ CInv /\ RInv /\ RestKept /\ [Next]_vars => (IInv /\ CInv /\ RInv /\ RestKept)'
  BY NextIInv, NextCInv, NextRInv, NextRestKept
<1> QED BY <1>1, <1>2, PTL DEF Spec

\* As far as the run that refutes it goes: for images that are whole erase blocks
\* only the cells asked for change, so what is lost is the rest of the last block.
THEOREM WholeBlocksTouchOnlyRange ==
  ASSUME Obedient, ImagesFit, WholeBlocks
  PROVE  Spec => []OnlyRangeTouched
<1>1. IInv /\ RestKept => OnlyRangeTouched
  <2> SUFFICES ASSUME IInv, RestKept, NEW a \in CellAddrs,
                      a < job.off \/ a >= job.off + Wanted
               PROVE  flash[a] = flash0[a]
    BY DEF OnlyRangeTouched
  <2>1. job \in Jobs /\ Wanted \in Nat /\ job.off \in Nat /\ a \in Nat
    BY WantedNat, GeometryAssumption DEF IInv, TypeOK, CellAddrs
  <2>2. ~Covered(a)
    <3>1. Covered(a) => job.off <= a /\ a < job.off + Wanted
      BY <2>1, WholeBlocksCover
    <3>2. PICK w \in Nat, o \in Nat : w = Wanted /\ o = job.off
      BY <2>1
    <3> QED BY <2>1, <3>1, <3>2
  <2> QED BY <2>2 DEF RestKept
<1> QED BY <1>1, RestKeptAlways, PTL
=============================================================================
