------------------------------- MODULE Kpoke -------------------------------
(***************************************************************************)
(* cmds/kpoke: one access of 1, 2, 4 or 8 bytes, or a block of words, at   *)
(* any physical address, through a mapping that kpoke sizes itself.  The   *)
(* slices of pmem only check the first byte of an access.                  *)
(***************************************************************************)
EXTENDS Integers

CONSTANTS Offsets,   \* of the address in its page
          Lengths    \* of a block, as parsed: they may be negative

PgSize == 4096
Widths == {1, 2, 4, 8}

OffsetsAssumption == Offsets \subseteq 0..PgSize - 1
LengthsAssumption == Lengths \subseteq Int

VARIABLES
  off, ioLen, block,  \* a block of ioLen bytes, or a single access with ioLen 0
  width,      \* of an access, 4 in a block; 0 for a letter the switches do not know
  write,
  via,        \* mapFn: pmem.Map, pmem.FileMap, ast.Map
  mapped,     \* bytes of the mapping
  i,          \* of the loops
  pc,         \* "dead" after a panic or log.Fatal
  touched     \* the bytes the latest access asks for, first and one past the last

job == <<off, ioLen, block, width, write, via>>
vars == <<job, mapped, i, pc, touched>>

TypeOK ==
  /\ off \in 0..PgSize - 1 /\ ioLen \in Int /\ block \in BOOLEAN /\ width \in Widths \cup {0}
  /\ write \in BOOLEAN /\ via \in {"mmap", "file", "p2a"}
  /\ mapped \in Nat /\ i \in Nat /\ i % 4 = 0
  /\ pc \in {"map", "one", "block", "stdin", "done", "dead"}
  /\ touched \in Nat \X Nat

Init ==
  /\ off \in Offsets /\ block \in BOOLEAN /\ write \in BOOLEAN /\ via \in {"mmap", "file", "p2a"}
  /\ \/ ~block /\ ioLen = 0 /\ width \in Widths \cup {0}
     \/ block /\ ioLen \in Lengths /\ width = 4
  /\ mapped = 0 /\ i = 0 /\ pc = "map" /\ touched = <<0, 0>>
-----------------------------------------------------------------------------
\* The rounding, -n & 4095, of kpoke, Map and FileMap.
Padding(n) == (-n) % PgSize

\* The same, of the length alone.
MapLenOfBlock(o, n) == IF n > PgSize THEN n + Padding(n) ELSE 0

MapLen(o, n) == IF o + n > PgSize THEN o + n + Padding(o + n) ELSE 0

\* Any of the three may fail, which is fatal.
Map ==
  LET n == IF MapLen(off, ioLen) = 0 THEN PgSize ELSE MapLen(off, ioLen) IN
  /\ pc = "map"
  /\ mapped' = IF via = "p2a" THEN n ELSE n + Padding(n)
  /\ pc' \in {"dead", IF ~block THEN "one" ELSE IF write THEN "stdin" ELSE "block"}
  /\ UNCHANGED <<job, i, touched>>

\* Only a mapping has the pointers of the 8 and 2 byte accesses; the others die, and
\* so does a pread or pwrite that fails.
One ==
  /\ pc = "one"
  /\ \/ width = 0 /\ pc' = "done" /\ touched' = touched
     \/ /\ (width \in {2, 8} /\ via # "mmap") \/ (width # 0 /\ via = "file")
        /\ pc' = "dead" /\ touched' = touched
     \/ /\ width \in {1, 4} \/ (width # 0 /\ via = "mmap")
        /\ pc' = "done" /\ touched' = <<off, off + width>>
  /\ UNCHANGED <<job, mapped, i>>

\* ReadFull and the slice it fills: a negative length panics, a short input is fatal.
Stdin ==
  /\ pc = "stdin"
  /\ pc' \in {"dead"} \cup {x \in {"block"} : ioLen >= 0}
  /\ UNCHANGED <<job, mapped, i, touched>>

\* A turn of the loops; the last word of a written block must be a whole one.
Word ==
  /\ pc = "block" /\ i < ioLen
  /\ \/ /\ ~write \/ i + 4 <= ioLen
        /\ touched' = <<off + i, off + i + 4>>
        /\ i' = i + 4 /\ pc' = pc
     \/ /\ (write /\ i + 4 > ioLen) \/ via = "file"
        /\ pc' = "dead" /\ UNCHANGED <<i, touched>>
  /\ UNCHANGED <<job, mapped>>

BlockDone ==
  /\ pc = "block" /\ i >= ioLen /\ pc' = "done"
  /\ UNCHANGED <<job, mapped, i, touched>>

Next == Map \/ One \/ Stdin \/ Word \/ BlockDone

Spec == Init /\ [][Next]_vars
-----------------------------------------------------------------------------
\* Every access to an address that is a multiple of its size lies in the mapping as a
\* whole, whatever the length of the block and wherever it ends (kpoke.go:185).
InsideMap ==
  width # 0 /\ off % width = 0 => touched[2] <= mapped \/ touched = <<0, 0>>
=============================================================================
