----------------------------- MODULE MCSpiWrite -----------------------------
(***************************************************************************)
(* Instances of SpiWrite for TLC: a chip of three blocks of two pages of   *)
(* two one-bit cells, a word of two cells.                                 *)
(***************************************************************************)
EXTENDS SpiWrite

O == {}          \* a programmed cell
I == {1}         \* an erased cell

MCBits == {1}
Cells12(s) == [a \in 0 .. 11 |-> s[a + 1]]
Old == Cells12(<<O, I, O, I, O, I, O, I, O, I, O, I>>)
Blank == Cells12(<<I, I, I, I, I, I, I, I, I, I, I, I>>)
\* The first block of JobTwo is there already.
Half == Cells12(<<O, O, I, I, I, O, I, O, O, I, I, I>>)
MCFlashInits == {Old, Blank, Half}

\* Two whole blocks; one block and half of the next; a whole one taken with
\* -spilen from a longer file.
JobTwo == [off |-> 4, buf |-> <<I, O, I, O, O, O, I, I>>, len |-> -1]
JobTail == [off |-> 4, buf |-> <<O, O, I, O, I, I>>, len |-> -1]
JobLen == [off |-> 8, buf |-> <<O, I, O, O, I, I, I>>, len |-> 4]
MCJobs == {JobTwo, JobTail, JobLen}

\* A smaller chip for the run where everything goes wrong.  The jobs: one that
\* is in order; beyond the end of the chip; not a whole number of words; not aligned; a file shorter than
\* -spilen.
Old8 == [a \in 0 .. 7 |-> IF a % 2 = 0 THEN O ELSE I]
MCHardInits == {Old8}
JobPlain == [off |-> 0, buf |-> <<I, O, O, O>>, len |-> 0]
JobWrap == [off |-> 4, buf |-> <<O, O, I, I, O, O>>, len |-> -1]
JobOdd == [off |-> 0, buf |-> <<O, I, I>>, len |-> -1]
JobUnaligned == [off |-> 2, buf |-> <<O, I>>, len |-> -1]
JobShort == [off |-> 0, buf |-> <<O, I>>, len |-> 4]
MCHardJobs == {JobPlain, JobWrap, JobOdd, JobUnaligned, JobShort}
MCTailJobs == {JobTail}
=============================================================================
