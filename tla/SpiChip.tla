------------------------------- MODULE SpiChip -------------------------------
(***************************************************************************)
(* The NOR flash behind the FMC, as ast/spi.go uses it (the chip itself is *)
(* external): a command lasts from the falling to the rising edge of chip  *)
(* select, WREN must precede each erase and each program, both of which go *)
(* on alone after the command (WIP) and clear WEL.  Erase sets every bit   *)
(* of a block, program can only clear bits, inside one page.               *)
(***************************************************************************)
EXTENDS Integers, Sequences

CONSTANTS Bits,        \* the bits of a cell; a cell is the set of its 1 bits
          PageSize,    \* cells of a program page (256)
          EraseSize,   \* cells of an erase block (64K, 256K)
          FlashSize    \* cells of the chip

ASSUME GeometryAssumption ==
  /\ PageSize \in Nat \ {0} /\ EraseSize \in Nat \ {0} /\ FlashSize \in Nat \ {0}
  /\ EraseSize % PageSize = 0 /\ FlashSize % EraseSize = 0

CellAddrs == 0 .. FlashSize - 1
Cells == SUBSET Bits
Erased == Bits
NoAddr == -1
NoOperation == [kind |-> "none"]

Opcodes == {"RDID", "RDSR", "RDCR", "WREN", "WRDI", "EN4B", "EX4B", "READ", "ERASE", "PP"}
Operations == [kind : {"ERASE", "PP"}, addr : CellAddrs, data : Seq(Cells), junk : BOOLEAN]

\* sel: selected; cmd, addr, data: the command received so far; junk: bytes came
\* in beyond it; wel, mode4: write enable and 4-byte mode; flags: some bit of the
\* status beside WIP, WEL and 0x40 is set (block protection, a failed operation);
\* op: what is going on inside (WIP).
Chips ==
  [sel : BOOLEAN, cmd : Opcodes \cup {"none"}, addr : CellAddrs \cup {NoAddr},
   data : Seq(Cells), junk : BOOLEAN, wel : BOOLEAN, mode4 : BOOLEAN,
   flags : BOOLEAN, op : Operations \cup {NoOperation}]

ReadyChip(mode4) ==
  [sel |-> FALSE, cmd |-> "none", addr |-> NoAddr, data |-> <<>>, junk |-> FALSE,
   wel |-> FALSE, mode4 |-> mode4, flags |-> FALSE, op |-> NoOperation]

Busy(c) == c.op # NoOperation

\* The first byte after selection is the command; a chip that was left selected
\* takes it for one more byte of the old command.
Opcode(c, cmd) ==
  IF c.sel THEN [c EXCEPT !.junk = TRUE] ELSE [c EXCEPT !.sel = TRUE, !.cmd = cmd]

\* Address bits above the size of the chip are not decoded.
Address(c, a) == [c EXCEPT !.addr = a % FlashSize]

Quiet(c) == [c EXCEPT !.sel = FALSE, !.cmd = "none", !.addr = NoAddr,
                      !.data = <<>>, !.junk = FALSE]

Operation(c, a) == [kind |-> c.cmd, addr |-> a, data |-> c.data, junk |-> c.junk]

\* A command is carried out at the rising edge, on an exact number of bytes: with
\* more of them only a program still is, and one whose address was cut off takes
\* the first of them for its address.  A busy chip carries out nothing.
Deselect(c) ==
  IF Busy(c) THEN {Quiet(c)}
  ELSE CASE c.cmd \in {"WREN", "WRDI"} /\ ~c.junk ->
              {[Quiet(c) EXCEPT !.wel = (c.cmd = "WREN")]}
         [] c.cmd \in {"EN4B", "EX4B"} /\ ~c.junk ->
              {[Quiet(c) EXCEPT !.mode4 = (c.cmd = "EN4B")]}
         [] c.cmd = "ERASE" /\ ~c.junk /\ c.wel ->
              {[Quiet(c) EXCEPT !.op = Operation(c, c.addr)]}
         [] c.cmd = "PP" /\ c.wel ->
              {[Quiet(c) EXCEPT !.op = Operation(c, a)] :
                 a \in IF c.addr = NoAddr THEN CellAddrs ELSE {c.addr}}
         [] OTHER -> {Quiet(c)}

Block(a) == {i \in CellAddrs : i \div EraseSize = a \div EraseSize}
Page(a) == {i \in CellAddrs : i \div PageSize = a \div PageSize}

\* Byte k of a program goes to the k-th cell from addr, wrapping inside the page.
PageByte(op, i) == ((i - op.addr + PageSize) % PageSize) + 1

\* The contents the operation can leave in flash f.  Junk programs the cells of
\* its page with anything, and still only clears bits.
Outcome(f, op) ==
  IF op.kind = "ERASE"
    THEN {[i \in CellAddrs |-> IF i \in Block(op.addr) THEN Erased ELSE f[i]]}
  ELSE IF op.junk
    THEN {[i \in CellAddrs |-> IF i \in Page(op.addr) THEN f[i] \cap any[i] ELSE f[i]] :
            any \in [Page(op.addr) -> Cells]}
  ELSE {[i \in CellAddrs |->
           IF i \in Page(op.addr) /\ PageByte(op, i) <= Len(op.data)
             THEN f[i] \cap op.data[PageByte(op, i)] ELSE f[i]]}
=============================================================================
