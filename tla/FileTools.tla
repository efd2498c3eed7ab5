----------------------------- MODULE FileTools -----------------------------
(***************************************************************************)
(* Two tools that only work on the bytes of a file.  spiMakeEnv, of        *)
(* ast -spiwrite -spienv, puts an environment into the image before it is  *)
(* flashed; cmds/fru takes the strings of an area apart.                   *)
(***************************************************************************)
EXTENDS Integers, Sequences, FiniteSets, SequencesExt

CONSTANTS Envs,      \* -spienv, sequences of bytes
          EnvSize,   \* of the data of the sector, 65536 - 5 in the code
          Frus,      \* contents of a fru file, sequences of bytes
          Areas,     \* the offsets in its header
          Unit,      \* of these offsets, 8 in the code
          ByteMod,   \* 2^8: their product is a uint8
          Skip       \* bytes before the strings of an area, 3 or 6
EnvAssumption ==   \* an argument of a program has no NUL
  Envs \subseteq Seq(1..255) /\ <<>> \notin Envs /\ EnvSize \in Nat
FruAssumption ==
  /\ Frus \subseteq Seq(0..255) /\ Areas \subseteq 0..255 /\ 0 \notin Areas
  /\ Unit \in Nat /\ ByteMod \in Nat \ {0} /\ Skip \in Nat

VARIABLES job,     \* "env" or "fru"
          input,   \* the environment, or the file
          image,   \* of the environment: its size is that of a flash or of a sector, cleared or
                   \* not, or another; of the fru: the offset of the area and its number of strings
          pc,      \* "dead" after a panic or log.Fatal
          result   \* the sector, or the strings

vars == <<job, input, image, pc, result>>

NUL == 0
NL == 10
COMMA == 44
Erased == 255
Images == [known : BOOLEAN, cleared : BOOLEAN]
Selections == [area : Areas, fields : {2, 5}]   \* of Chassis and Board; Product has 7
INVALID == <<>>   \* "INVALID:MISSING-STRING", no string of a field

\* The pieces of s between the separators.
Ends(s, sep) == {i \in 1..Len(s) : s[i] = sep} \cup {Len(s) + 1}

Rank(ends, i) == Cardinality({j \in ends : j <= i})
EndAt(ends, k) == IF k = 0 THEN 0 ELSE CHOOSE i \in ends : Rank(ends, i) = k

Split(s, sep) ==
  [k \in 1..Cardinality(Ends(s, sep)) |->
     SubSeq(s, EndAt(Ends(s, sep), k - 1) + 1, EndAt(Ends(s, sep), k) - 1)]

UpToEmpty(pieces) ==
  LET n == {k \in 1..Len(pieces) : pieces[k] = <<>>} IN
  IF n = {} THEN pieces ELSE SubSeq(pieces, 1, (CHOOSE k \in n : \A j \in n : k <= j) - 1)

TypeOK ==
  /\ \/ job = "env" /\ input \in Envs /\ image \in Images
     \/ job = "fru" /\ input \in Frus /\ image \in Selections
  /\ pc \in {"ready", "done", "dead"}
  /\ pc = "done" => \/ job = "env" /\ Len(result) = EnvSize
                    \/ job = "fru" /\ DOMAIN result = 1..image.fields

Init ==
  /\ \/ job = "env" /\ input \in Envs /\ image \in Images
     \/ job = "fru" /\ input \in Frus /\ image \in Selections
  /\ pc = "ready" /\ result = <<>>
-----------------------------------------------------------------------------
(* spiMakeEnv *)

UnendedBody(env) == FlattenSeq([k \in 1..Len(Split(env, NL)) |-> Split(env, NL)[k] \o <<NUL>>])

\* Each line with its NUL, and one more.
Body(env) ==
  FlattenSeq([k \in 1..Len(Split(env, NL)) |-> Split(env, NL)[k] \o <<NUL>>]) \o <<NUL>>

\* What follows the flag; the checksum before it is taken of all of this, at the end.
Sector(env) == Body(env) \o [k \in 1..EnvSize - Len(Body(env)) |-> Erased]

MakeEnv ==
  /\ job = "env" /\ pc = "ready"
  /\ \/ /\ image.known /\ image.cleared /\ Len(Body(input)) <= EnvSize
        /\ pc' = "done" /\ result' = Sector(input)
     \/ /\ ~image.known \/ ~image.cleared \/ Len(Body(input)) > EnvSize  \* index out of range
        /\ pc' = "dead" /\ result' = result
  /\ UNCHANGED <<job, input, image>>
-----------------------------------------------------------------------------
(* cmds/fru *)

EndMark == 193   \* 0xc1
Count(b) == b % 64

\* One string of a buffer, and where the next begins; the end mark stays in place.
\* pos is 0 after a panic: the string, or its first byte, is not in the buffer.
tlvPastEnd(buf, pos) ==
  IF pos = 0 \/ pos > Len(buf) \/ pos + Count(buf[pos]) > Len(buf)
    THEN [pos |-> 0, str |-> INVALID]
    ELSE [pos |-> pos + 1 + Count(buf[pos]),
          str |-> IF buf[pos] = EndMark THEN INVALID ELSE <<SubSeq(buf, pos + 1, pos + Count(buf[pos]))>>]

tlv(buf, pos) ==
  IF pos = 0 \/ pos > Len(buf) THEN [pos |-> 0, str |-> INVALID]
  ELSE IF buf[pos] = EndMark THEN [pos |-> pos, str |-> INVALID]
  ELSE IF pos + Count(buf[pos]) > Len(buf) THEN [pos |-> 0, str |-> INVALID]
  ELSE [pos |-> pos + 1 + Count(buf[pos]),
        str |-> <<SubSeq(buf, pos + 1, pos + Count(buf[pos]))>>]

\* The loop of Area: what tlv returned for the k-th string.
Fields(buf, start, n) ==
  LET f[k \in 1..n] == tlv(buf, IF k = 1 THEN start ELSE f[k - 1].pos) IN f

Start(sel) == 1 + Skip + ((sel.area * Unit) % ByteMod)

Area ==
  LET f == Fields(input, Start(image), image.fields) IN
  /\ job = "fru" /\ pc = "ready"
  /\ pc' = IF f[image.fields].pos = 0 THEN "dead" ELSE "done"
  /\ result' = [k \in 1..image.fields |-> f[k].str]
  /\ UNCHANGED <<job, input, image>>

Next == MakeEnv \/ Area

Spec == Init /\ [][Next]_vars
-----------------------------------------------------------------------------
(* Properties *)

\* What the boot loader reads, entries up to the first empty one, is the lines of
\* -spienv up to the first empty one, and nothing of the erased rest.
EnvReadsBack ==
  job = "env" /\ pc = "done" =>
    UpToEmpty(Split(result, NUL)) = UpToEmpty(Split(input, NL))

\* The help text of -spienv (cmds/ast/ast.go:277): the entries are separated by commas,
\* as in an argument on one line.
EnvAtCommas ==
  job = "env" /\ pc = "done" /\ (\A i \in 1..Len(input) : input[i] # NL) =>
    UpToEmpty(Split(result, NUL)) = UpToEmpty(Split(input, COMMA))

\* The strings printed tile the area from where the header puts it; from the end mark
\* on all are missing.
AreaTiled ==
  job = "fru" /\ pc = "done" =>
    \E at \in [1..image.fields -> 1..Len(input)] :
      /\ at[1] = image.area * Unit + Skip + 1
      /\ \A k \in 1..image.fields - 1 :
           at[k + 1] = IF result[k] = INVALID THEN at[k] ELSE at[k] + 1 + Len(result[k][1])
      /\ \A k \in 1..image.fields :
           IF input[at[k]] = EndMark
             THEN result[k] = INVALID
             ELSE /\ Len(result[k][1]) = Count(input[at[k]])
                  /\ \A j \in 1..Len(result[k][1]) : result[k][1][j] = input[at[k] + j]

\* So for areas within the 256 bytes that the product of a uint8 reaches; one that
\* begins beyond them is looked for at another place (fru.go:120).
FruTiled == job = "fru" /\ image.area * Unit < ByteMod => AreaTiled

\* What holds of both: lines come back as entries, and near areas are taken apart.
FilesRight == EnvReadsBack /\ FruTiled
=============================================================================
