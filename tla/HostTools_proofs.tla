-------------------------- MODULE HostTools_proofs --------------------------
(***************************************************************************)
(* Proofs about the tools of HostTools, one section for each component.    *)
(***************************************************************************)
EXTENDS HostTools, SequencesExt, FiniteSetTheorems, SequenceTheorems, TLAPS

-----------------------------------------------------------------------------
(* Sequences of sequences.  A recursive definition has the value it says   *)
(* because there is no smallest number for which it has not.               *)

\* Of natural numbers there is a smallest one, which stands in for induction.
LEMMA Least ==
  ASSUME NEW T \in SUBSET Nat, T # {}
  PROVE  \E m \in T : \A k \in T : m <= k
<1> DEFINE F == {1..m : m \in T}
<1>1. F \subseteq FiniteSubsetsOf(Nat) /\ F # {}
  <2>1. ASSUME NEW m \in T PROVE 1..m \in FiniteSubsetsOf(Nat)
    <3>1. IsFiniteSet(1..m) /\ 1..m \in SUBSET Nat
      BY FS_Interval
    <3> QED BY <3>1 DEF FiniteSubsetsOf
  <2> QED BY <2>1
<1>2. PICK s \in F : \A t \in F : ~(<<t, s>> \in StrictSubsetOrdering(Nat))
  <2> HIDE DEF F
  <2> QED BY <1>1, FS_StrictSubsetOrderingWellFounded, WFMin
<1>3. PICK m \in T : s = 1..m
  BY <1>2
<1>4. ASSUME NEW k \in T, k < m PROVE FALSE
  <2>1. 1..k \in F
    BY <1>4
  <2>2. 1..k \in SUBSET Nat /\ 1..m \in SUBSET Nat /\ 1..k \subseteq 1..m
    BY <1>4
  <2>3. m \in 1..m /\ m \notin 1..k
    BY <1>4
  <2>4. <<1..k, 1..m>> \in StrictSubsetOrdering(Nat)
    BY <2>2, <2>3 DEF StrictSubsetOrdering
  <2> QED BY <1>2, <1>3, <2>1, <2>4
<1> QED BY <1>4

\* The recursion of FlattenSeq, and its value.
Joined(s, f, n) == f = [k \in 1..n |-> IF k = 1 THEN s[k] ELSE f[k - 1] \o s[k]]

LEMMA JoinedOneMore ==
  ASSUME NEW s, NEW n \in Nat, NEW f, Joined(s, f, n)
  PROVE  \E g : Joined(s, g, n + 1)
<1> DEFINE g == [k \in 1..n + 1 |-> IF k = 1 THEN s[k] ELSE f[k - 1] \o s[k]]
<1>1. \A k \in 1..n : g[k] = f[k]
  <2>1. \A k \in 1..n : f[k] = IF k = 1 THEN s[k] ELSE f[k - 1] \o s[k]
    BY DEF Joined
  <2>2. \A k \in 1..n : k \in 1..n + 1
    OBVIOUS
  <2>3. \A k \in 1..n + 1 : g[k] = IF k = 1 THEN s[k] ELSE f[k - 1] \o s[k]
    OBVIOUS
  <2> HIDE DEF g
  <2> QED BY ONLY <2>1, <2>2, <2>3
<1>2. \A k \in 1..n + 1 : k = 1 \/ k - 1 \in 1..n
  OBVIOUS
<1>3. g = [k \in 1..n + 1 |-> IF k = 1 THEN s[k] ELSE g[k - 1] \o s[k]]
  <2>1. \A k \in 1..n + 1 : k # 1 => f[k - 1] = g[k - 1]
    BY <1>1, <1>2
  <2>2. g = [k \in 1..n + 1 |-> IF k = 1 THEN s[k] ELSE f[k - 1] \o s[k]]
    OBVIOUS
  <2> HIDE DEF g
  <2> QED BY <2>1, <2>2
<1>4. Joined(s, g, n + 1)
  <2> HIDE DEF g
  <2> QED BY <1>3 DEF Joined
<1> QED BY <1>4

LEMMA JoinedExists ==
  ASSUME NEW s, NEW n \in Nat
  PROVE  \E f : Joined(s, f, n)
<1> DEFINE T == {k \in Nat : ~\E f : Joined(s, f, k)}
<1>1. SUFFICES ASSUME T # {} PROVE FALSE
  OBVIOUS
<1>2. PICK m \in T : \A k \in T : m <= k
  <2> HIDE DEF T
  <2>1. T \in SUBSET Nat
    BY DEF T
  <2> QED BY <1>1, <2>1, Least
<1>3. m # 0
  <2> DEFINE f == [k \in 1..0 |-> 0]
  <2>1. f = [k \in 1..0 |-> IF k = 1 THEN s[k] ELSE f[k - 1] \o s[k]]
    OBVIOUS
  <2>2. Joined(s, f, 0)
    BY <2>1 DEF Joined
  <2> QED BY <1>2, <2>2
<1>4. PICK k \in Nat : m = k + 1
  <2>1. m - 1 \in Nat /\ m = (m - 1) + 1
    BY <1>2, <1>3
  <2> QED BY <2>1
<1>5. \E f : Joined(s, f, k)
  BY <1>2, <1>4
<1> QED BY <1>2, <1>4, <1>5, JoinedOneMore

Alike(s, t, n) == \A j \in 1..n : s[j] = t[j]

\* Two sequences with the same beginning are joined alike.
LEMMA JoinedAlike ==
  ASSUME NEW s, NEW t, NEW n \in Nat, NEW k \in Nat, n <= k, NEW f, NEW g,
         Joined(s, f, n), Joined(t, g, k), Alike(s, t, n)
  PROVE  Alike(f, g, n)
<1> USE DEF Alike
<1> DEFINE T == {j \in 1..n : f[j] # g[j]}
<1>1. SUFFICES ASSUME T # {} PROVE FALSE
  OBVIOUS
<1>2. PICK m \in T : \A j \in T : m <= j
  <2> HIDE DEF T
  <2>1. T \in SUBSET Nat
    BY DEF T
  <2> QED BY <1>1, <2>1, Least
<1>3. /\ m \in 1..n /\ m \in 1..k /\ f[m] # g[m]
      /\ m # 1 => m - 1 \in 1..n /\ m - 1 < m
  BY <1>2
<1>4. /\ f[m] = (IF m = 1 THEN s[m] ELSE f[m - 1] \o s[m])
      /\ g[m] = (IF m = 1 THEN t[m] ELSE g[m - 1] \o t[m])
  BY <1>3 DEF Joined
<1>5. m # 1 => f[m - 1] = g[m - 1]
  BY <1>2, <1>3
<1> QED BY <1>3, <1>4, <1>5

Joins(s) == CHOOSE f : Joined(s, f, Len(s))

LEMMA FlattenIs ==
  ASSUME NEW s, Len(s) # 0
  PROVE FlattenSeq(s) = Joins(s)[Len(s)]
BY DEF FlattenSeq, Joins, Joined

LEMMA JoinsIs ==
  ASSUME NEW s, Len(s) \in Nat
  PROVE Joined(s, Joins(s), Len(s))
BY JoinedExists DEF Joins

LEMMA FlattenNone == FlattenSeq(<<>>) = <<>>
BY DEF FlattenSeq

LEMMA FlattenMore ==
  ASSUME NEW S, NEW s \in Seq(Seq(S)), NEW x \in Seq(S), FlattenSeq(s) \in Seq(S)
  PROVE  FlattenSeq(Append(s, x)) = FlattenSeq(s) \o x
<1>1. PICK t : t = Append(s, x)
  OBVIOUS
<1>2. /\ t \in Seq(Seq(S)) /\ Len(t) = Len(s) + 1 /\ Len(s) \in Nat /\ Len(t) \in Nat
      /\ t[Len(t)] = x /\ \A j \in 1..Len(s) : s[j] = t[j]
  BY <1>1, AppendProperties, LenProperties
<1>3. FlattenSeq(t) = Joins(t)[Len(t)]
  BY <1>2, FlattenIs
<1>4. Joined(t, Joins(t), Len(t))
  BY <1>2, JoinsIs
<1>5. Joins(t)[Len(t)] = IF Len(t) = 1 THEN t[Len(t)] ELSE Joins(t)[Len(t) - 1] \o t[Len(t)]
  <2>1. Len(t) \in 1..Len(t)
    BY <1>2
  <2> QED BY <1>4, <2>1 DEF Joined
<1>6. CASE Len(s) = 0
  <2>1. s = <<>>
    BY <1>6, EmptySeq
  <2>2. FlattenSeq(s) \o x = x
    BY <2>1, FlattenNone, ConcatEmptySeq
  <2> QED BY <1>1, <1>2, <1>3, <1>5, <1>6, <2>2
<1>7. CASE Len(s) # 0
  <2>1. FlattenSeq(s) = Joins(s)[Len(s)]
    BY <1>7, FlattenIs
  <2>2. Joined(s, Joins(s), Len(s))
    BY <1>2, JoinsIs
  <2>3. Len(s) \in 1..Len(s) /\ Len(s) <= Len(t) /\ Len(t) - 1 = Len(s) /\ Len(t) # 1
    BY <1>2, <1>7
  <2>4. \A j \in 1..Len(s) : Joins(s)[j] = Joins(t)[j]
    <3>1. PICK f : f = Joins(s)
      OBVIOUS
    <3>2. PICK g : g = Joins(t)
      OBVIOUS
    <3>3. PICK n : n = Len(s)
      OBVIOUS
    <3>4. PICK k : k = Len(t)
      OBVIOUS
    <3>5. /\ n \in Nat /\ k \in Nat /\ n <= k /\ Joined(s, f, n) /\ Joined(t, g, k)
          /\ Alike(s, t, n)
      BY <1>2, <1>4, <2>2, <2>3, <3>1, <3>2, <3>3, <3>4 DEF Alike
    <3>6. Alike(f, g, n)
      BY ONLY <3>5, JoinedAlike
    <3> QED BY ONLY <3>1, <3>2, <3>3, <3>6 DEF Alike
  <2> QED BY <1>1, <1>2, <1>3, <1>5, <2>1, <2>3, <2>4
<1> QED BY <1>2, <1>6, <1>7

LEMMA LastPart ==
  ASSUME NEW S, NEW s \in Seq(S), s # <<>>
  PROVE  \E r \in Seq(S) : \E x \in S : s = Append(r, x) /\ Len(s) = Len(r) + 1
BY SequenceEmptyOrAppend, AppendProperties

LEMMA FlattenType ==
  ASSUME NEW S, NEW s \in Seq(Seq(S))
  PROVE  FlattenSeq(s) \in Seq(S)
<1> DEFINE T == {n \in Nat : \E t \in Seq(Seq(S)) : Len(t) = n /\ FlattenSeq(t) \notin Seq(S)}
<1>1. Len(s) \in Nat
  BY LenProperties
<1>2. SUFFICES ASSUME T # {} PROVE FALSE
  BY <1>1
<1>3. PICK m \in T : \A j \in T : m <= j
  <2> HIDE DEF T
  <2>1. T \in SUBSET Nat
    BY DEF T
  <2> QED BY <1>2, <2>1, Least
<1>4. PICK t \in Seq(Seq(S)) : Len(t) = m /\ FlattenSeq(t) \notin Seq(S)
  BY <1>3
<1>5. t # <<>>
  BY <1>4, FlattenNone, EmptySeq
<1>6. PICK r \in Seq(Seq(S)), x \in Seq(S) : t = Append(r, x) /\ Len(t) = Len(r) + 1
  BY <1>5, LastPart
<1>7. Len(r) \in Nat /\ Len(r) < m
  BY <1>4, <1>6, LenProperties
<1>8. FlattenSeq(r) \in Seq(S)
  BY <1>3, <1>7
<1>9. FlattenSeq(t) = FlattenSeq(r) \o x
  BY <1>6, <1>8, FlattenMore
<1> QED BY <1>4, <1>8, <1>9, ConcatProperties

Join(f, n) == FlattenSeq([k \in 1..n |-> f[k]])

LEMMA JoinNone ==
  ASSUME NEW f
  PROVE Join(f, 0) = <<>>
<1>1. [k \in 1..0 |-> f[k]] = <<>>
  OBVIOUS
<1> QED BY <1>1, FlattenNone DEF Join

LEMMA JoinMore ==
  ASSUME NEW S, NEW n \in Nat, NEW f, \A k \in 1..n + 1 : f[k] \in Seq(S)
  PROVE  Join(f, n) \in Seq(S) /\ Join(f, n + 1) = Join(f, n) \o f[n + 1]
<1> DEFINE s == [k \in 1..n |-> f[k]]
           t == [k \in 1..n + 1 |-> f[k]]
<1>1. s \in Seq(Seq(S)) /\ t \in Seq(Seq(S)) /\ Len(s) = n /\ Len(t) = n + 1
  OBVIOUS
<1>2. f[n + 1] \in Seq(S)
  OBVIOUS
<1>3. \A k \in 1..n : s[k] = f[k] /\ t[k] = f[k]
  OBVIOUS
<1>4. t[n + 1] = f[n + 1]
  OBVIOUS
<1> HIDE DEF s, t
<1>5. t = Append(s, f[n + 1])
  <2>1. /\ Append(s, f[n + 1]) \in Seq(Seq(S)) /\ Len(Append(s, f[n + 1])) = n + 1
        /\ \A k \in 1..n : Append(s, f[n + 1])[k] = s[k]
        /\ Append(s, f[n + 1])[n + 1] = f[n + 1]
    BY <1>1, <1>2, AppendProperties
  <2>2. \A k \in 1..n + 1 : k = n + 1 \/ k \in 1..n
    OBVIOUS
  <2>3. \A k \in 1..Len(t) : t[k] = Append(s, f[n + 1])[k]
    BY <1>1, <1>3, <1>4, <2>1, <2>2
  <2> QED BY <1>1, <2>1, <2>3, SeqEqual
<1>6. FlattenSeq(s) \in Seq(S)
  BY <1>1, FlattenType
<1>7. FlattenSeq(t) = FlattenSeq(s) \o f[n + 1]
  BY <1>1, <1>2, <1>5, <1>6, FlattenMore
<1> QED BY <1>6, <1>7 DEF Join, s, t

LEMMA JoinType ==
  ASSUME NEW S, NEW n \in Nat, NEW f, \A k \in 1..n : f[k] \in Seq(S)
  PROVE  Join(f, n) \in Seq(S)
<1>1. [k \in 1..n |-> f[k]] \in Seq(Seq(S))
  OBVIOUS
<1> QED BY <1>1, FlattenType DEF Join

-----------------------------------------------------------------------------
(* kpoke *)

\* A mapping of len bytes holds whole pages, and n bytes from o on.
Fits(o, n, len) == len \in Int /\ len % 4096 = 0 /\ len >= 4096 /\ len >= o + n

\* What kpoke asks for, and Map makes of 0.
Asked(o, n) == IF Poke!MapLen(o, n) = 0 THEN 4096 ELSE Poke!MapLen(o, n)

\* The mapping is large enough for the job (kpoke.go:185-188).
LEMMA AskedFits ==
  ASSUME NEW o \in Int, NEW n \in Int, o <= 4095
  PROVE  Fits(o, n, Asked(o, n))
BY SMT DEF Poke!MapLen, Poke!Padding, Poke!PgSize, Fits, Asked

\* What is whole pages already is not rounded again.
LEMMA NoPadding ==
  ASSUME NEW len \in Int, len % 4096 = 0
  PROVE  len + Poke!Padding(len) = len
BY SMT DEF Poke!Padding, Poke!PgSize

\* The job, which never changes.
PokeJob ==
  /\ off \in Int /\ 0 <= off /\ off <= 4095 /\ ioLen \in Int
  /\ width \in {0, 1, 2, 4, 8}
  /\ pokePc \in {"block", "stdin"} => width = 4
  /\ block => width = 4
  /\ block \in BOOLEAN /\ write \in BOOLEAN /\ via \in {"mmap", "file", "p2a"}

\* Where the loops are, and that the mapping is large enough once there is one.
PokeInv ==
  /\ PokeJob
  /\ mapped \in Nat /\ i \in Nat /\ i % 4 = 0 /\ touched \in Nat \X Nat
  /\ pokePc \in {"map", "one", "block", "stdin", "done", "dead"}
  /\ pokePc # "map" => Fits(off, ioLen, mapped)
  /\ pokePc = "map" => touched = <<0, 0>>
  /\ Poke!InsideMap

\* kpoke starts with any job of any length (kpoke.go:157-183).
LEMMA PokeInit ==
  ASSUME Poke!Init
  PROVE  PokeInv
<1>1. Poke!OffsetsAssumption /\ Poke!LengthsAssumption
  BY PokeAssumption
<1>2. off \in Int /\ 0 <= off /\ off <= 4095
  BY <1>1, SMT DEF Poke!OffsetsAssumption, Poke!Init, Poke!PgSize
<1>3. ioLen \in Int
  <2>1. CASE ioLen = 0
    BY <2>1
  <2>2. CASE ioLen \in BlockLengths
    BY <1>1, <2>2 DEF Poke!LengthsAssumption
  <2> QED
    BY <2>1, <2>2 DEF Poke!Init
<1>4. PokeJob
  BY <1>2, <1>3 DEF Poke!Init, PokeJob, Poke!Widths
<1> QED
  BY <1>4 DEF Poke!Init, PokeInv, Poke!InsideMap

\* No access and no end of kpoke takes it beyond its mapping.
LEMMA PokeStep ==
  ASSUME PokeInv, Poke!Next
  PROVE  PokeInv'
<1> USE DEF PokeInv, PokeJob
<1>1. CASE Poke!Map
  <2>1. Fits(off, ioLen, Asked(off, ioLen))
    BY AskedFits
  <2>2. mapped' = Asked(off, ioLen)
    <3>1. Asked(off, ioLen) \in Int /\ Asked(off, ioLen) % 4096 = 0
      BY <2>1 DEF Fits
    <3>2. Asked(off, ioLen) + Poke!Padding(Asked(off, ioLen)) = Asked(off, ioLen)
      BY <3>1, NoPadding
    <3> QED
      BY <1>1, <3>2 DEF Poke!Map, Asked, Poke!PgSize
  <2>3. mapped' \in Nat /\ Fits(off, ioLen, mapped')
    BY <2>1, <2>2 DEF Fits
  <2> QED
    BY <1>1, <2>3 DEF Poke!Map, Poke!job, Poke!InsideMap
<1>2. CASE Poke!One
  <2>1. CASE touched' = touched
    BY <1>2, <2>1 DEF Poke!One, Poke!job, Poke!InsideMap
  <2>2. CASE touched' = <<off, off + width>> /\ width # 0
    <3>1. off % width = 0 => off + width <= 4096
      BY <2>2, SMT
    <3>2. off % width = 0 => off + width <= mapped
      BY <1>2, <3>1, SMT DEF Poke!One, Fits
    <3>3. PokeJob' /\ mapped' = mapped /\ i' = i /\ pokePc' \in {"done", "dead"} /\ pokePc = "one"
      BY <1>2, <2>2 DEF Poke!One, Poke!job
    <3> QED
      BY <2>2, <3>2, <3>3, <1>2 DEF Poke!InsideMap, Poke!One, Poke!job
  <2> QED
    BY <1>2, <2>1, <2>2 DEF Poke!One
<1>3. CASE Poke!Stdin
  BY <1>3 DEF Poke!Stdin, Poke!job, Poke!InsideMap
<1>4. CASE Poke!Word
  <2>1. CASE touched' = touched /\ i' = i
    BY <1>4, <2>1 DEF Poke!Word, Poke!job, Poke!InsideMap
  <2>2. CASE touched' = <<off + i, off + i + 4>> /\ i' = i + 4 /\ pokePc' = pokePc
    <3>1. i < ioLen /\ width = 4 /\ Fits(off, ioLen, mapped)
      BY <1>4 DEF Poke!Word
    <3>2. off % 4 = 0 => off + i + 4 <= mapped
      BY <3>1, SMT DEF Fits
    <3> QED
      BY <1>4, <2>2, <3>1, <3>2 DEF Poke!Word, Poke!job, Poke!InsideMap
  <2> QED
    BY <1>4, <2>1, <2>2 DEF Poke!Word
<1>5. CASE Poke!BlockDone
  BY <1>5 DEF Poke!BlockDone, Poke!job, Poke!InsideMap
<1> QED
  BY <1>1, <1>2, <1>3, <1>4, <1>5 DEF Poke!Next

\* An aligned access of kpoke lies in its mapping, for any offsets and lengths.
THEOREM KpokeInsideMap == Spec => []InsideMap
<1>1. Init => PokeInv
  BY PokeInit DEF Init
<1>2. PokeInv /\ [Next]_vars => PokeInv'
  <2> SUFFICES ASSUME PokeInv, [Next]_vars PROVE PokeInv'
    OBVIOUS
  <2>1. CASE Poke!Next
    BY <2>1, PokeStep
  <2>2. CASE UNCHANGED pokeVars
    BY <2>2 DEF pokeVars, PokeInv, PokeJob, Poke!InsideMap
  <2> QED
    BY <2>1, <2>2 DEF Next, Only, vars
<1>3. PokeInv => InsideMap
  BY DEF PokeInv, InsideMap
<1> QED
  BY <1>1, <1>2, <1>3, PTL DEF Spec
-----------------------------------------------------------------------------
(* ast -mii *)

\* What is in the data register: the answer to the command, as long as the driver
\* has not replaced the command MiiInfo has seen.
MiiInv ==
  /\ data.reg = "status" => last = data.up /\ data.mark = ~odd
  /\ data.reg \in Mii!PhyRegs /\ data.up \in BOOLEAN
  /\ link \in BOOLEAN /\ last \in BOOLEAN /\ odd \in BOOLEAN
  /\ Mii!Answered(cmd) => data.reg = "status"
  /\ miiPc = "status" => Mii!Answered(seen)
  /\ quiet /\ miiPc \in {"try", "status"} /\ Mii!Answered(seen) => cmd = seen

\* The controller is found in such a state.
LEMMA MiiInit ==
  ASSUME Mii!Init
  PROVE  MiiInv
BY DEF Mii!Init, Mii!Values, MiiInv

\* Neither MiiInfo nor the BMC disturbs it: a new command leaves the data alone
\* (mii.go:24), its completion sets both, and an answered command has completed.
LEMMA MiiStep ==
  ASSUME MiiInv, Mii!Next
  PROVE  MiiInv'
<1> USE DEF MiiInv, Mii!Answered, Mii!PhyRegs
<1>1. CASE Mii!MiiInfo
  BY <1>1 DEF Mii!MiiInfo, Mii!Start, Mii!Try, Mii!MoreTries, Mii!ReadStatus, Mii!Again,
    Mii!Slept, Mii!controller
<1>2. CASE Mii!Driver
  BY <1>2 DEF Mii!Driver, Mii!program
<1>3. CASE Mii!Complete
  BY <1>3 DEF Mii!Complete, Mii!Values, Mii!program
<1>4. CASE Mii!LinkChanges
  BY <1>4 DEF Mii!LinkChanges, Mii!program
<1> QED
  BY <1>1, <1>2, <1>3, <1>4 DEF Mii!Next

\* What MiiInfo prints is what was read last, for every layout, unless the data is of
\* a command the driver gave since and passes for the status.
THEOREM LinkReportedRight == Spec => LinkReported
<1>1. Init => MiiInv
  BY MiiInit DEF Init
<1>2. MiiInv /\ [Next]_vars => MiiInv'
  <2> SUFFICES ASSUME MiiInv, [Next]_vars PROVE MiiInv'
    OBVIOUS
  <2>1. CASE Mii!Next
    BY <2>1, MiiStep
  <2>2. CASE UNCHANGED miiVars
    BY <2>2 DEF miiVars, MiiInv, Mii!Answered
  <2> QED
    BY <2>1, <2>2 DEF Next, Only, vars
<1>3. MiiInv /\ [Next]_vars =>
        [miiReport' \in {"up", "down"} /\ ~Mii!Mistakable =>
           miiReport' = miiReport \/ (miiReport' = "up") = last]_(Mii!vars)
  <2> SUFFICES ASSUME MiiInv, [Next]_vars, miiReport' \in {"up", "down"}, ~Mii!Mistakable,
                      miiReport' # miiReport
               PROVE  (miiReport' = "up") = last
    OBVIOUS
  <2>1. Mii!Next
    BY DEF Next, Only, vars, miiVars
  <2>2. Mii!ReadStatus
    BY <2>1 DEF Mii!Next, Mii!MiiInfo, Mii!Start, Mii!Try, Mii!Again, Mii!Slept,
      Mii!Driver, Mii!Complete, Mii!LinkChanges, Mii!program
  <2>3. data.reg = "status"
    <3>1. data.mark /\ miiPc = "status"
      BY <2>2 DEF Mii!ReadStatus, Mii!IsStatus
    <3>2. CASE quiet
      BY <3>1, <3>2 DEF MiiInv
    <3>3. CASE ~quiet
      BY <3>1, <3>3 DEF Mii!Mistakable, Mii!PhyRegs, MiiInv
    <3> QED BY <3>2, <3>3
  <2> QED
    BY <2>2, <2>3 DEF Mii!ReadStatus, MiiInv
<1> QED
  BY <1>1, <1>2, <1>3, PTL DEF Spec, LinkReported, Mii!LinkReported

\* Undisturbed, what MiiInfo has seen and what the controller does agree: the first
\* try ends in an idle controller at most, the second in an answer.
AloneInv ==
  /\ MiiInv
  /\ miiPc \in {"start", "try", "status", "again", "sleep", "done"}
  /\ miiReport \in {"none", "up", "down", "cannot"}
  /\ alone =>
       /\ ~odd /\ layout # "other"
       /\ miiPc = "start" => try = 0 /\ Mii!Idle(cmd)
       /\ miiPc \in {"try", "status", "again"} =>
            /\ seen = cmd /\ Mii!Idle(cmd)
            /\ try = 0 \/ (try = 1 /\ Mii!Answered(seen) /\ miiPc # "again")
       /\ miiPc = "status" => Mii!Answered(seen)
       /\ miiPc = "sleep" => try = 0 /\ cmd.reg = "status" /\ ~cmd.write
       /\ miiPc = "done" => miiReport \in {"up", "down"}

\* MiiInfo begins undisturbed when the controller is idle and the PHY is an ordinary one.
LEMMA AloneInit ==
  ASSUME Mii!Init
  PROVE  AloneInv
BY MiiInit DEF Mii!Init, AloneInv

\* A try that does not succeed issues the command, and the next one finds its answer
\* (mii.go:15-30).
LEMMA AloneStep ==
  ASSUME AloneInv, Mii!Next
  PROVE  AloneInv'
<1>0. MiiInv'
  BY MiiStep DEF AloneInv
<1> USE <1>0 DEF AloneInv
<1>1. CASE Mii!Start
  <2>1. /\ alone' = alone /\ odd' = odd /\ layout' = layout /\ try' = try /\ cmd' = cmd
        /\ miiPc = "start"
        /\ \/ layout # "other" /\ miiPc' = "try" /\ seen' = cmd /\ miiReport' = miiReport
           \/ layout = "other" /\ miiPc' = "done" /\ miiReport' = "cannot"
    BY <1>1 DEF Mii!Start, Mii!controller
  <2>2. Mii!Idle(cmd)' = Mii!Idle(cmd)
    BY <2>1 DEF Mii!Idle
  <2> QED
    BY <2>1, <2>2
<1>2. CASE Mii!Try
  BY <1>2 DEF Mii!Try, Mii!MoreTries, Mii!controller, Mii!Idle, Mii!Answered
<1>3. CASE Mii!ReadStatus
  BY <1>3 DEF Mii!ReadStatus, Mii!IsStatus, Mii!controller, Mii!Idle, Mii!Answered, MiiInv
<1>4. CASE Mii!Again
  <2>1. /\ alone' = alone /\ odd' = odd /\ layout' = layout /\ try' = try /\ miiPc = "again"
        /\ \/ cmd' = [busy |-> TRUE, reg |-> "status", write |-> FALSE]
              /\ miiPc' = "sleep" /\ miiReport' = miiReport
           \/ ~Mii!Idle(seen) /\ miiPc' = "done" /\ miiReport' = "cannot"
    BY <1>4 DEF Mii!Again
  <2>2. alone => Mii!Idle(seen) /\ try = 0
    BY <2>1 DEF Mii!Idle
  <2> QED
    BY <2>1, <2>2
<1>5. CASE Mii!Slept
  <2>1. /\ alone' = (alone /\ ~cmd.busy) /\ odd' = odd /\ layout' = layout /\ try' = try + 1
        /\ miiPc = "sleep" /\ miiPc' = "try" /\ seen' = cmd /\ cmd' = cmd /\ miiReport' = miiReport
    BY <1>5 DEF Mii!Slept, Mii!controller
  <2>2. alone' => Mii!Answered(seen)' /\ Mii!Idle(cmd)' /\ try' = 1
    <3> SUFFICES ASSUME alone' PROVE Mii!Answered(seen)' /\ Mii!Idle(cmd)' /\ try' = 1
      OBVIOUS
    <3>1. alone /\ ~cmd.busy
      BY <2>1
    <3>2. try = 0 /\ cmd.reg = "status" /\ ~cmd.write
      BY <2>1, <3>1
    <3>3. try' = 1
      BY <2>1, <3>2
    <3> QED
      BY <2>1, <3>1, <3>2, <3>3 DEF Mii!Answered, Mii!Idle
  <2> QED
    BY <2>1, <2>2
<1>6. CASE Mii!Driver
  BY <1>6 DEF Mii!Driver, Mii!program, Mii!Idle, Mii!Answered
<1>7. CASE Mii!Complete
  BY <1>7 DEF Mii!Complete, Mii!program, Mii!Idle, Mii!Answered
<1>8. CASE Mii!LinkChanges
  BY <1>8 DEF Mii!LinkChanges, Mii!program, Mii!Idle, Mii!Answered
<1> QED
  BY <1>1, <1>2, <1>3, <1>4, <1>5, <1>6, <1>7, <1>8 DEF Mii!Next, Mii!MiiInfo

\* Undisturbed, MiiInfo finds the link state, for every layout.
THEOREM AloneAlwaysSucceeds == Spec => []AloneSucceeds
<1>1. Init => AloneInv
  BY AloneInit DEF Init
<1>2. AloneInv /\ [Next]_vars => AloneInv'
  <2> SUFFICES ASSUME AloneInv, [Next]_vars PROVE AloneInv'
    OBVIOUS
  <2>1. CASE Mii!Next
    BY <2>1, AloneStep
  <2>2. CASE UNCHANGED miiVars
    BY <2>2 DEF miiVars, AloneInv, MiiInv, Mii!Answered, Mii!Idle
  <2> QED
    BY <2>1, <2>2 DEF Next, Only, vars
<1>3. AloneInv => AloneSucceeds
  BY DEF AloneInv, AloneSucceeds, Mii!AloneSucceeds
<1> QED
  BY <1>1, <1>2, <1>3, PTL DEF Spec
-----------------------------------------------------------------------------
(* ast -i2c3 and -i2c3dis *)

\* The report is about what was read last, which is what the register holds unless
\* the firmware wrote since, or the pins are on and the loop tried to turn them off.
BusInv ==
  /\ busPc \in {"read", "write", "done"}
  /\ busPc # "done" => busReport = "none"
  /\ busReport = "disabled" => loop = "disable" /\ got.field # 1
  /\ loop = "disable" /\ busPc = "write" => got.field = 1
  /\ loop = "disable" /\ ~busTouched => scu90 = got \/ got.field = 1

\* Nothing was read yet.
LEMMA BusInit ==
  ASSUME Bus!Init
  PROVE  BusInv
BY DEF Bus!Init, BusInv

\* A turn of the loop writes only what it then counts as enabled (ast.go:245-248).
LEMMA BusStep ==
  ASSUME BusInv, Bus!Next
  PROVE  BusInv'
<1> USE DEF BusInv
<1>1. CASE Bus!Read
  BY <1>1 DEF Bus!Read, Bus!Register, Bus!Wrong, Bus!Enabled, Bus!hardware
<1>2. CASE Bus!Write
  BY <1>2 DEF Bus!Write
<1>3. CASE Bus!Deadline
  BY <1>3 DEF Bus!Deadline, Bus!Verdict, Bus!Enabled, Bus!hardware
<1>4. CASE Bus!Firmware
  BY <1>4 DEF Bus!Firmware, Bus!program
<1> QED
  BY <1>1, <1>2, <1>3, <1>4 DEF Bus!Next, Bus!Loop

\* The report of -i2c3dis is right unless the firmware wrote after the last read,
\* for any number of writes.
THEOREM ReportsTruly == Spec => []DisabledTruly
<1>1. Init => BusInv
  BY BusInit DEF Init
<1>2. BusInv /\ [Next]_vars => BusInv'
  <2> SUFFICES ASSUME BusInv, [Next]_vars PROVE BusInv'
    OBVIOUS
  <2>1. CASE Bus!Next
    BY <2>1, BusStep
  <2>2. CASE UNCHANGED busVars
    BY <2>2 DEF busVars, BusInv
  <2> QED
    BY <2>1, <2>2 DEF Next, Only, vars
<1>3. BusInv => DisabledTruly
  BY DEF BusInv, DisabledTruly, Bus!DisabledTruly, Bus!Enabled
<1> QED
  BY <1>1, <1>2, <1>3, PTL DEF Spec

-----------------------------------------------------------------------------
(* Types                                                                   *)

\* MiiInfo asks again only while it has a try left.
MiiTypes ==
  /\ layout \in Layouts /\ cmd \in Mii!Commands /\ data \in Mii!Values
  /\ link \in BOOLEAN /\ odd \in BOOLEAN /\ last \in BOOLEAN /\ alone \in BOOLEAN
  /\ quiet \in BOOLEAN
  /\ miiPc \in {"start", "try", "status", "again", "sleep", "done"}
  /\ seen \in Mii!Commands /\ try \in 0..2 /\ miiReport \in Mii!Reports
  /\ miiPc = "done" => miiReport # "none"
  /\ miiPc \in {"status", "again", "sleep"} => try \in 0..1

LEMMA MiiTypesMeans == MiiTypes => Mii!TypeOK
BY DEF MiiTypes, Mii!TypeOK

LEMMA MiiTypesInit ==
  ASSUME Mii!Init
  PROVE MiiTypes
BY DEF Mii!Init, MiiTypes, Mii!Reports, Mii!Idle

LEMMA MiiTypesStep ==
  ASSUME MiiTypes, Mii!Next
  PROVE MiiTypes'
<1> USE DEF MiiTypes, Mii!controller, Mii!program
<1>1. \A c \in Mii!Commands : c.busy \in BOOLEAN /\ [c EXCEPT !.busy = FALSE] \in Mii!Commands
  BY DEF Mii!Commands
<1>2. CASE Mii!Driver
  BY <1>2 DEF Mii!Driver
<1>3. CASE Mii!Complete
  <2>1. cmd' \in Mii!Commands
    BY <1>1, <1>3 DEF Mii!Complete
  <2>2. [reg |-> "status", mark |-> ~odd, up |-> link] \in Mii!Values
    BY DEF Mii!Values, Mii!PhyRegs
  <2>3. data' \in Mii!Values /\ last' \in BOOLEAN
    BY <1>3, <2>2 DEF Mii!Complete
  <2> QED BY <1>3, <2>1, <2>3 DEF Mii!Complete
<1>4. CASE Mii!LinkChanges
  BY <1>4 DEF Mii!LinkChanges
<1>5. CASE Mii!Start
  BY <1>5 DEF Mii!Start, Mii!Reports
<1>6. CASE Mii!Try
  BY <1>6 DEF Mii!Try, Mii!Reports, Mii!MoreTries
<1>7. CASE Mii!ReadStatus
  BY <1>7 DEF Mii!ReadStatus, Mii!Reports
<1>8. CASE Mii!Again
  <2>1. [busy |-> TRUE, reg |-> "status", write |-> FALSE] \in Mii!Commands
    BY DEF Mii!Commands, Mii!PhyRegs
  <2>2. cmd' \in Mii!Commands
    BY <1>8, <2>1 DEF Mii!Again
  <2> QED BY <1>8, <2>2 DEF Mii!Again, Mii!Reports
<1>9. CASE Mii!Slept
  <2>1. try + 1 \in 0..2 /\ (alone /\ ~cmd.busy) \in BOOLEAN
    BY <1>9 DEF Mii!Slept
  <2> QED BY <1>9, <2>1 DEF Mii!Slept
<1> QED
  BY <1>2, <1>3, <1>4, <1>5, <1>6, <1>7, <1>8, <1>9 DEF Mii!Next, Mii!MiiInfo

LEMMA BusTypesInit ==
  ASSUME Bus!Init
  PROVE Bus!TypeOK
<1>1. Bus!BoundsAssumption
  BY BusAssumption
<1> QED
  BY <1>1 DEF Bus!Init, Bus!TypeOK, Bus!BoundsAssumption, Bus!Scu90s, Bus!I2c104s, Bus!Rests

LEMMA BusTypesStep ==
  ASSUME Bus!TypeOK, Bus!Next
  PROVE Bus!TypeOK'
<1> USE DEF Bus!TypeOK, Bus!Scu90s, Bus!I2c104s, Bus!Rests, Bus!hardware, Bus!program
<1>1. CASE Bus!Read
  BY <1>1 DEF Bus!Read, Bus!Register
<1>2. CASE Bus!Write
  <2>1. CASE loop = "disable"
    <3>1. Bus!Corrected(got) \in Bus!Scu90s
      BY <2>1 DEF Bus!Corrected
    <3>2. scu90' \in Bus!Scu90s
      BY <1>2, <2>1, <3>1 DEF Bus!Write
    <3> QED BY <1>2, <2>1, <3>2 DEF Bus!Write
  <2>2. CASE loop = "speed"
    <3>1. Bus!Corrected(got) \in Bus!I2c104s
      BY <2>2 DEF Bus!Corrected, Bus!Slow
    <3>2. i2c104' \in Bus!I2c104s
      BY <1>2, <2>2, <3>1 DEF Bus!Write
    <3> QED BY <1>2, <2>2, <3>2 DEF Bus!Write
  <2> QED BY <2>1, <2>2
<1>3. CASE Bus!Deadline
  BY <1>3 DEF Bus!Deadline, Bus!Verdict
<1>4. CASE Bus!Firmware
  <2>1. Bus!BoundsAssumption
    BY BusAssumption
  <2>2. MaxWrites \in Nat /\ writes \in 0..MaxWrites
    BY <2>1 DEF Bus!BoundsAssumption
  <2>3. writes < MaxWrites /\ writes' = writes + 1 /\ locked' \in Locks /\ busTouched' = TRUE
    BY <1>4 DEF Bus!Firmware
  <2>4. writes' \in 0..MaxWrites
    BY ONLY <2>2, <2>3
  <2>5. scu90' \in Bus!Scu90s /\ i2c104' \in Bus!I2c104s
    BY <1>4 DEF Bus!Firmware
  <2> QED BY <1>4, <2>3, <2>4, <2>5 DEF Bus!Firmware
<1> QED
  BY <1>1, <1>2, <1>3, <1>4 DEF Bus!Next, Bus!Loop

\* PokeInv holds the types.
LEMMA PokeTypes ==
  ASSUME PokeInv
  PROVE Poke!TypeOK
BY DEF PokeInv, PokeJob, Poke!TypeOK, Poke!PgSize, Poke!Widths

-----------------------------------------------------------------------------
(* fru                                                                     *)

\* What tlv makes of a string that is in the buffer.
StringRight(buf, pos, t) ==
  /\ pos \in 1..Len(buf)
  /\ buf[pos] = 193 => t.pos = pos /\ t.str = <<>>
  /\ buf[pos] # 193 =>
       /\ t.pos = pos + 1 + File!Count(buf[pos]) /\ t.str # <<>>
       /\ Len(t.str[1]) = File!Count(buf[pos])
       /\ \A j \in 1..Len(t.str[1]) : t.str[1][j] = buf[pos + j]

LEMMA TlvFacts ==
  ASSUME NEW buf \in Seq(0..255), NEW pos \in Nat, NEW t, t = File!tlv(buf, pos)
  PROVE  t.pos \in Nat /\ (t.pos # 0 => StringRight(buf, pos, t))
<1> USE DEF StringRight
<1>1. Len(buf) \in Nat /\ \A p \in 1..Len(buf) : buf[p] \in 0..255
  BY LenProperties, ElementOfSeq
<1>2. CASE pos = 0 \/ pos > Len(buf)
  BY <1>2 DEF File!tlv
<1>3. CASE pos \in 1..Len(buf) /\ buf[pos] = 193
  BY <1>1, <1>3 DEF File!tlv, File!EndMark, File!INVALID
<1>4. CASE pos \in 1..Len(buf) /\ buf[pos] # 193
  <2> DEFINE c == File!Count(buf[pos])
             s == SubSeq(buf, pos + 1, pos + c)
  <2>1. c \in Nat
    <3>1. buf[pos] \in 0..255
      BY ONLY <1>1, <1>4
    <3>2. \A b \in 0..255 : File!Count(b) \in Nat
      BY DEF File!Count
    <3> QED BY <3>1, <3>2
  <2>2. CASE pos + c > Len(buf)
    BY <1>4, <2>2 DEF File!tlv, File!EndMark
  <2>3. CASE pos + c <= Len(buf)
    <3>1. t = [pos |-> pos + 1 + c, str |-> <<s>>]
      BY <1>1, <1>4, <2>1, <2>3 DEF File!tlv, File!EndMark
    <3>2. Len(s) = c /\ \A j \in 1..c : s[j] = buf[pos + j]
      <4> HIDE DEF c
      <4>1. \A p \in pos + 1..pos + c : buf[p] \in 0..255
        BY <1>1, <1>4, <2>1, <2>3
      <4>2. /\ Len(s) = IF pos + 1 <= pos + c THEN (pos + c) - (pos + 1) + 1 ELSE 0
            /\ \A j \in 1..(pos + c) - (pos + 1) + 1 : s[j] = buf[pos + 1 + j - 1]
        BY SMTT(30), <2>1, <4>1, SubSeqProperties
      <4>3. \A j \in 1..c : pos + 1 + j - 1 = pos + j
        BY <2>1
      <4>4. (pos + c) - (pos + 1) + 1 = c
        BY <2>1
      <4> HIDE DEF s
      <4> QED BY ONLY <2>1, <4>2, <4>3, <4>4
    <3> HIDE DEF c, s
    <3>3. t.pos = pos + 1 + c /\ t.str = <<s>> /\ t.str[1] = s /\ t.str # <<>>
      BY <3>1
    <3> QED BY <1>4, <2>1, <3>2, <3>3 DEF c
  <2> QED BY <1>1, <2>1, <2>2, <2>3
<1> QED BY <1>1, <1>2, <1>3, <1>4

\* The loop of Area.
Taken(buf, start, f, n) ==
  f = [k \in 1..n |-> File!tlv(buf, IF k = 1 THEN start ELSE f[k - 1].pos)]

LEMMA TakenOneMore ==
  ASSUME NEW buf, NEW start, NEW n \in Nat, NEW f, Taken(buf, start, f, n)
  PROVE  \E g : Taken(buf, start, g, n + 1)
<1> DEFINE g == [k \in 1..n + 1 |-> File!tlv(buf, IF k = 1 THEN start ELSE f[k - 1].pos)]
<1>1. \A k \in 1..n + 1 : g[k] = File!tlv(buf, IF k = 1 THEN start ELSE f[k - 1].pos)
  OBVIOUS
<1>2. \A k \in 1..n : f[k] = File!tlv(buf, IF k = 1 THEN start ELSE f[k - 1].pos)
  BY DEF Taken
<1>3. g = [k \in 1..n + 1 |-> File!tlv(buf, IF k = 1 THEN start ELSE f[k - 1].pos)]
  OBVIOUS
<1> HIDE DEF g
<1>4. \A k \in 1..n + 1 : k = 1 \/ k - 1 \in 1..n
  OBVIOUS
<1>5. \A k \in 1..n : g[k] = f[k]
  BY <1>1, <1>2
<1>6. \A k \in 1..n + 1 : k # 1 => f[k - 1] = g[k - 1]
  BY <1>4, <1>5
<1>7. g = [k \in 1..n + 1 |-> File!tlv(buf, IF k = 1 THEN start ELSE g[k - 1].pos)]
  BY <1>3, <1>6
<1> QED BY <1>7 DEF Taken

LEMMA TakenExists ==
  ASSUME NEW buf, NEW start, NEW n \in Nat
  PROVE  \E f : Taken(buf, start, f, n)
<1> DEFINE T == {k \in Nat : ~\E f : Taken(buf, start, f, k)}
<1>1. SUFFICES ASSUME T # {} PROVE FALSE
  OBVIOUS
<1>2. PICK m \in T : \A k \in T : m <= k
  <2> HIDE DEF T
  <2>1. T \in SUBSET Nat
    BY DEF T
  <2> QED BY <1>1, <2>1, Least
<1>3. m # 0
  <2> DEFINE f == [k \in 1..0 |-> 0]
  <2>1. f = [k \in 1..0 |-> File!tlv(buf, IF k = 1 THEN start ELSE f[k - 1].pos)]
    OBVIOUS
  <2>2. Taken(buf, start, f, 0)
    BY <2>1 DEF Taken
  <2> QED BY <1>2, <2>2
<1>4. PICK k \in Nat : m = k + 1
  <2>1. m - 1 \in Nat /\ m = (m - 1) + 1
    BY <1>2, <1>3
  <2> QED BY <2>1
<1>5. \E f : Taken(buf, start, f, k)
  BY <1>2, <1>4
<1> QED BY <1>2, <1>4, <1>5, TakenOneMore

LEMMA FieldsAre ==
  ASSUME NEW buf, NEW start, NEW n \in Nat, NEW f, f = File!Fields(buf, start, n)
  PROVE  /\ f[1] = File!tlv(buf, start) \/ n = 0
         /\ \A k \in 1..n : k # 1 => f[k] = File!tlv(buf, f[k - 1].pos)
<1>1. File!Fields(buf, start, n) = CHOOSE g : Taken(buf, start, g, n)
  BY DEF File!Fields, Taken
<1>2. Taken(buf, start, f, n)
  BY <1>1, TakenExists
<1>3. \A k \in 1..n : f[k] = File!tlv(buf, IF k = 1 THEN start ELSE f[k - 1].pos)
  BY <1>2 DEF Taken
<1>4. n # 0 => 1 \in 1..n
  OBVIOUS
<1> QED BY <1>3, <1>4

\* An end mark in place for all strings to come, or a panic.
LEMMA TakenToTheEnd ==
  ASSUME NEW buf \in Seq(0..255), NEW start \in Nat, NEW n \in Nat \ {0},
         NEW f, f = File!Fields(buf, start, n), f[n].pos # 0
  PROVE  /\ \A k \in 1..n : f[k].pos \in Nat \ {0}
         /\ f[1] = File!tlv(buf, start)
         /\ \A k \in 1..n : k # 1 => f[k] = File!tlv(buf, f[k - 1].pos)
<1>1. /\ f[1] = File!tlv(buf, start)
      /\ \A k \in 1..n : k # 1 => f[k] = File!tlv(buf, f[k - 1].pos)
  BY FieldsAre
<1>2. \A k \in 1..n : f[k].pos \in Nat
  <2> DEFINE T == {k \in 1..n : f[k].pos \notin Nat}
  <2>1. SUFFICES ASSUME T # {} PROVE FALSE
    OBVIOUS
  <2>2. PICK m \in T : \A k \in T : m <= k
    <3> HIDE DEF T
    <3>1. T \in SUBSET Nat
      BY DEF T
    <3> QED BY <2>1, <3>1, Least
  <2>3. m \in 1..n /\ f[m].pos \notin Nat /\ (m # 1 => m - 1 \in 1..n /\ m - 1 < m)
    BY <2>2
  <2>4. m # 1
    BY <1>1, <2>3, TlvFacts
  <2>5. f[m - 1].pos \in Nat
    BY <2>2, <2>3, <2>4
  <2> QED BY <1>1, <2>3, <2>4, <2>5, TlvFacts
<1>3. ASSUME NEW p \in 1..n, f[p].pos = 0 PROVE FALSE
  <2> DEFINE T == {k \in p..n : f[k].pos # 0}
  <2>1. n \in T
    OBVIOUS
  <2>2. PICK m \in T : \A k \in T : m <= k
    <3> HIDE DEF T
    <3>1. T \in SUBSET Nat
      BY DEF T
    <3> QED BY <2>1, <3>1, Least
  <2>3. m \in p..n /\ m \in 1..n /\ f[m].pos # 0 /\ m # p
    BY <1>3, <2>2
  <2>4. m - 1 \in p..n /\ m - 1 \in 1..n /\ m - 1 < m /\ m # 1
    BY <2>3
  <2>5. f[m - 1].pos = 0
    BY <2>2, <2>4
  <2>6. 0 \notin 1..Len(buf) /\ 0 \in Nat
    BY LenProperties
  <2>7. f[m] = File!tlv(buf, 0)
    BY <1>1, <2>3, <2>4, <2>5
  <2>8. StringRight(buf, 0, f[m])
    BY <2>3, <2>6, <2>7, TlvFacts
  <2> QED BY <2>6, <2>8 DEF StringRight
<1> QED BY <1>1, <1>2, <1>3

\* The types of a run of fru, and what its last strings are.
FruInv ==
  /\ \/ job = "env"
     \/ job = "fru" /\ input \in Frus /\ image \in File!Selections
  /\ filePc \in {"ready", "done", "dead"}
  /\ job = "fru" /\ filePc = "done" => DOMAIN result = 1..image.fields
  /\ File!FruTiled

LEMMA FruStep ==
  ASSUME FruInv, File!Area
  PROVE FruInv'
<1> DEFINE n == image.fields
           start == File!Start(image)
           f == File!Fields(input, start, n)
           pos == [k \in 1..n |-> IF k = 1 THEN start ELSE f[k - 1].pos]
<1>1. /\ job = "fru" /\ input \in Frus /\ image \in File!Selections
      /\ filePc' = IF f[n].pos = 0 THEN "dead" ELSE "done"
      /\ result' = [k \in 1..n |-> f[k].str]
      /\ UNCHANGED <<job, input, image>>
  BY DEF FruInv, File!Area
<1>2. File!FruAssumption
  BY FileAssumption
<1>3. input \in Seq(0..255) /\ n \in {2, 5} /\ image.area \in 0..255 /\ Unit \in Nat /\ Skip \in Nat
  BY <1>1, <1>2 DEF File!FruAssumption, File!Selections
<1>4. \A x, y \in Nat : x * y \in Nat
  OBVIOUS
<1>5. image.area * Unit \in Nat
  <2>1. PICK a \in 0..255 : a = image.area
    BY <1>3
  <2>2. a \in Nat /\ Unit \in Nat
    BY <1>3
  <2>3. a * Unit \in Nat
    BY ONLY <1>4, <2>2
  <2> QED BY ONLY <2>1, <2>3
<1>6. ByteMod \in Nat \ {0}
  BY <1>2 DEF File!FruAssumption
<1>7. start \in Nat \ {0} /\ (image.area * Unit < ByteMod => start = image.area * Unit + Skip + 1)
  <2>1. \A x \in Nat : \A y \in Nat \ {0} : x % y \in Nat /\ (x < y => x % y = x)
    OBVIOUS
  <2>2. PICK x : x = image.area * Unit
    OBVIOUS
  <2>3. (x % ByteMod) \in Nat /\ (x < ByteMod => (x % ByteMod) = x)
    BY <1>5, <1>6, <2>1, <2>2
  <2>4. start = 1 + Skip + (x % ByteMod)
    BY <2>2 DEF File!Start
  <2> HIDE DEF start
  <2> QED BY <1>3, <1>5, <2>2, <2>3, <2>4
<1>8. File!FruTiled'
  <2> SUFFICES ASSUME filePc' = "done", image.area * Unit < ByteMod
               PROVE  \E s \in [1..n -> 1..Len(input)] :
                        /\ s[1] = image.area * Unit + Skip + 1
                        /\ \A k \in 1..n - 1 :
                             s[k + 1] = IF result'[k] = <<>> THEN s[k] ELSE s[k] + 1 + Len(result'[k][1])
                        /\ \A k \in 1..n :
                             IF input[s[k]] = 193
                               THEN result'[k] = <<>>
                               ELSE /\ Len(result'[k][1]) = File!Count(input[s[k]])
                                    /\ \A j \in 1..Len(result'[k][1]) :
                                         result'[k][1][j] = input[s[k] + j]
    BY ZenonT(40), <1>1 DEF File!FruTiled, File!AreaTiled, File!INVALID, File!EndMark
  <2>1. f[n].pos # 0
    BY <1>1
  <2>2. n \in Nat \ {0} /\ start \in Nat
    BY <1>3, <1>7
  <2> HIDE DEF f, n, start
  <2>3. /\ \A k \in 1..n : f[k].pos \in Nat \ {0}
        /\ f[1] = File!tlv(input, start)
        /\ \A k \in 1..n : k # 1 => f[k] = File!tlv(input, f[k - 1].pos)
    BY <1>3, <2>1, <2>2, TakenToTheEnd DEF f
  <2>4. \A k \in 1..n : pos[k] = IF k = 1 THEN start ELSE f[k - 1].pos
    OBVIOUS
  <2>5. DOMAIN pos = 1..n
    OBVIOUS
  <2>6. pos = [k \in 1..n |-> pos[k]]
    OBVIOUS
  <2> HIDE DEF pos
  <2>7. \A k \in 1..n : k # 1 => k - 1 \in 1..n
    BY <2>2
  <2>8. \A k \in 1..n : pos[k] \in Nat /\ f[k] = File!tlv(input, pos[k])
    BY <2>2, <2>3, <2>4, <2>7
  <2>9. \A k \in 1..n : StringRight(input, pos[k], f[k])
    BY <1>3, <2>3, <2>8, TlvFacts
  <2>10. \A k \in 1..n : result'[k] = f[k].str
    BY <1>1
  <2>11. \A k \in 1..n - 1 : k \in 1..n /\ k + 1 \in 1..n /\ k + 1 # 1 /\ (k + 1) - 1 = k
    BY <2>2
  <2>12. \A k \in 1..n - 1 : pos[k + 1] = f[k].pos
    BY <2>4, <2>11
  <2>13. pos \in [1..n -> 1..Len(input)]
    BY <2>6, <2>9 DEF StringRight
  <2>14. 1 \in 1..n
    BY <2>2
  <2>15. pos[1] = image.area * Unit + Skip + 1
    BY <1>7, <2>4, <2>14
  <2>16. \A k \in 1..n - 1 :
           pos[k + 1] = IF result'[k] = <<>> THEN pos[k] ELSE pos[k] + 1 + Len(result'[k][1])
    BY <2>9, <2>10, <2>11, <2>12 DEF StringRight
  <2>17. \A k \in 1..n :
           IF input[pos[k]] = 193
             THEN result'[k] = <<>>
             ELSE /\ Len(result'[k][1]) = File!Count(input[pos[k]])
                  /\ \A j \in 1..Len(result'[k][1]) : result'[k][1][j] = input[pos[k] + j]
    <3> SUFFICES ASSUME NEW k \in 1..n
                 PROVE  IF input[pos[k]] = 193
                          THEN result'[k] = <<>>
                          ELSE /\ Len(result'[k][1]) = File!Count(input[pos[k]])
                               /\ \A j \in 1..Len(result'[k][1]) :
                                    result'[k][1][j] = input[pos[k] + j]
      OBVIOUS
    <3>1. StringRight(input, pos[k], f[k]) /\ result'[k] = f[k].str
      BY <2>9, <2>10
    <3> QED BY ONLY <3>1 DEF StringRight
  <2> QED BY <2>13, <2>15, <2>16, <2>17
<1> HIDE DEF f
<1> QED BY <1>1, <1>8 DEF FruInv

-----------------------------------------------------------------------------
(* spiMakeEnv                                                              *)

\* The operators of FileTools are those of the library.
LEMMA Counted == \A s : File!Cardinality(s) = Cardinality(s)
BY DEF Cardinality, File!Cardinality

LEMMA Flattened == \A s : File!FlattenSeq(s) = FlattenSeq(s) /\ Mon!FlattenSeq(s) = FlattenSeq(s)
BY DEF FlattenSeq, File!FlattenSeq, Mon!FlattenSeq

LEMMA RankIs == \A E, e : File!Rank(E, e) = Cardinality({j \in E : j <= e})
BY Counted DEF File!Rank

\* The elements of a finite set of numbers, one after the other.
LEMMA EndFacts ==
  ASSUME NEW E \in SUBSET (Nat \ {0}), IsFiniteSet(E), NEW n, n = Cardinality(E)
  PROVE  /\ n \in Nat
         /\ \A k \in 1..n : File!EndAt(E, k) \in E /\ File!Rank(E, File!EndAt(E, k)) = k
         /\ \A e \in E : File!Rank(E, e) \in 1..n /\ File!EndAt(E, File!Rank(E, e)) = e
         /\ \A d, e \in E : d < e => File!Rank(E, d) < File!Rank(E, e)
<1>1. n \in Nat
  BY FS_CardinalityType
<1>2. \A e \in E : /\ IsFiniteSet({j \in E : j <= e}) /\ File!Rank(E, e) \in Nat /\ File!Rank(E, e) <= n
                   /\ File!Rank(E, e) # 0
  <2> SUFFICES ASSUME NEW e \in E
               PROVE  /\ IsFiniteSet({j \in E : j <= e}) /\ File!Rank(E, e) \in Nat /\ File!Rank(E, e) <= n
                      /\ File!Rank(E, e) # 0
    OBVIOUS
  <2>1. {j \in E : j <= e} \in SUBSET E /\ e \in {j \in E : j <= e}
    OBVIOUS
  <2>2. IsFiniteSet({j \in E : j <= e}) /\ File!Rank(E, e) <= n
    BY <2>1, FS_Subset, RankIs
  <2>3. File!Rank(E, e) \in Nat /\ File!Rank(E, e) # 0
    BY <2>1, <2>2, FS_CardinalityType, FS_EmptySet, RankIs
  <2> QED BY <2>2, <2>3
<1>3. \A e \in E : File!Rank(E, e) \in Nat /\ File!Rank(E, e) <= n /\ File!Rank(E, e) # 0
  BY <1>2
<1>4. \A e \in E : File!Rank(E, e) \in 1..n
  BY ONLY <1>1, <1>3
<1>5. ASSUME NEW d \in E, NEW e \in E, d < e PROVE File!Rank(E, d) < File!Rank(E, e)
  <2>1. /\ {j \in E : j <= d} \in SUBSET {j \in E : j <= e}
        /\ {j \in E : j <= d} # {j \in E : j <= e}
    <3>1. e \in {j \in E : j <= e} /\ e \notin {j \in E : j <= d}
      BY <1>5
    <3>2. \A j \in E : j <= d => j <= e
      BY <1>5
    <3> QED BY <3>1, <3>2
  <2>2. IsFiniteSet({j \in E : j <= e})
    BY <1>2
  <2>3. File!Rank(E, d) <= File!Rank(E, e) /\ File!Rank(E, d) # File!Rank(E, e)
    BY <2>1, <2>2, FS_Subset, RankIs
  <2>4. \A x, y \in Nat : x <= y /\ x # y => x < y
    OBVIOUS
  <2> QED BY ONLY <1>3, <2>3, <2>4, d \in E, e \in E
<1> DEFINE R == [e \in E |-> File!Rank(E, e)]
<1>6. R \in [E -> 1..n]
  BY <1>4
<1>7. \A d, e \in E : R[d] = R[e] => d = e
  <2> SUFFICES ASSUME NEW d \in E, NEW e \in E, File!Rank(E, d) = File!Rank(E, e), d # e PROVE FALSE
    OBVIOUS
  <2>1. d < e \/ e < d
    OBVIOUS
  <2>2. File!Rank(E, d) \in Nat /\ ~(File!Rank(E, d) < File!Rank(E, d))
    BY <1>3
  <2> QED BY <1>5, <2>1, <2>2
<1>8. R \in Injection(E, 1..n)
  BY <1>6, <1>7 DEF Injection, IsInjective
<1>9. IsFiniteSet(1..n) /\ Cardinality(1..n) = n
  BY <1>1, FS_Interval
<1>10. R \in Surjection(E, 1..n)
  BY <1>8, <1>9, FS_Injection
<1>11. \A k \in 1..n : \E e \in E : File!Rank(E, e) = k
  BY <1>10 DEF Surjection
<1>12. \A k \in 1..n : File!EndAt(E, k) \in E /\ File!Rank(E, File!EndAt(E, k)) = k
  <2> SUFFICES ASSUME NEW k \in 1..n PROVE File!EndAt(E, k) \in E /\ File!Rank(E, File!EndAt(E, k)) = k
    OBVIOUS
  <2>1. File!EndAt(E, k) = CHOOSE e \in E : File!Rank(E, e) = k
    BY DEF File!EndAt
  <2>2. \E e \in E : File!Rank(E, e) = k
    BY <1>11
  <2> QED BY <2>1, <2>2
<1>13. \A e \in E : File!Rank(E, e) \in 1..n /\ File!EndAt(E, File!Rank(E, e)) = e
  <2> SUFFICES ASSUME NEW e \in E PROVE File!Rank(E, e) \in 1..n /\ File!EndAt(E, File!Rank(E, e)) = e
    OBVIOUS
  <2>1. File!Rank(E, e) \in 1..n
    BY <1>4
  <2>2. File!EndAt(E, File!Rank(E, e)) \in E /\ File!Rank(E, File!EndAt(E, File!Rank(E, e))) = File!Rank(E, e)
    BY <1>12, <2>1
  <2>3. R[File!EndAt(E, File!Rank(E, e))] = R[e]
    BY <2>2
  <2> QED BY <1>7, <2>1, <2>2, <2>3
<1> QED BY <1>1, <1>5, <1>12, <1>13

\* Nothing lies between an element and the next.
LEMMA NextEnd ==
  ASSUME NEW E \in SUBSET (Nat \ {0}), IsFiniteSet(E), NEW k \in Nat, k + 1 <= Cardinality(E)
  PROVE  /\ File!EndAt(E, k) \in Nat /\ File!EndAt(E, k + 1) \in E /\ File!EndAt(E, k) < File!EndAt(E, k + 1)
         /\ \A e \in E : e <= File!EndAt(E, k) \/ File!EndAt(E, k + 1) <= e
<1>1. PICK n : n = Cardinality(E)
  OBVIOUS
<1>2. /\ n \in Nat
      /\ \A j \in 1..n : File!EndAt(E, j) \in E /\ File!Rank(E, File!EndAt(E, j)) = j
      /\ \A e \in E : File!Rank(E, e) \in 1..n /\ File!EndAt(E, File!Rank(E, e)) = e
      /\ \A d, e \in E : d < e => File!Rank(E, d) < File!Rank(E, e)
  BY <1>1, EndFacts
<1>3. k + 1 \in 1..n
  BY <1>1, <1>2
<1>4. PICK b \in E : b = File!EndAt(E, k + 1) /\ File!Rank(E, b) = k + 1
  BY <1>2, <1>3
<1>5. CASE k = 0
  <2>1. File!EndAt(E, k) = 0
    BY <1>5 DEF File!EndAt
  <2>2. \A e \in E : b <= e
    <3> SUFFICES ASSUME NEW e \in E, e < b PROVE FALSE
      OBVIOUS
    <3>1. File!Rank(E, e) < File!Rank(E, b) /\ File!Rank(E, e) \in 1..n
      BY <1>2
    <3> QED BY <1>4, <1>5, <3>1
  <2> QED BY <1>4, <2>1, <2>2
<1>6. CASE k # 0
  <2>1. k \in 1..n
    <3>1. \A x, y \in Nat : x + 1 \in 1..y /\ x # 0 => x \in 1..y
      OBVIOUS
    <3>2. n \in Nat /\ k \in Nat
      BY <1>2
    <3> QED BY ONLY <1>3, <1>6, <3>1, <3>2
  <2>2. PICK a \in E : a = File!EndAt(E, k) /\ File!Rank(E, a) = k
    BY <1>2, <2>1
  <2>3. a < b
    <3>1. b < a => File!Rank(E, b) < File!Rank(E, a)
      BY <1>2
    <3>2. a # b
      BY <1>4, <2>2
    <3> QED BY <1>4, <2>2, <3>1, <3>2
  <2>4. \A e \in E : e <= a \/ b <= e
    <3> SUFFICES ASSUME NEW e \in E, a < e, e < b PROVE FALSE
      OBVIOUS
    <3>1. File!Rank(E, a) < File!Rank(E, e) /\ File!Rank(E, e) < File!Rank(E, b) /\ File!Rank(E, e) \in 1..n
      BY <1>2
    <3> QED BY <1>4, <2>2, <3>1
  <2> QED BY <1>4, <2>2, <2>3, <2>4
<1> QED BY <1>5, <1>6

LEMMA EndsType ==
  ASSUME NEW s, Len(s) \in Nat, NEW sep
  PROVE  File!Ends(s, sep) \in SUBSET (Nat \ {0}) /\ IsFiniteSet(File!Ends(s, sep))
<1>1. IsFiniteSet(1..Len(s) + 1)
  BY FS_Interval
<1>2. File!Ends(s, sep) \subseteq 1..Len(s) + 1
  BY DEF File!Ends
<1> QED BY <1>1, <1>2, FS_Subset

LEMMA SplitIs ==
  ASSUME NEW s, NEW sep
  PROVE  File!Split(s, sep) =
           [k \in 1..Cardinality(File!Ends(s, sep)) |->
              SubSeq(s, File!EndAt(File!Ends(s, sep), k - 1) + 1, File!EndAt(File!Ends(s, sep), k) - 1)]
<1>1. PICK E : E = File!Ends(s, sep)
  OBVIOUS
<1>2. PICK n : n = Cardinality(E) /\ n = File!Cardinality(E)
  BY Counted
<1>3. File!Split(s, sep) = [k \in 1..n |-> SubSeq(s, File!EndAt(E, k - 1) + 1, File!EndAt(E, k) - 1)]
  BY <1>1, <1>2 DEF File!Split
<1> QED BY <1>1, <1>2, <1>3

\* The last piece ends with the sequence.
LEMMA LastEnd ==
  ASSUME NEW s, Len(s) \in Nat, NEW sep, NEW n, n = Cardinality(File!Ends(s, sep))
  PROVE  n \in Nat \ {0} /\ File!EndAt(File!Ends(s, sep), n) = Len(s) + 1
<1>1. PICK E : E = File!Ends(s, sep)
  OBVIOUS
<1>2. E \in SUBSET (Nat \ {0}) /\ IsFiniteSet(E) /\ n = Cardinality(E)
  BY <1>1, EndsType
<1>3. Len(s) + 1 \in E /\ \A e \in E : e <= Len(s) + 1
  BY <1>1 DEF File!Ends
<1>4. {j \in E : j <= Len(s) + 1} = E
  BY <1>3
<1>5. File!Rank(E, Len(s) + 1) = n
  BY <1>2, <1>4, RankIs
<1>6. n \in 1..n /\ n \in Nat /\ File!EndAt(E, n) = Len(s) + 1
  BY <1>2, <1>3, <1>5, EndFacts
<1> QED BY <1>1, <1>6

\* What a byte of -spienv becomes.
Line(env, p) == IF p <= Len(env) /\ env[p] # 10 THEN env[p] ELSE 0
Lines(env, n) == [p \in 1..n |-> Line(env, p)]

LEMMA LineType ==
  ASSUME NEW env \in Seq(1..255), NEW p \in Nat \ {0}
  PROVE  Line(env, p) \in 0..255 /\ (Line(env, p) = 0 <=> p > Len(env) \/ env[p] = 10)
<1>1. Len(env) \in Nat /\ \A j \in 1..Len(env) : env[j] \in 1..255
  BY LenProperties, ElementOfSeq
<1>2. CASE p > Len(env)
  BY <1>1, <1>2 DEF Line
<1>3. CASE p \in 1..Len(env)
  <2>1. env[p] \in 1..255 /\ p <= Len(env)
    BY <1>1, <1>3
  <2>2. \A x \in 1..255 : x \in 0..255 /\ x # 0
    OBVIOUS
  <2>3. ~(p > Len(env))
    BY <1>1, <2>1
  <2>4. PICK x : x = env[p]
    OBVIOUS
  <2>5. Line(env, p) = IF x # 10 THEN x ELSE 0
    BY <2>1, <2>4 DEF Line
  <2>6. x \in 0..255 /\ x # 0
    BY <2>1, <2>2, <2>4
  <2> QED BY ONLY <2>3, <2>4, <2>5, <2>6
<1>4. p > Len(env) \/ p \in 1..Len(env)
  BY <1>1
<1> QED BY <1>2, <1>3, <1>4

LEMMA LinesType ==
  ASSUME NEW env \in Seq(1..255), NEW m \in Nat
  PROVE  /\ Lines(env, m) \in Seq(0..255) /\ Len(Lines(env, m)) = m
         /\ \A p \in 1..m : Lines(env, m)[p] = Line(env, p)
<1>1. \A p \in 1..m : p \in Nat \ {0}
  OBVIOUS
<1>2. \A p \in 1..m : Line(env, p) \in 0..255
  BY <1>1, LineType
<1>3. [p \in 1..m |-> Line(env, p)] \in Seq(0..255) /\ Len([p \in 1..m |-> Line(env, p)]) = m
  BY <1>2
<1>4. \A p \in 1..m : [q \in 1..m |-> Line(env, q)][p] = Line(env, p)
  OBVIOUS
<1> QED BY <1>3, <1>4 DEF Lines

\* The next line, with its NUL.
LEMMA LinesMore ==
  ASSUME NEW env \in Seq(1..255), NEW k \in Nat, k + 1 <= Cardinality(File!Ends(env, 10)),
         NEW a, a = File!EndAt(File!Ends(env, 10), k), NEW b, b = File!EndAt(File!Ends(env, 10), k + 1)
  PROVE  /\ a \in Nat /\ b \in Nat /\ a < b /\ b <= Len(env) + 1
         /\ SubSeq(env, a + 1, b - 1) \o << 0 >> \in Seq(0..255)
         /\ Lines(env, a) \o (SubSeq(env, a + 1, b - 1) \o << 0 >>) = Lines(env, b)
<1>1. Len(env) \in Nat /\ \A j \in 1..Len(env) : env[j] \in 1..255
  BY LenProperties, ElementOfSeq
<1>2. /\ a \in Nat /\ b \in File!Ends(env, 10) /\ a < b
      /\ \A e \in File!Ends(env, 10) : e <= a \/ b <= e
  BY <1>1, EndsType, NextEnd
<1>3. b \in Nat /\ b <= Len(env) + 1 /\ (b <= Len(env) => env[b] = 10)
  BY <1>1, <1>2 DEF File!Ends
<1>4. \A p \in a + 1..b - 1 : p \in 1..Len(env) /\ env[p] # 10
  BY SMTT(30), <1>1, <1>2, <1>3 DEF File!Ends
<1> DEFINE s == SubSeq(env, a + 1, b - 1)
<1>5. s \in Seq(0..255) /\ Len(s) = b - a - 1 /\ \A j \in 1..b - a - 1 : s[j] = env[a + j]
  <2>1. \A p \in a + 1..b - 1 : env[p] \in 0..255
    <3>1. \A x \in 1..255 : x \in 0..255
      OBVIOUS
    <3> QED BY <1>1, <1>4, <3>1
  <2>2. a + 1 \in Int /\ b - 1 \in Int
    BY <1>2, <1>3
  <2>3. /\ s \in Seq(0..255) /\ Len(s) = IF a + 1 <= b - 1 THEN (b - 1) - (a + 1) + 1 ELSE 0
        /\ \A j \in 1..(b - 1) - (a + 1) + 1 : s[j] = env[a + 1 + j - 1]
    BY <2>1, <2>2, SubSeqProperties
  <2>4. (b - 1) - (a + 1) + 1 = b - a - 1 /\ \A j \in 1..b - a - 1 : a + 1 + j - 1 = a + j
    BY <1>2, <1>3
  <2>5. a + 1 <= b - 1 \/ b - a - 1 = 0
    BY <1>2, <1>3
  <2> HIDE DEF s
  <2> QED BY ZenonT(40), <1>2, <1>3, <2>3, <2>4, <2>5
<1> DEFINE t == s \o << 0 >>
<1>6. t \in Seq(0..255) /\ Len(t) = b - a /\ \A j \in 1..b - a : t[j] = IF j = b - a THEN 0 ELSE env[a + j]
  <2> HIDE DEF s
  <2>1. << 0 >> \in Seq(0..255) /\ Len(<< 0 >>) = 1 /\ << 0 >>[1] = 0
    OBVIOUS
  <2>2. /\ t \in Seq(0..255) /\ Len(t) = Len(s) + 1
        /\ \A j \in 1..Len(s) + 1 : t[j] = IF j <= Len(s) THEN s[j] ELSE << 0 >>[j - Len(s)]
    BY <1>5, <2>1, ConcatProperties
  <2> HIDE DEF t
  <2>3. PICK c \in Nat : c = b - a - 1
    BY <1>2, <1>3
  <2>4. b - a = c + 1
    BY <1>2, <1>3, <2>3
  <2>5. Len(s) = c /\ \A j \in 1..c : s[j] = env[a + j]
    BY <1>5, <2>3
  <2>6. \A j \in 1..c + 1 : (j = c + 1 /\ ~(j <= c) /\ j - c = 1) \/ (j # c + 1 /\ j <= c /\ j \in 1..c)
    OBVIOUS
  <2>7. \A j \in 1..c + 1 : t[j] = IF j = c + 1 THEN 0 ELSE env[a + j]
    BY ONLY <2>1, <2>2, <2>5, <2>6
  <2> QED BY ONLY <2>2, <2>4, <2>5, <2>7
<1>7. /\ Lines(env, a) \in Seq(0..255) /\ Len(Lines(env, a)) = a
      /\ Lines(env, b) \in Seq(0..255) /\ Len(Lines(env, b)) = b
  <2>1. \A m \in Nat : Lines(env, m) \in Seq(0..255) /\ Len(Lines(env, m)) = m
    BY LinesType
  <2> QED BY <1>2, <1>3, <2>1
<1> HIDE DEF s, t
<1>8. PICK u : u = Lines(env, a) \o t
  OBVIOUS
<1>9. a + (b - a) = b
  BY <1>2, <1>3
<1>10. u \in Seq(0..255) /\ Len(u) = b /\ \A j \in 1..b : u[j] = IF j <= a THEN Lines(env, a)[j] ELSE t[j - a]
  <2>1. /\ u \in Seq(0..255) /\ Len(u) = Len(Lines(env, a)) + Len(t)
        /\ \A j \in 1..Len(Lines(env, a)) + Len(t) :
             u[j] = IF j <= Len(Lines(env, a)) THEN Lines(env, a)[j] ELSE t[j - Len(Lines(env, a))]
    <3> HIDE DEF t
    <3> QED BY ONLY SMTT(30), <1>6, <1>7, <1>8, ConcatProperties
  <2>2. Len(Lines(env, a)) + Len(t) = b /\ Len(Lines(env, a)) = a
    BY <1>6, <1>7, <1>9
  <2> QED BY ONLY <2>1, <2>2
<1>11. \A j \in 1..b : u[j] = Lines(env, b)[j]
  <2> SUFFICES ASSUME NEW j \in 1..b PROVE u[j] = Lines(env, b)[j]
    OBVIOUS
  <2>1. Lines(env, b)[j] = Line(env, j) /\ (j <= a => Lines(env, a)[j] = Line(env, j))
    BY <1>2, <1>3, LinesType
  <2>2. CASE j <= a
    BY <1>10, <2>1, <2>2
  <2>3. CASE j = b
    <3>1. b - a \in 1..b - a /\ ~(b <= a)
      BY <1>2, <1>3
    <3>2. u[j] = 0
      BY <1>6, <1>10, <2>3, <3>1
    <3>3. Line(env, b) = 0
      BY <1>1, <1>3 DEF Line
    <3> QED BY <2>1, <2>3, <3>2, <3>3
  <2>4. CASE j \in a + 1..b - 1
    <3>1. j - a \in 1..b - a /\ j - a # b - a /\ ~(j <= a) /\ a + (j - a) = j
      BY SMTT(30), <1>2, <1>3, <2>4
    <3>2. u[j] = env[j]
      BY <1>6, <1>10, <3>1
    <3>3. Line(env, j) = env[j]
      BY <1>4, <2>4 DEF Line
    <3> QED BY <2>1, <3>2, <3>3
  <2>5. j <= a \/ j = b \/ j \in a + 1..b - 1
    BY <1>2, <1>3
  <2> QED BY <2>2, <2>3, <2>4, <2>5
<1>12. u = Lines(env, b)
  BY <1>7, <1>10, <1>11, SeqEqual
<1> QED BY <1>2, <1>3, <1>6, <1>8, <1>12 DEF s, t

\* The lines of the environment up to the k-th end.
LEMMA JoinedLines ==
  ASSUME NEW env \in Seq(1..255), NEW n, n = Cardinality(File!Ends(env, 10)),
         NEW f, \A k \in 1..n : f[k] = File!Split(env, 10)[k] \o << 0 >>,
         NEW m \in 0..n
  PROVE  Join(f, m) = Lines(env, File!EndAt(File!Ends(env, 10), m))
<1> DEFINE E == File!Ends(env, 10)
           T == {k \in 0..n : Join(f, k) # Lines(env, File!EndAt(E, k))}
<1>1. n \in Nat
  BY LenProperties, LastEnd
<1>2. \A k \in 1..n : f[k] = SubSeq(env, File!EndAt(E, k - 1) + 1, File!EndAt(E, k) - 1) \o << 0 >>
  <2>1. \A k \in 1..n : File!Split(env, 10)[k] =
                          SubSeq(env, File!EndAt(E, k - 1) + 1, File!EndAt(E, k) - 1)
    BY SplitIs
  <2> QED BY <2>1
<1>3. \A k \in 0..n - 1 : /\ k \in Nat /\ k + 1 <= n /\ k + 1 \in 1..n /\ (k + 1) - 1 = k
  BY <1>1
<1>4. \A k \in 0..n - 1 :
        /\ f[k + 1] \in Seq(0..255)
        /\ Lines(env, File!EndAt(E, k)) \o f[k + 1] = Lines(env, File!EndAt(E, k + 1))
  <2> SUFFICES ASSUME NEW k \in 0..n - 1
               PROVE  /\ f[k + 1] \in Seq(0..255)
                      /\ Lines(env, File!EndAt(E, k)) \o f[k + 1] = Lines(env, File!EndAt(E, k + 1))
    OBVIOUS
  <2>1. f[k + 1] = SubSeq(env, File!EndAt(E, k) + 1, File!EndAt(E, k + 1) - 1) \o << 0 >>
    BY <1>2, <1>3
  <2>2. k \in Nat /\ k + 1 <= Cardinality(File!Ends(env, 10))
    BY <1>3
  <2>3. PICK a, b : a = File!EndAt(E, k) /\ b = File!EndAt(E, k + 1)
    OBVIOUS
  <2>4. /\ SubSeq(env, a + 1, b - 1) \o << 0 >> \in Seq(0..255)
        /\ Lines(env, a) \o (SubSeq(env, a + 1, b - 1) \o << 0 >>) = Lines(env, b)
    BY ZenonT(40), <2>2, <2>3, LinesMore
  <2> QED BY <2>1, <2>3, <2>4
<1> HIDE DEF E
<1>5. SUFFICES ASSUME T # {} PROVE FALSE
  BY DEF E
<1>6. PICK k \in T : \A j \in T : k <= j
  <2> HIDE DEF T
  <2>1. T \in SUBSET Nat
    BY <1>1 DEF T
  <2> QED BY <1>5, <2>1, Least
<1>7. CASE k = 0
  <2>1. Join(f, 0) = <<>> /\ File!EndAt(E, 0) = 0
    BY JoinNone DEF File!EndAt
  <2>2. Lines(env, 0) = <<>>
    BY DEF Lines
  <2> QED BY <1>6, <1>7, <2>1, <2>2
<1>8. CASE k # 0
  <2>1. PICK j \in 0..n - 1 : k = j + 1 /\ j \notin T
    <3>1. k - 1 \in 0..n - 1 /\ k = (k - 1) + 1 /\ ~(k <= k - 1)
      BY <1>1, <1>6, <1>8
    <3> QED BY <1>6, <3>1
  <2>2. j \in Nat /\ j \in 0..n
    BY <1>1
  <2>3. Join(f, j) = Lines(env, File!EndAt(E, j))
    BY <2>1, <2>2
  <2>4. \A q \in 1..j + 1 : f[q] \in Seq(0..255)
    <3>1. \A q \in 1..j + 1 : q - 1 \in 0..n - 1 /\ (q - 1) + 1 = q
      BY <1>1
    <3> QED BY <1>4, <3>1
  <2>5. Join(f, j + 1) = Join(f, j) \o f[j + 1]
    BY <2>2, <2>4, JoinMore
  <2>6. Join(f, k) = Lines(env, File!EndAt(E, k))
    BY <1>4, <2>1, <2>3, <2>5
  <2> QED BY <1>6, <2>6
<1> QED BY <1>7, <1>8

\* Each line with its NUL, and one more.
LEMMA BodyIs ==
  ASSUME NEW env \in Seq(1..255)
  PROVE  /\ File!Body(env) \in Seq(0..255) /\ Len(File!Body(env)) = Len(env) + 2
         /\ \A p \in 1..Len(env) + 2 : File!Body(env)[p] = Line(env, p)
<1>1. PICK n : n = Cardinality(File!Ends(env, 10))
  OBVIOUS
<1>2. PICK e \in Nat : e = Len(env)
  BY LenProperties
<1>3. n \in Nat \ {0} /\ File!EndAt(File!Ends(env, 10), n) = e + 1
  BY <1>1, <1>2, LastEnd
<1>4. Len(File!Split(env, 10)) = n
  BY <1>1, <1>3, SplitIs
<1> DEFINE f == [k \in 1..n |-> File!Split(env, 10)[k] \o << 0 >>]
<1>5. File!Body(env) = FlattenSeq(f) \o << 0 >>
  BY <1>4, Flattened DEF File!Body, File!NL, File!NUL
<1>6. f = [k \in 1..n |-> f[k]] /\ \A k \in 1..n : f[k] = File!Split(env, 10)[k] \o << 0 >>
  OBVIOUS
<1> HIDE DEF f
<1>7. n \in 0..n
  BY <1>3
<1>8. Join(f, n) = Lines(env, e + 1)
  BY <1>1, <1>3, <1>6, <1>7, JoinedLines
<1>9. FlattenSeq(f) = Lines(env, e + 1)
  BY <1>6, <1>8 DEF Join
<1>10. e + 1 \in Nat /\ e + 2 \in Nat
  OBVIOUS
<1>11. /\ Lines(env, e + 1) \in Seq(0..255) /\ Len(Lines(env, e + 1)) = e + 1
       /\ \A p \in 1..e + 1 : Lines(env, e + 1)[p] = Line(env, p)
  BY <1>10, LinesType
<1>12. PICK s : s = Lines(env, e + 1)
  OBVIOUS
<1>13. PICK u : u = s \o << 0 >>
  OBVIOUS
<1>14. /\ u \in Seq(0..255) /\ Len(u) = e + 2
       /\ \A p \in 1..e + 2 : u[p] = IF p <= e + 1 THEN s[p] ELSE << 0 >>[p - (e + 1)]
  <2>1. << 0 >> \in Seq(0..255) /\ Len(<< 0 >>) = 1
    OBVIOUS
  <2>2. (e + 1) + 1 = e + 2
    OBVIOUS
  <2> QED BY ONLY <1>11, <1>12, <1>13, <2>1, <2>2, ConcatProperties
<1>15. \A p \in 1..e + 2 : u[p] = Line(env, p)
  <2> SUFFICES ASSUME NEW p \in 1..e + 2 PROVE u[p] = Line(env, p)
    OBVIOUS
  <2>1. CASE p \in 1..e + 1
    <3>1. p <= e + 1
      BY <2>1
    <3> QED BY <1>11, <1>12, <1>14, <2>1, <3>1
  <2>2. CASE p = e + 2
    <3>1. ~(p <= e + 1) /\ p - (e + 1) = 1 /\ ~(p <= e)
      BY <2>2
    <3>2. << 0 >>[1] = 0
      OBVIOUS
    <3> QED BY <1>2, <1>14, <3>1, <3>2 DEF Line
  <2>3. p \in 1..e + 1 \/ p = e + 2
    OBVIOUS
  <2> QED BY <2>1, <2>2, <2>3
<1> QED BY <1>2, <1>5, <1>9, <1>12, <1>13, <1>14, <1>15

LEMMA SectorIs ==
  ASSUME NEW env \in Seq(1..255), NEW size \in Nat, size = EnvSize, Len(env) + 2 <= size
  PROVE  /\ File!Sector(env) \in Seq(0..255) /\ Len(File!Sector(env)) = size
         /\ \A p \in 1..size : File!Sector(env)[p] = IF p <= Len(env) + 2 THEN Line(env, p) ELSE 255
<1>1. PICK e \in Nat : e = Len(env)
  BY LenProperties
<1>2. PICK b : b = File!Body(env)
  OBVIOUS
<1>3. b \in Seq(0..255) /\ Len(b) = e + 2 /\ \A p \in 1..e + 2 : b[p] = Line(env, p)
  BY <1>1, <1>2, BodyIs
<1>4. PICK r : r = [k \in 1..size - (e + 2) |-> 255]
  OBVIOUS
<1>5. size - (e + 2) \in Nat /\ (e + 2) + (size - (e + 2)) = size
  BY <1>1
<1>6. r \in Seq(0..255) /\ Len(r) = size - (e + 2) /\ \A k \in 1..size - (e + 2) : r[k] = 255
  BY <1>4, <1>5
<1>7. PICK u : u = b \o r
  OBVIOUS
<1>8. u = File!Sector(env)
  BY <1>2, <1>3, <1>4, <1>7 DEF File!Sector, File!Erased
<1>9. /\ u \in Seq(0..255) /\ Len(u) = size
      /\ \A p \in 1..size : u[p] = IF p <= e + 2 THEN b[p] ELSE r[p - (e + 2)]
  <2>1. /\ u \in Seq(0..255) /\ Len(u) = Len(b) + Len(r)
        /\ \A p \in 1..Len(b) + Len(r) : u[p] = IF p <= Len(b) THEN b[p] ELSE r[p - Len(b)]
    <3>1. b \in Seq(0..255) /\ r \in Seq(0..255)
      BY ONLY <1>3, <1>6
    <3> QED BY ONLY <1>7, <3>1, ConcatProperties
  <2>2. Len(b) + Len(r) = size /\ Len(b) = e + 2
    BY ONLY <1>3, <1>5, <1>6
  <2> QED BY ONLY <2>1, <2>2
<1>10. \A p \in 1..size : u[p] = IF p <= e + 2 THEN Line(env, p) ELSE 255
  <2> SUFFICES ASSUME NEW p \in 1..size PROVE u[p] = IF p <= e + 2 THEN Line(env, p) ELSE 255
    OBVIOUS
  <2>1. CASE p <= e + 2
    BY <1>3, <1>9, <2>1
  <2>2. CASE ~(p <= e + 2)
    <3>1. p - (e + 2) \in 1..size - (e + 2)
      BY <2>2
    <3>2. u[p] = r[p - (e + 2)]
      BY <1>9, <2>2
    <3>3. r[p - (e + 2)] = 255
      BY ONLY <1>6, <3>1
    <3> QED BY ONLY <2>2, <3>2, <3>3
  <2> QED BY <2>1, <2>2
<1> QED BY <1>1, <1>8, <1>9, <1>10

LEMMA SameParts ==
  ASSUME NEW s, NEW t, NEW a \in Nat, NEW b \in Nat, \A p \in a..b : s[p] = t[p]
  PROVE  SubSeq(s, a, b) = SubSeq(t, a, b)
<1> DEFINE S == {s[p] : p \in a..b}
<1>1. \A p \in a..b : s[p] \in S /\ t[p] \in S
  OBVIOUS
<1> HIDE DEF S
<1>2. PICK u : u = SubSeq(s, a, b)
  OBVIOUS
<1>3. PICK v : v = SubSeq(t, a, b)
  OBVIOUS
<1>4. a \in Int /\ b \in Int
  OBVIOUS
<1>5. /\ u \in Seq(S) /\ Len(u) = (IF a <= b THEN b - a + 1 ELSE 0)
      /\ \A j \in 1..b - a + 1 : u[j] = s[a + j - 1]
  BY ONLY <1>1, <1>2, <1>4, SubSeqProperties
<1>6. /\ v \in Seq(S) /\ Len(v) = (IF a <= b THEN b - a + 1 ELSE 0)
      /\ \A j \in 1..b - a + 1 : v[j] = t[a + j - 1]
  BY ONLY <1>1, <1>3, <1>4, SubSeqProperties
<1>7. \A j \in 1..Len(u) : j \in 1..b - a + 1 /\ a + j - 1 \in a..b
  BY <1>5
<1>8. \A j \in 1..Len(u) : u[j] = v[j]
  BY <1>5, <1>6, <1>7
<1>9. u = v
  BY ONLY <1>5, <1>6, <1>8, SeqEqual
<1> QED BY <1>2, <1>3, <1>9

\* The whole is its first part when nothing follows.
LEMMA WholePart ==
  ASSUME NEW s, NEW n \in Nat, s = [k \in 1..n |-> s[k]]
  PROVE  SubSeq(s, 1, n) = s
<1> DEFINE S == {s[k] : k \in 1..n}
<1>1. \A k \in 1..n : s[k] \in S
  OBVIOUS
<1>2. s \in Seq(S) /\ Len(s) = n
  <2>1. [k \in 1..n |-> s[k]] \in Seq(S) /\ Len([k \in 1..n |-> s[k]]) = n
    BY <1>1
  <2> QED BY <2>1
<1> HIDE DEF S
<1>3. PICK u : u = SubSeq(s, 1, n)
  OBVIOUS
<1>4. 1 \in Int /\ n \in Int
  OBVIOUS
<1>5. /\ u \in Seq(S) /\ Len(u) = (IF 1 <= n THEN n - 1 + 1 ELSE 0)
      /\ \A j \in 1..n - 1 + 1 : u[j] = s[1 + j - 1]
  BY ONLY <1>1, <1>3, <1>4, SubSeqProperties
<1>6. Len(u) = n /\ \A j \in 1..n : j \in 1..n - 1 + 1 /\ 1 + j - 1 = j
  BY <1>5
<1>7. \A j \in 1..n : u[j] = s[j]
  BY <1>5, <1>6
<1>8. u = s
  BY ONLY <1>2, <1>5, <1>6, <1>7, SeqEqual
<1> QED BY <1>3, <1>8

LEMMA UpToLeast ==
  ASSUME NEW p, NEW l \in 1..Len(p), Len(p) \in Nat, p[l] = <<>>, \A k \in 1..l - 1 : p[k] # <<>>
  PROVE  File!UpToEmpty(p) = SubSeq(p, 1, l - 1)
<1> DEFINE n == {k \in 1..Len(p) : p[k] = <<>>}
<1>1. l \in n
  OBVIOUS
<1>2. \A j \in n : l <= j
  <2> SUFFICES ASSUME NEW j \in n, j < l PROVE FALSE
    OBVIOUS
  <2>1. j \in 1..l - 1
    OBVIOUS
  <2> QED BY <2>1
<1>3. n \in SUBSET Nat
  OBVIOUS
<1>4. File!UpToEmpty(p) = SubSeq(p, 1, (CHOOSE k \in n : \A j \in n : k <= j) - 1)
  BY <1>1 DEF File!UpToEmpty
<1> HIDE DEF n
<1>5. (CHOOSE k \in n : \A j \in n : k <= j) = l
  <2> DEFINE c == CHOOSE k \in n : \A j \in n : k <= j
  <2>1. c \in n /\ \A j \in n : c <= j
    BY <1>1, <1>2
  <2> HIDE DEF c
  <2>2. c <= l /\ l <= c /\ c \in Nat /\ l \in Nat
    BY <1>1, <1>2, <1>3, <2>1
  <2>3. c = l
    BY ONLY <2>2
  <2> QED BY <2>3 DEF c
<1> QED BY <1>4, <1>5

LEMMA UpToNone ==
  ASSUME NEW p, \A k \in 1..Len(p) : p[k] # <<>>
  PROVE  File!UpToEmpty(p) = p
BY DEF File!UpToEmpty

\* The ends of the entries in the sector: those of the lines, one more, and the end.
LEMMA SectorEnds ==
  ASSUME NEW env \in Seq(1..255), NEW sec, NEW e \in Nat, e = Len(env), NEW size \in Nat,
         e + 2 <= size, Len(sec) = size,
         \A p \in 1..size : sec[p] = IF p <= e + 2 THEN Line(env, p) ELSE 255
  PROVE  /\ File!Ends(env, 10) \in SUBSET (1..e + 1) /\ e + 1 \in File!Ends(env, 10)
         /\ File!Ends(sec, 0) = File!Ends(env, 10) \cup {e + 2, size + 1}
<1>1. \A p \in 1..size : sec[p] = 0 <=> (p <= e + 2 /\ (p > e \/ env[p] = 10))
  <2>1. \A p \in 1..size : p \in Nat \ {0}
    OBVIOUS
  <2>2. \A p \in 1..size : Line(env, p) = 0 <=> p > e \/ env[p] = 10
    BY <2>1, LineType
  <2>3. \A p \in 1..size : p <= e + 2 => sec[p] = Line(env, p)
    OBVIOUS
  <2>4. \A p \in 1..size : ~(p <= e + 2) => sec[p] # 0
    OBVIOUS
  <2> QED BY ONLY <2>2, <2>3, <2>4
<1>2. File!Ends(env, 10) = {p \in 1..e : env[p] = 10} \cup {e + 1}
  BY DEF File!Ends
<1>3. File!Ends(sec, 0) = {p \in 1..size : sec[p] = 0} \cup {size + 1}
  BY DEF File!Ends
<1>4. {p \in 1..size : sec[p] = 0} = {p \in 1..e : env[p] = 10} \cup {e + 1, e + 2}
  <2>1. \A p \in 1..size : p > e /\ p <= e + 2 => p = e + 1 \/ p = e + 2
    OBVIOUS
  <2>2. \A p \in 1..size : p <= e => p \in 1..e
    OBVIOUS
  <2>3. \A p \in 1..e : p \in 1..size /\ p <= e + 2
    OBVIOUS
  <2>4. e + 1 \in 1..size /\ e + 1 <= e + 2 /\ e + 1 > e /\ e + 2 \in 1..size /\ e + 2 <= e + 2 /\ e + 2 > e
    OBVIOUS
  <2>5. \A p \in 1..size : p > e \/ p <= e
    OBVIOUS
  <2> QED BY ONLY <1>1, <2>1, <2>2, <2>3, <2>4, <2>5
<1> QED BY <1>2, <1>3, <1>4

\* A set of numbers and a longer one that begins the same: the elements have the same ranks.
LEMMA SameRanks ==
  ASSUME NEW E \in SUBSET (Nat \ {0}), IsFiniteSet(E), NEW F \in SUBSET (Nat \ {0}), IsFiniteSet(F),
         NEW n, n = Cardinality(E), NEW x \in Nat, x \notin E, x \in F,
         \A d \in E : d < x, \A d \in F : d \in E \/ x <= d, E \subseteq F
  PROVE  /\ \A k \in 0..n : File!EndAt(F, k) = File!EndAt(E, k)
         /\ n \in Nat /\ File!EndAt(F, n + 1) = x /\ n + 1 <= Cardinality(F)
<1>1. PICK m : m = Cardinality(F)
  OBVIOUS
<1>2. /\ n \in Nat
      /\ \A k \in 1..n : File!EndAt(E, k) \in E /\ File!Rank(E, File!EndAt(E, k)) = k
  BY EndFacts
<1>3. /\ m \in Nat
      /\ \A d \in F : File!Rank(F, d) \in 1..m /\ File!EndAt(F, File!Rank(F, d)) = d
  BY <1>1, EndFacts
<1>4. \A d \in E : File!Rank(F, d) = File!Rank(E, d)
  <2> SUFFICES ASSUME NEW d \in E PROVE File!Rank(F, d) = File!Rank(E, d)
    OBVIOUS
  <2>1. {j \in F : j <= d} = {j \in E : j <= d}
    <3>1. d < x /\ d \in Nat
      OBVIOUS
    <3>2. ASSUME NEW j \in F, j <= d PROVE j \in E
      BY <3>1, <3>2
    <3> QED BY <3>2
  <2> QED BY <2>1, RankIs
<1>5. \A k \in 1..n : File!EndAt(F, k) = File!EndAt(E, k)
  <2> SUFFICES ASSUME NEW k \in 1..n PROVE File!EndAt(F, k) = File!EndAt(E, k)
    OBVIOUS
  <2>1. PICK d \in E : d = File!EndAt(E, k) /\ File!Rank(E, d) = k
    BY <1>2
  <2>2. File!Rank(F, d) = k /\ d \in F
    BY <1>4, <2>1
  <2> QED BY <1>3, <2>1, <2>2
<1>6. File!EndAt(F, 0) = 0 /\ File!EndAt(E, 0) = 0
  BY DEF File!EndAt
<1>7. \A k \in 0..n : k = 0 \/ k \in 1..n
  BY <1>2
<1>8. File!Rank(F, x) = n + 1
  <2>1. {j \in F : j <= x} = E \cup {x}
    <3>1. \A j \in F : j <= x => j \in E \/ j = x
      OBVIOUS
    <3>2. \A j \in E : j \in F /\ j <= x
      OBVIOUS
    <3> QED BY <3>1, <3>2
  <2>2. Cardinality(E \cup {x}) = n + 1
    BY FS_AddElement
  <2> QED BY <2>1, <2>2, RankIs
<1>9. n + 1 \in 1..m /\ File!EndAt(F, n + 1) = x
  BY <1>3, <1>8
<1> QED BY <1>1, <1>2, <1>3, <1>5, <1>6, <1>7, <1>9

\* The boot loader finds the lines in the sector.
LEMMA ReadsBack ==
  ASSUME NEW env \in Seq(1..255), NEW sec, NEW e \in Nat, e = Len(env), NEW size \in Nat,
         e + 2 <= size, Len(sec) = size,
         \A p \in 1..size : sec[p] = IF p <= e + 2 THEN Line(env, p) ELSE 255
  PROVE  File!UpToEmpty(File!Split(sec, 0)) = File!UpToEmpty(File!Split(env, 10))
<1>1. PICK E : E = File!Ends(env, 10)
  OBVIOUS
<1>2. PICK F : F = File!Ends(sec, 0)
  OBVIOUS
<1>3. PICK n : n = Cardinality(E)
  OBVIOUS
<1>4. PICK m : m = Cardinality(F)
  OBVIOUS
<1>5. E \in SUBSET (1..e + 1) /\ e + 1 \in E /\ F = E \cup {e + 2, size + 1}
  BY <1>1, <1>2, SectorEnds
<1>6. E \in SUBSET (Nat \ {0}) /\ IsFiniteSet(E) /\ F \in SUBSET (Nat \ {0}) /\ IsFiniteSet(F)
  BY <1>1, <1>2, EndsType
<1>7. /\ e + 2 \in Nat /\ e + 2 \notin E /\ e + 2 \in F
      /\ \A d \in E : d < e + 2
      /\ \A d \in F : d \in E \/ e + 2 <= d
      /\ E \subseteq F
  BY <1>5
<1>8. /\ \A k \in 0..n : File!EndAt(F, k) = File!EndAt(E, k)
      /\ n \in Nat /\ File!EndAt(F, n + 1) = e + 2 /\ n + 1 <= m
  <2>1. PICK x : x = e + 2
    OBVIOUS
  <2> QED BY ONLY <1>3, <1>4, <1>6, <1>7, <2>1, SameRanks
<1>9. n # 0 /\ File!EndAt(E, n) = e + 1
  BY <1>1, <1>3, LastEnd
<1>10. m \in Nat
  BY <1>4, <1>6, FS_CardinalityType
<1>11. PICK p : p = File!Split(env, 10)
  OBVIOUS
<1>12. PICK q : q = File!Split(sec, 0)
  OBVIOUS
<1>13. p = [k \in 1..n |-> SubSeq(env, File!EndAt(E, k - 1) + 1, File!EndAt(E, k) - 1)]
  BY <1>1, <1>3, <1>11, SplitIs
<1>14. q = [k \in 1..m |-> SubSeq(sec, File!EndAt(F, k - 1) + 1, File!EndAt(F, k) - 1)]
  BY <1>2, <1>4, <1>12, SplitIs
<1>15. \A k \in 1..n : q[k] = p[k]
  <2> SUFFICES ASSUME NEW k \in 1..n PROVE q[k] = p[k]
    OBVIOUS
  <2>1. PICK j \in 0..n - 1 : k = j + 1 /\ k - 1 = j
    <3>1. k - 1 \in 0..n - 1 /\ k = (k - 1) + 1
      BY <1>8
    <3> QED BY <3>1
  <2>2. PICK a : a = File!EndAt(E, j)
    OBVIOUS
  <2>3. PICK b : b = File!EndAt(E, k)
    OBVIOUS
  <2>4. j \in Nat /\ j + 1 <= Cardinality(E) /\ j \in 0..n /\ k \in 0..n /\ k \in 1..m
    BY <1>3, <1>8, <1>10, <2>1
  <2>5. a \in Nat /\ b \in E /\ a < b /\ \A d \in E : d <= a \/ b <= d
    BY <1>6, <2>1, <2>2, <2>3, <2>4, NextEnd
  <2>6. b \in Nat /\ b <= e + 1
    BY <1>5, <2>5
  <2>7. p[k] = SubSeq(env, a + 1, b - 1) /\ q[k] = SubSeq(sec, a + 1, b - 1)
    <3>1. p[k] = SubSeq(env, File!EndAt(E, k - 1) + 1, File!EndAt(E, k) - 1)
      BY <1>13
    <3>2. q[k] = SubSeq(sec, File!EndAt(F, k - 1) + 1, File!EndAt(F, k) - 1)
      BY <1>14, <2>4
    <3>3. File!EndAt(F, k - 1) = a /\ File!EndAt(F, k) = b
      BY <1>8, <2>1, <2>2, <2>3, <2>4
    <3>4. File!EndAt(E, k - 1) = a /\ File!EndAt(E, k) = b
      BY <2>1, <2>2, <2>3
    <3> QED BY ONLY <3>1, <3>2, <3>3, <3>4
  <2>8. \A d \in a + 1..b - 1 : sec[d] = env[d]
    <3> SUFFICES ASSUME NEW d \in a + 1..b - 1 PROVE sec[d] = env[d]
      OBVIOUS
    <3>1. d \in 1..e /\ d \in 1..size /\ d <= e + 2 /\ d <= e
      BY <2>5, <2>6
    <3>2. d \notin E
      BY <2>5, <2>6
    <3>3. env[d] # 10
      BY <1>1, <3>1, <3>2 DEF File!Ends
    <3> QED BY <3>1, <3>3 DEF Line
  <2>9. a + 1 \in Nat /\ b - 1 \in Nat
    BY <2>5, <2>6
  <2>10. SubSeq(sec, a + 1, b - 1) = SubSeq(env, a + 1, b - 1)
    BY ZenonT(40), <2>8, <2>9, SameParts
  <2> QED BY <2>7, <2>10
<1>16. q[n + 1] = <<>>
  <2>1. n + 1 \in 1..m /\ (n + 1) - 1 = n /\ n \in 0..n
    BY <1>8, <1>10
  <2>2. q[n + 1] = SubSeq(sec, (e + 1) + 1, (e + 2) - 1)
    BY <1>8, <1>9, <1>14, <2>1
  <2>3. (e + 1) + 1 \in Int /\ (e + 2) - 1 \in Int /\ (e + 2) - 1 < (e + 1) + 1
    OBVIOUS
  <2> QED BY <2>2, <2>3, SubSeqEmpty
<1>17. Len(p) = n /\ Len(q) = m /\ p = [k \in 1..n |-> p[k]]
  <2>1. p = [k \in 1..n |-> p[k]]
    BY ONLY <1>13
  <2>2. q = [k \in 1..m |-> q[k]]
    BY ONLY <1>14
  <2>3. n \in Nat /\ m \in Nat
    BY <1>8, <1>10
  <2>4. Len(p) = n
    BY ONLY <2>1, <2>3
  <2>5. Len(q) = m
    BY ONLY <2>2, <2>3
  <2> QED BY ONLY <2>1, <2>4, <2>5
<1>18. CASE \A k \in 1..n : p[k] # <<>>
  <2>1. File!UpToEmpty(p) = p
    <3>1. \A k \in 1..Len(p) : p[k] # <<>>
      BY <1>17, <1>18
    <3> QED BY ONLY <3>1, UpToNone
  <2>2. PICK l : l = n + 1
    OBVIOUS
  <2>3. l \in 1..m /\ l - 1 = n
    BY <1>8, <1>10, <2>2
  <2>4. File!UpToEmpty(q) = SubSeq(q, 1, n)
    <3>1. l \in 1..Len(q) /\ Len(q) \in Nat /\ q[l] = <<>> /\ \A k \in 1..l - 1 : q[k] # <<>>
      BY <1>10, <1>15, <1>16, <1>17, <1>18, <2>2, <2>3
    <3> QED BY <2>3, <3>1, UpToLeast
  <2>5. SubSeq(q, 1, n) = SubSeq(p, 1, n)
    BY <1>8, <1>15, SameParts
  <2>6. SubSeq(p, 1, n) = p
    BY <1>8, <1>17, WholePart
  <2> QED BY <1>11, <1>12, <2>1, <2>4, <2>5, <2>6
<1>19. CASE ~(\A k \in 1..n : p[k] # <<>>)
  <2> DEFINE T == {k \in 1..n : p[k] = <<>>}
  <2>1. T \in SUBSET Nat /\ T # {}
    BY <1>19
  <2>2. PICK l \in T : \A k \in T : l <= k
    <3> HIDE DEF T
    <3> QED BY <2>1, Least
  <2>3. l \in 1..n /\ p[l] = <<>>
    BY <2>2
  <2>4. \A k \in 1..l - 1 : k \in 1..n /\ p[k] # <<>>
    <3>1. \A k \in 1..l - 1 : k \in 1..n /\ ~(l <= k)
      BY <1>8, <2>3
    <3> QED BY <2>2, <3>1
  <2>5. File!UpToEmpty(p) = SubSeq(p, 1, l - 1)
    <3>1. l \in 1..Len(p) /\ Len(p) \in Nat /\ \A k \in 1..l - 1 : p[k] # <<>>
      BY <1>8, <1>17, <2>3, <2>4
    <3> QED BY ONLY <2>3, <3>1, UpToLeast
  <2>6. l \in 1..m
    BY <1>8, <1>10, <2>3
  <2>7. File!UpToEmpty(q) = SubSeq(q, 1, l - 1)
    <3>1. l \in 1..Len(q) /\ Len(q) \in Nat
      BY <1>10, <1>17, <2>6
    <3>2. q[l] = <<>> /\ \A k \in 1..l - 1 : q[k] # <<>>
      BY ONLY <1>15, <2>3, <2>4
    <3> QED BY ONLY <3>1, <3>2, UpToLeast
  <2>8. l - 1 \in Nat /\ 1 \in Nat
    BY <2>3
  <2>9. SubSeq(q, 1, l - 1) = SubSeq(p, 1, l - 1)
    BY <1>15, <2>4, <2>8, SameParts
  <2> QED BY <1>11, <1>12, <2>5, <2>7, <2>9
<1> QED BY <1>18, <1>19

\* The types of a file, and the properties of what is made of it.
FileInv ==
  /\ FruInv
  /\ job = "env" => /\ input \in Envs /\ image \in File!Images
                    /\ filePc = "done" => Len(result) = EnvSize
  /\ File!EnvReadsBack

LEMMA FileInit ==
  ASSUME File!Init
  PROVE FileInv
BY DEF File!Init, FileInv, FruInv, File!FruTiled, File!AreaTiled, File!EnvReadsBack

LEMMA FileStep ==
  ASSUME FileInv, File!Next
  PROVE FileInv'
<1>1. CASE File!Area
  <2>1. FruInv'
    BY <1>1, FruStep DEF FileInv
  <2>2. job' = "fru"
    BY <1>1 DEF File!Area
  <2> QED BY <2>1, <2>2 DEF FileInv, File!EnvReadsBack
<1>2. CASE File!MakeEnv
  <2>1. /\ job = "env" /\ filePc = "ready" /\ UNCHANGED <<job, input, image>>
        /\ \/ Len(File!Body(input)) <= EnvSize /\ filePc' = "done" /\ result' = File!Sector(input)
           \/ filePc' = "dead"
    BY <1>2 DEF File!MakeEnv
  <2>2. input \in Envs /\ image \in File!Images
    BY <2>1 DEF FileInv
  <2>3. FruInv'
    BY <2>1 DEF FileInv, FruInv, File!FruTiled, File!AreaTiled
  <2>4. CASE filePc' = "dead"
    BY <2>1, <2>2, <2>3, <2>4 DEF FileInv, File!EnvReadsBack
  <2>5. CASE Len(File!Body(input)) <= EnvSize /\ filePc' = "done" /\ result' = File!Sector(input)
    <3>1. input \in Seq(1..255) /\ EnvSize \in Nat
      BY <2>2, FileAssumption DEF File!EnvAssumption
    <3>2. PICK env \in Seq(1..255) : env = input
      BY <3>1
    <3>3. PICK sec : sec = result'
      OBVIOUS
    <3>4. PICK size \in Nat : size = EnvSize
      BY <3>1
    <3>5. PICK e \in Nat : e = Len(env)
      BY LenProperties
    <3>6. e + 2 <= size
      BY <2>5, <3>2, <3>4, <3>5, BodyIs
    <3>7. sec = File!Sector(env)
      BY <2>5, <3>2, <3>3
    <3>8. Len(sec) = size /\ \A p \in 1..size : sec[p] = IF p <= e + 2 THEN Line(env, p) ELSE 255
      BY <3>4, <3>5, <3>6, <3>7, SectorIs
    <3>9. File!UpToEmpty(File!Split(sec, 0)) = File!UpToEmpty(File!Split(env, 10))
      BY ONLY <3>5, <3>6, <3>8, ReadsBack
    <3>10. File!UpToEmpty(File!Split(result', 0)) = File!UpToEmpty(File!Split(input', 10))
      BY <2>1, <3>2, <3>3, <3>9
    <3>11. File!EnvReadsBack'
      BY <3>10 DEF File!EnvReadsBack, File!NUL, File!NL
    <3>12. Len(result') = EnvSize
      BY <3>3, <3>4, <3>8
    <3> QED BY <2>1, <2>2, <2>3, <3>11, <3>12 DEF FileInv
  <2> QED BY <2>1, <2>4, <2>5
<1> QED BY <1>1, <1>2 DEF File!Next

LEMMA FileTypes ==
  ASSUME FileInv
  PROVE File!TypeOK
BY DEF FileInv, FruInv, File!TypeOK

\* The boot loader reads the lines of -spienv back (ast.go:29), and the strings of a
\* fru tile an area within 256 bytes, for any contents of both files.
THEOREM FilesAlwaysRight == Spec => []FilesRight
<1>1. Init => FileInv
  BY FileInit DEF Init
<1>2. FileInv /\ [Next]_vars => FileInv'
  <2> SUFFICES ASSUME FileInv, [Next]_vars PROVE FileInv'
    OBVIOUS
  <2>1. CASE File!Next
    BY <2>1, FileStep
  <2>2. CASE UNCHANGED fileVars
    BY <2>2 DEF fileVars, FileInv, FruInv, File!FruTiled, File!AreaTiled, File!EnvReadsBack
  <2> QED
    BY <2>1, <2>2 DEF Next, Only, vars
<1>3. FileInv => FilesRight
  BY DEF FileInv, FruInv, FilesRight, File!FilesRight
<1> QED
  BY <1>1, <1>2, <1>3, PTL DEF Spec

-----------------------------------------------------------------------------
(* ast -i2cmon                                                             *)

Cmds == {"none"} \cup Mon!TxCmds \cup Mon!Modes \cup Mon!DmaCmds
Ctls == [state : Mon!States, cmd : Cmds, txd : Mon!Bytes, dma : {0} \cup DmaAddrs,
         len : {0} \cup Lengths, ptr : Nat, msg : 0..MaxMsgs]
Ctxs == [dmaAddr : {0} \cup DmaAddrs, dmaLen : {0} \cup Lengths, rx : BOOLEAN, cmd : Cmds, rbytes : Nat]
Changes == [bus : Mon!Mons, state : Mon!States, cmd : Cmds, msg : 0..MaxMsgs, ptr : Nat,
            word : [0..3 -> Mon!Bytes]]

Reading == monPc \in {"dma", "len", "txd", "ptr", "pool", "dram"}

\* A controller, after w bytes on the wires: no more are in its buffer.
CtlRight(c, w) ==
  /\ c.ptr <= c.len /\ c.ptr <= w
  /\ c.state = "mrx" => c.ptr < c.len
  /\ c.state = "mtxack" => c.ptr # 0

\* Of each transfer the decoder has counted at most the bytes that were received:
\* one for each change to mtxack.
Counts(x, c, s, w) ==
  /\ x.rbytes <= x.dmaLen /\ x.rbytes <= w
  /\ c.state = "mtxack" /\ s # "mtxack" => x.rbytes < w

MonTypes ==
  /\ ctl \in [Mon!Mons -> Ctls] /\ ctx \in [Mon!Mons -> Ctxs] /\ change \in Seq(Changes)
  /\ store \in [Mon!Mons -> [0..Mon!Size - 1 -> Mon!Bytes]]
  /\ at \in 1..NumMons + 1 /\ monPc \in Mon!Steps \cup {"dead"} /\ late \in BOOLEAN
  /\ old \in [Mon!Mons -> Mon!States \cup {Mon!Unknown}]
  /\ taken \in [Mon!Mons -> {"new", "sampled", "taken"}]
  /\ misses \in 0..MaxMisses /\ excused \in [Mon!Mons -> SUBSET (0..MaxMsgs)]
  /\ wire \in Seq(Mon!Entries) /\ out \in Seq(Mon!Entries) /\ Len(wire) <= MaxBytes
  /\ \A b \in Mon!Mons : CtlRight(ctl[b], Len(wire)) /\ Counts(ctx[b], ctl[b], old[b], Len(wire))
  /\ monPc # "sample" => at <= NumMons
  /\ Len(change) < MaxBatch + NumMons
  /\ monPc = "sample" => Len(change) < MaxBatch + at - 1
  /\ Reading => change # <<>> /\ Len(change) < MaxBatch + at
  /\ monPc = "pool" => Mon!Latest.ptr # 0 /\ Mon!Latest.ptr <= Len(wire)
  /\ monPc = "dram" => /\ old[at] = "mtxack" /\ ctx[at].rbytes < ctx[at].dmaLen
                       /\ ctx[at].rbytes < Len(wire)

LEMMA MonConstants ==
  /\ NumMons \in Nat \ {0} /\ DmaAddrs \subseteq Nat /\ Lengths \subseteq Nat \ {0}
  /\ Wrap \in 1..256 /\ MaxBatch \in Nat \ {0}
  /\ MaxMsgs \in Nat /\ MaxBytes \in Nat /\ MaxMisses \in Nat
BY MonAssumption DEF Mon!MonsAssumption, Mon!LengthsAssumption, Mon!BoundsAssumption

\* The store holds the pool and the highest buffer.
LEMMA SizeIs ==
  \E top \in Nat : (\A a \in DmaAddrs : a <= top) /\ Mon!Size = 4 * (MaxBytes + 1) + top
<1>1. PICK t \in DmaAddrs : \A a \in DmaAddrs : a <= t
  BY MonAssumption DEF Mon!MonsAssumption
<1> DEFINE top == CHOOSE a \in DmaAddrs : \A b \in DmaAddrs : a >= b
<1>2. \A a \in DmaAddrs : t >= a
  BY <1>1, MonConstants
<1>3. top \in DmaAddrs /\ \A a \in DmaAddrs : top >= a
  BY <1>2
<1>4. Mon!Size = 4 * (MaxBytes + 1) + top
  BY DEF Mon!Size
<1> HIDE DEF top
<1>5. top \in Nat /\ \A a \in DmaAddrs : a <= top
  BY <1>3, MonConstants
<1> QED BY <1>4, <1>5

LEMMA MonTypesInit ==
  ASSUME Mon!Init
  PROVE  MonTypes
<1> USE MonConstants
<1>1. 0 \in Mon!Bytes /\ 0 \in 0..MaxMsgs /\ 0 \in 0..MaxMisses /\ 0 <= MaxBytes
  BY DEF Mon!Bytes
<1>2. ctl \in [Mon!Mons -> Ctls]
  BY <1>1 DEF Mon!Init, Ctls, Cmds, Mon!States
<1>3. ctx \in [Mon!Mons -> Ctxs]
  BY <1>1 DEF Mon!Init, Ctxs, Cmds
<1>4. store \in [Mon!Mons -> [0..Mon!Size - 1 -> Mon!Bytes]]
  BY <1>1 DEF Mon!Init
<1>5. old \in [Mon!Mons -> Mon!States \cup {Mon!Unknown}] /\ taken \in [Mon!Mons -> {"new", "sampled", "taken"}]
      /\ excused \in [Mon!Mons -> SUBSET (0..MaxMsgs)]
  BY DEF Mon!Init
<1>6. change = <<>> /\ wire = <<>> /\ out = <<>> /\ Len(<<>>) = 0
  BY DEF Mon!Init
<1>7. /\ change \in Seq(Changes) /\ wire \in Seq(Mon!Entries) /\ out \in Seq(Mon!Entries)
      /\ Len(change) = 0 /\ Len(wire) = 0
  BY <1>6
<1>8. at = 1 /\ monPc = "sample" /\ late = FALSE /\ misses = 0
  BY DEF Mon!Init
<1>9. \A b \in Mon!Mons : CtlRight(ctl[b], 0) /\ Counts(ctx[b], ctl[b], old[b], 0)
  BY DEF Mon!Init, CtlRight, Counts
<1>10. /\ at \in 1..NumMons + 1 /\ 0 < MaxBatch + NumMons /\ 0 < MaxBatch + 1 - 1
  BY <1>8
<1> QED
  BY ZenonT(40), <1>1, <1>2, <1>3, <1>4, <1>5, <1>7, <1>8, <1>9, <1>10 DEF MonTypes, Reading, Mon!Steps

LEMMA CtlRightLater ==
  ASSUME NEW c \in Ctls, NEW w \in Nat, NEW v \in Nat, w <= v, CtlRight(c, w)
  PROVE  CtlRight(c, v)
BY DEF CtlRight, Ctls

LEMMA CountsLater ==
  ASSUME NEW x \in Ctxs, NEW c, NEW s, NEW w \in Nat, NEW v \in Nat, w <= v, Counts(x, c, s, w)
  PROVE  Counts(x, c, s, v)
BY DEF Counts, Ctxs

\* A controller goes on: it acknowledges a byte, to the monitor, when one was received.
LEMMA GoesTypes ==
  ASSUME MonTypes, NEW b \in Mon!Mons, NEW c \in Ctls, Mon!Goes(b, c),
         wire' \in Seq(Mon!Entries), Len(wire) <= Len(wire'), Len(wire') <= MaxBytes,
         c.state = "mtxack" => Len(wire) < Len(wire'), CtlRight(c, Len(wire')),
         store' \in [Mon!Mons -> [0..Mon!Size - 1 -> Mon!Bytes]]
  PROVE  MonTypes'
<1> DEFINE w == Len(wire)
           v == Len(wire')
<1>1. w \in Nat /\ v \in Nat
  BY LenProperties DEF MonTypes
<1> HIDE DEF w, v
<1>2. /\ ctl' = [ctl EXCEPT ![b] = c] /\ taken' = [taken EXCEPT ![b] = "new"]
      /\ UNCHANGED <<at, monPc, late, old, ctx, change, out, victim>>
      /\ misses' = misses + (IF taken[b] = "taken" THEN 0 ELSE 1) /\ misses' <= MaxMisses
  BY DEF Mon!Goes, Mon!monitor
<1>3. ctl' \in [Mon!Mons -> Ctls] /\ taken' \in [Mon!Mons -> {"new", "sampled", "taken"}]
  BY <1>2 DEF MonTypes
<1>4. misses' \in 0..MaxMisses
  BY <1>2, MonConstants DEF MonTypes
<1>5. excused' \in [Mon!Mons -> SUBSET (0..MaxMsgs)]
  <2>1. ctl[b].msg \in 0..MaxMsgs /\ c.msg \in 0..MaxMsgs
    BY DEF MonTypes, Ctls
  <2>2. PICK S \in SUBSET (0..MaxMsgs) : excused' = [excused EXCEPT ![b] = @ \cup S]
    <3> DEFINE S == {m \in {ctl[b].msg} : taken[b] # "taken"} \cup {m \in {c.msg} : Mon!Beyond(c)}
    <3>1. S \in SUBSET (0..MaxMsgs)
      BY <2>1
    <3>2. excused' = [excused EXCEPT ![b] = @ \cup S]
      BY DEF Mon!Goes
    <3> QED BY <3>1, <3>2
  <2> QED BY <2>2 DEF MonTypes
<1>6. ASSUME NEW d \in Mon!Mons
      PROVE  CtlRight(ctl'[d], v) /\ Counts(ctx[d], ctl'[d], old[d], v)
  <2>1. CtlRight(ctl[d], w) /\ Counts(ctx[d], ctl[d], old[d], w) /\ ctl[d] \in Ctls /\ ctx[d] \in Ctxs
    BY DEF MonTypes, w
  <2>2. w <= v
    BY DEF w, v
  <2>3. CASE d = b
    <3>1. ctl'[d] = c
      BY <1>2, <2>3 DEF MonTypes
    <3>2. c.state = "mtxack" => w < v
      BY DEF w, v
    <3>3. Counts(ctx[d], c, old[d], v)
      <4>1. ctx[d].rbytes \in Nat /\ ctx[d].rbytes <= w /\ ctx[d].rbytes <= ctx[d].dmaLen
        BY <2>1 DEF Ctxs, Counts
      <4> QED BY <1>1, <2>2, <3>2, <4>1 DEF Counts
    <3>4. CtlRight(c, v)
      BY DEF v
    <3> QED BY <3>1, <3>3, <3>4
  <2>4. CASE d # b
    <3>1. ctl'[d] = ctl[d]
      BY <1>2, <2>4 DEF MonTypes
    <3>2. CtlRight(ctl[d], v)
      BY <1>1, <2>1, <2>2, CtlRightLater
    <3>3. Counts(ctx[d], ctl[d], old[d], v)
      BY <1>1, <2>1, <2>2, CountsLater
    <3> QED BY <3>1, <3>2, <3>3
  <2> QED BY <2>3, <2>4
<1>7. monPc = "pool" => Mon!Latest.ptr # 0 /\ Mon!Latest.ptr <= v
  <2> SUFFICES ASSUME monPc = "pool" PROVE Mon!Latest.ptr # 0 /\ Mon!Latest.ptr <= v
    OBVIOUS
  <2>1. Mon!Latest.ptr # 0 /\ Mon!Latest.ptr <= w /\ change \in Seq(Changes) /\ change # <<>>
    BY DEF MonTypes, Reading, w
  <2>2. Mon!Latest \in Changes
    BY <2>1, EmptySeq, LenProperties, ElementOfSeq DEF Mon!Latest
  <2>3. Mon!Latest.ptr \in Nat
    BY <2>2 DEF Changes
  <2>4. w <= v
    BY DEF w, v
  <2> QED BY <1>1, <2>1, <2>3, <2>4
<1>8. monPc = "dram" => /\ old[at] = "mtxack" /\ ctx[at].rbytes < ctx[at].dmaLen /\ ctx[at].rbytes < v
  <2> SUFFICES ASSUME monPc = "dram"
               PROVE  /\ old[at] = "mtxack" /\ ctx[at].rbytes < ctx[at].dmaLen /\ ctx[at].rbytes < v
    OBVIOUS
  <2>1. /\ old[at] = "mtxack" /\ ctx[at].rbytes < ctx[at].dmaLen /\ ctx[at].rbytes < w
        /\ at \in 1..NumMons + 1 /\ at <= NumMons /\ ctx \in [Mon!Mons -> Ctxs]
    BY DEF MonTypes, w
  <2>2. at \in Mon!Mons
    BY <2>1, MonConstants DEF Mon!Mons
  <2>3. ctx[at].rbytes \in Nat
    BY <2>1, <2>2 DEF Ctxs
  <2>4. w <= v
    BY DEF w, v
  <2> QED BY <1>1, <2>1, <2>3, <2>4
<1>9. Mon!Latest' = Mon!Latest
  BY <1>2 DEF Mon!Latest
<1> QED
  BY <1>2, <1>3, <1>4, <1>5, <1>6, <1>7, <1>8, <1>9 DEF MonTypes, Reading, v

\* Signals, and the start of a receive, put no byte on the wire.
LEMMA SignalTypes ==
  ASSUME MonTypes, NEW b \in Mon!Mons, NEW c \in Ctls, Mon!Goes(b, c), UNCHANGED <<store, wire>>,
         CtlRight(c, Len(wire)), c.state # "mtxack"
  PROVE  MonTypes'
<1>1. wire \in Seq(Mon!Entries) /\ Len(wire) \in Nat /\ Len(wire) <= MaxBytes /\ wire' = wire
  BY LenProperties DEF MonTypes
<1>2. store' \in [Mon!Mons -> [0..Mon!Size - 1 -> Mon!Bytes]]
  BY DEF MonTypes
<1> QED BY <1>1, <1>2, GoesTypes

LEMMA ControllerTypes ==
  ASSUME MonTypes, NEW b \in Mon!Mons, Mon!Controller(b)
  PROVE  MonTypes'
<1> DEFINE w == Len(wire)
<1>1. PICK c \in Ctls : c = ctl[b] /\ CtlRight(c, w)
  BY DEF MonTypes
<1>2. wire \in Seq(Mon!Entries) /\ w \in Nat /\ w <= MaxBytes /\ MaxBytes \in Nat /\ MaxMsgs \in Nat
  BY LenProperties, MonConstants DEF MonTypes
<1>3. /\ c.state \in Mon!States /\ c.cmd \in Cmds /\ c.txd \in Mon!Bytes /\ c.dma \in {0} \cup DmaAddrs
      /\ c.len \in {0} \cup Lengths /\ c.len \in Nat /\ c.ptr \in Nat /\ c.msg \in 0..MaxMsgs
  <2>1. /\ c.state \in Mon!States /\ c.cmd \in Cmds /\ c.txd \in Mon!Bytes /\ c.dma \in {0} \cup DmaAddrs
        /\ c.len \in {0} \cup Lengths /\ c.ptr \in Nat /\ c.msg \in 0..MaxMsgs
    BY DEF Ctls
  <2>2. c.len \in Nat
    <3>1. \A n \in {0} \cup Lengths : n \in Nat
      BY MonConstants
    <3> QED BY ONLY <2>1, <3>1
  <2> QED BY <2>1, <2>2
<1> HIDE DEF w
<1>4. ASSUME Mon!Signal(b) PROVE MonTypes'
  <2>1. UNCHANGED <<store, wire>>
    BY <1>4 DEF Mon!Signal
  <2>2. ASSUME NEW d \in Ctls, Mon!Goes(b, d), d.ptr = c.ptr, d.len = c.len, d.state \notin {"mrx", "mtxack"}
        PROVE  MonTypes'
    <3>1. CtlRight(d, w)
      BY <1>1, <2>2 DEF CtlRight
    <3> QED BY <2>1, <2>2, <3>1, SignalTypes DEF w
  <2>3. CASE c.msg < MaxMsgs /\ Mon!Goes(b, [c EXCEPT !.state = "mstart", !.cmd = "tx", !.msg = c.msg + 1])
    <3> DEFINE d == [c EXCEPT !.state = "mstart", !.cmd = "tx", !.msg = c.msg + 1]
    <3>1. c.msg + 1 \in 0..MaxMsgs
      BY <1>2, <1>3, <2>3
    <3>2. d \in Ctls /\ d.ptr = c.ptr /\ d.len = c.len /\ d.state = "mstart"
      BY <1>1, <3>1 DEF Ctls, Cmds, Mon!States, Mon!TxCmds
    <3> QED BY <2>2, <2>3, <3>2
  <2>4. CASE Mon!Goes(b, [c EXCEPT !.state = "mstart", !.cmd = "tx"])
    <3> DEFINE d == [c EXCEPT !.state = "mstart", !.cmd = "tx"]
    <3>1. d \in Ctls /\ d.ptr = c.ptr /\ d.len = c.len /\ d.state = "mstart"
      BY <1>1 DEF Ctls, Cmds, Mon!States, Mon!TxCmds
    <3> QED BY <2>2, <2>4, <3>1
  <2>5. ASSUME NEW s \in {"mstop", "idle", "mrxack"}, Mon!Goes(b, [c EXCEPT !.state = s]) PROVE MonTypes'
    <3> DEFINE d == [c EXCEPT !.state = s]
    <3>1. d \in Ctls /\ d.ptr = c.ptr /\ d.len = c.len /\ d.state = s
      BY <1>1 DEF Ctls, Mon!States
    <3> QED BY <2>2, <2>5, <3>1
  <2> QED BY <1>1, <1>4, <2>3, <2>4, <2>5 DEF Mon!Signal
<1>5. ASSUME NEW kind \in {"T", "R"}, Mon!OnWire(b, kind)
      PROVE  wire' \in Seq(Mon!Entries) /\ Len(wire') = w + 1 /\ w + 1 <= MaxBytes /\ w + 1 \in Mon!Bytes
  <2>1. w + 1 <= MaxBytes /\ w + 1 \in Mon!Bytes
    BY <1>2, <1>5 DEF Mon!OnWire, w, Mon!Bytes
  <2> DEFINE x == [bus |-> b, msg |-> c.msg, kind |-> kind, byte |-> w + 1]
  <2>2. x \in Mon!Entries
    BY <1>3, <2>1 DEF Mon!Entries
  <2>3. wire' = Append(wire, x)
    BY <1>1, <1>5 DEF Mon!OnWire, w
  <2> HIDE DEF x
  <2>4. wire' \in Seq(Mon!Entries) /\ Len(wire') = Len(wire) + 1
    BY <1>2, <2>2, <2>3, AppendProperties
  <2> QED BY <2>1, <2>4 DEF w
<1>6. ASSUME Mon!Transmit(b) PROVE MonTypes'
  <2>1. PICK t \in Mon!TxCmds : Mon!Goes(b, [c EXCEPT !.state = "mtxd", !.cmd = t, !.txd = w + 1])
    BY <1>1, <1>6 DEF Mon!Transmit, w
  <2>2. store' = store /\ Mon!OnWire(b, "T")
    BY <1>6 DEF Mon!Transmit
  <2>3. wire' \in Seq(Mon!Entries) /\ Len(wire') = w + 1 /\ w + 1 <= MaxBytes /\ w + 1 \in Mon!Bytes
    BY <1>5, <2>2
  <2> DEFINE d == [c EXCEPT !.state = "mtxd", !.cmd = t, !.txd = w + 1]
  <2>4. d \in Ctls /\ d.state = "mtxd" /\ d.ptr = c.ptr /\ d.len = c.len
    BY <1>1, <2>3 DEF Ctls, Cmds, Mon!States
  <2>5. Mon!Goes(b, d)
    BY <2>1
  <2> HIDE DEF d
  <2>6. CtlRight(d, w + 1)
    BY <1>1, <1>2, <1>3, <2>4 DEF CtlRight
  <2>7. store' \in [Mon!Mons -> [0..Mon!Size - 1 -> Mon!Bytes]]
    BY <2>2 DEF MonTypes
  <2>8. Len(wire) <= Len(wire') /\ Len(wire') <= MaxBytes
    BY <1>2, <2>3 DEF w
  <2> QED BY <2>3, <2>4, <2>5, <2>6, <2>7, <2>8, GoesTypes
<1>7. ASSUME Mon!Receive(b) PROVE MonTypes'
  <2>1. PICK mode \in Mon!Modes, n \in Lengths, a \in DmaAddrs \cup {c.dma} :
          \E t \in {mode} \cup {x \in {"stop"} : mode = "dma" /\ n = 1} :
            Mon!Goes(b, [c EXCEPT !.state = "mrx", !.cmd = t, !.dma = a, !.len = n, !.ptr = 0])
    BY <1>1, <1>7 DEF Mon!Receive
  <2>2. PICK t \in {mode} \cup {x \in {"stop"} : mode = "dma" /\ n = 1} :
            Mon!Goes(b, [c EXCEPT !.state = "mrx", !.cmd = t, !.dma = a, !.len = n, !.ptr = 0])
    BY <2>1
  <2>3. t \in Cmds /\ n \in Nat \ {0} /\ a \in {0} \cup DmaAddrs
    BY <1>3, MonConstants DEF Cmds, Mon!DmaCmds
  <2> DEFINE d == [c EXCEPT !.state = "mrx", !.cmd = t, !.dma = a, !.len = n, !.ptr = 0]
  <2>4. d \in Ctls /\ d.state = "mrx" /\ d.ptr = 0 /\ d.len = n
    BY <1>1, <2>3 DEF Ctls, Mon!States
  <2>5. Mon!Goes(b, d)
    BY <2>2
  <2> HIDE DEF d
  <2>6. CtlRight(d, w)
    BY <1>2, <2>3, <2>4 DEF CtlRight
  <2>7. UNCHANGED <<store, wire>>
    BY <1>7 DEF Mon!Receive
  <2> QED BY <2>4, <2>5, <2>6, <2>7, SignalTypes DEF w
<1>8. ASSUME Mon!ReceiveMore(b) PROVE MonTypes'
  <2> DEFINE d == [c EXCEPT !.state = "mrx"]
  <2>1. Mon!Goes(b, d) /\ c.ptr < c.len /\ UNCHANGED <<store, wire>>
    BY <1>1, <1>8 DEF Mon!ReceiveMore
  <2>2. d \in Ctls /\ d.state = "mrx" /\ d.ptr = c.ptr /\ d.len = c.len
    BY <1>1 DEF Ctls, Mon!States
  <2> HIDE DEF d
  <2>3. CtlRight(d, w)
    BY <1>1, <2>1, <2>2 DEF CtlRight
  <2> QED BY <2>1, <2>2, <2>3, SignalTypes DEF w
<1>9. ASSUME Mon!Received(b) PROVE MonTypes'
  <2>1. c.state = "mrx" /\ Mon!OnWire(b, "R")
    BY <1>1, <1>9 DEF Mon!Received
  <2>2. wire' \in Seq(Mon!Entries) /\ Len(wire') = w + 1 /\ w + 1 <= MaxBytes /\ w + 1 \in Mon!Bytes
    BY <1>5, <2>1
  <2>3. PICK t \in {c.cmd} \cup {x \in {"stop"} : c.cmd = "dma" /\ c.ptr + 1 = c.len} :
          Mon!Goes(b, [c EXCEPT !.state = "mtxack", !.cmd = t, !.ptr = c.ptr + 1])
    BY <1>1, <1>9 DEF Mon!Received
  <2>4. t \in Cmds
    BY <1>3 DEF Cmds, Mon!DmaCmds
  <2> DEFINE d == [c EXCEPT !.state = "mtxack", !.cmd = t, !.ptr = c.ptr + 1]
  <2>5. d \in Ctls /\ d.state = "mtxack" /\ d.ptr = c.ptr + 1 /\ d.len = c.len
    <3>1. c.ptr + 1 \in Nat /\ "mtxack" \in Mon!States
      BY <1>3 DEF Mon!States
    <3> QED BY <2>4, <3>1 DEF Ctls
  <2>6. Mon!Goes(b, d)
    BY <2>3
  <2> HIDE DEF d
  <2>7. CtlRight(d, w + 1)
    BY <1>1, <1>2, <1>3, <2>1, <2>5 DEF CtlRight
  <2>8. store' \in [Mon!Mons -> [0..Mon!Size - 1 -> Mon!Bytes]]
    <3>1. PICK k : store' = store \/ store' = [store EXCEPT ![b][k] = w + 1]
      BY <1>9 DEF Mon!Received, w
    <3>2. [store EXCEPT ![b][k] = w + 1] \in [Mon!Mons -> [0..Mon!Size - 1 -> Mon!Bytes]]
      <4>1. [store[b] EXCEPT ![k] = w + 1] \in [0..Mon!Size - 1 -> Mon!Bytes]
        BY <2>2 DEF MonTypes
      <4> QED BY <4>1 DEF MonTypes
    <3> QED BY <3>1, <3>2 DEF MonTypes
  <2>9. Len(wire) <= Len(wire') /\ Len(wire') <= MaxBytes /\ Len(wire) < Len(wire')
    BY <1>2, <2>2 DEF w
  <2> QED BY <2>2, <2>5, <2>6, <2>7, <2>8, <2>9, GoesTypes
<1> QED BY <1>4, <1>6, <1>7, <1>8, <1>9 DEF Mon!Controller

LEMMA LatestEdit ==
  ASSUME NEW S, NEW s \in Seq(S), s # <<>>, NEW x \in S, NEW t, t = [s EXCEPT ![Len(s)] = x]
  PROVE  /\ t \in Seq(S) /\ Len(t) = Len(s) /\ t[Len(t)] = x /\ Len(s) \in Nat \ {0}
         /\ \A k \in 1..Len(s) - 1 : t[k] = s[k]
<1>1. Len(s) \in Nat \ {0}
  BY LenProperties, EmptySeq
<1>2. DOMAIN t = 1..Len(s) /\ t[Len(s)] = x /\ \A k \in 1..Len(s) - 1 : t[k] = s[k]
  BY <1>1
<1>3. t \in Seq(S) /\ Len(t) = Len(s)
  BY <1>1, ExceptSeq
<1> QED BY <1>1, <1>2, <1>3

LEMMA LatestType ==
  ASSUME MonTypes, change # <<>>
  PROVE  Mon!Latest \in Changes /\ Mon!Latest = change[Len(change)] /\ Len(change) \in Nat \ {0}
<1>1. change \in Seq(Changes)
  BY DEF MonTypes
<1>2. Len(change) \in Nat \ {0}
  BY <1>1, LenProperties, EmptySeq
<1>3. Len(change) \in 1..Len(change)
  BY <1>2
<1>4. change[Len(change)] \in Changes
  BY <1>1, <1>3, ElementOfSeq
<1> QED BY <1>2, <1>4 DEF Mon!Latest

LEMMA WordType ==
  ASSUME MonTypes, NEW b \in Mon!Mons, NEW a \in Nat, a + 3 < Mon!Size
  PROVE  Mon!Word(b, a) \in [0..3 -> Mon!Bytes]
<1>1. \A k \in 0..3 : 4 * (a \div 4) + k \in Nat /\ 4 * (a \div 4) + k <= a + 3
  OBVIOUS
<1>2. \A k \in 0..3 : 4 * (a \div 4) + k \in 0..Mon!Size - 1
  <2>1. Mon!Size \in Nat
    BY SizeIs, MonConstants
  <2> QED BY ONLY <1>1, <2>1, a \in Nat, a + 3 < Mon!Size
<1>3. \A k \in 0..3 : store[b][4 * (a \div 4) + k] \in Mon!Bytes
  BY <1>2 DEF MonTypes
<1> QED BY <1>3 DEF Mon!Word

LEMMA PrintedType ==
  ASSUME NEW x \in Changes
  PROVE  Mon!Printed(x) \in Seq(Mon!Entries)
<1>1. /\ x.bus \in Mon!Mons /\ x.msg \in 0..MaxMsgs /\ x.ptr \in Nat /\ x.word \in [0..3 -> Mon!Bytes]
  BY DEF Changes
<1>2. (x.ptr - 1) % 4 \in 0..3
  BY <1>1
<1>3. \A e \in Mon!Entries : <<e>> \in Seq(Mon!Entries)
  OBVIOUS
<1>4. <<>> \in Seq(Mon!Entries)
  OBVIOUS
<1>5. [bus |-> x.bus, msg |-> x.msg, kind |-> "T", byte |-> x.word[0]] \in Mon!Entries
  BY <1>1 DEF Mon!Entries
<1>6. [bus |-> x.bus, msg |-> x.msg, kind |-> "R", byte |-> x.word[(x.ptr - 1) % 4]] \in Mon!Entries
  BY <1>1, <1>2 DEF Mon!Entries
<1> QED BY <1>3, <1>4, <1>5, <1>6 DEF Mon!Printed

\* The prints of the first n changes.
Upto(n) == Join([k \in 1..n |-> Mon!Printed(change[k])], n)

LEMMA UptoIs ==
  ASSUME NEW n \in Nat
  PROVE  Upto(n) = Mon!FlattenSeq([k \in 1..n |-> Mon!Printed(change[k])])
<1> DEFINE f == [k \in 1..n |-> Mon!Printed(change[k])]
<1>1. [k \in 1..n |-> f[k]] = f
  OBVIOUS
<1> HIDE DEF f
<1>2. Join(f, n) = FlattenSeq(f)
  BY <1>1 DEF Join
<1>3. Mon!FlattenSeq(f) = FlattenSeq(f)
  BY Flattened
<1> QED BY <1>2, <1>3 DEF Upto, f

LEMMA UptoType ==
  ASSUME MonTypes, NEW n \in 0..Len(change)
  PROVE  Upto(n) \in Seq(Mon!Entries)
<1>1. \A k \in 1..n : change[k] \in Changes
  <2>1. change \in Seq(Changes) /\ Len(change) \in Nat
    BY LenProperties DEF MonTypes
  <2>2. \A k \in 1..n : k \in 1..Len(change)
    BY <2>1
  <2> QED BY <2>1, <2>2, ElementOfSeq
<1>2. \A k \in 1..n : [q \in 1..n |-> Mon!Printed(change[q])][k] \in Seq(Mon!Entries)
  BY <1>1, PrintedType
<1>3. n \in Nat
  OBVIOUS
<1> QED BY <1>2, <1>3, JoinType DEF Upto

\* Which change a flush ends at.
LEMMA FlushIs ==
  ASSUME MonTypes, Mon!Flush
  PROVE  \/ /\ \A k \in 1..Len(change) : ~Mon!Refused(change[k])
            /\ out' = out \o Upto(Len(change)) /\ change' = <<>> /\ late' = FALSE
            /\ UNCHANGED <<monPc, victim>>
         \/ \E n \in 1..Len(change) :
              /\ Mon!Refused(change[n]) /\ \A k \in 1..n - 1 : ~Mon!Refused(change[k])
              /\ out' = out \o Upto(n - 1) /\ UNCHANGED <<change, late>>
              /\ monPc' = "dead" /\ victim' = <<change[n].bus, change[n].msg>>
<1> DEFINE bad == {k \in DOMAIN change : Mon!Refused(change[k])}
           worst == CHOOSE k \in bad : \A j \in bad : k <= j
<1>1. DOMAIN change = 1..Len(change) /\ Len(change) \in Nat
  BY LenProperties DEF MonTypes
<1>2. CASE bad = {}
  <2>1. /\ out' = out \o Mon!FlattenSeq([k \in 1..Len(change) |-> Mon!Printed(change[k])])
        /\ change' = <<>> /\ late' = FALSE /\ UNCHANGED <<monPc, victim>>
    BY <1>2 DEF Mon!Flush
  <2>2. \A k \in 1..Len(change) : ~Mon!Refused(change[k])
    BY <1>1, <1>2
  <2> QED BY <1>1, <2>1, <2>2, UptoIs
<1>3. CASE bad # {}
  <2>1. bad \in SUBSET Nat
    BY <1>1
  <2>2. worst \in bad /\ \A j \in bad : worst <= j
    <3> HIDE DEF bad
    <3>1. \E k \in bad : \A j \in bad : k <= j
      BY <1>3, <2>1, Least
    <3> QED BY <3>1
  <2>3. /\ out' = out \o Mon!FlattenSeq([k \in 1..worst - 1 |-> Mon!Printed(change[k])])
        /\ UNCHANGED <<change, late>>
        /\ monPc' = "dead" /\ victim' = <<change[worst].bus, change[worst].msg>>
    BY <1>3 DEF Mon!Flush, Mon!Die
  <2> HIDE DEF worst
  <2>4. worst \in 1..Len(change) /\ Mon!Refused(change[worst])
    BY <1>1, <2>2
  <2>5. \A k \in 1..worst - 1 : ~Mon!Refused(change[k])
    <3>1. \A k \in 1..worst - 1 : k \in 1..Len(change) /\ ~(worst <= k)
      BY <1>1, <2>4
    <3> QED BY <1>1, <2>2, <3>1
  <2>6. worst - 1 \in Nat
    BY <2>4
  <2> QED BY <2>3, <2>4, <2>5, <2>6, UptoIs
<1> QED BY <1>2, <1>3

\* The change of a sample.
Fresh == [bus |-> at, state |-> ctl[at].state, cmd |-> ctl[at].cmd, msg |-> ctl[at].msg,
          ptr |-> 0, word |-> Mon!NoWord]

LEMMA FreshType ==
  ASSUME MonTypes, at \in Mon!Mons
  PROVE  /\ Fresh \in Changes /\ change \in Seq(Changes) /\ Len(change) \in Nat
         /\ Append(change, Fresh) \in Seq(Changes) /\ Append(change, Fresh) # <<>>
         /\ Len(Append(change, Fresh)) = Len(change) + 1
         /\ Append(change, Fresh)[Len(change) + 1] = Fresh
         /\ \A k \in 1..Len(change) : Append(change, Fresh)[k] = change[k]
<1>1. Mon!NoWord \in [0..3 -> Mon!Bytes]
  BY MonConstants DEF Mon!NoWord, Mon!Bytes
<1>2. ctl[at] \in Ctls
  BY DEF MonTypes
<1>3. ctl[at].state \in Mon!States /\ ctl[at].cmd \in Cmds /\ ctl[at].msg \in 0..MaxMsgs
  BY <1>2 DEF Ctls
<1>4. Fresh \in Changes
  BY <1>1, <1>3 DEF Fresh, Changes
<1>5. change \in Seq(Changes) /\ Len(change) \in Nat
  BY LenProperties DEF MonTypes
<1>6. /\ Append(change, Fresh) \in Seq(Changes) /\ Len(Append(change, Fresh)) = Len(change) + 1
      /\ Append(change, Fresh)[Len(change) + 1] = Fresh
      /\ \A k \in 1..Len(change) : Append(change, Fresh)[k] = change[k]
  <2> HIDE DEF Fresh
  <2> QED BY ONLY <1>4, <1>5, AppendProperties
<1>7. Append(change, Fresh) # <<>>
  BY <1>4, <1>5, AppendProperties
<1> QED BY <1>4, <1>5, <1>6, <1>7

LEMMA SampleTypes ==
  ASSUME MonTypes, Mon!Sample
  PROVE  MonTypes'
<1> DEFINE w == Len(wire)
           s == ctl[at].state
<1>1. /\ monPc = "sample" /\ at <= NumMons /\ old' = [old EXCEPT ![at] = s]
      /\ at' = (IF monPc' = "sample" THEN at + 1 ELSE at)
      /\ taken' = [taken EXCEPT ![at] = IF monPc' = "sample" THEN "taken" ELSE "sampled"]
      /\ UNCHANGED <<ctl, store, wire, late, out, misses, excused>>
  BY DEF Mon!Sample, Mon!hardware
<1>2. at \in Mon!Mons /\ at \in Nat \ {0} /\ NumMons \in Nat /\ MaxBatch \in Nat /\ w \in Nat
  BY <1>1, MonConstants, LenProperties DEF MonTypes, Mon!Mons
<1>3. s \in Mon!States /\ ctx[at] \in Ctxs
  BY <1>2 DEF MonTypes, Ctls
<1>4. Len(change) < MaxBatch + at - 1 /\ Len(change) \in Nat
  BY <1>1, <1>2, FreshType DEF MonTypes
<1>5. old' \in [Mon!Mons -> Mon!States \cup {Mon!Unknown}]
  BY <1>1, <1>3 DEF MonTypes
<1>6. taken' \in [Mon!Mons -> {"new", "sampled", "taken"}]
  BY <1>1 DEF MonTypes
<1> HIDE DEF w, s
<1>7. CASE /\ change' = change /\ ctx' = ctx /\ monPc' = "sample"
  <2>1. at' = at + 1 /\ at + 1 \in 1..NumMons + 1
    BY <1>1, <1>2, <1>7
  <2>2. \A b \in Mon!Mons : CtlRight(ctl[b], w) /\ Counts(ctx[b], ctl[b], old'[b], w)
    <3> SUFFICES ASSUME NEW b \in Mon!Mons PROVE CtlRight(ctl[b], w) /\ Counts(ctx[b], ctl[b], old'[b], w)
      OBVIOUS
    <3>1. CtlRight(ctl[b], w) /\ Counts(ctx[b], ctl[b], old[b], w)
      BY DEF MonTypes, w
    <3>2. old'[b] = old[b] \/ old'[b] = ctl[b].state
      BY <1>1 DEF s, MonTypes
    <3> QED BY <3>1, <3>2 DEF Counts
  <2>3. Len(change) < MaxBatch + (at + 1) - 1 /\ Len(change) < MaxBatch + NumMons
    BY <1>1, <1>2, <1>4
  <2> QED BY <1>1, <1>5, <1>6, <1>7, <2>1, <2>2, <2>3 DEF MonTypes, Reading, w, Mon!Steps
<1>8. CASE /\ Mon!Changed(at) /\ change' = Append(change, Fresh) /\ monPc' = Mon!ToRead(s)
           /\ ctx' = [ctx EXCEPT ![at].rx = @ /\ ~Mon!ResetsRx(s)]
  <2>1. monPc' \in {"dma", "txd", "ptr", "dram", "dead", "sample"}
    BY <1>8 DEF Mon!ToRead
  <2>2. at' \in 1..NumMons + 1 /\ (monPc' = "sample" => at' = at + 1) /\ (monPc' # "sample" => at' = at)
    BY <1>1, <1>2
  <2>3. change' \in Seq(Changes) /\ change' # <<>> /\ Len(change') = Len(change) + 1
    BY <1>2, <1>8, FreshType
  <2>4. /\ Len(change') < MaxBatch + at /\ Len(change') < MaxBatch + NumMons
        /\ MaxBatch + at = MaxBatch + (at + 1) - 1
    BY <1>1, <1>2, <1>4, <2>3
  <2>5. \A b \in Mon!Mons : /\ ctx'[b] \in Ctxs /\ ctx'[b].rbytes = ctx[b].rbytes /\ ctx'[b].dmaLen = ctx[b].dmaLen
    BY <1>3, <1>8 DEF MonTypes, Ctxs
  <2>6. ctx' \in [Mon!Mons -> Ctxs]
    BY <1>8, <2>5 DEF MonTypes
  <2>7. \A b \in Mon!Mons : CtlRight(ctl[b], w) /\ Counts(ctx'[b], ctl[b], old'[b], w)
    <3> SUFFICES ASSUME NEW b \in Mon!Mons PROVE CtlRight(ctl[b], w) /\ Counts(ctx'[b], ctl[b], old'[b], w)
      OBVIOUS
    <3>1. CtlRight(ctl[b], w) /\ Counts(ctx[b], ctl[b], old[b], w)
      BY DEF MonTypes, w
    <3>2. old'[b] = old[b] \/ old'[b] = ctl[b].state
      BY <1>1 DEF s, MonTypes
    <3> QED BY <2>5, <3>1, <3>2 DEF Counts
  <2>8. monPc' = "dram" => old'[at] = "mtxack" /\ ctx'[at].rbytes < ctx'[at].dmaLen /\ ctx'[at].rbytes < w
    <3> SUFFICES ASSUME monPc' = "dram"
                 PROVE  old'[at] = "mtxack" /\ ctx'[at].rbytes < ctx'[at].dmaLen /\ ctx'[at].rbytes < w
      OBVIOUS
    <3>1. s = "mtxack" /\ ctx[at].rbytes < ctx[at].dmaLen
      BY <1>8 DEF Mon!ToRead
    <3>2. old'[at] = "mtxack"
      BY <1>1, <1>2, <3>1 DEF MonTypes
    <3>3. ctl[at].state = "mtxack" /\ old[at] # "mtxack"
      BY <1>8, <3>1 DEF Mon!Changed, s
    <3>4. ctx[at].rbytes < w
      BY <1>2, <3>3 DEF MonTypes, Counts, w
    <3> QED BY <1>2, <2>5, <3>1, <3>2, <3>4
  <2>9. monPc' # "sample" => at' <= NumMons
    BY <1>1, <2>2
  <2>10. (monPc' = "sample" => Len(change') < MaxBatch + at' - 1) /\ (monPc' # "sample" => Len(change') < MaxBatch + at')
    BY <2>2, <2>4
  <2>11. monPc' = "dram" => old'[at'] = "mtxack" /\ ctx'[at'].rbytes < ctx'[at'].dmaLen /\ ctx'[at'].rbytes < w
    BY <2>2, <2>8
  <2> QED BY <1>1, <1>5, <1>6, <2>1, <2>2, <2>3, <2>4, <2>6, <2>7, <2>9, <2>10, <2>11
          DEF MonTypes, Reading, w, Mon!Steps
<1> QED BY <1>7, <1>8 DEF Mon!Sample, Fresh, s

\* The turn of the next monitor, after a read.
LEMMA AdvanceTypes ==
  ASSUME MonTypes, Reading, Mon!Advance, UNCHANGED <<ctl, store, wire, late, old, out, misses, excused>>,
         change' \in Seq(Changes), Len(change') = Len(change), ctx' \in [Mon!Mons -> Ctxs],
         \A b \in Mon!Mons : Counts(ctx'[b], ctl[b], old[b], Len(wire))
  PROVE  MonTypes'
<1>1. monPc' = "sample" /\ at' = at + 1 /\ taken' \in [Mon!Mons -> {"new", "sampled", "taken"}]
  BY DEF Mon!Advance, MonTypes
<1>2. at <= NumMons /\ at \in 1..NumMons + 1 /\ NumMons \in Nat
  BY MonConstants DEF MonTypes, Reading
<1>3. Len(change') < MaxBatch + at' - 1 /\ Len(change') < MaxBatch + NumMons
  <2>1. Len(change) < MaxBatch + at /\ Len(change) < MaxBatch + NumMons /\ MaxBatch \in Nat /\ Len(change) \in Nat
    BY MonConstants, LenProperties DEF MonTypes
  <2> QED BY <1>1, <1>2, <2>1
<1>4. at' \in 1..NumMons + 1
  BY <1>1, <1>2
<1> QED BY <1>1, <1>3, <1>4 DEF MonTypes, Reading, Mon!Steps

LEMMA ReadsTypes ==
  ASSUME MonTypes, Mon!Reads
  PROVE  MonTypes'
<1> DEFINE w == Len(wire)
           n == Len(change)
<1>1. /\ Mon!ReadDma \/ Mon!ReadLen \/ Mon!ReadTxd \/ Mon!ReadPtr \/ Mon!ReadPool \/ Mon!ReadDram
      /\ UNCHANGED <<ctl, store, wire, late, old, out, misses, excused>>
  BY DEF Mon!Reads, Mon!hardware
<1>2. Reading
  BY <1>1 DEF Reading, Mon!ReadDma, Mon!ReadLen, Mon!ReadTxd, Mon!ReadPtr, Mon!ReadPool, Mon!ReadDram
<1>3. change \in Seq(Changes) /\ change # <<>> /\ n \in Nat \ {0}
  BY <1>2, LenProperties, EmptySeq DEF MonTypes
<1>4. at \in Mon!Mons /\ w \in Nat /\ w <= MaxBytes /\ MaxBytes \in Nat
  BY <1>2, MonConstants, LenProperties DEF MonTypes, Reading, Mon!Mons
<1>5. PICK x \in Changes : x = change[n] /\ x = Mon!Latest
  BY <1>3, LatestType
<1>6. PICK c \in Ctls : c = ctl[at] /\ CtlRight(c, w)
  BY <1>4 DEF MonTypes
<1>7. PICK k \in Ctxs : k = ctx[at] /\ Counts(k, c, old[at], w)
  BY <1>4, <1>6 DEF MonTypes
<1>8. \A b \in Mon!Mons : Counts(ctx[b], ctl[b], old[b], w)
  BY DEF MonTypes
<1> HIDE DEF w, n
<1>9. ASSUME NEW y \in Changes, change' = [change EXCEPT ![n] = y]
      PROVE  change' \in Seq(Changes) /\ Len(change') = Len(change) /\ change'[Len(change')] = y /\ change' # <<>>
  <2>1. PICK t : t = change'
    OBVIOUS
  <2>2. t \in Seq(Changes) /\ Len(t) = Len(change) /\ t[Len(t)] = y /\ Len(change) \in Nat \ {0}
    BY <1>3, <1>9, <2>1, LatestEdit DEF n
  <2>3. t # <<>>
    BY <2>2
  <2> QED BY <2>1, <2>2, <2>3
<1>10. CASE Mon!ReadDma
  <2>1. monPc' = "len" /\ ctx' = [ctx EXCEPT ![at].dmaAddr = c.dma] /\ UNCHANGED <<at, change, taken>> /\ monPc = "dma"
    BY <1>6, <1>10 DEF Mon!ReadDma
  <2>2. ctx' = [ctx EXCEPT ![at] = [k EXCEPT !.dmaAddr = c.dma]]
    BY <1>7, <2>1
  <2> DEFINE e == [k EXCEPT !.dmaAddr = c.dma]
  <2>3. e \in Ctxs /\ e.rbytes = k.rbytes /\ e.dmaLen = k.dmaLen
    BY DEF Ctxs, Ctls
  <2> HIDE DEF e
  <2>4. ctx' \in [Mon!Mons -> Ctxs]
    BY <2>2, <2>3 DEF MonTypes, e
  <2>5. \A b \in Mon!Mons : Counts(ctx'[b], ctl[b], old[b], w)
    <3>1. Counts(e, c, old[at], w)
      BY <1>7, <2>3 DEF Counts
    <3>2. \A b \in Mon!Mons : ctx'[b] = (IF b = at THEN e ELSE ctx[b])
      BY <2>2 DEF MonTypes, e
    <3> QED BY <1>6, <1>8, <3>1, <3>2
  <2> QED BY <1>1, <2>1, <2>4, <2>5 DEF MonTypes, Reading, Mon!Steps, w
<1>11. CASE Mon!ReadLen
  <2>1. /\ Mon!Advance /\ change' = change
        /\ ctx' = [ctx EXCEPT ![at].dmaLen = c.len, ![at].cmd = x.cmd, ![at].rbytes = 0, ![at].rx = TRUE]
    BY <1>5, <1>6, <1>11 DEF Mon!ReadLen
  <2> DEFINE e == [k EXCEPT !.dmaLen = c.len, !.cmd = x.cmd, !.rbytes = 0, !.rx = TRUE]
  <2>2. ctx' = [ctx EXCEPT ![at] = e]
    BY <1>4, <1>7, <2>1 DEF MonTypes
  <2>3. e \in Ctxs /\ e.rbytes = 0 /\ e.dmaLen = c.len
    BY DEF Ctxs, Ctls, Changes
  <2> HIDE DEF e
  <2>4. ctx' \in [Mon!Mons -> Ctxs]
    BY <2>2, <2>3 DEF MonTypes
  <2>5. \A b \in Mon!Mons : Counts(ctx'[b], ctl[b], old[b], w)
    <3>1. c.len \in Nat /\ c.ptr \in Nat
      <4>1. c.len \in {0} \cup Lengths /\ c.ptr \in Nat
        BY DEF Ctls
      <4>2. \A d \in {0} \cup Lengths : d \in Nat
        BY MonConstants
      <4> QED BY <4>1, <4>2
    <3>2. c.state = "mtxack" => 0 < w
      BY <1>4, <1>6, <3>1 DEF CtlRight
    <3>3. Counts(e, c, old[at], w)
      BY <1>4, <2>3, <3>1, <3>2 DEF Counts
    <3>4. \A b \in Mon!Mons : ctx'[b] = (IF b = at THEN e ELSE ctx[b])
      BY <2>2 DEF MonTypes
    <3> QED BY <1>6, <1>8, <3>3, <3>4
  <2>6. change' \in Seq(Changes) /\ Len(change') = Len(change)
    BY <1>3, <2>1
  <2> QED BY <1>1, <1>2, <2>1, <2>4, <2>5, <2>6, AdvanceTypes DEF w
<1>12. CASE Mon!ReadTxd
  <2>1. /\ Mon!Advance /\ ctx' = ctx /\ change' = [change EXCEPT ![n].word[0] = c.txd]
    BY <1>6, <1>12 DEF Mon!ReadTxd, n
  <2> DEFINE y == [x EXCEPT !.word[0] = c.txd]
  <2>2. change' = [change EXCEPT ![n] = y]
    BY <1>5, <2>1
  <2>3. y \in Changes
    <3>1. [x.word EXCEPT ![0] = c.txd] \in [0..3 -> Mon!Bytes]
      BY DEF Changes, Ctls
    <3> QED BY <3>1 DEF Changes
  <2>4. change' \in Seq(Changes) /\ Len(change') = Len(change)
    BY <1>9, <2>2, <2>3
  <2>5. ctx' \in [Mon!Mons -> Ctxs]
    BY <2>1 DEF MonTypes
  <2> QED BY <1>1, <1>2, <1>8, <2>1, <2>4, <2>5, AdvanceTypes DEF w
<1>13. CASE Mon!ReadPtr
  <2>1. /\ monPc = "ptr" /\ UNCHANGED <<at, ctx, taken>> /\ change' = [change EXCEPT ![n].ptr = c.ptr]
        /\ (c.ptr # 0 /\ monPc' = "pool") \/ monPc' = "dead"
    BY <1>6, <1>13 DEF Mon!ReadPtr, Mon!Die, n
  <2> DEFINE y == [x EXCEPT !.ptr = c.ptr]
  <2>2. change' = [change EXCEPT ![n] = y]
    BY <1>5, <2>1
  <2>3. y \in Changes /\ y.ptr = c.ptr
    BY DEF Changes, Ctls
  <2> HIDE DEF y
  <2>4. change' \in Seq(Changes) /\ Len(change') = Len(change) /\ change'[Len(change')] = y /\ change' # <<>>
    BY <1>9, <2>2, <2>3
  <2>5. Mon!Latest' = y
    BY <2>4 DEF Mon!Latest
  <2>6. monPc' = "pool" => Mon!Latest'.ptr # 0 /\ Mon!Latest'.ptr <= w
    BY <1>6, <2>1, <2>3, <2>5 DEF CtlRight
  <2>7. /\ monPc' = "pool" \/ monPc' = "dead"
        /\ at <= NumMons /\ Len(change) < MaxBatch + NumMons /\ Len(change) < MaxBatch + at
    BY <2>1, <1>2 DEF MonTypes, Reading
  <2> QED BY <1>1, <2>1, <2>4, <2>6, <2>7 DEF MonTypes, Reading, Mon!Steps, w
<1>14. CASE Mon!ReadPool
  <2>1. /\ Mon!Advance /\ ctx' = ctx /\ change' = [change EXCEPT ![n].word = Mon!Word(at, x.ptr - 1)]
        /\ monPc = "pool"
    BY <1>5, <1>14 DEF Mon!ReadPool, n
  <2>2. x.ptr \in Nat /\ x.ptr # 0 /\ x.ptr <= w
    BY <1>5, <2>1 DEF MonTypes, Changes, w
  <2>3. x.ptr - 1 \in Nat /\ (x.ptr - 1) + 3 < Mon!Size
    BY <1>4, <2>2, SizeIs
  <2> DEFINE y == [x EXCEPT !.word = Mon!Word(at, x.ptr - 1)]
  <2>4. change' = [change EXCEPT ![n] = y]
    BY <1>5, <2>1
  <2>5. y \in Changes
    <3>1. Mon!Word(at, x.ptr - 1) \in [0..3 -> Mon!Bytes]
      BY <1>4, <2>3, WordType
    <3> QED BY <3>1 DEF Changes
  <2>6. change' \in Seq(Changes) /\ Len(change') = Len(change)
    BY <1>9, <2>4, <2>5
  <2>7. ctx' \in [Mon!Mons -> Ctxs]
    BY <2>1 DEF MonTypes
  <2> QED BY <1>1, <1>2, <1>8, <2>1, <2>6, <2>7, AdvanceTypes DEF w
<1>15. CASE Mon!ReadDram
  <2>1. /\ Mon!Advance /\ monPc = "dram"
        /\ change' = [change EXCEPT ![n].word = Mon!Word(at, k.dmaAddr + k.rbytes),
                                    ![n].ptr = (k.rbytes + 1) % 256]
        /\ ctx' = [ctx EXCEPT ![at].rbytes = k.rbytes + 1]
    BY <1>7, <1>15 DEF Mon!ReadDram, n
  <2>2. k.rbytes \in Nat /\ k.rbytes < w /\ old[at] = "mtxack" /\ k.rbytes < k.dmaLen /\ k.dmaLen \in Nat
    <3>1. k.rbytes \in Nat /\ k.dmaLen \in {0} \cup Lengths
      BY DEF Ctxs
    <3>2. \A d \in {0} \cup Lengths : d \in Nat
      BY MonConstants
    <3>3. k.rbytes < w /\ old[at] = "mtxack" /\ k.rbytes < k.dmaLen
      BY <1>7, <2>1 DEF MonTypes, w
    <3> QED BY <3>1, <3>2, <3>3
  <2>3. PICK a \in Nat : a = k.dmaAddr + k.rbytes /\ a + 3 < Mon!Size
    <3>1. PICK top \in Nat : (\A d \in DmaAddrs : d <= top) /\ Mon!Size = 4 * (MaxBytes + 1) + top
      BY SizeIs
    <3>2. k.dmaAddr \in {0} \cup DmaAddrs
      BY DEF Ctxs
    <3>3. k.dmaAddr \in Nat /\ k.dmaAddr <= top
      <4>1. \A d \in {0} \cup DmaAddrs : d \in Nat /\ d <= top
        BY <3>1, MonConstants
      <4> QED BY ONLY <3>2, <4>1
    <3>4. k.dmaAddr + k.rbytes \in Nat /\ k.dmaAddr + k.rbytes + 3 < 4 * (MaxBytes + 1) + top
      BY <1>4, <2>2, <3>1, <3>3
    <3> QED BY <3>1, <3>4
  <2>4. (k.rbytes + 1) % 256 \in Nat
    BY <2>2
  <2> DEFINE y == [x EXCEPT !.word = Mon!Word(at, a), !.ptr = (k.rbytes + 1) % 256]
  <2>5. change' = [change EXCEPT ![n] = y]
    BY <1>3, <1>5, <2>1, <2>3 DEF n
  <2>6. y \in Changes
    <3>1. Mon!Word(at, a) \in [0..3 -> Mon!Bytes]
      BY <1>4, <2>3, WordType
    <3> QED BY <2>4, <3>1 DEF Changes
  <2>7. change' \in Seq(Changes) /\ Len(change') = Len(change)
    BY <1>9, <2>5, <2>6
  <2> DEFINE e == [k EXCEPT !.rbytes = k.rbytes + 1]
  <2>8. ctx' = [ctx EXCEPT ![at] = e]
    BY <1>7, <2>1
  <2>9. e \in Ctxs /\ e.rbytes = k.rbytes + 1 /\ e.dmaLen = k.dmaLen
    BY <2>2 DEF Ctxs
  <2> HIDE DEF e, y
  <2>10. ctx' \in [Mon!Mons -> Ctxs]
    BY <2>8, <2>9 DEF MonTypes
  <2>11. \A b \in Mon!Mons : Counts(ctx'[b], ctl[b], old[b], w)
    <3>1. Counts(e, c, old[at], w)
      BY <1>4, <2>2, <2>9 DEF Counts
    <3>2. \A b \in Mon!Mons : ctx'[b] = (IF b = at THEN e ELSE ctx[b])
      BY <2>8 DEF MonTypes
    <3> QED BY <1>6, <1>8, <3>1, <3>2
  <2> QED BY <1>1, <1>2, <2>1, <2>7, <2>10, <2>11, AdvanceTypes DEF w
<1> QED BY <1>1, <1>10, <1>11, <1>12, <1>13, <1>14, <1>15

LEMMA EndPassTypes ==
  ASSUME MonTypes, Mon!EndPass
  PROVE  MonTypes'
<1>1. /\ monPc = "sample" /\ at = NumMons + 1 /\ at' = 1
      /\ UNCHANGED <<ctl, store, wire, old, ctx, taken, misses, excused>>
      /\ \/ Mon!Flush
         \/ /\ ~Mon!Due /\ late' \in BOOLEAN /\ UNCHANGED <<out, change, monPc>>
  BY DEF Mon!EndPass, Mon!hardware
<1>2. NumMons \in Nat \ {0} /\ MaxBatch \in Nat \ {0} /\ Len(change) \in Nat /\ change \in Seq(Changes)
      /\ Len(change) < MaxBatch + NumMons
  BY MonConstants, LenProperties DEF MonTypes
<1>3. at' \in 1..NumMons + 1 /\ at' <= NumMons
  BY <1>1, <1>2
<1>4. CASE ~Mon!Due /\ late' \in BOOLEAN /\ UNCHANGED <<out, change, monPc>>
  <2>1. Len(change) < MaxBatch + 1 - 1
    BY <1>2, <1>4 DEF Mon!Due
  <2> QED BY <1>1, <1>2, <1>3, <1>4, <2>1 DEF MonTypes, Reading
<1>5. ASSUME NEW k \in 0..Len(change), out' = out \o Upto(k) PROVE out' \in Seq(Mon!Entries)
  <2>1. out \in Seq(Mon!Entries) /\ Upto(k) \in Seq(Mon!Entries)
    BY UptoType DEF MonTypes
  <2> QED BY <1>5, <2>1, ConcatProperties
<1>6. CASE /\ out' = out \o Upto(Len(change)) /\ change' = <<>> /\ late' = FALSE /\ monPc' = monPc
  <2>1. out' \in Seq(Mon!Entries)
    BY SMTT(30), <1>2, <1>5, <1>6
  <2>2. change' \in Seq(Changes) /\ Len(change') = 0
    BY <1>6
  <2>3. 0 < MaxBatch + NumMons /\ 0 < MaxBatch + 1 - 1
    BY <1>2
  <2> QED BY <1>1, <1>2, <1>3, <1>6, <2>1, <2>2, <2>3 DEF MonTypes, Reading
<1>7. ASSUME NEW k \in 1..Len(change), out' = out \o Upto(k - 1), UNCHANGED <<change, late>>, monPc' = "dead"
      PROVE  MonTypes'
  <2>1. k - 1 \in 0..Len(change)
    BY <1>2
  <2>2. out' \in Seq(Mon!Entries)
    BY <1>5, <1>7, <2>1
  <2> QED BY <1>1, <1>2, <1>3, <1>7, <2>2 DEF MonTypes, Reading
<1>8. CASE Mon!Flush
  <2>1. \/ /\ out' = out \o Upto(Len(change)) /\ change' = <<>> /\ late' = FALSE /\ monPc' = monPc
        \/ \E k \in 1..Len(change) :
             out' = out \o Upto(k - 1) /\ UNCHANGED <<change, late>> /\ monPc' = "dead"
    BY <1>8, FlushIs
  <2> QED BY <1>6, <1>7, <2>1
<1> QED BY <1>1, <1>4, <1>8

LEMMA MonTypesStep ==
  ASSUME MonTypes, Mon!Next
  PROVE  MonTypes'
BY SampleTypes, ReadsTypes, EndPassTypes, ControllerTypes DEF Mon!Next, Mon!Monitor

LEMMA MonTypesMeans ==
  ASSUME MonTypes
  PROVE  Mon!TypeOK
<1>1. \A b \in Mon!Mons :
        /\ ctl[b].state \in Mon!States /\ ctl[b].cmd \in {"none"} \cup Mon!TxCmds \cup Mon!Modes \cup Mon!DmaCmds
        /\ ctl[b].txd \in Mon!Bytes /\ ctl[b].dma \in {0} \cup DmaAddrs /\ ctl[b].msg \in 0..MaxMsgs
        /\ ctl[b].len \in {0} \cup Lengths /\ ctl[b].ptr \in Nat /\ ctl[b].ptr <= ctl[b].len
        /\ ctx[b].rbytes \in Nat /\ ctx[b].dmaLen \in {0} \cup Lengths /\ ctx[b].rbytes <= ctx[b].dmaLen
  BY DEF MonTypes, Ctls, Ctxs, Cmds, CtlRight, Counts
<1>2. \A n \in {0} \cup Lengths : n \in Nat
  BY MonConstants
<1>3. \A b \in Mon!Mons : ctl[b].ptr \in 0..ctl[b].len /\ ctx[b].rbytes \in 0..ctx[b].dmaLen
  BY ONLY <1>1, <1>2
<1>4. at > NumMons => monPc = "sample"
  BY MonConstants DEF MonTypes
<1> QED BY <1>1, <1>3, <1>4 DEF MonTypes, Mon!TypeOK

-----------------------------------------------------------------------------
(* ast -i2cmon: what it prints                                             *)

\* What the decoder prints of a change (ast.go:181-210), and what of it is of one message.
Shown(x) ==
  IF x.state = "mtxd" /\ x.cmd = "tx"
    THEN <<[bus |-> x.bus, msg |-> x.msg, kind |-> "T", byte |-> x.word[0]]>>
  ELSE IF x.state = "mtxack" /\ x.cmd \in Mon!RxCmds
    THEN <<[bus |-> x.bus, msg |-> x.msg, kind |-> "R", byte |-> x.word[(x.ptr - 1) % 4]]>>
  ELSE <<>>

ShownOf(x, b, m) == IF x.bus = b /\ x.msg = m THEN Shown(x) ELSE <<>>

\* The first n changes of a batch, of a message.
Batched(s, b, m, n) == Join([k \in 1..n |-> ShownOf(s[k], b, m)], n)

\* The changes of which all is read.
Complete == IF monPc \in {"txd", "ptr", "pool", "dram"} THEN Len(change) - 1 ELSE Len(change)

\* The byte in the controller, while the monitor has not taken it in.
Place(c) == (IF c.cmd \in Mon!DmaCmds THEN c.dma ELSE 0) + c.ptr - 1

Byte(c, s, b, m) ==
  IF c.state = "mtxd" THEN <<[bus |-> b, msg |-> m, kind |-> "T", byte |-> c.txd]>>
  ELSE IF c.state = "mtxack" THEN <<[bus |-> b, msg |-> m, kind |-> "R", byte |-> s[Place(c)]]>>
  ELSE <<>>

Missing(b, m) ==
  IF m = ctl[b].msg /\ taken[b] # "taken" THEN Byte(ctl[b], store[b], b, m) ELSE <<>>

\* Printed, in the batch, or in the controller: what was on the wire.
Three(p, q, r, w) == (p \o q) \o r = w
Stream(b, m) == Three(Mon!Of(out, b, m), Batched(change, b, m, Complete), Missing(b, m), Mon!Of(wire, b, m))

\* A transfer that the decoder understands, and what it knows of it.
Understood(c) ==
  /\ c.state = "mtxd" => c.cmd = "tx"
  /\ c.state \in {"mrx", "mtxack"} =>
       c.cmd \in Mon!RxCmds /\ c.len < Wrap /\ (c.cmd \in Mon!DmaCmds => c.dma % 4 = 0)

Follows(x, c, t) ==
  /\ x.rx /\ x.dmaAddr = c.dma /\ x.dmaLen = c.len /\ x.cmd \in Mon!RxCmds
  /\ x.cmd = "pool" <=> c.cmd = "pool"
  /\ x.cmd # "pool" => x.rbytes = IF c.state = "mtxack" /\ t # "taken" THEN c.ptr - 1 ELSE c.ptr

\* The state that was seen before this one, of a message that is seen in full.
After(c, s) ==
  /\ c.state = "mtxd" => s \in {"mstart", "mrxack"}
  /\ c.state = "mtxack" => s = "mrx"
  /\ c.state = "mrx" => s = "mtxack" \/ (s = "mrxack" /\ c.ptr = 0)

BusRight(b) ==
  /\ taken[b] = "sampled" => Reading /\ at = b
  /\ taken[b] # "new" => old[b] = ctl[b].state
  /\ ctx[b].rx => old[b] \in {"mrx", "mtxd", "mtxack"}
  /\ ctl[b].msg \notin excused[b] =>
       /\ Understood(ctl[b])
       /\ taken[b] = "new" => After(ctl[b], old[b])
       /\ \/ ctl[b].state = "mtxack"
          \/ ctl[b].state = "mrx" /\ (taken[b] = "taken" \/ old[b] = "mtxack")
          => Follows(ctx[b], ctl[b], taken[b])

\* What is read belongs to the latest change, unless the message of it is excused.
LatestRight ==
  LET y == Mon!Latest IN
  /\ taken[at] # "taken" /\ y.bus = at /\ old[at] = y.state
  /\ monPc \in {"dma", "len"} => y.state = "mrx"
  /\ monPc = "txd" => y.state = "mtxd"
  /\ monPc \in {"ptr", "pool", "dram"} => y.state = "mtxack"
  /\ taken[at] = "new" => ctl[at].msg \in excused[at] \/ ctl[at].state = "mstart"
  /\ taken[at] = "new" => y.msg \in excused[at]
  /\ taken[at] = "sampled" => y.msg = ctl[at].msg /\ y.state = ctl[at].state /\ y.cmd = ctl[at].cmd
  /\ y.msg \notin excused[at] =>
       /\ monPc \in {"dma", "len"} => ctl[at].ptr = 0
       /\ monPc = "len" => ctx[at].dmaAddr = ctl[at].dma
       /\ monPc = "pool" => y.ptr = ctl[at].ptr
       /\ monPc \in {"ptr", "pool"} => ctl[at].cmd = "pool"
       /\ monPc = "dram" => ctl[at].cmd \in Mon!DmaCmds

RefusedRight == \A k \in 1..Complete : Mon!Refused(change[k]) => change[k].msg \in excused[change[k].bus]

Streams == \A b \in Mon!Mons : \A m \in (0..MaxMsgs) \ excused[b] : Stream(b, m)

DecInv ==
  monPc # "dead" =>
    (\A b \in Mon!Mons : BusRight(b)) /\ (Reading => LatestRight) /\ RefusedRight /\ Streams

LEMMA JoinSame ==
  ASSUME NEW n \in Nat, NEW f, NEW g, \A k \in 1..n : f[k] = g[k]
  PROVE  Join(f, n) = Join(g, n)
<1>1. [k \in 1..n |-> f[k]] = [k \in 1..n |-> g[k]]
  OBVIOUS
<1> QED BY <1>1 DEF Join

LEMMA AppendToConcat ==
  ASSUME NEW S, NEW s \in Seq(S), NEW t \in Seq(S), NEW x \in S
  PROVE  s \o Append(t, x) = Append(s \o t, x)
<1>1. <<x>> \in Seq(S)
  OBVIOUS
<1>2. Append(t, x) = t \o <<x>>
  BY AppendIsConcat
<1>3. s \o t \in Seq(S)
  BY ConcatProperties
<1>4. Append(s \o t, x) = (s \o t) \o <<x>>
  BY <1>3, AppendIsConcat
<1>5. (s \o t) \o <<x>> = s \o (t \o <<x>>)
  BY <1>1, ConcatAssociative
<1> QED BY <1>2, <1>4, <1>5

LEMMA PrefixIs ==
  ASSUME NEW S, NEW s \in Seq(S), NEW r \in Seq(S), NEW t, t = s \o r
  PROVE  Mon!IsPrefix(s, t)
<1>1. PICK n : n = Len(s)
  OBVIOUS
<1>2. /\ t \in Seq(S) /\ Len(t) = n + Len(r) /\ n \in Nat /\ Len(r) \in Nat
      /\ \A k \in 1..n + Len(r) : t[k] = IF k <= n THEN s[k] ELSE r[k - n]
  BY <1>1, ConcatProperties, LenProperties
<1>3. n <= Len(t) /\ \A k \in 1..n : t[k] = s[k]
  BY <1>2
<1>4. SubSeq(s, 1, n) = SubSeq(t, 1, n)
  BY <1>2, <1>3, SameParts
<1> QED BY <1>1, <1>3, <1>4 DEF Mon!IsPrefix

\* An entry, when it is of the message.
Pick(e, b, m) == IF e.bus = b /\ e.msg = m THEN <<e>> ELSE <<>>

LEMMA OfIs ==
  ASSUME NEW s, NEW b, NEW m, NEW n, n = Len(s)
  PROVE  Mon!Of(s, b, m) = Join([k \in 1..n |-> Pick(s[k], b, m)], n)
<1> DEFINE f == [k \in 1..n |-> Pick(s[k], b, m)]
<1>1. f = [k \in 1..n |-> IF s[k].bus = b /\ s[k].msg = m THEN <<s[k]>> ELSE <<>>]
  BY DEF Pick
<1>2. f = [k \in 1..n |-> f[k]]
  OBVIOUS
<1>3. Mon!Of(s, b, m) = Mon!FlattenSeq(f)
  BY <1>1 DEF Mon!Of
<1> HIDE DEF f
<1>4. Mon!Of(s, b, m) = Join(f, n)
  BY <1>2, <1>3, Flattened DEF Join
<1> QED BY <1>4 DEF f

LEMMA PickType ==
  ASSUME NEW S, NEW e \in S, NEW b, NEW m
  PROVE  Pick(e, b, m) \in Seq(S)
<1>1. <<e>> \in Seq(S) /\ <<>> \in Seq(S)
  OBVIOUS
<1> QED BY <1>1 DEF Pick

LEMMA OfNone ==
  ASSUME NEW b, NEW m
  PROVE  Mon!Of(<<>>, b, m) = <<>>
<1>1. PICK s : s = <<>> /\ Len(s) = 0
  OBVIOUS
<1>2. PICK n : n = 0 /\ n = Len(s)
  BY <1>1
<1>3. Mon!Of(s, b, m) = Join([k \in 1..n |-> Pick(s[k], b, m)], n)
  BY ZenonT(40), <1>2, OfIs
<1>4. Mon!Of(s, b, m) = <<>>
  BY <1>2, <1>3, JoinNone
<1> QED BY <1>1, <1>4

OneMore(t, s, e) == t = Append(s, e)

LEMMA OfAppend ==
  ASSUME NEW S, NEW s \in Seq(S), NEW e \in S, NEW b, NEW m, NEW t, OneMore(t, s, e)
  PROVE  Mon!Of(s, b, m) \in Seq(S) /\ Mon!Of(t, b, m) = Mon!Of(s, b, m) \o Pick(e, b, m)
<1>1. PICK n \in Nat : n = Len(s)
  BY LenProperties
<1>2. t = Append(s, e)
  BY DEF OneMore
<1>3. t \in Seq(S) /\ Len(t) = n + 1 /\ t[n + 1] = e /\ \A k \in 1..n : t[k] = s[k]
  BY <1>1, <1>2, AppendProperties
<1>4. PICK f : f = [k \in 1..n |-> Pick(s[k], b, m)]
  OBVIOUS
<1>5. PICK g : g = [k \in 1..n + 1 |-> Pick(t[k], b, m)]
  OBVIOUS
<1>6. n + 1 = Len(t)
  BY <1>3
<1>7. Mon!Of(s, b, m) = Join(f, n) /\ Mon!Of(t, b, m) = Join(g, n + 1)
  <2>1. Mon!Of(s, b, m) = Join([k \in 1..n |-> Pick(s[k], b, m)], n)
    BY <1>1, OfIs
  <2>2. PICK j : j = n + 1
    OBVIOUS
  <2>3. Mon!Of(t, b, m) = Join([k \in 1..j |-> Pick(t[k], b, m)], j)
    BY <1>6, <2>2, OfIs
  <2> QED BY <1>4, <1>5, <2>1, <2>2, <2>3
<1>8. \A k \in 1..n + 1 : g[k] \in Seq(S)
  <2>1. \A k \in 1..n + 1 : t[k] \in S
    BY <1>3, <1>6, ElementOfSeq
  <2> QED BY <1>5, <2>1, PickType
<1>9. Join(g, n) \in Seq(S) /\ Join(g, n + 1) = Join(g, n) \o g[n + 1]
  BY <1>8, JoinMore
<1>10. \A k \in 1..n : f[k] = g[k]
  <2>1. \A k \in 1..n : k \in 1..n + 1
    OBVIOUS
  <2> QED BY <1>3, <1>4, <1>5, <2>1
<1>11. Join(f, n) = Join(g, n)
  BY <1>10, JoinSame
<1>12. g[n + 1] = Pick(e, b, m)
  BY <1>3, <1>5
<1> QED BY <1>2, <1>7, <1>9, <1>11, <1>12

LEMMA OfType ==
  ASSUME NEW S, NEW s \in Seq(S), NEW b, NEW m
  PROVE  Mon!Of(s, b, m) \in Seq(S)
<1>1. PICK n \in Nat : n = Len(s)
  BY LenProperties
<1>2. \A k \in 1..n : s[k] \in S
  BY <1>1, ElementOfSeq
<1>3. PICK f : f = [k \in 1..n |-> Pick(s[k], b, m)]
  OBVIOUS
<1>4. \A k \in 1..n : f[k] \in Seq(S)
  BY <1>2, <1>3, PickType
<1>5. Mon!Of(s, b, m) = Join(f, n)
  BY <1>1, <1>3, OfIs
<1> QED BY <1>4, <1>5, JoinType

LEMMA OfOne ==
  ASSUME NEW e, NEW b, NEW m
  PROVE  Mon!Of(<<e>>, b, m) = Pick(e, b, m)
<1>1. <<>> \in Seq({e}) /\ Append(<<>>, e) = <<e>> /\ e \in {e}
  OBVIOUS
<1>2. Pick(e, b, m) \in Seq({e})
  BY PickType
<1>3. Mon!Of(<<e>>, b, m) = <<>> \o Pick(e, b, m)
  <2>1. PICK s : s = <<>>
    OBVIOUS
  <2>2. PICK S : S = {e}
    OBVIOUS
  <2>3. PICK t : t = <<e>>
    OBVIOUS
  <2>4. s \in Seq(S) /\ e \in S /\ OneMore(t, s, e)
    BY <1>1, <2>1, <2>2, <2>3 DEF OneMore
  <2>5. Mon!Of(t, b, m) = Mon!Of(s, b, m) \o Pick(e, b, m)
    BY <2>4, OfAppend
  <2> QED BY <2>1, <2>3, <2>5, OfNone
<1> QED BY <1>2, <1>3, ConcatEmptySeq

Associate(s, t, u) == (s \o t) \o u = s \o (t \o u)

LEMMA Assoc ==
  ASSUME NEW S, NEW s \in Seq(S), NEW t \in Seq(S), NEW u \in Seq(S)
  PROVE  Associate(s, t, u)
BY ConcatAssociative DEF Associate

\* What is of a message in two sequences, one after the other.
BothOf(s, t, b, m) == Mon!Of(s \o t, b, m) = Mon!Of(s, b, m) \o Mon!Of(t, b, m)

LEMMA OfConcat ==
  ASSUME NEW S, NEW s \in Seq(S), NEW t \in Seq(S), NEW b, NEW m
  PROVE  Mon!Of(s \o t, b, m) = Mon!Of(s, b, m) \o Mon!Of(t, b, m)
<1> DEFINE T == {n \in Nat : \E u \in Seq(S) : Len(u) = n /\
                               Mon!Of(s \o u, b, m) # Mon!Of(s, b, m) \o Mon!Of(u, b, m)}
<1>1. Len(t) \in Nat
  BY LenProperties
<1>2. SUFFICES ASSUME T # {} PROVE FALSE
  BY <1>1
<1>3. PICK n \in T : \A j \in T : n <= j
  <2> HIDE DEF T
  <2>1. T \in SUBSET Nat
    BY DEF T
  <2> QED BY <1>2, <2>1, Least
<1>4. PICK u \in Seq(S) : Len(u) = n /\ Mon!Of(s \o u, b, m) # Mon!Of(s, b, m) \o Mon!Of(u, b, m)
  BY <1>3
<1>5. Mon!Of(s, b, m) \in Seq(S)
  BY OfType
<1>6. CASE u = <<>>
  <2>1. s \o u = s /\ Mon!Of(s, b, m) \o Mon!Of(u, b, m) = Mon!Of(s, b, m)
    BY <1>5, <1>6, OfNone, ConcatEmptySeq
  <2> QED BY <1>4, <2>1
<1>7. CASE u # <<>>
  <2>1. PICK r \in Seq(S), x \in S : u = Append(r, x) /\ Len(u) = Len(r) + 1
    BY <1>7, LastPart
  <2>2. Len(r) \in Nat /\ Len(r) < n
    BY <1>4, <2>1, LenProperties
  <2>3. Mon!Of(s \o r, b, m) = Mon!Of(s, b, m) \o Mon!Of(r, b, m)
    BY <1>3, <2>2
  <2>4. s \o u = Append(s \o r, x) /\ s \o r \in Seq(S)
    BY <2>1, AppendToConcat, ConcatProperties
  <2>5. Mon!Of(s \o u, b, m) = Mon!Of(s \o r, b, m) \o Pick(x, b, m)
    <3>1. PICK v \in Seq(S) : v = s \o r
      BY <2>4
    <3>2. OneMore(s \o u, v, x)
      BY <2>4, <3>1 DEF OneMore
    <3>3. PICK t1 : t1 = s \o u
      OBVIOUS
    <3>4. Mon!Of(t1, b, m) = Mon!Of(v, b, m) \o Pick(x, b, m)
      BY SMTT(30), <3>2, <3>3, OfAppend
    <3> QED BY <3>1, <3>3, <3>4
  <2>6. Mon!Of(u, b, m) = Mon!Of(r, b, m) \o Pick(x, b, m) /\ Mon!Of(r, b, m) \in Seq(S)
    <3>1. OneMore(u, r, x)
      BY <2>1 DEF OneMore
    <3> QED BY SMTT(30), <3>1, OfAppend
  <2>7. Pick(x, b, m) \in Seq(S)
    BY PickType
  <2>8. (Mon!Of(s, b, m) \o Mon!Of(r, b, m)) \o Pick(x, b, m)
          = Mon!Of(s, b, m) \o (Mon!Of(r, b, m) \o Pick(x, b, m))
    <3>1. PICK B \in Seq(S) : B = Mon!Of(s, b, m)
      BY <1>5
    <3>2. PICK C \in Seq(S) : C = Mon!Of(r, b, m)
      BY <2>6
    <3>3. PICK D \in Seq(S) : D = Pick(x, b, m)
      BY <2>7
    <3>4. (B \o C) \o D = B \o (C \o D)
      <4> HIDE DEF T
      <4>1. B \in Seq(S) /\ C \in Seq(S) /\ D \in Seq(S)
        BY <3>1, <3>2, <3>3
      <4>2. Associate(B, C, D)
        BY ONLY <4>1, Assoc
      <4> QED BY <4>2 DEF Associate
    <3> QED BY <3>1, <3>2, <3>3, <3>4
  <2> QED BY <1>4, <2>3, <2>5, <2>6, <2>8
<1> QED BY <1>6, <1>7

LEMMA OfEntries ==
  ASSUME NEW s \in Seq(Mon!Entries), NEW t \in Seq(Mon!Entries), NEW b, NEW m
  PROVE  BothOf(s, t, b, m)
<1> DEFINE S == Mon!Entries
<1>1. s \in Seq(S) /\ t \in Seq(S)
  OBVIOUS
<1> HIDE DEF S
<1>2. Mon!Of(s \o t, b, m) = Mon!Of(s, b, m) \o Mon!Of(t, b, m)
  BY ONLY <1>1, OfConcat
<1> QED BY <1>2 DEF BothOf

LEMMA ThreeNew ==
  ASSUME NEW S, NEW p \in Seq(S), NEW q \in Seq(S), NEW r \in Seq(S), NEW w, NEW v,
         Three(p, q, <<>>, w), v = w \o r
  PROVE  Three(p, q, r, v)
<1>1. p \o q \in Seq(S)
  BY ConcatProperties
<1>2. w = p \o q
  BY <1>1, ConcatEmptySeq DEF Three
<1> QED BY <1>2 DEF Three

LEMMA ThreeTake ==
  ASSUME NEW S, NEW p \in Seq(S), NEW q \in Seq(S), NEW r \in Seq(S), NEW w, Three(p, q, r, w)
  PROVE  Three(p, q \o r, <<>>, w)
<1>1. Associate(p, q, r)
  BY Assoc
<1>2. w = p \o (q \o r)
  BY <1>1 DEF Associate, Three
<1>3. q \o r \in Seq(S)
  BY ConcatProperties
<1>4. PICK t \in Seq(S) : t = q \o r
  BY <1>3
<1>5. p \o t \in Seq(S)
  BY <1>4, ConcatProperties
<1>6. (p \o t) \o <<>> = p \o t
  BY <1>5, ConcatEmptySeq
<1> QED BY <1>2, <1>4, <1>6 DEF Three

LEMMA ThreePrint ==
  ASSUME NEW S, NEW p \in Seq(S), NEW q \in Seq(S), NEW r \in Seq(S), NEW w, Three(p, q, r, w)
  PROVE  Three(p \o q, <<>>, r, w)
<1>1. p \o q \in Seq(S)
  BY ConcatProperties
<1>2. (p \o q) \o <<>> = p \o q
  BY <1>1, ConcatEmptySeq
<1> QED BY <1>2 DEF Three

LEMMA ThreePrefix ==
  ASSUME NEW S, NEW p \in Seq(S), NEW u \in Seq(S), NEW v \in Seq(S), NEW r \in Seq(S), NEW w,
         Three(p, u \o v, r, w)
  PROVE  Mon!IsPrefix(p \o u, w)
<1>1. PICK q \in Seq(S) : q = u \o v
  BY ConcatProperties
<1>2. Associate(p, u, v) /\ p \o u \in Seq(S)
  BY Assoc, ConcatProperties
<1>3. p \o q = (p \o u) \o v
  BY <1>1, <1>2 DEF Associate
<1>4. PICK t \in Seq(S) : t = p \o u
  BY <1>2
<1>5. Associate(t, v, r) /\ v \o r \in Seq(S)
  BY <1>4, Assoc, ConcatProperties
<1>6. w = (t \o v) \o r
  BY <1>1, <1>3, <1>4 DEF Three
<1>7. w = t \o (v \o r)
  BY <1>5, <1>6 DEF Associate
<1>8. PICK x \in Seq(S) : x = v \o r
  BY <1>5
<1>9. w = t \o x
  BY <1>7, <1>8
<1>10. Mon!IsPrefix(t, w)
  BY <1>4, <1>8, <1>9, PrefixIs
<1> QED BY <1>4, <1>10

LEMMA ShownType ==
  ASSUME NEW x \in Changes
  PROVE  Shown(x) \in Seq(Mon!Entries)
<1>1. /\ x.bus \in Mon!Mons /\ x.msg \in 0..MaxMsgs /\ x.ptr \in Nat /\ x.word \in [0..3 -> Mon!Bytes]
  BY DEF Changes
<1>2. (x.ptr - 1) % 4 \in 0..3
  BY <1>1
<1>3. \A e \in Mon!Entries : <<e>> \in Seq(Mon!Entries)
  OBVIOUS
<1>4. <<>> \in Seq(Mon!Entries)
  OBVIOUS
<1>5. [bus |-> x.bus, msg |-> x.msg, kind |-> "T", byte |-> x.word[0]] \in Mon!Entries
  BY <1>1 DEF Mon!Entries
<1>6. [bus |-> x.bus, msg |-> x.msg, kind |-> "R", byte |-> x.word[(x.ptr - 1) % 4]] \in Mon!Entries
  BY <1>1, <1>2 DEF Mon!Entries
<1> QED BY <1>3, <1>4, <1>5, <1>6 DEF Shown

LEMMA ShownOfType ==
  ASSUME NEW x \in Changes, NEW b, NEW m
  PROVE  ShownOf(x, b, m) \in Seq(Mon!Entries)
<1>1. <<>> \in Seq(Mon!Entries)
  OBVIOUS
<1> QED BY <1>1, ShownType DEF ShownOf

LEMMA BatchedSame ==
  ASSUME NEW n \in Nat, NEW s, NEW t, NEW b, NEW m, \A k \in 1..n : s[k] = t[k]
  PROVE  Batched(s, b, m, n) = Batched(t, b, m, n)
<1>1. PICK f : f = [k \in 1..n |-> ShownOf(s[k], b, m)]
  OBVIOUS
<1>2. PICK g : g = [k \in 1..n |-> ShownOf(t[k], b, m)]
  OBVIOUS
<1>3. \A k \in 1..n : f[k] = g[k]
  BY <1>1, <1>2
<1>4. Join(f, n) = Join(g, n)
  BY <1>3, JoinSame
<1> QED BY <1>1, <1>2, <1>4 DEF Batched

LEMMA BatchedNone ==
  ASSUME NEW s, NEW b, NEW m
  PROVE  Batched(s, b, m, 0) = <<>>
BY JoinNone DEF Batched

LEMMA BatchedMore ==
  ASSUME NEW s \in Seq(Changes), NEW n \in Nat, n + 1 <= Len(s), NEW b, NEW m
  PROVE  /\ Batched(s, b, m, n) \in Seq(Mon!Entries)
         /\ Batched(s, b, m, n + 1) = Batched(s, b, m, n) \o ShownOf(s[n + 1], b, m)
<1>1. \A k \in 1..n + 1 : s[k] \in Changes
  <2>1. Len(s) \in Nat
    BY LenProperties
  <2>2. \A k \in 1..n + 1 : k \in 1..Len(s)
    BY <2>1
  <2> QED BY <2>2, ElementOfSeq
<1>2. PICK j : j = n + 1
  OBVIOUS
<1>3. PICK f : f = [k \in 1..n |-> ShownOf(s[k], b, m)]
  OBVIOUS
<1>4. PICK g : g = [k \in 1..j |-> ShownOf(s[k], b, m)]
  OBVIOUS
<1>5. \A k \in 1..n + 1 : g[k] \in Seq(Mon!Entries)
  BY <1>1, <1>2, <1>4, ShownOfType
<1>6. Join(g, n) \in Seq(Mon!Entries) /\ Join(g, n + 1) = Join(g, n) \o g[n + 1]
  BY <1>5, JoinMore
<1>7. \A k \in 1..n : f[k] = g[k]
  <2>1. \A k \in 1..n : k \in 1..j
    BY <1>2
  <2> QED BY <1>3, <1>4, <2>1
<1>8. Join(f, n) = Join(g, n)
  BY <1>7, JoinSame
<1>9. g[n + 1] = ShownOf(s[n + 1], b, m)
  BY <1>2, <1>4
<1>10. Batched(s, b, m, n) = Join(f, n)
  BY <1>3 DEF Batched
<1>11. Batched(s, b, m, j) = Join(g, j)
  BY <1>4 DEF Batched
<1> QED BY <1>2, <1>6, <1>8, <1>9, <1>10, <1>11

EndsIn(s, b, m, n, q, y) == Batched(s, b, m, n) = q \o ShownOf(y, b, m)

LEMMA BatchedLast ==
  ASSUME NEW s \in Seq(Changes), NEW n \in 1..Len(s), NEW b, NEW m
  PROVE  EndsIn(s, b, m, n, Batched(s, b, m, n - 1), s[n])
<1>1. Len(s) \in Nat
  BY LenProperties
<1>2. PICK j \in Nat : n = j + 1
  <2>1. n - 1 \in Nat /\ n = (n - 1) + 1
    OBVIOUS
  <2> QED BY <2>1
<1>3. j + 1 <= Len(s)
  BY <1>1, <1>2
<1>4. Batched(s, b, m, j + 1) = Batched(s, b, m, j) \o ShownOf(s[j + 1], b, m)
  BY <1>3, BatchedMore
<1>5. Batched(s, b, m, j) = Batched(s, b, m, n - 1)
  <2>1. j = n - 1
    BY <1>2
  <2> QED BY <2>1
<1> QED BY <1>2, <1>4, <1>5 DEF EndsIn

LEMMA BatchedType ==
  ASSUME NEW s \in Seq(Changes), NEW n \in 0..Len(s), NEW b, NEW m
  PROVE  Batched(s, b, m, n) \in Seq(Mon!Entries)
<1>1. \A k \in 1..n : s[k] \in Changes
  <2>1. Len(s) \in Nat
    BY LenProperties
  <2>2. \A k \in 1..n : k \in 1..Len(s)
    BY <2>1
  <2> QED BY <2>2, ElementOfSeq
<1>2. PICK f : f = [k \in 1..n |-> ShownOf(s[k], b, m)]
  OBVIOUS
<1>3. \A k \in 1..n : f[k] \in Seq(Mon!Entries)
  BY <1>1, <1>2, ShownOfType
<1>4. Join(f, n) \in Seq(Mon!Entries)
  BY <1>3, JoinType
<1> QED BY <1>2, <1>4 DEF Batched

Splits(s, b, m, n, j) == \E r \in Seq(Mon!Entries) : Batched(s, b, m, j) = Batched(s, b, m, n) \o r

LEMMA BatchedSplit ==
  ASSUME NEW s \in Seq(Changes), NEW n \in Nat, NEW b, NEW m, NEW j \in n..Len(s)
  PROVE  Splits(s, b, m, n, j)
<1> DEFINE P(k) == \E r \in Seq(Mon!Entries) : Batched(s, b, m, k) = Batched(s, b, m, n) \o r
           T == {k \in Nat : n <= k /\ k <= Len(s) /\ ~P(k)}
<1>1. Len(s) \in Nat /\ j \in Nat /\ n <= j /\ j <= Len(s)
  BY LenProperties
<1>2. SUFFICES ASSUME T # {} PROVE FALSE
  BY <1>1 DEF Splits
<1>3. PICK k \in T : \A i1 \in T : k <= i1
  <2> HIDE DEF T
  <2>1. T \in SUBSET Nat
    BY DEF T
  <2> QED BY <1>2, <2>1, Least
<1>4. k \in Nat /\ n <= k /\ k <= Len(s) /\ ~P(k)
  BY <1>3
<1>5. n \in 0..Len(s)
  BY <1>1, <1>4
<1>6. Batched(s, b, m, n) \in Seq(Mon!Entries)
  BY <1>5, BatchedType
<1>7. k # n
  <2>1. Batched(s, b, m, n) \o <<>> = Batched(s, b, m, n)
    BY <1>6, ConcatEmptySeq
  <2>2. <<>> \in Seq(Mon!Entries)
    OBVIOUS
  <2>3. P(n)
    BY <2>1, <2>2
  <2> QED BY <1>4, <2>3
<1>8. PICK l \in Nat : k = l + 1
  <2>1. k - 1 \in Nat /\ k = (k - 1) + 1
    BY <1>1, <1>4, <1>7
  <2> QED BY <2>1
<1>9. n <= l /\ l <= Len(s) /\ l + 1 <= Len(s) /\ ~(k <= l)
  BY <1>1, <1>4, <1>7, <1>8
<1>10. P(l)
  <2> HIDE DEF P
  <2> QED BY <1>3, <1>9
<1>11. PICK r \in Seq(Mon!Entries) : Batched(s, b, m, l) = Batched(s, b, m, n) \o r
  BY <1>10
<1>12. PICK p \in Seq(Mon!Entries) : p = Batched(s, b, m, n)
  BY <1>6
<1>13. PICK q \in Seq(Mon!Entries) : q = ShownOf(s[l + 1], b, m)
  <2>1. l + 1 \in 1..Len(s)
    BY <1>1, <1>9
  <2>2. s[l + 1] \in Changes
    BY <2>1, ElementOfSeq
  <2> QED BY <2>2, ShownOfType
<1>14. Batched(s, b, m, k) = (p \o r) \o q
  <2>1. Batched(s, b, m, l + 1) = Batched(s, b, m, l) \o ShownOf(s[l + 1], b, m)
    BY <1>9, BatchedMore
  <2>2. PICK t : t = Batched(s, b, m, l)
    OBVIOUS
  <2>3. Batched(s, b, m, k) = t \o q
    BY <1>8, <1>13, <2>1, <2>2
  <2>4. t = p \o r
    BY <1>11, <1>12, <2>2
  <2> QED BY <2>3, <2>4
<1>15. Associate(p, r, q) /\ r \o q \in Seq(Mon!Entries)
  BY Assoc, ConcatProperties
<1>16. Batched(s, b, m, k) = p \o (r \o q)
  BY <1>14, <1>15 DEF Associate
<1>17. PICK t \in Seq(Mon!Entries) : t = r \o q
  BY <1>15
<1>18. P(k)
  BY <1>12, <1>16, <1>17
<1> QED BY <1>4, <1>18

LEMMA OfPrinted ==
  ASSUME NEW x \in Changes, NEW b \in Mon!Mons, NEW m \in (0..MaxMsgs) \ excused[b]
  PROVE  Mon!Of(Mon!Printed(x), b, m) = ShownOf(x, b, m)
<1>1. CASE x.msg \in excused[x.bus]
  <2>1. Mon!Printed(x) = <<>>
    BY <1>1 DEF Mon!Printed
  <2>2. ShownOf(x, b, m) = <<>>
    BY <1>1 DEF ShownOf
  <2> QED BY <2>1, <2>2, OfNone
<1>2. CASE x.msg \notin excused[x.bus]
  <2>1. Mon!Printed(x) = Shown(x)
    BY <1>2 DEF Mon!Printed, Shown
  <2>2. CASE Shown(x) = <<>>
    BY <2>1, <2>2, OfNone DEF ShownOf
  <2>3. CASE Shown(x) # <<>>
    <3>1. \E e : Shown(x) = <<e>> /\ e.bus = x.bus /\ e.msg = x.msg
      BY <2>3 DEF Shown
    <3>2. PICK e : Shown(x) = <<e>> /\ e.bus = x.bus /\ e.msg = x.msg
      BY <3>1
    <3>3. Mon!Of(<<e>>, b, m) = Pick(e, b, m)
      BY OfOne
    <3>4. Pick(e, b, m) = ShownOf(x, b, m)
      BY <3>2 DEF Pick, ShownOf
    <3> QED BY <2>1, <3>2, <3>3, <3>4
  <2> QED BY <2>2, <2>3
<1> QED BY <1>1, <1>2

LEMMA UptoMore ==
  ASSUME MonTypes, NEW n \in Nat, n + 1 <= Len(change)
  PROVE  Upto(n + 1) = Upto(n) \o Mon!Printed(change[n + 1])
<1>1. \A k \in 1..n + 1 : change[k] \in Changes
  <2>1. change \in Seq(Changes) /\ Len(change) \in Nat
    BY LenProperties DEF MonTypes
  <2>2. \A k \in 1..n + 1 : k \in 1..Len(change)
    BY <2>1
  <2> QED BY <2>1, <2>2, ElementOfSeq
<1>2. PICK j : j = n + 1
  OBVIOUS
<1>3. PICK f : f = [k \in 1..n |-> Mon!Printed(change[k])]
  OBVIOUS
<1>4. PICK g : g = [k \in 1..j |-> Mon!Printed(change[k])]
  OBVIOUS
<1>5. \A k \in 1..n + 1 : g[k] \in Seq(Mon!Entries)
  BY <1>1, <1>2, <1>4, PrintedType
<1>6. Join(g, n) \in Seq(Mon!Entries) /\ Join(g, n + 1) = Join(g, n) \o g[n + 1]
  BY <1>5, JoinMore
<1>7. \A k \in 1..n : f[k] = g[k]
  <2>1. \A k \in 1..n : k \in 1..j
    BY <1>2
  <2> QED BY <1>3, <1>4, <2>1
<1>8. Join(f, n) = Join(g, n)
  BY <1>7, JoinSame
<1>9. g[n + 1] = Mon!Printed(change[n + 1])
  BY <1>2, <1>4
<1>10. Upto(n) = Join(f, n)
  BY <1>3 DEF Upto
<1>11. Upto(j) = Join(g, j)
  BY <1>4 DEF Upto
<1> QED BY <1>2, <1>6, <1>8, <1>9, <1>10, <1>11

\* What a flush prints of a message that is not excused.
LEMMA OfUpto ==
  ASSUME MonTypes, NEW n \in 0..Len(change), NEW b \in Mon!Mons, NEW m \in (0..MaxMsgs) \ excused[b]
  PROVE  Mon!Of(Upto(n), b, m) = Batched(change, b, m, n)
<1> DEFINE T == {k \in Nat : k <= Len(change) /\ Mon!Of(Upto(k), b, m) # Batched(change, b, m, k)}
<1>1. change \in Seq(Changes) /\ Len(change) \in Nat /\ n \in Nat /\ n <= Len(change)
  BY LenProperties DEF MonTypes
<1>2. SUFFICES ASSUME T # {} PROVE FALSE
  BY <1>1
<1>3. PICK k \in T : \A i1 \in T : k <= i1
  <2> HIDE DEF T
  <2>1. T \in SUBSET Nat
    BY DEF T
  <2> QED BY <1>2, <2>1, Least
<1>4. k \in Nat /\ k <= Len(change) /\ Mon!Of(Upto(k), b, m) # Batched(change, b, m, k)
  BY <1>3
<1>5. k # 0
  <2>1. Upto(0) = <<>>
    BY JoinNone DEF Upto
  <2> QED BY <1>4, <2>1, OfNone, BatchedNone
<1>6. PICK l \in Nat : k = l + 1
  <2>1. k - 1 \in Nat /\ k = (k - 1) + 1
    BY <1>4, <1>5
  <2> QED BY <2>1
<1>7. l <= Len(change) /\ l + 1 <= Len(change) /\ ~(k <= l) /\ l \in 0..Len(change) /\ l + 1 \in 1..Len(change)
  BY <1>1, <1>4, <1>6
<1>8. Mon!Of(Upto(l), b, m) = Batched(change, b, m, l)
  BY <1>3, <1>7
<1> HIDE DEF T
<1>9. PICK x \in Changes : x = change[l + 1]
  BY <1>1, <1>7, ElementOfSeq
<1>10. PICK u \in Seq(Mon!Entries) : u = Upto(l)
  BY <1>7, UptoType
<1>11. PICK v \in Seq(Mon!Entries) : v = Mon!Printed(x)
  BY PrintedType
<1>12. Upto(k) = u \o v
  BY <1>6, <1>7, <1>9, <1>10, <1>11, UptoMore
<1>13. Mon!Of(u \o v, b, m) = Mon!Of(u, b, m) \o Mon!Of(v, b, m)
  BY OfEntries DEF BothOf
<1>14. Mon!Of(v, b, m) = ShownOf(x, b, m)
  BY <1>11, OfPrinted
<1>15. Batched(change, b, m, k) = Batched(change, b, m, l) \o ShownOf(x, b, m)
  BY ZenonT(40), <1>1, <1>6, <1>7, <1>9, BatchedMore
<1>16. Mon!Of(Upto(k), b, m) = Batched(change, b, m, l) \o ShownOf(x, b, m)
  <2>1. Mon!Of(u, b, m) = Batched(change, b, m, l)
    BY <1>8, <1>10
  <2> QED BY <1>12, <1>13, <1>14, <2>1
<1> QED BY <1>4, <1>15, <1>16

LEMMA CompleteIs ==
  ASSUME MonTypes
  PROVE  /\ change \in Seq(Changes) /\ Len(change) \in Nat /\ Complete \in 0..Len(change)
         /\ Reading => change # <<>> /\ Len(change) \in Nat \ {0} /\ Len(change) - 1 \in Nat
                       /\ (Len(change) - 1) + 1 = Len(change)
<1>1. change \in Seq(Changes) /\ Len(change) \in Nat
  BY LenProperties DEF MonTypes
<1>2. Reading => change # <<>> /\ Len(change) \in Nat \ {0}
  BY <1>1, EmptySeq DEF MonTypes
<1>3. monPc \in {"txd", "ptr", "pool", "dram"} => Reading
  BY DEF Reading
<1>4. Complete \in 0..Len(change)
  BY <1>1, <1>2, <1>3 DEF Complete
<1> QED BY <1>1, <1>2, <1>4

LEMMA ByteType ==
  ASSUME NEW c \in Ctls, NEW w \in Nat, w <= MaxBytes, CtlRight(c, w),
         NEW s \in [0..Mon!Size - 1 -> Mon!Bytes], NEW b \in Mon!Mons, NEW m \in 0..MaxMsgs
  PROVE  Byte(c, s, b, m) \in Seq(Mon!Entries) /\ (c.state = "mtxack" => Place(c) \in 0..Mon!Size - 1)
<1>1. PICK top \in Nat : (\A a \in DmaAddrs : a <= top) /\ Mon!Size = 4 * (MaxBytes + 1) + top
  BY SizeIs
<1>2. c.ptr \in Nat /\ c.dma \in {0} \cup DmaAddrs /\ c.txd \in Mon!Bytes
  BY DEF Ctls
<1>3. c.dma \in Nat /\ c.dma <= top
  <2>1. \A d \in {0} \cup DmaAddrs : d \in Nat /\ d <= top
    BY <1>1, MonConstants
  <2> QED BY ONLY <1>2, <2>1
<1>4. c.state = "mtxack" => Place(c) \in 0..Mon!Size - 1
  <2> SUFFICES ASSUME c.state = "mtxack" PROVE Place(c) \in 0..Mon!Size - 1
    OBVIOUS
  <2>1. c.ptr \in Nat /\ c.ptr # 0 /\ c.ptr <= w /\ MaxBytes \in Nat
    BY <1>2, MonConstants DEF CtlRight
  <2>2. PICK start \in Nat : start <= top /\ Place(c) = start + c.ptr - 1
    BY <1>1, <1>3 DEF Place
  <2>3. PICK p \in Nat : p = c.ptr
    BY <2>1
  <2>5. p # 0 /\ p <= w /\ w <= MaxBytes
    BY <2>1, <2>3
  <2>6. start + p - 1 \in 0..(4 * (MaxBytes + 1) + top) - 1
    <3>1. start \in Nat /\ top \in Nat /\ start <= top /\ p \in Nat /\ w \in Nat /\ MaxBytes \in Nat
      BY <1>1, <2>1, <2>2, <2>3
    <3> QED BY ONLY <3>1, <2>5
  <2> QED BY <1>1, <2>2, <2>3, <2>6
<1>5. \A e \in Mon!Entries : <<e>> \in Seq(Mon!Entries)
  OBVIOUS
<1>6. <<>> \in Seq(Mon!Entries)
  OBVIOUS
<1>7. [bus |-> b, msg |-> m, kind |-> "T", byte |-> c.txd] \in Mon!Entries
  BY <1>2 DEF Mon!Entries
<1>8. c.state = "mtxack" => [bus |-> b, msg |-> m, kind |-> "R", byte |-> s[Place(c)]] \in Mon!Entries
  BY <1>4 DEF Mon!Entries
<1> QED BY <1>4, <1>5, <1>6, <1>7, <1>8 DEF Byte

LEMMA Pieces ==
  ASSUME MonTypes, NEW b \in Mon!Mons, NEW m \in 0..MaxMsgs
  PROVE  /\ Mon!Of(out, b, m) \in Seq(Mon!Entries) /\ Mon!Of(wire, b, m) \in Seq(Mon!Entries)
         /\ Batched(change, b, m, Complete) \in Seq(Mon!Entries) /\ Missing(b, m) \in Seq(Mon!Entries)
<1>1. Mon!Of(out, b, m) \in Seq(Mon!Entries) /\ Mon!Of(wire, b, m) \in Seq(Mon!Entries)
  <2>1. out \in Seq(Mon!Entries) /\ wire \in Seq(Mon!Entries)
    BY DEF MonTypes
  <2> QED BY <2>1, OfType
<1>2. Batched(change, b, m, Complete) \in Seq(Mon!Entries)
  BY CompleteIs, BatchedType
<1>3. Missing(b, m) \in Seq(Mon!Entries)
  <2>1. ctl[b] \in Ctls /\ CtlRight(ctl[b], Len(wire)) /\ store[b] \in [0..Mon!Size - 1 -> Mon!Bytes]
        /\ Len(wire) \in Nat /\ Len(wire) <= MaxBytes
    BY LenProperties DEF MonTypes
  <2>2. Byte(ctl[b], store[b], b, m) \in Seq(Mon!Entries)
    BY <2>1, ByteType
  <2>3. <<>> \in Seq(Mon!Entries)
    OBVIOUS
  <2> QED BY <2>2, <2>3 DEF Missing
<1> QED BY <1>1, <1>2, <1>3

\* The prefix that Decoded asks for.
LEMMA StreamPrefix ==
  ASSUME MonTypes, NEW b \in Mon!Mons, NEW m \in 0..MaxMsgs, Stream(b, m)
  PROVE  Mon!IsPrefix(Mon!Of(out, b, m), Mon!Of(wire, b, m))
<1>1. PICK p \in Seq(Mon!Entries) : p = Mon!Of(out, b, m)
  BY Pieces
<1>2. PICK q \in Seq(Mon!Entries) : q = Batched(change, b, m, Complete)
  BY Pieces
<1>3. PICK r \in Seq(Mon!Entries) : r = Missing(b, m)
  BY Pieces
<1>4. PICK w : w = Mon!Of(wire, b, m)
  OBVIOUS
<1>5. PICK u \in Seq(Mon!Entries) : u = <<>>
  <2>1. <<>> \in Seq(Mon!Entries)
    OBVIOUS
  <2> QED BY <2>1
<1>6. u \o q = q /\ p \o u = p
  BY <1>5, ConcatEmptySeq
<1>7. Three(p, u \o q, r, w)
  BY <1>1, <1>2, <1>3, <1>4, <1>6 DEF Stream
<1>8. Mon!IsPrefix(p \o u, w)
  BY <1>7, ThreePrefix
<1> QED BY <1>1, <1>4, <1>6, <1>8

\* A controller goes on from what was taken in, or its message is excused.
LEMMA GoesExcused ==
  ASSUME MonTypes, NEW d \in Mon!Mons, NEW c, Mon!Goes(d, c)
  PROVE  /\ ctl' = [ctl EXCEPT ![d] = c] /\ taken' = [taken EXCEPT ![d] = "new"]
         /\ UNCHANGED <<at, monPc, late, old, ctx, change, out, victim>>
         /\ \A b \in Mon!Mons : excused[b] \subseteq excused'[b] /\ (b # d => excused'[b] = excused[b])
         /\ taken[d] # "taken" => ctl[d].msg \in excused'[d]
         /\ Mon!Beyond(c) => c.msg \in excused'[d]
<1>1. /\ ctl' = [ctl EXCEPT ![d] = c] /\ taken' = [taken EXCEPT ![d] = "new"]
      /\ UNCHANGED <<at, monPc, late, old, ctx, change, out, victim>>
  BY DEF Mon!Goes, Mon!monitor
<1> DEFINE S == {m \in {ctl[d].msg} : taken[d] # "taken"} \cup {m \in {c.msg} : Mon!Beyond(c)}
<1>2. excused' = [excused EXCEPT ![d] = @ \cup S]
  BY DEF Mon!Goes
<1>3. taken[d] # "taken" => ctl[d].msg \in S
  OBVIOUS
<1>4. Mon!Beyond(c) => c.msg \in S
  OBVIOUS
<1> HIDE DEF S
<1>5. \A b \in Mon!Mons : excused'[b] = IF b = d THEN excused[b] \cup S ELSE excused[b]
  BY <1>2 DEF MonTypes
<1> QED BY <1>1, <1>3, <1>4, <1>5

\* What a controller has to tell when it goes on, for the monitor to follow.
NewRight(d, c) ==
  c.msg \notin excused'[d] =>
    /\ Understood(c) /\ After(c, old[d])
    /\ c.state = "mtxack" \/ (c.state = "mrx" /\ old[d] = "mtxack") => Follows(ctx[d], c, "new")

LEMMA GoesDec ==
  ASSUME MonTypes, MonTypes', monPc # "dead", DecInv, NEW d \in Mon!Mons, NEW c \in Ctls, Mon!Goes(d, c),
         c.msg = ctl[d].msg \/ c.state = "mstart", NewRight(d, c),
         \A b \in Mon!Mons \ {d} : store'[b] = store[b] /\ \A m : Mon!Of(wire', b, m) = Mon!Of(wire, b, m),
         \A m \in (0..MaxMsgs) \ excused'[d] : Mon!Of(wire', d, m) = Mon!Of(wire, d, m) \o Missing(d, m)'
  PROVE  DecInv'
<1>1. /\ ctl' = [ctl EXCEPT ![d] = c] /\ taken' = [taken EXCEPT ![d] = "new"]
      /\ UNCHANGED <<at, monPc, late, old, ctx, change, out, victim>>
      /\ \A b \in Mon!Mons : excused[b] \subseteq excused'[b] /\ (b # d => excused'[b] = excused[b])
      /\ taken[d] # "taken" => ctl[d].msg \in excused'[d]
  BY GoesExcused
<1>2. ctl'[d] = c /\ taken'[d] = "new" /\ \A b \in Mon!Mons \ {d} : ctl'[b] = ctl[b] /\ taken'[b] = taken[b]
  BY <1>1 DEF MonTypes
<1>3. (\A b \in Mon!Mons : BusRight(b)) /\ (Reading => LatestRight) /\ RefusedRight /\ Streams
  BY DEF DecInv
<1>4. ASSUME NEW b \in Mon!Mons PROVE BusRight(b)'
  <2>1. BusRight(b)
    BY <1>3
  <2>2. CASE b = d
    <3>1. ctx[b].rx => old[b] \in {"mrx", "mtxd", "mtxack"}
      BY <2>1 DEF BusRight
    <3>2. c.msg \notin excused'[d] =>
            /\ Understood(c) /\ After(c, old[d])
            /\ c.state = "mtxack" \/ (c.state = "mrx" /\ old[d] = "mtxack") => Follows(ctx[d], c, "new")
      BY DEF NewRight
    <3> HIDE DEF Understood, After, Follows
    <3>3. /\ ctl'[b] = c /\ taken'[b] = "new" /\ ctx' = ctx /\ old' = old /\ b = d
      BY <1>1, <1>2, <2>2
    <3>4. Understood(ctl[b])' = Understood(c) /\ After(ctl[b], old[b])' = After(c, old[d])
      BY <3>3 DEF Understood, After
    <3>5. Follows(ctx[b], ctl[b], taken[b])' = Follows(ctx[d], c, "new")
      BY <3>3 DEF Follows
    <3> QED BY <3>1, <3>2, <3>3, <3>4, <3>5 DEF BusRight
  <2>3. CASE b # d
    <3>1. /\ ctl'[b] = ctl[b] /\ taken'[b] = taken[b] /\ excused'[b] = excused[b]
          /\ ctx' = ctx /\ old' = old /\ at' = at /\ monPc' = monPc
      BY <1>1, <1>2, <2>3
    <3> QED BY <2>1, <3>1 DEF BusRight, Understood, After, Follows, Reading
  <2> QED BY <2>2, <2>3
<1>5. Reading' => LatestRight'
  <2> SUFFICES ASSUME Reading' PROVE LatestRight'
    OBVIOUS
  <2>1. Reading /\ at \in Mon!Mons
    BY <1>1, MonConstants DEF Reading, MonTypes, Mon!Mons
  <2>2. LatestRight /\ Mon!Latest' = Mon!Latest /\ at' = at /\ old' = old /\ ctx' = ctx /\ monPc' = monPc
    BY <1>1, <1>3, <2>1 DEF Mon!Latest
  <2>3. CASE at = d
    <3>1. /\ ctl'[at] = c /\ taken'[at] = "new" /\ taken[at] # "taken" /\ ctl[at].msg \in excused'[at]
          /\ excused[at] \subseteq excused'[at]
      BY <1>1, <1>2, <2>2, <2>3 DEF LatestRight
    <3>2. Mon!Latest.msg \in excused'[at]
      <4>1. taken[at] \in {"new", "sampled"}
        BY <2>1, <3>1 DEF MonTypes
      <4> QED BY <2>2, <3>1, <4>1 DEF LatestRight
    <3>3. c.msg \in excused'[at] \/ c.state = "mstart"
      BY <2>3, <3>1
    <3> QED BY <2>2, <3>1, <3>2, <3>3 DEF LatestRight
  <2>4. CASE at # d
    <3>1. ctl'[at] = ctl[at] /\ taken'[at] = taken[at] /\ excused'[at] = excused[at]
      BY <1>1, <1>2, <2>1, <2>4
    <3> QED BY <2>2, <3>1 DEF LatestRight
  <2> QED BY <2>3, <2>4
<1>6. RefusedRight'
  <2>1. Complete' = Complete /\ change' = change
    BY <1>1 DEF Complete
  <2>2. \A k \in 1..Complete : change[k] \in Changes /\ change[k].bus \in Mon!Mons
    <3>1. \A k \in 1..Complete : k \in 1..Len(change)
      BY CompleteIs
    <3>2. \A k \in 1..Complete : change[k] \in Changes
      BY <3>1, CompleteIs, ElementOfSeq
    <3> QED BY <3>2 DEF Changes
  <2> QED BY <1>1, <1>3, <2>1, <2>2 DEF RefusedRight, Mon!Refused
<1>7. ASSUME NEW b \in Mon!Mons, NEW m \in (0..MaxMsgs) \ excused'[b] PROVE Stream(b, m)'
  <2>1. Stream(b, m)
    BY <1>1, <1>3 DEF Streams
  <2>2. PICK p \in Seq(Mon!Entries) : p = Mon!Of(out, b, m) /\ p = Mon!Of(out', b, m)
    BY <1>1, Pieces
  <2>3. PICK q \in Seq(Mon!Entries) : q = Batched(change, b, m, Complete) /\ q = Batched(change', b, m, Complete')
    <3>1. Complete' = Complete
      BY <1>1 DEF Complete
    <3> QED BY <1>1, <3>1, Pieces
  <2>4. CASE b = d
    <3>1. Missing(b, m) = <<>>
      BY <1>1, <2>4 DEF Missing
    <3>2. PICK w : w = Mon!Of(wire, b, m)
      OBVIOUS
    <3>3. PICK r \in Seq(Mon!Entries) : r = Missing(b, m)'
      <4>1. Missing(b, m)' \in Seq(Mon!Entries)
        <5>1. ctl'[b] \in Ctls /\ CtlRight(ctl'[b], Len(wire')) /\ store'[b] \in [0..Mon!Size - 1 -> Mon!Bytes]
              /\ Len(wire') \in Nat /\ Len(wire') <= MaxBytes
          BY LenProperties DEF MonTypes
        <5>2. Byte(ctl'[b], store'[b], b, m) \in Seq(Mon!Entries)
          BY <5>1, ByteType
        <5>3. <<>> \in Seq(Mon!Entries)
          OBVIOUS
        <5> QED BY <5>2, <5>3 DEF Missing
      <4> QED BY <4>1
    <3>4. Three(p, q, <<>>, w)
      BY <2>1, <2>2, <2>3, <3>1, <3>2 DEF Stream
    <3>5. Mon!Of(wire', b, m) = w \o r
      BY <2>4, <3>2, <3>3
    <3>6. PICK v : v = Mon!Of(wire', b, m)
      OBVIOUS
    <3>7. Three(p, q, r, v)
      BY <3>4, <3>5, <3>6, ThreeNew
    <3> QED BY <2>2, <2>3, <3>3, <3>6, <3>7 DEF Stream
  <2>5. CASE b # d
    <3>1. Missing(b, m)' = Missing(b, m)
      BY <1>2, <2>5 DEF Missing
    <3>2. Mon!Of(wire', b, m) = Mon!Of(wire, b, m)
      BY <2>5
    <3> QED BY <2>1, <2>2, <2>3, <3>1, <3>2 DEF Stream
  <2> QED BY <2>4, <2>5
<1> QED BY <1>4, <1>5, <1>6, <1>7 DEF DecInv, Streams

LEMMA GoesFrom ==
  ASSUME MonTypes, monPc # "dead", DecInv, NEW d \in Mon!Mons, NEW c, Mon!Goes(d, c),
         c.msg = ctl[d].msg, c.msg \notin excused'[d]
  PROVE  /\ old[d] = ctl[d].state /\ Understood(ctl[d]) /\ ~Mon!Beyond(c)
         /\ ctl[d].state \in {"mrx", "mtxack"} => Follows(ctx[d], ctl[d], "taken")
<1>1. taken[d] = "taken" /\ ctl[d].msg \notin excused[d] /\ ~Mon!Beyond(c)
  BY GoesExcused
<1>2. BusRight(d)
  BY DEF DecInv
<1> QED BY <1>1, <1>2 DEF BusRight

\* Without a byte.
LEMMA QuietDec ==
  ASSUME MonTypes, MonTypes', monPc # "dead", DecInv, NEW d \in Mon!Mons, NEW c \in Ctls, Mon!Goes(d, c),
         c.msg = ctl[d].msg \/ c.state = "mstart", NewRight(d, c), c.state \notin {"mtxd", "mtxack"},
         UNCHANGED <<store, wire>>
  PROVE  DecInv'
<1>1. \A b \in Mon!Mons \ {d} : store'[b] = store[b] /\ \A m : Mon!Of(wire', b, m) = Mon!Of(wire, b, m)
  OBVIOUS
<1>2. ASSUME NEW m \in (0..MaxMsgs) \ excused'[d]
      PROVE  Mon!Of(wire', d, m) = Mon!Of(wire, d, m) \o Missing(d, m)'
  <2>1. ctl'[d] = c
    BY GoesExcused DEF MonTypes
  <2>2. Missing(d, m)' = <<>>
    BY <2>1 DEF Missing, Byte
  <2>3. PICK w \in Seq(Mon!Entries) : w = Mon!Of(wire, d, m)
    BY Pieces
  <2>4. w \o <<>> = w
    BY ConcatEmptySeq
  <2> QED BY <2>2, <2>3, <2>4
<1> QED BY <1>1, <1>2, GoesDec

\* With a byte e.
LEMMA LoudDec ==
  ASSUME MonTypes, MonTypes', monPc # "dead", DecInv, NEW d \in Mon!Mons, NEW c \in Ctls, Mon!Goes(d, c),
         c.msg = ctl[d].msg, NewRight(d, c), NEW e \in Mon!Entries, e.bus = d, e.msg = c.msg,
         wire' = Append(wire, e), \A b \in Mon!Mons \ {d} : store'[b] = store[b],
         c.msg \notin excused'[d] => Byte(c, store'[d], d, c.msg) = <<e>>
  PROVE  DecInv'
<1>1. PICK v : v = wire'
  OBVIOUS
<1>2. wire \in Seq(Mon!Entries) /\ OneMore(v, wire, e)
  BY <1>1 DEF MonTypes, OneMore
<1>3. \A b, m : Mon!Of(v, b, m) = Mon!Of(wire, b, m) \o Pick(e, b, m)
  BY <1>2, OfAppend
<1>4. ctl'[d] = c /\ taken'[d] = "new"
  BY GoesExcused DEF MonTypes
<1>5. ASSUME NEW b \in Mon!Mons \ {d}, NEW m PROVE Mon!Of(wire', b, m) = Mon!Of(wire, b, m)
  <2>1. Pick(e, b, m) = <<>>
    BY DEF Pick
  <2>2. PICK w \in Seq(Mon!Entries) : w = Mon!Of(wire, b, m)
    BY <1>2, OfType
  <2>3. w \o <<>> = w
    BY ConcatEmptySeq
  <2> QED BY <1>1, <1>3, <2>1, <2>2, <2>3
<1>6. ASSUME NEW m \in (0..MaxMsgs) \ excused'[d]
      PROVE  Mon!Of(wire', d, m) = Mon!Of(wire, d, m) \o Missing(d, m)'
  <2>1. Missing(d, m)' = Pick(e, d, m)
    <3>1. CASE m = c.msg
      <4>1. Byte(c, store'[d], d, m) = <<e>>
        BY <3>1
      <4>2. Missing(d, m)' = Byte(c, store'[d], d, m)
        <5> HIDE DEF Byte
        <5> QED BY <1>4, <3>1 DEF Missing
      <4> QED BY <3>1, <4>1, <4>2 DEF Pick
    <3>2. CASE m # c.msg
      BY <1>4, <3>2 DEF Missing, Pick
    <3> QED BY <3>1, <3>2
  <2> QED BY <1>1, <1>3, <2>1
<1> QED BY <1>5, <1>6, GoesDec

LEMMA ControllerDec ==
  ASSUME MonTypes, MonTypes', monPc # "dead", DecInv, NEW b \in Mon!Mons, Mon!Controller(b)
  PROVE  DecInv'
<1> DEFINE w == Len(wire)
<1>1. PICK c \in Ctls : c = ctl[b] /\ CtlRight(c, w)
  BY DEF MonTypes
<1>2. wire \in Seq(Mon!Entries) /\ w \in Nat /\ w <= MaxBytes /\ MaxBytes \in Nat /\ MaxMsgs \in Nat
  BY LenProperties, MonConstants DEF MonTypes
<1>3. /\ c.state \in Mon!States /\ c.cmd \in Cmds /\ c.txd \in Mon!Bytes /\ c.dma \in {0} \cup DmaAddrs
      /\ c.len \in {0} \cup Lengths /\ c.ptr \in Nat /\ c.msg \in 0..MaxMsgs
  BY DEF Ctls
<1> HIDE DEF w
<1>4. ASSUME Mon!Signal(b) PROVE DecInv'
  <2>1. UNCHANGED <<store, wire>>
    BY <1>4 DEF Mon!Signal
  <2>2. ASSUME NEW d \in Ctls, Mon!Goes(b, d), d.msg = c.msg \/ d.state = "mstart",
               d.state \notin {"mtxd", "mrx", "mtxack"}
        PROVE  DecInv'
    <3>1. NewRight(b, d)
      BY <2>2 DEF NewRight, Understood, After
    <3> QED BY <1>1, <2>1, <2>2, <3>1, QuietDec
  <2>3. CASE c.msg < MaxMsgs /\ Mon!Goes(b, [c EXCEPT !.state = "mstart", !.cmd = "tx", !.msg = c.msg + 1])
    <3> DEFINE d == [c EXCEPT !.state = "mstart", !.cmd = "tx", !.msg = c.msg + 1]
    <3>1. c.msg + 1 \in 0..MaxMsgs
      BY <1>2, <1>3, <2>3
    <3>2. d \in Ctls /\ d.state = "mstart"
      BY <1>1, <3>1 DEF Ctls, Cmds, Mon!States, Mon!TxCmds
    <3> QED BY <2>2, <2>3, <3>2
  <2>4. CASE Mon!Goes(b, [c EXCEPT !.state = "mstart", !.cmd = "tx"])
    <3> DEFINE d == [c EXCEPT !.state = "mstart", !.cmd = "tx"]
    <3>1. d \in Ctls /\ d.state = "mstart"
      BY <1>1 DEF Ctls, Cmds, Mon!States, Mon!TxCmds
    <3> QED BY <2>2, <2>4, <3>1
  <2>5. ASSUME NEW s \in {"mstop", "idle", "mrxack"}, Mon!Goes(b, [c EXCEPT !.state = s]) PROVE DecInv'
    <3> DEFINE d == [c EXCEPT !.state = s]
    <3>1. d \in Ctls /\ d.msg = c.msg /\ d.state = s
      BY <1>1 DEF Ctls, Mon!States
    <3> QED BY <2>2, <2>5, <3>1
  <2> QED BY <1>1, <1>4, <2>3, <2>4, <2>5 DEF Mon!Signal
<1>5. ASSUME Mon!Transmit(b) PROVE DecInv'
  <2>1. PICK t \in Mon!TxCmds : Mon!Goes(b, [c EXCEPT !.state = "mtxd", !.cmd = t, !.txd = w + 1])
    BY <1>1, <1>5 DEF Mon!Transmit, w
  <2>2. store' = store /\ Mon!OnWire(b, "T") /\ c.state \in {"mstart", "mrxack"}
    BY <1>1, <1>5 DEF Mon!Transmit
  <2>3. w + 1 \in Mon!Bytes
    BY <1>2, <2>2 DEF Mon!OnWire, w, Mon!Bytes
  <2> DEFINE d == [c EXCEPT !.state = "mtxd", !.cmd = t, !.txd = w + 1]
             e == [bus |-> b, msg |-> c.msg, kind |-> "T", byte |-> w + 1]
  <2>4. d \in Ctls /\ d.state = "mtxd" /\ d.msg = c.msg /\ d.cmd = t /\ d.txd = w + 1
    BY <1>1, <2>3 DEF Ctls, Cmds, Mon!States
  <2>5. Mon!Goes(b, d)
    BY <2>1
  <2>6. e \in Mon!Entries /\ e.bus = b /\ e.msg = d.msg
    BY <1>3, <2>3, <2>4 DEF Mon!Entries
  <2>7. wire' = Append(wire, e)
    BY <1>1, <2>2 DEF Mon!OnWire, w
  <2>8. Byte(d, store'[b], b, d.msg) = <<e>>
    BY <2>4 DEF Byte
  <2> HIDE DEF d, e
  <2>9. NewRight(b, d)
    <3> SUFFICES ASSUME d.msg \notin excused'[b] PROVE d.cmd = "tx" /\ old[b] \in {"mstart", "mrxack"}
      BY <2>4 DEF NewRight, Understood, After
    <3>1. old[b] = c.state /\ ~Mon!Beyond(d)
      BY <1>1, <2>4, <2>5, GoesFrom
    <3> QED BY <2>2, <2>4, <3>1 DEF Mon!Beyond, Mon!TxCmds
  <2> QED BY <1>1, <2>2, <2>4, <2>5, <2>6, <2>7, <2>8, <2>9, LoudDec
<1>6. ASSUME Mon!Receive(b) PROVE DecInv'
  <2>1. PICK mode \in Mon!Modes, n \in Lengths, a \in DmaAddrs \cup {c.dma} :
          \E t \in {mode} \cup {x \in {"stop"} : mode = "dma" /\ n = 1} :
            Mon!Goes(b, [c EXCEPT !.state = "mrx", !.cmd = t, !.dma = a, !.len = n, !.ptr = 0])
    BY <1>1, <1>6 DEF Mon!Receive
  <2>2. PICK t \in {mode} \cup {x \in {"stop"} : mode = "dma" /\ n = 1} :
            Mon!Goes(b, [c EXCEPT !.state = "mrx", !.cmd = t, !.dma = a, !.len = n, !.ptr = 0])
    BY <2>1
  <2>3. t \in {"pool", "dma", "byte", "stop"} /\ n \in Nat \ {0} /\ a \in {0} \cup DmaAddrs
    BY <1>3, MonConstants DEF Mon!Modes
  <2> DEFINE d == [c EXCEPT !.state = "mrx", !.cmd = t, !.dma = a, !.len = n, !.ptr = 0]
  <2>4. d \in Ctls
    BY ZenonT(40), <1>1, <2>3 DEF Ctls, Mon!States, Cmds, Mon!Modes, Mon!DmaCmds
  <2>5. d.state = "mrx" /\ d.ptr = 0 /\ d.len = n /\ d.cmd = t /\ d.dma = a /\ d.msg = c.msg
    BY <1>1 DEF Ctls
  <2>6. Mon!Goes(b, d)
    BY <2>2
  <2> HIDE DEF d
  <2>7. UNCHANGED <<store, wire>> /\ c.state = "mrxack"
    BY <1>1, <1>6 DEF Mon!Receive
  <2>8. NewRight(b, d)
    <3> SUFFICES ASSUME d.msg \notin excused'[b] PROVE Understood(d) /\ old[b] = "mrxack"
      BY <2>5 DEF NewRight, After
    <3>1. old[b] = c.state /\ ~Mon!Beyond(d)
      BY <1>1, <2>5, <2>6, GoesFrom
    <3>2. n < Wrap
      <4>1. n \in Nat /\ Wrap \in Nat /\ ~(n >= Wrap)
        BY <2>3, <2>5, <3>1, MonConstants DEF Mon!Beyond
      <4> QED BY <4>1
    <3>3. t # "byte" /\ (t \in Mon!DmaCmds => a % 4 = 0)
      BY <2>5, <3>1 DEF Mon!Beyond
    <3> QED BY <2>3, <2>5, <2>7, <3>1, <3>2, <3>3 DEF Understood, Mon!RxCmds, Mon!DmaCmds
  <2> QED BY <1>1, <2>4, <2>5, <2>6, <2>7, <2>8, QuietDec
<1>7. ASSUME Mon!ReceiveMore(b) PROVE DecInv'
  <2> DEFINE d == [c EXCEPT !.state = "mrx"]
  <2>1. Mon!Goes(b, d) /\ c.state = "mtxack" /\ UNCHANGED <<store, wire>>
    BY <1>1, <1>7 DEF Mon!ReceiveMore
  <2>2. d \in Ctls
    BY <1>1 DEF Ctls, Mon!States
  <2>3. d.state = "mrx" /\ d.ptr = c.ptr /\ d.len = c.len /\ d.cmd = c.cmd /\ d.dma = c.dma /\ d.msg = c.msg
    BY <1>1 DEF Ctls
  <2> HIDE DEF d
  <2>4. NewRight(b, d)
    <3> SUFFICES ASSUME d.msg \notin excused'[b]
                 PROVE  Understood(d) /\ old[b] = "mtxack" /\ Follows(ctx[b], d, "new")
      BY <2>3 DEF NewRight, After
    <3>1. old[b] = c.state /\ Understood(c) /\ Follows(ctx[b], c, "taken")
      BY <1>1, <2>1, <2>3, GoesFrom
    <3>2. Understood(d)
      BY <2>1, <2>3, <3>1 DEF Understood
    <3> QED BY <2>1, <2>3, <3>1, <3>2 DEF Follows
  <2> QED BY <1>1, <2>1, <2>2, <2>3, <2>4, QuietDec
<1>8. ASSUME Mon!Received(b) PROVE DecInv'
  <2>1. c.state = "mrx" /\ Mon!OnWire(b, "R")
    BY <1>1, <1>8 DEF Mon!Received
  <2>2. w + 1 \in Mon!Bytes
    BY <1>2, <2>1 DEF Mon!OnWire, w, Mon!Bytes
  <2>3. PICK t \in {c.cmd} \cup {x \in {"stop"} : c.cmd = "dma" /\ c.ptr + 1 = c.len} :
          Mon!Goes(b, [c EXCEPT !.state = "mtxack", !.cmd = t, !.ptr = c.ptr + 1])
    BY <1>1, <1>8 DEF Mon!Received
  <2>4. t \in Cmds /\ (t = c.cmd \/ (t = "stop" /\ c.cmd = "dma"))
    BY <1>3 DEF Cmds, Mon!DmaCmds
  <2> DEFINE d == [c EXCEPT !.state = "mtxack", !.cmd = t, !.ptr = c.ptr + 1]
             e == [bus |-> b, msg |-> c.msg, kind |-> "R", byte |-> w + 1]
  <2>5. d \in Ctls
    <3>1. c.ptr + 1 \in Nat /\ "mtxack" \in Mon!States
      BY <1>3 DEF Mon!States
    <3> QED BY <2>4, <3>1 DEF Ctls
  <2>6. d.state = "mtxack" /\ d.ptr = c.ptr + 1 /\ d.len = c.len /\ d.cmd = t /\ d.dma = c.dma /\ d.msg = c.msg
    BY <1>1 DEF Ctls
  <2>7. Mon!Goes(b, d)
    BY <2>3
  <2>8. e \in Mon!Entries /\ e.bus = b /\ e.msg = d.msg
    BY <1>3, <2>2, <2>6 DEF Mon!Entries
  <2>9. wire' = Append(wire, e)
    BY <1>1, <2>1 DEF Mon!OnWire, w
  <2> HIDE DEF d
  <2> DEFINE start == IF c.cmd \in Mon!DmaCmds THEN c.dma ELSE 0
  <2>10. store' = IF c.cmd = "byte" THEN store ELSE [store EXCEPT ![b][start + c.ptr] = w + 1]
    BY <1>1, <1>8 DEF Mon!Received, w
  <2>11. \A q \in Mon!Mons \ {b} : store'[q] = store[q]
    BY <2>10 DEF MonTypes
  <2>12. ASSUME d.msg \notin excused'[b]
         PROVE  old[b] = "mrx" /\ Understood(c) /\ Follows(ctx[b], c, "taken")
    BY <1>1, <2>1, <2>6, <2>7, <2>12, GoesFrom
  <2>13. Place(d) = start + c.ptr
    <3>1. d.cmd \in Mon!DmaCmds <=> c.cmd \in Mon!DmaCmds
      BY <2>4, <2>6 DEF Mon!DmaCmds
    <3>2. start \in Nat
      <4>1. \A x \in {0} \cup DmaAddrs : x \in Nat
        BY MonConstants
      <4> QED BY <1>3, <4>1
    <3>3. Place(d) = start + (c.ptr + 1) - 1
      BY <2>6, <3>1 DEF Place
    <3> HIDE DEF start
    <3> QED BY <1>3, <3>2, <3>3
  <2>14. d.msg \notin excused'[b] => Byte(d, store'[b], b, d.msg) = <<e>>
    <3> SUFFICES ASSUME d.msg \notin excused'[b] PROVE Byte(d, store'[b], b, d.msg) = <<e>>
      OBVIOUS
    <3>1. c.cmd # "byte"
      BY <2>1, <2>12 DEF Understood, Mon!RxCmds, Mon!DmaCmds
    <3>2. Place(d) \in 0..Mon!Size - 1
      <4>1. CtlRight(d, Len(wire')) /\ Len(wire') \in Nat /\ Len(wire') <= MaxBytes
        <5>1. ctl'[b] = d
          BY <2>7, GoesExcused DEF MonTypes
        <5> QED BY <5>1, LenProperties DEF MonTypes
      <4> QED BY <2>5, <2>6, <4>1, <1>3, ByteType DEF MonTypes
    <3>3. store'[b][Place(d)] = w + 1
      <4> HIDE DEF start
      <4>1. store' = [store EXCEPT ![b][Place(d)] = w + 1]
        BY <2>10, <2>13, <3>1
      <4> QED BY <3>2, <4>1 DEF MonTypes
    <3> QED BY <2>6, <3>3 DEF Byte
  <2> HIDE DEF e, start
  <2>15. NewRight(b, d)
    <3> SUFFICES ASSUME d.msg \notin excused'[b]
                 PROVE  Understood(d) /\ old[b] = "mrx" /\ Follows(ctx[b], d, "new")
      BY <2>6 DEF NewRight, After
    <3>1. Understood(d)
      BY <2>1, <2>4, <2>6, <2>12 DEF Understood, Mon!RxCmds, Mon!DmaCmds
    <3>2. d.ptr - 1 = c.ptr
      BY <1>3, <2>6
    <3>3. Follows(ctx[b], d, "new")
      BY <2>1, <2>4, <2>6, <2>12, <3>2 DEF Follows
    <3> QED BY <2>12, <3>1, <3>3
  <2> QED BY <1>1, <2>5, <2>6, <2>7, <2>8, <2>9, <2>11, <2>14, <2>15, LoudDec
<1> QED BY <1>4, <1>5, <1>6, <1>7, <1>8 DEF Mon!Controller

LEMMA StreamKept ==
  ASSUME MonTypes, NEW b \in Mon!Mons, NEW m \in 0..MaxMsgs, Stream(b, m), UNCHANGED <<out, wire>>,
         Batched(change', b, m, Complete') = Batched(change, b, m, Complete), Missing(b, m)' = Missing(b, m)
  PROVE  Stream(b, m)'
BY DEF Stream

LEMMA StreamTaken ==
  ASSUME MonTypes, NEW b \in Mon!Mons, NEW m \in 0..MaxMsgs, Stream(b, m), UNCHANGED <<out, wire>>,
         Batched(change', b, m, Complete') = Batched(change, b, m, Complete) \o Missing(b, m),
         Missing(b, m)' = <<>>
  PROVE  Stream(b, m)'
<1>1. PICK p \in Seq(Mon!Entries) : p = Mon!Of(out, b, m)
  BY Pieces
<1>2. PICK q \in Seq(Mon!Entries) : q = Batched(change, b, m, Complete)
  BY Pieces
<1>3. PICK r \in Seq(Mon!Entries) : r = Missing(b, m)
  BY Pieces
<1>4. PICK w : w = Mon!Of(wire, b, m)
  OBVIOUS
<1>5. Three(p, q, r, w)
  BY <1>1, <1>2, <1>3, <1>4 DEF Stream
<1>6. Three(p, q \o r, <<>>, w)
  BY <1>5, ThreeTake
<1>7. Batched(change', b, m, Complete') = q \o r
  BY <1>2, <1>3
<1> QED BY <1>1, <1>4, <1>6, <1>7 DEF Stream

\* The cases of ToRead exclude each other.
LEMMA ToReadIs ==
  ASSUME NEW s, NEW c, c = ctx[at], c.rbytes \in Nat, c.dmaLen \in Nat
  PROVE  /\ s = "mtxack" /\ c.cmd = "pool" => Mon!ToRead(s) = "ptr"
         /\ s = "mtxack" /\ c.cmd \in Mon!DmaCmds /\ c.rx /\ c.rbytes < c.dmaLen => Mon!ToRead(s) = "dram"
         /\ s = "mrx" => Mon!ToRead(s) = IF c.rx THEN "sample" ELSE "dma"
         /\ s \notin {"mrx", "mtxd", "mtxack"} => Mon!ToRead(s) = "sample"
         /\ s = "mtxd" => Mon!ToRead(s) = "txd"
<1>1. ASSUME s = "mtxack", c.cmd = "pool" PROVE Mon!ToRead(s) = "ptr"
  <2>1. c.cmd \notin Mon!DmaCmds
    BY <1>1 DEF Mon!DmaCmds
  <2> QED BY <1>1, <2>1 DEF Mon!ToRead
<1>2. ASSUME s = "mtxack", c.cmd \in Mon!DmaCmds, c.rx, c.rbytes < c.dmaLen PROVE Mon!ToRead(s) = "dram"
  <2>1. c.cmd # "pool" /\ ~(c.rbytes >= c.dmaLen)
    BY <1>2 DEF Mon!DmaCmds
  <2> QED BY <1>2, <2>1 DEF Mon!ToRead
<1>3. ASSUME s = "mrx" PROVE Mon!ToRead(s) = IF c.rx THEN "sample" ELSE "dma"
  BY <1>3 DEF Mon!ToRead
<1>4. ASSUME s \notin {"mrx", "mtxd", "mtxack"} PROVE Mon!ToRead(s) = "sample"
  BY <1>4 DEF Mon!ToRead
<1>5. ASSUME s = "mtxd" PROVE Mon!ToRead(s) = "txd"
  BY <1>5 DEF Mon!ToRead
<1> QED BY <1>1, <1>2, <1>3, <1>4, <1>5

\* A change of a message that is not excused is of the state that comes next, and
\* the decoder does with it what its kind asks for.
LEMMA SampledRight ==
  ASSUME MonTypes, DecInv, monPc = "sample", at \in Mon!Mons, Mon!Changed(at), ctl[at].msg \notin excused[at],
         NEW s, s = ctl[at].state, NEW p, p = Mon!ToRead(s), NEW x, x = [ctx[at] EXCEPT !.rx = @ /\ ~Mon!ResetsRx(s)]
  PROVE  /\ p # "dead" /\ (p = "dma" => s = "mrx" /\ ctl[at].ptr = 0) /\ (p = "txd" => s = "mtxd")
         /\ p = "ptr" => s = "mtxack" /\ ctl[at].cmd = "pool"
         /\ p = "dram" => s = "mtxack" /\ ctl[at].cmd \in Mon!DmaCmds
         /\ p \in {"dma", "sample"} => s \notin {"mtxd", "mtxack"}
         /\ s = "mtxack" => Follows(x, ctl[at], "sampled")
         /\ s = "mrx" /\ p = "sample" => Follows(x, ctl[at], "taken")
<1>1. BusRight(at)
  BY DEF DecInv
<1>2. taken[at] = "new" /\ Understood(ctl[at]) /\ After(ctl[at], old[at])
      /\ (s = "mtxack" \/ (s = "mrx" /\ old[at] = "mtxack") => Follows(ctx[at], ctl[at], "new"))
  <2>1. taken[at] \in {"new", "sampled", "taken"}
    BY DEF MonTypes
  <2>2. taken[at] = "new"
    BY <1>1, <2>1 DEF BusRight, Mon!Changed
  <2> QED BY <1>1, <2>2 DEF BusRight
<1>3. ctx[at] \in Ctxs /\ ctl[at] \in Ctls /\ CtlRight(ctl[at], Len(wire))
  BY DEF MonTypes
<1>4. /\ x.rx = (ctx[at].rx /\ ~Mon!ResetsRx(s)) /\ x.cmd = ctx[at].cmd /\ x.rbytes = ctx[at].rbytes
      /\ x.dmaAddr = ctx[at].dmaAddr /\ x.dmaLen = ctx[at].dmaLen
  BY <1>3 DEF Ctxs
<1>5. /\ s = "mtxack" /\ ctx[at].cmd = "pool" => Mon!ToRead(s) = "ptr"
      /\ s = "mtxack" /\ ctx[at].cmd \in Mon!DmaCmds /\ ctx[at].rx /\ ctx[at].rbytes < ctx[at].dmaLen
           => Mon!ToRead(s) = "dram"
      /\ s = "mrx" => Mon!ToRead(s) = IF ctx[at].rx THEN "sample" ELSE "dma"
      /\ s \notin {"mrx", "mtxd", "mtxack"} => Mon!ToRead(s) = "sample"
      /\ s = "mtxd" => Mon!ToRead(s) = "txd"
  <2>1. \A n \in {0} \cup Lengths : n \in Nat
    BY MonConstants
  <2>2. ctx[at].rbytes \in Nat /\ ctx[at].dmaLen \in {0} \cup Lengths
    BY <1>3 DEF Ctxs
  <2>3. ctx[at].rbytes \in Nat /\ ctx[at].dmaLen \in Nat
    BY ONLY <2>1, <2>2
  <2> QED BY <2>3, ToReadIs
<1>6. CASE s = "mtxack"
  <2>1. Follows(ctx[at], ctl[at], "new") /\ Understood(ctl[at])
    BY <1>2, <1>6
  <2>2. Follows(x, ctl[at], "sampled")
    BY <1>4, <1>6, <2>1 DEF Follows, Mon!ResetsRx
  <2>3. ctx[at].cmd # "pool" => ctx[at].rbytes < ctx[at].dmaLen
    <3>1. ctl[at].ptr \in Nat /\ ctl[at].ptr <= ctl[at].len /\ ctl[at].len \in Nat
      <4>1. \A n \in {0} \cup Lengths : n \in Nat
        BY MonConstants
      <4>2. ctl[at].len \in {0} \cup Lengths /\ ctl[at].ptr \in Nat
        BY <1>3 DEF Ctls
      <4> QED BY <1>3, <4>1, <4>2 DEF CtlRight
    <3>2. ctx[at].cmd # "pool" => ctx[at].rbytes = ctl[at].ptr - 1 /\ ctx[at].dmaLen = ctl[at].len
      BY <1>6, <2>1 DEF Follows
    <3> QED BY <3>1, <3>2
  <2>4. ctx[at].rx /\ ctx[at].cmd \in Mon!RxCmds /\ (ctx[at].cmd = "pool" <=> ctl[at].cmd = "pool")
        /\ ctl[at].cmd \in Mon!RxCmds
    BY <1>6, <2>1 DEF Follows, Understood
  <2>5. p = IF ctl[at].cmd = "pool" THEN "ptr" ELSE "dram"
    <3>1. CASE ctl[at].cmd = "pool"
      BY <1>6, <1>5, <2>4, <3>1
    <3>2. CASE ctl[at].cmd # "pool"
      <4>1. ctx[at].cmd # "pool" /\ ctx[at].cmd \in Mon!DmaCmds
        BY <2>4, <3>2 DEF Mon!RxCmds
      <4>2. ctx[at].rbytes < ctx[at].dmaLen
        BY <2>3, <4>1
      <4> QED BY <1>6, <1>5, <2>4, <3>2, <4>1, <4>2
    <3> QED BY <3>1, <3>2
  <2> QED BY <1>6, <2>2, <2>4, <2>5 DEF Mon!RxCmds
<1>7. CASE s = "mrx"
  <2>1. p = IF ctx[at].rx THEN "sample" ELSE "dma"
    BY <1>7, <1>5
  <2>2. ctx[at].rx => old[at] \in {"mrx", "mtxd", "mtxack"}
    BY <1>1 DEF BusRight
  <2>3. old[at] = "mtxack" \/ (old[at] = "mrxack" /\ ctl[at].ptr = 0)
    BY <1>2, <1>7 DEF After
  <2>4. old[at] = "mtxack" => Follows(ctx[at], ctl[at], "new")
    BY <1>2, <1>7
  <2>5. old[at] = "mtxack" => ctx[at].rx /\ Follows(x, ctl[at], "taken")
    BY <1>4, <1>7, <2>4 DEF Follows, Mon!ResetsRx
  <2> QED BY <1>7, <2>1, <2>2, <2>3, <2>5
<1>8. CASE s \notin {"mtxack", "mrx"}
  BY <1>8, <1>5
<1> QED BY <1>6, <1>7, <1>8

Fatal == monPc = "dead" => victim[2] \in excused[victim[1]]

LEMMA SampleDec ==
  ASSUME MonTypes, MonTypes', DecInv, Mon!Sample
  PROVE  DecInv' /\ (monPc' = "dead" => Fatal')
<1>1. PICK a \in Mon!Mons : a = at /\ a \in Nat /\ monPc = "sample"
  BY MonConstants DEF MonTypes, Mon!Mons, Mon!Sample
<1>2. PICK s \in Mon!States : s = ctl[a].state
  BY DEF MonTypes, Ctls
<1>3. /\ old' = [old EXCEPT ![a] = s] /\ at' = (IF monPc' = "sample" THEN a + 1 ELSE a)
      /\ taken' = [taken EXCEPT ![a] = IF monPc' = "sample" THEN "taken" ELSE "sampled"]
      /\ UNCHANGED <<ctl, store, wire, late, out, misses, excused>>
  BY <1>1, <1>2 DEF Mon!Sample, Mon!hardware
<1>4. PICK n \in Nat : n = Len(change) /\ n = Complete /\ change \in Seq(Changes)
  BY <1>1, CompleteIs DEF Complete
<1>5. (\A b \in Mon!Mons : BusRight(b)) /\ RefusedRight /\ Streams /\ ~Reading
  BY <1>1 DEF DecInv, Reading
<1>6. taken[a] \in {"new", "taken"} /\ (Mon!Changed(a) => taken[a] = "new")
  <2>1. taken[a] \in {"new", "sampled", "taken"}
    BY DEF MonTypes
  <2> QED BY <1>5, <2>1 DEF BusRight, Mon!Changed
<1>7. old'[a] = s /\ taken'[a] = (IF monPc' = "sample" THEN "taken" ELSE "sampled")
      /\ \A b \in Mon!Mons \ {a} : old'[b] = old[b] /\ taken'[b] = taken[b]
  BY <1>3 DEF MonTypes
<1>8. ASSUME NEW b \in Mon!Mons \ {a}, ctx'[b] = ctx[b] PROVE BusRight(b)'
  <2>1. BusRight(b) /\ old'[b] = old[b] /\ taken'[b] = taken[b] /\ taken[b] # "sampled"
    BY <1>5, <1>7 DEF BusRight
  <2>2. ctl' = ctl /\ excused' = excused
    BY <1>3
  <2> QED BY <1>8, <2>1, <2>2 DEF BusRight, Understood, After, Follows
<1>9. ASSUME NEW b \in Mon!Mons \ {a}, NEW m PROVE Missing(b, m)' = Missing(b, m)
  BY <1>3, <1>7 DEF Missing
<1>10. CASE ~Mon!Changed(a) /\ UNCHANGED <<change, ctx, victim>> /\ monPc' = "sample"
  <2>1. BusRight(a) /\ (old[a] = s \/ old[a] = "unknown") /\ old'[a] = s /\ taken'[a] = "taken"
    BY <1>2, <1>5, <1>7, <1>10 DEF Mon!Changed, Mon!Unknown
  <2>2. ctl[a].msg \notin excused[a] /\ taken[a] = "new" => s \notin {"mrx", "mtxd", "mtxack"}
    BY <1>2, <2>1 DEF BusRight, After
  <2>3. BusRight(a)'
    <3>1. ctx[a].rx => s \in {"mrx", "mtxd", "mtxack"}
      BY <2>1 DEF BusRight
    <3>2. ctl[a].msg \notin excused[a] =>
            Understood(ctl[a]) /\ (s \in {"mrx", "mtxack"} => Follows(ctx[a], ctl[a], "taken"))
      BY <1>2, <1>6, <2>1, <2>2 DEF BusRight
    <3>3. UNCHANGED <<ctl, excused, ctx>>
      BY <1>3, <1>10
    <3> QED BY <1>2, <2>1, <3>1, <3>2, <3>3 DEF BusRight, Understood, Follows
  <2>4. Complete' = Complete /\ change' = change
    BY <1>1, <1>10 DEF Complete
  <2>5. ASSUME NEW b \in Mon!Mons, NEW m \in (0..MaxMsgs) \ excused'[b] PROVE Stream(b, m)'
    <3>1. Stream(b, m) /\ m \notin excused[b] /\ UNCHANGED <<out, wire>>
      BY <1>3, <1>5 DEF Streams
    <3>2. Missing(b, m)' = Missing(b, m)
      <4>1. CASE b = a
        <5>1. Missing(a, m) = <<>>
          BY <1>2, <2>2, <3>1, <4>1, <1>6 DEF Missing, Byte
        <5>2. Missing(a, m)' = <<>>
          BY <2>1 DEF Missing
        <5> QED BY <4>1, <5>1, <5>2
      <4> QED BY <4>1, <1>9
    <3> QED BY <2>4, <3>1, <3>2, StreamKept
  <2>6. RefusedRight' /\ ~Reading' /\ monPc' # "dead"
    BY <1>3, <1>5, <1>10, <2>4 DEF RefusedRight, Mon!Refused, Reading
  <2> QED BY <1>8, <1>10, <2>3, <2>5, <2>6 DEF DecInv, Streams
<1>11. CASE /\ Mon!Changed(a) /\ change' = Append(change, Fresh) /\ monPc' = Mon!ToRead(s)
            /\ ctx' = [ctx EXCEPT ![a].rx = @ /\ ~Mon!ResetsRx(s)]
            /\ victim' = IF monPc' = "dead" THEN <<a, ctl[a].msg>> ELSE victim
  <2>1. PICK y \in Changes : y = Fresh
    BY <1>1, FreshType
  <2>2. /\ y.bus = a /\ y.state = s /\ y.cmd = ctl[a].cmd /\ y.msg = ctl[a].msg /\ y.ptr = 0
    BY <1>1, <1>2, <2>1 DEF Fresh
  <2>3. /\ change' \in Seq(Changes) /\ Len(change') = n + 1 /\ change'[n + 1] = y
        /\ \A k \in 1..n : change'[k] = change[k]
    BY <1>1, <1>4, <1>11, <2>1, FreshType
  <2>4. PICK x : x = [ctx[a] EXCEPT !.rx = @ /\ ~Mon!ResetsRx(s)]
    OBVIOUS
  <2>5. ctx'[a] = x /\ \A b \in Mon!Mons \ {a} : ctx'[b] = ctx[b]
    BY <1>11, <2>4 DEF MonTypes
  <2>6. PICK p : p = monPc' /\ p = Mon!ToRead(s)
    BY <1>11
  <2>7. ctl[a].msg \notin excused[a] =>
         /\ p # "dead" /\ (p = "dma" => s = "mrx" /\ ctl[a].ptr = 0) /\ (p = "txd" => s = "mtxd")
         /\ p = "ptr" => s = "mtxack" /\ ctl[a].cmd = "pool"
         /\ p = "dram" => s = "mtxack" /\ ctl[a].cmd \in Mon!DmaCmds
         /\ p \in {"dma", "sample"} => s \notin {"mtxd", "mtxack"}
         /\ s = "mtxack" => Follows(x, ctl[a], "sampled")
         /\ s = "mrx" /\ p = "sample" => Follows(x, ctl[a], "taken")
    BY <1>1, <1>2, <1>11, <2>4, <2>6, SampledRight
  <2>8. taken[a] = "new" /\ BusRight(a)
    BY <1>5, <1>6, <1>11
  <2>9. p \in {"dma", "txd", "ptr", "dram", "dead", "sample"}
        /\ (p = "dma" => s = "mrx") /\ (p = "txd" => s = "mtxd") /\ (p \in {"ptr", "dram"} => s = "mtxack")
    BY <2>6 DEF Mon!ToRead
  <2>10. CASE p = "dead"
    <3>1. victim'[2] = ctl[a].msg /\ victim'[1] = a
      BY <1>11, <2>6, <2>10
    <3>2. ctl[a].msg \in excused[a]
      BY <2>7, <2>10
    <3>3. Fatal'
      BY <1>3, <3>1, <3>2 DEF Fatal
    <3> QED BY <2>6, <2>10, <3>3 DEF DecInv
  <2>11. CASE p # "dead"
    <3>1. BusRight(a)'
      <4>1. taken'[a] = "sampled" => Reading' /\ at' = a
        BY <1>3, <1>7, <2>6, <2>9, <2>11 DEF Reading
      <4>2. x.rx => s \in {"mrx", "mtxd", "mtxack"}
        <5>1. x.rx => ~Mon!ResetsRx(s)
          BY <2>4 DEF MonTypes, Ctxs
        <5> QED BY <5>1 DEF Mon!ResetsRx
      <4>3. ctl[a].msg \notin excused[a] =>
              /\ Understood(ctl[a])
              /\ s = "mtxack" \/ (s = "mrx" /\ taken'[a] = "taken") => Follows(x, ctl[a], taken'[a])
        <5>1. ctl[a].msg \notin excused[a] => Understood(ctl[a])
          BY <2>8 DEF BusRight
        <5>2. taken'[a] = (IF p = "sample" THEN "taken" ELSE "sampled")
          BY <1>7, <2>6
        <5> QED BY <2>7, <5>1, <5>2
      <4>4. ctl' = ctl /\ excused' = excused
        BY <1>3
      <4>5. taken'[a] # "new" /\ old'[a] = s
        BY <1>7
      <4> HIDE DEF Understood, After, Follows
      <4>6. Understood(ctl[a])' = Understood(ctl[a])
        BY <4>4 DEF Understood
      <4>7. Follows(ctx[a], ctl[a], taken[a])' = Follows(x, ctl[a], taken'[a])
        BY <2>5, <4>4 DEF Follows
      <4> QED BY <1>2, <2>5, <4>1, <4>2, <4>3, <4>4, <4>5, <4>6, <4>7 DEF BusRight
    <3>2. Reading' => LatestRight'
      <4> SUFFICES ASSUME Reading' PROVE LatestRight'
        OBVIOUS
      <4>1. p # "sample" /\ at' = a /\ taken'[a] = "sampled" /\ old'[a] = s
        BY <1>3, <1>7, <2>6 DEF Reading
      <4>2. Mon!Latest' = y
        BY <2>3 DEF Mon!Latest
      <4>3. ctl' = ctl /\ excused' = excused /\ monPc' = p
        BY <1>3, <2>6
      <4>4. p \notin {"len", "pool"}
        BY <2>9
      <4> QED BY <1>2, <2>2, <2>7, <2>9, <4>1, <4>2, <4>3, <4>4 DEF LatestRight
    <3>3. Complete' = IF p \in {"dma", "sample"} THEN n + 1 ELSE n
      BY <1>4, <2>3, <2>6, <2>9, <2>11 DEF Complete
    <3>4. RefusedRight'
      <4>1. ASSUME NEW k \in 1..n, Mon!Refused(change[k]) PROVE change[k].msg \in excused[change[k].bus]
        BY <1>4, <1>5, <4>1 DEF RefusedRight
      <4>2. p \in {"dma", "sample"} /\ Mon!Refused(y) => y.msg \in excused[y.bus]
        BY <2>2, <2>7 DEF Mon!Refused
      <4>3. ASSUME NEW k \in 1..Complete', Mon!Refused(change'[k])
            PROVE  change'[k].msg \in excused'[change'[k].bus]
        <5>1. CASE k \in 1..n
          <6>1. change'[k] = change[k] /\ excused' = excused
            BY <1>3, <2>3, <5>1
          <6> QED BY <4>1, <4>3, <5>1, <6>1
        <5>2. CASE k \notin 1..n
          <6>1. k = n + 1 /\ p \in {"dma", "sample"} /\ excused' = excused
            BY <1>3, <1>4, <3>3, <5>2
          <6> QED BY <2>3, <4>2, <4>3, <6>1
        <5> QED BY <5>1, <5>2
      <4> QED BY <4>3 DEF RefusedRight, Mon!Refused
    <3>5. ASSUME NEW b \in Mon!Mons, NEW m \in (0..MaxMsgs) \ excused'[b] PROVE Stream(b, m)'
      <4>1. Stream(b, m) /\ m \notin excused[b] /\ UNCHANGED <<out, wire>>
        BY <1>3, <1>5 DEF Streams
      <4>2. PICK t \in Seq(Changes) : t = change'
        BY <2>3
      <4>3. Batched(t, b, m, n) = Batched(change, b, m, n)
        BY <2>3, <4>2, BatchedSame
      <4>4. CASE p \in {"dma", "sample"}
        <5>1. ShownOf(y, b, m) = <<>>
          BY <2>2, <2>7, <4>1, <4>4 DEF ShownOf, Shown
        <5>2. PICK q \in Seq(Mon!Entries) : q = Batched(t, b, m, n)
          <6>1. n \in 0..Len(t)
            BY <2>3, <4>2
          <6>2. Batched(t, b, m, n) \in Seq(Mon!Entries)
            BY <6>1, BatchedType
          <6> QED BY <6>2
        <5>3. Batched(t, b, m, n + 1) = q \o ShownOf(y, b, m)
          <6>1. n + 1 <= Len(t) /\ t[n + 1] = y
            BY <2>3, <4>2
          <6>2. Batched(t, b, m, n + 1) = Batched(t, b, m, n) \o ShownOf(t[n + 1], b, m)
            BY <6>1, BatchedMore
          <6> QED BY <5>2, <6>1, <6>2
        <5>4. q \o <<>> = q
          BY ConcatEmptySeq
        <5>5. Batched(change', b, m, Complete') = Batched(change, b, m, Complete)
          BY <1>4, <3>3, <4>2, <4>3, <4>4, <5>1, <5>2, <5>3, <5>4
        <5>6. Missing(b, m)' = Missing(b, m)
          <6>1. CASE b = a
            <7>1. m = ctl[a].msg => s \notin {"mtxd", "mtxack"}
              BY <2>7, <4>1, <4>4, <6>1
            <7> QED BY <1>2, <1>3, <6>1, <7>1 DEF Missing, Byte
          <6> QED BY <1>9, <6>1
        <5> QED BY <4>1, <5>5, <5>6, StreamKept
      <4>5. CASE p \notin {"dma", "sample"}
        <5>1. Batched(change', b, m, Complete') = Batched(change, b, m, Complete)
          BY <1>4, <3>3, <4>2, <4>3, <4>5
        <5>2. Missing(b, m)' = Missing(b, m)
          <6>1. CASE b = a
            <7>1. taken'[a] = "sampled" /\ UNCHANGED <<ctl, store>>
              BY <1>3, <1>7, <2>6, <4>5
            <7> HIDE DEF Byte
            <7>2. Missing(a, m)' = IF m = ctl[a].msg THEN Byte(ctl[a], store[a], a, m) ELSE <<>>
              BY <7>1 DEF Missing, Byte
            <7>3. Missing(a, m) = IF m = ctl[a].msg THEN Byte(ctl[a], store[a], a, m) ELSE <<>>
              BY <2>8 DEF Missing
            <7> QED BY <6>1, <7>2, <7>3
          <6> QED BY <1>9, <6>1
        <5> QED BY <4>1, <5>1, <5>2, StreamKept
      <4> QED BY <4>4, <4>5
    <3> QED BY <1>8, <2>5, <2>6, <2>11, <3>1, <3>2, <3>4, <3>5 DEF DecInv, Streams
  <2> QED BY <2>10, <2>11
<1> QED BY <1>1, <1>2, <1>10, <1>11 DEF Mon!Sample, Fresh

\* What a read leaves alone, and what it does to the bus in turn.
LEMMA OtherBus ==
  ASSUME DecInv, monPc # "dead", UNCHANGED <<ctl, old, excused>>, NEW b \in Mon!Mons, b # at,
         ctx'[b] = ctx[b], taken'[b] = taken[b]
  PROVE  BusRight(b)'
<1>1. BusRight(b) /\ taken[b] # "sampled"
  BY DEF DecInv, BusRight
<1> QED BY <1>1 DEF BusRight, Understood, After, Follows

Advanced(a) == /\ monPc' = "sample" /\ UNCHANGED <<ctl, store, wire, old, out, excused>>
               /\ taken' = [taken EXCEPT ![a] = IF @ = "new" THEN "new" ELSE "taken"]
               /\ \A b \in Mon!Mons \ {a} : ctx'[b] = ctx[b]

LEMMA TurnRight ==
  ASSUME MonTypes, DecInv, Reading, NEW a \in Mon!Mons, a = at, Advanced(a),
         ctx'[a].rx => old[a] \in {"mrx", "mtxd", "mtxack"},
         taken[a] = "sampled" /\ ctl[a].msg \notin excused[a] /\ ctl[a].state \in {"mrx", "mtxack"}
           => Follows(ctx'[a], ctl[a], "taken")
  PROVE  \A b \in Mon!Mons : BusRight(b)'
<1>1. monPc # "dead" /\ LatestRight /\ BusRight(a)
  BY DEF DecInv, Reading
<1>2. UNCHANGED <<ctl, old, excused>> /\ monPc' = "sample"
      /\ \A b \in Mon!Mons \ {a} : ctx'[b] = ctx[b] /\ taken'[b] = taken[b]
  BY DEF Advanced, MonTypes
<1>3. (taken[a] = "new" /\ taken'[a] = "new") \/ (taken[a] = "sampled" /\ taken'[a] = "taken")
  <2>1. taken[a] \in {"new", "sampled"}
    BY <1>1 DEF MonTypes, LatestRight
  <2> QED BY <2>1 DEF MonTypes, Advanced
<1>4. \A b \in Mon!Mons \ {a} : BusRight(b)'
  BY <1>1, <1>2, OtherBus
<1>5. BusRight(a)'
  <2>1. CASE taken[a] = "new" /\ taken'[a] = "new"
    <3>1. ctl[a].msg \in excused[a] \/ ctl[a].state = "mstart"
      BY <1>1, <2>1 DEF LatestRight
    <3> QED BY <1>1, <1>2, <2>1, <3>1 DEF BusRight, Understood, After
  <2>2. CASE taken[a] = "sampled" /\ taken'[a] = "taken"
    <3>1. old[a] = ctl[a].state /\ (ctl[a].msg \notin excused[a] => Understood(ctl[a]))
      BY <1>1, <2>2 DEF BusRight
    <3>2. Understood(ctl[a])' = Understood(ctl[a])
      BY <1>2 DEF Understood
    <3>3. Follows(ctx[a], ctl[a], taken[a])' = Follows(ctx'[a], ctl[a], "taken")
      BY <1>2, <2>2 DEF Follows
    <3> HIDE DEF Understood, Follows
    <3> QED BY <1>2, <2>2, <3>1, <3>2, <3>3 DEF BusRight
  <2> QED BY <1>3, <2>1, <2>2
<1> QED BY <1>4, <1>5

\* The latest change is edited.
Edited(t, s, n, y) == Len(t) = n /\ t[n] = y /\ \A j \in 1..n - 1 : t[j] = s[j]

\* The read that a change was waiting for: what was missing is now in the batch.
LEMMA ReadTakes ==
  ASSUME MonTypes, MonTypes', DecInv, monPc \in {"txd", "pool", "dram"}, NEW a \in Mon!Mons, a = at, Advanced(a),
         \A b \in Mon!Mons : BusRight(b)', NEW n \in Nat \ {0}, n = Len(change), NEW y \in Changes,
         NEW t \in Seq(Changes), t = change', Edited(t, change, n, y), y.bus = a, y.msg = Mon!Latest.msg,
         y.msg \notin excused[a] => Shown(y) = Byte(ctl[a], store[a], a, y.msg) /\ ~Mon!Refused(y)
  PROVE  DecInv'
<1>1. LatestRight /\ RefusedRight /\ Streams /\ Complete = n - 1 /\ n - 1 \in Nat /\ (n - 1) + 1 = n
  BY DEF DecInv, Reading, Complete
<1>2. Len(t) = n /\ t[n] = y /\ \A j \in 1..n - 1 : t[j] = change[j]
  BY DEF Edited
<1>3. monPc' = "sample" /\ UNCHANGED <<ctl, store, wire, old, out, excused>>
      /\ \A b \in Mon!Mons \ {a} : taken'[b] = taken[b]
  BY DEF Advanced, MonTypes
<1>4. (taken[a] = "new" /\ taken'[a] = "new") \/ (taken[a] = "sampled" /\ taken'[a] = "taken")
  <2>1. taken[a] \in {"new", "sampled"}
    BY <1>1 DEF MonTypes, LatestRight
  <2> QED BY <2>1 DEF MonTypes, Advanced
<1>5. Complete' = n /\ ~Reading'
  BY <1>3, <1>2 DEF Complete, Reading
<1>6. RefusedRight'
  <2>1. ASSUME NEW k \in 1..n, Mon!Refused(t[k]) PROVE t[k].msg \in excused[t[k].bus]
    <3>1. CASE k = n
      BY <1>2, <2>1, <3>1
    <3>2. CASE k # n
      <4>1. k \in 1..n - 1 /\ t[k] = change[k]
        BY <1>2, <3>2
      <4> QED BY <1>1, <2>1, <4>1 DEF RefusedRight
    <3> QED BY <3>1, <3>2
  <2> QED BY <1>3, <1>5, <2>1 DEF RefusedRight, Mon!Refused
<1>7. ASSUME NEW b \in Mon!Mons, NEW m \in (0..MaxMsgs) \ excused'[b] PROVE Stream(b, m)'
  <2>1. Stream(b, m) /\ m \notin excused[b] /\ UNCHANGED <<out, wire>>
    BY <1>1, <1>3 DEF Streams
  <2>2. PICK q \in Seq(Mon!Entries) : q = Batched(change, b, m, n - 1)
    BY <1>1, Pieces
  <2>3. Batched(t, b, m, n - 1) = q
    BY <1>1, <1>2, <2>2, BatchedSame
  <2>4. Batched(t, b, m, n) = q \o ShownOf(y, b, m)
    <3>1. n \in 1..Len(t)
      BY <1>2
    <3>2. EndsIn(t, b, m, n, Batched(t, b, m, n - 1), t[n])
      BY <3>1, BatchedLast
    <3> QED BY <1>2, <2>3, <3>2 DEF EndsIn
  <2>5. Batched(change', b, m, Complete') = q \o ShownOf(y, b, m)
    BY <1>5, <2>4
  <2>6. CASE b = a /\ m = y.msg
    <3>1. taken[a] = "sampled" /\ taken'[a] = "taken" /\ y.msg = ctl[a].msg
      BY <1>1, <1>4, <2>1, <2>6 DEF LatestRight
    <3> HIDE DEF Byte
    <3>2. ShownOf(y, b, m) = Missing(b, m)
      BY <2>1, <2>6, <3>1 DEF ShownOf, Missing
    <3>3. Missing(b, m)' = <<>>
      BY <2>6, <3>1 DEF Missing
    <3> QED BY <1>1, <2>1, <2>2, <2>5, <3>2, <3>3, StreamTaken
  <2>7. CASE ~(b = a /\ m = y.msg)
    <3>1. ShownOf(y, b, m) = <<>>
      BY <2>7 DEF ShownOf
    <3>2. q \o <<>> = q
      BY ConcatEmptySeq
    <3>3. Missing(b, m)' = Missing(b, m)
      <4>1. CASE b = a /\ taken[a] = "sampled" /\ taken'[a] = "taken"
        <5>1. m # ctl[a].msg
          BY <1>1, <2>7, <4>1 DEF LatestRight
        <5> QED BY <1>3, <4>1, <5>1 DEF Missing
      <4>2. CASE taken'[b] = taken[b]
        BY <1>3, <4>2 DEF Missing
      <4> QED BY <1>3, <1>4, <4>1, <4>2
    <3> QED BY <1>1, <2>1, <2>2, <2>5, <3>1, <3>2, <3>3, StreamKept
  <2> QED BY <2>6, <2>7
<1> QED BY <1>3, <1>5, <1>6, <1>7 DEF DecInv, Streams

\* The byte of a word that the decoder takes is the one at the place it was read for.
LEMMA ByteOfWord ==
  ASSUME NEW b, NEW a \in Nat
  PROVE  Mon!Word(b, a)[a % 4] = store[b][a]
<1>1. a % 4 \in 0..3 /\ 4 * (a \div 4) + (a % 4) = a
  OBVIOUS
<1> QED BY <1>1 DEF Mon!Word

LEMMA NotRefused ==
  ASSUME NEW p \in Nat, 0 < p, p < Wrap
  PROVE  p % 256 = p /\ p % Wrap # 0
<1>1. Wrap \in 1..256
  BY MonConstants
<1> QED BY <1>1

LEMMA ReadsDec ==
  ASSUME MonTypes, MonTypes', DecInv, Mon!Reads
  PROVE  DecInv' /\ (monPc' = "dead" => Fatal')
<1>1. /\ Mon!ReadDma \/ Mon!ReadLen \/ Mon!ReadTxd \/ Mon!ReadPtr \/ Mon!ReadPool \/ Mon!ReadDram
      /\ UNCHANGED <<ctl, store, wire, late, old, out, misses, excused>>
  BY DEF Mon!Reads, Mon!hardware
<1>2. Reading /\ monPc # "dead"
  BY <1>1 DEF Reading, Mon!ReadDma, Mon!ReadLen, Mon!ReadTxd, Mon!ReadPtr, Mon!ReadPool, Mon!ReadDram
<1>3. PICK n \in Nat \ {0} : n = Len(change) /\ change \in Seq(Changes) /\ change # <<>>
  BY <1>2, CompleteIs
<1>4. PICK a \in Mon!Mons : a = at
  BY <1>2, MonConstants DEF MonTypes, Reading, Mon!Mons
<1>5. PICK x \in Changes : x = change[n] /\ x = Mon!Latest
  BY <1>3, LatestType
<1>6. PICK c \in Ctls : c = ctl[a] /\ CtlRight(c, Len(wire))
  BY DEF MonTypes
<1>7. PICK k \in Ctxs : k = ctx[a]
  BY DEF MonTypes
<1>8. LatestRight /\ RefusedRight /\ Streams /\ (\A b \in Mon!Mons : BusRight(b))
  BY <1>2 DEF DecInv
<1>9. c.ptr \in Nat /\ c.dma \in Nat /\ c.len \in Nat /\ c.ptr <= c.len /\ (c.state = "mtxack" => c.ptr # 0)
  <2>1. \A z \in {0} \cup Lengths \cup DmaAddrs : z \in Nat
    BY MonConstants
  <2>2. c.ptr \in Nat /\ c.dma \in {0} \cup DmaAddrs /\ c.len \in {0} \cup Lengths
    BY DEF Ctls
  <2> QED BY <1>6, <2>1, <2>2 DEF CtlRight
<1>10. /\ x.bus = a /\ old[a] = x.state /\ taken[a] \in {"new", "sampled"}
       /\ x.msg \notin excused[a] => taken[a] = "sampled"
       /\ taken[a] = "sampled" => x.msg = c.msg /\ x.state = c.state /\ x.cmd = c.cmd
  BY <1>4, <1>5, <1>6, <1>8 DEF LatestRight, MonTypes
<1>11. k.rx => old[a] \in {"mrx", "mtxd", "mtxack"}
  BY <1>7, <1>8 DEF BusRight
<1>12. c.msg \notin excused[a] => Understood(c)
  BY <1>6, <1>8 DEF BusRight
<1>13. c.msg \notin excused[a] /\ c.state = "mtxack" => Follows(k, c, taken[a])
  BY <1>6, <1>7, <1>8 DEF BusRight
<1>14. ASSUME NEW y \in Changes, change' = [change EXCEPT ![n] = y]
       PROVE  \E t \in Seq(Changes) : t = change' /\ Edited(t, change, n, y)
  <2>1. PICK t : t = change'
    OBVIOUS
  <2>2. t \in Seq(Changes) /\ Len(t) = n /\ t[n] = y /\ \A j \in 1..n - 1 : t[j] = change[j]
    BY <1>3, <1>14, <2>1, LatestEdit
  <2>3. Edited(t, change, n, y)
    BY <2>2 DEF Edited
  <2> QED BY <2>1, <2>2, <2>3
<1>15. ASSUME Mon!Advance, \A b \in Mon!Mons \ {a} : ctx'[b] = ctx[b] PROVE Advanced(a)
  BY <1>1, <1>4, <1>15 DEF Mon!Advance, Advanced
<1>16. CASE Mon!ReadDma
  <2>1. /\ monPc = "dma" /\ monPc' = "len" /\ ctx' = [ctx EXCEPT ![a].dmaAddr = c.dma]
        /\ UNCHANGED <<at, change, taken>>
    BY <1>4, <1>6, <1>16 DEF Mon!ReadDma
  <2>2. /\ ctx'[a].dmaAddr = c.dma /\ ctx'[a].rx = k.rx
        /\ \A b \in Mon!Mons \ {a} : ctx'[b] = ctx[b]
    BY <1>7, <2>1 DEF MonTypes, Ctxs
  <2>3. Complete' = Complete /\ Mon!Latest' = x /\ Reading'
    BY <1>5, <2>1 DEF Complete, Mon!Latest, Reading
  <2>4. x.state = "mrx"
    BY <1>5, <1>8, <2>1 DEF LatestRight
  <2>5. ASSUME NEW b \in Mon!Mons PROVE BusRight(b)'
    <3>1. CASE b # a
      BY <1>1, <1>2, <1>4, <2>1, <2>2, <3>1, OtherBus
    <3>2. CASE b = a
      <4>1. BusRight(a) /\ Reading' /\ at' = a /\ taken' = taken /\ UNCHANGED <<ctl, old, excused>> /\ ctl[a] = c
        BY <1>1, <1>4, <1>6, <1>8, <2>1, <2>3
      <4>2. c.msg \notin excused[a] => c.state \notin {"mrx", "mtxack"} \/ (c.state = "mrx" /\ taken[a] = "sampled")
        <5>1. taken[a] = "new" => c.msg \in excused[a] \/ c.state = "mstart"
          BY <1>4, <1>6, <1>8 DEF LatestRight
        <5> QED BY <1>10, <2>4, <5>1
      <4> QED BY <1>10, <1>11, <2>2, <2>4, <3>2, <4>1, <4>2 DEF BusRight, Understood, After
    <3> QED BY <3>1, <3>2
  <2>6. LatestRight'
    <3>1. LatestRight /\ UNCHANGED <<ctl, old, excused, at, taken>> /\ monPc' = "len" /\ monPc = "dma"
      BY <1>1, <1>8, <2>1
    <3>2. at' = a /\ ctl'[a] = c /\ ctx'[a].dmaAddr = c.dma
      BY <1>1, <1>4, <1>6, <2>1, <2>2
    <3>3. Mon!Latest' = Mon!Latest
      BY <1>5, <2>3
    <3> QED BY <1>4, <3>1, <3>2, <3>3 DEF LatestRight
  <2>7. RefusedRight'
    BY <1>1, <1>8, <2>1, <2>3 DEF RefusedRight, Mon!Refused
  <2>8. Streams'
    <3> SUFFICES ASSUME NEW b \in Mon!Mons, NEW m \in (0..MaxMsgs) \ excused'[b] PROVE Stream(b, m)'
      BY DEF Streams
    <3>1. Stream(b, m)
      BY <1>1, <1>8 DEF Streams
    <3>2. Missing(b, m)' = Missing(b, m)
      BY <1>1, <2>1 DEF Missing
    <3> QED BY <1>1, <2>1, <2>3, <3>1, <3>2, StreamKept
  <2> QED BY <2>1, <2>5, <2>6, <2>7, <2>8 DEF DecInv
<1>17. CASE Mon!ReadLen
  <2>1. /\ Mon!Advance /\ change' = change /\ monPc = "len" /\ monPc' = "sample"
        /\ ctx' = [ctx EXCEPT ![a].dmaLen = c.len, ![a].cmd = x.cmd, ![a].rbytes = 0, ![a].rx = TRUE]
    BY <1>4, <1>5, <1>6, <1>17 DEF Mon!ReadLen, Mon!Advance
  <2>2. /\ ctx'[a].dmaAddr = k.dmaAddr /\ ctx'[a].dmaLen = c.len /\ ctx'[a].cmd = x.cmd /\ ctx'[a].rbytes = 0
        /\ ctx'[a].rx = TRUE /\ \A b \in Mon!Mons \ {a} : ctx'[b] = ctx[b]
    BY <1>7, <2>1 DEF MonTypes, Ctxs
  <2>3. Advanced(a)
    BY <1>15, <2>1, <2>2
  <2>4. x.state = "mrx" /\ old[a] = "mrx"
    BY <1>5, <1>10, <1>8, <2>1 DEF LatestRight
  <2>5. taken[a] = "sampled" /\ c.msg \notin excused[a] => Follows(ctx'[a], c, "taken")
    <3> SUFFICES ASSUME taken[a] = "sampled", c.msg \notin excused[a] PROVE Follows(ctx'[a], c, "taken")
      OBVIOUS
    <3>1. x.msg = c.msg /\ c.state = "mrx" /\ x.cmd = c.cmd
      BY <1>10, <2>4
    <3>2. c.ptr = 0 /\ k.dmaAddr = c.dma
      BY <1>4, <1>5, <1>6, <1>7, <1>8, <2>1, <3>1 DEF LatestRight
    <3>3. c.cmd \in Mon!RxCmds
      BY <1>12, <3>1 DEF Understood
    <3> QED BY <2>2, <3>1, <3>2, <3>3 DEF Follows
  <2>6. \A b \in Mon!Mons : BusRight(b)'
    BY <1>2, <1>4, <1>6, <2>3, <2>4, <2>5, TurnRight
  <2>7. Complete' = Complete /\ ~Reading'
    BY <2>1 DEF Complete, Reading
  <2>8. RefusedRight'
    BY <1>1, <1>8, <2>1, <2>7 DEF RefusedRight, Mon!Refused
  <2>9. Streams'
    <3> SUFFICES ASSUME NEW b \in Mon!Mons, NEW m \in (0..MaxMsgs) \ excused'[b] PROVE Stream(b, m)'
      BY DEF Streams
    <3>1. Stream(b, m) /\ m \notin excused[b]
      BY <1>1, <1>8 DEF Streams
    <3>2. Missing(b, m)' = Missing(b, m)
      <4>1. taken'[b] = IF b = a /\ taken[a] = "sampled" THEN "taken" ELSE taken[b]
        BY <1>10, <2>3 DEF Advanced, MonTypes
      <4>2. CASE b = a /\ taken[a] = "sampled"
        <5>1. c.state = "mrx"
          BY <1>10, <2>4, <4>2
        <5> QED BY <1>6, <4>1, <4>2, <5>1 DEF Missing, Byte
      <4>3. CASE ~(b = a /\ taken[a] = "sampled")
        BY <1>1, <4>1, <4>3 DEF Missing
      <4> QED BY <4>2, <4>3
    <3> QED BY <1>1, <2>1, <2>7, <3>1, <3>2, StreamKept
  <2> QED BY <2>1, <2>6, <2>7, <2>8, <2>9 DEF DecInv
<1>18. ASSUME NEW y \in Changes, change' = [change EXCEPT ![n] = y], monPc \in {"txd", "pool", "dram"},
              Advanced(a), \A b \in Mon!Mons : BusRight(b)', y.bus = x.bus, y.msg = x.msg,
              y.msg \notin excused[a] => Shown(y) = Byte(c, store[a], a, y.msg) /\ ~Mon!Refused(y)
       PROVE  DecInv'
  <2>1. PICK t \in Seq(Changes) : t = change' /\ Edited(t, change, n, y)
    BY <1>14, <1>18
  <2>2. y.bus = a /\ y.msg = Mon!Latest.msg
    BY <1>5, <1>10, <1>18
  <2>3. y.msg \notin excused[a] => Shown(y) = Byte(ctl[a], store[a], a, y.msg) /\ ~Mon!Refused(y)
    BY <1>6, <1>18
  <2> QED BY <1>3, <1>4, <1>18, <2>1, <2>2, <2>3, ReadTakes
<1>19. CASE Mon!ReadTxd
  <2>1. /\ Mon!Advance /\ ctx' = ctx /\ change' = [change EXCEPT ![n].word[0] = c.txd] /\ monPc = "txd"
        /\ monPc' = "sample"
    BY <1>3, <1>4, <1>6, <1>19 DEF Mon!ReadTxd, Mon!Advance
  <2> DEFINE y == [x EXCEPT !.word[0] = c.txd]
  <2>2. change' = [change EXCEPT ![n] = y]
    BY <1>5, <2>1
  <2>3. y \in Changes /\ y.bus = x.bus /\ y.msg = x.msg /\ y.state = x.state /\ y.cmd = x.cmd /\ y.word[0] = c.txd
    <3>1. [x.word EXCEPT ![0] = c.txd] \in [0..3 -> Mon!Bytes]
      BY DEF Changes, Ctls
    <3>2. x.word \in [0..3 -> Mon!Bytes]
      BY DEF Changes
    <3> QED BY <3>1, <3>2 DEF Changes
  <2> HIDE DEF y
  <2>4. Advanced(a)
    BY <1>15, <2>1
  <2>5. x.state = "mtxd"
    BY <1>5, <1>8, <2>1 DEF LatestRight
  <2>6. \A b \in Mon!Mons : BusRight(b)'
    <3>1. taken[a] = "sampled" => c.state = "mtxd"
      BY <1>10, <2>5
    <3> QED BY <1>2, <1>4, <1>6, <1>7, <1>10, <1>11, <2>1, <2>4, <2>5, <3>1, TurnRight
  <2>7. y.msg \notin excused[a] => Shown(y) = Byte(c, store[a], a, y.msg) /\ ~Mon!Refused(y)
    <3> SUFFICES ASSUME y.msg \notin excused[a] PROVE Shown(y) = Byte(c, store[a], a, y.msg) /\ ~Mon!Refused(y)
      OBVIOUS
    <3>1. x.msg = c.msg /\ c.state = "mtxd" /\ x.cmd = c.cmd /\ c.cmd = "tx"
      BY <1>10, <1>12, <2>3, <2>5 DEF Understood
    <3> QED BY <1>10, <2>3, <2>5, <3>1 DEF Shown, Byte, Mon!Refused
  <2> QED BY <1>18, <2>1, <2>2, <2>3, <2>4, <2>6, <2>7
<1>20. CASE Mon!ReadPtr
  <2>1. /\ monPc = "ptr" /\ UNCHANGED <<at, ctx, taken>> /\ change' = [change EXCEPT ![n].ptr = c.ptr]
        /\ \/ c.ptr # 0 /\ monPc' = "pool"
           \/ c.ptr = 0 /\ monPc' = "dead" /\ victim' = <<a, x.msg>>
    BY <1>3, <1>4, <1>5, <1>6, <1>20 DEF Mon!ReadPtr, Mon!Die
  <2>2. x.state = "mtxack"
    BY <1>5, <1>8, <2>1 DEF LatestRight
  <2>3. CASE monPc' = "dead"
    <3>1. victim'[1] = a /\ victim'[2] = x.msg /\ c.ptr = 0
      BY <2>1, <2>3
    <3>2. x.msg \in excused[a]
      BY <1>9, <1>10, <2>2, <3>1
    <3> QED BY <1>1, <2>3, <3>1, <3>2 DEF DecInv, Fatal
  <2>4. CASE monPc' = "pool"
    <3> DEFINE y == [x EXCEPT !.ptr = c.ptr]
    <3>1. change' = [change EXCEPT ![n] = y]
      BY <1>5, <2>1
    <3>2. y \in Changes /\ y.ptr = c.ptr /\ y.bus = x.bus /\ y.msg = x.msg /\ y.state = x.state /\ y.cmd = x.cmd
      BY DEF Changes, Ctls
    <3> HIDE DEF y
    <3>3. PICK t \in Seq(Changes) : t = change' /\ Edited(t, change, n, y)
      BY <1>14, <3>1, <3>2
    <3>4. Len(t) = n /\ t[n] = y /\ \A j \in 1..n - 1 : t[j] = change[j]
      BY <3>3 DEF Edited
    <3>5. Complete = n - 1 /\ Complete' = n - 1 /\ Mon!Latest' = y /\ Reading' /\ n - 1 \in Nat
      BY <1>3, <2>1, <2>4, <3>3, <3>4 DEF Complete, Mon!Latest, Reading
    <3>6. ASSUME NEW b \in Mon!Mons PROVE BusRight(b)'
      <4>1. BusRight(b) /\ Reading /\ UNCHANGED <<ctl, old, excused, ctx, taken, at>>
        BY <1>1, <1>2, <1>8, <2>1
      <4> QED BY <3>5, <4>1 DEF BusRight, Understood, After, Follows
    <3>7. LatestRight'
      <4>1. LatestRight /\ UNCHANGED <<ctl, old, excused, ctx, taken, at>> /\ monPc' = "pool" /\ monPc = "ptr"
        BY <1>1, <1>8, <2>1, <2>4
      <4>2. Mon!Latest = x /\ Mon!Latest' = y /\ at = a /\ ctl[a] = c
        BY <1>4, <1>5, <1>6, <3>5
      <4> QED BY <3>2, <4>1, <4>2 DEF LatestRight
    <3>8. RefusedRight'
      <4>1. \A j \in 1..n - 1 : change'[j] = change[j]
        BY <3>3, <3>4
      <4> QED BY <1>1, <1>8, <3>5, <4>1 DEF RefusedRight, Mon!Refused
    <3>9. Streams'
      <4> SUFFICES ASSUME NEW b \in Mon!Mons, NEW m \in (0..MaxMsgs) \ excused'[b] PROVE Stream(b, m)'
        BY DEF Streams
      <4>1. Stream(b, m)
        BY <1>1, <1>8 DEF Streams
      <4>2. Missing(b, m)' = Missing(b, m)
        BY <1>1, <2>1 DEF Missing
      <4>3. Batched(t, b, m, n - 1) = Batched(change, b, m, n - 1)
        BY <3>4, <3>5, BatchedSame
      <4>4. Batched(change', b, m, Complete') = Batched(change, b, m, Complete)
        BY <3>3, <3>5, <4>3
      <4> QED BY <1>1, <4>1, <4>2, <4>4, StreamKept
    <3> QED BY <2>4, <3>6, <3>7, <3>8, <3>9 DEF DecInv
  <2> QED BY <2>1, <2>3, <2>4
<1>21. ASSUME x.msg \notin excused[a], x.state = "mtxack"
       PROVE  /\ x.msg = c.msg /\ c.state = "mtxack" /\ x.cmd = c.cmd /\ c.cmd \in Mon!RxCmds
              /\ 0 < c.ptr /\ c.ptr < Wrap /\ c.ptr - 1 \in Nat /\ Follows(k, c, "sampled") /\ taken[a] = "sampled"
              /\ c.cmd \in Mon!DmaCmds => c.dma % 4 = 0
  <2>1. taken[a] = "sampled" /\ x.msg = c.msg /\ c.state = "mtxack" /\ x.cmd = c.cmd
    BY <1>10, <1>21
  <2>2. Understood(c) /\ Follows(k, c, "sampled")
    BY <1>12, <1>13, <1>21, <2>1
  <2>3. c.cmd \in Mon!RxCmds /\ c.len < Wrap /\ (c.cmd \in Mon!DmaCmds => c.dma % 4 = 0)
    BY <2>1, <2>2 DEF Understood
  <2>4. Wrap \in Nat
    BY MonConstants
  <2>5. 0 < c.ptr /\ c.ptr < Wrap /\ c.ptr - 1 \in Nat
    BY <1>9, <2>1, <2>3, <2>4
  <2> QED BY <2>1, <2>2, <2>3, <2>5
<1>22. CASE Mon!ReadPool
  <2>1. /\ Mon!Advance /\ ctx' = ctx /\ change' = [change EXCEPT ![n].word = Mon!Word(a, x.ptr - 1)]
        /\ monPc = "pool" /\ monPc' = "sample"
    BY <1>3, <1>4, <1>5, <1>22 DEF Mon!ReadPool, Mon!Advance
  <2>2. x.ptr \in Nat /\ x.ptr # 0 /\ x.ptr <= Len(wire) /\ Len(wire) \in Nat /\ Len(wire) <= MaxBytes /\ MaxBytes \in Nat
    BY <1>5, <2>1, LenProperties, MonConstants DEF MonTypes, Changes
  <2>3. x.ptr - 1 \in Nat /\ (x.ptr - 1) + 3 < Mon!Size
    BY <2>2, SizeIs
  <2> DEFINE y == [x EXCEPT !.word = Mon!Word(a, x.ptr - 1)]
  <2>4. change' = [change EXCEPT ![n] = y]
    BY <1>5, <2>1
  <2>5. y \in Changes /\ y.bus = x.bus /\ y.msg = x.msg /\ y.state = x.state /\ y.cmd = x.cmd /\ y.ptr = x.ptr
        /\ y.word = Mon!Word(a, x.ptr - 1)
    <3>1. Mon!Word(a, x.ptr - 1) \in [0..3 -> Mon!Bytes]
      BY <2>3, WordType
    <3> QED BY <3>1 DEF Changes
  <2> HIDE DEF y
  <2>6. Advanced(a)
    BY <1>15, <2>1
  <2>7. x.state = "mtxack"
    BY <1>5, <1>8, <2>1 DEF LatestRight
  <2>8. \A b \in Mon!Mons : BusRight(b)'
    <3>1. taken[a] = "sampled" /\ c.msg \notin excused[a] => Follows(k, c, "taken")
      <4> SUFFICES ASSUME taken[a] = "sampled", c.msg \notin excused[a] PROVE Follows(k, c, "taken")
        OBVIOUS
      <4>1. x.msg = c.msg /\ x.msg \notin excused[a]
        BY <1>10
      <4>2. Follows(k, c, "sampled") /\ x.cmd = c.cmd
        BY <1>21, <2>7, <4>1
      <4>3. c.cmd = "pool"
        BY <1>4, <1>5, <1>6, <1>8, <2>1, <4>1 DEF LatestRight
      <4> QED BY <4>2, <4>3 DEF Follows
    <3>2. ctx'[a] = k /\ ctl[a] = c
      BY <1>6, <1>7, <2>1
    <3> QED BY <1>2, <1>4, <1>11, <2>6, <3>1, <3>2, TurnRight
  <2>9. y.msg \notin excused[a] => Shown(y) = Byte(c, store[a], a, y.msg) /\ ~Mon!Refused(y)
    <3> SUFFICES ASSUME y.msg \notin excused[a] PROVE Shown(y) = Byte(c, store[a], a, y.msg) /\ ~Mon!Refused(y)
      OBVIOUS
    <3>1. /\ c.state = "mtxack" /\ x.cmd = c.cmd /\ c.cmd \in Mon!RxCmds
          /\ 0 < c.ptr /\ c.ptr < Wrap /\ c.ptr - 1 \in Nat
      BY <1>21, <2>5, <2>7
    <3>2. c.cmd = "pool" /\ x.ptr = c.ptr
      BY <1>4, <1>5, <1>6, <1>8, <2>1, <2>5 DEF LatestRight
    <3>3. y.word[(y.ptr - 1) % 4] = store[a][c.ptr - 1]
      BY <2>5, <3>1, <3>2, ByteOfWord
    <3>4. Place(c) = c.ptr - 1
      <4>1. c.cmd \notin Mon!DmaCmds
        BY <3>2 DEF Mon!DmaCmds
      <4> QED BY <1>9, <4>1 DEF Place
    <3>5. y.ptr % Wrap # 0
      BY <1>9, <2>5, <3>1, <3>2, NotRefused
    <3>6. Shown(y) = <<[bus |-> a, msg |-> y.msg, kind |-> "R", byte |-> store[a][c.ptr - 1]]>>
      BY <1>10, <2>5, <2>7, <3>1, <3>3 DEF Shown
    <3> QED BY <3>1, <3>4, <3>5, <3>6 DEF Byte, Mon!Refused
  <2> QED BY <1>18, <2>1, <2>4, <2>5, <2>6, <2>8, <2>9
<1>23. CASE Mon!ReadDram
  <2>1. /\ Mon!Advance /\ monPc = "dram" /\ monPc' = "sample"
        /\ change' = [change EXCEPT ![n].word = Mon!Word(a, k.dmaAddr + k.rbytes),
                                    ![n].ptr = (k.rbytes + 1) % 256]
        /\ ctx' = [ctx EXCEPT ![a].rbytes = k.rbytes + 1]
    BY <1>3, <1>4, <1>7, <1>23 DEF Mon!ReadDram, Mon!Advance
  <2>2. k.rbytes \in Nat /\ k.rbytes < Len(wire) /\ Len(wire) \in Nat /\ Len(wire) <= MaxBytes /\ MaxBytes \in Nat
    BY <1>4, <1>7, <2>1, LenProperties, MonConstants DEF MonTypes, Ctxs
  <2>3. PICK z \in Nat : z = k.dmaAddr + k.rbytes /\ z + 3 < Mon!Size
    <3>1. PICK top \in Nat : (\A d \in DmaAddrs : d <= top) /\ Mon!Size = 4 * (MaxBytes + 1) + top
      BY SizeIs
    <3>2. k.dmaAddr \in {0} \cup DmaAddrs
      BY DEF Ctxs
    <3>3. k.dmaAddr \in Nat /\ k.dmaAddr <= top
      <4>1. \A d \in {0} \cup DmaAddrs : d \in Nat /\ d <= top
        BY <3>1, MonConstants
      <4> QED BY ONLY <3>2, <4>1
    <3>4. k.dmaAddr + k.rbytes \in Nat /\ k.dmaAddr + k.rbytes + 3 < 4 * (MaxBytes + 1) + top
      BY <2>2, <3>1, <3>3
    <3> QED BY <3>1, <3>4
  <2>4. PICK p \in Nat : p = (k.rbytes + 1) % 256
    <3>1. (k.rbytes + 1) % 256 \in Nat
      BY <2>2
    <3> QED BY <3>1
  <2> DEFINE y == [x EXCEPT !.word = Mon!Word(a, z), !.ptr = p]
  <2>5. change' = [change EXCEPT ![n] = y]
    BY ZenonT(40), <1>3, <1>5, <2>1, <2>3, <2>4
  <2>6. y \in Changes /\ y.bus = x.bus /\ y.msg = x.msg /\ y.state = x.state /\ y.cmd = x.cmd /\ y.ptr = p
        /\ y.word = Mon!Word(a, z)
    <3>1. Mon!Word(a, z) \in [0..3 -> Mon!Bytes]
      BY <2>3, WordType
    <3> QED BY ZenonT(40), <2>4, <3>1 DEF Changes
  <2> HIDE DEF y
  <2>7. /\ ctx'[a].dmaAddr = k.dmaAddr /\ ctx'[a].dmaLen = k.dmaLen /\ ctx'[a].cmd = k.cmd
        /\ ctx'[a].rx = k.rx /\ ctx'[a].rbytes = k.rbytes + 1
        /\ \A b \in Mon!Mons \ {a} : ctx'[b] = ctx[b]
    BY <1>7, <2>1 DEF MonTypes, Ctxs
  <2>8. Advanced(a)
    BY <1>15, <2>1, <2>7
  <2>9. x.state = "mtxack"
    BY <1>5, <1>8, <2>1 DEF LatestRight
  <2>10. x.msg \notin excused[a] =>
           c.cmd \in Mon!DmaCmds /\ k.cmd # "pool" /\ k.rbytes = c.ptr - 1 /\ k.dmaAddr = c.dma
    <3> SUFFICES ASSUME x.msg \notin excused[a]
                 PROVE  c.cmd \in Mon!DmaCmds /\ k.cmd # "pool" /\ k.rbytes = c.ptr - 1 /\ k.dmaAddr = c.dma
      OBVIOUS
    <3>1. Follows(k, c, "sampled") /\ c.state = "mtxack"
      BY <1>21, <2>9
    <3>2. c.cmd \in Mon!DmaCmds
      BY <1>4, <1>5, <1>6, <1>8, <2>1 DEF LatestRight
    <3>3. c.cmd # "pool"
      BY <3>2 DEF Mon!DmaCmds
    <3> QED BY <3>1, <3>2, <3>3 DEF Follows
  <2>11. \A b \in Mon!Mons : BusRight(b)'
    <3>1. taken[a] = "sampled" /\ c.msg \notin excused[a] => Follows(ctx'[a], c, "taken")
      <4> SUFFICES ASSUME taken[a] = "sampled", c.msg \notin excused[a] PROVE Follows(ctx'[a], c, "taken")
        OBVIOUS
      <4>1. x.msg = c.msg /\ x.msg \notin excused[a]
        BY <1>10
      <4>2. Follows(k, c, "sampled") /\ k.cmd # "pool" /\ k.rbytes = c.ptr - 1
        BY <1>21, <2>9, <2>10, <4>1
      <4>3. k.rbytes + 1 = c.ptr
        BY <1>9, <4>2
      <4> QED BY <2>7, <4>2, <4>3 DEF Follows
    <3>2. ctl[a] = c /\ (ctx'[a].rx => old[a] \in {"mrx", "mtxd", "mtxack"})
      BY <1>6, <1>11, <2>7
    <3> QED BY <1>2, <1>4, <2>8, <3>1, <3>2, TurnRight
  <2>12. y.msg \notin excused[a] => Shown(y) = Byte(c, store[a], a, y.msg) /\ ~Mon!Refused(y)
    <3> SUFFICES ASSUME y.msg \notin excused[a] PROVE Shown(y) = Byte(c, store[a], a, y.msg) /\ ~Mon!Refused(y)
      OBVIOUS
    <3>1. /\ c.state = "mtxack" /\ x.cmd = c.cmd /\ c.cmd \in Mon!RxCmds
          /\ 0 < c.ptr /\ c.ptr < Wrap /\ c.ptr - 1 \in Nat /\ c.cmd \in Mon!DmaCmds /\ c.dma % 4 = 0
          /\ k.rbytes = c.ptr - 1 /\ k.dmaAddr = c.dma
      BY <1>21, <2>6, <2>9, <2>10
    <3>2. p = c.ptr /\ p % Wrap # 0
      <4>1. c.ptr % 256 = c.ptr /\ c.ptr % Wrap # 0
        BY <1>9, <3>1, NotRefused
      <4>2. k.rbytes + 1 = c.ptr
        BY <1>9, <3>1
      <4> QED BY <2>4, <4>1, <4>2
    <3>3. z % 4 = (p - 1) % 4
      <4>1. z = c.dma + (p - 1) /\ p - 1 \in Nat
        BY <1>9, <2>3, <3>1, <3>2
      <4> QED BY ONLY <1>9, <3>1, <4>1
    <3>4. y.word[(y.ptr - 1) % 4] = store[a][z]
      BY <2>6, <3>3, ByteOfWord
    <3>5. Place(c) = z
      <4>1. Place(c) = c.dma + c.ptr - 1
        BY <3>1 DEF Place
      <4> QED BY <1>9, <2>3, <3>1, <4>1
    <3>6. Shown(y) = <<[bus |-> a, msg |-> y.msg, kind |-> "R", byte |-> store[a][z]]>>
      BY <1>10, <2>6, <2>9, <3>1, <3>4 DEF Shown
    <3> QED BY <2>6, <3>1, <3>2, <3>5, <3>6 DEF Byte, Mon!Refused
  <2> QED BY <1>18, <2>1, <2>5, <2>6, <2>8, <2>11, <2>12
<1> QED
  <2>1. CASE monPc' # "dead"
    BY <1>1, <1>16, <1>17, <1>19, <1>20, <1>22, <1>23, <2>1
  <2>2. CASE monPc' = "dead"
    <3>1. monPc' = "dead" => Mon!ReadPtr
      BY <1>1 DEF Mon!ReadDma, Mon!ReadLen, Mon!ReadTxd, Mon!ReadPool, Mon!ReadDram, Mon!Advance
    <3> QED BY <1>20, <2>2, <3>1
  <2> QED BY <2>1, <2>2

\* What has been printed, while the monitor runs.
LEMMA PrintedRight ==
  ASSUME MonTypes, DecInv, monPc # "dead", NEW b \in Mon!Mons, NEW m \in 0..MaxMsgs, m \notin excused[b]
  PROVE  Mon!IsPrefix(Mon!Of(out, b, m), Mon!Of(wire, b, m))
<1>1. Stream(b, m)
  BY DEF DecInv, Streams
<1> QED BY <1>1, StreamPrefix

LEMMA EndPassDec ==
  ASSUME MonTypes, MonTypes', DecInv, Mon!EndPass
  PROVE  DecInv' /\ (monPc' = "dead" => Mon!Decoded')
<1>1. /\ monPc = "sample" /\ UNCHANGED <<ctl, store, wire, old, ctx, taken, misses, excused>>
      /\ Mon!Flush \/ UNCHANGED <<out, change, monPc, victim>>
  BY DEF Mon!EndPass, Mon!hardware
<1>2. (\A b \in Mon!Mons : BusRight(b)) /\ RefusedRight /\ Streams /\ ~Reading
  BY <1>1 DEF DecInv, Reading
<1>3. PICK n \in Nat : n = Len(change) /\ n = Complete /\ change \in Seq(Changes)
  BY <1>1, CompleteIs DEF Complete
<1>4. \A b \in Mon!Mons : BusRight(b)'
  <2> SUFFICES ASSUME NEW b \in Mon!Mons PROVE BusRight(b)'
    OBVIOUS
  <2>1. BusRight(b) /\ taken[b] # "sampled"
    BY <1>2 DEF BusRight
  <2> QED BY <1>1, <2>1 DEF BusRight, Understood, After, Follows
<1>5. \A b, m : Missing(b, m)' = Missing(b, m)
  BY <1>1 DEF Missing
<1>6. CASE UNCHANGED <<out, change, monPc, victim>>
  <2>1. Complete' = Complete /\ ~Reading' /\ monPc' = "sample"
    BY <1>1, <1>6 DEF Complete, Reading
  <2>2. RefusedRight'
    BY <1>1, <1>2, <1>6, <2>1 DEF RefusedRight, Mon!Refused
  <2>3. Streams'
    <3> SUFFICES ASSUME NEW b \in Mon!Mons, NEW m \in (0..MaxMsgs) \ excused'[b] PROVE Stream(b, m)'
      BY DEF Streams
    <3>1. Stream(b, m)
      BY <1>1, <1>2 DEF Streams
    <3> QED BY <1>1, <1>5, <1>6, <2>1, <3>1, StreamKept
  <2> QED BY <1>4, <2>1, <2>2, <2>3 DEF DecInv
<1>7. ASSUME NEW b \in Mon!Mons, NEW m \in (0..MaxMsgs) \ excused[b], NEW j \in 0..n, out' = out \o Upto(j)
      PROVE  Mon!Of(out', b, m) = Mon!Of(out, b, m) \o Batched(change, b, m, j)
  <2>1. PICK u \in Seq(Mon!Entries) : u = Upto(j)
    BY <1>3, UptoType
  <2>2. PICK o \in Seq(Mon!Entries) : o = out
    BY DEF MonTypes
  <2>3. BothOf(o, u, b, m)
    BY OfEntries
  <2>4. Mon!Of(u, b, m) = Batched(change, b, m, j)
    BY <1>3, <2>1, OfUpto
  <2> QED BY <1>7, <2>1, <2>2, <2>3, <2>4 DEF BothOf
<1>8. CASE out' = out \o Upto(n) /\ change' = <<>> /\ monPc' = monPc
  <2>1. Complete' = 0 /\ ~Reading' /\ monPc' = "sample"
    BY <1>1, <1>8 DEF Complete, Reading
  <2>2. RefusedRight'
    BY <2>1 DEF RefusedRight
  <2>3. Streams'
    <3> SUFFICES ASSUME NEW b \in Mon!Mons, NEW m \in (0..MaxMsgs) \ excused'[b] PROVE Stream(b, m)'
      BY DEF Streams
    <3>1. Stream(b, m) /\ m \notin excused[b]
      BY <1>1, <1>2 DEF Streams
    <3>2. PICK p \in Seq(Mon!Entries) : p = Mon!Of(out, b, m)
      BY Pieces
    <3>3. PICK q \in Seq(Mon!Entries) : q = Batched(change, b, m, n)
      BY <1>3, Pieces
    <3>4. PICK r \in Seq(Mon!Entries) : r = Missing(b, m)
      BY Pieces
    <3>5. PICK w : w = Mon!Of(wire, b, m)
      OBVIOUS
    <3>6. Three(p, q, r, w)
      BY <1>3, <3>1, <3>2, <3>3, <3>4, <3>5 DEF Stream
    <3>7. Three(p \o q, <<>>, r, w)
      BY <3>6, ThreePrint
    <3>8. Mon!Of(out', b, m) = p \o q
      <4>1. n \in 0..n
        OBVIOUS
      <4>2. Mon!Of(out', b, m) = Mon!Of(out, b, m) \o Batched(change, b, m, n)
        BY <1>7, <1>8, <3>1, <4>1
      <4> QED BY <3>2, <3>3, <4>2
    <3>9. Batched(change', b, m, Complete') = <<>>
      BY <2>1, BatchedNone
    <3> QED BY <1>1, <1>5, <3>4, <3>5, <3>7, <3>8, <3>9 DEF Stream
  <2> QED BY <1>4, <2>1, <2>2, <2>3 DEF DecInv
<1>9. ASSUME NEW j \in 1..n, Mon!Refused(change[j]), out' = out \o Upto(j - 1), monPc' = "dead",
             victim' = <<change[j].bus, change[j].msg>>
      PROVE  Mon!Decoded'
  <2>1. Fatal'
    <3>1. change[j].msg \in excused[change[j].bus]
      BY <1>2, <1>3, <1>9 DEF RefusedRight
    <3>2. victim'[1] = change[j].bus /\ victim'[2] = change[j].msg
      BY <1>9
    <3> QED BY <1>1, <3>1, <3>2 DEF Fatal
  <2>2. ASSUME NEW b \in Mon!Mons, NEW m \in (0..MaxMsgs) \ excused[b]
        PROVE  Mon!IsPrefix(Mon!Of(out', b, m), Mon!Of(wire, b, m))
    <3>1. Stream(b, m)
      BY <1>2 DEF Streams
    <3>2. PICK l \in Nat : l = j - 1 /\ n \in l..Len(change) /\ l \in 0..n
      BY <1>3
    <3>3. PICK v \in Seq(Mon!Entries) : Batched(change, b, m, n) = Batched(change, b, m, l) \o v
      <4>1. change \in Seq(Changes)
        BY <1>3
      <4>2. n \in l..Len(change)
        BY <3>2
      <4>3. Splits(change, b, m, l, n)
        BY ONLY <4>1, <4>2, l \in Nat, BatchedSplit
      <4> QED BY <4>3 DEF Splits
    <3>4. PICK p \in Seq(Mon!Entries) : p = Mon!Of(out, b, m)
      BY Pieces
    <3>5. PICK u \in Seq(Mon!Entries) : u = Batched(change, b, m, l)
      BY <1>3, <3>2, BatchedType
    <3>6. PICK r \in Seq(Mon!Entries) : r = Missing(b, m)
      BY Pieces
    <3>7. PICK w : w = Mon!Of(wire, b, m)
      OBVIOUS
    <3>8. Three(p, u \o v, r, w)
      BY <1>3, <3>1, <3>3, <3>4, <3>5, <3>6, <3>7 DEF Stream
    <3>9. Mon!IsPrefix(p \o u, w)
      BY <3>8, ThreePrefix
    <3>10. Mon!Of(out', b, m) = p \o u
      <4>1. out' = out \o Upto(l)
        BY <1>9, <3>2
      <4> QED BY <1>7, <3>2, <3>4, <3>5, <4>1
    <3> QED BY <3>7, <3>9, <3>10
  <2> QED BY <1>1, <2>1, <2>2 DEF Mon!Decoded, Fatal
<1>10. CASE Mon!Flush
  <2>1. \/ /\ out' = out \o Upto(n) /\ change' = <<>> /\ monPc' = monPc
        \/ \E j \in 1..n :
             /\ Mon!Refused(change[j]) /\ out' = out \o Upto(j - 1) /\ monPc' = "dead"
             /\ victim' = <<change[j].bus, change[j].msg>>
    BY <1>3, <1>10, FlushIs
  <2>2. CASE out' = out \o Upto(n) /\ change' = <<>> /\ monPc' = monPc
    BY <1>1, <1>8, <2>2
  <2>3. CASE \E j \in 1..n :
             /\ Mon!Refused(change[j]) /\ out' = out \o Upto(j - 1) /\ monPc' = "dead"
             /\ victim' = <<change[j].bus, change[j].msg>>
    <3>1. monPc' = "dead" /\ Mon!Decoded'
      BY <1>9, <2>3
    <3> QED BY <3>1 DEF DecInv
  <2> QED BY <2>1, <2>2, <2>3
<1> QED BY <1>1, <1>6, <1>10

LEMMA DecInit ==
  ASSUME Mon!Init
  PROVE  DecInv
<1>1. /\ monPc = "sample" /\ change = <<>> /\ out = <<>> /\ wire = <<>> /\ Len(change) = 0
      /\ \A b \in Mon!Mons : /\ ctl[b].state = "idle" /\ ctl[b].msg = 0 /\ ~ctx[b].rx
                             /\ taken[b] = "new" /\ excused[b] = {}
  BY DEF Mon!Init
<1>2. Complete = 0 /\ ~Reading
  BY <1>1 DEF Complete, Reading
<1>3. \A b \in Mon!Mons : BusRight(b)
  BY <1>1 DEF BusRight, Understood, After
<1>4. RefusedRight
  BY <1>2 DEF RefusedRight
<1>5. Streams
  <2> SUFFICES ASSUME NEW b \in Mon!Mons, NEW m PROVE Stream(b, m)
    BY DEF Streams
  <2>1. Mon!Of(out, b, m) = <<>> /\ Mon!Of(wire, b, m) = <<>>
    BY <1>1, OfNone
  <2>2. Batched(change, b, m, Complete) = <<>>
    BY <1>2, BatchedNone
  <2>3. Missing(b, m) = <<>>
    BY <1>1 DEF Missing, Byte
  <2>4. Three(<<>>, <<>>, <<>>, <<>>)
    BY DEF Three
  <2> QED BY <2>1, <2>2, <2>3, <2>4 DEF Stream
<1> QED BY <1>2, <1>3, <1>4, <1>5 DEF DecInv

\* The monitor, and why it died.
MonInv == MonTypes /\ DecInv /\ (monPc = "dead" => Mon!Decoded)

LEMMA MonInvMeans ==
  ASSUME MonInv
  PROVE  Mon!Decoded
<1>1. CASE monPc # "dead"
  <2>1. \A b \in Mon!Mons : \A m \in (0..MaxMsgs) \ excused[b] :
          Mon!IsPrefix(Mon!Of(out, b, m), Mon!Of(wire, b, m))
    BY <1>1, PrintedRight DEF MonInv
  <2> QED BY <1>1, <2>1 DEF Mon!Decoded
<1> QED BY <1>1 DEF MonInv

\* A Fatal while the monitor reads: all that was printed before is right.
LEMMA DiesRight ==
  ASSUME MonInv, monPc # "dead", UNCHANGED <<out, wire, excused>>, Fatal'
  PROVE  Mon!Decoded'
<1>1. Mon!Decoded
  BY MonInvMeans
<1> QED BY <1>1 DEF Mon!Decoded, Fatal

LEMMA MonInvStep ==
  ASSUME MonInv, Mon!Next
  PROVE  MonInv'
<1>1. MonTypes /\ DecInv /\ monPc # "dead"
  BY DEF MonInv, Mon!Next
<1>2. MonTypes'
  BY <1>1, MonTypesStep
<1>3. CASE Mon!Sample
  <2>1. DecInv' /\ (monPc' = "dead" => Fatal')
    BY <1>1, <1>2, <1>3, SampleDec
  <2>2. UNCHANGED <<out, wire, excused>>
    BY <1>3 DEF Mon!Sample, Mon!hardware
  <2> QED BY <1>1, <1>2, <2>1, <2>2, DiesRight DEF MonInv
<1>4. CASE Mon!Reads
  <2>1. DecInv' /\ (monPc' = "dead" => Fatal')
    BY <1>1, <1>2, <1>4, ReadsDec
  <2>2. UNCHANGED <<out, wire, excused>>
    BY <1>4 DEF Mon!Reads, Mon!hardware
  <2> QED BY <1>1, <1>2, <2>1, <2>2, DiesRight DEF MonInv
<1>5. CASE Mon!EndPass
  BY <1>1, <1>2, <1>5, EndPassDec DEF MonInv
<1>6. CASE \E b \in Mon!Mons : Mon!Controller(b)
  <2>1. PICK b \in Mon!Mons : Mon!Controller(b)
    BY <1>6
  <2>2. DecInv'
    BY SMTT(30), <1>1, <1>2, <2>1, ControllerDec
  <2>3. monPc' = monPc
    BY <2>1 DEF Mon!Controller, Mon!Signal, Mon!Transmit, Mon!Receive, Mon!Received, Mon!ReceiveMore,
                Mon!Goes, Mon!monitor
  <2> QED BY <1>1, <1>2, <2>2, <2>3 DEF MonInv
<1> QED BY <1>3, <1>4, <1>5, <1>6 DEF Mon!Next, Mon!Monitor

LEMMA MonInvStutter ==
  ASSUME MonInv, UNCHANGED monVars
  PROVE  MonInv'
<1>1. MonTypes'
  BY DEF monVars, MonInv, MonTypes, Reading, Mon!Latest
<1>2. \A b, m : Missing(b, m)' = Missing(b, m)
  BY DEF monVars, Missing
<1>3. Complete' = Complete
  BY DEF monVars, Complete
<1>4. Streams => Streams'
  BY <1>2, <1>3 DEF monVars, Streams, Stream
<1>5. RefusedRight => RefusedRight'
  BY <1>3 DEF monVars, RefusedRight, Mon!Refused
<1>6. LatestRight => LatestRight'
  BY DEF monVars, LatestRight, Mon!Latest
<1>7. \A b \in Mon!Mons : BusRight(b) => BusRight(b)'
  BY DEF monVars, BusRight, Reading, Understood, After, Follows
<1>8. DecInv'
  BY <1>4, <1>5, <1>6, <1>7 DEF monVars, MonInv, DecInv, Reading
<1>9. Mon!Decoded => Mon!Decoded'
  BY DEF monVars, Mon!Decoded
<1> QED BY <1>1, <1>8, <1>9 DEF monVars, MonInv

\* What -i2cmon prints of every message that it has seen in full is what was on the
\* wire, byte for byte and whatever it missed before, and it dies of no other
\* (ast.go:130-210, monitor.go:40-75), for any number of busses, any traffic, and
\* whenever the controllers go on while it reads.
THEOREM DecodesRight == Spec => []Decoded
<1>1. Init => MonInv
  BY MonTypesInit, DecInit DEF Init, MonInv, Mon!Init
<1>2. MonInv /\ [Next]_vars => MonInv'
  <2> SUFFICES ASSUME MonInv, [Next]_vars PROVE MonInv'
    OBVIOUS
  <2>1. CASE Mon!Next
    BY <2>1, MonInvStep
  <2>2. CASE UNCHANGED monVars
    BY <2>2, MonInvStutter
  <2> QED BY <2>1, <2>2 DEF Next, Only, vars
<1>3. MonInv => Decoded
  BY MonInvMeans DEF Decoded
<1> QED
  BY <1>1, <1>2, <1>3, PTL DEF Spec


-----------------------------------------------------------------------------
(* All tools                                                               *)

\* The types of every component, with what keeps them.
ToolTypes ==
  /\ tool \in Tools
  /\ MonTypes /\ MiiTypes /\ Bus!TypeOK /\ FileInv /\ PokeInv

\* Types of the five tools: counts, positions and lengths stay in range (i2c decoder,
\* monitor, mii, i2c loops, files, kpoke), for any arguments and any traffic.
THEOREM TypeCorrect == Spec => []TypeOK
<1>1. Init => ToolTypes
  BY MonTypesInit, MiiTypesInit, BusTypesInit, FileInit, PokeInit DEF Init, ToolTypes
<1>2. ToolTypes /\ [Next]_vars => ToolTypes'
  <2> SUFFICES ASSUME ToolTypes, [Next]_vars PROVE ToolTypes'
    OBVIOUS
  <2>1. tool' = tool
    BY DEF Next, Only, vars
  <2>2. MonTypes'
    <3>1. CASE Mon!Next
      BY <3>1, MonTypesStep DEF ToolTypes
    <3>2. CASE UNCHANGED monVars
      BY <3>2 DEF monVars, ToolTypes, MonTypes, Reading, Mon!Latest
    <3> QED BY <3>1, <3>2 DEF Next, Only, vars
  <2>3. MiiTypes'
    <3>1. CASE Mii!Next
      BY <3>1, MiiTypesStep DEF ToolTypes
    <3>2. CASE UNCHANGED miiVars
      BY <3>2 DEF miiVars, ToolTypes, MiiTypes
    <3> QED BY <3>1, <3>2 DEF Next, Only, vars
  <2>4. Bus!TypeOK'
    <3>1. CASE Bus!Next
      BY <3>1, BusTypesStep DEF ToolTypes
    <3>2. CASE UNCHANGED busVars
      BY <3>2 DEF busVars, ToolTypes, Bus!TypeOK
    <3> QED BY <3>1, <3>2 DEF Next, Only, vars
  <2>5. FileInv'
    <3>1. CASE File!Next
      BY <3>1, FileStep DEF ToolTypes
    <3>2. CASE UNCHANGED fileVars
      BY <3>2 DEF fileVars, ToolTypes, FileInv, FruInv, File!FruTiled, File!AreaTiled, File!EnvReadsBack
    <3> QED BY <3>1, <3>2 DEF Next, Only, vars
  <2>6. PokeInv'
    <3>1. CASE Poke!Next
      BY <3>1, PokeStep DEF ToolTypes
    <3>2. CASE UNCHANGED pokeVars
      BY <3>2 DEF pokeVars, ToolTypes, PokeInv, PokeJob, Poke!InsideMap
    <3> QED BY <3>1, <3>2 DEF Next, Only, vars
  <2> QED BY <2>1, <2>2, <2>3, <2>4, <2>5, <2>6 DEF ToolTypes
<1>3. ToolTypes => TypeOK
  BY MonTypesMeans, MiiTypesMeans, FileTypes, PokeTypes DEF ToolTypes, TypeOK
<1> QED
  BY <1>1, <1>2, <1>3, PTL DEF Spec
=============================================================================
