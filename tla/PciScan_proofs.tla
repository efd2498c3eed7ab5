--------------------------- MODULE PciScan_proofs ---------------------------
(***************************************************************************)
(* What the users of package pci may rely on, for every host: the parent   *)
(* of a device is named before it in whatever order the system lists them, *)
(* so that a path continues the path of the parent, and no two devices are *)
(* reported under one path.                                                *)
(***************************************************************************)
EXTENDS PciScan, TLAPS, FiniteSetTheorems, SequenceTheorems

-----------------------------------------------------------------------------
(* Names order the devices                                                 *)

LEMMA BeforeIsStrict ==
  ASSUME conf \in Confs, NEW c \in Devices, NEW d \in Devices, NEW e \in Devices
  PROVE  /\ ~Before(d, d)
         /\ Before(c, d) /\ Before(d, e) => Before(c, e)
         /\ Before(c, d) => ~Before(d, c)
<1>1. conf[c].bus \in Nat /\ conf[c].devFn \in Nat /\ conf[d].bus \in Nat /\ conf[d].devFn \in Nat
      /\ conf[e].bus \in Nat /\ conf[e].devFn \in Nat
  BY ConfsAssumption DEF IsConf
<1> QED BY <1>1 DEF Before

LEMMA BeforeIsTotal ==
  ASSUME conf \in Confs, NEW c \in Devices, NEW d \in Devices, c # d
  PROVE  Before(c, d) \/ Before(d, c)
<1>1. conf[c].bus \in Nat /\ conf[c].devFn \in Nat /\ conf[d].bus \in Nat /\ conf[d].devFn \in Nat
  BY ConfsAssumption DEF IsConf
<1>2. conf[c].bus # conf[d].bus \/ conf[c].devFn # conf[d].devFn
  BY ConfsAssumption DEF IsConf
<1> QED BY SMTT(30), <1>1, <1>2 DEF Before

Below(S, d) == {c \in S : Before(c, d)}

\* The number of devices before a device is its place, counted from 0.
LEMMA RankFacts ==
  ASSUME conf \in Confs, NEW S \in SUBSET Devices, IsFiniteSet(S)
  PROVE  /\ \A d \in S : Cardinality(Below(S, d)) \in 0..Cardinality(S) - 1
         /\ \A d, e \in S : Before(d, e) => Cardinality(Below(S, d)) < Cardinality(Below(S, e))
<1>1. \A d \in S : /\ IsFiniteSet(Below(S, d)) /\ Cardinality(Below(S, d)) \in Nat
                   /\ Cardinality(Below(S, d)) <= Cardinality(S)
  BY FS_Subset, FS_CardinalityType DEF Below
<1>2. Cardinality(S) \in Nat
  BY FS_CardinalityType
<1>3. ASSUME NEW d \in S
      PROVE  Cardinality(Below(S, d)) \in 0..Cardinality(S) - 1
  <2>1. d \notin Below(S, d) /\ Below(S, d) \in SUBSET S
    BY BeforeIsStrict DEF Below
  <2>2. Cardinality(Below(S, d)) # Cardinality(S)
    BY <2>1, FS_Subset
  <2> QED BY <1>1, <1>2, <2>2
<1>4. ASSUME NEW d \in S, NEW e \in S, Before(d, e)
      PROVE  Cardinality(Below(S, d)) < Cardinality(Below(S, e))
  <2>1. Below(S, d) \in SUBSET Below(S, e)
    BY <1>4, BeforeIsStrict DEF Below
  <2>2. d \in Below(S, e) /\ d \notin Below(S, d)
    BY <1>4, BeforeIsStrict DEF Below
  <2>3. /\ Cardinality(Below(S, d)) <= Cardinality(Below(S, e))
        /\ Cardinality(Below(S, d)) # Cardinality(Below(S, e))
    BY <1>1, <2>1, <2>2, FS_Subset
  <2> QED BY <1>1, <2>3
<1> QED BY <1>3, <1>4

\* Sorting keeps the devices, each once, and puts a name before the later ones.
LEMMA SortedFacts ==
  ASSUME conf \in Confs, NEW s \in Seq(Devices), IsInjective(s)
  PROVE  /\ Sorted(s) \in Seq(Devices)
         /\ Range(Sorted(s)) = Range(s)
         /\ IsInjective(Sorted(s))
         /\ \A j, k \in DOMAIN Sorted(s) : j < k => Before(Sorted(s)[j], Sorted(s)[k])
<1> DEFINE S == Range(s)
           n == Len(s)
           R == [d \in S |-> Cardinality(Below(S, d))]
           t == Sorted(s)
<1>1. n \in Nat /\ DOMAIN s = 1..n /\ s \in [1..n -> S] /\ S \in SUBSET Devices
  BY LenProperties, ElementOfSeq DEF Range
<1>2. s \in Bijection(1..n, S)
  BY <1>1 DEF Bijection, Injection, Surjection, Range
<1>3. ExistsBijection(1..n, S)
  BY <1>2 DEF ExistsBijection
<1>4. Cardinality(S) = n /\ IsFiniteSet(S)
  BY <1>1, <1>3, FS_CountingElements, FS_NatBijection
<1>5. R \in [S -> 0..n - 1] /\ \A d, e \in S : Before(d, e) => R[d] < R[e]
  BY <1>1, <1>4, RankFacts
<1>6. \A d, e \in S : R[d] = R[e] => d = e
  <2> SUFFICES ASSUME NEW d \in S, NEW e \in S, R[d] = R[e], d # e PROVE FALSE
    OBVIOUS
  <2>1. Before(d, e) \/ Before(e, d)
    BY <1>1, BeforeIsTotal
  <2>2. R[d] \in Int /\ R[e] \in Int
    BY <1>1, <1>5
  <2> HIDE DEF R
  <2> QED BY <1>5, <2>1, <2>2
<1>7. R \in Injection(S, 0..n - 1)
  BY <1>5, <1>6 DEF Injection, IsInjective
<1>8. IsFiniteSet(0..n - 1) /\ Cardinality(0..n - 1) = n
  <2>1. 0 \in Int /\ n - 1 \in Int /\ (IF 0 <= n - 1 THEN n - 1 - 0 + 1 ELSE 0) = n
    BY <1>1
  <2> QED BY ONLY SMTT(30), <2>1, FS_Interval
<1>9. R \in Surjection(S, 0..n - 1)
  BY <1>4, <1>7, <1>8, FS_Injection
<1>10. \A k \in 1..n : \E d \in S : R[d] = k - 1
  <2>1. \A r \in 0..n - 1 : \E d \in S : R[d] = r
    BY <1>9 DEF Surjection
  <2>2. \A k \in 1..n : k - 1 \in 0..n - 1
    BY <1>1
  <2> HIDE DEF R
  <2> QED BY <2>1, <2>2
<1>11. t = [k \in 1..n |-> CHOOSE d \in S : Cardinality(Below(S, d)) = k - 1]
  BY <1>1 DEF Sorted, Below
<1>12. \A k \in 1..n : t[k] \in S /\ R[t[k]] = k - 1
  <2> SUFFICES ASSUME NEW k \in 1..n PROVE t[k] \in S /\ R[t[k]] = k - 1
    OBVIOUS
  <2>1. \E d \in S : Cardinality(Below(S, d)) = k - 1
    BY <1>10
  <2>2. t[k] = CHOOSE d \in S : Cardinality(Below(S, d)) = k - 1
    BY <1>11
  <2>3. t[k] \in S /\ Cardinality(Below(S, t[k])) = k - 1
    BY <2>1, <2>2
  <2> QED BY <2>3
<1>13. DOMAIN t = 1..n
  BY <1>11
<1> HIDE DEF R, t
<1>14. t \in [1..n -> S]
  BY <1>11, <1>12
<1>15. t \in Seq(Devices)
  BY <1>1, <1>14, SeqDef
<1>16. IsInjective(t)
  BY <1>1, <1>12, <1>13 DEF IsInjective
<1>17. \A d \in S : \E k \in 1..n : t[k] = d
  <2> SUFFICES ASSUME NEW d \in S PROVE \E k \in 1..n : t[k] = d
    OBVIOUS
  <2>1. R[d] + 1 \in 1..n /\ (R[d] + 1) - 1 = R[d]
    BY <1>1, <1>5
  <2>2. t[R[d] + 1] = d
    BY <1>6, <1>12, <2>1
  <2> QED BY <2>1, <2>2
<1>18. Range(t) = S
  BY <1>12, <1>13, <1>17 DEF Range
<1>19. ASSUME NEW j \in 1..n, NEW k \in 1..n, j < k
       PROVE  Before(t[j], t[k])
  <2>1. R[t[j]] < R[t[k]] /\ ~(R[t[k]] < R[t[j]])
    BY <1>1, <1>12, <1>19
  <2>2. t[j] # t[k]
    BY <1>1, <2>1, <1>12
  <2>3. ~Before(t[k], t[j])
    BY <1>5, <1>12, <2>1
  <2> QED BY <1>1, <1>12, <2>2, <2>3, BeforeIsTotal
<1> QED BY <1>13, <1>15, <1>16, <1>18, <1>19 DEF t

-----------------------------------------------------------------------------
(* Paths                                                                   *)

LEMMA FunctionIsSeq ==
  ASSUME NEW T, NEW n \in Nat, NEW f \in [1..n -> T]
  PROVE  f \in Seq(T)
BY SeqDef

\* A path and one more step.
LEMMA LongerPath ==
  ASSUME NEW T, NEW p \in Seq(T), NEW x, NEW q, q = Append(p, x)
  PROVE  /\ q \in Seq(Range(q)) /\ q # <<>> /\ Last(q) = x
         /\ q = Append(p, Last(q))
         /\ SubSeq(q, 1, Len(q) - 1) = p
<1> DEFINE U == T \cup {x}
           n == Len(p)
<1>1. p \in Seq(U) /\ x \in U
  BY SeqMonotonic
<1>2. /\ q \in Seq(U) /\ q # <<>> /\ Len(q) = n + 1 /\ n \in Nat
      /\ \A i \in 1..n : q[i] = p[i]
      /\ q[n + 1] = x
  BY <1>1, AppendProperties, LenProperties
<1>3. DOMAIN q = 1..n + 1 /\ q \in [1..n + 1 -> Range(q)]
  BY <1>2, LenProperties DEF Range
<1>4. q \in Seq(Range(q))
  <2>1. n + 1 \in Nat
    BY <1>2
  <2> QED BY ONLY <1>3, <2>1, FunctionIsSeq
<1>5. Last(q) = x
  BY <1>2 DEF Last
<1>6. SubSeq(q, 1, n) = p
  <2>1. \A i \in 1..n : q[i] \in U
    BY <1>2, ElementOfSeq
  <2>2. /\ SubSeq(q, 1, n) \in Seq(U) /\ Len(SubSeq(q, 1, n)) = n
        /\ \A i \in 1..n : SubSeq(q, 1, n)[i] = q[i]
    <3>1. /\ SubSeq(q, 1, n) \in Seq(U)
          /\ Len(SubSeq(q, 1, n)) = IF 1 <= n THEN n - 1 + 1 ELSE 0
          /\ \A i \in 1..n - 1 + 1 : SubSeq(q, 1, n)[i] = q[1 + i - 1]
      BY <1>2, <2>1, SubSeqProperties
    <3>2. n - 1 + 1 = n /\ (~(1 <= n) => n = 0) /\ \A i \in 1..n : 1 + i - 1 = i
      BY <1>2
    <3> QED BY <3>1, <3>2
  <2> QED BY <1>1, <1>2, <2>2, SeqEqual
<1> QED BY <1>2, <1>4, <1>5, <1>6

-----------------------------------------------------------------------------
(* AddDev                                                                  *)

\* A device that is not listed yet is listed last, once.
LEMMA ListedLast ==
  ASSUME NEW s \in Seq(Devices), IsInjective(s), NEW d \in Devices \ Range(s)
  PROVE  /\ Append(s, d) \in Seq(Devices) /\ IsInjective(Append(s, d))
         /\ Range(Append(s, d)) = Range(s) \cup {d}
<1> DEFINE t == Append(s, d)
           n == Len(s)
<1>1. /\ t \in Seq(Devices) /\ Len(t) = n + 1 /\ n \in Nat
      /\ \A i \in 1..n : t[i] = s[i]
      /\ t[n + 1] = d
  BY AppendProperties, LenProperties
<1>2. DOMAIN s = 1..n /\ DOMAIN t = 1..n + 1
  BY <1>1, LenProperties
<1>3. 1..n + 1 = (1..n) \cup {n + 1}
  BY <1>1
<1> HIDE DEF t
<1>4. \A i \in 1..n : s[i] \in Range(s)
  BY <1>2 DEF Range
<1>5. IsInjective(t)
  BY <1>1, <1>2, <1>3, <1>4 DEF IsInjective
<1>6. Range(t) = Range(s) \cup {d}
  BY <1>1, <1>2, <1>3 DEF Range
<1> QED BY <1>1, <1>5, <1>6 DEF t

LEMMA RangeOfDevs == TypeOK => Range(devs) \subseteq Devices /\ DOMAIN devs = 1..Len(devs) /\ Len(devs) \in Nat
BY ElementOfSeq, LenProperties DEF TypeOK, Range

\* Nothing is named before the devices are sorted and linked.
LEMMA NothingNamed ==
  ASSUME phase \notin {"name", "done"}, DOMAIN nickname = Devices, DOMAIN Path = Devices,
         phase # "panic" => \A d \in Devices : Path[d] = <<>>
  PROVE  NameInv
BY DEF NameInv, Named

\* A step that gives no names.
LEMMA NamesKept ==
  ASSUME IInv, UNCHANGED <<conf, devs, parent, downPorts, nameCount, nickname, Path>>,
         Named' = Named, phase = "panic" => phase' = "panic",
         phase' = "name" => idx' <= Len(devs') + 1,
         phase' = "done" => idx' = Len(devs') + 1
  PROVE  NameInv'
<1>1. DOMAIN nickname' = Devices /\ DOMAIN Path' = Devices
  BY DEF IInv, NameInv
<1>2. \A c : \A x : StepRight(c, x) => StepRight(c, x)'
  BY DEF StepRight
<1>3. ASSUME NEW c \in Named'
      PROVE  /\ Above(c)' # None => Above(c)' \in Named'
             /\ Path'[c] \in Seq(Range(Path'[c])) /\ Path'[c] # <<>>
             /\ Path'[c] = Append(PathOf(Above(c))', Last(Path'[c]))
             /\ StepRight(c, Last(Path[c]))'
  <2>1. /\ Above(c) # None => Above(c) \in Named
        /\ Path[c] \in Seq(Range(Path[c])) /\ Path[c] # <<>>
        /\ Path[c] = Append(PathOf(Above(c)), Last(Path[c]))
        /\ StepRight(c, Last(Path[c]))
    BY DEF IInv, NameInv
  <2>2. PathOf(Above(c))' = PathOf(Above(c)) /\ Above(c)' = Above(c)
    BY DEF PathOf, Above, Before
  <2>3. PICK x : x = Last(Path[c])
    OBVIOUS
  <2>4. StepRight(c, x)'
    BY <1>2, <2>1, <2>3
  <2>5. StepRight(c, Last(Path[c]))'
    BY <2>3, <2>4 DEF StepRight
  <2> QED BY <2>1, <2>2, <2>5
<1>4. \A c, e \in Named' : Path'[c] = Path'[e] => c = e
  BY DEF IInv, NameInv
<1>5. phase' # "panic" => \A c \in Devices \ Named' : Path'[c] = <<>>
  BY DEF IInv, NameInv
<1> QED BY <1>1, <1>3, <1>4, <1>5 DEF NameInv

LEMMA AddDevStep ==
  ASSUME IInv, NEW d \in Devices, AddDev(d)
  PROVE  IInv'
<1>1. d \notin Range(devs) /\ phase = "add"
  BY DEF IInv, ListInv, AddDev
<1>2. ASSUME conf[d].present
      PROVE  /\ devs' \in Seq(Devices) /\ IsInjective(devs')
             /\ Range(devs') = Range(devs) \cup {d}
  <2>1. devs' = Append(devs, d)
    BY <1>2 DEF AddDev
  <2>2. devs \in Seq(Devices) /\ IsInjective(devs) /\ d \in Devices \ Range(devs)
    BY <1>1 DEF IInv, TypeOK
  <2> QED BY <2>1, <2>2, ListedLast
<1>3. devs' \in Seq(Devices) /\ IsInjective(devs') /\ Range(devs') \subseteq Range(devs) \cup {d}
      /\ Range(devs) \subseteq Range(devs')
  BY <1>2 DEF IInv, TypeOK, AddDev
<1>4. TypeOK'
  BY <1>3, OffsetsAssumption DEF IInv, TypeOK, AddDev, caps, names
<1>5. ListInv'
  BY <1>1, <1>2, <1>3 DEF IInv, ListInv, AddDev, caps, names
<1>6. phase' \in {"add", "ocap"}
  BY <1>1 DEF AddDev
<1>7. LinkInv'
  BY <1>1, <1>3, <1>6 DEF IInv, LinkInv, AddDev, caps, names
<1>8. NameInv'
  BY <1>6, NothingNamed DEF IInv, NameInv, Named, AddDev, caps, names
<1> QED BY <1>4, <1>5, <1>7, <1>8 DEF IInv

\* What the loops keep of an id.
LEMMA KeyFacts ==
  \A i \in Nat : KeyOf(i) \in Nat
BY DEF KeyOf

\* The loops look at a capability of the device they are called for.
LEMMA ListFacts ==
  ASSUME IInv, phase \in {"ocap", "ecap"}, off \in Offsets
  PROVE  List[off].id \in Nat /\ List[off].next \in Offsets \cup {None}
<1>1. cur \in Devices
  <2>1. Range(devs) \subseteq Devices
    BY SMTT(30), RangeOfDevs DEF IInv
  <2> QED BY <2>1 DEF IInv, ListInv
<1>2. List \in Lists
  BY <1>1, ConfsAssumption DEF IInv, TypeOK, IsConf, List
<1> QED BY <1>2 DEF Lists

LEMMA WalkStep ==
  ASSUME IInv, Walk
  PROVE  IInv'
<1>1. phase \in {"ocap", "ecap"} /\ off \in Offsets
  BY DEF Walk, AtEnd, IInv, TypeOK
<1>2. KeyOf(List[off].id) \in Nat /\ off' \in Offsets \cup {None}
  BY <1>1, ListFacts, KeyFacts DEF Walk, NextOf
<1> DEFINE k == KeyOf(List[off].id)
<1>3. \A P \in SUBSET (Nat \X Offsets) : Overwrite(P, k, off) \in SUBSET (Nat \X Offsets)
  <2> HIDE DEF k
  <2> QED BY <1>1, <1>2 DEF Overwrite, k
<1>4. Ocap' \in [Devices -> SUBSET (Nat \X Offsets)]
  <2> DEFINE new == Overwrite(Ocap[cur], k, off)
  <2>1. cur \in Devices /\ Ocap \in [Devices -> SUBSET (Nat \X Offsets)]
    BY <1>1, RangeOfDevs DEF IInv, TypeOK, ListInv
  <2>2. new \in SUBSET (Nat \X Offsets)
    BY <1>3, <2>1
  <2>3. Ocap' = Ocap \/ Ocap' = [Ocap EXCEPT ![cur] = new]
    BY DEF Walk
  <2> HIDE DEF new
  <2> QED BY <2>1, <2>2, <2>3
<1>5. Ecap' \in [Devices -> SUBSET (Nat \X Offsets)]
  <2> DEFINE new == Overwrite(Ecap[cur], k, off)
  <2>1. cur \in Devices /\ Ecap \in [Devices -> SUBSET (Nat \X Offsets)]
    BY <1>1, RangeOfDevs DEF IInv, TypeOK, ListInv
  <2>2. new \in SUBSET (Nat \X Offsets)
    BY <1>3, <2>1
  <2>3. Ecap' = Ecap \/ Ecap' = [Ecap EXCEPT ![cur] = new]
    BY DEF Walk
  <2> HIDE DEF new
  <2> QED BY <2>1, <2>2, <2>3
<1>6. TypeOK'
  BY <1>2, <1>4, <1>5 DEF IInv, TypeOK, Walk, names
<1>7. ListInv' /\ LinkInv'
  BY <1>1 DEF IInv, ListInv, LinkInv, Before, Upstream, Walk, names
<1>8. NameInv'
  <2>1. Named' = {} /\ phase' \notin {"name", "done"}
    BY <1>1 DEF Named, Walk
  <2>2. DOMAIN nickname' = Devices /\ DOMAIN Path' = Devices
    BY SMTT(30) DEF IInv, NameInv, Walk, names
  <2>3. \A d \in Devices : Path'[d] = <<>>
    BY <1>1, SMTT(30) DEF IInv, NameInv, Named, Walk, names
  <2> QED BY <2>1, <2>2, <2>3 DEF NameInv
<1> QED BY <1>6, <1>7, <1>8 DEF IInv

LEMMA CapsDoneStep ==
  ASSUME IInv, CapsDone
  PROVE  IInv'
<1>1. cur \in Devices /\ conf[cur].type \in 0..15
  BY RangeOfDevs, ConfsAssumption DEF IInv, TypeOK, ListInv, CapsDone, IsConf
<1>2. devType' \in [Devices -> -1..15]
  BY <1>1 DEF IInv, TypeOK, CapsDone
<1>3. TypeOK'
  <2>1. off' \in Offsets \cup {None} /\ phase' = "ecap" /\ cur' \in Devices \cup {None}
    BY OffsetsAssumption DEF IInv, TypeOK, CapsDone, caps, names
  <2> QED BY <1>2, <2>1 DEF IInv, TypeOK, CapsDone, caps, names
<1>4. ListInv' /\ LinkInv'
  BY DEF IInv, ListInv, LinkInv, Before, Upstream, CapsDone, caps, names
<1>5. NameInv'
  BY NothingNamed DEF IInv, NameInv, Named, CapsDone, caps, names
<1> QED BY <1>3, <1>4, <1>5 DEF IInv

LEMMA EcapsDoneStep ==
  ASSUME IInv, EcapsDone
  PROVE  IInv'
<1>1. cur \in Range(devs) /\ cur \in Devices /\ conf[cur].sec \in Nat
  BY RangeOfDevs, ConfsAssumption DEF IInv, TypeOK, ListInv, EcapsDone, IsConf
<1>2. \A b \in Bus' : b \in Bus \/ (b = <<conf[cur].sec, cur>> /\ conf[cur].bridge)
  BY DEF EcapsDone, Overwrite
<1>3. TypeOK'
  BY <1>1, <1>2 DEF IInv, TypeOK, EcapsDone, caps, names
<1>4. ListInv'
  BY <1>1, <1>2 DEF IInv, ListInv, EcapsDone, caps, names
<1>5. LinkInv'
  BY DEF IInv, LinkInv, Before, EcapsDone, caps, names
<1>6. NameInv'
  BY NothingNamed DEF IInv, NameInv, Named, EcapsDone, caps, names
<1> QED BY SMTT(30), <1>3, <1>4, <1>5, <1>6 DEF IInv

-----------------------------------------------------------------------------
(* PciInit                                                                 *)

LEMMA SortStep ==
  ASSUME IInv, Sort
  PROVE  IInv'
<1>1. /\ devs' \in Seq(Devices) /\ IsInjective(devs') /\ Range(devs') = Range(devs)
      /\ \A j, k \in DOMAIN devs' : j < k => Before(devs'[j], devs'[k])
  BY SortedFacts DEF IInv, TypeOK, Sort
<1>2. TypeOK'
  BY <1>1 DEF IInv, TypeOK, Sort, caps, names
<1>3. ListInv'
  BY <1>1 DEF IInv, ListInv, Sort, caps, names
<1>4. LinkInv'
  <2>1. \A d \in Devices : parent'[d] = None
    BY DEF IInv, LinkInv, Sort
  <2>2. phase' = "link" /\ UNCHANGED conf
    BY DEF Sort
  <2> QED BY <1>1, <2>1, <2>2 DEF LinkInv, Before
<1>5. NameInv'
  <2>1. /\ DOMAIN nickname' = Devices /\ DOMAIN Path' = Devices
        /\ Named' = {} /\ phase' = "link"
    BY DEF IInv, NameInv, Named, Sort, names
  <2>2. \A d \in Devices : Path'[d] = <<>>
    BY DEF IInv, NameInv, Named, Sort, names
  <2> QED BY ONLY Zenon, <2>1, <2>2 DEF NameInv
<1> QED BY <1>2, <1>3, <1>4, <1>5 DEF IInv

\* The bridge to the bus of a device.
LEMMA UpstreamFacts ==
  ASSUME IInv, NEW d
  PROVE  /\ Upstream(d) \in Range(devs) \cup {None}
         /\ Upstream(d) # None => conf[Upstream(d)].bridge /\ conf[Upstream(d)].sec = conf[d].bus
BY DEF Upstream, IInv, ListInv

LEMMA LinkStep ==
  ASSUME IInv, Link
  PROVE  IInv'
<1>1. CASE idx > Len(devs)
  <2>1. TypeOK'
    BY <1>1 DEF IInv, TypeOK, Link, caps, names
  <2>2. ListInv' /\ LinkInv'
    BY <1>1 DEF IInv, ListInv, LinkInv, Before, Upstream, Link, caps, names
  <2>3. Named' = {}
    BY <1>1 DEF Named, Link
  <2>5. phase = "link" /\ phase' = "name" /\ idx' = 1 /\ UNCHANGED <<devs, nickname, Path>>
    BY <1>1 DEF Link, names
  <2>6. \A d \in Devices : Path'[d] = <<>>
    BY <2>5 DEF IInv, NameInv, Named
  <2>7. idx' <= Len(devs') + 1
    BY <2>5, RangeOfDevs DEF IInv
  <2>8. DOMAIN nickname' = Devices /\ DOMAIN Path' = Devices
    BY <2>5 DEF IInv, NameInv
  <2>4. NameInv'
    BY <2>3, <2>5, <2>6, <2>7, <2>8 DEF NameInv
  <2> QED BY <2>1, <2>2, <2>4 DEF IInv
<1>2. CASE ~(idx > Len(devs))
  <2> DEFINE d == devs[idx]
             up == Upstream(d)
  <2>1. d \in Devices /\ idx + 1 \in Nat \ {0}
    BY <1>2, RangeOfDevs, ElementOfSeq DEF IInv, TypeOK
  <2>2. up \in Range(devs) \cup {None} /\ up \in Devices \cup {None}
    BY UpstreamFacts, RangeOfDevs DEF IInv
  <2>3. \A e : Upstream(e)' = Upstream(e)
    BY DEF Upstream, Link
  <2>4. /\ parent' = [parent EXCEPT ![d] = up] /\ phase = "link" /\ phase' = phase /\ idx' = idx + 1
        /\ LnkChild' = LnkChild \/ (up # None /\ LnkChild' = [LnkChild EXCEPT ![up] = d])
    BY <1>2 DEF Link
  <2>10. up = Upstream(d)
    OBVIOUS
  <2> HIDE DEF d, up
  <2>5. /\ parent' \in [Devices -> Devices \cup {None}]
        /\ LnkChild' \in [Devices -> Devices \cup {None}]
    <3>1. /\ parent \in [Devices -> Devices \cup {None}]
          /\ LnkChild \in [Devices -> Devices \cup {None}]
      BY DEF IInv, TypeOK
    <3> QED BY ONLY <2>1, <2>2, <2>4, <3>1
  <2>6. TypeOK'
    BY <2>1, <2>4, <2>5 DEF IInv, TypeOK, Link, caps, names
  <2>7. ListInv'
    BY <2>4 DEF IInv, ListInv, Link, caps, names
  <2>8. LinkInv'
    BY <2>1, <2>3, <2>4, <2>10 DEF IInv, TypeOK, LinkInv, Before, Link, caps, names
  <2>9. NameInv'
    <3>1. Named' = {} /\ UNCHANGED <<nickname, Path>>
      BY <2>4 DEF Named, Link, names
    <3>2. \A e \in Devices : Path'[e] = <<>>
      BY <2>4, <3>1 DEF IInv, NameInv, Named
    <3>3. DOMAIN nickname' = Devices /\ DOMAIN Path' = Devices
      BY <3>1 DEF IInv, NameInv
    <3>4. phase' = "link"
      BY <2>4
    <3> QED BY ONLY Zenon, <3>1, <3>2, <3>3, <3>4 DEF NameInv
  <2> QED BY <2>6, <2>7, <2>8, <2>9 DEF IInv
<1> QED BY <1>1, <1>2

-----------------------------------------------------------------------------
(* InitNickName                                                            *)

\* A parent that does not come first is a bridge nobody has configured, the one to bus 0.
LEMMA LateParent ==
  ASSUME IInv, NEW d \in Devices, parent[d] # None, ~Before(parent[d], d)
  PROVE  conf[d].bus = 0 /\ conf[parent[d]].bridge /\ conf[parent[d]].sec = 0
<1>1. parent[d] = Upstream(d)
  BY DEF IInv, LinkInv
<1>2. PICK p : p = parent[d]
  OBVIOUS
<1>3. p \in Devices /\ conf[p].bridge /\ conf[p].sec = conf[d].bus
  BY <1>1, <1>2, UpstreamFacts DEF IInv, TypeOK
<1>4. /\ conf[p].bus \in Nat /\ conf[d].bus \in Nat /\ conf[p].sec \in Nat
      /\ conf[p].sec # 0 => conf[p].sec > conf[p].bus
  BY <1>3, ConfsAssumption DEF IInv, TypeOK, IsConf
<1>5. ~(conf[p].bus < conf[d].bus)
  BY <1>2 DEF Before
<1> QED BY <1>2, <1>3, <1>4, <1>5

\* Devices named below the same device, or below none, have one parent if any.
LEMMA SameParent ==
  ASSUME IInv, NEW c \in Devices, NEW d \in Devices, Above(c) = Above(d),
         parent[c] # None, parent[d] # None
  PROVE  parent[c] = parent[d]
<1>1. parent[c] = Upstream(c) /\ parent[d] = Upstream(d)
  BY DEF IInv, LinkInv
<1>2. CASE ~Before(parent[c], c) /\ ~Before(parent[d], d)
  <2>1. conf[c].bus = conf[d].bus
    BY <1>2, LateParent
  <2> QED BY <1>1, <2>1 DEF Upstream
<1> QED BY <1>2 DEF Above

\* A parent that comes first is named already, one that does not has no path yet.
LEMMA NextDevice ==
  ASSUME IInv, phase = "name", ~(idx > Len(devs))
  PROVE  /\ devs[idx] \in Devices /\ devs[idx] \notin Named
         /\ Named \subseteq Devices
         /\ Above(devs[idx]) # None => Above(devs[idx]) \in Named
         /\ PathOf(parent[devs[idx]]) = PathOf(Above(devs[idx]))
<1> DEFINE d == devs[idx]
           p == parent[d]
<1>1. /\ DOMAIN devs = 1..Len(devs) /\ Len(devs) \in Nat /\ Range(devs) \subseteq Devices
      /\ idx \in 1..Len(devs) /\ idx - 1 < Len(devs)
  BY RangeOfDevs DEF IInv, TypeOK
<1>2. \A j \in 1..Len(devs) : devs[j] \in Range(devs)
  BY <1>1 DEF Range
<1>3. Named = {devs[j] : j \in 1..idx - 1}
  BY DEF Named
<1>4. 1..idx - 1 \subseteq 1..Len(devs) /\ idx \notin 1..idx - 1
  BY <1>1
<1>5. d \in Devices /\ Named \subseteq Devices
  BY <1>1, <1>2, <1>3, <1>4
<1>6. d \notin Named
  <2>1. IsInjective(devs)
    BY DEF IInv, TypeOK
  <2>2. \A j \in 1..idx - 1 : devs[j] # devs[idx]
    BY ONLY <1>1, <1>4, <2>1 DEF IsInjective
  <2> QED BY <1>3, <2>2
<1>7. ASSUME p # None, Before(p, d)
      PROVE  p \in Named
  <2>1. p \in Range(devs) /\ p \in Devices
    BY <1>1, <1>5, <1>7, UpstreamFacts DEF IInv, LinkInv
  <2>2. PICK j \in 1..Len(devs) : devs[j] = p
    BY <1>1, <2>1 DEF Range
  <2>3. ~Before(d, p) /\ d # p
    BY <1>5, <1>7, <2>1, BeforeIsStrict DEF IInv, TypeOK
  <2>4. ~(idx < j) /\ j # idx
    BY <1>1, <2>2, <2>3 DEF IInv, LinkInv
  <2>5. j \in 1..idx - 1
    BY <1>1, <2>4
  <2> QED BY <1>3, <2>2, <2>5
<1>8. ASSUME p # None, ~Before(p, d)
      PROVE  PathOf(p) = <<>>
  <2>1. p \in Devices
    BY <1>5, <1>8 DEF IInv, TypeOK
  <2>2. ASSUME NEW j \in 1..idx - 1 PROVE devs[j] # p
    <3>1. j \in 1..Len(devs) /\ j < idx
      BY <1>1
    <3>2. Before(devs[j], d)
      BY <1>1, <3>1 DEF IInv, LinkInv
    <3> QED BY <1>8, <3>2
  <2>3. p \notin Named
    BY <1>3, <2>2
  <2> QED BY <1>8, <2>1, <2>3 DEF IInv, NameInv, PathOf
<1>9. PathOf(None) = <<>>
  BY DEF PathOf
<1> HIDE DEF d
<1>10. PathOf(p) = PathOf(Above(d)) /\ (Above(d) # None => Above(d) \in Named)
  BY <1>7, <1>8, <1>9 DEF Above
<1> QED BY <1>5, <1>6, <1>10 DEF d

\* The path of a parent, or of none.
LEMMA PathOfParent ==
  ASSUME IInv, NEW e \in Named \cup {None}
  PROVE  /\ \E T : PathOf(e) \in Seq(T)
         /\ e # None => PathOf(e) = Path[e] /\ PathOf(e) # <<>>
         /\ e = None => PathOf(e) = <<>>
<1>1. <<>> \in Seq({})
  BY EmptySeq
<1> QED BY <1>1 DEF IInv, NameInv, PathOf

\* A device named now keeps the invariant if its step differs from those of
\* its siblings that have a name.
LEMMA NamedOneMore ==
  ASSUME IInv, phase = "name", ~(idx > Len(devs)), NEW d, d = devs[idx], NEW s,
         phase' = phase, idx' = idx + 1, devs' = devs, conf' = conf, parent' = parent,
         DOMAIN nickname' = Devices,
         Path' = [Path EXCEPT ![d] = Append(PathOf(Above(d)), s)],
         downPorts' \in [Devices -> Nat], nameCount' \in [Labels -> Nat],
         \A e \in Devices : downPorts[e] <= downPorts'[e],
         \A l \in Labels : nameCount[l] <= nameCount'[l],
         StepRight(d, s)',
         \A c \in Named : Above(c) = Above(d) => ~(Last(Path[c]) = s)
  PROVE  NameInv'
<1>1. /\ d \in Devices /\ d \notin Named /\ Named \subseteq Devices
      /\ Above(d) # None => Above(d) \in Named
  BY NextDevice
<1>2. DOMAIN Path = Devices /\ DOMAIN Path' = Devices
  BY DEF IInv, NameInv
<1>3. Named' = Named \cup {d}
  <2>1. 1..idx' - 1 = (1..idx - 1) \cup {idx}
    BY DEF IInv, TypeOK
  <2> QED BY <2>1 DEF Named
<1>4. /\ Path'[d] = Append(PathOf(Above(d)), s)
      /\ \A c \in Named : Path'[c] = Path[c]
  BY <1>1, <1>2
<1>5. /\ \A e \in Named \cup {None} : PathOf(e)' = PathOf(e)
      /\ \A e : Above(e)' = Above(e)
      /\ \A e \in Named : Above(e) # None => Above(e) \in Named
  BY <1>4 DEF PathOf, Above, Before, IInv, NameInv
<1>6. \A c \in Named : /\ Above(c) # None => Above(c) \in Named
                       /\ Path[c] \in Seq(Range(Path[c])) /\ Path[c] # <<>>
                       /\ Path[c] = Append(PathOf(Above(c)), Last(Path[c]))
                       /\ StepRight(c, Last(Path[c]))
  BY DEF IInv, NameInv
<1>7. PICK T : PathOf(Above(d)) \in Seq(T)
  BY <1>1, PathOfParent
<1>8. /\ Path'[d] \in Seq(Range(Path'[d])) /\ Path'[d] # <<>> /\ Last(Path'[d]) = s
      /\ Path'[d] = Append(PathOf(Above(d)), Last(Path'[d]))
      /\ SubSeq(Path'[d], 1, Len(Path'[d]) - 1) = PathOf(Above(d))
  BY <1>4, <1>7, LongerPath
<1>9. ASSUME NEW c \in Named
      PROVE  StepRight(c, Last(Path[c]))'
  <2> DEFINE x == Last(Path[c])
  <2>1. c \in Devices /\ StepRight(c, x) /\ (parent[c] # None => parent[c] \in Devices)
    BY <1>1, <1>6 DEF IInv, TypeOK
  <2>2. Last(Path'[c]) = x
    BY <1>4
  <2> HIDE DEF x
  <2>3. /\ downPorts \in [Devices -> Nat] /\ downPorts' \in [Devices -> Nat]
        /\ nameCount \in [Labels -> Nat] /\ nameCount' \in [Labels -> Nat]
    BY DEF IInv, TypeOK
  <2>4. x[1] = "port" => x[2] < downPorts'[parent[c]]
    <3>1. x[1] = "port" => parent[c] \in Devices /\ x[2] \in Nat /\ x[2] < downPorts[parent[c]]
      BY <2>1 DEF StepRight
    <3>2. parent[c] \in Devices => downPorts[parent[c]] <= downPorts'[parent[c]]
      BY <1>1
    <3> QED BY <2>3, <3>1, <3>2
  <2>5. x[1] = "name" => x[3] < nameCount'[x[2]]
    <3>1. x[1] = "name" => x[2] \in Labels /\ x[3] \in Nat /\ x[3] < nameCount[x[2]]
      BY <2>1 DEF StepRight
    <3>2. x[2] \in Labels => nameCount[x[2]] <= nameCount'[x[2]]
      BY <1>1
    <3> QED BY <2>3, <3>1, <3>2
  <2> QED BY <2>1, <2>2, <2>4, <2>5 DEF StepRight
<1>10. ASSUME NEW c \in Named'
       PROVE  /\ Above(c)' # None => Above(c)' \in Named'
              /\ Path'[c] \in Seq(Range(Path'[c])) /\ Path'[c] # <<>>
              /\ Path'[c] = Append(PathOf(Above(c))', Last(Path'[c]))
              /\ StepRight(c, Last(Path[c]))'
  <2>1. CASE c = d
    <3>1. PathOf(Above(d))' = PathOf(Above(d))
      BY <1>1, <1>4, <1>5 DEF PathOf
    <3>2. StepRight(d, Last(Path[d]))'
      BY <1>8 DEF StepRight
    <3> QED BY <1>1, <1>3, <1>5, <1>8, <2>1, <3>1, <3>2
  <2>2. CASE c \in Named
    <3>1. PathOf(Above(c))' = PathOf(Above(c))
      BY <1>4, <1>5, <2>2 DEF PathOf
    <3> QED BY <1>3, <1>4, <1>5, <1>6, <1>9, <2>2, <3>1
  <2> QED BY <1>3, <2>1, <2>2
<1>11. ASSUME NEW c \in Named, Path[c] = Path'[d]
       PROVE  FALSE
  <2>1. Last(Path[c]) = s /\ SubSeq(Path[c], 1, Len(Path[c]) - 1) = PathOf(Above(d))
    BY <1>8, <1>11
  <2>2. PICK U : PathOf(Above(c)) \in Seq(U)
    BY <1>6, PathOfParent
  <2>3. SubSeq(Path[c], 1, Len(Path[c]) - 1) = PathOf(Above(c))
    BY <1>6, <2>2, LongerPath
  <2>4. PathOf(Above(c)) = PathOf(Above(d))
    BY <2>1, <2>3
  <2>5. Above(c) \in Named \cup {None} /\ Above(d) \in Named \cup {None}
    BY <1>1, <1>6
  <2>6. Above(c) = Above(d)
    <3>1. Above(c) = None <=> Above(d) = None
      BY <2>4, <2>5, PathOfParent
    <3>2. CASE Above(c) # None
      <4>1. Path[Above(c)] = Path[Above(d)]
        BY <2>4, <2>5, <3>1, <3>2, PathOfParent
      <4> QED BY <2>5, <3>1, <3>2, <4>1 DEF IInv, NameInv
    <3> QED BY <3>1, <3>2
  <2> QED BY <2>1, <2>6
<1>12. \A c, e \in Named' : Path'[c] = Path'[e] => c = e
  <2>1. \A c, e \in Named : Path[c] = Path[e] => c = e
    BY DEF IInv, NameInv
  <2> QED BY <1>3, <1>4, <1>11, <2>1
<1>13. idx' <= Len(devs') + 1
  BY RangeOfDevs DEF IInv, TypeOK
<1>14. \A e \in Devices \ Named' : Path'[e] = <<>>
  BY <1>2, <1>3 DEF IInv, NameInv
<1> QED BY <1>2, <1>10, <1>12, <1>13, <1>14 DEF NameInv

\* The ports of a switch are numbered.
LEMMA NamePort ==
  ASSUME IInv, Name, ~(idx > Len(devs)), NEW d, d = devs[idx],
         devType[d] = DOWNSTREAM, parent[d] # None
  PROVE  IInv'
<1>1. /\ phase = "name" /\ d \in Devices /\ parent[d] \in Devices /\ Named \subseteq Devices
      /\ PathOf(parent[d]) = PathOf(Above(d))
  BY NextDevice DEF Name, IInv, TypeOK
<1>2. PICK n \in Nat : n = downPorts[parent[d]]
  BY <1>1 DEF IInv, TypeOK
<1>3. PICK s : s = <<"port", n>>
  OBVIOUS
<1>4. /\ idx' = idx + 1 /\ phase' = phase /\ nameCount' = nameCount
      /\ DOMAIN nickname' = DOMAIN nickname
      /\ Path' = [Path EXCEPT ![d] = Append(PathOf(Above(d)), s)]
      /\ downPorts' = [downPorts EXCEPT ![parent[d]] = n + 1]
  <2>1. Path[parent[d]] = PathOf(Above(d))
    BY <1>1 DEF PathOf
  <2> QED BY <1>2, <1>3, <2>1 DEF Name
<1>5. UNCHANGED <<conf, todo, cur, off, Ocap, Ecap, devType, devs, Bus, parent, LnkChild>>
  BY DEF Name, caps
<1>6. downPorts' \in [Devices -> Nat] /\ nameCount' \in [Labels -> Nat] /\ idx' \in Nat \ {0}
  BY <1>1, <1>2, <1>4 DEF IInv, TypeOK
<1>7. TypeOK'
  BY <1>4, <1>5, <1>6 DEF IInv, TypeOK
<1>8. ListInv' /\ LinkInv'
  BY <1>4, <1>5 DEF IInv, ListInv, LinkInv, Before, Upstream
<1>9. downPorts'[parent[d]] = n + 1 /\ n < n + 1
  BY <1>1, <1>4 DEF IInv, TypeOK
<1>10. StepRight(d, s)'
  BY <1>3, <1>5, <1>9 DEF StepRight
<1>11. \A e \in Devices : downPorts[e] <= downPorts'[e]
  BY <1>1, <1>2, <1>4 DEF IInv, TypeOK
<1>12. \A l \in Labels : nameCount[l] <= nameCount'[l]
  BY <1>4 DEF IInv, TypeOK
<1>13. \A c \in Named : Above(c) = Above(d) => ~(Last(Path[c]) = s)
  <2> SUFFICES ASSUME NEW c \in Named, Above(c) = Above(d), Last(Path[c]) = s PROVE FALSE
    OBVIOUS
  <2>1. StepRight(c, s)
    BY DEF IInv, NameInv
  <2>3. parent[c] = parent[d]
    BY <1>1, <1>3, <2>1, SameParent DEF StepRight
  <2>2. n < n
    BY <1>2, <1>3, <2>1, <2>3 DEF StepRight
  <2> QED BY <1>2, <2>2
<1>14. DOMAIN nickname' = Devices
  BY <1>4 DEF IInv, NameInv
<1>15. NameInv'
  BY <1>1, <1>4, <1>5, <1>6, <1>10, <1>11, <1>12, <1>13, <1>14, NamedOneMore
<1> QED BY <1>7, <1>8, <1>15 DEF IInv

\* What is known of siblings: one bus, so two functions.
LEMMA SiblingsDiffer ==
  ASSUME IInv, NEW c \in Devices, NEW d \in Devices, c # d
  PROVE  /\ conf[c].bus # conf[d].bus \/ conf[c].devFn # conf[d].devFn
         /\ parent[c] = parent[d] /\ parent[d] # None => conf[c].devFn # conf[d].devFn
<1>1. conf[c].bus # conf[d].bus \/ conf[c].devFn # conf[d].devFn
  BY ConfsAssumption DEF IInv, TypeOK, IsConf
<1>2. parent[c] = parent[d] /\ parent[d] # None => conf[c].bus = conf[d].bus
  BY UpstreamFacts DEF IInv, LinkInv
<1> QED BY <1>1, <1>2

\* Other devices are named by label and number, bus, function or address.
LEMMA NameOther ==
  ASSUME IInv, Name, ~(idx > Len(devs)), NEW d, d = devs[idx], devType[d] # DOWNSTREAM
  PROVE  IInv'
<1>1. /\ phase = "name" /\ d \in Devices /\ d \notin Named /\ Named \subseteq Devices
      /\ PathOf(parent[d]) = PathOf(Above(d))
  BY NextDevice DEF Name
<1>2. PICK s : s = Nick(d)
  OBVIOUS
<1>3. PICK l : l = LabelOf(d)
  OBVIOUS
<1>4. l # "" => l \in Labels /\ nameCount[l] \in Nat
  <2>1. l # "" => l \in Labels
    BY <1>1, <1>3, LabelsAssumption, ConfsAssumption DEF LabelOf, IInv, TypeOK, IsConf
  <2> QED BY <2>1 DEF IInv, TypeOK
<1>5. /\ idx' = idx + 1 /\ phase' = phase /\ downPorts' = downPorts
      /\ DOMAIN nickname' = DOMAIN nickname
      /\ Path' = [Path EXCEPT ![d] = Append(PathOf(Above(d)), s)]
      /\ l # "" => nameCount' = [nameCount EXCEPT ![l] = @ + 1]
      /\ l = "" => nameCount' = nameCount
  BY <1>1, <1>2, <1>3 DEF Name, CountedName
<1>6. UNCHANGED <<conf, todo, cur, off, Ocap, Ecap, devType, devs, Bus, parent, LnkChild>>
  BY DEF Name, caps
<1>7. downPorts \in [Devices -> Nat] /\ nameCount \in [Labels -> Nat] /\ idx \in Nat \ {0}
  BY DEF IInv, TypeOK
<1>8. downPorts' = downPorts /\ idx' = idx + 1
  BY <1>5
<1>9. downPorts' \in [Devices -> Nat] /\ idx' \in Nat \ {0}
  BY ONLY <1>7, <1>8
<1>10. \/ nameCount' = nameCount
       \/ l \in Labels /\ nameCount' = [nameCount EXCEPT ![l] = @ + 1]
  BY <1>4, <1>5
<1>11. nameCount' \in [Labels -> Nat] /\ \A k \in Labels : nameCount[k] <= nameCount'[k]
  <2>1. CASE nameCount' = nameCount
    BY ONLY <1>7, <2>1
  <2>2. CASE l \in Labels /\ nameCount' = [nameCount EXCEPT ![l] = @ + 1]
    <3>1. \A k \in Labels : nameCount[k] \in Nat
      BY ONLY <1>7
    <3>2. \A k \in Labels : nameCount'[k] = IF k = l THEN nameCount[k] + 1 ELSE nameCount[k]
      BY ONLY <1>7, <2>2
    <3>3. nameCount' \in [Labels -> Nat]
      BY ONLY <1>7, <2>2, <3>1
    <3> QED BY ONLY <3>1, <3>2, <3>3
  <2> QED BY ONLY <1>10, <2>1, <2>2
<1>12. l # "" => nameCount'[l] = nameCount[l] + 1
  BY <1>4, <1>5, <1>7
<1>13. TypeOK'
  BY <1>5, <1>6, <1>9, <1>11 DEF IInv, TypeOK
<1>14. ListInv' /\ LinkInv'
  BY ZenonT(40), <1>5, <1>6 DEF IInv, ListInv, LinkInv, Before, Upstream
<1>15. \/ l # "" /\ s = <<"name", l, nameCount[l]>>
       \/ conf[d].devFn = 0 /\ s = <<"bus", conf[d].bus>>
       \/ parent[d] # None /\ s = <<"function", nickname[LnkChild[parent[d]]], conf[d].devFn>>
       \/ s = <<"address", conf[d].bus, conf[d].devFn>>
  BY <1>2, <1>3 DEF Nick
<1>16. ASSUME l # "", s = <<"name", l, nameCount[l]>>
       PROVE  /\ StepRight(d, s)'
              /\ \A c \in Named : Above(c) = Above(d) => ~(Last(Path[c]) = s)
  <2>1. nameCount[l] \in Nat /\ nameCount'[l] = nameCount[l] + 1 /\ l \in Labels
    BY <1>4, <1>12, <1>16
  <2>5. nameCount[l] < nameCount'[l]
    BY ONLY <2>1
  <2>2. s[1] = "name" /\ s[2] = l /\ s[3] = nameCount[l]
    BY <1>16
  <2>3. StepRight(d, s)'
    BY <2>1, <2>2, <2>5 DEF StepRight
  <2>4. \A c \in Named : ~(Last(Path[c]) = s)
    <3> SUFFICES ASSUME NEW c \in Named, Last(Path[c]) = s PROVE FALSE
      OBVIOUS
    <3>1. StepRight(c, s)
      BY DEF IInv, NameInv
    <3>2. nameCount[l] < nameCount[l]
      BY <2>2, <3>1 DEF StepRight
    <3> QED BY <2>1, <3>2
  <2> QED BY <2>3, <2>4
<1>17. ASSUME conf[d].devFn = 0, s = <<"bus", conf[d].bus>>
       PROVE  /\ StepRight(d, s)'
              /\ \A c \in Named : Above(c) = Above(d) => ~(Last(Path[c]) = s)
  <2>1. s[1] = "bus" /\ s[2] = conf[d].bus
    BY <1>17
  <2>2. StepRight(d, s)'
    BY <1>6, <1>17, <2>1 DEF StepRight
  <2>3. \A c \in Named : ~(Last(Path[c]) = s)
    <3> SUFFICES ASSUME NEW c \in Named, Last(Path[c]) = s PROVE FALSE
      OBVIOUS
    <3>1. StepRight(c, s)
      BY DEF IInv, NameInv
    <3>2. conf[c].bus = conf[d].bus /\ conf[c].devFn = conf[d].devFn
      BY <1>17, <2>1, <3>1 DEF StepRight
    <3> QED BY <1>1, <3>2, SiblingsDiffer
  <2> QED BY <2>2, <2>3
<1>18. ASSUME parent[d] # None,
              s = <<"function", nickname[LnkChild[parent[d]]], conf[d].devFn>>
       PROVE  /\ StepRight(d, s)'
              /\ \A c \in Named : Above(c) = Above(d) => ~(Last(Path[c]) = s)
  <2>1. s[1] = "function" /\ s[3] = conf[d].devFn
    BY <1>18
  <2>2. StepRight(d, s)'
    BY <1>6, <1>18, <2>1 DEF StepRight
  <2>3. \A c \in Named : Above(c) = Above(d) => ~(Last(Path[c]) = s)
    <3> SUFFICES ASSUME NEW c \in Named, Above(c) = Above(d), Last(Path[c]) = s PROVE FALSE
      OBVIOUS
    <3>1. StepRight(c, s)
      BY DEF IInv, NameInv
    <3>2. parent[c] # None /\ conf[c].devFn = conf[d].devFn
      BY <2>1, <3>1 DEF StepRight
    <3>3. parent[c] = parent[d]
      BY <1>1, <1>18, <3>2, SameParent
    <3> QED BY <1>1, <1>18, <3>2, <3>3, SiblingsDiffer
  <2> QED BY <2>2, <2>3
<1>19. ASSUME s = <<"address", conf[d].bus, conf[d].devFn>>
       PROVE  /\ StepRight(d, s)'
              /\ \A c \in Named : Above(c) = Above(d) => ~(Last(Path[c]) = s)
  <2>1. s[1] = "address" /\ s[2] = conf[d].bus /\ s[3] = conf[d].devFn
    BY <1>19
  <2>2. StepRight(d, s)'
    BY <1>6, <2>1 DEF StepRight
  <2>3. \A c \in Named : ~(Last(Path[c]) = s)
    BY <1>1, <2>1, SiblingsDiffer DEF IInv, NameInv, StepRight
  <2> QED BY <2>2, <2>3
<1>20. /\ StepRight(d, s)'
       /\ \A c \in Named : Above(c) = Above(d) => ~(Last(Path[c]) = s)
  BY <1>15, <1>16, <1>17, <1>18, <1>19
<1>21. \A e \in Devices : downPorts[e] <= downPorts'[e]
  BY ONLY <1>7, <1>8
<1>22. DOMAIN nickname' = Devices
  BY <1>5 DEF IInv, NameInv
<1>23. NameInv'
  BY <1>1, <1>5, <1>6, <1>9, <1>11, <1>20, <1>21, <1>22, NamedOneMore
<1> QED BY <1>13, <1>14, <1>23 DEF IInv

LEMMA NameStep ==
  ASSUME IInv, Name
  PROVE  IInv'
<1>1. CASE idx > Len(devs)
  <2>1. /\ phase = "name" /\ phase' = "done" /\ idx' = idx
        /\ UNCHANGED <<conf, todo, cur, off, Ocap, Ecap, devType, devs, Bus, parent, LnkChild>>
        /\ UNCHANGED <<downPorts, nameCount, nickname, Path>>
    BY <1>1 DEF Name, caps, names
  <2>2. TypeOK'
    BY <2>1 DEF IInv, TypeOK
  <2>3. ListInv' /\ LinkInv'
    BY <2>1 DEF IInv, ListInv, LinkInv, Before, Upstream
  <2>4. Named' = Named
    BY <2>1 DEF Named
  <2>5. idx = Len(devs) + 1
    BY <1>1, <2>1, RangeOfDevs DEF IInv, NameInv, TypeOK
  <2>6. NameInv'
    BY <2>1, <2>4, <2>5, NamesKept
  <2> QED BY <2>2, <2>3, <2>6 DEF IInv
<1>2. CASE ~(idx > Len(devs))
  <2> DEFINE d == devs[idx]
  <2>1. CASE devType[d] = DOWNSTREAM /\ parent[d] # None
    BY <1>2, <2>1, NamePort
  <2>2. CASE devType[d] # DOWNSTREAM
    BY <1>2, <2>2, NameOther
  <2>3. CASE devType[d] = DOWNSTREAM /\ parent[d] = None
    <3>1. /\ phase' = "panic" /\ idx' = idx + 1
          /\ UNCHANGED <<conf, todo, cur, off, Ocap, Ecap, devType, devs, Bus, parent, LnkChild>>
          /\ UNCHANGED <<downPorts, nameCount, nickname, Path>>
      BY <1>2, <2>3 DEF Name, caps, names
    <3>2. TypeOK'
      BY <3>1 DEF IInv, TypeOK
    <3>3. ListInv' /\ LinkInv'
      BY <3>1 DEF IInv, ListInv, LinkInv, Before, Upstream
    <3>4. NameInv'
      BY <3>1, NothingNamed DEF IInv, NameInv, Named
    <3> QED BY <3>2, <3>3, <3>4 DEF IInv
  <2> QED BY <2>1, <2>2, <2>3
<1> QED BY <1>1, <1>2

-----------------------------------------------------------------------------
(* The theorems                                                            *)

LEMMA InitInv == Init => IInv
<1> SUFFICES ASSUME Init PROVE IInv
  OBVIOUS
<1>1. <<>> \in Seq(Devices) /\ DOMAIN <<>> = {}
  BY EmptySeq
<1>2. TypeOK
  BY <1>1 DEF Init, TypeOK, Each, IsInjective
<1>3. ListInv /\ LinkInv
  BY <1>1 DEF Init, ListInv, LinkInv, Each, Range
<1>4. NameInv
  BY NothingNamed DEF Init, Each
<1> QED BY <1>2, <1>3, <1>4 DEF IInv

LEMMA StepInv == IInv /\ [Next]_vars => IInv'
<1> SUFFICES ASSUME IInv, [Next]_vars PROVE IInv'
  OBVIOUS
<1>1. CASE UNCHANGED vars
  <2>1. TypeOK'
    BY <1>1 DEF vars, IInv, TypeOK
  <2>2. ListInv' /\ LinkInv'
    BY <1>1 DEF vars, IInv, ListInv, LinkInv, Before, Upstream
  <2>3. NameInv'
    <3>1. Named' = Named
      BY <1>1 DEF vars, Named
    <3>2. /\ phase' = "name" => idx' <= Len(devs') + 1
          /\ phase' = "done" => idx' = Len(devs') + 1
      BY <1>1 DEF vars, IInv, NameInv
    <3>3. phase = "panic" => phase' = "panic"
      BY <1>1 DEF vars
    <3> QED BY <1>1, <3>1, <3>2, <3>3, NamesKept DEF vars
  <2> QED BY <2>1, <2>2, <2>3 DEF IInv
<1>2. CASE \E d \in Devices : AddDev(d)
  BY <1>2, AddDevStep
<1>3. CASE Walk
  BY <1>3, WalkStep
<1>4. CASE CapsDone
  BY <1>4, CapsDoneStep
<1>5. CASE EcapsDone
  BY <1>5, EcapsDoneStep
<1>6. CASE Sort
  BY <1>6, SortStep
<1>7. CASE Link
  BY <1>7, LinkStep
<1>8. CASE Name
  BY <1>8, NameStep
<1> QED BY <1>1, <1>2, <1>3, <1>4, <1>5, <1>6, <1>7, <1>8 DEF Next

\* A device is named after its parent, and what is named has a path of its own:
\* at every moment of AddDev, PciInit and InitNickName.
THEOREM ScanInvariant == Spec => []IInv
<1> QED BY InitInv, StepInv, PTL DEF Spec

\* The state of a scan is well formed: a device is listed once, in w.Devs.
THEOREM TypeCorrect == Spec => []TypeOK
<1>1. IInv => TypeOK
  BY DEF IInv
<1> QED BY <1>1, ScanInvariant, PTL

LEMMA AllNamed ==
  ASSUME IInv, phase = "done"
  PROVE  Named = Range(devs)
<1>1. idx - 1 = Len(devs) /\ DOMAIN devs = 1..Len(devs)
  BY RangeOfDevs DEF IInv, NameInv
<1> QED BY <1>1 DEF Named, Range

\* The path of a device continues the path of its parent, whatever the order in
\* which the system lists them: InitNickName meets no device before its parent.
THEOREM PathsContinueParents == Spec => []PathsNested
<1>1. IInv => PathsNested
  <2> SUFFICES ASSUME IInv, phase = "done", Configured, NEW d \in Range(devs), parent[d] # None
               PROVE  SubSeq(Path[d], 1, Len(Path[d]) - 1) = Path[parent[d]]
    BY DEF PathsNested
  <2>4. d \in Devices /\ parent[d] \in Devices
    BY RangeOfDevs DEF IInv, TypeOK
  <2>5. Above(d) = parent[d]
    BY <2>4, LateParent DEF Above, Configured
  <2>1. /\ parent[d] \in Named /\ d \in Named
        /\ Path[d] = Append(PathOf(parent[d]), Last(Path[d]))
    BY <2>5, AllNamed DEF IInv, NameInv
  <2>2. PICK T : PathOf(parent[d]) \in Seq(T)
    BY <2>1, PathOfParent
  <2>3. SubSeq(Path[d], 1, Len(Path[d]) - 1) = PathOf(parent[d])
    BY <2>1, <2>2, LongerPath
  <2> QED BY <2>1, <2>3, PathOfParent
<1> QED BY <1>1, ScanInvariant, PTL

\* No two devices of InitNickName end under one path, whatever their labels.
THEOREM PathsTellDevicesApart == Spec => []PathsUnique
<1>1. IInv => PathsUnique
  BY AllNamed DEF IInv, NameInv, PathsUnique
<1> QED BY <1>1, ScanInvariant, PTL

-----------------------------------------------------------------------------
(* Lists of capabilities.  What a recursion over the headers yields holds  *)
(* for each of them because there is no first one for which it does not.   *)

LEMMA Least ==
  ASSUME NEW T \in SUBSET Nat, T # {}
  PROVE  \E m \in T : \A k \in T : m <= k
<1> DEFINE F == {1..m : m \in T}
<1>1. F \subseteq FiniteSubsetsOf(Nat) /\ F # {}
  <2>1. ASSUME NEW m \in T PROVE 1..m \in FiniteSubsetsOf(Nat)
    <3>1. IsFiniteSet(1..m) /\ 1..m \in SUBSET Nat
      BY FS_Interval
    <3> QED BY <3>1 DEF FiniteSubsetsOf
  <2> QED BY <2>1
<1>2. PICK s \in F : \A t \in F : ~(<<t, s>> \in StrictSubsetOrdering(Nat))
  <2> HIDE DEF F
  <2> QED BY <1>1, FS_StrictSubsetOrderingWellFounded, WFMin
<1>3. PICK m \in T : s = 1..m
  BY <1>2
<1>4. ASSUME NEW k \in T, k < m PROVE FALSE
  <2>1. 1..k \in F
    BY <1>4
  <2>2. 1..k \in SUBSET Nat /\ 1..m \in SUBSET Nat /\ 1..k \subseteq 1..m
    BY <1>4
  <2>3. m \in 1..m /\ m \notin 1..k
    BY <1>4
  <2>4. <<1..k, 1..m>> \in StrictSubsetOrdering(Nat)
    BY <2>2, <2>3 DEF StrictSubsetOrdering
  <2> QED BY <1>2, <1>3, <2>1, <2>4
<1> QED BY <1>4

\* The recursion of Nth, its value, and how far it is defined.
Lead(list, f, i) ==
  IF i = 0 THEN 1
  ELSE IF f[i - 1] = None THEN None
  ELSE IF list[f[i - 1]].id = NoId THEN None ELSE list[f[i - 1]].next

Leads(list, f, n) == f = [i \in 0..n |-> Lead(list, f, i)]

Raw(list) == CHOOSE f : Leads(list, f, Cardinality(Offsets))

LEMMA LeadsOneMore ==
  ASSUME NEW list, NEW n \in Nat, NEW f, Leads(list, f, n)
  PROVE  \E g : Leads(list, g, n + 1)
<1> DEFINE g == [i \in 0..n + 1 |-> Lead(list, f, i)]
<1>1. \A i \in 0..n : g[i] = f[i]
  BY DEF Leads
<1>2. \A i \in 0..n + 1 : i = 0 \/ i - 1 \in 0..n
  OBVIOUS
<1>3. \A i \in 0..n + 1 : Lead(list, g, i) = Lead(list, f, i)
  <2> HIDE DEF g
  <2> QED BY <1>1, <1>2 DEF Lead
<1>4. g = [i \in 0..n + 1 |-> Lead(list, g, i)]
  <2>1. g = [i \in 0..n + 1 |-> Lead(list, f, i)]
    OBVIOUS
  <2> HIDE DEF g
  <2> QED BY <1>3, <2>1
<1>5. Leads(list, g, n + 1)
  <2> HIDE DEF g
  <2> QED BY <1>4 DEF Leads
<1> QED BY <1>5

LEMMA LeadsExist ==
  ASSUME NEW list, NEW n \in Nat
  PROVE  \E f : Leads(list, f, n)
<1> DEFINE T == {k \in Nat : ~\E f : Leads(list, f, k)}
<1>1. SUFFICES ASSUME T # {} PROVE FALSE
  OBVIOUS
<1>2. PICK m \in T : \A k \in T : m <= k
  <2> HIDE DEF T
  <2>1. T \in SUBSET Nat
    BY DEF T
  <2> QED BY <1>1, <2>1, Least
<1>3. m # 0
  <2> DEFINE f == [i \in 0..0 |-> 1]
  <2>1. f = [i \in 0..0 |-> Lead(list, f, i)]
    BY DEF Lead
  <2>2. Leads(list, f, 0)
    BY <2>1 DEF Leads
  <2> QED BY <1>2, <2>2
<1>4. PICK k \in Nat : m = k + 1
  <2>1. m - 1 \in Nat /\ m = (m - 1) + 1
    BY <1>2, <1>3
  <2> QED BY <2>1
<1>5. \E f : Leads(list, f, k)
  BY <1>2, <1>4
<1> QED BY <1>2, <1>4, <1>5, LeadsOneMore

Real(list, o) == IF o # None /\ list[o].id = NoId THEN None ELSE o

LEMMA NthIsReal ==
  ASSUME NEW list
  PROVE  Nth(list) = [i \in DOMAIN Raw(list) |-> Real(list, Raw(list)[i])]
BY DEF Nth, Raw, Leads, Lead, Real

NHeaders == Cardinality(Offsets)

LEMMA NHeadersType == NHeaders \in Nat
BY OffsetsAssumption, FS_CardinalityType DEF NHeaders

\* The headers of a list, one from the other.
LEMMA NthFacts ==
  ASSUME NEW list
  PROVE  /\ DOMAIN Nth(list) = 0..NHeaders
         /\ Nth(list)[0] = Real(list, 1)
         /\ \A i \in 0..NHeaders : i + 1 <= NHeaders /\ Nth(list)[i] # None =>
              Nth(list)[i + 1] = Real(list, list[Nth(list)[i]].next)
         /\ \A i \in 0..NHeaders : i + 1 <= NHeaders /\ Nth(list)[i] = None => Nth(list)[i + 1] = None
         /\ \A i \in 0..NHeaders : Nth(list)[i] # None => list[Nth(list)[i]].id # NoId
<1>1. PICK f : f = Raw(list)
  OBVIOUS
<1>2. Leads(list, f, NHeaders)
  BY <1>1, NHeadersType, LeadsExist DEF Raw, NHeaders
<1>3. f = [i \in 0..NHeaders |-> Lead(list, f, i)]
  BY <1>2 DEF Leads
<1>4. DOMAIN f = 0..NHeaders /\ \A i \in 0..NHeaders : f[i] = Lead(list, f, i)
  BY <1>3
<1>5. PICK g : g = Nth(list)
  OBVIOUS
<1>6. g = [i \in 0..NHeaders |-> Real(list, f[i])]
  BY <1>1, <1>4, <1>5, NthIsReal
<1>7. DOMAIN g = 0..NHeaders /\ \A i \in 0..NHeaders : g[i] = Real(list, f[i])
  BY <1>6
<1>8. f[0] = 1 /\ 0 \in 0..NHeaders
  BY <1>4, NHeadersType DEF Lead
<1>9. \A i \in 0..NHeaders : i + 1 <= NHeaders =>
        f[i + 1] = IF f[i] = None THEN None ELSE IF list[f[i]].id = NoId THEN None ELSE list[f[i]].next
  <2> SUFFICES ASSUME NEW i \in 0..NHeaders, i + 1 <= NHeaders
               PROVE  f[i + 1] = IF f[i] = None THEN None
                                 ELSE IF list[f[i]].id = NoId THEN None ELSE list[f[i]].next
    OBVIOUS
  <2>1. i + 1 \in 0..NHeaders /\ i + 1 # 0 /\ (i + 1) - 1 = i
    BY NHeadersType
  <2>2. f[i + 1] = Lead(list, f, i + 1)
    BY <1>4, <2>1
  <2> QED BY <2>1, <2>2 DEF Lead
<1>10. \A i \in 0..NHeaders : i + 1 <= NHeaders => i + 1 \in 0..NHeaders
  BY NHeadersType
<1> QED
  BY ONLY <1>5, <1>7, <1>8, <1>9, <1>10 DEF Real, None

\* After the end of a list there is nothing.
LEMMA NthEnds ==
  ASSUME NEW list, NEW p \in 0..NHeaders, Nth(list)[p] = None
  PROVE  \A k \in p..NHeaders : Nth(list)[k] = None
<1> DEFINE T == {k \in p..NHeaders : Nth(list)[k] # None}
<1>1. SUFFICES ASSUME T # {} PROVE FALSE
  OBVIOUS
<1>2. PICK m \in T : \A k \in T : m <= k
  <2>1. T \in SUBSET Nat
    BY NHeadersType
  <2> HIDE DEF T
  <2> QED BY <1>1, <2>1, Least
<1>3. m # p /\ m \in p..NHeaders /\ Nth(list)[m] # None
  BY <1>2
<1>4. PICK i : i = m - 1
  OBVIOUS
<1>5. i \in p..NHeaders /\ i \in 0..NHeaders /\ i + 1 = m /\ i + 1 <= NHeaders /\ i < m
  BY <1>3, <1>4, NHeadersType
<1>6. Nth(list)[i] # None
  BY <1>3, <1>5, NthFacts
<1>7. i \in T
  BY <1>5, <1>6
<1> QED BY <1>2, <1>5, <1>7, <1>3, NHeadersType

KeyAt(list, i) == KeyOf(list[Nth(list)[i]].id)

LatestAt(list, p, i) ==
  /\ Nth(list)[i] # None
  /\ \A j \in i + 1..p - 1 : Nth(list)[j] # None => KeyAt(list, j) # KeyAt(list, i)

LEMMA SeenIs ==
  ASSUME NEW list, NEW p
  PROVE  Seen(list, p) = {<<KeyAt(list, i), Nth(list)[i]>> : i \in {j \in 0..p - 1 : LatestAt(list, p, j)}}
BY DEF Seen, LatestAt, KeyAt

\* A header more: an earlier one of the same capability no longer counts.
LEMMA SeenMore ==
  ASSUME NEW list, NEW p \in Nat, NEW o, Nth(list)[p] = o, o # None
  PROVE  Seen(list, p + 1) = Overwrite(Seen(list, p), KeyOf(list[o].id), o)
<1>1. KeyAt(list, p) = KeyOf(list[o].id)
  BY DEF KeyAt
<1>2. LatestAt(list, p + 1, p)
  <2>1. \A j \in p + 1..(p + 1) - 1 : FALSE
    OBVIOUS
  <2> QED BY <2>1 DEF LatestAt
<1>3. \A i \in 0..p - 1 :
        LatestAt(list, p + 1, i) <=> LatestAt(list, p, i) /\ KeyAt(list, i) # KeyAt(list, p)
  <2>1. \A i \in 0..p - 1 : p \in i + 1..(p + 1) - 1
    OBVIOUS
  <2>2. \A i \in 0..p - 1 : \A j \in i + 1..p - 1 : j \in i + 1..(p + 1) - 1
    OBVIOUS
  <2>3. \A i \in 0..p - 1 : \A j \in i + 1..(p + 1) - 1 : j = p \/ j \in i + 1..p - 1
    OBVIOUS
  <2> QED BY ONLY <2>1, <2>2, <2>3, Nth(list)[p] = o, o # None DEF LatestAt
<1>4. 0..(p + 1) - 1 = (0..p - 1) \cup {p}
  OBVIOUS
<1>5. ASSUME NEW x \in Seen(list, p + 1)
      PROVE  x \in Overwrite(Seen(list, p), KeyOf(list[o].id), o)
  <2>1. PICK i \in 0..(p + 1) - 1 :
          LatestAt(list, p + 1, i) /\ x = <<KeyAt(list, i), Nth(list)[i]>>
    BY <1>5, SeenIs
  <2>2. CASE i = p
    BY <1>1, <2>1, <2>2 DEF Overwrite
  <2>3. CASE i \in 0..p - 1
    <3>1. LatestAt(list, p, i) /\ KeyAt(list, i) # KeyAt(list, p)
      BY <1>3, <2>1, <2>3
    <3>2. x \in Seen(list, p) /\ x[1] # KeyOf(list[o].id)
      BY <1>1, <2>1, <2>3, <3>1, SeenIs
    <3> QED BY <3>2 DEF Overwrite
  <2> QED BY <1>4, <2>1, <2>2, <2>3
<1>6. ASSUME NEW x \in Overwrite(Seen(list, p), KeyOf(list[o].id), o)
      PROVE  x \in Seen(list, p + 1)
  <2>1. CASE x = <<KeyOf(list[o].id), o>>
    BY <1>1, <1>2, <1>4, <2>1, SeenIs
  <2>2. CASE x \in Seen(list, p) /\ x[1] # KeyOf(list[o].id)
    <3>1. PICK i \in 0..p - 1 :
            LatestAt(list, p, i) /\ x = <<KeyAt(list, i), Nth(list)[i]>>
      BY <2>2, SeenIs
    <3>2. LatestAt(list, p + 1, i)
      BY <1>1, <1>3, <2>2, <3>1
    <3> QED BY <1>4, <3>1, <3>2, SeenIs
  <2> QED BY <1>6, <2>1, <2>2 DEF Overwrite
<1> QED BY <1>5, <1>6

Stands(map, list, o) ==
  Acyclic(list) =>
    \E p \in DOMAIN Nth(list) : Nth(list)[p] = Real(list, o) /\ map = Seen(list, p)

LEMMA WalkBegins == ASSUME NEW list PROVE Stands({}, list, 1)
<1>1. 0 \in DOMAIN Nth(list) /\ Nth(list)[0] = Real(list, 1)
  BY NthFacts, NHeadersType
<1>2. Seen(list, 0) = {}
  BY SeenIs
<1> QED BY <1>1, <1>2 DEF Stands

LEMMA WalkGoesOn ==
  ASSUME NEW list, NEW map, NEW o, Stands(map, list, o), o # None, list[o].id # NoId
  PROVE  Stands(Overwrite(map, KeyOf(list[o].id), o), list, list[o].next)
<1> SUFFICES ASSUME Acyclic(list)
             PROVE  \E p \in DOMAIN Nth(list) :
                      /\ Nth(list)[p] = Real(list, list[o].next)
                      /\ Overwrite(map, KeyOf(list[o].id), o) = Seen(list, p)
  BY DEF Stands
<1>1. PICK p \in DOMAIN Nth(list) : Nth(list)[p] = Real(list, o) /\ map = Seen(list, p)
  BY DEF Stands
<1>2. p \in 0..NHeaders /\ p \in Nat /\ Nth(list)[p] = o
  <2>1. DOMAIN Nth(list) = 0..NHeaders
    BY NthFacts
  <2>2. p \in 0..NHeaders
    BY <2>1
  <2>3. Real(list, o) = o
    BY DEF Real
  <2> QED BY <1>1, <2>2, <2>3, NHeadersType
<1>3. Nth(list)[NHeaders] = None
  BY DEF Acyclic, NHeaders
<1>4. p + 1 <= NHeaders /\ p + 1 \in 0..NHeaders
  BY <1>2, <1>3, NHeadersType
<1>5. Nth(list)[p + 1] = Real(list, list[o].next)
  BY <1>2, <1>4, NthFacts
<1>6. Seen(list, p + 1) = Overwrite(map, KeyOf(list[o].id), o)
  BY <1>1, <1>2, SeenMore
<1>7. p + 1 \in DOMAIN Nth(list)
  BY <1>4, NthFacts
<1> QED BY <1>5, <1>6, <1>7

\* At the end of a list whose ids fit, the keys are the ids.
LEMMA WalkIsOver ==
  ASSUME NEW list, NEW map, NEW o, Stands(map, list, o), Real(list, o) = None,
         Acyclic(list), Narrow(list)
  PROVE  Holds(map, list)
<1>1. PICK p \in DOMAIN Nth(list) : Nth(list)[p] = None /\ map = Seen(list, p)
  BY DEF Stands
<1>2. DOMAIN Nth(list) = 0..NHeaders /\ p \in 0..NHeaders
  BY <1>1, NthFacts
<1>3. \A k \in p..NHeaders : Nth(list)[k] = None
  BY <1>1, <1>2, NthEnds
<1> DEFINE IdAt(i) == list[Nth(list)[i]].id
           L(i) == /\ Nth(list)[i] # None
                   /\ \A j \in DOMAIN Nth(list) : j > i /\ Nth(list)[j] # None => IdAt(j) # IdAt(i)
<1>4. Holds(map, list) <=> map = {<<IdAt(i), Nth(list)[i]>> : i \in {j \in DOMAIN Nth(list) : L(j)}}
  BY DEF Holds
<1>5. \A i \in 0..NHeaders : Nth(list)[i] # None => KeyAt(list, i) = IdAt(i)
  <2>1. \A i \in 0..255 : KeyOf(i) = i
    BY DEF KeyOf
  <2> QED BY <1>2, <2>1 DEF Narrow, KeyAt
<1> HIDE DEF IdAt
<1>6. {j \in DOMAIN Nth(list) : L(j)} = {j \in 0..p - 1 : LatestAt(list, p, j)}
  <2>1. \A j \in 0..NHeaders : j \in 0..p - 1 \/ j \in p..NHeaders
    BY <1>2, NHeadersType
  <2>2. \A j \in 0..p - 1 : j \in 0..NHeaders
    BY <1>2, NHeadersType
  <2>3. \A i \in 0..p - 1 : \A j \in 0..NHeaders : j > i => j \in i + 1..p - 1 \/ j \in p..NHeaders
    BY <1>2, NHeadersType
  <2>4. \A i \in 0..p - 1 : \A j \in i + 1..p - 1 : j \in 0..NHeaders /\ j > i
    BY <1>2, NHeadersType
  <2>5. ASSUME NEW i \in 0..p - 1 PROVE L(i) <=> LatestAt(list, p, i)
    BY <1>2, <1>3, <1>5, <2>2, <2>3, <2>4 DEF LatestAt
  <2>6. \A i \in 0..NHeaders : L(i) => i \in 0..p - 1
    BY <1>3, <2>1
  <2> HIDE DEF L
  <2> QED BY <1>2, <2>2, <2>5, <2>6
<1> HIDE DEF L
<1>7. \A i \in {j \in 0..p - 1 : LatestAt(list, p, j)} : KeyAt(list, i) = IdAt(i)
  <2>1. \A j \in 0..p - 1 : j \in 0..NHeaders
    BY <1>2, NHeadersType
  <2> QED BY <1>5, <2>1 DEF LatestAt
<1>8. Seen(list, p) = {<<IdAt(i), Nth(list)[i]>> : i \in {j \in 0..p - 1 : LatestAt(list, p, j)}}
  BY <1>7, SeenIs
<1> QED BY <1>1, <1>4, <1>6, <1>8

\* Every header of a list lies in configuration space.
LEMMA NthInSpace ==
  ASSUME NEW list \in Lists
  PROVE  \A i \in 0..NHeaders : Nth(list)[i] \in Offsets \cup {None}
<1> DEFINE T == {k \in 0..NHeaders : Nth(list)[k] \notin Offsets \cup {None}}
<1>1. SUFFICES ASSUME T # {} PROVE FALSE
  OBVIOUS
<1>2. PICK m \in T : \A k \in T : m <= k
  <2>1. T \in SUBSET Nat
    BY NHeadersType
  <2> HIDE DEF T
  <2> QED BY <1>1, <2>1, Least
<1>3. m \in 0..NHeaders /\ Nth(list)[m] \notin Offsets \cup {None}
  BY <1>2
<1>4. m # 0
  BY <1>3, NthFacts, OffsetsAssumption DEF Real
<1>5. PICK i : i = m - 1
  OBVIOUS
<1>6. i \in 0..NHeaders /\ i + 1 = m /\ i + 1 <= NHeaders /\ i < m
  BY <1>3, <1>4, <1>5, NHeadersType
<1>7. Nth(list)[i] \in Offsets \cup {None}
  <2>1. i \notin T
    <3>1. ~(m <= i)
      BY <1>3, <1>6, NHeadersType
    <3> HIDE DEF T
    <3> QED BY <1>2, <3>1
  <2> QED BY <1>6, <2>1
<1> HIDE DEF T
<1>8. \/ Nth(list)[m] = None
      \/ Nth(list)[m] = Real(list, list[Nth(list)[i]].next) /\ Nth(list)[i] # None
  BY <1>6, NthFacts
<1>9. Nth(list)[i] \in Offsets => list[Nth(list)[i]].next \in Offsets \cup {None}
  BY DEF Lists
<1> QED BY <1>3, <1>7, <1>8, <1>9 DEF Real

\* The ids of the other list are bytes.
LEMMA OcapsNarrow ==
  ASSUME IInv, NEW d \in Devices
  PROVE  Narrow(conf[d].ocap)
<1>1. PICK l : l = conf[d].ocap
  OBVIOUS
<1>2. l \in Lists /\ \A o \in Offsets : l[o].id \in (0..254) \cup {NoId}
  BY <1>1, ConfsAssumption DEF IInv, TypeOK, IsConf
<1>3. DOMAIN Nth(l) = 0..NHeaders
  BY NthFacts
<1>4. ASSUME NEW i \in 0..NHeaders, Nth(l)[i] # None
      PROVE  l[Nth(l)[i]].id \in 0..255
  <2>1. Nth(l)[i] \in Offsets
    BY <1>2, <1>4, NthInSpace
  <2>2. l[Nth(l)[i]].id # NoId
    BY <1>4, NthFacts
  <2> QED BY <1>2, <2>1, <2>2
<1> QED BY <1>1, <1>3, <1>4 DEF Narrow

-----------------------------------------------------------------------------
(* The maps of the devices                                                 *)

\* A walk through the list of cur.
LEMMA StandsHere ==
  ASSUME NEW map, NEW list, list = List
  PROVE  Walking(map, list) <=> Stands(map, list, off)
BY DEF Walking, Stands, Real, AtEnd

\* Outside the walks and for devices that are listed, nothing changes.
LEMMA MapsKept ==
  ASSUME CapsInv, phase \notin {"ocap", "ecap"}, phase' \notin {"ocap", "ecap"},
         UNCHANGED <<conf, todo, cur, caps>>, Range(devs') = Range(devs)
  PROVE  CapsInv'
<1>1. CapsRight'
  BY DEF CapsInv, CapsRight, OcapRight, caps
<1> QED BY <1>1 DEF CapsInv, caps

LEMMA AddDevCaps ==
  ASSUME IInv, CapsInv, NEW d \in Devices, AddDev(d)
  PROVE  CapsInv'
<1>1. CASE ~conf[d].present
  BY <1>1 DEF CapsInv, CapsRight, OcapRight, AddDev, caps
<1>2. CASE conf[d].present
  <2>1. /\ phase' = "ocap" /\ cur' = d /\ off' = IF conf[d].hasCaps THEN 1 ELSE None
        /\ devs' = Append(devs, d) /\ d \in todo /\ todo' = todo \ {d}
        /\ UNCHANGED <<conf, Ocap, Ecap>> /\ cur = None
    BY <1>2 DEF AddDev, caps, CapsInv
  <2>2. d \notin Range(devs) /\ devs \in Seq(Devices) /\ IsInjective(devs)
    BY <2>1 DEF IInv, ListInv, TypeOK
  <2>3. Range(devs') = Range(devs) \cup {d}
    BY <2>1, <2>2, ListedLast
  <2>4. Range(devs') \ {cur'} \subseteq Range(devs) \ {cur}
    <3>1. None \notin Range(devs)
      BY RangeOfDevs, DevicesAssumption DEF IInv
    <3> QED BY <2>1, <2>3, <3>1
  <2>5. CapsRight'
    BY <2>1, <2>4 DEF CapsInv, CapsRight, OcapRight
  <2>6. Ocap[d] = {} /\ Ecap[d] = {}
    BY <2>1 DEF CapsInv
  <2>7. conf[d].hasCaps => Walking(Ocap[cur], conf[cur].ocap)'
    <3> SUFFICES ASSUME conf[d].hasCaps PROVE Walking(Ocap[cur], conf[cur].ocap)'
      OBVIOUS
    <3>1. PICK l : l = conf[d].ocap
      OBVIOUS
    <3>2. Stands({}, l, 1)
      BY WalkBegins
    <3>3. (IF AtEnd THEN None ELSE off)' = Real(l, 1)
      BY <2>1, <3>1 DEF AtEnd, List, Real
    <3>4. Ocap'[cur'] = {} /\ conf'[cur'].ocap = l
      BY <2>1, <2>6, <3>1
    <3> QED BY <3>2, <3>3, <3>4 DEF Stands, Walking
  <2> QED BY <2>1, <2>5, <2>6, <2>7 DEF CapsInv
<1> QED BY <1>1, <1>2

LEMMA WalkCaps ==
  ASSUME IInv, CapsInv, Walk
  PROVE  CapsInv'
<1>1. /\ phase \in {"ocap", "ecap"} /\ off # None /\ List[off].id # NoId
      /\ off' = List[off].next
      /\ UNCHANGED <<conf, phase, todo, cur, devs>>
  BY DEF Walk, AtEnd, NextOf
<1>2. cur \in Range(devs) /\ cur \in Devices /\ cur \notin todo
  BY <1>1, RangeOfDevs DEF IInv, ListInv
<1>3. /\ Ocap \in [Devices -> SUBSET (Nat \X Offsets)]
      /\ Ecap \in [Devices -> SUBSET (Nat \X Offsets)]
  BY DEF IInv, TypeOK
<1>4. PICK l : l = List
  OBVIOUS
<1>5. PICK o : o = off
  OBVIOUS
<1>6. PICK map : map = Overwrite(IF phase = "ocap" THEN Ocap[cur] ELSE Ecap[cur], KeyOf(l[o].id), o)
  OBVIOUS
<1>7. /\ phase = "ocap" => Ocap' = [Ocap EXCEPT ![cur] = map] /\ Ecap' = Ecap
      /\ phase = "ecap" => Ecap' = [Ecap EXCEPT ![cur] = map] /\ Ocap' = Ocap
  BY <1>1, <1>4, <1>5, <1>6 DEF Walk
<1>8. \A d \in Devices \ {cur} : Ocap'[d] = Ocap[d] /\ Ecap'[d] = Ecap[d]
  BY <1>1, <1>3, <1>7
<1>9. CapsRight'
  <2>1. \A d \in Range(devs) \ {cur} : d \in Devices \ {cur}
    BY RangeOfDevs DEF IInv
  <2> QED BY <1>1, <1>8, <2>1 DEF CapsInv, CapsRight, OcapRight
<1>10. \A d \in todo' : Ocap'[d] = {} /\ Ecap'[d] = {}
  <2>1. \A d \in todo : d \in Devices \ {cur}
    BY <1>2 DEF IInv, TypeOK
  <2> QED BY <1>1, <1>8, <2>1 DEF CapsInv
<1>11. \A m : Stands(m, l, o) =>
         Stands(Overwrite(m, KeyOf(l[o].id), o), l, l[o].next)
  BY <1>1, <1>4, <1>5, WalkGoesOn
<1>12. (IF AtEnd THEN None ELSE off)' = Real(l, l[o].next)
  BY <1>1, <1>4, <1>5 DEF AtEnd, Real, List
<1>13. CASE phase = "ocap"
  <2>1. conf[cur].hasCaps /\ Walking(Ocap[cur], conf[cur].ocap) /\ Ecap[cur] = {}
    BY <1>1, <1>13 DEF CapsInv
  <2>2. l = conf[cur].ocap
    BY <1>4, <1>13 DEF List
  <2>3. Stands(map, l, l[o].next)
    BY <1>4, <1>5, <1>6, <1>11, <1>13, <2>1, <2>2, StandsHere
  <2>4. Ocap'[cur'] = map /\ Ecap'[cur'] = {} /\ conf'[cur'].ocap = l
    BY <1>1, <1>2, <1>3, <1>7, <1>13, <2>1, <2>2
  <2>5. Walking(Ocap[cur], conf[cur].ocap)'
    BY <1>12, <2>3, <2>4 DEF Walking, Stands
  <2> QED BY <1>1, <1>9, <1>10, <1>13, <2>1, <2>4, <2>5 DEF CapsInv
<1>14. CASE phase = "ecap"
  <2>1. OcapRight(cur) /\ Walking(Ecap[cur], conf[cur].ecap)
    BY <1>1, <1>14 DEF CapsInv
  <2>2. l = conf[cur].ecap
    BY <1>4, <1>14 DEF List
  <2>3. Stands(map, l, l[o].next)
    BY <1>4, <1>5, <1>6, <1>11, <1>14, <2>1, <2>2, StandsHere
  <2>4. Ecap'[cur'] = map /\ Ocap'[cur'] = Ocap[cur] /\ conf'[cur'].ecap = l
    BY <1>1, <1>2, <1>3, <1>7, <1>14, <2>1, <2>2
  <2>5. Walking(Ecap[cur], conf[cur].ecap)'
    BY <1>12, <2>3, <2>4 DEF Walking, Stands
  <2>6. OcapRight(cur)'
    BY <1>1, <2>1, <2>4 DEF OcapRight
  <2> QED BY <1>1, <1>9, <1>10, <1>14, <2>5, <2>6 DEF CapsInv
<1> QED BY <1>1, <1>13, <1>14

LEMMA CapsDoneCaps ==
  ASSUME IInv, CapsInv, CapsDone
  PROVE  CapsInv'
<1>1. /\ phase = "ocap" /\ AtEnd /\ phase' = "ecap" /\ off' = 1
      /\ UNCHANGED <<conf, todo, cur, Ocap, Ecap, devs>>
  BY DEF CapsDone, caps
<1>2. CapsRight'
  BY <1>1 DEF CapsInv, CapsRight, OcapRight
<1>3. OcapRight(cur)'
  <2>1. ASSUME conf[cur].hasCaps, Acyclic(conf[cur].ocap)
        PROVE  Holds(Ocap[cur], conf[cur].ocap)
    <3>1. PICK l : l = conf[cur].ocap
      OBVIOUS
    <3>2. l = List /\ Walking(Ocap[cur], l)
      BY <1>1, <2>1, <3>1 DEF List, CapsInv
    <3>3. Stands(Ocap[cur], l, off)
      BY <3>2, StandsHere
    <3>4. Real(l, off) = None
      BY <1>1, <3>2 DEF AtEnd, Real
    <3>5. Narrow(l)
      BY <1>1, <3>1, RangeOfDevs, OcapsNarrow DEF IInv, ListInv
    <3> QED BY <2>1, <3>1, <3>3, <3>4, <3>5, WalkIsOver
  <2>2. ~conf[cur].hasCaps => Ocap[cur] = {}
    BY <1>1 DEF CapsInv
  <2> QED BY <1>1, <2>1, <2>2 DEF OcapRight
<1>4. Walking(Ecap[cur], conf[cur].ecap)'
  <2>1. PICK l : l = conf[cur].ecap
    OBVIOUS
  <2>2. Stands({}, l, 1)
    BY WalkBegins
  <2>3. (IF AtEnd THEN None ELSE off)' = Real(l, 1)
    BY <1>1, <2>1 DEF AtEnd, List, Real
  <2>4. Ecap'[cur'] = {} /\ conf'[cur'].ecap = l
    BY <1>1, <2>1 DEF CapsInv
  <2> QED BY <2>2, <2>3, <2>4 DEF Stands, Walking
<1> QED BY <1>1, <1>2, <1>3, <1>4 DEF CapsInv

LEMMA EcapsDoneCaps ==
  ASSUME IInv, CapsInv, EcapsDone
  PROVE  CapsInv'
<1>1. /\ phase = "ecap" /\ AtEnd /\ phase' = "add" /\ cur' = None
      /\ UNCHANGED <<conf, todo, Ocap, Ecap, devs>>
  BY DEF EcapsDone, caps
<1>2. Acyclic(conf[cur].ecap) /\ Narrow(conf[cur].ecap) => Holds(Ecap[cur], conf[cur].ecap)
  <2> SUFFICES ASSUME Acyclic(conf[cur].ecap), Narrow(conf[cur].ecap)
               PROVE  Holds(Ecap[cur], conf[cur].ecap)
    OBVIOUS
  <2>1. PICK l : l = conf[cur].ecap
    OBVIOUS
  <2>2. l = List /\ Walking(Ecap[cur], l)
    BY <1>1, <2>1 DEF List, CapsInv
  <2>3. Stands(Ecap[cur], l, off)
    BY <2>2, StandsHere
  <2>4. Real(l, off) = None
    BY <1>1, <2>2 DEF AtEnd, Real
  <2> QED BY <2>1, <2>3, <2>4, WalkIsOver
<1>3. CapsRight'
  BY <1>1, <1>2 DEF CapsInv, CapsRight, OcapRight
<1> QED BY <1>1, <1>3 DEF CapsInv

LEMMA CapsStep ==
  ASSUME IInv, CapsInv, [Next]_vars
  PROVE  CapsInv'
<1>1. ASSUME Sort PROVE CapsInv'
  <2>1. Range(devs') = Range(devs)
    BY <1>1, SortedFacts DEF IInv, TypeOK, Sort
  <2> QED BY <1>1, <2>1, MapsKept DEF Sort
<1>2. ASSUME Link PROVE CapsInv'
  BY <1>2, MapsKept DEF Link
<1>3. ASSUME Name PROVE CapsInv'
  BY <1>3, MapsKept DEF Name
<1>4. ASSUME UNCHANGED vars PROVE CapsInv'
  BY <1>4 DEF CapsInv, CapsRight, OcapRight, Walking, AtEnd, List, vars, caps
<1> QED
  BY <1>1, <1>2, <1>3, <1>4, AddDevCaps, WalkCaps, CapsDoneCaps, EcapsDoneCaps DEF Next

LEMMA CapsBegin == Init => CapsInv
BY DEF Init, CapsInv, CapsRight, Each, Range

\* The capability maps hold what is in configuration space, for devices with any
\* lists, also ones that lead backwards, and any number of capabilities.
THEOREM MapsHoldLists == Spec => []CapsRight
<1>1. CapsInv => CapsRight
  BY DEF CapsInv
<1> QED BY <1>1, CapsBegin, CapsStep, ScanInvariant, PTL DEF Spec

-----------------------------------------------------------------------------
(* Why a scan ends                                                         *)

\* A list without a cycle leads to each of its headers once: else what is between
\* the two would come again before the end.
LEMMA HeadersDiffer ==
  ASSUME NEW list, Acyclic(list), NEW p \in 0..NHeaders, NEW q \in 0..NHeaders, p < q,
         Nth(list)[q] # None
  PROVE  Nth(list)[p] # Nth(list)[q]
<1> SUFFICES ASSUME Nth(list)[p] = Nth(list)[q] PROVE FALSE
  OBVIOUS
<1> DEFINE Z == {k \in 0..NHeaders : Nth(list)[k] = None}
<1>1. NHeaders \in Z
  BY NHeadersType DEF Acyclic, NHeaders
<1>2. PICK z \in Z : \A k \in Z : z <= k
  <2>1. Z \in SUBSET Nat /\ Z # {}
    BY <1>1, NHeadersType
  <2> HIDE DEF Z
  <2> QED BY <2>1, Least
<1>3. z \in 0..NHeaders /\ Nth(list)[z] = None
  BY <1>2
<1>4. q < z
  <2>1. \A k \in z..NHeaders : Nth(list)[k] = None
    BY <1>3, NthEnds
  <2>2. q \notin z..NHeaders
    BY <2>1
  <2> QED BY <1>3, <2>2, NHeadersType
<1> HIDE DEF Z
<1> DEFINE T == {k \in 0..z - q : Nth(list)[p + k] # Nth(list)[q + k]}
<1>5. CASE T = {}
  <2>1. z - q \in 0..z - q /\ q + (z - q) = z /\ p + (z - q) \in 0..NHeaders /\ p + (z - q) < z
    BY <1>3, <1>4, NHeadersType
  <2>2. Nth(list)[p + (z - q)] = None
    BY <1>3, <1>5, <2>1
  <2>3. p + (z - q) \in Z
    BY <2>1, <2>2 DEF Z
  <2>4. z <= p + (z - q)
    BY <1>2, <2>3
  <2> QED BY <1>3, <2>1, <2>4, NHeadersType
<1>6. CASE T # {}
  <2>1. PICK k \in T : \A j \in T : k <= j
    <3>1. T \in SUBSET Nat
      BY <1>3, <1>4, NHeadersType
    <3> HIDE DEF T
    <3> QED BY <1>6, <3>1, Least
  <2>2. k \in 0..z - q /\ Nth(list)[p + k] # Nth(list)[q + k]
    BY <2>1
  <2>3. k # 0
    BY <2>2
  <2>4. PICK l : l = k - 1
    OBVIOUS
  <2>5. /\ l \in 0..z - q /\ l < k
        /\ p + l \in 0..NHeaders /\ (p + l) + 1 = p + k /\ (p + l) + 1 <= NHeaders
        /\ q + l \in 0..NHeaders /\ (q + l) + 1 = q + k /\ (q + l) + 1 <= NHeaders
    BY <1>3, <1>4, <2>2, <2>3, <2>4, NHeadersType
  <2>6. Nth(list)[p + l] = Nth(list)[q + l]
    <3>1. l \notin T
      BY <2>1, <2>2, <2>5
    <3> QED BY <2>5, <3>1
  <2> HIDE DEF T
  <2>7. PICK a \in 0..NHeaders : a = p + l /\ a + 1 <= NHeaders /\ a + 1 = p + k
    BY <2>5
  <2>8. PICK b \in 0..NHeaders : b = q + l /\ b + 1 <= NHeaders /\ b + 1 = q + k
    BY <2>5
  <2>9. Nth(list)[a] = Nth(list)[b] /\ Nth(list)[a + 1] # Nth(list)[b + 1]
    BY <2>2, <2>6, <2>7, <2>8
  <2> QED BY <2>7, <2>8, <2>9, NthFacts
<1> QED BY <1>5, <1>6

\* What HeadersLeft counts, of any list.
Left(list, o) ==
  IF Real(list, o) = None THEN 0
  ELSE NHeaders - CHOOSE p \in DOMAIN Nth(list) : Nth(list)[p] = o

Met(list, o) == \E p \in DOMAIN Nth(list) : Nth(list)[p] = Real(list, o)

LEMMA HeadersLeftIs == HeadersLeft = Left(List, off)
BY DEF HeadersLeft, Left, AtEnd, Real, NHeaders

LEMMA LeftIs ==
  ASSUME NEW list, Acyclic(list), NEW o, o # None, list[o].id # NoId,
         NEW p \in DOMAIN Nth(list), Nth(list)[p] = o
  PROVE  Left(list, o) = NHeaders - p /\ p \in 0..NHeaders
<1>1. DOMAIN Nth(list) = 0..NHeaders
  BY NthFacts
<1>2. PICK c : c = CHOOSE q \in DOMAIN Nth(list) : Nth(list)[q] = o
  OBVIOUS
<1>3. c \in 0..NHeaders /\ p \in 0..NHeaders /\ Nth(list)[c] = o
  BY <1>1, <1>2
<1>4. ~(c < p) /\ ~(p < c)
  BY <1>3, HeadersDiffer
<1>5. c = p
  BY <1>3, <1>4, NHeadersType
<1>6. Left(list, o) = NHeaders - c
  BY <1>2 DEF Left, Real
<1> QED BY <1>3, <1>5, <1>6

LEMMA LeftType ==
  ASSUME NEW list, Acyclic(list), NEW o, Met(list, o)
  PROVE  Left(list, o) \in 0..NHeaders
<1>1. CASE Real(list, o) = None
  BY <1>1, NHeadersType DEF Left
<1>2. CASE Real(list, o) # None
  <2>1. o # None /\ list[o].id # NoId /\ Real(list, o) = o
    BY <1>2 DEF Real
  <2>2. PICK p \in DOMAIN Nth(list) : Nth(list)[p] = o
    BY <2>1 DEF Met
  <2>3. Left(list, o) = NHeaders - p /\ p \in 0..NHeaders
    BY <2>1, <2>2, LeftIs
  <2> QED BY <2>3, NHeadersType
<1> QED BY <1>1, <1>2

\* A step along the list.
LEMMA LeftLess ==
  ASSUME NEW list, Acyclic(list), NEW o, Met(list, o), o # None, list[o].id # NoId
  PROVE  Left(list, list[o].next) \in 0..NHeaders /\ Left(list, list[o].next) < Left(list, o)
<1>1. Real(list, o) = o
  BY DEF Real
<1>2. PICK p \in DOMAIN Nth(list) : Nth(list)[p] = o
  BY <1>1 DEF Met
<1>3. Left(list, o) = NHeaders - p /\ p \in 0..NHeaders
  BY <1>2, LeftIs
<1>4. Nth(list)[NHeaders] = None
  BY DEF Acyclic, NHeaders
<1>5. p + 1 <= NHeaders /\ p + 1 \in 0..NHeaders
  BY <1>2, <1>3, <1>4, NHeadersType
<1>6. PICK m : m = list[o].next
  OBVIOUS
<1>7. Nth(list)[p + 1] = Real(list, m) /\ p + 1 \in DOMAIN Nth(list)
  BY <1>2, <1>3, <1>5, <1>6, NthFacts
<1>8. CASE Real(list, m) = None
  <2>1. Left(list, m) = 0
    BY <1>8 DEF Left
  <2> QED BY <1>3, <1>5, <1>6, <2>1, NHeadersType
<1>9. CASE Real(list, m) # None
  <2>1. m # None /\ list[m].id # NoId /\ Real(list, m) = m
    BY <1>9 DEF Real
  <2>2. PICK q \in DOMAIN Nth(list) : q = p + 1 /\ Nth(list)[q] = m
    BY <1>7, <2>1
  <2>3. Left(list, m) = NHeaders - q
    BY <2>1, <2>2, LeftIs
  <2> QED BY <1>3, <1>5, <1>6, <2>2, <2>3, NHeadersType
<1> QED BY <1>8, <1>9

PerDevice == 2 * NHeaders + 5
Listing(c, t, l) == c * t + 2 * l + 4

\* The loops of PciInit end at the end of the devices.
LoopInv == phase = "link" => idx <= Len(devs) + 1

LEMMA LoopStep == ASSUME IInv, LoopInv, [Next]_vars PROVE LoopInv'
<1>1. Len(devs) \in Nat /\ idx \in Nat \ {0}
  BY RangeOfDevs DEF IInv, TypeOK
<1>2. CASE Sort
  <2>1. phase' = "link" /\ idx' = 1 /\ devs' = Sorted(devs)
    BY <1>2 DEF Sort
  <2>2. Len(devs') \in Nat
    BY <2>1, SortedFacts DEF IInv, TypeOK
  <2> QED BY <2>1, <2>2 DEF LoopInv
<1>3. CASE Link
  BY <1>1, <1>3 DEF Link, LoopInv
<1>4. CASE ~Sort /\ ~Link
  <2>1. phase' # "link" \/ UNCHANGED <<phase, idx, devs>>
    BY <1>4 DEF Next, AddDev, Walk, CapsDone, EcapsDone, Name, vars
  <2> QED BY <2>1 DEF LoopInv
<1> QED BY <1>2, <1>3, <1>4

LEMMA OneLess ==
  ASSUME NEW c \in Nat, NEW t \in Nat
  PROVE  (c - 1) * t = c * t - t /\ c * t \in Nat
OBVIOUS

StepsRight ==
  /\ phase = "add" => StepsLeft = Listing(Cardinality(todo), PerDevice, Len(devs))
  /\ phase = "ocap" =>
       StepsLeft = Listing(Cardinality(todo), PerDevice, Len(devs)) + NHeaders + 2 + Left(List, off)
  /\ phase = "ecap" =>
       StepsLeft = Listing(Cardinality(todo), PerDevice, Len(devs)) + 1 + Left(List, off)
  /\ phase = "link" => StepsLeft = 2 * Len(devs) + 4 - idx
  /\ phase = "name" => StepsLeft = Len(devs) + 2 - idx
  /\ phase \in {"done", "panic"} => StepsLeft = 0

LEMMA StepsAre == StepsRight
BY HeadersLeftIs DEF StepsRight, StepsLeft, Listing, PerDevice, NHeaders

LEMMA StepsAreNext == StepsRight'
BY StepsAre, PTL

\* How much is left of the list of cur.
LeftRight ==
  phase \in {"ocap", "ecap"} =>
    /\ Left(List, off) \in 0..NHeaders
    /\ off # None => Met(List, off) /\ Acyclic(List)

LEMMA LeftHere == IInv /\ CapsInv /\ NoCycles => LeftRight
<1> SUFFICES ASSUME IInv, CapsInv, NoCycles, phase \in {"ocap", "ecap"}
             PROVE  /\ Left(List, off) \in 0..NHeaders
                    /\ off # None => Met(List, off) /\ Acyclic(List)
  BY DEF LeftRight
<1>1. cur \in Devices
  BY RangeOfDevs DEF IInv, ListInv
<1>2. PICK l : l = List
  OBVIOUS
<1>3. Acyclic(l)
  BY <1>1, <1>2 DEF NoCycles, List
<1>4. CASE off = None
  <2>1. Left(l, off) = 0
    BY <1>4 DEF Left, Real
  <2> QED BY <1>2, <1>4, <2>1, NHeadersType
<1>5. CASE off # None
  <2>1. PICK map : Walking(map, l)
    BY <1>2, <1>5 DEF CapsInv, List
  <2>2. Stands(map, l, off)
    BY <1>2, <2>1, StandsHere
  <2>3. Met(l, off)
    BY <1>3, <2>2 DEF Stands, Met
  <2>4. Left(l, off) \in 0..NHeaders
    BY <1>3, <2>3, LeftType
  <2> QED BY <1>2, <1>3, <2>3, <2>4
<1> QED BY <1>4, <1>5

LEMMA LeftHereNext == (IInv /\ CapsInv /\ NoCycles)' => LeftRight'
BY LeftHere, PTL

LEMMA ListingType ==
  ASSUME IInv
  PROVE  Listing(Cardinality(todo), PerDevice, Len(devs)) \in Nat
<1>1. IsFiniteSet(todo)
  BY DevicesAssumption, FS_Subset DEF IInv, TypeOK
<1>2. Cardinality(todo) \in Nat /\ PerDevice \in Nat /\ Len(devs) \in Nat
  BY <1>1, FS_CardinalityType, NHeadersType, RangeOfDevs DEF IInv, PerDevice
<1>3. Cardinality(todo) * PerDevice \in Nat
  BY <1>2, OneLess
<1> QED BY <1>2, <1>3 DEF Listing

\* Each step of AddDev, PciInit and InitNickName comes closer to the end.
LEMMA AdvanceAdd ==
  ASSUME IInv, CapsInv, CapsInv', IInv', NoCycles, NEW d \in Devices, AddDev(d)
  PROVE  StepsLeft' >= 0 /\ StepsLeft' < StepsLeft
<1>1. /\ phase = "add" /\ d \in todo /\ todo' = todo \ {d} /\ todo \subseteq Devices
      /\ Len(devs) \in Nat
  BY RangeOfDevs DEF AddDev, IInv, TypeOK
<1>2. IsFiniteSet(todo)
  BY <1>1, DevicesAssumption, FS_Subset
<1>3. Cardinality(todo') = Cardinality(todo) - 1 /\ Cardinality(todo) \in Nat /\ Cardinality(todo') \in Nat
  <2>1. IsFiniteSet(todo')
    BY <1>1, <1>2, FS_Subset
  <2> QED BY <1>1, <1>2, <2>1, FS_RemoveElement, FS_CardinalityType
<1>4. PICK c \in Nat : c = Cardinality(todo)
  BY <1>3
<1>5. PerDevice \in Nat /\ PerDevice = 2 * NHeaders + 5 /\ NHeaders \in Nat
  BY NHeadersType DEF PerDevice
<1>6. PICK l \in Nat : l = Len(devs)
  BY <1>1
<1>7. PICK a \in Nat, b \in Nat : a = c * PerDevice /\ b = (c - 1) * PerDevice /\ b = a - PerDevice
  <2>1. (c - 1) * PerDevice = c * PerDevice - PerDevice /\ c * PerDevice \in Nat
    BY <1>5, OneLess
  <2>2. c - 1 \in Nat
    BY <1>3, <1>4
  <2>3. (c - 1) * PerDevice \in Nat
    BY <1>5, <2>2, OneLess
  <2> QED BY <2>1, <2>3
<1>8. StepsLeft = a + 2 * l + 4
  BY <1>1, <1>4, <1>6, <1>7, StepsAre DEF StepsRight, Listing
<1>9. CASE ~conf[d].present
  <2>1. phase' = "add" /\ devs' = devs
    BY <1>1, <1>9 DEF AddDev
  <2>2. StepsLeft' = b + 2 * l + 4
    <3>1. StepsLeft' = Listing(Cardinality(todo'), PerDevice, Len(devs'))
      BY <2>1, StepsAreNext DEF StepsRight
    <3> QED BY <1>3, <1>4, <1>6, <1>7, <2>1, <3>1 DEF Listing
  <2> QED BY <1>5, <1>7, <1>8, <2>2
<1>10. CASE conf[d].present
  <2>1. phase' = "ocap" /\ devs' = Append(devs, d)
    BY <1>10 DEF AddDev
  <2>2. Len(devs') = l + 1
    BY <1>6, <2>1 DEF IInv, TypeOK
  <2>3. Left(List, off)' \in 0..NHeaders
    <3>1. NoCycles'
      BY DEF NoCycles, AddDev
    <3> QED BY <2>1, <3>1, LeftHereNext DEF LeftRight
  <2>4. PICK h \in 0..NHeaders : h = Left(List, off)'
    BY <2>3
  <2>5. StepsLeft' = b + 2 * (l + 1) + 4 + NHeaders + 2 + h
    <3>1. StepsLeft' = Listing(Cardinality(todo'), PerDevice, Len(devs')) + NHeaders + 2 + Left(List, off)'
      BY <2>1, StepsAreNext DEF StepsRight
    <3> QED BY <1>3, <1>4, <1>7, <2>2, <2>4, <3>1 DEF Listing
  <2> QED BY <1>5, <1>7, <1>8, <2>4, <2>5
<1> QED BY <1>9, <1>10

LEMMA AdvanceWalk ==
  ASSUME IInv, CapsInv, NoCycles, Walk
  PROVE  StepsLeft' >= 0 /\ StepsLeft' < StepsLeft
<1>1. /\ phase \in {"ocap", "ecap"} /\ off # None /\ List[off].id # NoId
      /\ off' = List[off].next /\ List' = List
      /\ UNCHANGED <<phase, todo, devs>>
  BY DEF Walk, AtEnd, NextOf, List
<1>2. PICK l, o : l = List /\ o = off
  OBVIOUS
<1>3. Left(l, l[o].next) \in 0..NHeaders /\ Left(l, l[o].next) < Left(l, o)
  <2>1. Met(l, o) /\ Acyclic(l)
    BY <1>1, <1>2, LeftHere DEF LeftRight
  <2> QED BY <1>1, <1>2, <2>1, LeftLess
<1>4. Left(List, off) \in 0..NHeaders /\ Left(List, off)' \in 0..NHeaders /\ Left(List, off)' < Left(List, off)
  <2>1. Left(List, off) \in 0..NHeaders
    BY <1>1, LeftHere DEF LeftRight
  <2>2. Left(List, off)' = Left(l, l[o].next)
    BY <1>1, <1>2 DEF Left, Real
  <2> QED BY <1>2, <1>3, <2>1, <2>2
<1>5. PICK g, h : g = Left(List, off) /\ h = Left(List, off)'
  OBVIOUS
<1>6. g \in 0..NHeaders /\ h \in 0..NHeaders /\ h < g
  BY <1>4, <1>5
<1>7. PICK r : r = Listing(Cardinality(todo), PerDevice, Len(devs))
  OBVIOUS
<1>8. r \in Nat
  BY <1>7, ListingType
<1>9. /\ phase = "ocap" => StepsLeft = r + NHeaders + 2 + g /\ StepsLeft' = r + NHeaders + 2 + h
      /\ phase = "ecap" => StepsLeft = r + 1 + g /\ StepsLeft' = r + 1 + h
  BY <1>1, <1>5, <1>7, StepsAre, StepsAreNext DEF StepsRight
<1> QED BY <1>1, <1>6, <1>8, <1>9, NHeadersType

LEMMA AdvanceCaps ==
  ASSUME IInv, CapsInv, (IInv /\ CapsInv)', NoCycles, CapsDone \/ EcapsDone
  PROVE  StepsLeft' >= 0 /\ StepsLeft' < StepsLeft
<1>1. UNCHANGED <<todo, devs, conf>> /\ phase \in {"ocap", "ecap"}
  BY DEF CapsDone, EcapsDone
<1>2. Left(List, off) \in 0..NHeaders
  BY <1>1, LeftHere DEF LeftRight
<1>3. PICK r : r = Listing(Cardinality(todo), PerDevice, Len(devs))
  OBVIOUS
<1>4. r \in Nat /\ NHeaders \in Nat
  BY <1>3, ListingType, NHeadersType
<1>5. CASE CapsDone
  <2>1. phase = "ocap" /\ phase' = "ecap"
    BY <1>5 DEF CapsDone
  <2>2. Left(List, off)' \in 0..NHeaders
    <3>1. NoCycles'
      BY <1>1 DEF NoCycles
    <3> QED BY <2>1, <3>1, LeftHereNext DEF LeftRight
  <2>3. StepsLeft = r + NHeaders + 2 + Left(List, off) /\ StepsLeft' = r + 1 + Left(List, off)'
    BY <1>1, <1>3, <2>1, StepsAre, StepsAreNext DEF StepsRight
  <2> QED BY <1>2, <1>4, <2>2, <2>3
<1>6. CASE EcapsDone
  <2>1. phase = "ecap" /\ phase' = "add"
    BY <1>6 DEF EcapsDone
  <2>2. StepsLeft = r + 1 + Left(List, off) /\ StepsLeft' = r
    BY <1>1, <1>3, <2>1, StepsAre, StepsAreNext DEF StepsRight
  <2> QED BY <1>2, <1>4, <2>2
<1> QED BY <1>5, <1>6

LEMMA AdvanceLoops ==
  ASSUME IInv, LoopInv, Sort \/ Link \/ Name
  PROVE  StepsLeft' >= 0 /\ StepsLeft' < StepsLeft
<1>1. Len(devs) \in Nat /\ idx \in Nat \ {0}
  BY RangeOfDevs DEF IInv, TypeOK
<1>2. PICK l \in Nat : l = Len(devs)
  BY <1>1
<1>3. CASE Sort
  <2>1. phase = "add" /\ phase' = "link" /\ idx' = 1 /\ devs' = Sorted(devs) /\ todo = {}
    BY <1>3 DEF Sort
  <2>2. Len(devs') = l
    <3>1. devs \in Seq(Devices) /\ Sorted(devs) \in Seq(Devices)
      BY SortedFacts DEF IInv, TypeOK
    <3>2. DOMAIN Sorted(devs) = DOMAIN devs
      BY DEF Sorted
    <3>3. PICK s : s = Sorted(devs)
      OBVIOUS
    <3>4. 1..Len(s) = 1..l /\ Len(s) \in Nat
      BY <1>2, <3>1, <3>2, <3>3, LenProperties
    <3>5. Len(s) = l
      BY <3>4
    <3> QED BY <2>1, <3>3, <3>5
  <2>3. Cardinality(todo) = 0
    BY <2>1, FS_EmptySet
  <2>4. StepsLeft = Listing(0, PerDevice, l) /\ StepsLeft' = 2 * l + 4 - 1
    BY <1>2, <2>1, <2>2, <2>3, StepsAre, StepsAreNext DEF StepsRight
  <2>5. Listing(0, PerDevice, l) = 2 * l + 4
    BY NHeadersType DEF Listing, PerDevice
  <2> QED BY <2>4, <2>5
<1>4. CASE Link
  <2>1. phase = "link" /\ devs' = devs
    BY <1>4 DEF Link
  <2>2. StepsLeft = 2 * l + 4 - idx /\ idx <= l + 1
    BY <1>2, <2>1, StepsAre DEF StepsRight, LoopInv
  <2>3. CASE idx > Len(devs)
    <3>1. phase' = "name" /\ idx' = 1
      BY <1>4, <2>3 DEF Link
    <3>2. StepsLeft' = l + 2 - 1
      BY <1>2, <2>1, <3>1, StepsAreNext DEF StepsRight
    <3> QED BY <1>1, <1>2, <2>2, <3>2
  <2>4. CASE ~(idx > Len(devs))
    <3>1. phase' = "link" /\ idx' = idx + 1
      BY <1>4, <2>1, <2>4 DEF Link
    <3>2. StepsLeft' = 2 * l + 4 - (idx + 1)
      BY <1>2, <2>1, <3>1, StepsAreNext DEF StepsRight
    <3> QED BY <1>1, <1>2, <2>2, <2>4, <3>2
  <2> QED BY <2>3, <2>4
<1>5. CASE Name
  <2>1. phase = "name" /\ devs' = devs
    BY <1>5 DEF Name
  <2>2. StepsLeft = l + 2 - idx /\ idx <= l + 1
    BY <1>2, <2>1, StepsAre DEF StepsRight, IInv, NameInv
  <2>3. CASE phase' \in {"done", "panic"}
    <3>1. StepsLeft' = 0
      BY <2>3, StepsAreNext DEF StepsRight
    <3> QED BY <1>1, <1>2, <2>2, <3>1
  <2>4. CASE phase' \notin {"done", "panic"}
    <3>1. phase' = "name" /\ idx' = idx + 1 /\ ~(idx > Len(devs))
      BY <1>5, <2>1, <2>4 DEF Name
    <3>2. StepsLeft' = l + 2 - (idx + 1)
      BY <1>2, <2>1, <3>1, StepsAreNext DEF StepsRight
    <3> QED BY <1>1, <1>2, <2>2, <3>1, <3>2
  <2> QED BY <2>3, <2>4
<1> QED BY <1>3, <1>4, <1>5

\* The listing of the devices, their registers and the loops over them come to an
\* end, after at most (2 * headers + 5) * devices + 4 steps, for any number of both:
\* what is left of ScanEnds is that a scan can always take its next step.
THEOREM EveryStepAdvances == Spec => ScanAdvances
<1>1. Init => LoopInv
  BY DEF Init, LoopInv
<1>2. IInv /\ CapsInv /\ LoopInv /\ (IInv /\ CapsInv)' /\ [Next]_vars =>
        [NoCycles => StepsLeft' >= 0 /\ StepsLeft' < StepsLeft]_vars
  <2> SUFFICES ASSUME IInv, CapsInv, LoopInv, (IInv /\ CapsInv)', Next, NoCycles
               PROVE  StepsLeft' >= 0 /\ StepsLeft' < StepsLeft
    OBVIOUS
  <2>1. ASSUME NEW d \in Devices, AddDev(d)
        PROVE  StepsLeft' >= 0 /\ StepsLeft' < StepsLeft
    BY <2>1, AdvanceAdd
  <2> QED BY <2>1, AdvanceWalk, AdvanceCaps, AdvanceLoops DEF Next
<1>3. IInv /\ CapsInv /\ [Next]_vars => CapsInv'
  BY CapsStep
<1>4. IInv /\ LoopInv /\ [Next]_vars => LoopInv'
  BY LoopStep
<1> QED BY <1>1, <1>2, <1>3, <1>4, CapsBegin, ScanInvariant, PTL DEF Spec, ScanAdvances
=============================================================================
