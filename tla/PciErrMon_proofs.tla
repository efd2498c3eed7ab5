-------------------------- MODULE PciErrMon_proofs --------------------------
(***************************************************************************)
(* Every error status bit is counted or printed exactly once, and the fast *)
(* phase polls the right links, for any devices, links and masks.          *)
(***************************************************************************)
EXTENDS PciErrMon, FiniteSetTheorems, TLAPS

-----------------------------------------------------------------------------
(* Sums over a finite set.  A recursive definition has the value it says   *)
(* because there is no smallest set for which it has not.                  *)

\* Of finite sets there is a smallest one, which stands in for induction over them.
LEMMA MinimalSet ==
  ASSUME NEW S, IsFiniteSet(S), NEW T \in SUBSET (SUBSET S), T # {}
  PROVE  \E s \in T : \A t \in T : t \subseteq s => t = s
<1>1. T \subseteq FiniteSubsetsOf(S)
  BY FS_FiniteSubsetsOfFinite
<1>2. PICK s \in T : \A t \in T : <<t, s>> \notin StrictSubsetOrdering(S)
  BY <1>1, FS_StrictSubsetOrderingWellFounded, WFMin
<1> QED BY <1>2 DEF StrictSubsetOrdering

Total(f) == FoldFunction(+, 0, f)

\* The sums the fold goes through: of f over each subset of S.
First(s) == CHOOSE e \in s : TRUE
SumOf(f, g, s) == IF s = {} THEN 0 ELSE f[First(s)] + g[s \ {First(s)}]
AreSums(f, S, g) == g = [s \in SUBSET S |-> SumOf(f, g, s)]
Sums(f, S) == CHOOSE g : AreSums(f, S, g)

LEMMA FoldIsSum == ASSUME NEW f PROVE Total(f) = Sums(f, DOMAIN f)[DOMAIN f]
BY DEF Total, FoldFunction, FoldFunctionOnSet, MapThenFoldSet, Sums, AreSums, SumOf, First

LEMMA FirstOf == ASSUME NEW s, s # {} PROVE First(s) \in s /\ s \ {First(s)} # s
BY DEF First

LEMMA SumsAgree ==
  ASSUME NEW S, IsFiniteSet(S), NEW A \in SUBSET S, NEW B \in SUBSET S, NEW f, NEW g, NEW h,
         AreSums(f, A, g), AreSums(f, B, h), NEW s \in SUBSET A, s \in SUBSET B
  PROVE  g[s] = h[s]
<1> DEFINE Bad == {t \in SUBSET S : t \subseteq A /\ t \subseteq B /\ g[t] # h[t]}
<1> SUFFICES Bad = {}
  OBVIOUS
<1> SUFFICES ASSUME Bad # {} PROVE FALSE
  OBVIOUS
<1>1. PICK t \in Bad : \A u \in Bad : u \subseteq t => u = t
  <2>1. Bad \in SUBSET (SUBSET S)
    OBVIOUS
  <2> HIDE DEF Bad
  <2> QED BY <2>1, MinimalSet
<1>2. /\ t \in SUBSET A /\ t \in SUBSET B /\ g[t] # h[t]
      /\ g[t] = SumOf(f, g, t) /\ h[t] = SumOf(f, h, t)
  BY <1>1 DEF AreSums
<1>3. t # {}
  BY <1>2 DEF SumOf
<1> DEFINE u == t \ {First(t)}
<1>4. u \subseteq t /\ u # t
  BY <1>3, FirstOf
<1>5. g[u] = h[u]
  <2>1. u \notin Bad
    <3> HIDE DEF Bad, u
    <3> QED BY <1>1, <1>4
  <2> QED BY <1>2, <1>4, <2>1
<1> QED BY <1>2, <1>3, <1>5 DEF SumOf

\* The recursion has a solution.
LEMMA SumsExist == ASSUME NEW S, IsFiniteSet(S), NEW f PROVE AreSums(f, S, Sums(f, S))
<1> DEFINE Bad == {t \in SUBSET S : ~\E g : AreSums(f, t, g)}
<1> SUFFICES Bad = {}
  <2>1. \E g : AreSums(f, S, g)
    OBVIOUS
  <2> QED BY <2>1 DEF Sums
<1> SUFFICES ASSUME Bad # {} PROVE FALSE
  OBVIOUS
<1>1. PICK t \in Bad : \A u \in Bad : u \subseteq t => u = t
  <2>1. Bad \in SUBSET (SUBSET S)
    OBVIOUS
  <2> HIDE DEF Bad
  <2> QED BY <2>1, MinimalSet
<1>2. t \in SUBSET S /\ ~\E g : AreSums(f, t, g)
  BY <1>1
<1>3. \A u \in SUBSET t : u # t => AreSums(f, u, Sums(f, u))
  <2> SUFFICES ASSUME NEW u \in SUBSET t, u # t PROVE AreSums(f, u, Sums(f, u))
    OBVIOUS
  <2>1. u \notin Bad /\ u \in SUBSET S
    <3>1. u \in SUBSET S
      BY <1>2
    <3> HIDE DEF Bad
    <3> QED BY <1>1, <3>1
  <2>2. \E g : AreSums(f, u, g)
    BY <2>1
  <2> QED BY <2>2 DEF Sums
<1> DEFINE v == t \ {First(t)}
           h == [s \in SUBSET t |-> IF s # t THEN Sums(f, s)[s]
                                    ELSE IF t = {} THEN 0 ELSE f[First(t)] + Sums(f, v)[v]]
<1>4. ASSUME NEW s \in SUBSET t PROVE h[s] = SumOf(f, h, s)
  <2>1. CASE s = {}
    <3>1. ASSUME s # t PROVE Sums(f, s)[s] = 0
      BY <1>3, <2>1, <3>1 DEF AreSums, SumOf
    <3> QED BY <2>1, <3>1 DEF SumOf
  <2>2. CASE s # {} /\ s = t
    <3>1. v \in SUBSET t /\ v # t
      BY <2>2, FirstOf
    <3>2. h[v] = Sums(f, v)[v]
      BY <3>1
    <3> QED BY <2>2, <3>2 DEF SumOf
  <2>3. CASE s # {} /\ s # t
    <3> DEFINE u == s \ {First(s)}
    <3>1. u \in SUBSET s /\ u \in SUBSET t /\ u # t /\ u # s
      BY <2>3, FirstOf
    <3>2. AreSums(f, s, Sums(f, s)) /\ AreSums(f, u, Sums(f, u))
      BY <1>3, <2>3, <3>1
    <3>3. Sums(f, s)[s] = f[First(s)] + Sums(f, s)[u]
      BY <2>3, <3>2 DEF AreSums, SumOf
    <3>4. Sums(f, s)[u] = Sums(f, u)[u]
      <4>1. s \in SUBSET S /\ u \in SUBSET S
        BY <1>2, <3>1
      <4> HIDE DEF u
      <4> QED BY <3>1, <3>2, <4>1, SumsAgree
    <3>5. h[u] = Sums(f, u)[u]
      BY <3>1
    <3> QED BY <2>3, <3>3, <3>4, <3>5 DEF SumOf
  <2> QED BY <2>1, <2>2, <2>3
<1>5. AreSums(f, t, h)
  <2>1. h = [s \in SUBSET t |-> h[s]]
    OBVIOUS
  <2> HIDE DEF h
  <2> QED BY <1>4, <2>1 DEF AreSums
<1> QED BY <1>2, <1>5

LEMMA SumsStep ==
  ASSUME NEW S, IsFiniteSet(S), NEW f, NEW s \in SUBSET S
  PROVE  Sums(f, S)[s] = SumOf(f, Sums(f, S), s)
<1>1. PICK g : g = Sums(f, S)
  OBVIOUS
<1>2. AreSums(f, S, g)
  <2>1. AreSums(f, S, Sums(f, S))
    BY SumsExist
  <2> QED BY <1>1, <2>1
<1>3. g[s] = SumOf(f, g, s)
  BY <1>2 DEF AreSums
<1> QED BY <1>1, <1>3

LEMMA SumNat ==
  ASSUME NEW S, IsFiniteSet(S), NEW f \in [S -> Nat]
  PROVE  \A s \in SUBSET S : Sums(f, S)[s] \in Nat
<1> DEFINE g == Sums(f, S)
           Bad == {t \in SUBSET S : g[t] \notin Nat}
<1> SUFFICES ASSUME Bad # {} PROVE FALSE
  OBVIOUS
<1>1. PICK t \in Bad : \A u \in Bad : u \subseteq t => u = t
  <2>1. Bad \in SUBSET (SUBSET S)
    OBVIOUS
  <2> HIDE DEF Bad
  <2> QED BY <2>1, MinimalSet
<1>2. t \in SUBSET S /\ g[t] \notin Nat /\ g[t] = SumOf(f, g, t)
  BY <1>1, SumsStep
<1>3. t # {}
  BY <1>2 DEF SumOf
<1> DEFINE u == t \ {First(t)}
<1>4. u \subseteq t /\ u # t /\ First(t) \in S
  BY <1>2, <1>3, FirstOf
<1>5. g[u] \in Nat
  <2>1. u \notin Bad
    <3> HIDE DEF Bad, u
    <3> QED BY <1>1, <1>4
  <2> HIDE DEF g
  <2> QED BY <1>2, <1>4, <2>1
<1> HIDE DEF g
<1> QED BY <1>2, <1>3, <1>4, <1>5 DEF SumOf

\* What has one more on a set sums up to that many more.
LEMMA SumMore ==
  ASSUME NEW S, IsFiniteSet(S), NEW f \in [S -> Nat], NEW G \in SUBSET S
  PROVE  \A s \in SUBSET S :
           Sums([e \in S |-> IF e \in G THEN f[e] + 1 ELSE f[e]], S)[s]
             = Sums(f, S)[s] + Cardinality(G \cap s)
<1> DEFINE f2 == [e \in S |-> IF e \in G THEN f[e] + 1 ELSE f[e]]
           g == Sums(f, S)
           g2 == Sums(f2, S)
           Bad == {t \in SUBSET S : g2[t] # g[t] + Cardinality(G \cap t)}
<1> SUFFICES ASSUME Bad # {} PROVE FALSE
  OBVIOUS
<1>1. PICK t \in Bad : \A u \in Bad : u \subseteq t => u = t
  <2>1. Bad \in SUBSET (SUBSET S)
    OBVIOUS
  <2> HIDE DEF Bad
  <2> QED BY <2>1, MinimalSet
<1>2. /\ t \in SUBSET S /\ g2[t] # g[t] + Cardinality(G \cap t)
      /\ g[t] = SumOf(f, g, t) /\ g2[t] = SumOf(f2, g2, t)
  BY <1>1, SumsStep
<1>3. t # {}
  <2>1. G \cap {} = {} /\ Cardinality({}) = 0
    BY FS_EmptySet
  <2> HIDE DEF f2, g, g2
  <2> QED BY <1>2, <2>1 DEF SumOf
<1> DEFINE e == First(t)
           u == t \ {e}
<1>4. u \subseteq t /\ u # t /\ u \in SUBSET S /\ e \in S /\ e \in t
  BY <1>2, <1>3, FirstOf
<1>5. g2[u] = g[u] + Cardinality(G \cap u)
  <2>1. u \notin Bad
    <3> HIDE DEF Bad, u
    <3> QED BY <1>1, <1>4
  <2> HIDE DEF g, g2, u
  <2> QED BY <1>4, <2>1
<1>6. g2[t] = f2[e] + g2[u] /\ g[t] = f[e] + g[u] /\ g[u] \in Nat /\ f[e] \in Nat
  <2>1. g[u] \in Nat
    BY <1>4, SumNat
  <2> HIDE DEF f2, g, g2
  <2> QED BY <1>2, <1>3, <1>4, <2>1 DEF SumOf
<1>7. Cardinality(G \cap t) = Cardinality(G \cap u) + (IF e \in G THEN 1 ELSE 0)
      /\ Cardinality(G \cap u) \in Nat
  <2>1. IsFiniteSet(G \cap u)
    BY FS_Subset
  <2>2. CASE e \in G
    <3>1. G \cap t = (G \cap u) \cup {e} /\ e \notin G \cap u
      BY <1>4, <2>2
    <3> QED BY <2>1, <2>2, <3>1, FS_AddElement, FS_CardinalityType
  <2>3. CASE e \notin G
    <3>1. G \cap t = G \cap u
      BY <2>3
    <3> QED BY <2>1, <2>3, <3>1, FS_CardinalityType
  <2> QED BY <2>2, <2>3
<1>8. f2[e] = f[e] + (IF e \in G THEN 1 ELSE 0)
  BY <1>4, <1>6
<1> HIDE DEF f2, g, g2, u, e
<1> QED BY <1>2, <1>5, <1>6, <1>7, <1>8

LEMMA SumZero == ASSUME NEW S, IsFiniteSet(S) PROVE Sums([e \in S |-> 0], S)[S] = 0
<1> DEFINE f == [e \in S |-> 0]
           g == Sums(f, S)
           Bad == {t \in SUBSET S : g[t] # 0}
<1> SUFFICES ASSUME Bad # {} PROVE FALSE
  OBVIOUS
<1>1. PICK t \in Bad : \A u \in Bad : u \subseteq t => u = t
  <2>1. Bad \in SUBSET (SUBSET S)
    OBVIOUS
  <2> HIDE DEF Bad
  <2> QED BY <2>1, MinimalSet
<1>2. t \in SUBSET S /\ g[t] # 0 /\ g[t] = SumOf(f, g, t)
  BY <1>1, SumsStep
<1>3. t # {}
  BY <1>2 DEF SumOf
<1> DEFINE u == t \ {First(t)}
<1>4. u \subseteq t /\ u # t /\ u \in SUBSET S /\ First(t) \in S
  BY <1>2, <1>3, FirstOf
<1>5. g[u] = 0
  <2>1. u \notin Bad
    <3> HIDE DEF Bad, u
    <3> QED BY <1>1, <1>4
  <2> HIDE DEF g, u
  <2> QED BY <1>4, <2>1
<1>6. f[First(t)] = 0
  BY <1>4
<1> HIDE DEF f, g
<1> QED BY <1>2, <1>3, <1>5, <1>6 DEF SumOf

\* The total of the counters, and what counting the bits of a set once makes of it.
LEMMA TotalOfNone ==
  ASSUME NEW S, IsFiniteSet(S) PROVE Total([e \in S |-> 0]) = 0
<1> DEFINE f == [e \in S |-> 0]
<1>1. DOMAIN f = S
  OBVIOUS
<1>2. Sums(f, S)[S] = 0
  BY SumZero
<1> HIDE DEF f
<1>3. Total(f) = 0
  BY <1>1, <1>2, FoldIsSum
<1> QED BY <1>3 DEF f

LEMMA TotalOfMore ==
  ASSUME NEW S, IsFiniteSet(S), NEW f \in [S -> Nat], NEW G \in SUBSET S,
         NEW g, g = [e \in S |-> IF e \in G THEN f[e] + 1 ELSE f[e]]
  PROVE  Total(g) = Total(f) + Cardinality(G)
<1>1. DOMAIN f = S /\ DOMAIN g = S
  OBVIOUS
<1>2. Total(f) = Sums(f, S)[S] /\ Total(g) = Sums(g, S)[S]
  BY <1>1, FoldIsSum
<1>3. Sums(g, S)[S] = Sums(f, S)[S] + Cardinality(G)
  <2>1. S \in SUBSET S /\ G \cap S = G
    OBVIOUS
  <2> QED BY <2>1, SumMore
<1> QED BY <1>2, <1>3
-----------------------------------------------------------------------------
(* The invariant of the monitor                                            *)

USE DevsAssumption, LinksAssumption, HasAssumption, ItersAssumption

\* What errPoll returns for a register is a number (line 55).
LEMMA GotCountType ==
  ASSUME NEW found \in SUBSET Bits
  PROVE  Cardinality(found) \in Nat
BY FS_Subset, FS_CardinalityType

\* The entry the program is at is a link while it monitors (lines 157, 171).
LEMMA ListEntry ==
  ASSUME TypeOK, Monitoring, at <= Len(List)
  PROVE  at \in 1..Len(List) /\ List[at] \in LinkSet
<1>1. at \in 1..Len(List)
  BY DEF TypeOK, List, Monitoring
<1>2. CASE phase = "slow"
  BY <1>1, <1>2 DEF List, LinkSet, Range
<1>3. CASE phase = "fast"
  BY <1>1, <1>3 DEF List, TypeOK
<1> QED
  BY <1>1, <1>2, <1>3 DEF Monitoring

\* After every kind of end the next option is served from its start (lines 285-294).
LEMMA ServedType ==
  ASSUME NEW t \in SUBSET {"slow", "show", "clear"}, ServeNext(t)
  PROVE  /\ phase' \in {"slow", "show", "clear", "off"}
         /\ phase' = "slow" => "slow" \in t
         /\ todo' \subseteq {"show", "clear"}
         /\ at' = 1 /\ k' = 1
BY DEF ServeNext

\* Two sets of links that agree on each entry of the list are the same.
LEMMA SameLinks ==
  ASSUME NEW p \in SUBSET LinkSet, NEW q \in SUBSET LinkSet,
         \A i \in DOMAIN LinkSeq : LinkSeq[i] \in p <=> LinkSeq[i] \in q
  PROVE  p = q
<1>1. \A l \in LinkSet : \E i \in DOMAIN LinkSeq : l = LinkSeq[i]
  BY DEF LinkSet, Range
<1>2. \A l \in LinkSet : l \in p <=> l \in q
  BY <1>1
<1> QED BY <1>2

\* The initial states satisfy the invariant: the program is not running.
LEMMA InitInvariant == Init => IInv
<1> SUFFICES ASSUME Init PROVE IInv
  OBVIOUS
<1>1. sta \subseteq Spots
  BY DEF Init
<1>2. fast \in Seq(LinkSet) /\ cnt \in [Spots -> Nat] /\ edges \in [Spots -> Nat]
  BY DEF Init
<1>3. TypeOK
  <2>1. todo \subseteq {"show", "clear"} /\ phase \in {"slow", "fast", "show", "clear", "off"}
    BY DEF Init
  <2>2. left \in Int /\ at \in Nat \ {0} /\ k \in 1..5
    BY DEF Init
  <2>4. ur \in BOOLEAN
    BY DEF Init
  <2>3. /\ got \subseteq Bits /\ prev \subseteq LinkSet /\ lnkErr \in Nat /\ errors \in Nat
        /\ total \in Nat /\ seen \subseteq LinkSet /\ before \subseteq LinkSet
        /\ events \in 0..MaxEvents
    BY DEF Init
  <2> QED BY <1>1, <1>2, <2>1, <2>2, <2>3, <2>4 DEF TypeOK
<1>4. ExactCount /\ GotInv /\ MarkInv
  BY DEF Init, ExactCount, GotInv, MarkInv
<1> QED BY <1>3, <1>4 DEF IInv

\* Types are kept by every step.
LEMMA TypeStep == IInv /\ [Next]_vars => TypeOK'
<1> SUFFICES ASSUME IInv, [Next]_vars PROVE TypeOK'
  OBVIOUS
<1> USE DEF IInv, TypeOK
<1>1. ASSUME NEW s \in Noisy, Rise(s) PROVE TypeOK'
  BY <1>1, NoisyAssumption DEF Rise, prog, history
<1>2. ASSUME NEW o \in SUBSET {"slow", "show", "clear"}, NEW u \in BOOLEAN, NEW n \in Iters,
             Start(o, u, n)
      PROVE  TypeOK'
  <2>1. PICK t \in SUBSET {"slow", "show", "clear"} : ServeNext(t)
    BY <1>2 DEF Start
  <2> QED BY <1>2, <2>1, ServedType DEF Start
<1>3. ASSUME ReadStatus PROVE TypeOK'
  <2>1. at' \in Nat \ {0} /\ k' \in 1..5
    BY <1>3 DEF ReadStatus, AtRegister, Skip, Advance
  <2>2. got' \subseteq Bits
    BY <1>3 DEF ReadStatus, StatusOf
  <2> QED BY <1>3, <2>1, <2>2 DEF ReadStatus, history
<1>4. ASSUME Clear PROVE TypeOK'
  <2>1. at' \in Nat \ {0} /\ k' \in 1..5
    BY <1>4 DEF Clear, Advance, GotInv
  <2>2. lnkErr' \in Nat
    <3>1. Cardinality(got) \in Nat
      BY GotCountType
    <3> QED BY <1>4, <3>1 DEF Clear, LinkErrors
  <2>3. sta' \subseteq Spots /\ cnt' \in [Spots -> Nat]
    BY <1>4 DEF Clear
  <2> QED BY <1>4, <2>1, <2>2, <2>3 DEF Clear, history
<1>5. ASSUME LinkDone PROVE TypeOK'
  <2>1. List[at] \in LinkSet
    BY <1>5, ListEntry DEF LinkDone
  <2>2. fast' \in Seq(LinkSet)
    BY <1>5, <2>1 DEF LinkDone
  <2>3. prev' \subseteq LinkSet /\ seen' \subseteq LinkSet
    BY <1>5, <2>1 DEF LinkDone, MarkInSlow, MarkInFast
  <2>4. errors' \in Nat /\ lnkErr' \in Nat /\ at' \in Nat \ {0} /\ k' \in 1..5
    BY <1>5 DEF LinkDone
  <2> QED BY <1>5, <2>2, <2>3, <2>4 DEF LinkDone
<1>6. ASSUME FastRound PROVE TypeOK'
  BY <1>6 DEF FastRound, history
<1>7. ASSUME IterationEnd PROVE TypeOK'
  <2>1. total' \in Nat /\ errors' \in Nat /\ fast' \in Seq(LinkSet) /\ left' \in Int
    BY <1>7 DEF IterationEnd
  <2>2. /\ phase' \in {"slow", "fast", "show", "clear", "off"}
        /\ at' = 1 /\ k' = 1 /\ todo' \subseteq {"show", "clear"}
    <3>1. CASE ServeNext(todo)
      BY <3>1, ServedType
    <3> QED BY <1>7, <3>1 DEF IterationEnd
  <2> QED BY <1>7, <2>1, <2>2 DEF IterationEnd
<1>8. ASSUME BrowseEnd PROVE TypeOK'
  BY <1>8, ServedType DEF BrowseEnd, history
<1>9. ASSUME Kill PROVE TypeOK'
  <2>1. ur' \in BOOLEAN
    BY <1>9 DEF Kill, Forgotten
  <2>4. todo' \subseteq {"show", "clear"} /\ fast' \in Seq(LinkSet)
    BY <1>9 DEF Kill, Forgotten
  <2>2. cnt' \in [Spots -> Nat] /\ edges' \in [Spots -> Nat]
    BY <1>9 DEF Kill, Forgotten
  <2>3. /\ sta' \subseteq Spots /\ phase' = "off" /\ left' \in Int
        /\ at' \in Nat \ {0} /\ k' \in 1..5 /\ got' \subseteq Bits
        /\ prev' \subseteq LinkSet /\ lnkErr' \in Nat /\ errors' \in Nat /\ total' \in Nat
        /\ seen' \subseteq LinkSet /\ before' \subseteq LinkSet /\ events' \in 0..MaxEvents
    BY <1>9 DEF Kill, Forgotten
  <2> QED BY <2>1, <2>2, <2>3, <2>4
<1>10. ASSUME UNCHANGED vars PROVE TypeOK'
  BY <1>10 DEF vars, prog, history
<1> QED
  BY <1>1, <1>2, <1>3, <1>4, <1>5, <1>6, <1>7, <1>8, <1>9, <1>10 DEF Next, Program

\* What was read stays set until it is cleared: errors only add bits.
LEMMA GotStep == IInv /\ [Next]_vars => GotInv'
<1> SUFFICES ASSUME IInv, [Next]_vars PROVE GotInv'
  OBVIOUS
<1> USE DEF IInv, GotInv
<1>1. ASSUME NEW s \in Noisy, Rise(s) PROVE GotInv'
  BY <1>1 DEF Rise, prog, history, List, Polled, Monitoring
<1>2. ASSUME NEW o \in SUBSET {"slow", "show", "clear"}, NEW u \in BOOLEAN, NEW n \in Iters,
             Start(o, u, n)
      PROVE  GotInv'
  BY <1>2 DEF Start
<1>3. ASSUME ReadStatus PROVE GotInv'
  <2>1. CASE got' = {}
    BY <2>1
  <2>2. CASE got' # {}
    <3>1. /\ got' = StatusOf(Polled[1], Polled[2]) \ Mask
          /\ UNCHANGED <<at, k, sta, phase, fast>>
          /\ AtRegister
      BY <1>3, <2>2 DEF ReadStatus, AtRegister
    <3>2. UNCHANGED <<List, Polled>>
      BY <3>1 DEF List, Polled, Monitoring
    <3> QED BY <3>1, <3>2 DEF AtRegister, StatusOf
  <2> QED BY <2>1, <2>2
<1>4. ASSUME Clear PROVE GotInv'
  BY <1>4 DEF Clear
<1>5. ASSUME LinkDone PROVE GotInv'
  BY <1>5 DEF LinkDone, TypeOK
<1>6. ASSUME FastRound PROVE GotInv'
  BY <1>6 DEF FastRound, ListDone, TypeOK, List
<1>7. ASSUME IterationEnd PROVE GotInv'
  BY <1>7 DEF IterationEnd, ListDone, TypeOK, List
<1>8. ASSUME BrowseEnd PROVE GotInv'
  BY <1>8 DEF BrowseEnd, ListDone, TypeOK, List
<1>9. ASSUME Kill PROVE GotInv'
  BY <1>9 DEF Kill, Forgotten
<1>10. ASSUME UNCHANGED vars PROVE GotInv'
  BY <1>10 DEF vars, prog, history, List, Polled, Monitoring
<1> QED
  BY <1>1, <1>2, <1>3, <1>4, <1>5, <1>6, <1>7, <1>8, <1>9, <1>10 DEF Next, Program

\* The account of each status bit is kept by every step.
LEMMA CountStep == IInv /\ [Next]_vars => ExactCount'
<1> SUFFICES ASSUME IInv, [Next]_vars PROVE ExactCount'
  OBVIOUS
<1> USE DEF IInv, TypeOK
<1>1. ASSUME NEW s \in Noisy, Rise(s) PROVE ExactCount'
  BY <1>1, NoisyAssumption DEF Rise, prog, history, ExactCount
<1>2. ASSUME NEW o \in SUBSET {"slow", "show", "clear"}, NEW u \in BOOLEAN, NEW n \in Iters,
             Start(o, u, n)
      PROVE  ExactCount'
  BY <1>2 DEF Start, ExactCount
<1>3. ASSUME Clear PROVE ExactCount'
  <2> SUFFICES ASSUME NEW s \in Spots
               PROVE  edges'[s] = cnt'[s] + IF s \in sta' THEN 1 ELSE 0
    BY DEF ExactCount
  <2>1. edges' = edges /\ edges[s] = cnt[s] + IF s \in sta THEN 1 ELSE 0
    BY <1>3 DEF Clear, ExactCount, GotInv
  <2>2. CASE s[1] = Polled[1] /\ s[2] = Polled[2] /\ s[3] \in got
    <3>1. s = <<Polled[1], Polled[2], s[3]>>
      BY <2>2 DEF Spots
    <3>2. s \in sta
      BY <1>3, <2>2, <3>1 DEF Clear, GotInv
    <3>3. s \notin sta' /\ cnt'[s] = cnt[s] + 1
      BY <1>3, <2>2 DEF Clear, Written
    <3> QED BY <2>1, <3>2, <3>3
  <2>3. CASE ~(s[1] = Polled[1] /\ s[2] = Polled[2] /\ s[3] \in got)
    <3>1. (s \in sta' <=> s \in sta) /\ cnt'[s] = cnt[s]
      BY <1>3, <2>3 DEF Clear, Written
    <3> QED BY <2>1, <3>1
  <2> QED BY <2>2, <2>3
<1>4. CASE UNCHANGED <<sta, cnt, edges>> /\ phase # "off"
  BY <1>4 DEF ExactCount
<1>5. ASSUME ReadStatus \/ LinkDone \/ FastRound \/ IterationEnd \/ BrowseEnd
      PROVE  UNCHANGED <<sta, cnt, edges>> /\ phase # "off"
  BY <1>5 DEF ReadStatus, LinkDone, FastRound, IterationEnd, BrowseEnd,
              AtRegister, Monitoring, Browsing
<1>6. ASSUME UNCHANGED vars PROVE ExactCount'
  BY <1>6 DEF vars, prog, history, ExactCount
<1>7. ASSUME Kill PROVE ExactCount'
  BY <1>7 DEF Kill, ExactCount
<1> QED
  BY <1>1, <1>2, <1>3, <1>4, <1>5, <1>6, <1>7 DEF Next, Program

\* The marks are kept by every step: links are distinct, so each one is marked
\* once in the slow phase.
LEMMA MarkStep == IInv /\ [Next]_vars => MarkInv'
<1> SUFFICES ASSUME IInv, [Next]_vars PROVE MarkInv'
  OBVIOUS
<1> USE DEF IInv
<1>1. CASE UNCHANGED <<phase, prev, fast, at, history>>
  BY <1>1 DEF MarkInv, history
<1>2. ASSUME NEW o \in SUBSET {"slow", "show", "clear"}, NEW u \in BOOLEAN, NEW n \in Iters,
             Start(o, u, n)
      PROVE  MarkInv'
  <2>1. /\ prev' = {} /\ seen' = {} /\ before' = {} /\ fast' = <<>>
        /\ at' = 1 /\ phase' # "fast"
    <3>1. PICK t \in SUBSET {"slow", "show", "clear"} : ServeNext(t)
      BY <1>2 DEF Start
    <3> QED BY <1>2, <3>1, ServedType DEF Start
  <2>2. \A i \in DOMAIN LinkSeq : ~(i < 1)
    OBVIOUS
  <2>3. Range(fast') = {}
    BY <2>1 DEF Range
  <2> QED BY <2>1, <2>2, <2>3 DEF MarkInv
<1>3. ASSUME ReadStatus PROVE MarkInv'
  <2>1. UNCHANGED <<phase, prev, fast, history>> /\ (phase = "slow" => at' = at)
    BY <1>3 DEF ReadStatus, Skip, Advance, Browsing
  <2> QED BY <2>1 DEF MarkInv, history
<1>4. ASSUME Clear PROVE MarkInv'
  <2>1. UNCHANGED <<phase, prev, fast, history>> /\ (phase = "slow" => at' = at)
    BY <1>4 DEF Clear, Advance, Browsing
  <2> QED BY <2>1 DEF MarkInv, history
<1>5. ASSUME LinkDone, phase = "fast" PROVE MarkInv'
  BY <1>5 DEF LinkDone, MarkInv, MarkInFast
<1>6. ASSUME LinkDone, phase = "slow" PROVE MarkInv'
  <2> DEFINE l == LinkSeq[at]
  <2>1. /\ at \in DOMAIN LinkSeq /\ l \in LinkSet
        /\ at' = at + 1 /\ phase' = phase /\ before' = before
        /\ fast' = IF lnkErr > 0 \/ l \in prev THEN Append(fast, l) ELSE fast
        /\ prev' = IF lnkErr > 0 THEN prev \cup {l} ELSE prev \ {l}
        /\ seen' = IF lnkErr > 0 THEN seen \cup {l} ELSE seen
    BY <1>6 DEF LinkDone, MarkInSlow, List, TypeOK, LinkSet, Range
  <2>2. \A i \in DOMAIN LinkSeq : i # at => LinkSeq[i] # l
    BY <2>1
  <2>3. l \notin seen /\ (l \in prev <=> l \in before)
    BY <1>6, <2>1 DEF MarkInv, TypeOK
  <2>4. \A i \in DOMAIN LinkSeq :
          LinkSeq[i] \in prev' <=> LinkSeq[i] \in (IF i < at' THEN seen' ELSE before')
    BY <1>6, <2>1, <2>2, <2>3 DEF MarkInv, TypeOK
  <2>5. \A i \in DOMAIN LinkSeq : LinkSeq[i] \in seen' => i < at'
    BY <1>6, <2>1, <2>2 DEF MarkInv, TypeOK
  <2>6. Range(fast') = {LinkSeq[i] : i \in {j \in DOMAIN LinkSeq :
                          j < at' /\ LinkSeq[j] \in seen' \cup before'}}
    <3> DEFINE old == {LinkSeq[i] : i \in {j \in DOMAIN LinkSeq :
                         j < at /\ LinkSeq[j] \in seen \cup before}}
               new == {LinkSeq[i] : i \in {j \in DOMAIN LinkSeq :
                         j < at' /\ LinkSeq[j] \in seen' \cup before'}}
    <3>1. Range(fast) = old
      BY <1>6 DEF MarkInv
    <3>2. CASE lnkErr > 0 \/ l \in prev
      <4>1. Range(fast') = Range(fast) \cup {l}
        <5>1. fast \in Seq(LinkSet) /\ fast' = Append(fast, l)
          BY <2>1, <3>2 DEF TypeOK
        <5>2. /\ DOMAIN fast' = DOMAIN fast \cup {Len(fast) + 1}
              /\ \A i \in DOMAIN fast : fast'[i] = fast[i]
              /\ fast'[Len(fast) + 1] = l
          <6>1. l \in LinkSet
            BY <2>1
          <6> HIDE DEF IInv, l
          <6> QED BY <5>1, <6>1
        <5> QED BY <5>2 DEF Range
      <4>2. new = old \cup {l}
        BY <2>1, <2>2, <2>3, <3>2 DEF TypeOK
      <4> QED BY <3>1, <4>1, <4>2
    <3>3. CASE ~(lnkErr > 0 \/ l \in prev)
      <4>1. fast' = fast /\ seen' = seen /\ l \notin seen \cup before
        BY <2>1, <2>3, <3>3
      <4>2. new = old
        BY <2>1, <4>1 DEF TypeOK
      <4> QED BY <3>1, <4>1, <4>2
    <3> QED BY <3>2, <3>3
  <2> QED BY <1>6, <2>1, <2>4, <2>5, <2>6 DEF MarkInv
<1>7. ASSUME FastRound PROVE MarkInv'
  <2>1. phase' = "fast" /\ prev' = prev /\ seen' = seen
    BY <1>7 DEF FastRound, history
  <2>2. CASE phase = "fast"
    BY <2>1, <2>2 DEF MarkInv
  <2>3. CASE phase = "slow"
    <3>1. \A i \in DOMAIN LinkSeq : i < at
      BY <1>7, <2>3 DEF FastRound, ListDone, List, TypeOK
    <3>2. \A i \in DOMAIN LinkSeq : LinkSeq[i] \in prev <=> LinkSeq[i] \in seen
      BY <2>3, <3>1 DEF MarkInv
    <3>3. prev = seen
      BY <3>2, SameLinks DEF TypeOK
    <3> QED BY <2>1, <3>3 DEF MarkInv
  <2> QED BY <1>7, <2>2, <2>3 DEF FastRound
<1>8. ASSUME IterationEnd PROVE MarkInv'
  <2>1. prev' = seen /\ before' = seen /\ seen' = {} /\ fast' = <<>>
    <3>1. prev' = prev /\ before' = seen /\ seen' = {} /\ fast' = <<>>
      BY <1>8 DEF IterationEnd
    <3>2. CASE phase = "fast"
      BY <3>1, <3>2 DEF MarkInv
    <3>3. CASE phase = "slow"
      <4>1. \A i \in DOMAIN LinkSeq : i < at
        BY <1>8, <3>3 DEF IterationEnd, ListDone, List, TypeOK
      <4>2. \A i \in DOMAIN LinkSeq : LinkSeq[i] \in prev <=> LinkSeq[i] \in seen
        BY <3>3, <4>1 DEF MarkInv
      <4>3. prev = seen
        BY <4>2, SameLinks DEF TypeOK
      <4> QED BY <3>1, <4>3
    <3> QED BY <1>8, <3>2, <3>3 DEF IterationEnd
  <2>2. at' = 1 /\ phase' # "fast"
    <3>1. CASE ServeNext(todo)
      BY <3>1, ServedType DEF TypeOK
    <3> QED BY <1>8, <3>1 DEF IterationEnd
  <2>3. Range(fast') = {}
    BY <2>1 DEF Range
  <2>4. \A i \in DOMAIN LinkSeq : ~(i < 1)
    OBVIOUS
  <2> QED BY <2>1, <2>2, <2>3, <2>4 DEF MarkInv
<1>9. ASSUME BrowseEnd PROVE MarkInv'
  <2>1. phase' # "slow" /\ phase' # "fast"
    BY <1>9, ServedType DEF BrowseEnd, TypeOK
  <2> QED BY <2>1 DEF MarkInv
<1>10. ASSUME Kill PROVE MarkInv'
  BY <1>10 DEF Kill, MarkInv
<1>11. ASSUME NEW s \in Noisy, Rise(s) PROVE UNCHANGED <<phase, prev, fast, at, history>>
  BY <1>11 DEF Rise, prog
<1>12. ASSUME UNCHANGED vars PROVE UNCHANGED <<phase, prev, fast, at, history>>
  BY <1>12 DEF vars, prog
<1> QED
  BY <1>1, <1>2, <1>3, <1>4, <1>5, <1>6, <1>7, <1>8, <1>9, <1>10, <1>11, <1>12
  DEF Next, Program, LinkDone, Monitoring

\* The invariant of the monitor.
THEOREM MonInvariant == Spec => []IInv
<1>1. Init => IInv
  BY InitInvariant
<1>2. IInv /\ [Next]_vars => IInv'
  <2> SUFFICES ASSUME IInv, [Next]_vars PROVE IInv'
    OBVIOUS
  <2> QED BY TypeStep, GotStep, CountStep, MarkStep DEF IInv
<1> QED BY <1>1, <1>2, PTL DEF Spec

\* Types, and so a walk that stays inside the devices (errPoll, errBrowse).
THEOREM TypeCorrect == Spec => []TypeOK
<1>1. IInv => TypeOK
  BY DEF IInv
<1> QED BY <1>1, MonInvariant, PTL

\* Every error of a device is counted or printed exactly once (errPoll,
\* errBrowse), wherever between reads and writes it happens.
THEOREM EveryErrorCounted == Spec => []ExactCount
<1>1. IInv => ExactCount
  BY DEF IInv
<1> QED BY <1>1, MonInvariant, PTL

\* The fast phase of monLinks starts with the links that had an error in this
\* iteration or the one before, and no others.
THEOREM FastPhaseRight == Spec => FastRight
<1>1. IInv /\ [Next]_vars =>
        [phase = "slow" /\ phase' = "fast" => Range(fast) = seen \cup before]_vars
  <2> SUFFICES ASSUME IInv, phase = "slow", phase' = "fast", Next
               PROVE  Range(fast) = seen \cup before
    OBVIOUS
  <2>1. ASSUME NEW o \in SUBSET {"slow", "show", "clear"}, NEW u \in BOOLEAN, NEW n \in Iters,
               Start(o, u, n)
        PROVE  FALSE
    BY <2>1 DEF Start
  <2>2. ASSUME IterationEnd \/ BrowseEnd PROVE FALSE
    <3>1. CASE ServeNext(todo)
      BY <3>1, ServedType DEF IInv, TypeOK
    <3> QED BY <2>2, <3>1 DEF IterationEnd, BrowseEnd
  <2>3. FastRound
    BY <2>1, <2>2 DEF Next, Program, Rise, prog, ReadStatus, Clear, LinkDone, Kill
  <2>4. \A i \in DOMAIN LinkSeq : i < at
    BY <2>3 DEF FastRound, ListDone, List, IInv, TypeOK
  <2>5. seen \cup before \subseteq LinkSet
    BY DEF IInv, TypeOK
  <2>6. Range(fast) = {LinkSeq[i] : i \in {j \in DOMAIN LinkSeq :
                         j < at /\ LinkSeq[j] \in seen \cup before}}
    BY DEF IInv, MarkInv
  <2>7. LinkSet = {LinkSeq[i] : i \in DOMAIN LinkSeq}
    BY DEF LinkSet, Range
  <2> HIDE DEF IInv
  <2> QED BY <2>4, <2>5, <2>6, <2>7
<1> QED BY <1>1, MonInvariant, PTL DEF Spec, FastRight
-----------------------------------------------------------------------------
(* The totals                                                              *)

LEMMA SpotsFinite == IsFiniteSet(Spots)
<1>1. IsFiniteSet(DevSet)
  <2>1. Devs \in Surjection(1 .. Len(Devs), DevSet)
    <3>1. Devs \in [1 .. Len(Devs) -> DevSet]
      OBVIOUS
    <3>2. \A d \in DevSet : \E i \in 1 .. Len(Devs) : Devs[i] = d
      BY <3>1 DEF DevSet, Range
    <3> QED BY <3>1, <3>2 DEF Surjection
  <2>2. IsFiniteSet(1 .. Len(Devs))
    <3>1. Len(Devs) \in Int
      OBVIOUS
    <3> QED BY <3>1, FS_Interval
  <2> QED BY <2>1, <2>2, FS_Surjection
<1>2. IsFiniteSet(Regs)
  <2>1. \A e \in Regs : IsFiniteSet({e})
    BY FS_Singleton
  <2>2. IsFiniteSet({"status"} \cup {"dev"}) /\ IsFiniteSet({"unc"} \cup {"corr"})
    BY <2>1, FS_Union DEF Regs
  <2>3. Regs = ({"status"} \cup {"dev"}) \cup ({"unc"} \cup {"corr"})
    BY DEF Regs
  <2> QED BY <2>2, <2>3, FS_Union
<1> DEFINE M == DevSet \X (Regs \X Bits)
           T == DevSet \X Regs \X Bits
           f == [m \in M |-> <<m[1], m[2][1], m[2][2]>>]
<1>3. IsFiniteSet(M)
  <2>1. IsFiniteSet(Regs \X Bits)
    BY <1>2, FS_Product
  <2> QED BY <1>1, <2>1, FS_Product
<1>4. f \in Surjection(M, T)
  <2>1. \A t \in T : \E m \in M : f[m] = t
    <3> SUFFICES ASSUME NEW t \in T PROVE \E m \in M : f[m] = t
      OBVIOUS
    <3>1. <<t[1], <<t[2], t[3]>>>> \in M /\ f[<<t[1], <<t[2], t[3]>>>>] = t
      OBVIOUS
    <3> QED BY <3>1
  <2>2. f \in [M -> T]
    OBVIOUS
  <2> QED BY <2>1, <2>2 DEF Surjection
<1>5. IsFiniteSet(T)
  <2> HIDE DEF f, M, T
  <2> QED BY <1>3, <1>4, FS_Surjection
<1>6. Spots \subseteq T
  BY DEF Spots
<1> QED BY <1>5, <1>6, FS_Subset

\* The bits cleared at once are counted once each.
LEMMA ClearedCount ==
  ASSUME IInv, got # {}
  PROVE  LET G == {s \in Spots : s[1] = Polled[1] /\ s[2] = Polled[2] /\ s[3] \in got}
         IN  G \in SUBSET Spots /\ Cardinality(G) = Cardinality(got)
<1> DEFINE G == {s \in Spots : s[1] = Polled[1] /\ s[2] = Polled[2] /\ s[3] \in got}
           f == [b \in got |-> <<Polled[1], Polled[2], b>>]
<1>1. \A b \in got : <<Polled[1], Polled[2], b>> \in Spots
  BY DEF IInv, TypeOK, GotInv
<1>2. f \in [got -> G]
  BY <1>1
<1>3. \A s \in G : s = <<Polled[1], Polled[2], s[3]>> /\ s[3] \in got
  BY DEF Spots
<1>4. f \in Bijection(got, G)
  <2>1. \A a, b \in got : f[a] = f[b] => a = b
    OBVIOUS
  <2>2. \A s \in G : \E b \in got : f[b] = s
    BY <1>3
  <2>3. DOMAIN f = got
    OBVIOUS
  <2> HIDE DEF f, G
  <2>4. IsInjective(f)
    BY ONLY <2>1, <2>3 DEF IsInjective
  <2>5. f \in Injection(got, G)
    BY ONLY <1>2, <2>4 DEF Injection
  <2>6. f \in Surjection(got, G)
    BY ONLY <1>2, <2>2 DEF Surjection
  <2> QED BY ONLY <2>5, <2>6 DEF Bijection
<1>5. IsFiniteSet(got)
  BY FS_Subset DEF IInv, TypeOK
<1>6. Cardinality(G) = Cardinality(got)
  <2> HIDE DEF f, G
  <2> QED BY <1>4, <1>5, FS_Bijection DEF ExistsBijection
<1> QED BY <1>6

TotalInv == Monitoring => total + errors + lnkErr = Total(cnt)

LEMMA TotalMeans == TotalRight <=> TotalInv
BY DEF TotalRight, TotalInv, Total

LEMMA TotalStep == IInv /\ TotalInv /\ [Next]_vars => TotalInv'
<1> SUFFICES ASSUME IInv, TotalInv, [Next]_vars PROVE TotalInv'
  OBVIOUS
<1> USE DEF IInv, TypeOK
<1>1. ASSUME NEW o \in SUBSET {"slow", "show", "clear"}, NEW u \in BOOLEAN, NEW n \in Iters,
             Start(o, u, n)
      PROVE  TotalInv'
  <2>1. cnt' = [s \in Spots |-> 0] /\ total' = 0 /\ errors' = 0 /\ lnkErr' = 0
    BY <1>1 DEF Start
  <2>2. Total(cnt') = 0
    BY <2>1, SpotsFinite, TotalOfNone
  <2> QED BY <2>1, <2>2 DEF TotalInv
<1>2. ASSUME Clear PROVE TotalInv'
  <2> DEFINE G == {s \in Spots : s[1] = Polled[1] /\ s[2] = Polled[2] /\ s[3] \in got}
  <2>1. /\ got # {} /\ UNCHANGED <<phase, total, errors>>
        /\ cnt' = [s \in Spots |-> IF s \in G THEN cnt[s] + 1 ELSE cnt[s]]
        /\ Monitoring => lnkErr' = lnkErr + Cardinality(got)
    BY <1>2 DEF Clear, LinkErrors
  <2>2. G \in SUBSET Spots /\ Cardinality(G) = Cardinality(got) /\ Cardinality(got) \in Nat
    BY <2>1, ClearedCount, GotCountType
  <2>3. cnt \in [Spots -> Nat]
    OBVIOUS
  <2> HIDE DEF G
  <2>4. PICK f : f = cnt
    OBVIOUS
  <2>5. PICK g : g = cnt'
    OBVIOUS
  <2>6. /\ IsFiniteSet(Spots) /\ f \in [Spots -> Nat] /\ G \in SUBSET Spots
        /\ g = [s \in Spots |-> IF s \in G THEN f[s] + 1 ELSE f[s]]
    BY <2>1, <2>2, <2>3, <2>4, <2>5, SpotsFinite
  <2>7. Total(g) = Total(f) + Cardinality(G)
    BY ONLY <2>6, TotalOfMore
  <2>8. Total(cnt') = Total(cnt) + Cardinality(got)
    BY ONLY <2>2, <2>4, <2>5, <2>7
  <2> QED BY <2>1, <2>2, <2>8 DEF TotalInv, Monitoring
<1>3. ASSUME LinkDone PROVE TotalInv'
  BY <1>3 DEF LinkDone, TotalInv, Monitoring
<1>4. ASSUME IterationEnd PROVE TotalInv'
  BY <1>4 DEF IterationEnd, TotalInv, Monitoring
<1>5. ASSUME UNCHANGED <<cnt, total, errors, lnkErr>>, Monitoring' => Monitoring PROVE TotalInv'
  BY <1>5 DEF TotalInv
<1>6. ASSUME NEW s \in Noisy, Rise(s) PROVE TotalInv'
  BY <1>5, <1>6 DEF Rise, prog, Monitoring
<1>7. ASSUME ReadStatus \/ FastRound \/ Kill \/ UNCHANGED vars PROVE TotalInv'
  <2>1. CASE Kill
    BY <2>1 DEF Kill, TotalInv, Monitoring
  <2>2. CASE ReadStatus \/ FastRound \/ UNCHANGED vars
    BY <1>5, <2>2 DEF ReadStatus, FastRound, vars, prog, Monitoring
  <2> QED BY <1>7, <2>1, <2>2
<1>8. ASSUME BrowseEnd PROVE TotalInv'
  <2>1. ServeNext(todo) /\ UNCHANGED <<cnt, total, errors, lnkErr>>
    BY <1>8 DEF BrowseEnd
  <2>2. ~Monitoring'
    BY <2>1 DEF ServeNext, Monitoring
  <2> QED BY <2>2 DEF TotalInv
<1> QED
  BY <1>1, <1>2, <1>3, <1>4, <1>6, <1>7, <1>8 DEF Next, Program

\* What an iteration and the run report (line 190) is the sum of the counters of
\* the devices, at every moment of the monitoring.
THEOREM TotalIsSum == Spec => []TotalRight
<1>1. Init => TotalInv
  BY DEF Init, TotalInv, Monitoring
<1>2. IInv /\ TotalInv /\ [Next]_vars => TotalInv'
  BY TotalStep
<1>3. TotalInv => TotalRight
  BY TotalMeans
<1> QED BY <1>1, <1>2, <1>3, MonInvariant, PTL DEF Spec
=============================================================================
