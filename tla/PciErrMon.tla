------------------------------ MODULE PciErrMon ------------------------------
(***************************************************************************)
(* pcimon (cmds/pcimon/pcimon.go): reads the write-1-to-clear error status *)
(* of PCI devices that go on reporting errors, counts what it clears       *)
(* (-mon), prints and clears it (-err, -clearerr).                         *)
(***************************************************************************)
EXTENDS Integers, Sequences, FiniteSets, Functions

CONSTANTS Devs,        \* world.Devs, in its order
          LinkSeq,     \* showLinks: the upper devices of the monitored links
          Child,       \* LnkChild of each of them
          Has,         \* Has[d]: the status registers of device d
          Bits,        \* of a status register
          UrBits,      \* those an unsupported request sets
          Iters,       \* values of -iters
          Noisy,       \* the status bits that rise
          MaxEvents    \* bound: how many rise

Regs == {"status", "dev", "unc", "corr"}
BrowseRegs == <<"status", "dev", "unc", "corr">>
DevSet == Range(Devs)
LinkSet == Range(LinkSeq)

ASSUME DevsAssumption == Devs \in Seq(DevSet) /\ IsFiniteSet(Bits) /\ UrBits \subseteq Bits
ASSUME LinksAssumption ==
  /\ LinkSeq \in Seq(DevSet) /\ Child \in [LinkSet -> DevSet]
  /\ \A i, j \in DOMAIN LinkSeq : LinkSeq[i] = LinkSeq[j] => i = j
ASSUME HasAssumption ==
  /\ Has \in [DevSet -> SUBSET Regs]
  /\ \A l \in LinkSet : {"corr", "unc"} \subseteq Has[l] \cap Has[Child[l]]
ASSUME ItersAssumption == Iters \subseteq Int /\ MaxEvents \in Nat

\* A status bit of a device.  Of PCI_STATUS only SERR is looked at.
Spots == {s \in DevSet \X Regs \X Bits :
            s[2] \in Has[s[1]] /\ (s[2] = "status" => s[3] \notin UrBits)}

ASSUME NoisyAssumption == Noisy \subseteq Spots

VARIABLES sta,      \* status bits that are set
          ur,       \* -ur
          todo,     \* the options still to be served
          phase,    \* of the program
          left,     \* iterations left, -1 without end
          at, k,    \* which entry of List, which of its registers
          got,      \* what was read and is not cleared yet
          prev,     \* prevLinksWithErr
          fast,     \* linksWithErr
          lnkErr, errors, total,
          cnt,      \* how often a bit was counted (corrErrs, uncErrs) or printed
          edges,    \* history: set when the program started, or risen since
          seen,     \* history: links found with errors in this iteration
          before,   \* history: links found with errors in the one before
          events    \* status bits that rose

prog == <<ur, todo, phase, left, at, k, got, prev, fast, lnkErr, errors, total, cnt>>
history == <<seen, before>>
vars == <<sta, prog, edges, history, events>>

Monitoring == phase \in {"slow", "fast"}
Browsing == phase \in {"show", "clear"}

TypeOK ==
  /\ sta \subseteq Spots
  /\ ur \in BOOLEAN /\ todo \subseteq {"show", "clear"}
  /\ phase \in {"slow", "fast", "show", "clear", "off"}
  /\ left \in Int
  /\ at \in Nat \ {0} /\ k \in 1..5 /\ got \subseteq Bits
  /\ prev \subseteq LinkSet /\ fast \in Seq(LinkSet)
  /\ lnkErr \in Nat /\ errors \in Nat /\ total \in Nat
  /\ cnt \in [Spots -> Nat] /\ edges \in [Spots -> Nat]
  /\ seen \subseteq LinkSet /\ before \subseteq LinkSet
  /\ events \in 0..MaxEvents

Init ==
  /\ sta \in {{s \in Spots : s[3] \in b} : b \in SUBSET UrBits}
  /\ ur = FALSE /\ todo = {} /\ phase = "off" /\ left = 0 /\ at = 1 /\ k = 1
  /\ got = {} /\ prev = {} /\ fast = <<>> /\ lnkErr = 0 /\ errors = 0 /\ total = 0
  /\ cnt = [s \in Spots |-> 0] /\ edges = [s \in Spots |-> 0]
  /\ seen = {} /\ before = {} /\ events = 0
-----------------------------------------------------------------------------
(* The devices *)

\* An error: the status bit stays set until a 1 is written to it.
Rise(s) ==
  /\ s \notin sta /\ events < MaxEvents
  /\ sta' = sta \cup {s}
  /\ edges' = [edges EXCEPT ![s] = @ + 1]
  /\ events' = events + 1
  /\ UNCHANGED <<prog, history>>

StatusOf(d, r) == {b \in Bits : <<d, r, b>> \in sta}
-----------------------------------------------------------------------------
(* The polls and the browsing *)

Mask == IF ur THEN {} ELSE UrBits

\* What the loop of the phase goes over, and the register it is at.
List == IF phase = "slow" THEN LinkSeq ELSE IF phase = "fast" THEN fast ELSE Devs
Polled ==
  IF Monitoring
    THEN <<IF k <= 2 THEN List[at] ELSE Child[List[at]], IF k % 2 = 1 THEN "corr" ELSE "unc">>
    ELSE <<List[at], BrowseRegs[k]>>
AtRegister == phase # "off" /\ at <= Len(List) /\ k <= 4 /\ got = {}

Advance ==
  IF Browsing /\ k = 4 THEN at' = at + 1 /\ k' = 1 ELSE at' = at /\ k' = k + 1

\* Variant: a device without correctable errors is not asked for uncorrectable ones.
SkipDevice == IF Monitoring /\ k % 2 = 1 THEN at' = at /\ k' = k + 2 ELSE Advance

Skip == Advance

\* The read: what is masked or clear is passed over.
ReadStatus ==
  /\ AtRegister
  /\ LET found == StatusOf(Polled[1], Polled[2]) \ Mask IN
     \/ /\ found = {} /\ Skip
        /\ got' = got
     \/ /\ found # {}
        /\ got' = found /\ UNCHANGED <<at, k>>
  /\ UNCHANGED <<sta, ur, todo, phase, left, prev, fast, lnkErr, errors, total, cnt,
                 edges, history, events>>

\* Variant: every bit is written as 1.
WrittenAll(found) == Bits

Written(found) == found

\* Variant: the poll of the child replaces the errors of the upper device.
LinkErrorsOf(n) == IF k <= 2 THEN lnkErr + n ELSE n

LinkErrors(n) == lnkErr + n

\* The write and the count, or the report.
Clear ==
  /\ got # {}
  /\ sta' = {s \in sta : ~(s[1] = Polled[1] /\ s[2] = Polled[2] /\ s[3] \in Written(got))}
  /\ cnt' = [s \in Spots |-> IF s[1] = Polled[1] /\ s[2] = Polled[2] /\ s[3] \in got
                               THEN cnt[s] + 1 ELSE cnt[s]]
  /\ lnkErr' = IF Monitoring THEN LinkErrors(Cardinality(got)) ELSE lnkErr
  /\ got' = {}
  /\ Advance
  /\ UNCHANGED <<ur, todo, phase, left, prev, fast, errors, total, edges, history, events>>
-----------------------------------------------------------------------------
(* monLinks *)

\* Variant: the fast loop forgets a link that was quiet in its last round.
ForgetInFast(l) == IF lnkErr > 0 THEN prev \cup {l} ELSE prev \ {l}

\* Lines 175-177: the fast loop never resets the mark.
MarkInFast(l) == IF lnkErr > 0 THEN prev \cup {l} ELSE prev

\* Variant: the mark goes to the lower device of the link.
MarkChild(l) == IF lnkErr > 0 THEN prev \cup {Child[l]} ELSE prev \ {l}

MarkInSlow(l) == IF lnkErr > 0 THEN prev \cup {l} ELSE prev \ {l}

\* Lines 160-165 and 174-177: both devices of the link have been polled.
LinkDone ==
  /\ Monitoring /\ at <= Len(List) /\ k = 5
  /\ LET l == List[at] IN
     /\ fast' = IF phase = "slow" /\ (lnkErr > 0 \/ l \in prev) THEN Append(fast, l) ELSE fast
     /\ prev' = IF phase = "slow" THEN MarkInSlow(l) ELSE MarkInFast(l)
     /\ seen' = IF lnkErr > 0 THEN seen \cup {l} ELSE seen
  /\ errors' = errors + lnkErr /\ lnkErr' = 0
  /\ at' = at + 1 /\ k' = 1
  /\ UNCHANGED <<sta, ur, todo, phase, left, got, total, cnt, edges, before, events>>

ListDone == at > Len(List)

\* A round of the loop of lines 170-181; TimeUp, in IterationEnd, ends it.
FastRound ==
  /\ ListDone
  /\ phase = "fast" \/ (phase = "slow" /\ fast # <<>>)
  /\ phase' = "fast" /\ at' = 1 /\ k' = 1
  /\ UNCHANGED <<sta, ur, todo, left, got, prev, fast, lnkErr, errors, total, cnt,
                 edges, history, events>>

\* Main: -mon, -err, -clearerr in this order.
ServeNext(t) ==
  /\ \/ "slow" \in t /\ phase' = "slow"
     \/ "slow" \notin t /\ "show" \in t /\ phase' = "show"
     \/ t = {"clear"} /\ phase' = "clear"
     \/ t = {} /\ phase' = "off"
  /\ todo' = t \ {phase'}
  /\ at' = 1 /\ k' = 1

\* The second is over (line 170), or there was nothing to poll fast (line 182).
IterationEnd ==
  /\ ListDone
  /\ phase = "fast" \/ (phase = "slow" /\ fast = <<>>)
  /\ total' = total + errors /\ errors' = 0
  /\ fast' = <<>>
  /\ before' = seen /\ seen' = {}
  /\ \/ /\ left = -1 \/ left > 1
        /\ left' = IF left = -1 THEN -1 ELSE left - 1
        /\ phase' = "slow" /\ at' = 1 /\ k' = 1
        /\ todo' = todo
     \/ /\ left # -1 /\ left <= 1
        /\ left' = 0
        /\ ServeNext(todo)
  /\ UNCHANGED <<sta, ur, got, prev, lnkErr, cnt, edges, events>>

BrowseEnd ==
  /\ Browsing /\ ListDone
  /\ ServeNext(todo)
  /\ UNCHANGED <<sta, ur, left, got, prev, fast, lnkErr, errors, total, cnt,
                 edges, history, events>>
-----------------------------------------------------------------------------
\* A process begins and ends with nothing in its memory.
Forgotten ==
  /\ ur' = FALSE /\ left' = 0 /\ at' = 1 /\ k' = 1 /\ got' = {} /\ prev' = {} /\ fast' = <<>>
  /\ lnkErr' = 0 /\ errors' = 0 /\ total' = 0
  /\ cnt' = [s \in Spots |-> 0] /\ edges' = [s \in Spots |-> 0]
  /\ seen' = {} /\ before' = {}

\* A process starts; -iters 0, or a negative one but -1, monitors nothing.
Start(opts, u, n) ==
  /\ phase = "off"
  /\ ur' = u /\ left' = n
  /\ ServeNext(IF n = -1 \/ n > 0 THEN opts ELSE opts \ {"slow"})
  /\ got' = {} /\ prev' = {} /\ fast' = <<>> /\ lnkErr' = 0 /\ errors' = 0 /\ total' = 0
  /\ cnt' = [s \in Spots |-> 0]
  /\ edges' = [s \in Spots |-> IF s \in sta THEN 1 ELSE 0]
  /\ seen' = {} /\ before' = {}
  /\ UNCHANGED <<sta, events>>

\* -iters -1 ends no other way.
Kill ==
  /\ phase # "off"
  /\ phase' = "off" /\ todo' = {} /\ Forgotten
  /\ UNCHANGED <<sta, events>>

Program == ReadStatus \/ Clear \/ LinkDone \/ FastRound \/ IterationEnd \/ BrowseEnd

Next ==
  \/ \E s \in Noisy : Rise(s)
  \/ \E o \in SUBSET {"slow", "show", "clear"}, u \in BOOLEAN, n \in Iters : Start(o, u, n)
  \/ Program \/ Kill

Spec == Init /\ [][Next]_vars

\* The process is scheduled, and the second of the fast loop passes.
FairSpec == Spec /\ WF_vars(Program) /\ SF_vars(IterationEnd)
-----------------------------------------------------------------------------
(* Properties *)

\* While the program runs, every status bit that was set at its start or rose
\* since is either still set or was counted or printed, exactly once for each
\* time it rose: no error goes silent between the read and the write that clears
\* it, none is reported twice, and what is masked is left to others.
ExactCount ==
  phase # "off" => \A s \in Spots : edges[s] = cnt[s] + IF s \in sta THEN 1 ELSE 0

\* "whether any error was detected for a device in the previous iteration (to
\* decide whether to include it in next high-frequency poll phase)" (line 141):
\* the fast phase starts with exactly the links that had an error in this
\* iteration's slow phase or anywhere in the previous iteration.
FastRight ==
  [][phase = "slow" /\ phase' = "fast" =>
       Range(fast) = seen \cup before]_vars

\* What an iteration and the run report (line 190) is what the counters of the
\* devices hold.
TotalRight == Monitoring => total + errors + lnkErr = FoldFunction(+, 0, cnt)

\* An error on a monitored link is noticed, whatever other links do, unless the
\* monitoring ends.
ErrorsNoticed ==
  \A s \in {n \in Noisy : n[2] \in {"corr", "unc"} /\ n[3] \notin UrBits
                            /\ \E l \in LinkSet : n[1] \in {l, Child[l]}} :
    s \in sta /\ Monitoring /\ left = -1 ~> s \notin sta \/ ~Monitoring

-----------------------------------------------------------------------------
(* The inductive invariant behind ExactCount and FastRight                  *)

\* What was read is still set when it is cleared: nobody else clears it.
GotInv ==
  got # {} =>
    /\ phase # "off" /\ at <= Len(List) /\ k <= 4
    /\ \A b \in got : <<Polled[1], Polled[2], b>> \in sta

\* In the slow phase the marks are those of the iteration before for the links
\* still to come, and of this iteration for the others.
MarkInv ==
  /\ phase = "slow" =>
       /\ \A i \in DOMAIN LinkSeq :
            LinkSeq[i] \in prev <=> LinkSeq[i] \in (IF i < at THEN seen ELSE before)
       /\ \A i \in DOMAIN LinkSeq : LinkSeq[i] \in seen => i < at
       /\ Range(fast) = {LinkSeq[i] : i \in {j \in DOMAIN LinkSeq :
                           j < at /\ LinkSeq[j] \in seen \cup before}}
  /\ phase = "fast" => prev = seen

IInv == TypeOK /\ ExactCount /\ GotInv /\ MarkInv
=============================================================================
