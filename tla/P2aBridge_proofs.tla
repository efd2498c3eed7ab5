-------------------------- MODULE P2aBridge_proofs --------------------------
(***************************************************************************)
(* For one process and regions outside page 0, with any number of pages,   *)
(* cells, goroutines and regions: the window is always on the page of the  *)
(* access, and the bridge implements the atomic address space AstSpace.    *)
(* Both rest on the inductive invariant IInv of P2aBridge.                 *)
(***************************************************************************)
EXTENDS P2aBridge, TLAPS

(* Arithmetic of pages and cells *)

\* Quotient and remainder by a positive number.
LEMMA DivMod ==
  ASSUME NEW a \in Nat, NEW n \in Nat \ {0}
  PROVE  /\ a \div n \in Nat
         /\ a % n \in 0 .. n - 1
         /\ (a \div n) * n + (a % n) = a
  OBVIOUS

\* An address below k * n lies in one of k pages of n cells.
LEMMA DivBound ==
  ASSUME NEW n \in Nat \ {0}, NEW k \in Nat \ {0}, NEW a \in 0 .. k * n - 1
  PROVE  a \div n \in 0 .. k - 1
<1> DEFINE q == a \div n
<1>1. a \in Nat
  OBVIOUS
<1>2. q \in Nat /\ q * n <= a
  BY <1>1, DivMod
<1>3. ASSUME q >= k PROVE FALSE
  <2>1. q * n >= k * n
    BY <1>2, <1>3
  <2> QED BY <2>1, <1>1, <1>2
<1> QED BY <1>2, <1>3

\* PageOf and LowOf split an address and Cell joins it again.
LEMMA SplitJoin ==
  ASSUME NEW a \in Addrs
  PROVE  /\ PageOf(a) \in Pages
         /\ Cell(PageOf(a), LowOf(a)) = a
<1>1. a \in Nat
  BY DEF Addrs
<1>2. PageOf(a) \in Pages
  BY SizesAssumption, DivBound DEF Addrs, PageOf, Pages
<1>3. Cell(PageOf(a), LowOf(a)) = a
  BY <1>1, SizesAssumption, DivMod DEF Cell, PageOf, LowOf
<1> QED BY <1>2, <1>3

\* Whatever the region and the offset, the bridge addresses a cell of the BMC.
LEMMA TargetInAddrs ==
  ASSUME NEW r \in Regions, NEW off \in Offsets
  PROVE  Target(r, off) \in Addrs
<1> DEFINE total == NPages * PageSize
<1>1. total \in Nat \ {0}
  BY SizesAssumption
<1>2. r.start + off \in Nat
  BY RegionsAssumption, OffsetsAssumption
<1>3. (r.start + off) % total \in 0 .. total - 1
  BY <1>1, <1>2, DivMod
<1> QED BY <1>3 DEF Target, Addrs

LEMMA PageZero == 0 \in Pages
  BY SizesAssumption DEF Pages
-----------------------------------------------------------------------------
(* The inductive invariant *)

LEMMA InitIInv == Init => IInv
  BY PageZero DEF Init, IInv, TypeOK, ReqInv, LockInv, DeadInv, WindowInv, WindowRight,
     Goroutines, Pcs, Critical, Quiet

\* The end of a process leaves nothing of it behind but what it wrote.
LEMMA EndsIInv ==
  ASSUME OneProcess, IInv, NEW p \in Procs, Ends(p)
  PROVE  IInv'
<1> USE DEF Ends, hw, IInv
<1>1. TypeOK'
  BY PageZero DEF TypeOK, Goroutines, Pcs
<1>2. \A g \in Goroutines : pc'[g] = "idle"
  BY DEF OneProcess, Goroutines
<1>3. ReqInv' /\ DeadInv'
  BY <1>2 DEF ReqInv, DeadInv, Quiet
<1>4. LockInv'
  BY <1>2 DEF LockInv, Critical, OneProcess, Goroutines, TypeOK
<1>5. WindowInv'
  BY <1>2 DEF WindowInv, WindowRight, OneProcess, TypeOK
<1> QED BY <1>1, <1>3, <1>4, <1>5

\* Start, CallMap and a stutter touch neither the window nor a request.
LEMMA StartIInv ==
  ASSUME IInv, NEW p \in Procs, Start(p)
  PROVE  IInv'
<1> USE DEF Start, hw, IInv
<1>1. TypeOK'
  BY DEF TypeOK
<1>2. ReqInv' /\ LockInv' /\ WindowInv'
  BY DEF ReqInv, LockInv, WindowInv, WindowRight
<1>3. DeadInv'
  BY DEF DeadInv, TypeOK, Goroutines
<1> QED BY <1>1, <1>2, <1>3

LEMMA CallMapIInv ==
  ASSUME IInv, NEW g \in Goroutines, CallMap(g)
  PROVE  IInv'
<1> USE DEF CallMap, hw, proc, IInv
<1>1. TypeOK'
  BY DEF TypeOK, Pcs
<1>2. ReqInv' /\ LockInv' /\ DeadInv' /\ WindowInv'
  BY DEF TypeOK, ReqInv, LockInv, DeadInv, WindowInv, WindowRight, Quiet, Critical
<1> QED BY <1>1, <1>2

\* The mutex is free when it is taken, so no other goroutine is inside.
LEMMA AcquireIInv ==
  ASSUME IInv, NEW g \in Goroutines,
         NEW from, NEW to,
         \/ from = "maplock" /\ to = "scan"
         \/ from = "lock" /\ to = "index",
         Acquire(g, from, to)
  PROVE  IInv'
<1> USE DEF Acquire, hw, proc, IInv
<1>1. g[1] \in Procs /\ \A h \in Goroutines : h[1] \in Procs
  BY DEF Goroutines
<1>2. TypeOK'
  BY <1>1 DEF TypeOK, Pcs, Critical
<1>3. ReqInv'
  BY DEF TypeOK, ReqInv, Quiet
<1>4. LockInv'
  BY <1>1 DEF TypeOK, LockInv, Critical
<1>5. DeadInv'
  BY DEF TypeOK, DeadInv
<1>6. WindowInv'
  BY DEF TypeOK, WindowInv, WindowRight
<1> QED BY <1>2, <1>3, <1>4, <1>5, <1>6

LEMMA MapDoneIInv ==
  ASSUME IInv, NEW g \in Goroutines, MapDone(g)
  PROVE  IInv'
<1> USE DEF MapDone, IInv
<1>1. g[1] \in Procs /\ \A h \in Goroutines : h[1] \in Procs
  BY DEF Goroutines
<1>2. TypeOK'
  BY <1>1 DEF TypeOK, Pcs, hw
<1>3. ReqInv'
  BY DEF TypeOK, ReqInv, Quiet
<1>4. LockInv'
  BY <1>1 DEF TypeOK, LockInv, Critical
<1>5. DeadInv'
  BY DEF TypeOK, DeadInv
<1>6. WindowInv'
  BY DEF TypeOK, WindowInv, WindowRight, hw
<1> QED BY <1>2, <1>3, <1>4, <1>5, <1>6

\* A call leaves with an address of the BMC that is not in page 0.
LEMMA CallIInv ==
  ASSUME AvoidsPageZero, IInv, NEW g \in Goroutines, Call(g)
  PROVE  IInv'
<1> USE DEF Call, hw, proc, IInv
<1>1. PICK r \in Regions, off \in Offsets :
        /\ off < r.size
        /\ \/ req' = [req EXCEPT ![g] = Req("read", Target(r, off), NoVal)]
           \/ \E v \in Vals : req' = [req EXCEPT ![g] = Req("write", Target(r, off), v)]
  BY DEF TypeOK, Goroutines
<1>2. /\ Target(r, off) \in Addrs
      /\ PageOf(Target(r, off)) # 0
  BY <1>1, TargetInAddrs DEF AvoidsPageZero
<1>3. /\ req'[g] \in Reqs
      /\ PageOf(req'[g].addr) # 0
      /\ req'[g].kind = "read" => req'[g].val = NoVal
      /\ \A h \in Goroutines \ {g} : req'[h] = req[h]
  BY <1>1, <1>2 DEF TypeOK, Req, Reqs
<1>4. req' \in [Goroutines -> Reqs \cup {NoReq}]
  BY <1>1, <1>3 DEF TypeOK
<1>5. TypeOK'
  BY <1>4 DEF TypeOK, Pcs
<1>6. ReqInv'
  BY <1>3 DEF TypeOK, ReqInv, Quiet
<1>7. LockInv' /\ DeadInv'
  BY DEF TypeOK, LockInv, DeadInv, Critical
<1>8. WindowInv'
  BY <1>3 DEF TypeOK, WindowInv, WindowRight
<1> QED BY <1>5, <1>6, <1>7, <1>8

\* Inside the mutex there is one goroutine.
LEMMA Alone ==
  ASSUME OneProcess, IInv, NEW g \in Goroutines, NEW h \in Goroutines,
         pc[g] \in Critical, pc[h] \in Critical
  PROVE  g = h
<1>1. g[1] \in Procs /\ h[1] \in Procs
  BY DEF Goroutines
<1>2. h[1] = g[1]
  BY <1>1 DEF OneProcess
<1> QED BY <1>1, <1>2 DEF IInv, LockInv

\* The cached page is not 0, so it was selected by this process and is still there.
LEMMA IndexHitIInv ==
  ASSUME OneProcess, IInv, NEW g \in Goroutines, IndexHit(g)
  PROVE  IInv'
<1> USE DEF IndexHit, hw, proc, IInv
<1>1. TypeOK' /\ LockInv' /\ DeadInv' /\ ReqInv'
  BY DEF TypeOK, Pcs, LockInv, DeadInv, ReqInv, Critical, Quiet
<1>2. \A h \in Goroutines : pc[h] # "enable"
  BY Alone DEF Critical
<1>3. cache[g[1]] # 0
  BY DEF ReqInv, Quiet
<1>4. hwOn /\ hwPage = PageOf(req[g].addr)
  BY <1>2, <1>3 DEF WindowInv, Goroutines
<1>5. WindowInv'
  BY <1>4 DEF WindowInv, WindowRight, TypeOK
<1> QED BY <1>1, <1>5

LEMMA WritePageIInv ==
  ASSUME OneProcess, IInv, NEW g \in Goroutines, WritePage(g)
  PROVE  IInv'
<1> USE DEF WritePage, hw, proc, IInv
<1>1. req[g] \in Reqs
  BY DEF ReqInv, Quiet
<1>2. TypeOK'
  BY <1>1, SplitJoin DEF TypeOK, Pcs, Critical, Reqs
<1>3. LockInv' /\ DeadInv' /\ ReqInv'
  BY DEF TypeOK, LockInv, DeadInv, ReqInv, Critical, Quiet
<1>4. \A h \in Goroutines : h # g => pc[h] \notin {"enable", "access"}
  BY Alone DEF Critical
<1>5. WindowInv'
  BY <1>4 DEF WindowInv, WindowRight, TypeOK
<1> QED BY <1>2, <1>3, <1>5

LEMMA EnableIInv ==
  ASSUME OneProcess, IInv, NEW g \in Goroutines, Enable(g)
  PROVE  IInv'
<1> USE DEF Enable, IInv
<1>1. req[g] \in Reqs /\ g[1] \in Procs
  BY DEF ReqInv, Quiet, Goroutines
<1>2. TypeOK'
  BY <1>1, SplitJoin DEF TypeOK, Pcs, Critical, Reqs
<1>3. LockInv' /\ DeadInv' /\ ReqInv'
  BY DEF TypeOK, LockInv, DeadInv, ReqInv, Critical, Quiet
<1>4. \A h \in Goroutines : h # g => pc[h] \notin {"enable", "access"}
  BY Alone DEF Critical
<1>5. hwOn' /\ hwPage' = PageOf(req[g].addr)
  BY DEF WindowInv
<1>6. \A p \in Procs : cache'[p] = PageOf(req[g].addr)
  BY <1>1 DEF TypeOK, OneProcess
<1>7. WindowInv'
  BY <1>4, <1>5, <1>6 DEF WindowInv, WindowRight, TypeOK
<1> QED BY <1>2, <1>3, <1>7

\* The window shows the very cell the request names.
LEMMA AccessRightCell ==
  ASSUME IInv, NEW g \in Goroutines, pc[g] = "access"
  PROVE  /\ req[g] \in Reqs
         /\ req[g].addr \in Addrs
         /\ hwOn
         /\ Shown(g) = req[g].addr
         /\ req[g].kind = "read" => req[g].val = NoVal
<1>1. /\ req[g] \in Reqs
      /\ req[g].kind = "read" => req[g].val = NoVal
  BY DEF IInv, ReqInv, Quiet
<1>2. req[g].addr \in Addrs
  BY <1>1 DEF Reqs
<1>3. hwOn /\ hwPage = PageOf(req[g].addr)
  BY DEF IInv, WindowInv, WindowRight
<1> QED BY <1>1, <1>2, <1>3, SplitJoin DEF Shown

LEMMA AccessIInv ==
  ASSUME OneProcess, IInv, NEW g \in Goroutines, Access(g)
  PROVE  IInv'
<1> USE DEF IInv
<1>1. pc[g] = "access" /\ pc' = [pc EXCEPT ![g] = "flush"]
  BY DEF Access
<1>2. UNCHANGED <<hwPage, hwOn, devices, proc, lock>>
  BY DEF Access
<1>3. req[g] \in Reqs /\ Shown(g) \in Addrs
  BY <1>1, AccessRightCell
<1>4. mem' \in [Addrs -> Vals]
  BY <1>3 DEF Access, TypeOK, Reqs
<1>5. /\ req'[g] \in Reqs
      /\ req'[g].addr = req[g].addr
      /\ req' \in [Goroutines -> Reqs \cup {NoReq}]
      /\ \A h \in Goroutines \ {g} : req'[h] = req[h]
  <2>1. CASE req[g].kind = "read"
    <3>1. PICK v \in Vals : req' = [req EXCEPT ![g].val = v]
      BY <2>1 DEF Access
    <3>2. [req[g] EXCEPT !.val = v] \in Reqs /\ [req[g] EXCEPT !.val = v].addr = req[g].addr
      BY <1>3, <2>1 DEF Reqs
    <3> QED BY <3>1, <3>2 DEF TypeOK
  <2>2. CASE req[g].kind = "write"
    BY <1>3, <2>2 DEF Access, TypeOK
  <2> QED BY <1>3, <2>1, <2>2 DEF Reqs
<1>6. TypeOK'
  BY <1>1, <1>2, <1>4, <1>5 DEF TypeOK, proc, Pcs, Critical
<1>7. LockInv' /\ DeadInv'
  BY <1>1, <1>2 DEF TypeOK, LockInv, DeadInv, proc, Critical
<1>8. ReqInv'
  BY <1>1, <1>2, <1>5 DEF TypeOK, ReqInv, Quiet
<1>9. WindowInv'
  BY <1>1, <1>2, <1>5 DEF WindowInv, WindowRight, TypeOK, proc
<1> QED BY <1>6, <1>7, <1>8, <1>9

LEMMA FinishIInv ==
  ASSUME IInv, NEW g \in Goroutines, Finish(g)
  PROVE  IInv'
<1> USE DEF Finish, hw, proc, IInv
<1>1. g[1] \in Procs /\ \A h \in Goroutines : h[1] \in Procs
  BY DEF Goroutines
<1>2. TypeOK'
  BY <1>1 DEF TypeOK, Pcs
<1>3. ReqInv' /\ DeadInv'
  BY DEF TypeOK, ReqInv, DeadInv, Quiet
<1>4. LockInv'
  BY <1>1 DEF TypeOK, LockInv, Critical
<1>5. WindowInv'
  BY DEF TypeOK, WindowInv, WindowRight
<1> QED BY <1>2, <1>3, <1>4, <1>5

\* Every step of the bridge keeps the invariant.
LEMMA NextIInv ==
  ASSUME OneProcess, AvoidsPageZero, IInv, [Next]_vars
  PROVE  IInv'
<1>1. ASSUME NEW p \in Procs, Start(p) PROVE IInv'
  BY <1>1, StartIInv
<1>2. ASSUME NEW p \in Procs, Exit(p) PROVE IInv'
  BY <1>2, EndsIInv DEF Exit
<1>3. ASSUME NEW g \in Goroutines, Step(g) PROVE IInv'
  <2>1. g[1] \in Procs
    BY DEF Goroutines
  <2>2. CASE CallMap(g)
    BY <2>2, CallMapIInv
  <2>3. CASE MapLock(g) \/ Lock(g)
    BY <2>3, AcquireIInv DEF MapLock, Lock
  <2>4. CASE MapDone(g)
    BY <2>4, MapDoneIInv
  <2>5. CASE MapFatal(g) \/ CallPanic(g)
    BY <2>1, <2>5, EndsIInv DEF MapFatal, CallPanic
  <2>6. CASE Call(g)
    BY <2>6, CallIInv
  <2>7. CASE IndexHit(g)
    BY <2>7, IndexHitIInv
  <2>8. CASE WritePage(g)
    BY <2>8, WritePageIInv
  <2>9. CASE Enable(g)
    BY <2>9, EnableIInv
  <2>10. CASE Access(g)
    BY <2>10, AccessIInv
  <2>11. CASE Finish(g)
    BY <2>11, FinishIInv
  <2> QED BY <1>3, <2>2, <2>3, <2>4, <2>5, <2>6, <2>7, <2>8, <2>9, <2>10, <2>11 DEF Step
<1>4. CASE UNCHANGED vars
  BY <1>4 DEF vars, IInv, TypeOK, ReqInv, LockInv, DeadInv, WindowInv, WindowRight
<1> QED BY <1>1, <1>2, <1>3, <1>4 DEF Next

THEOREM BridgeInvariant ==
  ASSUME OneProcess, AvoidsPageZero
  PROVE  Spec => []IInv
<1>1. Init => IInv
  BY InitIInv
<1>2. IInv /\ [Next]_vars => IInv'
  BY NextIInv
<1> QED BY <1>1, <1>2, PTL DEF Spec

\* Every variable keeps its type: what an access computes from a page and an
\* offset is always a page and a cell of the BMC.
THEOREM TypeCorrect ==
  ASSUME OneProcess, AvoidsPageZero
  PROVE  Spec => []TypeOK
<1>1. IInv => TypeOK
  BY DEF IInv
<1> QED BY <1>1, BridgeInvariant, PTL

\* The page cache of p2a.go never lets an access out through the wrong page.
THEOREM WindowAlwaysRight ==
  ASSUME OneProcess, AvoidsPageZero
  PROVE  Spec => []WindowRight
<1>1. IInv => WindowRight
  BY DEF IInv, WindowInv
<1> QED BY <1>1, BridgeInvariant, PTL
-----------------------------------------------------------------------------
(* Refinement: every step of the bridge is a step of AstSpace or a stutter. *)

LEMMA InitSpace == Init => Space!Init
  BY DEF Init, Space!Init, Space!Users, Space!NoOp, Pending, Goroutines, Quiet

LEMMA StartSpace ==
  ASSUME IInv, NEW p \in Procs, Start(p)
  PROVE  Space!Begin(p)
<1> USE DEF Start, hw
<1>1. \A g \in Goroutines : g[1] = p => pc[g] = "idle"
  BY DEF IInv, DeadInv
<1>2. \A g \in Space!Users : g[1] = p => Pending[g] = Space!NoOp
  BY <1>1 DEF Space!Users, Space!NoOp, Pending, Goroutines, Quiet
<1>3. UNCHANGED <<mem, Pending>>
  BY DEF Pending
<1> QED BY <1>2, <1>3 DEF Space!Begin

LEMMA EndsSpace ==
  ASSUME NEW p \in Procs, Ends(p)
  PROVE  Space!End(p)
<1>1. Pending' = [g \in Space!Users |-> IF g[1] = p THEN Space!NoOp ELSE Pending[g]]
  BY DEF Ends, Pending, Goroutines, Space!Users, Space!NoOp, Quiet
<1> QED BY <1>1 DEF Ends, hw, Space!End

\* Steps before the data cycle are invisible.
LEMMA SilentSpace ==
  ASSUME IInv, NEW g \in Goroutines,
         \/ CallMap(g) \/ MapLock(g) \/ MapDone(g)
         \/ Lock(g) \/ IndexHit(g) \/ WritePage(g) \/ Enable(g)
  PROVE  UNCHANGED <<mem, noop, Pending>>
<1> DEFINE Keeps(from, to) == /\ pc[g] = from
                             /\ pc' = [pc EXCEPT ![g] = to]
                             /\ UNCHANGED <<mem, noop, req>>
<1>1. ASSUME NEW from \in Quiet, NEW to \in Quiet, Keeps(from, to)
      PROVE  UNCHANGED <<mem, noop, Pending>>
  BY <1>1 DEF IInv, TypeOK, Pending, Quiet
<1>2. ASSUME NEW from \in {"lock", "index", "enable"},
             NEW to \in {"index", "enable", "access"}, Keeps(from, to)
      PROVE  UNCHANGED <<mem, noop, Pending>>
  BY <1>2 DEF IInv, TypeOK, Pending, Quiet
<1>3. CASE CallMap(g)
  BY <1>1, <1>3 DEF CallMap, Quiet, hw, proc
<1>4. CASE MapLock(g)
  BY <1>1, <1>4 DEF MapLock, Acquire, Quiet, hw, proc
<1>5. CASE MapDone(g)
  BY <1>1, <1>5 DEF MapDone, Quiet, hw
<1>6. CASE Lock(g)
  BY <1>2, <1>6 DEF Lock, Acquire, hw, proc
<1>7. CASE IndexHit(g)
  BY <1>2, <1>7 DEF IndexHit, hw, proc
<1>8. CASE WritePage(g)
  BY <1>2, <1>8 DEF WritePage, proc
<1>9. CASE Enable(g)
  BY <1>2, <1>9 DEF Enable
<1> QED BY <1>3, <1>4, <1>5, <1>6, <1>7, <1>8, <1>9

LEMMA CallSpace ==
  ASSUME IInv, NEW g \in Goroutines, Call(g)
  PROVE  Space!Invoke(g)
<1> USE DEF Call, hw, proc
<1>1. Pending[g] = Space!NoOp
  BY DEF Pending, Space!NoOp, Quiet
<1>2. PICK r \in Regions, off \in Offsets :
        \/ req' = [req EXCEPT ![g] = Req("read", Target(r, off), NoVal)]
        \/ \E v \in Vals : req' = [req EXCEPT ![g] = Req("write", Target(r, off), v)]
  BY DEF IInv, TypeOK, Goroutines
<1> DEFINE a == Target(r, off)
<1>3. a \in Addrs
  BY TargetInAddrs
<1> HIDE DEF a
<1>4. ASSUME NEW kind, NEW v, req' = [req EXCEPT ![g] = Req(kind, a, v)]
      PROVE  Pending' = [Pending EXCEPT ![g] = Space!Op("called", kind, a, v)]
  <2>1. pc'[g] = "lock" /\ req'[g] = Req(kind, a, v)
    BY <1>4 DEF IInv, TypeOK
  <2>2. \A h \in Goroutines \ {g} : pc'[h] = pc[h] /\ req'[h] = req[h]
    BY <1>4 DEF IInv, TypeOK
  <2>3. Pending'[g] = Space!Op("called", kind, a, v)
    BY <2>1 DEF Pending, Req, Space!Op, Quiet
  <2>4. \A h \in Goroutines \ {g} : Pending'[h] = Pending[h]
    BY <2>2 DEF Pending
  <2>5. /\ Pending = [h \in Goroutines |-> Pending[h]]
        /\ Pending' = [h \in Goroutines |-> Pending'[h]]
    BY DEF Pending
  <2> QED BY <2>3, <2>4, <2>5
<1>5. \/ Pending' = [Pending EXCEPT ![g] = Space!Op("called", "read", a, Space!NoVal)]
      \/ \E v \in Vals :
           Pending' = [Pending EXCEPT ![g] = Space!Op("called", "write", a, v)]
  BY <1>2, <1>4 DEF NoVal, Space!NoVal, a
<1> QED BY <1>1, <1>3, <1>5 DEF Space!Invoke

\* The data cycle is the point where the operation takes effect.
LEMMA AccessSpace ==
  ASSUME OneProcess, IInv, NEW g \in Goroutines, Access(g)
  PROVE  Space!Perform(g)
<1>1. /\ pc[g] = "access" /\ pc' = [pc EXCEPT ![g] = "flush"]
      /\ UNCHANGED noop
  BY DEF Access, proc
<1>2. /\ req[g] \in Reqs
      /\ hwOn
      /\ Shown(g) = req[g].addr
  BY <1>1, AccessRightCell
<1> DEFINE o == Pending[g]
<1>3. /\ o.ph = "called"
      /\ o.kind = req[g].kind /\ o.addr = req[g].addr /\ o.val = req[g].val
  BY <1>1 DEF Pending, Quiet
<1>4. ASSUME NEW v, req'[g] = [req[g] EXCEPT !.val = v],
             \A h \in Goroutines \ {g} : req'[h] = req[h]
      PROVE  Pending' = [Pending EXCEPT ![g] = Space!Op("done", o.kind, o.addr, v)]
  <2>1. pc'[g] = "flush" /\ \A h \in Goroutines \ {g} : pc'[h] = pc[h]
    BY <1>1 DEF IInv, TypeOK
  <2>2. /\ req'[g].kind = o.kind
        /\ req'[g].addr = o.addr
        /\ req'[g].val = v
    BY <1>2, <1>3, <1>4 DEF Reqs
  <2> QED BY ZenonT(40), <1>4, <2>1, <2>2 DEF Pending, Space!Op, Quiet
<1>5. CASE req[g].kind = "read"
  <2>1. /\ req' = [req EXCEPT ![g].val = mem[req[g].addr]]
        /\ UNCHANGED mem
    BY <1>2, <1>5 DEF Access
  <2>2. Pending' = [Pending EXCEPT ![g] = Space!Op("done", "read", o.addr, mem[o.addr])]
    BY <1>3, <1>4, <1>5, <2>1 DEF IInv, TypeOK
  <2> QED BY <1>1, <1>3, <1>5, <2>1, <2>2 DEF Space!Perform
<1>6. CASE req[g].kind = "write"
  <2>1. /\ UNCHANGED req
        /\ mem' = IF noop[g[1]] THEN mem ELSE [mem EXCEPT ![o.addr] = o.val]
    BY <1>2, <1>3, <1>6 DEF Access
  <2>2. req'[g] = [req[g] EXCEPT !.val = o.val]
    BY <1>2, <1>3, <2>1 DEF Reqs
  <2>3. Pending' = [Pending EXCEPT ![g] = Space!Op("done", o.kind, o.addr, o.val)]
    <3> HIDE DEF o
    <3> QED BY <1>4, <2>1, <2>2
  <2> QED BY <1>1, <1>3, <1>6, <2>1, <2>3 DEF Space!Perform
<1> QED BY <1>2, <1>5, <1>6 DEF Reqs

LEMMA FinishSpace ==
  ASSUME IInv, NEW g \in Goroutines, Finish(g)
  PROVE  Space!Return(g)
<1> USE DEF Finish, hw, proc
<1>1. Pending[g].ph = "done"
  BY DEF Pending, Quiet
<1>2. Pending' = [Pending EXCEPT ![g] = Space!NoOp]
  BY DEF IInv, TypeOK, Pending, Space!NoOp, Quiet
<1> QED BY <1>1, <1>2 DEF Space!Return

LEMMA NextSpace ==
  ASSUME OneProcess, IInv, [Next]_vars
  PROVE  [Space!Next]_(Space!spaceVars)
<1>1. ASSUME NEW p \in Procs, Start(p) PROVE Space!Next
  BY <1>1, StartSpace DEF Space!Next
<1>2. ASSUME NEW p \in Procs, Exit(p) PROVE Space!Next
  BY <1>2, EndsSpace DEF Exit, Space!Next
<1>3. ASSUME NEW g \in Goroutines, Step(g) PROVE [Space!Next]_(Space!spaceVars)
  <2>1. g[1] \in Procs /\ g \in Space!Users
    BY DEF Goroutines, Space!Users
  <2>2. CASE \/ CallMap(g) \/ MapLock(g) \/ MapDone(g)
             \/ Lock(g) \/ IndexHit(g) \/ WritePage(g) \/ Enable(g)
    BY <2>2, SilentSpace DEF Space!spaceVars
  <2>3. CASE MapFatal(g) \/ CallPanic(g)
    BY <2>1, <2>3, EndsSpace DEF MapFatal, CallPanic, Space!Next
  <2>4. CASE Call(g)
    BY <2>1, <2>4, CallSpace DEF Space!Next
  <2>5. CASE Access(g)
    BY <2>1, <2>5, AccessSpace DEF Space!Next
  <2>6. CASE Finish(g)
    BY <2>1, <2>6, FinishSpace DEF Space!Next
  <2> QED BY <1>3, <2>2, <2>3, <2>4, <2>5, <2>6 DEF Step
<1>4. CASE UNCHANGED vars
  BY <1>4 DEF vars, Space!spaceVars, Pending
<1> QED BY <1>1, <1>2, <1>3, <1>4 DEF Next

\* Reads and writes through the window behave as on one memory: each takes
\* effect once, atomically, at its own address, between its call and its return.
THEOREM BridgeImplementsSpace ==
  ASSUME OneProcess, AvoidsPageZero
  PROVE  Spec => AtomicSpace
<1>1. Init => Space!Init
  BY InitSpace
<1>2. IInv /\ [Next]_vars => [Space!Next]_(Space!spaceVars)
  BY NextSpace
<1> QED BY <1>1, <1>2, BridgeInvariant, PTL DEF Spec, AtomicSpace, Space!Spec
=============================================================================
