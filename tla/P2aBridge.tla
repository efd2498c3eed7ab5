------------------------------ MODULE P2aBridge ------------------------------
(***************************************************************************)
(* ast/p2a.go: the BMC's address space seen from the host through the one  *)
(* 64KB window that BAR1 of the ASPEED VGA device offers.  A page register *)
(* (0xf004, enabled by 0xf000) selects the page the window shows.  Each    *)
(* process keeps the page it last selected in p2aHandle.f004 and skips the *)
(* register writes when that cache says the window is right already; its   *)
(* goroutines share the handle and its mutex.                              *)
(***************************************************************************)
EXTENDS Integers, FiniteSets

CONSTANTS Procs,      \* processes of the host that use the bridge
          Threads,    \* goroutines of each process
          PageSize,   \* cells the window shows (0x10000 in the code)
          NPages,     \* pages of the BMC's address space (2^16 in the code)
          Vals,       \* values of a cell
          Regions,    \* the [start, size] pairs callers map
          Offsets,    \* offsets callers pass, some beyond a region's end
          Devices     \* how many 1a03:2000 functions the scan may find

ASSUME SizesAssumption == PageSize \in Nat \ {0} /\ NPages \in Nat \ {0}
ASSUME ValsAssumption == Vals # {}
ASSUME RegionsAssumption == Regions \subseteq [start : Nat, size : Nat]
ASSUME OffsetsAssumption == Offsets \subseteq Nat
ASSUME DevicesAssumption == Devices \subseteq Nat

VARIABLES hwPage,     \* page register 0xf004 of the device
          hwOn,       \* enable bit 0xf000 of the device
          mem,        \* cells of the BMC
          devices,    \* number of 1a03:2000 functions in this host
          alive,      \* alive[p]: process p is running
          noop,       \* noop[p]: p was started with -noop
          cache,      \* cache[p]: p2aHandle.f004
          bar1,       \* bar1[p]: p2aHandle.bar1 is mapped
          handles,    \* handles[p]: regions Map has returned in p
          lock,       \* lock[p]: the goroutines (one at most) that hold p2aHandle.m
          pc,         \* pc[g]: where goroutine g is
          req         \* req[g]: its operation; val receives what a read returns

hw == <<hwPage, hwOn, mem>>
proc == <<alive, noop, cache, bar1, handles>>
vars == <<hwPage, hwOn, mem, devices, alive, noop, cache, bar1, handles,
          lock, pc, req>>

Goroutines == Procs \X Threads
Owner == [g \in Goroutines |-> g[1]]
Addrs == 0 .. NPages * PageSize - 1
Pages == 0 .. NPages - 1
PageOf(a) == a \div PageSize
LowOf(a) == a % PageSize
Cell(page, low) == page * PageSize + low

\* uint32(offset) after "offset += m.start": the sum keeps the width of an address.
Target(r, off) == (r.start + off) % (NPages * PageSize)

NoReq == [kind |-> "none"]
NoVal == "noval"            \* what a read has before it gets its value
Req(kind, a, v) == [kind |-> kind, addr |-> a, val |-> v]
Reqs == [kind : {"read"}, addr : Addrs, val : Vals \cup {NoVal}]
          \cup [kind : {"write"}, addr : Addrs, val : Vals]
Critical == {"index", "enable", "access", "flush", "scan"}
Pcs == {"idle", "lock", "maplock"} \cup Critical

TypeOK ==
  /\ hwPage \in Pages
  /\ hwOn \in BOOLEAN
  /\ mem \in [Addrs -> Vals]
  /\ devices \in Devices
  /\ alive \in [Procs -> BOOLEAN]
  /\ noop \in [Procs -> BOOLEAN]
  /\ cache \in [Procs -> Pages]
  /\ bar1 \in [Procs -> BOOLEAN]
  /\ handles \in [Procs -> SUBSET Regions]
  /\ lock \in [Procs -> SUBSET Goroutines]
  /\ pc \in [Goroutines -> Pcs]
  /\ req \in [Goroutines -> Reqs \cup {NoReq}]

\* The device keeps whatever an earlier program or the firmware left in it.
Init ==
  /\ hwPage \in Pages
  /\ hwOn \in BOOLEAN
  /\ mem \in [Addrs -> Vals]
  /\ devices \in Devices
  /\ alive = [p \in Procs |-> FALSE]
  /\ noop = [p \in Procs |-> FALSE]
  /\ cache = [p \in Procs |-> 0]
  /\ bar1 = [p \in Procs |-> FALSE]
  /\ handles = [p \in Procs |-> {}]
  /\ lock = [p \in Procs |-> {}]
  /\ pc = [g \in Goroutines |-> "idle"]
  /\ req = [g \in Goroutines |-> NoReq]
-----------------------------------------------------------------------------
(* Processes.  The package variables start from their zero values, f004 too. *)

Start(p) ==
  /\ ~alive[p]
  /\ alive' = [alive EXCEPT ![p] = TRUE]
  /\ noop' \in {[noop EXCEPT ![p] = b] : b \in BOOLEAN}
  /\ UNCHANGED <<hw, devices, cache, bar1, handles, lock, pc, req>>

\* What the end of a process does to the state: its memory is gone, the
\* device and the BMC keep what was written so far.
Ends(p) ==
  /\ alive' = [alive EXCEPT ![p] = FALSE]
  /\ noop' = [noop EXCEPT ![p] = FALSE]
  /\ cache' = [cache EXCEPT ![p] = 0]
  /\ bar1' = [bar1 EXCEPT ![p] = FALSE]
  /\ handles' = [handles EXCEPT ![p] = {}]
  /\ lock' = [lock EXCEPT ![p] = {}]
  /\ pc' = [g \in Goroutines |-> IF g[1] = p THEN "idle" ELSE pc[g]]
  /\ req' = [g \in Goroutines |-> IF g[1] = p THEN NoReq ELSE req[g]]
  /\ UNCHANGED <<hw, devices>>

\* A signal, log.Fatal elsewhere, or the end of main, at any moment.
Exit(p) == alive[p] /\ Ends(p)
-----------------------------------------------------------------------------
(* Map *)

CallMap(g) ==
  /\ alive[g[1]] /\ pc[g] = "idle"
  /\ pc' = [pc EXCEPT ![g] = "maplock"]
  /\ UNCHANGED <<hw, devices, proc, lock, req>>

\* Variant: the mutex is not waited for.
AcquireAtOnce(g, from, to) ==
  /\ pc[g] = from
  /\ lock' = [lock EXCEPT ![g[1]] = @ \cup {g}]
  /\ pc' = [pc EXCEPT ![g] = to]
  /\ UNCHANGED <<hw, devices, proc, req>>

Acquire(g, from, to) ==
  /\ pc[g] = from
  /\ lock[g[1]] = {}
  /\ lock' = [lock EXCEPT ![g[1]] = @ \cup {g}]
  /\ pc' = [pc EXCEPT ![g] = to]
  /\ UNCHANGED <<hw, devices, proc, req>>

MapLock(g) == Acquire(g, "maplock", "scan")

\* The scan runs once per process: bar1 is mapped before any handle exists.
MapDone(g) ==
  /\ pc[g] = "scan"
  /\ bar1[g[1]] \/ devices = 1
  /\ bar1' = [bar1 EXCEPT ![g[1]] = TRUE]
  /\ \E r \in Regions : handles' = [handles EXCEPT ![g[1]] = @ \cup {r}]
  /\ lock' = [lock EXCEPT ![g[1]] = @ \ {g}]
  /\ pc' = [pc EXCEPT ![g] = "idle"]
  /\ UNCHANGED <<hw, devices, alive, noop, cache, req>>

\* log.Fatalf("Cannot find pci 1a03:2000 ...")
MapFatal(g) ==
  /\ pc[g] = "scan"
  /\ ~bar1[g[1]] /\ devices # 1
  /\ Ends(g[1])
-----------------------------------------------------------------------------
(* Read32, Read8, Write32, Write8 *)

\* An offset below the size of the region: the operation goes on to the mutex.
Call(g) ==
  /\ alive[g[1]] /\ pc[g] = "idle"
  /\ \E r \in handles[g[1]], off \in Offsets :
       /\ off < r.size
       /\ \/ req' = [req EXCEPT ![g] = Req("read", Target(r, off), NoVal)]
          \/ \E v \in Vals :
               req' = [req EXCEPT ![g] = Req("write", Target(r, off), v)]
  /\ pc' = [pc EXCEPT ![g] = "lock"]
  /\ UNCHANGED <<hw, devices, proc, lock>>

\* panic("out of bounds") ends the whole process, the other goroutines included.
CallPanic(g) ==
  /\ alive[g[1]] /\ pc[g] = "idle"
  /\ \E r \in handles[g[1]], off \in Offsets : off >= r.size
  /\ Ends(g[1])

Lock(g) == Acquire(g, "lock", "index")

\* Variant: any page selected before is taken for the right one.
IndexHitAny(g) ==
  /\ pc[g] = "index"
  /\ cache[g[1]] # 0
  /\ pc' = [pc EXCEPT ![g] = "access"]
  /\ UNCHANGED <<hw, devices, proc, lock, req>>

\* setIndex finds the page in the cache: the registers are left alone.
IndexHit(g) ==
  /\ pc[g] = "index"
  /\ cache[g[1]] = PageOf(req[g].addr)
  /\ pc' = [pc EXCEPT ![g] = "access"]
  /\ UNCHANGED <<hw, devices, proc, lock, req>>

WritePage(g) ==
  /\ pc[g] = "index"
  /\ cache[g[1]] # PageOf(req[g].addr)
  /\ hwPage' = PageOf(req[g].addr)
  /\ pc' = [pc EXCEPT ![g] = "enable"]
  /\ UNCHANGED <<hwOn, mem, devices, proc, lock, req>>

\* Variant: the cache keeps the offset of the access for its page.
EnableOffset(g) ==
  /\ pc[g] = "enable"
  /\ hwOn' = TRUE
  /\ cache' = [cache EXCEPT ![g[1]] = req[g].addr]
  /\ pc' = [pc EXCEPT ![g] = "access"]
  /\ UNCHANGED <<hwPage, mem, devices, alive, noop, bar1, handles, lock, req>>

Enable(g) ==
  /\ pc[g] = "enable"
  /\ hwOn' = TRUE
  /\ cache' = [cache EXCEPT ![g[1]] = PageOf(req[g].addr)]
  /\ pc' = [pc EXCEPT ![g] = "access"]
  /\ UNCHANGED <<hwPage, mem, devices, alive, noop, bar1, handles, lock, req>>

\* The cell the window shows for req[g], wherever the page register points.
Shown(g) == Cell(hwPage, LowOf(req[g].addr))

\* A disabled window ignores writes and returns anything.
Access(g) ==
  /\ pc[g] = "access"
  /\ \/ /\ req[g].kind = "read"
        /\ \E v \in Vals :
             /\ hwOn => v = mem[Shown(g)]
             /\ req' = [req EXCEPT ![g].val = v]
        /\ UNCHANGED mem
     \/ /\ req[g].kind = "write"
        /\ mem' = IF hwOn /\ ~noop[g[1]]
                    THEN [mem EXCEPT ![Shown(g)] = req[g].val]
                    ELSE mem
        /\ UNCHANGED req
  /\ pc' = [pc EXCEPT ![g] = "flush"]
  /\ UNCHANGED <<hwPage, hwOn, devices, proc, lock>>

\* Variant: the return forgets to unlock.
FinishLocked(g) ==
  /\ pc[g] = "flush"
  /\ pc' = [pc EXCEPT ![g] = "idle"]
  /\ req' = [req EXCEPT ![g] = NoReq]
  /\ UNCHANGED <<hw, devices, proc, lock>>

\* The read of 0x3cc that posts a write, the deferred Unlock and the return.
Finish(g) ==
  /\ pc[g] = "flush"
  /\ lock' = [lock EXCEPT ![g[1]] = @ \ {g}]
  /\ pc' = [pc EXCEPT ![g] = "idle"]
  /\ req' = [req EXCEPT ![g] = NoReq]
  /\ UNCHANGED <<hw, devices, proc>>
-----------------------------------------------------------------------------
Step(g) ==
  \/ CallMap(g) \/ MapLock(g) \/ MapDone(g) \/ MapFatal(g)
  \/ Call(g) \/ CallPanic(g) \/ Lock(g) \/ IndexHit(g) \/ WritePage(g)
  \/ Enable(g) \/ Access(g) \/ Finish(g)

Next == \/ \E p \in Procs : Start(p) \/ Exit(p)
        \/ \E g \in Goroutines : Step(g)

Spec == Init /\ [][Next]_vars

\* A goroutine that has called runs on; sync.Mutex hands itself to a waiter
\* that has waited long enough, so a lock that keeps coming free is taken.
\* Nobody has to call, to start a process or to end one.
Fairness ==
  \A g \in Goroutines :
    /\ SF_vars(MapLock(g)) /\ SF_vars(Lock(g))
    /\ WF_vars(MapDone(g) \/ MapFatal(g) \/ IndexHit(g) \/ WritePage(g)
                 \/ Enable(g) \/ Access(g) \/ Finish(g))

FairSpec == Spec /\ Fairness
-----------------------------------------------------------------------------
(* Properties *)

\* Whenever an access goes out on the bus, the window is enabled and shows the
\* page of its address: the cached f004 never stands for another page (30-37).
WindowRight ==
  \A g \in Goroutines :
    pc[g] = "access" => hwOn /\ hwPage = PageOf(req[g].addr)

\* What a caller sees of its goroutine: an access has taken effect once the
\* data cycle is done, and Map is no access.
Quiet == {"idle", "maplock", "scan"}
Pending ==
  [g \in Goroutines |->
     IF pc[g] \in Quiet THEN [ph |-> "none"]
     ELSE [ph |-> IF pc[g] = "flush" THEN "done" ELSE "called",
           kind |-> req[g].kind, addr |-> req[g].addr, val |-> req[g].val]]

Space == INSTANCE AstSpace WITH fake <- noop, pend <- Pending

\* Every access reads or writes the cell it names, and takes effect once,
\* between its call and its return, whatever goroutines run beside it.
AtomicSpace == Space!Spec

\* Every access that has been called returns, or its process ends: the mutex is
\* released on every way out of the four operations and of Map.
CallsReturn == \A g \in Goroutines : pc[g] = "lock" ~> pc[g] = "idle"

-----------------------------------------------------------------------------
(* What the code takes for granted, and the invariant it keeps then.        *)

\* The cache belongs to a process and the window to the host.
OneProcess == \A p, q \in Procs : p = q
\* f004 is 0 before anything was selected, so page 0 counts as selected.
AvoidsPageZero ==
  \A r \in Regions, off \in Offsets : off < r.size => PageOf(Target(r, off)) # 0

ReqInv ==
  \A g \in Goroutines :
    pc[g] \notin Quiet =>
      /\ req[g] \in Reqs
      /\ PageOf(req[g].addr) # 0
      /\ req[g].kind = "read" /\ pc[g] # "flush" => req[g].val = NoVal

LockInv ==
  /\ \A g \in Goroutines : pc[g] \in Critical <=> g \in lock[g[1]]
  /\ \A p \in Procs : \A g, h \in lock[p] : g = h

DeadInv == \A g \in Goroutines : ~alive[g[1]] => pc[g] = "idle"

WindowInv ==
  /\ \A p \in Procs :
       \/ cache[p] = 0
       \/ hwOn /\ hwPage = cache[p]
       \/ \E g \in Goroutines : pc[g] = "enable"
  /\ \A g \in Goroutines : pc[g] = "enable" => hwPage = PageOf(req[g].addr)
  /\ WindowRight

IInv == TypeOK /\ ReqInv /\ LockInv /\ DeadInv /\ WindowInv
=============================================================================
