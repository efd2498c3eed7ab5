------------------------------ MODULE AstSpace ------------------------------
(***************************************************************************)
(* What ast.Map promises its callers: the address space of the BMC as one  *)
(* memory, on which every Read32/Read8/Write32/Write8 takes effect         *)
(* atomically, at the address it names, between its call and its return.   *)
(* There is no window and no page register here; P2aBridge implements it.  *)
(***************************************************************************)
CONSTANTS Procs,        \* the programs that use the address space
          Threads,      \* the goroutines of each
          Addrs,        \* the addresses of the BMC
          Vals          \* the values a cell can hold

VARIABLES mem,          \* the cells of the BMC
          fake,         \* fake[p]: writes of p are faked (ast -noop)
          pend          \* pend[g]: the outstanding operation of g, or NoOp

spaceVars == <<mem, fake, pend>>

Users == Procs \X Threads
NoOp == [ph |-> "none"]
NoVal == "noval"        \* what a read has before it gets its value
Op(ph, kind, a, v) == [ph |-> ph, kind |-> kind, addr |-> a, val |-> v]

Init == /\ mem \in [Addrs -> Vals]
        /\ fake = [p \in Procs |-> FALSE]
        /\ pend = [g \in Users |-> NoOp]

Begin(p) ==
  /\ fake' \in {[fake EXCEPT ![p] = b] : b \in BOOLEAN}
  /\ \A g \in Users : g[1] = p => pend[g] = NoOp
  /\ UNCHANGED <<mem, pend>>

Invoke(g) ==
  /\ pend[g] = NoOp
  /\ \E a \in Addrs :
       \/ pend' = [pend EXCEPT ![g] = Op("called", "read", a, NoVal)]
       \/ \E v \in Vals : pend' = [pend EXCEPT ![g] = Op("called", "write", a, v)]
  /\ UNCHANGED <<mem, fake>>

\* A read returns the cell; a write sets it, and no other, unless it is faked.
Perform(g) ==
  LET o == pend[g] IN
  /\ o.ph = "called"
  /\ \/ /\ o.kind = "read"
        /\ pend' = [pend EXCEPT ![g] = Op("done", "read", o.addr, mem[o.addr])]
        /\ UNCHANGED mem
     \/ /\ o.kind = "write"
        /\ pend' = [pend EXCEPT ![g] = Op("done", "write", o.addr, o.val)]
        /\ mem' = IF fake[g[1]] THEN mem ELSE [mem EXCEPT ![o.addr] = o.val]
  /\ UNCHANGED fake

Return(g) ==
  /\ pend[g].ph = "done"
  /\ pend' = [pend EXCEPT ![g] = NoOp]
  /\ UNCHANGED <<mem, fake>>

\* A program ends: its operations are gone, performed or not.
End(p) ==
  /\ pend' = [g \in Users |-> IF g[1] = p THEN NoOp ELSE pend[g]]
  /\ fake' = [fake EXCEPT ![p] = FALSE]
  /\ UNCHANGED mem

Next == \/ \E p \in Procs : Begin(p) \/ End(p)
        \/ \E g \in Users : Invoke(g) \/ Perform(g) \/ Return(g)

Spec == Init /\ [][Next]_spaceVars
=============================================================================
