---------------------------- MODULE MCP2aBridge ----------------------------
(***************************************************************************)
(* Instances of P2aBridge for TLC: three pages of two cells.  One region   *)
(* lies in page 1, the other begins in page 1 and ends in page 2; offset 3 *)
(* is beyond the end of both.                                              *)
(***************************************************************************)
EXTENDS P2aBridge

CONSTANTS p1, t1, t2, x, y

MCRegions == {[start |-> 2, size |-> 2], [start |-> 3, size |-> 3]}
\* Page 0 belongs to the BMC's address space like the others.
MCRegionsAll == {[start |-> 0, size |-> 2], [start |-> 2, size |-> 3]}
MCOffsets == {0, 1, 3}

\* The cells start equal; the window starts at any page, enabled or not.
MCInit == Init /\ mem = [a \in Addrs |-> x]
MCSpec == MCInit /\ [][Next]_vars
MCFairSpec == MCSpec /\ Fairness

ASSUME OneProcess
=============================================================================
