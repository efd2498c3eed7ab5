----------------------------- MODULE MCPciErrMon -----------------------------
\* Instances of PciErrMon for TLC: two links of a root port and an endpoint
\* each, with and without the registers of an endpoint.
EXTENDS PciErrMon, TLC
CONSTANTS p1, c1, p2, c2, e, u

MCDevs == <<c1, p1, c2, p2>>
MCLinks == <<p1, p2>>
MCChild == (p1 :> c1) @@ (p2 :> c2)
MCHas == (c2 :> {"status", "unc", "corr"}) @@ [d \in {p1, c1, p2} |-> {"unc", "corr"}]
MCNoisy == {<<p1, "corr", e>>, <<c2, "unc", e>>, <<c1, "unc", u>>, <<c2, "status", e>>}
MCIters == {-1, 1}
=============================================================================
