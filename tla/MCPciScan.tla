------------------------------ MODULE MCPciScan ------------------------------
\* Instances of PciScan for TLC: a root port, a switch with two downstream ports,
\* and two functions behind the first of them.
EXTENDS PciScan, TLC

Cell(i, n) == [id |-> i, next |-> n]
One(i) == <<Cell(i, 0), Cell(NoId, 0), Cell(NoId, 0)>>
Dev(b, f, t, s, l) ==
  [present |-> TRUE, hasCaps |-> TRUE, bus |-> b, devFn |-> f, type |-> t, sec |-> s, bridge |-> s # 0,
   label |-> l, ocap |-> One(EXP), ecap |-> One(1)]
Base == <<Dev(0, 8, ROOT_PORT, 1, ""), Dev(1, 0, UPSTREAM, 2, ""),
          Dev(2, 0, DOWNSTREAM, 3, ""), Dev(2, 8, DOWNSTREAM, 4, ""),
          Dev(3, 0, ENDPOINT, 0, ""), Dev(3, 1, ENDPOINT, 0, "")>>

\* The switch may be dead, the upstream port named (the last
\* function is without PCIe then), the functions named.
Shapes ==
  {[Base EXCEPT ![2].present = p, ![2].label = l, ![5].label = m, ![6].label = m,
                ![6].hasCaps = (l = "")] :
     p \in BOOLEAN, l \in {"", "PLX"}, m \in {"", "IETH"}}

\* The endpoint alone below the root port, with many lists, some of them cyclic.
ManyLists ==
  {<<Cell(i, a), Cell(j, b), Cell(k, c)>> :
     i \in {NoId, 1}, j \in {1, 257}, k \in {NoId, 2}, a \in {0, 2, 3}, b \in {0, 1, 3}, c \in {0, 2}}
Alone(list) ==
  [Base EXCEPT ![2].present = FALSE, ![3].present = FALSE, ![4].present = FALSE,
               ![6].present = FALSE, ![5].ecap = list]

\* The second downstream port leads nowhere yet, or a bridge on the root bus does, or both.
Unconfigured ==
  LET port(c) == [c EXCEPT ![4].sec = 0, ![4].bridge = TRUE]
      onRoot(c) == [c EXCEPT ![6] = [Dev(0, 16, 7, 0, "") EXCEPT !.bridge = TRUE]]
  IN  {port(Base), onRoot(Base), port(onRoot(Base))}

MCConfs == Shapes \cup {Alone(list) : list \in ManyLists} \cup Unconfigured
=============================================================================
