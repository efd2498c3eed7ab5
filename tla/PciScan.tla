------------------------------- MODULE PciScan -------------------------------
(***************************************************************************)
(* pci/defs.go: from the configuration spaces of the devices to the world  *)
(* the other programs use: capability maps, parents, links and paths.      *)
(***************************************************************************)
EXTENDS Integers, Sequences, FiniteSets, SequencesExt

CONSTANTS Devices,  \* numbers of the devices of the host
          Confs,    \* their configuration spaces, see IsConf
          Offsets,  \* places of a capability, the first one is 1
          Labels    \* names InitNickName gives to vendors and classes, "" for none

ROOT_PORT == 4
ENDPOINT == 0
UPSTREAM == 5
DOWNSTREAM == 6
EXP == 16         \* PCI_CAP_ID_EXP
NoId == 65535     \* an empty header: reads as ones, or an extended one as 0
None == 0         \* no device, no offset

\* A list of capabilities.
Lists == [Offsets -> [id : Nat, next : Offsets \cup {None}]]

\* present: the ids do not read as ones.  sec: secondary bus of a bridge, 0 of one that
\* nobody has configured.  type: the field of the PCIe capability.  One domain, buses
\* numbered downwards, as firmware and systems do.
IsConf(c) ==
  \A d \in Devices :
    /\ {c[d].present, c[d].hasCaps, c[d].bridge} \subseteq BOOLEAN
    /\ c[d].bus \in Nat /\ c[d].devFn \in Nat /\ c[d].sec \in Nat
    /\ c[d].type \in 0..15 /\ c[d].label \in Labels
    /\ c[d].ocap \in Lists /\ c[d].ecap \in Lists
    /\ \A o \in Offsets : c[d].ocap[o].id \in (0..254) \cup {NoId}
    /\ c[d].sec # 0 => c[d].bridge /\ c[d].sec > c[d].bus
    /\ \A e \in Devices \ {d} :
         /\ c[d].sec # 0 => c[e].sec # c[d].sec
         /\ c[e].bus # c[d].bus \/ c[e].devFn # c[d].devFn

ASSUME DevicesAssumption == Devices \subseteq Nat \ {None} /\ IsFiniteSet(Devices)
ASSUME OffsetsAssumption ==
  Offsets \subseteq Nat \ {None} /\ 1 \in Offsets /\ IsFiniteSet(Offsets)
ASSUME ConfsAssumption == \A c \in Confs : IsConf(c)
ASSUME LabelsAssumption == "ROOT" \in Labels  \* of every root port

VARIABLES conf,            \* the configuration spaces
          phase,           \* "add", "ocap", "ecap", "link", "name", "done", "panic"
          todo,            \* devices the system has not listed yet
          cur, off,        \* the device in AddDev, the capability looked at
          Ocap, Ecap,      \* per device, pairs <<id, offset>>, the last one of an id counts
          devType, devs,   \* d.devType, w.Devs
          Bus,             \* w.Bus, pairs <<secondary, device>>
          idx,             \* of the loops of PciInit
          parent, LnkChild,
          downPorts, nameCount,
          nickname, Path

vars == <<conf, phase, todo, cur, off, Ocap, Ecap, devType, devs, Bus, idx, parent,
          LnkChild, downPorts, nameCount, nickname, Path>>
caps == <<Ocap, Ecap>>
names == <<downPorts, nameCount, nickname, Path>>

TypeOK ==
  /\ conf \in Confs
  /\ phase \in {"add", "ocap", "ecap", "link", "name", "done", "panic"}
  /\ todo \subseteq Devices
  /\ cur \in Devices \cup {None} /\ off \in Offsets \cup {None}
  /\ Ocap \in [Devices -> SUBSET (Nat \X Offsets)]
  /\ Ecap \in [Devices -> SUBSET (Nat \X Offsets)]
  /\ devType \in [Devices -> -1..15]
  /\ devs \in Seq(Devices) /\ IsInjective(devs)
  /\ \A b \in Bus : b[1] \in Nat /\ b[2] \in Devices
  /\ idx \in Nat \ {0}
  /\ parent \in [Devices -> Devices \cup {None}]
  /\ LnkChild \in [Devices -> Devices \cup {None}]
  /\ downPorts \in [Devices -> Nat] /\ nameCount \in [Labels -> Nat]

Each(x) == [d \in Devices |-> x]

Init ==
  /\ conf \in Confs /\ phase = "add" /\ todo = Devices /\ cur = None /\ off = None
  /\ Ocap = Each({}) /\ Ecap = Each({}) /\ devType = Each(-1)
  /\ devs = <<>> /\ Bus = {} /\ idx = 1
  /\ parent = Each(None) /\ LnkChild = Each(None)
  /\ downPorts = Each(0) /\ nameCount = [l \in Labels |-> 0]
  /\ nickname = Each(<<>>) /\ Path = Each(<<>>)
-----------------------------------------------------------------------------
(* AddDev, in the order in which the system lists the devices *)

AddDev(d) ==
  /\ phase = "add" /\ d \in todo
  /\ todo' = todo \ {d}
  /\ IF conf[d].present
       THEN /\ cur' = d /\ phase' = "ocap"
            /\ off' = IF conf[d].hasCaps THEN 1 ELSE None
            /\ devs' = Append(devs, d)
       ELSE UNCHANGED <<cur, phase, off, devs>>
  /\ UNCHANGED <<conf, caps, devType, Bus, idx, parent, LnkChild, names>>

List == IF phase = "ocap" THEN conf[cur].ocap ELSE conf[cur].ecap

\* Variant: the header that ends a list is taken for a capability.
EndsAtNull == off = None

AtEnd == off # None => List[off].id = NoId

\* The id of an extended capability has 16 bits, of which the code keeps 8.
KeyOf(id) == id % 256

\* Variant: the offset is not moved on.
SameOffset(o) == o

NextOf(o) == List[o].next

\* Variant: id and offset are swapped.
OverwriteSwapped(pairs, key, value) == {p \in pairs : p[1] # key} \cup {<<value, key>>}

Overwrite(pairs, key, value) == {p \in pairs : p[1] # key} \cup {<<key, value>>}

\* The loops of capInit and EcapInit.
Walk ==
  /\ phase \in {"ocap", "ecap"} /\ ~AtEnd
  /\ LET new(m) == [m EXCEPT ![cur] = Overwrite(@, KeyOf(List[off].id), off)] IN
     IF phase = "ocap" THEN Ocap' = new(Ocap) /\ Ecap' = Ecap
                       ELSE Ecap' = new(Ecap) /\ Ocap' = Ocap
  /\ off' = NextOf(off)
  /\ UNCHANGED <<conf, phase, todo, cur, devType, devs, Bus, idx, parent, LnkChild, names>>

\* Lines 135-142: the type of a device with the PCIe capability.
CapsDone ==
  /\ phase = "ocap" /\ AtEnd
  /\ devType' = IF \E p \in Ocap[cur] : p[1] = EXP
                  THEN [devType EXCEPT ![cur] = conf[cur].type] ELSE devType
  /\ phase' = "ecap" /\ off' = 1
  /\ UNCHANGED <<conf, todo, cur, caps, devs, Bus, idx, parent, LnkChild, names>>

\* Lines 143-150.  A bridge that is not configured counts as the one to bus 0.
EcapsDone ==
  /\ phase = "ecap" /\ AtEnd
  /\ Bus' = IF conf[cur].bridge THEN Overwrite(Bus, conf[cur].sec, cur) ELSE Bus
  /\ phase' = "add" /\ cur' = None /\ off' = None
  /\ UNCHANGED <<conf, todo, caps, devType, devs, idx, parent, LnkChild, names>>
-----------------------------------------------------------------------------
(* PciInit *)

\* Names compare as bus and device number do.
Before(c, d) == conf[c].bus < conf[d].bus \/ (conf[c].bus = conf[d].bus /\ conf[c].devFn < conf[d].devFn)

\* Variant: the devices stay in the order of the system.
Unsorted(s) == s

\* A device has its place after those whose names come before its own.
Sorted(s) ==
  [k \in DOMAIN s |->
     CHOOSE d \in Range(s) : Cardinality({c \in Range(s) : Before(c, d)}) = k - 1]

Sort ==
  /\ phase = "add" /\ todo = {}
  /\ devs' = Sorted(devs)
  /\ phase' = "link" /\ idx' = 1
  /\ UNCHANGED <<conf, todo, cur, off, caps, devType, Bus, parent, LnkChild, names>>

Upstream(d) == IF \E b \in Bus : b[1] = conf[d].bus
                 THEN (CHOOSE b \in Bus : b[1] = conf[d].bus)[2] ELSE None

\* Lines 227-242.
Link ==
  /\ phase = "link"
  /\ IF idx > Len(devs) THEN phase' = "name" /\ idx' = 1 /\ UNCHANGED <<parent, LnkChild>>
     ELSE LET d == devs[idx]  up == Upstream(d) IN
          /\ parent' = [parent EXCEPT ![d] = up]
          /\ LnkChild' =
               IF up # None /\ conf[d].devFn = 0
                  /\ devType[up] \in {ROOT_PORT, DOWNSTREAM}
                  /\ devType[d] \in {ENDPOINT, UPSTREAM}
                 THEN [LnkChild EXCEPT ![up] = d] ELSE LnkChild
          /\ idx' = idx + 1 /\ phase' = phase
  /\ UNCHANGED <<conf, todo, cur, off, caps, devType, devs, Bus, names>>

\* Lines 157-186, by type, vendor and class.
LabelOf(d) == IF devType[d] = ROOT_PORT THEN "ROOT"
              ELSE IF devType[d] = -1 THEN "" ELSE conf[d].label

\* Variant: a name is not counted.
CountName(l) == nameCount

CountedName(l) == [nameCount EXCEPT ![l] = @ + 1]

\* Lines 194-206: by bus, by function, by address, or by name and number.
Nick(d) ==
  LET up == parent[d]  l == LabelOf(d) IN
  IF l # "" THEN <<"name", l, nameCount[l]>>
  ELSE IF conf[d].devFn = 0 THEN <<"bus", conf[d].bus>>
  ELSE IF up # None /\ LnkChild[up] # None THEN <<"function", nickname[LnkChild[up]], conf[d].devFn>>
  ELSE <<"address", conf[d].bus, conf[d].devFn>>

PathOf(d) == IF d = None THEN <<>> ELSE Path[d]

\* InitNickName.  A downstream port without a parent is a nil dereference.
Name ==
  /\ phase = "name"
  /\ IF idx > Len(devs) THEN phase' = "done" /\ UNCHANGED <<idx, names>>
     ELSE LET d == devs[idx] IN
          /\ idx' = idx + 1
          /\ \/ /\ devType[d] = DOWNSTREAM /\ parent[d] # None
                /\ LET port == <<"port", downPorts[parent[d]]>> IN
                   /\ nickname' = [nickname EXCEPT ![d] = <<"port", nickname[parent[d]], port>>]
                   /\ Path' = [Path EXCEPT ![d] = Append(Path[parent[d]], port)]
                /\ downPorts' = [downPorts EXCEPT ![parent[d]] = @ + 1]
                /\ phase' = phase /\ nameCount' = nameCount
             \/ /\ devType[d] # DOWNSTREAM
                /\ nickname' = [nickname EXCEPT ![d] = Nick(d)]
                /\ Path' = [Path EXCEPT ![d] = Append(PathOf(parent[d]), Nick(d))]
                /\ nameCount' = IF LabelOf(d) # "" THEN CountedName(LabelOf(d)) ELSE nameCount
                /\ phase' = phase /\ downPorts' = downPorts
             \/ /\ devType[d] = DOWNSTREAM /\ parent[d] = None
                /\ phase' = "panic" /\ UNCHANGED names
  /\ UNCHANGED <<conf, todo, cur, off, caps, devType, devs, Bus, parent, LnkChild>>

Next == (\E d \in Devices : AddDev(d)) \/ Walk \/ CapsDone \/ EcapsDone \/ Sort \/ Link \/ Name

\* The program is scheduled.
Spec == Init /\ [][Next]_vars /\ WF_vars(Next)
-----------------------------------------------------------------------------
(* Properties *)

\* The offsets a list leads to, one after the other, None after its end.
Nth(list) ==
  LET f[i \in 0..Cardinality(Offsets)] ==
        IF i = 0 THEN 1
        ELSE IF f[i - 1] = None THEN None
        ELSE IF list[f[i - 1]].id = NoId THEN None ELSE list[f[i - 1]].next
  IN  [i \in DOMAIN f |-> IF f[i] # None /\ list[f[i]].id = NoId THEN None ELSE f[i]]

\* In a list without a cycle an offset occurs once.
Acyclic(list) == Nth(list)[Cardinality(Offsets)] = None

\* A map with each capability of a list at the offset of its last header.
Holds(map, list) ==
  LET f == Nth(list)
      IdAt(i) == list[f[i]].id
      Latest(i) == f[i] # None /\ \A j \in DOMAIN f : j > i /\ f[j] # None => IdAt(j) # IdAt(i)
  IN  map = {<<IdAt(i), f[i]>> : i \in {j \in DOMAIN f : Latest(j)}}

Narrow(list) ==
  LET f == Nth(list) IN \A i \in DOMAIN f : f[i] # None => list[f[i]].id \in 0..255

OcapRight(d) == /\ conf[d].hasCaps /\ Acyclic(conf[d].ocap) => Holds(Ocap[d], conf[d].ocap)
                /\ ~conf[d].hasCaps => Ocap[d] = {}

\* The maps that every register access of the other programs goes through hold
\* what the lists in configuration space hold, each capability once, at the
\* offset of its last header, also for lists that lead backwards.  Not so of an
\* extended list with an id of more than 8 bits: the comment at line 82 says 16, line
\* 83 keeps 8, and a capability 257 replaces capability 1.
CapsRight ==
  \A d \in Range(devs) \ {cur} :
    /\ OcapRight(d)
    /\ Acyclic(conf[d].ecap) /\ Narrow(conf[d].ecap) => Holds(Ecap[d], conf[d].ecap)

Configured == \A d \in Devices : conf[d].bridge => conf[d].sec # 0

\* A path begins with the path of the device upstream, in whatever order the
\* system lists the devices: InitNickName meets no device before its parent, if the
\* bridges are configured.
PathsNested ==
  phase = "done" /\ Configured =>
    \A d \in Range(devs) : parent[d] # None =>
      SubSeq(Path[d], 1, Len(Path[d]) - 1) = Path[parent[d]]

\* No two devices are reported under one path (pcimon prints nothing else).
PathsUnique ==
  phase = "done" => \A c, d \in Range(devs) : Path[c] = Path[d] => c = d

NoCycles == \A d \in Devices : Acyclic(conf[d].ocap) /\ Acyclic(conf[d].ecap)

\* No downstream port without the rest of its switch, which reads as ones (line 126).
SwitchesComplete ==
  \A d \in Devices : conf[d].present /\ conf[d].type = DOWNSTREAM =>
    \E e \in Devices : conf[e].present /\ conf[e].bridge /\ conf[e].sec = conf[d].bus

\* The scan ends, and names every device, if no list of capabilities has a cycle and
\* no downstream port has lost its switch.
ScanEnds == NoCycles /\ SwitchesComplete => <>(phase = "done")

\* The headers of the list that the loop of capInit or EcapInit may still meet.
HeadersLeft ==
  IF AtEnd THEN 0
  ELSE Cardinality(Offsets) - CHOOSE p \in DOMAIN Nth(List) : Nth(List)[p] = off

\* An upper bound of the steps the scan takes from here on.
StepsLeft ==
  LET perDevice == 2 * Cardinality(Offsets) + 5
      listing == Cardinality(todo) * perDevice + 2 * Len(devs) + 4
  IN  CASE phase = "add" -> listing
        [] phase = "ocap" -> listing + Cardinality(Offsets) + 2 + HeadersLeft
        [] phase = "ecap" -> listing + 1 + HeadersLeft
        [] phase = "link" -> 2 * Len(devs) + 4 - idx
        [] phase = "name" -> Len(devs) + 2 - idx
        [] OTHER -> 0

\* Why it ends: without a cycle every step of AddDev and of the loops of PciInit
\* comes closer to the end, at most (2 * headers + 5) * devices + 4 of them.
ScanAdvances ==
  [][NoCycles => StepsLeft' >= 0 /\ StepsLeft' < StepsLeft]_vars
-----------------------------------------------------------------------------
(* The inductive invariant behind TypeOK and the properties of the paths    *)

\* AddDev: whatever a bus leads to is a bridge that was listed.
ListInv ==
  /\ phase \in {"ocap", "ecap"} => cur \in Range(devs)
  /\ todo \cap Range(devs) = {}
  /\ \A b \in Bus : b[2] \in Range(devs) /\ conf[b[2]].bridge /\ conf[b[2]].sec = b[1]

\* The loops of PciInit go through the devices from the root on, and a parent is
\* the bridge to the bus of its child.
LinkInv ==
  /\ phase \in {"link", "name", "done"} =>
       \A j, k \in DOMAIN devs : j < k => Before(devs[j], devs[k])
  /\ \A d \in Devices : parent[d] # None =>
       phase \in {"link", "name", "done", "panic"} /\ parent[d] = Upstream(d)

\* The parent, if it comes first; a bridge that is not configured may be the parent of
\* devices before it, and of itself.
Above(d) == IF parent[d] # None /\ Before(parent[d], d) THEN parent[d] ELSE None

Named == IF phase \in {"name", "done"} THEN {devs[j] : j \in 1..idx - 1} ELSE {}

\* The last step of a path tells a device from its siblings.
StepRight(d, s) ==
  /\ s[1] \in {"port", "name", "bus", "function", "address"}
  /\ s[1] = "port" => s[2] \in Nat /\ parent[d] # None /\ s[2] < downPorts[parent[d]]
  /\ s[1] = "name" => s[2] \in Labels /\ s[3] \in Nat /\ s[3] < nameCount[s[2]]
  /\ s[1] = "bus" => s[2] = conf[d].bus /\ conf[d].devFn = 0
  /\ s[1] = "function" => s[3] = conf[d].devFn /\ parent[d] # None
  /\ s[1] = "address" => s[2] = conf[d].bus /\ s[3] = conf[d].devFn

NameInv ==
  /\ phase = "name" => idx <= Len(devs) + 1
  /\ phase = "done" => idx = Len(devs) + 1
  /\ DOMAIN nickname = Devices /\ DOMAIN Path = Devices
  /\ phase # "panic" => \A d \in Devices \ Named : Path[d] = <<>>
  /\ \A d \in Named :
       /\ Above(d) # None => Above(d) \in Named
       /\ Path[d] \in Seq(Range(Path[d])) /\ Path[d] # <<>>
       /\ Path[d] = Append(PathOf(Above(d)), Last(Path[d]))
       /\ StepRight(d, Last(Path[d]))
  /\ \A c, d \in Named : Path[c] = Path[d] => c = d

IInv == TypeOK /\ ListInv /\ LinkInv /\ NameInv

\* The first p headers of a list as the loops file them, of each key the last one.
Seen(list, p) ==
  LET f == Nth(list)
      KeyAt(i) == KeyOf(list[f[i]].id)
      Latest(i) == f[i] # None /\ \A j \in i + 1..p - 1 : f[j] # None => KeyAt(j) # KeyAt(i)
  IN  {<<KeyAt(i), f[i]>> : i \in {j \in 0..p - 1 : Latest(j)}}

\* A walk stands at some header of a list without a cycle and has those before it.
Walking(map, list) ==
  Acyclic(list) =>
    \E p \in DOMAIN Nth(list) :
      Nth(list)[p] = (IF AtEnd THEN None ELSE off) /\ map = Seen(list, p)

\* The inductive invariant behind CapsRight.
CapsInv ==
  /\ phase \notin {"ocap", "ecap"} => cur = None
  /\ \A d \in todo : Ocap[d] = {} /\ Ecap[d] = {}
  /\ phase = "ocap" =>
       /\ IF conf[cur].hasCaps THEN Walking(Ocap[cur], conf[cur].ocap)
                               ELSE off = None /\ Ocap[cur] = {}
       /\ Ecap[cur] = {}
  /\ phase = "ecap" => OcapRight(cur) /\ Walking(Ecap[cur], conf[cur].ecap)
  /\ CapsRight
=============================================================================
