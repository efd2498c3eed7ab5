------------------------------ MODULE I2cMaster ------------------------------
(***************************************************************************)
(* The i2c master of ast/i2c.go driving a controller of the stopped BMC,   *)
(* and cmds/asti2c on top of it: the mux that leads to an IDT switch, its  *)
(* registers and its eeprom.  Slaves may refuse bytes or hold the clock,   *)
(* and the program can be killed anywhere and run again.                   *)
(***************************************************************************)
EXTENDS Integers, Sequences

CONSTANTS Size,      \* of the eeprom in bytes
          Vals,      \* of a byte of data
          RegVal,    \* the value of register BCVSTS
          KnownIds,  \* values of the id register that idtInfo knows
          Images,    \* contents of the file of -eein
          Channels,  \* settings of the mux
          ExtraCheck \* -devcheck

ASSUME SizeAssumption == Size \in Nat \ {0} /\ Vals \subseteq 0..255 /\ RegVal \in Vals
ASSUME ImagesAssumption == Images \subseteq Seq(Vals) /\ \A m \in Images : Len(m) <= Size
ASSUME ChannelsAssumption ==
  Channels \subseteq 0..255 /\ 8 \in Channels /\ ExtraCheck \in BOOLEAN

VARIABLES
  \* the controller: state and pending command of register 0x14, status 0x10,
  \* byte buffer 0x20, and the pins
  state, pend, sts, txd, rxd, pins,
  \* on the wire: the slave that was addressed, what it heard since, what it
  \* still says, and whether it drives the data line
  who, heard, says, driving,
  \* the slaves: setting of the mux, eeprom of the IDT, its last answer, its id
  mux, mem, answer, id,
  \* the program: the Tx it is in, the operation and step of it, its byte, the
  \* bytes received, the error it will return, the eeprom address, what idtRead
  \* has read, the id that idtInfo has read, the bytes of -eein, the options
  pc, op, step, n, got, err, i, buf, seen, image, job,
  clean        \* history: nobody outside the program misbehaved in this run

controller == <<state, pend, sts, txd, rxd, pins>>
wire == <<who, heard, says, driving>>
slaves == <<mux, mem, answer>>
locals == <<buf, seen, image>>
program == <<pc, op, step, n, got, err, i, locals, job>>
vars == <<controller, wire, slaves, id, program, clean>>

MuxAddr == 112   \* 0x70
IdtAddr == 114   \* 0x72
Mux70 == 8
Nobody == 0
Cells == 0..Size - 1
Bytes == 0..255
Words == Bytes \cup Cells  \* the two bytes of an eeprom address go as one
Floating == 255  \* what is read when no slave drives the line

\* The commands of the IDT: the first bytes of idt_eeread, idt_eewrite and idt_reg
\* stand for the constant ones after them.
EeQuery == 4
EeStore == 5
EeAnswer == 71   \* 0x47
RegQuery == 3
RegAnswer == 67  \* 0x43
EeTag == 5
RegTag == 7

\* The registers that idtInfo reads, by their number on the bus, and their values.
BCVSTS == 3      \* 0xc / 4
Registers == {0, BCVSTS}
Contents(reg) == IF reg = 0 THEN id ELSE RegVal

Txs == {"mux1", "setmux", "mux2", "regask", "regget", "stask", "stget", "ask", "get",
        "retry", "store"}
Devs == {"dev1", "ready1", "dev2", "ready2"}  \* within the two calls of I2cDev
Files == {"save", "load"}                     \* at the files of -eeout and -eein
Ends == {"off", "ok", "nacked", "fatal", "unknown", "nofile"}

TypeOK ==
  /\ state \in {"idle", "started", "active"}
  /\ pend \in {"none", "start", "tx", "rx", "rxlast", "stop"}
  /\ sts \subseteq {"ack", "nack", "rx", "stop"}
  /\ txd \in Words /\ rxd \in Words /\ pins \in BOOLEAN
  /\ who \in {Nobody, MuxAddr, IdtAddr}
  /\ heard \in Seq(Words) /\ says \in Seq(Words) /\ driving \in BOOLEAN
  /\ mux \in Channels /\ mem \in [Cells -> Vals]
  /\ answer \in {<<>>} \cup (({EeTag} \X Cells \X Vals) \cup ({RegTag} \X Registers \X Vals))
  /\ id \in Vals
  /\ pc \in Txs \cup Devs \cup Files \cup Ends
  /\ op \in {"start", "addrw", "byte", "restart", "addrr", "rx", "stop"}
  /\ step \in {"issue", "wait"}
  /\ n \in 1..3 /\ got \in Seq(Words) /\ Len(got) <= 3 /\ err \in BOOLEAN /\ i \in Cells
  /\ buf \in [Cells -> Vals \cup {Floating}] /\ seen \in Words /\ image \in {<<>>} \cup Images
  /\ job \subseteq {"info", "eeout", "eein"} /\ clean \in BOOLEAN

Init ==
  /\ state = "idle" /\ pend = "none" /\ sts = {} /\ txd = 0 /\ rxd = 0 /\ pins \in BOOLEAN
  /\ who = Nobody /\ heard = <<>> /\ says = <<>> /\ driving = FALSE
  /\ mux \in Channels /\ mem \in [Cells -> Vals] /\ answer = <<>> /\ id \in Vals
  /\ pc = "off" /\ op = "start" /\ step = "issue" /\ n = 1 /\ got = <<>>
  /\ err = FALSE /\ i = 0 /\ buf = [c \in Cells |-> Floating] /\ seen = 0 /\ image = <<>>
  /\ job = {} /\ clean = TRUE
-----------------------------------------------------------------------------
(* The slaves, as the code uses them *)

Reachable(a) == pins /\ (a = MuxAddr \/ (a = IdtAddr /\ mux = Mux70))

\* The end of a message, a stop or another start: the slave carries it out.
Absorb ==
  /\ mux' = IF who = MuxAddr /\ heard # <<>> THEN heard[1] ELSE mux
  /\ mem' = IF who = IdtAddr /\ Len(heard) = 3 /\ heard[1] = EeStore
              THEN [mem EXCEPT ![heard[2]] = heard[3]] ELSE mem
  /\ answer' = IF who = IdtAddr /\ Len(heard) = 2 /\ heard[1] = EeQuery
                 THEN <<EeTag, heard[2], mem[heard[2]]>>
               ELSE IF who = IdtAddr /\ Len(heard) = 2 /\ heard[1] = RegQuery
                 THEN <<RegTag, heard[2], Contents(heard[2])>> ELSE answer

Speech(a) == IF a = MuxAddr THEN <<mux>> ELSE answer

\* A slave that drives a bit of its own leaves no room for start and stop.
CanFinish == pend \in {"start", "stop"} => ~driving

FinishStart ==
  /\ pend = "start" /\ ~driving
  /\ state' = "started"
  /\ Absorb
  /\ who' = Nobody /\ heard' = <<>> /\ says' = <<>>
  /\ UNCHANGED <<sts, rxd, driving, clean>>

\* The address byte: the slave it names answers, if it is there and willing.
FinishAddress ==
  /\ pend = "tx" /\ state = "started"
  /\ state' = "active"
  /\ \/ /\ Reachable(txd \div 2)
        /\ sts' = sts \cup {"ack"} /\ clean' = clean
        /\ who' = txd \div 2
        /\ says' = IF txd % 2 = 1 THEN Speech(txd \div 2) ELSE <<>>
        /\ driving' = (txd % 2 = 1)
     \/ /\ sts' = sts \cup {"nack"}
        /\ clean' = (clean /\ ~Reachable(txd \div 2))
        /\ UNCHANGED <<who, says, driving>>
  /\ UNCHANGED <<rxd, heard, slaves>>

FinishByte ==
  /\ pend = "tx" /\ state = "active"
  /\ \/ /\ who # Nobody
        /\ sts' = sts \cup {"ack"} /\ clean' = clean
        /\ heard' = Append(heard, txd)
     \/ /\ sts' = sts \cup {"nack"} /\ clean' = (clean /\ who = Nobody)
        /\ heard' = heard
  /\ UNCHANGED <<state, rxd, who, says, driving, slaves>>

\* The master acknowledges a byte but the last: the slave goes on driving.
FinishRx ==
  /\ pend \in {"rx", "rxlast"}
  /\ sts' = sts \cup {"rx"} /\ state' = "active"
  /\ rxd' = IF says = <<>> THEN Floating ELSE Head(says)
  /\ says' = IF says = <<>> THEN <<>> ELSE Tail(says)
  /\ driving' = (driving /\ pend = "rx")
  /\ UNCHANGED <<who, heard, slaves, clean>>

FinishStop ==
  /\ pend = "stop" /\ ~driving
  /\ state' = "idle" /\ sts' = sts \cup {"stop"}
  /\ Absorb
  /\ who' = Nobody /\ heard' = <<>> /\ says' = <<>>
  /\ UNCHANGED <<rxd, driving, clean>>

\* The controller ends its command; bits 0-9 of register 0x14 become 0.
Finish ==
  /\ FinishStart \/ FinishAddress \/ FinishByte \/ FinishRx \/ FinishStop
  /\ pend' = "none"
  /\ UNCHANGED <<txd, pins, id, program>>
-----------------------------------------------------------------------------
(* The program: the calls of asti2c *)

\* The bytes each Tx writes and the number it reads.
Written ==
  CASE pc = "setmux" -> <<Mux70>>
    [] pc = "regask" -> <<RegQuery, 0>>
    [] pc = "stask" -> <<RegQuery, BCVSTS>>
    [] pc \in {"regget", "stget"} -> <<RegAnswer>>
    [] pc = "ask" -> <<EeQuery, i>>
    [] pc \in {"get", "retry"} -> <<EeAnswer>>
    [] pc = "store" -> <<EeStore, i, image[i + 1]>>
    [] OTHER -> <<>>
ToRead ==
  CASE pc \in {"mux1", "mux2"} -> 1 [] pc \in {"regget", "stget", "get", "retry"} -> 3
    [] OTHER -> 0
Slave == IF pc \in {"mux1", "setmux", "mux2"} THEN MuxAddr ELSE IdtAddr

\* A Tx begins, or there is nothing left to do.
Call(tx, cell) ==
  /\ pc' = tx /\ op' = "start" /\ step' = "issue" /\ n' = 1 /\ got' = <<>>
  /\ err' = FALSE /\ i' = cell

\* main: what the options in t ask for, in its order.
Serve(t) ==
  \/ "info" \in t /\ Call("regask", 0)
  \/ "info" \notin t /\ "eeout" \in t /\ Call("ask", 0)
  \/ t = {"eein"} /\ Call("load", 0)
  \/ t = {} /\ Call("ok", 0)

\* log.Fatal
Die(how) == pc' = how /\ UNCHANGED <<op, step, n, got, err, i>>

Start(j) ==
  /\ pc \in Ends
  /\ pc' = "dev1" /\ job' = j /\ buf' = [c \in Cells |-> Floating] /\ seen' = 0
  /\ image' = <<>> /\ clean' = TRUE
  /\ UNCHANGED <<controller, wire, slaves, id, op, step, n, got, err, i>>

\* Lines 68-73 of I2cDev: a bus that is not idle is recovered and the master
\* disabled.  Whether that works, what the slave makes of it, and whether it
\* clears the status, depends on them.
Recover ==
  /\ pc \in {"dev1", "dev2"} /\ Die(IF pc = "dev1" THEN "ready1" ELSE "ready2")
  /\ \/ /\ state = "idle" /\ pend = "none"
        /\ UNCHANGED <<state, pend, sts, wire, slaves, clean>>
     \/ /\ ~(state = "idle" /\ pend = "none")
        /\ pend' = "none"
        /\ sts' \in {sts, {}}
        /\ \/ /\ state' = "idle" /\ driving' = FALSE
              /\ Absorb \/ UNCHANGED slaves
              /\ who' = Nobody /\ heard' = <<>> /\ says' = <<>>
              /\ clean' = clean
           \/ /\ state' = state /\ clean' = FALSE
              /\ UNCHANGED <<wire, slaves>>
  /\ UNCHANGED <<txd, rxd, pins, id, locals, job>>

\* Lines 74-84; main calls I2cDev for the switch and then for the mux.
Enable ==
  /\ pc \in {"ready1", "ready2"}
  /\ pins' = TRUE
  /\ \/ state # "idle" /\ Die("fatal")
     \/ state = "idle" /\ pc = "ready1" /\ Die("dev2")
     \/ state = "idle" /\ pc = "ready2" /\ Call("mux1", 0)
  /\ clean' = (clean /\ sts = {})
  /\ UNCHANGED <<state, pend, sts, txd, rxd, wire, slaves, id, locals, job>>

\* ioutil.WriteFile of what idtRead has read.
Save ==
  /\ pc = "save"
  /\ \/ Serve(job \ {"info", "eeout"}) /\ clean' = clean
     \/ Die("nofile") /\ clean' = FALSE
  /\ UNCHANGED <<controller, wire, slaves, id, locals, job>>

\* ioutil.ReadFile of what idtWrite is to write.
Load ==
  /\ pc = "load"
  /\ \/ \E m \in Images :
          /\ image' = m /\ clean' = clean
          /\ Call(IF m = <<>> THEN "ok" ELSE "store", 0)
     \/ Die("nofile") /\ image' = image /\ clean' = FALSE
  /\ UNCHANGED <<controller, wire, slaves, id, buf, seen, job>>
-----------------------------------------------------------------------------
(* The program: i2cBus.Tx *)

Allowed ==
  CASE op = "start" -> state = "idle"
    [] op \in {"addrw", "addrr"} -> state = "started" \/ ~ExtraCheck
    [] OTHER -> state = "active" \/ ~ExtraCheck

\* Variant: no byte is the last one.
NeverLast == "rx"

RxCommand == IF n = ToRead THEN "rxlast" ELSE "rx"

Command ==
  CASE op \in {"start", "restart"} -> "start"
    [] op \in {"addrw", "byte", "addrr"} -> "tx"
    [] op = "rx" -> RxCommand
    [] OTHER -> "stop"

\* Start, TxByte, RxByte and Stop up to their Wait.
Issue ==
  /\ pc \in Txs /\ step = "issue"
  /\ \/ ~Allowed /\ Die("fatal") /\ UNCHANGED <<pend, txd>>
     \/ /\ Allowed
        /\ pend' = Command
        /\ txd' = CASE op = "addrw" -> 2 * Slave [] op = "addrr" -> 2 * Slave + 1
                     [] op = "byte" -> Written[n] [] OTHER -> txd
        /\ step' = "wait" /\ UNCHANGED <<pc, op, n, got, err, i>>
  /\ UNCHANGED <<state, sts, rxd, pins, wire, slaves, id, locals, job, clean>>

\* Variant: Wait has no deadline.
WaitForEver == FALSE

Deadline == pend # "none"

\* Lines 92-96: the master is disabled, on a free bus back to idle.
TimedOut ==
  /\ pc \in Txs /\ step = "wait" /\ Deadline
  /\ pend' = "none"
  /\ state' \in {state} \cup (IF driving THEN {} ELSE {"idle"})
  /\ clean' = (clean /\ ~CanFinish)
  /\ Die("fatal")
  /\ UNCHANGED <<sts, txd, rxd, pins, wire, slaves, id, locals, job>>

NextOp ==
  CASE op = "start" -> IF Written # <<>> THEN "addrw" ELSE "addrr"
    [] op = "addrw" -> "byte"
    [] op = "byte" -> IF n < Len(Written) THEN "byte" ELSE IF ToRead > 0 THEN "restart" ELSE "stop"
    [] op = "restart" -> "addrr"
    [] op = "addrr" -> "rx"
    [] OTHER -> IF n < ToRead THEN "rx" ELSE "stop"

Proceed(data) ==
  /\ op' = NextOp /\ n' = IF NextOp = op THEN n + 1 ELSE 1
  /\ step' = "issue" /\ got' = got \o data
  /\ UNCHANGED <<pc, err, i>>

Waited == pc \in Txs /\ step = "wait" /\ pend = "none"

Started ==
  /\ Waited /\ op \in {"start", "restart"}
  /\ IF sts = {} THEN Proceed(<<>>) ELSE Die("fatal")
  /\ UNCHANGED <<controller, wire, slaves, id, locals, job, clean>>

\* Variant: the nack of any byte but the first is ignored, not only of the read address.
AddressOnly == op = "addrw"

NackCounts == op # "addrr"

\* Tx gives up at a nack (line 36, 42), but ignores the one of the read address (53).
Sent ==
  /\ Waited /\ op \in {"addrw", "byte", "addrr"}
  /\ sts' = {}
  /\ \/ /\ "nack" \in sts /\ NackCounts
        /\ err' = TRUE /\ op' = "stop" /\ step' = "issue"
        /\ UNCHANGED <<pc, n, got, i>>
     \/ "nack" \in sts /\ ~NackCounts /\ Proceed(<<>>)
     \/ sts = {"ack"} /\ Proceed(<<>>)
     \/ "nack" \notin sts /\ sts # {"ack"} /\ Die("fatal")
  /\ UNCHANGED <<state, pend, txd, rxd, pins, wire, slaves, id, locals, job, clean>>

Received ==
  /\ Waited /\ op = "rx"
  /\ \/ sts = {"rx"} /\ sts' = {} /\ Proceed(<<rxd>>)
     \/ sts # {"rx"} /\ sts' = sts /\ Die("fatal")
  /\ UNCHANGED <<state, pend, txd, rxd, pins, wire, slaves, id, locals, job, clean>>

\* Variant: the answer is taken without looking at the question in it.
Unchecked == TRUE

\* Line 36: the answer repeats what was asked.
Echo == got[1] = EeTag /\ got[2] = i

\* The same for a register, line 62.
RegEcho(reg) == got[1] = RegTag /\ got[2] = reg

\* The end of a Tx of idtInfo: the id, then BCVSTS, before the id is looked at.
InfoReturn ==
  \/ pc = "regask" /\ Call("regget", 0) /\ seen' = seen
  \/ pc = "regget" /\ RegEcho(0) /\ Call("stask", 0) /\ seen' = got[3]
  \/ pc = "stask" /\ Call("stget", 0) /\ seen' = seen
  \/ pc = "stget" /\ RegEcho(BCVSTS) /\ seen' = seen
     /\ IF seen \in KnownIds THEN Serve(job \ {"info"}) ELSE Die("unknown")
  \/ /\ \/ pc = "regget" /\ ~RegEcho(0)
        \/ pc = "stget" /\ ~RegEcho(BCVSTS)
     /\ Die("fatal") /\ seen' = seen

\* Variant: one cell too many.
OneCellMore == i < Size

MoreCells == i + 1 < Size

\* The same of idtRead.
EeoutReturn ==
  \/ pc = "ask" /\ Call("get", i) /\ buf' = buf
  \/ /\ pc \in {"get", "retry"}
     /\ \/ ~Echo /\ Die("fatal") /\ buf' = buf
        \/ /\ Echo
           /\ buf' = [buf EXCEPT ![i] = got[3]]
           /\ IF MoreCells THEN Call("ask", i + 1) ELSE Call("save", 0)

\* The end of a Tx that went well.
Return ==
  \/ pc = "mux1" /\ got[1] # Mux70 /\ Call("setmux", 0) /\ UNCHANGED <<buf, seen>>
  \/ pc = "setmux" /\ Call("mux2", 0) /\ UNCHANGED <<buf, seen>>
  \/ /\ pc = "mux2" \/ (pc = "mux1" /\ got[1] = Mux70)
     /\ Serve(job) /\ UNCHANGED <<buf, seen>>
  \/ InfoReturn /\ buf' = buf
  \/ EeoutReturn /\ seen' = seen
  \/ /\ pc = "store" /\ UNCHANGED <<buf, seen>>
     /\ IF i + 1 < Len(image) THEN Call("store", i + 1) ELSE Serve({})

\* Variant: the status is left as it is.
KeptStatus == sts

ClearedStatus == {}

Retries == pc = "get"

\* The read phase of idt_eeread is tried twice (asti2c 29-31), all else dies.
Stopped ==
  /\ Waited /\ op = "stop"
  /\ \/ sts # {"stop"} /\ sts' = sts /\ Die("fatal") /\ UNCHANGED <<buf, seen>>
     \/ /\ sts = {"stop"} /\ sts' = ClearedStatus
        /\ \/ ~err /\ Return
           \/ err /\ Retries /\ Call("retry", i) /\ UNCHANGED <<buf, seen>>
           \/ err /\ ~Retries /\ Die("nacked") /\ UNCHANGED <<buf, seen>>
  /\ UNCHANGED <<state, pend, txd, rxd, pins, wire, slaves, id, image, job, clean>>

Kill ==
  /\ pc \notin Ends /\ Die("off")
  /\ UNCHANGED <<controller, wire, slaves, id, locals, job, clean>>

Program ==
  Recover \/ Enable \/ Save \/ Load \/ Issue \/ TimedOut \/ Started \/ Sent \/ Received \/ Stopped

Next ==
  \/ \E j \in SUBSET {"info", "eeout", "eein"} : Start(j)
  \/ Program \/ Finish \/ Kill

Spec == Init /\ [][Next]_vars

\* The program is scheduled, and Wait meets its deadline if the controller does
\* not answer.
FairSpec == Spec /\ WF_vars(Program)
-----------------------------------------------------------------------------
(* Properties *)

\* What -eeout has read is what the eeprom holds, although the nack of a read
\* address goes unnoticed, answers may be those to an earlier question, and
\* earlier runs were killed between any two bytes.
EeoutTrue ==
  LET read == IF "eeout" \notin job THEN {}
              ELSE IF pc \in {"ask", "get", "retry"} THEN 0..i - 1
              ELSE IF pc \in Files \/ (pc = "ok" /\ "eein" \notin job) THEN Cells ELSE {}
  IN  \A c \in read : buf[c] = mem[c]

\* A run of -eein that ends well has written the image, of any length: no byte was
\* refused.
EeinTrue == pc = "ok" /\ "eein" \in job => \A c \in 0..Len(image) - 1 : mem[c] = image[c + 1]

\* A run that ends well, gives up at a nack, at a file or at an unknown chip leaves
\* the bus idle and the status clear, so that the next one finds nothing to recover.
EndsIdle ==
  pc \in Ends \ {"off", "fatal"} => state = "idle" /\ pend = "none" /\ sts = {}

\* A run fails only if a slave refused or delayed something, a file could not be
\* read or written, an earlier run left a status that the controller keeps over its
\* recovery, or -info was asked of a chip that idtInfo does not know.
CleanRunSucceeds ==
  pc \in Ends \ {"off", "ok"} /\ clean =>
    pc = "unknown" /\ "info" \in job /\ id \notin KnownIds

\* No slave can hold the program for ever: Wait gives up after a second.
RunEnds == pc \notin Ends ~> pc \in Ends

\* An upper bound of the calls of Tx, and of the files, that a run still has after
\* the one it is in: every cell is asked for, read twice and stored at most.
TxsLeft ==
  CASE pc = "mux1" -> 4 * Size + 8
    [] pc = "setmux" -> 4 * Size + 7
    [] pc = "mux2" -> 4 * Size + 6
    [] pc = "regask" -> 4 * Size + 5
    [] pc = "regget" -> 4 * Size + 4
    [] pc = "stask" -> 4 * Size + 3
    [] pc = "stget" -> 4 * Size + 2
    [] pc = "ask" -> Size + 3 * (Size - 1 - i) + 4
    [] pc = "get" -> Size + 3 * (Size - 1 - i) + 3
    [] pc = "retry" -> Size + 3 * (Size - 1 - i) + 2
    [] pc = "save" -> Size + 1
    [] pc = "load" -> Size
    [] OTHER -> Size - 1 - i

\* Of the bus operations of the Tx after the one it is in.
OpsLeft ==
  CASE op = "start" -> Len(Written) + ToRead + 4
    [] op = "addrw" -> Len(Written) + ToRead + 3
    [] op = "byte" -> Len(Written) - n + ToRead + 3
    [] op = "restart" -> ToRead + 2
    [] op = "addrr" -> ToRead + 1
    [] op = "rx" -> ToRead - n + 1
    [] OTHER -> 0

\* Of the steps of the program, two to each operation, ten operations to a Tx.
StepsLeft ==
  CASE pc = "dev1" -> 22 * (4 * Size + 9) + 4
    [] pc = "ready1" -> 22 * (4 * Size + 9) + 3
    [] pc = "dev2" -> 22 * (4 * Size + 9) + 2
    [] pc = "ready2" -> 22 * (4 * Size + 9) + 1
    [] pc \in Files -> 22 * TxsLeft + 1
    [] pc \in Txs -> 22 * TxsLeft + 2 * OpsLeft + (IF step = "issue" THEN 2 ELSE 1)
    [] OTHER -> 0

\* Why a run ends that does not wait for ever: whatever slaves refuse or answer,
\* each of its steps brings it nearer to the end, 22 * (4 * Size + 9) + 4 of them at most.
RunShortens ==
  [][pc \notin Ends => \/ UNCHANGED program
                       \/ StepsLeft' >= 0 /\ StepsLeft' < StepsLeft]_vars
-----------------------------------------------------------------------------
(* The inductive invariant behind the safety properties                     *)

\* What a slave may have heard, from this run or one that was killed: the start
\* of a message that some Tx writes.
Hearable(a, h) ==
  IF a = MuxAddr THEN Len(h) <= 1 /\ (h # <<>> => h[1] = Mux70)
  ELSE /\ Len(h) <= 3
       /\ Len(h) >= 2 => h[2] \in IF h[1] = RegQuery THEN Registers ELSE Cells
       /\ Len(h) >= 3 => h[3] \in Vals

\* The wire, whether a program runs or not.
WireInv ==
  /\ who = Nobody => heard = <<>> /\ says = <<>>
  /\ who # Nobody => Hearable(who, heard)
  /\ who # Nobody /\ pend = "tx" /\ state = "active" => Hearable(who, Append(heard, txd))
  /\ state = "started" => who = Nobody
  /\ driving => state = "active"

\* The operation the Tx is in has not reached the wire, or not ended there.
Underway == step = "issue" \/ pend # "none"
Acked == ~Underway /\ sts = {"ack"}

\* Program and controller agree on where they are, within a Tx.
ControlInv ==
  /\ step = "issue" => pend = "none"
  /\ pend # "none" => pend = Command
  /\ pend = "tx" => txd = CASE op = "addrw" -> 2 * Slave [] op = "addrr" -> 2 * Slave + 1
                            [] OTHER -> Written[n]
  /\ state = CASE op = "start" -> IF Underway THEN "idle" ELSE "started"
               [] op = "restart" -> IF Underway THEN "active" ELSE "started"
               [] op \in {"addrw", "addrr"} -> IF Underway THEN "started" ELSE "active"
               [] op = "stop" -> IF Underway THEN "active" ELSE "idle"
               [] OTHER -> "active"
  /\ Underway /\ op # "start" => sts = {}
  /\ ~Underway =>
       /\ op = "restart" => sts = {}
       /\ op \in {"addrw", "byte", "addrr"} => sts \in {{"ack"}, {"nack"}}
       /\ op = "rx" => sts = {"rx"}
       /\ op = "stop" => sts = {"stop"}
  /\ driving => \/ op = "addrr" /\ ~Underway
                \/ op = "rx" /\ (Underway \/ n < ToRead)
  /\ op = "addrw" => Written # <<>>
  /\ op = "byte" => n <= Len(Written)
  /\ op \in {"restart", "addrr", "rx"} => ToRead > 0
  /\ op = "rx" => n <= ToRead
  /\ err => op = "stop"
  /\ pins

\* What the slave of the Tx has heard of its message.
MessageInv ==
  /\ op = "start" /\ (pc # "mux1" \/ ~Underway) => who = Nobody
  /\ op # "start" =>
       /\ who \in {Nobody, Slave}
       /\ \A j \in 1..Len(heard) : heard[j] = Written[j]
  /\ op = "addrw" => heard = <<>> /\ who = IF Acked THEN Slave ELSE Nobody
  /\ op = "byte" => who = Slave /\ Len(heard) = IF Acked THEN n ELSE n - 1
  /\ op = "restart" => IF Underway THEN who = Slave /\ Len(heard) = Len(Written)
                                  ELSE who = Nobody
  /\ op = "addrr" => heard = <<>> /\ who = IF Acked THEN Slave ELSE Nobody
  /\ op = "rx" => heard = <<>>
  /\ op = "stop" =>
       IF ~Underway THEN who = Nobody
       ELSE IF err THEN Len(heard) < Len(Written)
       ELSE IF ToRead > 0 THEN heard = <<>> ELSE who = Slave /\ Len(heard) = Len(Written)

\* The bytes received are those the slave says, or the line was floating.
GotFrom(s) == \A j \in 1..Len(got) : got[j] = s[j]
GotNothing == \A j \in 1..Len(got) : got[j] = Floating
Spoken == IF Underway THEN n - 1 ELSE n

ReadInv ==
  /\ op \notin {"rx", "stop"} => got = <<>>
  /\ op \in {"start", "addrw", "byte", "restart"} => says = <<>> \/ (op = "start" /\ pc = "mux1")
  /\ op = "addrr" => says = IF Acked THEN Speech(Slave) ELSE <<>>
  /\ op = "rx" =>
       /\ Len(got) = n - 1
       /\ IF who = Nobody THEN GotNothing /\ (~Underway => rxd = Floating)
          ELSE /\ GotFrom(Speech(Slave))
               /\ ~Underway => rxd = Speech(Slave)[n]
               /\ Len(says) = ToRead - Spoken
               /\ \A j \in 1..Len(says) : says[j] = Speech(Slave)[Spoken + j]
  /\ op = "stop" /\ ~err => Len(got) = ToRead /\ (GotFrom(Speech(Slave)) \/ GotNothing)

\* What the earlier messages of the run have done to the slaves.
Completed == op = "stop" /\ ~Underway /\ ~err
SlaveInv ==
  /\ pc \notin {"mux1", "setmux"} \/ (pc = "setmux" /\ Completed) => mux = Mux70
  /\ pc = "regget" \/ (pc = "regask" /\ Completed) => answer = <<RegTag, 0, id>>
  /\ pc \in {"stask", "stget"} => seen = id
  /\ pc = "stget" \/ (pc = "stask" /\ Completed) => answer = <<RegTag, BCVSTS, RegVal>>
  /\ pc \in {"regask", "regget", "stask", "stget"} => "info" \in job
  /\ pc \in {"get", "retry"} \/ (pc = "ask" /\ Completed) => answer = <<EeTag, i, mem[i]>>
  /\ pc = "store" =>
       /\ "eein" \in job /\ i < Len(image)
       /\ \A c \in Cells : c < i \/ (c = i /\ Completed) => mem[c] = image[c + 1]

\* At a file the last Tx is over.
BetweenInv ==
  /\ state = "idle" /\ pend = "none" /\ sts = {} /\ who = Nobody /\ pins /\ mux = Mux70
  /\ pc = "load" => "eein" \in job

\* In a clean run nothing was refused and every question answered.
CleanInv ==
  clean =>
    /\ pc \in {"ready1", "ready2"} => state = "idle"
    /\ pc \in Txs =>
         /\ ~err
         /\ op = "start" => sts = {}
         /\ "nack" \notin sts
         /\ op = "rx" => who = Slave
         /\ op = "stop" => GotFrom(Speech(Slave))

IInv ==
  /\ TypeOK /\ WireInv
  /\ pc \in {"ready1", "ready2"} => pend = "none"
  /\ pc = "dev2" => state = "idle" /\ pend = "none"
  /\ pc \in Files => BetweenInv
  /\ pc \in Txs => ControlInv /\ MessageInv /\ ReadInv /\ SlaveInv
  /\ CleanInv /\ EeoutTrue /\ EeinTrue /\ EndsIdle /\ CleanRunSucceeds
=============================================================================
