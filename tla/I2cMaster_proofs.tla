-------------------------- MODULE I2cMaster_proofs --------------------------
(***************************************************************************)
(* What asti2c may rely on, for every size of the eeprom, images, data and *)
(* setting of the mux, whatever runs were killed before: -eeout reads what *)
(* the eeprom holds, -eein that ends well has written the image, the bus   *)
(* is left idle, and no run fails without a reason outside the program.    *)
(***************************************************************************)
EXTENDS I2cMaster, TLAPS, SequenceTheorems

-----------------------------------------------------------------------------
(* What a Tx writes and reads                                              *)

LEMMA Numbers == 0 \in Cells /\ Cells \subseteq Words /\ Vals \subseteq Words /\ Bytes \subseteq Words
BY SizeAssumption DEF Cells, Words, Bytes

LEMMA SmallLength == \A k \in Nat : k <= 3 => k \in 0..3
OBVIOUS

LEMMA SmallStep == \A k \in 1..3 : \A l \in 0..3 : k < l => k + 1 \in 1..3
OBVIOUS

LEMMA CellsUpTo == \A k \in Cells : \A c \in 0..(k + 1) - 1 : c \in Cells /\ c <= k
BY SizeAssumption DEF Cells

\* The byte that a Tx stores is one of the image.
LEMMA ImageByte ==
  ASSUME TypeOK, SlaveInv, pc = "store"
  PROVE  image[i + 1] \in Vals
<1>1. image \in Seq(Vals)
  <2>1. <<>> \in Seq(Vals)
    OBVIOUS
  <2> QED BY <2>1, ImagesAssumption DEF TypeOK
<1>2. i \in Nat /\ i < Len(image)
  BY DEF TypeOK, Cells, SlaveInv
<1>3. i + 1 \in 1..Len(image)
  BY <1>1, <1>2
<1> QED BY <1>1, <1>3

LEMMA RegisterFacts ==
  ASSUME TypeOK
  PROVE  Registers \subseteq Words /\ \A reg \in Registers : Contents(reg) \in Vals
BY SizeAssumption DEF TypeOK, Registers, BCVSTS, Contents, Words, Bytes

\* One to three bytes at most, none only if something is read.
LEMMA WrittenFacts ==
  ASSUME TypeOK, SlaveInv, pc \in Txs
  PROVE  /\ Written \in Seq(Words)
         /\ Len(Written) \in 0..3
         /\ ToRead \in {0, 1, 3}
         /\ ToRead = 0 => Len(Written) > 0
         /\ Slave \in {MuxAddr, IdtAddr}
<1>1. i \in Words /\ (pc = "store" => image[i + 1] \in Words)
  BY Numbers, ImageByte DEF TypeOK
<1>2. {Mux70, RegQuery, RegAnswer, EeQuery, EeAnswer, EeStore, 0, BCVSTS} \subseteq Words
  BY DEF Mux70, RegQuery, RegAnswer, EeQuery, EeAnswer, EeStore, BCVSTS, Words, Bytes
<1> QED BY <1>1, <1>2 DEF Written, ToRead, Slave, Txs

\* The beginning of what a Tx writes is something its slave may have heard.
LEMMA PartHearable ==
  ASSUME TypeOK, SlaveInv, pc \in Txs, NEW h \in Seq(Words), Len(h) <= Len(Written),
         \A j \in 1..Len(h) : h[j] = Written[j]
  PROVE  Hearable(Slave, h)
<1>1. i \in Cells /\ (pc = "store" => image[i + 1] \in Vals)
  BY ImageByte DEF TypeOK
<1>2. Len(h) \in Nat
  OBVIOUS
<1>3. CASE pc \in {"mux1", "mux2"}
  BY <1>2, <1>3 DEF Written, Slave, Hearable
<1>4. CASE pc = "setmux"
  BY <1>2, <1>4 DEF Written, Slave, Hearable
<1>5. CASE pc = "ask"
  BY <1>1, <1>2, <1>5 DEF Written, Slave, Hearable, MuxAddr, IdtAddr, EeQuery, RegQuery
<1>6. CASE pc \in {"regget", "stget", "get", "retry"}
  BY <1>1, <1>2, <1>6 DEF Written, Slave, Hearable, MuxAddr, IdtAddr
<1>7. CASE pc = "store"
  BY <1>1, <1>2, <1>7 DEF Written, Slave, Hearable, MuxAddr, IdtAddr, EeStore, RegQuery
<1>8. CASE pc \in {"regask", "stask"}
  BY <1>2, <1>8 DEF Written, Slave, Hearable, MuxAddr, IdtAddr, Registers
<1> QED BY <1>3, <1>4, <1>5, <1>6, <1>7, <1>8 DEF Txs

\* A slave says bytes, and in a Tx that reads as many as are read.
LEMMA SpeechType ==
  ASSUME TypeOK, NEW a
  PROVE  Speech(a) \in Seq(Words)
<1>1. mux \in Words
  BY ChannelsAssumption DEF TypeOK, Words, Bytes
<1>2. EeTag \in Words /\ RegTag \in Words
  BY DEF Words, Bytes, EeTag, RegTag
<1>3. answer \in Seq(Words)
  <2> DEFINE EeAnswers == {EeTag} \X Cells \X Vals
             RegAnswers == {RegTag} \X Registers \X Vals
  <2>0. answer = <<>> \/ answer \in EeAnswers \/ answer \in RegAnswers
    <3> HIDE DEF EeAnswers, RegAnswers
    <3> QED BY DEF TypeOK, EeAnswers, RegAnswers
  <2>1. CASE answer = <<>>
    BY <2>1
  <2>2. CASE answer \in {EeTag} \X Cells \X Vals
    <3>1. PICK c \in Cells, v \in Vals : answer = <<EeTag, c, v>>
      BY <2>2
    <3> QED BY <1>2, <3>1, Numbers
  <2>3. CASE answer \in {RegTag} \X Registers \X Vals
    <3>1. PICK c \in Registers, v \in Vals : answer = <<RegTag, c, v>>
      BY <2>3
    <3> QED BY <1>2, <3>1, Numbers, RegisterFacts
  <2> QED BY <2>0, <2>1, <2>2, <2>3
<1> QED BY <1>1, <1>3 DEF Speech

LEMMA SpeechLength ==
  ASSUME TypeOK, pc \in Txs, SlaveInv, ToRead > 0
  PROVE  Len(Speech(Slave)) = ToRead
<1>1. CASE pc \in {"mux1", "setmux", "mux2"}
  BY <1>1 DEF Speech, Slave, ToRead
<1>2. CASE pc \in {"regget", "stget"}
  <2>1. answer = <<RegTag, 0, id>> \/ answer = <<RegTag, BCVSTS, RegVal>>
    BY <1>2 DEF SlaveInv
  <2>2. ToRead = 3 /\ Speech(Slave) = answer
    BY <1>2 DEF Speech, Slave, ToRead, MuxAddr, IdtAddr
  <2> QED BY <2>1, <2>2
<1>3. CASE pc \in {"get", "retry"}
  <2>1. answer = <<EeTag, i, mem[i]>>
    BY <1>3 DEF SlaveInv
  <2>2. ToRead = 3 /\ Speech(Slave) = answer
    BY <1>3 DEF Speech, Slave, ToRead, MuxAddr, IdtAddr
  <2> QED BY <2>1, <2>2
<1> QED BY <1>1, <1>2, <1>3 DEF ToRead, Txs

\* A slave that carries out what it heard stays one.
LEMMA AbsorbType ==
  ASSUME TypeOK, WireInv, Absorb
  PROVE  /\ mux' \in Channels /\ mem' \in [Cells -> Vals]
         /\ answer' \in {<<>>} \cup (({EeTag} \X Cells \X Vals) \cup ({RegTag} \X Registers \X Vals))
<1>1. Len(heard) \in Nat /\ (heard # <<>> => Len(heard) > 0)
  BY EmptySeq DEF TypeOK
<1>2. mux' \in Channels
  <2>1. CASE who = MuxAddr /\ heard # <<>>
    BY <2>1, ChannelsAssumption DEF Absorb, WireInv, Hearable, Nobody, MuxAddr, Mux70
  <2> QED BY <2>1 DEF Absorb, TypeOK
<1>3. mem' \in [Cells -> Vals]
  <2>1. CASE who = IdtAddr /\ Len(heard) = 3 /\ heard[1] = EeStore
    BY <1>1, <2>1 DEF Absorb, WireInv, Hearable, Nobody, MuxAddr, IdtAddr, EeStore, RegQuery, TypeOK
  <2> QED BY <2>1 DEF Absorb, TypeOK
<1>4. answer' \in {<<>>} \cup (({EeTag} \X Cells \X Vals) \cup ({RegTag} \X Registers \X Vals))
  <2>1. CASE who = IdtAddr /\ Len(heard) = 2 /\ heard[1] = EeQuery
    BY <1>1, <2>1 DEF Absorb, WireInv, Hearable, Nobody, MuxAddr, IdtAddr, EeQuery, RegQuery, TypeOK
  <2>2. CASE who = IdtAddr /\ Len(heard) = 2 /\ heard[1] = RegQuery
    <3>1. heard[2] \in Registers /\ Contents(heard[2]) \in Vals
      BY <1>1, <2>2, RegisterFacts DEF WireInv, Hearable, Nobody, MuxAddr, IdtAddr
    <3>2. answer' = <<RegTag, heard[2], Contents(heard[2])>>
      BY <2>2 DEF Absorb, EeQuery, RegQuery
    <3> QED BY <3>1, <3>2
  <2> QED BY <2>1, <2>2 DEF Absorb, TypeOK
<1> QED BY <1>2, <1>3, <1>4

\* Nobody has heard anything: nothing happens to the slaves.
LEMMA AbsorbNothing ==
  ASSUME Absorb, who = Nobody
  PROVE  UNCHANGED slaves
BY DEF Absorb, slaves, Nobody, MuxAddr, IdtAddr

\* Within a Tx only complete messages do something, each one what it is for.
LEMMA AbsorbInTx ==
  ASSUME IInv, pc \in Txs, Underway, op \in {"start", "restart", "stop"}, Absorb
  PROVE  /\ op = "start" /\ pc # "mux1" => UNCHANGED slaves
         /\ op = "restart" => UNCHANGED slaves
         /\ op = "stop" =>
              /\ mux' = IF pc = "setmux" /\ ~err THEN Mux70 ELSE mux
              /\ mem' = IF pc = "store" /\ ~err THEN [mem EXCEPT ![i] = image[i + 1]] ELSE mem
              /\ answer' = IF pc = "ask" /\ ~err THEN <<EeTag, i, mem[i]>>
                           ELSE IF pc = "regask" /\ ~err THEN <<RegTag, 0, id>>
                           ELSE IF pc = "stask" /\ ~err THEN <<RegTag, BCVSTS, RegVal>>
                           ELSE answer
<1> USE DEF MuxAddr, IdtAddr, Nobody
<1>1. TypeOK /\ MessageInv /\ ControlInv
  BY DEF IInv
<1>2. heard \in Seq(Words) /\ Len(heard) \in Nat /\ (heard # <<>> => Len(heard) > 0)
  BY <1>1, EmptySeq DEF TypeOK
<1>3. CASE op = "start"
  BY <1>1, <1>3, AbsorbNothing DEF MessageInv
<1>4. CASE op = "restart"
  <2>1. who = Slave /\ Len(heard) = Len(Written) /\ \A j \in 1..Len(heard) : heard[j] = Written[j]
    BY <1>1, <1>4 DEF MessageInv
  <2>2. pc \in {"mux1", "mux2", "regget", "stget", "get", "retry"}
    BY <1>1, <1>4 DEF ControlInv, ToRead, Txs
  <2>3. CASE pc \in {"mux1", "mux2"}
    BY <1>2, <1>4, <2>1, <2>3 DEF Absorb, slaves, Written, Slave
  <2>4. CASE pc \in {"regget", "stget", "get", "retry"}
    BY <1>2, <1>4, <2>1, <2>4 DEF Absorb, slaves, Written, Slave
  <2> QED BY <1>4, <2>2, <2>3, <2>4
<1>5. CASE op = "stop" /\ err
  <2>1. who \in {Nobody, Slave} /\ Len(heard) < Len(Written)
          /\ \A j \in 1..Len(heard) : heard[j] = Written[j]
    BY <1>1, <1>5 DEF MessageInv
  <2>2. CASE pc \in {"mux1", "mux2", "setmux"}
    BY <1>2, <1>5, <2>1, <2>2 DEF Absorb, Written, Slave
  <2>3. CASE pc \in {"regget", "stget", "get", "retry"}
    BY <1>2, <1>5, <2>1, <2>3 DEF Absorb, Written, Slave
  <2>4. CASE pc \in {"regask", "stask", "ask"}
    BY <1>2, <1>5, <2>1, <2>4 DEF Absorb, Written, Slave
  <2>5. CASE pc = "store"
    BY SMTT(30), <1>2, <1>5, <2>1, <2>5 DEF Absorb, Written, Slave, EeStore, EeQuery, RegQuery
  <2> QED BY <1>5, <2>2, <2>3, <2>4, <2>5 DEF Txs
<1>6. CASE op = "stop" /\ ~err /\ ToRead > 0
  <2>1. heard = <<>>
    BY <1>1, <1>6 DEF MessageInv
  <2>2. pc \in {"mux1", "mux2", "regget", "stget", "get", "retry"}
    BY <1>6 DEF ToRead, Txs
  <2>3. UNCHANGED slaves
    BY <2>1 DEF Absorb, slaves
  <2> QED BY <1>6, <2>2, <2>3 DEF slaves
<1>7. CASE op = "stop" /\ ~err /\ ToRead = 0
  <2>1. who = Slave /\ Len(heard) = Len(Written) /\ \A j \in 1..Len(heard) : heard[j] = Written[j]
    BY <1>1, <1>7 DEF MessageInv
  <2>2. pc \in {"setmux", "regask", "stask", "ask", "store"}
    BY <1>7 DEF ToRead, Txs
  <2>3. CASE pc = "setmux"
    BY SMTT(30), <1>2, <1>7, <2>1, <2>3 DEF Absorb, Written, Slave
  <2>4. CASE pc \in {"regask", "stask"}
    <3>1. Len(heard) = 2 /\ heard[1] = RegQuery /\ heard[2] = IF pc = "regask" THEN 0 ELSE BCVSTS
      BY <1>2, <2>1, <2>4 DEF Written
    <3>2. who = IdtAddr
      BY <2>1, <2>4 DEF Slave
    <3>3. Contents(heard[2]) = IF pc = "regask" THEN id ELSE RegVal
      BY <3>1 DEF Contents, BCVSTS
    <3>4. mem' = mem /\ mux' = mux /\ answer' = <<RegTag, heard[2], Contents(heard[2])>>
      BY <3>1, <3>2 DEF Absorb, EeStore, EeQuery, RegQuery
    <3> QED BY <1>7, <2>4, <3>1, <3>3, <3>4
  <2>5. CASE pc = "ask"
    BY <1>2, <1>7, <2>1, <2>5 DEF Absorb, Written, Slave, EeStore, EeQuery, RegQuery
  <2>6. CASE pc = "store"
    <3>1. Len(heard) = 3 /\ heard[1] = EeStore /\ heard[2] = i /\ heard[3] = image[i + 1]
      BY <2>1, <2>6 DEF Written
    <3>2. who = IdtAddr
      BY <2>1, <2>6 DEF Slave
    <3>3. mem' = [mem EXCEPT ![i] = image[i + 1]] /\ mux' = mux /\ answer' = answer
      BY <3>1, <3>2 DEF Absorb, EeStore, EeQuery, RegQuery
    <3> QED BY <1>7, <2>6, <3>3
  <2> QED BY <1>7, <2>2, <2>3, <2>4, <2>5, <2>6
<1>8. ToRead \in {0, 1, 3}
  BY <1>1, WrittenFacts DEF IInv
<1> QED BY <1>3, <1>4, <1>5, <1>6, <1>7, <1>8

-----------------------------------------------------------------------------
(* The controller                                                          *)

LEMMA InitIInv == Init => IInv
<1> SUFFICES ASSUME Init PROVE IInv
  OBVIOUS
<1>1. TypeOK
  <2>1. 0 \in Words /\ i \in Cells /\ <<>> \in Seq(Words) /\ Len(<<>>) <= 3
    BY Numbers DEF Init
  <2>2. buf \in [Cells -> Vals \cup {Floating}] /\ job \subseteq {"info", "eeout", "eein"}
          /\ image \in {<<>>} \cup Images
    BY DEF Init
  <2> QED BY <2>1, <2>2 DEF Init, TypeOK, Ends
<1>2. pc \notin Txs \cup Files
  BY DEF Init, Txs, Files
<1> QED BY <1>1, <1>2 DEF Init, IInv, WireInv, Nobody, CleanInv, EeoutTrue, EeinTrue, EndsIdle, CleanRunSucceeds

\* Outside the Txs nothing of the program depends on the end of a command.
LEMMA FinishOutside ==
  ASSUME IInv, Finish, pc \notin Txs, TypeOK', WireInv', clean' => clean
  PROVE  IInv'
<1>1. pend # "none" /\ UNCHANGED program
  BY DEF Finish, FinishStart, FinishAddress, FinishByte, FinishRx, FinishStop
<1>2. pc \in {"off", "fatal", "dev1"}
  BY <1>1 DEF IInv, EndsIdle, BetweenInv, TypeOK, Ends, Devs
<1>3. pc' = pc
  BY <1>1 DEF program, locals
<1>4. CleanInv' /\ EeoutTrue' /\ EeinTrue' /\ EndsIdle'
  BY <1>2, <1>3 DEF CleanInv, EeoutTrue, EeinTrue, EndsIdle, Txs, Files, Ends
<1>5. CleanRunSucceeds'
  BY <1>2, <1>3 DEF IInv, CleanRunSucceeds, Ends
<1>6. pc' \notin Txs /\ pc' \notin Files
  BY <1>2, <1>3 DEF Txs, Files
<1> QED BY <1>2, <1>3, <1>4, <1>5, <1>6 DEF IInv

\* Within a Tx the command that ends is that of its operation.
LEMMA FinishInside ==
  ASSUME IInv, Finish, pc \in Txs
  PROVE  /\ Underway /\ ~Underway' /\ pend = Command /\ pend # "none" /\ step = "wait"
         /\ pend' = "none" /\ UNCHANGED <<txd, pins, id, program>>
         /\ Written' = Written /\ ToRead' = ToRead /\ Slave' = Slave
         /\ op # "start" => sts = {}
<1>1. pend # "none" /\ pend' = "none" /\ UNCHANGED <<txd, pins, id, program>>
  BY DEF Finish, FinishStart, FinishAddress, FinishByte, FinishRx, FinishStop
<1>2. step = "wait"
  BY <1>1 DEF IInv, ControlInv, TypeOK
<1> QED BY <1>1, <1>2 DEF IInv, ControlInv, Underway, program, locals, Written, ToRead, Slave

\* What remains to be shown of a command that ends within a Tx.
LEMMA FinishRest ==
  ASSUME IInv, Finish, pc \in Txs, TypeOK', WireInv',
         ControlInv', MessageInv', ReadInv', SlaveInv', CleanInv',
         mem' = mem \/ pc = "mux1" \/ (pc = "store" /\ op # "start")
  PROVE  IInv'
<1>1. UNCHANGED <<pc, op, i, job, id, buf, seen, image>>
  BY FinishInside DEF program, locals
<1>2. EeoutTrue'
  BY <1>1 DEF IInv, EeoutTrue, Txs, Files
<1>3. pc' \notin Ends /\ pc' \notin Files /\ pc' \notin Devs /\ pc' # "ok"
  BY <1>1 DEF Txs, Ends, Files, Devs
<1> QED BY <1>2, <1>3 DEF IInv, EeinTrue, EndsIdle, CleanRunSucceeds, Devs

LEMMA FinishStartIInv == ASSUME IInv, Finish, FinishStart PROVE IInv'
<1>1. TypeOK /\ WireInv /\ UNCHANGED <<txd, pins, id, program>> /\ pend' = "none"
  BY DEF IInv, Finish
<1>2. /\ state' = "started" /\ who' = Nobody /\ heard' = <<>> /\ says' = <<>>
      /\ UNCHANGED <<sts, rxd, driving, clean>> /\ Absorb /\ pend = "start" /\ ~driving
  BY DEF FinishStart
<1>3. TypeOK'
  <2>1. mux' \in Channels /\ mem' \in [Cells -> Vals]
          /\ answer' \in {<<>>} \cup (({EeTag} \X Cells \X Vals) \cup ({RegTag} \X Registers \X Vals))
    BY <1>1, <1>2, AbsorbType
  <2> QED BY <1>1, <1>2, <2>1 DEF TypeOK, program, locals
<1>4. WireInv'
  BY <1>1, <1>2 DEF WireInv
<1>5. CASE pc \notin Txs
  BY <1>2, <1>3, <1>4, <1>5, FinishOutside
<1>6. CASE pc \in Txs
  <2>1. op \in {"start", "restart"} /\ Underway /\ ~Underway' /\ UNCHANGED <<pc, op, step, n, got, err, i, job, id, buf, seen, image>>
          /\ Written' = Written /\ ToRead' = ToRead /\ Slave' = Slave /\ (op # "start" => sts = {})
    BY <1>2, <1>6, FinishInside DEF Command, RxCommand, program, locals
  <2>2. ControlInv /\ MessageInv /\ ReadInv /\ SlaveInv /\ CleanInv
    BY <1>6 DEF IInv
  <2>3. UNCHANGED slaves \/ (pc = "mux1" /\ op = "start")
    BY <1>2, <1>6, <2>1, AbsorbInTx
  <2>4. ControlInv'
    BY <1>1, <1>2, <2>1, <2>2 DEF ControlInv
  <2>5. MessageInv'
    BY <1>2, <2>1, <2>2 DEF MessageInv
  <2>6. ReadInv'
    BY <1>2, <2>1, <2>2 DEF ReadInv
  <2>7. SlaveInv'
    BY <2>1, <2>2, <2>3 DEF SlaveInv, Completed, slaves
  <2>8. CleanInv'
    BY <1>2, <1>6, <2>1, <2>2 DEF CleanInv, Txs
  <2> QED BY <1>3, <1>4, <1>6, <2>3, <2>4, <2>5, <2>6, <2>7, <2>8, FinishRest DEF slaves
<1> QED BY <1>5, <1>6

LEMMA FinishAddressIInv == ASSUME IInv, Finish, FinishAddress PROVE IInv'
<1> USE DEF MuxAddr, IdtAddr, Nobody
<1>1. TypeOK /\ WireInv /\ UNCHANGED <<txd, pins, id, program>> /\ pend' = "none"
  BY DEF IInv, Finish
<1>2. pend = "tx" /\ state = "started" /\ state' = "active" /\ UNCHANGED <<rxd, heard, slaves>>
  BY DEF FinishAddress
<1>3. who = Nobody /\ heard = <<>> /\ says = <<>> /\ ~driving
  BY <1>1, <1>2 DEF WireInv
<1>4. \/ /\ Reachable(txd \div 2) /\ sts' = sts \cup {"ack"} /\ clean' = clean
         /\ who' = txd \div 2 /\ who' \in {MuxAddr, IdtAddr}
         /\ says' = (IF txd % 2 = 1 THEN Speech(txd \div 2) ELSE <<>>)
         /\ driving' = (txd % 2 = 1)
      \/ /\ sts' = sts \cup {"nack"} /\ clean' = (clean /\ ~Reachable(txd \div 2))
         /\ UNCHANGED <<who, says, driving>>
  BY DEF FinishAddress, Reachable
<1>5. TypeOK'
  <2>1. says' \in Seq(Words)
    <3>1. Speech(txd \div 2) \in Seq(Words) /\ <<>> \in Seq(Words)
      BY <1>1, SpeechType
    <3> QED BY <1>1, <1>4, <3>1 DEF TypeOK
  <2>2. clean' \in BOOLEAN /\ driving' \in BOOLEAN /\ who' \in {Nobody, MuxAddr, IdtAddr}
          /\ sts' \subseteq {"ack", "nack", "rx", "stop"}
    BY <1>1, <1>4 DEF TypeOK
  <2> QED BY <1>1, <1>2, <2>1, <2>2 DEF TypeOK, program, locals, slaves
<1>6. WireInv'
  BY <1>1, <1>2, <1>3, <1>4 DEF WireInv, Hearable
<1>7. CASE pc \notin Txs
  <2>1. clean' => clean
    BY <1>1, <1>4 DEF TypeOK
  <2> QED BY <1>5, <1>6, <1>7, <2>1, FinishOutside
<1>8. CASE pc \in Txs
  <2>1. Underway /\ ~Underway' /\ UNCHANGED <<pc, op, step, n, got, err, i, job, id, buf, seen, image>>
          /\ Written' = Written /\ ToRead' = ToRead /\ Slave' = Slave /\ (op # "start" => sts = {})
    BY <1>8, FinishInside DEF program, locals
  <2>2. ControlInv /\ MessageInv /\ ReadInv /\ SlaveInv /\ CleanInv
    BY <1>8 DEF IInv
  <2>3. op \in {"addrw", "addrr"} /\ sts = {}
    BY <1>2, <1>8, <2>1, <2>2, FinishInside DEF Command, RxCommand, ControlInv, TypeOK
  <2>4. Slave \in {MuxAddr, IdtAddr} /\ Len(Written) \in 0..3
    BY <1>1, <1>8, <2>2, WrittenFacts
  <2>5. txd \div 2 = Slave /\ txd % 2 = (IF op = "addrr" THEN 1 ELSE 0)
    <3>1. txd = 2 * Slave + (IF op = "addrr" THEN 1 ELSE 0)
      BY <1>2, <2>2, <2>3, <2>4 DEF ControlInv
    <3> QED BY <2>4, <3>1
  <2>6. Reachable(Slave)
    BY <1>8, <2>2, <2>4 DEF Reachable, ControlInv, SlaveInv, Slave, Txs
  <2>7. \/ sts' = {"ack"} /\ clean' = clean /\ who' = Slave
           /\ says' = (IF op = "addrr" THEN Speech(Slave) ELSE <<>>) /\ (driving' => op = "addrr")
        \/ sts' = {"nack"} /\ ~clean' /\ UNCHANGED <<who, says, driving>>
    <3>1. CASE op = "addrr"
      BY <1>4, <2>3, <2>5, <2>6, <3>1
    <3>2. CASE op = "addrw"
      <4>1. txd % 2 = 0 /\ txd % 2 # 1 /\ txd \div 2 = Slave
        BY <2>5, <3>2
      <4> QED BY <1>4, <2>3, <2>6, <3>2, <4>1
    <3> QED BY <2>3, <3>1, <3>2
  <2>8. ControlInv'
    <3>1. driving' => op = "addrr"
      BY <1>3, <2>7
    <3>2. sts' \in {{"ack"}, {"nack"}}
      BY <2>7
    <3> QED BY <1>1, <1>2, <2>1, <2>2, <2>3, <3>1, <3>2 DEF ControlInv
  <2>9. MessageInv'
    BY <1>2, <1>3, <2>1, <2>2, <2>3, <2>7 DEF MessageInv, Acked
  <2>10. ReadInv'
    BY <1>2, <1>3, <2>1, <2>2, <2>3, <2>7 DEF ReadInv, Acked, Speech, slaves
  <2>11. SlaveInv'
    BY <1>2, <2>1, <2>2, <2>3 DEF SlaveInv, Completed, slaves
  <2>12. CleanInv'
    <3>1. clean' => clean /\ sts' = {"ack"}
      BY <2>7
    <3> QED BY <1>8, <2>1, <2>2, <2>3, <3>1 DEF CleanInv, Txs
  <2> QED BY <1>2, <1>5, <1>6, <1>8, <2>8, <2>9, <2>10, <2>11, <2>12, FinishRest DEF slaves
<1> QED BY <1>7, <1>8

LEMMA FinishByteIInv == ASSUME IInv, Finish, FinishByte PROVE IInv'
<1> USE DEF MuxAddr, IdtAddr, Nobody
<1>1. TypeOK /\ WireInv /\ UNCHANGED <<txd, pins, id, program>> /\ pend' = "none"
  BY DEF IInv, Finish
<1>2. pend = "tx" /\ state = "active" /\ UNCHANGED <<state, rxd, who, says, driving, slaves>>
  BY DEF FinishByte
<1>3. \/ /\ who # Nobody /\ sts' = sts \cup {"ack"} /\ clean' = clean
         /\ heard' = Append(heard, txd)
      \/ /\ sts' = sts \cup {"nack"} /\ (clean' => clean /\ who = Nobody) /\ clean' \in BOOLEAN
         /\ heard' = heard
  BY DEF FinishByte
<1>4. TypeOK'
  <2>1. Append(heard, txd) \in Seq(Words) /\ heard \in Seq(Words)
    BY <1>1 DEF TypeOK
  <2>2. heard' \in Seq(Words) /\ clean' \in BOOLEAN
    BY <1>1, <1>3, <2>1 DEF TypeOK
  <2>3. sts' \subseteq {"ack", "nack", "rx", "stop"}
    BY <1>1, <1>3 DEF TypeOK
  <2> QED BY <1>1, <1>2, <2>2, <2>3 DEF TypeOK, program, locals, slaves
<1>5. WireInv'
  <2>1. who # Nobody => Hearable(who, heard')
    BY <1>1, <1>2, <1>3 DEF WireInv
  <2> QED BY <1>1, <1>2, <1>3, <2>1 DEF WireInv, Hearable
<1>6. CASE pc \notin Txs
  <2>1. clean' => clean
    BY <1>1, <1>3 DEF TypeOK
  <2> QED BY <1>4, <1>5, <1>6, <2>1, FinishOutside
<1>7. CASE pc \in Txs
  <2>1. Underway /\ ~Underway' /\ UNCHANGED <<pc, op, step, n, got, err, i, job, id, buf, seen, image>>
          /\ Written' = Written /\ ToRead' = ToRead /\ Slave' = Slave /\ (op # "start" => sts = {})
    BY <1>7, FinishInside DEF program, locals
  <2>2. ControlInv /\ MessageInv /\ ReadInv /\ SlaveInv /\ CleanInv
    BY <1>7 DEF IInv
  <2>3. op = "byte" /\ sts = {}
    BY <1>2, <1>7, <2>1, <2>2, FinishInside DEF Command, RxCommand, ControlInv, TypeOK
  <2>4. Slave \in {MuxAddr, IdtAddr} /\ Written \in Seq(Words) /\ Len(Written) \in 0..3
    BY <1>1, <1>7, <2>2, WrittenFacts
  <2>5. who = Slave /\ Len(heard) = n - 1 /\ n \in 1..3 /\ heard \in Seq(Words) /\ txd \in Words
          /\ txd = Written[n] /\ \A j \in 1..Len(heard) : heard[j] = Written[j]
    BY <1>1, <1>2, <2>1, <2>2, <2>3 DEF MessageInv, ControlInv, TypeOK, Acked
  <2>6. \/ sts' = {"ack"} /\ clean' = clean /\ heard' = Append(heard, txd)
        \/ sts' = {"nack"} /\ ~clean' /\ heard' = heard
    BY <1>3, <2>3, <2>4, <2>5
  <2>7. ControlInv'
    <3>1. sts' \in {{"ack"}, {"nack"}}
      BY <2>6
    <3> QED BY <1>1, <1>2, <2>1, <2>2, <2>3, <3>1 DEF ControlInv
  <2>8. MessageInv'
    <3>1. Len(heard') = (IF sts' = {"ack"} THEN n ELSE n - 1)
      <4>1. "nack" \notin {"ack"}
        OBVIOUS
      <4>2. {"nack"} # {"ack"}
        BY <4>1
      <4>3. Len(Append(heard, txd)) = n
        BY <2>5
      <4> QED BY <2>5, <2>6, <4>2, <4>3
    <3>2. \A j \in 1..Len(heard') : heard'[j] = Written[j]
      BY <2>5, <2>6
    <3> QED BY <1>2, <2>1, <2>3, <2>5, <3>1, <3>2 DEF MessageInv, Acked
  <2>9. ReadInv'
    BY <1>2, <2>1, <2>2, <2>3 DEF ReadInv
  <2>10. SlaveInv'
    BY <1>2, <2>1, <2>2, <2>3 DEF SlaveInv, Completed, slaves
  <2>11. CleanInv'
    <3>1. clean' => clean /\ sts' = {"ack"}
      BY <2>6
    <3> QED BY <1>7, <2>1, <2>2, <2>3, <3>1 DEF CleanInv, Txs
  <2> QED BY <1>2, <1>4, <1>5, <1>7, <2>7, <2>8, <2>9, <2>10, <2>11, FinishRest DEF slaves
<1> QED BY <1>6, <1>7

LEMMA FinishRxIInv == ASSUME IInv, Finish, FinishRx PROVE IInv'
<1>1. TypeOK /\ WireInv /\ UNCHANGED <<txd, pins, id, program>> /\ pend' = "none"
  BY DEF IInv, Finish
<1>2. /\ pend \in {"rx", "rxlast"} /\ sts' = sts \cup {"rx"} /\ state' = "active"
      /\ rxd' = (IF says = <<>> THEN Floating ELSE Head(says))
      /\ says' = (IF says = <<>> THEN <<>> ELSE Tail(says))
      /\ driving' \in BOOLEAN /\ (driving' => driving /\ pend = "rx")
      /\ UNCHANGED <<who, heard, slaves, clean>>
  BY DEF FinishRx
<1>3. says \in Seq(Words) /\ Len(says) \in Nat
  BY <1>1 DEF TypeOK
<1>4. says # <<>> => /\ Len(says) > 0 /\ Head(says) = says[1] /\ Head(says) \in Words
                     /\ Tail(says) \in Seq(Words) /\ Len(Tail(says)) = Len(says) - 1
                     /\ \A j \in 1..Len(Tail(says)) : Tail(says)[j] = says[j + 1]
  BY <1>3, HeadTailProperties, EmptySeq
<1>5. TypeOK'
  <2>1. rxd' \in Words /\ says' \in Seq(Words)
    BY <1>2, <1>3, <1>4 DEF Floating, Words, Bytes
  <2>2. sts' \subseteq {"ack", "nack", "rx", "stop"}
    BY <1>1, <1>2 DEF TypeOK
  <2> QED BY <1>1, <1>2, <2>1, <2>2 DEF TypeOK, program, locals, slaves
<1>6. WireInv'
  BY <1>1, <1>2 DEF WireInv, Hearable
<1>7. CASE pc \notin Txs
  BY <1>2, <1>5, <1>6, <1>7, FinishOutside
<1>8. CASE pc \in Txs
  <2>1. Underway /\ ~Underway' /\ UNCHANGED <<pc, op, step, n, got, err, i, job, id, buf, seen, image>>
          /\ Written' = Written /\ ToRead' = ToRead /\ Slave' = Slave /\ (op # "start" => sts = {})
    BY <1>8, FinishInside DEF program, locals
  <2>2. ControlInv /\ MessageInv /\ ReadInv /\ SlaveInv /\ CleanInv
    BY <1>8 DEF IInv
  <2>3. op = "rx" /\ sts = {} /\ (pend = "rx" => n # ToRead)
    BY <1>2, <1>8, <2>1, FinishInside DEF Command, RxCommand
  <2>4. ToRead \in {0, 1, 3} /\ n \in 1..3 /\ n <= ToRead
    BY <1>1, <1>8, <2>2, <2>3, WrittenFacts DEF TypeOK, ControlInv
  <2>5. ControlInv'
    <3>1. driving' => n < ToRead
      BY <1>2, <2>3, <2>4
    <3>2. sts' = {"rx"}
      BY <1>2, <2>3
    <3> QED BY <1>1, <1>2, <2>1, <2>2, <2>3, <3>1, <3>2 DEF ControlInv
  <2>6. MessageInv'
    BY <1>2, <2>1, <2>2, <2>3 DEF MessageInv, Acked
  <2>7. ReadInv'
    <3>1. CASE who = Nobody
      <4>1. says = <<>> /\ rxd' = Floating /\ GotNothing
        BY <1>1, <1>2, <2>2, <2>3, <3>1 DEF WireInv, ReadInv
      <4> QED BY <1>2, <2>1, <2>2, <2>3, <3>1, <4>1 DEF ReadInv, GotNothing
    <3>2. CASE who # Nobody
      <4>1. /\ Len(got) = n - 1 /\ GotFrom(Speech(Slave)) /\ Len(says) = ToRead - (n - 1)
            /\ \A j \in 1..Len(says) : says[j] = Speech(Slave)[n - 1 + j]
        BY <2>1, <2>2, <2>3, <3>2 DEF ReadInv, Spoken
      <4>2. says # <<>>
        BY <1>3, <2>4, <4>1, EmptySeq
      <4>3. rxd' = Speech(Slave)[n]
        BY <1>2, <1>4, <2>4, <4>1, <4>2
      <4>4. Len(says') = ToRead - n
        BY <1>2, <1>4, <2>4, <4>1, <4>2
      <4>5. \A j \in 1..Len(says') : says'[j] = Speech(Slave)[n + j]
        <5> SUFFICES ASSUME NEW j \in 1..Len(says') PROVE says'[j] = Speech(Slave)[n + j]
          OBVIOUS
        <5>1. says'[j] = says[j + 1] /\ j + 1 \in 1..Len(says) /\ n - 1 + (j + 1) = n + j
          BY <1>2, <1>3, <1>4, <2>4, <4>1, <4>2, <4>4
        <5> QED BY <4>1, <5>1
      <4>6. Speech(Slave)' = Speech(Slave)
        BY <1>2, <2>1 DEF Speech, slaves
      <4>7. GotFrom(Speech(Slave))'
        BY <2>1, <4>1, <4>6 DEF GotFrom
      <4> QED BY <1>2, <2>1, <2>3, <3>2, <4>1, <4>3, <4>4, <4>5, <4>6, <4>7 DEF ReadInv, Spoken
    <3> QED BY <3>1, <3>2
  <2>8. SlaveInv'
    BY <1>2, <2>1, <2>2, <2>3 DEF SlaveInv, Completed, slaves
  <2>9. CleanInv'
    <3>1. sts' = {"rx"}
      BY <1>2, <2>3
    <3> QED BY <1>2, <1>8, <2>1, <2>2, <2>3, <3>1 DEF CleanInv, Txs
  <2> QED BY <1>2, <1>5, <1>6, <1>8, <2>5, <2>6, <2>7, <2>8, <2>9, FinishRest DEF slaves
<1> QED BY <1>7, <1>8

LEMMA FinishStopIInv == ASSUME IInv, Finish, FinishStop PROVE IInv'
<1>1. TypeOK /\ WireInv /\ UNCHANGED <<txd, pins, id, program>> /\ pend' = "none"
  BY DEF IInv, Finish
<1>2. /\ state' = "idle" /\ who' = Nobody /\ heard' = <<>> /\ says' = <<>> /\ sts' = sts \cup {"stop"}
      /\ UNCHANGED <<rxd, driving, clean>> /\ Absorb /\ pend = "stop" /\ ~driving
  BY DEF FinishStop
<1>3. TypeOK'
  <2>1. mux' \in Channels /\ mem' \in [Cells -> Vals]
          /\ answer' \in {<<>>} \cup (({EeTag} \X Cells \X Vals) \cup ({RegTag} \X Registers \X Vals))
    BY <1>1, <1>2, AbsorbType
  <2>2. sts' \subseteq {"ack", "nack", "rx", "stop"}
    BY <1>1, <1>2 DEF TypeOK
  <2> QED BY <1>1, <1>2, <2>1, <2>2 DEF TypeOK, program, locals
<1>4. WireInv'
  BY <1>1, <1>2 DEF WireInv
<1>5. CASE pc \notin Txs
  BY <1>2, <1>3, <1>4, <1>5, FinishOutside
<1>6. CASE pc \in Txs
  <2>1. op = "stop" /\ Underway /\ ~Underway' /\ UNCHANGED <<pc, op, step, n, got, err, i, job, id, buf, seen, image>>
          /\ Written' = Written /\ ToRead' = ToRead /\ Slave' = Slave /\ sts = {}
    BY <1>1, <1>2, <1>6, FinishInside DEF Command, RxCommand, program, locals, TypeOK
  <2>2. ControlInv /\ MessageInv /\ ReadInv /\ SlaveInv /\ CleanInv
    BY <1>6 DEF IInv
  <2>3. /\ mux' = (IF pc = "setmux" /\ ~err THEN Mux70 ELSE mux)
        /\ mem' = (IF pc = "store" /\ ~err THEN [mem EXCEPT ![i] = image[i + 1]] ELSE mem)
        /\ answer' = (IF pc = "ask" /\ ~err THEN <<EeTag, i, mem[i]>>
                      ELSE IF pc = "regask" /\ ~err THEN <<RegTag, 0, id>>
                      ELSE IF pc = "stask" /\ ~err THEN <<RegTag, BCVSTS, RegVal>> ELSE answer)
    BY <1>2, <1>6, <2>1, AbsorbInTx
  <2>4. sts' = {"stop"} /\ i \in Cells /\ mem \in [Cells -> Vals]
    BY <1>1, <1>2, <2>1 DEF TypeOK
  <2>5. ControlInv'
    BY <1>1, <1>2, <2>1, <2>2, <2>4 DEF ControlInv
  <2>6. MessageInv'
    BY <1>2, <2>1, <2>2 DEF MessageInv
  <2>7. GotFrom(Speech(Slave)) /\ ~err => GotFrom(Speech(Slave))'
    <3>1. CASE got = <<>>
      BY <2>1, <3>1 DEF GotFrom
    <3>2. CASE ToRead > 0
      BY <2>1, <2>3, <3>2 DEF GotFrom, Speech, Slave, ToRead
    <3>3. CASE err
      BY <3>3
    <3>4. ~err /\ ToRead = 0 => got = <<>>
      BY <1>1, <2>1, <2>2, EmptySeq DEF ReadInv, TypeOK
    <3> QED BY <1>1, <1>6, <2>2, <3>1, <3>2, <3>3, <3>4, WrittenFacts
  <2>8. ReadInv'
    BY <1>2, <2>1, <2>2, <2>7 DEF ReadInv, GotNothing
  <2>9. SlaveInv'
    BY <2>1, <2>2, <2>3, <2>4 DEF SlaveInv, Completed, Cells
  <2>10. CleanInv'
    BY <1>2, <1>6, <2>1, <2>2, <2>4, <2>7 DEF CleanInv, Txs
  <2> QED BY <1>3, <1>4, <1>6, <2>1, <2>3, <2>5, <2>6, <2>8, <2>9, <2>10, FinishRest
<1> QED BY <1>5, <1>6

LEMMA FinishIInv == ASSUME IInv, Finish PROVE IInv'
BY FinishStartIInv, FinishAddressIInv, FinishByteIInv, FinishRxIInv, FinishStopIInv DEF Finish

-----------------------------------------------------------------------------
(* The program outside the Txs                                             *)

\* A run that ends without success, or is killed.
LEMMA EndedIInv ==
  ASSUME TypeOK', WireInv', pc' \in Ends \ {"ok"},
         clean' => \/ pc' = "off"
                   \/ pc' = "unknown" /\ "info" \in job' /\ id' \notin KnownIds,
         pc' \notin {"off", "fatal"} => state' = "idle" /\ pend' = "none" /\ sts' = {}
  PROVE  IInv'
BY DEF IInv, CleanInv, EeoutTrue, EeinTrue, EndsIdle, CleanRunSucceeds, Txs, Files, Ends

\* A Tx begins on a bus that is idle.
LEMMA CallIInv ==
  ASSUME TypeOK', WireInv', SlaveInv', EeoutTrue', NEW tx \in Txs, NEW cell, Call(tx, cell),
         state' = "idle", pend' = "none", pins',
         tx = "mux1" \/ who' = Nobody, clean' => sts' = {}
  PROVE  IInv'
<1>1. /\ pc' = tx /\ op' = "start" /\ step' = "issue" /\ n' = 1 /\ got' = <<>> /\ ~err'
      /\ Underway'
  BY DEF Call, Underway
<1>2. ControlInv'
  BY <1>1 DEF ControlInv, WireInv
<1>3. MessageInv'
  BY <1>1 DEF MessageInv
<1>4. ReadInv'
  BY <1>1 DEF ReadInv, WireInv
<1>5. CleanInv'
  BY <1>1 DEF CleanInv, Txs
<1>6. /\ EeinTrue' /\ EndsIdle' /\ CleanRunSucceeds' /\ pc' \notin Files
      /\ pc' \notin {"ready1", "ready2", "dev2"}
  BY <1>1 DEF EeinTrue, EndsIdle, CleanRunSucceeds, Txs, Files, Ends
<1> QED BY <1>2, <1>3, <1>4, <1>5, <1>6 DEF IInv

LEMMA StartIInv ==
  ASSUME IInv, NEW j \in SUBSET {"info", "eeout", "eein"}, Start(j)
  PROVE  IInv'
<1>1. /\ pc' = "dev1" /\ job' = j /\ buf' = [c \in Cells |-> Floating] /\ clean' = TRUE
      /\ seen' = 0 /\ image' = <<>>
      /\ UNCHANGED <<controller, wire, slaves, id, op, step, n, got, err, i>>
  BY DEF Start
<1>2. TypeOK'
  BY <1>1, Numbers DEF IInv, TypeOK, controller, wire, slaves, Devs
<1>3. WireInv'
  BY <1>1 DEF IInv, WireInv, controller, wire
<1> QED BY <1>1, <1>2, <1>3
    DEF IInv, CleanInv, EeoutTrue, EeinTrue, EndsIdle, CleanRunSucceeds, Txs, Files, Ends

LEMMA RecoverIInv == ASSUME IInv, Recover PROVE IInv'
<1>1. TypeOK /\ WireInv
  BY DEF IInv
<1>2. /\ pc' \in {"ready1", "ready2"} /\ pend' = "none"
      /\ UNCHANGED <<op, step, n, got, err, i, txd, rxd, pins, id, buf, seen, image, job>>
  BY DEF Recover, Die, locals
<1>3. \/ /\ state' = "idle" /\ clean' = clean /\ (Absorb \/ UNCHANGED slaves)
         /\ \/ UNCHANGED wire /\ state = "idle"
            \/ who' = Nobody /\ heard' = <<>> /\ says' = <<>> /\ driving' = FALSE
      \/ state' = state /\ clean' = FALSE /\ UNCHANGED <<wire, slaves>>
  BY DEF Recover
<1>4. TypeOK'
  <2>1. /\ mux' \in Channels /\ mem' \in [Cells -> Vals]
        /\ answer' \in {<<>>} \cup (({EeTag} \X Cells \X Vals) \cup ({RegTag} \X Registers \X Vals))
    BY <1>1, <1>3, AbsorbType DEF TypeOK, slaves
  <2>2. who' \in {Nobody, MuxAddr, IdtAddr} /\ heard' \in Seq(Words) /\ says' \in Seq(Words)
    <3>1. <<>> \in Seq(Words)
      OBVIOUS
    <3> QED BY <1>1, <1>3, <3>1 DEF TypeOK, wire
  <2>3. driving' \in BOOLEAN /\ clean' \in BOOLEAN
    BY <1>1, <1>3 DEF TypeOK, wire
  <2>4. sts' \subseteq {"ack", "nack", "rx", "stop"}
    BY <1>1 DEF Recover, TypeOK
  <2> QED BY <1>1, <1>2, <1>3, <2>1, <2>2, <2>3, <2>4 DEF TypeOK, Devs
<1>5. WireInv'
  <2>1. CASE UNCHANGED wire
    BY <1>1, <1>2, <1>3, <2>1 DEF WireInv, wire, Hearable
  <2>2. CASE who' = Nobody /\ heard' = <<>> /\ says' = <<>> /\ driving' = FALSE
    BY <1>2, <2>2 DEF WireInv
  <2> QED BY <1>3, <2>1, <2>2
<1> QED BY <1>2, <1>3, <1>4, <1>5
    DEF IInv, CleanInv, EeoutTrue, EeinTrue, EndsIdle, CleanRunSucceeds, Txs, Files, Ends

LEMMA EnableIInv == ASSUME IInv, Enable PROVE IInv'
<1>1. TypeOK /\ WireInv /\ pend = "none" /\ (clean => state = "idle") /\ clean \in BOOLEAN
  BY DEF IInv, Enable, CleanInv, TypeOK
<1>2. /\ pins' = TRUE /\ UNCHANGED <<state, pend, sts, txd, rxd, wire, slaves, id, buf, seen, image, job>>
      /\ clean' = (clean /\ sts = {})
  BY DEF Enable, locals
<1>3. WireInv'
  BY <1>1, <1>2 DEF WireInv, wire
<1>4. CASE state = "idle" /\ pc = "ready2"
  <2>1. Call("mux1", 0)
    BY <1>4 DEF Enable
  <2>2. TypeOK'
    <3>1. 0 \in Cells /\ <<>> \in Seq(Words) /\ Len(<<>>) <= 3
      BY Numbers
    <3>2. /\ pc' = "mux1" /\ op' = "start" /\ step' = "issue" /\ n' = 1 /\ got' = <<>>
          /\ err' = FALSE /\ i' = 0
      BY <2>1 DEF Call
    <3>3. clean' \in BOOLEAN /\ pins' \in BOOLEAN /\ err' \in BOOLEAN
      BY <1>1, <1>2, <3>2
    <3>4. got' \in Seq(Words) /\ Len(got') <= 3 /\ n' \in 1..3 /\ i' \in Cells /\ pc' \in Txs
      BY <3>1, <3>2 DEF Txs
    <3> QED BY <1>1, <1>2, <3>2, <3>3, <3>4 DEF TypeOK, wire, slaves
  <2>3. SlaveInv' /\ EeoutTrue'
    BY <2>1 DEF Call, SlaveInv, EeoutTrue, Files
  <2> QED BY <1>1, <1>2, <1>3, <1>4, <2>1, <2>2, <2>3, CallIInv DEF Txs
<1>5. CASE state # "idle"
  <2>1. pc' = "fatal" /\ UNCHANGED <<op, step, n, got, err, i>> /\ ~clean' /\ clean' \in BOOLEAN
    BY <1>1, <1>2, <1>5 DEF Enable, Die
  <2>2. TypeOK'
    BY <1>1, <1>2, <2>1 DEF TypeOK, wire, slaves, Ends
  <2> QED BY <1>3, <2>1, <2>2, EndedIInv DEF Ends
<1>6. CASE state = "idle" /\ pc = "ready1"
  <2>1. pc' = "dev2" /\ UNCHANGED <<op, step, n, got, err, i>> /\ clean' \in BOOLEAN
    BY <1>1, <1>2, <1>6 DEF Enable, Die
  <2>2. TypeOK'
    BY <1>1, <1>2, <2>1 DEF TypeOK, wire, slaves, Devs
  <2> QED BY <1>1, <1>2, <1>3, <1>6, <2>1, <2>2
      DEF IInv, CleanInv, EeoutTrue, EeinTrue, EndsIdle, CleanRunSucceeds, Txs, Files, Ends
<1> QED BY <1>4, <1>5, <1>6 DEF Enable

LEMMA KillIInv == ASSUME IInv, Kill PROVE IInv'
<1>1. pc' = "off" /\ UNCHANGED <<controller, wire, slaves, op, step, n, got, err, i, id, buf, seen, image, job, clean>>
  BY DEF Kill, Die, locals
<1>2. TypeOK'
  BY <1>1 DEF IInv, TypeOK, controller, wire, slaves, Ends
<1>3. WireInv'
  BY <1>1 DEF IInv, WireInv, controller, wire
<1> QED BY <1>1, <1>2, <1>3, EndedIInv DEF Ends

-----------------------------------------------------------------------------
(* The program within a Tx                                                 *)

\* No command is refused: the controller is where the operation wants it.
LEMMA IssueIInv == ASSUME IInv, Issue PROVE IInv'
<1>1. pc \in Txs /\ step = "issue" /\ TypeOK /\ WireInv /\ UNCHANGED <<state, sts, rxd, pins, wire, slaves, id, buf, seen, image, job, clean>>
  BY DEF IInv, Issue, locals
<1>2. ControlInv /\ MessageInv /\ ReadInv /\ SlaveInv /\ CleanInv /\ Underway /\ pend = "none"
  BY <1>1 DEF IInv, Underway, ControlInv
<1>3. Allowed
  BY <1>1, <1>2 DEF ControlInv, Allowed, TypeOK
<1>4. /\ pend' = Command /\ step' = "wait" /\ UNCHANGED <<pc, op, n, got, err, i>>
      /\ txd' = (CASE op = "addrw" -> 2 * Slave [] op = "addrr" -> 2 * Slave + 1
                   [] op = "byte" -> Written[n] [] OTHER -> txd)
  BY <1>3 DEF Issue
<1>5. Slave \in {MuxAddr, IdtAddr} /\ Written \in Seq(Words) /\ Len(Written) \in 0..3
        /\ ToRead \in {0, 1, 3} /\ n \in 1..3
  BY <1>1, <1>2, WrittenFacts DEF TypeOK
<1>6. Command \in {"start", "tx", "rx", "rxlast", "stop"} /\ pend' # "none" /\ Underway'
        /\ (Command = "tx" <=> op \in {"addrw", "byte", "addrr"})
  BY <1>1, <1>4 DEF Command, RxCommand, Underway
<1>7. /\ Written' = Written /\ ToRead' = ToRead /\ Slave' = Slave /\ Command' = Command
      /\ Acked' = Acked /\ Spoken' = Spoken /\ Completed' = Completed /\ Speech(Slave)' = Speech(Slave)
      /\ ~Acked
  BY <1>1, <1>2, <1>4, <1>6
     DEF Written, ToRead, Slave, Command, RxCommand, Acked, Spoken, Completed, Underway, Speech, slaves
<1>8. TypeOK'
  <2>1. op = "byte" => Written[n] \in Words
    BY <1>2, <1>5 DEF ControlInv
  <2>2. 2 * Slave \in Words /\ 2 * Slave + 1 \in Words
    BY <1>5 DEF MuxAddr, IdtAddr, Words, Bytes
  <2>3. txd' \in Words
    BY <1>1, <1>4, <2>1, <2>2 DEF TypeOK
  <2> QED BY <1>1, <1>4, <1>6, <2>3 DEF TypeOK, wire, slaves
<1>9. WireInv'
  <2>1. pend' = "tx" /\ state = "active" /\ who # Nobody => Hearable(who, Append(heard, txd'))
    <3> SUFFICES ASSUME pend' = "tx", state = "active", who # Nobody
                 PROVE  Hearable(who, Append(heard, txd'))
      OBVIOUS
    <3>1. op = "byte"
      BY <1>2, <1>4, <1>6 DEF ControlInv
    <3>2. who = Slave /\ Len(heard) = n - 1 /\ n <= Len(Written) /\ txd' = Written[n]
            /\ heard \in Seq(Words) /\ Written[n] \in Words
            /\ \A j \in 1..Len(heard) : heard[j] = Written[j]
      BY <1>1, <1>2, <1>4, <1>5, <1>7, <3>1 DEF MessageInv, ControlInv, TypeOK
    <3> DEFINE h == Append(heard, txd')
    <3>3. h \in Seq(Words) /\ Len(h) = n
      BY <1>5, <3>2
    <3>4. \A j \in 1..Len(h) : h[j] = Written[j]
      BY <1>5, <3>2, <3>3
    <3> QED BY <1>1, <1>2, <3>2, <3>3, <3>4, PartHearable
  <2> QED BY <1>1, <2>1 DEF WireInv, wire, Hearable
<1>10. ControlInv'
  BY <1>1, <1>2, <1>4, <1>6, <1>7 DEF ControlInv, wire
<1>11. MessageInv'
  BY <1>1, <1>2, <1>4, <1>6, <1>7 DEF MessageInv, wire
<1>12. ReadInv'
  BY <1>1, <1>2, <1>4, <1>6, <1>7 DEF ReadInv, wire, GotFrom, GotNothing
<1>13. SlaveInv'
  BY <1>1, <1>2, <1>4, <1>7 DEF SlaveInv, slaves
<1>14. CleanInv'
  BY <1>1, <1>2, <1>4, <1>7 DEF CleanInv, GotFrom, wire, Txs
<1>15. EeoutTrue'
  BY <1>1, <1>4 DEF IInv, EeoutTrue, slaves, Txs, Files
<1> QED BY <1>1, <1>4, <1>8, <1>9, <1>10, <1>11, <1>12, <1>13, <1>14, <1>15
    DEF IInv, EeinTrue, EndsIdle, CleanRunSucceeds, Txs, Files, Ends

\* Only a slave can make Wait give up: the program leaves room for start and stop.
LEMMA TimedOutIInv == ASSUME IInv, TimedOut PROVE IInv'
<1>1. /\ pc \in Txs /\ pend # "none" /\ TypeOK /\ WireInv /\ ControlInv
      /\ clean \in BOOLEAN
  BY DEF IInv, TimedOut, Deadline, TypeOK
<1>2. /\ pend' = "none" /\ pc' = "fatal" /\ state' \in {state, "idle"} /\ (driving => state' = state)
      /\ clean' = (clean /\ ~CanFinish)
      /\ UNCHANGED <<op, step, n, got, err, i, sts, txd, rxd, pins, wire, slaves, id, buf, seen, image, job>>
  BY DEF TimedOut, Die, locals
<1>3. CanFinish
  BY <1>1 DEF CanFinish, ControlInv, Command, RxCommand, Underway
<1>4. TypeOK'
  BY <1>1, <1>2, <1>3 DEF TypeOK, wire, slaves, Ends
<1>5. WireInv'
  BY <1>1, <1>2 DEF WireInv, wire, Hearable
<1> QED BY <1>1, <1>2, <1>3, <1>4, <1>5, EndedIInv DEF Ends

\* What an operation that has ended has left, and what stays as it is.
LEMMA WaitedFacts ==
  ASSUME IInv, Waited
  PROVE  /\ TypeOK /\ WireInv /\ ControlInv /\ MessageInv /\ ReadInv /\ SlaveInv /\ CleanInv
         /\ pc \in Txs /\ ~Underway /\ pend = "none" /\ clean \in BOOLEAN
         /\ Slave \in {MuxAddr, IdtAddr} /\ Written \in Seq(Words) /\ Len(Written) \in 0..3
         /\ ToRead \in {0, 1, 3} /\ n \in 1..3 /\ got \in Seq(Words) /\ Len(got) \in 0..3
         /\ heard \in Seq(Words)
         /\ (ToRead = 0 => Len(Written) > 0)
<1>1. TypeOK /\ pc \in Txs /\ step = "wait" /\ pend = "none"
  BY DEF IInv, Waited
<1>2. got \in Seq(Words) /\ Len(got) <= 3 /\ n \in 1..3 /\ clean \in BOOLEAN /\ heard \in Seq(Words)
  BY <1>1 DEF TypeOK
<1>3. Len(got) \in 0..3
  <2>1. Len(got) \in Nat
    BY <1>2, LenProperties
  <2>2. Len(got) <= 3
    BY <1>1 DEF TypeOK
  <2> QED BY <2>1, <2>2, SmallLength
<1> QED BY <1>1, <1>2, <1>3, WrittenFacts DEF IInv, Underway

\* The next operation of the same Tx: what is left to show.
LEMMA ProceedIInv ==
  ASSUME IInv, Waited, UNCHANGED <<state, pend, txd, rxd, pins, wire, slaves, id, buf, seen, image, job, clean, pc, i>>,
         step' = "issue", op # "stop", op' \in {"addrw", "byte", "restart", "addrr", "rx", "stop"}, n' \in 1..3,
         got' \in Seq(Words), Len(got') <= 3, err' \in BOOLEAN, sts' = {}, clean => ~err',
         ControlInv', MessageInv', ReadInv', 
         clean /\ op' = "rx" => who = Slave,
         clean /\ op' = "stop" => GotFrom(Speech(Slave))'
  PROVE  IInv'
<1>1. TypeOK /\ WireInv /\ SlaveInv /\ CleanInv /\ pc \in Txs
  BY WaitedFacts
<1>2. TypeOK'
  BY <1>1 DEF TypeOK, wire, slaves
<1>3. WireInv'
  BY <1>1 DEF WireInv, wire, Hearable
<1>4. Underway' /\ ~Completed' /\ ~Completed
  BY DEF Underway, Completed
<1>5. SlaveInv'
  BY <1>1, <1>4 DEF SlaveInv, slaves
<1>6. CleanInv'
  BY <1>1 DEF CleanInv, wire, Slave, Txs
<1>7. EeoutTrue'
  BY <1>1 DEF IInv, EeoutTrue, slaves, Txs, Files
<1> QED BY <1>1, <1>2, <1>3, <1>5, <1>6, <1>7
    DEF IInv, EeinTrue, EndsIdle, CleanRunSucceeds, Txs, Files, Ends

LEMMA StartedIInv == ASSUME IInv, Started PROVE IInv'
<1>1. Waited /\ op \in {"start", "restart"} /\ UNCHANGED <<controller, wire, slaves, id, buf, seen, image, job, clean>>
  BY DEF Started, locals
<1>2. /\ TypeOK /\ WireInv /\ ControlInv /\ MessageInv /\ ReadInv /\ SlaveInv /\ CleanInv
      /\ pc \in Txs /\ ~Underway /\ pend = "none" /\ got \in Seq(Words)
      /\ Slave \in {MuxAddr, IdtAddr} /\ Written \in Seq(Words) /\ Len(Written) \in 0..3
      /\ ToRead \in {0, 1, 3} /\ (ToRead = 0 => Len(Written) > 0)
  BY <1>1, WaitedFacts
<1>3. CASE sts = {}
  <2>1. Proceed(<<>>)
    BY <1>3 DEF Started
  <2>2. got \o <<>> = got
    BY <1>2, ConcatEmptySeq
  <2>3. /\ op' = (IF op = "start" /\ Written # <<>> THEN "addrw" ELSE "addrr") /\ n' = 1
        /\ step' = "issue" /\ got' = got /\ UNCHANGED <<pc, err, i>>
    BY <1>1, <2>1, <2>2 DEF Proceed, NextOp
  <2>4. got = <<>> /\ who = Nobody /\ heard = <<>> /\ says = <<>> /\ ~err
    BY <1>1, <1>2 DEF ReadInv, MessageInv, WireInv, ControlInv
  <2>5. /\ Written' = Written /\ ToRead' = ToRead /\ Slave' = Slave
        /\ Underway' /\ ~Acked' /\ UNCHANGED <<state, pend, sts, txd, rxd, pins, who, heard, says, driving>>
    BY <1>1, <2>3 DEF Written, ToRead, Slave, Underway, Acked, controller, wire
  <2>6. state = "started" /\ (op = "restart" => ToRead > 0) /\ (Written = <<>> => ToRead > 0) /\ ~driving /\ pins
    BY <1>1, <1>2 DEF ControlInv
  <2>7. ControlInv'
    BY <1>2, <1>3, <2>3, <2>4, <2>5, <2>6 DEF ControlInv
  <2>8. MessageInv'
    BY <2>3, <2>4, <2>5 DEF MessageInv
  <2>9. ReadInv'
    BY <2>3, <2>4, <2>5 DEF ReadInv
  <2> QED
    BY <1>1, <1>2, <1>3, <2>3, <2>4, <2>5, <2>7, <2>8, <2>9, ProceedIInv DEF TypeOK
<1>4. CASE sts # {}
  <2>1. pc' = "fatal" /\ UNCHANGED <<op, step, n, got, err, i>>
    BY <1>4 DEF Started, Die
  <2>2. ~clean /\ clean' = clean
    BY <1>1, <1>2, <1>4 DEF CleanInv, ControlInv
  <2>3. TypeOK'
    BY <1>1, <1>2, <2>1 DEF TypeOK, controller, wire, slaves, Ends
  <2>4. WireInv'
    BY <1>1, <1>2 DEF WireInv, controller, wire, Hearable
  <2> QED BY <2>1, <2>2, <2>3, <2>4, EndedIInv DEF Ends
<1> QED BY <1>3, <1>4

\* The status after a byte is its answer, nothing else: Sent never dies.
LEMMA SentIInv == ASSUME IInv, Sent PROVE IInv'
<1>1. /\ Waited /\ op \in {"addrw", "byte", "addrr"} /\ sts' = {}
      /\ UNCHANGED <<state, pend, txd, rxd, pins, wire, slaves, id, buf, seen, image, job, clean>>
  BY DEF Sent, locals
<1>2. /\ TypeOK /\ WireInv /\ ControlInv /\ MessageInv /\ ReadInv /\ SlaveInv /\ CleanInv
      /\ pc \in Txs /\ ~Underway /\ pend = "none" /\ got \in Seq(Words) /\ heard \in Seq(Words)
      /\ Slave \in {MuxAddr, IdtAddr} /\ Written \in Seq(Words) /\ Len(Written) \in 0..3
      /\ ToRead \in {0, 1, 3} /\ n \in 1..3 /\ (ToRead = 0 => Len(Written) > 0) /\ clean \in BOOLEAN
  BY <1>1, WaitedFacts
<1>3. /\ sts \in {{"ack"}, {"nack"}} /\ got = <<>> /\ ~err /\ state = "active" /\ pins
      /\ (driving => op = "addrr") /\ (op = "addrr" => ToRead > 0) /\ (op = "byte" => n <= Len(Written))
      /\ (op = "addrw" => Written # <<>>)
  BY <1>1, <1>2 DEF ControlInv, ReadInv
<1>4. UNCHANGED <<who, heard, says, driving>> /\ UNCHANGED <<mux, mem, answer>>
  BY <1>1 DEF wire, slaves
<1>5. got \o <<>> = got
  BY <1>2, ConcatEmptySeq
<1>6. CASE "nack" \in sts /\ NackCounts
  <2>1. /\ op # "addrr" /\ op' = "stop" /\ step' = "issue" /\ err' = TRUE /\ UNCHANGED <<pc, n, got, i>>
    BY <1>3, <1>6 DEF Sent, NackCounts
  <2>2. /\ Written' = Written /\ ToRead' = ToRead /\ Slave' = Slave /\ Underway' /\ ~Acked' /\ ~Acked
    BY <1>3, <1>6, <2>1 DEF Written, ToRead, Slave, Underway, Acked
  <2>3. ControlInv'
    BY <1>1, <1>2, <1>3, <1>4, <2>1, <2>2 DEF ControlInv
  <2>4. /\ Len(heard) < Len(Written) /\ who \in {Nobody, Slave}
        /\ \A j \in 1..Len(heard) : heard[j] = Written[j]
    <3>1. CASE op = "addrw"
      BY <1>2, <1>3, <2>2, <3>1, EmptySeq DEF MessageInv
    <3>2. CASE op = "byte"
      BY <1>2, <1>3, <2>2, <3>2 DEF MessageInv
    <3> QED BY <1>1, <2>1, <3>1, <3>2
  <2>5. MessageInv'
    BY <1>4, <2>1, <2>2, <2>4 DEF MessageInv
  <2>6. ReadInv'
    BY <1>3, <2>1, <2>2 DEF ReadInv
  <2>7. ~clean
    BY <1>2, <1>6 DEF CleanInv
  <2> QED BY <1>1, <1>2, <1>3, <2>1, <2>3, <2>5, <2>6, <2>7, ProceedIInv
<1>7. CASE Proceed(<<>>) /\ op = "addrr"
  <2>1. op' = "rx" /\ n' = 1 /\ step' = "issue" /\ got' = <<>> /\ UNCHANGED <<pc, err, i>>
    BY <1>3, <1>5, <1>7 DEF Proceed, NextOp
  <2>2. /\ Written' = Written /\ ToRead' = ToRead /\ Slave' = Slave /\ Underway' /\ ~Acked'
        /\ Spoken' = 0 /\ Speech(Slave)' = Speech(Slave)
    BY <1>4, <2>1 DEF Written, ToRead, Slave, Underway, Acked, Spoken, Speech
  <2>3. ControlInv'
    <3>1. n' <= ToRead /\ ToRead > 0
      BY <1>2, <1>3, <1>7, <2>1
    <3> QED BY <1>1, <1>2, <1>3, <1>4, <2>1, <2>2, <3>1 DEF ControlInv
  <2>4. heard = <<>> /\ who = (IF sts = {"ack"} THEN Slave ELSE Nobody)
          /\ says = (IF sts = {"ack"} THEN Speech(Slave) ELSE <<>>)
    BY <1>2, <1>7 DEF MessageInv, ReadInv, Acked
  <2>5. MessageInv'
    BY <1>4, <2>1, <2>2, <2>4 DEF MessageInv
  <2>6. ReadInv'
    <3>1. CASE who = Nobody
      BY <1>2, <1>4, <2>1, <2>2, <3>1 DEF ReadInv, GotNothing
    <3>2. CASE who # Nobody
      <4>1. says = Speech(Slave) /\ Len(Speech(Slave)) = ToRead
        BY <1>2, <1>3, <1>7, <2>4, <3>2, SpeechLength
      <4> QED BY <1>2, <1>4, <2>1, <2>2, <3>2, <4>1 DEF ReadInv, GotFrom
    <3> QED BY <3>1, <3>2
  <2>7. clean => who = Slave
    BY <1>1, <1>2, <1>3, <2>4 DEF CleanInv
  <2>8. got' \in Seq(Words) /\ Len(got') <= 3 /\ n' \in 1..3 /\ err' \in BOOLEAN /\ ~err'
    BY <1>2, <1>3, <2>1 DEF TypeOK
  <2> QED BY <1>1, <2>1, <2>3, <2>5, <2>6, <2>7, <2>8, ProceedIInv
<1>8. CASE Proceed(<<>>) /\ op # "addrr" /\ sts = {"ack"}
  <2>1. /\ op' = (IF op = "addrw" THEN "byte" ELSE IF n < Len(Written) THEN "byte"
                  ELSE IF ToRead > 0 THEN "restart" ELSE "stop")
        /\ n' = (IF op = "byte" /\ n < Len(Written) THEN n + 1 ELSE 1)
        /\ step' = "issue" /\ got' = <<>> /\ UNCHANGED <<pc, err, i>>
    BY <1>1, <1>3, <1>5, <1>8 DEF Proceed, NextOp
  <2>2. /\ Written' = Written /\ ToRead' = ToRead /\ Slave' = Slave /\ Underway' /\ ~Acked' /\ Acked
    BY <1>2, <1>8, <2>1 DEF Written, ToRead, Slave, Underway, Acked
  <2>3. ControlInv'
    <3>1. op' = "byte" => n' <= Len(Written)
      BY <1>2, <1>3, <1>8, <2>1, EmptySeq
    <3> QED BY <1>1, <1>2, <1>3, <1>4, <1>8, <2>1, <2>2, <3>1 DEF ControlInv
  <2>4. who = Slave /\ Len(heard) = (IF op = "addrw" THEN 0 ELSE n)
          /\ \A j \in 1..Len(heard) : heard[j] = Written[j]
    BY <1>1, <1>2, <1>8, <2>2, EmptySeq DEF MessageInv
  <2>5. MessageInv'
    <3>1. Len(heard) = (IF op' = "byte" THEN n' - 1 ELSE Len(Written))
      BY <1>1, <1>2, <1>3, <1>8, <2>1, <2>4
    <3> QED BY <1>3, <1>4, <2>1, <2>2, <2>4, <3>1 DEF MessageInv
  <2>6. Len(<<>>) = 0 /\ says = <<>> /\ <<>> \in Seq(Words)
    BY <1>1, <1>2, <1>8 DEF ReadInv
  <2>7. ReadInv'
    <3>1. op' = "stop" => ToRead = 0
      BY <1>2, <2>1
    <3>2. op' \in {"byte", "restart", "stop"} /\ got' = <<>> /\ says' = <<>>
      BY <1>4, <2>1, <2>6
    <3>3. op' = "stop" => GotNothing' /\ Len(got') = ToRead'
      BY <2>2, <2>6, <3>1, <3>2 DEF GotNothing
    <3> QED BY <3>2, <3>3 DEF ReadInv
  <2>8. GotFrom(Speech(Slave))'
    BY <2>1, <2>6 DEF GotFrom
  <2>9. n' \in 1..3 /\ err' \in BOOLEAN /\ ~err'
    <3>1. n < Len(Written) => n + 1 \in 1..3
      <4>1. n \in 1..3 /\ Len(Written) \in 0..3
        BY <1>2
      <4> QED BY <4>1, SmallStep
    <3> QED BY <1>2, <1>3, <2>1, <3>1 DEF TypeOK
  <2> QED BY <1>1, <2>1, <2>3, <2>5, <2>6, <2>7, <2>8, <2>9, ProceedIInv
<1> QED BY <1>3, <1>6, <1>7, <1>8 DEF Sent, NackCounts

\* A byte more; the Wait has seen nothing but the reception.
LEMMA ReceivedIInv == ASSUME IInv, Received PROVE IInv'
<1>1. Waited /\ op = "rx" /\ UNCHANGED <<state, pend, txd, rxd, pins, wire, slaves, id, buf, seen, image, job, clean>>
  BY DEF Received, locals
<1>2. /\ TypeOK /\ WireInv /\ ControlInv /\ MessageInv /\ ReadInv /\ SlaveInv /\ CleanInv
      /\ pc \in Txs /\ ~Underway /\ pend = "none" /\ got \in Seq(Words)
      /\ Slave \in {MuxAddr, IdtAddr} /\ ToRead \in {0, 1, 3} /\ n \in 1..3
  BY <1>1, WaitedFacts
<1>3. /\ sts = {"rx"} /\ Len(got) = n - 1 /\ n <= ToRead /\ ~err /\ state = "active" /\ pins
      /\ heard = <<>> /\ who \in {Nobody, Slave} /\ (driving => n < ToRead)
  BY <1>1, <1>2 DEF ControlInv, ReadInv, MessageInv
<1>4. sts' = {} /\ Proceed(<<rxd>>)
  BY <1>3 DEF Received
<1>5. UNCHANGED <<who, heard, says, driving>> /\ UNCHANGED <<mux, mem, answer>>
  BY <1>1 DEF wire, slaves
<1>6. /\ op' = (IF n < ToRead THEN "rx" ELSE "stop") /\ n' = (IF n < ToRead THEN n + 1 ELSE 1)
      /\ step' = "issue" /\ got' = got \o <<rxd>> /\ UNCHANGED <<pc, err, i>>
  BY <1>1, <1>4 DEF Proceed, NextOp
<1>7. /\ got' \in Seq(Words) /\ Len(got') = n
      /\ \A j \in 1..n : got'[j] = IF j = n THEN rxd ELSE got[j]
  <2>1. <<rxd>> \in Seq(Words) /\ Len(<<rxd>>) = 1
    BY <1>2 DEF TypeOK
  <2>2. /\ got' \in Seq(Words) /\ Len(got') = Len(got) + 1
        /\ \A j \in 1..Len(got) + 1 : got'[j] = IF j <= Len(got) THEN got[j] ELSE <<rxd>>[j - Len(got)]
    BY <1>2, <1>6, <2>1, ConcatProperties
  <2>3. Len(got) = n - 1 /\ n \in 1..3 /\ <<rxd>>[1] = rxd
    BY <1>2, <1>3
  <2>4. ASSUME NEW j \in 1..n PROVE got'[j] = IF j = n THEN rxd ELSE got[j]
    <3>1. CASE j = n
      <4>1. j \in 1..Len(got) + 1 /\ ~(j <= Len(got)) /\ j - Len(got) = 1
        BY <2>3, <3>1
      <4> QED BY <2>2, <2>3, <3>1, <4>1
    <3>2. CASE j # n
      <4>1. j \in 1..Len(got) + 1 /\ j <= Len(got)
        BY <2>3, <3>2
      <4> QED BY <2>2, <3>2, <4>1
    <3> QED BY <3>1, <3>2
  <2> QED BY <2>2, <2>3, <2>4
<1>8. /\ Written' = Written /\ ToRead' = ToRead /\ Slave' = Slave /\ Underway' /\ ~Acked'
      /\ Spoken' = n' - 1 /\ Spoken = n /\ Speech(Slave)' = Speech(Slave)
  BY <1>2, <1>5, <1>6 DEF Written, ToRead, Slave, Underway, Acked, Spoken, Speech
<1>9. n' \in 1..3 /\ (n < ToRead => n' <= ToRead)
  BY <1>2, <1>6
<1>10. ControlInv'
  BY <1>1, <1>2, <1>3, <1>4, <1>5, <1>6, <1>8, <1>9 DEF ControlInv
<1>11. MessageInv'
  <2>1. ToRead > 0 /\ Len(heard) = 0
    BY <1>2, <1>3
  <2> QED BY <1>3, <1>5, <1>6, <1>8, <2>1 DEF MessageInv
<1>12. who = Nobody => GotNothing'
  BY <1>1, <1>2, <1>3, <1>7 DEF ReadInv, GotNothing
<1>13. who # Nobody => GotFrom(Speech(Slave))'
  BY <1>1, <1>2, <1>3, <1>7, <1>8 DEF ReadInv, GotFrom
<1>14. ReadInv'
  <2>1. CASE n < ToRead
    <3>1. op' = "rx" /\ n' = n + 1 /\ Len(got') = n' - 1 /\ Spoken' = Spoken
      BY <1>2, <1>6, <1>7, <1>8, <2>1
    <3>2. who # Nobody => /\ Len(says) = ToRead - Spoken
                          /\ \A j \in 1..Len(says) : says[j] = Speech(Slave)[Spoken + j]
      BY <1>1, <1>2 DEF ReadInv
    <3> QED BY <1>5, <1>8, <1>12, <1>13, <3>1, <3>2 DEF ReadInv
  <2>2. CASE ~(n < ToRead)
    <3>1. op' = "stop" /\ Len(got') = ToRead'
      BY <1>2, <1>3, <1>6, <1>7, <1>8, <2>2
    <3> QED BY <1>12, <1>13, <3>1 DEF ReadInv
  <2> QED BY <2>1, <2>2
<1>15. clean => who = Slave
  BY <1>1, <1>2 DEF CleanInv
<1>16. Slave # Nobody /\ err' \in BOOLEAN /\ ~err' /\ Len(got') <= 3 /\ op' \in {"rx", "stop"}
  BY <1>2, <1>3, <1>6, <1>7 DEF TypeOK, MuxAddr, IdtAddr, Nobody
<1> QED BY <1>1, <1>4, <1>5, <1>6, <1>7, <1>9, <1>10, <1>11, <1>13, <1>14, <1>15, <1>16, ProceedIInv

\* The options are served in turn; whatever is not asked for any more is done.
LEMMA ServeIInv ==
  ASSUME TypeOK', WireInv', NEW t \in SUBSET job, Serve(t), job' = job, job \subseteq {"info", "eeout", "eein"},
         state' = "idle", pend' = "none", pins', who' = Nobody, sts' = {}, mux' = Mux70,
         "eeout" \in job /\ t \in {{}, {"eein"}} /\ (t = {} => "eein" \notin job) =>
           \A c \in Cells : buf'[c] = mem'[c],
         "eein" \in job /\ t = {} => \A c \in 0..Len(image') - 1 : mem'[c] = image'[c + 1]
  PROVE  IInv'
<1>1. CASE ("info" \in t /\ Call("regask", 0)) \/ ("eeout" \in t /\ Call("ask", 0))
  <2>1. PICK tx \in {"regask", "ask"} : Call(tx, 0) /\ (tx = "regask" => "info" \in t)
    BY <1>1
  <2>2. pc' = tx /\ i' = 0 /\ op' = "start"
    BY <2>1 DEF Call
  <2>3. SlaveInv'
    BY <2>1, <2>2 DEF SlaveInv, Completed
  <2>4. EeoutTrue'
    BY <2>2 DEF EeoutTrue, Files
  <2> QED BY <2>1, <2>3, <2>4, CallIInv DEF Txs
<1>2. CASE t = {"eein"} /\ Call("load", 0)
  <2>1. pc' = "load" /\ t \notin {{}}
    BY <1>2 DEF Call
  <2>2. BetweenInv'
    BY <1>2, <2>1 DEF BetweenInv
  <2>3. EeoutTrue'
    BY <1>2, <2>1 DEF EeoutTrue, Files
  <2> QED BY <2>1, <2>2, <2>3
      DEF IInv, CleanInv, EeinTrue, EndsIdle, CleanRunSucceeds, Txs, Files, Ends
<1>3. CASE t = {} /\ Call("ok", 0)
  <2>1. pc' = "ok" /\ i' = 0
    BY <1>3 DEF Call
  <2>2. EeoutTrue' /\ EeinTrue' /\ EndsIdle'
    BY <1>3, <2>1 DEF EeoutTrue, EeinTrue, EndsIdle, Files
  <2> QED BY <2>1, <2>2 DEF IInv, CleanInv, CleanRunSucceeds, Txs, Files, Ends
<1> QED BY <1>1, <1>2, <1>3 DEF Serve

LEMMA SaveIInv == ASSUME IInv, Save PROVE IInv'
<1>1. /\ TypeOK /\ WireInv /\ BetweenInv /\ EeoutTrue /\ clean \in BOOLEAN
      /\ job \subseteq {"info", "eeout", "eein"} /\ pc = "save"
  BY DEF IInv, Save, Files, TypeOK
<1>2. UNCHANGED <<controller, wire, slaves, id, buf, seen, image, job>>
  BY DEF Save, locals
<1>3. WireInv'
  BY <1>1, <1>2 DEF WireInv, controller, wire, Hearable
<1>4. CASE Serve(job \ {"info", "eeout"}) /\ clean' = clean
  <2>1. PICK tx \in Txs \cup Files \cup Ends : Call(tx, 0)
    BY <1>4 DEF Serve, Txs, Files, Ends
  <2>2. TypeOK'
    <3>1. 0 \in Cells /\ <<>> \in Seq(Words) /\ Len(<<>>) <= 3
      BY Numbers
    <3>2. /\ pc' = tx /\ op' = "start" /\ step' = "issue" /\ n' = 1 /\ got' = <<>>
          /\ err' = FALSE /\ i' = 0
      BY <2>1 DEF Call
    <3> QED BY <1>1, <1>2, <1>4, <3>1, <3>2 DEF TypeOK, controller, wire, slaves
  <2>3. "eeout" \in job => \A c \in Cells : buf[c] = mem[c]
    BY <1>1 DEF EeoutTrue, Files
  <2>4. "eein" \in job => job \ {"info", "eeout"} # {}
    OBVIOUS
  <2>5. /\ state' = "idle" /\ pend' = "none" /\ pins' /\ who' = Nobody /\ sts' = {} /\ mux' = Mux70
        /\ buf' = buf /\ mem' = mem /\ job' = job
    BY <1>1, <1>2 DEF BetweenInv, controller, wire, slaves
  <2> QED BY <1>1, <1>3, <1>4, <2>2, <2>3, <2>4, <2>5, ServeIInv
<1>5. CASE Die("nofile") /\ clean' = FALSE
  <2>0. pc' = "nofile" /\ clean' = FALSE /\ UNCHANGED <<op, step, n, got, err, i, image>>
    BY <1>2, <1>5 DEF Die
  <2>1. TypeOK'
    <3>1. UNCHANGED <<controller, wire, slaves, id, buf, seen, image, job, op, step, n, got, err, i>>
      BY <1>2, <2>0
    <3>2. TypeOK /\ pc' \in Ends /\ clean' \in BOOLEAN
      BY <1>1, <2>0 DEF Ends
    <3> QED BY <3>1, <3>2 DEF TypeOK, controller, wire, slaves
  <2>2. state' = "idle" /\ pend' = "none" /\ sts' = {}
    BY <1>1, <1>2 DEF BetweenInv, controller
  <2> QED BY <1>3, <1>5, <2>1, <2>2, EndedIInv DEF Die, Ends
<1> QED BY <1>4, <1>5 DEF Save

LEMMA LoadIInv == ASSUME IInv, Load PROVE IInv'
<1>1. /\ TypeOK /\ WireInv /\ BetweenInv /\ EeoutTrue /\ clean \in BOOLEAN
      /\ "eein" \in job /\ pc = "load"
  BY DEF IInv, Load, Files, TypeOK, BetweenInv
<1>2. UNCHANGED <<controller, wire, slaves, id, buf, seen, job>>
  BY DEF Load
<1>3. WireInv'
  BY <1>1, <1>2 DEF WireInv, controller, wire, Hearable
<1>4. /\ state' = "idle" /\ pend' = "none" /\ pins' /\ who' = Nobody /\ sts' = {} /\ mux' = Mux70
      /\ buf' = buf /\ mem' = mem /\ job' = job
  BY <1>1, <1>2 DEF BetweenInv, controller, wire, slaves
<1>5. ASSUME NEW m \in Images, image' = m, clean' = clean, Call(IF m = <<>> THEN "ok" ELSE "store", 0)
      PROVE  IInv'
  <2>1. /\ pc' = (IF m = <<>> THEN "ok" ELSE "store") /\ op' = "start" /\ step' = "issue" /\ n' = 1
        /\ got' = <<>> /\ err' = FALSE /\ i' = 0
    BY <1>5 DEF Call
  <2>2. 0 \in Cells /\ <<>> \in Seq(Words) /\ Len(<<>>) <= 3
    BY Numbers
  <2>3. TypeOK'
    BY <1>1, <1>2, <1>5, <2>1, <2>2 DEF TypeOK, controller, wire, slaves, Txs, Ends
  <2>4. m \in Seq(Vals) /\ (m # <<>> => 0 < Len(m)) /\ Len(<<>>) = 0
    BY ImagesAssumption, EmptySeq
  <2>5. CASE m = <<>>
    <3>1. EeinTrue' /\ EeoutTrue' /\ EndsIdle'
      BY <1>1, <1>4, <1>5, <2>1, <2>4, <2>5 DEF EeinTrue, EeoutTrue, EndsIdle, Files
    <3> QED BY <1>3, <2>1, <2>3, <2>5, <3>1 DEF IInv, CleanInv, CleanRunSucceeds, Txs, Files, Ends
  <2>6. CASE m # <<>>
    <3>1. Call("store", 0) /\ pc' = "store"
      BY <1>5, <2>1, <2>6
    <3>2. SlaveInv'
      BY <1>1, <1>4, <1>5, <2>1, <2>4, <2>6 DEF SlaveInv, Completed, Cells
    <3>3. EeoutTrue'
      BY <3>1 DEF EeoutTrue, Files
    <3> QED BY <1>3, <1>4, <2>3, <3>1, <3>2, <3>3, CallIInv DEF Txs
  <2> QED BY <2>5, <2>6
<1>6. CASE Die("nofile") /\ image' = image /\ clean' = FALSE
  <2>0. pc' = "nofile" /\ clean' = FALSE /\ UNCHANGED <<op, step, n, got, err, i, image>>
    BY <1>2, <1>6 DEF Die
  <2>1. TypeOK'
    <3>1. UNCHANGED <<controller, wire, slaves, id, buf, seen, image, job, op, step, n, got, err, i>>
      BY <1>2, <2>0
    <3>2. TypeOK /\ pc' \in Ends /\ clean' \in BOOLEAN
      BY <1>1, <2>0 DEF Ends
    <3> QED BY <3>1, <3>2 DEF TypeOK, controller, wire, slaves
  <2> QED BY <1>3, <1>4, <1>6, <2>1, EndedIInv DEF Die, Ends
<1> QED BY <1>5, <1>6 DEF Load

LEMMA StoppedIInv == ASSUME IInv, Stopped PROVE IInv'
<1> USE DEF Nobody
<1>1. Waited /\ op = "stop" /\ UNCHANGED <<state, pend, txd, rxd, pins, wire, slaves, id, image, job, clean>>
  BY DEF Stopped, Retries
<1>2. /\ TypeOK /\ WireInv /\ ControlInv /\ MessageInv /\ ReadInv /\ SlaveInv /\ CleanInv
      /\ pc \in Txs /\ ~Underway /\ pend = "none" /\ got \in Seq(Words)
  BY <1>1, WaitedFacts
<1>3. sts = {"stop"} /\ state = "idle" /\ who = Nobody /\ pins
  BY <1>1, <1>2 DEF ControlInv, MessageInv
<1>4. /\ sts' = {} 
      /\ \/ ~err /\ Return
         \/ err /\ pc = "get" /\ Call("retry", i) /\ buf' = buf /\ seen' = seen
         \/ err /\ pc # "get" /\ Die("nacked") /\ buf' = buf /\ seen' = seen
  BY <1>3 DEF Stopped, Retries, ClearedStatus
<1>5. i \in Cells /\ mem \in [Cells -> Vals] /\ buf \in [Cells -> Vals \cup {Floating}] /\ err \in BOOLEAN
        /\ job \in SUBSET {"info", "eeout", "eein"} /\ mux \in Channels /\ EeoutTrue /\ seen \in Words
  BY <1>2 DEF TypeOK, IInv
<1>6. UNCHANGED <<who, heard, says, driving>> /\ UNCHANGED <<mux, mem, answer>>
  BY <1>1 DEF wire, slaves
<1>7. WireInv'
  BY <1>1, <1>2, <1>6 DEF WireInv, Hearable
<1>8. ASSUME pc' \in Txs \cup Files \cup Ends, op' \in {op, "start"}, step' \in {step, "issue"}, n' \in {n, 1},
             got' \in {got, <<>>}, err' \in BOOLEAN, i' \in Cells,
             buf' \in [Cells -> Vals \cup {Floating}], seen' \in Words
      PROVE  TypeOK'
  <2>1. got' \in Seq(Words) /\ Len(got') <= 3
    <3>1. got \in Seq(Words) /\ Len(got) <= 3 /\ <<>> \in Seq(Words) /\ Len(<<>>) <= 3
      BY <1>2 DEF TypeOK
    <3> QED BY <1>8, <3>1
  <2> QED BY <1>1, <1>2, <1>4, <1>6, <1>8, <2>1 DEF TypeOK
<1>9. ASSUME NEW tx \in Txs, NEW c \in Cells, Call(tx, c), SlaveInv', EeoutTrue',
             buf' \in [Cells -> Vals \cup {Floating}], seen' \in Words
      PROVE  IInv'
  <2>1. TypeOK'
    BY <1>8, <1>9 DEF Call
  <2> QED BY <1>1, <1>2, <1>3, <1>4, <1>6, <1>7, <1>9, <2>1, CallIInv
<1>10. ASSUME NEW how \in {"nacked", "fatal", "unknown"}, Die(how), buf' = buf, seen' = seen,
              clean => how = "unknown" /\ "info" \in job /\ id \notin KnownIds
       PROVE  IInv'
  <2>1. TypeOK'
    BY <1>5, <1>8, <1>10 DEF Die, Ends
  <2> QED BY <1>1, <1>2, <1>3, <1>4, <1>7, <1>10, <2>1, EndedIInv DEF Die, Ends
<1>11. CASE err
  <2>1. CASE pc = "get"
    <3>1. Call("retry", i) /\ buf' = buf /\ seen' = seen
      BY <1>4, <1>11, <2>1
    <3>2. pc' = "retry" /\ op' = "start" /\ i' = i
      BY <3>1 DEF Call
    <3>3. SlaveInv'
      BY <1>2, <1>6, <2>1, <3>2 DEF SlaveInv, Completed
    <3>4. EeoutTrue'
      BY <1>1, <1>5, <1>6, <2>1, <3>1, <3>2 DEF EeoutTrue, Files
    <3> QED BY <1>5, <1>9, <3>1, <3>3, <3>4 DEF Txs
  <2>2. CASE pc # "get"
    BY <1>2, <1>4, <1>10, <1>11, <2>2 DEF CleanInv
  <2> QED BY <2>1, <2>2
<1>12. CASE ~err
  <2>1. /\ Len(got) = ToRead /\ (GotFrom(Speech(Slave)) \/ GotNothing)
        /\ (clean => GotFrom(Speech(Slave))) /\ Completed /\ Return
    BY <1>1, <1>2, <1>4, <1>12 DEF ReadInv, CleanInv, Completed
  <2>2. ASSUME NEW t \in SUBSET job, Serve(t), mux = Mux70, buf' = buf, seen' = seen,
               "eeout" \in job => t \notin {{}, {"eein"}} \/ (t = {} /\ "eein" \in job),
               "eein" \in job /\ t = {} => \A c \in 0..Len(image) - 1 : mem[c] = image[c + 1]
        PROVE  IInv'
    <3>1. PICK tx \in Txs \cup Files \cup Ends : Call(tx, 0)
      BY <2>2 DEF Serve, Txs, Files, Ends
    <3>2. TypeOK'
      BY <1>5, <1>8, <2>2, <3>1, Numbers DEF Call
    <3> QED BY <1>1, <1>2, <1>3, <1>4, <1>5, <1>6, <1>7, <2>2, <3>2, ServeIInv
  <2>3. CASE pc = "mux1" /\ got[1] # Mux70
    <3>1. Call("setmux", 0) /\ buf' = buf /\ seen' = seen
      BY <2>1, <2>3 DEF Return, InfoReturn, EeoutReturn
    <3>2. pc' = "setmux" /\ op' = "start"
      BY <3>1 DEF Call
    <3>3. SlaveInv' /\ EeoutTrue'
      BY <3>2 DEF SlaveInv, Completed, EeoutTrue, Files
    <3> QED BY <1>5, <1>9, <3>1, <3>3, Numbers DEF Txs
  <2>4. CASE pc = "setmux"
    <3>1. Call("mux2", 0) /\ buf' = buf /\ seen' = seen
      BY <2>1, <2>4 DEF Return, InfoReturn, EeoutReturn
    <3>2. pc' = "mux2" /\ op' = "start"
      BY <3>1 DEF Call
    <3>3. SlaveInv' /\ EeoutTrue'
      BY <1>2, <1>6, <2>1, <2>4, <3>2 DEF SlaveInv, EeoutTrue, Files
    <3> QED BY <1>5, <1>9, <3>1, <3>3, Numbers DEF Txs
  <2>5. CASE pc = "mux2" \/ (pc = "mux1" /\ got[1] = Mux70)
    <3>1. Serve(job) /\ buf' = buf /\ seen' = seen
      BY <2>1, <2>5 DEF Return, InfoReturn, EeoutReturn
    <3>2. mux = Mux70
      <4>1. CASE pc = "mux2"
        BY <1>2, <4>1 DEF SlaveInv
      <4>2. CASE pc = "mux1" /\ got[1] = Mux70
        <5>1. 1 \in 1..Len(got) /\ Speech(Slave) = <<mux>>
          BY <2>1, <4>2 DEF ToRead, Speech, Slave
        <5> QED BY <2>1, <4>2, <5>1 DEF GotFrom, GotNothing, Mux70, Floating
      <4> QED BY <2>5, <4>1, <4>2
    <3>3. ("eeout" \in job => job \notin {{}, {"eein"}}) /\ ("eein" \in job => job # {})
      OBVIOUS
    <3> QED BY <1>5, <2>2, <3>1, <3>2, <3>3
  <2>6. CASE pc \in {"regask", "stask"}
    <3>1. Call(IF pc = "regask" THEN "regget" ELSE "stget", 0) /\ buf' = buf /\ seen' = seen
      BY <2>1, <2>6 DEF Return, InfoReturn, EeoutReturn
    <3>2. pc' = (IF pc = "regask" THEN "regget" ELSE "stget") /\ op' = "start"
      BY <3>1 DEF Call
    <3>3. SlaveInv' /\ EeoutTrue'
      BY <1>1, <1>2, <1>6, <2>1, <2>6, <3>1, <3>2 DEF SlaveInv, EeoutTrue, Files
    <3> QED BY <1>5, <1>9, <2>6, <3>1, <3>3, Numbers DEF Txs
  <2>7. CASE pc \in {"regget", "stget"}
    <3> DEFINE reg == IF pc = "regget" THEN 0 ELSE BCVSTS
    <3>1. /\ mux = Mux70 /\ answer = <<RegTag, reg, Contents(reg)>> /\ "info" \in job
          /\ (pc = "stget" => seen = id)
      BY <1>2, <2>7 DEF SlaveInv, Contents, BCVSTS
    <3>2. buf' = buf
      BY <2>1, <2>7 DEF Return, InfoReturn, EeoutReturn
    <3>3. {1, 2, 3} \subseteq 1..Len(got) /\ Speech(Slave) = answer
      BY <2>1, <2>7 DEF ToRead, Speech, Slave, MuxAddr, IdtAddr
    <3>4. CASE ~RegEcho(reg)
      <4>1. Die("fatal") /\ seen' = seen
        BY <2>1, <2>7, <3>4 DEF Return, InfoReturn, EeoutReturn
      <4>2. ~clean
        BY <2>1, <3>1, <3>3, <3>4 DEF GotFrom, RegEcho
      <4> QED BY <1>10, <3>2, <4>1, <4>2
    <3>5. CASE pc = "regget" /\ RegEcho(0)
      <4>1. Call("stask", 0) /\ seen' = got[3]
        BY <2>1, <3>5 DEF Return, InfoReturn, EeoutReturn
      <4>2. GotFrom(Speech(Slave))
        BY <2>1, <3>3, <3>5 DEF GotNothing, RegEcho, RegTag, Floating
      <4>3. got[3] = id
        BY <3>1, <3>3, <3>5, <4>2 DEF GotFrom, Contents
      <4>4. pc' = "stask" /\ op' = "start"
        BY <4>1 DEF Call
      <4>5. SlaveInv' /\ EeoutTrue'
        BY <1>1, <1>6, <3>1, <4>1, <4>3, <4>4 DEF SlaveInv, EeoutTrue, Files, Completed
      <4>6. seen' \in Words
        BY <1>2, <4>1, <4>3, Numbers DEF TypeOK
      <4> QED BY <1>5, <1>9, <3>2, <4>1, <4>5, <4>6, Numbers DEF Txs
    <3>6. CASE pc = "stget" /\ RegEcho(BCVSTS)
      <4>1. seen' = seen /\ IF seen \in KnownIds THEN Serve(job \ {"info"}) ELSE Die("unknown")
        BY <2>1, <3>6 DEF Return, InfoReturn, EeoutReturn
      <4>2. CASE seen \in KnownIds
        <5>1. "eeout" \in job => job \ {"info"} \notin {{}, {"eein"}}
          OBVIOUS
        <5>2. "eein" \in job => job \ {"info"} # {}
          OBVIOUS
        <5> QED BY <1>5, <2>2, <3>1, <3>2, <4>1, <4>2, <5>1, <5>2
      <4>3. CASE seen \notin KnownIds
        BY <1>10, <3>1, <3>2, <3>6, <4>1, <4>3
      <4> QED BY <4>2, <4>3
    <3> QED BY <2>7, <3>4, <3>5, <3>6
  <2>8. CASE pc = "ask"
    <3>1. Call("get", i) /\ buf' = buf /\ seen' = seen
      BY <2>1, <2>8 DEF Return, InfoReturn, EeoutReturn
    <3>2. pc' = "get" /\ op' = "start" /\ i' = i
      BY <3>1 DEF Call
    <3>3. SlaveInv'
      BY <1>2, <1>6, <2>1, <2>8, <3>2 DEF SlaveInv
    <3>4. EeoutTrue'
      BY <1>1, <1>5, <1>6, <2>8, <3>1, <3>2 DEF EeoutTrue, Files
    <3> QED BY <1>5, <1>9, <3>1, <3>3, <3>4 DEF Txs
  <2>9. CASE pc \in {"get", "retry"}
    <3>1. /\ mux = Mux70 /\ answer = <<EeTag, i, mem[i]>>
          /\ Speech(Slave) = answer /\ {1, 2, 3} \subseteq 1..Len(got)
      BY <1>2, <2>1, <2>9 DEF SlaveInv, ToRead, Speech, Slave, MuxAddr, IdtAddr
    <3>2. GotFrom(Speech(Slave)) => got[1] = EeTag /\ got[2] = i /\ got[3] = mem[i]
      BY <3>1 DEF GotFrom
    <3>3. CASE ~Echo
      <4>1. Die("fatal") /\ buf' = buf /\ seen' = seen
        BY <2>1, <2>9, <3>3 DEF Return, InfoReturn, EeoutReturn
      <4>2. ~clean
        BY <2>1, <3>2, <3>3 DEF Echo
      <4> QED BY <1>10, <4>1, <4>2
    <3>4. CASE Echo
      <4>1. got[3] = mem[i]
        BY <2>1, <3>1, <3>2, <3>4 DEF Echo, GotNothing, EeTag, Floating
      <4>2. /\ buf' = [buf EXCEPT ![i] = mem[i]] /\ seen' = seen
            /\ IF i + 1 < Size THEN Call("ask", i + 1) ELSE Call("save", 0)
        BY <2>1, <2>9, <3>4, <4>1 DEF Return, InfoReturn, EeoutReturn, MoreCells
      <4>3. buf' \in [Cells -> Vals \cup {Floating}]
        BY <1>5, <4>2
      <4>4. "eeout" \in job => \A c \in Cells : c <= i => buf'[c] = mem[c]
        <5>1. "eeout" \in job => \A c \in 0..i - 1 : buf[c] = mem[c]
          BY <1>5, <2>9 DEF EeoutTrue
        <5> QED BY <1>5, <4>2, <5>1 DEF Cells
      <4>5. CASE i + 1 < Size
        <5>1. i + 1 \in Cells /\ pc' = "ask" /\ op' = "start" /\ i' = i + 1
          BY <1>5, <4>2, <4>5, SizeAssumption DEF Cells, Call
        <5>2. SlaveInv'
          BY <1>6, <3>1, <5>1 DEF SlaveInv, Completed
        <5>3. EeoutTrue'
          <6>1. ASSUME "eeout" \in job, NEW c \in 0..i' - 1 PROVE buf'[c] = mem'[c]
            <7>1. c \in Cells /\ c <= i
              <8>1. c \in 0..(i + 1) - 1
                BY <5>1, <6>1
              <8> QED BY <1>5, <8>1, CellsUpTo
            <7> QED BY <1>6, <4>4, <6>1, <7>1
          <6> QED BY <1>1, <5>1, <6>1 DEF EeoutTrue, Files
        <5> QED BY <1>5, <1>9, <4>2, <4>3, <4>5, <5>1, <5>2, <5>3 DEF Txs
      <4>6. CASE ~(i + 1 < Size)
        <5>1. \A c \in Cells : c <= i
          BY <1>5, <4>6, SizeAssumption DEF Cells
        <5>2. Call("save", 0) /\ pc' = "save"
          BY <4>2, <4>6 DEF Call
        <5>3. TypeOK'
          BY <1>5, <1>8, <4>2, <4>3, <5>2, Numbers DEF Call, Files
        <5>4. EeoutTrue'
          BY <1>1, <1>6, <4>4, <5>1, <5>2 DEF EeoutTrue, Files
        <5>5. BetweenInv'
          BY <1>1, <1>2, <1>3, <1>4, <1>6, <3>1, <5>2 DEF BetweenInv
        <5> QED BY <1>7, <5>2, <5>3, <5>4, <5>5
            DEF IInv, CleanInv, EeinTrue, EndsIdle, CleanRunSucceeds, Txs, Files, Ends
      <4> QED BY <4>5, <4>6
    <3> QED BY <3>3, <3>4
  <2>10. CASE pc = "store"
    <3>1. /\ mux = Mux70 /\ "eein" \in job /\ buf' = buf /\ seen' = seen
          /\ \A c \in Cells : c <= i => mem[c] = image[c + 1]
      BY <1>2, <1>5, <2>1, <2>10 DEF SlaveInv, Return, InfoReturn, EeoutReturn, Cells
    <3>2. image \in Seq(Vals) /\ Len(image) \in Nat /\ Len(image) <= Size /\ i \in Nat /\ i < Len(image)
      <4>1. <<>> \in Seq(Vals) /\ Len(<<>>) = 0 /\ 0 <= Size
        BY SizeAssumption
      <4>2. image \in Seq(Vals) /\ Len(image) <= Size
        BY <1>2, <4>1, ImagesAssumption DEF TypeOK
      <4> QED BY <1>2, <1>5, <2>10, <4>2, LenProperties DEF SlaveInv, Cells
    <3>3. CASE i + 1 < Len(image)
      <4>1. Call("store", i + 1) /\ i + 1 \in Cells
        BY <1>5, <2>1, <2>10, <3>2, <3>3, SizeAssumption DEF Return, InfoReturn, EeoutReturn, Cells
      <4>2. pc' = "store" /\ op' = "start" /\ i' = i + 1
        BY <4>1 DEF Call
      <4>3. SlaveInv'
        BY <1>1, <1>5, <1>6, <3>1, <3>3, <4>2 DEF SlaveInv, Completed, Cells
      <4>4. EeoutTrue'
        BY <4>2 DEF EeoutTrue, Files
      <4> QED BY <1>5, <1>9, <3>1, <4>1, <4>3, <4>4 DEF Txs
    <3>4. CASE ~(i + 1 < Len(image))
      <4>1. Serve({})
        BY <2>1, <2>10, <3>4 DEF Return, InfoReturn, EeoutReturn
      <4>2. \A c \in 0..Len(image) - 1 : c \in Cells /\ c <= i
        BY <1>5, <3>2, <3>4, SizeAssumption DEF Cells
      <4>3. \A c \in 0..Len(image) - 1 : mem[c] = image[c + 1]
        BY <3>1, <4>2
      <4> QED BY <1>5, <2>2, <3>1, <4>1, <4>3
    <3> QED BY <3>3, <3>4
  <2> QED BY <1>2, <2>3, <2>4, <2>5, <2>6, <2>7, <2>8, <2>9, <2>10 DEF Txs
<1> QED BY <1>11, <1>12

-----------------------------------------------------------------------------
(* The theorems                                                            *)

LEMMA NextIInv == IInv /\ [Next]_vars => IInv'
<1> SUFFICES ASSUME IInv, [Next]_vars PROVE IInv'
  OBVIOUS
<1>1. ASSUME NEW j \in SUBSET {"info", "eeout", "eein"}, Start(j) PROVE IInv'
  BY <1>1, StartIInv
<1>2. CASE Program
  BY <1>2, RecoverIInv, EnableIInv, SaveIInv, LoadIInv, IssueIInv, TimedOutIInv, StartedIInv, SentIInv, ReceivedIInv,
     StoppedIInv DEF Program
<1>3. CASE Finish
  BY <1>3, FinishIInv
<1>4. CASE Kill
  BY <1>4, KillIInv
<1>5. CASE UNCHANGED vars
  <2> USE <1>5 DEF vars, controller, wire, slaves, program, locals
  <2>1. TypeOK' /\ WireInv'
    BY DEF IInv, TypeOK, WireInv, Hearable
  <2>2. /\ Written' = Written /\ ToRead' = ToRead /\ Slave' = Slave /\ Command' = Command
        /\ Underway' = Underway /\ Acked' = Acked /\ Spoken' = Spoken /\ Completed' = Completed
        /\ Speech(Slave)' = Speech(Slave)
    BY DEF Written, ToRead, Slave, Command, RxCommand, Underway, Acked, Spoken, Completed, Speech
  <2>3. pc \in Txs => ControlInv' /\ MessageInv'
    BY <2>2 DEF IInv, ControlInv, MessageInv
  <2>4. (pc \in Txs => ReadInv' /\ SlaveInv') /\ (pc \in Files => BetweenInv')
    BY <2>2 DEF IInv, ReadInv, SlaveInv, BetweenInv, GotFrom, GotNothing
  <2>5. CleanInv'
    BY <2>2 DEF IInv, CleanInv, GotFrom
  <2>6. EeoutTrue' /\ EeinTrue' /\ EndsIdle' /\ CleanRunSucceeds'
    BY DEF IInv, EeoutTrue, EeinTrue, EndsIdle, CleanRunSucceeds
  <2> QED BY <2>1, <2>3, <2>4, <2>5, <2>6 DEF IInv
<1> QED BY <1>1, <1>2, <1>3, <1>4, <1>5 DEF Next

THEOREM MasterInvariant == Spec => []IInv
BY InitIInv, NextIInv, PTL DEF Spec

\* Program, controller, wire and slaves stay within their types: no byte is read
\* past the end of what a Tx writes, no cell outside the eeprom is addressed.
THEOREM TypeCorrect == Spec => []TypeOK
BY MasterInvariant, PTL DEF IInv

\* idtRead returns what the eeprom holds, whatever nacks went unnoticed and
\* whatever earlier runs were killed at.
THEOREM EeoutReadsTruly == Spec => []EeoutTrue
BY MasterInvariant, PTL DEF IInv

\* An -eein that ends well has written the whole image, whatever its length.
THEOREM EeinWritesImage == Spec => []EeinTrue
BY MasterInvariant, PTL DEF IInv

\* A run that ends well, at a nack, a file or an unknown chip leaves nothing to recover.
THEOREM RunEndsIdle == Spec => []EndsIdle
BY MasterInvariant, PTL DEF IInv

\* Without a slave that refuses or delays, a file that cannot be read or written, and
\* a status left from before, no run fails but that of -info on a chip it does not know.
THEOREM CleanRunsSucceed == Spec => []CleanRunSucceeds
BY MasterInvariant, PTL DEF IInv

-----------------------------------------------------------------------------
(* Why a run ends                                                          *)

OpSteps == IF step = "issue" THEN 2 ELSE 1

\* The bounds that RunShortens compares.
StepsRight ==
  /\ pc \in Ends => StepsLeft = 0
  /\ pc = "dev1" => StepsLeft = 22 * (4 * Size + 9) + 4
  /\ pc = "ready1" => StepsLeft = 22 * (4 * Size + 9) + 3
  /\ pc = "dev2" => StepsLeft = 22 * (4 * Size + 9) + 2
  /\ pc = "ready2" => StepsLeft = 22 * (4 * Size + 9) + 1
  /\ pc = "save" => StepsLeft = 22 * (Size + 1) + 1
  /\ pc = "load" => StepsLeft = 22 * Size + 1
  /\ pc \in Txs =>
       /\ StepsLeft = 22 * TxsLeft + 2 * OpsLeft + OpSteps
       /\ TxsLeft \in Nat /\ TxsLeft <= 4 * Size + 8
       /\ OpsLeft \in 0..10

LEMMA StepsAre == IInv => StepsRight
<1> SUFFICES ASSUME IInv PROVE StepsRight
  OBVIOUS
<1>1. Size \in Nat \ {0} /\ i \in Nat /\ i <= Size - 1
  BY SizeAssumption DEF IInv, TypeOK, Cells
<1>2. ASSUME pc \in Txs
      PROVE  TxsLeft \in Nat /\ TxsLeft <= 4 * Size + 8
  BY <1>1, <1>2 DEF TxsLeft, Txs
<1>3. ASSUME pc \in Txs
      PROVE  OpsLeft \in 0..10
  <2>1. Len(Written) \in 0..3 /\ ToRead \in 0..3 /\ n \in 1..3
    BY <1>3, WrittenFacts DEF IInv, TypeOK
  <2>2. (op = "byte" => n <= Len(Written)) /\ (op = "rx" => n <= ToRead)
    BY <1>3 DEF IInv, ControlInv
  <2>3. PICK w \in 0..3, r \in 0..3 : w = Len(Written) /\ r = ToRead
    BY <2>1
  <2>4. /\ op \in {"start", "addrw", "byte", "restart", "addrr", "rx", "stop"}
        /\ op = "start" => OpsLeft = w + r + 4
        /\ op = "addrw" => OpsLeft = w + r + 3
        /\ op = "byte" => OpsLeft = w - n + r + 3
        /\ op = "restart" => OpsLeft = r + 2
        /\ op = "addrr" => OpsLeft = r + 1
        /\ op = "rx" => OpsLeft = r - n + 1
        /\ op = "stop" => OpsLeft = 0
    BY <2>3 DEF OpsLeft, IInv, TypeOK
  <2>5. \A b \in 1..3 : /\ w + r + 4 \in 0..10 /\ w + r + 3 \in 0..10
                        /\ b <= w => w - b + r + 3 \in 0..10
                        /\ r + 2 \in 0..10 /\ r + 1 \in 0..10
                        /\ b <= r => r - b + 1 \in 0..10
    <3>1. w \in 0..3 /\ r \in 0..3
      BY <2>3
    <3> QED BY ONLY <3>1
  <2>6. (op = "byte" => n <= w) /\ (op = "rx" => n <= r)
    BY <2>2, <2>3
  <2> QED BY <2>1, <2>4, <2>5, <2>6
<1>4. /\ pc \in Ends => StepsLeft = 0
      /\ pc = "dev1" => StepsLeft = 22 * (4 * Size + 9) + 4
      /\ pc = "ready1" => StepsLeft = 22 * (4 * Size + 9) + 3
      /\ pc = "dev2" => StepsLeft = 22 * (4 * Size + 9) + 2
      /\ pc = "ready2" => StepsLeft = 22 * (4 * Size + 9) + 1
      /\ pc = "save" => StepsLeft = 22 * (Size + 1) + 1
      /\ pc = "load" => StepsLeft = 22 * Size + 1
      /\ pc \in Txs => StepsLeft = 22 * TxsLeft + 2 * OpsLeft + OpSteps
  BY DEF StepsLeft, TxsLeft, Ends, Txs, Files, OpSteps
<1> QED BY <1>2, <1>3, <1>4 DEF StepsRight

LEMMA StepsAreNext == IInv' => StepsRight'
BY StepsAre, PTL

Shorter == StepsLeft' >= 0 /\ StepsLeft' < StepsLeft

\* The order of the steps: first by Tx, then by operation, then by step of it.
LEMMA FewerSteps ==
  ASSUME NEW t \in Nat, NEW u \in Nat, NEW o \in 0..10, NEW q \in 0..10,
         NEW s \in {1, 2}, NEW z \in {1, 2},
         u < t \/ (u = t /\ q < o) \/ (u = t /\ q = o /\ z < s)
  PROVE  22 * u + 2 * q + z >= 0 /\ 22 * u + 2 * q + z < 22 * t + 2 * o + s
OBVIOUS

LEMMA StepsOfTx ==
  ASSUME IInv, pc \in Txs
  PROVE  /\ StepsLeft = 22 * TxsLeft + 2 * OpsLeft + OpSteps
         /\ TxsLeft \in Nat /\ TxsLeft <= 4 * Size + 8 /\ OpsLeft \in 0..10 /\ OpSteps \in {1, 2}
<1>1. OpSteps \in {1, 2}
  BY DEF OpSteps
<1> QED BY <1>1, StepsAre DEF StepsRight

LEMMA StepsOfTxNext ==
  ASSUME IInv', pc' \in Txs
  PROVE  /\ StepsLeft' = 22 * TxsLeft' + 2 * OpsLeft' + OpSteps'
         /\ TxsLeft' \in Nat /\ TxsLeft' <= 4 * Size + 8 /\ OpsLeft' \in 0..10
         /\ OpSteps' \in {1, 2}
<1>1. OpSteps' \in {1, 2}
  BY DEF OpSteps
<1>2. Txs' = Txs
  BY DEF Txs
<1> QED BY <1>1, <1>2, StepsAreNext DEF StepsRight

LEMMA EndShortens ==
  ASSUME IInv, pc \in Txs \cup Devs \cup Files, pc' \in Ends, IInv'
  PROVE  Shorter
<1>1. StepsLeft' = 0
  BY StepsAreNext DEF StepsRight
<1>2. StepsLeft \in Nat /\ StepsLeft > 0
  <2>1. CASE pc \in Txs
    <3>1. PICK t \in Nat, o \in 0..10, s \in {1, 2} : StepsLeft = 22 * t + 2 * o + s
      BY <2>1, StepsOfTx
    <3>2. 22 * t + 2 * o + s \in Nat /\ 22 * t + 2 * o + s > 0
      OBVIOUS
    <3> QED BY <3>1, <3>2
  <2>2. CASE pc \in Devs \cup Files
    BY <2>2, StepsAre, SizeAssumption DEF StepsRight, Devs, Files
  <2> QED BY <2>1, <2>2
<1> QED BY <1>1, <1>2 DEF Shorter

\* A Tx begins that comes later in a run.
LEMMA CallShortens ==
  ASSUME IInv, IInv', pc \in Txs, pc' \in Txs, TxsLeft' < TxsLeft
  PROVE  Shorter
<1>1. PICK t \in Nat, o \in 0..10, s \in {1, 2} :
        t = TxsLeft /\ o = OpsLeft /\ s = OpSteps /\ StepsLeft = 22 * t + 2 * o + s
  BY StepsOfTx
<1>2. PICK u \in Nat, q \in 0..10, z \in {1, 2} :
        u = TxsLeft' /\ q = OpsLeft' /\ z = OpSteps' /\ StepsLeft' = 22 * u + 2 * q + z
  BY StepsOfTxNext
<1>3. 22 * u + 2 * q + z >= 0 /\ 22 * u + 2 * q + z < 22 * t + 2 * o + s
  BY <1>1, <1>2, FewerSteps
<1> QED BY <1>1, <1>2, <1>3 DEF Shorter

\* An operation of the Tx is issued, or the next one is up.
LEMMA OpShortens ==
  ASSUME IInv, IInv', pc \in Txs, pc' = pc, i' = i,
         \/ step = "issue" /\ step' = "wait" /\ OpsLeft' = OpsLeft
         \/ step = "wait" /\ step' = "issue" /\ OpsLeft' < OpsLeft
  PROVE  Shorter
<1>1. TxsLeft' = TxsLeft
  BY DEF TxsLeft
<1>2. PICK t \in Nat, o \in 0..10, s \in {1, 2} :
        t = TxsLeft /\ o = OpsLeft /\ s = OpSteps /\ StepsLeft = 22 * t + 2 * o + s
  BY StepsOfTx
<1>3. PICK u \in Nat, q \in 0..10, z \in {1, 2} :
        u = TxsLeft' /\ q = OpsLeft' /\ z = OpSteps' /\ StepsLeft' = 22 * u + 2 * q + z
  BY StepsOfTxNext
<1>4. u = t
  BY <1>1, <1>2, <1>3
<1>5. q < o \/ (q = o /\ z < s)
  <2>1. step = "issue" /\ step' = "wait" => OpSteps = 2 /\ OpSteps' = 1
    BY DEF OpSteps
  <2> QED BY <1>2, <1>3, <2>1
<1>6. 22 * u + 2 * q + z >= 0 /\ 22 * u + 2 * q + z < 22 * t + 2 * o + s
  <2>1. /\ u \in Nat /\ t \in Nat /\ o \in 0..10 /\ q \in 0..10 /\ s \in {1, 2} /\ z \in {1, 2}
        /\ u < t \/ (u = t /\ q < o) \/ (u = t /\ q = o /\ z < s)
    BY <1>2, <1>3, <1>4, <1>5
  <2> QED BY ONLY <2>1, FewerSteps
<1> QED BY <1>2, <1>3, <1>6 DEF Shorter

LEMMA SameMessage ==
  ASSUME pc' = pc, i' = i
  PROVE  Written' = Written /\ ToRead' = ToRead
BY DEF Written, ToRead

LEMMA ProceedShortens ==
  ASSUME IInv, IInv', pc \in Txs, step = "wait", op # "stop", NEW data, Proceed(data)
  PROVE  Shorter
<1>1. pc' = pc /\ i' = i /\ step' = "issue" /\ op' = NextOp /\ n' = IF NextOp = op THEN n + 1 ELSE 1
  BY DEF Proceed
<1>2. Written' = Written /\ ToRead' = ToRead
  BY <1>1, SameMessage
<1>3. Len(Written) \in 0..3 /\ ToRead \in 0..3 /\ n \in 1..3
  BY WrittenFacts DEF IInv, TypeOK
<1>4. PICK w \in 0..3, r \in 0..3 : w = Len(Written) /\ r = ToRead
  BY <1>3
<1>5. op \in {"start", "addrw", "byte", "restart", "addrr", "rx"}
  BY DEF IInv, TypeOK
<1>6. /\ op = "start" /\ Written = <<>> => w = 0
      /\ op = "byte" => n <= w
      /\ op = "rx" => n <= r
      /\ op = "restart" => r > 0
  BY <1>3, <1>4 DEF IInv, ControlInv
<1>7. OpsLeft' < OpsLeft
  <2>1. CASE op = "start"
    <3>1. CASE Written # <<>>
      BY <1>1, <1>2, <1>4, <2>1, <3>1 DEF NextOp, OpsLeft
    <3>2. CASE Written = <<>>
      BY <1>1, <1>2, <1>4, <2>1, <3>2 DEF NextOp, OpsLeft
    <3> QED BY <3>1, <3>2
  <2>2. CASE op = "addrw"
    BY <1>1, <1>2, <1>4, <2>2 DEF NextOp, OpsLeft
  <2>3. CASE op = "byte"
    BY <1>1, <1>2, <1>3, <1>4, <1>6, <2>3 DEF NextOp, OpsLeft
  <2>4. CASE op = "restart"
    BY <1>1, <1>2, <1>4, <2>4 DEF NextOp, OpsLeft
  <2>5. CASE op = "addrr"
    BY <1>1, <1>2, <1>4, <2>5 DEF NextOp, OpsLeft
  <2>6. CASE op = "rx"
    BY <1>1, <1>2, <1>3, <1>4, <1>6, <2>6 DEF NextOp, OpsLeft
  <2> QED BY <1>5, <2>1, <2>2, <2>3, <2>4, <2>5, <2>6
<1> QED BY <1>1, <1>7, OpShortens
LEMMA RecoverShortens ==
  ASSUME IInv, IInv', Recover
  PROVE  Shorter
<1>1. (pc = "dev1" /\ pc' = "ready1") \/ (pc = "dev2" /\ pc' = "ready2")
  BY DEF Recover, Die
<1>2. \/ StepsLeft = 22 * (4 * Size + 9) + 4 /\ StepsLeft' = 22 * (4 * Size + 9) + 3
      \/ StepsLeft = 22 * (4 * Size + 9) + 2 /\ StepsLeft' = 22 * (4 * Size + 9) + 1
  BY <1>1, StepsAre, StepsAreNext DEF StepsRight
<1> QED BY <1>2, SizeAssumption DEF Shorter

LEMMA EnableShortens ==
  ASSUME IInv, IInv', Enable
  PROVE  Shorter
<1>1. \/ pc \in Devs /\ pc' = "fatal"
      \/ pc = "ready1" /\ pc' = "dev2"
      \/ pc = "ready2" /\ pc' = "mux1"
  BY DEF Enable, Call, Die, Devs
<1>2. CASE pc \in Devs /\ pc' = "fatal"
  BY <1>2, EndShortens DEF Ends
<1>4. CASE pc = "ready1" /\ pc' = "dev2"
  <2>1. StepsLeft = 22 * (4 * Size + 9) + 3 /\ StepsLeft' = 22 * (4 * Size + 9) + 2
    BY <1>4, StepsAre, StepsAreNext DEF StepsRight
  <2> QED BY <2>1, SizeAssumption DEF Shorter
<1>3. CASE pc = "ready2" /\ pc' = "mux1"
  <2>1. PICK u \in Nat, q \in 0..10, z \in {1, 2} :
          u <= 4 * Size + 8 /\ StepsLeft' = 22 * u + 2 * q + z
    BY <1>3, StepsOfTxNext DEF Txs
  <2>2. StepsLeft = 22 * (4 * Size + 9) + 1
    BY <1>3, StepsAre DEF StepsRight
  <2>3. 22 * u + 2 * q + z >= 0 /\ 22 * u + 2 * q + z < 22 * (4 * Size + 9) + 1
    BY <2>1, SizeAssumption
  <2> QED BY <2>1, <2>2, <2>3 DEF Shorter
<1> QED BY <1>1, <1>2, <1>3, <1>4

\* The files are written and read between two Txs.
LEMMA SaveShortens ==
  ASSUME IInv, IInv', Save
  PROVE  Shorter
<1>1. pc = "save" /\ (pc' = "load" \/ pc' \in {"ok", "nofile"})
  BY DEF Save, Serve, Call, Die
<1>2. CASE pc' = "load"
  <2>1. StepsLeft = 22 * (Size + 1) + 1 /\ StepsLeft' = 22 * Size + 1
    BY <1>1, <1>2, StepsAre, StepsAreNext DEF StepsRight
  <2> QED BY <2>1, SizeAssumption DEF Shorter
<1>3. CASE pc' \in {"ok", "nofile"}
  BY <1>1, <1>3, EndShortens DEF Ends, Files
<1> QED BY <1>1, <1>2, <1>3

LEMMA LoadShortens ==
  ASSUME IInv, IInv', Load
  PROVE  Shorter
<1>1. pc = "load" /\ ((pc' = "store" /\ i' = 0) \/ pc' \in {"ok", "nofile"})
  BY DEF Load, Call, Die
<1>2. CASE pc' = "store" /\ i' = 0
  <2>1. PICK u \in Nat, q \in 0..10, z \in {1, 2} :
          u = TxsLeft' /\ StepsLeft' = 22 * u + 2 * q + z
    BY <1>2, StepsOfTxNext DEF Txs
  <2>2. u = Size - 1
    BY <1>2, <2>1, SizeAssumption DEF TxsLeft
  <2>3. StepsLeft = 22 * Size + 1
    BY <1>1, StepsAre DEF StepsRight
  <2>4. 22 * u + 2 * q + z >= 0 /\ 22 * u + 2 * q + z < 22 * Size + 1
    BY <2>2, SizeAssumption
  <2> QED BY <2>1, <2>3, <2>4 DEF Shorter
<1>3. CASE pc' \in {"ok", "nofile"}
  BY <1>1, <1>3, EndShortens DEF Ends, Files
<1> QED BY <1>1, <1>2, <1>3

LEMMA IssueShortens ==
  ASSUME IInv, IInv', Issue
  PROVE  Shorter
<1>1. pc \in Txs
  BY DEF Issue
<1>2. CASE pc' = "fatal"
  BY <1>1, <1>2, EndShortens DEF Ends
<1>3. CASE pc' # "fatal"
  <2>1. step = "issue" /\ step' = "wait" /\ pc' = pc /\ op' = op /\ n' = n /\ i' = i
    BY <1>3 DEF Issue, Die
  <2>2. OpsLeft' = OpsLeft
    BY <2>1, SameMessage DEF OpsLeft
  <2> QED BY <1>1, <2>1, <2>2, OpShortens
<1> QED BY <1>2, <1>3

LEMMA TimedOutShortens ==
  ASSUME IInv, IInv', TimedOut
  PROVE  Shorter
<1>1. pc \in Txs /\ pc' = "fatal"
  BY DEF TimedOut, Die
<1> QED BY <1>1, EndShortens DEF Ends

LEMMA StartedShortens ==
  ASSUME IInv, IInv', Started
  PROVE  Shorter
<1>1. pc \in Txs /\ step = "wait" /\ op # "stop" /\ (Proceed(<<>>) \/ Die("fatal"))
  BY DEF Started, Waited
<1>2. CASE Proceed(<<>>)
  BY <1>1, <1>2, ProceedShortens
<1>3. CASE Die("fatal")
  BY <1>1, <1>3, EndShortens DEF Die, Ends
<1> QED BY <1>1, <1>2, <1>3

LEMMA SentShortens ==
  ASSUME IInv, IInv', Sent
  PROVE  Shorter
<1>1. /\ pc \in Txs /\ step = "wait" /\ op \in {"addrw", "byte", "addrr"}
      /\ \/ op' = "stop" /\ step' = "issue" /\ pc' = pc /\ i' = i
         \/ Proceed(<<>>) \/ Die("fatal")
  BY DEF Sent, Waited
<1>2. CASE op' = "stop" /\ step' = "issue" /\ pc' = pc /\ i' = i
  <2>1. OpsLeft' = 0
    BY <1>2 DEF OpsLeft
  <2>2. OpsLeft \in Nat /\ OpsLeft > 0
    <3>1. Len(Written) \in 0..3 /\ ToRead \in 0..3 /\ n \in 1..3
      BY <1>1, WrittenFacts DEF IInv, TypeOK
    <3>2. PICK w \in 0..3, r \in 0..3 : w = Len(Written) /\ r = ToRead
      BY <3>1
    <3>3. op = "byte" => n <= w
      BY <1>1, <3>2 DEF IInv, ControlInv
    <3>4. OpsLeft = w + r + 3 \/ (op = "byte" /\ OpsLeft = w - n + r + 3) \/ OpsLeft = r + 1
      BY <1>1, <3>2 DEF OpsLeft
    <3>5. \A b \in 1..3 : b <= w => w - b + r + 3 > 0 /\ w - b + r + 3 \in Nat
      BY <3>2
    <3>6. /\ w + r + 3 \in Nat /\ w + r + 3 > 0
          /\ r + 1 \in Nat /\ r + 1 > 0
      BY <3>2
    <3> QED BY <3>1, <3>3, <3>4, <3>5, <3>6
  <2> QED BY <1>1, <1>2, <2>1, <2>2, OpShortens
<1>3. CASE Proceed(<<>>)
  BY <1>1, <1>3, ProceedShortens
<1>4. CASE Die("fatal")
  BY <1>1, <1>4, EndShortens DEF Die, Ends
<1> QED BY <1>1, <1>2, <1>3, <1>4

LEMMA ReceivedShortens ==
  ASSUME IInv, IInv', Received
  PROVE  Shorter
<1>1. pc \in Txs /\ step = "wait" /\ op # "stop" /\ (Proceed(<<rxd>>) \/ Die("fatal"))
  BY DEF Received, Waited
<1>2. CASE Proceed(<<rxd>>)
  BY <1>1, <1>2, ProceedShortens
<1>3. CASE Die("fatal")
  BY <1>1, <1>3, EndShortens DEF Die, Ends
<1> QED BY <1>1, <1>2, <1>3

\* From a Tx to a file.
LEMMA FileShortens ==
  ASSUME IInv, IInv', pc \in Txs,
         \/ pc' = "save" /\ pc \in {"get", "retry"}
         \/ pc' = "load" /\ pc \in {"mux1", "mux2", "stget"}
  PROVE  Shorter
<1>1. Size \in Nat \ {0} /\ i \in Nat /\ i <= Size - 1
  BY SizeAssumption DEF IInv, TypeOK, Cells
<1>2. PICK t \in Nat, o \in 0..10, s \in {1, 2} : t = TxsLeft /\ StepsLeft = 22 * t + 2 * o + s
  BY StepsOfTx
<1>3. t >= Size + 2
  BY <1>1, <1>2 DEF TxsLeft
<1>4. StepsLeft' = 22 * (Size + 1) + 1 \/ StepsLeft' = 22 * Size + 1
  BY StepsAreNext DEF StepsRight
<1>5. /\ 22 * (Size + 1) + 1 < 22 * t + 2 * o + s /\ 22 * Size + 1 < 22 * t + 2 * o + s
      /\ 22 * (Size + 1) + 1 >= 0 /\ 22 * Size + 1 >= 0
  BY <1>1, <1>3
<1> QED BY <1>2, <1>4, <1>5 DEF Shorter

\* main goes on: what it has done is not in its options any more.
LEMMA ServeShortens ==
  ASSUME IInv, IInv', pc \in Txs, NEW t, Serve(t),
         \/ pc \in {"mux1", "mux2"}
         \/ pc = "stget" /\ "info" \notin t
         \/ t = {}
  PROVE  Shorter
<1>1. Size \in Nat \ {0} /\ i \in Nat /\ i <= Size - 1
  BY SizeAssumption DEF IInv, TypeOK, Cells
<1>2. CASE "info" \in t /\ Call("regask", 0)
  <2>1. pc \in {"mux1", "mux2"} /\ pc' = "regask"
    BY <1>2 DEF Call
  <2>2. TxsLeft' < TxsLeft
    BY <1>1, <2>1 DEF TxsLeft
  <2> QED BY <2>1, <2>2, CallShortens DEF Txs
<1>3. CASE "info" \notin t /\ "eeout" \in t /\ Call("ask", 0)
  <2>1. pc \in {"mux1", "mux2", "stget"} /\ pc' = "ask" /\ i' = 0
    BY <1>3 DEF Call
  <2>2. TxsLeft' < TxsLeft
    BY <1>1, <2>1 DEF TxsLeft
  <2> QED BY <2>1, <2>2, CallShortens DEF Txs
<1>4. CASE t = {"eein"} /\ Call("load", 0)
  <2>1. pc \in {"mux1", "mux2", "stget"} /\ pc' = "load"
    BY <1>4 DEF Call
  <2> QED BY <2>1, FileShortens
<1>5. CASE t = {} /\ Call("ok", 0)
  BY <1>5, EndShortens DEF Call, Ends
<1> QED BY <1>2, <1>3, <1>4, <1>5 DEF Serve

LEMMA ReturnShortens ==
  ASSUME IInv, IInv', pc \in Txs, Return
  PROVE  Shorter
<1>1. Size \in Nat \ {0} /\ i \in Nat /\ i <= Size - 1
  BY SizeAssumption DEF IInv, TypeOK, Cells
<1>2. CASE pc' \in Ends
  BY <1>2, EndShortens
<1>3. CASE \/ pc = "mux1" /\ Call("setmux", 0)
           \/ pc = "setmux" /\ Call("mux2", 0)
           \/ pc = "regask" /\ Call("regget", 0)
           \/ pc = "regget" /\ Call("stask", 0)
           \/ pc = "stask" /\ Call("stget", 0)
           \/ pc = "ask" /\ Call("get", i)
  <2>1. \/ pc = "mux1" /\ pc' = "setmux"
        \/ pc = "setmux" /\ pc' = "mux2"
        \/ pc = "regask" /\ pc' = "regget"
        \/ pc = "regget" /\ pc' = "stask"
        \/ pc = "stask" /\ pc' = "stget"
        \/ pc = "ask" /\ pc' = "get" /\ i' = i
    BY <1>3 DEF Call
  <2>2. TxsLeft' < TxsLeft
    BY <1>1, <2>1 DEF TxsLeft
  <2> QED BY <2>1, <2>2, CallShortens DEF Txs
<1>4. CASE pc \in {"mux1", "mux2"} /\ Serve(job)
  BY <1>4, ServeShortens
<1>5. CASE pc = "stget" /\ Serve(job \ {"info"})
  BY <1>5, ServeShortens
<1>6. CASE pc \in {"get", "retry"} /\ i + 1 < Size /\ Call("ask", i + 1)
  <2>1. pc' = "ask" /\ i' = i + 1
    BY <1>6 DEF Call
  <2>2. TxsLeft' = Size + 3 * (Size - 1 - (i + 1)) + 4
    BY <2>1 DEF TxsLeft
  <2>3. TxsLeft \in Int /\ TxsLeft >= Size + 3 * (Size - 1 - i) + 2
    BY <1>1, <1>6 DEF TxsLeft
  <2>4. TxsLeft' < TxsLeft
    BY <1>1, <2>2, <2>3
  <2> QED BY <2>1, <2>4, CallShortens DEF Txs
<1>7. CASE pc \in {"get", "retry"} /\ Call("save", 0)
  BY <1>7, FileShortens DEF Call
<1>8. CASE pc = "store" /\ Call("store", i + 1)
  <2>1. pc' = "store" /\ i' = i + 1
    BY <1>8 DEF Call
  <2>2. TxsLeft' = Size - 1 - (i + 1) /\ TxsLeft = Size - 1 - i
    BY <1>8, <2>1 DEF TxsLeft
  <2>3. TxsLeft' < TxsLeft
    BY <1>1, <2>2
  <2> QED BY <2>1, <2>3, CallShortens DEF Txs
<1>9. CASE pc = "store" /\ Serve({})
  BY <1>9, ServeShortens
<1>10. CASE Die("fatal") \/ Die("unknown")
  BY <1>10, <1>2 DEF Die, Ends
<1> QED BY <1>3, <1>4, <1>5, <1>6, <1>7, <1>8, <1>9, <1>10 DEF Return, InfoReturn, EeoutReturn, MoreCells

LEMMA StoppedShortens ==
  ASSUME IInv, IInv', Stopped
  PROVE  Shorter
<1>1. /\ pc \in Txs
      /\ \/ Die("fatal") \/ Return \/ (Retries /\ Call("retry", i)) \/ Die("nacked")
  BY DEF Stopped, Waited
<1>2. CASE Die("fatal") \/ Die("nacked")
  BY <1>1, <1>2, EndShortens DEF Die, Ends
<1>3. CASE Return
  BY <1>1, <1>3, ReturnShortens
<1>4. CASE Retries /\ Call("retry", i)
  <2>1. pc = "get" /\ pc' = "retry" /\ i' = i
    BY <1>4 DEF Retries, Call
  <2>2. Size \in Nat \ {0} /\ i \in Nat
    BY SizeAssumption DEF IInv, TypeOK, Cells
  <2>3. TxsLeft' < TxsLeft
    BY <2>1, <2>2 DEF TxsLeft
  <2> QED BY <1>1, <2>1, <2>3, CallShortens DEF Txs
<1> QED BY <1>1, <1>2, <1>3, <1>4

LEMMA KillShortens ==
  ASSUME IInv, IInv', Kill
  PROVE  Shorter
<1>1. pc \in Txs \cup Devs \cup Files /\ pc' \in Ends
  BY DEF Kill, Die, IInv, TypeOK, Ends
<1> QED BY <1>1, EndShortens

\* Every step of a run brings it nearer to its end, at most 22 * (4 * Size + 9) + 4 of
\* them, whatever the slaves do: so neither the retry of a read, nor a nack at any
\* byte, nor a mux that is never right, makes a loop.
THEOREM EveryStepShortens == Spec => RunShortens
<1>1. ASSUME IInv, IInv', [Next]_vars
      PROVE  [pc \notin Ends => UNCHANGED program \/ (StepsLeft' >= 0 /\ StepsLeft' < StepsLeft)]_vars
  <2> SUFFICES ASSUME Next, pc \notin Ends, ~UNCHANGED program PROVE Shorter
    BY <1>1 DEF Shorter
  <2>1. Program \/ Kill
    BY DEF Next, Start, Finish
  <2>2. CASE Program
    BY <1>1, <2>2, RecoverShortens, EnableShortens, SaveShortens, LoadShortens, IssueShortens, TimedOutShortens,
       StartedShortens, SentShortens, ReceivedShortens, StoppedShortens DEF Program
  <2>3. CASE Kill
    BY <1>1, <2>3, KillShortens
  <2> QED BY <2>1, <2>2, <2>3
<1> QED BY <1>1, MasterInvariant, PTL DEF Spec, RunShortens
=============================================================================
