------------------------------ MODULE Ps2Proofs ------------------------------
(***************************************************************************)
(* Proofs about Ps2 for every keyboard, every mouse and every bound: the   *)
(* types, how mouse_poll stays in step with the packets, that the          *)
(* modifiers follow the keys that are held, and that every step keeps the  *)
(* promise of Streams when nothing is lost.                                *)
(***************************************************************************)
EXTENDS Ps2, SeqLemmas

KbdByte == [code : Code, up : BOOLEAN]

(* TypeOK in three parts: the keyboard's, the mouse's and the controller's.*)
KbdTypes ==
  /\ held \subseteq Key
  /\ kbdQ \in Seq(KbdByte)
  /\ prefix \in BOOLEAN
  /\ down \subseteq Mod
  /\ locks \subseteq Lock
  /\ lostKbd \in BOOLEAN
  /\ presses \in 0..MaxLocks

AuxTypes ==
  /\ auxQ \in Seq(MouseByte)
  /\ packet \in Seq(MouseByte) /\ Len(packet) \in 0..2
  /\ packet # <<>> => packet[1].sync
  /\ lostAux \in Nat /\ bogus \in Nat /\ astray \in Nat

PortTypes ==
  /\ \/ out = Empty
     \/ out \in [from : {"kbd"}, byte : KbdByte]
     \/ out \in [from : {"aux"}, byte : MouseByte]
  /\ pc \in {"keyboard", "led", "answer", "value", "second", "mouse", "again"}

LEMMA TypeParts == TypeOK <=> KbdTypes /\ AuxTypes /\ PortTypes
BY DEF TypeOK, KbdTypes, AuxTypes, PortTypes, KbdByte

(* The place in its packet of the next byte mouse_poll can see.            *)
NextPos ==
  IF out.from = "aux" THEN out.byte.pos
  ELSE IF auxQ # <<>> THEN auxQ[1].pos ELSE 1

(***************************************************************************)
(* The bytes that wait are the end of the mouse's stream: each is one that *)
(* the mouse sends, one follows the other, and the last one ends a packet. *)
(***************************************************************************)
Sent == { p[i] : p \in Packet, i \in 1..3 }

FromPackets ==
  /\ \A k \in 1..Len(auxQ) : auxQ[k] \in Sent
  /\ out.from = "aux" => out.byte \in Sent

Consecutive ==
  /\ \A k \in 1..(Len(auxQ) - 1) : auxQ[k + 1].pos = (auxQ[k].pos % 3) + 1
  /\ auxQ # <<>> => auxQ[Len(auxQ)].pos = 3
  /\ out.from = "aux" =>
       IF auxQ = <<>> THEN out.byte.pos = 3 ELSE auxQ[1].pos = (out.byte.pos % 3) + 1

Stream == Consecutive /\ FromPackets

InStep == lostAux = 0 => NextPos = Len(packet) + 1

(* The inductive invariant.                                                *)
PInv == TypeOK /\ Stream /\ InStep

-----------------------------------------------------------------------------
LEMMA ScanTypes ==
  /\ Ack \in KbdByte /\ Tested \in KbdByte
  /\ PauseBytes \in Seq(KbdByte)
  /\ \A k \in Key, up \in BOOLEAN : Bytes(k, up) \in Seq(KbdByte)
<1>1. \A c \in Code, up \in BOOLEAN : Scan(c, up) \in KbdByte
  BY DEF Scan, KbdByte
<1>2. {E0, E1, ACK, SHIFT, CTRL, NUM} \subseteq Code
  BY CodeAssumption
<1>3. PauseBytes \in Seq(KbdByte)
  <2>1. ASSUME NEW a \in KbdByte, NEW b \in KbdByte, NEW c \in KbdByte,
               NEW d \in KbdByte, NEW e \in KbdByte, NEW f \in KbdByte
        PROVE  <<a, b, c, d, e, f>> \in Seq(KbdByte)
    OBVIOUS
  <2> QED BY <1>1, <1>2, <2>1 DEF PauseBytes
<1>4. ASSUME NEW k \in Key, NEW up \in BOOLEAN PROVE Bytes(k, up) \in Seq(KbdByte)
  <2>1. k.code \in Code
    BY CodeAssumption
  <2>2. \A a, b \in KbdByte : <<a>> \in Seq(KbdByte) /\ <<a, b>> \in Seq(KbdByte)
    OBVIOUS
  <2> QED BY <1>1, <1>2, <2>1, <2>2 DEF Bytes
<1> QED BY <1>1, <1>2, <1>3, <1>4 DEF Ack, Tested

(* A packet as a sequence.                                                 *)
LEMMA PacketSeq ==
  ASSUME NEW p \in Packet
  PROVE  /\ p \in Seq(MouseByte) /\ Len(p) = 3
         /\ p[1].sync /\ p[1].pos = 1 /\ p[2].pos = 2 /\ p[3].pos = 3
<1>1. p \in [1..3 -> MouseByte] /\ p[1].sync /\ \A i \in 1..3 : p[i].pos = i
  BY PacketAssumption
<1>2. p \in Seq(MouseByte) /\ Len(p) = 3
  <2>1. ASSUME NEW n \in Nat, p \in [1..n -> MouseByte]
        PROVE  p \in Seq(MouseByte) /\ Len(p) = n
    BY <2>1
  <2> QED BY <1>1, <2>1
<1> QED BY <1>1, <1>2

LEMMA InitPInv == Init => PInv
<1> SUFFICES ASSUME Init PROVE PInv
  OBVIOUS
<1>1. /\ held = {} /\ kbdQ = <<>> /\ out = Empty /\ pc = "keyboard" /\ prefix = FALSE
      /\ down = {} /\ locks = {} /\ packet = <<>> /\ lostKbd = FALSE
      /\ bogus = 0 /\ astray = 0 /\ presses = 0
  BY DEF Init
<1>0. /\ <<>> \in Seq(MouseByte) /\ <<>> \in Seq(KbdByte)
      /\ Len(<<>>) = 0
  BY EmptySeq
<1>a. KbdTypes
  <2>1. kbdQ \in Seq(KbdByte)
    BY <1>0, <1>1
  <2>2. presses \in 0..MaxLocks
    BY <1>1, BoundAssumption
  <2> QED BY <1>1, <2>1, <2>2 DEF KbdTypes
<1>2. auxQ = <<>> \/ \E p \in Packet, i \in 2..3 : auxQ = SubSeq(p, i, 3)
  BY DEF Init, LeftByInit
<1>3. CASE auxQ = <<>>
  <2>1. lostAux = 0 /\ auxQ \in Seq(MouseByte)
    BY <1>3 DEF Init
  <2>2. TypeOK
    <3>2. AuxTypes
      BY <1>0, <1>1, <2>1 DEF AuxTypes
    <3>3. PortTypes
      BY <1>1 DEF PortTypes
    <3> QED BY <1>a, <3>2, <3>3, TypeParts
  <2>3. out.from # "aux"
    BY <1>1 DEF Empty
  <2>4. Consecutive /\ FromPackets
    BY <1>3, <2>3 DEF Consecutive, FromPackets
  <2>5. InStep
    BY <1>1, <1>3, <2>3 DEF InStep, NextPos
  <2> QED BY <2>2, <2>4, <2>5 DEF PInv, Stream
<1>4. ASSUME NEW p \in Packet, NEW i \in 2..3, auxQ = SubSeq(p, i, 3) PROVE PInv
  <2>1. /\ p \in Seq(MouseByte) /\ Len(p) = 3
        /\ p[2].pos = 2 /\ p[3].pos = 3
    BY PacketSeq
  <2>2. \A k \in i..3 : p[k] \in MouseByte
    <3>1. p \in [1..3 -> MouseByte]
      BY PacketAssumption
    <3>2. \A k \in i..3 : k \in 1..3
      OBVIOUS
    <3> QED BY <3>1, <3>2
  <2>3. /\ auxQ \in Seq(MouseByte)
        /\ Len(auxQ) = 4 - i
        /\ \A k \in 1..(4 - i) : auxQ[k] = p[i + k - 1]
    <3> DEFINE q == SubSeq(p, i, 3)
    <3>1. i \in Int /\ 3 \in Int /\ i <= 3
      OBVIOUS
    <3>2. /\ q \in Seq(MouseByte)
          /\ Len(q) = IF i <= 3 THEN 3 - i + 1 ELSE 0
          /\ \A k \in 1..(3 - i + 1) : q[k] = p[i + k - 1]
      BY <2>2, <3>1, SubSeqProperties
    <3> HIDE DEF q
    <3>3. 3 - i + 1 = 4 - i
      OBVIOUS
    <3> QED BY <1>4, <3>1, <3>2, <3>3 DEF q
  <2>4. auxQ # <<>> /\ lostAux \in 1..2
    BY <2>3 DEF Init
  <2>5. TypeOK
    <3>2. AuxTypes
      BY <1>0, <1>1, <2>3, <2>4 DEF AuxTypes
    <3>3. PortTypes
      BY <1>1 DEF PortTypes
    <3> QED BY <1>a, <3>2, <3>3, TypeParts
  <2>6. out.from # "aux"
    BY <1>1 DEF Empty
  <2>7. \A k \in 1..(4 - i) : auxQ[k].pos = i + k - 1
    BY <2>1, <2>3
  <2>8. Consecutive
    BY <2>3, <2>6, <2>7 DEF Consecutive
  <2>9. FromPackets
    <3>1. \A k \in 1..(4 - i) : i + k - 1 \in 1..3
      OBVIOUS
    <3> QED BY <2>3, <2>6, <3>1 DEF FromPackets, Sent
  <2>10. InStep
    BY <2>4 DEF InStep
  <2> QED BY <2>5, <2>8, <2>9, <2>10 DEF PInv, Stream
<1> QED BY <1>2, <1>3, <1>4

-----------------------------------------------------------------------------
(***************************************************************************)
(* The types.                                                              *)
(***************************************************************************)
(* What a key does to the keyboard's part of the driver.                   *)
LEMMA HandleTypes ==
  ASSUME TypeOK, NEW b \in KbdByte, HandleByte(b)
  PROVE  /\ prefix' \in BOOLEAN /\ down' \subseteq Mod /\ locks' \subseteq Lock
         /\ pc' \in {"mouse", "led"}
<1>1. KbdTypes
  BY TypeParts
<1>2. CASE UNCHANGED <<prefix, down, locks, report>> /\ pc' = "mouse"
  BY <1>1, <1>2 DEF KbdTypes
<1>3. CASE Prefix(b)
  BY <1>1, <1>3 DEF KbdTypes, Prefix
<1>4. ASSUME NEW k, Handle(k, b.up)
      PROVE  /\ prefix' \in BOOLEAN /\ down' \subseteq Mod /\ locks' \subseteq Lock
             /\ pc' \in {"mouse", "led"}
  BY <1>1, <1>4 DEF KbdTypes, Handle, DownAfter, LocksAfter
<1> QED BY <1>2, <1>3, <1>4 DEF HandleByte

LEMMA AcknowledgeTypes ==
  ASSUME TypeOK, Acknowledge \/ UNCHANGED env
  PROVE  /\ kbdQ' \in Seq(KbdByte)
         /\ held' = held /\ auxQ' = auxQ /\ presses' = presses
<1>1. kbdQ \in Seq(KbdByte)
  BY TypeParts DEF KbdTypes
<1>2. /\ <<Ack>> \o kbdQ \in Seq(KbdByte)
      /\ Append(kbdQ, Ack) \in Seq(KbdByte)
  BY <1>1, ScanTypes
<1> QED BY <1>1, <1>2 DEF Acknowledge, env

LEMMA TakeTypes ==
  ASSUME TypeOK, TakeAnyByte \/ TimeIsUp
  PROVE  /\ lostKbd' \in BOOLEAN /\ lostAux' \in Nat
         /\ out' = Empty \/ out' = out
<1>1. lostKbd \in BOOLEAN /\ lostAux \in Nat
  BY TypeParts DEF KbdTypes, AuxTypes
<1>2. CASE TakeAnyByte
  <2>1. lostKbd' \in BOOLEAN
    BY <1>1, <1>2 DEF TakeAnyByte
  <2>2. lostAux' = lostAux + (IF out.from = "aux" THEN 1 ELSE 0) /\ out' = Empty
    BY <1>2 DEF TakeAnyByte
  <2> QED BY <1>1, <2>1, <2>2
<1>3. CASE TimeIsUp
  BY <1>1, <1>3 DEF TimeIsUp, history
<1> QED BY <1>2, <1>3

(* A byte of a packet is kept or completes it.                             *)
LEMMA CollectTypes ==
  ASSUME TypeOK, NEW b \in MouseByte, Collect(b)
  PROVE  /\ packet' \in Seq(MouseByte) /\ Len(packet') \in 0..2
         /\ packet' # <<>> => packet'[1].sync
         /\ bogus' \in Nat
<1>1. AuxTypes
  BY TypeParts
<1>2. /\ <<>> \in Seq(MouseByte)
      /\ Len(<<>>) = 0
      /\ packet # <<>> => Len(packet) >= 1
  BY <1>1, EmptySeq DEF AuxTypes
<1>3. /\ Append(packet, b) \in Seq(MouseByte)
      /\ Len(Append(packet, b)) = Len(packet) + 1
      /\ \A i \in 1..Len(packet) : Append(packet, b)[i] = packet[i]
      /\ Append(packet, b)[Len(packet) + 1] = b
  BY <1>1, AppendProperties DEF AuxTypes
<1>4. CASE packet = <<>> /\ ~b.sync
  BY <1>1, <1>4 DEF Collect, AuxTypes
<1>5. CASE ~(packet = <<>> /\ ~b.sync) /\ Len(packet) < 2
  <2>1. packet' = Append(packet, b) /\ bogus' = bogus
    BY <1>5 DEF Collect
  <2>2. Append(packet, b)[1].sync
    <3>1. CASE packet = <<>>
      BY <1>2, <1>3, <1>5, <3>1
    <3>2. CASE packet # <<>>
      BY <1>1, <1>2, <1>3, <3>2 DEF AuxTypes
    <3> QED BY <3>1, <3>2
  <2> HIDE DEF AuxTypes
  <2> QED BY <1>1, <1>3, <1>5, <2>1, <2>2 DEF AuxTypes
<1>6. CASE ~(packet = <<>> /\ ~b.sync) /\ ~(Len(packet) < 2)
  <2>1. packet' = <<>> /\ Complete(Append(packet, b))
    BY <1>6 DEF Collect
  <2>2. bogus' \in Nat
    BY <1>1, <2>1 DEF Complete, AuxTypes
  <2> QED BY <1>2, <2>1, <2>2
<1> QED BY <1>4, <1>5, <1>6

LEMMA TypesKept ==
  ASSUME TypeOK, [Next]_vars
  PROVE  TypeOK'
<1>1. KbdTypes /\ AuxTypes /\ PortTypes
  BY TypeParts
<1> SUFFICES KbdTypes' /\ AuxTypes' /\ PortTypes'
  BY DEF TypeOK, KbdTypes, AuxTypes, PortTypes, KbdByte
<1>2. ASSUME NEW bytes \in Seq(KbdByte), Type(bytes), held' \subseteq Key,
             presses' \in 0..MaxLocks
      PROVE  KbdTypes' /\ AuxTypes' /\ PortTypes'
  <2>1. kbdQ' \in Seq(KbdByte)
    BY <1>1, <1>2, ConcatProperties DEF Type, KbdTypes
  <2> QED
    BY <1>1, <1>2, <2>1
       DEF Type, KbdTypes, AuxTypes, PortTypes, driver, history
<1>3. ASSUME NEW k \in Key, KeyDown(k) PROVE KbdTypes' /\ AuxTypes' /\ PortTypes'
  <2>1. Bytes(k, FALSE) \in Seq(KbdByte)
    BY ScanTypes
  <2>2. held' \subseteq Key /\ Type(Bytes(k, FALSE))
    BY <1>1, <1>3 DEF KeyDown, KbdTypes
  <2>3. presses' \in 0..MaxLocks
    BY <1>1, <1>3, BoundAssumption DEF KeyDown, KbdTypes
  <2> QED BY <1>2, <2>1, <2>2, <2>3
<1>4. ASSUME NEW k \in Key, KeyUp(k) PROVE KbdTypes' /\ AuxTypes' /\ PortTypes'
  <2>1. Bytes(k, TRUE) \in Seq(KbdByte)
    BY ScanTypes
  <2>2. held' \subseteq Key /\ Type(Bytes(k, TRUE)) /\ presses' \in 0..MaxLocks
    BY <1>1, <1>4 DEF KeyUp, KbdTypes
  <2> QED BY <1>2, <2>1, <2>2
<1>5. CASE Pause
  <2>1. PauseBytes \in Seq(KbdByte)
    BY ScanTypes
  <2>2. held' \subseteq Key /\ Type(PauseBytes)
    BY <1>1, <1>5 DEF Pause, KbdTypes
  <2>3. presses' \in 0..MaxLocks
    BY <1>1, <1>5, BoundAssumption DEF Pause, KbdTypes
  <2> QED BY <1>2, <2>1, <2>2, <2>3
<1>6. ASSUME NEW p \in Packet, MoveMouse(p) PROVE KbdTypes' /\ AuxTypes' /\ PortTypes'
  <2>1. p \in Seq(MouseByte)
    BY PacketSeq
  <2>2. auxQ' \in Seq(MouseByte)
    BY <1>1, <1>6, <2>1, ConcatProperties DEF MoveMouse, AuxTypes
  <2> QED
    BY <1>1, <1>6, <2>2 DEF MoveMouse, KbdTypes, AuxTypes, PortTypes, driver, history
<1>7. CASE ShiftKbd
  <2>1. Head(kbdQ) \in KbdByte /\ Tail(kbdQ) \in Seq(KbdByte)
    BY <1>1, <1>7, HeadTailProperties DEF ShiftKbd, KbdTypes
  <2> QED
    BY <1>1, <1>7, <2>1
       DEF ShiftKbd, KbdTypes, AuxTypes, PortTypes, driver, history
<1>8. CASE ShiftAux
  <2>1. Head(auxQ) \in MouseByte /\ Tail(auxQ) \in Seq(MouseByte)
    BY <1>1, <1>8, HeadTailProperties DEF ShiftAux, AuxTypes
  <2> QED
    BY <1>1, <1>8, <2>1
       DEF ShiftAux, KbdTypes, AuxTypes, PortTypes, driver, history
<1>9. CASE PollKey
  <2>1. /\ UNCHANGED <<env, history, packet, bogus, astray>>
        /\ \/ out.from = "kbd" /\ HandleByte(out.byte) /\ out' = Empty
           \/ pc' = "mouse" /\ UNCHANGED <<prefix, down, locks, report, out>>
    BY <1>9 DEF PollKey
  <2>2. /\ prefix' \in BOOLEAN /\ down' \subseteq Mod /\ locks' \subseteq Lock
        /\ pc' \in {"mouse", "led"} /\ out' \in {out, Empty}
    <3>1. CASE out.from = "kbd" /\ HandleByte(out.byte) /\ out' = Empty
      <4>1. out.byte \in KbdByte
        BY <1>1, <3>1 DEF PortTypes, Empty
      <4> QED BY <3>1, <4>1, HandleTypes
    <3>2. CASE pc' = "mouse" /\ UNCHANGED <<prefix, down, locks, report, out>>
      BY <1>1, <3>2 DEF KbdTypes
    <3> QED BY <2>1, <3>1, <3>2
  <2> QED
    BY <1>1, <2>1, <2>2 DEF KbdTypes, AuxTypes, PortTypes, env, history
<1>10. CASE SendLedCommand \/ SendLedValue
  <2>1. /\ Acknowledge \/ UNCHANGED env
        /\ UNCHANGED <<driver, history, out>>
        /\ pc' \in {"answer", "mouse", "second"}
    BY <1>10 DEF SendLedCommand, SendLedValue
  <2>2. /\ kbdQ' \in Seq(KbdByte)
        /\ held' = held /\ auxQ' = auxQ /\ presses' = presses
    BY <2>1, AcknowledgeTypes
  <2> QED
    BY <1>1, <2>1, <2>2 DEF KbdTypes, AuxTypes, PortTypes, driver, history
<1>11. CASE AwaitAnswer \/ AwaitSecond
  <2>1. /\ TakeAnyByte \/ TimeIsUp
        /\ UNCHANGED <<env, driver>>
        /\ pc' \in {"value", "mouse"}
    BY <1>11 DEF AwaitAnswer, AwaitSecond
  <2>2. lostKbd' \in BOOLEAN /\ lostAux' \in Nat /\ out' \in {out, Empty}
    BY <2>1, TakeTypes
  <2> QED
    BY <1>1, <2>1, <2>2 DEF KbdTypes, AuxTypes, PortTypes, env, driver
<1>12. CASE PollMouse \/ PollMouseAgain
  <2>1. Poll /\ pc' \in {"again", "keyboard"}
    BY <1>12 DEF PollMouse, PollMouseAgain
  <2>2. /\ packet' \in Seq(MouseByte) /\ Len(packet') \in 0..2
        /\ packet' # <<>> => packet'[1].sync
        /\ bogus' \in Nat /\ astray' \in Nat
        /\ out' \in {out, Empty}
    <3>1. CASE /\ out.from = "aux" /\ Collect(out.byte) /\ out' = Empty
               /\ astray' = astray + IF GoesAstray(out.byte) THEN 1 ELSE 0
      <4>1. out.byte \in MouseByte
        BY <1>1, <3>1 DEF PortTypes, Empty
      <4>2. astray' \in Nat
        BY <1>1, <3>1 DEF AuxTypes
      <4> QED BY <3>1, <4>1, <4>2, CollectTypes
    <3>2. CASE UNCHANGED <<packet, report, bogus, astray, out>>
      BY <1>1, <3>2 DEF AuxTypes
    <3> QED BY <2>1, <3>1, <3>2 DEF Poll
  <2>3. UNCHANGED <<env, history, prefix, down, locks>>
    BY <2>1 DEF Poll
  <2> QED
    BY <1>1, <2>1, <2>2, <2>3 DEF KbdTypes, AuxTypes, PortTypes, env, history
<1>13. CASE UNCHANGED vars
  BY <1>1, <1>13
     DEF vars, env, driver, history, KbdTypes, AuxTypes, PortTypes
<1> QED
  BY <1>3, <1>4, <1>5, <1>6, <1>7, <1>8, <1>9, <1>10, <1>11, <1>12, <1>13 DEF Next

-----------------------------------------------------------------------------
(***************************************************************************)
(* What a step does to the bytes of the mouse: nothing that mouse_poll can *)
(* see, or the next byte is lost in an LED update or collected.            *)
(***************************************************************************)
Untouched ==
  NextPos' = NextPos /\ UNCHANGED <<packet, lostAux, bogus, astray>>

Lost ==
  /\ out.from = "aux" /\ NextPos' = (NextPos % 3) + 1
  /\ lostAux' = lostAux + 1 /\ UNCHANGED <<packet, bogus, astray>>

Collected ==
  /\ out.from = "aux" /\ NextPos' = (NextPos % 3) + 1
  /\ Collect(out.byte) /\ UNCHANGED lostAux
  /\ astray' = astray + IF GoesAstray(out.byte) THEN 1 ELSE 0

(* Everything that leaves the bytes of the mouse where they are.           *)
LEMMA Elsewhere ==
  ASSUME Stream, UNCHANGED <<auxQ, packet, lostAux, bogus, astray>>,
         out' = out \/ (out.from # "aux" /\ out'.from # "aux")
  PROVE  Stream' /\ Untouched
<1>1. UNCHANGED <<packet, lostAux, bogus, astray>>
  OBVIOUS
<1>2. auxQ' = auxQ
  OBVIOUS
<1>3. CASE out' = out
  BY <1>1, <1>2, <1>3 DEF Stream, Consecutive, FromPackets, Untouched, NextPos
<1>4. CASE out.from # "aux" /\ out'.from # "aux"
  BY <1>1, <1>2, <1>4 DEF Stream, Consecutive, FromPackets, Untouched, NextPos
<1> QED BY <1>3, <1>4

(* The next byte leaves the controller.                                    *)
LEMMA Taken ==
  ASSUME TypeOK, Stream, out.from = "aux", out' = Empty, auxQ' = auxQ
  PROVE  Stream' /\ NextPos' = (NextPos % 3) + 1
<1>1. out'.from # "aux"
  BY DEF Empty
<1>2. Stream'
  BY <1>1 DEF Stream, Consecutive, FromPackets
<1>3. out.byte.pos = 3 => (out.byte.pos % 3) + 1 = 1
  OBVIOUS
<1>4. NextPos' = (NextPos % 3) + 1
  BY <1>1, <1>3 DEF Stream, Consecutive, NextPos
<1> QED BY <1>2, <1>4

LEMMA AuxSteps ==
  ASSUME TypeOK, Stream, [Next]_vars
  PROVE  Stream' /\ (Untouched \/ Lost \/ Collected)
<1>1. auxQ \in Seq(MouseByte) /\ PortTypes
  BY TypeParts DEF AuxTypes
<1>2. CASE UNCHANGED <<auxQ, driver, history, out>>
  BY <1>2, Elsewhere DEF driver, history
<1>3. ASSUME NEW p \in Packet, MoveMouse(p) PROVE Stream' /\ Untouched
  <2>1. /\ p \in Seq(MouseByte) /\ Len(p) = 3
        /\ p[1].pos = 1 /\ p[2].pos = 2 /\ p[3].pos = 3
    BY PacketSeq
  <2>2. auxQ' = auxQ \o p /\ UNCHANGED <<out, packet, lostAux, bogus, astray>>
    BY <1>3 DEF MoveMouse, driver, history
  <2> DEFINE n == Len(auxQ)
             q == auxQ \o p
  <2>3. /\ n \in Nat /\ q \in Seq(MouseByte) /\ Len(q) = n + 3
        /\ \A i \in 1..(n + 3) : q[i] = IF i <= n THEN auxQ[i] ELSE p[i - n]
    <3>1. /\ q \in Seq(MouseByte)
          /\ Len(q) = n + Len(p)
          /\ \A i \in 1..(n + Len(p)) : q[i] = IF i <= n THEN auxQ[i] ELSE p[i - n]
      BY <1>1, <2>1, ConcatProperties
    <3> QED BY <1>1, <2>1, <3>1
  <2> HIDE DEF q
  <2>4. q[n + 1].pos = 1 /\ q[n + 2].pos = 2 /\ q[n + 3].pos = 3 /\ q # <<>>
    <3>1. \A j \in {1, 2, 3} : n + j \in 1..(n + 3) /\ ~(n + j <= n) /\ n + j - n = j
      BY <2>3
    <3>2. \A j \in {1, 2, 3} : q[n + j] = p[j]
      BY <2>3, <3>1
    <3>3. Len(q) # 0
      BY <2>3
    <3> QED BY <2>1, <2>3, <3>2, <3>3
  <2>5. /\ \A i \in 1..n : q[i] = auxQ[i]
        /\ auxQ # <<>> => n >= 1 /\ auxQ[n].pos = 3
    BY <1>1, <2>3 DEF Stream, Consecutive
  <2>6. ASSUME NEW k \in 1..(n + 2) PROVE q[k + 1].pos = (q[k].pos % 3) + 1
    <3>1. CASE k < n
      BY <2>3, <2>5, <3>1 DEF Stream, Consecutive
    <3>2. CASE k = n
      BY <1>1, <2>4, <2>5, <3>2
    <3>3. CASE k = n + 1 \/ k = n + 2
      BY <2>3, <2>4, <3>3
    <3> QED BY <2>3, <3>1, <3>2, <3>3
  <2>7. ASSUME NEW k \in 1..(n + 3) PROVE q[k] \in Sent
    <3>1. CASE k <= n
      BY <2>3, <3>1 DEF Stream, FromPackets
    <3>2. CASE k > n
      <4>1. k - n \in 1..3 /\ q[k] = p[k - n]
        BY <2>3, <3>2
      <4> QED BY <4>1 DEF Sent
    <3> QED BY <2>3, <3>1, <3>2
  <2>8. IF auxQ = <<>> THEN q[1].pos = 1 ELSE q[1] = auxQ[1]
    <3>1. CASE auxQ = <<>>
      BY <2>3, <2>4, <3>1, EmptySeq
    <3>2. CASE auxQ # <<>>
      BY <2>3, <2>5, <3>2
    <3> QED BY <3>1, <3>2
  <2>9. out'.from = out.from /\ out'.byte = out.byte /\ auxQ' = q
    BY <2>2 DEF q
  <2>10. FromPackets'
    BY <2>3, <2>7, <2>9 DEF Stream, FromPackets
  <2>11. Consecutive'
    <3>1. out.from = "aux" => q[1].pos = (out.byte.pos % 3) + 1
      BY <2>8 DEF Stream, Consecutive
    <3>2. Len(q) - 1 = n + 2
      BY <2>3
    <3> QED BY <2>3, <2>4, <2>6, <2>9, <3>1, <3>2 DEF Consecutive
  <2>12. NextPos' = NextPos
    BY <2>4, <2>8, <2>9 DEF NextPos
  <2> QED BY <2>2, <2>10, <2>11, <2>12 DEF Stream, Untouched
<1>4. CASE ShiftKbd
  BY <1>4, Elsewhere DEF ShiftKbd, driver, history, Empty
<1>5. CASE ShiftAux
  <2>1. /\ out.from # "aux" /\ auxQ # <<>>
        /\ out'.from = "aux" /\ out'.byte = auxQ[1] /\ auxQ' = Tail(auxQ)
        /\ UNCHANGED <<packet, lostAux, bogus, astray>>
    BY <1>5 DEF ShiftAux, driver, history, Empty
  <2>2. /\ Len(auxQ) \in Nat /\ Len(auxQ) >= 1
        /\ Tail(auxQ) \in Seq(MouseByte) /\ Len(Tail(auxQ)) = Len(auxQ) - 1
        /\ \A i \in 1..(Len(auxQ) - 1) : Tail(auxQ)[i] = auxQ[i + 1]
    BY <1>1, <2>1, HeadTailProperties
  <2>3. Tail(auxQ) = <<>> <=> Len(auxQ) = 1
    BY <2>2, EmptySeq
  <2> DEFINE q == Tail(auxQ)
  <2> HIDE DEF q
  <2>4. FromPackets'
    BY <2>1, <2>2 DEF Stream, FromPackets
  <2>5. Consecutive'
    BY <2>1, <2>2, <2>3 DEF Stream, Consecutive
  <2>6. NextPos' = NextPos
    BY <2>1 DEF NextPos
  <2> QED BY <2>1, <2>4, <2>5, <2>6 DEF Stream, Untouched
<1>6. CASE PollKey
  <2>1. /\ UNCHANGED <<auxQ, packet, lostAux, bogus, astray>>
        /\ out' = out \/ (out.from = "kbd" /\ out' = Empty)
    BY <1>6 DEF PollKey, env, history
  <2> QED BY <2>1, Elsewhere DEF Empty
<1>7. CASE SendLedCommand \/ SendLedValue
  <2>1. UNCHANGED <<auxQ, driver, history, out>>
    BY <1>7, AcknowledgeTypes DEF SendLedCommand, SendLedValue
  <2> QED BY <1>2, <2>1
<1>8. CASE AwaitAnswer \/ AwaitSecond
  <2>1. (TakeAnyByte \/ TimeIsUp) /\ UNCHANGED <<env, driver>>
    BY <1>8 DEF AwaitAnswer, AwaitSecond
  <2>2. UNCHANGED <<auxQ, packet, bogus, astray>>
    BY <2>1 DEF env, driver
  <2>3. CASE TimeIsUp
    BY <1>2, <2>1, <2>2, <2>3 DEF TimeIsUp
  <2>4. CASE TakeAnyByte /\ out.from = "aux"
    <3>1. out' = Empty /\ lostAux' = lostAux + 1
      BY <2>4 DEF TakeAnyByte
    <3> QED BY <2>2, <2>4, <3>1, Taken DEF Lost
  <2>5. CASE TakeAnyByte /\ out.from # "aux"
    <3>1. lostAux \in Nat
      BY TypeParts DEF AuxTypes
    <3>2. out' = Empty /\ lostAux' = lostAux
      BY <2>5, <3>1 DEF TakeAnyByte
    <3> QED BY <2>2, <2>5, <3>2, Elsewhere DEF Empty
  <2> QED BY <2>1, <2>3, <2>4, <2>5
<1>9. CASE PollMouse \/ PollMouseAgain
  <2>1. Poll
    BY <1>9 DEF PollMouse, PollMouseAgain
  <2>2. CASE out.from = "aux"
    BY <2>1, <2>2, Taken DEF Poll, env, history, Collected
  <2>3. CASE out.from # "aux"
    BY <2>1, <2>3, Elsewhere DEF Poll, env, history
  <2> QED BY <2>2, <2>3
<1>10. ASSUME NEW bytes, Type(bytes) PROVE Stream' /\ Untouched
  <2>1. UNCHANGED <<auxQ, driver, history, out>>
    BY <1>10 DEF Type
  <2>2. UNCHANGED <<auxQ, packet, lostAux, bogus, astray>> /\ out' = out
    BY <2>1 DEF driver, history
  <2> QED BY <2>2, Elsewhere
<1> QED
  BY <1>2, <1>3, <1>4, <1>5, <1>6, <1>7, <1>8, <1>9, <1>10
     DEF Next, vars, env, KeyDown, KeyUp, Pause

-----------------------------------------------------------------------------
(***************************************************************************)
(* mouse_poll stays in step while it sees every byte.                      *)
(***************************************************************************)
(* What has been collected of a packet once byte b is there.               *)
LEMMA CollectCases ==
  ASSUME TypeOK, NEW b \in MouseByte, Collect(b)
  PROVE  \/ /\ packet = <<>> /\ ~b.sync
            /\ UNCHANGED <<packet, bogus>>
         \/ /\ packet = <<>> => b.sync
            /\ Len(packet) < 2 /\ packet' = Append(packet, b) /\ bogus' = bogus
         \/ /\ Len(packet) = 2 /\ packet' = <<>>
            /\ bogus' \in {bogus, bogus + 1}
            /\ (\A i \in 1..2 : packet[i].pos = i) /\ b.pos = 3 => bogus' = bogus
<1>1. packet \in Seq(MouseByte) /\ Len(packet) \in 0..2 /\ bogus \in Nat
  BY TypeParts DEF AuxTypes
<1>2. CASE packet = <<>> /\ ~b.sync
  BY <1>2 DEF Collect
<1>3. CASE ~(packet = <<>> /\ ~b.sync) /\ Len(packet) < 2
  <2>1. packet = <<>> => b.sync
    BY <1>3 DEF MouseByte
  <2> QED BY <1>3, <2>1 DEF Collect
<1>4. CASE ~(packet = <<>> /\ ~b.sync) /\ ~(Len(packet) < 2)
  <2> DEFINE full == Append(packet, b)
  <2>1. packet' = <<>> /\ Complete(full) /\ Len(packet) = 2
    <3>1. Len(packet) = 2
      BY <1>1, <1>4
    <3> QED BY <1>4, <3>1 DEF Collect
  <2>2. full[1] = packet[1] /\ full[2] = packet[2] /\ full[3] = b
    <3>1. /\ \A i \in 1..Len(packet) : full[i] = packet[i]
          /\ full[Len(packet) + 1] = b
      BY <1>1, AppendProperties
    <3> QED BY <2>1, <3>1
  <2> HIDE DEF full
  <2>3. bogus' \in {bogus, bogus + 1}
    BY <1>1, <2>1 DEF Complete
  <2>4. ASSUME \A i \in 1..2 : packet[i].pos = i, b.pos = 3 PROVE bogus' = bogus
    <3>1. \A i \in 1..3 : full[i].pos = i
      BY <2>2, <2>4
    <3> QED BY <1>1, <2>1, <3>1 DEF Complete
  <2> QED BY <2>1, <2>3, <2>4
<1> QED BY <1>2, <1>3, <1>4

(* The next byte, when it is in the controller.                            *)
LEMMA NextByte ==
  ASSUME TypeOK, Stream, out.from = "aux"
  PROVE  /\ out.byte \in MouseByte /\ NextPos = out.byte.pos /\ NextPos \in 1..3
         /\ out.byte.pos = 1 => out.byte.sync
         /\ \E p \in Packet, i \in 1..3 : out.byte = p[i] /\ out.byte.pos = i
<1>1. out.byte \in MouseByte
  BY TypeParts DEF PortTypes, Empty
<1>2. out.byte \in Sent
  BY DEF Stream, FromPackets
<1>3. PICK p \in Packet, i \in 1..3 : out.byte = p[i]
  BY <1>2 DEF Sent
<1>4. p[i].pos = i /\ p[1].sync
  BY PacketAssumption
<1> QED BY <1>1, <1>3, <1>4 DEF NextPos, MouseByte

LEMMA NextPInv ==
  ASSUME PInv, [Next]_vars
  PROVE  PInv'
<1>1. TypeOK /\ Stream /\ InStep /\ TypeOK'
  BY TypesKept DEF PInv
<1>2. Stream' /\ (Untouched \/ Lost \/ Collected)
  BY <1>1, AuxSteps
<1>3. packet \in Seq(MouseByte) /\ Len(packet) \in 0..2 /\ lostAux \in Nat
  BY <1>1, TypeParts DEF AuxTypes
<1>4. CASE Untouched
  <2>1. NextPos' = NextPos /\ packet' = packet /\ lostAux' = lostAux
    BY <1>4 DEF Untouched
  <2>2. InStep'
    BY <1>1, <2>1 DEF InStep
  <2> QED BY <1>1, <1>2, <2>2 DEF PInv
<1>5. CASE Lost
  <2>1. InStep'
    BY <1>3, <1>5 DEF Lost, InStep
  <2> QED BY <1>1, <1>2, <2>1 DEF PInv
<1>6. CASE Collected
  <2> DEFINE b == out.byte
  <2>1. /\ out.from = "aux" /\ NextPos' = (NextPos % 3) + 1
        /\ Collect(b) /\ lostAux' = lostAux
    BY <1>6 DEF Collected
  <2>2. b \in MouseByte /\ NextPos = b.pos /\ (b.pos = 1 => b.sync)
    BY <1>1, <2>1, NextByte
  <2> HIDE DEF b
  <2>3. ASSUME lostAux = 0 PROVE NextPos' = Len(packet') + 1
    <3>1. NextPos = Len(packet) + 1
      BY <1>1, <2>3 DEF InStep
    <3>2. CASE packet = <<>> /\ ~b.sync
      BY <2>2, <3>1, <3>2, EmptySeq
    <3>3. CASE Len(packet) < 2 /\ packet' = Append(packet, b)
      <4>1. Len(packet') = Len(packet) + 1
        BY <1>3, <2>2, <3>3, AppendProperties
      <4> QED BY <1>3, <2>1, <3>1, <3>3, <4>1
    <3>4. CASE Len(packet) = 2 /\ packet' = <<>>
      BY <2>1, <3>1, <3>4, EmptySeq
    <3> QED BY <1>1, <2>1, <2>2, <3>2, <3>3, <3>4, CollectCases
  <2> QED BY <1>1, <1>2, <2>1, <2>3 DEF PInv, InStep
<1> QED BY <1>2, <1>4, <1>5, <1>6

(***************************************************************************)
(* A packet that is put together wrongly is owed by a byte that was lost   *)
(* in the middle of it, or by the byte it was begun with.                  *)
(***************************************************************************)
Spoiled ==
  /\ packet # <<>>
  /\ ~(NextPos = Len(packet) + 1 /\ \A i \in 1..Len(packet) : packet[i].pos = i)

DebtsArePaid == bogus + (IF Spoiled THEN 1 ELSE 0) <= lostAux + astray

(* While no byte is lost none is taken for a first one that is not.        *)
NeverAstray == lostAux = 0 => astray = 0

LEMMA NextDebts ==
  ASSUME PInv, DebtsArePaid, [Next]_vars
  PROVE  DebtsArePaid'
<1>1. TypeOK /\ Stream
  BY DEF PInv
<1>2. Untouched \/ Lost \/ Collected
  BY <1>1, AuxSteps
<1>3. /\ packet \in Seq(MouseByte) /\ Len(packet) \in 0..2
      /\ lostAux \in Nat /\ bogus \in Nat /\ astray \in Nat
  BY <1>1, TypeParts DEF AuxTypes
<1>4. CASE Untouched
  <2>1. /\ NextPos' = NextPos /\ packet' = packet
        /\ lostAux' = lostAux /\ bogus' = bogus /\ astray' = astray
    BY <1>4 DEF Untouched
  <2>2. Spoiled' <=> Spoiled
    BY <2>1 DEF Spoiled
  <2> QED BY <2>1, <2>2 DEF DebtsArePaid
<1>5. CASE Lost
  <2>1. /\ packet' = packet /\ lostAux' = lostAux + 1
        /\ bogus' = bogus /\ astray' = astray
    BY <1>5 DEF Lost
  <2>2. bogus <= lostAux + astray
    BY <1>3 DEF DebtsArePaid
  <2> QED BY <1>3, <2>1, <2>2 DEF DebtsArePaid
<1>6. CASE Collected
  <2> DEFINE b == out.byte
  <2>1. /\ out.from = "aux" /\ NextPos' = (NextPos % 3) + 1
        /\ Collect(b) /\ lostAux' = lostAux
        /\ astray' = astray + IF GoesAstray(b) THEN 1 ELSE 0
    BY <1>6 DEF Collected
  <2>2. b \in MouseByte /\ NextPos = b.pos /\ NextPos \in 1..3
    BY <1>1, <2>1, NextByte
  <2> HIDE DEF b
  <2>3. astray' \in Nat /\ astray' >= astray
    BY <1>3, <2>1
  <2>4. CASE UNCHANGED <<packet, bogus>> /\ packet = <<>>
    <3>1. ~Spoiled' /\ bogus' = bogus
      BY <2>4 DEF Spoiled
    <3> QED BY <1>3, <2>1, <2>3, <3>1 DEF DebtsArePaid
  <2>5. CASE /\ packet = <<>> => b.sync
             /\ Len(packet) < 2 /\ packet' = Append(packet, b) /\ bogus' = bogus
    <3>1. /\ Len(packet') = Len(packet) + 1
          /\ \A i \in 1..Len(packet) : packet'[i] = packet[i]
          /\ packet'[Len(packet) + 1] = b
      BY <1>3, <2>2, <2>5, AppendProperties
    <3>2. ASSUME ~Spoiled, b.pos = Len(packet) + 1 PROVE ~Spoiled'
      <4>2. \A i \in 1..Len(packet) : packet[i].pos = i
        BY <1>3, <3>2, EmptySeq DEF Spoiled
      <4>3. \A i \in 1..Len(packet') : packet'[i].pos = i
        BY <1>3, <3>1, <3>2, <4>2
      <4>4. NextPos' = Len(packet') + 1
        BY <1>3, <2>1, <2>2, <2>5, <3>1, <3>2
      <4> QED BY <4>3, <4>4 DEF Spoiled
    <3>3. CASE packet = <<>>
      <4>1. ~Spoiled /\ Len(packet) = 0
        BY <3>3, EmptySeq DEF Spoiled
      <4>2. CASE b.pos = 1
        BY <1>3, <2>1, <2>3, <2>5, <3>2, <4>1, <4>2 DEF DebtsArePaid
      <4>3. CASE b.pos # 1
        <5>1. astray' = astray + 1
          BY <2>1, <2>5, <3>3, <4>3 DEF GoesAstray
        <5> QED BY <1>3, <2>1, <2>5, <4>1, <5>1 DEF DebtsArePaid
      <4> QED BY <4>2, <4>3
    <3>4. CASE packet # <<>>
      <4>1. ~Spoiled => b.pos = Len(packet) + 1
        BY <2>2, <3>4 DEF Spoiled
      <4> QED BY <1>3, <2>1, <2>3, <2>5, <3>2, <4>1 DEF DebtsArePaid
    <3> QED BY <3>3, <3>4
  <2>6. CASE /\ Len(packet) = 2 /\ packet' = <<>>
             /\ bogus' \in {bogus, bogus + 1}
             /\ (\A i \in 1..2 : packet[i].pos = i) /\ b.pos = 3 => bogus' = bogus
    <3>1. ~Spoiled'
      BY <2>6 DEF Spoiled
    <3>2. ASSUME ~Spoiled PROVE bogus' = bogus
      <4>1. packet # <<>>
        BY <2>6, EmptySeq
      <4>2. NextPos = 3 /\ \A i \in 1..2 : packet[i].pos = i
        BY <2>6, <3>2, <4>1 DEF Spoiled
      <4> QED BY <2>2, <2>6, <4>2
    <3>3. bogus' <= lostAux + astray /\ bogus' \in Nat
      BY <1>3, <2>6, <3>2 DEF DebtsArePaid
    <3>4. bogus' <= lostAux' + astray'
      <4>1. lostAux' = lostAux /\ (astray' = astray \/ astray' = astray + 1)
        BY <1>3, <2>1
      <4>2. CASE astray' = astray
        BY <3>3, <4>1, <4>2
      <4>3. CASE astray' = astray + 1
        <5>1. lostAux' + astray' = (lostAux + astray) + 1
          BY <1>3, <4>1, <4>3
        <5> QED BY <1>3, <3>3, <5>1
      <4> QED BY <4>1, <4>2, <4>3
    <3> QED BY <3>1, <3>3, <3>4 DEF DebtsArePaid
  <2> QED BY <1>1, <2>1, <2>2, <2>4, <2>5, <2>6, CollectCases
<1> QED BY <1>2, <1>4, <1>5, <1>6

LEMMA NextNeverAstray ==
  ASSUME PInv, NeverAstray, [Next]_vars
  PROVE  NeverAstray'
<1>1. TypeOK /\ Stream /\ InStep
  BY DEF PInv
<1>2. Untouched \/ Lost \/ Collected
  BY <1>1, AuxSteps
<1>3. lostAux \in Nat /\ astray \in Nat
  BY <1>1, TypeParts DEF AuxTypes
<1>4. CASE Untouched
  BY <1>4 DEF Untouched, NeverAstray
<1>5. CASE Lost
  BY <1>3, <1>5 DEF Lost, NeverAstray
<1>6. CASE Collected
  <2>1. /\ out.from = "aux" /\ lostAux' = lostAux
        /\ astray' = astray + IF GoesAstray(out.byte) THEN 1 ELSE 0
    BY <1>6 DEF Collected
  <2>2. ASSUME lostAux = 0, packet = <<>> PROVE out.byte.pos = 1
    BY <1>1, <2>1, <2>2, NextByte, EmptySeq DEF InStep
  <2>3. lostAux = 0 => ~GoesAstray(out.byte)
    BY <2>2 DEF GoesAstray
  <2> QED BY <1>3, <2>1, <2>3 DEF NeverAstray
<1> QED BY <1>2, <1>4, <1>5, <1>6

-----------------------------------------------------------------------------
THEOREM PInvariance == Spec => []PInv
  BY InitPInv, NextPInv, PTL DEF Spec

(***************************************************************************)
(* The variables keep their types: mouse_poll never has more than two      *)
(* bytes of a packet, and the first one has bit 3 set.                     *)
(***************************************************************************)
THEOREM TypeCorrect == Spec => []TypeOK
<1>1. PInv => TypeOK
  BY DEF PInv
<1> QED BY <1>1, PInvariance, PTL

(***************************************************************************)
(* mouse_poll is in step with the mouse until an LED update takes a byte   *)
(* from it.                                                                *)
(***************************************************************************)
THEOREM AlwaysAligned == Spec => []Aligned
<1>1. PInv => Aligned
  <2> SUFFICES ASSUME PInv, lostAux = 0, PendingAux # <<>>
               PROVE  PendingAux[1].pos = Len(packet) + 1
    BY DEF Aligned
  <2>1. /\ NextPos = Len(packet) + 1 /\ auxQ \in Seq(MouseByte)
        /\ out.from = "aux" => out.byte \in MouseByte
    BY TypeParts DEF PInv, InStep, AuxTypes, PortTypes, Empty
  <2>2. CASE out.from = "aux"
    <3>1. PendingAux = <<out.byte>> \o auxQ
      BY <2>2 DEF PendingAux
    <3>2. PendingAux[1] = out.byte
      BY <2>1, <2>2, <3>1
    <3> QED BY <2>1, <2>2, <3>2 DEF NextPos
  <2>3. CASE out.from # "aux"
    <3>1. PendingAux = auxQ
      BY <2>1, <2>3, ConcatEmptySeq DEF PendingAux
    <3> QED BY <2>1, <2>3, <3>1 DEF NextPos
  <2> QED BY <2>2, <2>3
<1> QED BY <1>1, PInvariance, PTL

(***************************************************************************)
(* Whatever the mouse sends, every wrong report is owed to a byte of its   *)
(* own: one that was lost, or one of the movement whose bit 3 was set and  *)
(* which mouse_poll took for a first byte; and it takes a lost byte to     *)
(* begin with.                                                             *)
(***************************************************************************)
THEOREM WrongPacketsAreExplained == Spec => []WrongPacketsHaveCauses
<1>1. Init => DebtsArePaid /\ NeverAstray
  <2> SUFFICES ASSUME Init PROVE DebtsArePaid /\ NeverAstray
    OBVIOUS
  <2>1. bogus = 0 /\ astray = 0 /\ ~Spoiled
    BY DEF Init, Spoiled
  <2>2. lostAux \in Nat
    BY InitPInv, TypeParts DEF PInv, AuxTypes
  <2> QED BY <2>1, <2>2 DEF DebtsArePaid, NeverAstray
<1>2. /\ PInv /\ DebtsArePaid /\ [Next]_vars => DebtsArePaid'
      /\ PInv /\ NeverAstray /\ [Next]_vars => NeverAstray'
  BY NextDebts, NextNeverAstray
<1>3. PInv /\ DebtsArePaid /\ NeverAstray => WrongPacketsHaveCauses
  <2> SUFFICES ASSUME PInv, DebtsArePaid, NeverAstray PROVE WrongPacketsHaveCauses
    OBVIOUS
  <2>1. bogus \in Nat /\ lostAux \in Nat /\ astray \in Nat
    BY TypeParts DEF PInv, AuxTypes
  <2> QED BY <2>1 DEF DebtsArePaid, NeverAstray, WrongPacketsHaveCauses
<1> QED BY <1>1, <1>2, <1>3, PInvariance, PTL DEF Spec

-----------------------------------------------------------------------------
(***************************************************************************)
(* Reading bytes ahead: one after the other, from either end.              *)
(***************************************************************************)
(* f holds what is known after each of the first n bytes of q.             *)
Steps(f, n, q) == \A i \in 1..n : f[i] = Read(f[i - 1], q[i])

LEMMA ReadingLoop ==
  ASSUME NEW s, NEW q, Len(q) \in Nat
  PROVE  \E f : f[0] = s /\ Steps(f, Len(q), q) /\ ReadAll(s, q) = f[Len(q)]
<1> DEFINE n == Len(q)
           S == { k \in Nat : \E f :
                    f = [i \in 0..k |-> IF i = 0 THEN s ELSE Read(f[i - 1], q[i])] }
<1>1. 0 \in S
  <2> DEFINE f == [i \in 0..0 |-> s]
  <2>1. f = [i \in 0..0 |-> IF i = 0 THEN s ELSE Read(f[i - 1], q[i])]
    <3>1. \A i \in 0..0 : i = 0
      OBVIOUS
    <3> QED BY <3>1, Zenon
  <2> QED BY <2>1
<1>2. ASSUME NEW k \in Nat, k \in S PROVE k + 1 \in S
  <2>1. PICK f : f = [i \in 0..k |-> IF i = 0 THEN s ELSE Read(f[i - 1], q[i])]
    BY <1>2
  <2> DEFINE e(x, i) == Read(x, q[i])
             g == [i \in 0..(k + 1) |-> IF i = k + 1 THEN e(f[k], k + 1) ELSE f[i]]
  <2>2. \A i \in 0..k : f[i] = IF i = 0 THEN s ELSE e(f[i - 1], i)
    BY <2>1, Zenon
  <2> HIDE DEF e
  <2>3. ASSUME NEW i \in 0..(k + 1)
        PROVE  g[i] = IF i = 0 THEN s ELSE e(g[i - 1], i)
    <3>1. CASE i = k + 1
      <4>1. i - 1 = k /\ i # 0 /\ k \in 0..(k + 1) /\ k # k + 1
        BY <3>1
      <4>2. g[i - 1] = f[k]
        BY <4>1
      <4>3. g[i] = e(f[k], k + 1)
        BY <3>1
      <4> QED BY <3>1, <4>1, <4>2, <4>3
    <3>2. CASE i # k + 1
      <4>1. i \in 0..k /\ (i # 0 => i - 1 \in 0..(k + 1) /\ i - 1 # k + 1)
        BY <3>2
      <4>2. g[i] = f[i] /\ (i # 0 => g[i - 1] = f[i - 1])
        BY <3>2, <4>1
      <4> QED BY <2>2, <4>1, <4>2
    <3> QED BY <3>1, <3>2
  <2>4. g = [i \in 0..(k + 1) |-> g[i]]
    OBVIOUS
  <2> HIDE DEF g
  <2>5. g = [i \in 0..(k + 1) |-> IF i = 0 THEN s ELSE e(g[i - 1], i)]
    BY <2>3, <2>4, Zenon
  <2> QED BY <2>5 DEF e
<1>3. n \in S
  <2> HIDE DEF S
  <2> QED BY <1>1, <1>2, SetInduction
<1> DEFINE r == CHOOSE f : f = [i \in 0..n |-> IF i = 0 THEN s ELSE Read(f[i - 1], q[i])]
<1>4. r = [i \in 0..n |-> IF i = 0 THEN s ELSE Read(r[i - 1], q[i])]
  <2>1. \E f : f = [i \in 0..n |-> IF i = 0 THEN s ELSE Read(f[i - 1], q[i])]
    BY <1>3
  <2> QED BY <2>1, Zenon
<1>5. ReadAll(s, q) = r[n]
  BY DEF ReadAll
<1> HIDE DEF r
<1>6. \A i \in 0..n : r[i] = IF i = 0 THEN s ELSE Read(r[i - 1], q[i])
  BY <1>4, Zenon
<1>7. 0 \in 0..n /\ \A i \in 1..n : i \in 0..n /\ i # 0
  OBVIOUS
<1>8. r[0] = s
  BY <1>6, <1>7, Zenon
<1>9. Steps(r, n, q)
  <2>1. \A i \in 1..n : r[i] = Read(r[i - 1], q[i])
    BY <1>6, <1>7, Zenon
  <2> QED BY <2>1 DEF Steps
<1> QED BY <1>5, <1>8, <1>9

(* A loop over the same bytes from the same start ends alike.              *)
LEMMA SameLoop ==
  ASSUME NEW n \in Nat, NEW q, NEW f, NEW g, f[0] = g[0],
         Steps(f, n, q), Steps(g, n, q)
  PROVE  f[n] = g[n]
<1> DEFINE S == { k \in Nat : k <= n => f[k] = g[k] }
<1>1. 0 \in S
  OBVIOUS
<1>2. ASSUME NEW k \in Nat, k \in S PROVE k + 1 \in S
  <2> SUFFICES ASSUME k + 1 <= n PROVE f[k + 1] = g[k + 1]
    OBVIOUS
  <2>1. k + 1 \in 1..n /\ k <= n /\ k + 1 - 1 = k
    OBVIOUS
  <2>2. f[k + 1] = Read(f[k], q[k + 1]) /\ g[k + 1] = Read(g[k], q[k + 1])
    BY <2>1 DEF Steps
  <2>3. f[k] = g[k]
    BY <1>2, <2>1
  <2> QED BY <2>2, <2>3
<1> HIDE DEF S
<1>3. n \in S
  BY <1>1, <1>2, SetInduction
<1> QED BY <1>3 DEF S

LEMMA KbdConcat ==
  ASSUME NEW x \in Seq(KbdByte), NEW y \in Seq(KbdByte), NEW z \in Seq(KbdByte)
  PROVE  (x \o y) \o z = x \o (y \o z)
BY ConcatAssociative

LEMMA AuxConcat ==
  ASSUME NEW x \in Seq(MouseByte), NEW y \in Seq(MouseByte), NEW z \in Seq(MouseByte)
  PROVE  (x \o y) \o z = x \o (y \o z)
BY ConcatAssociative

LEMMA ReadNone ==
  ASSUME NEW s PROVE ReadAll(s, <<>>) = s
<1>1. Len(<<>>) = 0
  BY EmptySeq
<1>2. PICK f : f[0] = s /\ ReadAll(s, <<>>) = f[Len(<<>>)]
  BY <1>1, ReadingLoop
<1> QED BY <1>1, <1>2

LEMMA ReadOne ==
  ASSUME NEW s, NEW b PROVE ReadAll(s, <<b>>) = Read(s, b)
<1> DEFINE q == <<b>>
<1>1. Len(q) = 1 /\ q[1] = b /\ Len(q) \in Nat /\ 1 \in 1..1
  OBVIOUS
<1> HIDE DEF q
<1>2. PICK f : f[0] = s /\ Steps(f, Len(q), q) /\ ReadAll(s, q) = f[Len(q)]
  BY <1>1, ReadingLoop
<1>3. f[1] = Read(f[0], q[1])
  BY <1>1, <1>2 DEF Steps
<1> QED BY <1>1, <1>2, <1>3 DEF q

LEMMA ReadConcat ==
  ASSUME NEW s, NEW T, NEW q \in Seq(T), NEW r \in Seq(T)
  PROVE  ReadAll(s, q \o r) = ReadAll(ReadAll(s, q), r)
<1> DEFINE n == Len(q)
           m == Len(r)
           c == q \o r
<1>1. /\ n \in Nat /\ m \in Nat /\ Len(c) = n + m
      /\ \A i \in 1..(n + m) : c[i] = IF i <= n THEN q[i] ELSE r[i - n]
  BY ConcatProperties
<1>2. PICK f : f[0] = s /\ Steps(f, n, q) /\ ReadAll(s, q) = f[n]
  BY <1>1, ReadingLoop
<1>3. PICK g : g[0] = ReadAll(s, q) /\ Steps(g, m, r) /\ ReadAll(ReadAll(s, q), r) = g[m]
  BY <1>1, ReadingLoop
<1> HIDE DEF n, m, c
<1>4. PICK h : h[0] = s /\ Steps(h, Len(c), c) /\ ReadAll(s, c) = h[Len(c)]
  <2>1. Len(c) \in Nat
    BY <1>1
  <2> QED BY <2>1, ReadingLoop
<1>5. Steps(h, n, q)
  <2>1. ASSUME NEW i \in 1..n PROVE i \in 1..Len(c) /\ i \in 1..(n + m) /\ i <= n
    BY <1>1
  <2> QED BY <1>1, <1>4, <2>1 DEF Steps
<1>6. h[n] = ReadAll(s, q)
  <2>1. h[n] = f[n]
    <3>1. n \in Nat /\ h[0] = f[0]
      BY <1>1, <1>2, <1>4
    <3> QED BY <1>2, <1>5, <3>1, SameLoop
  <2> QED BY <1>2, <2>1
<1> DEFINE k == [i \in 0..m |-> h[n + i]]
<1>7. k[0] = g[0] /\ k[m] = h[n + m]
  BY <1>1, <1>3, <1>6
<1>8. Steps(k, m, r)
  <2>1. ASSUME NEW i \in 1..m PROVE k[i] = Read(k[i - 1], r[i])
    <3>1. /\ n + i \in 1..(n + m) /\ n + i \in 1..Len(c)
          /\ ~(n + i <= n) /\ n + i - n = i
          /\ n + i - 1 = n + (i - 1) /\ i \in 0..m /\ i - 1 \in 0..m
      BY <1>1
    <3>2. ASSUME NEW j \in 1..Len(c) PROVE h[j] = Read(h[j - 1], c[j])
      BY <1>4 DEF Steps
    <3>3. c[n + i] = r[i]
      BY <1>1, <3>1
    <3>4. k[i] = h[n + i] /\ k[i - 1] = h[n + (i - 1)]
      BY <3>1
    <3>5. h[n + i] = Read(h[n + (i - 1)], c[n + i])
      <4> DEFINE j == n + i
      <4>1. j \in 1..Len(c) /\ j - 1 = n + (i - 1)
        BY <1>1, <3>1
      <4> HIDE DEF j
      <4>2. h[j] = Read(h[n + (i - 1)], c[j])
        BY <3>2, <4>1
      <4> QED BY <4>2 DEF j
    <3> HIDE DEF k
    <3> QED BY <3>3, <3>4, <3>5
  <2> HIDE DEF k
  <2> QED BY <2>1 DEF Steps
<1> HIDE DEF k
<1>9. k[m] = g[m]
  BY <1>1, <1>3, <1>7, <1>8, SameLoop
<1> QED BY <1>1, <1>3, <1>4, <1>7, <1>9 DEF c

(***************************************************************************)
(* What is read ahead has a type, and depends on what was read before only *)
(* as far as that goes.                                                    *)
(***************************************************************************)
Typed == [key : [code : Code, ext : BOOLEAN], up : BOOLEAN]

Reading == [prefix : BOOLEAN, down : SUBSET Mod, keys : Seq(Typed)]

(* s is t after the events e, but for left Shift.                          *)
Later(s, t, e) ==
  /\ s.prefix = t.prefix
  /\ s.down \ {LeftShift} = t.down \ {LeftShift}
  /\ s.keys = e \o t.keys

LEMMA ReadTypes ==
  ASSUME NEW s \in Reading, NEW b \in KbdByte
  PROVE  Read(s, b) \in Reading
<1> DEFINE k == [code |-> b.code, ext |-> s.prefix]
           e == [key |-> k, up |-> b.up]
<1>1. s.prefix \in BOOLEAN /\ s.down \subseteq Mod /\ s.keys \in Seq(Typed)
  BY DEF Reading
<1>2. e \in Typed
  BY <1>1 DEF KbdByte, Typed
<1>3. Append(s.keys, e) \in Seq(Typed)
  BY <1>1, <1>2, AppendProperties
<1>4. DownAfter(s.down, k, b.up) \subseteq Mod
  BY <1>1 DEF DownAfter
<1>5. [s EXCEPT !.prefix = (b.code = E0)] \in Reading
  BY DEF Reading
<1>6. ASSUME NEW d \in SUBSET Mod, NEW l \in Seq(Typed)
      PROVE  [prefix |-> FALSE, down |-> d, keys |-> l] \in Reading
  BY DEF Reading
<1> HIDE DEF k, e
<1>7. [prefix |-> FALSE, down |-> DownAfter(s.down, k, b.up), keys |-> Append(s.keys, e)]
        \in Reading
  BY <1>3, <1>4, <1>6
<1> QED BY <1>5, <1>7 DEF Read, k, e

LEMMA ReadLater ==
  ASSUME NEW s \in Reading, NEW t \in Reading, NEW e \in Seq(Typed), Later(s, t, e),
         NEW b \in KbdByte
  PROVE  Later(Read(s, b), Read(t, b), e)
<1> DEFINE k == [code |-> b.code, ext |-> s.prefix]
           x == [key |-> k, up |-> b.up]
<1>1. /\ s.prefix = t.prefix /\ s.prefix \in BOOLEAN
      /\ s.keys = e \o t.keys /\ t.keys \in Seq(Typed)
      /\ s.down \ {LeftShift} = t.down \ {LeftShift}
  BY DEF Later, Reading
<1>2. CASE b.code = ACK
  BY <1>2 DEF Read
<1>3. CASE b.code # ACK /\ b.code \in {E0, E1}
  <2>1. /\ Read(s, b) = [s EXCEPT !.prefix = (b.code = E0)]
        /\ Read(t, b) = [t EXCEPT !.prefix = (b.code = E0)]
    BY <1>3 DEF Read
  <2> QED BY <1>1, <2>1 DEF Later, Reading
<1>4. CASE b.code # ACK /\ b.code \notin {E0, E1}
  <2>1. /\ Read(s, b) = [prefix |-> FALSE, down |-> DownAfter(s.down, k, b.up),
                         keys |-> Append(s.keys, x)]
        /\ Read(t, b) = [prefix |-> FALSE, down |-> DownAfter(t.down, k, b.up),
                         keys |-> Append(t.keys, x)]
    BY <1>1, <1>4 DEF Read
  <2>2. x \in Typed
    BY <1>1 DEF Typed, KbdByte
  <2> HIDE DEF k, x
  <2>3. DownAfter(s.down, k, b.up) \ {LeftShift} = DownAfter(t.down, k, b.up) \ {LeftShift}
    BY <1>1 DEF DownAfter
  <2>4. Append(e \o t.keys, x) = e \o Append(t.keys, x)
    <3>1. e \o t.keys \in Seq(Typed) /\ <<x>> \in Seq(Typed)
      BY <1>1, <2>2, ConcatProperties
    <3>2. Append(e \o t.keys, x) = (e \o t.keys) \o <<x>>
      BY <2>2, <3>1, AppendIsConcat
    <3>3. Append(t.keys, x) = t.keys \o <<x>>
      BY <1>1, <2>2, AppendIsConcat
    <3>4. ASSUME NEW k1 \in Seq(Typed), NEW x1 \in Seq(Typed)
          PROVE  (e \o k1) \o x1 = e \o (k1 \o x1)
      BY ConcatAssociative
    <3>5. t.keys \in Seq(Typed) /\ <<x>> \in Seq(Typed)
      BY <1>1, <3>1
    <3>6. (e \o t.keys) \o <<x>> = e \o (t.keys \o <<x>>)
      BY <3>4, <3>5, Zenon
    <3> QED BY <3>2, <3>3, <3>6, Zenon
  <2> QED BY <1>1, <2>1, <2>3, <2>4 DEF Later
<1> QED BY <1>2, <1>3, <1>4

LEMMA ReadAllLater ==
  ASSUME NEW s \in Reading, NEW t \in Reading, NEW e \in Seq(Typed), Later(s, t, e),
         NEW q \in Seq(KbdByte)
  PROVE  /\ ReadAll(s, q) \in Reading /\ ReadAll(t, q) \in Reading
         /\ Later(ReadAll(s, q), ReadAll(t, q), e)
<1> DEFINE n == Len(q)
<1>1. n \in Nat /\ \A i \in 1..n : q[i] \in KbdByte
  BY ElementOfSeq
<1>2. PICK f : f[0] = s /\ Steps(f, n, q) /\ ReadAll(s, q) = f[n]
  BY <1>1, ReadingLoop
<1>3. PICK g : g[0] = t /\ Steps(g, n, q) /\ ReadAll(t, q) = g[n]
  BY <1>1, ReadingLoop
<1> HIDE DEF n
<1> DEFINE S == { i \in Nat : i <= n =>
                    f[i] \in Reading /\ g[i] \in Reading /\ Later(f[i], g[i], e) }
<1>4. 0 \in S
  BY <1>2, <1>3
<1>5. ASSUME NEW i \in Nat, i \in S PROVE i + 1 \in S
  <2> SUFFICES ASSUME i + 1 <= n
               PROVE  /\ f[i + 1] \in Reading /\ g[i + 1] \in Reading
                      /\ Later(f[i + 1], g[i + 1], e)
    OBVIOUS
  <2>1. i + 1 \in 1..n /\ i <= n /\ i + 1 - 1 = i
    BY <1>1
  <2>2. f[i] \in Reading /\ g[i] \in Reading /\ Later(f[i], g[i], e)
    BY <1>5, <2>1
  <2>3. f[i + 1] = Read(f[i], q[i + 1]) /\ g[i + 1] = Read(g[i], q[i + 1])
    BY <1>2, <1>3, <2>1 DEF Steps
  <2>4. q[i + 1] \in KbdByte
    BY <1>1, <2>1
  <2> QED BY <2>2, <2>3, <2>4, ReadTypes, ReadLater
<1> HIDE DEF S
<1>6. n \in S
  BY <1>1, <1>4, <1>5, SetInduction
<1> QED BY <1>1, <1>2, <1>3, <1>6 DEF S

-----------------------------------------------------------------------------
(***************************************************************************)
(* What the keyboard sends: 0xFA is only ever an answer, and the keys that *)
(* its bytes stand for are its own, with the two that Pause contains.      *)
(***************************************************************************)
LeftCtrl == [code |-> CTRL, ext |-> FALSE]
NumLock == [code |-> NUM, ext |-> FALSE]

KeyByte == { b \in KbdByte : b.code = ACK => b = Ack }

Sendable == Key \union (IF HasPause THEN {LeftCtrl, NumLock} ELSE {})

Event == [key : Sendable, up : BOOLEAN]

Start == [prefix |-> prefix, down |-> down, keys |-> <<>>]

InPort == IF out.from = "kbd" THEN <<out.byte>> ELSE <<>>

WellSent == kbdQ \in Seq(KeyByte) /\ (out.from = "kbd" => out.byte \in KeyByte)

(* Once everything is read, no prefix is left over and the modifiers that  *)
(* the driver holds down are the ones that are held, but for left Shift.   *)
InTouch ==
  /\ Ahead.prefix = FALSE
  /\ Ahead.down \ {LeftShift} = (held \intersect Mod) \ {LeftShift}
  /\ Ahead.keys \in Seq(Event)

LEMMA Codes ==
  /\ E0 # E1 /\ E0 # ACK /\ E1 # ACK /\ CTRL # SHIFT /\ NUM # SHIFT /\ CTRL # NUM
  /\ \A c \in {SHIFT, CTRL, NUM} : c \notin {E0, E1, ACK}
  /\ \A k \in Key : /\ k = [code |-> k.code, ext |-> k.ext]
                    /\ k.code \in Code \ {E0, E1, ACK} /\ k.ext \in BOOLEAN
  /\ NumLock \notin Mod
<1> DEFINE t == <<E0, E1, ACK, SHIFT, CTRL, NUM>>
<1>1. \A i, j \in 1..6 : t[i] = t[j] => i = j
  <2>1. IsInjective(t) /\ DOMAIN t = 1..6
    BY CodeAssumption
  <2> HIDE DEF t
  <2> QED BY <2>1 DEF IsInjective
<1>2. /\ t[1] = E0 /\ t[2] = E1 /\ t[3] = ACK
      /\ t[4] = SHIFT /\ t[5] = CTRL /\ t[6] = NUM
  OBVIOUS
<1> HIDE DEF t
<1>3. /\ E0 # E1 /\ E0 # ACK /\ E1 # ACK /\ CTRL # SHIFT /\ NUM # SHIFT /\ CTRL # NUM
      /\ \A c \in {SHIFT, CTRL, NUM} : c \notin {E0, E1, ACK}
  BY <1>1, <1>2
<1>4. ASSUME NEW k \in Key
      PROVE  /\ k = [code |-> k.code, ext |-> k.ext]
             /\ k.code \in Code \ {E0, E1, ACK} /\ k.ext \in BOOLEAN
  <2>1. k \in [code : Code \ {E0, E1, ACK}, ext : BOOLEAN]
    BY CodeAssumption
  <2> QED BY <2>1
<1>5. NumLock \notin Mod
  BY CodeAssumption DEF NumLock
<1> QED BY <1>3, <1>4, <1>5

LEMMA SentBytes ==
  /\ Ack \in KeyByte
  /\ PauseBytes \in Seq(KeyByte)
  /\ \A k \in Key, up \in BOOLEAN : Bytes(k, up) \in Seq(KeyByte)
<1>1. ASSUME NEW c \in Code \ {ACK}, NEW up \in BOOLEAN PROVE Scan(c, up) \in KeyByte
  BY DEF Scan, KeyByte, KbdByte
<1>2. {E0, E1, SHIFT, CTRL, NUM} \subseteq Code \ {ACK}
  BY CodeAssumption, Codes
<1>3. Ack \in KeyByte
  BY ScanTypes DEF KeyByte
<1>4. PauseBytes \in Seq(KeyByte)
  <2>1. ASSUME NEW a \in KeyByte, NEW b \in KeyByte, NEW c \in KeyByte,
               NEW d \in KeyByte, NEW e \in KeyByte, NEW f \in KeyByte
        PROVE  <<a, b, c, d, e, f>> \in Seq(KeyByte)
    OBVIOUS
  <2> QED BY <1>1, <1>2, <2>1 DEF PauseBytes
<1>5. ASSUME NEW k \in Key, NEW up \in BOOLEAN PROVE Bytes(k, up) \in Seq(KeyByte)
  <2>1. k.code \in Code \ {ACK}
    BY Codes
  <2>2. \A a, b \in KeyByte : <<a>> \in Seq(KeyByte) /\ <<a, b>> \in Seq(KeyByte)
    OBVIOUS
  <2> QED BY <1>1, <1>2, <2>1, <2>2 DEF Bytes
<1> QED BY <1>3, <1>4, <1>5

LEMMA ReadMore ==
  ASSUME NEW s, NEW q \in Seq(KbdByte), NEW r \in Seq(KbdByte)
  PROVE  ReadAll(s, q \o r) = ReadAll(ReadAll(s, q), r)
BY ReadConcat

LEMMA ReadLast ==
  ASSUME NEW s, NEW q \in Seq(KbdByte), NEW b \in KbdByte
  PROVE  ReadAll(s, Append(q, b)) = Read(ReadAll(s, q), b)
<1> DEFINE r == <<b>>
<1>1. Append(q, b) = q \o r
  BY AppendIsConcat
<1>2. r \in Seq(KbdByte) /\ ReadAll(ReadAll(s, q), r) = Read(ReadAll(s, q), b)
  BY ReadOne
<1> HIDE DEF r
<1>3. ReadAll(s, q \o r) = ReadAll(ReadAll(s, q), r)
  BY <1>2, ReadMore
<1> QED BY <1>1, <1>2, <1>3

LEMMA ReadSix ==
  ASSUME NEW s, NEW b1 \in KbdByte, NEW b2 \in KbdByte, NEW b3 \in KbdByte,
         NEW b4 \in KbdByte, NEW b5 \in KbdByte, NEW b6 \in KbdByte,
         NEW q, q = <<b1, b2, b3, b4, b5, b6>>
  PROVE  ReadAll(s, q) =
           Read(Read(Read(Read(Read(Read(s, b1), b2), b3), b4), b5), b6)
<1>1. /\ <<b1, b2>> = Append(<<b1>>, b2)
      /\ <<b1, b2, b3>> = Append(<<b1, b2>>, b3)
      /\ <<b1, b2, b3, b4>> = Append(<<b1, b2, b3>>, b4)
  OBVIOUS
<1>2. /\ <<b1, b2, b3, b4, b5>> = Append(<<b1, b2, b3, b4>>, b5)
      /\ <<b1, b2, b3, b4, b5, b6>> = Append(<<b1, b2, b3, b4, b5>>, b6)
  OBVIOUS
<1>3. /\ <<b1>> \in Seq(KbdByte) /\ <<b1, b2>> \in Seq(KbdByte)
      /\ <<b1, b2, b3>> \in Seq(KbdByte) /\ <<b1, b2, b3, b4>> \in Seq(KbdByte)
      /\ <<b1, b2, b3, b4, b5>> \in Seq(KbdByte)
  OBVIOUS
<1> DEFINE q1 == <<b1>>
           q2 == <<b1, b2>>
           q3 == <<b1, b2, b3>>
           q4 == <<b1, b2, b3, b4>>
           q5 == <<b1, b2, b3, b4, b5>>
           q6 == <<b1, b2, b3, b4, b5, b6>>
<1>4. /\ q2 = Append(q1, b2) /\ q3 = Append(q2, b3) /\ q4 = Append(q3, b4)
      /\ q5 = Append(q4, b5) /\ q6 = Append(q5, b6)
  BY <1>1, <1>2, Zenon
<1>5. /\ q1 \in Seq(KbdByte) /\ q2 \in Seq(KbdByte) /\ q3 \in Seq(KbdByte)
      /\ q4 \in Seq(KbdByte) /\ q5 \in Seq(KbdByte)
  BY <1>3, Zenon
<1>6. ReadAll(s, q1) = Read(s, b1)
  BY ReadOne
<1> HIDE DEF q1, q2, q3, q4, q5, q6
<1>0. ASSUME NEW p \in Seq(KbdByte), NEW x \in KbdByte, NEW r, r = Append(p, x)
      PROVE  ReadAll(s, r) = Read(ReadAll(s, p), x)
  BY <1>0, ReadLast
<1>7. ReadAll(s, q2) = Read(ReadAll(s, q1), b2)
  <2>1. q1 \in Seq(KbdByte) /\ q2 = Append(q1, b2)
    BY <1>4, <1>5
  <2> QED BY <1>0, <2>1
<1>8. ReadAll(s, q3) = Read(ReadAll(s, q2), b3)
  <2>1. q2 \in Seq(KbdByte) /\ q3 = Append(q2, b3)
    BY <1>4, <1>5
  <2> QED BY <1>0, <2>1
<1>9. ReadAll(s, q4) = Read(ReadAll(s, q3), b4)
  <2>1. q3 \in Seq(KbdByte) /\ q4 = Append(q3, b4)
    BY <1>4, <1>5
  <2> QED BY <1>0, <2>1
<1>10. ReadAll(s, q5) = Read(ReadAll(s, q4), b5)
  <2>1. q4 \in Seq(KbdByte) /\ q5 = Append(q4, b5)
    BY <1>4, <1>5
  <2> QED BY <1>0, <2>1
<1>11. ReadAll(s, q6) = Read(ReadAll(s, q5), b6)
  <2>1. q5 \in Seq(KbdByte) /\ q6 = Append(q5, b6)
    BY <1>4, <1>5
  <2> QED BY <1>0, <2>1
<1>12. q = q6
  BY DEF q6
<1> QED BY <1>6, <1>7, <1>8, <1>9, <1>10, <1>11, <1>12

(* A key is read as what it is.                                            *)
LEMMA ReadKey ==
  ASSUME NEW t \in Reading, t.prefix = FALSE, NEW k \in Key, NEW up \in BOOLEAN
  PROVE  ReadAll(t, Bytes(k, up)) =
           [prefix |-> FALSE, down |-> DownAfter(t.down, k, up),
            keys |-> Append(t.keys, [key |-> k, up |-> up])]
<1> DEFINE b == Scan(k.code, up)
           e == Scan(E0, FALSE)
<1>1. /\ k = [code |-> k.code, ext |-> k.ext] /\ k.ext \in BOOLEAN
      /\ k.code \notin {E0, E1, ACK} /\ E0 # E1 /\ E0 # ACK
  BY Codes
<1>2. b.code = k.code /\ b.up = up /\ e.code = E0
  BY DEF Scan
<1>7. b \in KbdByte /\ e \in KbdByte
  BY CodeAssumption, Codes DEF Scan, KbdByte
<1>3. Bytes(k, up) = IF k.ext THEN <<e, b>> ELSE <<b>>
  BY DEF Bytes
<1> HIDE DEF b, e
<1>4. ASSUME NEW u, u.prefix = k.ext, u.down = t.down, u.keys = t.keys
      PROVE  Read(u, b) =
               [prefix |-> FALSE, down |-> DownAfter(t.down, k, up),
                keys |-> Append(t.keys, [key |-> k, up |-> up])]
  <2>1. [code |-> b.code, ext |-> u.prefix] = k
    BY <1>1, <1>2, <1>4
  <2> QED BY <1>1, <1>2, <1>4, <2>1 DEF Read
<1>5. CASE k.ext
  <2>1. <<e, b>> = Append(<<e>>, b)
    OBVIOUS
  <2>2. <<e>> \in Seq(KbdByte)
    BY <1>7
  <2>3. ReadAll(t, <<e, b>>) = Read(Read(t, e), b)
    <3>1. ReadAll(t, Append(<<e>>, b)) = Read(ReadAll(t, <<e>>), b)
      BY <1>7, <2>2, ReadLast
    <3> QED BY <2>1, <3>1, ReadOne
  <2> DEFINE u == Read(t, e)
  <2>4. u = [t EXCEPT !.prefix = TRUE]
    BY <1>1, <1>2 DEF Read
  <2>5. u.prefix = k.ext /\ u.down = t.down /\ u.keys = t.keys
    BY <1>5, <2>4 DEF Reading
  <2> HIDE DEF u
  <2> QED BY <1>3, <1>4, <1>5, <2>3, <2>5 DEF u
<1>6. CASE ~k.ext
  <2>1. t.prefix = k.ext
    BY <1>1, <1>6
  <2> QED BY <1>3, <1>4, <1>6, <2>1, ReadOne
<1> QED BY <1>5, <1>6

(* Pause changes no modifier while left Ctrl is up.                        *)
LEMMA ReadPause ==
  ASSUME NEW t \in Reading, t.prefix = FALSE, LeftCtrl \notin t.down,
         HasPause, t.keys \in Seq(Event)
  PROVE  LET u == ReadAll(t, PauseBytes) IN
           u.prefix = FALSE /\ u.down = t.down /\ u.keys \in Seq(Event)
<1> DEFINE p == Scan(E1, FALSE)
           c(up) == Scan(CTRL, up)
           n(up) == Scan(NUM, up)
           state(d, l) == [prefix |-> FALSE, down |-> d, keys |-> l]
<1>1. /\ t.down \subseteq Mod /\ t = state(t.down, t.keys)
  BY DEF Reading
<1>2. ASSUME NEW d, NEW l PROVE Read(state(d, l), p) = state(d, l)
  BY Codes DEF Read, Scan
<1>3. ASSUME NEW d, NEW l, NEW up \in BOOLEAN
      PROVE  /\ Read(state(d, l), c(up)) =
                  state(DownAfter(d, LeftCtrl, up), Append(l, [key |-> LeftCtrl, up |-> up]))
             /\ Read(state(d, l), n(up)) = state(d, Append(l, [key |-> NumLock, up |-> up]))
  <2>1. /\ CTRL # ACK /\ CTRL \notin {E0, E1} /\ NUM # ACK /\ NUM \notin {E0, E1}
        /\ NumLock \notin Mod
    BY Codes
  <2>2. Read(state(d, l), c(up)) =
          state(DownAfter(d, LeftCtrl, up), Append(l, [key |-> LeftCtrl, up |-> up]))
    BY <2>1 DEF Read, Scan, LeftCtrl
  <2>3. Read(state(d, l), n(up)) =
          state(DownAfter(d, NumLock, up), Append(l, [key |-> NumLock, up |-> up]))
    BY <2>1 DEF Read, Scan, NumLock
  <2>4. DownAfter(d, NumLock, up) = d
    BY <2>1 DEF DownAfter
  <2> QED BY <2>2, <2>3, <2>4
<1>4. ASSUME NEW l \in Seq(Event), NEW up \in BOOLEAN
      PROVE  /\ Append(l, [key |-> LeftCtrl, up |-> up]) \in Seq(Event)
             /\ Append(l, [key |-> NumLock, up |-> up]) \in Seq(Event)
  <2>1. [key |-> LeftCtrl, up |-> up] \in Event /\ [key |-> NumLock, up |-> up] \in Event
    BY DEF Event, Sendable
  <2> QED BY <2>1, AppendProperties
<1>5. DownAfter(DownAfter(t.down, LeftCtrl, FALSE), LeftCtrl, TRUE) = t.down
  BY DEF DownAfter
<1>7. PauseBytes = <<p, c(FALSE), n(FALSE), p, c(TRUE), n(TRUE)>>
  BY DEF PauseBytes
<1>8. /\ p \in KbdByte /\ c(FALSE) \in KbdByte /\ c(TRUE) \in KbdByte
      /\ n(FALSE) \in KbdByte /\ n(TRUE) \in KbdByte
  BY CodeAssumption DEF Scan, KbdByte
<1> HIDE DEF p, c, n, state
<1> DEFINE d1 == DownAfter(t.down, LeftCtrl, FALSE)
           l1 == Append(t.keys, [key |-> LeftCtrl, up |-> FALSE])
           l2 == Append(l1, [key |-> NumLock, up |-> FALSE])
           l3 == Append(l2, [key |-> LeftCtrl, up |-> TRUE])
           l4 == Append(l3, [key |-> NumLock, up |-> TRUE])
<1>9. ReadAll(t, PauseBytes) =
        Read(Read(Read(Read(Read(Read(t, p), c(FALSE)), n(FALSE)), p), c(TRUE)), n(TRUE))
  <2> DEFINE c0 == c(FALSE)
             c1 == c(TRUE)
             n0 == n(FALSE)
             n1 == n(TRUE)
  <2>1. p \in KbdByte /\ c0 \in KbdByte /\ c1 \in KbdByte /\ n0 \in KbdByte /\ n1 \in KbdByte
    BY <1>8
  <2>2. PauseBytes = <<p, c0, n0, p, c1, n1>>
    BY <1>7
  <2> HIDE DEF c0, c1, n0, n1
  <2>3. ReadAll(t, PauseBytes) =
          Read(Read(Read(Read(Read(Read(t, p), c0), n0), p), c1), n1)
    BY <2>1, <2>2, ReadSix, SMTT(60)
  <2> QED BY <2>3, Zenon DEF c0, c1, n0, n1
<1>10. l4 \in Seq(Event)
  <2>1. l1 \in Seq(Event)
    BY <1>4
  <2> HIDE DEF l1
  <2>2. l2 \in Seq(Event)
    BY <1>4, <2>1
  <2> HIDE DEF l2
  <2>3. l3 \in Seq(Event)
    BY <1>4, <2>2
  <2> HIDE DEF l3
  <2> QED BY <1>4, <2>3
<1>11. ReadAll(t, PauseBytes) = state(t.down, l4)
  <2>1. Read(t, p) = state(t.down, t.keys)
    BY <1>1, <1>2
  <2>2. Read(state(t.down, t.keys), c(FALSE)) = state(d1, l1)
    BY <1>3
  <2>3. Read(state(d1, l1), n(FALSE)) = state(d1, l2)
    BY <1>3
  <2>4. Read(state(d1, l2), p) = state(d1, l2)
    BY <1>2
  <2>5. Read(state(d1, l2), c(TRUE)) = state(t.down, l3)
    BY <1>3, <1>5
  <2>6. Read(state(t.down, l3), n(TRUE)) = state(t.down, l4)
    BY <1>3
  <2> HIDE DEF d1, l1, l2, l3, l4
  <2> QED BY <1>9, <2>1, <2>2, <2>3, <2>4, <2>5, <2>6
<1> HIDE DEF l4
<1> QED BY <1>10, <1>11 DEF state

-----------------------------------------------------------------------------
(***************************************************************************)
(* What a step does to the bytes that wait.                                *)
(***************************************************************************)
LEMMA Waiting ==
  ASSUME TypeOK
  PROVE  /\ kbdQ \in Seq(KbdByte) /\ InPort \in Seq(KbdByte)
         /\ PendingKbd = InPort \o kbdQ /\ PendingKbd \in Seq(KbdByte)
         /\ Start \in Reading /\ Ahead = ReadAll(Start, PendingKbd) /\ Ahead \in Reading
<1>1. kbdQ \in Seq(KbdByte) /\ prefix \in BOOLEAN /\ down \subseteq Mod
  BY TypeParts DEF KbdTypes
<1>2. InPort \in Seq(KbdByte)
  <2>1. CASE out.from = "kbd"
    <3>1. out.byte \in KbdByte
      BY <2>1, TypeParts DEF PortTypes, Empty
    <3>2. <<out.byte>> \in Seq(KbdByte)
      BY <3>1
    <3> QED BY <2>1, <3>2 DEF InPort
  <2>2. CASE out.from # "kbd"
    BY <2>2, EmptySeq DEF InPort
  <2> QED BY <2>1, <2>2
<1>3. PendingKbd = InPort \o kbdQ
  BY DEF PendingKbd, InPort
<1>4. PendingKbd \in Seq(KbdByte)
  BY <1>1, <1>2, <1>3, ConcatProperties
<1>5. Start \in Reading
  BY <1>1, EmptySeq DEF Start, Reading
<1>6. Ahead = ReadAll(Start, PendingKbd)
  BY DEF Ahead, Start
<1>7. Ahead \in Reading
  <2>1. <<>> \in Seq(Typed) /\ Start.keys \in Seq(Typed)
    BY <1>5, EmptySeq DEF Reading
  <2>2. Later(Start, Start, <<>>)
    BY <2>1, ConcatEmptySeq DEF Later
  <2> QED BY <1>4, <1>5, <1>6, <2>1, <2>2, ReadAllLater
<1> QED BY <1>1, <1>2, <1>3, <1>4, <1>5, <1>6, <1>7

LEMMA Idle ==
  ASSUME UNCHANGED <<kbdQ, prefix, down>>,
         out' = out \/ (out.from # "kbd" /\ out'.from # "kbd")
  PROVE  Ahead' = Ahead
<1>1. PendingKbd' = PendingKbd
  BY DEF PendingKbd
<1> QED BY <1>1 DEF Ahead

LEMMA Shifted ==
  ASSUME TypeOK, ShiftKbd
  PROVE  Ahead' = Ahead
<1>1. /\ kbdQ # <<>> /\ out.from # "kbd" /\ kbdQ' = Tail(kbdQ)
      /\ out'.from = "kbd" /\ out'.byte = Head(kbdQ)
      /\ prefix' = prefix /\ down' = down
  BY DEF ShiftKbd, Empty, driver
<1>2. kbdQ \in Seq(KbdByte)
  BY Waiting
<1>3. PendingKbd = kbdQ
  BY <1>1, <1>2, ConcatEmptySeq DEF PendingKbd
<1>4. PendingKbd' = <<Head(kbdQ)>> \o Tail(kbdQ)
  BY <1>1 DEF PendingKbd
<1>5. kbdQ = <<Head(kbdQ)>> \o Tail(kbdQ)
  BY <1>1, <1>2, HeadTailProperties
<1>6. PendingKbd' = PendingKbd
  BY <1>3, <1>4, <1>5
<1> QED BY <1>1, <1>6 DEF Ahead

LEMMA Sending ==
  ASSUME TypeOK, NEW bytes \in Seq(KbdByte), kbdQ' = kbdQ \o bytes,
         UNCHANGED <<prefix, down, out>>
  PROVE  Ahead' = ReadAll(Ahead, bytes)
<1>1. /\ PendingKbd = InPort \o kbdQ /\ PendingKbd \in Seq(KbdByte)
      /\ InPort \in Seq(KbdByte) /\ kbdQ \in Seq(KbdByte)
      /\ Ahead = ReadAll(Start, PendingKbd)
  BY Waiting
<1>2. PendingKbd' = InPort \o (kbdQ \o bytes)
  BY DEF PendingKbd, InPort
<1>3. PendingKbd' = PendingKbd \o bytes
  <2>1. InPort \in Seq(KbdByte) /\ kbdQ \in Seq(KbdByte)
    BY <1>1
  <2>2. (InPort \o kbdQ) \o bytes = InPort \o (kbdQ \o bytes)
    BY <2>1, KbdConcat
  <2>3. PendingKbd = InPort \o kbdQ
    BY <1>1
  <2> QED BY <1>2, <2>2, <2>3, Zenon
<1>4. Ahead' = ReadAll(Start, PendingKbd \o bytes)
  BY <1>3 DEF Ahead, Start
<1>5. ReadAll(Start, PendingKbd \o bytes) = ReadAll(ReadAll(Start, PendingKbd), bytes)
  BY <1>1, ReadMore
<1> QED BY <1>1, <1>4, <1>5

(* An answer means nothing, wherever it is put.                            *)
LEMMA Answered ==
  ASSUME TypeOK, Acknowledge \/ UNCHANGED env, UNCHANGED <<prefix, down, out>>
  PROVE  Ahead' = Ahead
<1>1. /\ PendingKbd = InPort \o kbdQ
      /\ InPort \in Seq(KbdByte) /\ kbdQ \in Seq(KbdByte)
      /\ Ahead = ReadAll(Start, PendingKbd)
  BY Waiting
<1> DEFINE a == <<Ack>>
<1>2. a \in Seq(KbdByte) /\ \A s : ReadAll(s, a) = s
  <2>1. \A s : Read(s, Ack) = s
    BY DEF Read, Ack, Scan
  <2> QED BY <2>1, ReadOne, ScanTypes
<1>3. kbdQ' \in {kbdQ, a \o kbdQ, Append(kbdQ, Ack)}
  BY DEF Acknowledge, env
<1>4. Append(kbdQ, Ack) = kbdQ \o a
  BY <1>1, ScanTypes, AppendIsConcat
<1> HIDE DEF a
<1>5. CASE kbdQ' = kbdQ
  BY <1>5, Idle
<1>6. CASE kbdQ' = kbdQ \o a
  <2>1. Ahead' = ReadAll(Ahead, a)
    BY <1>2, <1>6, Sending
  <2> QED BY <1>2, <2>1
<1>7. CASE kbdQ' = a \o kbdQ
  <2>1. Ahead' = ReadAll(Start, InPort \o (a \o kbdQ))
    BY <1>7 DEF Ahead, Start, PendingKbd, InPort
  <2>2. a \o kbdQ \in Seq(KbdByte)
    BY <1>1, <1>2, ConcatProperties
  <2>3. ReadAll(Start, InPort \o (a \o kbdQ)) = ReadAll(ReadAll(Start, InPort), a \o kbdQ)
    BY <1>1, <2>2, ReadMore
  <2>4. ReadAll(ReadAll(Start, InPort), a \o kbdQ)
          = ReadAll(ReadAll(ReadAll(Start, InPort), a), kbdQ)
    BY <1>1, <1>2, ReadMore
  <2>5. ReadAll(Start, InPort \o kbdQ) = ReadAll(ReadAll(Start, InPort), kbdQ)
    BY <1>1, ReadMore
  <2> QED BY <1>1, <1>2, <2>1, <2>3, <2>4, <2>5
<1> QED BY <1>3, <1>4, <1>5, <1>6, <1>7

(* A byte that leaves the controller.                                      *)
LEMMA Leaving ==
  ASSUME TypeOK, out.from = "kbd", out' = Empty, kbdQ' = kbdQ
  PROVE  /\ out.byte \in KbdByte /\ kbdQ \in Seq(KbdByte)
         /\ Ahead = ReadAll(Read(Start, out.byte), kbdQ)
         /\ Ahead' = ReadAll(Start', kbdQ)
<1>1. /\ kbdQ \in Seq(KbdByte) /\ PendingKbd = InPort \o kbdQ
      /\ InPort \in Seq(KbdByte) /\ Ahead = ReadAll(Start, PendingKbd)
  BY Waiting
<1>2. out.byte \in KbdByte
  BY TypeParts DEF PortTypes, Empty
<1>3. InPort = <<out.byte>>
  BY DEF InPort
<1>4. ReadAll(Start, InPort \o kbdQ) = ReadAll(ReadAll(Start, InPort), kbdQ)
  BY <1>1, ReadMore
<1>5. ReadAll(Start, InPort) = Read(Start, out.byte)
  BY <1>3, ReadOne
<1>6. PendingKbd' = kbdQ
  BY <1>1, ConcatEmptySeq DEF PendingKbd, Empty
<1>7. Ahead' = ReadAll(Start', kbdQ)
  BY <1>6 DEF Ahead, Start
<1> QED BY <1>1, <1>2, <1>4, <1>5, <1>7

(* What keyboard_poll_key does with a byte is what the byte says, but for  *)
(* 0xAA.                                                                   *)
LEMMA Handled ==
  ASSUME TypeOK, NEW b \in KeyByte, HandleByte(b), b = Tested => prefix = FALSE
  PROVE  \E e \in Seq(Typed) : Later(Read(Start, b), Start', e)
<1>1. /\ prefix \in BOOLEAN /\ down \subseteq Mod
      /\ b \in KbdByte /\ (b.code = ACK => b = Ack)
  BY TypeParts DEF KbdTypes, KeyByte
<1>2. Ack.code = ACK /\ Tested.code = SHIFT /\ Tested.up = TRUE
  BY DEF Ack, Tested, Scan
<1>0. <<>> \in Seq(Typed) /\ <<>> = <<>> \o <<>>
  BY EmptySeq, ConcatEmptySeq
<1>3. CASE b = Ack
  <2>1. Read(Start, b) = Start
    BY <1>2, <1>3 DEF Read
  <2>2. Start' = Start
    BY <1>2, <1>3, Codes DEF HandleByte, Start, Prefix
  <2>3. Later(Read(Start, b), Start', <<>>)
    BY <1>0, <2>1, <2>2 DEF Later, Start
  <2> QED BY <1>0, <2>3
<1> DEFINE k == [code |-> b.code, ext |-> prefix]
           e == <<[key |-> k, up |-> b.up]>>
<1>4. e \in Seq(Typed) /\ e = e \o <<>> /\ e = Append(<<>>, [key |-> k, up |-> b.up])
  <2>1. [key |-> k, up |-> b.up] \in Typed
    BY <1>1 DEF Typed, KbdByte
  <2>2. \A x \in Typed : /\ <<x>> \in Seq(Typed) /\ <<x>> = <<x>> \o <<>>
                         /\ <<x>> = Append(<<>>, x)
    OBVIOUS
  <2> QED BY <2>1, <2>2
<1>5. CASE b = Tested
  <2>1. Start' = Start /\ k = LeftShift /\ b.code \notin {E0, E1, ACK} /\ b.up = TRUE
    BY <1>1, <1>2, <1>5, Codes DEF HandleByte, Start, Prefix, LeftShift
  <2>2. Read(Start, b) = [prefix |-> FALSE, down |-> DownAfter(down, k, TRUE),
                          keys |-> Append(<<>>, [key |-> k, up |-> b.up])]
    BY <2>1 DEF Read, Start
  <2>3. DownAfter(down, k, TRUE) \ {LeftShift} = down \ {LeftShift}
    BY <2>1 DEF DownAfter
  <2> HIDE DEF e, k
  <2>4. Start'.prefix = FALSE /\ Start'.down = down /\ Start'.keys = <<>>
    BY <1>5, <2>1 DEF Start
  <2>5. /\ Read(Start, b).prefix = FALSE
        /\ Read(Start, b).down = DownAfter(down, k, TRUE)
        /\ Read(Start, b).keys = e
    BY <1>4, <2>2
  <2>6. Later(Read(Start, b), Start', e)
    BY <1>4, <2>3, <2>4, <2>5 DEF Later
  <2> QED BY <1>4, <2>6
<1>6. CASE b \notin {Ack, Tested} /\ b.code \in {E0, E1}
  <2>1. prefix' = (b.code = E0) /\ down' = down
    BY <1>6 DEF HandleByte, Prefix
  <2>2. Read(Start, b) = [prefix |-> (b.code = E0), down |-> down, keys |-> <<>>]
    BY <1>6, Codes DEF Read, Start
  <2>3. Later(Read(Start, b), Start', <<>>)
    BY <1>0, <2>1, <2>2 DEF Later, Start
  <2> QED BY <1>0, <2>3
<1>7. CASE b \notin {Ack, Tested} /\ b.code \notin {E0, E1}
  <2>1. prefix' = FALSE /\ down' = DownAfter(down, k, b.up)
    BY <1>7 DEF HandleByte, Prefix, Handle
  <2>2. b.code # ACK
    BY <1>1, <1>7
  <2>3. Read(Start, b) = [prefix |-> FALSE, down |-> DownAfter(down, k, b.up),
                          keys |-> Append(<<>>, [key |-> k, up |-> b.up])]
    BY <1>7, <2>2 DEF Read, Start
  <2> HIDE DEF e, k
  <2>4. /\ Start'.prefix = FALSE /\ Start'.down = DownAfter(down, k, b.up)
        /\ Start'.keys = <<>>
    BY <2>1 DEF Start
  <2>5. /\ Read(Start, b).prefix = FALSE
        /\ Read(Start, b).down = DownAfter(down, k, b.up)
        /\ Read(Start, b).keys = e
    BY <1>4, <2>3
  <2>6. Later(Read(Start, b), Start', e)
    BY <1>4, <2>4, <2>5 DEF Later
  <2> QED BY <1>4, <2>6
<1> QED BY <1>3, <1>5, <1>6, <1>7

-----------------------------------------------------------------------------
(***************************************************************************)
(* The modifiers.  No key has the code of left Shift with a prefix: its    *)
(* release, 0xE0 0xAA, would leave the prefix with the driver.             *)
(***************************************************************************)
ShiftIsPlain == [code |-> SHIFT, ext |-> TRUE] \notin Key

LEMMA Factors ==
  ASSUME NEW S, NEW T, NEW x \in Seq(T), NEW y \in Seq(T), x \o y \in Seq(S)
  PROVE  x \in Seq(S) /\ y \in Seq(S)
<1>1. /\ Len(x) \in Nat /\ Len(y) \in Nat /\ Len(x \o y) = Len(x) + Len(y)
      /\ \A i \in 1..(Len(x) + Len(y)) :
           (x \o y)[i] = IF i <= Len(x) THEN x[i] ELSE y[i - Len(x)]
  BY ConcatProperties
<1> DEFINE c == x \o y
<1>2. \A i \in 1..(Len(x) + Len(y)) : c[i] \in S
  BY <1>1, ElementOfSeq
<1> HIDE DEF c
<1>3. \A i \in 1..Len(x) : x[i] \in S
  <2> SUFFICES ASSUME NEW i \in 1..Len(x) PROVE x[i] \in S
    OBVIOUS
  <2>1. i \in 1..(Len(x) + Len(y)) /\ i <= Len(x)
    BY <1>1
  <2>2. c[i] = x[i]
    BY <1>1, <2>1 DEF c
  <2> QED BY <1>2, <2>1, <2>2
<1>4. \A i \in 1..Len(y) : y[i] \in S
  <2> SUFFICES ASSUME NEW i \in 1..Len(y) PROVE y[i] \in S
    OBVIOUS
  <2> DEFINE j == Len(x) + i
  <2>1. j \in 1..(Len(x) + Len(y)) /\ ~(j <= Len(x)) /\ j - Len(x) = i
    BY <1>1
  <2> HIDE DEF j
  <2>2. c[j] = y[i]
    BY <1>1, <2>1 DEF c
  <2> QED BY <1>2, <2>1, <2>2
<1>5. ASSUME NEW z \in Seq(T), \A i \in 1..Len(z) : z[i] \in S
      PROVE  z \in Seq(S)
  <2>1. Len(z) \in Nat /\ z = [i \in 1..Len(z) |-> z[i]]
    OBVIOUS
  <2>2. z \in [1..Len(z) -> S]
    BY <1>5, <2>1
  <2>3. ASSUME NEW n \in Nat, z \in [1..n -> S] PROVE z \in Seq(S)
    BY <2>3
  <2> QED BY <2>1, <2>2, <2>3
<1> QED BY <1>3, <1>4, <1>5

LEMMA NoPrefixedShift ==
  ASSUME ShiftIsPlain, TypeOK, InTouch, out.from = "kbd", out.byte = Tested,
         out' = Empty, kbdQ' = kbdQ
  PROVE  prefix = FALSE
<1> SUFFICES ASSUME prefix = TRUE PROVE FALSE
  BY TypeParts DEF KbdTypes
<1> DEFINE k == [code |-> SHIFT, ext |-> TRUE]
           x == [key |-> k, up |-> TRUE]
           r == Read(Start, Tested)
           t == [prefix |-> FALSE, down |-> r.down, keys |-> <<>>]
<1>1. r = [prefix |-> FALSE, down |-> DownAfter(down, k, TRUE), keys |-> Append(<<>>, x)]
  BY Codes DEF Read, Start, Tested, Scan
<1>2. Tested \in KbdByte /\ Start \in Reading
  BY ScanTypes, Waiting
<1>3. r \in Reading
  BY <1>2, ReadTypes
<1>4. x \in Typed
  BY CodeAssumption DEF Typed
<1>5. <<x>> \in Seq(Typed) /\ Append(<<>>, x) = <<x>> /\ <<x>> = <<x>> \o <<>>
  <2> HIDE DEF x
  <2> QED BY <1>4
<1>6. t \in Reading
  BY <1>3, EmptySeq DEF Reading
<1>7. Later(r, t, <<x>>)
  <2>1. t.prefix = FALSE /\ t.down = r.down /\ t.keys = <<>>
    OBVIOUS
  <2> HIDE DEF k, x, r, t
  <2>2. r.prefix = FALSE /\ r.keys = Append(<<>>, x)
    BY <1>1
  <2> QED BY <1>5, <2>1, <2>2 DEF Later
<1>8. kbdQ \in Seq(KbdByte) /\ Ahead = ReadAll(r, kbdQ)
  BY Leaving
<1> HIDE DEF r, t, x
<1>9. ReadAll(t, kbdQ) \in Reading /\ Later(Ahead, ReadAll(t, kbdQ), <<x>>)
  BY <1>3, <1>5, <1>6, <1>7, <1>8, ReadAllLater
<1> DEFINE rest == ReadAll(t, kbdQ).keys
<1>10. rest \in Seq(Typed) /\ <<x>> \o rest \in Seq(Event)
  BY <1>9 DEF Later, Reading, InTouch
<1> HIDE DEF rest
<1>11. <<x>> \in Seq(Event)
  BY <1>5, <1>10, Factors
<1>12. x \in Event
  <2>1. \A y \in Seq(Event) : y # <<>> => y[1] \in Event
    OBVIOUS
  <2>2. <<x>> # <<>> /\ <<x>>[1] = x
    OBVIOUS
  <2> QED BY <1>11, <2>1, <2>2
<1>13. k \in Sendable
  BY <1>12 DEF Event, x
<1> QED BY <1>13 DEF Sendable, ShiftIsPlain, LeftCtrl, NumLock

LEMMA HandledInTouch ==
  ASSUME ShiftIsPlain, TypeOK, WellSent, InTouch, out.from = "kbd",
         HandleByte(out.byte), out' = Empty, kbdQ' = kbdQ, held' = held
  PROVE  InTouch'
<1> DEFINE b == out.byte
<1>1. /\ b \in KbdByte /\ kbdQ \in Seq(KbdByte)
      /\ Ahead = ReadAll(Read(Start, b), kbdQ)
      /\ Ahead' = ReadAll(Start', kbdQ)
  BY Leaving
<1>2. b \in KeyByte /\ (b = Tested => prefix = FALSE)
  BY NoPrefixedShift DEF WellSent
<1>3. PICK e \in Seq(Typed) : Later(Read(Start, b), Start', e)
  BY <1>2, Handled
<1>4. Read(Start, b) \in Reading
  BY <1>1, ReadTypes, Waiting
<1>5. Start' \in Reading
  <2>1. prefix' \in BOOLEAN /\ down' \subseteq Mod
    BY <1>1, HandleTypes
  <2> QED BY <2>1, EmptySeq DEF Start, Reading
<1> HIDE DEF b
<1>6. Ahead' \in Reading /\ Later(Ahead, Ahead', e)
  BY <1>1, <1>3, <1>4, <1>5, ReadAllLater
<1>7. e \o Ahead'.keys \in Seq(Event) /\ Ahead'.keys \in Seq(Typed)
  BY <1>6 DEF Later, InTouch, Reading
<1>8. Ahead'.keys \in Seq(Event)
  BY <1>7, Factors
<1> QED BY <1>6, <1>8 DEF InTouch, Later

LEMMA KeyTyped ==
  ASSUME TypeOK, InTouch, NEW k \in Key, NEW up \in BOOLEAN, Type(Bytes(k, up))
  PROVE  /\ Ahead'.prefix = FALSE
         /\ Ahead'.down = DownAfter(Ahead.down, k, up)
         /\ Ahead'.keys = Append(Ahead.keys, [key |-> k, up |-> up])
<1>1. Bytes(k, up) \in Seq(KbdByte)
  BY ScanTypes
<1>2. Ahead' = ReadAll(Ahead, Bytes(k, up))
  BY <1>1, Sending DEF Type, driver
<1>3. Ahead \in Reading /\ Ahead.prefix = FALSE
  BY Waiting DEF InTouch
<1>4. Ahead' = [prefix |-> FALSE, down |-> DownAfter(Ahead.down, k, up),
                keys |-> Append(Ahead.keys, [key |-> k, up |-> up])]
  BY <1>2, <1>3, ReadKey
<1> QED BY <1>4

LEMMA InTouchAfter ==
  ASSUME TypeOK, InTouch, NEW k \in Key, NEW up \in BOOLEAN,
         Type(Bytes(k, up)), held' = IF up THEN held \ {k} ELSE held \union {k}
  PROVE  InTouch'
<1>1. Append(Ahead.keys, [key |-> k, up |-> up]) \in Seq(Event)
  <2>1. [key |-> k, up |-> up] \in Event
    BY DEF Event, Sendable
  <2> QED BY <2>1, AppendProperties DEF InTouch
<1>2. DownAfter(Ahead.down, k, up) \ {LeftShift} = (held' \intersect Mod) \ {LeftShift}
  BY DEF DownAfter, InTouch
<1> QED BY <1>1, <1>2, KeyTyped DEF InTouch

LEMMA InTouchAfterPause ==
  ASSUME TypeOK, InTouch, Pause
  PROVE  InTouch'
<1>1. HasPause /\ held' = held /\ Type(PauseBytes) /\ LeftCtrl \notin held
  BY DEF Pause, LeftCtrl
<1>2. PauseBytes \in Seq(KbdByte)
  BY ScanTypes
<1>3. Ahead' = ReadAll(Ahead, PauseBytes)
  BY <1>1, <1>2, Sending DEF Type, driver
<1>4. Ahead \in Reading /\ Ahead.prefix = FALSE /\ Ahead.keys \in Seq(Event)
  BY Waiting DEF InTouch
<1>5. LeftCtrl \notin Ahead.down
  <2>1. LeftCtrl # LeftShift
    BY Codes DEF LeftCtrl, LeftShift
  <2> QED BY <1>1, <2>1 DEF InTouch
<1>6. Ahead'.prefix = FALSE /\ Ahead'.down = Ahead.down /\ Ahead'.keys \in Seq(Event)
  BY <1>1, <1>3, <1>4, <1>5, ReadPause
<1> QED BY <1>1, <1>6 DEF InTouch

(* 0xFA stays an answer.                                                   *)
LEMMA WellSentKept ==
  ASSUME TypeOK, WellSent, [Next]_vars
  PROVE  WellSent'
<1>1. ASSUME NEW bytes \in Seq(KeyByte), Type(bytes) PROVE WellSent'
  BY <1>1, ConcatProperties DEF Type, WellSent
<1>2. CASE \E k \in Key : KeyDown(k) \/ KeyUp(k)
  BY <1>1, <1>2, SentBytes DEF KeyDown, KeyUp
<1>3. CASE Pause
  BY <1>1, <1>3, SentBytes DEF Pause
<1>4. CASE ShiftKbd
  <2>1. Head(kbdQ) \in KeyByte /\ Tail(kbdQ) \in Seq(KeyByte)
    BY <1>4, HeadTailProperties DEF ShiftKbd, WellSent
  <2> QED BY <1>4, <2>1 DEF ShiftKbd, WellSent
<1>5. CASE SendLedCommand \/ SendLedValue
  <2>1. out' = out /\ kbdQ' \in {kbdQ, <<Ack>> \o kbdQ, Append(kbdQ, Ack)}
    BY <1>5 DEF SendLedCommand, SendLedValue, Acknowledge, env
  <2>2. /\ kbdQ \in Seq(KeyByte) /\ <<Ack>> \o kbdQ \in Seq(KeyByte)
        /\ Append(kbdQ, Ack) \in Seq(KeyByte)
    BY SentBytes DEF WellSent
  <2> QED BY <2>1, <2>2 DEF WellSent
<1>6. ASSUME kbdQ' = kbdQ, out' = out \/ out'.from # "kbd" PROVE WellSent'
  BY <1>6 DEF WellSent
<1>7. CASE (\E p \in Packet : MoveMouse(p)) \/ ShiftAux \/ UNCHANGED vars
  BY <1>6, <1>7 DEF MoveMouse, ShiftAux, vars, env
<1>8. CASE PollKey \/ AwaitAnswer \/ AwaitSecond \/ PollMouse \/ PollMouseAgain
  <2>1. kbdQ' = kbdQ /\ out' \in {out, Empty}
    BY <1>8
       DEF PollKey, AwaitAnswer, AwaitSecond, PollMouse, PollMouseAgain, Poll,
           TimeIsUp, TakeAnyByte, env
  <2> QED BY <1>6, <2>1 DEF Empty
<1> QED BY <1>2, <1>3, <1>4, <1>5, <1>7, <1>8 DEF Next

LEMMA InTouchKept ==
  ASSUME ShiftIsPlain, TypeOK, WellSent, lostKbd \/ InTouch, [Next]_vars
  PROVE  lostKbd' \/ InTouch'
<1>0. lostKbd \in BOOLEAN
  BY TypeParts DEF KbdTypes
<1>1. lostKbd => lostKbd'
  <2>1. ASSUME NEW bytes, Type(bytes) PROVE UNCHANGED lostKbd
    BY <2>1 DEF Type, history
  <2>2. CASE \/ \E k \in Key : KeyDown(k) \/ KeyUp(k)
             \/ Pause
    BY <2>1, <2>2 DEF KeyDown, KeyUp, Pause
  <2>3. CASE \/ \E p \in Packet : MoveMouse(p)
             \/ ShiftKbd \/ ShiftAux \/ PollKey \/ SendLedCommand \/ SendLedValue
             \/ UNCHANGED vars
    BY <2>3
       DEF MoveMouse, ShiftKbd, ShiftAux, PollKey, SendLedCommand, SendLedValue, vars, history
  <2>4. CASE PollMouse \/ PollMouseAgain
    BY <2>4 DEF PollMouse, PollMouseAgain, Poll, history
  <2>5. CASE AwaitAnswer \/ AwaitSecond
    <3>1. TimeIsUp \/ TakeAnyByte
      BY <2>5 DEF AwaitAnswer, AwaitSecond
    <3> QED BY <3>1 DEF TimeIsUp, TakeAnyByte, history
  <2> QED BY <2>2, <2>3, <2>4, <2>5 DEF Next
<1> SUFFICES ASSUME InTouch PROVE lostKbd' \/ InTouch'
  BY <1>1
<1>2. ASSUME Ahead' = Ahead, held' = held PROVE InTouch'
  BY <1>2 DEF InTouch
<1>3. ASSUME NEW k \in Key, KeyDown(k) \/ KeyUp(k) PROVE InTouch'
  <2>1. CASE KeyDown(k)
    BY <2>1, InTouchAfter DEF KeyDown
  <2>2. CASE KeyUp(k)
    BY <2>2, InTouchAfter DEF KeyUp
  <2> QED BY <1>3, <2>1, <2>2
<1>4. CASE Pause
  BY <1>4, InTouchAfterPause
<1>5. CASE ShiftKbd
  BY <1>2, <1>5, Shifted DEF ShiftKbd
<1>6. CASE PollKey
  <2>1. CASE out.from = "kbd"
    <3>1. HandleByte(out.byte) /\ out' = Empty /\ kbdQ' = kbdQ /\ held' = held
      BY <1>6, <2>1 DEF PollKey, env
    <3> QED BY <2>1, <3>1, HandledInTouch
  <2>2. CASE out.from # "kbd"
    <3>1. UNCHANGED <<prefix, down, out, kbdQ, held>>
      BY <1>6, <2>2 DEF PollKey, env
    <3> QED BY <1>2, <3>1, Idle
  <2> QED BY <2>1, <2>2
<1>7. CASE SendLedCommand \/ SendLedValue
  <2>1. (Acknowledge \/ UNCHANGED env) /\ UNCHANGED <<prefix, down, out>>
    BY <1>7 DEF SendLedCommand, SendLedValue, driver
  <2>2. held' = held
    BY <2>1, AcknowledgeTypes
  <2> QED BY <1>2, <2>1, <2>2, Answered
<1>8. CASE AwaitAnswer \/ AwaitSecond
  <2>1. /\ TimeIsUp \/ TakeAnyByte
        /\ UNCHANGED <<kbdQ, held, prefix, down>>
    BY <1>8 DEF AwaitAnswer, AwaitSecond, env, driver
  <2>2. CASE TimeIsUp \/ out.from # "kbd"
    <3>1. out' = out \/ (out.from # "kbd" /\ out'.from # "kbd")
      BY <2>1, <2>2 DEF TimeIsUp, TakeAnyByte, Empty
    <3> QED BY <1>2, <2>1, <3>1, Idle
  <2>3. CASE TakeAnyByte /\ out.from = "kbd" /\ out.byte # Ack
    BY <2>3 DEF TakeAnyByte
  <2>4. CASE TakeAnyByte /\ out.from = "kbd" /\ out.byte = Ack
    <3>1. out' = Empty /\ Start' = Start
      BY <2>1, <2>4 DEF TakeAnyByte, Start
    <3>2. Ahead = ReadAll(Read(Start, Ack), kbdQ) /\ Ahead' = ReadAll(Start, kbdQ)
      BY <2>1, <2>4, <3>1, Leaving
    <3>3. Read(Start, Ack) = Start
      BY DEF Read, Ack, Scan
    <3> QED BY <1>2, <2>1, <3>2, <3>3
  <2> QED BY <2>1, <2>2, <2>3, <2>4
<1>9. CASE (\E p \in Packet : MoveMouse(p)) \/ ShiftAux \/ UNCHANGED vars
  <2>1. /\ UNCHANGED <<kbdQ, held, prefix, down>>
        /\ out' = out \/ (out.from # "kbd" /\ out'.from # "kbd")
    BY <1>9 DEF MoveMouse, ShiftAux, vars, env, driver, Empty
  <2> QED BY <1>2, <2>1, Idle
<1>10. CASE PollMouse \/ PollMouseAgain
  <2>1. /\ UNCHANGED <<kbdQ, held, prefix, down>>
        /\ out' = out \/ (out.from # "kbd" /\ out'.from # "kbd")
    BY <1>10 DEF PollMouse, PollMouseAgain, Poll, env, Empty
  <2> QED BY <1>2, <2>1, Idle
<1> QED BY <1>3, <1>4, <1>5, <1>6, <1>7, <1>8, <1>9, <1>10 DEF Next

LEMMA InitInTouch == Init => WellSent /\ InTouch
<1> SUFFICES ASSUME Init PROVE WellSent /\ InTouch
  OBVIOUS
<1>1. /\ kbdQ = <<>> /\ out = Empty /\ held = {} /\ prefix = FALSE /\ down = {}
  BY DEF Init
<1>2. WellSent
  BY <1>1, EmptySeq DEF WellSent, Empty
<1>3. PendingKbd = <<>>
  <2>1. <<>> \o <<>> = <<>>
    BY ConcatEmptySeq, EmptySeq
  <2> QED BY <1>1, <2>1 DEF PendingKbd, Empty
<1>4. Ahead = [prefix |-> FALSE, down |-> {}, keys |-> <<>>]
  BY <1>1, <1>3, ReadNone DEF Ahead
<1>5. Ahead.prefix = FALSE /\ Ahead.down = {} /\ Ahead.keys = <<>>
  BY <1>4
<1>6. InTouch
  BY <1>1, <1>5, EmptySeq DEF InTouch
<1> QED BY <1>2, <1>6

(***************************************************************************)
(* The modifiers that the driver holds down, brought up to date with what  *)
(* is still waiting, are the ones that are held, until an LED update takes *)
(* a scan code for its answer: with any keys, with Pause, and wherever the *)
(* keyboard's own answers end up among the codes.                          *)
(***************************************************************************)
THEOREM ModifiersAlwaysFollow ==
  ASSUME ShiftIsPlain
  PROVE  Spec => []ModifiersFollow
<1> DEFINE I == WellSent /\ (lostKbd \/ InTouch)
<1>1. Init => I
  BY InitInTouch
<1>2. TypeOK /\ I /\ [Next]_vars => I'
  BY WellSentKept, InTouchKept
<1>3. I => ModifiersFollow
  BY DEF ModifiersFollow, InTouch
<1> HIDE DEF I
<1> QED BY <1>1, <1>2, <1>3, TypeCorrect, PTL DEF Spec

-----------------------------------------------------------------------------
(***************************************************************************)
(* The packets in a sequence of bytes.                                     *)
(***************************************************************************)
Chunks(b) == [i \in 1..(Len(b) \div 3) |-> SubSeq(b, 3 * i - 2, 3 * i)]

Whole(b, n) == Len(b) = 3 * n /\ \A i \in 1..n : SubSeq(b, 3 * i - 2, 3 * i) \in Packet

LEMMA WholeChunks ==
  ASSUME NEW b, NEW n \in Nat, Whole(b, n)
  PROVE  /\ Chunks(b) \in Seq(Packet) /\ Len(Chunks(b)) = n
         /\ \A i \in 1..n : Chunks(b)[i] = SubSeq(b, 3 * i - 2, 3 * i)
<1>1. Len(b) \div 3 = n
  BY DEF Whole
<1>2. Chunks(b) = [i \in 1..n |-> SubSeq(b, 3 * i - 2, 3 * i)]
  BY <1>1 DEF Chunks
<1>3. Chunks(b) \in [1..n -> Packet]
  BY <1>2 DEF Whole
<1>4. ASSUME NEW f \in [1..n -> Packet] PROVE f \in Seq(Packet) /\ Len(f) = n
  OBVIOUS
<1> QED BY <1>2, <1>3, <1>4

(* A sequence of three bytes inside another.                               *)
LEMMA Three ==
  ASSUME NEW b \in Seq(MouseByte), NEW k \in Nat, k + 3 <= Len(b),
         NEW p \in Seq(MouseByte), Len(p) = 3,
         b[k + 1] = p[1], b[k + 2] = p[2], b[k + 3] = p[3]
  PROVE  SubSeq(b, k + 1, k + 3) = p
<1> DEFINE q == SubSeq(b, k + 1, k + 3)
<1>1. \A i \in (k + 1)..(k + 3) : b[i] \in MouseByte
  BY ElementOfSeq
<1>2. /\ q \in Seq(MouseByte)
      /\ Len(q) = IF k + 1 <= k + 3 THEN (k + 3) - (k + 1) + 1 ELSE 0
      /\ \A i \in 1..((k + 3) - (k + 1) + 1) : q[i] = b[(k + 1) + i - 1]
  BY <1>1, SubSeqProperties
<1>3. Len(q) = 3 /\ \A i \in 1..3 : q[i] = b[k + i]
  <2> HIDE DEF q
  <2>1. (k + 3) - (k + 1) + 1 = 3 /\ k + 1 <= k + 3
    OBVIOUS
  <2>2. \A i \in 1..3 : (k + 1) + i - 1 = k + i
    OBVIOUS
  <2> QED BY <1>2, <2>1, <2>2
<1> HIDE DEF q
<1>4. \A i \in 1..3 : q[i] = p[i]
  <2>1. \A i \in 1..3 : i = 1 \/ i = 2 \/ i = 3
    OBVIOUS
  <2> QED BY <1>3, <2>1
<1>5. q = p
  BY <1>2, <1>3, <1>4, SeqEqual
<1> QED BY <1>5 DEF q

(* A packet in front, or at the end.                                       *)
LEMMA ChunksAfter ==
  ASSUME NEW p \in Seq(MouseByte), Len(p) = 3, NEW r \in Seq(MouseByte),
         NEW n \in Nat, Len(r) = 3 * n
  PROVE  /\ SubSeq(p \o r, 1, 3) = p
         /\ \A i \in 1..n : SubSeq(p \o r, 3 * (i + 1) - 2, 3 * (i + 1))
                              = SubSeq(r, 3 * i - 2, 3 * i)
         /\ Len(p \o r) = 3 * (n + 1)
<1> DEFINE c == p \o r
<1>1. /\ c \in Seq(MouseByte) /\ Len(c) = 3 + 3 * n
      /\ \A i \in 1..(3 + 3 * n) : c[i] = IF i <= 3 THEN p[i] ELSE r[i - 3]
  <2>1. /\ c \in Seq(MouseByte) /\ Len(c) = Len(p) + Len(r)
        /\ \A i \in 1..(Len(p) + Len(r)) :
             c[i] = IF i <= Len(p) THEN p[i] ELSE r[i - Len(p)]
    BY ConcatProperties
  <2> HIDE DEF c
  <2>2. Len(p) + Len(r) = 3 + 3 * n
    OBVIOUS
  <2> QED BY <2>1, <2>2, Zenon
<1>2. SubSeq(c, 1, 3) = p
  <2>1. c[0 + 1] = p[1] /\ c[0 + 2] = p[2] /\ c[0 + 3] = p[3] /\ 0 + 3 <= Len(c)
    <3> HIDE DEF c
    <3> QED BY <1>1
  <2> HIDE DEF c
  <2>2. SubSeq(c, 0 + 1, 0 + 3) = p
    BY <1>1, <2>1, Three
  <2> QED BY <2>2
<1>3. ASSUME NEW i \in 1..n
      PROVE  SubSeq(c, 3 * (i + 1) - 2, 3 * (i + 1)) = SubSeq(r, 3 * i - 2, 3 * i)
  <2> DEFINE k == 3 * i - 3
             q == SubSeq(r, k + 1, k + 3)
  <2>1. /\ k \in Nat /\ k + 3 <= Len(r) /\ k + 6 <= 3 + 3 * n
        /\ k + 1 = 3 * i - 2 /\ k + 3 = 3 * i
        /\ k + 4 = 3 * (i + 1) - 2 /\ k + 6 = 3 * (i + 1)
    OBVIOUS
  <2> HIDE DEF k, c
  <2>2. \A j \in (k + 1)..(k + 3) : r[j] \in MouseByte
    BY <2>1, ElementOfSeq
  <2>3. /\ q \in Seq(MouseByte) /\ Len(q) = 3
        /\ \A j \in 1..3 : q[j] = r[k + j]
    <3>1. /\ q \in Seq(MouseByte)
          /\ Len(q) = IF k + 1 <= k + 3 THEN (k + 3) - (k + 1) + 1 ELSE 0
          /\ \A j \in 1..((k + 3) - (k + 1) + 1) : q[j] = r[(k + 1) + j - 1]
      BY <2>1, <2>2, SubSeqProperties
    <3> HIDE DEF q
    <3>2. (k + 3) - (k + 1) + 1 = 3 /\ k + 1 <= k + 3
      BY <2>1
    <3>3. \A j \in 1..3 : (k + 1) + j - 1 = k + j
      BY <2>1
    <3> QED BY <3>1, <3>2, <3>3
  <2> HIDE DEF q
  <2>4. c[k + 3 + 1] = q[1] /\ c[k + 3 + 2] = q[2] /\ c[k + 3 + 3] = q[3]
    <3>1. ASSUME NEW j \in 1..3 PROVE c[k + 3 + j] = q[j]
      <4> DEFINE m == k + 3 + j
      <4>1. m \in 1..(3 + 3 * n) /\ ~(m <= 3) /\ m - 3 = k + j
        BY <2>1
      <4> HIDE DEF m
      <4>2. c[m] = r[k + j]
        BY <1>1, <4>1, Zenon
      <4> QED BY <2>3, <4>2 DEF m
    <3> QED BY <3>1
  <2>5. SubSeq(c, k + 3 + 1, k + 3 + 3) = q
    <3>1. k + 3 \in Nat /\ k + 3 + 3 <= Len(c)
      BY <1>1, <2>1
    <3> QED BY <1>1, <2>3, <2>4, <3>1, Three
  <2>6. k + 3 + 1 = k + 4 /\ k + 3 + 3 = k + 6
    BY <2>1
  <2> QED BY <2>1, <2>5, <2>6 DEF q
<1>4. Len(c) = 3 * (n + 1)
  BY <1>1
<1> QED BY <1>2, <1>3, <1>4

LEMMA ChunksBefore ==
  ASSUME NEW b \in Seq(MouseByte), NEW n \in Nat, Len(b) = 3 * n, NEW p \in Packet
  PROVE  /\ SubSeq(b \o p, 3 * (n + 1) - 2, 3 * (n + 1)) = p
         /\ \A i \in 1..n : SubSeq(b \o p, 3 * i - 2, 3 * i) = SubSeq(b, 3 * i - 2, 3 * i)
         /\ Len(b \o p) = 3 * (n + 1)
<1>0. p \in Seq(MouseByte) /\ Len(p) = 3
  BY PacketSeq
<1> DEFINE c == b \o p
<1>1. /\ c \in Seq(MouseByte) /\ Len(c) = 3 * n + 3
      /\ \A i \in 1..(3 * n + 3) : c[i] = IF i <= 3 * n THEN b[i] ELSE p[i - 3 * n]
  <2>1. /\ c \in Seq(MouseByte) /\ Len(c) = Len(b) + Len(p)
        /\ \A i \in 1..(Len(b) + Len(p)) :
             c[i] = IF i <= Len(b) THEN b[i] ELSE p[i - Len(b)]
    BY <1>0, ConcatProperties
  <2> HIDE DEF c
  <2>2. Len(b) + Len(p) = 3 * n + 3
    BY <1>0
  <2> QED BY <2>1, <2>2, Zenon
<1>2. SubSeq(c, 3 * (n + 1) - 2, 3 * (n + 1)) = p
  <2> DEFINE k == 3 * n
  <2>1. k \in Nat /\ k + 3 <= Len(c) /\ k + 1 = 3 * (n + 1) - 2 /\ k + 3 = 3 * (n + 1)
    BY <1>1
  <2>2. \A i \in 1..(k + 3) : c[i] = IF i <= k THEN b[i] ELSE p[i - k]
    BY <1>1
  <2> HIDE DEF k, c
  <2>3. ASSUME NEW j \in 1..3 PROVE c[k + j] = p[j]
    <3> DEFINE m == k + j
    <3>1. m \in 1..(k + 3) /\ ~(m <= k) /\ m - k = j
      BY <2>1
    <3> HIDE DEF m
    <3>2. c[m] = p[j]
      BY <2>2, <3>1, Zenon
    <3> QED BY <3>2 DEF m
  <2>4. c[k + 1] = p[1] /\ c[k + 2] = p[2] /\ c[k + 3] = p[3]
    BY <2>3
  <2>5. SubSeq(c, k + 1, k + 3) = p
    BY <1>0, <1>1, <2>1, <2>4, Three
  <2> QED BY <2>1, <2>5
<1>3. ASSUME NEW i \in 1..n
      PROVE  SubSeq(c, 3 * i - 2, 3 * i) = SubSeq(b, 3 * i - 2, 3 * i)
  <2>1. 3 * i - 2 \in 1..Len(b) /\ 3 * i \in 1..Len(b)
    OBVIOUS
  <2> QED BY <1>0, <2>1, SubSeqOfConcat1
<1>4. Len(c) = 3 * (n + 1)
  BY <1>1
<1> QED BY <1>2, <1>3, <1>4

-----------------------------------------------------------------------------
LEMMA ChunksAppend ==
  ASSUME NEW b \in Seq(MouseByte), NEW n \in Nat, Whole(b, n), NEW p \in Packet
  PROVE  /\ Whole(b \o p, n + 1)
         /\ Chunks(b \o p) = Append(Chunks(b), p)
<1> DEFINE c == b \o p
<1>1. Len(b) = 3 * n
  BY DEF Whole
<1>2. /\ SubSeq(c, 3 * (n + 1) - 2, 3 * (n + 1)) = p
      /\ \A i \in 1..n : SubSeq(c, 3 * i - 2, 3 * i) = SubSeq(b, 3 * i - 2, 3 * i)
      /\ Len(c) = 3 * (n + 1)
  BY <1>1, ChunksBefore
<1> HIDE DEF c
<1>3. Whole(c, n + 1)
  <2>1. ASSUME NEW i \in 1..(n + 1) PROVE SubSeq(c, 3 * i - 2, 3 * i) \in Packet
    <3>1. CASE i = n + 1
      BY <1>2, <3>1
    <3>2. CASE i # n + 1
      <4>1. i \in 1..n
        BY <3>2
      <4> QED BY <1>2, <4>1 DEF Whole
    <3> QED BY <3>1, <3>2
  <2> QED BY <1>2, <2>1 DEF Whole
<1>4. /\ Chunks(b) \in Seq(Packet) /\ Len(Chunks(b)) = n
      /\ \A i \in 1..n : Chunks(b)[i] = SubSeq(b, 3 * i - 2, 3 * i)
  BY WholeChunks
<1>5. /\ Chunks(c) \in Seq(Packet) /\ Len(Chunks(c)) = n + 1
      /\ \A i \in 1..(n + 1) : Chunks(c)[i] = SubSeq(c, 3 * i - 2, 3 * i)
  <2>1. n + 1 \in Nat
    OBVIOUS
  <2> QED BY <1>3, <2>1, WholeChunks
<1> DEFINE s == Append(Chunks(b), p)
<1>6. /\ s \in Seq(Packet) /\ Len(s) = n + 1
      /\ \A i \in 1..n : s[i] = Chunks(b)[i]
      /\ s[n + 1] = p
  BY <1>4, AppendProperties
<1> HIDE DEF s
<1>7. ASSUME NEW i \in 1..(n + 1) PROVE Chunks(c)[i] = s[i]
  <2>1. CASE i = n + 1
    BY <1>2, <1>5, <1>6, <2>1
  <2>2. CASE i # n + 1
    <3>1. i \in 1..n
      BY <2>2
    <3> QED BY <1>2, <1>4, <1>5, <1>6, <3>1
  <2> QED BY <2>1, <2>2
<1>8. Chunks(c) = s
  BY <1>5, <1>6, <1>7, SeqEqual
<1> QED BY <1>3, <1>8 DEF c, s

LEMMA ChunksHead ==
  ASSUME NEW p \in Seq(MouseByte), Len(p) = 3, NEW r \in Seq(MouseByte),
         NEW n \in Nat, Whole(p \o r, n)
  PROVE  /\ n - 1 \in Nat /\ Whole(r, n - 1) /\ p \in Packet
         /\ Chunks(p \o r) # <<>> /\ Head(Chunks(p \o r)) = p
         /\ Tail(Chunks(p \o r)) = Chunks(r)
<1> DEFINE c == p \o r
           m == n - 1
<1>1. Len(r) = 3 * m /\ m \in Nat
  <2>1. Len(c) = Len(p) + Len(r) /\ Len(r) \in Nat
    <3>1. Len(c) = Len(p) + Len(r)
      BY ConcatProperties, Zenon
    <3> QED BY <3>1
  <2>2. Len(c) = 3 * n
    BY DEF Whole
  <2> HIDE DEF c
  <2> QED BY <2>1, <2>2
<1>2. n = m + 1
  OBVIOUS
<1> HIDE DEF m
<1>3. /\ SubSeq(c, 1, 3) = p
      /\ \A i \in 1..m : SubSeq(c, 3 * (i + 1) - 2, 3 * (i + 1)) = SubSeq(r, 3 * i - 2, 3 * i)
  BY <1>1, ChunksAfter
<1>4. Whole(c, n)
  OBVIOUS
<1> HIDE DEF c
<1>5. \A i \in 1..m : i + 1 \in 1..n
  BY <1>1, <1>2
<1>6. Whole(r, m)
  <2>1. \A i \in 1..m : SubSeq(r, 3 * i - 2, 3 * i) \in Packet
    <3>1. \A j \in 1..n : SubSeq(c, 3 * j - 2, 3 * j) \in Packet
      BY <1>4 DEF Whole
    <3> QED BY <1>3, <1>5, <3>1
  <2> QED BY <1>1, <2>1 DEF Whole
<1>7. p \in Packet
  <2>1. 1 \in 1..n /\ 3 * 1 - 2 = 1 /\ 3 * 1 = 3
    BY <1>1, <1>2
  <2>2. SubSeq(c, 3 * 1 - 2, 3 * 1) \in Packet
    BY <1>4, <2>1 DEF Whole
  <2> QED BY <1>3, <2>1, <2>2
<1>8. /\ Chunks(c) \in Seq(Packet) /\ Len(Chunks(c)) = n
      /\ \A i \in 1..n : Chunks(c)[i] = SubSeq(c, 3 * i - 2, 3 * i)
  BY <1>4, WholeChunks
<1>9. /\ Chunks(r) \in Seq(Packet) /\ Len(Chunks(r)) = m
      /\ \A i \in 1..m : Chunks(r)[i] = SubSeq(r, 3 * i - 2, 3 * i)
  BY <1>1, <1>6, WholeChunks
<1>10. Chunks(c) # <<>>
  <2>1. Len(Chunks(c)) # 0
    BY <1>1, <1>2, <1>8
  <2> QED BY <2>1, EmptySeq
<1>11. /\ Head(Chunks(c)) = Chunks(c)[1]
       /\ Tail(Chunks(c)) \in Seq(Packet) /\ Len(Tail(Chunks(c))) = m
       /\ \A i \in 1..m : Tail(Chunks(c))[i] = Chunks(c)[i + 1]
  <2>1. /\ Head(Chunks(c)) = Chunks(c)[1]
        /\ Tail(Chunks(c)) \in Seq(Packet) /\ Len(Tail(Chunks(c))) = Len(Chunks(c)) - 1
        /\ \A i \in 1..(Len(Chunks(c)) - 1) : Tail(Chunks(c))[i] = Chunks(c)[i + 1]
    BY <1>8, <1>10, HeadTailProperties
  <2>2. Len(Chunks(c)) - 1 = m
    BY <1>1, <1>2, <1>8
  <2> QED BY <2>1, <2>2
<1>12. Head(Chunks(c)) = p
  <2>1. 1 \in 1..n /\ 3 * 1 - 2 = 1 /\ 3 * 1 = 3
    BY <1>1, <1>2
  <2>2. Chunks(c)[1] = SubSeq(c, 3 * 1 - 2, 3 * 1)
    BY <1>8, <2>1, Zenon
  <2> QED BY <1>3, <1>11, <2>1, <2>2
<1>13. ASSUME NEW i \in 1..m PROVE Tail(Chunks(c))[i] = Chunks(r)[i]
  <2>1. Chunks(c)[i + 1] = SubSeq(c, 3 * (i + 1) - 2, 3 * (i + 1))
    <3> DEFINE j == i + 1
    <3>1. j \in 1..n
      BY <1>5
    <3> HIDE DEF j
    <3>2. Chunks(c)[j] = SubSeq(c, 3 * j - 2, 3 * j)
      BY <1>8, <3>1
    <3> QED BY <3>2 DEF j
  <2> QED BY <1>3, <1>9, <1>11, <2>1, Zenon
<1>14. Tail(Chunks(c)) = Chunks(r)
  BY <1>9, <1>11, <1>13, SeqEqual
<1> QED BY <1>1, <1>6, <1>7, <1>10, <1>12, <1>14 DEF c, m

(***************************************************************************)
(* What a step does to the mouse's bytes that are read or wait.            *)
(***************************************************************************)
MouseBytes == packet \o PendingAux

AuxPort == IF out.from = "aux" THEN <<out.byte>> ELSE <<>>

LEMMA MouseWaiting ==
  ASSUME TypeOK
  PROVE  /\ packet \in Seq(MouseByte) /\ auxQ \in Seq(MouseByte)
         /\ AuxPort \in Seq(MouseByte)
         /\ PendingAux = AuxPort \o auxQ /\ PendingAux \in Seq(MouseByte)
         /\ MouseBytes \in Seq(MouseByte) /\ Packets = Chunks(MouseBytes)
<1>1. packet \in Seq(MouseByte) /\ auxQ \in Seq(MouseByte)
  BY TypeParts DEF AuxTypes
<1>2. AuxPort \in Seq(MouseByte)
  <2>1. CASE out.from = "aux"
    <3>1. out.byte \in MouseByte
      BY <2>1, TypeParts DEF PortTypes, Empty
    <3>2. \A x \in MouseByte : <<x>> \in Seq(MouseByte)
      OBVIOUS
    <3> QED BY <2>1, <3>1, <3>2 DEF AuxPort
  <2>2. CASE out.from # "aux"
    BY <2>2, EmptySeq DEF AuxPort
  <2> QED BY <2>1, <2>2
<1>3. PendingAux = AuxPort \o auxQ
  BY DEF PendingAux, AuxPort
<1>4. PendingAux \in Seq(MouseByte)
  BY <1>1, <1>2, <1>3, ConcatProperties
<1>5. MouseBytes \in Seq(MouseByte)
  BY <1>1, <1>4, ConcatProperties DEF MouseBytes
<1>6. Packets = Chunks(MouseBytes)
  BY DEF Packets, Chunks, MouseBytes
<1> QED BY <1>1, <1>2, <1>3, <1>4, <1>5, <1>6

LEMMA MouseIdle ==
  ASSUME UNCHANGED <<auxQ, packet>>,
         out' = out \/ (out.from # "aux" /\ out'.from # "aux")
  PROVE  MouseBytes' = MouseBytes
<1>1. PendingAux' = PendingAux
  BY DEF PendingAux
<1> QED BY <1>1 DEF MouseBytes

LEMMA MouseShifted ==
  ASSUME TypeOK, ShiftAux
  PROVE  MouseBytes' = MouseBytes
<1>1. /\ auxQ # <<>> /\ out.from # "aux" /\ auxQ' = Tail(auxQ)
      /\ out'.from = "aux" /\ out'.byte = Head(auxQ) /\ packet' = packet
  BY DEF ShiftAux, Empty, driver
<1>2. auxQ \in Seq(MouseByte)
  BY MouseWaiting
<1>3. PendingAux = auxQ
  BY <1>1, <1>2, ConcatEmptySeq DEF PendingAux
<1>4. PendingAux' = <<Head(auxQ)>> \o Tail(auxQ)
  BY <1>1 DEF PendingAux
<1>5. auxQ = <<Head(auxQ)>> \o Tail(auxQ)
  BY <1>1, <1>2, HeadTailProperties
<1> QED BY <1>1, <1>3, <1>4, <1>5 DEF MouseBytes

LEMMA MouseMoved ==
  ASSUME TypeOK, NEW p \in Packet, MoveMouse(p)
  PROVE  MouseBytes' = MouseBytes \o p
<1>1. auxQ' = auxQ \o p /\ out' = out /\ packet' = packet
  BY DEF MoveMouse, driver
<1>2. /\ packet \in Seq(MouseByte) /\ auxQ \in Seq(MouseByte)
      /\ AuxPort \in Seq(MouseByte)
      /\ PendingAux = AuxPort \o auxQ /\ PendingAux \in Seq(MouseByte)
      /\ p \in Seq(MouseByte)
  BY MouseWaiting, PacketSeq
<1>3. PendingAux' = AuxPort \o (auxQ \o p)
  BY <1>1 DEF PendingAux, AuxPort
<1>4. PendingAux' = PendingAux \o p
  <2>1. AuxPort \in Seq(MouseByte) /\ auxQ \in Seq(MouseByte) /\ p \in Seq(MouseByte)
    BY <1>2
  <2>2. (AuxPort \o auxQ) \o p = AuxPort \o (auxQ \o p)
    BY <2>1, AuxConcat
  <2>3. PendingAux = AuxPort \o auxQ
    BY <1>2
  <2> QED BY <1>3, <2>2, <2>3, Zenon
<1>5. MouseBytes' = packet \o (PendingAux \o p)
  BY <1>1, <1>4, Zenon DEF MouseBytes
<1>6. (packet \o PendingAux) \o p = packet \o (PendingAux \o p)
  <2>1. packet \in Seq(MouseByte) /\ PendingAux \in Seq(MouseByte) /\ p \in Seq(MouseByte)
    BY <1>2
  <2> QED BY <2>1, AuxConcat
<1> QED BY <1>5, <1>6, Zenon DEF MouseBytes

(* A byte is kept, or it completes the packet that waits the longest.      *)
LEMMA MouseCollected ==
  ASSUME TypeOK, Poll, out.from = "aux", NEW n \in Nat, Whole(MouseBytes, n)
  PROVE  \/ MouseBytes' = MouseBytes /\ report' = report
         \/ \E full \in Seq(MouseByte) :
              /\ Len(full) = 3 /\ MouseBytes = full \o MouseBytes'
              /\ MouseBytes' \in Seq(MouseByte) /\ Complete(full)
<1> DEFINE b == out.byte
           full == Append(packet, b)
<1>1. Collect(b) /\ out' = Empty /\ auxQ' = auxQ
  BY DEF Poll, env
<1>2. /\ packet \in Seq(MouseByte) /\ Len(packet) \in 0..2 /\ auxQ \in Seq(MouseByte)
      /\ b \in MouseByte
  BY TypeParts DEF AuxTypes, PortTypes, Empty
<1>3. PendingAux = <<b>> \o auxQ /\ MouseBytes = packet \o (<<b>> \o auxQ)
  BY DEF MouseBytes, PendingAux
<1>4. full \in Seq(MouseByte) /\ Len(full) = Len(packet) + 1 /\ full = packet \o <<b>>
  BY <1>2, AppendProperties, AppendIsConcat
<1>5. <<b>> \in Seq(MouseByte)
  <2> HIDE DEF b
  <2> QED BY <1>2
<1>6. MouseBytes = full \o auxQ
  <2> DEFINE r == <<b>>
  <2>1. (packet \o r) \o auxQ = packet \o (r \o auxQ)
    <3> HIDE DEF r
    <3>1. r \in Seq(MouseByte)
      BY <1>5 DEF r
    <3> QED BY <1>2, <3>1, ConcatAssociative
  <2> QED BY <1>3, <1>4, <2>1
<1>7. PendingAux' = auxQ /\ MouseBytes' = packet' \o auxQ
  BY <1>1, <1>2, ConcatEmptySeq DEF MouseBytes, PendingAux, Empty
<1> HIDE DEF full
<1>8. ASSUME packet = <<>>, ~b.sync PROVE FALSE
  <2>1. full[1] = b /\ 1 <= Len(full)
    BY <1>2, <1>4, <1>8, AppendProperties, EmptySeq DEF full
  <2>2. MouseBytes[1] = b /\ Len(MouseBytes) >= 1
    <3>1. /\ Len(full \o auxQ) = Len(full) + Len(auxQ) /\ Len(auxQ) \in Nat
          /\ \A i \in 1..(Len(full) + Len(auxQ)) :
               (full \o auxQ)[i] = IF i <= Len(full) THEN full[i] ELSE auxQ[i - Len(full)]
      BY <1>2, <1>4, ConcatProperties
    <3>2. 1 \in 1..(Len(full) + Len(auxQ))
      BY <1>2, <1>4, <2>1, <3>1
    <3> QED BY <1>4, <1>6, <2>1, <3>1, <3>2
  <2>3. Len(MouseBytes) = 3 * n /\ n >= 1
    BY <2>2 DEF Whole
  <2>4. SubSeq(MouseBytes, 1, 3) \in Packet
    <3>1. 1 \in 1..n /\ 3 * 1 - 2 = 1 /\ 3 * 1 = 3
      BY <2>3
    <3>2. SubSeq(MouseBytes, 3 * 1 - 2, 3 * 1) \in Packet
      BY <3>1 DEF Whole
    <3> QED BY <3>1, <3>2
  <2>5. SubSeq(MouseBytes, 1, 3)[1] = b
    <3>1. MouseBytes \in Seq(MouseByte) /\ 3 <= Len(MouseBytes)
      BY <2>3, MouseWaiting
    <3>2. \A i \in 1..3 : MouseBytes[i] \in MouseByte
      BY <3>1, ElementOfSeq
    <3>3. \A i \in 1..3 : SubSeq(MouseBytes, 1, 3)[i] = MouseBytes[1 + i - 1]
      <4>1. \A i \in 1..(3 - 1 + 1) : SubSeq(MouseBytes, 1, 3)[i] = MouseBytes[1 + i - 1]
        BY <3>2, SubSeqProperties
      <4> QED BY <4>1
    <3>4. SubSeq(MouseBytes, 1, 3)[1] = MouseBytes[1]
      BY <3>3
    <3> QED BY <2>2, <3>4
  <2> QED BY <1>8, <2>4, <2>5, PacketSeq
<1>9. CASE Len(packet) < 2
  <2>1. packet' = full /\ report' = report
    BY <1>1, <1>8, <1>9 DEF Collect, full
  <2> QED BY <1>6, <1>7, <2>1
<1>10. CASE ~(Len(packet) < 2)
  <2>1. packet' = <<>> /\ Complete(full)
    BY <1>1, <1>8, <1>10 DEF Collect, full
  <2>2. Len(full) = 3
    BY <1>2, <1>4, <1>10
  <2>3. MouseBytes' = auxQ
    BY <1>2, <1>7, <2>1, ConcatEmptySeq
  <2> QED BY <1>2, <1>4, <1>6, <2>1, <2>2, <2>3
<1> QED BY <1>9, <1>10

-----------------------------------------------------------------------------
(***************************************************************************)
(* The promise of Streams, but for liveness: with devices whose bytes are  *)
(* not lost, which is to say without the keys that cause an LED update,    *)
(* without left Shift, whose release is, and with a mouse that is still    *)
(* while mouse_init empties the controller.                                *)
(***************************************************************************)
NothingIsLost ==
  /\ ~HasPause /\ ~CutsPacket
  /\ \A k \in Key : k \notin Lock /\ k.code # SHIFT

Quiet ==
  /\ pc \in {"keyboard", "mouse", "again"} /\ lostKbd = FALSE
  /\ \E n \in Nat : Whole(MouseBytes, n)

SInv == TypeOK /\ WellSent /\ InTouch /\ Quiet

(* A press or release that the driver handles is the first that waits.     *)
LEMMA HandledFirst ==
  ASSUME NothingIsLost, TypeOK, WellSent, InTouch, out.from = "kbd",
         HandleByte(out.byte), out' = Empty, kbdQ' = kbdQ
  PROVE  \/ Ahead'.keys = Ahead.keys /\ UNCHANGED <<down, report>> /\ pc' = "mouse"
         \/ \E e \in Event :
              /\ Ahead.keys # <<>> /\ Head(Ahead.keys) = e
              /\ Ahead'.keys = Tail(Ahead.keys)
              /\ Handle(e.key, e.up)
<1> DEFINE b == out.byte
           k == [code |-> b.code, ext |-> prefix]
           x == [key |-> k, up |-> b.up]
           r == Read(Start, b)
<1>1. /\ b \in KeyByte /\ b \in KbdByte /\ kbdQ \in Seq(KbdByte)
      /\ Ahead = ReadAll(r, kbdQ) /\ Ahead' = ReadAll(Start', kbdQ)
      /\ Start \in Reading /\ r \in Reading
  BY Leaving, Waiting, ReadTypes DEF WellSent
<1>2. Start' \in Reading /\ <<>> \in Seq(Typed)
  <2>1. prefix' \in BOOLEAN /\ down' \subseteq Mod
    BY <1>1, HandleTypes
  <2> QED BY <2>1, EmptySeq DEF Start, Reading
<1>3. Ack.code = ACK /\ Tested.code = SHIFT
  BY DEF Ack, Tested, Scan
<1>4. CASE b = Ack
  <2>1. Start' = Start /\ UNCHANGED <<down, report>> /\ pc' = "mouse"
    BY <1>3, <1>4, Codes DEF HandleByte, Start, Prefix
  <2>2. r = Start
    BY <1>3, <1>4 DEF Read
  <2> QED BY <1>1, <2>1, <2>2
<1>5. CASE b # Ack /\ b.code \in {E0, E1}
  <2>1. /\ prefix' = (b.code = E0) /\ UNCHANGED <<down, report>> /\ pc' = "mouse"
    BY <1>3, <1>5, Codes DEF HandleByte, Prefix
  <2>2. r = [prefix |-> (b.code = E0), down |-> down, keys |-> <<>>]
    BY <1>5, Codes DEF Read, Start
  <2>3. Start' = r
    BY <2>1, <2>2 DEF Start
  <2> QED BY <1>1, <2>1, <2>3
<1>6. CASE b # Ack /\ b.code \notin {E0, E1}
  <2>1. r = [prefix |-> FALSE, down |-> DownAfter(down, k, b.up),
             keys |-> Append(<<>>, x)]
    BY <1>1, <1>6 DEF Read, Start, KeyByte
  <2>2. x \in Typed
    <3>1. prefix \in BOOLEAN
      BY TypeParts DEF KbdTypes
    <3> QED BY <1>1, <3>1 DEF Typed, KbdByte
  <2>3. /\ <<x>> \in Seq(Typed) /\ Append(<<>>, x) = <<x>> /\ <<x>> = <<x>> \o <<>>
    <3> HIDE DEF x
    <3> QED BY <2>2
  <2> DEFINE t == [prefix |-> FALSE, down |-> r.down, keys |-> <<>>]
  <2>4. t.prefix = FALSE /\ t.down = r.down /\ t.keys = <<>> /\ t \in Reading
    BY <1>1, <1>2 DEF Reading
  <2> HIDE DEF r, t, x, k
  <2>5. r.prefix = FALSE /\ r.down = DownAfter(down, k, b.up) /\ r.keys = <<x>>
    BY <2>1, <2>3
  <2>6. Later(r, t, <<x>>)
    BY <2>3, <2>4, <2>5 DEF Later
  <2> DEFINE rest == ReadAll(t, kbdQ).keys
  <2>7. Ahead.keys = <<x>> \o rest /\ rest \in Seq(Typed)
    <3>1. ReadAll(t, kbdQ) \in Reading /\ Later(Ahead, ReadAll(t, kbdQ), <<x>>)
      BY <1>1, <2>3, <2>4, <2>6, ReadAllLater
    <3> QED BY <3>1 DEF Later, Reading
  <2> HIDE DEF rest
  <2>8. x \in Event
    <3>1. <<x>> \in Seq(Event)
      BY <2>3, <2>7, Factors DEF InTouch
    <3>2. \A y \in Seq(Event) : y # <<>> => y[1] \in Event
      OBVIOUS
    <3>3. <<x>> # <<>> /\ <<x>>[1] = x
      OBVIOUS
    <3> QED BY <3>1, <3>2, <3>3
  <2>9. x.key = k /\ x.up = b.up /\ k.code = b.code /\ k \in Key
    BY <2>8 DEF x, k, Event, Sendable, NothingIsLost
  <2>10. b # Tested /\ Handle(x.key, x.up)
    <3>1. b.code # SHIFT
      BY <2>9 DEF NothingIsLost
    <3> QED BY <1>3, <1>6, <2>9, <3>1 DEF HandleByte, Prefix, k
  <2>11. Start' = t
    <3>1. prefix' = FALSE /\ down' = DownAfter(down, k, b.up)
      BY <2>9, <2>10 DEF Handle
    <3> QED BY <2>5, <3>1 DEF Start, t
  <2>12. Ahead'.keys = rest
    BY <1>1, <2>11 DEF rest
  <2>13. Ahead.keys # <<>> /\ Head(Ahead.keys) = x /\ Tail(Ahead.keys) = rest
    <3>1. /\ <<x>> \o rest # <<>> /\ Head(<<x>> \o rest) = x
          /\ Tail(<<x>> \o rest) = rest
      BY <2>2, <2>7
    <3> QED BY <2>7, <3>1
  <2> QED BY <2>8, <2>10, <2>12, <2>13
<1> QED BY <1>4, <1>5, <1>6

-----------------------------------------------------------------------------
LEMMA PacketsAre ==
  /\ Packets = Chunks(MouseBytes)
  /\ Packets' = Chunks(MouseBytes')
BY DEF Packets, Chunks, MouseBytes

LEMMA TypeStep ==
  ASSUME TypeOK, InTouch, NEW k \in Key, NEW up \in BOOLEAN, Type(Bytes(k, up))
  PROVE  Promise!Next /\ MouseBytes' = MouseBytes
<1> DEFINE e == [key |-> k, up |-> up]
<1>1. e \in Promise!Event
  BY DEF Promise!Event
<1>2. Ahead'.keys = Append(Ahead.keys, e)
  BY KeyTyped
<1>3. MouseBytes' = MouseBytes /\ UNCHANGED <<down, report>>
  BY MouseIdle DEF Type, driver
<1>4. Packets' = Packets
  BY <1>3, PacketsAre
<1> HIDE DEF e
<1>5. Promise!Type(e)
  BY <1>2, <1>3, <1>4 DEF Promise!Type
<1> QED BY <1>1, <1>3, <1>5 DEF Promise!Next

LEMMA MoveStep ==
  ASSUME TypeOK, NEW n \in Nat, Whole(MouseBytes, n), NEW p \in Packet, MoveMouse(p)
  PROVE  Promise!Next /\ Whole(MouseBytes', n + 1)
<1>1. MouseBytes' = MouseBytes \o p
  BY MouseMoved
<1>2. /\ Whole(MouseBytes \o p, n + 1)
      /\ Chunks(MouseBytes \o p) = Append(Chunks(MouseBytes), p)
  BY ChunksAppend, MouseWaiting
<1>3. Packets' = Append(Packets, p)
  BY <1>1, <1>2, PacketsAre
<1>4. Ahead' = Ahead /\ UNCHANGED <<down, report>>
  <2>1. UNCHANGED <<kbdQ, prefix, down, out, report>>
    BY DEF MoveMouse, driver
  <2> QED BY <2>1, Idle
<1>5. Promise!Move(p)
  BY <1>3, <1>4 DEF Promise!Move
<1> QED BY <1>1, <1>2, <1>5 DEF Promise!Next

LEMMA KeyStep ==
  ASSUME NothingIsLost, TypeOK, WellSent, InTouch, PollKey
  PROVE  /\ [Promise!Next]_(Promise!vars)
         /\ MouseBytes' = MouseBytes /\ pc' = "mouse"
<1>1. MouseBytes' = MouseBytes
  BY MouseIdle DEF PollKey, env, Empty
<1>2. Packets' = Packets
  BY <1>1, PacketsAre
<1>3. CASE out.from # "kbd"
  <2>1. UNCHANGED <<kbdQ, prefix, down, out, report>> /\ pc' = "mouse"
    BY <1>3 DEF PollKey, env
  <2>2. Ahead' = Ahead
    BY <2>1, Idle
  <2> QED BY <1>1, <1>2, <2>1, <2>2 DEF Promise!vars
<1>4. CASE out.from = "kbd"
  <2>1. HandleByte(out.byte) /\ out' = Empty /\ kbdQ' = kbdQ
    BY <1>4 DEF PollKey, env
  <2>2. CASE Ahead'.keys = Ahead.keys /\ UNCHANGED <<down, report>> /\ pc' = "mouse"
    BY <1>1, <1>2, <2>2 DEF Promise!vars
  <2>3. ASSUME NEW e \in Event, Ahead.keys # <<>>, Head(Ahead.keys) = e,
               Ahead'.keys = Tail(Ahead.keys), Handle(e.key, e.up)
        PROVE  Promise!HandleKey /\ pc' = "mouse"
    <3>1. /\ down' = DownAfter(down, e.key, e.up) /\ Return(e.key, e.up)
          /\ pc' = IF e.key \in Lock /\ ~e.up THEN "led" ELSE "mouse"
      BY <2>3 DEF Handle
    <3>2. e.key \notin Lock
      BY DEF Event, Sendable, NothingIsLost
    <3>3. Promise!HandleKey
      BY <1>2, <2>3, <3>1 DEF Promise!HandleKey, DownAfter, Return
    <3> QED BY <3>1, <3>2, <3>3
  <2> QED BY <1>1, <1>4, <2>1, <2>2, <2>3, HandledFirst DEF Promise!Next
<1> QED BY <1>3, <1>4

LEMMA MouseStep ==
  ASSUME TypeOK, NEW n \in Nat, Whole(MouseBytes, n), Poll
  PROVE  /\ [Promise!Next]_(Promise!vars)
         /\ \E m \in Nat : Whole(MouseBytes', m)
<1>1. Ahead' = Ahead /\ down' = down
  <2>1. /\ UNCHANGED <<kbdQ, prefix, down>>
        /\ out' = out \/ (out.from # "kbd" /\ out'.from # "kbd")
    BY DEF Poll, env, Empty
  <2> QED BY <2>1, Idle
<1>2. CASE MouseBytes' = MouseBytes /\ report' = report
  <2>1. Packets' = Packets
    BY <1>2, PacketsAre
  <2> QED BY <1>1, <1>2, <2>1 DEF Promise!vars
<1>3. CASE out.from # "aux"
  <2>1. UNCHANGED <<auxQ, packet, out, report>>
    BY <1>3 DEF Poll, env
  <2>2. MouseBytes' = MouseBytes
    BY <2>1, MouseIdle
  <2> QED BY <1>2, <2>1, <2>2
<1>4. ASSUME NEW full \in Seq(MouseByte), Len(full) = 3, MouseBytes = full \o MouseBytes',
             MouseBytes' \in Seq(MouseByte), Complete(full)
      PROVE  Promise!HandlePacket /\ \E m \in Nat : Whole(MouseBytes', m)
  <2> DEFINE r == MouseBytes'
  <2>1. Whole(full \o r, n) /\ r \in Seq(MouseByte)
    BY <1>4
  <2>2. Packets = Chunks(full \o r) /\ Packets' = Chunks(r)
    BY <1>4, PacketsAre
  <2> HIDE DEF r
  <2>3. /\ n - 1 \in Nat /\ Whole(r, n - 1) /\ full \in Packet
        /\ Chunks(full \o r) # <<>> /\ Head(Chunks(full \o r)) = full
        /\ Tail(Chunks(full \o r)) = Chunks(r)
    BY <1>4, <2>1, ChunksHead
  <2>4. Packets # <<>> /\ Head(Packets) = full /\ Packets' = Tail(Packets)
    BY <2>2, <2>3
  <2>5. report' = IF full \in { p \in Packet : p[1].over } THEN report
                  ELSE [kind |-> "mouse", packet |-> full]
    BY <1>4, <2>3 DEF Complete
  <2>6. Promise!HandlePacket
    BY <1>1, <2>4, <2>5 DEF Promise!HandlePacket
  <2> QED BY <2>3, <2>6 DEF r
<1> QED BY <1>2, <1>3, <1>4, MouseCollected DEF Promise!Next

LEMMA StreamStep ==
  ASSUME NothingIsLost, SInv, [Next]_vars
  PROVE  [Promise!Next]_(Promise!vars) /\ Quiet'
<1>1. TypeOK /\ WellSent /\ InTouch /\ Quiet
  BY DEF SInv
<1>2. PICK n \in Nat : Whole(MouseBytes, n)
  BY <1>1 DEF Quiet
<1>3. pc \in {"keyboard", "mouse", "again"} /\ lostKbd = FALSE
  BY <1>1 DEF Quiet
<1>4. ASSUME Ahead' = Ahead, MouseBytes' = MouseBytes, UNCHANGED <<down, report, pc, lostKbd>>
      PROVE  [Promise!Next]_(Promise!vars) /\ Quiet'
  <2>1. Packets' = Packets
    BY <1>4, PacketsAre
  <2>2. Promise!vars' = Promise!vars
    BY <1>4, <2>1 DEF Promise!vars
  <2> QED BY <1>2, <1>3, <1>4, <2>2 DEF Quiet
<1>5. ASSUME NEW k \in Key, KeyDown(k) \/ KeyUp(k)
      PROVE  [Promise!Next]_(Promise!vars) /\ Quiet'
  <2>1. PICK up \in BOOLEAN : Type(Bytes(k, up))
    BY <1>5 DEF KeyDown, KeyUp
  <2>2. Promise!Next /\ MouseBytes' = MouseBytes
    BY <1>1, <2>1, TypeStep
  <2>3. pc' = pc /\ lostKbd' = lostKbd
    BY <2>1 DEF Type, history
  <2> QED BY <1>2, <1>3, <2>2, <2>3 DEF Quiet
<1>6. ASSUME NEW p \in Packet, MoveMouse(p)
      PROVE  [Promise!Next]_(Promise!vars) /\ Quiet'
  <2>1. Promise!Next /\ Whole(MouseBytes', n + 1)
    BY <1>1, <1>2, <1>6, MoveStep
  <2>2. pc' = pc /\ lostKbd' = lostKbd /\ n + 1 \in Nat
    BY <1>6 DEF MoveMouse, history
  <2> QED BY <1>3, <2>1, <2>2 DEF Quiet
<1>7. CASE ShiftKbd
  <2>1. Ahead' = Ahead
    BY <1>1, <1>7, Shifted
  <2>2. UNCHANGED <<auxQ, packet, down, report, pc, lostKbd>> /\ out.from # "aux" /\ out'.from # "aux"
    BY <1>7 DEF ShiftKbd, driver, history, Empty
  <2>3. MouseBytes' = MouseBytes
    BY <2>2, MouseIdle
  <2> QED BY <1>4, <2>1, <2>2, <2>3
<1>8. CASE ShiftAux
  <2>1. MouseBytes' = MouseBytes
    BY <1>1, <1>8, MouseShifted
  <2>2. /\ UNCHANGED <<kbdQ, prefix, down, report, pc, lostKbd>>
        /\ out.from # "kbd" /\ out'.from # "kbd"
    BY <1>8 DEF ShiftAux, driver, history, Empty
  <2>3. Ahead' = Ahead
    BY <2>2, Idle
  <2> QED BY <1>4, <2>1, <2>2, <2>3
<1>9. CASE PollKey
  <2>1. [Promise!Next]_(Promise!vars) /\ MouseBytes' = MouseBytes /\ pc' = "mouse"
    BY <1>1, <1>9, KeyStep
  <2>2. lostKbd' = lostKbd
    BY <1>9 DEF PollKey, history
  <2> QED BY <1>2, <1>3, <2>1, <2>2 DEF Quiet
<1>10. CASE PollMouse \/ PollMouseAgain
  <2>1. Poll /\ pc' \in {"again", "keyboard"}
    BY <1>10 DEF PollMouse, PollMouseAgain
  <2>2. [Promise!Next]_(Promise!vars) /\ \E m \in Nat : Whole(MouseBytes', m)
    BY <1>1, <1>2, <2>1, MouseStep
  <2>3. lostKbd' = lostKbd
    BY <2>1 DEF Poll, history
  <2> QED BY <1>3, <2>1, <2>2, <2>3 DEF Quiet
<1>11. ~Pause /\ ~SendLedCommand /\ ~AwaitAnswer /\ ~SendLedValue /\ ~AwaitSecond
  BY <1>3 DEF Pause, NothingIsLost, SendLedCommand, AwaitAnswer, SendLedValue, AwaitSecond
<1>12. CASE UNCHANGED vars
  <2>1. UNCHANGED <<kbdQ, auxQ, prefix, down, packet, report, out, pc, lostKbd>>
    BY <1>12 DEF vars, env, driver, history
  <2> QED BY <1>4, <2>1, Idle, MouseIdle
<1> QED BY <1>5, <1>6, <1>7, <1>8, <1>9, <1>10, <1>11, <1>12 DEF Next

LEMMA StreamInit ==
  ASSUME NothingIsLost, Init
  PROVE  Promise!Init /\ Quiet
<1>1. /\ kbdQ = <<>> /\ auxQ = <<>> /\ out = Empty /\ packet = <<>>
      /\ prefix = FALSE /\ down = {} /\ report = [kind |-> "nothing"]
      /\ pc = "keyboard" /\ lostKbd = FALSE
  BY DEF Init, LeftByInit, NothingIsLost
<1>2. PendingKbd = <<>> /\ MouseBytes = <<>>
  <2>1. <<>> \o <<>> = <<>>
    BY ConcatEmptySeq, EmptySeq
  <2> QED BY <1>1, <2>1 DEF PendingKbd, PendingAux, MouseBytes, Empty
<1>3. Ahead.keys = <<>>
  <2>1. Ahead = [prefix |-> FALSE, down |-> {}, keys |-> <<>>]
    BY <1>1, <1>2, ReadNone DEF Ahead
  <2> QED BY <2>1
<1>4. Len(MouseBytes) = 0
  BY <1>2, EmptySeq
<1>5. Whole(MouseBytes, 0)
  BY <1>4 DEF Whole
<1>6. Packets = <<>>
  <2>1. Len(Packets) = 0 /\ Packets \in Seq(Packet)
    BY <1>5, WholeChunks, PacketsAre
  <2> QED BY <2>1, EmptySeq
<1>7. Quiet
  BY <1>1, <1>5 DEF Quiet
<1> QED BY <1>1, <1>3, <1>6, <1>7 DEF Promise!Init, Promise!Nothing

(***************************************************************************)
(* The two drivers on their shared port are two streams: every step hands  *)
(* over the key or the packet that has waited the longest, with the        *)
(* modifiers as they were when it was typed, or changes nothing that the   *)
(* desktop could tell.                                                     *)
(***************************************************************************)
THEOREM StreamsStaySeparate ==
  ASSUME NothingIsLost
  PROVE  Spec => Promise!Safety
<1>0. ShiftIsPlain
  BY DEF NothingIsLost, ShiftIsPlain
<1>1. Init => SInv /\ Promise!Init
  BY InitPInv, InitInTouch, StreamInit DEF SInv, PInv
<1>2. SInv /\ [Next]_vars => SInv' /\ [Promise!Next]_(Promise!vars)
  <2> SUFFICES ASSUME SInv, [Next]_vars PROVE SInv' /\ [Promise!Next]_(Promise!vars)
    OBVIOUS
  <2>1. [Promise!Next]_(Promise!vars) /\ Quiet'
    BY StreamStep
  <2>2. TypeOK' /\ WellSent' /\ (lostKbd' \/ InTouch')
    BY <1>0, TypesKept, WellSentKept, InTouchKept DEF SInv
  <2> QED BY <2>1, <2>2 DEF SInv, Quiet
<1> QED BY <1>1, <1>2, PTL DEF Spec, Promise!Safety
=============================================================================
