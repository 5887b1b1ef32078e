-------------------------------- MODULE Ps2 ---------------------------------
(***************************************************************************)
(* The polled input of the kernel: keyboard_poll_key of keyboard.c with    *)
(* its LED update, mouse_poll of mouse.c, and the loop of kernel_main that *)
(* calls them, on one PS/2 controller that both devices share.             *)
(*                                                                         *)
(* The controller holds one byte for the processor at a time and says      *)
(* whether it came from the mouse.  The devices and their queues are       *)
(* external: they are what the drivers expect of them.  A keyboard byte is *)
(* a code and whether it is a release; of a mouse byte only the bits that  *)
(* mouse_poll looks at in a first byte are kept, and `pos', its real place *)
(* in its packet, which the driver cannot see.                             *)
(***************************************************************************)
EXTENDS Integers, SequencesExt

CONSTANTS
  Code,        \* scan codes, with the three below
  E0, E1,      \* the prefixes of extended keys and of Pause
  ACK,         \* 0xFA
  SHIFT,       \* the code of left Shift, whose release is 0xAA
  CTRL, NUM,   \* the codes of left Ctrl and Num Lock, which Pause contains
  Key,         \* the keys of the keyboard
  Mod,         \* Shift, Ctrl and Alt, left and right
  Lock,        \* Caps Lock, Num Lock and Scroll Lock
  Shown,       \* the keys for which keyboard_poll_key returns something
  HasPause,    \* whether the keyboard has a Pause key that is used
  Packet,      \* the packets the mouse sends: three bytes each
  CutsPacket,  \* whether mouse_init can end in the middle of a packet
  MaxKbd,      \* bound: bytes waiting in the keyboard
  MaxAux,      \* bound: bytes waiting in the mouse
  MaxLocks,    \* bound: lock keys and Pauses pressed
  MaxAstray    \* bound: bytes taken for a first byte before the mouse rests

MouseByte == [pos : 1..3, sync : BOOLEAN, over : BOOLEAN, left : BOOLEAN]

ASSUME CodeAssumption ==
  /\ {E0, E1, ACK, SHIFT, CTRL, NUM} \subseteq Code
  /\ IsInjective(<<E0, E1, ACK, SHIFT, CTRL, NUM>>)
  /\ Key \subseteq [code : Code \ {E0, E1, ACK}, ext : BOOLEAN]
  /\ Mod \subseteq [code : Code, ext : BOOLEAN]
  /\ Shown \subseteq [code : Code, ext : BOOLEAN]
  /\ Lock \subseteq [code : Code, ext : {FALSE}]
  /\ [code |-> NUM, ext |-> FALSE] \in Lock
  /\ Mod \intersect (Lock \union Shown) = {} /\ Lock \intersect Shown = {}

ASSUME PacketAssumption ==
  /\ \A p \in Packet : p \in [1..3 -> MouseByte]
  /\ \A p \in Packet : p[1].sync /\ \A i \in 1..3 : p[i].pos = i

ASSUME BoundAssumption ==
  /\ {MaxKbd, MaxAux, MaxLocks, MaxAstray} \subseteq Nat
  /\ HasPause \in BOOLEAN /\ CutsPacket \in BOOLEAN

Scan(c, up) == [code |-> c, up |-> up]

Ack == Scan(ACK, FALSE)

(* 0xAA, which keyboard_poll_key takes for the result of a self-test.      *)
Tested == Scan(SHIFT, TRUE)

LeftShift == [code |-> SHIFT, ext |-> FALSE]

Empty == [from |-> "none"]

VARIABLES
  held,      \* the keys that are held down
  kbdQ,      \* bytes waiting in the keyboard
  auxQ,      \* bytes waiting in the mouse
  out,       \* the output buffer of the controller
  pc,        \* where the loop is
  prefix,    \* extended_prefix
  down,      \* shift_left .. alt_right: the modifiers the driver holds down
  locks,     \* caps_lock, num_lock and scroll_lock: those that are on
  packet,    \* packet[] and packet_index of mouse_poll
  report,    \* history: the last thing handed to the desktop
  lostKbd,   \* history: an LED update has taken a byte that was no answer
  lostAux,   \* history: mouse bytes that mouse_poll never saw
  bogus,     \* history: reported packets that were put together wrongly
  astray,    \* history: other bytes that mouse_poll has taken for a first byte
  presses    \* history: lock keys and Pauses pressed

env == <<held, kbdQ, auxQ, presses>>
driver == <<prefix, down, locks, packet, report, bogus, astray>>
history == <<lostKbd, lostAux>>
vars == <<env, driver, history, out, pc>>

-----------------------------------------------------------------------------
(***************************************************************************)
(* The devices.  A key that is held repeats its press.                     *)
(***************************************************************************)
Bytes(k, up) ==
  IF k.ext THEN <<Scan(E0, FALSE), Scan(k.code, up)>> ELSE <<Scan(k.code, up)>>

PauseBytes ==
  <<Scan(E1, FALSE), Scan(CTRL, FALSE), Scan(NUM, FALSE),
    Scan(E1, FALSE), Scan(CTRL, TRUE), Scan(NUM, TRUE)>>

Type(bytes) ==
  /\ Len(kbdQ) + Len(bytes) <= MaxKbd
  /\ kbdQ' = kbdQ \o bytes
  /\ UNCHANGED <<auxQ, driver, history, out, pc>>

KeyDown(k) ==
  /\ k \in Lock => presses < MaxLocks
  /\ presses' = presses + IF k \in Lock THEN 1 ELSE 0
  /\ held' = held \union {k}
  /\ Type(Bytes(k, FALSE))

KeyUp(k) ==
  /\ k \in held
  /\ held' = held \ {k}
  /\ Type(Bytes(k, TRUE))
  /\ UNCHANGED presses

(* While Ctrl is held the same key is Break, an extended key like others.  *)
Pause ==
  /\ HasPause /\ presses < MaxLocks
  /\ \A k \in held : k.code # CTRL
  /\ presses' = presses + 1
  /\ Type(PauseBytes)
  /\ UNCHANGED held

MoveMouse(p) ==
  /\ Len(auxQ) + 3 <= MaxAux /\ astray < MaxAstray
  /\ auxQ' = auxQ \o p
  /\ UNCHANGED <<held, kbdQ, presses, driver, history, out, pc>>

ShiftKbd ==
  /\ out = Empty /\ kbdQ # <<>>
  /\ out' = [from |-> "kbd", byte |-> Head(kbdQ)]
  /\ kbdQ' = Tail(kbdQ)
  /\ UNCHANGED <<held, auxQ, presses, driver, history, pc>>

ShiftAux ==
  /\ out = Empty /\ auxQ # <<>>
  /\ out' = [from |-> "aux", byte |-> Head(auxQ)]
  /\ auxQ' = Tail(auxQ)
  /\ UNCHANGED <<held, kbdQ, presses, driver, history, pc>>

-----------------------------------------------------------------------------
(***************************************************************************)
(* keyboard_poll_key, up to an LED update.                                 *)
(***************************************************************************)
(* The modifiers that are down after key k went up or down.                *)
DownAfter(d, k, up) ==
  IF k \notin Mod THEN d ELSE IF up THEN d \ {k} ELSE d \union {k}

(* A lock key toggles when it goes down.                                   *)
LocksAfter(k, up) ==
  IF up \/ k \notin Lock THEN locks
  ELSE IF k \in locks THEN locks \ {k} ELSE locks \union {k}

(* What is returned to the loop, for a key that means something.           *)
Return(k, up) ==
  report' = IF k \in Shown /\ ~up
            THEN [kind |-> "key", key |-> k, down |-> down]
            ELSE report

(* Mutated form: the prefix outlives the key it belongs to.                *)
HandleKeepingPrefix(k, up) ==
  /\ UNCHANGED prefix
  /\ down' = DownAfter(down, k, up)
  /\ locks' = LocksAfter(k, up)
  /\ Return(k, up)
  /\ pc' = IF k \in Lock /\ ~up THEN "led" ELSE "mouse"

Handle(k, up) ==
  /\ prefix' = FALSE
  /\ down' = DownAfter(down, k, up)
  /\ locks' = LocksAfter(k, up)
  /\ Return(k, up)
  /\ pc' = IF k \in Lock /\ ~up THEN "led" ELSE "mouse"

(* Mutated form: 0xE0 is dropped like 0xE1.                                *)
PrefixDropped(b) ==
  /\ b.code \in {E0, E1}
  /\ prefix' = FALSE
  /\ pc' = "mouse"
  /\ UNCHANGED <<down, locks, report>>

Prefix(b) ==
  /\ b.code \in {E0, E1}
  /\ prefix' = (b.code = E0)
  /\ pc' = "mouse"
  /\ UNCHANGED <<down, locks, report>>

HandleByte(b) ==
  \/ /\ b \in {Ack, Tested}
     /\ pc' = "mouse"
     /\ UNCHANGED <<prefix, down, locks, report>>
  \/ Prefix(b)
  \/ /\ b \notin {Ack, Tested} /\ b.code \notin {E0, E1}
     /\ Handle([code |-> b.code, ext |-> prefix], b.up)

PollKey ==
  /\ pc = "keyboard"
  /\ IF out.from = "kbd"
     THEN HandleByte(out.byte) /\ out' = Empty
     ELSE pc' = "mouse" /\ UNCHANGED <<prefix, down, locks, report, out>>
  /\ UNCHANGED <<env, history, packet, bogus, astray>>

(***************************************************************************)
(* keyboard_update_leds.  A wait can end because time is up; sending can   *)
(* fail; the keyboard acknowledges before or after what it already has to  *)
(* send, or not at all.                                                    *)
(***************************************************************************)
Acknowledge ==
  /\ kbdQ' \in {kbdQ, <<Ack>> \o kbdQ, Append(kbdQ, Ack)}
  /\ UNCHANGED <<held, auxQ, presses>>

SendLedCommand ==
  /\ pc = "led"
  /\ \/ pc' = "answer" /\ Acknowledge
     \/ pc' = "mouse" /\ UNCHANGED env
  /\ UNCHANGED <<driver, history, out>>

(* A byte is taken without looking at where it came from.                  *)
TakeAnyByte ==
  /\ out # Empty
  /\ out' = Empty
  /\ lostKbd' = (lostKbd \/ (out.from = "kbd" /\ out.byte # Ack))
  /\ lostAux' = lostAux + IF out.from = "aux" THEN 1 ELSE 0

TimeIsUp ==
  /\ out = Empty
  /\ UNCHANGED <<out, history>>

(* The value of a mouse byte can be that of ACK, too.                      *)
MayBeAck == out.from = "aux" \/ out.byte = Ack

MayBeOther == out.from = "aux" \/ out.byte # Ack

AwaitAnswer ==
  /\ pc = "answer"
  /\ \/ TimeIsUp /\ pc' = "value"
     \/ TakeAnyByte /\ MayBeAck /\ pc' = "value"
     \/ TakeAnyByte /\ MayBeOther /\ pc' = "mouse"
  /\ UNCHANGED <<env, driver>>

SendLedValue ==
  /\ pc = "value"
  /\ pc' = "second"
  /\ (Acknowledge \/ UNCHANGED env)
  /\ UNCHANGED <<driver, history, out>>

(* Mutated form: only ACK ends the wait for the second answer.             *)
AwaitSecondAck ==
  /\ pc = "second"
  /\ TakeAnyByte
  /\ \/ MayBeAck /\ pc' = "mouse"
     \/ MayBeOther /\ UNCHANGED pc
  /\ UNCHANGED <<env, driver>>

AwaitSecond ==
  /\ pc = "second"
  /\ pc' = "mouse"
  /\ (TimeIsUp \/ TakeAnyByte)
  /\ UNCHANGED <<env, driver>>

-----------------------------------------------------------------------------
(***************************************************************************)
(* mouse_poll; `next' is where the loop goes when no packet is complete.   *)
(***************************************************************************)
Complete(full) ==
  IF full[1].over
  THEN UNCHANGED <<report, bogus>>
  ELSE /\ report' = [kind |-> "mouse", packet |-> full]
       /\ bogus' = bogus + IF \A i \in 1..3 : full[i].pos = i THEN 0 ELSE 1

(* Mutated form: any byte begins a packet.                                 *)
CollectUnchecked(b) ==
  IF Len(packet) < 2
  THEN packet' = Append(packet, b) /\ UNCHANGED <<report, bogus>>
  ELSE packet' = <<>> /\ Complete(Append(packet, b))

(* Mutated form: bit 3 is asked of every byte.                             *)
CollectSyncedOnly(b) ==
  IF ~b.sync THEN UNCHANGED <<packet, report, bogus>>
  ELSE IF Len(packet) < 2
       THEN packet' = Append(packet, b) /\ UNCHANGED <<report, bogus>>
       ELSE packet' = <<>> /\ Complete(Append(packet, b))

Collect(b) ==
  IF packet = <<>> /\ ~b.sync THEN UNCHANGED <<packet, report, bogus>>
  ELSE IF Len(packet) < 2
       THEN packet' = Append(packet, b) /\ UNCHANGED <<report, bogus>>
       ELSE packet' = <<>> /\ Complete(Append(packet, b))

(* Bit 3 can be set in the movement, too.                                   *)
GoesAstray(b) == packet = <<>> /\ b.sync /\ b.pos # 1

Reported == out.from = "aux" /\ Len(packet) = 2 /\ ~packet[1].over

Poll ==
  /\ IF out.from = "aux"
     THEN /\ Collect(out.byte) /\ out' = Empty
          /\ astray' = astray + IF GoesAstray(out.byte) THEN 1 ELSE 0
     ELSE UNCHANGED <<packet, report, bogus, astray, out>>
  /\ UNCHANGED <<env, history, prefix, down, locks>>

(* A report is processed, and mouse_poll called once more.                 *)
PollMouse ==
  /\ pc = "mouse"
  /\ Poll
  /\ pc' = IF Reported THEN "again" ELSE "keyboard"

(* Only a report of this call is followed by ui_draw.                      *)
PollMouseAgain ==
  /\ pc = "again"
  /\ Poll
  /\ pc' = "keyboard"

-----------------------------------------------------------------------------
(***************************************************************************)
(* mouse_init empties the controller once more after the mouse has been    *)
(* enabled: a first packet that is on its way can lose its first bytes.    *)
(***************************************************************************)
LeftByInit ==
  {<<>>} \union (IF CutsPacket
                 THEN { SubSeq(p, i, 3) : p \in Packet, i \in 2..3 } ELSE {})

Init ==
  /\ held = {}
  /\ kbdQ = <<>>
  /\ auxQ \in LeftByInit
  /\ out = Empty
  /\ pc = "keyboard"
  /\ prefix = FALSE
  /\ down = {}
  /\ locks = {}
  /\ packet = <<>>
  /\ report = [kind |-> "nothing"]
  /\ lostKbd = FALSE
  /\ lostAux = IF auxQ = <<>> THEN 0 ELSE 3 - Len(auxQ)
  /\ bogus = 0 /\ astray = 0
  /\ presses = 0

LedUpdate == SendLedCommand \/ AwaitAnswer \/ SendLedValue \/ AwaitSecond

Loop == PollKey \/ LedUpdate \/ PollMouse \/ PollMouseAgain

Next ==
  \/ \E k \in Key : KeyDown(k)
  \/ \E k \in Key : KeyUp(k)
  \/ Pause
  \/ \E p \in Packet : MoveMouse(p)
  \/ ShiftKbd
  \/ ShiftAux
  \/ PollKey
  \/ SendLedCommand
  \/ AwaitAnswer
  \/ SendLedValue
  \/ AwaitSecond
  \/ PollMouse
  \/ PollMouseAgain

(***************************************************************************)
(* The loop of kernel_main never stops, and a controller that has bytes of *)
(* both devices does not pass over one of them for ever.                   *)
(***************************************************************************)
Fairness == WF_vars(Loop) /\ SF_vars(ShiftKbd) /\ SF_vars(ShiftAux)

Spec == Init /\ [][Next]_vars /\ Fairness

-----------------------------------------------------------------------------
(***************************************************************************)
(* Every variable has its type; in particular a packet that is put together*)
(* begins with a byte whose bit 3 is set and never grows beyond 2 bytes.   *)
(***************************************************************************)
TypeOK ==
  /\ held \subseteq Key
  /\ kbdQ \in Seq([code : Code, up : BOOLEAN])
  /\ auxQ \in Seq(MouseByte)
  /\ out = Empty
     \/ out \in [from : {"kbd"}, byte : [code : Code, up : BOOLEAN]]
     \/ out \in [from : {"aux"}, byte : MouseByte]
  /\ pc \in {"keyboard", "led", "answer", "value", "second", "mouse", "again"}
  /\ prefix \in BOOLEAN
  /\ down \subseteq Mod
  /\ locks \subseteq Lock
  /\ packet \in Seq(MouseByte) /\ Len(packet) \in 0..2
  /\ packet # <<>> => packet[1].sync
  /\ lostKbd \in BOOLEAN
  /\ lostAux \in Nat /\ bogus \in Nat /\ astray \in Nat
  /\ presses \in 0..MaxLocks

PendingKbd == (IF out.from = "kbd" THEN <<out.byte>> ELSE <<>>) \o kbdQ

PendingAux == (IF out.from = "aux" THEN <<out.byte>> ELSE <<>>) \o auxQ

(***************************************************************************)
(* What the bytes of the keyboard stand for: the presses and releases, and *)
(* the modifiers that are down after them, from the driver's own state on. *)
(***************************************************************************)
Read(acc, b) ==
  LET k == [code |-> b.code, ext |-> acc.prefix] IN
    IF b.code = ACK THEN acc
    ELSE IF b.code \in {E0, E1} THEN [acc EXCEPT !.prefix = (b.code = E0)]
    ELSE [prefix |-> FALSE,
          down |-> DownAfter(acc.down, k, b.up),
          keys |-> Append(acc.keys, [key |-> k, up |-> b.up])]

ReadAll(start, bytes) ==
  LET read[i \in 0..Len(bytes)] ==
        IF i = 0 THEN start ELSE Read(read[i - 1], bytes[i])
  IN read[Len(bytes)]

Ahead == ReadAll([prefix |-> prefix, down |-> down, keys |-> <<>>], PendingKbd)

(* The packets that the bytes read and waiting make up.                    *)
Packets ==
  LET bytes == packet \o PendingAux
  IN [i \in 1..(Len(bytes) \div 3) |-> SubSeq(bytes, 3 * i - 2, 3 * i)]

Promise == INSTANCE Streams
  WITH keys <- Ahead.keys, packets <- Packets, Packet <- Packet,
       Overflow <- { p \in Packet : p[1].over }

(***************************************************************************)
(* Without lock keys the two drivers keep the promise of Streams: the test *)
(* of the status bit in each poll routes every byte to its driver, neither *)
(* driver waits for its device, and everything is handled in the end.      *)
(***************************************************************************)
StreamsKept == Promise!Spec

(***************************************************************************)
(* The driver's shift_left .. alt_right, brought up to date with what is   *)
(* still waiting, are the keys that are held: neither a late ACK nor the   *)
(* codes of Pause change that.  Only an LED update that has taken a scan   *)
(* code for its answer can make a modifier stick; left Shift always does,  *)
(* see ShiftIsReleased.                                                    *)
(***************************************************************************)
ModifiersFollow ==
  ~lostKbd => Ahead.down \ {LeftShift} = (held \intersect Mod) \ {LeftShift}

(***************************************************************************)
(* packet_index is the place in its packet of the next mouse byte, as long *)
(* as mouse_poll has seen every byte.                                      *)
(***************************************************************************)
Aligned ==
  lostAux = 0 /\ PendingAux # <<>> => PendingAux[1].pos = Len(packet) + 1

(***************************************************************************)
(* Every wrong report has a cause of its own: a byte that was taken from   *)
(* the mouse stream, or a byte of the movement in which bit 3 was set and  *)
(* which mouse_poll took for a first byte.  Bit 3 so brings it back into   *)
(* step at the first place where the movement does not imitate it, and     *)
(* nothing but a lost byte ever puts it out of step.                       *)
(***************************************************************************)
WrongPacketsHaveCauses ==
  /\ bogus <= lostAux + astray
  /\ lostAux = 0 => astray = 0

(***************************************************************************)
(* No answer of the keyboard keeps the loop in an LED update.              *)
(***************************************************************************)
LedUpdateEnds == pc = "led" ~> pc = "keyboard"

(***************************************************************************)
(* keyboard.c:756-759 says that 0x80 - 0xFF are releases, and line 789 that*)
(* the one of left Shift clears shift_left: when all keys are up and their *)
(* bytes read, left Shift is not down.                                     *)
(***************************************************************************)
ShiftIsReleased == held = {} /\ PendingKbd = <<>> => LeftShift \notin down
=============================================================================
