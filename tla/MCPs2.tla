------------------------------- MODULE MCPs2 --------------------------------
(***************************************************************************)
(* Small instances of Ps2 for TLC: a few keys of each kind.                *)
(***************************************************************************)
EXTENDS Ps2

CONSTANTS ALT, CAPS, A, UP

Codes == {E0, E1, ACK, CTRL, NUM, SHIFT, ALT, CAPS, A, UP}

Plain(c) == [code |-> c, ext |-> FALSE]
Extended(c) == [code |-> c, ext |-> TRUE]

Mods == {Plain(SHIFT), Plain(CTRL), Extended(CTRL), Extended(ALT)}
Locks == {Plain(CAPS), Plain(NUM)}
Visible == {Plain(A), Extended(UP)}

(* A modifier with a prefix and a character without one.                   *)
TypingKeys == {Extended(CTRL), Plain(A)}

(* A modifier that can be held while Pause is pressed.                     *)
AltKey == {Extended(ALT)}

ShiftKeys == {LeftShift, Plain(A)}

First(left, over) == [pos |-> 1, sync |-> TRUE, over |-> over, left |-> left]
Data(i, bits) == [pos |-> i, sync |-> bits, over |-> bits, left |-> bits]

(* Movements whose bytes have bit 3 clear, so that only a first byte has it*)
Still(left, over) == <<First(left, over), Data(2, FALSE), Data(3, FALSE)>>
Wide(left, over) == <<First(left, over), Data(2, TRUE), Data(3, FALSE)>>

(* One movement with bit 3 set in its data, and one that is too large.     *)
AnyPackets == {Wide(TRUE, FALSE), Still(FALSE, TRUE)}
OnePacket == {Still(TRUE, FALSE)}

(* A movement that has bit 3 in its second byte, but not in its third.     *)
MarkedPacket ==
  {<<First(TRUE, FALSE), [Data(2, FALSE) EXCEPT !.sync = TRUE], Data(3, FALSE)>>}
=============================================================================
