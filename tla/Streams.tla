------------------------------ MODULE Streams -------------------------------
(***************************************************************************)
(* What the two input drivers of the kernel promise together: although the *)
(* keyboard and the mouse share one port, each is a stream of its own.     *)
(* What is typed reaches the desktop once and in order, with the modifier  *)
(* keys as they were when it was typed, and so does every mouse packet.    *)
(***************************************************************************)
EXTENDS Sequences

CONSTANTS
  Key,       \* the keys of the keyboard
  Mod,       \* those that are only remembered: Shift, Ctrl and Alt
  Shown,     \* those whose press is handed to the desktop
  Packet,    \* what the mouse sends
  Overflow   \* the packets whose movement is too large, which are dropped

VARIABLES
  keys,      \* presses and releases that are not handled yet
  packets,   \* packets that are not handled yet
  down,      \* the modifiers that are down, after what was handled
  report     \* the last thing handed to the desktop

vars == <<keys, packets, down, report>>

Nothing == [kind |-> "nothing"]

Event == [key : Key, up : BOOLEAN]

Init ==
  /\ keys = <<>>
  /\ packets = <<>>
  /\ down = {}
  /\ report = Nothing

Type(e) ==
  /\ keys' = Append(keys, e)
  /\ UNCHANGED <<packets, down, report>>

Move(p) ==
  /\ packets' = Append(packets, p)
  /\ UNCHANGED <<keys, down, report>>

HandleKey ==
  /\ keys # <<>>
  /\ LET e == Head(keys) IN
       /\ down' = IF e.key \notin Mod THEN down
                  ELSE IF e.up THEN down \ {e.key}
                  ELSE down \union {e.key}
       /\ report' = IF e.key \in Shown /\ ~e.up
                    THEN [kind |-> "key", key |-> e.key, down |-> down]
                    ELSE report
  /\ keys' = Tail(keys)
  /\ UNCHANGED packets

HandlePacket ==
  /\ packets # <<>>
  /\ report' = IF Head(packets) \in Overflow THEN report
               ELSE [kind |-> "mouse", packet |-> Head(packets)]
  /\ packets' = Tail(packets)
  /\ UNCHANGED <<keys, down>>

Next ==
  \/ \E e \in Event : Type(e)
  \/ \E p \in Packet : Move(p)
  \/ HandleKey
  \/ HandlePacket

Safety == Init /\ [][Next]_vars

(* Nothing that was typed or moved is left unhandled.                      *)
Spec == Safety /\ WF_vars(HandleKey) /\ WF_vars(HandlePacket)
=============================================================================
