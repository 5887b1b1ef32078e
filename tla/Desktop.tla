------------------------------ MODULE Desktop -------------------------------
(***************************************************************************)
(* The desktop of kernel/ui.c over the window manager of Exec: what        *)
(* becomes of one packet of the mouse, and of one press of its left        *)
(* button, on the way from ui_process_mouse through exec_deliver_mouse to  *)
(* the on_mouse of a program.                                              *)
(*                                                                         *)
(* Three layers remember the left button for themselves, each in a         *)
(* prev_left_button, and each takes a packet with the button down for a    *)
(* new press when its own memory says that the button was up.  The cursor  *)
(* is left out: a packet can come at any place of the screen.              *)
(***************************************************************************)
EXTENDS Exec

CONSTANTS
  Buttons,    \* the buttons that fit the taskbar, 3 in the code
  Watched     \* the programs whose memory is followed: no two depend on another

ASSUME WatchAssumption ==
  /\ Buttons \in Nat \ {0}
  /\ Watched \subseteq Program
  /\ {"taskbar", "windows"} \intersect Program = {}

(* Every program has an on_start, and the one that is always launched does *)
(* not close itself.                                                       *)
ASSUME StartAssumption == PROGMAN \notin Closers

VARIABLES
  button,    \* prev_left_button of ui.c
  memory,    \* memory[p]: prev_left_button of the watched program p
  taken,     \* history: how often each receiver has taken the present press
  away       \* history: the programs that lost the focus to a held button

desktopVars == <<vars, button, memory, taken, away>>

Receiver == Watched \union {"taskbar", "windows"}

None == [r \in Receiver |-> 0]

-----------------------------------------------------------------------------
(* The programs whose on_start has run in this step, which closed those of *)
(* closed: exec_launch starts no program that is open.                     *)
Started(closed) == NamesOf(wins') \ (NamesOf(wins) \ closed)

(* Whose history goes on.                                                  *)
Continuing(closed) ==
  Receiver \ (Started(closed) \union (Watched \ NamesOf(wins')))

(* And those that lose the focus in a step in which heard have had it.     *)
Left(heard) ==
  (away \union ((NameOf(current) \union heard) \ NameOf(current)')) \intersect Watched

(* Who takes a packet for a new press: the window manager unless it drags, *)
(* and the program that hears it.                                          *)
Takers(left, heard) ==
  (IF left /\ ~prevLeft /\ dragging = 0 THEN {"windows"} ELSE {})
  \union (IF left THEN { p \in heard \intersect Watched : ~memory[p] } ELSE {})

(* Mutated form: a path of on_mouse returns without noting the release.    *)
NotedPresses(left, heard, closed) ==
  [p \in Watched |-> IF p \in heard /\ left THEN TRUE
                    ELSE IF p \in Started(closed) THEN FALSE ELSE memory[p]]

(* Mutated form: a program forgets the button whenever it gets the focus.  *)
NotedOnFocus(left, heard, closed) ==
  [p \in Watched |-> IF p \in NameOf(current)' \ NameOf(current) THEN FALSE
                    ELSE IF p \in heard THEN left
                    ELSE IF p \in Started(closed) THEN FALSE ELSE memory[p]]

(* What the programs remember after a packet that those in heard are given:*)
(* on_mouse ends by noting the button, on_start forgets it.                *)
Noted(left, heard, closed) ==
  [p \in Watched |-> IF p \in heard THEN left
                    ELSE IF p \in Started(closed) THEN FALSE ELSE memory[p]]

Remember(left, heard, closed) ==
  /\ button' = left
  /\ memory' = Noted(left, heard, closed)
  /\ taken' = [r \in Receiver |->
                 IF r \in Takers(left, heard)
                 THEN (IF button THEN taken[r] ELSE 0) + 1
                 ELSE IF button /\ left /\ r \in Continuing(closed) THEN taken[r]
                 ELSE 0]
  /\ away' = IF left THEN Left(heard) \intersect Continuing(closed)
             ELSE (away \intersect Continuing(closed)) \ heard

-----------------------------------------------------------------------------
(***************************************************************************)
(* ui_process_mouse: a press on a button of the taskbar is not passed on.  *)
(***************************************************************************)
PressTaskbar(k) ==
  /\ ~button
  /\ k <= Buttons
  /\ RestoreWindow(k)
  /\ button' = TRUE
  /\ UNCHANGED memory
  /\ taken' = [None EXCEPT !["taskbar"] = 1]
  /\ away' = Left({})

PacketEndsDrag == EndDrag /\ Remember(FALSE, {}, {})

PacketDrags(spot) == Drag(spot) /\ Remember(TRUE, {}, {})

PacketCloses(i) == PressClose(i) /\ Remember(TRUE, {}, {wins[i].name})

(* The other buttons of a window and its title.                            *)
PacketOnFrame(i) ==
  /\ PressMaximize(i) \/ PressMinimize(i) \/ PressTitle(i)
  /\ Remember(TRUE, {}, {})

PacketOnContent(i) == PressContent(i) /\ Remember(TRUE, {wins[i].name}, {})

(* No press for the window manager, or one that meets no window.           *)
PacketElsewhere(left) ==
  MouseElsewhere(left) /\ Remember(left, NameOf(current), {})

(* ui_process_key *)
Key ==
  /\ DeliverKey
  /\ memory' = [p \in Watched |-> memory[p] /\ p \notin Started({})]
  /\ taken' = [r \in Receiver |-> IF r \in Continuing({}) THEN taken[r] ELSE 0]
  /\ away' = (IF button THEN Left({}) ELSE away) \intersect Continuing({})
  /\ UNCHANGED button

DesktopInit ==
  /\ Init
  /\ button = FALSE
  /\ memory = [p \in Watched |-> FALSE]
  /\ taken = None
  /\ away = {}

DesktopNext ==
  \/ \E k \in DOMAIN order : PressTaskbar(k)
  \/ PacketEndsDrag
  \/ \E spot \in Spots : PacketDrags(spot)
  \/ \E i \in DOMAIN wins : PacketCloses(i)
  \/ \E i \in DOMAIN wins : PacketOnFrame(i)
  \/ \E i \in DOMAIN wins : PacketOnContent(i)
  \/ \E left \in BOOLEAN : PacketElsewhere(left)
  \/ Key

DesktopSpec == DesktopInit /\ [][DesktopNext]_desktopVars

-----------------------------------------------------------------------------
(***************************************************************************)
(* The window manager and the desktop remember the same button, through    *)
(* every early return of exec_deliver_mouse and every program that a       *)
(* handler starts or closes.  The one exception is the press the taskbar   *)
(* has kept: until the next packet the window manager does not know of it. *)
(***************************************************************************)
MemoriesAgree ==
  \/ prevLeft = button
  \/ button /\ taken["taskbar"] = 1 /\ taken["windows"] = 0

(***************************************************************************)
(* A press acts once on each receiver.  It may act on several, since a     *)
(* program that gets the focus while the button is held takes the press    *)
(* that another has used; but none takes it twice unless it was started    *)
(* anew, however focus, windows and programs change before the release.    *)
(***************************************************************************)
ActsOnce == \A r \in Receiver : taken[r] <= 1

(***************************************************************************)
(* A new press in the content of a window is missed only by a program that *)
(* has lost the focus to another while the button was down and has heard   *)
(* no release since: nobody else believes that the button is still down.   *)
(***************************************************************************)
OnlyTheLeftMissPresses ==
  ~button => \A p \in NamesOf(wins) \intersect Watched : memory[p] => p \in away
=============================================================================
