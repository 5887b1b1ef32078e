------------------------------ MODULE Progman -------------------------------
(***************************************************************************)
(* The program manager of kernel/program_manager.c: the list of programs,  *)
(* the double click, the menus, the question before a restart, the about   *)
(* box.  Points of the screen are pairs of coordinates.                    *)
(***************************************************************************)
EXTENDS Integers, Sequences

CONSTANTS
  Count,         \* launchable_count: the programs in the registry, up to 8
  Span,          \* what double_click_window is set to, 22
  Points         \* where the pointer may be

ASSUME ProgmanAssumption ==
  /\ Count \in 1..8 /\ Span \in Nat \ {0}
  /\ Points \subseteq (0..319) \X (0..199)

(* MENUS: the actions of the items of both menus.                          *)
Menu == <<<<"RUN", "RESTART", "EXIT">>, <<"ABOUT">>>>

VARIABLES
  pm,       \* the variables of program_manager.c
  effect,   \* what the last event has led to outside of the program
  first     \* history: the last press on a row that has launched nothing

pmVars == <<pm, effect, first>>

NoClick == [row |-> -1, age |-> 0]

Within(x, low, high) == low <= x /\ x <= high

In(p, x1, x2, y1, y2) == Within(p[1], x1, x2) /\ Within(p[2], y1, y2)

MenuX(menu) == IF menu = 1 THEN 28 ELSE 72

-----------------------------------------------------------------------------
(* pm_start, which leaves about_open as it is.                             *)
Fresh(about) ==
  [selected |-> 0, prev |-> FALSE, lastRow |-> -1, window |-> 0,
   open |-> FALSE, menu |-> 1, item |-> 0, confirm |-> FALSE, yes |-> TRUE,
   about |-> about]

PmStart ==
  /\ pm' = Fresh(pm.about)
  /\ effect' = "none"
  /\ first' = NoClick

(* The history grows older with every packet that reaches the list.        *)
Aged == [first EXCEPT !.age = IF first.row = -1 THEN 0
                              ELSE IF @ <= Span THEN @ + 1 ELSE @]

Step(next) == pm' = next /\ effect' = "none" /\ UNCHANGED first

(* activate_current_item of the item of the open menu.                     *)
Activate(c, item) ==
  LET action == Menu[c.menu][item + 1]
      chosen == [c EXCEPT !.item = item, !.open = action = "RESTART"]
  IN /\ pm' = CASE action = "RESTART" -> [chosen EXCEPT !.confirm = TRUE, !.yes = TRUE]
                [] action = "ABOUT"   -> [chosen EXCEPT !.about = TRUE]
                [] OTHER              -> chosen
     /\ effect' = IF action = "RUN" THEN "run" ELSE "none"

-----------------------------------------------------------------------------
(* pm_key, from the innermost of what is open to the list.                 *)
KeyInAbout(key) ==
  /\ pm.about
  /\ Step([pm EXCEPT !.about = key \notin {"ENTER", "ESCAPE"}])

(* system_reboot: everything starts again.                                 *)
Restart == pm' = Fresh(FALSE) /\ effect' = "reboot" /\ first' = NoClick

KeyInConfirm(key) ==
  /\ ~pm.about /\ pm.confirm
  /\ \/ key \in {"LEFT", "RIGHT"} /\ Step([pm EXCEPT !.yes = ~@])
     \/ key = "ENTER" /\ pm.yes /\ Restart
     \/ key = "ENTER" /\ ~pm.yes /\ Step([pm EXCEPT !.confirm = FALSE])
     \/ key = "ESCAPE" /\ Step([pm EXCEPT !.confirm = FALSE])

KeyInMenu(key) ==
  LET count == Len(Menu[pm.menu]) IN
  /\ ~pm.about /\ ~pm.confirm /\ pm.open
  /\ \/ key = "ESCAPE" /\ Step([pm EXCEPT !.open = FALSE])
     \/ key \in {"LEFT", "RIGHT"} /\ Step([pm EXCEPT !.menu = 3 - @, !.item = 0])
     \/ key = "UP" /\ Step([pm EXCEPT !.item = (@ + count - 1) % count])
     \/ key = "DOWN" /\ Step([pm EXCEPT !.item = (@ + 1) % count])
     \/ key = "ENTER" /\ Activate(pm, pm.item) /\ UNCHANGED first

KeyInList(key) ==
  /\ ~pm.about /\ ~pm.confirm /\ ~pm.open
  /\ \/ key = "UP" /\ Step([pm EXCEPT !.selected = IF @ > 0 THEN @ - 1 ELSE @])
     \/ key = "DOWN" /\ Step([pm EXCEPT !.selected = IF @ + 1 < Count THEN @ + 1 ELSE @])
     \/ key = "ENTER" /\ effect' = "run" /\ UNCHANGED <<pm, first>>
     \/ key = "ESCAPE" /\ Step([pm EXCEPT !.open = TRUE, !.item = 0])

-----------------------------------------------------------------------------
(* pm_mouse *)
PressEdge(left) == left /\ ~pm.prev

MouseInAbout(left) ==
  /\ pm.about
  /\ Step([pm EXCEPT !.about = ~PressEdge(left), !.prev = left])

Yes(p) == In(p, 74, 120, 102, 116)

Dismisses(p) == In(p, 132, 178, 102, 116) \/ ~In(p, 60, 196, 64, 128)

MouseInConfirm(p, left) ==
  /\ ~pm.about /\ pm.confirm
  /\ IF PressEdge(left) /\ Yes(p) THEN Restart
     ELSE Step([pm EXCEPT !.confirm = ~(PressEdge(left) /\ Dismisses(p)), !.prev = left])

MouseRight(left) ==
  /\ ~pm.about /\ ~pm.confirm
  /\ Step([pm EXCEPT !.open = TRUE, !.item = 0, !.prev = left])

(* Mutated form: the window of the double click stays open.                *)
CountedNot(left) == [pm EXCEPT !.prev = left]

(* The packets from here on close the window of the double click.          *)
CountedDown(left) ==
  [pm EXCEPT !.window = IF @ > 0 THEN @ - 1 ELSE 0, !.prev = left]

InList == ~pm.about /\ ~pm.confirm

OnBar(p) == In(p, 19, 237, 26, 38)

TitleAt(p) == { m \in 1..2 : Within(p[1], MenuX(m) - 4, MenuX(m) + 38) }

MouseOnBar(p) ==
  /\ InList /\ PressEdge(TRUE) /\ OnBar(p)
  /\ LET c == CountedDown(TRUE) IN
     pm' = IF TitleAt(p) = {} THEN [c EXCEPT !.open = FALSE]
           ELSE [c EXCEPT !.open = TRUE, !.item = 0,
                          !.menu = CHOOSE m \in TitleAt(p) : TRUE]
  /\ effect' = "none"
  /\ first' = Aged

ItemAt(p) ==
  { i \in 0..Len(Menu[pm.menu]) - 1 :
      /\ pm.open
      /\ Within(p[1], MenuX(pm.menu) - 4, MenuX(pm.menu) + 116)
      /\ Within(p[2], 40 + 12 * i, 40 + 12 * i + 11) }

MouseOnItem(p) ==
  /\ InList /\ PressEdge(TRUE) /\ ~OnBar(p)
  /\ \E i \in ItemAt(p) : Activate(CountedDown(TRUE), i)
  /\ first' = Aged

RowAt(p) ==
  { r \in 0..Count - 1 : Within(p[1], 26, 196) /\ Within(p[2], 55 + 10 * r, 64 + 10 * r) }

(* A press that only closes a menu goes on to the row below it.            *)
MouseOnRow(p) ==
  /\ InList /\ PressEdge(TRUE) /\ ~OnBar(p) /\ ItemAt(p) = {}
  /\ \E r \in RowAt(p) :
       LET c == [CountedDown(TRUE) EXCEPT !.open = FALSE, !.selected = r] IN
       IF c.lastRow = r /\ c.window > 0
       THEN /\ pm' = [c EXCEPT !.window = 0, !.lastRow = -1]
            /\ effect' = "double click"
            /\ first' = NoClick
       ELSE /\ pm' = [c EXCEPT !.window = Span, !.lastRow = r]
            /\ effect' = "none"
            /\ first' = [row |-> r, age |-> 0]

MouseOnNothing(p, left) ==
  /\ InList
  /\ PressEdge(left) => ~OnBar(p) /\ ItemAt(p) = {} /\ RowAt(p) = {}
  /\ pm' = [CountedDown(left) EXCEPT !.open = @ /\ ~PressEdge(left)]
  /\ effect' = "none"
  /\ first' = Aged

-----------------------------------------------------------------------------
PmInit == pm = Fresh(FALSE) /\ effect = "none" /\ first = NoClick

PmKeys == {"UP", "DOWN", "LEFT", "RIGHT", "ENTER", "ESCAPE"}

PmNext ==
  \/ PmStart
  \/ \E key \in PmKeys :
       KeyInAbout(key) \/ KeyInConfirm(key) \/ KeyInMenu(key) \/ KeyInList(key)
  \/ \E left \in BOOLEAN : MouseInAbout(left) \/ MouseRight(left)
  \/ \E p \in Points, left \in BOOLEAN : MouseInConfirm(p, left) \/ MouseOnNothing(p, left)
  \/ \E p \in Points : MouseOnBar(p) \/ MouseOnItem(p) \/ MouseOnRow(p)

PmSpec == PmInit /\ [][PmNext]_pmVars

(* The item is one of the open menu; the index of the row fits the list.   *)
PmTypeOK ==
  /\ pm \in [selected : 0..Count - 1, prev : BOOLEAN, lastRow : -1..Count - 1,
             window : 0..Span, open : BOOLEAN, menu : 1..2, item : 0..2,
             confirm : BOOLEAN, yes : BOOLEAN, about : BOOLEAN]
  /\ pm.open => pm.item < Len(Menu[pm.menu])
  /\ effect \in {"none", "run", "double click", "reboot"}
  /\ first \in [row : -1..Count - 1, age : 0..Span + 1]

-----------------------------------------------------------------------------
(***************************************************************************)
(* A double click takes two presses on the same row that have launched     *)
(* nothing before, with no other row between them and fewer than 22        *)
(* packets for the list, whatever menus, boxes and keys come in between.   *)
(***************************************************************************)
DoubleClickIsTwo ==
  [][ effect' = "double click" =>
        first.row = pm'.selected /\ first.age + 1 < Span ]_pmVars
=============================================================================
