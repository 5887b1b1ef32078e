-------------------------------- MODULE Exec --------------------------------
(***************************************************************************)
(* The executable runtime and window manager of kernel/exec.c: the table   *)
(* of open programs, the order of their windows, the focus, the maximized  *)
(* and the dragged window.                                                 *)
(*                                                                         *)
(* Indices start at 1 and 0 stands for the -1 of the code.  Every active   *)
(* program has OPEN_FLAG_OPEN, so only OPEN_FLAG_MINIMIZED is kept.  A     *)
(* window is where it was put: Full when it fills the desktop, else one of *)
(* Spots (all other windows have the default size, as resizing_index is    *)
(* never set).                                                             *)
(***************************************************************************)
EXTENDS Integers, SequencesExt

CONSTANTS
  Program,    \* the names in the registry, builtin_registry of the code
  PROGMAN,    \* the program manager
  Launches,   \* Launches[p]: the programs the handlers of p may launch
  Closers,    \* the programs whose handlers call exec_close_current
  MaxActive,  \* EXEC_MAX_ACTIVE = EXEC_MAX_OPEN
  Spots,      \* the positions of a window that does not fill the desktop
  Full,       \* the position and size of a maximized window
  Cascade     \* default_window_geometry: the spot of a new window, by index

ASSUME ProgramAssumption ==
  /\ PROGMAN \in Program
  /\ Launches \in [Program -> SUBSET Program]
  /\ Closers \subseteq Program

ASSUME CapacityAssumption == MaxActive \in Nat \ {0}

ASSUME GeometryAssumption ==
  /\ Full \notin Spots
  /\ Cascade \in [1..MaxActive -> Spots]

Rect == Spots \union {Full}

Window == [name : Program, minimized : BOOLEAN, rect : Rect, saved : Rect]

VARIABLES
  wins,        \* active_names, open_flags, window_*, restore_*; active_count
  order,       \* open_order: indices into wins, the topmost window last
  current,     \* current_index
  maximized,   \* maximized_index
  dragging,    \* dragging_index
  prevLeft     \* prev_left_button

vars == <<wins, order, current, maximized, dragging, prevLeft>>

(* The window state as a record; the helpers below map one to the next.    *)
Now == [wins |-> wins, order |-> order, current |-> current,
        maximized |-> maximized, dragging |-> dragging]

Become(s) ==
  /\ wins' = s.wins
  /\ order' = s.order
  /\ current' = s.current
  /\ maximized' = s.maximized
  /\ dragging' = s.dragging

-----------------------------------------------------------------------------
Index(s) == 1..Len(s.wins)

(* find_active_by_name *)
Named(s, p) == { i \in Index(s) : s.wins[i].name = p }

(* find_open_by_active_index *)
Positions(s, i) == { k \in DOMAIN s.order : s.order[k] = i }

(* remove_open_order, at the position of window i.                         *)
Unordered(s, i) ==
  IF Positions(s, i) = {} THEN s.order ELSE RemoveAt(s.order, Min(Positions(s, i)))

(* focus_active_index, whose argument every caller has checked.            *)
Focus(s, i) ==
  [wins      |-> [s.wins EXCEPT ![i].minimized = FALSE],
   order     |-> Append(Unordered(s, i), i),
   current   |-> i,
   maximized |-> s.maximized,
   dragging  |-> s.dragging]

(* Mutated form: indices above the one that left are not shifted.          *)
Forget(x, i) == IF x = i THEN 0 ELSE x

(* The repair of an index after window i has left the table.               *)
Repair(x, i) == IF x = i THEN 0 ELSE IF x > i THEN x - 1 ELSE x

(* Mutated form: the order keeps the old numbers.                          *)
RemoveUnrenumbered(s, i) ==
  [wins      |-> RemoveAt(s.wins, i),
   order     |-> Unordered(s, i),
   current   |-> Repair(s.current, i),
   maximized |-> Repair(s.maximized, i),
   dragging  |-> Repair(s.dragging, i)]

(* Mutated form: dragging_index is not shifted.                            *)
RemoveStaleDrag(s, i) ==
  LET left == Unordered(s, i) IN
  [wins      |-> RemoveAt(s.wins, i),
   order     |-> [k \in DOMAIN left |-> IF left[k] > i THEN left[k] - 1 ELSE left[k]],
   current   |-> Repair(s.current, i),
   maximized |-> Repair(s.maximized, i),
   dragging  |-> IF s.dragging = i THEN 0 ELSE Min({s.dragging, Len(s.wins) - 1})]

(* Mutated form: the arrays restore_* are not shifted with the others.     *)
RemoveStaleSaved(s, i) ==
  LET left == Unordered(s, i) IN
  [wins      |-> [k \in 1..Len(s.wins) - 1 |->
                    [RemoveAt(s.wins, i)[k] EXCEPT !.saved = s.wins[k].saved]],
   order     |-> [k \in DOMAIN left |-> IF left[k] > i THEN left[k] - 1 ELSE left[k]],
   current   |-> Repair(s.current, i),
   maximized |-> Repair(s.maximized, i),
   dragging  |-> Repair(s.dragging, i)]

(* remove_active_index *)
RemoveActive(s, i) ==
  LET left == Unordered(s, i) IN
  [wins      |-> RemoveAt(s.wins, i),
   order     |-> [k \in DOMAIN left |-> IF left[k] > i THEN left[k] - 1 ELSE left[k]],
   current   |-> Repair(s.current, i),
   maximized |-> Repair(s.maximized, i),
   dragging  |-> Repair(s.dragging, i)]

NewWindow(p, i) ==
  [name |-> p, minimized |-> FALSE, rect |-> Cascade[i], saved |-> Cascade[i]]

(* Mutated form: a program that is open is opened once more.               *)
LaunchAgain(s, p) ==
  IF Len(s.wins) >= MaxActive \/ Len(s.order) >= MaxActive THEN s
  ELSE LET i == Len(s.wins) + 1
       IN Focus([s EXCEPT !.wins = Append(@, NewWindow(p, i))], i)

(***************************************************************************)
(* exec_launch of a program of the registry: an open one is only brought   *)
(* to the front, a new one is appended and focused.  The on_start of a     *)
(* program touches no window.                                              *)
(***************************************************************************)
Launch(s, p) ==
  IF Named(s, p) # {} THEN Focus(s, Min(Named(s, p)))
  ELSE IF Len(s.wins) >= MaxActive \/ Len(s.order) >= MaxActive THEN s
  ELSE LET i == Len(s.wins) + 1
       IN Focus([s EXCEPT !.wins = Append(@, NewWindow(p, i))], i)

(***************************************************************************)
(* exec_close_current.  The window to focus next is chosen before the      *)
(* closed one leaves the table, and the choice is not renumbered with it.  *)
(***************************************************************************)
Others(s, i) == { k \in DOMAIN s.order : s.order[k] # i }

CloseCurrent(s) ==
  IF s.current = 0 THEN Launch(s, PROGMAN)
  ELSE
    LET rest == Others(s, s.current)
        next == IF rest = {} THEN 0 ELSE s.order[Max(rest)]
        left == RemoveActive(s, s.current)
    IN IF next \in Index(left) THEN Focus(left, next)
       ELSE Launch([left EXCEPT !.current = 0], PROGMAN)

(* The maximize button of window i, which a press has focused.             *)
ToggleMaximize(s, i) ==
  LET w == s.wins[i] IN
  IF s.maximized = i
  THEN [s EXCEPT !.wins[i] = [w EXCEPT !.rect = w.saved], !.maximized = 0]
  ELSE [s EXCEPT !.wins[i] = [w EXCEPT !.saved = w.rect, !.rect = Full],
                 !.maximized = i]

(* Mutated form: the search for the next focus starts from the bottom.     *)
MinimizeBottom(s, i) ==
  LET shown == { k \in Others(s, i) : ~s.wins[s.order[k]].minimized }
  IN [s EXCEPT !.wins[i].minimized = TRUE,
               !.current = IF shown = {} THEN 0 ELSE s.order[Min(shown)]]

(* The minimize button: the topmost window still shown gets the focus.     *)
Minimize(s, i) ==
  LET shown == { k \in Others(s, i) : ~s.wins[s.order[k]].minimized }
  IN [s EXCEPT !.wins[i].minimized = TRUE,
               !.current = IF shown = {} THEN 0 ELSE s.order[Max(shown)]]

(***************************************************************************)
(* What the on_key or on_mouse of window i may do to the windows: nothing, *)
(* launch one program, or close the focused window.                        *)
(***************************************************************************)
Handled(s, i) ==
  {s}
  \union { Launch(s, p) : p \in Launches[s.wins[i].name] }
  \union { CloseCurrent(s) : x \in Closers \intersect {s.wins[i].name} }

(***************************************************************************)
(* The pointer can be on window i when no window above hides it whole.     *)
(***************************************************************************)
Above(s, i) ==
  { j \in Index(s) : /\ ~s.wins[j].minimized
                     /\ \E k \in Positions(s, i), m \in Positions(s, j) : k < m }

Hittable(s, i) ==
  /\ ~s.wins[i].minimized
  /\ \A j \in Above(s, i) : s.wins[j].rect \notin {Full, s.wins[i].rect}

-----------------------------------------------------------------------------
(* exec_init, then the launch of PROGMAN in kernel_main.                   *)
Init ==
  /\ wins = <<NewWindow(PROGMAN, 1)>>
  /\ order = <<1>>
  /\ current = 1
  /\ maximized = 0
  /\ dragging = 0
  /\ prevLeft = FALSE

(* Mutated form: the end of a drag returns without noting the release.     *)
EndDragUnnoted ==
  /\ dragging # 0
  /\ dragging' = 0
  /\ UNCHANGED <<wins, order, current, maximized, prevLeft>>

(* exec_deliver_mouse while a window is dragged.                           *)
EndDrag ==
  /\ dragging # 0
  /\ dragging' = 0
  /\ prevLeft' = FALSE
  /\ UNCHANGED <<wins, order, current, maximized>>

(* Mutated form: a maximized window follows the pointer as well.           *)
DragAny(spot) ==
  /\ dragging # 0
  /\ wins' = [wins EXCEPT ![dragging].rect = spot]
  /\ prevLeft' = TRUE
  /\ UNCHANGED <<order, current, maximized, dragging>>

Drag(spot) ==
  /\ dragging # 0
  /\ wins' = [wins EXCEPT ![dragging].rect = IF @ = Full THEN Full ELSE spot]
  /\ prevLeft' = TRUE
  /\ UNCHANGED <<order, current, maximized, dragging>>

(* The press edge on window i: the window is focused, whatever was hit.    *)
Press(i) ==
  /\ dragging = 0
  /\ ~prevLeft
  /\ Hittable(Now, i)
  /\ prevLeft' = TRUE

PressClose(i) == Press(i) /\ Become(CloseCurrent(Focus(Now, i)))

PressMaximize(i) == Press(i) /\ Become(ToggleMaximize(Focus(Now, i), i))

PressMinimize(i) == Press(i) /\ Become(Minimize(Focus(Now, i), i))

PressTitle(i) == Press(i) /\ Become([Focus(Now, i) EXCEPT !.dragging = i])

PressContent(i) ==
  /\ Press(i)
  /\ \E s \in Handled(Focus(Now, i), i) : Become(s)

(* Every other packet goes to the focused program, if there is one.        *)
MouseElsewhere(left) ==
  /\ dragging = 0
  /\ prevLeft' = left
  /\ IF current = 0 THEN Become(Now)
     ELSE \E s \in Handled(Now, current) : Become(s)

(* exec_deliver_key *)
DeliverKey ==
  /\ current # 0
  /\ ~wins[current].minimized
  /\ \E s \in Handled(Now, current) : Become(s)
  /\ UNCHANGED prevLeft

(* exec_restore_window_by_visible_index, from the taskbar.                 *)
RestoreWindow(k) ==
  /\ k \in DOMAIN order
  /\ Become(Focus(Now, order[k]))
  /\ UNCHANGED prevLeft

Next ==
  \/ EndDrag
  \/ \E spot \in Spots : Drag(spot)
  \/ \E i \in DOMAIN wins : PressClose(i)
  \/ \E i \in DOMAIN wins : PressMaximize(i)
  \/ \E i \in DOMAIN wins : PressMinimize(i)
  \/ \E i \in DOMAIN wins : PressTitle(i)
  \/ \E i \in DOMAIN wins : PressContent(i)
  \/ \E left \in BOOLEAN : MouseElsewhere(left)
  \/ DeliverKey
  \/ \E k \in DOMAIN order : RestoreWindow(k)

Spec == Init /\ [][Next]_vars

-----------------------------------------------------------------------------
(***************************************************************************)
(* Every variable has its type, and every index is 0 or names a window.    *)
(***************************************************************************)
TypeOK ==
  /\ wins \in Seq(Window)
  /\ order \in Seq(DOMAIN wins)
  /\ current \in 0..Len(wins)
  /\ maximized \in 0..Len(wins)
  /\ dragging \in 0..Len(wins)
  /\ prevLeft \in BOOLEAN

(***************************************************************************)
(* The window order is a permutation of the open programs through every    *)
(* launch, focus, close and renumbering: no window is drawn twice, none is *)
(* lost, and the array of 16 positions cannot overflow.                    *)
(***************************************************************************)
OrderIsPermutation ==
  /\ Len(order) = Len(wins)
  /\ \A k, m \in DOMAIN order : order[k] = order[m] => k = m
  /\ \A i \in DOMAIN wins : \E k \in DOMAIN order : order[k] = i

(***************************************************************************)
(* A program has one window: what exec_launch looks up by name is unique.  *)
(***************************************************************************)
OneWindowEach ==
  \A i, j \in DOMAIN wins : wins[i].name = wins[j].name => i = j

(***************************************************************************)
(* The focus is on the topmost window that is shown, and on none only when *)
(* all are minimized: exec.c keeps current_index, open_order and the       *)
(* minimized flags apart, and draws by one and delivers keys by the other. *)
(***************************************************************************)
FocusIsTopmost ==
  LET shown == { k \in DOMAIN order : ~wins[order[k]].minimized }
  IN current = IF shown = {} THEN 0 ELSE order[Max(shown)]

(***************************************************************************)
(* There is always an open program: the last close brings PROGMAN back.    *)
(***************************************************************************)
NeverEmpty == wins # <<>>

(***************************************************************************)
(* The window that is being dragged is shown, and the one that the next    *)
(* click on its maximize button restores fills the desktop.                *)
(***************************************************************************)
SpecialWindows ==
  /\ dragging # 0 => ~wins[dragging].minimized
  /\ maximized # 0 => wins[maximized].rect = Full

NameOf(i) == IF i = 0 THEN {} ELSE {wins[i].name}

(***************************************************************************)
(* A drag stays with the window it began on, whatever is launched or       *)
(* closed by a key meanwhile, until the button is released or that window  *)
(* is closed.                                                              *)
(***************************************************************************)
DragKeepsWindow ==
  [][ dragging # 0 /\ dragging' # 0 => NameOf(dragging)' = NameOf(dragging) ]_vars

NamesOf(w) == { w[i].name : i \in DOMAIN w }

(***************************************************************************)
(* When a program comes or goes, at most one window goes, and every window *)
(* that stays keeps its place and its saved place although the records     *)
(* behind it are shifted.                                                  *)
(***************************************************************************)
ClosingKeepsOthers ==
  [][ NamesOf(wins') # NamesOf(wins) =>
        /\ \A p, q \in NamesOf(wins) \ NamesOf(wins') : p = q
        /\ \A i \in DOMAIN wins, j \in DOMAIN wins' :
             wins'[j].name = wins[i].name =>
               wins'[j].rect = wins[i].rect /\ wins'[j].saved = wins[i].saved ]_vars

(***************************************************************************)
(* include/exec.h: when the focused application is closed, the next        *)
(* available open application is selected, and PROGMAN is launched if none *)
(* remains open.  Stated for the close button and windows that are shown.  *)
(***************************************************************************)
CloseSelectsNext ==
  [][ \A i \in DOMAIN wins :
        /\ PressClose(i)
        /\ Len(wins) > 1
        /\ \A j \in DOMAIN wins : ~wins[j].minimized
        => /\ Len(wins') = Len(wins) - 1
           /\ NameOf(current)' = NameOf(order[Max(Others(Now, i))]) ]_vars
=============================================================================
