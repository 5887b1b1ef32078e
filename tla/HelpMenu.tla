------------------------------ MODULE HelpMenu ------------------------------
(***************************************************************************)
(* The help menu and the about box that kernel/calculator.c and            *)
(* kernel/installer.c have in common, as operators on the record a program *)
(* keeps of them: [help, about, prev], where prev is prev_left_button.     *)
(***************************************************************************)
Closed == [help |-> FALSE, about |-> FALSE, prev |-> FALSE]

Menus == [help : BOOLEAN, about : BOOLEAN, prev : BOOLEAN]

(* Every key goes to the box or the menu while one of them is open.        *)
MenuKey(m, key) ==
  IF m.about THEN [m EXCEPT !.about = @ /\ key \notin {"ENTER", "ESCAPE"}]
  ELSE [m EXCEPT !.help  = @ /\ key \notin {"ENTER", "ESCAPE"},
                 !.about = key = "ENTER"]

IsOpen(m) == m.help \/ m.about

(* Where the right button is down, the packet opens the menu and no more.  *)
RightButton(m, left) == [m EXCEPT !.help = TRUE, !.prev = left]

(* A press of the left button, which what is open takes for itself.        *)
MenuPress(m, spot) ==
  [help  |-> IF m.about THEN m.help ELSE ~m.help,
   about |-> ~m.about /\ m.help /\ spot = "ABOUT",
   prev  |-> TRUE]

(* The press is for the menu when something is open or it is on its title. *)
TakesPress(m, spot) == IsOpen(m) \/ spot = "HELP"

Edge(m, left) == left /\ ~m.prev
=============================================================================
