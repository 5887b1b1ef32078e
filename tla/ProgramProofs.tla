---------------------------- MODULE ProgramProofs ---------------------------
(***************************************************************************)
(* Proofs about programs in a window: the program manager, for every       *)
(* number of programs and every length of the double click's window; the   *)
(* settings program, for every list of themes; the calculator, for         *)
(* integers of every width, every base and every layout of the buttons.    *)
(***************************************************************************)
EXTENDS Progman, SettingsApp, Calculator, SeqLemmas, TLAPS

-----------------------------------------------------------------------------
(***************************************************************************)
(* The program manager: while the window of the double click is open, the  *)
(* last row pressed is the one of the history, and the window has shrunk   *)
(* by as many packets as the history has aged.                             *)
(***************************************************************************)
PmState ==
  [selected : 0..Count - 1, prev : BOOLEAN, lastRow : -1..Count - 1,
   window : 0..Span, open : BOOLEAN, menu : 1..2, item : 0..2,
   confirm : BOOLEAN, yes : BOOLEAN, about : BOOLEAN]

Press == [row : -1..Count - 1, age : 0..Span + 1]

ItemFits(c) == c.open => c.item < Len(Menu[c.menu])

Counts(c, f) ==
  c.window > 0 => f.row = c.lastRow /\ f.row # -1 /\ f.age = Span - c.window

PmGood(c, f) == c \in PmState /\ f \in Press /\ ItemFits(c) /\ Counts(c, f)

PmInv == PmGood(pm, first) /\ effect \in {"none", "run", "double click", "reboot"}

LEMMA MenuShape ==
  /\ Len(Menu[1]) = 3 /\ Len(Menu[2]) = 1
  /\ Menu[1][1] = "RUN" /\ Menu[1][2] = "RESTART" /\ Menu[1][3] = "EXIT"
  /\ Menu[2][1] = "ABOUT"
  BY DEF Menu

LEMMA FreshGood ==
  ASSUME NEW a \in BOOLEAN PROVE PmGood(Fresh(a), NoClick)
<1> USE ProgmanAssumption
<1>1. Fresh(a) \in PmState
  BY DEF PmState, Fresh
<1>2. NoClick \in Press
  BY DEF NoClick, Press
<1> QED BY <1>1, <1>2 DEF PmGood, ItemFits, Counts, Fresh

(* What leaves the window and the last row alone, and no item of a menu    *)
(* open that the menu has not, is good.                                    *)
LEMMA StepGood ==
  ASSUME NEW c, NEW f, PmGood(c, f), NEW d \in PmState,
         d.window = c.window, d.lastRow = c.lastRow, ItemFits(d)
  PROVE  PmGood(d, f)
  BY DEF PmGood, Counts

LEMMA PmAged ==
  ASSUME PmInv, NEW left \in BOOLEAN
  PROVE  PmGood(CountedDown(left), Aged)
<1> DEFINE d == CountedDown(left)
           g == Aged
<1> USE ProgmanAssumption
<1>0. pm \in PmState /\ first \in Press /\ ItemFits(pm) /\ Counts(pm, first)
  BY DEF PmInv, PmGood
<1> DEFINE w == IF pm.window > 0 THEN pm.window - 1 ELSE 0
<1>1. d = [pm EXCEPT !.window = w, !.prev = left]
  BY DEF CountedDown
<1>w. pm.window \in 0..Span /\ w \in 0..Span /\ (w > 0 => w = pm.window - 1 /\ pm.window > 0)
  BY <1>0 DEF PmState
<1>2. g = [first EXCEPT !.age = IF first.row = -1 THEN 0
                                ELSE IF first.age <= Span THEN first.age + 1 ELSE first.age]
  BY DEF Aged
<1> HIDE DEF d, g, w
<1>3. d \in PmState
  BY <1>0, <1>1, <1>w DEF PmState
<1>4. g \in Press
  BY <1>0, <1>2 DEF Press
<1>5. ItemFits(d)
  BY <1>0, <1>1 DEF ItemFits, PmState
<1>6. Counts(d, g)
  BY <1>0, <1>1, <1>2, <1>w DEF Counts, PmState, Press
<1> QED BY <1>3, <1>4, <1>5, <1>6 DEF PmGood, d, g

LEMMA ActivateGood ==
  ASSUME NEW c, NEW f, PmGood(c, f), NEW i \in 0..Len(Menu[c.menu]) - 1, Activate(c, i)
  PROVE  PmGood(pm', f) /\ effect' \in {"run", "none"}
<1>0. c \in PmState
  BY DEF PmGood
<1>1. i \in 0..2 /\ (c.menu = 1 \/ (c.menu = 2 /\ i = 0))
  <2>1. c.menu = 1 \/ c.menu = 2
    BY <1>0 DEF PmState
  <2>2. CASE c.menu = 1
    BY <2>2, MenuShape
  <2>3. CASE c.menu = 2
    BY <2>3, MenuShape
  <2> QED BY <2>1, <2>2, <2>3
<1> DEFINE action == Menu[c.menu][i + 1]
           chosen == [c EXCEPT !.item = i, !.open = action = "RESTART"]
<1>2. pm' = CASE action = "RESTART" -> [chosen EXCEPT !.confirm = TRUE, !.yes = TRUE]
              [] action = "ABOUT"   -> [chosen EXCEPT !.about = TRUE]
              [] OTHER              -> chosen
  BY DEF Activate
<1>3. chosen = [c EXCEPT !.item = i, !.open = action = "RESTART"]
  OBVIOUS
<1>4. action = "RESTART" => i < Len(Menu[c.menu])
  BY <1>1, MenuShape
<1> HIDE DEF action
<1>5. /\ chosen \in PmState /\ chosen.window = c.window /\ chosen.lastRow = c.lastRow
      /\ chosen.menu = c.menu /\ chosen.item = i
  BY <1>0, <1>1, <1>3 DEF PmState
<1>6. chosen.open = (action = "RESTART")
  BY <1>0, <1>3 DEF PmState
<1> HIDE DEF chosen
<1>7. /\ pm' \in PmState /\ pm'.window = c.window /\ pm'.lastRow = c.lastRow
      /\ pm'.menu = c.menu /\ pm'.item = i
  BY <1>2, <1>5 DEF PmState
<1>8. pm'.open => action = "RESTART"
  BY <1>2, <1>5, <1>6 DEF PmState
<1>9. ItemFits(pm')
  BY <1>4, <1>7, <1>8 DEF ItemFits
<1> QED BY <1>7, <1>9, StepGood DEF Activate

LEMMA PmKeyKeeps ==
  ASSUME PmInv, NEW key \in PmKeys,
         KeyInAbout(key) \/ KeyInConfirm(key) \/ KeyInMenu(key) \/ KeyInList(key)
  PROVE  PmInv' /\ effect' # "double click"
<1> USE ProgmanAssumption
<1>0. /\ pm \in PmState /\ first \in Press /\ ItemFits(pm) /\ Counts(pm, first)
      /\ PmGood(pm, first)
  BY DEF PmInv, PmGood
<1>k. ASSUME NEW d, d \in PmState, d.window = pm.window, d.lastRow = pm.lastRow, ItemFits(d),
             Step(d)
      PROVE  PmInv' /\ effect' # "double click"
  <2>1. PmGood(d, first)
    BY <1>0, <1>k, StepGood
  <2> QED BY <2>1, <1>k DEF Step, PmInv
<1>1. CASE KeyInAbout(key)
  <2> DEFINE a == key \notin {"ENTER", "ESCAPE"}
             d == [pm EXCEPT !.about = a]
  <2>1. Step(d)
    BY <1>1 DEF KeyInAbout
  <2>2. a \in BOOLEAN
    OBVIOUS
  <2> HIDE DEF a
  <2>3. d \in PmState /\ d.window = pm.window /\ d.lastRow = pm.lastRow /\ d.menu = pm.menu
        /\ d.item = pm.item /\ d.open = pm.open
    BY <1>0, <2>2 DEF PmState
  <2> HIDE DEF d
  <2> QED BY <1>0, <2>1, <2>3, <1>k DEF ItemFits
<1>2. CASE KeyInConfirm(key)
  <2>1. CASE Restart
    BY <2>1, FreshGood DEF Restart, PmInv
  <2> DEFINE no == ~pm.yes
             off == FALSE
             d == [pm EXCEPT !.yes = no]
             e == [pm EXCEPT !.confirm = off]
  <2>2. Step(d) \/ Step(e) \/ Restart
    BY <1>2 DEF KeyInConfirm
  <2>b. no \in BOOLEAN /\ off \in BOOLEAN
    BY <1>0 DEF PmState
  <2> HIDE DEF no, off
  <2>3. d \in PmState /\ d.window = pm.window /\ d.lastRow = pm.lastRow /\ d.menu = pm.menu
        /\ d.item = pm.item /\ d.open = pm.open
    BY <1>0, <2>b DEF PmState
  <2>4. e \in PmState /\ e.window = pm.window /\ e.lastRow = pm.lastRow /\ e.menu = pm.menu
        /\ e.item = pm.item /\ e.open = pm.open
    BY <1>0, <2>b DEF PmState
  <2>5. ASSUME Restart PROVE effect' # "double click"
    BY <2>5 DEF Restart
  <2> HIDE DEF d, e
  <2> QED BY <1>0, <2>1, <2>2, <2>3, <2>4, <2>5, <1>k DEF ItemFits
<1>3. CASE KeyInMenu(key)
  <2> DEFINE count == Len(Menu[pm.menu])
  <2>0. pm.item \in 0..2 /\ (pm.menu = 1 \/ pm.menu = 2) /\ pm.open /\ pm.item < count
        /\ count \in {1, 3}
    <3>1. pm.item \in 0..2 /\ (pm.menu = 1 \/ pm.menu = 2) /\ pm.open
      BY <1>0, <1>3 DEF PmState, KeyInMenu
    <3>2. pm.item < count
      BY <3>1, <1>0 DEF ItemFits
    <3>3. count \in {1, 3}
      BY <3>1, MenuShape
    <3> QED BY <3>1, <3>2, <3>3
  <2>1. CASE Step([pm EXCEPT !.open = FALSE])
    <3> DEFINE off == FALSE
               d == [pm EXCEPT !.open = off]
    <3>b. off \in BOOLEAN /\ ~off
      OBVIOUS
    <3> HIDE DEF off
    <3>1. d \in PmState /\ d.window = pm.window /\ d.lastRow = pm.lastRow /\ d.open = off
      BY <1>0, <3>b DEF PmState
    <3>2. Step(d)
      BY <2>1 DEF off
    <3> HIDE DEF d
    <3> QED BY <3>b, <3>1, <3>2, <1>k DEF ItemFits
  <2>2. CASE Step([pm EXCEPT !.menu = 3 - @, !.item = 0])
    <3> DEFINE m == 3 - pm.menu
               d == [pm EXCEPT !.menu = m, !.item = 0]
    <3>b. m \in 1..2 /\ (m = 1 \/ m = 2) /\ 0 \in 0..2
      BY <2>0
    <3> HIDE DEF m
    <3>2. Step(d)
      BY <2>2 DEF m
    <3>4. d = [pm EXCEPT !.menu = m, !.item = 0]
      OBVIOUS
    <3> HIDE DEF d
    <3>5. d \in PmState
      BY <1>0, <3>b, <3>4 DEF PmState
    <3>6. d.window = pm.window /\ d.lastRow = pm.lastRow /\ d.item = 0 /\ d.menu = m
      BY <1>0, <3>b, <3>4 DEF PmState
    <3>1. d \in PmState /\ d.window = pm.window /\ d.lastRow = pm.lastRow /\ d.item = 0
          /\ (d.menu = 1 \/ d.menu = 2)
      BY <3>5, <3>6, <3>b
    <3>3. Len(Menu[d.menu]) > 0
      BY <3>1, MenuShape
    <3> QED BY <3>1, <3>2, <3>3, <1>k DEF ItemFits
  <2>3. ASSUME NEW i \in 0..2, i < count, Step([pm EXCEPT !.item = i])
        PROVE  PmInv' /\ effect' # "double click"
    <3> DEFINE d == [pm EXCEPT !.item = i]
    <3>1. d \in PmState /\ d.window = pm.window /\ d.lastRow = pm.lastRow /\ d.item = i
          /\ d.menu = pm.menu
      BY <1>0 DEF PmState
    <3>2. Step(d)
      BY <2>3
    <3> HIDE DEF d
    <3> QED BY <3>1, <3>2, <2>3, <1>k DEF ItemFits
  <2> HIDE DEF count
  <2>4. CASE Step([pm EXCEPT !.item = (pm.item + count - 1) % count])
    <3>1. (pm.item + count - 1) % count \in 0..2 /\ (pm.item + count - 1) % count < count
      BY <2>0
    <3> QED BY <3>1, <2>4, <2>3
  <2>5. CASE Step([pm EXCEPT !.item = (pm.item + 1) % count])
    <3>1. (pm.item + 1) % count \in 0..2 /\ (pm.item + 1) % count < count
      BY <2>0
    <3> QED BY <3>1, <2>5, <2>3
  <2>6. CASE Activate(pm, pm.item) /\ UNCHANGED first
    <3>1. pm.item \in 0..Len(Menu[pm.menu]) - 1
      BY <2>0 DEF count
    <3>2. PmGood(pm', first) /\ effect' \in {"run", "none"}
      BY <3>1, <2>6, <1>0, ActivateGood
    <3> QED BY <3>2, <2>6 DEF PmInv
  <2>7. \/ Step([pm EXCEPT !.open = FALSE]) \/ Step([pm EXCEPT !.menu = 3 - @, !.item = 0])
        \/ Step([pm EXCEPT !.item = (pm.item + count - 1) % count])
        \/ Step([pm EXCEPT !.item = (pm.item + 1) % count])
        \/ (Activate(pm, pm.item) /\ UNCHANGED first)
    BY <1>3 DEF KeyInMenu, count
  <2> QED BY <2>1, <2>2, <2>4, <2>5, <2>6, <2>7
<1>4. CASE KeyInList(key)
  <2>1. CASE effect' = "run" /\ UNCHANGED <<pm, first>>
    BY <2>1, <1>0 DEF PmInv
  <2>2. ASSUME NEW n \in 0..Count - 1, Step([pm EXCEPT !.selected = n])
        PROVE  PmInv' /\ effect' # "double click"
    <3> DEFINE d == [pm EXCEPT !.selected = n]
    <3>1. d \in PmState /\ d.window = pm.window /\ d.lastRow = pm.lastRow /\ d.item = pm.item
          /\ d.menu = pm.menu /\ d.open = pm.open
      BY <1>0 DEF PmState
    <3>2. Step(d)
      BY <2>2
    <3> HIDE DEF d
    <3> QED BY <3>1, <3>2, <1>0, <1>k DEF ItemFits
  <2>3. CASE Step([pm EXCEPT !.open = TRUE, !.item = 0])
    <3> DEFINE on == TRUE
               z == 0
               d == [pm EXCEPT !.open = on, !.item = z]
    <3>b. on \in BOOLEAN /\ z \in 0..2 /\ (pm.menu = 1 \/ pm.menu = 2)
      BY <1>0 DEF PmState
    <3>z. z = 0
      OBVIOUS
    <3> HIDE DEF on, z
    <3>2. Step(d)
      BY <2>3 DEF on, z
    <3>4. d = [pm EXCEPT !.open = on, !.item = z]
      OBVIOUS
    <3> HIDE DEF d
    <3>5. d \in PmState
      BY <1>0, <3>b, <3>4 DEF PmState
    <3>6. d.window = pm.window /\ d.lastRow = pm.lastRow /\ d.item = z /\ d.menu = pm.menu
      BY <1>0, <3>b, <3>4 DEF PmState
    <3>1. d \in PmState /\ d.window = pm.window /\ d.lastRow = pm.lastRow /\ d.item = 0
          /\ (d.menu = 1 \/ d.menu = 2)
      BY <3>5, <3>6, <3>b, <3>z
    <3>3. Len(Menu[d.menu]) > 0
      BY <3>1, MenuShape
    <3> QED BY <3>1, <3>2, <3>3, <1>k DEF ItemFits
  <2> DEFINE u == IF pm.selected > 0 THEN pm.selected - 1 ELSE pm.selected
             v == IF pm.selected + 1 < Count THEN pm.selected + 1 ELSE pm.selected
  <2>4. u \in 0..Count - 1 /\ v \in 0..Count - 1
    <3>1. pm.selected \in 0..Count - 1
      BY <1>0 DEF PmState
    <3> QED BY <3>1
  <2>5. \/ (effect' = "run" /\ UNCHANGED <<pm, first>>)
        \/ Step([pm EXCEPT !.selected = u]) \/ Step([pm EXCEPT !.selected = v])
        \/ Step([pm EXCEPT !.open = TRUE, !.item = 0])
    BY <1>4 DEF KeyInList
  <2>6. effect' = "run" => effect' # "double click"
    OBVIOUS
  <2> HIDE DEF u, v
  <2> QED BY <2>1, <2>2, <2>3, <2>4, <2>5, <2>6
<1> QED BY <1>1, <1>2, <1>3, <1>4

(* A packet for an open box, or the right button, leaves the double click  *)
(* as it is; the left button on the list closes its window by one.         *)
LEMMA BoxKeeps ==
  ASSUME PmInv, NEW left \in BOOLEAN, NEW p,
         MouseInAbout(left) \/ MouseRight(left) \/ MouseInConfirm(p, left)
  PROVE  PmInv' /\ effect' # "double click"
<1>0. /\ pm \in PmState /\ first \in Press /\ ItemFits(pm) /\ Counts(pm, first)
      /\ PmGood(pm, first)
  BY DEF PmInv, PmGood
<1>m. pm.menu = 1 \/ pm.menu = 2
  BY <1>0 DEF PmState
<1>k. ASSUME NEW d, d \in PmState, d.window = pm.window, d.lastRow = pm.lastRow, ItemFits(d),
             Step(d)
      PROVE  PmInv' /\ effect' # "double click"
  <2>1. PmGood(d, first)
    BY <1>0, <1>k, StepGood
  <2> QED BY <2>1, <1>k DEF Step, PmInv
<1>1. CASE MouseInAbout(left)
  <2> DEFINE a == ~PressEdge(left)
             d == [pm EXCEPT !.about = a, !.prev = left]
  <2>1. Step(d)
    BY <1>1 DEF MouseInAbout
  <2>2. a \in BOOLEAN
    OBVIOUS
  <2>3. d = [pm EXCEPT !.about = a, !.prev = left]
    OBVIOUS
  <2> HIDE DEF a, d
  <2>4. d \in PmState
    BY <1>0, <2>2, <2>3 DEF PmState
  <2>5. d.window = pm.window /\ d.lastRow = pm.lastRow /\ d.menu = pm.menu /\ d.item = pm.item
    BY <1>0, <2>2, <2>3 DEF PmState
  <2>6. d.open = pm.open
    BY <1>0, <2>2, <2>3 DEF PmState
  <2> QED BY <1>0, <2>1, <2>4, <2>5, <2>6, <1>k DEF ItemFits
<1>2. CASE MouseRight(left)
  <2> DEFINE on == TRUE
             d == [pm EXCEPT !.open = on, !.item = 0, !.prev = left]
  <2>1. Step(d)
    BY <1>2 DEF MouseRight
  <2>2. on \in BOOLEAN /\ 0 \in 0..2
    OBVIOUS
  <2>3. d = [pm EXCEPT !.open = on, !.item = 0, !.prev = left]
    OBVIOUS
  <2> HIDE DEF on, d
  <2>4. d \in PmState
    BY <1>0, <2>2, <2>3 DEF PmState
  <2>5. d.window = pm.window /\ d.lastRow = pm.lastRow /\ d.menu = pm.menu /\ d.item = 0
    BY <1>0, <2>2, <2>3 DEF PmState
  <2>6. Len(Menu[d.menu]) > 0
    BY <1>m, <2>5, MenuShape
  <2> QED BY <2>1, <2>4, <2>5, <2>6, <1>k DEF ItemFits
<1>3. CASE MouseInConfirm(p, left)
  <2>1. CASE Restart
    <3>1. pm' = Fresh(FALSE) /\ effect' = "reboot" /\ first' = NoClick
      BY <2>1 DEF Restart
    <3>2. PmGood(Fresh(FALSE), NoClick)
      BY FreshGood
    <3> QED BY <3>1, <3>2 DEF PmInv
  <2> DEFINE b == ~(PressEdge(left) /\ Dismisses(p))
             d == [pm EXCEPT !.confirm = b, !.prev = left]
  <2>2. Restart \/ Step(d)
    BY <1>3 DEF MouseInConfirm
  <2>3. b \in BOOLEAN
    OBVIOUS
  <2>4. d = [pm EXCEPT !.confirm = b, !.prev = left]
    OBVIOUS
  <2> HIDE DEF b, d
  <2>5. d \in PmState
    BY <1>0, <2>3, <2>4 DEF PmState
  <2>6. d.window = pm.window /\ d.lastRow = pm.lastRow /\ d.menu = pm.menu /\ d.item = pm.item
    BY <1>0, <2>3, <2>4 DEF PmState
  <2>7. d.open = pm.open
    BY <1>0, <2>3, <2>4 DEF PmState
  <2> QED BY <1>0, <2>1, <2>2, <2>5, <2>6, <2>7, <1>k DEF ItemFits
<1> QED BY <1>1, <1>2, <1>3

LEMMA ListKeeps ==
  ASSUME PmInv, NEW left \in BOOLEAN, NEW p \in Points,
         MouseOnNothing(p, left) \/ MouseOnBar(p) \/ MouseOnItem(p)
  PROVE  PmInv' /\ effect' # "double click"
<1>1. PmGood(CountedDown(left), Aged) /\ PmGood(CountedDown(TRUE), Aged)
  BY PmAged
<1>2. CASE MouseOnNothing(p, left)
  <2> DEFINE c == CountedDown(left)
             o == c.open /\ ~PressEdge(left)
             d == [c EXCEPT !.open = o]
  <2>1. pm' = d /\ effect' = "none" /\ first' = Aged
    BY <1>2 DEF MouseOnNothing
  <2>2. o \in BOOLEAN /\ (o => c.open)
    OBVIOUS
  <2>3. c \in PmState /\ ItemFits(c)
    BY <1>1 DEF PmGood
  <2>4. d = [c EXCEPT !.open = o]
    OBVIOUS
  <2> HIDE DEF c, o, d
  <2>5. d \in PmState
    BY <2>2, <2>3, <2>4 DEF PmState
  <2>6. d.window = c.window /\ d.lastRow = c.lastRow /\ d.menu = c.menu /\ d.item = c.item
    BY <2>2, <2>3, <2>4 DEF PmState
  <2>7. d.open = o
    BY <2>2, <2>3, <2>4 DEF PmState
  <2>8. ItemFits(d)
    BY <2>2, <2>3, <2>6, <2>7 DEF ItemFits
  <2>9. PmGood(d, Aged)
    BY <1>1, <2>5, <2>6, <2>8, StepGood DEF c
  <2> QED BY <2>1, <2>9 DEF PmInv
<1>3. CASE MouseOnBar(p)
  <2> DEFINE c == CountedDown(TRUE)
             off == FALSE
             d == [c EXCEPT !.open = off]
             m == CHOOSE k \in TitleAt(p) : TRUE
             e == [c EXCEPT !.open = TRUE, !.item = 0, !.menu = m]
  <2>1. pm' = (IF TitleAt(p) = {} THEN d ELSE e) /\ effect' = "none" /\ first' = Aged
    BY <1>3 DEF MouseOnBar
  <2>2. c \in PmState
    BY <1>1 DEF PmGood
  <2>3. CASE TitleAt(p) = {}
    <3>1. d = [c EXCEPT !.open = off] /\ off \in BOOLEAN /\ ~off
      OBVIOUS
    <3>2. pm' = d
      BY <2>1, <2>3
    <3> HIDE DEF c, off, d
    <3>3. d \in PmState
      BY <2>2, <3>1 DEF PmState
    <3>4. d.window = c.window /\ d.lastRow = c.lastRow
      BY <2>2, <3>1 DEF PmState
    <3>5. d.open = off
      BY <2>2, <3>1 DEF PmState
    <3>6. PmGood(d, Aged)
      BY <1>1, <3>1, <3>3, <3>4, <3>5, StepGood DEF ItemFits, c
    <3> QED BY <2>1, <3>2, <3>6 DEF PmInv
  <2>4. CASE TitleAt(p) # {}
    <3> DEFINE on == TRUE
    <3>1. m \in TitleAt(p) /\ TitleAt(p) \subseteq 1..2
      BY <2>4 DEF TitleAt
    <3>2. m \in 1..2 /\ (m = 1 \/ m = 2) /\ on \in BOOLEAN /\ 0 \in 0..2
      BY <3>1
    <3>3. pm' = e /\ e = [c EXCEPT !.open = on, !.item = 0, !.menu = m]
      BY <2>1, <2>4
    <3> HIDE DEF c, on, m, e
    <3>4. e \in PmState
      BY <2>2, <3>2, <3>3 DEF PmState
    <3>5. e.window = c.window /\ e.lastRow = c.lastRow /\ e.item = 0 /\ e.menu = m
      BY <2>2, <3>2, <3>3 DEF PmState
    <3>6. Len(Menu[e.menu]) > 0
      BY <3>2, <3>5, MenuShape
    <3>7. PmGood(e, Aged)
      BY <1>1, <3>4, <3>5, <3>6, StepGood DEF ItemFits, c
    <3> QED BY <2>1, <3>3, <3>7 DEF PmInv
  <2> QED BY <2>3, <2>4
<1>4. CASE MouseOnItem(p)
  <2> DEFINE c == CountedDown(TRUE)
  <2>1. PICK i \in ItemAt(p) : Activate(c, i)
    BY <1>4 DEF MouseOnItem
  <2>2. c.menu = pm.menu
    BY DEF PmInv, PmGood, PmState, CountedDown
  <2>3. i \in 0..Len(Menu[c.menu]) - 1
    BY <2>2 DEF ItemAt
  <2>4. PmGood(pm', Aged) /\ effect' \in {"run", "none"}
    BY <1>1, <2>1, <2>3, ActivateGood
  <2> QED BY <1>4, <2>4 DEF PmInv, MouseOnItem
<1> QED BY <1>2, <1>3, <1>4

LEMMA RowKeeps ==
  ASSUME PmInv, NEW p \in Points, MouseOnRow(p)
  PROVE  /\ PmInv'
         /\ effect' = "double click" => first.row = pm'.selected /\ first.age + 1 < Span
<1> USE ProgmanAssumption
<1>1. PmGood(CountedDown(TRUE), Aged)
  BY PmAged
<1> DEFINE d == CountedDown(TRUE)
<1>2. PICK r \in RowAt(p) :
        LET c == [d EXCEPT !.open = FALSE, !.selected = r] IN
        IF c.lastRow = r /\ c.window > 0
        THEN /\ pm' = [c EXCEPT !.window = 0, !.lastRow = -1]
             /\ effect' = "double click"
             /\ first' = NoClick
        ELSE /\ pm' = [c EXCEPT !.window = Span, !.lastRow = r]
             /\ effect' = "none"
             /\ first' = [row |-> r, age |-> 0]
  BY DEF MouseOnRow
<1> DEFINE off == FALSE
           c == [d EXCEPT !.open = off, !.selected = r]
<1>3. r \in 0..Count - 1 /\ off \in BOOLEAN /\ ~off
  BY DEF RowAt
<1>4. c = [d EXCEPT !.open = off, !.selected = r]
  OBVIOUS
<1>5. IF c.lastRow = r /\ c.window > 0
      THEN /\ pm' = [c EXCEPT !.window = 0, !.lastRow = -1]
           /\ effect' = "double click"
           /\ first' = NoClick
      ELSE /\ pm' = [c EXCEPT !.window = Span, !.lastRow = r]
           /\ effect' = "none"
           /\ first' = [row |-> r, age |-> 0]
  BY <1>2
<1>6. d \in PmState
  BY <1>1 DEF PmGood
<1>p. pm \in PmState /\ first \in Press /\ Counts(pm, first)
  BY DEF PmInv, PmGood
<1>w. pm.window \in 0..Span
  BY <1>p DEF PmState
<1>7. d.lastRow = pm.lastRow /\ (d.window > 0 => pm.window > 1)
  <2> DEFINE w == IF pm.window > 0 THEN pm.window - 1 ELSE 0
  <2>1. d = [pm EXCEPT !.window = w, !.prev = TRUE]
    BY DEF CountedDown
  <2>2. w \in Int /\ (w > 0 => pm.window > 1)
    BY <1>w
  <2> HIDE DEF w, d
  <2>3. d.lastRow = pm.lastRow /\ d.window = w
    BY <1>p, <2>1 DEF PmState
  <2> QED BY <2>2, <2>3
<1> HIDE DEF c, d, off
<1>c. c \in PmState
  BY <1>3, <1>4, <1>6 DEF PmState
<1>8. c.window = d.window /\ c.lastRow = d.lastRow /\ c.selected = r
  BY <1>3, <1>4, <1>6 DEF PmState
<1>9. c.open = off
  BY <1>3, <1>4, <1>6 DEF PmState
<1>10. CASE c.lastRow = r /\ c.window > 0
  <2> DEFINE z == 0
             none == -1
  <2>1. pm' = [c EXCEPT !.window = z, !.lastRow = none] /\ effect' = "double click"
        /\ first' = NoClick
    BY <1>5, <1>10
  <2>0. z \in 0..Span /\ none \in -1..Count - 1 /\ z = 0
    OBVIOUS
  <2> HIDE DEF z, none
  <2> DEFINE mid == [c EXCEPT !.window = z]
  <2>m. mid \in PmState
    BY <1>c, <2>0 DEF PmState
  <2>n. pm' = [mid EXCEPT !.lastRow = none]
    BY <2>1
  <2> HIDE DEF mid
  <2>2. pm' \in PmState
    BY <2>m, <2>0, <2>n DEF PmState
  <2>3. pm'.window = 0 /\ pm'.selected = r
    <3>1. pm'.window = z
      BY <1>c, <2>1 DEF PmState
    <3>2. pm'.selected = c.selected
      BY <1>c, <2>1 DEF PmState
    <3> QED BY <1>8, <2>0, <3>1, <3>2
  <2>4. pm'.open = off
    BY <1>c, <1>9, <2>1 DEF PmState
  <2>5. NoClick \in Press
    BY DEF NoClick, Press
  <2>10. ItemFits(pm')
    BY <1>3, <2>4 DEF ItemFits
  <2>11. Counts(pm', first')
    BY <2>3 DEF Counts
  <2>8. PmGood(pm', first')
    BY <2>1, <2>2, <2>5, <2>10, <2>11 DEF PmGood
  <2>9. pm.window > 1 /\ pm.lastRow = r
    BY <1>7, <1>8, <1>10
  <2>6. first.row = r /\ first.age = Span - pm.window
    BY <1>p, <1>w, <2>9 DEF Counts
  <2>7. first.age + 1 < Span
    BY <1>w, <2>6, <2>9
  <2> QED BY <2>1, <2>3, <2>6, <2>7, <2>8 DEF PmInv
<1>11. CASE ~(c.lastRow = r /\ c.window > 0)
  <2>1. pm' = [c EXCEPT !.window = Span, !.lastRow = r] /\ effect' = "none"
        /\ first' = [row |-> r, age |-> 0]
    BY <1>5, <1>11
  <2>2. pm' \in PmState
    <3>1. Span \in 0..Span /\ r \in -1..Count - 1
      BY <1>3
    <3> QED BY <1>c, <3>1, <2>1 DEF PmState
  <2>3. pm'.window = Span /\ pm'.lastRow = r
    BY <1>c, <1>8, <2>1 DEF PmState
  <2>4. pm'.open = off
    BY <1>c, <1>9, <2>1 DEF PmState
  <2>5. first' \in Press /\ first'.row = r /\ first'.age = 0
    BY <1>3, <2>1 DEF Press
  <2>7. ItemFits(pm')
    BY <1>3, <2>4 DEF ItemFits
  <2>8. Counts(pm', first')
    BY <1>3, <2>3, <2>5 DEF Counts
  <2>6. PmGood(pm', first')
    BY <2>2, <2>5, <2>7, <2>8 DEF PmGood
  <2> QED BY <2>1, <2>6 DEF PmInv
<1> QED BY <1>10, <1>11

LEMMA PmStepKeeps ==
  ASSUME PmInv, PmNext
  PROVE  /\ PmInv'
         /\ effect' = "double click" => first.row = pm'.selected /\ first.age + 1 < Span
<1>1. CASE PmStart
  <2>1. pm.about \in BOOLEAN
    BY DEF PmInv, PmGood, PmState
  <2>2. PmGood(Fresh(pm.about), NoClick)
    BY <2>1, FreshGood
  <2> QED BY <1>1, <2>2 DEF PmStart, PmInv
<1>2. CASE \E key \in PmKeys :
             KeyInAbout(key) \/ KeyInConfirm(key) \/ KeyInMenu(key) \/ KeyInList(key)
  BY <1>2, PmKeyKeeps
<1>3. CASE \E left \in BOOLEAN : MouseInAbout(left) \/ MouseRight(left)
  <2>1. PICK left \in BOOLEAN : MouseInAbout(left) \/ MouseRight(left)
    BY <1>3
  <2> QED BY <2>1, BoxKeeps
<1>4. CASE \E p \in Points, left \in BOOLEAN : MouseInConfirm(p, left) \/ MouseOnNothing(p, left)
  BY <1>4, BoxKeeps, ListKeeps
<1>5. CASE \E p \in Points : MouseOnBar(p) \/ MouseOnItem(p) \/ MouseOnRow(p)
  BY <1>5, ListKeeps, RowKeeps
<1> QED BY <1>1, <1>2, <1>3, <1>4, <1>5 DEF PmNext

(***************************************************************************)
(* pm_key and pm_mouse keep every variable of the program manager in its   *)
(* range, however many programs there are.                                 *)
(***************************************************************************)
THEOREM PmTypesHold == PmSpec => []PmTypeOK
<1>1. PmInit => PmInv
  BY FreshGood DEF PmInit, PmInv
<1>2. PmInv /\ [PmNext]_pmVars => PmInv'
  <2>1. CASE UNCHANGED pmVars
    BY <2>1 DEF pmVars, PmInv
  <2> QED BY <2>1, PmStepKeeps
<1>3. PmInv => PmTypeOK
  BY DEF PmInv, PmGood, PmTypeOK, PmState, Press, ItemFits
<1> QED BY <1>1, <1>2, <1>3, PTL DEF PmSpec

(***************************************************************************)
(* A program is launched by the mouse only by the second of two presses on *)
(* its row, fewer than the span of packets apart.                          *)
(***************************************************************************)
THEOREM DoubleClicksAreTwo == PmSpec => DoubleClickIsTwo
<1> DEFINE Two == effect' = "double click" =>
                    first.row = pm'.selected /\ first.age + 1 < Span
<1>1. PmInit => PmInv
  BY FreshGood DEF PmInit, PmInv
<1>2. PmInv /\ [PmNext]_pmVars => PmInv' /\ [Two]_pmVars
  <2>1. CASE UNCHANGED pmVars
    BY <2>1 DEF pmVars, PmInv
  <2> QED BY <2>1, PmStepKeeps
<1> QED BY <1>1, <1>2, PTL DEF PmSpec, DoubleClickIsTwo

-----------------------------------------------------------------------------
(***************************************************************************)
(* The settings program.                                                   *)
(***************************************************************************)
AppState ==
  [running : BOOLEAN, section : DOMAIN Sections, editing : BOOLEAN, prev : BOOLEAN,
   index : DOMAIN Themes]

Edited == {"CURSOR", "THEME"}

AppGood(a) ==
  /\ a \in AppState
  /\ a.running /\ a.editing => Sections[a.section] \in Edited

Chosen ==
  [blink : ToSet(Blinks), hours : {12, 24}, width : {320, 640}, theme : ToSet(Themes)]

(* The theme is the same in the three places it is kept in.                *)
SameTheme(a, s, t) == Themes[a.index] = s.theme /\ s.theme = t

SetInv == AppGood(setApp) /\ settings \in Chosen /\ SameTheme(setApp, settings, theme)

LEMMA SectionNames ==
  /\ DOMAIN Sections = 1..7 /\ Len(Sections) = 7
  /\ Sections[1] = "CURSOR" /\ Sections[2] = "TIME" /\ Sections[3] = "DISPLAY"
  /\ Sections[4] = "THEME" /\ Sections[5] = "APPLY" /\ Sections[6] = "RESET"
  /\ Sections[7] = "CLOSE"
  BY DEF Sections

LEMMA BlinkValues ==
  /\ DOMAIN Blinks = 1..5 /\ Len(Blinks) = 5
  /\ Blinks[1] = 1000 /\ Blinks[2] = 750 /\ Blinks[3] = 500 /\ Blinks[4] = 300
  /\ Blinks[5] = 150
  BY DEF Blinks

LEMMA ThemesAre ==
  /\ DOMAIN Themes = 1..Len(Themes) /\ Len(Themes) \in Nat \ {0}
  /\ \A i \in DOMAIN Themes : Themes[i] \in ToSet(Themes)
  /\ 1 \in DOMAIN Themes
  BY ThemesAssumption DEF ToSet

(* detect_theme finds the one number of a built-in theme.                  *)
LEMMA DetectedIsIt ==
  ASSUME NEW t \in ToSet(Themes)
  PROVE  Detected(t) \in DOMAIN Themes /\ Themes[Detected(t)] = t
<1> DEFINE same == { i \in DOMAIN Themes : Themes[i] = t }
<1>1. same # {}
  BY DEF ToSet
<1>2. same \in SUBSET Nat
  BY ThemesAre
<1>3. Min(same) \in same
  BY <1>1, <1>2, MinOfNats
<1> QED BY <1>1, <1>3 DEF Detected

(* The next and the one before are there, around the end.                  *)
LEMMA TurnStays ==
  ASSUME NEW n \in Nat \ {0}, NEW i \in 1..n, NEW step \in {-1, 1}
  PROVE  Turn(i, n, step) \in 1..n
<1> DEFINE x == i - 1 + step
<1>1. x \in Int
  OBVIOUS
<1> HIDE DEF x
<1>2. x % n \in 0..n - 1
  BY <1>1
<1>3. (x % n) + 1 \in 1..n
  BY <1>2
<1> QED BY <1>3 DEF Turn, x

(* The setters of single settings leave the theme alone.                   *)
LEMMA SettersKeep ==
  ASSUME settings \in Chosen,
         \/ \E step \in {-1, 1} : TurnBlink(step)
         \/ ToggleTime \/ ToggleResolution \/ Keep
  PROVE  settings' \in Chosen /\ settings'.theme = settings.theme /\ theme' = theme
<1>1. ASSUME NEW step \in {-1, 1}, TurnBlink(step)
      PROVE  settings' \in Chosen /\ settings'.theme = settings.theme /\ theme' = theme
  <2> DEFINE at == CHOOSE i \in DOMAIN Blinks : Blinks[i] = settings.blink
             b == Blinks[Turn(at, Len(Blinks), step)]
  <2>1. \E i \in DOMAIN Blinks : Blinks[i] = settings.blink
    BY DEF Chosen, ToSet
  <2>2. at \in 1..5
    BY <2>1, BlinkValues
  <2>3. Turn(at, Len(Blinks), step) \in 1..5
    <3> HIDE DEF at
    <3>1. Turn(at, 5, step) \in 1..5
      BY <2>2, 5 \in Nat \ {0}, TurnStays
    <3> QED BY <3>1, BlinkValues
  <2>4. b \in ToSet(Blinks)
    BY <2>3, BlinkValues DEF ToSet
  <2>5. settings' = [settings EXCEPT !.blink = b] /\ theme' = theme
    BY <1>1 DEF TurnBlink
  <2> HIDE DEF b
  <2> QED BY <2>4, <2>5 DEF Chosen
<1>2. CASE ToggleTime
  BY <1>2 DEF ToggleTime, Chosen
<1>3. CASE ToggleResolution
  BY <1>3 DEF ToggleResolution, Chosen
<1>4. CASE Keep
  BY <1>4 DEF Keep, Chosen
<1> QED BY <1>1, <1>2, <1>3, <1>4

(* theme_left and theme_right: the number and both copies go together.     *)
LEMMA TurnThemeKeeps ==
  ASSUME NEW a, AppGood(a), settings \in Chosen, NEW step \in {-1, 1}, TurnTheme(a, step)
  PROVE  SetInv'
<1> DEFINE next == Turn(a.index, Len(Themes), step)
<1>1. next \in DOMAIN Themes
  BY ThemesAre, TurnStays DEF AppGood, AppState
<1>2. /\ setApp' = [a EXCEPT !.index = next]
      /\ settings' = [settings EXCEPT !.theme = Themes[next]] /\ theme' = Themes[next]
  BY DEF TurnTheme, SetTheme
<1> HIDE DEF next
<1>3. Themes[next] \in ToSet(Themes)
  BY <1>1, ThemesAre
<1>4. settings' \in Chosen /\ settings'.theme = Themes[next]
  BY <1>2, <1>3 DEF Chosen
<1>5. setApp' \in AppState /\ setApp'.index = next /\ setApp'.section = a.section
  BY <1>1, <1>2 DEF AppGood, AppState
<1>6. setApp'.running = a.running
  BY <1>2 DEF AppGood, AppState
<1>7. setApp'.editing = a.editing
  BY <1>2 DEF AppGood, AppState
<1>8. AppGood(setApp')
  BY <1>5, <1>6, <1>7 DEF AppGood
<1> QED BY <1>2, <1>4, <1>5, <1>8 DEF SetInv, SameTheme

(* activate_selected, of whatever row: RESET puts the default theme in all *)
(* three places.                                                           *)
LEMMA ActivateKeeps ==
  ASSUME NEW a \in AppState, settings \in Chosen, SameTheme(a, settings, theme),
         \/ ~a.editing
         \/ Sections[a.section] \notin {"TIME", "DISPLAY"},
         ActivateSelected(a)
  PROVE  SetInv'
<1> DEFINE section == Sections[a.section]
           e == CASE section \in {"CURSOR", "THEME"} -> TRUE
                  [] section \in {"APPLY", "RESET"}  -> FALSE
                  [] OTHER                           -> a.editing
           r == section # "CLOSE"
           n == IF section = "RESET" THEN Detected(Themes[1]) ELSE a.index
<1>1. setApp' = [a EXCEPT !.editing = e, !.running = r, !.index = n]
  BY DEF ActivateSelected
<1>2. a.section \in 1..7 /\ a.editing \in BOOLEAN /\ a.index \in DOMAIN Themes
  BY SectionNames DEF AppState
<1>3. e \in BOOLEAN /\ r \in BOOLEAN
  BY <1>2
<1>4. e /\ r => section \in Edited
  BY <1>2, SectionNames DEF Edited
<1>5. Themes[1] \in ToSet(Themes)
  BY ThemesAre
<1>6. n \in DOMAIN Themes
  BY <1>2, <1>5, DetectedIsIt
<1>7. section = "RESET" => Themes[n] = Themes[1]
  BY <1>5, DetectedIsIt
<1>8. section # "RESET" => n = a.index
  OBVIOUS
<1>9. CASE section = "RESET"
  <2>1. settings' = Defaults /\ theme' = Themes[1]
    BY <1>9 DEF ActivateSelected, ResetDefaults
  <2>2. 500 \in ToSet(Blinks)
    BY BlinkValues DEF ToSet
  <2>3. Defaults \in Chosen /\ Defaults.theme = Themes[1]
    BY <1>5, <2>2 DEF Defaults, Chosen
  <2>4. AppGood(setApp') /\ setApp'.index = n
    <3> HIDE DEF e, r, n
    <3>1. setApp' \in AppState
      BY <1>1, <1>3, <1>6 DEF AppState
    <3>2. setApp'.index = n /\ setApp'.section = a.section
      BY <1>1 DEF AppState
    <3>3. setApp'.editing = e
      BY <1>1 DEF AppState
    <3>4. setApp'.running = r
      BY <1>1 DEF AppState
    <3> QED BY <1>4, <3>1, <3>2, <3>3, <3>4 DEF AppGood
  <2> QED BY <1>7, <1>9, <2>1, <2>3, <2>4 DEF SetInv, SameTheme
<1>10. CASE section # "RESET"
  <2>1. ToggleTime \/ ToggleResolution \/ Keep
    BY <1>10 DEF ActivateSelected
  <2>2. settings' \in Chosen /\ settings'.theme = settings.theme /\ theme' = theme
    BY <2>1, SettersKeep
  <2>4. AppGood(setApp') /\ setApp'.index = n
    <3> HIDE DEF e, r, n
    <3>1. setApp' \in AppState
      BY <1>1, <1>3, <1>6 DEF AppState
    <3>2. setApp'.index = n /\ setApp'.section = a.section
      BY <1>1 DEF AppState
    <3>3. setApp'.editing = e
      BY <1>1 DEF AppState
    <3>4. setApp'.running = r
      BY <1>1 DEF AppState
    <3> QED BY <1>4, <3>1, <3>2, <3>3, <3>4 DEF AppGood
  <2> QED BY <1>8, <1>10, <2>2, <2>4 DEF SetInv, SameTheme
<1> QED BY <1>9, <1>10

LEMMA AppKeeps ==
  ASSUME SetInv, AppGood(setApp'), setApp'.index = setApp.index,
         \/ \E step \in {-1, 1} : TurnBlink(step)
         \/ ToggleTime \/ ToggleResolution \/ Keep
  PROVE  SetInv'
<1>1. settings' \in Chosen /\ settings'.theme = settings.theme /\ theme' = theme
  BY SettersKeep DEF SetInv
<1> QED BY <1>1 DEF SetInv, SameTheme

LEMMA SetKeyKeeps ==
  ASSUME SetInv, NEW key \in {"UP", "DOWN", "LEFT", "RIGHT", "ENTER", "ESCAPE"},
         EditKey(key) \/ SelectKey(key)
  PROVE  SetInv'
<1>0. /\ AppGood(setApp) /\ setApp \in AppState /\ settings \in Chosen
      /\ SameTheme(setApp, settings, theme)
  BY DEF SetInv, AppGood
<1>d. Direction(key) \in {-1, 1}
  BY DEF Direction
<1>1. CASE EditKey(key)
  <2> DEFINE off == FALSE
             d == [setApp EXCEPT !.editing = off]
  <2>1. CASE setApp' = d /\ Keep
    <3>1. setApp' = [setApp EXCEPT !.editing = off] /\ off \in BOOLEAN /\ ~off
      BY <2>1
    <3> HIDE DEF off, d
    <3>2. setApp' \in AppState /\ setApp'.index = setApp.index
      BY <1>0, <3>1 DEF AppState
    <3>3. setApp'.editing = off
      BY <1>0, <3>1 DEF AppState
    <3> QED BY <2>1, <3>1, <3>2, <3>3, AppKeeps DEF AppGood
  <2>2. CASE TurnBlink(Direction(key)) /\ UNCHANGED setApp
    BY <1>0, <1>d, <2>2, AppKeeps
  <2>3. CASE TurnTheme(setApp, Direction(key))
    BY <1>0, <1>d, <2>3, TurnThemeKeeps
  <2> QED BY <1>1, <2>1, <2>2, <2>3 DEF EditKey
<1>2. CASE SelectKey(key)
  <2>0. setApp.running /\ ~setApp.editing
    BY <1>2 DEF SelectKey
  <2>1. ASSUME NEW i \in DOMAIN Sections, setApp' = [setApp EXCEPT !.section = i], Keep
        PROVE  SetInv'
    <3>1. setApp' \in AppState /\ setApp'.index = setApp.index
      BY <1>0, <2>1 DEF AppState
    <3>2. setApp'.editing = setApp.editing
      BY <1>0, <2>1 DEF AppState
    <3> QED BY <2>0, <2>1, <3>1, <3>2, AppKeeps DEF AppGood
  <2>2. CASE (ToggleTime \/ ToggleResolution \/ Keep) /\ UNCHANGED setApp
    BY <1>0, <2>2, AppKeeps
  <2>3. CASE ActivateSelected(setApp)
    BY <1>0, <2>0, <2>3, ActivateKeeps
  <2> DEFINE u == IF setApp.section > 1 THEN setApp.section - 1 ELSE setApp.section
             v == IF setApp.section < Len(Sections) THEN setApp.section + 1 ELSE setApp.section
  <2>4. u \in DOMAIN Sections /\ v \in DOMAIN Sections
    <3>1. setApp.section \in 1..7
      BY <1>0, SectionNames DEF AppState
    <3>2. u \in 1..7 /\ v \in 1..7
      BY <3>1, SectionNames
    <3> QED BY <3>2, SectionNames
  <2>5. \/ (setApp' = [setApp EXCEPT !.section = u] /\ Keep)
        \/ (setApp' = [setApp EXCEPT !.section = v] /\ Keep)
        \/ ((ToggleTime \/ ToggleResolution \/ Keep) /\ UNCHANGED setApp)
        \/ ActivateSelected(setApp)
    <3> HIDE DEF ToggleTime, ToggleResolution, Keep, ActivateSelected
    <3> QED BY <1>2 DEF SelectKey
  <2> HIDE DEF u, v
  <2> QED BY <2>1, <2>2, <2>3, <2>4, <2>5
<1> QED BY <1>1, <1>2

LEMMA PressRowKeeps ==
  ASSUME SetInv, NEW i \in DOMAIN Sections, NEW step \in {-1, 1}, PressRow(i, step)
  PROVE  SetInv'
<1>0. /\ AppGood(setApp) /\ setApp \in AppState /\ settings \in Chosen
      /\ SameTheme(setApp, settings, theme)
  BY DEF SetInv, AppGood
<1> DEFINE at(e) == [setApp EXCEPT !.section = i, !.editing = e, !.prev = TRUE]
<1>1. ASSUME NEW e \in BOOLEAN
      PROVE  /\ at(e) \in AppState /\ at(e).section = i /\ at(e).index = setApp.index
             /\ at(e).editing = e
             /\ SameTheme(at(e), settings, theme)
  <2> DEFINE on == TRUE
             d == [setApp EXCEPT !.section = i, !.editing = e, !.prev = on]
  <2>1. d = [setApp EXCEPT !.section = i, !.editing = e, !.prev = on] /\ on \in BOOLEAN
    OBVIOUS
  <2>2. at(e) = d
    OBVIOUS
  <2> HIDE DEF on, d
  <2>3. d \in AppState
    BY <1>0, <2>1 DEF AppState
  <2>4. d.section = i /\ d.index = setApp.index
    BY <1>0, <2>1 DEF AppState
  <2>5. d.editing = e
    BY <1>0, <2>1 DEF AppState
  <2>6. SameTheme(d, settings, theme)
    BY <1>0, <2>4 DEF SameTheme
  <2> HIDE DEF at
  <2> QED BY <2>2, <2>3, <2>4, <2>5, <2>6
<1>2. i \in 1..7
  BY SectionNames
<1>3. setApp.editing \in BOOLEAN
  BY <1>0 DEF AppState
<1>4. CASE Sections[i] = "CURSOR"
  <2>1. setApp' = at(TRUE) /\ TurnBlink(step)
    BY <1>4 DEF PressRow
  <2> HIDE DEF at
  <2>2. AppGood(setApp') /\ setApp'.index = setApp.index
    BY <1>1, <1>4, <2>1 DEF AppGood, Edited
  <2> QED BY <2>1, <2>2, AppKeeps
<1>5. CASE Sections[i] = "TIME" \/ Sections[i] = "DISPLAY" \/ Sections[i] = "APPLY"
  <2>1. setApp' = at(FALSE) /\ (ToggleTime \/ ToggleResolution \/ Keep)
    BY <1>5 DEF PressRow
  <2> HIDE DEF at
  <2>2. AppGood(setApp') /\ setApp'.index = setApp.index
    BY <1>1, <2>1 DEF AppGood
  <2> QED BY <2>1, <2>2, AppKeeps
<1>6. CASE Sections[i] = "THEME"
  <2>1. TurnTheme(at(TRUE), step)
    BY <1>6 DEF PressRow
  <2> HIDE DEF at
  <2>2. AppGood(at(TRUE))
    BY <1>1, <1>6 DEF AppGood, Edited
  <2> QED BY <1>0, <2>1, <2>2, TurnThemeKeeps
<1>7. CASE Sections[i] = "RESET"
  <2>1. ActivateSelected(at(FALSE))
    BY <1>7 DEF PressRow
  <2> HIDE DEF at
  <2> QED BY <1>0, <1>1, <2>1, ActivateKeeps
<1>8. CASE Sections[i] = "CLOSE"
  <2>1. ActivateSelected(at(setApp.editing))
    BY <1>8 DEF PressRow
  <2> DEFINE e == setApp.editing
  <2>2. /\ at(e) \in AppState /\ at(e).section = i
        /\ SameTheme(at(e), settings, theme)
    BY <1>1, <1>3
  <2> HIDE DEF at
  <2> QED BY <1>0, <1>8, <2>1, <2>2, ActivateKeeps
<1> QED BY <1>2, <1>4, <1>5, <1>6, <1>7, <1>8, SectionNames

LEMMA SetInvariance == SetSpec => []SetInv
<1>1. SetInit => SetInv
  <2>1. 500 \in ToSet(Blinks)
    BY BlinkValues DEF ToSet
  <2>2. Defaults \in Chosen /\ Defaults.theme = Themes[1]
    BY <2>1, ThemesAre DEF Defaults, Chosen
  <2>3. SetInit => AppGood(setApp) /\ setApp.index = 1
    BY ThemesAre, SectionNames DEF SetInit, AppGood, AppState
  <2> QED BY <2>2, <2>3 DEF SetInit, SetInv, SameTheme
<1>2. SetInv /\ [SetNext]_setVars => SetInv'
  <2> SUFFICES ASSUME SetInv, [SetNext]_setVars PROVE SetInv'
    OBVIOUS
  <2>0. /\ AppGood(setApp) /\ setApp \in AppState /\ settings \in Chosen
        /\ SameTheme(setApp, settings, theme)
    BY DEF SetInv, AppGood
  <2>1. CASE SetStart
    <3> DEFINE n == Detected(settings.theme)
    <3>1. settings.theme \in ToSet(Themes)
      BY <2>0 DEF Chosen
    <3>2. n \in DOMAIN Themes /\ Themes[n] = settings.theme
      BY <3>1, DetectedIsIt
    <3>3. /\ setApp' = [running |-> TRUE, section |-> 1, editing |-> FALSE, prev |-> FALSE,
                        index |-> n]
          /\ settings' = settings /\ theme' = theme
      BY <2>1 DEF SetStart, Keep
    <3> HIDE DEF n
    <3>4. AppGood(setApp') /\ setApp'.index = n
      BY <3>2, <3>3, SectionNames DEF AppGood, AppState
    <3> QED BY <2>0, <3>2, <3>3, <3>4 DEF SetInv, SameTheme
  <2>2. CASE \E left \in BOOLEAN : OtherPacket(left)
    <3>1. PICK left \in BOOLEAN : setApp' = [setApp EXCEPT !.prev = left] /\ Keep
      BY <2>2 DEF OtherPacket
    <3>2. setApp' \in AppState /\ setApp'.index = setApp.index /\ setApp'.section = setApp.section
      BY <2>0, <3>1 DEF AppState
    <3>3. setApp'.editing = setApp.editing
      BY <2>0, <3>1 DEF AppState
    <3>4. setApp'.running = setApp.running
      BY <2>0, <3>1 DEF AppState
    <3>5. AppGood(setApp')
      BY <2>0, <3>2, <3>3, <3>4 DEF AppGood
    <3> QED BY <3>1, <3>2, <3>5, AppKeeps
  <2>3. CASE UNCHANGED setVars
    BY <2>3 DEF setVars, SetInv
  <2> QED BY <2>1, <2>2, <2>3, SetKeyKeeps, PressRowKeeps DEF SetNext
<1> QED BY <1>1, <1>2, PTL DEF SetSpec

(***************************************************************************)
(* settings_key and settings_mouse keep every variable in its range, and a *)
(* setting is edited only on a row that has something to edit, however     *)
(* many themes there are.                                                  *)
(***************************************************************************)
THEOREM SetTypesHold == SetSpec => []SetTypeOK
<1>1. SetInv => SetTypeOK
  <2> SUFFICES ASSUME SetInv PROVE SetTypeOK
    OBVIOUS
  <2>1. AppGood(setApp) /\ setApp \in AppState /\ settings \in Chosen
    BY DEF SetInv, AppGood
  <2>2. theme \in ToSet(Themes)
    BY <2>1 DEF SetInv, SameTheme, Chosen
  <2> QED BY <2>1, <2>2 DEF SetTypeOK, AppGood, AppState, Chosen, Edited
<1> QED BY <1>1, SetInvariance, PTL

(* cursor_blink_name of the speeds there are, but for the normal one.      *)
LEMMA SpeedNames ==
  ASSUME NEW ms \in Int, NEW i \in DOMAIN Blinks, ms = Blinks[i], BlinkNames[i] # "NORMAL"
  PROVE  BlinkName(ms) = BlinkNames[i]
<1>1. /\ BlinkNames[1] = "VERY SLOW" /\ BlinkNames[2] = "SLOW" /\ BlinkNames[3] = "NORMAL"
      /\ BlinkNames[4] = "FAST" /\ BlinkNames[5] = "VERY FAST"
  BY DEF BlinkNames
<1>2. i \in {1, 2, 4, 5}
  <2>1. i # 3
    BY <1>1
  <2> QED BY <2>1, BlinkValues
<1>3. CASE i = 1
  <2>1. ms = 1000
    BY <1>3, BlinkValues
  <2>2. BlinkName(ms) = "VERY SLOW"
    BY <2>1 DEF BlinkName
  <2> QED BY <1>1, <1>3, <2>2
<1>4. CASE i = 2
  <2>1. ms = 750
    BY <1>4, BlinkValues
  <2>2. BlinkName(ms) = "SLOW"
    BY <2>1 DEF BlinkName
  <2> QED BY <1>1, <1>4, <2>2
<1>5. CASE i = 4
  <2>1. ms = 300
    BY <1>5, BlinkValues
  <2>2. BlinkName(ms) = "FAST"
    BY <2>1 DEF BlinkName
  <2> QED BY <1>1, <1>5, <2>2
<1>6. CASE i = 5
  <2>1. ms = 150
    BY <1>6, BlinkValues
  <2>2. BlinkName(ms) = "VERY FAST"
    BY <2>1 DEF BlinkName
  <2> QED BY <1>1, <1>6, <2>2
<1> QED BY <1>2, <1>3, <1>4, <1>5, <1>6

(***************************************************************************)
(* What the program shows is in force: the theme of the number it keeps is *)
(* that of the settings and of themes.c, after whatever keys, presses,     *)
(* resets and restarts of the program.                                     *)
(***************************************************************************)
THEOREM ShownStaysInForce == SetSpec => []ShownIsInForce
<1>1. SetInv => ShownIsInForce
  <2>1. ASSUME NEW i \in DOMAIN Blinks, settings.blink = Blinks[i], BlinkNames[i] # "NORMAL"
        PROVE  BlinkName(settings.blink) = BlinkNames[i]
    <3>1. settings.blink \in Int
      BY <2>1, BlinkValues
    <3> QED BY <2>1, <3>1, SpeedNames, Zenon
  <2> QED BY <2>1 DEF SetInv, SameTheme, ShownIsInForce
<1> QED BY <1>1, SetInvariance, PTL

-----------------------------------------------------------------------------
(***************************************************************************)
(* The calculator.                                                         *)
(***************************************************************************)
(* Where the calculator and the exact calculation agree: the operator, the *)
(* result as long as it fits, a typed number.  The smallest number is none *)
(* that can be typed, so that negation stays exact.                        *)
Agree(c, l) ==
  /\ l.op = c.op
  /\ l.typed = c.entering
  /\ l.own => l.typed /\ c.display = l.number /\ c.display # Smallest
  /\ l.fits => c.acc = l.sum

Calc ==
  [acc : Number, display : Number, op : Operator \union {"NONE"},
   entering : BOOLEAN, error : BOOLEAN,
   row : 0..Rows - 1, col : 0..Cols - 1, menus : Menus]

Ledger ==
  [sum : Number, fits : BOOLEAN, op : Operator \union {"NONE"},
   typed : BOOLEAN, own : BOOLEAN, number : Int]

Good(c, l) == c \in Calc /\ l \in Ledger /\ Agree(c, l)

(* The inductive invariant.                                                *)
CalcInv == Good(calc, ledger) /\ fault \in BOOLEAN

-----------------------------------------------------------------------------
USE WidthAssumption

(* What the processor makes of a result has the width of a number.         *)
LEMMA WrapRange == ASSUME NEW x \in Int PROVE Wrap(x) \in Number
<1> DEFINE M == 2 * (Largest + 1)
           y == x - Smallest
<1>1. M \in Nat \ {0} /\ y \in Int
  BY DEF Smallest
<1> HIDE DEF M, y
<1>2. y % M \in 0..M - 1
  BY <1>1
<1> QED BY <1>1, <1>2 DEF Wrap, Number, Smallest, M, y

(* A result that fits is not changed.                                      *)
LEMMA WrapIdle == ASSUME NEW x \in Number PROVE Wrap(x) = x
<1>1. 2 * (Largest + 1) \in Nat \ {0} /\ x - Smallest \in 0..2 * (Largest + 1) - 1
  BY DEF Number, Smallest
<1> QED BY <1>1, SmallRemainder DEF Wrap, Number, Smallest

(* A division of natural numbers makes none larger.                        *)
LEMMA DivisionShrinks ==
  ASSUME NEW n \in Nat, NEW k \in Nat \ {0}
  PROVE  n \div k \in 0..n
  OBVIOUS

LEMMA QuotientIsInt ==
  ASSUME NEW a \in Int, NEW b \in Int \ {0}
  PROVE  Quotient(a, b) \in Int
<1>1. AbsOf(a) \in Nat /\ AbsOf(b) \in Nat \ {0}
  BY DEF AbsOf
<1> QED BY <1>1, DivisionShrinks DEF Quotient

(* ACT_PERCENT: a hundredth has the width of a number, and is never the    *)
(* smallest one.                                                           *)
LEMMA PercentFits ==
  ASSUME NEW a \in Number
  PROVE  /\ Quotient(a, Hundred) \in Number
         /\ a # Smallest => Quotient(a, Hundred) # Smallest
<1>1. AbsOf(a) \in Nat /\ AbsOf(Hundred) = Hundred /\ Hundred \in Nat \ {0}
  BY DEF AbsOf, Number, Smallest
<1>2. AbsOf(a) \div Hundred \in 0..AbsOf(a)
  BY <1>1, DivisionShrinks
<1> QED BY <1>1, <1>2 DEF Quotient, AbsOf, Number, Smallest

(* press_digit: below the limit one more digit fits.                       *)
LEMMA DigitFits ==
  ASSUME NEW x \in Nat, x < Largest \div Base, NEW d \in Digit
  PROVE  x * Base + d \in 0..Largest
<1> DEFINE q == Largest \div Base
<1>1. q \in Nat /\ q * Base <= Largest
  OBVIOUS
<1> HIDE DEF q
<1>2. (x + 1) * Base <= q * Base
  BY <1>1 DEF q
<1>3. (x + 1) * Base = x * Base + Base /\ x * Base \in Nat
  OBVIOUS
<1> QED BY <1>1, <1>2, <1>3 DEF Digit

LEMMA ResultIsInt ==
  ASSUME NEW op \in Operator, NEW a \in Number, NEW b \in Number, op = "DIV" => b # 0
  PROVE  Result(op, a, b) \in Int
<1>1. a \in Int /\ b \in Int
  BY DEF Number, Smallest
<1>2. CASE op = "DIV"
  BY <1>1, <1>2, QuotientIsInt DEF Result
<1>3. CASE op # "DIV"
  BY <1>1, <1>3 DEF Result, Operator
<1> QED BY <1>2, <1>3

-----------------------------------------------------------------------------
(* press_digit                                                             *)
LEMMA DigitKeeps ==
  ASSUME NEW c, NEW l, Good(c, l), NEW a \in Action, a.name = "DIGIT"
  PROVE  Good(Performed(c, a), Booked(l, a, c, Performed(c, a)))
<1> DEFINE d == a.digit
           n == Typed(c, d)
<1>1. Performed(c, a) = n
  BY DEF Performed, Operator
<1>2. d \in Digit /\ d \in Number /\ d \in Int /\ d # Smallest
  BY DEF Action, Digit, Number, Smallest, Operator, Others
<1>3. CASE c.error
  <2>1. n = [Cleared(c) EXCEPT !.display = d, !.entering = TRUE]
    BY <1>3 DEF Typed
  <2>2. Booked(l, a, c, n) = [NoSum EXCEPT !.typed = TRUE, !.own = TRUE, !.number = d]
    BY <1>3 DEF Booked, Operator
  <2> HIDE DEF n
  <2>3. 0 \in Number
    BY DEF Number, Smallest
  <2>4. n \in Calc
    BY <1>2, <2>1, <2>3 DEF Good, Calc, Cleared
  <2>5. Booked(l, a, c, n) \in Ledger
    BY <1>2, <2>2, <2>3 DEF Ledger, NoSum
  <2>6. Agree(n, Booked(l, a, c, n))
    BY <1>2, <2>1, <2>2 DEF Good, Calc, Agree, Cleared, NoSum
  <2> QED BY <1>1, <2>4, <2>5, <2>6 DEF Good
<1>4. CASE ~c.error /\ ~c.entering
  <2>1. n = [c EXCEPT !.display = d, !.entering = TRUE]
    BY <1>4 DEF Typed
  <2>2. Booked(l, a, c, n) = [l EXCEPT !.typed = TRUE, !.own = TRUE, !.number = d]
    BY <1>4 DEF Booked, Good, Agree, Operator
  <2> HIDE DEF n
  <2>3. n \in Calc
    BY <1>2, <2>1 DEF Good, Calc
  <2>4. Booked(l, a, c, n) \in Ledger
    BY <1>2, <2>2 DEF Good, Ledger
  <2>5. Agree(n, Booked(l, a, c, n))
    BY <1>2, <2>1, <2>2 DEF Good, Calc, Ledger, Agree
  <2> QED BY <1>1, <2>3, <2>4, <2>5 DEF Good
<1>5. CASE ~c.error /\ c.entering
  <2> DEFINE k == IF ~l.own \/ n.display = c.display THEN l.number
                  ELSE IF l.number < 0 THEN l.number * Base - d
                  ELSE l.number * Base + d
  <2>1. Booked(l, a, c, n) = [l EXCEPT !.number = k]
    BY <1>5 DEF Booked, Good, Agree, Operator
  <2>2. c \in Calc /\ c.display \in Number /\ l \in Ledger /\ Agree(c, l)
    BY DEF Good, Calc
  <2>3. CASE c.display >= 0 /\ c.display < Largest \div Base
    <3> DEFINE x == c.display * Base + d
    <3>1. x \in 0..Largest
      BY <1>2, <2>2, <2>3, DigitFits DEF Number, Smallest
    <3>2. n = [c EXCEPT !.display = x]
      BY <1>5, <2>2, <2>3, <3>1, WrapIdle DEF Typed, Calc, Number, Smallest
    <3> HIDE DEF n, x
    <3>3. x \in Number /\ x # Smallest
      BY <3>1 DEF Number, Smallest
    <3>4. l.own => k = x
      BY <2>2, <2>3, <3>2 DEF Agree, x, Calc, Number, Smallest
    <3>5. k \in Int
      BY <1>2, <2>2 DEF Ledger, Digit
    <3> HIDE DEF k
    <3> QED BY <1>1, <2>1, <2>2, <3>2, <3>3, <3>4, <3>5 DEF Good, Agree, Calc, Ledger
  <2>4. CASE c.display < 0 /\ c.display > -(Largest \div Base)
    <3> DEFINE x == c.display * Base - d
    <3>1. -c.display \in Nat /\ -c.display < Largest \div Base
      BY <2>2, <2>4 DEF Number, Smallest
    <3>2. (-c.display) * Base + d \in 0..Largest
      BY <1>2, <3>1, DigitFits
    <3>3. x = -((-c.display) * Base + d)
      BY <1>2, <2>2 DEF Number, Smallest, Digit
    <3>4. x \in Number /\ x # Smallest
      BY <3>2, <3>3 DEF Number, Smallest
    <3>5. n = [c EXCEPT !.display = x]
      BY <1>5, <2>2, <2>4, <3>4, WrapIdle DEF Typed, Calc, Number, Smallest
    <3> HIDE DEF n, x
    <3>6. l.own => k = x
      BY <2>2, <2>4, <3>5 DEF Agree, x, Calc, Number, Smallest
    <3>7. k \in Int
      BY <1>2, <2>2 DEF Ledger, Digit
    <3> HIDE DEF k
    <3> QED BY <1>1, <2>1, <2>2, <3>4, <3>5, <3>6, <3>7 DEF Good, Agree, Calc, Ledger
  <2>5. CASE /\ ~(c.display >= 0 /\ c.display < Largest \div Base)
             /\ ~(c.display < 0 /\ c.display > -(Largest \div Base))
    <3>1. n = c
      BY <1>5, <2>5 DEF Typed
    <3>2. k = l.number
      BY <3>1
    <3> HIDE DEF n, k
    <3> QED BY <1>1, <2>1, <2>2, <3>1, <3>2 DEF Good, Agree, Ledger
  <2> QED BY <2>3, <2>4, <2>5
<1> QED BY <1>3, <1>4, <1>5 DEF Good, Calc

(* The two calculations take the same step with an operator.               *)
LEMMA AppliedKeeps ==
  ASSUME NEW c, NEW l, Good(c, l), c.op # "NONE", ~Refuses(c)
  PROVE  \E w \in Number :
           /\ Applied(c) = [c EXCEPT !.acc = w]
           /\ Entered(l, l.op, c.display) \in Ledger
           /\ Entered(l, l.op, c.display)
                = [l EXCEPT !.sum = Entered(l, l.op, c.display).sum,
                            !.fits = Entered(l, l.op, c.display).fits]
           /\ Entered(l, l.op, c.display).fits
                => w = Entered(l, l.op, c.display).sum
<1> DEFINE r == Result(c.op, c.acc, c.display)
           e == Result(l.op, l.sum, c.display)
           fits == l.fits /\ e \in Number
           sum == IF fits THEN e ELSE 0
<1>1. c \in Calc /\ l \in Ledger /\ l.op = c.op /\ (l.fits => c.acc = l.sum)
  BY DEF Good, Agree
<1>2. r \in Int
  BY <1>1, ResultIsInt DEF Calc, Refuses
<1>3. Wrap(r) \in Number /\ (fits => Wrap(r) = sum)
  BY <1>1, <1>2, WrapRange, WrapIdle
<1>4. Applied(c) = [c EXCEPT !.acc = Wrap(r)]
  BY DEF Applied
<1>5. Entered(l, l.op, c.display) = [l EXCEPT !.sum = sum, !.fits = fits]
  BY DEF Entered
<1>6. sum \in Number /\ fits \in BOOLEAN
  BY <1>1 DEF Ledger, Number, Smallest
<1> HIDE DEF r, fits, sum
<1>7. /\ Entered(l, l.op, c.display).sum = sum
      /\ Entered(l, l.op, c.display).fits = fits
      /\ Entered(l, l.op, c.display) \in Ledger
  BY <1>1, <1>5, <1>6 DEF Ledger
<1> QED BY <1>3, <1>4, <1>5, <1>7

(* press_operator                                                          *)
LEMMA OperatorKeeps ==
  ASSUME NEW c, NEW l, Good(c, l), NEW a \in Action, a.name \in Operator
  PROVE  Good(Performed(c, a), Booked(l, a, c, Performed(c, a)))
<1> DEFINE op == a.name
           n == Operated(c, op)
<1>1. Performed(c, a) = n
  BY DEF Performed, Operator
<1>2. c \in Calc /\ l \in Ledger /\ Agree(c, l) /\ l.op = c.op /\ l.typed = c.entering
  BY DEF Good, Agree
<1>3. 0 \in Number /\ 0 \in Int
  BY DEF Number, Smallest
<1>4. CASE c.error
  <2>1. n = c /\ Booked(l, a, c, n) = l
    BY <1>4 DEF Operated, Booked, Operator
  <2> QED BY <1>1, <2>1
<1>5. CASE ~c.error /\ c.op = "NONE"
  <2>1. n = [c EXCEPT !.acc = c.display, !.op = op, !.entering = FALSE]
    BY <1>5 DEF Operated
  <2>2. Booked(l, a, c, n) = [NoSum EXCEPT !.sum = c.display, !.op = op]
    BY <1>2, <1>5 DEF Booked, Operator
  <2> HIDE DEF n
  <2>3. n \in Calc
    BY <1>2, <2>1 DEF Calc
  <2>4. Booked(l, a, c, n) \in Ledger
    BY <1>2, <1>3, <2>2 DEF Calc, Ledger, NoSum
  <2>5. Agree(n, Booked(l, a, c, n))
    BY <1>2, <2>1, <2>2 DEF Calc, Agree, NoSum
  <2> QED BY <1>1, <2>3, <2>4, <2>5 DEF Good
<1>6. CASE ~c.error /\ c.op # "NONE" /\ ~c.entering
  <2>1. n = [c EXCEPT !.op = op]
    BY <1>6 DEF Operated
  <2>2. Booked(l, a, c, n) = [l EXCEPT !.op = op]
    BY <1>2, <1>6 DEF Booked, Operator
  <2> HIDE DEF n
  <2> QED BY <1>1, <1>2, <2>1, <2>2 DEF Good, Agree, Calc, Ledger
<1>7. CASE ~c.error /\ c.op # "NONE" /\ c.entering /\ Refuses(c)
  <2>1. n = [c EXCEPT !.error = TRUE]
    BY <1>7 DEF Operated, Applied
  <2>2. Booked(l, a, c, n) = l
    BY <1>2, <1>7 DEF Booked, Operator, Refuses
  <2> HIDE DEF n
  <2> QED BY <1>1, <1>2, <2>1, <2>2 DEF Good, Agree, Calc
<1>8. CASE ~c.error /\ c.op # "NONE" /\ c.entering /\ ~Refuses(c)
  <2> DEFINE e == Entered(l, l.op, c.display)
  <2>1. PICK w \in Number :
          /\ Applied(c) = [c EXCEPT !.acc = w]
          /\ e \in Ledger
          /\ e = [l EXCEPT !.sum = e.sum, !.fits = e.fits]
          /\ e.fits => w = e.sum
    BY <1>8, AppliedKeeps
  <2>2. n = [c EXCEPT !.acc = w, !.display = w, !.op = op, !.entering = FALSE]
    BY <1>2, <1>8, <2>1 DEF Operated, Calc
  <2>3. Booked(l, a, c, n)
          = [e EXCEPT !.op = op, !.typed = FALSE, !.own = FALSE, !.number = 0]
    BY <1>2, <1>8 DEF Booked, Operator, Refuses
  <2> HIDE DEF n, e
  <2>4. n \in Calc
    BY <1>2, <2>2 DEF Calc
  <2>5. Booked(l, a, c, n) \in Ledger
    BY <1>3, <2>1, <2>3 DEF Ledger
  <2>6. Agree(n, Booked(l, a, c, n))
    BY <1>2, <2>1, <2>2, <2>3 DEF Calc, Ledger, Agree
  <2> QED BY <1>1, <2>4, <2>5, <2>6 DEF Good
<1> QED BY <1>2, <1>4, <1>5, <1>6, <1>7, <1>8 DEF Calc

(* press_equals                                                            *)
LEMMA EqualsKeeps ==
  ASSUME NEW c, NEW l, Good(c, l), NEW a \in Action, a.name = "EQUALS"
  PROVE  Good(Performed(c, a), Booked(l, a, c, Performed(c, a)))
<1> DEFINE n == Equalled(c)
<1>1. Performed(c, a) = n
  BY DEF Performed, Operator
<1>2. c \in Calc /\ l \in Ledger /\ Agree(c, l) /\ l.op = c.op
  BY DEF Good, Agree
<1>3. 0 \in Number /\ 0 \in Int
  BY DEF Number, Smallest
<1>4. CASE c.error \/ c.op = "NONE"
  <2>1. n = c /\ Booked(l, a, c, n) = l
    BY <1>2, <1>4 DEF Equalled, Booked, Operator
  <2> QED BY <1>1, <2>1
<1>5. CASE ~c.error /\ c.op # "NONE" /\ Refuses(c)
  <2>1. n = [c EXCEPT !.error = TRUE]
    BY <1>5 DEF Equalled, Applied
  <2>2. Booked(l, a, c, n) = l
    BY <1>2, <1>5 DEF Booked, Operator, Refuses
  <2> HIDE DEF n
  <2> QED BY <1>1, <1>2, <2>1, <2>2 DEF Good, Agree, Calc
<1>6. CASE ~c.error /\ c.op # "NONE" /\ ~Refuses(c)
  <2> DEFINE e == Entered(l, l.op, c.display)
  <2>1. PICK w \in Number :
          /\ Applied(c) = [c EXCEPT !.acc = w]
          /\ e \in Ledger
          /\ e = [l EXCEPT !.sum = e.sum, !.fits = e.fits]
          /\ e.fits => w = e.sum
    BY <1>6, AppliedKeeps
  <2>2. n = [c EXCEPT !.acc = w, !.display = w, !.op = "NONE", !.entering = FALSE]
    BY <1>2, <1>6, <2>1 DEF Equalled, Calc
  <2>3. Booked(l, a, c, n)
          = [e EXCEPT !.op = "NONE", !.typed = FALSE, !.own = FALSE, !.number = 0]
    BY <1>2, <1>6 DEF Booked, Operator, Refuses
  <2> HIDE DEF n, e
  <2>4. n \in Calc
    BY <1>2, <2>2 DEF Calc
  <2>5. Booked(l, a, c, n) \in Ledger
    BY <1>3, <2>1, <2>3 DEF Ledger
  <2>6. Agree(n, Booked(l, a, c, n))
    BY <1>2, <2>1, <2>2, <2>3 DEF Calc, Ledger, Agree
  <2> QED BY <1>1, <2>4, <2>5, <2>6 DEF Good
<1> QED BY <1>2, <1>4, <1>5, <1>6 DEF Calc

(* The actions that press neither a digit nor an operator.                 *)
LEMMA OthersKeep ==
  ASSUME NEW c, NEW l, Good(c, l), NEW a \in Action, a.name \in Others, a.name # "EQUALS"
  PROVE  Good(Performed(c, a), Booked(l, a, c, Performed(c, a)))
<1> DEFINE n == Performed(c, a)
           b == Booked(l, a, c, n)
<1> SUFFICES Good(n, b)
  OBVIOUS
<1>1. c \in Calc /\ l \in Ledger /\ Agree(c, l)
  BY DEF Good
<1>2. 0 \in Number /\ 0 \in Int
  BY DEF Number, Smallest
<1>3. CASE a.name = "CLEAR_ALL"
  <2>1. n = Cleared(c) /\ b = NoSum
    BY <1>3 DEF Performed, Booked, Operator
  <2> HIDE DEF n, b
  <2> QED BY <1>1, <1>2, <2>1 DEF Good, Agree, Calc, Ledger, Cleared, NoSum
<1>4. CASE a.name = "CLEAR_ENTRY"
  <2>1. n = [c EXCEPT !.display = 0, !.entering = FALSE, !.error = FALSE]
    BY <1>4 DEF Performed, Operator
  <2>2. b = [l EXCEPT !.typed = FALSE, !.own = FALSE, !.number = 0]
    BY <1>4 DEF Booked, Operator
  <2> HIDE DEF n, b
  <2> QED BY <1>1, <1>2, <2>1, <2>2 DEF Good, Agree, Calc, Ledger
<1>5. CASE (a.name \in {"NEGATE", "PERCENT"} /\ c.error) \/ a.name = "MENU"
  <2>1. n = c /\ b = l
    BY <1>5 DEF Performed, Booked, Operator
  <2> HIDE DEF n, b
  <2> QED BY <2>1
<1>6. CASE a.name = "NEGATE" /\ ~c.error
  <2> DEFINE w == Wrap(-c.display)
  <2>1. n = [c EXCEPT !.display = w, !.entering = TRUE]
    BY <1>1, <1>6 DEF Performed, Operator, Calc
  <2>2. b = [l EXCEPT !.typed = TRUE, !.number = -l.number]
    BY <1>1, <1>6 DEF Booked, Operator, Ledger
  <2>3. c.display \in Number /\ l.number \in Int /\ c.display \in Int
    BY <1>1 DEF Calc, Ledger, Number, Smallest
  <2>4. w \in Number
    BY <2>3, WrapRange
  <2>5. c.display # Smallest => -c.display \in Number /\ -c.display # Smallest
    BY <2>3 DEF Number, Smallest
  <2>6. c.display # Smallest => w = -c.display /\ w # Smallest
    BY <2>5, WrapIdle
  <2>7. -l.number \in Int
    BY <2>3
  <2> HIDE DEF n, b, w
  <2>8. n \in Calc /\ b \in Ledger
    BY <1>1, <2>1, <2>2, <2>4, <2>7 DEF Calc, Ledger
  <2>9. Agree(n, b)
    BY <1>1, <2>1, <2>2, <2>6 DEF Agree, Calc, Ledger
  <2> QED BY <2>8, <2>9 DEF Good
<1>7. CASE a.name = "PERCENT" /\ ~c.error
  <2> DEFINE w == Quotient(c.display, Hundred)
             k == Quotient(l.number, Hundred)
  <2>1. n = [c EXCEPT !.display = w, !.entering = TRUE]
    BY <1>1, <1>7 DEF Performed, Operator, Calc
  <2>2. b = [l EXCEPT !.typed = TRUE, !.number = k]
    BY <1>1, <1>7 DEF Booked, Operator, Ledger
  <2>3. w \in Number /\ (c.display # Smallest => w # Smallest)
    BY <1>1, PercentFits DEF Calc
  <2>4. k \in Int
    BY <1>1, QuotientIsInt DEF Ledger
  <2>5. c.display = l.number => w = k
    OBVIOUS
  <2> HIDE DEF n, b, w, k
  <2>6. n \in Calc /\ b \in Ledger
    BY <1>1, <2>1, <2>2, <2>3, <2>4 DEF Calc, Ledger
  <2>7. Agree(n, b)
    BY <1>1, <2>1, <2>2, <2>3, <2>5 DEF Agree, Calc, Ledger
  <2> QED BY <2>6, <2>7 DEF Good
<1> QED BY <1>3, <1>4, <1>5, <1>6, <1>7 DEF Others

(* perform_action                                                          *)
LEMMA PerformedKeeps ==
  ASSUME NEW c, NEW l, Good(c, l), NEW a \in Action
  PROVE  Good(Performed(c, a), Booked(l, a, c, Performed(c, a)))
<1>1. a.name \in Operator \/ a.name \in Others \/ a.name = "DIGIT"
  BY DEF Action
<1> QED BY <1>1, DigitKeeps, OperatorKeeps, EqualsKeeps, OthersKeep

-----------------------------------------------------------------------------
(* calc_start                                                              *)
LEMMA StartedIsGood == Good(Started, NoSum)
<1>1. 0 \in Number /\ 0 \in Int
  BY DEF Number, Smallest
<1>2. 3 \in 0..Rows - 1 /\ 1 \in 0..Cols - 1
  BY ButtonsAssumption
<1>3. Closed \in Menus
  BY DEF Closed, Menus
<1>4. Started \in Calc /\ NoSum \in Ledger
  BY <1>1, <1>2, <1>3 DEF Started, NoSum, Calc, Ledger
<1>5. Agree(Started, NoSum)
  BY DEF Agree, Started, NoSum
<1> QED BY <1>4, <1>5 DEF Good

(* What moves the selection or the menus leaves the calculation alone.     *)
LEMMA MovedIsGood ==
  ASSUME Good(calc, ledger), NEW row \in 0..Rows - 1, NEW col \in 0..Cols - 1,
         NEW m \in Menus
  PROVE  Good([calc EXCEPT !.row = row, !.col = col, !.menus = m], ledger)
<1> DEFINE c == [calc EXCEPT !.row = row, !.col = col, !.menus = m]
<1>1. calc \in Calc
  BY DEF Good
<1>2. c \in Calc
  BY <1>1 DEF Calc
<1>3. Agree(c, ledger)
  BY <1>1 DEF Good, Agree, Calc
<1> QED BY <1>2, <1>3 DEF Good

LEMMA MovedKeeps ==
  ASSUME CalcInv, NEW row \in 0..Rows - 1, NEW col \in 0..Cols - 1, NEW m \in Menus,
         Becomes([calc EXCEPT !.row = row, !.col = col, !.menus = m])
  PROVE  CalcInv'
BY MovedIsGood DEF CalcInv, Becomes

LEMMA PerformKeeps ==
  ASSUME CalcInv, NEW c, Good(c, ledger), NEW a \in Action, Perform(c, a)
  PROVE  CalcInv'
<1>1. CASE Faults(c, a)
  BY <1>1 DEF Perform, CalcInv
<1>2. CASE ~Faults(c, a)
  BY <1>2, PerformedKeeps DEF Perform, CalcInv
<1> QED BY <1>1, <1>2

(* The help menu keeps the type of its record.                             *)
LEMMA MenusKept ==
  ASSUME NEW m \in Menus
  PROVE  /\ [m EXCEPT !.help = TRUE] \in Menus
         /\ \A left \in BOOLEAN : [m EXCEPT !.prev = left] \in Menus
         /\ \A left \in BOOLEAN : RightButton(m, left) \in Menus
         /\ \A key : MenuKey(m, key) \in Menus
         /\ \A spot : MenuPress(m, spot) \in Menus
<1>1. /\ [m EXCEPT !.help = TRUE] \in Menus
      /\ \A left \in BOOLEAN : [m EXCEPT !.prev = left] \in Menus
      /\ \A left \in BOOLEAN : RightButton(m, left) \in Menus
  BY DEF Menus, RightButton
<1>2. ASSUME NEW key PROVE MenuKey(m, key) \in Menus
  BY DEF Menus, MenuKey
<1>3. ASSUME NEW spot PROVE MenuPress(m, spot) \in Menus
  BY DEF Menus, MenuPress
<1> QED BY <1>1, <1>2, <1>3

(* calc_key, calc_mouse and the launch                                     *)
LEMMA CalcStep == CalcInv /\ [CalcNext]_calcVars => CalcInv'
<1> SUFFICES ASSUME CalcInv, [CalcNext]_calcVars PROVE CalcInv'
  OBVIOUS
<1>1. /\ calc \in Calc /\ Good(calc, ledger)
      /\ calc.row \in 0..Rows - 1 /\ calc.col \in 0..Cols - 1 /\ calc.menus \in Menus
  BY DEF CalcInv, Good, Calc
<1>2. ASSUME NEW down \in {-1, 0, 1}, NEW right \in {-1, 0, 1}, CalcArrow(down, right)
      PROVE  CalcInv'
  <2> DEFINE row == Clamp(calc.row + down, Rows - 1)
             col == Clamp(calc.col + right, Cols - 1)
  <2>1. row \in 0..Rows - 1 /\ col \in 0..Cols - 1
    BY <1>1, ButtonsAssumption DEF Clamp
  <2>2. [calc EXCEPT !.row = row, !.col = col]
          = [calc EXCEPT !.row = row, !.col = col, !.menus = calc.menus]
    BY <1>1 DEF Calc
  <2>3. Becomes([calc EXCEPT !.row = row, !.col = col])
    BY <1>2 DEF CalcArrow
  <2> HIDE DEF row, col
  <2> QED BY <1>1, <2>1, <2>2, <2>3, MovedKeeps
<1>3. ASSUME NEW a \in Action, CalcChar(a) PROVE CalcInv'
  BY <1>1, <1>3, PerformKeeps DEF CalcChar
<1>4. CASE CalcEnter
  <2>1. Buttons[calc.row, calc.col] \in Action
    BY <1>1, ButtonsAssumption
  <2> QED BY <1>1, <1>4, <2>1, PerformKeeps DEF CalcEnter
<1>5. ASSUME NEW m \in Menus, Becomes([calc EXCEPT !.menus = m])
      PROVE  CalcInv'
  <2>1. [calc EXCEPT !.menus = m]
          = [calc EXCEPT !.row = calc.row, !.col = calc.col, !.menus = m]
    BY <1>1 DEF Calc
  <2> QED BY <1>1, <1>5, <2>1, MovedKeeps
<1>6. CASE CalcHelp
  <2>1. Becomes([calc EXCEPT !.menus = [calc.menus EXCEPT !.help = TRUE]])
    BY <1>1, <1>6 DEF CalcHelp, Calc
  <2> QED BY <1>1, <1>5, <2>1, MenusKept
<1>7. ASSUME NEW key, CalcMenuKey(key) PROVE CalcInv'
  <2>1. Becomes([calc EXCEPT !.menus = MenuKey(calc.menus, key)])
    BY <1>1, <1>7 DEF CalcMenuKey, Calc
  <2> QED BY <1>1, <1>5, <2>1, MenusKept
<1>8. ASSUME NEW spot, NEW left \in BOOLEAN, NEW right \in BOOLEAN,
             CalcMouse(spot, left, right)
      PROVE  CalcInv'
  <2> DEFINE m == IF right THEN RightButton(calc.menus, left)
                  ELSE IF Edge(calc.menus, left) /\ TakesPress(calc.menus, spot)
                       THEN MenuPress(calc.menus, spot)
                       ELSE [calc.menus EXCEPT !.prev = left]
  <2>1. m \in Menus
    BY <1>1, MenusKept
  <2>2. Becomes([calc EXCEPT !.menus = m])
    BY <1>1, <1>8 DEF CalcMouse, Calc
  <2> HIDE DEF m
  <2> QED BY <1>5, <2>1, <2>2
<1>9. ASSUME NEW row \in 0..Rows - 1, NEW col \in 0..Cols - 1, CalcPress(row, col)
      PROVE  CalcInv'
  <2> DEFINE m == [calc.menus EXCEPT !.prev = TRUE]
             c == [calc EXCEPT !.row = row, !.col = col, !.menus = m]
  <2>1. m \in Menus
    BY <1>1, MenusKept
  <2>2. Perform(c, Buttons[row, col])
    BY <1>1, <1>9 DEF CalcPress, Calc
  <2>3. Buttons[row, col] \in Action
    BY ButtonsAssumption
  <2> HIDE DEF m
  <2>4. Good(c, ledger)
    BY <1>1, <2>1, MovedIsGood
  <2> HIDE DEF c
  <2> QED BY <2>2, <2>3, <2>4, PerformKeeps
<1>10. CASE CalcStart
  BY <1>10, StartedIsGood DEF CalcStart, CalcInv
<1>11. CASE UNCHANGED calcVars
  BY <1>11 DEF calcVars, CalcInv
<1> QED BY <1>2, <1>3, <1>4, <1>6, <1>7, <1>8, <1>9, <1>10, <1>11 DEF CalcNext

-----------------------------------------------------------------------------
(* The inductive invariant holds in every state that is reached.           *)
THEOREM CalcInvariance == CalcSpec => []CalcInv
<1>1. CalcInit => CalcInv
  BY StartedIsGood DEF CalcInit, CalcInv
<1> QED BY <1>1, CalcStep, PTL DEF CalcSpec

(* The variables of calculator.c keep their types: every number fits in    *)
(* the width of an integer, and the selection stays on the buttons.        *)
THEOREM CalcTypesHold == CalcSpec => []CalcTypeOK
<1>1. CalcInv => CalcTypeOK
  BY DEF CalcInv, Good, Calc, Ledger, CalcTypeOK
<1> QED BY <1>1, CalcInvariance, PTL

(* What calculator.c shows is what exact arithmetic makes of what was      *)
(* shown and pressed before, for integers of every width.                  *)
THEOREM TruthIsShown == CalcSpec => []ShowsTheTruth
<1>1. CalcInv => ShowsTheTruth
  BY DEF CalcInv, Good, Agree, ShowsTheTruth, ChainIsExact, TypedIsShown
<1> QED BY <1>1, CalcInvariance, PTL
=============================================================================
