----------------------------- MODULE Calculator -----------------------------
(***************************************************************************)
(* The calculator of kernel/calculator.c: its arithmetic in integers of a  *)
(* fixed width, the keys and buttons that drive it, and its help menu.     *)
(*                                                                         *)
(* The quotient of the smallest number by -1 does not exist: the processor *)
(* faults, and as the kernel handles no faults, starts again.              *)
(***************************************************************************)
EXTENDS Integers, HelpMenu

CONSTANTS
  Largest,       \* the largest number, 2^31 - 1 in the code
  Base,          \* 10
  Hundred,       \* 100
  Rows, Cols,    \* 5 and 4
  Buttons        \* BUTTONS: the action of the button in a row and a column

Smallest == -Largest - 1

Number == Smallest..Largest

Digit == 0..Base - 1

Operator == {"ADD", "SUB", "MUL", "DIV"}

Others == {"EQUALS", "CLEAR_ALL", "CLEAR_ENTRY", "NEGATE", "PERCENT", "MENU"}

(* calc_action_t                                                           *)
Action == [name : Operator \union Others, digit : {0}]
          \union [name : {"DIGIT"}, digit : Digit]

Act(name) == [name |-> name, digit |-> 0]

ASSUME WidthAssumption ==
  /\ Base \in Nat /\ Base > 1
  /\ Hundred \in Nat /\ Hundred > 1
  /\ Largest \in Nat /\ Largest >= Base

ASSUME ButtonsAssumption ==
  /\ Rows \in Nat /\ Rows > 3 /\ Cols \in Nat /\ Cols > 1
  /\ Buttons \in [(0..Rows - 1) \X (0..Cols - 1) -> Action]

VARIABLES
  calc,      \* the variables of calculator.c
  fault,     \* the processor has faulted
  ledger     \* history: the same calculation by exact arithmetic

calcVars == <<calc, fault, ledger>>

-----------------------------------------------------------------------------
(* The arithmetic of the processor: what does not fit wraps around, and a  *)
(* quotient is cut towards 0.                                              *)
Wrap(x) == ((x - Smallest) % (2 * (Largest + 1))) + Smallest

AbsOf(x) == IF x < 0 THEN -x ELSE x

Quotient(a, b) ==
  IF (a < 0) = (b < 0) THEN AbsOf(a) \div AbsOf(b) ELSE -(AbsOf(a) \div AbsOf(b))

Result(op, a, b) ==
  CASE op = "ADD" -> a + b
    [] op = "SUB" -> a - b
    [] op = "MUL" -> a * b
    [] op = "DIV" -> Quotient(a, b)

(* clear_all *)
Cleared(c) ==
  [c EXCEPT !.acc = 0, !.display = 0, !.op = "NONE", !.entering = FALSE, !.error = FALSE]

Refuses(c) == c.op = "DIV" /\ c.display = 0

(* apply_pending *)
Applied(c) ==
  IF Refuses(c) THEN [c EXCEPT !.error = TRUE]
  ELSE [c EXCEPT !.acc = Wrap(Result(c.op, c.acc, c.display))]

(* Mutated form: a digit is taken at the limit, too.                       *)
TypedAtLimit(c, d) ==
  IF c.error THEN [Cleared(c) EXCEPT !.display = d, !.entering = TRUE]
  ELSE IF ~c.entering THEN [c EXCEPT !.display = d, !.entering = TRUE]
  ELSE IF c.display \in 0..(Largest \div Base)
       THEN [c EXCEPT !.display = Wrap(@ * Base + d)]
  ELSE IF c.display \in -(Largest \div Base)..-1
       THEN [c EXCEPT !.display = Wrap(@ * Base - d)]
  ELSE c

(* press_digit.  The guards keep the display in range, so Wrap is idle.    *)
Typed(c, d) ==
  IF c.error THEN [Cleared(c) EXCEPT !.display = d, !.entering = TRUE]
  ELSE IF ~c.entering THEN [c EXCEPT !.display = d, !.entering = TRUE]
  ELSE IF c.display >= 0 /\ c.display < Largest \div Base
       THEN [c EXCEPT !.display = Wrap(@ * Base + d)]
  ELSE IF c.display < 0 /\ c.display > -(Largest \div Base)
       THEN [c EXCEPT !.display = Wrap(@ * Base - d)]
  ELSE c

(* Mutated form: an operator always applies the one before it.             *)
OperatedTwice(c, op) ==
  IF c.error THEN c
  ELSE IF c.op = "NONE"
       THEN [c EXCEPT !.acc = c.display, !.op = op, !.entering = FALSE]
  ELSE IF Refuses(c) THEN Applied(c)
  ELSE [Applied(c) EXCEPT !.display = Applied(c).acc, !.op = op, !.entering = FALSE]

(* press_operator *)
Operated(c, op) ==
  IF c.error THEN c
  ELSE IF c.op = "NONE"
       THEN [c EXCEPT !.acc = c.display, !.op = op, !.entering = FALSE]
  ELSE IF ~c.entering THEN [c EXCEPT !.op = op]
  ELSE IF Refuses(c) THEN Applied(c)
  ELSE [Applied(c) EXCEPT !.display = Applied(c).acc, !.op = op, !.entering = FALSE]

(* press_equals *)
Equalled(c) ==
  IF c.error \/ c.op = "NONE" THEN c
  ELSE IF Refuses(c) THEN Applied(c)
  ELSE [Applied(c) EXCEPT !.display = Applied(c).acc, !.op = "NONE", !.entering = FALSE]

(* perform_action *)
Performed(c, a) ==
  CASE a.name = "DIGIT"       -> Typed(c, a.digit)
    [] a.name \in Operator    -> Operated(c, a.name)
    [] a.name = "EQUALS"      -> Equalled(c)
    [] a.name = "CLEAR_ALL"   -> Cleared(c)
    [] a.name = "CLEAR_ENTRY" -> [c EXCEPT !.display = 0, !.entering = FALSE, !.error = FALSE]
    [] a.name = "NEGATE"      -> IF c.error THEN c
                                 ELSE [c EXCEPT !.display = Wrap(-@), !.entering = TRUE]
    [] a.name = "PERCENT"     -> IF c.error THEN c
                                 ELSE [c EXCEPT !.display = Quotient(@, Hundred),
                                                !.entering = TRUE]
    [] a.name = "MENU"        -> c

(* When perform_action comes to the division without a result.             *)
Faults(c, a) ==
  /\ ~c.error /\ c.op = "DIV" /\ c.acc = Smallest /\ c.display = -1
  /\ a.name = "EQUALS" \/ (a.name \in Operator /\ c.entering)

-----------------------------------------------------------------------------
(* The ledger is kept from what is shown and pressed alone: sum is the     *)
(* exact value of the calculation as long as all its results fit, number   *)
(* the exact reading of a number that is typed.                            *)
NoSum == [sum |-> 0, fits |-> TRUE, op |-> "NONE", typed |-> FALSE,
          own |-> FALSE, number |-> 0]

Entered(l, op, shown) ==
  LET r == Result(op, l.sum, shown)
      fits == l.fits /\ r \in Number
  IN [l EXCEPT !.sum = IF fits THEN r ELSE 0, !.fits = fits]

Booked(l, a, c, next) ==
  CASE a.name = "DIGIT" /\ (c.error \/ ~l.typed) ->
         [(IF c.error THEN NoSum ELSE l)
            EXCEPT !.typed = TRUE, !.own = TRUE, !.number = a.digit]
    [] a.name = "DIGIT" /\ ~c.error /\ l.typed ->
         [l EXCEPT !.number = IF ~l.own \/ next.display = c.display THEN @
                              ELSE IF @ < 0 THEN @ * Base - a.digit
                              ELSE @ * Base + a.digit]
    [] a.name = "CLEAR_ALL"   -> NoSum
    [] a.name = "CLEAR_ENTRY" -> [l EXCEPT !.typed = FALSE, !.own = FALSE, !.number = 0]
    [] a.name = "NEGATE" /\ ~c.error  -> [l EXCEPT !.typed = TRUE, !.number = -@]
    [] a.name = "PERCENT" /\ ~c.error ->
         [l EXCEPT !.typed = TRUE, !.number = Quotient(@, Hundred)]
    [] a.name \in Operator /\ ~c.error /\ l.op = "NONE" ->
         [NoSum EXCEPT !.sum = c.display, !.op = a.name]
    [] a.name \in Operator /\ ~c.error /\ l.op # "NONE" /\ ~l.typed ->
         [l EXCEPT !.op = a.name]
    [] /\ a.name = "EQUALS" \/ (a.name \in Operator /\ l.typed)
       /\ ~c.error /\ l.op # "NONE" /\ ~(l.op = "DIV" /\ c.display = 0) ->
         [Entered(l, l.op, c.display)
            EXCEPT !.op = IF a.name = "EQUALS" THEN "NONE" ELSE a.name,
                   !.typed = FALSE, !.own = FALSE, !.number = 0]
    [] OTHER -> l

-----------------------------------------------------------------------------
(* An action, after which the rest of the handler has changed the record.  *)
Perform(c, a) ==
  IF Faults(c, a) THEN fault' = TRUE /\ UNCHANGED <<calc, ledger>>
  ELSE /\ calc' = Performed(c, a)
       /\ ledger' = Booked(ledger, a, c, Performed(c, a))
       /\ UNCHANGED fault

Becomes(c) == calc' = c /\ UNCHANGED <<fault, ledger>>

(* calc_start *)
Started ==
  [acc |-> 0, display |-> 0, op |-> "NONE", entering |-> FALSE, error |-> FALSE,
   row |-> 3, col |-> 1, menus |-> Closed]

(* move_selection *)
Clamp(x, last) == IF x < 0 THEN 0 ELSE IF x > last THEN last ELSE x

CalcArrow(down, right) ==
  /\ ~fault /\ ~IsOpen(calc.menus)
  /\ Becomes([calc EXCEPT !.row = Clamp(@ + down, Rows - 1),
                          !.col = Clamp(@ + right, Cols - 1)])

(* calc_key: a character has its action, Backspace that of CE, Escape of C.*)
CalcChar(a) ==
  /\ ~fault /\ ~IsOpen(calc.menus)
  /\ Perform(calc, a)

CalcEnter ==
  /\ ~fault /\ ~IsOpen(calc.menus)
  /\ Perform(calc, Buttons[calc.row, calc.col])

CalcHelp ==
  /\ ~fault /\ ~IsOpen(calc.menus)
  /\ Becomes([calc EXCEPT !.menus.help = TRUE])

CalcMenuKey(key) ==
  /\ ~fault /\ IsOpen(calc.menus)
  /\ Becomes([calc EXCEPT !.menus = MenuKey(@, key)])

(* calc_mouse, where the pointer is not on a button.                       *)
CalcMouse(spot, left, right) ==
  /\ ~fault
  /\ LET m == calc.menus IN
     Becomes([calc EXCEPT !.menus =
                IF right THEN RightButton(m, left)
                ELSE IF Edge(m, left) /\ TakesPress(m, spot) THEN MenuPress(m, spot)
                ELSE [m EXCEPT !.prev = left]])

(* A press on a button, when no menu is in the way.                        *)
CalcPress(row, col) ==
  /\ ~fault
  /\ Edge(calc.menus, TRUE) /\ ~IsOpen(calc.menus)
  /\ Perform([calc EXCEPT !.row = row, !.col = col, !.menus.prev = TRUE],
             Buttons[row, col])

(* The closed program is launched again, or the machine starts again.      *)
CalcStart ==
  /\ calc' = Started
  /\ fault' = FALSE
  /\ ledger' = NoSum

-----------------------------------------------------------------------------
CalcInit == calc = Started /\ fault = FALSE /\ ledger = NoSum

(* Where the pointer is matters to a press of the left button only.        *)
CalcNext ==
  \/ \E down, right \in {-1, 0, 1} : AbsOf(down) + AbsOf(right) = 1 /\ CalcArrow(down, right)
  \/ \E a \in Action : a.name # "MENU" /\ CalcChar(a)
  \/ CalcEnter
  \/ CalcHelp
  \/ \E key \in {"ENTER", "ESCAPE", "OTHER"} : CalcMenuKey(key)
  \/ \E spot \in {"ABOUT", "HELP"} : CalcMouse(spot, TRUE, FALSE)
  \/ \E left, right \in BOOLEAN : CalcMouse("NOWHERE", left, right)
  \/ \E row \in 0..Rows - 1, col \in 0..Cols - 1 : CalcPress(row, col)
  \/ CalcStart

CalcSpec == CalcInit /\ [][CalcNext]_calcVars

CalcTypeOK ==
  /\ calc \in [acc : Number, display : Number, op : Operator \union {"NONE"},
               entering : BOOLEAN, error : BOOLEAN,
               row : 0..Rows - 1, col : 0..Cols - 1, menus : Menus]
  /\ fault \in BOOLEAN
  /\ ledger \in [sum : Number, fits : BOOLEAN, op : Operator \union {"NONE"},
                 typed : BOOLEAN, own : BOOLEAN, number : Int]

-----------------------------------------------------------------------------
(***************************************************************************)
(* A chain of operators is worth what exact arithmetic makes of the        *)
(* numbers that were shown, from left to right, as long as every result    *)
(* fits: however an operator is corrected, an entry cleared or negated, a  *)
(* division by 0 refused and its divisor typed again.                      *)
(***************************************************************************)
ChainIsExact ==
  /\ ledger.op = calc.op
  /\ ledger.fits => calc.acc = ledger.sum

(***************************************************************************)
(* A number that is typed is shown as it was typed, every digit that was   *)
(* taken: at the width of the display digits are refused, none wraps       *)
(* around, whether the number is negated or divided on the way.            *)
(***************************************************************************)
TypedIsShown == ledger.own => calc.display = ledger.number

(***************************************************************************)
(* The calculator shows the truth about a chain and about a typed number   *)
(* at every moment, up to the first result that does not fit.              *)
(***************************************************************************)
ShowsTheTruth == ChainIsExact /\ TypedIsShown
=============================================================================
