----------------------------- MODULE MCPrograms -----------------------------
(***************************************************************************)
(* Small instances for TLC of the parts that share no variable: the        *)
(* program manager, the calculator, the settings, the installer with the   *)
(* disk driver, the date and time.  One of them runs, the others stay as   *)
(* they start, so that the states of all are those of one after the other. *)
(***************************************************************************)
EXTENDS Clock, Installer, Calculator, Progman, SettingsApp

CONSTANTS Eagle, Blue, Green, Red, Dark

VARIABLE part    \* the part that runs

(* Every field changes; midnight, noon, and an hour of the afternoon.      *)
Steps ==
  { << Time(2024, 12, 31, 23, 59, 58), Time(2024, 12, 31, 23, 59, 59),
       Time(2025, 1, 1, 0, 0, 0) >>,
    << Time(2028, 2, 28, 23, 59, 59), Time(2028, 2, 29, 0, 0, 0) >>,
    << Time(2026, 9, 30, 11, 59, 59), Time(2026, 9, 30, 12, 0, 0) >>,
    << Time(2026, 9, 30, 12, 59, 59), Time(2026, 9, 30, 13, 0, 0) >>,
    << Time(2026, 9, 30, 8, 59, 59), Time(2026, 9, 30, 9, 0, 0) >> }

(* The last second of every kind of month, and dates there are not.        *)
Moments ==
  { Time(y, end[1], end[2], 23, 59, 59) :
      y \in {2000, 2028, 2100, 9999},
      end \in {<<2, 28>>, <<2, 29>>, <<2, 30>>, <<4, 30>>, <<4, 31>>, <<12, 31>>} }
  \union { Time(2026, 13, 1, 0, 0, 0), Time(2026, 1, 32, 0, 0, 0), Time(2026, 1, 1, 24, 0, 0) }

(* Two sectors to install and one of the file system.                      *)
Sectors == 0..2

(* Every button but the digits, which are typed.                           *)
Layout ==
  [b \in (0..3) \X (0..1) |->
     Act(<<"CLEAR_ALL", "NEGATE", "DIV", "MUL", "SUB", "ADD", "EQUALS", "MENU">>
           [2 * b[1] + b[2] + 1])]

(* Both titles and the bar beside them; items of the menus over rows and   *)
(* not; rows free of menus; YES, NO, the question and what is outside.     *)
Spots ==
  {<<30, 30>>, <<72, 30>>, <<150, 30>>, <<30, 45>>, <<30, 57>>, <<150, 57>>,
   <<30, 67>>, <<150, 67>>, <<30, 76>>, <<100, 110>>, <<150, 110>>, <<70, 90>>,
   <<10, 10>>}

Palette == <<Eagle, Blue, Green, Red, Dark>>

-----------------------------------------------------------------------------
allVars == <<part, vars, instVars, calcVars, pmVars, setVars>>

PartsInit ==
  /\ part \in {"CLOCK", "INSTALL", "CALC", "PROGMAN", "SETTINGS"}
  /\ Init /\ InstInit /\ CalcInit /\ PmInit /\ SetInit
  /\ part # "CLOCK" =>
       /\ series = CHOOSE s \in Series : TRUE
       /\ ~format.bcd /\ ~format.h12
  /\ part # "INSTALL" => drive.state = "ready"

PartsNext ==
  /\ UNCHANGED part
  /\ \/ /\ part = "CLOCK" /\ Next
        /\ UNCHANGED <<instVars, calcVars, pmVars, setVars>>
     \/ /\ part = "INSTALL" /\ InstNext
        /\ UNCHANGED <<vars, calcVars, pmVars, setVars>>
     \/ /\ part = "CALC" /\ CalcNext
        /\ UNCHANGED <<vars, instVars, pmVars, setVars>>
     \/ /\ part = "PROGMAN" /\ PmNext
        /\ UNCHANGED <<vars, instVars, calcVars, setVars>>
     \/ /\ part = "SETTINGS" /\ SetNext
        /\ UNCHANGED <<vars, instVars, calcVars, pmVars>>

PartsSpec == PartsInit /\ [][PartsNext]_allVars /\ WF_instVars(Processor)

(***************************************************************************)
(* Every variable of every part has its type.                              *)
(***************************************************************************)
TypesOK == TypeOK /\ InstTypeOK /\ CalcTypeOK /\ PmTypeOK /\ SetTypeOK
=============================================================================
