------------------------------ MODULE MCDesktop -----------------------------
(***************************************************************************)
(* A small instance of Desktop for TLC.                                    *)
(***************************************************************************)
EXTENDS Desktop

CONSTANTS FILEMAN, SETTINGS, Free

Programs == {PROGMAN, FILEMAN, SETTINGS}

(* PROGMAN launches the others, FILEMAN what is registered.                *)
Calls == [p \in Programs |-> CASE p = PROGMAN -> Programs \ {PROGMAN}
                               [] p = FILEMAN -> Programs
                               [] OTHER -> {}]

OnlySettings == {SETTINGS}

(* One that is started again and launches, and one that closes itself.     *)
TwoWatched == {PROGMAN, SETTINGS}

OneSpot == {Free}

AllFirst == [i \in 1..MaxActive |-> Free]
=============================================================================
