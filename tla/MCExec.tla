------------------------------- MODULE MCExec -------------------------------
(***************************************************************************)
(* A small instance of Exec for TLC.                                       *)
(***************************************************************************)
EXTENDS Exec

CONSTANTS FILEMAN, SETTINGS, Free

Programs == {PROGMAN, FILEMAN, SETTINGS}

(* PROGMAN and FILEMAN launch what is registered.                          *)
Calls == [p \in Programs |-> IF p = SETTINGS THEN {} ELSE Programs]

OnlySettings == {SETTINGS}

OneSpot == {Free}

AllFirst == [i \in 1..MaxActive |-> Free]
=============================================================================
