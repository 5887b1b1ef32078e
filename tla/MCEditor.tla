----------------------------- MODULE MCEditor -------------------------------
(***************************************************************************)
(* Small instances of Editor for TLC.                                      *)
(***************************************************************************)
EXTENDS Editor

CONSTANTS x, y, NOTE, MEMO

OneChar == {x}
TwoChars == {x, y}

(* The two characters are alike.                                           *)
Alike == Permutations(TwoChars)

Letters == { <<c>> : c \in Char }

OneName == {NOTE}
TwoNames == {NOTE, MEMO}

(* A file with too many lines, and one with a line that is too long and a  *)
(* character to leave out.                                                 *)
OddGiven ==
  [Name -> {NoFile} \union { <<c, NL, NL, c>> : c \in Char }
                    \union { <<c, c, c, NL, Other>> : c \in Char }]

(* A file the editor shows whole.                                          *)
PlainGiven == {[n \in Name |-> IF n = NOTE THEN NoFile ELSE <<x, NL>>]}

AllOutcomes == {"saved", "refused", "not flushed"}
=============================================================================
