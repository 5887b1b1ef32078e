----------------------------- MODULE MCFileman ------------------------------
(***************************************************************************)
(* A small instance of Fileman for TLC.                                    *)
(***************************************************************************)
EXTENDS Fileman

CONSTANTS a, b, v, part

Components == {a, b, SYS, MARK, NONE, part}

(* Two components take 27 to 29 characters.                                *)
PartStub == [c \in Components |-> <<part>>]

TwoContents == {v, NoData}
OneData == {v}

(* The editor saves into a folder, which it so makes.                      *)
Saved == {<<a, b>>}
Folders == {<<a>>, <<b>>}

OneSystemFile == <<a>>
OneProgram == <<EDITOR>>

(* Two names, and one with a '/' in it.                                    *)
SomeInputs == {<<>>, <<b>>, <<a, b>>}

(* The image is always written, but the last wait can time out.            *)
GoodOrLate == [ok : BOOLEAN, cut : {N + 1}]

(***************************************************************************)
(* The two titles, the rest of the bar, the upper item of each menu, a row *)
(* below an item of FILE, a row beside it, and the buttons of the dialogs. *)
(***************************************************************************)
Pixels ==
  { <<40, 30>>, <<80, 30>>, <<200, 30>>, <<100, 45>>, <<100, 70>>, <<200, 80>>,
    <<100, 120>>, <<200, 120>> }
=============================================================================
