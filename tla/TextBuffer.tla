----------------------------- MODULE TextBuffer -----------------------------
(***************************************************************************)
(* What a text editor promises: one text and a place in it.  A character   *)
(* goes where the cursor is and moves it on, a backspace takes the         *)
(* character before the cursor, and nothing else in the text changes; what *)
(* is saved is the text, and opening it brings back what was saved.        *)
(***************************************************************************)
EXTENDS Integers, Sequences

CONSTANTS
  Symbol,   \* the characters of a text, NL among them
  Line,     \* the lines that can be appended at once
  NL,       \* the character that ends a line
  Name,     \* names of files
  NoFile    \* stands for the content of a file that does not exist

VARIABLES
  text,     \* the document
  pos,      \* the number of characters before the cursor
  stored    \* the files, as texts

vars == <<text, pos, stored>>

Before(t, p) == SubSeq(t, 1, p)

After(t, p) == SubSeq(t, p + 1, Len(t))

Init ==
  /\ text = <<>>
  /\ pos = 0
  /\ stored \in [Name -> Seq(Symbol) \union {NoFile}]

Insert(c) ==
  /\ text' = Before(text, pos) \o <<c>> \o After(text, pos)
  /\ pos' = pos + 1
  /\ UNCHANGED stored

Backspace ==
  /\ pos > 0
  /\ text' = Before(text, pos - 1) \o After(text, pos)
  /\ pos' = pos - 1
  /\ UNCHANGED stored

Left == pos > 0 /\ pos' = pos - 1 /\ UNCHANGED <<text, stored>>

Right == pos < Len(text) /\ pos' = pos + 1 /\ UNCHANGED <<text, stored>>

(* Up, Down and the mouse go to some place in the text.                    *)
Jump == pos' \in 0..Len(text) /\ UNCHANGED <<text, stored>>

AppendLine(l) ==
  /\ text' = text \o <<NL>> \o l
  /\ pos' = Len(text')
  /\ UNCHANGED stored

(* The text is cut before the NL of its last line.                         *)
RemoveLine ==
  /\ \E n \in 0..Len(text) :
       /\ n = 0 \/ (n < Len(text) /\ text[n + 1] = NL)
       /\ \A k \in n + 2..Len(text) : text[k] # NL
       /\ text' = Before(text, n)
  /\ pos' \in 0..Len(text')
  /\ UNCHANGED stored

Clear == text' = <<>> /\ pos' = 0 /\ UNCHANGED stored

Save(n) == stored' = [stored EXCEPT ![n] = text] /\ UNCHANGED <<text, pos>>

Load(n) ==
  /\ stored[n] # NoFile
  /\ text' = stored[n]
  /\ pos' = 0
  /\ UNCHANGED stored

(* Files are created and deleted by others, too.                           *)
Remove(n) == stored' = [stored EXCEPT ![n] = NoFile] /\ UNCHANGED <<text, pos>>

Create(n) ==
  /\ stored' = [stored EXCEPT ![n] = <<>>]
  /\ \/ UNCHANGED <<text, pos>>
     \/ text' = <<>> /\ pos' = 0

Next ==
  \/ \E c \in Symbol : Insert(c)
  \/ Backspace
  \/ Left
  \/ Right
  \/ Jump
  \/ \E l \in Line : AppendLine(l)
  \/ RemoveLine
  \/ Clear
  \/ \E n \in Name : Save(n) \/ Load(n) \/ Remove(n) \/ Create(n)

Spec == Init /\ [][Next]_vars
=============================================================================
