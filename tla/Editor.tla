------------------------------- MODULE Editor -------------------------------
(***************************************************************************)
(* The text editor of kernel/text_editor.c: its document of MAX_LINES      *)
(* lines, the cursor, the dialogs, and how a document goes to a file, comes*)
(* back, and is asked for by the file manager through fs_request_open_file.*)
(*                                                                         *)
(* The document in memory is a sequence of lines; in a file it is a        *)
(* sequence of characters with NL between lines.  Lines count from 1, the  *)
(* column is the number of characters before the cursor.                   *)
(***************************************************************************)
EXTENDS Integers, SequencesExt

CONSTANTS
  Char,         \* the printable characters
  NL, Other,    \* the end of a line; a character the editor leaves out
  MaxLines,     \* MAX_LINES
  LineLen,      \* LINE_LEN
  Samples,      \* the lines of "INSERT SAMPLE"
  Name,         \* names of files
  Default,      \* DEFAULT_EDITOR_FILENAME
  Given,        \* what files there can be when the machine starts
  NoFile,       \* stands for the content of a file that does not exist
  Outcomes      \* how fs_write_file can end: see Save

Line == { s \in Seq(Char) : Len(s) <= LineLen }

ASSUME EditorAssumption ==
  /\ NL \notin Char /\ Other \notin Char /\ NL # Other
  /\ MaxLines \in Nat \ {0} /\ LineLen \in Nat \ {0}
  /\ Samples \subseteq Line

ASSUME FileAssumption ==
  /\ Default \in Name
  /\ NoFile \notin Seq(Char \union {NL, Other})
  /\ \A f \in Given : f \in [Name -> Seq(Char \union {NL, Other}) \union {NoFile}]
  /\ Outcomes \subseteq {"saved", "refused", "not flushed"}

VARIABLES
  lines,      \* lines and line_count
  line,       \* cursor_line
  col,        \* cursor_col
  menu,       \* menu_open
  dialog,     \* file_dialog_mode
  about,      \* about_open
  filename,   \* current_filename
  running,    \* EDITOR is an active program
  pending,    \* pending_open_name, when pending_open_valid
  files       \* the files of fs.c, as fs_read_file returns them

document == <<lines, line, col>>
panels == <<menu, dialog, about>>
vars == <<document, panels, filename, running, pending, files>>

-----------------------------------------------------------------------------
(* serialize_document, into a buffer of DOC_BUFFER_SIZE.                   *)
Flat(ls) ==
  LET upTo[i \in DOMAIN ls] ==
        IF i = 1 THEN ls[1] ELSE upTo[i - 1] \o <<NL>> \o ls[i]
  IN upTo[Len(ls)]

(* Mutated form: no room for the ends of the lines.                        *)
BufferSizeOfLines == MaxLines * LineLen

BufferSize == MaxLines * (LineLen + 1)

Cut(s, n) == SubSeq(s, 1, Min({n, Len(s)}))

Serialize(ls) == Cut(Flat(ls), BufferSize)

(***************************************************************************)
(* deserialize_document, a character at a time: what is not printable or   *)
(* does not fit its line is left out, and what comes after the end of the  *)
(* last line is not read.                                                  *)
(***************************************************************************)
Take(ch) ==
  [doc \in [lines : Seq(Line), done : BOOLEAN] |->
     LET last == Len(doc.lines) IN
       IF doc.done THEN doc
       ELSE IF ch = NL
       THEN IF last = MaxLines THEN [doc EXCEPT !.done = TRUE]
            ELSE [doc EXCEPT !.lines = Append(@, <<>>)]
       ELSE IF ch \in Char /\ Len(doc.lines[last]) < LineLen
       THEN [doc EXCEPT !.lines[last] = Append(@, ch)]
       ELSE doc]

Blank == [lines |-> <<<<>>>>, done |-> FALSE]

TakeAll(bytes) ==
  LET doc[i \in 0..Len(bytes)] ==
        IF i = 0 THEN Blank ELSE Take(bytes[i])[doc[i - 1]]
  IN doc[Len(bytes)]

Deserialize(bytes) == TakeAll(bytes).lines

-----------------------------------------------------------------------------
(* The keys and the mouse reach the document when nothing covers it.       *)
Covered == menu \/ dialog # "none" \/ about

Editing ==
  /\ running /\ ~Covered
  /\ UNCHANGED <<panels, filename, running, pending, files>>

InsertChar(c) ==
  /\ Editing
  /\ Len(lines[line]) < LineLen
  /\ lines' = [lines EXCEPT ![line] = InsertAt(@, col + 1, c)]
  /\ col' = col + 1
  /\ UNCHANGED line

Newline ==
  /\ Editing
  /\ Len(lines) < MaxLines
  /\ LET head == SubSeq(lines[line], 1, col)
         tail == SubSeq(lines[line], col + 1, Len(lines[line]))
     IN lines' = SubSeq(lines, 1, line - 1) \o <<head, tail>>
                   \o SubSeq(lines, line + 1, Len(lines))
  /\ line' = line + 1
  /\ col' = 0

BackspaceChar ==
  /\ Editing
  /\ col > 0
  /\ lines' = [lines EXCEPT ![line] = RemoveAt(@, col)]
  /\ col' = col - 1
  /\ UNCHANGED line

BackspaceLine ==
  /\ Editing
  /\ col = 0 /\ line > 1
  /\ Len(lines[line - 1]) + Len(lines[line]) <= LineLen
  /\ lines' = RemoveAt([lines EXCEPT ![line - 1] = @ \o lines[line]], line)
  /\ line' = line - 1
  /\ col' = Len(lines[line - 1])

KeyLeft ==
  /\ Editing
  /\ \/ col > 0 /\ col' = col - 1 /\ UNCHANGED line
     \/ col = 0 /\ line > 1 /\ line' = line - 1 /\ col' = Len(lines[line - 1])
  /\ UNCHANGED lines

KeyRight ==
  /\ Editing
  /\ \/ col < Len(lines[line]) /\ col' = col + 1 /\ UNCHANGED line
     \/ col = Len(lines[line]) /\ line < Len(lines) /\ line' = line + 1 /\ col' = 0
  /\ UNCHANGED lines

(* clamp_cursor, for a line that is there.                                 *)
Clamped(i, c) == IF c > Len(lines[i]) THEN Len(lines[i]) ELSE c

(* Mutated form: the column is kept on a shorter line.                     *)
KeyUpDownUnclamped ==
  /\ Editing
  /\ line' \in {line - 1, line + 1} \intersect DOMAIN lines
  /\ UNCHANGED <<lines, col>>

KeyUpDown ==
  /\ Editing
  /\ line' \in {line - 1, line + 1} \intersect DOMAIN lines
  /\ col' = Clamped(line', col)
  /\ UNCHANGED lines

(* A press in the document, at row and column r and c of it.               *)
Click(r, c) ==
  /\ Editing
  /\ line' = IF r > Len(lines) THEN Len(lines) ELSE r
  /\ col' = Clamped(line', c)
  /\ UNCHANGED lines

-----------------------------------------------------------------------------
(***************************************************************************)
(* clear_document, and what replaces the document by the bytes of a file.  *)
(***************************************************************************)
ClearDocument == lines' = <<<<>>>> /\ line' = 1 /\ col' = 0

Show(bytes) == lines' = Deserialize(bytes) /\ line' = 1 /\ col' = 0

KeyEscape == Editing /\ ClearDocument

OpenMenu ==
  /\ running /\ dialog = "none" /\ ~about
  /\ menu' = TRUE
  /\ UNCHANGED <<document, dialog, about, filename, running, pending, files>>

CloseMenu ==
  /\ running /\ menu /\ dialog = "none" /\ ~about
  /\ menu' = FALSE
  /\ UNCHANGED <<document, dialog, about, filename, running, pending, files>>

(***************************************************************************)
(* perform_action of the chosen item, after which the menu is closed.      *)
(***************************************************************************)
Choose ==
  /\ running /\ menu /\ dialog = "none" /\ ~about
  /\ menu' = FALSE
  /\ UNCHANGED <<filename, running, pending, files>>

ChooseDialog(mode) ==
  Choose /\ dialog' = mode /\ UNCHANGED <<document, about>>

ChooseAbout ==
  Choose /\ about' = TRUE /\ UNCHANGED <<document, dialog>>

(* "NEW" and "CLEAR"                                                       *)
ChooseClear ==
  Choose /\ ClearDocument /\ UNCHANGED <<dialog, about>>

ChooseSample(s) ==
  /\ Choose
  /\ Len(lines) < MaxLines
  /\ lines' = Append(lines, s)
  /\ line' = Len(lines) + 1
  /\ col' = Len(s)
  /\ UNCHANGED <<dialog, about>>

ChooseDeleteLast ==
  /\ Choose
  /\ IF Len(lines) = 1 THEN ClearDocument
     ELSE LET rest == Front(lines)
              at == IF line > Len(rest) THEN Len(rest) ELSE line
          IN /\ lines' = rest
             /\ line' = at
             /\ col' = IF col > Len(rest[at]) THEN Len(rest[at]) ELSE col
  /\ UNCHANGED <<dialog, about>>

CloseAbout ==
  /\ running /\ about
  /\ about' = FALSE
  /\ UNCHANGED <<document, menu, dialog, filename, running, pending, files>>

CancelDialog ==
  /\ running /\ dialog # "none" /\ ~about
  /\ dialog' = "none"
  /\ UNCHANGED <<document, menu, about, filename, running, pending, files>>

(***************************************************************************)
(* confirm_file_dialog with the name n.  fs_write_file can refuse, and can *)
(* fail after it has changed the file in memory.                           *)
(***************************************************************************)
Save(n, outcome) ==
  /\ running /\ dialog = "save" /\ ~about
  /\ files' = IF outcome = "refused" THEN files
              ELSE [files EXCEPT ![n] = Serialize(lines)]
  /\ IF outcome = "saved"
     THEN filename' = n /\ dialog' = "none"
     ELSE UNCHANGED <<filename, dialog>>
  /\ UNCHANGED <<document, menu, about, running, pending>>

Readable(bytes) == bytes # NoFile /\ Len(bytes) <= BufferSize

Open(n) ==
  /\ running /\ dialog = "open" /\ ~about
  /\ Readable(files[n])
  /\ Show(files[n])
  /\ filename' = n
  /\ dialog' = "none"
  /\ UNCHANGED <<menu, about, running, pending, files>>

-----------------------------------------------------------------------------
(***************************************************************************)
(* editor_start with the request r, which is <<>> or the name asked for.   *)
(***************************************************************************)
Start(r) ==
  /\ running' = TRUE
  /\ pending' = <<>>
  /\ menu' = FALSE /\ dialog' = "none" /\ about' = FALSE
  /\ filename' = IF r = <<>> THEN Default ELSE r[1]
  /\ IF r # <<>> /\ Readable(files'[r[1]]) THEN Show(files'[r[1]]) ELSE ClearDocument

(* EDITOR is launched from the program manager.                            *)
LaunchEditor ==
  /\ ~running
  /\ UNCHANGED files
  /\ Start(pending)

(***************************************************************************)
(* fs_request_open_file, then the launch of EDITOR, which starts it only   *)
(* if it is not running.                                                   *)
(***************************************************************************)
Request(n) ==
  IF running
  THEN pending' = <<n>> /\ UNCHANGED <<document, panels, filename, running>>
  ELSE Start(<<n>>)

OpenFromManager(n) ==
  /\ files[n] # NoFile
  /\ UNCHANGED files
  /\ Request(n)

(* "NEW FILE" in the file manager, which writes 0 bytes under that name.   *)
NewFromManager(n, outcome) ==
  /\ files' = IF outcome = "refused" THEN files ELSE [files EXCEPT ![n] = <<>>]
  /\ IF outcome = "saved" THEN Request(n)
     ELSE UNCHANGED <<document, panels, filename, running, pending>>

(* The window is closed: only exec.c knows, the document stays as it is.   *)
CloseWindow ==
  /\ running
  /\ running' = FALSE
  /\ UNCHANGED <<document, panels, filename, pending, files>>

(* The file manager deletes the file n.                                    *)
DeleteFile(n) ==
  /\ files[n] # NoFile
  /\ files' = [files EXCEPT ![n] = NoFile]
  /\ UNCHANGED <<document, panels, filename, running, pending>>

Init ==
  /\ lines = <<<<>>>> /\ line = 1 /\ col = 0
  /\ menu = FALSE /\ dialog = "none" /\ about = FALSE
  /\ filename = Default
  /\ running = FALSE
  /\ pending = <<>>
  /\ files \in Given

Next ==
  \/ \E c \in Char : InsertChar(c)
  \/ Newline
  \/ BackspaceChar
  \/ BackspaceLine
  \/ KeyLeft
  \/ KeyRight
  \/ KeyUpDown
  \/ \E r \in 1..MaxLines, c \in 0..LineLen : Click(r, c)
  \/ KeyEscape
  \/ OpenMenu
  \/ CloseMenu
  \/ \E mode \in {"save", "open"} : ChooseDialog(mode)
  \/ ChooseAbout
  \/ ChooseClear
  \/ \E s \in Samples : ChooseSample(s)
  \/ ChooseDeleteLast
  \/ CloseAbout
  \/ CancelDialog
  \/ \E n \in Name, outcome \in Outcomes : Save(n, outcome)
  \/ \E n \in Name : Open(n)
  \/ LaunchEditor
  \/ \E n \in Name : OpenFromManager(n)
  \/ \E n \in Name, outcome \in Outcomes : NewFromManager(n, outcome)
  \/ CloseWindow
  \/ \E n \in Name : DeleteFile(n)

Spec == Init /\ [][Next]_vars

-----------------------------------------------------------------------------
(***************************************************************************)
(* Every variable has its type: the document fits its array and the cursor *)
(* is always in it, whatever joins, splits, clears or replaces lines.      *)
(***************************************************************************)
TypeOK ==
  /\ lines \in Seq(Line) /\ Len(lines) \in 1..MaxLines
  /\ line \in DOMAIN lines /\ col \in 0..Len(lines[line])
  /\ menu \in BOOLEAN /\ about \in BOOLEAN
  /\ dialog \in {"none", "save", "open"}
  /\ filename \in Name /\ running \in BOOLEAN
  /\ pending = <<>> \/ pending \in { <<n>> : n \in Name }
  /\ files \in [Name -> Seq(Char \union {NL, Other}) \union {NoFile}]

(* The place of the cursor in the text.                                    *)
Place == IF line = 1 THEN col ELSE Len(Flat(SubSeq(lines, 1, line - 1))) + 1 + col

(* What the editor makes of a file.                                        *)
TextOf(bytes) == IF Readable(bytes) THEN Flat(Deserialize(bytes)) ELSE NoFile

Buffer == INSTANCE TextBuffer
  WITH Symbol <- Char \union {NL}, Line <- Samples,
       text <- Flat(lines), pos <- Place,
       stored <- [n \in Name |-> TextOf(files[n])]

(***************************************************************************)
(* What each key, each choice and each confirmed dialog does to the text.  *)
(***************************************************************************)
StepOfText ==
  /\ \A c \in Char : InsertChar(c) => Buffer!Insert(c)
  /\ Newline => Buffer!Insert(NL)
  /\ BackspaceChar \/ BackspaceLine => Buffer!Backspace
  /\ KeyLeft => Buffer!Left
  /\ KeyRight => Buffer!Right
  /\ KeyUpDown \/ (\E r \in 1..MaxLines, c \in 0..LineLen : Click(r, c)) => Buffer!Jump
  /\ KeyEscape \/ ChooseClear => Buffer!Clear
  /\ \A s \in Samples : ChooseSample(s) => Buffer!AppendLine(s)
  /\ ChooseDeleteLast => Buffer!RemoveLine
  /\ \A n \in Name : Save(n, "saved") => Buffer!Save(n)
  /\ \A n \in Name : Open(n) => Buffer!Load(n)

(***************************************************************************)
(* The array of lines with its line and column behaves as one text with a  *)
(* cursor: no key loses, doubles or moves a character beside the one it is *)
(* about, across the ends of lines too, and a document that was saved is   *)
(* opened again as it was.                                                 *)
(***************************************************************************)
TextKept == Buffer!Spec /\ [][StepOfText]_vars

(***************************************************************************)
(* kernel/file_manager.c:708 offers "ENTER OPEN": what is opened there is  *)
(* the file in the editor.                                                 *)
(***************************************************************************)
OpenedFileIsShown ==
  [][ \A n \in Name : OpenFromManager(n) => filename' = n ]_vars
=============================================================================
