------------------------------ MODULE Fileman -------------------------------
(***************************************************************************)
(* The file manager of kernel/file_manager.c over the file system of Fs:   *)
(* the rows it has read, the selection and the part of the rows on the     *)
(* screen, the menus and dialogs, and what its keys and presses ask of the *)
(* file system, of the editor and of exec.c.                               *)
(*                                                                         *)
(* Names are those of Fs: a path is a sequence of components, and what is  *)
(* typed into a dialog is one, too, since '/' can be typed.  Rows count    *)
(* from 1, menu items from 0.  Points are pixels of the screen.  The size  *)
(* a row shows, the status line and all drawing are left out.              *)
(***************************************************************************)
EXTENDS Integers, SequencesExt

CONSTANTS
  N, MaxLen, Stub, Component, SYS, MARK, NONE, Contents, NoData, FilePaths,
  DirPaths, ReadResults, FlushResults,     \* see Fs
  Data,          \* what the editor writes into files, NoData or not
  SystemFile,    \* system_files[], the names listed in EAGLEOS
  Program,       \* the names of the registered executables, in order
  EDITOR, PROGMAN,
  Typed,         \* what can stand in the input of a dialog
  Visible,       \* MAX_VISIBLE_ROWS
  Point          \* where the mouse can be

VARIABLES
  entries, disk, probeDone, enabled, torn, mixed, lag,     \* see Fs
  fm,        \* the static variables of file_manager.c
  sent,      \* history: what this step has launched, and the file asked for
  behind     \* history: the table has changed and no call that worked said so

F == INSTANCE Fs

ASSUME ListAssumption ==
  /\ SystemFile \in Seq(Component)
  /\ Program \in Seq({ Program[i] : i \in DOMAIN Program })
  /\ Visible \in Nat \ {0}
  /\ Point \subseteq Int \X Int
  /\ Typed \subseteq F!Path \union {<<>>} /\ <<>> \in Typed
  /\ \A p \in Typed : \A i \in DOMAIN p : p[i] # NONE
  /\ Data \subseteq Contents

(* What Fs assumes, and that the names listed in EAGLEOS are paths.        *)
ASSUME FsAssumption ==
  /\ N \in Nat \ {0} /\ MaxLen \in Nat /\ MaxLen > 1
  /\ SYS \in Component /\ MARK \in Component /\ NONE \in Component
  /\ SYS # MARK /\ MARK # NONE
  /\ \/ \A c \in Component : Stub[c] = <<>>
     \/ \A c \in Component : Stub[c] = <<NONE>>
     \/ \A c \in Component : \E e \in Component \ {MARK} :
          Stub[c] = <<e>> /\ Stub[e] = <<e>> /\ (c # NONE => e # NONE)
  /\ NoData \in Contents
  /\ FilePaths \subseteq F!Path
  /\ DirPaths \subseteq F!Path
  /\ ReadResults \subseteq BOOLEAN /\ ReadResults # {}
  /\ FlushResults \subseteq F!FlushResult /\ FlushResults # {}

vars == <<F!vars, fm, sent, behind>>

Nothing == [program |-> <<>>, file |-> <<>>]

Now == [fs |-> F!Now, fm |-> fm, sent |-> Nothing, behind |-> behind]

Become(w) ==
  /\ F!Become(w.fs)
  /\ fm' = w.fm
  /\ sent' = w.sent
  /\ behind' = w.behind

-----------------------------------------------------------------------------
(***************************************************************************)
(* The rows.                                                               *)
(***************************************************************************)
Row(kind, target) == [kind |-> kind, target |-> target]

(***************************************************************************)
(* build_child_path: what does not fit the name is cut off, and fs.c takes *)
(* a '/' away that is then its end.                                        *)
(***************************************************************************)
Child(path, name) ==
  LET p == F!Cut(path \o name)
  IN IF p # <<>> /\ Last(p) = NONE THEN Front(p) ELSE p

Parent(path) == IF path = <<>> THEN <<>> ELSE Front(path)

(***************************************************************************)
(* build_listing in fs.c: one pass over the slots for the folders and one  *)
(* for the files, which are no markers.  A name is listed once, and none   *)
(* that is empty.                                                          *)
(***************************************************************************)
Extended(list, d, kind, p) ==
  LET child == SubSeq(p, 1, Len(d) + 1)
  IN IF /\ IsStrictPrefix(d, p)
        /\ Last(child) # NONE
        /\ IF kind = "dir" THEN p # child ELSE p = child /\ Last(p) # MARK
        /\ \A i \in DOMAIN list : list[i].target # child
     THEN Append(list, Row(kind, child))
     ELSE list

Pass(t, d, kind, list) ==
  LET listed[i \in 0..N] ==
        IF i = 0 THEN list ELSE Extended(listed[i - 1], d, kind, t[i].name)
  IN listed[N]

Listing(t, d) ==
  IF d = <<SYS>>
  THEN [i \in DOMAIN SystemFile |-> Row("file", <<SYS, SystemFile[i]>>)]
  ELSE Pass(t, d, "file",
            Pass(t, d, "dir", IF d = <<>> THEN <<Row("dir", <<SYS>>)>> ELSE <<>>))

RowsOf(t, d) ==
  (IF d = <<>> THEN <<>> ELSE <<Row("parent", Parent(d))>>)
  \o Listing(t, d)
  \o (IF d = <<>> THEN [i \in DOMAIN Program |-> Row("exec", Program[i])] ELSE <<>>)

(* ensure_selection_visible                                                *)
Scrolled(f) ==
  [f EXCEPT !.top =
     IF f.rows = <<>> THEN 1
     ELSE IF f.selected < f.top THEN f.selected
     ELSE IF f.selected >= f.top + Visible THEN f.selected - Visible + 1
     ELSE f.top]

(* Mutated form: the selection stays where it was.                         *)
RefreshedUnclamped(f, t) == Scrolled([f EXCEPT !.rows = RowsOf(t, f.path)])

(* refresh_rows, from the table t                                          *)
Refreshed(f, t) ==
  LET rows == RowsOf(t, f.path)
  IN Scrolled([f EXCEPT !.rows = rows,
                        !.selected = IF f.selected > Len(rows) THEN 1 ELSE f.selected])

(***************************************************************************)
(* The functions of file_manager.c from the state w before to the states   *)
(* they can leave: the calls of the file system can end in several ways.   *)
(***************************************************************************)
Refresh(w) ==
  { [w EXCEPT !.fs = s, !.fm = Refreshed(w.fm, s.entries), !.behind = FALSE] :
      s \in F!TryEnable(w.fs, FALSE) }

Selected(w) == w.fm.rows[w.fm.selected]

Panel(w, p) == {[w EXCEPT !.fm.panel = p]}

NoPanel == [kind |-> "none"]

Launch(w, program) == {[w EXCEPT !.sent = [program |-> <<program>>, file |-> <<>>]]}

Edit(w, path) == {[w EXCEPT !.sent = [program |-> <<EDITOR>>, file |-> path]]}

Enter(w, path) ==
  Refresh([w EXCEPT !.fm.path = path, !.fm.selected = 1, !.fm.top = 1])

OpenSelected(w) ==
  IF w.fm.rows = <<>> THEN {w}
  ELSE LET r == Selected(w) IN
       CASE r.kind \in {"dir", "parent"} -> Enter(w, r.target)
         [] r.kind = "exec" -> Launch(w, r.target)
         [] r.kind = "file" -> Edit(w, r.target)

Changeable(w) ==
  /\ w.fm.rows # <<>>
  /\ Selected(w).kind \in {"dir", "file"}
  /\ ~F!Reserved(Selected(w).target)

StartDelete(w) ==
  IF Changeable(w)
  THEN Panel(w, [kind |-> "delete", row |-> Selected(w), yes |-> TRUE])
  ELSE {w}

(***************************************************************************)
(* `row' is history: the row that was selected when the dialog opened.     *)
(* rename_input begins with its name, which `input' stands for.            *)
(***************************************************************************)
StartRename(w) ==
  IF Changeable(w)
  THEN Panel(w, [kind |-> "rename", row |-> Selected(w),
                 input |-> <<Last(Selected(w).target)>>])
  ELSE {w}

StartInput(w, kind) == Panel(w, [kind |-> kind, input |-> <<>>])

(***************************************************************************)
(* A call that changes the file system returns 0 when it refuses and when  *)
(* its flush fails; in the second case the table has changed, as it has    *)
(* when the call has loaded it and then refused.  The file manager cannot  *)
(* know of such a change, nor of one the editor makes; all others it can.  *)
(***************************************************************************)
Worked(u, accepted) == accepted /\ (u.enabled => ~u.lag)

Unknown(w, u) == [w EXCEPT !.fs = u, !.behind = @ \/ u.entries # w.fs.entries]

After(w, u) == [w EXCEPT !.fs = u]

(* Mutated form: the rows are not read again.                              *)
ConfirmDeleteUnread(w) ==
  LET row == w.fm.panel.row
      closed == [w EXCEPT !.fm.panel = NoPanel]
      results(s) == IF row.kind = "dir" THEN F!DeleteDirResult(s, row.target)
                    ELSE F!DeleteResult(s, row.target)
  IN UNION { UNION { IF Worked(u, u.entries # s.entries)
                     THEN {After(closed, u)} ELSE {Unknown(closed, u)} :
                       u \in results(s) } : s \in F!TryEnable(w.fs, TRUE) }

ConfirmDelete(w) ==
  LET row == w.fm.panel.row
      closed == [w EXCEPT !.fm.panel = NoPanel]
      results(s) == IF row.kind = "dir" THEN F!DeleteDirResult(s, row.target)
                    ELSE F!DeleteResult(s, row.target)
  IN UNION { UNION { IF Worked(u, u.entries # s.entries)
                     THEN Refresh(After(closed, u)) ELSE {Unknown(closed, u)} :
                       u \in results(s) } : s \in F!TryEnable(w.fs, TRUE) }

(* Mutated form: the editor is launched whatever became of the file.       *)
CreateFileUnchecked(w, path) ==
  UNION { UNION { UNION { Edit(x, path) : x \in
            Refresh(After([w EXCEPT !.fm.panel = NoPanel], u)) } :
              u \in F!WriteResult(s, path, NoData) } : s \in F!TryEnable(w.fs, TRUE) }

CreateFile(w, path) ==
  LET closed == [w EXCEPT !.fm.panel = NoPanel]
  IN UNION { UNION { IF Worked(u, F!HasEntry(u.entries, path))
                     THEN UNION { Edit(x, path) : x \in Refresh(After(closed, u)) }
                     ELSE {Unknown(w, u)} :
               u \in F!WriteResult(s, path, NoData) } : s \in F!TryEnable(w.fs, TRUE) }

(* Mutated form: the folder on the screen is forgotten.                    *)
ConfirmNewFileInRoot(w) ==
  IF w.fm.panel.input = <<>> THEN {w} ELSE CreateFile(w, w.fm.panel.input)

ConfirmNewFile(w) ==
  IF w.fm.panel.input = <<>> THEN {w}
  ELSE CreateFile(w, Child(w.fm.path, w.fm.panel.input))

ConfirmNewFolder(w) ==
  LET path == Child(w.fm.path, w.fm.panel.input)
      closed == [w EXCEPT !.fm.panel = NoPanel]
  IN IF w.fm.panel.input = <<>> THEN {w}
     ELSE UNION { UNION { IF Worked(u, u.entries # s.entries)
                          THEN Refresh(After(closed, u)) ELSE {Unknown(w, u)} :
                    u \in F!CreateDirResult(s, path) } : s \in F!TryEnable(w.fs, TRUE) }

ConfirmRename(w) ==
  LET row == Selected(w)
      path == Child(w.fm.path, w.fm.panel.input)
      closed == [w EXCEPT !.fm.panel = NoPanel]
      results(s) == IF row.kind = "dir" THEN F!RenameDirResult(s, row.target, path)
                    ELSE F!RenameResult(s, row.target, path)
      accepted(s, u) ==
        \/ u.entries # s.entries
        \/ row.kind = "file" /\ path = row.target /\ F!HasEntry(s.entries, path)
  IN IF w.fm.rows = <<>> THEN {closed}
     ELSE IF w.fm.panel.input = <<>> THEN {w}
     ELSE UNION { UNION { IF Worked(u, accepted(s, u))
                          THEN Refresh(After(closed, u)) ELSE {Unknown(w, u)} :
                    u \in results(s) } : s \in F!TryEnable(w.fs, TRUE) }

Confirm(w) ==
  CASE w.fm.panel.kind = "delete" -> ConfirmDelete(w)
    [] w.fm.panel.kind = "new" -> ConfirmNewFile(w)
    [] w.fm.panel.kind = "folder" -> ConfirmNewFolder(w)
    [] w.fm.panel.kind = "rename" -> ConfirmRename(w)

-----------------------------------------------------------------------------
(***************************************************************************)
(* The menus FILE (0) and HELP (1).                                        *)
(***************************************************************************)
Items(title) == IF title = 0 THEN 0..6 ELSE {0}

OpenMenu(w, title) ==
  {[w EXCEPT !.fm.title = title, !.fm.panel = [kind |-> "menu", item |-> 0]]}

CloseMenu(w) == IF w.fm.panel.kind = "menu" THEN [w EXCEPT !.fm.panel = NoPanel] ELSE w

(* perform_action of an item of the open menu, which is then closed.       *)
Perform(w, item) ==
  LET c == CloseMenu(w) IN
  IF w.fm.title = 1 THEN Panel(c, [kind |-> "about"])
  ELSE CASE item = 0 -> OpenSelected(c)
         [] item = 1 -> StartInput(c, "new")
         [] item = 2 -> StartInput(c, "folder")
         [] item = 3 -> StartDelete(c)
         [] item = 4 -> StartRename(c)
         [] item = 5 -> Refresh(c)
         [] item = 6 -> Launch(c, PROGMAN)

Running == fm.running

Showing(kinds) == Running /\ fm.panel.kind \in kinds

Do(worlds) == \E w \in worlds : Become(w)

KeyAbout == Showing({"about"}) /\ Do(Panel(Now, NoPanel))

KeyOtherAnswer ==
  /\ Showing({"delete"})
  /\ Do({[Now EXCEPT !.fm.panel.yes = ~@]})

Inputs == {"new", "folder", "rename"}

(* Characters and Backspace; every content of an input can be typed.       *)
KeyType ==
  /\ Showing(Inputs)
  /\ \E typed \in Typed : Do({[Now EXCEPT !.fm.panel.input = typed]})

KeyConfirm ==
  \/ Showing(Inputs) /\ Do(Confirm(Now))
  \/ /\ Showing({"delete"})
     /\ Do(IF fm.panel.yes THEN Confirm(Now) ELSE Panel(Now, NoPanel))

KeyCancel == Showing(Inputs \union {"delete"}) /\ Do(Panel(Now, NoPanel))

KeyEscape ==
  \/ Showing({"menu"}) /\ Do(Panel(Now, NoPanel))
  \/ /\ Showing({"none"})
     /\ Do(IF fm.path # <<>> THEN Enter(Now, Parent(fm.path))
           ELSE Launch(Now, PROGMAN))

KeyMenuItem ==
  /\ Showing({"menu"})
  /\ LET n == Cardinality(Items(fm.title))
     IN \E step \in {1, n - 1} :
          Do({[Now EXCEPT !.fm.panel.item = (@ + step) % n]})

KeyMenuTitle == Showing({"menu"}) /\ Do(OpenMenu(Now, 1 - fm.title))

KeyMenuEnter == Showing({"menu"}) /\ Do(Perform(Now, fm.panel.item))

KeyUpDown ==
  /\ Showing({"none"})
  /\ \E i \in {fm.selected - 1, fm.selected + 1} \intersect DOMAIN fm.rows :
       Do({[Now EXCEPT !.fm = Scrolled([fm EXCEPT !.selected = i])]})

KeyEnter == Showing({"none"}) /\ Do(OpenSelected(Now))

(* W, F, R, D, N and M                                                     *)
KeyLetter ==
  /\ Showing({"none"})
  /\ \/ Do(StartInput(Now, "new"))
     \/ Do(StartInput(Now, "folder"))
     \/ Do(Refresh(Now))
     \/ Do(StartDelete(Now))
     \/ Do(StartRename(Now))
     \/ Do(OpenMenu(Now, fm.title))

-----------------------------------------------------------------------------
(***************************************************************************)
(* fm_mouse, at a pixel of the screen.                                     *)
(***************************************************************************)
MenuX(title) == IF title = 0 THEN 30 ELSE 76

Within(v, low, high) == low <= v /\ v <= high

(* The width of the buttons: 52 in the first dialog, 62 in the others.     *)
OnButton(p, left, width) == Within(p[1], left, left + width) /\ Within(p[2], 114, 126)

OnBar(p) == Within(p[2], 26, 38) /\ Within(p[1], 21, 299)

OnTitle(p, title) == Within(p[1], MenuX(title) - 4, MenuX(title) + 38)

ItemAt(p, title) ==
  { i \in Items(title) : /\ Within(p[1], MenuX(title) - 4, MenuX(title) + 100)
                         /\ p[2] >= 40 /\ (p[2] - 40) \div 12 = i }

RowAt(p, f) ==
  { i \in DOMAIN f.rows : /\ Within(p[1], 30, 286)
                          /\ 67 <= p[2] /\ p[2] < 67 + Visible * 10
                          /\ i = f.top + (p[2] - 67) \div 10 }

(* A press in a dialog.                                                    *)
PressDialog(w, p) ==
  LET width == IF w.fm.panel.kind = "delete" THEN 52 ELSE 62 IN
  IF OnButton(p, 88, width) THEN Confirm(w)
  ELSE IF OnButton(p, 162, width) THEN Panel(w, NoPanel)
  ELSE {w}

PressBar(w, p) ==
  IF OnTitle(p, 0) THEN OpenMenu(w, 0)
  ELSE IF OnTitle(p, 1) THEN OpenMenu(w, 1)
  ELSE {CloseMenu(w)}

(* The first press on a row selects it, another one opens it.              *)
PressRow(w, p) ==
  IF RowAt(p, w.fm) = {} THEN {w}
  ELSE LET i == CHOOSE i \in RowAt(p, w.fm) : TRUE
           x == [w EXCEPT !.fm = Scrolled([w.fm EXCEPT !.selected = i])]
       IN IF i = w.fm.selected THEN OpenSelected(x) ELSE {x}

PressList(w, p) ==
  IF OnBar(p) THEN PressBar(w, p)
  ELSE IF w.fm.panel.kind = "menu" /\ ItemAt(p, w.fm.title) # {}
  THEN Perform(w, CHOOSE i \in ItemAt(p, w.fm.title) : TRUE)
  ELSE PressRow(CloseMenu(w), p)

Press(w, p) ==
  CASE w.fm.panel.kind = "about" -> Panel(w, NoPanel)
    [] w.fm.panel.kind \in Inputs \union {"delete"} -> PressDialog(w, p)
    [] w.fm.panel.kind \in {"none", "menu"} -> PressList(w, p)

(* Whatever the packet does, prev_left_button remembers its left button.   *)
Remember(worlds, left) == Do({ [w EXCEPT !.fm.prev = left] : w \in worlds })

MousePress(p) == Running /\ ~fm.prev /\ Remember(Press(Now, p), TRUE)

(* The right button is looked at first, but not in a dialog.               *)
MouseRight(left) ==
  Showing({"none", "menu"}) /\ Remember(OpenMenu(Now, fm.title), left)

MouseOther(left) == Running /\ (left => fm.prev) /\ Remember({Now}, left)

-----------------------------------------------------------------------------
Closed ==
  [running |-> FALSE, path |-> <<>>, rows |-> <<>>, selected |-> 1, top |-> 1,
   prev |-> FALSE, title |-> 0, panel |-> NoPanel]

(* fm_start, whenever FILEMAN is launched; closing it changes nothing.     *)
Start == Do(Refresh([Now EXCEPT !.fm = [Closed EXCEPT !.running = TRUE,
                                                      !.rows = fm.rows]]))

(* The editor saves a file while the file manager shows its rows.          *)
EditorSaves(p, c) ==
  \E s \in F!TryEnable(F!Now, TRUE) :
    \E u \in F!WriteResult(s, p, c) : Become(Unknown(Now, u))

Init ==
  /\ F!Init
  /\ fm = Closed
  /\ sent = Nothing
  /\ behind = TRUE

Next ==
  \/ Start
  \/ KeyAbout
  \/ KeyOtherAnswer
  \/ KeyType
  \/ KeyConfirm
  \/ KeyCancel
  \/ KeyEscape
  \/ KeyMenuItem
  \/ KeyMenuTitle
  \/ KeyMenuEnter
  \/ KeyUpDown
  \/ KeyEnter
  \/ KeyLetter
  \/ \E p \in Point : MousePress(p)
  \/ \E left \in BOOLEAN : MouseRight(left)
  \/ \E left \in BOOLEAN : MouseOther(left)
  \/ \E p \in FilePaths, c \in Data : EditorSaves(p, c)

Spec == Init /\ [][Next]_vars

-----------------------------------------------------------------------------
PanelType ==
  { NoPanel, [kind |-> "about"] }
  \union [kind : {"menu"}, item : Items(fm.title)]
  \union [kind : {"new", "folder"}, input : Typed]

(***************************************************************************)
(* The selection is on a row and that row is on the screen, whatever the   *)
(* rows have become; a dialog is about a row that may be changed.          *)
(***************************************************************************)
TypeOK ==
  /\ fm.path \in F!Path \union {<<>>}
  /\ IF fm.rows = <<>> THEN fm.selected = 1 /\ fm.top = 1
     ELSE /\ fm.selected \in DOMAIN fm.rows
          /\ fm.top \in 1..fm.selected /\ fm.selected < fm.top + Visible
  /\ fm.title \in {0, 1}
  /\ \/ fm.panel \in PanelType
     \/ /\ fm.panel.kind \in {"delete", "rename"}
        /\ fm.panel.row.kind \in {"dir", "file"}
        /\ ~F!Reserved(fm.panel.row.target)

(***************************************************************************)
(* What is on the screen is what the file system holds, unless the editor  *)
(* or a call that returned 0 has changed it since the rows were read: each *)
(* path through keys, menus and presses on which a folder is entered or a  *)
(* call has worked reads the rows again before it ends.                    *)
(***************************************************************************)
RowsAreCurrent == Running /\ ~behind => fm.rows = RowsOf(entries, fm.path)

(* The files of a table with their bytes; markers are no files.            *)
FilesIn(t) == { t[i] : i \in { j \in F!Used(t) : Last(t[j].name) # MARK } }

(* Where a file of the table goes when the row of the dialog is renamed.   *)
RenamedFile(file) ==
  [file EXCEPT !.name =
     F!Renamed(@, fm.panel.row.target, Child(fm.path, fm.panel.input))]

(***************************************************************************)
(* The file manager loses no file but the one whose deletion the dialog    *)
(* asked about, moves none but those of the row the rename was started on, *)
(* and empties none but the one that was typed as a new file.  (A typed    *)
(* name is cut where it does not fit; the load of an image over the table  *)
(* at a late probe, which SessionFilesStay of Fs is about, is left aside.) *)
(***************************************************************************)
OnlyWhatWasAsked ==
  [][ \/ disk.magic /\ ~enabled
      \/ \A file \in FilesIn(entries) :
           \/ file \in FilesIn(entries')
           \/ fm.panel.kind = "delete" /\ file.name = fm.panel.row.target
           \/ /\ fm.panel.kind = "rename"
              /\ IsPrefix(fm.panel.row.target, file.name)
              /\ RenamedFile(file) \in FilesIn(entries')
           \/ /\ fm.panel.kind = "new"
              /\ file.name = Child(fm.path, fm.panel.input)
      \/ \E p \in FilePaths, c \in Data : EditorSaves(p, c) ]_vars

(***************************************************************************)
(* The editor is asked for files that are there: a new one always is, the  *)
(* one of a row unless the rows are behind.                                *)
(***************************************************************************)
OpensFiles ==
  [][ sent'.file # <<>> =>
        \/ F!HasEntry(entries', sent'.file)
        \/ F!Reserved(sent'.file)
        \/ behind /\ Row("file", sent'.file) \in { fm.rows[i] : i \in DOMAIN fm.rows } ]_vars
=============================================================================
