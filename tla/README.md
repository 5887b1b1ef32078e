# EagleOS: specifications, model checking and proofs

EagleOS is a small protected-mode operating system with a Windows 3.11 like
desktop.  Everything runs in one loop: `kernel_main` polls the keyboard, polls
the mouse, hands what they report to the desktop, which hands it to the window
manager, which hands it to the program that has the focus; programs call the
file system, and the file system writes an image of itself to the disk.  There
are no interrupts and no threads.  What is hard is therefore not preemption but

- devices that go on while the loop waits: one controller port shared by
  keyboard and mouse, answers that come late, bytes taken by the wrong reader;
- a disk that fails, stops in the middle of an image, or answers only later, and
  a driver that gives up a command which the drive then finishes after all;
- one press of a button that three layers each remember for themselves;
- indices into tables that are compacted while others keep them;
- handlers that re-enter the window manager (a program closes its own window or
  launches another while its key or press is being delivered);
- long sequences of legal calls whose preconditions each check only one thing.

This directory holds TLA+ modules for these parts, TLC configurations, and
theorems with proofs for TLAPS.  `PROJECT.json` lists components, runs,
findings, hazards, theorems and, definition by definition, the source lines
each one models.

## Inventory

| component | state | operations | correct when |
|---|---|---|---|
| file system, `kernel/fs.c` | `entries[]`, `disk_probe_done`, `disk_persistence_enabled`, the pending open request; the image on the disk | write, read, delete, rename, create/delete/rename directory, list | names are unique; an acknowledged change is in the image; files are not mixed by failures; directory operations lose no file and shadow none; listing and existence agree |
| disk driver, `kernel/disk.c` | the ATA registers | read and write a sector, with bounded waits | a sector reported as written has been written |
| executable runtime, `kernel/exec.c` | parallel arrays of active programs, `open_order`, `current_index`, `maximized_index`, `dragging_index`, `prev_left_button` | launch, close, deliver key and mouse, restore | every index stays that of the same window through compaction; focus, order and minimized flags agree |
| desktop, `kernel/ui.c` | cursor, `prev_left_button` | process key and mouse, draw | a press acts once on whoever takes it; ui.c and exec.c agree on the button; the taskbar restores the windows |
| keyboard driver, `kernel/keyboard.c` | modifiers, locks, `extended_prefix` | poll, LED update | every key is reported once, in order, with the right modifiers; mouse bytes are left alone |
| mouse driver, `kernel/mouse.c` | `packet[]`, `packet_index` | poll | packets are put together from their own bytes |
| main loop, `kernel/kernel.c` | none of its own | calls the two polls, the desktop and `ui_draw` | nothing keeps the loop; what changed is drawn |
| text editor, `kernel/text_editor.c` | lines, cursor, menu, dialogs, file name | keys, presses, menu items, save, open, start | the lines are one text with a cursor; what is saved is what is opened |
| file manager, `kernel/file_manager.c` | `current_path`, `rows[]`, `selected`, `row_top`, the flags and inputs of its dialogs and menus | navigate, open, create, rename, delete, refresh, by keys and presses | the rows are those of the folder; the selection is on a row; no file changes but the one asked for; the editor is asked for files that are there |
| program manager, `kernel/program_manager.c` | selection, the row and the window of a double click, menus, the question before a restart | keys, presses, launch, restart | the selection is a program; a double click is two presses on one row |
| calculator, `kernel/calculator.c` | accumulator, operator, display, flags, the selected button, the help menu | digits, operators, corrections, by keys and buttons | what it shows is exact as long as it fits; a typed number is never altered |
| date and time, `kernel/datetime.c` | `current_datetime` | read the CMOS clock, set, tick | a reading is a time that the clock showed; a tick is the next second |
| timer, `kernel/timer.c` | the last count of the PIT | poll (disabled in the kernel) | a second is a tick |
| settings, `kernel/settings.c`, `settings_app.c`; themes, `kernel/themes.c` | the settings, the theme in three places, the section and whether it is edited | change, reset, close | what the program shows is what is set |
| installer, `kernel/installer.c` | state, the failed sector, the help menu | copy the image to a disk, sector by sector | "installed" means that every sector is on the disk; it comes to an end whatever the drive does |
| rendering, system information, boot, build tools | frame buffer, constant texts | | no state that a property relates |

Interactions: `kernel_main` calls `keyboard_poll_key` -> `ui_process_key` ->
`exec_deliver_key` -> `on_key` of the focused program; `mouse_poll` ->
`ui_process_mouse` -> either a taskbar restore or `exec_deliver_mouse` ->
`on_mouse`; programs call `exec_launch` and `exec_close_current` from inside
their handlers, and `fs_*`; the file manager passes a name to the editor through
`fs_request_open_file` and the launch of EDITOR; the two input drivers meet in
the output buffer of the controller.

## Modules

### Fs: the file system

`entries` is the table of `FS_MAX_FILES` slots, `disk` the image with its magic
number, `probeDone` and `enabled` the two flags.  `torn`, `mixed` and `lag` are
history variables that only properties read.  A path is a sequence of
components, a directory exists through its marker entry or through an entry
below it, as in the code.

The 31 characters of a name are counted in components of one width: `MaxLen` of
them fit whole, and `Stub[c]` is what still fits of a further component c (`Cut` is
`copy_name`).  The `MaxLen` components take 31 characters (nothing fits behind
them), 30 (a '/', whose component is the empty one, `NONE`) or 27 to 29 (the '/' and
one to three characters, never the whole of .DIR): the three cases of
`StubAssumption`.  The marker "/.DIR" of such a directory is cut when it becomes the
name of an entry, and no look-up finds that entry again, because
`build_dir_marker_path` returns the whole string.  At 31 characters the entry has
the directory's own name, and `path_has_child_prefix` compares without a '/'
(`Fills`).  That string is also longer than the 32 bytes it is built in.  The
modules have what the build does: with the `-O2` of the Makefile (line 3) and of
build.bat (line 129) nothing that is used afterwards lies behind the array.
Without optimisation other local arrays do, so that a folder can be made twice;
such builds are not modelled.

Content is two pieces, because of how slots lie on
sectors: `head` shares its sector with the slot's name and size, `tail` with the
name of the next slot.  An operation is written as an operator from a state to
the set of its results (`WriteResult`, `RenameDirResult`, ...), since each runs
through a probe (`TryEnable`), a change of the table and a flush that can all
end in several ways; the action chooses one.  `Reboot` keeps the disk only.

### Exec: the window manager

`wins` is the parallel arrays as one sequence of records, `order` is
`open_order`, the indices are 1-based with 0 for -1.  The helpers (`Focus`,
`RemoveActive`, `Launch`, `CloseCurrent`, `Minimize`, `ToggleMaximize`) map one
window state to the next in the order in which the code changes it, so that an
action is one whole call of `exec_deliver_mouse`, `exec_deliver_key` or
`exec_restore_window_by_visible_index` with the handlers it calls (`Handled`).
Windows may overlap in any way: which window a press meets is left open except
that it is not one behind a window that fills the desktop.

### Desktop: the mouse and the desktop over the window manager

`Desktop` extends `Exec`: each of its actions is one packet on the whole way of
`ui_process_mouse` -> `exec_deliver_mouse` -> `on_mouse` -> whatever the handler
launches or closes.  `button` is `prev_left_button` of ui.c, `prevLeft` (of Exec)
that of exec.c, `memory[p]` that of a program.  Every program's `on_mouse` ends by
noting the button and its `on_start` forgets it (`Noted`).  Only the programs of
`Watched` have a memory, since no program's memory depends on another's.
`taken` counts who has taken the present press, `away` holds the programs that
lost the focus to a held button: both are history.

### Disk, Installer: the disk driver and the installer

`Disk` is one call of `disk_read_sector` or `disk_write_sector` at a time, taken
apart into its waits, over an external ATA drive that can be busy as long as it
likes, fail, or not be there.  A wait that has used up `ATA_TIMEOUT` reads ends at
any moment (`Timeout`), and the drive keeps the command it is in (`orphan`).
`Fs` takes from the driver that a transfer happens or fails; `LandsWhereMeant` and
`AnswersAreTrue` say when that is so.  `Installer` runs its loop of sectors over
the driver; between installations the file system calls the driver for a sector
behind the installed ones, and the power can fail at any moment.

### Calculator, Progman, SettingsApp, HelpMenu: the other programs

`Calculator` has the arithmetic of a fixed width (`Wrap`, `Quotient`) and every
key, button and menu.  Beside it runs `ledger`, the same calculation in exact
integers, kept from what is shown and pressed only; it is history.  `Progman`
works on the coordinates of the code, because the menus lie over the rows; `first`
is the history of the last press on a row that has launched nothing.
`SettingsApp` has the theme in its three places: the number in the program, the
copy in the settings, the copy in themes.c.  `HelpMenu` is the help menu and the
about box that the calculator and the installer share word for word.

### Ps2, Streams: keyboard, mouse and main loop

`Ps2` has the two devices with their queues, the one output buffer of the
controller, and the loop: `pc` is where `kernel_main` is, with an LED update
taken apart into its four steps because devices go on while it waits.  Devices
and controller are external and are modelled as the drivers expect them.
A keyboard byte is a code and a release bit; the byte of left Shift's release is
the byte 0xAA.  Of a mouse byte the bits of a first byte are kept and, for the
properties, its true place in its packet.  Bit 3 marks a first byte, but a byte of
the movement can have it, too: `mouse_poll` then takes it for a first one when it has
lost its step, and `astray` counts that.  `Streams` is the abstract
specification: two independent streams, every key and packet handled once and in
order.  `Ahead` relates the two: the bytes that wait, read one after the other by the
driver's rules (`Read`) from its present state on, give the keys that are still to
come and the modifiers after them.  The Pause key sends its six bytes only while no
Ctrl is held; with Ctrl it is Break, an extended key like any other.

### Editor, TextBuffer: the text editor

`Editor` has the array of lines, the cursor, the menu and dialogs, the file
name, the pending request of the file manager and the files as
`fs_read_file` returns them (Fs has how they get there; `Outcomes` are the three
ways in which `fs_write_file` ends).  `Take` is one character of the loop in
`deserialize_document`, `TakeAll` the whole of it.  `TextBuffer` is the abstract
specification: a text and a place in it; `Editor` maps to it by joining its
lines with NL and counting the characters before the cursor (`Flat`, `Place`).
`TextKept` says that every step is one of `TextBuffer` or a stutter, and
(`StepOfText`) that each key, choice and dialog is the step it is meant to be.

### Fileman: the file manager

`Fileman` is an instance of `Fs` plus `fm`, the static variables of
`file_manager.c` (its dialogs exclude each other, so one field `panel` says which
is open).  As in `Fs`, the functions are operators from a world to the set of the
worlds they can leave, since every call of the file system can end in several
ways; `Worked` is what the call returns.  `fm_key` is one action per branch,
`fm_mouse` works on pixels with the code's numbers, because its regions overlap.
The names typed into a dialog are paths ('/' is allowed, but not an empty component:
a bound), and `build_child_path` cuts what does not fit; a folder may take all that fits.  A pass of `build_listing` is a recursive function over the
slots (`Pass`), one slot being `Extended`.  `EditorSaves` is the other program that writes while the
rows are shown.  `sent` (what a step launched) and `behind` are history.  `behind` is
raised by what the file manager cannot know of: the editor's saves and calls that
return 0 although the table has changed (`Unknown`).  A call that has worked does not
raise it (`After`), so that a confirmation which forgot `refresh_rows` would violate
`RowsAreCurrent`.

### Clock: date and time

`Clock` has the chip as an external series of successive seconds with its
update bit and its four formats, `datetime_init` register by register, and
`datetime_set` and `datetime_tick`.  `Real`, `Stamp` and `Successive` are the
calendar it is compared with, by counting days, independent of the code's own
case distinctions.  Today the kernel calls `datetime_init` only.

### SeqLemmas, FsProofs, FilemanProofs, DesktopProofs, EditorProofs, Ps2Proofs, DeviceProofs, ProgramProofs

Facts on sequences and on permutations of indices, induction over the natural
numbers as a fact about sets, and the proofs: of `Fs`, of `Fileman` over those of
`Fs`, of `Exec` and of `Desktop` over it, of `Editor`, of `Ps2`; of what stands on a
device, `Clock` and `Installer`; of the programs `Progman`, `SettingsApp` and
`Calculator`.

### MCFs, MCExec, MCDesktop, MCPs2, MCEditor, MCFileman, MCPrograms

Constants for TLC.  `MCPrograms` has five parts that share no variable: one of
them runs, the others stay where they start, so that the states are those of one
part after the other and not their product.  The operators whose comment says
"Mutated form" are not part of a specification: each is a plausible mistake in the
definition that follows it, and the property named for it in `PROJECT.json` fails
when it takes that definition's place.

## Runs

| run | instance | shows |
|---|---|---|
| `fs_faults` | 2 slots, 2 files and a directory, every failing and torn flush, failing reads | `UniqueNames`, `WriteThrough`, `WholeFiles` |
| `fs_tree` | 3 slots, 5 files, 6 directories, paths of 3 components that fill a name, a disk that works | `TypeOK`, `ListingAgrees`, `DirOpsNeverShadow`, `DirOpsKeepFiles`, `SavedFilesStay` |
| `fs_session` | a disk that answers late | `SessionFilesStay` is violated |
| `desktop` | 3 programs, 2 of them watched, every packet and taskbar press | the seven properties of Exec: `TypeOK`, `OrderIsPermutation`, `OneWindowEach`, `FocusIsTopmost`, `SpecialWindows`, `DragKeepsWindow`, `ClosingKeepsOthers`; of Desktop: `MemoriesAgree`, `ActsOnce`, `OnlyTheLeftMissPresses` |
| `exec_close` | 3 programs, 1 place | `CloseSelectsNext` is violated |
| `ps2_streams` | 2 keys, one with a prefix, 2 packets, 3 bytes waiting per device | `StreamsKept`: Ps2 implements Streams |
| `ps2_leds` | right Alt and one Pause, 6 and 3 bytes waiting, a packet cut off by `mouse_init`, a movement with bit 3 in its second byte | `TypeOK`, `ModifiersFollow`, `Aligned`, `WrongPacketsHaveCauses`, `LedUpdateEnds` |
| `ps2_shift` | left Shift and a letter | `ShiftIsReleased` is violated |
| `editor` | 2 characters, 2 lines of 2, one name, files the editor shows only in part, all outcomes of a save | `TypeOK`, `TextKept`: Editor implements TextBuffer |
| `editor_open` | two names | `OpenedFileIsShown` is violated |
| `fileman` | 2 slots, names of 2 components of 13 or 14 characters, folders a, b, a/b and the file a/b, flushes that succeed or fail late, 2 rows on the screen, 8 pixels | `TypeOK`, `RowsAreCurrent`, `OnlyWhatWasAsked`, `OpensFiles` |
| `programs`, clock | 5 series of seconds in 4 formats, 27 settings, 2 ticks | `ReadingIsTrue`, `TickIsNextSecond` |
| `programs`, installer | 2 sectors to install and one of the file system, a drive that is there or not | `AnswersAreTrue`, `LandsWhereMeant`, `VerdictIsTrue`, `InstallEnds` |
| `programs`, calculator | numbers of 4 bits, base 3, percent as halves, 8 buttons | `ShowsTheTruth` |
| `programs`, program manager | 3 programs, the 22 packets of the code, 13 points | `DoubleClickIsTwo` |
| `programs`, settings | the 5 themes and speeds of the code | `ShownIsInForce`; `TypesOK` is the type of all five parts |

Why the bounds are enough.  *Fs*: every operation touches at most the entries of
two paths and their subtrees; two slots have a flush cut before, between and
after them, three have a directory with two entries to move and a file in the
way.  In `fs_tree` three components are 31 characters, where the two scans for
directories differ most; `fileman` has the marker that is cut to a part of .DIR.  The theorems lift the bounds, here and below, for all that is not liveness.  *Exec*: closing
renumbers one index below, one equal to and one above the closed one: three
windows have all three.  The 16 places of the table cannot be used up, since
there are fewer registered programs and each has one window (`OneWindowEach`).
*Desktop*: of the watched programs one launches others and is started again, one
closes itself; with the third there is always a window to lose the focus to.
*Ps2*: three bytes are a whole packet or a key with a prefix and one more byte,
so every byte of one meets every byte of the other; Pause needs six.  Its one
Num Lock already brings an LED update at every point of both streams.  A movement
with bit 3 in one byte puts the driver out of step for two packets, and the next
byte brings it back; `MaxAstray` ends what could go on for ever with bit 3 in both.  *Editor*:
two characters tell an insertion from a duplication, and two-character lines
have a start, a middle and an end; with two lines there is one to join, one to
split and, when both are used, none left.  *Fileman*: two entries make up to three
folders and more rows than fit the screen; the pixels meet every region and every
overlap of two.  An image that is cut short is left to `fs_faults`.  *Clock*: the
series have a change of every field, noon, midnight, a morning and an afternoon; the
settings have the last days of a short, a long and each kind of February, and
dates that are not there.  *Installer*: with two sectors there is a first, a last
and one after another, and the sector of the file system is the third party whose
data can go astray.  *Calculator*: in 4 bits and base 3
a number has two digits and a third does not fit, as the eleventh in 32 bits and
base 10, and the product of any two large numbers overflows.  *Program manager*:
the points meet every region and every overlap of a menu with a row.

`CHECK_DEADLOCK` is never turned off: no system here can stop.

## Fairness

`WF(Loop)` of Ps2: `kernel_main` never leaves its loop and every wait in it is
bounded by a count, so a step of it always comes.  `SF(ShiftKbd)`, `SF(ShiftAux)`:
the controller's buffer is emptied again and again and both devices compete for
it; that it serves each some time is an assumption on the hardware.
`LedUpdateEnds` needs the first only, `StreamsKept` both.  `WF(Processor)` of
Installer: every wait of disk.c counts its reads of the status, so it ends; the
drive may never answer, and the power may fail again and again.  Nothing is
assumed of the user, of the keyboard's answers or of the drive.

## What is proved

`FsProofs`, for every number of slots, set of paths and content, and every
behaviour of the disk: `TypeCorrect`, `AlwaysUniqueNames`,
`AlwaysWrittenThrough`, `AlwaysWholeFiles`.  None of these invariants is
inductive: what a failed flush leaves in the image matters only at the load after
the next restart.  The inductive invariant `IInv` says of the whole state
(`Good(Now)`) that it is typed, that image and table are equal while the last
flush succeeded, and that table and image are free of mixed files and double
names as long as the history variables say that no flush was cut (in the second
case: none while the image was behind).  An image that a flush cut has, slot by
slot, names and pieces of the old or of the new table (`CutMixture`); when old
and new differ by one operation of an image that was current, that is not enough
for a double name, which is what `MovedSafe` shows for the renames of subtrees.  `ListingsAgree` needs
of the invariant only that names are paths, and is shown for each case of
`StubAssumption`: a marker that is cut is still an entry below its directory, unless
the directory fills the name.

The three action properties of Fs are stated for a disk that works
(`ReliableDisk`: reads and flushes succeed), as the run `fs_tree` has it: a load
after a failure replaces the table by an old image in the middle of an operation,
and then files do go (`fs_session`).  They rest on `DiskWorks`: on such a disk the
table is empty, or persistence is on and the image is the table.  From there each
operation is followed on its own: `DirectoriesNeverShadow` shows that the checks of
create and rename leave no file on the way to the new name (`NoFileOnTheWay`);
`SavedNamesStay` that only deletions and renames take a name out of the image;
`DirectoriesKeepFiles` that a directory's operation keeps each plain file in its
slot with its content.  The last has a hypothesis of its own, `NoneIsAMarker`: a
file that has the same path as a directory is renamed with it, and a directory
renamed to ".DIR" would make a marker of that file.

`FilemanProofs` has `Fileman` over `Fs`, for every table, tree of folders, set of
names that can be typed, size of the screen and way the disk can fail:
`TypeCorrect`, `RowsStayCurrent`, `EditorOpensFiles`, `OnlyTheAsked`, and
`FileSystemStaysGood`, that everything `FsProofs` says in every state of Fs alone
holds below the file manager and the editor, too.  One world (`Now`) goes through the functions of
file_manager.c, each of which has a lemma that says what it makes of a valid world;
`Invariance` is their sum.  `Valid` says: the file system is good (`FP!Good`), the
selection is on a row of the screen (`OnScreen`), the open dialog or menu fits what
is selected (`Fits`), and the rows are those of the table unless the editor or a call
that returned 0 has changed it since (`Current`).  None of these is inductive alone.  That the rows are
current after a confirmed dialog needs that the refresh at its end does not probe
again, and so does not load another table: the operation has probed before
(`Settled`, `ProbedAgain`).  That a rename changes the row it was asked about,
although `confirm_rename` looks at the selection again, needs that no key or press
moves the selection while the dialog is open (`Fits`).  `EditorOpensFiles` needs that each row of a file is in the
table it was read from; this is `ListingRows`, by induction over the slots of
`build_listing`'s passes, with the recursive function taken apart in `PassLoop`.
For `OnlyTheAsked`, a step is at most one operation of Fs (`Effect`), which changes
one slot or the slots below one path (`DeletedStay` to `RenameDirStay`).  Its
hypothesis `NoMarkTyped`, that nobody types the marker's name, is one the code does
not enforce: see the findings.

`DesktopProofs` has `Exec` first, for every set of programs, places and handlers: `TypeCorrect`,
`OrderAlwaysPermutation`, `AlwaysOneWindowEach`, `FocusAlwaysTopmost`,
`AlwaysSomeProgram`, `AlwaysSpecialWindows`.  They are proved together: the focus
is topmost only because the order is a permutation, and the renumbering after a
close keeps the permutation only because indices are typed.  `SeqLemmas` has
what removing an index from a permutation and renumbering the rest gives.  From the
same invariant follow the two action properties, `DragsKeepTheirWindow` and
`ClosesKeepOthers`: `StepStays` compares the windows before and after each whole
call by their names, since an index means another window after a close.

Then the desktop, for every set of programs and of watched ones: `DesktopRunsExec`
(every step of `Desktop` is one of `Exec` or leaves it alone, so that all of the
above holds of the desktop), `MemoriesAlwaysAgree`, `PressesActOnce`,
`OnlyTheLeftMiss`.  That no receiver takes a press twice rests on what programs
remember: who has taken the present press knows the button to be down
(`TakenIsRemembered`), and who believes it to be down is either the one the last
packet was given to or has lost the focus to a held button since
(`HoldersAreKnown`).

`EditorProofs`, for every set of characters, every number of lines and length of a
line, and every contents of the files: `TypeCorrect` and `TextIsKept`, the
refinement of `TextBuffer`.  The array of lines and the position in it are only
typed together: each key computes an index from both, and `Show` puts the cursor
at the start of what was read, which has a line because `TakeAll` starts with one.
`TypeOK` is inductive as it stands, and it is the invariant of the refinement, too.
The argument is that the cursor cuts the text as it cuts the document:
`Flat(lines)` is what is before the cursor, `Behind`, followed by `Ahead`, and
`Place` is the length of the first (`CursorCuts`, `CursorAt`).  Inserting, removing,
splitting and joining then change the end of the one or the start of the other
(`CharInserted`, `CharRemoved`, `LineSplit`, `LinesJoined`).  For the files, reading
back what was saved gives the document again (`TextIsRead`): by induction on the
lines, a line is read byte by byte (`TakeRow`), an NL starts the next one (`TakeEnd`),
and nothing is left out as long as the document fits the array.  Then it fits the
buffer, too (`FlatLength`), so that saving cuts nothing off (`SavedText`).  The two
loops over a document and over a file are recursive functions, which reach the
provers as a choice; that there is such a function is shown first (`FlatLoop`,
`TakeLoop`), by induction over a set of numbers (`SetInduction` of `SeqLemmas`).
`FileAssumption` has one conjunct that the proof needs beyond types: no file reads as
the value that stands for a missing one.

`Ps2Proofs`, for every set of keys and of packets and every bound: `TypeCorrect`,
`AlwaysAligned` and `WrongPacketsAreExplained`, whatever bits the movement has.  The inductive invariant `PInv` adds what the mouse's queue
and the controller's buffer hold: the end of a stream of whole packets (`Stream`).
`DebtsArePaid` counts: a byte that was lost or taken for a first one is a debt that one
wrong report, or a packet that is being put together wrongly, has paid; `NeverAstray`
says that the second kind never comes without the first.

`ModifiersAlwaysFollow` rests on two invariants.  `WellSent`: what waits was sent by
the keyboard, so 0xFA is in it only as an answer.  `InTouch`: reading ahead ends
without a prefix and with the modifiers that are held, but for left Shift.  A
step of the driver leaves what is read ahead as it was (`ReadLater`, `HandledInTouch`),
and a key that is typed adds itself at the end (`ReadConcat`, `ReadKey`, `ReadPause`); an
answer changes nothing wherever it comes (`Answered`).  The hypothesis `ShiftIsPlain`
is that no extended key has the code of left Shift: 0xAA is dropped before
extended_prefix is cleared (keyboard.c:727-729), so that the release of such a key
would make an extended one of the next.  No key is such a one, but keyboards with
Num Lock on put 0xE0 0x2A and 0xE0 0xAA around the arrow keys; the models do not
have these.

`StreamsStaySeparate` is the safety half of the refinement: `Promise!Safety`, that is
`Streams` without its fairness.  Its hypothesis `NothingIsLost` names what loses
bytes: Pause and the lock keys, whose LED update takes them, left Shift, whose release is
dropped, and a packet cut by `mouse_init`.  The instance of `ps2_streams` has none of
these.  Every step is one of `Streams` or a stutter (`TypeStep`, `MoveStep`, `KeyStep`,
`MouseStep`, `StreamStep`); the mouse's packets are the bytes that wait cut into threes,
`packet` first (`Chunks`).

`DeviceProofs`, for every number of sectors to install and every set of sectors:
`InstallerTypesHold`, `TrueAnswers`, `TrueVerdict`, `DataLandsWhereMeant`.  That the driver
answers truthfully is not inductive, because what a wait sees depends on whose
command the drive is in.  `InstInv` has the three facts it rests on: a command that
was not given up is that of the present call, with its sector and its data
(`Owned`); a call that found the drive at rest leaves no command but its own
behind, and while it waits the drive is in that command or at rest (`CleanCall`);
no command still in the drive is for a sector that the installer has reached
(`Untouched`).  The last one is why a file system's write that comes late cannot
spoil what is installed, and why a sector given up is not counted as reached.

Of the clock, `DeviceProofs` has `ClockTypesHold`, `ClockIsTrue` and
`TicksAreSeconds`, for every set of series of less than a minute in this century,
every setting of the type `eos_datetime_t` and every number of ticks.  `ClockIsTrue`
rests on an invariant about the reading (`Seen`): each register read since the last
wait is what the chip showed at some second since, and these seconds do not go back
from one register to the next.  When both readings agree, they agree in the first
register, the seconds; in less than a minute no two seconds are the same
(`SecondsDiffer`), so the first six registers are of one time (`OneSecond`).  What
they are converted to is then arithmetic on the four formats (`BcdInverse`,
`HourIs`).  `TicksAreSeconds` compares the case distinctions of `datetime_tick`
with the calendar by counting days (`MonthLength`, `YearLength`).

`ProgramProofs`, for every number of programs and every length of the double
click's window: `PmTypesHold`, `DoubleClicksAreTwo`, because while the window is open
the row the code remembers is that of the last press, and the window has shrunk by
as many packets as have come since (`Counts`).  For every list of different themes:
`SetTypesHold`, `ShownStaysInForce`, from `SameTheme`: the theme is the same in the
three places it is kept in, also while the program is not running.

For integers of every width, every base and every layout of the buttons:
`CalcTypesHold`, `TruthIsShown`.  `ShowsTheTruth` says nothing of the two flags
that decide which operand comes next, nor of a number that cannot be negated; the
inductive invariant adds that a number is being typed exactly when it is booked as
typed (`entering`), and that a typed number is never the smallest one, whose
negation wraps (`Agree`).  The lemmas on the arithmetic (`WrapRange`, `WrapIdle`,
`DigitFits`, `PercentFits`) say why the limit of `press_digit` and the percent key
keep typed numbers exact.

Assumptions are those named in the modules; TLC evaluates them on every run.  Those
that a proof needs beyond types are that no program is called like a receiver of
presses that is none (`WatchAssumption`), that themes are different
(`ThemesAssumption`), and that a series of the chip is one of successive seconds
(`SuccessionAssumption`).  What a theorem assumes besides is in its statement:
`ShiftIsPlain`, `NothingIsLost`, `ReliableDisk`,
`NoneIsAMarker`, `NoMarkTyped`, each of which the instance of the property's run
satisfies.

`TypesAlwaysHold` (in `DeviceProofs`) puts the five parts of `MCPrograms` together:
each goes through behaviours of its own specification (`EachPartRuns`).

Every invariant and every action property the passing runs check is a theorem.
Only model-checked is liveness, which is out of reach of the provers:
`LedUpdateEnds`, `InstallEnds` and the fairness of `Streams` in `StreamsKept`.

## Findings

Each has a run whose single property is violated.

1. `fs_session`: files "SAVED (SESSION ONLY)" vanish when a later call finds the
   disk and loads its image (fs.c:595).
2. `exec_close`: the next window's index is not renumbered with the table
   (exec.c:853-885).
3. `ps2_shift`: the release of left Shift, 0xAA, is dropped, and left Shift
   stays down (keyboard.c:727).
4. `editor_open`: a file opened while the editor runs is not shown
   (file_manager.c:340).

The models show more that have no run of their own:

- a folder with a path of 31 characters becomes an entry of its own name: the file
  manager says "FOLDER CREATED" (file_manager.c:434) and lists a file, and the folder
  cannot be deleted as one (fs.c:253; without its case for `Fills`, `ListingAgrees`
  is violated in `fs_tree`);
- one read that fails at the first write after a restart, and that write puts its
  table over the image and every file in it (fs.c:599; `SavedFilesStay`, checked on a
  disk that works, is violated as soon as reads can fail, as in `MCFsSession.cfg`);
- maximizing a second window forgets the first one's saved geometry
  (exec.c:1237-1293);
- the LED update takes mouse bytes, although keyboard.c:692 leaves them alone,
  and Pause, which keyboard.c:744 means to discard, toggles Num Lock;
- what a mouse event changes is drawn only at the next key, since `ui_draw` waits
  for a second `mouse_poll` that takes one byte at most (kernel.c:399);
- the afternoon hours of a BCD clock in 12-hour form lose their mark in the
  conversion and end as 2026-01-01 (datetime.c:175-202; `ReadingIsTrue` names
  the case);
- "NEW FILE" under the name of a file that is there empties it
  (file_manager.c:404), and a typed name that does not fit is cut and may be that
  of another file (`OnlyWhatWasAsked` allows both);
- after a call that changed the table but failed to flush it, the rows stay as
  they were until the next refresh (`behind`), and a row that is behind may ask the
  editor for a file that is gone (`OpensFiles`);
- a folder with a path of 27 to 30 characters is listed and can be entered, but never
  deleted, since its cut marker counts as an entry below it (fs.c:840); up to 29
  characters that marker is listed in it as a file;
- with bit 3 in both bytes of its movement, one lost byte can put any number of packets
  together wrongly (`astray` counts them);
- one press can act on several receivers: after a launch, a close, a minimize or a
  press on the taskbar the program that has the focus now takes the held button for
  a new press (`ActsOnce` is per receiver), and a program that lost the focus to a
  held button misses the next press on it (`OnlyTheLeftMissPresses`);
- the taskbar's buttons restore windows but are never drawn: `exec_open_window_info`
  returns 0 when it succeeds, and ui.c:102 skips the button then;
- ".DIR", the name of the markers, can be typed: a file renamed to it, or into it
  with its folder, becomes a marker and is listed no more (fs.c:403 and
  file_manager.c:763; the instance of `fileman` types no such name, and
  `OnlyTheAsked` has it as a hypothesis);
- programs compare presses with absolute coordinates, although their window can be
  dragged; the install button is drawn at y 92 to 110 and pressed at 84 to 102;
- a drive that answers after the driver has given up takes the data of the next call
  for the earlier sector.  When the file system's command was given up, the
  installer's boot sector lands in the file system's sector and the installation
  still succeeds (`orphan`, `foundClean`);
- a write is not checked for errors after its data (disk.c:143), and nothing waits
  between the command and the first read of the status, so that the error of the
  command before can end a call;
- the quotient of the smallest number by -1 faults the processor (`fault`), and the
  kernel handles no faults; CE after an error keeps the accumulator and operator;
- in the program manager the about box survives a restart of the program, a press
  that closes a menu goes on to the row below, and the window of a double click
  counts packets, not time;
- `cursor_blink_name` calls the default speed "FAST" (settings_app.c:158;
  `ShownIsInForce` names the case), and no other part reads any of the settings or
  the theme, although settings_app.c:478 says that they are applied immediately.

## Plan

Done: every module named above, and the proofs of `Fs`, `Fileman`, `Exec`,
`Desktop`, `Editor`, `Ps2`, `Installer` over `Disk`, `Clock`, `Calculator`, `Progman`
and `SettingsApp`.  Nothing that the plan had is left.

## Not modelled

- The timer: `timer_init` and `timer_poll` are commented out in kernel.c, and what
  a tick does to the date is in `Clock`.
- Rendering (`render_backend.c`, `desktop_interface_manager.c`) and the drawing of
  every program: writes to a frame buffer with clipping.  What is drawn when is a
  matter of kernel.c:399 alone, named under the findings.
- System information, boot sector, kernel entry, build scripts: constant texts and
  straight-line code that runs once or not on the machine at all.
- `keyboard_init` and `mouse_init`: the states that they can leave are the initial
  states of `Ps2`.
- Native executables: the bundle's registration and the assembly demonstration.
- Single setters of themes.c, `settings_reset_theme`, `disk_bios.asm`: no callers.
