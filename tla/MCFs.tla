-------------------------------- MODULE MCFs --------------------------------
(***************************************************************************)
(* Small instances of Fs for TLC.                                          *)
(***************************************************************************)
EXTENDS Fs

CONSTANTS a, b, v, w, part

Components == {a, b, SYS, MARK, NONE, part}

(* MaxLen components take 31 or 29 to 27 characters.                         *)
NoStub == [c \in Components |-> <<>>]
PartStub == [c \in Components |-> <<part>>]

Contents1 == {v, NoData}
Contents2 == {v, w, NoData}

(* Files and one directory in the root, for the runs about the disk.       *)
FlatFiles == {<<a>>, <<b>>}
FlatDirs == {<<a>>}

(* Two levels of directories and one that takes all of a name, for the     *)
(* runs about names.                                                       *)
TreeFiles == {<<a>>, <<a, a>>, <<a, b>>, <<a, b, a>>, <<SYS, a>>}
TreeDirs == {<<a>>, <<b>>, <<a, b>>, <<b, a>>, <<a, b, b>>, <<SYS>>}

(* Writing can fail at any sector, at none, or after the last one.         *)
AnyFlush == FlushResult
GoodFlush == { r \in FlushResult : r.ok }

(* No disk answers: reads fail and the first write fails.                  *)
NoFlush == { [ok |-> FALSE, cut |-> 0] }
=============================================================================
