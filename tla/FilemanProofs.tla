--------------------------- MODULE FilemanProofs ----------------------------
(***************************************************************************)
(* Proofs about Fileman for every table, screen and set of names.          *)
(***************************************************************************)
EXTENDS Fileman, SeqLemmas

(***************************************************************************)
(* The file system below: Fileman's instance of Fs and the one the proofs  *)
(* of FsProofs are about are the same, definition by definition.           *)
(***************************************************************************)
FP == INSTANCE FsProofs

LEMMA SameNames ==
  /\ F!Path = FP!Path /\ F!FlushResult = FP!FlushResult /\ F!Slot = FP!Slot
  /\ \A p : F!Cut(p) = FP!Cut(p)
  /\ \A t, p : F!HasEntry(t, p) = FP!HasEntry(t, p)
  /\ \A t, p : F!Holding(t, p) = FP!Holding(t, p)
  /\ \A t : F!Free(t) = FP!Free(t) /\ F!Used(t) = FP!Used(t)
  /\ \A p : F!Reserved(p) = FP!Reserved(p) /\ F!Marker(p) = FP!Marker(p)
  /\ F!FreeEntry = FP!FreeEntry
<1>0. \A p : F!Cut(p) = FP!Cut(p)
  BY DEF F!Cut, FP!Cut
<1>1. F!Path = FP!Path /\ F!FlushResult = FP!FlushResult /\ F!Slot = FP!Slot
  BY <1>0 DEF F!Path, FP!Path, F!FlushResult, FP!FlushResult, F!Slot, FP!Slot
<1>2. \A t, p : F!Holding(t, p) = FP!Holding(t, p)
  BY <1>1 DEF F!Holding, FP!Holding
<1>3. \A t, p : F!HasEntry(t, p) = FP!HasEntry(t, p)
  BY <1>2 DEF F!HasEntry, FP!HasEntry
<1>4. \A t : F!Used(t) = FP!Used(t)
  BY <1>1 DEF F!Used, FP!Used
<1>5. \A t : F!Free(t) = FP!Free(t)
  BY <1>1, <1>4 DEF F!Free, FP!Free
<1>6. \A p : F!Reserved(p) = FP!Reserved(p) /\ F!Marker(p) = FP!Marker(p)
  BY DEF F!Reserved, FP!Reserved, F!Marker, FP!Marker
<1>7. F!FreeEntry = FP!FreeEntry
  BY DEF F!FreeEntry, FP!FreeEntry
<1> QED BY <1>0, <1>1, <1>2, <1>3, <1>4, <1>5, <1>6, <1>7

LEMMA SamePrefix ==
  /\ \A s, t : F!IsPrefix(s, t) = FP!IsPrefix(s, t)
  /\ \A s, t : F!IsStrictPrefix(s, t) = FP!IsStrictPrefix(s, t)
  /\ \A S : F!Min(S) = FP!Min(S)
  /\ \A s : F!Front(s) = FP!Front(s)
<1>1. \A s, t : F!IsPrefix(s, t) = FP!IsPrefix(s, t)
  BY DEF F!IsPrefix, FP!IsPrefix
<1>2. \A s, t : F!IsStrictPrefix(s, t) = FP!IsStrictPrefix(s, t)
  BY <1>1 DEF F!IsStrictPrefix, FP!IsStrictPrefix
<1>3. \A S : F!Min(S) = FP!Min(S)
  BY DEF F!Min, FP!Min
<1>4. \A s : F!Front(s) = FP!Front(s)
  BY DEF F!Front, FP!Front
<1> QED BY <1>1, <1>2, <1>3, <1>4

LEMMA FsParts ==
  /\ N \in Nat \ {0} /\ MaxLen \in Nat \ {0}
  /\ SYS \in Component /\ MARK \in Component /\ NONE \in Component
  /\ SYS # MARK /\ MARK # NONE
  /\ \/ \A c \in Component : Stub[c] = <<>>
     \/ \A c \in Component : Stub[c] = <<NONE>>
     \/ \A c \in Component : \E e \in Component \ {MARK} :
          Stub[c] = <<e>> /\ Stub[e] = <<e>> /\ (c # NONE => e # NONE)
  /\ NoData \in Contents
  /\ FilePaths \subseteq FP!Path
  /\ DirPaths \subseteq FP!Path
  /\ ReadResults \subseteq BOOLEAN
  /\ FlushResults \subseteq FP!FlushResult
  /\ ReadResults # {} /\ FlushResults # {}
  BY FsAssumption, SameNames

-----------------------------------------------------------------------------
(* What a slot or a dialog can hold, and the folders that can be entered.  *)
Place == F!Path \union {<<>>}

Folder == { d \in Place : Len(d) <= MaxLen }

Names == { Program[i] : i \in DOMAIN Program }

(***************************************************************************)
(* The rows that can be shown, and those that are true of the table t in   *)
(* the folder d: each is one component below it.                           *)
(***************************************************************************)
Shown == { p \in F!Path : F!Reserved(p) \/ Last(p) # NONE }

ShownFolder == { p \in Shown : Len(p) <= MaxLen }

RowSet ==
  [kind : {"file"}, target : Shown]
  \union [kind : {"dir"}, target : ShownFolder]
  \union [kind : {"parent"}, target : Folder]
  \union [kind : {"exec"}, target : Names]

IsBelow(r, d) == r.kind \in {"dir", "file"} => Len(r.target) = Len(d) + 1

TrueRow(t, d) ==
  { r \in RowSet :
      /\ r.kind = "file" => F!HasEntry(t, r.target) \/ F!Reserved(r.target)
      /\ IsBelow(r, d) }

LEMMA PathParts ==
  ASSUME NEW p \in F!Path
  PROVE  p \in Seq(Component) /\ Len(p) \in Nat /\ Len(p) > 0 /\ Len(p) <= MaxLen + 1
         /\ p # <<>>
<1>1. p \in FP!Path
  BY SameNames
<1> QED BY <1>1, FsParts, FP!PathNonEmpty, FP!PathLength

LEMMA PlaceParts ==
  ASSUME NEW d \in Place
  PROVE  d \in Seq(Component) /\ Len(d) \in Nat /\ Len(d) <= MaxLen + 1
<1>1. CASE d \in F!Path
  BY <1>1, PathParts
<1>2. CASE d = <<>>
  BY <1>2, EmptySeq, FsAssumption
<1> QED BY <1>1, <1>2 DEF Place

(* What is short enough fits.                                              *)
LEMMA ShortPath ==
  ASSUME NEW p \in Seq(Component), Len(p) > 0, Len(p) <= MaxLen
  PROVE  p \in F!Path
<1>1. FP!Cut(p) = p
  BY FsParts, FP!CutCases
<1>2. p # <<>>
  BY EmptySeq
<1> QED BY <1>1, <1>2, SameNames DEF FP!Path

(* There is room for two components.                                       *)
LEMMA Room ==
  MaxLen \in Nat /\ MaxLen > 1
  BY FsAssumption

LEMMA SystemName ==
  SYS \in Component
  BY FsAssumption

(* The beginning of a path is a path.                                      *)
LEMMA Beginning ==
  ASSUME NEW p \in Seq(Component), NEW n \in Nat, n > 0, n <= Len(p), n <= MaxLen
  PROVE  /\ SubSeq(p, 1, n) \in F!Path
         /\ Len(SubSeq(p, 1, n)) = n
         /\ \A i \in 1..n : SubSeq(p, 1, n)[i] = p[i]
<1>1. \A i \in 1..n : p[i] \in Component
  <2>1. \A i \in 1..n : i \in 1..Len(p)
    OBVIOUS
  <2> QED BY <2>1, ElementOfSeq
<1>2. 1 <= n /\ n - 1 + 1 = n
  OBVIOUS
<1>3. /\ SubSeq(p, 1, n) \in Seq(Component)
      /\ Len(SubSeq(p, 1, n)) = n
      /\ \A i \in 1..n : SubSeq(p, 1, n)[i] = p[1 + i - 1]
  BY <1>1, <1>2, SubSeqProperties
<1>4. \A i \in 1..n : 1 + i - 1 = i
  OBVIOUS
<1> DEFINE c == SubSeq(p, 1, n)
<1>5. c \in F!Path
  <2>1. c \in Seq(Component) /\ Len(c) > 0 /\ Len(c) <= MaxLen
    BY <1>3
  <2> HIDE DEF c
  <2> QED BY <2>1, ShortPath
<1> QED BY <1>3, <1>4, <1>5

-----------------------------------------------------------------------------
(***************************************************************************)
(* The loops of build_listing: what the recursive function of a pass is,   *)
(* by induction over the slots.                                            *)
(***************************************************************************)
LEMMA PassLoop ==
  ASSUME NEW t, NEW d, NEW kind, NEW list
  PROVE  \E f : /\ f[0] = list
                /\ \A i \in 1..N : f[i] = Extended(f[i - 1], d, kind, t[i].name)
                /\ Pass(t, d, kind, list) = f[N]
<1>0. N \in Nat
  BY FsAssumption
<1> DEFINE S == { n \in Nat : \E f :
                    f = [i \in 0..n |->
                          IF i = 0 THEN list ELSE Extended(f[i - 1], d, kind, t[i].name)] }
<1>1. 0 \in S
  <2> DEFINE f == [i \in 0..0 |-> list]
  <2>1. f = [i \in 0..0 |->
               IF i = 0 THEN list ELSE Extended(f[i - 1], d, kind, t[i].name)]
    <3>1. \A i \in 0..0 : i = 0
      OBVIOUS
    <3> QED BY <3>1, Zenon
  <2> QED BY <2>1
<1>2. ASSUME NEW n \in Nat, n \in S PROVE n + 1 \in S
  <2>1. PICK f : f = [i \in 0..n |->
                       IF i = 0 THEN list ELSE Extended(f[i - 1], d, kind, t[i].name)]
    BY <1>2
  <2> DEFINE e(x, i) == Extended(x, d, kind, t[i].name)
             g == [i \in 0..(n + 1) |-> IF i = n + 1 THEN e(f[n], n + 1) ELSE f[i]]
  <2>2. \A i \in 0..n : f[i] = IF i = 0 THEN list ELSE e(f[i - 1], i)
    BY <2>1, Zenon
  <2> HIDE DEF e
  <2>3. ASSUME NEW i \in 0..(n + 1)
        PROVE  g[i] = IF i = 0 THEN list ELSE e(g[i - 1], i)
    <3>1. CASE i = n + 1
      <4>1. i - 1 = n /\ i # 0 /\ n \in 0..(n + 1) /\ n # n + 1
        BY <3>1
      <4>2. g[i - 1] = f[n]
        BY <4>1
      <4>3. g[i] = e(f[n], n + 1)
        BY <3>1
      <4> QED BY <3>1, <4>1, <4>2, <4>3
    <3>2. CASE i # n + 1
      <4>1. i \in 0..n /\ (i # 0 => i - 1 \in 0..(n + 1) /\ i - 1 # n + 1)
        BY <3>2
      <4>2. g[i] = f[i] /\ (i # 0 => g[i - 1] = f[i - 1])
        BY <3>2, <4>1
      <4> QED BY <2>2, <4>1, <4>2
    <3> QED BY <3>1, <3>2
  <2>4. g = [i \in 0..(n + 1) |-> g[i]]
    OBVIOUS
  <2> HIDE DEF g
  <2>5. g = [i \in 0..(n + 1) |-> IF i = 0 THEN list ELSE e(g[i - 1], i)]
    BY <2>3, <2>4, Zenon
  <2> QED BY <2>5 DEF e
<1>3. N \in S
  <2> HIDE DEF S
  <2> QED BY <1>0, <1>1, <1>2, SetInduction
<1> DEFINE listed == CHOOSE f : f = [i \in 0..N |->
                       IF i = 0 THEN list ELSE Extended(f[i - 1], d, kind, t[i].name)]
<1>4. listed = [i \in 0..N |->
                  IF i = 0 THEN list ELSE Extended(listed[i - 1], d, kind, t[i].name)]
  <2>1. \E f : f = [i \in 0..N |->
                     IF i = 0 THEN list ELSE Extended(f[i - 1], d, kind, t[i].name)]
    BY <1>3
  <2> QED BY <2>1, Zenon
<1>5. Pass(t, d, kind, list) = listed[N]
  BY DEF Pass
<1> HIDE DEF listed
<1>6. \A i \in 0..N : listed[i] =
        IF i = 0 THEN list ELSE Extended(listed[i - 1], d, kind, t[i].name)
  BY <1>4, Zenon
<1>7. 0 \in 0..N /\ \A i \in 1..N : i \in 0..N /\ i # 0
  BY <1>0
<1>8. listed[0] = list
  BY <1>6, <1>7, Zenon
<1>9. \A i \in 1..N : listed[i] = Extended(listed[i - 1], d, kind, t[i].name)
  BY <1>6, <1>7, Zenon
<1>10. Pass(t, d, kind, list) = listed[N]
  BY <1>5
<1> QED BY <1>8, <1>9, <1>10

(* The names of a table.                                                   *)
Named(t) == \A i \in 1..N : t[i].name \in Place

(* What every slot preserves of the list, the pass preserves.              *)
SlotsKeep(t, d, kind, R) ==
  \A i \in 1..N : \A x \in Seq(R) : Extended(x, d, kind, t[i].name) \in Seq(R)

LEMMA PassKeeps ==
  ASSUME NEW t, NEW d, NEW kind, NEW R, NEW list \in Seq(R), SlotsKeep(t, d, kind, R)
  PROVE  Pass(t, d, kind, list) \in Seq(R)
<1>1. PICK f : /\ f[0] = list
               /\ \A i \in 1..N : f[i] = Extended(f[i - 1], d, kind, t[i].name)
               /\ Pass(t, d, kind, list) = f[N]
  BY PassLoop
<1> DEFINE S == { n \in Nat : n <= N => f[n] \in Seq(R) }
<1>2. 0 \in S
  BY <1>1
<1>3. ASSUME NEW n \in Nat, n \in S PROVE n + 1 \in S
  <2> SUFFICES ASSUME n + 1 <= N PROVE f[n + 1] \in Seq(R)
    OBVIOUS
  <2>1. n + 1 \in 1..N /\ n <= N /\ n + 1 - 1 = n
    BY FsAssumption
  <2>2. f[n + 1] = Extended(f[n], d, kind, t[n + 1].name)
    BY <1>1, <2>1
  <2>3. f[n] \in Seq(R)
    BY <1>3, <2>1
  <2> QED BY <2>1, <2>2, <2>3, Zenon DEF SlotsKeep
<1> HIDE DEF S
<1>4. N \in S
  BY <1>2, <1>3, SetInduction, FsAssumption
<1> QED BY <1>1, <1>4, FsAssumption DEF S

(* The child a path below d is listed as.                                  *)
LEMMA ChildOfFolder ==
  ASSUME NEW d \in Place, NEW p \in Place, IsStrictPrefix(d, p)
  PROVE  /\ SubSeq(p, 1, Len(d) + 1) \in F!Path
         /\ Len(SubSeq(p, 1, Len(d) + 1)) = Len(d) + 1
         /\ p # SubSeq(p, 1, Len(d) + 1) => Len(SubSeq(p, 1, Len(d) + 1)) <= MaxLen
<1> DEFINE n == Len(d) + 1
           c == SubSeq(p, 1, n)
<1>1. /\ d \in Seq(Component) /\ Len(d) \in Nat
      /\ p \in Seq(Component) /\ Len(p) \in Nat /\ Len(p) <= MaxLen + 1
      /\ MaxLen \in Nat
  BY PlaceParts, FsAssumption
<1>2. Len(d) < Len(p)
  <2>1. Len(d) <= Len(p) /\ d # p /\ \A i \in 1..Len(d) : d[i] = p[i]
    BY <1>1, PrefixElements DEF IsStrictPrefix
  <2>2. Len(d) # Len(p)
    <3> SUFFICES ASSUME Len(d) = Len(p) PROVE FALSE
      OBVIOUS
    <3> QED BY <1>1, <2>1, SeqEqual
  <2> QED BY <1>1, <2>1, <2>2
<1>3. n \in Nat /\ n > 0 /\ n <= Len(p)
  BY <1>1, <1>2
<1> HIDE DEF n
<1>4. CASE n = Len(p)
  <2>1. SubSeq(p, 1, Len(p)) = p
    BY <1>1, FsParts, FP!FirstElements, SeqEqual
  <2>2. p \in F!Path
    BY <1>1, <1>3, EmptySeq DEF Place
  <2> QED BY <1>4, <2>1, <2>2 DEF n
<1>5. CASE n # Len(p)
  <2>1. n <= MaxLen
    BY <1>1, <1>3, <1>5
  <2> QED BY <1>1, <1>3, <2>1, Beginning DEF n
<1> QED BY <1>4, <1>5

(* A slot adds a row that is true of the table.                            *)
LEMMA ExtendedRow ==
  ASSUME NEW t, Named(t), NEW d \in Place, NEW kind \in {"dir", "file"},
         NEW i \in 1..N, NEW list \in Seq(TrueRow(t, d))
  PROVE  Extended(list, d, kind, t[i].name) \in Seq(TrueRow(t, d))
<1> DEFINE p == t[i].name
           child == SubSeq(p, 1, Len(d) + 1)
           listed == /\ IsStrictPrefix(d, p)
                     /\ Last(child) # NONE
                     /\ IF kind = "dir" THEN p # child ELSE p = child /\ Last(p) # MARK
                     /\ \A k \in DOMAIN list : list[k].target # child
<1>1. CASE listed
  <2>1. /\ child \in F!Path /\ Len(child) = Len(d) + 1
        /\ p # child => Len(child) <= MaxLen
    <3>1. p \in Place
      BY DEF Named
    <3> HIDE DEF p
    <3> QED BY <1>1, <3>1, ChildOfFolder
  <2>2. kind = "file" => F!HasEntry(t, child)
    <3>1. kind = "file" => t[i].name = child
      BY <1>1
    <3> HIDE DEF child
    <3> QED BY <3>1 DEF F!HasEntry, F!Holding, F!Slot
  <2>3. child \in Shown /\ (kind = "dir" => child \in ShownFolder)
    BY <1>1, <2>1 DEF Shown, ShownFolder
  <2>4. Extended(list, d, kind, p) = Append(list, Row(kind, child))
    BY <1>1 DEF Extended
  <2> HIDE DEF child
  <2>5. Row(kind, child) \in TrueRow(t, d)
    <3>1. Row(kind, child) \in RowSet
      BY <2>3 DEF Row, RowSet
    <3>2. Row(kind, child).kind = kind /\ Row(kind, child).target = child
      BY DEF Row
    <3> QED BY <2>1, <2>2, <3>1, <3>2 DEF TrueRow, IsBelow
  <2> DEFINE R == TrueRow(t, d)
             r == Row(kind, child)
  <2>6. list \in Seq(R) /\ r \in R
    BY <2>5
  <2> HIDE DEF R, r
  <2>7. Append(list, r) \in Seq(R)
    BY <2>6, AppendProperties
  <2> QED BY <2>4, <2>7 DEF R, r
<1>2. CASE ~listed
  <2>1. Extended(list, d, kind, p) = list
    BY <1>2 DEF Extended
  <2> QED BY <2>1
<1> QED BY <1>1, <1>2

LEMMA PassRows ==
  ASSUME NEW t, Named(t), NEW d \in Place, NEW kind \in {"dir", "file"},
         NEW list \in Seq(TrueRow(t, d))
  PROVE  Pass(t, d, kind, list) \in Seq(TrueRow(t, d))
<1>1. SlotsKeep(t, d, kind, TrueRow(t, d))
  BY ExtendedRow DEF SlotsKeep
<1> QED BY <1>1, PassKeeps

(* A row about something that is no file is true of every table.           *)
LEMMA OtherRow ==
  ASSUME NEW t, NEW d, NEW r \in RowSet, r.kind # "file", IsBelow(r, d)
  PROVE  r \in TrueRow(t, d)
  BY DEF TrueRow

LEMMA ListingRows ==
  ASSUME NEW t, Named(t), NEW d \in Place
  PROVE  Listing(t, d) \in Seq(TrueRow(t, d))
<1> DEFINE R == TrueRow(t, d)
<1>1. CASE d = <<SYS>>
  <2> DEFINE row(i) == Row("file", <<SYS, SystemFile[i]>>)
             list == [i \in DOMAIN SystemFile |-> row(i)]
  <2>1. SystemFile \in Seq(Component) /\ Len(SystemFile) \in Nat
        /\ DOMAIN SystemFile = 1..Len(SystemFile)
    BY ListAssumption, LenProperties
  <2>2. ASSUME NEW i \in 1..Len(SystemFile) PROVE row(i) \in R
    <3>1. SystemFile[i] \in Component
      BY <2>1, ElementOfSeq
    <3> DEFINE p == <<SYS, SystemFile[i]>>
    <3>2. p \in Seq(Component) /\ Len(p) = 2 /\ p[1] = SYS
      BY <3>1, SystemName
    <3>4. Len(p) = Len(d) + 1
      BY <1>1, <3>2
    <3> HIDE DEF p
    <3>7. Len(p) > 0 /\ Len(p) <= MaxLen
      BY <3>2, Room
    <3>3. p \in F!Path /\ F!Reserved(p)
      BY <3>2, <3>7, ShortPath DEF F!Reserved
    <3>5. Row("file", p) \in RowSet /\ Row("file", p).target = p
      BY <3>3 DEF Row, RowSet, Shown
    <3>6. Row("file", p) \in TrueRow(t, d)
      BY <3>3, <3>4, <3>5 DEF TrueRow, IsBelow
    <3> QED BY <3>6 DEF p
  <2> HIDE DEF row, R
  <2>3. list \in Seq(R)
    BY <2>1, <2>2, IsASeq
  <2>4. Listing(t, d) = list
    BY <1>1 DEF Listing, row
  <2> QED BY <2>3, <2>4 DEF R
<1>2. CASE d # <<SYS>>
  <2> DEFINE system == Row("dir", <<SYS>>)
             first == IF d = <<>> THEN <<system>> ELSE <<>>
  <2>1. <<SYS>> \in ShownFolder /\ Len(<<SYS>>) = 1
    <3> DEFINE p == <<SYS>>
    <3>1. p \in Seq(Component) /\ Len(p) = 1 /\ p[1] = SYS
      BY SystemName
    <3> HIDE DEF p
    <3>4. Len(p) > 0 /\ Len(p) <= MaxLen
      BY <3>1, Room
    <3>2. p \in F!Path
      BY <3>1, <3>4, ShortPath
    <3>3. p \in ShownFolder /\ Len(p) = 1
      BY <3>1, <3>2, Room DEF F!Reserved, Shown, ShownFolder
    <3> QED BY <3>3 DEF p
  <2>2. d = <<>> => system \in R
    <3> SUFFICES ASSUME d = <<>> PROVE system \in R
      OBVIOUS
    <3>1. system \in RowSet /\ system.kind # "file" /\ system.target = <<SYS>>
      BY <2>1 DEF Row, RowSet
    <3>2. IsBelow(system, d)
      BY <2>1, <3>1 DEF IsBelow
    <3> QED BY <3>1, <3>2, OtherRow
  <2>3. Listing(t, d) = Pass(t, d, "file", Pass(t, d, "dir", first))
    BY <1>2 DEF Listing
  <2> HIDE DEF system, R
  <2>4. first \in Seq(R)
    <3>1. d = <<>> => <<system>> \in Seq(R)
      BY <2>2
    <3>2. <<>> \in Seq(R)
      BY EmptySeq
    <3> QED BY <3>1, <3>2
  <2> HIDE DEF first
  <2>5. first \in Seq(TrueRow(t, d))
    BY <2>4 DEF R
  <2>6. Pass(t, d, "dir", first) \in Seq(TrueRow(t, d))
    BY <2>5, PassRows
  <2>7. Pass(t, d, "file", Pass(t, d, "dir", first)) \in Seq(TrueRow(t, d))
    BY <2>6, PassRows
  <2> QED BY <2>3, <2>7
<1> QED BY <1>1, <1>2

LEMMA ParentFolder ==
  ASSUME NEW d \in Folder
  PROVE  Parent(d) \in Folder
<1>0. d \in Place /\ Len(d) <= MaxLen
  BY DEF Folder
<1>1. CASE d = <<>>
  BY <1>1 DEF Parent
<1>2. CASE d # <<>>
  <2>1. d \in Seq(Component) /\ Len(d) \in Nat
    BY <1>0, PlaceParts
  <2> DEFINE n == Len(d) - 1
  <2>2. Parent(d) = SubSeq(d, 1, n)
    BY <1>2 DEF Parent, Front
  <2>3. Len(d) > 0
    BY <1>2, <2>1
  <2>4. n \in Nat /\ n <= Len(d) /\ n <= MaxLen
    BY <1>0, <2>1, <2>3, FsAssumption
  <2> HIDE DEF n
  <2>5. CASE n = 0
    <3>1. SubSeq(d, 1, n) = <<>>
      BY <2>1, <2>5, SubSeqEmpty
    <3>2. <<>> \in Place /\ Len(<<>>) = 0 /\ 0 <= MaxLen
      BY FsAssumption DEF Place
    <3>3. <<>> \in Folder
      BY <3>2 DEF Folder
    <3> QED BY <2>2, <3>1, <3>3
  <2>6. CASE n > 0
    <3>1. SubSeq(d, 1, n) \in F!Path /\ Len(SubSeq(d, 1, n)) = n
      BY <2>1, <2>4, <2>6, Beginning, FsAssumption
    <3> DEFINE c == SubSeq(d, 1, n)
    <3>2. c \in F!Path /\ Len(c) <= MaxLen
      BY <2>4, <3>1
    <3> HIDE DEF c
    <3>3. c \in Folder
      BY <3>2 DEF Folder, Place
    <3> QED BY <2>2, <3>3 DEF c
  <2> QED BY <2>4, <2>5, <2>6
<1> QED BY <1>1, <1>2

(***************************************************************************)
(* What is shown of a folder is a list of rows that are true of the table. *)
(***************************************************************************)
LEMMA RowsAreTrue ==
  ASSUME NEW t, Named(t), NEW d \in Folder
  PROVE  RowsOf(t, d) \in Seq(TrueRow(t, d))
<1> DEFINE R == TrueRow(t, d)
           back == Row("parent", Parent(d))
           up == IF d = <<>> THEN <<>> ELSE <<back>>
           programs == [i \in DOMAIN Program |-> Row("exec", Program[i])]
           last == IF d = <<>> THEN programs ELSE <<>>
<1>0. <<>> \in Seq(R) /\ d \in Place
  BY EmptySeq DEF Folder
<1>1. up \in Seq(R)
  <2>1. back \in R
    <3>1. back \in RowSet /\ back.kind = "parent"
      BY ParentFolder DEF Row, RowSet
    <3> QED BY <3>1, OtherRow DEF IsBelow
  <2> HIDE DEF back, R
  <2>2. <<back>> \in Seq(R)
    BY <2>1
  <2> QED BY <1>0, <2>2
<1>2. programs \in Seq(R)
  <2>1. Program \in Seq(Names) /\ DOMAIN Program = 1..Len(Program) /\ Len(Program) \in Nat
    BY ListAssumption, LenProperties DEF Names
  <2>2. ASSUME NEW i \in 1..Len(Program) PROVE Row("exec", Program[i]) \in R
    <3>1. Program[i] \in Names
      BY <2>1 DEF Names
    <3>2. Row("exec", Program[i]) \in RowSet /\ Row("exec", Program[i]).kind = "exec"
      BY <3>1 DEF Row, RowSet
    <3> QED BY <3>2, OtherRow DEF IsBelow
  <2> HIDE DEF R
  <2> QED BY <2>1, <2>2, IsASeq
<1>3. last \in Seq(R)
  BY <1>0, <1>2
<1>4. RowsOf(t, d) = up \o Listing(t, d) \o last
  BY DEF RowsOf
<1>5. Listing(t, d) \in Seq(R)
  BY <1>0, ListingRows
<1> HIDE DEF up, last, R
<1>6. up \o Listing(t, d) \o last \in Seq(R)
  BY <1>1, <1>3, <1>5, ConcatProperties
<1> QED BY <1>4, <1>6 DEF R

-----------------------------------------------------------------------------
LEMMA SameFlush ==
  /\ \A s, b, r : F!Flush(s, b, r) = FP!Flush(s, b, r)
  /\ \A s, t : F!Commit(s, t) = FP!Commit(s, t)
  /\ \A s, allowed : F!TryEnable(s, allowed) = FP!TryEnable(s, allowed)
<1>1. \A t, image, k : F!CutImage(t, image, k) = FP!CutImage(t, image, k)
  BY SameNames DEF F!CutImage, FP!CutImage
<1>2. \A r : F!CutShort(r) = FP!CutShort(r)
  BY DEF F!CutShort, FP!CutShort
<1>3. \A s, b, r : F!Flush(s, b, r) = FP!Flush(s, b, r)
  BY <1>1, <1>2 DEF F!Flush, FP!Flush
<1>4. \A s, t : F!Commit(s, t) = FP!Commit(s, t)
  BY <1>3 DEF F!Commit, FP!Commit
<1>5. \A s, allowed : F!Unloaded(s, allowed) = FP!Unloaded(s, allowed)
  BY <1>3 DEF F!Unloaded, FP!Unloaded
<1>6. \A s : F!Loads(s) = FP!Loads(s) /\ F!Load(s) = FP!Load(s)
  BY DEF F!Loads, FP!Loads, F!Load, FP!Load
<1>7. ASSUME NEW s, NEW allowed PROVE F!TryEnable(s, allowed) = FP!TryEnable(s, allowed)
  <2> DEFINE p == [s EXCEPT !.probeDone = TRUE]
             result(ld, un, values) ==
               IF s.enabled \/ (s.probeDone /\ ~allowed) THEN {s}
               ELSE UNION { IF loaded THEN {[ld EXCEPT !.enabled = TRUE]} ELSE un :
                              loaded \in values }
  <2>1. F!TryEnable(s, allowed) = result(F!Load(p), F!Unloaded(p, allowed), F!Loads(s))
    BY Zenon DEF F!TryEnable
  <2>2. FP!TryEnable(s, allowed) = result(FP!Load(p), FP!Unloaded(p, allowed), FP!Loads(s))
    BY Zenon DEF FP!TryEnable
  <2> HIDE DEF p, result
  <2>3. F!Load(p) = FP!Load(p) /\ F!Loads(s) = FP!Loads(s)
        /\ F!Unloaded(p, allowed) = FP!Unloaded(p, allowed)
    BY <1>5, <1>6, Zenon
  <2> QED BY <2>1, <2>2, <2>3, Zenon
<1> QED BY <1>3, <1>4, <1>7, Zenon

LEMMA SameFileResults ==
  /\ \A s, p, c : F!WriteResult(s, p, c) = FP!WriteResult(s, p, c)
  /\ \A s, p : F!DeleteResult(s, p) = FP!DeleteResult(s, p)
  /\ \A s, p, q : F!RenameResult(s, p, q) = FP!RenameResult(s, p, q)
<1>1. \A t, p, c : F!Written(t, p, c) = FP!Written(t, p, c)
  BY SameNames, SamePrefix DEF F!Written, FP!Written
<1>2. \A t, p : F!Deleted(t, p) = FP!Deleted(t, p)
  BY SameNames, SamePrefix DEF F!Deleted, FP!Deleted
<1>3. \A s, p, c : F!WriteResult(s, p, c) = FP!WriteResult(s, p, c)
  BY <1>1, SameNames, SameFlush DEF F!WriteResult, FP!WriteResult
<1>4. \A s, p : F!DeleteResult(s, p) = FP!DeleteResult(s, p)
  BY <1>2, SameNames, SameFlush DEF F!DeleteResult, FP!DeleteResult
<1>5. \A s, p, q : F!RenameResult(s, p, q) = FP!RenameResult(s, p, q)
  BY SameNames, SamePrefix, SameFlush DEF F!RenameResult, FP!RenameResult
<1> QED BY <1>3, <1>4, <1>5

LEMMA SameDirResults ==
  /\ \A s, d : F!CreateDirResult(s, d) = FP!CreateDirResult(s, d)
  /\ \A s, d : F!DeleteDirResult(s, d) = FP!DeleteDirResult(s, d)
  /\ \A s, p, q : F!RenameDirResult(s, p, q) = FP!RenameDirResult(s, p, q)
<1>1. \A t, p : F!Deleted(t, p) = FP!Deleted(t, p)
  BY SameNames, SamePrefix DEF F!Deleted, FP!Deleted
<1>a. \A t, d : F!HasBelow(t, d) = FP!HasBelow(t, d)
  BY SameNames, SamePrefix DEF F!HasBelow, FP!HasBelow
<1>b. \A d : F!Fills(d) = FP!Fills(d)
  BY SameNames DEF F!Fills, FP!Fills
<1>2. \A t, d : F!HasChild(t, d) = FP!HasChild(t, d)
  BY <1>a, <1>b, SameNames DEF F!HasChild, FP!HasChild
<1>3. \A t, d : F!DirectoryExists(t, d) = FP!DirectoryExists(t, d)
  BY <1>2, SameNames DEF F!DirectoryExists, FP!DirectoryExists
<1>4. \A t, d : F!ParentExists(t, d) = FP!ParentExists(t, d)
  BY <1>3, SamePrefix DEF F!ParentExists, FP!ParentExists
<1>5. \A p, old, new : F!Renamed(p, old, new) = FP!Renamed(p, old, new)
  BY DEF F!Renamed, FP!Renamed
<1>6. \A p, old, new : F!Moves(p, old, new) = FP!Moves(p, old, new)
  BY <1>5, <1>b, SameNames, SamePrefix DEF F!Moves, FP!Moves
<1>7. \A t, old, new : F!MovedTree(t, old, new) = FP!MovedTree(t, old, new)
  BY <1>5, <1>6, SameNames DEF F!MovedTree, FP!MovedTree
<1>8. \A s, d : F!CreateDirResult(s, d) = FP!CreateDirResult(s, d)
  BY <1>3, <1>4, SameNames, SamePrefix, SameFlush DEF F!CreateDirResult, FP!CreateDirResult
<1>9. \A s, d : F!DeleteDirResult(s, d) = FP!DeleteDirResult(s, d)
  BY <1>1, SameNames, SamePrefix, SameFlush DEF F!DeleteDirResult, FP!DeleteDirResult
<1>10. \A s, p, q : F!RenameDirResult(s, p, q) = FP!RenameDirResult(s, p, q)
  BY <1>3, <1>4, <1>6, <1>7, SameNames, SameFlush DEF F!RenameDirResult, FP!RenameDirResult
<1> QED BY <1>8, <1>9, <1>10

(* Whether the disk is used is settled: a refresh does not probe again.    *)
Settled(s) == s.enabled \/ s.probeDone

(* What an operation makes of the state its probe has left.                *)
Keeps(s, u) == FP!Good(u) /\ (Settled(s) => Settled(u))

(* The probe, and each operation, leave a good state.                      *)
LEMMA Probed ==
  ASSUME NEW s, FP!Good(s), NEW allowed \in BOOLEAN, NEW u \in F!TryEnable(s, allowed)
  PROVE  /\ FP!Good(u) /\ Settled(u)
         /\ u.entries = s.entries \/ (s.disk.magic /\ ~s.enabled)
<1>1. u \in FP!TryEnable(s, allowed) /\ s \in FP!State
  BY SameFlush DEF FP!Good
<1>2. FP!Good(u)
  BY <1>1, FsParts, FP!TryEnableGood
<1>3. /\ u.enabled \/ u.probeDone
      /\ u.entries = s.entries \/ (s.disk.magic /\ ~s.enabled)
  BY <1>1, FsParts, FP!ProbeFields
<1> QED BY <1>2, <1>3 DEF Settled

LEMMA ProbedAgain ==
  ASSUME NEW s, Settled(s)
  PROVE  F!TryEnable(s, FALSE) = {s}
<1>1. s.enabled \/ s.probeDone
  BY DEF Settled
<1>2. FP!TryEnable(s, FALSE) = {s}
  BY <1>1, FsParts, FP!ProbeAgain
<1> QED BY <1>2, SameFlush

LEMMA ChangesKeep ==
  ASSUME NEW s, FP!Good(s), NEW u, FP!Changes(s, u)
  PROVE  Keeps(s, u)
<1>1. FP!Good(u)
  BY FsParts, FP!ChangesGood
<1>2. u.enabled = s.enabled /\ u.probeDone = s.probeDone
  <2>1. s \in FP!State
    BY DEF FP!Good
  <2> QED BY <2>1, FsParts, FP!ChangesFields
<1> QED BY <1>1, <1>2 DEF Keeps, Settled

LEMMA GoodTable ==
  ASSUME NEW s, FP!Good(s)
  PROVE  s.entries \in FP!Table /\ Named(s.entries)
<1>1. s.entries \in FP!Table
  BY DEF FP!Good, FP!State
<1>2. Named(s.entries)
  BY <1>1, SameNames DEF FP!Table, FP!Entry, FP!Slot, Named, Place
<1> QED BY <1>1, <1>2

LEMMA WriteKeeps ==
  ASSUME NEW s, FP!Good(s), NEW p \in F!Path, NEW c \in Contents,
         NEW u \in F!WriteResult(s, p, c)
  PROVE  Keeps(s, u)
<1>1. p \in FP!Path /\ u \in FP!WriteResult(s, p, c) /\ s.entries \in FP!Table
  BY SameNames, SameFileResults, GoodTable
<1>2. FP!Changes(s, u)
  BY <1>1, FsParts, FP!WriteChanges
<1> QED BY <1>2, ChangesKeep

LEMMA DeleteKeeps ==
  ASSUME NEW s, FP!Good(s), NEW p, NEW u \in F!DeleteResult(s, p)
  PROVE  Keeps(s, u)
<1>1. u \in FP!DeleteResult(s, p) /\ s.entries \in FP!Table
  BY SameFileResults, GoodTable
<1>2. FP!Changes(s, u)
  BY <1>1, FsParts, FP!DeleteChanges
<1> QED BY <1>2, ChangesKeep

LEMMA RenameKeeps ==
  ASSUME NEW s, FP!Good(s), NEW p \in F!Path, NEW q \in F!Path,
         NEW u \in F!RenameResult(s, p, q)
  PROVE  Keeps(s, u)
<1>1. /\ p \in FP!Path /\ q \in FP!Path
      /\ u \in FP!RenameResult(s, p, q) /\ s.entries \in FP!Table
  BY SameNames, SameFileResults, GoodTable
<1>2. FP!Changes(s, u)
  BY <1>1, FsParts, FP!RenameChanges
<1> QED BY <1>2, ChangesKeep

LEMMA CreateDirKeeps ==
  ASSUME NEW s, FP!Good(s), NEW d \in F!Path, NEW u \in F!CreateDirResult(s, d)
  PROVE  Keeps(s, u)
<1>1. d \in FP!Path /\ u \in FP!CreateDirResult(s, d) /\ s.entries \in FP!Table
  BY SameNames, SameDirResults, GoodTable
<1>2. FP!Changes(s, u)
  BY <1>1, FsParts, FP!CreateDirChanges
<1> QED BY <1>2, ChangesKeep

LEMMA DeleteDirKeeps ==
  ASSUME NEW s, FP!Good(s), NEW d, NEW u \in F!DeleteDirResult(s, d)
  PROVE  Keeps(s, u)
<1>1. u \in FP!DeleteDirResult(s, d) /\ s.entries \in FP!Table
  BY SameDirResults, GoodTable
<1>2. FP!Changes(s, u)
  BY <1>1, FsParts, FP!DeleteDirChanges
<1> QED BY <1>2, ChangesKeep

LEMMA RenameDirKeeps ==
  ASSUME NEW s, FP!Good(s), NEW p \in F!Path, NEW q \in F!Path,
         NEW u \in F!RenameDirResult(s, p, q)
  PROVE  Keeps(s, u)
<1>1. /\ p \in FP!Path /\ q \in FP!Path
      /\ u \in FP!RenameDirResult(s, p, q) /\ s.entries \in FP!Table
  BY SameNames, SameDirResults, GoodTable
<1>2. FP!Changes(s, u)
  BY <1>1, FsParts, FP!RenameDirChanges
<1> QED BY <1>2, ChangesKeep
-----------------------------------------------------------------------------
(***************************************************************************)
(* The worlds the functions of file_manager.c go through.                  *)
(***************************************************************************)
PanelSet ==
  { NoPanel, [kind |-> "about"] }
  \union [kind : {"menu"}, item : Nat]
  \union [kind : {"new", "folder"}, input : Typed]
  \union [kind : {"delete"}, row : RowSet, yes : BOOLEAN]
  \union [kind : {"rename"}, row : RowSet, input : Place]

Screen ==
  [running : BOOLEAN, path : Folder, rows : Seq(RowSet),
   selected : Nat \ {0}, top : Nat \ {0},
   prev : BOOLEAN, title : {0, 1}, panel : PanelSet]

Request == [program : Seq(Names \union {EDITOR, PROGMAN}), file : Place]

World == [fs : FP!State, fm : Screen, sent : Request, behind : BOOLEAN]

(* The selection is on a row, which is on the screen.                      *)
OnScreen(f) ==
  IF f.rows = <<>> THEN f.selected = 1 /\ f.top = 1
  ELSE /\ f.selected \in DOMAIN f.rows
       /\ f.top <= f.selected /\ f.selected < f.top + Visible

(***************************************************************************)
(* A menu shows one of its items; a dialog is about a row that may be      *)
(* changed, and the dialog of a rename about the one that is selected; its *)
(* input begins with the name of that row.                                 *)
(***************************************************************************)
Fits(f) ==
  /\ f.panel.kind = "menu" => f.panel.item \in Items(f.title)
  /\ f.panel.kind \in {"delete", "rename"} =>
       f.panel.row.kind \in {"dir", "file"} /\ ~F!Reserved(f.panel.row.target)
  /\ f.panel.kind = "rename" =>
       /\ f.rows # <<>> /\ f.panel.row = f.rows[f.selected]
       /\ f.panel.input \in Typed \union {<<Last(f.panel.row.target)>>}

Sound(w) == w \in World /\ FP!Good(w.fs) /\ OnScreen(w.fm) /\ Fits(w.fm)

(* The rows are below the folder they are shown for.                       *)
RowsBelow(rows, d) == \A i \in DOMAIN rows : IsBelow(rows[i], d)

Current(w) ==
  /\ RowsBelow(w.fm.rows, w.fm.path)
  /\ ~w.behind => w.fm.rows = RowsOf(w.fs.entries, w.fm.path)

Valid(w) == Sound(w) /\ Current(w)

(***************************************************************************)
(* What a file manager asks the editor for is in the table or in EAGLEOS,  *)
(* or in a row that has fallen behind.                                     *)
(***************************************************************************)
Asks(w, x) ==
  x.sent.file # <<>> =>
    \/ F!HasEntry(x.fs.entries, x.sent.file)
    \/ F!Reserved(x.sent.file)
    \/ w.behind /\ Row("file", x.sent.file) \in { w.fm.rows[i] : i \in DOMAIN w.fm.rows }

LEMMA ScreenPanel ==
  ASSUME NEW f \in Screen, NEW p \in PanelSet
  PROVE  LET g == [f EXCEPT !.panel = p] IN
         /\ g \in Screen /\ g.panel = p
         /\ g.rows = f.rows /\ g.selected = f.selected /\ g.top = f.top
         /\ g.path = f.path /\ g.title = f.title /\ g.running = f.running
<1> DEFINE g == [f EXCEPT !.panel = p]
<1>1. g \in Screen
  BY DEF Screen
<1>2. /\ g.panel = p
      /\ g.rows = f.rows /\ g.selected = f.selected /\ g.top = f.top
      /\ g.path = f.path /\ g.title = f.title /\ g.running = f.running
  BY DEF Screen
<1> QED BY <1>1, <1>2

LEMMA WorldScreen ==
  ASSUME NEW w \in World, NEW g \in Screen
  PROVE  LET x == [w EXCEPT !.fm = g] IN
         /\ x \in World /\ x.fm = g
         /\ x.fs = w.fs /\ x.sent = w.sent /\ x.behind = w.behind
<1> DEFINE x == [w EXCEPT !.fm = g]
<1>1. x \in World
  BY DEF World
<1>2. x.fm = g /\ x.fs = w.fs /\ x.sent = w.sent /\ x.behind = w.behind
  BY DEF World
<1> QED BY <1>1, <1>2

(* Another panel.                                                          *)
LEMMA Paneled ==
  ASSUME NEW w, Sound(w), NEW p \in PanelSet, Fits([w.fm EXCEPT !.panel = p])
  PROVE  LET x == [w EXCEPT !.fm.panel = p] IN
         /\ Sound(x) /\ (Current(w) => Current(x))
         /\ x.fs = w.fs /\ x.sent = w.sent /\ x.behind = w.behind
         /\ x.fm = [w.fm EXCEPT !.panel = p]
         /\ x.fm.panel = p /\ x.fm.path = w.fm.path /\ x.fm.rows = w.fm.rows
         /\ x.fm.selected = w.fm.selected /\ x.fm.title = w.fm.title
         /\ x.fm.running = w.fm.running
<1> DEFINE g == [w.fm EXCEPT !.panel = p]
           x == [w EXCEPT !.fm = g]
<1>1. w \in World /\ w.fm \in Screen
  BY DEF Sound, World
<1>2. [w EXCEPT !.fm.panel = p] = x
  BY <1>1 DEF World
<1>3. /\ g \in Screen /\ g.panel = p
      /\ g.rows = w.fm.rows /\ g.selected = w.fm.selected /\ g.top = w.fm.top
      /\ g.path = w.fm.path /\ g.title = w.fm.title /\ g.running = w.fm.running
  BY <1>1, ScreenPanel, ZenonT(60)
<1>4. Fits(g)
  OBVIOUS
<1> HIDE DEF g
<1>5. /\ x \in World /\ x.fm = g
      /\ x.fs = w.fs /\ x.sent = w.sent /\ x.behind = w.behind
  BY <1>1, <1>3, WorldScreen, ZenonT(60)
<1> HIDE DEF x
<1>6. Sound(x)
  BY <1>3, <1>4, <1>5 DEF Sound, OnScreen
<1>7. Current(w) => Current(x)
  BY <1>3, <1>5 DEF Current
<1>8. x.fm = [w.fm EXCEPT !.panel = p]
  BY <1>5 DEF g
<1> QED BY <1>2, <1>3, <1>5, <1>6, <1>7, <1>8
LEMMA ScreenTop ==
  ASSUME NEW f \in Screen, NEW n \in Nat \ {0}
  PROVE  LET g == [f EXCEPT !.top = n] IN
         /\ g \in Screen /\ g.top = n
         /\ g.rows = f.rows /\ g.selected = f.selected /\ g.panel = f.panel
         /\ g.path = f.path /\ g.title = f.title /\ g.running = f.running
<1> DEFINE g == [f EXCEPT !.top = n]
<1>1. g \in Screen
  BY DEF Screen
<1>2. /\ g.top = n
      /\ g.rows = f.rows /\ g.selected = f.selected /\ g.panel = f.panel
      /\ g.path = f.path /\ g.title = f.title /\ g.running = f.running
  BY DEF Screen
<1> QED BY <1>1, <1>2

LEMMA ScreenSelected ==
  ASSUME NEW f \in Screen, NEW n \in Nat \ {0}
  PROVE  LET g == [f EXCEPT !.selected = n] IN
         /\ g \in Screen /\ g.selected = n
         /\ g.rows = f.rows /\ g.top = f.top /\ g.panel = f.panel
         /\ g.path = f.path /\ g.title = f.title /\ g.running = f.running
<1> DEFINE g == [f EXCEPT !.selected = n]
<1>1. g \in Screen
  BY DEF Screen
<1>2. /\ g.selected = n
      /\ g.rows = f.rows /\ g.top = f.top /\ g.panel = f.panel
      /\ g.path = f.path /\ g.title = f.title /\ g.running = f.running
  BY DEF Screen
<1> QED BY <1>1, <1>2

LEMMA ScreenRows ==
  ASSUME NEW f \in Screen, NEW s \in Seq(RowSet)
  PROVE  LET g == [f EXCEPT !.rows = s] IN
         /\ g \in Screen /\ g.rows = s
         /\ g.selected = f.selected /\ g.top = f.top /\ g.panel = f.panel
         /\ g.path = f.path /\ g.title = f.title /\ g.running = f.running
<1> DEFINE g == [f EXCEPT !.rows = s]
<1>1. g \in Screen
  BY DEF Screen
<1>2. /\ g.rows = s
      /\ g.selected = f.selected /\ g.top = f.top /\ g.panel = f.panel
      /\ g.path = f.path /\ g.title = f.title /\ g.running = f.running
  BY DEF Screen
<1> QED BY <1>1, <1>2

(* ensure_selection_visible shows a selection that is on a row.            *)
LEMMA ScrolledScreen ==
  ASSUME NEW f \in Screen,
         f.rows = <<>> => f.selected = 1,
         f.rows # <<>> => f.selected \in DOMAIN f.rows
  PROVE  /\ Scrolled(f) \in Screen /\ OnScreen(Scrolled(f))
         /\ Scrolled(f).rows = f.rows /\ Scrolled(f).selected = f.selected
         /\ Scrolled(f).panel = f.panel /\ Scrolled(f).path = f.path
         /\ Scrolled(f).title = f.title /\ Scrolled(f).running = f.running
<1> DEFINE n == IF f.rows = <<>> THEN 1
                ELSE IF f.selected < f.top THEN f.selected
                ELSE IF f.selected >= f.top + Visible THEN f.selected - Visible + 1
                ELSE f.top
           g == [f EXCEPT !.top = n]
<1>1. Scrolled(f) = g
  BY DEF Scrolled
<1>2. f.selected \in Nat \ {0} /\ f.top \in Nat \ {0}
  BY DEF Screen
<1>3. n \in Nat \ {0} /\ n <= f.selected /\ n + Visible > f.selected
  <2>1. CASE f.rows = <<>>
    BY <1>2, <2>1, ListAssumption
  <2>2. CASE f.rows # <<>>
    BY <1>2, <2>2, ListAssumption
  <2> QED BY <2>1, <2>2
<1>4. f.rows = <<>> => n = 1
  OBVIOUS
<1> HIDE DEF n
<1>5. /\ g \in Screen /\ g.top = n
      /\ g.rows = f.rows /\ g.selected = f.selected /\ g.panel = f.panel
      /\ g.path = f.path /\ g.title = f.title /\ g.running = f.running
  BY <1>3, ScreenTop, ZenonT(60)
<1> HIDE DEF g
<1>6. OnScreen(g)
  BY <1>2, <1>3, <1>4, <1>5, ListAssumption DEF OnScreen
<1> QED BY <1>1, <1>5, <1>6

(* refresh_rows                                                            *)
LEMMA RefreshedScreen ==
  ASSUME NEW f \in Screen, NEW t, Named(t)
  PROVE  LET g == Refreshed(f, t) IN
         /\ g \in Screen /\ OnScreen(g)
         /\ g.rows = RowsOf(t, f.path) /\ g.panel = f.panel /\ g.path = f.path
         /\ g.title = f.title /\ g.running = f.running
<1> DEFINE rows == RowsOf(t, f.path)
           n == IF f.selected > Len(rows) THEN 1 ELSE f.selected
           h == [f EXCEPT !.rows = rows]
           g == [h EXCEPT !.selected = n]
<1>1. f.selected \in Nat \ {0} /\ f.path \in Folder
  BY DEF Screen
<1>2. rows \in Seq(RowSet)
  <2> DEFINE R == TrueRow(t, f.path)
  <2>1. rows \in Seq(R) /\ R \subseteq RowSet
    BY <1>1, RowsAreTrue DEF TrueRow
  <2> HIDE DEF rows, R
  <2> QED BY <2>1
<1>3. Refreshed(f, t) = Scrolled(g)
  <2>1. g = [f EXCEPT !.rows = rows, !.selected = n]
    BY DEF Screen
  <2> HIDE DEF g
  <2> QED BY <2>1 DEF Refreshed
<1> HIDE DEF rows
<1>4. n \in Nat \ {0} /\ (rows = <<>> => n = 1) /\ (rows # <<>> => n \in DOMAIN rows)
  BY <1>1, <1>2
<1> HIDE DEF n
<1>5. /\ h \in Screen /\ h.rows = rows
      /\ h.panel = f.panel
      /\ h.path = f.path /\ h.title = f.title /\ h.running = f.running
  BY <1>2, ScreenRows, ZenonT(60)
<1> HIDE DEF h
<1>6. /\ g \in Screen /\ g.selected = n
      /\ g.rows = h.rows /\ g.panel = h.panel
      /\ g.path = h.path /\ g.title = h.title /\ g.running = h.running
  BY <1>4, <1>5, ScreenSelected, ZenonT(60)
<1> HIDE DEF g
<1>7. g.rows = rows /\ g.panel = f.panel /\ g.path = f.path /\ g.title = f.title
      /\ g.running = f.running
  BY <1>5, <1>6
<1> DEFINE r == Scrolled(g)
<1>8. /\ r \in Screen /\ OnScreen(r)
      /\ r.rows = g.rows /\ r.panel = g.panel /\ r.path = g.path
      /\ r.title = g.title /\ r.running = g.running
  BY <1>4, <1>6, <1>7, ScrolledScreen
<1> HIDE DEF r
<1>9. /\ r.rows = RowsOf(t, f.path) /\ r.panel = f.panel /\ r.path = f.path
      /\ r.title = f.title /\ r.running = f.running
  BY <1>7, <1>8 DEF rows
<1>10. Refreshed(f, t) = r
  BY <1>3 DEF r
<1> QED BY <1>8, <1>9, <1>10

(* What is listed is below the folder.                                     *)
LEMMA ListedBelow ==
  ASSUME NEW t, Named(t), NEW d \in Folder
  PROVE  RowsBelow(RowsOf(t, d), d)
<1> DEFINE R == TrueRow(t, d)
           rows == RowsOf(t, d)
<1>1. rows \in Seq(R)
  BY RowsAreTrue
<1>2. \A r \in R : IsBelow(r, d)
  BY DEF TrueRow
<1> HIDE DEF R, rows
<1>3. \A i \in DOMAIN rows : rows[i] \in R
  BY <1>1
<1> QED BY <1>2, <1>3 DEF RowsBelow, rows

(* The probe of a refresh, and the rows it reads.                          *)
LEMMA RefreshValid ==
  ASSUME NEW w, Sound(w), w.fm.panel.kind # "rename", NEW x \in Refresh(w)
  PROVE  /\ Valid(x) /\ x.fs \in F!TryEnable(w.fs, FALSE)
         /\ x.sent = w.sent /\ x.behind = FALSE
         /\ x.fm.panel = w.fm.panel /\ x.fm.path = w.fm.path
         /\ x.fm.title = w.fm.title /\ x.fm.running = w.fm.running
<1> DEFINE off == FALSE
<1>1. PICK s \in F!TryEnable(w.fs, FALSE) :
        x = [w EXCEPT !.fs = s, !.fm = Refreshed(w.fm, s.entries), !.behind = FALSE]
  BY DEF Refresh
<1> DEFINE g == Refreshed(w.fm, s.entries)
           w1 == [w EXCEPT !.fs = s]
           w2 == [w1 EXCEPT !.fm = g]
           w3 == [w2 EXCEPT !.behind = off]
<1>2. w \in World /\ w.fm \in Screen /\ FP!Good(w.fs) /\ Fits(w.fm)
  BY DEF Sound, World
<1>3. FP!Good(s) /\ s \in FP!State /\ Named(s.entries)
  <2>1. FP!Good(s)
    BY <1>1, <1>2, Probed
  <2> QED BY <2>1, GoodTable DEF FP!Good
<1>4. /\ g \in Screen /\ OnScreen(g)
      /\ g.rows = RowsOf(s.entries, w.fm.path) /\ g.panel = w.fm.panel
      /\ g.path = w.fm.path /\ g.title = w.fm.title /\ g.running = w.fm.running
  BY <1>2, <1>3, RefreshedScreen, ZenonT(60)
<1> HIDE DEF g
<1>5. x = w3
  BY <1>1, <1>2 DEF World, g
<1>6. w1 \in World /\ w1.fs = s /\ w1.fm = w.fm /\ w1.sent = w.sent
  BY <1>2, <1>3 DEF World
<1> HIDE DEF w1
<1>7. w2 \in World /\ w2.fm = g /\ w2.fs = s /\ w2.sent = w.sent
  BY <1>4, <1>6 DEF World
<1> HIDE DEF w2
<1>8. off \in BOOLEAN /\ off = FALSE
  OBVIOUS
<1> HIDE DEF off
<1>9. w3 \in World /\ w3.fs = s /\ w3.fm = g /\ w3.sent = w.sent /\ w3.behind = off
  BY <1>7, <1>8 DEF World
<1> HIDE DEF w3
<1>10. Fits(g)
  BY <1>2, <1>4 DEF Fits
<1>11. Sound(w3)
  BY <1>3, <1>4, <1>9, <1>10 DEF Sound
<1>12. Current(w3)
  <2>1. RowsBelow(RowsOf(s.entries, w.fm.path), w.fm.path)
    <3>1. w.fm.path \in Folder
      BY <1>2 DEF Screen
    <3> QED BY <1>3, <3>1, ListedBelow
  <2> QED BY <1>4, <1>9, <2>1 DEF Current
<1> QED BY <1>1, <1>4, <1>5, <1>8, <1>9, <1>11, <1>12 DEF Valid
-----------------------------------------------------------------------------
(***************************************************************************)
(* One step of the file manager is at most one operation of Fs, with the   *)
(* names the dialog and the folder on the screen stand for.                *)
(***************************************************************************)
Reads(w, v) == v = w.fs \/ v \in F!TryEnable(w.fs, FALSE)

Target(w) == Child(w.fm.path, w.fm.panel.input)

Operation(w, s, v) ==
  \/ /\ w.fm.panel.kind = "delete"
     /\ w.fm.panel.row.kind = "dir"
     /\ v \in F!DeleteDirResult(s, w.fm.panel.row.target)
  \/ /\ w.fm.panel.kind = "delete"
     /\ w.fm.panel.row.kind = "file"
     /\ v \in F!DeleteResult(s, w.fm.panel.row.target)
  \/ /\ w.fm.panel.kind = "new" /\ w.fm.panel.input # <<>>
     /\ v \in F!WriteResult(s, Target(w), NoData)
  \/ /\ w.fm.panel.kind = "folder" /\ w.fm.panel.input # <<>>
     /\ v \in F!CreateDirResult(s, Target(w))
  \/ /\ w.fm.panel.kind = "rename" /\ w.fm.panel.input # <<>>
     /\ w.fm.panel.row.kind = "dir"
     /\ v \in F!RenameDirResult(s, w.fm.panel.row.target, Target(w))
  \/ /\ w.fm.panel.kind = "rename" /\ w.fm.panel.input # <<>>
     /\ w.fm.panel.row.kind = "file"
     /\ v \in F!RenameResult(s, w.fm.panel.row.target, Target(w))

Effect(w, v) ==
  \/ Reads(w, v)
  \/ \E s \in F!TryEnable(w.fs, TRUE) : Operation(w, s, v)

Ready(w) == Valid(w) /\ w.sent = Nothing

Result(w, x) == Valid(x) /\ Asks(w, x) /\ Effect(w, x.fs)

(* What reads does no more than what may change.                           *)
ResultOfRead(w, x) == Valid(x) /\ Asks(w, x) /\ Reads(w, x.fs)

LEMMA NothingAsked ==
  Nothing \in Request /\ Nothing.file = <<>>
<1>1. <<>> \in Seq(Names \union {EDITOR, PROGMAN}) /\ <<>> \in Place
  BY EmptySeq DEF Place
<1> QED BY <1>1 DEF Nothing, Request

LEMMA Still ==
  ASSUME NEW w, Ready(w), NEW x, Valid(x), x.sent = w.sent, Reads(w, x.fs)
  PROVE  ResultOfRead(w, x)
  BY NothingAsked DEF Ready, ResultOfRead, Asks

LEMMA Sent ==
  ASSUME NEW w, Valid(w), NEW m \in Request
  PROVE  LET x == [w EXCEPT !.sent = m] IN
         /\ Valid(x) /\ x.sent = m
         /\ x.fs = w.fs /\ x.fm = w.fm /\ x.behind = w.behind
<1> DEFINE x == [w EXCEPT !.sent = m]
<1>1. w \in World
  BY DEF Valid, Sound
<1>2. /\ x \in World /\ x.sent = m
      /\ x.fs = w.fs /\ x.fm = w.fm /\ x.behind = w.behind
  BY <1>1 DEF World
<1> HIDE DEF x
<1>3. Valid(x)
  BY <1>2 DEF Valid, Sound, Current
<1> QED BY <1>2, <1>3 DEF x

LEMMA LaunchResult ==
  ASSUME NEW w, Ready(w), NEW p \in Names \union {EDITOR, PROGMAN}, NEW x \in Launch(w, p)
  PROVE  ResultOfRead(w, x)
<1> DEFINE m == [program |-> <<p>>, file |-> <<>>]
           y == [w EXCEPT !.sent = m]
<1>1. m \in Request /\ m.file = <<>>
  <2>1. <<p>> \in Seq(Names \union {EDITOR, PROGMAN}) /\ <<>> \in Place
    BY DEF Place
  <2> QED BY <2>1 DEF Request
<1>2. x = y
  BY DEF Launch
<1> HIDE DEF m
<1>3. /\ Valid(y) /\ y.sent = m
      /\ y.fs = w.fs /\ y.fm = w.fm /\ y.behind = w.behind
  BY <1>1, Sent, ZenonT(60) DEF Ready
<1> HIDE DEF y
<1> QED BY <1>1, <1>2, <1>3 DEF ResultOfRead, Asks, Reads

LEMMA EditFields ==
  ASSUME NEW w, Valid(w), NEW p \in Place, NEW x \in Edit(w, p)
  PROVE  /\ Valid(x) /\ x.sent.file = p
         /\ x.fs = w.fs /\ x.fm = w.fm /\ x.behind = w.behind
<1> DEFINE m == [program |-> <<EDITOR>>, file |-> p]
           y == [w EXCEPT !.sent = m]
<1>1. m \in Request /\ m.file = p
  <2>1. <<EDITOR>> \in Seq(Names \union {EDITOR, PROGMAN})
    OBVIOUS
  <2> QED BY <2>1 DEF Request
<1>2. x = y
  BY DEF Edit
<1> HIDE DEF m
<1>3. /\ Valid(y) /\ y.sent = m
      /\ y.fs = w.fs /\ y.fm = w.fm /\ y.behind = w.behind
  BY <1>1, Sent, ZenonT(60)
<1> HIDE DEF y
<1> QED BY <1>1, <1>2, <1>3

LEMMA EnterResult ==
  ASSUME NEW w, Ready(w), w.fm.panel.kind # "rename", NEW d \in Folder,
         NEW x \in Enter(w, d)
  PROVE  ResultOfRead(w, x)
<1> DEFINE z == 1
           f == w.fm
           g1 == [f EXCEPT !.path = d]
           g2 == [g1 EXCEPT !.selected = z]
           g3 == [g2 EXCEPT !.top = z]
           y == [w EXCEPT !.fm = g3]
<1>1. w \in World /\ f \in Screen /\ FP!Good(w.fs) /\ Fits(f)
  BY DEF Ready, Valid, Sound, World
<1>2. [w EXCEPT !.fm.path = d, !.fm.selected = 1, !.fm.top = 1] = y
  BY <1>1 DEF World, Screen
<1> HIDE DEF f
<1>3. /\ g1 \in Screen /\ g1.rows = f.rows /\ g1.panel = f.panel /\ g1.title = f.title
      /\ g1.selected = f.selected
  BY <1>1 DEF Screen
<1> HIDE DEF g1
<1>4. z \in Nat \ {0} /\ z = 1
  OBVIOUS
<1> HIDE DEF z
<1>5. /\ g2 \in Screen /\ g2.rows = f.rows /\ g2.panel = f.panel /\ g2.title = f.title
      /\ g2.selected = z
  BY <1>3, <1>4 DEF Screen
<1> HIDE DEF g2
<1>6. /\ g3 \in Screen /\ g3.rows = f.rows /\ g3.panel = f.panel /\ g3.title = f.title
      /\ g3.selected = z /\ g3.top = z
  BY <1>4, <1>5 DEF Screen
<1> HIDE DEF g3
<1>7. y \in World /\ y.fm = g3 /\ y.fs = w.fs /\ y.sent = w.sent
  BY <1>1, <1>6, WorldScreen, ZenonT(60)
<1> HIDE DEF y
<1>8. OnScreen(g3)
  <2>1. g3.rows \in Seq(RowSet)
    BY <1>6 DEF Screen
  <2>2. g3.rows # <<>> => 1 \in DOMAIN g3.rows
    BY <2>1
  <2> QED BY <1>4, <1>6, <2>2, ListAssumption DEF OnScreen
<1>9. Fits(g3)
  BY <1>1, <1>6 DEF Fits, f
<1>10. Sound(y) /\ y.fm.panel.kind # "rename"
  BY <1>1, <1>6, <1>7, <1>8, <1>9 DEF Sound, f
<1>11. x \in Refresh(y)
  BY <1>2 DEF Enter
<1>12. Valid(x) /\ x.fs \in F!TryEnable(y.fs, FALSE) /\ x.sent = y.sent
  BY <1>10, <1>11, RefreshValid
<1> QED BY <1>7, <1>12, Still DEF Reads

LEMMA RefreshResult ==
  ASSUME NEW w, Ready(w), w.fm.panel.kind # "rename", NEW x \in Refresh(w)
  PROVE  ResultOfRead(w, x)
<1>1. Valid(x) /\ x.fs \in F!TryEnable(w.fs, FALSE) /\ x.sent = w.sent
  BY RefreshValid DEF Ready, Valid
<1> QED BY <1>1, Still DEF Reads

(* The selected row, where there is one.                                   *)
LEMMA SelectedRow ==
  ASSUME NEW w, Valid(w), w.fm.rows # <<>>
  PROVE  /\ Selected(w) \in RowSet /\ IsBelow(Selected(w), w.fm.path)
         /\ ~w.behind => Selected(w) \in TrueRow(w.fs.entries, w.fm.path)
         /\ Selected(w) \in { w.fm.rows[i] : i \in DOMAIN w.fm.rows }
<1>1. /\ w.fm.rows \in Seq(RowSet) /\ w.fm.path \in Folder
      /\ w.fm.selected \in DOMAIN w.fm.rows
  BY DEF Valid, Sound, World, Screen, OnScreen
<1>2. Selected(w) \in RowSet /\ Selected(w) \in { w.fm.rows[i] : i \in DOMAIN w.fm.rows }
  BY <1>1 DEF Selected
<1>3. IsBelow(Selected(w), w.fm.path)
  BY <1>1 DEF Selected, Valid, Current, RowsBelow
<1>4. ASSUME ~w.behind PROVE Selected(w) \in TrueRow(w.fs.entries, w.fm.path)
  <2> DEFINE R == TrueRow(w.fs.entries, w.fm.path)
  <2>1. w.fm.rows = RowsOf(w.fs.entries, w.fm.path) /\ Named(w.fs.entries)
    BY <1>4, GoodTable DEF Valid, Current, Sound
  <2>2. w.fm.rows \in Seq(R)
    BY <1>1, <2>1, RowsAreTrue
  <2> HIDE DEF R
  <2>3. w.fm.rows[w.fm.selected] \in R
    BY <1>1, <2>2
  <2> QED BY <2>3 DEF R, Selected
<1> QED BY <1>2, <1>3, <1>4

LEMMA OpenSelectedResult ==
  ASSUME NEW w, Ready(w), w.fm.panel.kind # "rename", NEW x \in OpenSelected(w)
  PROVE  ResultOfRead(w, x)
<1>1. CASE w.fm.rows = <<>>
  <2>1. x = w
    BY <1>1 DEF OpenSelected
  <2> QED BY <2>1, Still DEF Ready, Reads
<1>2. CASE w.fm.rows # <<>>
  <2> DEFINE r == Selected(w)
  <2>1. /\ r \in RowSet /\ (~w.behind => r \in TrueRow(w.fs.entries, w.fm.path))
        /\ r \in { w.fm.rows[i] : i \in DOMAIN w.fm.rows }
        /\ w.behind \in BOOLEAN
    BY <1>2, SelectedRow DEF Ready, Valid, Sound, World
  <2>2. x \in CASE r.kind \in {"dir", "parent"} -> Enter(w, r.target)
                [] r.kind = "exec" -> Launch(w, r.target)
                [] r.kind = "file" -> Edit(w, r.target)
    BY <1>2 DEF OpenSelected
  <2> HIDE DEF r
  <2>3. CASE r.kind \in {"dir", "parent"}
    <3>1. r.target \in Folder
      BY <2>1, <2>3 DEF RowSet, ShownFolder, Shown, Folder, Place
    <3>2. x \in Enter(w, r.target)
      BY <2>2, <2>3
    <3> QED BY <3>1, <3>2, EnterResult
  <2>4. CASE r.kind = "exec"
    <3>1. r.target \in Names
      BY <2>1, <2>4 DEF RowSet
    <3>2. x \in Launch(w, r.target)
      BY <2>2, <2>4
    <3> QED BY <3>1, <3>2, LaunchResult
  <2>5. CASE r.kind = "file"
    <3>1. r.target \in Place
      BY <2>1, <2>5 DEF RowSet, Shown, Place
    <3>2. x \in Edit(w, r.target)
      BY <2>2, <2>5
    <3>3. /\ Valid(x) /\ x.sent.file = r.target
          /\ x.fs = w.fs /\ x.behind = w.behind
      BY <3>1, <3>2, EditFields DEF Ready
    <3>4. r = Row("file", r.target)
      BY <2>1, <2>5 DEF RowSet, Row
    <3>5. CASE w.behind
      BY <2>1, <3>3, <3>4, <3>5 DEF ResultOfRead, Reads, Asks
    <3>6. CASE ~w.behind
      <4>1. F!HasEntry(w.fs.entries, r.target) \/ F!Reserved(r.target)
        BY <2>1, <2>5, <3>6 DEF TrueRow
      <4> QED BY <3>3, <4>1 DEF ResultOfRead, Reads, Asks
    <3> QED BY <2>1, <3>5, <3>6
  <2>6. r.kind \in {"dir", "parent"} \/ r.kind = "exec" \/ r.kind = "file"
    BY <2>1 DEF RowSet
  <2> QED BY <2>3, <2>4, <2>5, <2>6
<1> QED BY <1>1, <1>2
-----------------------------------------------------------------------------
(***************************************************************************)
(* Menus and dialogs.                                                      *)
(***************************************************************************)
LEMMA FitsPanel ==
  ASSUME NEW f \in Screen, NEW p \in PanelSet,
         p.kind = "menu" => p.item \in Items(f.title),
         p.kind \in {"delete", "rename"} =>
           p.row.kind \in {"dir", "file"} /\ ~F!Reserved(p.row.target),
         p.kind = "rename" => f.rows # <<>> /\ p.row = f.rows[f.selected],
         p.kind = "rename" => p.input \in Typed \union {<<Last(p.row.target)>>}
  PROVE  Fits([f EXCEPT !.panel = p])
<1> DEFINE g == [f EXCEPT !.panel = p]
<1>1. g.panel = p /\ g.rows = f.rows /\ g.selected = f.selected /\ g.title = f.title
  BY DEF Screen
<1> HIDE DEF g
<1>2. Fits(g)
  BY <1>1 DEF Fits
<1> QED BY <1>2 DEF g

LEMMA FitsOther ==
  ASSUME NEW f \in Screen, NEW p \in PanelSet, p.kind \notin {"menu", "delete", "rename"}
  PROVE  Fits([f EXCEPT !.panel = p])
  BY FitsPanel

LEMMA PanelResult ==
  ASSUME NEW w, Ready(w), NEW p \in PanelSet, Fits([w.fm EXCEPT !.panel = p]),
         NEW x \in Panel(w, p)
  PROVE  ResultOfRead(w, x)
<1> DEFINE y == [w EXCEPT !.fm.panel = p]
<1>1. x = y
  BY DEF Panel
<1>2. /\ Sound(y) /\ (Current(w) => Current(y))
      /\ y.fs = w.fs /\ y.sent = w.sent /\ y.behind = w.behind
      /\ y.fm = [w.fm EXCEPT !.panel = p]
      /\ y.fm.panel = p /\ y.fm.path = w.fm.path /\ y.fm.rows = w.fm.rows
      /\ y.fm.selected = w.fm.selected /\ y.fm.title = w.fm.title
      /\ y.fm.running = w.fm.running
  BY Paneled, ZenonT(60) DEF Ready, Valid
<1> HIDE DEF y
<1>3. Valid(y)
  BY <1>2 DEF Ready, Valid
<1> QED BY <1>1, <1>2, <1>3, Still DEF Reads

LEMMA NoPanelFits ==
  ASSUME NEW w, Sound(w)
  PROVE  NoPanel \in PanelSet /\ Fits([w.fm EXCEPT !.panel = NoPanel])
<1>1. NoPanel \in PanelSet /\ NoPanel.kind \notin {"menu", "delete", "rename"}
  BY DEF PanelSet, NoPanel
<1>2. w.fm \in Screen
  BY DEF Sound, World
<1> QED BY <1>1, <1>2, FitsOther

(* A dialog or a menu that is closed.                                      *)
LEMMA Closing ==
  ASSUME NEW w, Ready(w)
  PROVE  LET c == [w EXCEPT !.fm.panel = NoPanel] IN
         /\ Ready(c) /\ c.fs = w.fs /\ c.behind = w.behind
         /\ c.fm.panel = NoPanel /\ c.fm.path = w.fm.path /\ c.fm.title = w.fm.title
         /\ c.fm.rows = w.fm.rows /\ c.fm.selected = w.fm.selected
<1> DEFINE c == [w EXCEPT !.fm.panel = NoPanel]
<1>1. Sound(w) /\ Current(w)
  BY DEF Ready, Valid
<1>2. NoPanel \in PanelSet /\ Fits([w.fm EXCEPT !.panel = NoPanel])
  BY <1>1, NoPanelFits
<1>3. /\ Sound(c) /\ (Current(w) => Current(c))
      /\ c.fs = w.fs /\ c.sent = w.sent /\ c.behind = w.behind
      /\ c.fm = [w.fm EXCEPT !.panel = NoPanel]
      /\ c.fm.panel = NoPanel /\ c.fm.path = w.fm.path /\ c.fm.rows = w.fm.rows
      /\ c.fm.selected = w.fm.selected /\ c.fm.title = w.fm.title
      /\ c.fm.running = w.fm.running
  BY <1>1, <1>2, Paneled, ZenonT(60)
<1> HIDE DEF c
<1>4. Ready(c)
  BY <1>1, <1>3 DEF Ready, Valid
<1> QED BY <1>3, <1>4 DEF c

LEMMA CloseResult ==
  ASSUME NEW w, Ready(w), NEW x \in Panel(w, NoPanel)
  PROVE  ResultOfRead(w, x)
  BY NoPanelFits, PanelResult DEF Ready, Valid

(* What is done with the menu closed is done from the same table.          *)
LEMMA SameReads ==
  ASSUME NEW w, NEW c, c.fs = w.fs, c.behind = w.behind, c.fm.rows = w.fm.rows,
         NEW x, ResultOfRead(c, x)
  PROVE  ResultOfRead(w, x)
  BY DEF ResultOfRead, Asks, Reads

LEMMA MenuClosed ==
  ASSUME NEW w, Ready(w)
  PROVE  /\ Ready(CloseMenu(w))
         /\ CloseMenu(w).fs = w.fs /\ CloseMenu(w).behind = w.behind
         /\ CloseMenu(w).fm.title = w.fm.title
         /\ CloseMenu(w).fm.rows = w.fm.rows
         /\ w.fm.panel.kind \in {"none", "menu"} => CloseMenu(w).fm.panel.kind = "none"
<1>1. CASE w.fm.panel.kind = "menu"
  <2> DEFINE c == [w EXCEPT !.fm.panel = NoPanel]
  <2>1. CloseMenu(w) = c
    BY <1>1 DEF CloseMenu
  <2>2. /\ Ready(c) /\ c.fs = w.fs /\ c.behind = w.behind
        /\ c.fm.panel = NoPanel /\ c.fm.path = w.fm.path /\ c.fm.title = w.fm.title
        /\ c.fm.rows = w.fm.rows /\ c.fm.selected = w.fm.selected
    BY Closing, ZenonT(60)
  <2> HIDE DEF c
  <2>3. NoPanel.kind = "none"
    BY DEF NoPanel
  <2> QED BY <2>1, <2>2, <2>3
<1>2. CASE w.fm.panel.kind # "menu"
  BY <1>2 DEF CloseMenu
<1> QED BY <1>1, <1>2

LEMMA StartDeleteResult ==
  ASSUME NEW w, Ready(w), NEW x \in StartDelete(w)
  PROVE  ResultOfRead(w, x)
<1>1. CASE Changeable(w)
  <2> DEFINE r == Selected(w)
             p == [kind |-> "delete", row |-> r, yes |-> TRUE]
  <2>1. r \in RowSet /\ r.kind \in {"dir", "file"} /\ ~F!Reserved(r.target)
    BY <1>1, SelectedRow DEF Changeable, Ready
  <2>2. x \in Panel(w, p)
    BY <1>1 DEF StartDelete
  <2> HIDE DEF r
  <2>3. p \in PanelSet /\ p.kind = "delete" /\ p.row = r
    BY <2>1 DEF PanelSet
  <2> HIDE DEF p
  <2>4. w.fm \in Screen
    BY DEF Ready, Valid, Sound, World
  <2>5. Fits([w.fm EXCEPT !.panel = p])
    BY <2>1, <2>3, <2>4, FitsPanel
  <2> QED BY <2>2, <2>3, <2>5, PanelResult
<1>2. CASE ~Changeable(w)
  <2>1. x = w
    BY <1>2 DEF StartDelete
  <2> QED BY <2>1, Still DEF Ready, Reads
<1> QED BY <1>1, <1>2

LEMMA StartRenameResult ==
  ASSUME NEW w, Ready(w), NEW x \in StartRename(w)
  PROVE  ResultOfRead(w, x)
<1>1. CASE Changeable(w)
  <2> DEFINE r == Selected(w)
             name == <<Last(r.target)>>
             p == [kind |-> "rename", row |-> r, input |-> name]
  <2>1. /\ r \in RowSet /\ r.kind \in {"dir", "file"} /\ ~F!Reserved(r.target)
        /\ w.fm.rows # <<>> /\ r = w.fm.rows[w.fm.selected]
    BY <1>1, SelectedRow DEF Changeable, Ready, Selected
  <2>2. x \in Panel(w, p)
    BY <1>1 DEF StartRename
  <2> HIDE DEF r
  <2>3. name \in Place
    <3>1. r.target \in F!Path
      BY <2>1 DEF RowSet, Shown, ShownFolder
    <3> DEFINE q == r.target
    <3>2. q \in Seq(Component) /\ Len(q) \in Nat /\ q # <<>>
      BY <3>1, PathParts
    <3> HIDE DEF q
    <3>3. Last(q) \in Component
      BY <3>2 DEF Last
    <3> DEFINE e == Last(q)
    <3>4. e \in Component
      BY <3>3
    <3> HIDE DEF e
    <3> DEFINE u == <<e>>
    <3>5. u \in Seq(Component) /\ Len(u) = 1
      BY <3>4
    <3> HIDE DEF u
    <3>7. Len(u) > 0 /\ Len(u) <= MaxLen
      BY <3>5, Room
    <3>6. u \in F!Path
      BY <3>5, <3>7, ShortPath
    <3> QED BY <3>6 DEF u, e, q, Place
  <2> HIDE DEF name
  <2>4. p \in PanelSet /\ p.kind = "rename" /\ p.row = r /\ p.input = name
    BY <2>1, <2>3 DEF PanelSet
  <2>7. p.input \in Typed \union {<<Last(p.row.target)>>}
    BY <2>4 DEF name
  <2> HIDE DEF p
  <2>5. w.fm \in Screen
    BY DEF Ready, Valid, Sound, World
  <2>6. Fits([w.fm EXCEPT !.panel = p])
    BY <2>1, <2>4, <2>5, <2>7, FitsPanel
  <2> QED BY <2>2, <2>4, <2>6, PanelResult
<1>2. CASE ~Changeable(w)
  <2>1. x = w
    BY <1>2 DEF StartRename
  <2> QED BY <2>1, Still DEF Ready, Reads
<1> QED BY <1>1, <1>2

LEMMA StartInputResult ==
  ASSUME NEW w, Ready(w), NEW kind \in {"new", "folder"}, NEW x \in StartInput(w, kind)
  PROVE  ResultOfRead(w, x)
<1> DEFINE p == [kind |-> kind, input |-> <<>>]
<1>1. x \in Panel(w, p)
  BY DEF StartInput
<1>2. p \in PanelSet /\ p.kind \notin {"menu", "delete", "rename"}
  BY ListAssumption DEF PanelSet
<1> HIDE DEF p
<1>3. w.fm \in Screen
  BY DEF Ready, Valid, Sound, World
<1> QED BY <1>1, <1>2, <1>3, FitsOther, PanelResult

LEMMA OpenMenuResult ==
  ASSUME NEW w, Ready(w), NEW title \in {0, 1}, NEW x \in OpenMenu(w, title)
  PROVE  ResultOfRead(w, x)
<1> DEFINE f == w.fm
           p == [kind |-> "menu", item |-> 0]
           g == [f EXCEPT !.title = title]
           h == [g EXCEPT !.panel = p]
           y == [w EXCEPT !.fm = h]
<1>1. w \in World /\ f \in Screen
  BY DEF Ready, Valid, Sound, World
<1>2. x = y
  BY <1>1 DEF OpenMenu, World, Screen
<1>3. p \in PanelSet /\ p.kind = "menu" /\ p.item = 0
  BY DEF PanelSet
<1> HIDE DEF p, f
<1>4. /\ g \in Screen /\ g.rows = f.rows /\ g.selected = f.selected /\ g.top = f.top
      /\ g.path = f.path /\ g.title = title
  BY <1>1 DEF Screen
<1> HIDE DEF g
<1>5. 0 \in Items(title)
  BY DEF Items
<1>6. Fits(h)
  BY <1>3, <1>4, <1>5, FitsPanel
<1>7. /\ h \in Screen /\ h.panel = p
      /\ h.rows = g.rows /\ h.selected = g.selected /\ h.top = g.top
      /\ h.path = g.path /\ h.title = g.title /\ h.running = g.running
  BY <1>3, <1>4, ScreenPanel, ZenonT(60)
<1> HIDE DEF h
<1>8. /\ y \in World /\ y.fm = h
      /\ y.fs = w.fs /\ y.sent = w.sent /\ y.behind = w.behind
  BY <1>1, <1>7, WorldScreen, ZenonT(60)
<1> HIDE DEF y
<1>9. Sound(y) /\ Current(y)
  <2>1. OnScreen(h)
    BY <1>4, <1>7 DEF Ready, Valid, Sound, OnScreen, f
  <2>2. Sound(y)
    BY <1>6, <1>8, <2>1 DEF Ready, Valid, Sound
  <2>3. Current(y)
    BY <1>4, <1>7, <1>8 DEF Ready, Valid, Current, f
  <2> QED BY <2>2, <2>3
<1> QED BY <1>2, <1>8, <1>9, Still DEF Valid, Reads
-----------------------------------------------------------------------------
(***************************************************************************)
(* The dialogs that are confirmed.                                         *)
(***************************************************************************)
NoNone(name) == \A i \in DOMAIN name : name[i] # NONE

(* A name behind a path, before anything is taken away from it.            *)
LEMMA Joined ==
  ASSUME NEW d \in Place, NEW name \in Place, name # <<>>
  PROVE  LET p == d \o name IN
         /\ d \in Seq(Component) /\ Len(d) \in Nat
         /\ name \in Seq(Component) /\ Len(name) \in Nat /\ Len(name) > 0
         /\ p \in Seq(Component) /\ Len(p) = Len(d) + Len(name)
         /\ \A k \in 1..Len(p) : p[k] = IF k <= Len(d) THEN d[k] ELSE name[k - Len(d)]
<1>1. /\ d \in Seq(Component) /\ Len(d) \in Nat
      /\ name \in Seq(Component) /\ Len(name) \in Nat /\ Len(name) > 0
  BY PlaceParts
<1>2. /\ d \o name \in Seq(Component) /\ Len(d \o name) = Len(d) + Len(name)
      /\ \A k \in 1..(Len(d) + Len(name)) :
           (d \o name)[k] = IF k <= Len(d) THEN d[k] ELSE name[k - Len(d)]
  BY <1>1, ConcatProperties
<1> QED BY <1>1, <1>2

(***************************************************************************)
(* build_child_path makes a path, which ends with a component of the name  *)
(* or with what was left of one, when the folder leaves room for one.      *)
(***************************************************************************)
LEMMA ChildPath ==
  ASSUME NEW d \in Place, NEW name \in Place, name # <<>>, NoNone(name)
  PROVE  Child(d, name) \in F!Path
<1> DEFINE p == d \o name
           m == FP!Cut(p)
<1>1. /\ Len(d) \in Nat /\ Len(name) \in Nat /\ Len(name) > 0
      /\ p \in Seq(Component) /\ Len(p) = Len(d) + Len(name)
      /\ \A k \in 1..Len(p) : p[k] = IF k <= Len(d) THEN d[k] ELSE name[k - Len(d)]
      /\ DOMAIN name = 1..Len(name)
  <2>1. name \in Seq(Component)
    BY Joined
  <2> QED BY <2>1, Joined
<1>2. MaxLen \in Nat /\ MaxLen > 1
  BY FsAssumption
<1> HIDE DEF p
<1>3. FP!Cut(m) = m
  BY <1>1, FsParts, FP!CutTwice
<1>4. m \in Seq(Component) /\ Len(m) > 0 /\ (Last(m) = NONE => Len(m) > 1)
  <2>1. CASE Len(p) <= MaxLen
    <3>1. m = p
      BY <1>1, <2>1, FsParts, FP!CutCases
    <3>2. Len(p) = 1 => Last(p) # NONE
      <4> SUFFICES ASSUME Len(p) = 1 PROVE Last(p) # NONE
        OBVIOUS
      <4>1. Len(d) = 0 /\ 1 \in 1..Len(name) /\ ~(1 <= Len(d)) /\ 1 - Len(d) = 1
        BY <1>1
      <4>2. p[1] = name[1]
        BY <1>1, <4>1
      <4> QED BY <1>1, <4>1, <4>2 DEF Last, NoNone
    <3> HIDE DEF m
    <3> QED BY <1>1, <3>1, <3>2
  <2>2. CASE Len(p) > MaxLen
    <3>1. m \in Seq(Component) /\ (Len(m) = MaxLen \/ Len(m) = MaxLen + 1)
      BY <1>1, <2>2, FsParts, FP!CutElements
    <3> HIDE DEF m
    <3> QED BY <1>2, <3>1
  <2> QED BY <1>1, <1>2, <2>1, <2>2
<1> HIDE DEF m
<1>5. m # <<>> /\ m \in FP!Path
  BY <1>3, <1>4, EmptySeq DEF FP!Path
<1>6. Child(d, name) = IF Last(m) = NONE THEN Front(m) ELSE m
  BY <1>5, SameNames DEF Child, m, p
<1>7. Last(m) = NONE => Front(m) \in FP!Path
  <2> SUFFICES ASSUME Last(m) = NONE PROVE Front(m) \in FP!Path
    OBVIOUS
  <2>1. FP!Front(m) \in FP!Path
    BY <1>4, <1>5, FsParts, FP!FrontIsPath
  <2> QED BY <2>1 DEF Front, FP!Front
<1> QED BY <1>5, <1>6, <1>7, SameNames

LEMMA ChildLast ==
  ASSUME NEW d \in Folder, NEW name \in Place, name # <<>>, NoNone(name),
         \/ Len(d) < MaxLen
         \/ \E c \in Component : Stub[c] # <<>> /\ Stub[c] # <<NONE>>
  PROVE  \/ Last(Child(d, name)) # MARK
         \/ \E i \in DOMAIN name : Last(Child(d, name)) = name[i]
<1> DEFINE p == d \o name
           m == FP!Cut(p)
<1>1. /\ d \in Seq(Component) /\ Len(d) \in Nat
      /\ Len(name) \in Nat /\ Len(name) > 0
      /\ p \in Seq(Component) /\ Len(p) = Len(d) + Len(name)
      /\ \A k \in 1..Len(p) : p[k] = IF k <= Len(d) THEN d[k] ELSE name[k - Len(d)]
      /\ DOMAIN name = 1..Len(name)
      /\ Len(d) <= MaxLen
  <2>1. d \in Place /\ Len(d) <= MaxLen
    BY DEF Folder
  <2>2. name \in Seq(Component)
    BY <2>1, Joined
  <2> QED BY <2>1, <2>2, Joined
<1>2. MaxLen \in Nat /\ MaxLen > 1
  BY FsAssumption
<1>3. Child(d, name) = IF m # <<>> /\ Last(m) = NONE THEN Front(m) ELSE m
  BY SameNames DEF Child
<1> HIDE DEF p
<1>4. ASSUME NEW k \in 1..Len(p), k > Len(d)
      PROVE  \E i \in DOMAIN name : p[k] = name[i] /\ p[k] # NONE
  <2>1. k - Len(d) \in 1..Len(name) /\ ~(k <= Len(d))
    BY <1>1, <1>4
  <2>2. p[k] = name[k - Len(d)]
    BY <1>1, <2>1
  <2> QED BY <1>1, <2>1, <2>2 DEF NoNone
<1>5. CASE Len(p) <= MaxLen
  <2>1. m = p
    BY <1>1, <1>5, FsParts, FP!CutCases
  <2> HIDE DEF m
  <2>2. Len(p) \in 1..Len(p) /\ Len(p) > Len(d) /\ p # <<>>
    BY <1>1
  <2>3. \E i \in DOMAIN name : Last(p) = name[i] /\ Last(p) # NONE
    BY <1>4, <2>2 DEF Last
  <2> QED BY <1>3, <2>1, <2>3
<1>6. CASE Len(p) > MaxLen
  <2> DEFINE c == p[MaxLen + 1]
  <2>1. /\ m \in Seq(Component) /\ c \in Component
        /\ \A i \in 1..MaxLen : m[i] = p[i]
        /\ \/ Stub[c] = <<>> /\ Len(m) = MaxLen
           \/ Len(m) = MaxLen + 1 /\ Stub[c] = <<m[MaxLen + 1]>>
    BY <1>1, <1>6, FsParts, FP!CutElements
  <2>2. MaxLen \in 1..MaxLen /\ MaxLen \in 1..Len(p) /\ MaxLen + 1 \in 1..Len(p)
        /\ MaxLen + 1 > Len(d)
    BY <1>1, <1>2, <1>6
  <2>3. c # NONE
    BY <1>4, <2>2
  <2>4. Len(d) < MaxLen =>
          \E i \in DOMAIN name : m[MaxLen] = name[i] /\ m[MaxLen] # NONE
    BY <1>1, <1>4, <2>1, <2>2
  <2> HIDE DEF m, c
  <2>5. CASE Stub[c] = <<>>
    <3>1. \A x : <<x>> # <<>>
      OBVIOUS
    <3>2. \A e \in Component : Stub[e] = <<>>
      BY <2>1, <2>5, <3>1, FsAssumption, Zenon
    <3>3. Len(d) < MaxLen
      BY <3>2
    <3>4. Len(m) = MaxLen /\ m # <<>>
      <4>1. Len(m) = MaxLen
        BY <2>1, <2>5, <3>1, Zenon
      <4> QED BY <1>2, <4>1
    <3> QED BY <1>3, <2>4, <3>3, <3>4 DEF Last
  <2>6. CASE Stub[c] # <<>>
    <3>1. Len(m) = MaxLen + 1 /\ Stub[c] = <<m[MaxLen + 1]>> /\ m # <<>>
      BY <1>2, <2>1, <2>6
    <3> DEFINE e == m[MaxLen + 1]
    <3>2. Last(m) = e
      BY <3>1 DEF Last
    <3>3. \A x, y : <<x>> = <<y>> => x = y
      OBVIOUS
    <3>4. e # MARK
      <4>1. Stub[c] = <<e>>
        BY <3>1
      <4> HIDE DEF e
      <4>2. \A x : <<x>> # <<>>
        OBVIOUS
      <4>3. \/ Stub[c] = <<>> \/ Stub[c] = <<NONE>>
            \/ \E f \in Component \ {MARK} : Stub[c] = <<f>>
        BY <2>1, FsAssumption, Zenon
      <4>4. NONE # MARK
        BY FsAssumption
      <4> QED BY <3>3, <4>1, <4>2, <4>3, <4>4, Zenon
    <3>5. CASE e # NONE
      BY <1>3, <3>1, <3>2, <3>4, <3>5
    <3>6. CASE e = NONE
      <4>1. \A f \in Component : Stub[f] = <<NONE>>
        <5>1. Stub[c] = <<NONE>>
          BY <3>1, <3>6
        <5> HIDE DEF e
        <5> QED BY <2>1, <2>3, <2>6, <3>3, <5>1, FsAssumption
      <4>2. Len(d) < MaxLen
        BY <4>1
      <4>3. /\ Child(d, name) = FP!Front(m)
            /\ Len(FP!Front(m)) = MaxLen
            /\ FP!Front(m)[MaxLen] = m[MaxLen]
        <5>1. Child(d, name) = Front(m)
          BY <1>3, <3>1, <3>2, <3>6
        <5>2. /\ Len(FP!Front(m)) = Len(m) - 1
              /\ \A i \in 1..(Len(m) - 1) : FP!Front(m)[i] = m[i]
          <6>1. m \in Seq(Component) /\ Len(m) > 0
            BY <1>2, <2>1, <3>1
          <6> QED BY <6>1, FsParts, FP!FrontElements
        <5>3. Len(m) - 1 = MaxLen /\ MaxLen \in 1..(Len(m) - 1)
          BY <1>2, <3>1
        <5> QED BY <5>1, <5>2, <5>3 DEF Front, FP!Front
      <4>4. Last(Child(d, name)) = m[MaxLen]
        BY <4>3 DEF Last
      <4> QED BY <2>4, <4>2, <4>4
    <3> QED BY <3>5, <3>6
  <2> QED BY <2>5, <2>6
<1> QED BY <1>1, <1>2, <1>5, <1>6

(* The table is after what was asked, which the rows may not show.         *)
LEMMA AfterSound ==
  ASSUME NEW y, Ready(y), NEW u, FP!Good(u)
  PROVE  /\ Sound(After(y, u)) /\ After(y, u).fs = u /\ After(y, u).fm = y.fm
         /\ After(y, u).sent = y.sent
<1> DEFINE z == [y EXCEPT !.fs = u]
<1>1. y \in World /\ u \in FP!State
  BY DEF Ready, Valid, Sound, FP!Good
<1>2. After(y, u) = z
  BY DEF After
<1>3. z \in World /\ z.fs = u /\ z.fm = y.fm /\ z.sent = y.sent
  BY <1>1 DEF World
<1> HIDE DEF z
<1>4. Sound(z)
  BY <1>3 DEF Ready, Valid, Sound
<1> QED BY <1>2, <1>3, <1>4

LEMMA UnknownValid ==
  ASSUME NEW y, Ready(y), NEW u, FP!Good(u)
  PROVE  /\ Ready(Unknown(y, u)) /\ Unknown(y, u).fs = u /\ Unknown(y, u).fm = y.fm
<1> DEFINE b == y.behind \/ u.entries # y.fs.entries
           y1 == [y EXCEPT !.fs = u]
           z == [y1 EXCEPT !.behind = b]
<1>1. y \in World
  BY DEF Ready, Valid, Sound
<1>2. u \in FP!State /\ b \in BOOLEAN
  <2>1. y.behind \in BOOLEAN
    BY <1>1 DEF World
  <2> QED BY <2>1 DEF FP!Good
<1>3. Unknown(y, u) = z
  BY <1>1 DEF Unknown, World
<1>4. b = FALSE => ~y.behind /\ u.entries = y.fs.entries
  OBVIOUS
<1> HIDE DEF b
<1>5. y1 \in World /\ y1.fs = u /\ y1.fm = y.fm /\ y1.sent = y.sent
  BY <1>1, <1>2 DEF World
<1> HIDE DEF y1
<1>6. z \in World /\ z.fs = u /\ z.fm = y.fm /\ z.sent = y.sent /\ z.behind = b
  BY <1>2, <1>5 DEF World
<1> HIDE DEF z
<1>7. Sound(z)
  BY <1>6 DEF Ready, Valid, Sound
<1>8. Current(z)
  BY <1>2, <1>4, <1>6 DEF Ready, Valid, Current
<1> QED BY <1>3, <1>6, <1>7, <1>8 DEF Ready, Valid

Closes(w, c) == c = [w EXCEPT !.fm.panel = NoPanel]

LEMMA ClosesReady ==
  ASSUME NEW w, Ready(w), NEW c, Closes(w, c)
  PROVE  Ready(c) /\ c.fm.panel = NoPanel
<1> DEFINE d == [w EXCEPT !.fm.panel = NoPanel]
<1>1. /\ Ready(d) /\ d.fs = w.fs /\ d.behind = w.behind
      /\ d.fm.panel = NoPanel /\ d.fm.path = w.fm.path /\ d.fm.title = w.fm.title
      /\ d.fm.rows = w.fm.rows /\ d.fm.selected = w.fm.selected
  BY Closing, ZenonT(60)
<1>2. c = d
  BY DEF Closes
<1> HIDE DEF d
<1> QED BY <1>1, <1>2

(* The call worked: the dialog is closed and the rows are read again.      *)
LEMMA Finished ==
  ASSUME NEW w, Ready(w), NEW c, Closes(w, c), NEW u, FP!Good(u), Settled(u),
         NEW x \in Refresh(After(c, u))
  PROVE  Ready(x) /\ x.fs = u /\ x.behind = FALSE
<1> DEFINE y == After(c, u)
<1>1. Ready(c) /\ c.fm.panel = NoPanel
  BY ClosesReady
<1>2. Sound(y) /\ y.fs = u /\ y.fm = c.fm /\ y.sent = c.sent
  BY <1>1, AfterSound
<1>3. x \in Refresh(y)
  OBVIOUS
<1> HIDE DEF y
<1>4. y.fm.panel.kind # "rename"
  BY <1>1, <1>2 DEF NoPanel
<1>5. Valid(x) /\ x.fs \in F!TryEnable(y.fs, FALSE) /\ x.sent = y.sent /\ x.behind = FALSE
  BY <1>2, <1>3, <1>4, RefreshValid
<1>6. x.fs = u
  BY <1>2, <1>5, ProbedAgain
<1> QED BY <1>1, <1>2, <1>5, <1>6 DEF Ready

(* The call did not work: the dialog stays.                                *)
LEMMA Failed ==
  ASSUME NEW w, Ready(w), NEW u, FP!Good(u)
  PROVE  Ready(Unknown(w, u)) /\ Unknown(w, u).fs = u
  BY UnknownValid

LEMMA FailedClosed ==
  ASSUME NEW w, Ready(w), NEW c, Closes(w, c), NEW u, FP!Good(u)
  PROVE  Ready(Unknown(c, u)) /\ Unknown(c, u).fs = u
  BY ClosesReady, UnknownValid

LEMMA OperationResult ==
  ASSUME NEW w, NEW s \in F!TryEnable(w.fs, TRUE), NEW x, Ready(x), Operation(w, s, x.fs)
  PROVE  Result(w, x)
  BY NothingAsked DEF Ready, Result, Asks, Effect

LEMMA ReadResult ==
  ASSUME NEW w, NEW x, ResultOfRead(w, x)
  PROVE  Result(w, x)
  BY DEF ResultOfRead, Result, Effect

LEMMA SelfResult ==
  ASSUME NEW w, Ready(w)
  PROVE  ResultOfRead(w, w)
  BY Still DEF Ready, Reads

LEMMA GoodBefore ==
  ASSUME NEW w, Ready(w), NEW s \in F!TryEnable(w.fs, TRUE)
  PROVE  FP!Good(s) /\ Settled(s)
  BY Probed DEF Ready, Valid, Sound

LEMMA PanelKind ==
  ASSUME NEW w, Ready(w)
  PROVE  /\ w.fm.panel \in PanelSet /\ w.fm.path \in Place /\ w.fm \in Screen
         /\ w.fm.panel.kind \in {"new", "folder"} => w.fm.panel.input \in Typed
         /\ w.fm.panel.kind \in {"new", "folder", "rename"} =>
              w.fm.panel.input \in Place /\ NoNone(w.fm.panel.input)
         /\ w.fm.panel.kind \in {"delete", "rename"} =>
              /\ w.fm.panel.row \in RowSet
              /\ w.fm.panel.row.kind \in {"dir", "file"}
              /\ w.fm.panel.row.target \in F!Path
              /\ Last(w.fm.panel.row.target) # NONE
<1>1. w.fm \in Screen /\ Fits(w.fm)
  BY DEF Ready, Valid, Sound, World
<1>2. w.fm.panel \in PanelSet /\ w.fm.path \in Place
  BY <1>1 DEF Screen, Folder
<1>3. w.fm.panel.kind \in {"new", "folder"} => w.fm.panel.input \in Typed
  BY <1>2 DEF PanelSet, NoPanel
<1>4. w.fm.panel.kind \in {"new", "folder", "rename"} => w.fm.panel.input \in Place
  BY <1>2, ListAssumption DEF PanelSet, NoPanel, Place
<1>5. w.fm.panel.kind \in {"delete", "rename"} => w.fm.panel.row \in RowSet
  BY <1>2 DEF PanelSet, NoPanel
<1>6. w.fm.panel.kind \in {"delete", "rename"} => w.fm.panel.row.kind \in {"dir", "file"}
  BY <1>1 DEF Fits
<1>7. w.fm.panel.kind \in {"delete", "rename"} =>
        w.fm.panel.row.target \in F!Path /\ Last(w.fm.panel.row.target) # NONE
  BY <1>1, <1>5, <1>6 DEF RowSet, Shown, ShownFolder, Fits
<1>8. \A name \in Typed : NoNone(name)
  BY ListAssumption DEF NoNone
<1>9. ASSUME w.fm.panel.kind = "rename" PROVE NoNone(w.fm.panel.input)
  <2> DEFINE e == Last(w.fm.panel.row.target)
  <2>1. w.fm.panel.input \in Typed \union {<<e>>} /\ e # NONE
    BY <1>1, <1>7, <1>9 DEF Fits
  <2> HIDE DEF e
  <2>2. NoNone(<<e>>)
    BY <2>1 DEF NoNone
  <2> QED BY <1>8, <2>1, <2>2
<1>10. w.fm.panel.kind \in {"new", "folder", "rename"} => NoNone(w.fm.panel.input)
  BY <1>3, <1>8, <1>9
<1> QED BY <1>1, <1>2, <1>3, <1>4, <1>5, <1>6, <1>7, <1>10

LEMMA ConfirmDeleteResult ==
  ASSUME NEW w, Ready(w), w.fm.panel.kind = "delete", NEW x \in ConfirmDelete(w)
  PROVE  Result(w, x)
<1> DEFINE row == w.fm.panel.row
           closed == [w EXCEPT !.fm.panel = NoPanel]
           results(s) == IF row.kind = "dir" THEN F!DeleteDirResult(s, row.target)
                         ELSE F!DeleteResult(s, row.target)
           end(s, u) == IF Worked(u, u.entries # s.entries)
                        THEN Refresh(After(closed, u)) ELSE {Unknown(closed, u)}
<1>a. ConfirmDelete(w) =
        UNION { UNION { end(s, u) : u \in results(s) } : s \in F!TryEnable(w.fs, TRUE) }
  BY Zenon DEF ConfirmDelete
<1>b. \A s, u : \A y \in end(s, u) :
        y \in Refresh(After(closed, u)) \/ y = Unknown(closed, u)
  OBVIOUS
<1>c. Closes(w, closed)
  BY DEF Closes
<1> HIDE DEF end, results, closed
<1>1. PICK s \in F!TryEnable(w.fs, TRUE) : x \in UNION { end(s, u) : u \in results(s) }
  BY <1>a
<1>2. PICK u \in results(s) :
        x \in Refresh(After(closed, u)) \/ x = Unknown(closed, u)
  BY <1>1, <1>b
<1>3. FP!Good(s) /\ Settled(s)
  BY <1>1, GoodBefore
<1>4. row.kind \in {"dir", "file"}
  BY PanelKind
<1>5. Keeps(s, u)
  BY <1>2, <1>3, DeleteDirKeeps, DeleteKeeps DEF results
<1>6. FP!Good(u) /\ Settled(u)
  BY <1>3, <1>5 DEF Keeps
<1>7. Operation(w, s, u)
  BY <1>2, <1>4 DEF Operation, results
<1>8. Ready(x) /\ x.fs = u
  <2>1. CASE x \in Refresh(After(closed, u))
    BY <1>c, <1>6, <2>1, Finished
  <2>2. CASE x = Unknown(closed, u)
    BY <1>c, <1>6, <2>2, FailedClosed
  <2> QED BY <1>2, <2>1, <2>2
<1> QED BY <1>1, <1>7, <1>8, OperationResult

LEMMA CreateFileResult ==
  ASSUME NEW w, Ready(w), w.fm.panel.kind = "new", w.fm.panel.input # <<>>,
         NEW x \in CreateFile(w, Target(w))
  PROVE  Result(w, x)
<1> DEFINE path == Target(w)
           closed == [w EXCEPT !.fm.panel = NoPanel]
           opened(u) == UNION { Edit(y, path) : y \in Refresh(After(closed, u)) }
           end(u) == IF Worked(u, F!HasEntry(u.entries, path)) THEN opened(u)
                     ELSE {Unknown(w, u)}
<1>0. path \in F!Path
  BY PanelKind, ChildPath DEF Target
<1> HIDE DEF path
<1>a. CreateFile(w, path) =
        UNION { UNION { end(u) : u \in F!WriteResult(s, path, NoData) } :
                  s \in F!TryEnable(w.fs, TRUE) }
  BY Zenon DEF CreateFile
<1>b. \A u : \A y \in end(u) :
        (F!HasEntry(u.entries, path) /\ y \in opened(u)) \/ y = Unknown(w, u)
  <2> HIDE DEF opened
  <2> QED BY DEF Worked
<1>c. Closes(w, closed)
  BY DEF Closes
<1> HIDE DEF end, closed
<1>1. PICK s \in F!TryEnable(w.fs, TRUE) :
        x \in UNION { end(u) : u \in F!WriteResult(s, path, NoData) }
  BY <1>a DEF path
<1>2. PICK u \in F!WriteResult(s, path, NoData) : x \in end(u)
  BY <1>1
<1>d. \/ /\ F!HasEntry(u.entries, path)
         /\ \E y \in Refresh(After(closed, u)) : x \in Edit(y, path)
      \/ x = Unknown(w, u)
  BY <1>2, <1>b
<1>3. FP!Good(s) /\ Settled(s)
  BY <1>1, GoodBefore
<1>4. FP!Good(u) /\ Settled(u)
  <2>1. Keeps(s, u)
    BY <1>0, <1>2, <1>3, WriteKeeps, FsAssumption
  <2> QED BY <1>3, <2>1 DEF Keeps
<1>5. Operation(w, s, u)
  BY <1>2 DEF Operation, path
<1>6. ASSUME F!HasEntry(u.entries, path), NEW y \in Refresh(After(closed, u)),
             x \in Edit(y, path)
      PROVE  Result(w, x)
  <2>1. Ready(y) /\ y.fs = u
    BY <1>c, <1>4, <1>6, Finished
  <2>2. Valid(x) /\ x.sent.file = path /\ x.fs = u
    BY <1>0, <1>6, <2>1, EditFields DEF Ready, Place
  <2>3. Asks(w, x)
    BY <1>6, <2>2 DEF Asks
  <2> QED BY <1>1, <1>5, <2>2, <2>3 DEF Result, Effect
<1>7. ASSUME x = Unknown(w, u) PROVE Result(w, x)
  <2>1. Ready(x) /\ x.fs = u
    BY <1>4, <1>7, Failed
  <2> QED BY <1>1, <1>5, <2>1, OperationResult
<1> QED BY <1>d, <1>6, <1>7

LEMMA ConfirmNewFileResult ==
  ASSUME NEW w, Ready(w), w.fm.panel.kind = "new", NEW x \in ConfirmNewFile(w)
  PROVE  Result(w, x)
<1>1. CASE w.fm.panel.input = <<>>
  <2>1. x = w
    BY <1>1 DEF ConfirmNewFile
  <2> QED BY <2>1, SelfResult, ReadResult
<1>2. CASE w.fm.panel.input # <<>>
  BY <1>2, CreateFileResult DEF ConfirmNewFile, Target
<1> QED BY <1>1, <1>2

LEMMA ConfirmNewFolderResult ==
  ASSUME NEW w, Ready(w), w.fm.panel.kind = "folder", NEW x \in ConfirmNewFolder(w)
  PROVE  Result(w, x)
<1> DEFINE path == Target(w)
           closed == [w EXCEPT !.fm.panel = NoPanel]
<1>1. CASE w.fm.panel.input = <<>>
  <2>1. x = w
    BY <1>1 DEF ConfirmNewFolder, Target
  <2> QED BY <2>1, SelfResult, ReadResult
<1>2. CASE w.fm.panel.input # <<>>
  <2>1. path \in F!Path
    BY <1>2, PanelKind, ChildPath DEF Target
  <2> HIDE DEF path
  <2> DEFINE end(s, u) == IF Worked(u, u.entries # s.entries)
                          THEN Refresh(After(closed, u)) ELSE {Unknown(w, u)}
  <2>a. x \in UNION { UNION { end(s, u) : u \in F!CreateDirResult(s, path) } :
                        s \in F!TryEnable(w.fs, TRUE) }
    BY <1>2, Zenon DEF ConfirmNewFolder, Target, path
  <2>b. \A s, u : \A y \in end(s, u) :
          y \in Refresh(After(closed, u)) \/ y = Unknown(w, u)
    OBVIOUS
  <2>c. Closes(w, closed)
    BY DEF Closes
  <2> HIDE DEF end, closed
  <2>2. PICK s \in F!TryEnable(w.fs, TRUE) :
          x \in UNION { end(s, u) : u \in F!CreateDirResult(s, path) }
    BY <2>a
  <2>3. PICK u \in F!CreateDirResult(s, path) :
          x \in Refresh(After(closed, u)) \/ x = Unknown(w, u)
    BY <2>2, <2>b
  <2>4. FP!Good(s) /\ Settled(s)
    BY <2>2, GoodBefore
  <2>5. FP!Good(u) /\ Settled(u)
    <3>1. Keeps(s, u)
      BY <2>1, <2>3, <2>4, CreateDirKeeps
    <3> QED BY <2>4, <3>1 DEF Keeps
  <2>6. Operation(w, s, u)
    BY <1>2, <2>3 DEF Operation, Target, path
  <2>7. Ready(x) /\ x.fs = u
    <3>1. CASE x \in Refresh(After(closed, u))
      BY <2>5, <2>c, <3>1, Finished
    <3>2. CASE x = Unknown(w, u)
      BY <2>5, <3>2, Failed
    <3> QED BY <2>3, <3>1, <3>2
  <2> QED BY <2>2, <2>6, <2>7, OperationResult
<1> QED BY <1>1, <1>2

LEMMA ConfirmRenameResult ==
  ASSUME NEW w, Ready(w), w.fm.panel.kind = "rename", NEW x \in ConfirmRename(w)
  PROVE  Result(w, x)
<1> DEFINE path == Target(w)
           row == Selected(w)
           closed == [w EXCEPT !.fm.panel = NoPanel]
           results(s) == IF row.kind = "dir" THEN F!RenameDirResult(s, row.target, path)
                         ELSE F!RenameResult(s, row.target, path)
<1>0. w.fm.rows # <<>> /\ row = w.fm.panel.row
  BY DEF Ready, Valid, Sound, Fits, Selected
<1>1. CASE w.fm.panel.input = <<>>
  <2>1. x = w
    BY <1>0, <1>1 DEF ConfirmRename, Target
  <2> QED BY <2>1, SelfResult, ReadResult
<1>2. CASE w.fm.panel.input # <<>>
  <2>1. path \in F!Path /\ row.target \in F!Path /\ row.kind \in {"dir", "file"}
    BY <1>0, <1>2, PanelKind, ChildPath DEF Target
  <2> DEFINE accepted(s, u) ==
               \/ u.entries # s.entries
               \/ row.kind = "file" /\ path = row.target /\ F!HasEntry(s.entries, path)
             end(s, u) == IF Worked(u, accepted(s, u))
                          THEN Refresh(After(closed, u)) ELSE {Unknown(w, u)}
  <2>a. ConfirmRename(w) =
          UNION { UNION { end(s, u) : u \in results(s) } : s \in F!TryEnable(w.fs, TRUE) }
    BY <1>0, <1>2, Zenon DEF ConfirmRename, Target
  <2>b. \A s, u : \A y \in end(s, u) :
          y \in Refresh(After(closed, u)) \/ y = Unknown(w, u)
    OBVIOUS
  <2>c. Closes(w, closed)
    BY DEF Closes
  <2> HIDE DEF end, closed, results
  <2>2. PICK s \in F!TryEnable(w.fs, TRUE) : x \in UNION { end(s, u) : u \in results(s) }
    BY <2>a
  <2>3. PICK u \in results(s) :
          x \in Refresh(After(closed, u)) \/ x = Unknown(w, u)
    BY <2>2, <2>b
  <2>4. FP!Good(s) /\ Settled(s)
    BY <2>2, GoodBefore
  <2> HIDE DEF path, row
  <2>5. Keeps(s, u)
    BY <2>1, <2>3, <2>4, RenameDirKeeps, RenameKeeps DEF results
  <2>6. FP!Good(u) /\ Settled(u)
    BY <2>4, <2>5 DEF Keeps
  <2>7. Operation(w, s, u)
    BY <1>0, <1>2, <2>1, <2>3 DEF Operation, path, results
  <2>8. Ready(x) /\ x.fs = u
    <3>1. CASE x \in Refresh(After(closed, u))
      BY <2>6, <2>c, <3>1, Finished
    <3>2. CASE x = Unknown(w, u)
      BY <2>6, <3>2, Failed
    <3> QED BY <2>3, <3>1, <3>2
  <2> QED BY <2>2, <2>7, <2>8, OperationResult
<1> QED BY <1>1, <1>2

LEMMA ConfirmResult ==
  ASSUME NEW w, Ready(w), w.fm.panel.kind \in {"delete", "new", "folder", "rename"},
         NEW x \in Confirm(w)
  PROVE  Result(w, x)
<1>1. CASE w.fm.panel.kind = "delete"
  BY <1>1, ConfirmDeleteResult DEF Confirm
<1>2. CASE w.fm.panel.kind = "new"
  BY <1>2, ConfirmNewFileResult DEF Confirm
<1>3. CASE w.fm.panel.kind = "folder"
  BY <1>3, ConfirmNewFolderResult DEF Confirm
<1>4. CASE w.fm.panel.kind = "rename"
  BY <1>4, ConfirmRenameResult DEF Confirm
<1> QED BY <1>1, <1>2, <1>3, <1>4
-----------------------------------------------------------------------------
(***************************************************************************)
(* The items of the menus, and presses.                                    *)
(***************************************************************************)
LEMMA AboutResult ==
  ASSUME NEW w, Ready(w), NEW x \in Panel(w, [kind |-> "about"])
  PROVE  ResultOfRead(w, x)
<1> DEFINE p == [kind |-> "about"]
<1>1. p \in PanelSet /\ p.kind \notin {"menu", "delete", "rename"}
  BY DEF PanelSet
<1>2. x \in Panel(w, p)
  OBVIOUS
<1> HIDE DEF p
<1>3. w.fm \in Screen
  BY PanelKind
<1> QED BY <1>1, <1>2, <1>3, FitsOther, PanelResult

LEMMA PerformResult ==
  ASSUME NEW w, Ready(w), w.fm.panel.kind = "menu", NEW item \in Items(w.fm.title),
         NEW x \in Perform(w, item)
  PROVE  ResultOfRead(w, x)
<1> DEFINE c == CloseMenu(w)
<1>1. /\ Ready(c) /\ c.fs = w.fs /\ c.behind = w.behind /\ c.fm.rows = w.fm.rows
      /\ c.fm.title = w.fm.title /\ c.fm.panel.kind # "rename"
  BY MenuClosed
<1>2. w.fm.title \in {0, 1}
  BY PanelKind DEF Screen
<1>3. x \in IF w.fm.title = 1 THEN Panel(c, [kind |-> "about"])
            ELSE CASE item = 0 -> OpenSelected(c)
                   [] item = 1 -> StartInput(c, "new")
                   [] item = 2 -> StartInput(c, "folder")
                   [] item = 3 -> StartDelete(c)
                   [] item = 4 -> StartRename(c)
                   [] item = 5 -> Refresh(c)
                   [] item = 6 -> Launch(c, PROGMAN)
  BY DEF Perform
<1> HIDE DEF c
<1>4. CASE w.fm.title = 1
  <2>1. ResultOfRead(c, x)
    BY <1>1, <1>3, <1>4, AboutResult
  <2> QED BY <1>1, <2>1, SameReads
<1>5. CASE w.fm.title # 1
  <2>1. item \in 0..6
    BY <1>2, <1>5 DEF Items
  <2>2. \/ item = 0 \/ item = 1 \/ item = 2 \/ item = 3 \/ item = 4 \/ item = 5 \/ item = 6
    BY <2>1
  <2>3. \/ x \in OpenSelected(c)
        \/ x \in StartInput(c, "new")
        \/ x \in StartInput(c, "folder")
        \/ x \in StartDelete(c)
        \/ x \in StartRename(c)
        \/ x \in Refresh(c)
        \/ x \in Launch(c, PROGMAN)
    BY <1>3, <1>5, <2>2
  <2>4. ResultOfRead(c, x)
    <3>1. CASE x \in OpenSelected(c)
      BY <1>1, <3>1, OpenSelectedResult
    <3>2. CASE x \in StartInput(c, "new") \/ x \in StartInput(c, "folder")
      BY <1>1, <3>2, StartInputResult
    <3>3. CASE x \in StartDelete(c)
      BY <1>1, <3>3, StartDeleteResult
    <3>4. CASE x \in StartRename(c)
      BY <1>1, <3>4, StartRenameResult
    <3>5. CASE x \in Refresh(c)
      BY <1>1, <3>5, RefreshResult
    <3>6. CASE x \in Launch(c, PROGMAN)
      BY <1>1, <3>6, LaunchResult
    <3> QED BY <2>3, <3>1, <3>2, <3>3, <3>4, <3>5, <3>6
  <2> QED BY <1>1, <2>4, SameReads
<1> QED BY <1>4, <1>5

(* Another row is selected while there is no dialog.                       *)
Selects(w, i, y) == y = [w EXCEPT !.fm = Scrolled([w.fm EXCEPT !.selected = i])]

LEMMA SelectReady ==
  ASSUME NEW w, Ready(w), w.fm.panel.kind = "none", NEW i \in DOMAIN w.fm.rows,
         NEW y, Selects(w, i, y)
  PROVE  /\ Ready(y) /\ y.fs = w.fs /\ y.behind = w.behind
         /\ y.fm.rows = w.fm.rows /\ y.fm.panel.kind = "none"
<1> DEFINE f == w.fm
           g == [f EXCEPT !.selected = i]
           h == Scrolled(g)
           z == [w EXCEPT !.fm = h]
<1>1. w \in World /\ f \in Screen
  BY DEF Ready, Valid, Sound, World
<1>2. i \in Nat \ {0} /\ f.rows # <<>>
  <2>1. f.rows \in Seq(RowSet)
    BY <1>1 DEF Screen
  <2> QED BY <2>1
<1>3. y = z
  BY DEF Selects
<1>4. i \in DOMAIN f.rows /\ f.panel.kind = "none"
  OBVIOUS
<1> HIDE DEF f
<1>5. /\ g \in Screen /\ g.selected = i
      /\ g.rows = f.rows /\ g.top = f.top /\ g.panel = f.panel
      /\ g.path = f.path /\ g.title = f.title /\ g.running = f.running
  BY <1>1, <1>2, ScreenSelected, ZenonT(60)
<1> HIDE DEF g
<1>6. /\ h \in Screen /\ OnScreen(h)
      /\ h.rows = g.rows /\ h.selected = g.selected
      /\ h.panel = g.panel /\ h.path = g.path
      /\ h.title = g.title /\ h.running = g.running
  BY <1>2, <1>4, <1>5, ScrolledScreen
<1> HIDE DEF h
<1>7. /\ z \in World /\ z.fm = h
      /\ z.fs = w.fs /\ z.sent = w.sent /\ z.behind = w.behind
  BY <1>1, <1>6, WorldScreen, ZenonT(60)
<1> HIDE DEF z
<1>8. Fits(h)
  BY <1>4, <1>5, <1>6 DEF Fits
<1>9. Sound(z)
  BY <1>6, <1>7, <1>8 DEF Ready, Valid, Sound
<1>10. Current(z)
  BY <1>5, <1>6, <1>7 DEF Ready, Valid, Current, f
<1> QED BY <1>3, <1>4, <1>5, <1>6, <1>7, <1>9, <1>10 DEF Ready, Valid, f

LEMMA SelectResult ==
  ASSUME NEW w, Ready(w), w.fm.panel.kind = "none", NEW i \in DOMAIN w.fm.rows,
         NEW y, Selects(w, i, y)
  PROVE  ResultOfRead(w, y)
<1>1. Ready(y) /\ y.fs = w.fs
  BY SelectReady
<1> QED BY <1>1, Still DEF Ready, Reads

LEMMA PressRowResult ==
  ASSUME NEW w, Ready(w), w.fm.panel.kind = "none", NEW p, NEW x \in PressRow(w, p)
  PROVE  ResultOfRead(w, x)
<1>1. CASE RowAt(p, w.fm) = {}
  <2>1. x = w
    BY <1>1 DEF PressRow
  <2> QED BY <2>1, SelfResult
<1>2. CASE RowAt(p, w.fm) # {}
  <2> DEFINE i == CHOOSE i \in RowAt(p, w.fm) : TRUE
             y == [w EXCEPT !.fm = Scrolled([w.fm EXCEPT !.selected = i])]
  <2>1. x \in IF i = w.fm.selected THEN OpenSelected(y) ELSE {y}
    BY <1>2, Zenon DEF PressRow
  <2>2. i \in RowAt(p, w.fm)
    BY <1>2
  <2> HIDE DEF i
  <2>3. i \in DOMAIN w.fm.rows
    BY <2>2 DEF RowAt
  <2>4. Selects(w, i, y)
    BY DEF Selects
  <2> HIDE DEF y
  <2>5. /\ Ready(y) /\ y.fs = w.fs /\ y.behind = w.behind
        /\ y.fm.rows = w.fm.rows /\ y.fm.panel.kind = "none"
    BY <2>3, <2>4, SelectReady
  <2>6. CASE x \in OpenSelected(y)
    <3>1. ResultOfRead(y, x)
      BY <2>5, <2>6, OpenSelectedResult
    <3> QED BY <2>5, <3>1, SameReads
  <2>7. CASE x = y
    BY <2>3, <2>4, <2>7, SelectResult
  <2> QED BY <2>1, <2>6, <2>7
<1> QED BY <1>1, <1>2

LEMMA PressListResult ==
  ASSUME NEW w, Ready(w), w.fm.panel.kind \in {"none", "menu"}, NEW p,
         NEW x \in PressList(w, p)
  PROVE  ResultOfRead(w, x)
<1> DEFINE c == CloseMenu(w)
<1>1. /\ Ready(c) /\ c.fs = w.fs /\ c.behind = w.behind /\ c.fm.rows = w.fm.rows
      /\ c.fm.panel.kind = "none"
  BY MenuClosed
<1>2. CASE OnBar(p)
  <2>1. x \in PressBar(w, p)
    BY <1>2 DEF PressList
  <2>2. x \in OpenMenu(w, 0) \/ x \in OpenMenu(w, 1) \/ x = c
    BY <2>1 DEF PressBar
  <2>3. CASE x = c
    <3> HIDE DEF c
    <3> QED BY <1>1, <2>3, Still DEF Ready, Reads
  <2> HIDE DEF c
  <2> QED BY <2>2, <2>3, OpenMenuResult
<1>3. CASE ~OnBar(p) /\ w.fm.panel.kind = "menu" /\ ItemAt(p, w.fm.title) # {}
  <2> DEFINE item == CHOOSE i \in ItemAt(p, w.fm.title) : TRUE
  <2>1. x \in Perform(w, item)
    BY <1>3 DEF PressList
  <2>2. item \in ItemAt(p, w.fm.title)
    BY <1>3
  <2> HIDE DEF item
  <2>3. item \in Items(w.fm.title)
    BY <2>2 DEF ItemAt
  <2> QED BY <1>3, <2>1, <2>3, PerformResult
<1>4. CASE ~OnBar(p) /\ ~(w.fm.panel.kind = "menu" /\ ItemAt(p, w.fm.title) # {})
  <2>1. x \in PressRow(c, p)
    BY <1>4 DEF PressList
  <2> HIDE DEF c
  <2>2. ResultOfRead(c, x)
    BY <1>1, <2>1, PressRowResult
  <2> QED BY <1>1, <2>2, SameReads
<1> QED BY <1>2, <1>3, <1>4

LEMMA PressResult ==
  ASSUME NEW w, Ready(w), NEW p, NEW x \in Press(w, p)
  PROVE  Result(w, x)
<1>1. CASE w.fm.panel.kind = "about"
  <2>1. x \in Panel(w, NoPanel)
    BY <1>1 DEF Press, Inputs
  <2> QED BY <2>1, CloseResult, ReadResult
<1>2. CASE w.fm.panel.kind \in Inputs \union {"delete"}
  <2>1. x \in PressDialog(w, p)
    BY <1>2 DEF Press, Inputs
  <2>2. x \in Confirm(w) \/ x \in Panel(w, NoPanel) \/ x = w
    BY <2>1 DEF PressDialog
  <2>3. w.fm.panel.kind \in {"delete", "new", "folder", "rename"}
    BY <1>2 DEF Inputs
  <2>4. CASE x \in Confirm(w)
    BY <2>3, <2>4, ConfirmResult
  <2>5. CASE x \in Panel(w, NoPanel)
    BY <2>5, CloseResult, ReadResult
  <2>6. CASE x = w
    BY <2>6, SelfResult, ReadResult
  <2> QED BY <2>2, <2>4, <2>5, <2>6
<1>3. CASE w.fm.panel.kind \in {"none", "menu"}
  <2>1. x \in PressList(w, p)
    BY <1>3 DEF Press, Inputs
  <2> QED BY <1>3, <2>1, PressListResult, ReadResult
<1>4. w.fm.panel.kind \in {"about", "none", "menu"} \union Inputs \union {"delete"}
  <2>1. w.fm.panel \in PanelSet
    BY PanelKind
  <2> QED BY <2>1 DEF PanelSet, NoPanel, Inputs
<1> QED BY <1>1, <1>2, <1>3, <1>4

(* prev_left_button                                                        *)
LEMMA RememberResult ==
  ASSUME NEW w, NEW x, Result(w, x), NEW left \in BOOLEAN
  PROVE  Result(w, [x EXCEPT !.fm.prev = left])
<1> DEFINE f == x.fm
           g == [f EXCEPT !.prev = left]
           y == [x EXCEPT !.fm = g]
<1>1. x \in World /\ f \in Screen
  BY DEF Result, Valid, Sound, World
<1>2. [x EXCEPT !.fm.prev = left] = y
  BY <1>1 DEF World
<1> HIDE DEF f
<1>3. /\ g \in Screen /\ g.panel = f.panel
      /\ g.rows = f.rows /\ g.selected = f.selected /\ g.top = f.top
      /\ g.path = f.path /\ g.title = f.title
  <2>1. g \in Screen
    BY <1>1 DEF Screen
  <2>2. /\ g.panel = f.panel
        /\ g.rows = f.rows /\ g.selected = f.selected /\ g.top = f.top
        /\ g.path = f.path /\ g.title = f.title
    BY <1>1 DEF Screen
  <2> QED BY <2>1, <2>2
<1> HIDE DEF g
<1>4. /\ y \in World /\ y.fm = g
      /\ y.fs = x.fs /\ y.sent = x.sent /\ y.behind = x.behind
  BY <1>1, <1>3, WorldScreen, ZenonT(60)
<1> HIDE DEF y
<1>5. Sound(y)
  <2>1. OnScreen(g)
    BY <1>3 DEF Result, Valid, Sound, OnScreen, f
  <2>2. Fits(g)
    BY <1>3 DEF Result, Valid, Sound, Fits, f
  <2> QED BY <1>4, <2>1, <2>2 DEF Result, Valid, Sound
<1>6. Current(y)
  BY <1>3, <1>4 DEF Result, Valid, Current, f
<1>7. Asks(w, y) /\ Effect(w, y.fs)
  BY <1>4 DEF Result, Asks
<1> QED BY <1>2, <1>5, <1>6, <1>7 DEF Result, Valid
-----------------------------------------------------------------------------
(***************************************************************************)
(* The actions.                                                            *)
(***************************************************************************)
(* The inductive invariant.                                                *)
IInv == Valid(Now)

LEMMA NowFields ==
  /\ Now.fs = F!Now /\ Now.fm = fm /\ Now.sent = Nothing /\ Now.behind = behind
  BY DEF Now

LEMMA NowReady ==
  ASSUME IInv
  PROVE  Ready(Now)
  BY NowFields DEF IInv, Ready

(* The panel of a dialog or menu with another field.                       *)
LEMMA FieldResult ==
  ASSUME IInv, NEW p \in PanelSet, Fits([fm EXCEPT !.panel = p]),
         NEW x, x = [Now EXCEPT !.fm.panel = p]
  PROVE  ResultOfRead(Now, x)
<1>1. x \in Panel(Now, p)
  BY DEF Panel
<1>2. Fits([Now.fm EXCEPT !.panel = p])
  BY NowFields
<1> QED BY <1>1, <1>2, NowReady, PanelResult

LEMMA NowPanel ==
  ASSUME IInv
  PROVE  /\ Now \in World /\ fm \in Screen /\ fm.panel \in PanelSet /\ Fits(fm)
         /\ fm.path \in Folder /\ fm.title \in {0, 1}
<1>1. Now \in World /\ Now.fm \in Screen /\ Fits(Now.fm)
  BY DEF IInv, Valid, Sound, World
<1>2. fm \in Screen /\ Fits(fm)
  BY <1>1, NowFields
<1> QED BY <1>1, <1>2 DEF Screen

(* What a step of the file manager itself becomes.                         *)
Becomes == \E x : Become(x) /\ Result(Now, x)

LEMMA BecomesRead ==
  ASSUME NEW x, Become(x), ResultOfRead(Now, x)
  PROVE  Becomes
  BY ReadResult DEF Becomes

LEMMA DoReads ==
  ASSUME NEW S, Do(S), \A x \in S : ResultOfRead(Now, x)
  PROVE  Becomes
  BY BecomesRead DEF Do

LEMMA StepAbout ==
  ASSUME IInv, KeyAbout \/ KeyCancel
  PROVE  Becomes
<1>1. Do(Panel(Now, NoPanel))
  BY DEF KeyAbout, KeyCancel
<1>2. \A x \in Panel(Now, NoPanel) : ResultOfRead(Now, x)
  BY NowReady, CloseResult
<1> QED BY <1>1, <1>2, DoReads

LEMMA StepOtherAnswer ==
  ASSUME IInv, KeyOtherAnswer
  PROVE  Becomes
<1> DEFINE q == fm.panel
           y == ~q.yes
           p == [q EXCEPT !.yes = y]
           x == [Now EXCEPT !.fm.panel = p]
<1>1. q \in PanelSet /\ q.kind = "delete" /\ fm \in Screen /\ Fits(fm) /\ Now \in World
  BY NowPanel DEF KeyOtherAnswer, Showing
<1>2. q \in [kind : {"delete"}, row : RowSet, yes : BOOLEAN]
  <2> HIDE DEF q
  <2> QED BY <1>1 DEF PanelSet, NoPanel
<1>3. Become(x)
  <2>1. [Now EXCEPT !.fm.panel.yes = ~@] = x
    BY <1>1, NowFields DEF World, Screen
  <2> HIDE DEF x
  <2> QED BY <2>1 DEF KeyOtherAnswer, Do
<1>4. /\ (q.kind = "delete") /\ q.row.kind \in {"dir", "file"}
      /\ ~F!Reserved(q.row.target)
  BY <1>1 DEF Fits
<1> HIDE DEF q
<1>5. y \in BOOLEAN
  OBVIOUS
<1> HIDE DEF y
<1>6. p \in PanelSet /\ p.kind = "delete" /\ p.row = q.row
  <2>1. p \in [kind : {"delete"}, row : RowSet, yes : BOOLEAN]
    BY <1>2, <1>5
  <2>2. p.kind = "delete" /\ p.row = q.row
    BY <1>2
  <2> QED BY <2>1, <2>2 DEF PanelSet
<1> HIDE DEF p
<1>7. Fits([fm EXCEPT !.panel = p])
  BY <1>1, <1>4, <1>6, FitsPanel
<1> HIDE DEF x
<1>8. ResultOfRead(Now, x)
  BY <1>6, <1>7, FieldResult DEF x
<1> QED BY <1>3, <1>8, BecomesRead

LEMMA StepType ==
  ASSUME IInv, KeyType
  PROVE  Becomes
<1>1. PICK typed \in Typed : Become([Now EXCEPT !.fm.panel.input = typed])
  BY DEF KeyType, Do
<1> DEFINE q == fm.panel
           p == [q EXCEPT !.input = typed]
           x == [Now EXCEPT !.fm.panel = p]
<1>2. /\ q \in PanelSet /\ q.kind \in {"new", "folder", "rename"}
      /\ fm \in Screen /\ Fits(fm) /\ Now \in World
  BY NowPanel DEF KeyType, Showing, Inputs
<1>3. \/ q \in [kind : {"new", "folder"}, input : Typed]
      \/ q \in [kind : {"rename"}, row : RowSet, input : Place]
  <2> HIDE DEF q
  <2> QED BY <1>2 DEF PanelSet, NoPanel
<1>4. Become(x)
  <2>1. [Now EXCEPT !.fm.panel.input = typed] = x
    BY <1>2, NowFields DEF World, Screen
  <2> HIDE DEF x
  <2> QED BY <1>1, <2>1
<1>5. q.kind = "rename" =>
        /\ q.row.kind \in {"dir", "file"} /\ ~F!Reserved(q.row.target)
        /\ fm.rows # <<>> /\ q.row = fm.rows[fm.selected]
  BY <1>2 DEF Fits
<1> HIDE DEF q
<1>6. typed \in Place
  BY ListAssumption DEF Place
<1>7. /\ p \in PanelSet /\ p.kind = q.kind
      /\ q.kind = "rename" => p.row = q.row /\ p.input \in Typed
  <2>1. CASE q \in [kind : {"new", "folder"}, input : Typed]
    <3>1. p \in [kind : {"new", "folder"}, input : Typed]
      BY <2>1
    <3>2. p.kind = q.kind /\ q.kind # "rename"
      BY <2>1
    <3> QED BY <3>1, <3>2 DEF PanelSet
  <2>2. CASE q \in [kind : {"rename"}, row : RowSet, input : Place]
    <3>1. p \in [kind : {"rename"}, row : RowSet, input : Place]
      BY <1>6, <2>2
    <3>2. p.kind = q.kind /\ p.row = q.row /\ p.input = typed
      BY <2>2
    <3> QED BY <3>1, <3>2 DEF PanelSet
  <2> QED BY <1>3, <2>1, <2>2
<1> HIDE DEF p
<1>8. Fits([fm EXCEPT !.panel = p])
  BY <1>2, <1>5, <1>7, FitsPanel
<1> HIDE DEF x
<1>9. ResultOfRead(Now, x)
  BY <1>7, <1>8, FieldResult DEF x
<1> QED BY <1>4, <1>9, BecomesRead

LEMMA StepConfirm ==
  ASSUME IInv, KeyConfirm
  PROVE  Becomes
<1>1. CASE Showing(Inputs) /\ Do(Confirm(Now))
  <2>1. Now.fm.panel.kind \in {"delete", "new", "folder", "rename"}
    BY <1>1, NowFields DEF Showing, Inputs
  <2> QED BY <1>1, <2>1, NowReady, ConfirmResult DEF Do, Becomes
<1>2. CASE /\ Showing({"delete"})
           /\ Do(IF fm.panel.yes THEN Confirm(Now) ELSE Panel(Now, NoPanel))
  <2>1. Now.fm.panel.kind \in {"delete", "new", "folder", "rename"}
    BY <1>2, NowFields DEF Showing
  <2>2. CASE Do(Confirm(Now))
    BY <2>1, <2>2, NowReady, ConfirmResult DEF Do, Becomes
  <2>3. CASE Do(Panel(Now, NoPanel))
    <3>1. \A x \in Panel(Now, NoPanel) : ResultOfRead(Now, x)
      BY NowReady, CloseResult
    <3> QED BY <2>3, <3>1, DoReads
  <2> QED BY <1>2, <2>2, <2>3
<1> QED BY <1>1, <1>2 DEF KeyConfirm

LEMMA StepEscape ==
  ASSUME IInv, KeyEscape
  PROVE  Becomes
<1>1. CASE Showing({"menu"}) /\ Do(Panel(Now, NoPanel))
  <2>1. \A x \in Panel(Now, NoPanel) : ResultOfRead(Now, x)
    BY NowReady, CloseResult
  <2> QED BY <1>1, <2>1, DoReads
<1>2. CASE /\ Showing({"none"})
           /\ Do(IF fm.path # <<>> THEN Enter(Now, Parent(fm.path))
                 ELSE Launch(Now, PROGMAN))
  <2>1. Now.fm.panel.kind # "rename"
    BY <1>2, NowFields DEF Showing
  <2>2. CASE Do(Enter(Now, Parent(fm.path)))
    <3>1. Parent(fm.path) \in Folder
      BY NowPanel, ParentFolder
    <3>2. \A x \in Enter(Now, Parent(fm.path)) : ResultOfRead(Now, x)
      BY <2>1, <3>1, NowReady, EnterResult
    <3> QED BY <2>2, <3>2, DoReads
  <2>3. CASE Do(Launch(Now, PROGMAN))
    <3>1. \A x \in Launch(Now, PROGMAN) : ResultOfRead(Now, x)
      BY NowReady, LaunchResult
    <3> QED BY <2>3, <3>1, DoReads
  <2> QED BY <1>2, <2>2, <2>3
<1> QED BY <1>1, <1>2 DEF KeyEscape
LEMMA ItemsCount ==
  /\ Cardinality(Items(0)) = 7 /\ Cardinality(Items(1)) = 1
<1>1. Items(0) = 0..6 /\ Items(1) = {0}
  BY DEF Items
<1>2. Cardinality(0..6) = 7
  <2> DEFINE low == 0
             high == 6
  <2>1. low \in Int /\ high \in Int /\ low <= high /\ high - low + 1 = 7
    OBVIOUS
  <2> HIDE DEF low, high
  <2>2. Cardinality(low..high) = IF low > high THEN 0 ELSE high - low + 1
    BY <2>1, FS_Interval
  <2>3. Cardinality(low..high) = 7
    BY <2>1, <2>2
  <2> QED BY <2>3 DEF low, high
<1>3. Cardinality({0}) = 1
  BY FS_Singleton
<1> QED BY <1>1, <1>2, <1>3

LEMMA StepMenuItem ==
  ASSUME IInv, KeyMenuItem
  PROVE  Becomes
<1> DEFINE n == Cardinality(Items(fm.title))
           q == fm.panel
<1>1. /\ q \in PanelSet /\ q.kind = "menu" /\ q.item \in Items(fm.title)
      /\ fm \in Screen /\ Now \in World /\ fm.title \in {0, 1}
  BY NowPanel DEF KeyMenuItem, Showing, Fits
<1>2. PICK step \in {1, n - 1} : Become([Now EXCEPT !.fm.panel.item = (@ + step) % n])
  BY DEF KeyMenuItem, Do
<1> DEFINE i == (q.item + step) % n
           p == [q EXCEPT !.item = i]
           x == [Now EXCEPT !.fm.panel = p]
<1>3. Become(x)
  <2>1. [Now EXCEPT !.fm.panel.item = (@ + step) % n] = x
    BY <1>1, NowFields DEF World, Screen
  <2> HIDE DEF x, n
  <2> QED BY <1>2, <2>1
<1>4. i \in Items(fm.title)
  <2>1. CASE fm.title = 0
    <3>1. n = 7 /\ q.item \in 0..6
      BY <1>1, <2>1, ItemsCount DEF Items
    <3> HIDE DEF n, q
    <3>2. i \in 0..6
      BY <3>1
    <3> QED BY <2>1, <3>2 DEF Items
  <2>2. CASE fm.title = 1
    <3>1. n = 1 /\ q.item = 0
      BY <1>1, <2>2, ItemsCount DEF Items
    <3> HIDE DEF n, q
    <3>2. i = 0
      BY <3>1
    <3> QED BY <2>2, <3>2 DEF Items
  <2> QED BY <1>1, <2>1, <2>2
<1>5. i \in Nat
  BY <1>1, <1>4 DEF Items
<1>6. q \in [kind : {"menu"}, item : Nat]
  <2> HIDE DEF q
  <2> QED BY <1>1 DEF PanelSet, NoPanel
<1> HIDE DEF i, q, n
<1>7. p \in PanelSet /\ p.kind = "menu" /\ p.item = i
  <2>1. p \in [kind : {"menu"}, item : Nat]
    BY <1>5, <1>6
  <2>2. p.kind = "menu" /\ p.item = i
    BY <1>6
  <2> QED BY <2>1, <2>2 DEF PanelSet
<1> HIDE DEF p
<1>8. Fits([fm EXCEPT !.panel = p])
  BY <1>1, <1>4, <1>7, FitsPanel
<1> HIDE DEF x
<1>9. ResultOfRead(Now, x)
  BY <1>7, <1>8, FieldResult DEF x
<1> QED BY <1>3, <1>9, BecomesRead

LEMMA StepMenuTitle ==
  ASSUME IInv, KeyMenuTitle
  PROVE  Becomes
<1>1. 1 - fm.title \in {0, 1}
  BY NowPanel
<1>2. \A x \in OpenMenu(Now, 1 - fm.title) : ResultOfRead(Now, x)
  <2> DEFINE title == 1 - fm.title
  <2> HIDE DEF title
  <2>1. \A x \in OpenMenu(Now, title) : ResultOfRead(Now, x)
    BY <1>1, NowReady, OpenMenuResult DEF title
  <2> QED BY <2>1 DEF title
<1> QED BY <1>2, DoReads DEF KeyMenuTitle

LEMMA StepMenuEnter ==
  ASSUME IInv, KeyMenuEnter
  PROVE  Becomes
<1> DEFINE item == fm.panel.item
<1>1. Now.fm.panel.kind = "menu" /\ item \in Items(Now.fm.title)
  BY NowPanel, NowFields DEF KeyMenuEnter, Showing, Fits
<1>2. Do(Perform(Now, item))
  BY DEF KeyMenuEnter
<1> HIDE DEF item
<1>3. \A x \in Perform(Now, item) : ResultOfRead(Now, x)
  BY <1>1, NowReady, PerformResult
<1> QED BY <1>2, <1>3, DoReads

LEMMA StepUpDown ==
  ASSUME IInv, KeyUpDown
  PROVE  Becomes
<1>1. PICK i \in {fm.selected - 1, fm.selected + 1} \intersect DOMAIN fm.rows :
        Do({[Now EXCEPT !.fm = Scrolled([fm EXCEPT !.selected = i])]})
  BY DEF KeyUpDown
<1> DEFINE x == [Now EXCEPT !.fm = Scrolled([Now.fm EXCEPT !.selected = i])]
<1>2. Become(x)
  BY <1>1, NowFields DEF Do
<1>3. Selects(Now, i, x)
  BY DEF Selects
<1> HIDE DEF x
<1>4. i \in DOMAIN Now.fm.rows /\ Now.fm.panel.kind = "none"
  BY <1>1, NowFields DEF KeyUpDown, Showing
<1>5. ResultOfRead(Now, x)
  BY <1>3, <1>4, NowReady, SelectResult
<1> QED BY <1>2, <1>5, BecomesRead

LEMMA StepEnterOrLetter ==
  ASSUME IInv, KeyEnter \/ KeyLetter
  PROVE  Becomes
<1>1. Now.fm.panel.kind = "none"
  BY NowFields DEF KeyEnter, KeyLetter, Showing
<1>2. fm.title \in {0, 1}
  BY NowPanel
<1>3. /\ \A x \in OpenSelected(Now) : ResultOfRead(Now, x)
      /\ \A x \in StartInput(Now, "new") : ResultOfRead(Now, x)
      /\ \A x \in StartInput(Now, "folder") : ResultOfRead(Now, x)
      /\ \A x \in Refresh(Now) : ResultOfRead(Now, x)
      /\ \A x \in StartDelete(Now) : ResultOfRead(Now, x)
      /\ \A x \in StartRename(Now) : ResultOfRead(Now, x)
      /\ \A x \in OpenMenu(Now, fm.title) : ResultOfRead(Now, x)
  <2>1. \A x \in OpenSelected(Now) : ResultOfRead(Now, x)
    BY <1>1, NowReady, OpenSelectedResult
  <2>2. /\ \A x \in StartInput(Now, "new") : ResultOfRead(Now, x)
        /\ \A x \in StartInput(Now, "folder") : ResultOfRead(Now, x)
    BY NowReady, StartInputResult
  <2>3. \A x \in Refresh(Now) : ResultOfRead(Now, x)
    BY <1>1, NowReady, RefreshResult
  <2>4. \A x \in StartDelete(Now) : ResultOfRead(Now, x)
    BY NowReady, StartDeleteResult
  <2>5. \A x \in StartRename(Now) : ResultOfRead(Now, x)
    BY NowReady, StartRenameResult
  <2>6. \A x \in OpenMenu(Now, fm.title) : ResultOfRead(Now, x)
    BY <1>2, NowReady, OpenMenuResult
  <2> QED BY <2>1, <2>2, <2>3, <2>4, <2>5, <2>6
<1> QED BY <1>3, DoReads DEF KeyEnter, KeyLetter

LEMMA RememberBecomes ==
  ASSUME NEW S, NEW left \in BOOLEAN, Remember(S, left), \A x \in S : Result(Now, x)
  PROVE  Becomes
<1>1. PICK x \in S : Become([x EXCEPT !.fm.prev = left])
  BY DEF Remember, Do
<1> DEFINE y == [x EXCEPT !.fm.prev = left]
<1>2. Result(Now, y)
  BY <1>1, RememberResult
<1> HIDE DEF y
<1> QED BY <1>1, <1>2 DEF Becomes, y

LEMMA StepMouse ==
  ASSUME IInv,
         \/ \E p \in Point : MousePress(p)
         \/ \E left \in BOOLEAN : MouseRight(left)
         \/ \E left \in BOOLEAN : MouseOther(left)
  PROVE  Becomes
<1>1. ASSUME NEW p \in Point, MousePress(p) PROVE Becomes
  <2>1. \A x \in Press(Now, p) : Result(Now, x)
    BY NowReady, PressResult
  <2>2. Remember(Press(Now, p), TRUE) /\ TRUE \in BOOLEAN
    BY <1>1 DEF MousePress
  <2> QED BY <2>1, <2>2, RememberBecomes
<1>2. ASSUME NEW left \in BOOLEAN, MouseRight(left) PROVE Becomes
  <2>1. \A x \in OpenMenu(Now, fm.title) : Result(Now, x)
    BY NowPanel, NowReady, OpenMenuResult, ReadResult
  <2>2. Remember(OpenMenu(Now, fm.title), left)
    BY <1>2 DEF MouseRight
  <2> QED BY <2>1, <2>2, RememberBecomes
<1>3. ASSUME NEW left \in BOOLEAN, MouseOther(left) PROVE Becomes
  <2>1. \A x \in {Now} : Result(Now, x)
    BY NowReady, SelfResult, ReadResult
  <2>2. Remember({Now}, left)
    BY <1>3 DEF MouseOther
  <2> QED BY <2>1, <2>2, RememberBecomes
<1> QED BY <1>1, <1>2, <1>3

LEMMA ClosedScreen ==
  ASSUME NEW f, NEW s \in Seq(RowSet),
         f = [Closed EXCEPT !.running = TRUE, !.rows = s]
  PROVE  /\ f \in Screen /\ OnScreen(f) /\ Fits(f)
         /\ f.panel.kind = "none" /\ f.path = <<>>
<1>0. <<>> \in Folder /\ NoPanel \in PanelSet
  <2>1. <<>> \in Place /\ Len(<<>>) = 0
    BY DEF Place
  <2> QED BY <2>1, FsAssumption DEF Folder, PanelSet
<1> DEFINE c == Closed
           on == TRUE
           g == [c EXCEPT !.running = on]
           h == [g EXCEPT !.rows = s]
<1>1. /\ c \in Screen /\ c.selected = 1 /\ c.top = 1
      /\ c.panel = NoPanel /\ c.path = <<>>
  <2>1. <<>> \in Seq(RowSet)
    BY EmptySeq
  <2>2. c \in Screen
    BY <1>0, <2>1 DEF Closed, Screen
  <2>3. /\ c.selected = 1 /\ c.top = 1
        /\ c.panel = NoPanel /\ c.path = <<>>
    BY DEF Closed
  <2> QED BY <2>2, <2>3
<1>a. on \in BOOLEAN /\ f = h
  BY <1>1 DEF Screen
<1> HIDE DEF c, on
<1>b. /\ g \in Screen /\ g.selected = c.selected /\ g.top = c.top
      /\ g.panel = c.panel /\ g.path = c.path
  BY <1>1, <1>a DEF Screen
<1> HIDE DEF g
<1>c. /\ h \in Screen /\ h.rows = s /\ h.selected = g.selected /\ h.top = g.top
      /\ h.panel = g.panel /\ h.path = g.path
  BY <1>b DEF Screen
<1> HIDE DEF h
<1>2. f \in Screen
  BY <1>a, <1>c
<1>3. f.rows = s /\ f.selected = 1 /\ f.top = 1 /\ f.panel = NoPanel /\ f.path = <<>>
  BY <1>1, <1>a, <1>b, <1>c
<1>4. NoPanel.kind = "none"
  BY DEF NoPanel
<1>5. OnScreen(f)
  BY <1>3, ListAssumption DEF OnScreen
<1>6. Fits(f)
  BY <1>3, <1>4 DEF Fits
<1> QED BY <1>2, <1>3, <1>4, <1>5, <1>6

LEMMA StepStart ==
  ASSUME IInv, Start
  PROVE  Becomes
<1> DEFINE f == [Closed EXCEPT !.running = TRUE, !.rows = fm.rows]
           w == [Now EXCEPT !.fm = f]
<1>1. PICK x \in Refresh(w) : Become(x)
  BY DEF Start, Do
<1>2. fm.rows \in Seq(RowSet) /\ Now \in World
  BY NowPanel DEF Screen
<1>3. f \in Screen /\ OnScreen(f) /\ Fits(f) /\ f.panel.kind = "none"
  BY <1>2, ClosedScreen
<1> HIDE DEF f
<1>4. /\ w \in World /\ w.fm = f
      /\ w.fs = Now.fs /\ w.sent = Now.sent /\ w.behind = Now.behind
  BY <1>2, <1>3, WorldScreen, ZenonT(60)
<1> HIDE DEF w
<1>5. Sound(w)
  BY <1>3, <1>4 DEF Sound, IInv, Valid
<1>6. Valid(x) /\ x.fs \in F!TryEnable(Now.fs, FALSE) /\ x.sent = Now.sent
  BY <1>1, <1>3, <1>4, <1>5, RefreshValid
<1>7. ResultOfRead(Now, x)
  BY <1>6, NowReady, Still DEF Reads
<1> QED BY <1>1, <1>7, BecomesRead

(* Every step of Fileman but the editor's is a step of the file manager.   *)
LEMMA Steps ==
  ASSUME IInv, Next
  PROVE  Becomes \/ \E p \in FilePaths, c \in Data : EditorSaves(p, c)
<1>1. CASE Start
  BY <1>1, StepStart
<1>2. CASE KeyAbout \/ KeyCancel
  BY <1>2, StepAbout
<1>3. CASE KeyOtherAnswer
  BY <1>3, StepOtherAnswer
<1>4. CASE KeyType
  BY <1>4, StepType
<1>5. CASE KeyConfirm
  BY <1>5, StepConfirm
<1>6. CASE KeyEscape
  BY <1>6, StepEscape
<1>7. CASE KeyMenuItem
  BY <1>7, StepMenuItem
<1>8. CASE KeyMenuTitle
  BY <1>8, StepMenuTitle
<1>9. CASE KeyMenuEnter
  BY <1>9, StepMenuEnter
<1>10. CASE KeyUpDown
  BY <1>10, StepUpDown
<1>11. CASE KeyEnter \/ KeyLetter
  BY <1>11, StepEnterOrLetter
<1>12. CASE \/ \E p \in Point : MousePress(p)
            \/ \E left \in BOOLEAN : MouseRight(left)
            \/ \E left \in BOOLEAN : MouseOther(left)
  BY <1>12, StepMouse
<1> QED BY <1>1, <1>2, <1>3, <1>4, <1>5, <1>6, <1>7, <1>8, <1>9, <1>10, <1>11, <1>12
        DEF Next

(* The editor's save leaves the rows behind when it changes the table.     *)
LEMMA StepEditor ==
  ASSUME IInv, NEW p \in FilePaths, NEW c \in Data, EditorSaves(p, c)
  PROVE  \E x : Become(x) /\ Valid(x) /\ x.sent = Nothing
<1>0. PICK s \in F!TryEnable(F!Now, TRUE) :
        \E u \in F!WriteResult(s, p, c) : Become(Unknown(Now, u))
  BY DEF EditorSaves
<1>1. PICK u \in F!WriteResult(s, p, c) : Become(Unknown(Now, u))
  BY <1>0
<1>2. FP!Good(s)
  BY <1>0, NowReady, GoodBefore, NowFields
<1>3. p \in F!Path /\ c \in Contents
  BY FsAssumption, ListAssumption
<1>4. FP!Good(u)
  BY <1>1, <1>2, <1>3, WriteKeeps DEF Keeps
<1>5. Ready(Unknown(Now, u))
  BY <1>4, NowReady, UnknownValid
<1> QED BY <1>1, <1>5 DEF Ready
-----------------------------------------------------------------------------
LEMMA SameNow ==
  /\ F!Now = FP!Now
  /\ \A u : F!Become(u) = FP!Become(u)
  BY DEF F!Now, FP!Now, F!Become, FP!Become

LEMMA InitIInv == Init => IInv
<1> SUFFICES ASSUME Init PROVE IInv
  OBVIOUS
<1>1. FP!Good(F!Now)
  <2>1. FP!Init
    BY DEF Init, F!Init, FP!Init, F!EmptyTable, FP!EmptyTable, F!FreeEntry, FP!FreeEntry,
           F!Slot, FP!Slot
  <2>2. FP!IInv
    BY <2>1, FsParts, FP!InitIInv
  <2> QED BY <2>2, SameNow DEF FP!IInv
<1>2. /\ Closed \in Screen /\ OnScreen(Closed) /\ Fits(Closed)
  <2>1. <<>> \in Folder /\ NoPanel \in PanelSet /\ <<>> \in Seq(RowSet)
    <3>1. <<>> \in Place /\ Len(<<>>) = 0
      BY DEF Place
    <3> QED BY <3>1, EmptySeq, FsAssumption DEF Folder, PanelSet
  <2>2. Closed \in Screen
    BY <2>1 DEF Closed, Screen
  <2>3. Closed.rows = <<>> /\ Closed.selected = 1 /\ Closed.top = 1
        /\ Closed.panel = NoPanel
    BY DEF Closed
  <2>4. NoPanel.kind = "none"
    BY DEF NoPanel
  <2> QED BY <2>2, <2>3, <2>4 DEF OnScreen, Fits
<1>3. Now = [fs |-> F!Now, fm |-> Closed, sent |-> Nothing, behind |-> TRUE]
  BY DEF Init, Now
<1>4. Now \in World
  BY <1>1, <1>2, <1>3, NothingAsked DEF World, FP!Good
<1>5. Now.fs = F!Now /\ Now.fm = Closed /\ Now.behind = TRUE
  BY <1>3
<1>6. RowsBelow(Closed.rows, Closed.path)
  BY DEF RowsBelow, Closed
<1> QED BY <1>1, <1>2, <1>4, <1>5, <1>6 DEF IInv, Valid, Sound, Current

LEMMA BecomesValid ==
  ASSUME NEW x, Valid(x), Become(x)
  PROVE  /\ IInv'
         /\ fm' = x.fm /\ behind' = x.behind /\ sent' = x.sent
         /\ F!Now' = x.fs /\ entries' = x.fs.entries
<1> DEFINE y == [x EXCEPT !.sent = Nothing]
<1>1. /\ fm' = x.fm /\ behind' = x.behind /\ sent' = x.sent
      /\ FP!Become(x.fs) /\ entries' = x.fs.entries
  BY SameNow DEF Become, F!Become
<1>2. x.fs \in FP!State /\ x \in World
  BY DEF Valid, Sound, FP!Good
<1>3. F!Now' = x.fs
  <2>1. FP!Now' = x.fs
    BY <1>1, <1>2, FsParts, FP!BecomesNow
  <2>2. F!Now' = FP!Now'
    BY DEF F!Now, FP!Now
  <2> QED BY <2>1, <2>2
<1>4. /\ Valid(y) /\ y.sent = Nothing
      /\ y.fs = x.fs /\ y.fm = x.fm /\ y.behind = x.behind
  BY NothingAsked, Sent, ZenonT(60)
<1>5. y \in World
  BY <1>4 DEF Valid, Sound
<1> HIDE DEF y
<1>6. y = [fs |-> y.fs, fm |-> y.fm, sent |-> y.sent, behind |-> y.behind]
  BY <1>5 DEF World
<1>7. Now' = [fs |-> F!Now', fm |-> fm', sent |-> Nothing, behind |-> behind']
  BY DEF Now, Nothing
<1>8. Now' = y
  BY <1>1, <1>3, <1>4, <1>6, <1>7
<1>9. IInv'
  BY <1>4, <1>8 DEF IInv
<1> QED BY <1>1, <1>3, <1>9

LEMMA NextIInv == IInv /\ [Next]_vars => IInv'
<1> SUFFICES ASSUME IInv, [Next]_vars PROVE IInv'
  OBVIOUS
<1>1. CASE Becomes
  BY <1>1, BecomesValid DEF Becomes, Result
<1>2. CASE \E p \in FilePaths, c \in Data : EditorSaves(p, c)
  BY <1>2, StepEditor, BecomesValid
<1>3. CASE UNCHANGED vars
  <2>1. Now' = Now
    BY <1>3 DEF vars, F!vars, Now, F!Now, Nothing
  <2> QED BY <2>1 DEF IInv
<1> QED BY <1>1, <1>2, <1>3, Steps

THEOREM Invariance == Spec => []IInv
  BY InitIInv, NextIInv, PTL DEF Spec

(***************************************************************************)
(* What is on the screen is what the file system holds, unless the editor  *)
(* or a call that returned 0 has changed it since: whatever the file       *)
(* manager itself has changed it has read again, after every sequence of   *)
(* keys, presses and saves and for every way the disk can fail.            *)
(***************************************************************************)
THEOREM RowsStayCurrent == Spec => []RowsAreCurrent
<1>1. IInv => RowsAreCurrent
  <2> SUFFICES ASSUME IInv PROVE RowsAreCurrent
    OBVIOUS
  <2>1. F!Now.entries = entries
    BY DEF F!Now
  <2> QED BY <2>1, NowFields DEF IInv, Valid, Current, RowsAreCurrent
<1> QED BY <1>1, Invariance, PTL

(***************************************************************************)
(* The selection is on a row that is on the screen, a menu shows an item   *)
(* of its own, and a dialog is about a row that may be changed.            *)
(***************************************************************************)
THEOREM TypeCorrect == Spec => []TypeOK
<1>1. IInv => TypeOK
  <2> SUFFICES ASSUME IInv PROVE TypeOK
    OBVIOUS
  <2>1. /\ fm \in Screen /\ fm.panel \in PanelSet /\ Fits(fm)
        /\ fm.path \in Folder /\ fm.title \in {0, 1}
    BY NowPanel
  <2>2. fm.path \in F!Path \union {<<>>}
    BY <2>1 DEF Folder, Place
  <2>3. IF fm.rows = <<>> THEN fm.selected = 1 /\ fm.top = 1
        ELSE /\ fm.selected \in DOMAIN fm.rows
             /\ fm.top \in 1..fm.selected /\ fm.selected < fm.top + Visible
    <3>1. OnScreen(fm)
      BY NowFields DEF IInv, Valid, Sound
    <3>2. fm.top \in Nat \ {0} /\ fm.selected \in Nat \ {0}
      BY <2>1 DEF Screen
    <3> QED BY <3>1, <3>2 DEF OnScreen
  <2>4. \/ fm.panel \in PanelType
        \/ /\ fm.panel.kind \in {"delete", "rename"}
           /\ fm.panel.row.kind \in {"dir", "file"}
           /\ ~F!Reserved(fm.panel.row.target)
    <3> DEFINE q == fm.panel
    <3>1. CASE q.kind \in {"delete", "rename"}
      BY <2>1, <3>1 DEF Fits
    <3>2. CASE q.kind = "menu"
      <4>1. q.item \in Items(fm.title) /\ q \in PanelSet
        BY <2>1, <3>2 DEF Fits
      <4> HIDE DEF q
      <4>2. q \in [kind : {"menu"}, item : Items(fm.title)]
        BY <3>2, <4>1 DEF PanelSet, NoPanel
      <4> QED BY <4>2 DEF PanelType, q
    <3>3. CASE q.kind \notin {"delete", "rename", "menu"}
      <4>1. q \in PanelSet
        BY <2>1
      <4> HIDE DEF q
      <4>2. q \in { NoPanel, [kind |-> "about"] }
                  \union [kind : {"new", "folder"}, input : Typed]
        BY <3>3, <4>1 DEF PanelSet, NoPanel
      <4> QED BY <4>2 DEF PanelType, q
    <3> QED BY <3>1, <3>2, <3>3
  <2> QED BY <2>1, <2>2, <2>3, <2>4 DEF TypeOK
<1> QED BY <1>1, Invariance, PTL

(***************************************************************************)
(* What Fs promises of the table and the image holds under everything the  *)
(* file manager and the editor do: the names the dialogs make fit a slot.  *)
(***************************************************************************)
THEOREM FileSystemStaysGood ==
  Spec => [](F!TypeOK /\ F!UniqueNames /\ F!WriteThrough /\ F!WholeFiles)
<1>1. IInv => F!TypeOK /\ F!UniqueNames /\ F!WriteThrough /\ F!WholeFiles
  <2> SUFFICES ASSUME IInv
               PROVE  F!TypeOK /\ F!UniqueNames /\ F!WriteThrough /\ F!WholeFiles
    OBVIOUS
  <2>1. FP!Good(FP!Now)
    BY NowFields, SameNow DEF IInv, Valid, Sound
  <2>2. /\ FP!Now \in FP!State
        /\ FP!Now.entries = entries /\ FP!Now.disk = disk
        /\ FP!Now.probeDone = probeDone /\ FP!Now.enabled = enabled
        /\ FP!Now.torn = torn /\ FP!Now.mixed = mixed /\ FP!Now.lag = lag
    BY <2>1 DEF FP!Good, FP!Now
  <2>3. F!TypeOK
    BY <2>2, SameNames DEF FP!State, FP!Image, F!TypeOK, F!Table, FP!Table, F!Entry, FP!Entry
  <2>4. F!UniqueNames
    BY <2>1, <2>2, SameNames DEF FP!Good, FP!NeverTwice, F!UniqueNames,
                                  F!Distinct, FP!Distinct
  <2>5. F!WriteThrough
    BY <2>1, <2>2 DEF FP!Good, FP!InSync, F!WriteThrough
  <2>6. F!WholeFiles
    BY <2>1, <2>2, SameNames DEF FP!Good, FP!NeverTorn, F!WholeFiles, F!Whole, FP!Whole
  <2> QED BY <2>3, <2>4, <2>5, <2>6
<1> QED BY <1>1, Invariance, PTL

(***************************************************************************)
(* Every file the editor is asked for is in the table, is one of EAGLEOS,  *)
(* or stood in a row that a change nobody reported has made old.           *)
(***************************************************************************)
THEOREM EditorOpensFiles == Spec => OpensFiles
<1> DEFINE Opened ==
             sent'.file # <<>> =>
               \/ F!HasEntry(entries', sent'.file)
               \/ F!Reserved(sent'.file)
               \/ /\ behind
                  /\ Row("file", sent'.file) \in { fm.rows[i] : i \in DOMAIN fm.rows }
<1>1. IInv /\ [Next]_vars => [Opened]_vars
  <2> SUFFICES ASSUME IInv, Next PROVE Opened
    OBVIOUS
  <2>1. CASE Becomes
    <3>1. PICK x : Become(x) /\ Valid(x) /\ Asks(Now, x)
      BY <2>1 DEF Becomes, Result
    <3>2. sent' = x.sent /\ entries' = x.fs.entries
      BY <3>1, BecomesValid
    <3> QED BY <3>1, <3>2, NowFields DEF Asks
  <2>2. CASE \E p \in FilePaths, c \in Data : EditorSaves(p, c)
    <3>1. PICK x : Become(x) /\ Valid(x) /\ x.sent = Nothing
      BY <2>2, StepEditor
    <3>2. sent' = Nothing
      BY <3>1, BecomesValid
    <3> QED BY <3>2, NothingAsked
  <2> QED BY <2>1, <2>2, Steps
<1> QED BY <1>1, Invariance, PTL DEF Spec, OpensFiles
-----------------------------------------------------------------------------
(***************************************************************************)
(* What the operations leave of the other files.  A name that ends in the  *)
(* marker's makes a marker of a file: fs.c lets the dialogs do that, too,  *)
(* so that it is a hypothesis that nobody types it.                        *)
(***************************************************************************)
NoMarkTyped == \A name \in Typed : \A i \in DOMAIN name : name[i] # MARK

Moved(file, old, new) == [file EXCEPT !.name = F!Renamed(@, old, new)]

(* What is asked, of the table b, with the dialog w.                       *)
Asked(w, b, t) ==
  \A file \in FilesIn(b) :
    \/ file \in FilesIn(t)
    \/ w.fm.panel.kind = "delete" /\ file.name = w.fm.panel.row.target
    \/ /\ w.fm.panel.kind = "rename"
       /\ IsPrefix(w.fm.panel.row.target, file.name)
       /\ Moved(file, w.fm.panel.row.target, Target(w)) \in FilesIn(t)
    \/ /\ w.fm.panel.kind = "new"
       /\ file.name = Target(w)

LEMMA InFiles ==
  ASSUME NEW b
  PROVE  /\ \A file \in FilesIn(b) : \E i \in FP!Slot :
              file = b[i] /\ b[i].name # <<>> /\ Last(b[i].name) # MARK
         /\ \A i \in FP!Slot : b[i].name # <<>> /\ Last(b[i].name) # MARK =>
              b[i] \in FilesIn(b)
  BY SameNames DEF FilesIn, F!Used

(* One slot is replaced: every other file stays.                           *)
LEMMA OthersStay ==
  ASSUME NEW b, b \in FP!Table, NEW i, i \in FP!Slot, NEW e,
         NEW file, file \in FilesIn(b), file \notin FilesIn([b EXCEPT ![i] = e])
  PROVE  file = b[i] /\ b[i].name # <<>> /\ Last(b[i].name) # MARK
<1> DEFINE t == [b EXCEPT ![i] = e]
<1>1. PICK j \in FP!Slot : file = b[j] /\ b[j].name # <<>> /\ Last(b[j].name) # MARK
  BY InFiles
<1>2. j # i => t[j] = b[j]
  BY <1>1 DEF FP!Table
<1> HIDE DEF t
<1>3. j # i => file \in FilesIn(t)
  BY <1>1, <1>2, InFiles
<1> QED BY <1>1, <1>3 DEF t

LEMMA LastOfPath ==
  ASSUME NEW d \in Seq(Component), NEW e
  PROVE  Last(Append(d, e)) = e
<1>1. Len(Append(d, e)) = Len(d) + 1 /\ Append(d, e)[Len(d) + 1] = e /\ Len(d) \in Nat
  OBVIOUS
<1> QED BY <1>1 DEF Last

(* The operations, one by one, on a file that the table had before.        *)
LEMMA DeletedStay ==
  ASSUME NEW s, FP!Good(s), NEW p, FP!HasEntry(s.entries, p),
         NEW v, v \in FP!Commit(s, FP!Deleted(s.entries, p)),
         NEW file, file \in FilesIn(s.entries)
  PROVE  file \in FilesIn(v.entries) \/ (file.name = p /\ Last(p) # MARK)
<1> DEFINE b == s.entries
           i == FP!Min(FP!Holding(b, p))
           t == FP!Deleted(b, p)
<1>1. s \in FP!State /\ b \in FP!Table
  BY GoodTable DEF FP!Good
<1>2. t \in FP!Table
  BY <1>1, FsParts, FP!DeletedSafe DEF FP!SafeChange
<1>3. t = [b EXCEPT ![i] = FP!FreeEntry]
  BY DEF FP!Deleted
<1> HIDE DEF t
<1>4. v.entries = t
  BY <1>1, <1>2, FsParts, FP!CommitFields DEF t
<1>5. i \in FP!Slot /\ b[i].name = p
  BY <1>1, FsParts, FP!Found
<1> HIDE DEF b, i
<1>6. file \notin FilesIn(t) => file = b[i] /\ Last(b[i].name) # MARK
  BY <1>1, <1>3, <1>5, OthersStay DEF b
<1> QED BY <1>4, <1>5, <1>6

LEMMA DeleteStay ==
  ASSUME NEW s, FP!Good(s), NEW p, NEW v, v \in F!DeleteResult(s, p),
         NEW file, file \in FilesIn(s.entries)
  PROVE  file \in FilesIn(v.entries) \/ file.name = p
<1>1. v \in FP!DeleteResult(s, p)
  BY SameFileResults
<1>2. v = s \/ /\ FP!HasEntry(s.entries, p)
               /\ v \in FP!Commit(s, FP!Deleted(s.entries, p))
  BY <1>1 DEF FP!DeleteResult
<1> QED BY <1>2, DeletedStay

LEMMA DeleteDirStay ==
  ASSUME NEW s, FP!Good(s), NEW d, d \in F!Path, NEW v, v \in F!DeleteDirResult(s, d),
         NEW file, file \in FilesIn(s.entries)
  PROVE  file \in FilesIn(v.entries)
<1>1. v \in FP!DeleteDirResult(s, d)
  BY SameDirResults
<1>2. v = s \/ /\ FP!HasEntry(s.entries, FP!Marker(d))
               /\ v \in FP!Commit(s, FP!Deleted(s.entries, FP!Marker(d)))
  BY <1>1 DEF FP!DeleteDirResult
<1>3. Last(FP!Marker(d)) = MARK
  BY PathParts, LastOfPath DEF FP!Marker
<1> QED BY <1>2, <1>3, DeletedStay

LEMMA WriteStay ==
  ASSUME NEW s, FP!Good(s), NEW p, p \in F!Path, NEW c, c \in Contents,
         NEW v, v \in F!WriteResult(s, p, c),
         NEW file, file \in FilesIn(s.entries)
  PROVE  file \in FilesIn(v.entries) \/ file.name = p
<1> DEFINE b == s.entries
           i == IF FP!HasEntry(b, p) THEN FP!Min(FP!Holding(b, p)) ELSE FP!Min(FP!Free(b))
           e == [name |-> p, head |-> c, tail |-> c]
           t == FP!Written(b, p, c)
<1>1. s \in FP!State /\ b \in FP!Table /\ p \in FP!Path
  BY GoodTable, SameNames DEF FP!Good
<1>2. v = s \/ ((FP!HasEntry(b, p) \/ FP!Free(b) # {}) /\ v \in FP!Commit(s, t))
  <2>1. v \in FP!WriteResult(s, p, c)
    BY SameFileResults
  <2> QED BY <2>1 DEF FP!WriteResult
<1>3. SUFFICES ASSUME FP!HasEntry(b, p) \/ FP!Free(b) # {}, v \in FP!Commit(s, t)
               PROVE  file \in FilesIn(v.entries) \/ file.name = p
  BY <1>2
<1>4. t \in FP!Table
  BY <1>1, <1>3, FsParts, FP!WrittenSafe DEF FP!SafeChange
<1>5. t = [b EXCEPT ![i] = e]
  BY Zenon DEF FP!Written
<1> HIDE DEF t
<1>6. v.entries = t
  BY <1>1, <1>3, <1>4, FsParts, FP!CommitFields
<1>7. i \in FP!Slot /\ (b[i].name = p \/ b[i].name = <<>>)
  BY <1>1, <1>3, FsParts, FP!Found
<1>8. file \in FilesIn(b)
  OBVIOUS
<1> HIDE DEF b, i, e
<1>9. file \notin FilesIn(t) => file = b[i] /\ b[i].name # <<>>
  <2> SUFFICES ASSUME file \notin FilesIn(t) PROVE file = b[i] /\ b[i].name # <<>>
    OBVIOUS
  <2>1. file \notin FilesIn([b EXCEPT ![i] = e])
    BY <1>5
  <2>2. b \in FP!Table /\ i \in FP!Slot
    BY <1>1, <1>7
  <2> QED BY <1>8, <2>1, <2>2, OthersStay
<1> QED BY <1>6, <1>7, <1>9

LEMMA CreateDirStay ==
  ASSUME NEW s, FP!Good(s), NEW d, d \in F!Path,
         NEW v, v \in F!CreateDirResult(s, d),
         NEW file, file \in FilesIn(s.entries)
  PROVE  file \in FilesIn(v.entries)
<1> DEFINE b == s.entries
           i == FP!Min(FP!Free(b))
           e == [FP!FreeEntry EXCEPT !.name = FP!Cut(FP!Marker(d))]
           t == [b EXCEPT ![i] = e]
<1>1. s \in FP!State /\ b \in FP!Table /\ d \in FP!Path
  BY GoodTable, SameNames DEF FP!Good
<1>2. v = s \/ /\ ~FP!DirectoryExists(b, d) /\ ~FP!HasEntry(b, d) /\ FP!Free(b) # {}
               /\ v \in FP!Commit(s, t)
  <2>1. v \in FP!CreateDirResult(s, d)
    BY SameDirResults
  <2> QED BY <2>1 DEF FP!CreateDirResult
<1>3. SUFFICES ASSUME ~FP!DirectoryExists(b, d), ~FP!HasEntry(b, d), FP!Free(b) # {},
                      v \in FP!Commit(s, t)
               PROVE  file \in FilesIn(v.entries)
  BY <1>2
<1>4. t \in FP!Table
  <2>1. d # <<SYS>>
    BY <1>3 DEF FP!DirectoryExists
  <2> QED BY <1>1, <1>3, <2>1, FsParts, FP!MarkedSafe DEF FP!SafeChange
<1> HIDE DEF e
<1>5. t = [b EXCEPT ![i] = e]
  OBVIOUS
<1> HIDE DEF t
<1>6. v.entries = t
  BY <1>1, <1>3, <1>4, FsParts, FP!CommitFields
<1>7. i \in FP!Slot /\ b[i].name = <<>>
  BY <1>1, <1>3, FsParts, FP!Found
<1> HIDE DEF b, i
<1>8. file \notin FilesIn(t) => b[i].name # <<>>
  BY <1>1, <1>5, <1>7, OthersStay DEF b
<1> QED BY <1>6, <1>7, <1>8

LEMMA RenameStay ==
  ASSUME NEW s, FP!Good(s), NEW p, p \in F!Path, NEW q, q \in F!Path,
         Last(p) # MARK => Last(q) # MARK,
         NEW v, v \in F!RenameResult(s, p, q),
         NEW file, file \in FilesIn(s.entries)
  PROVE  \/ file \in FilesIn(v.entries)
         \/ IsPrefix(p, file.name) /\ Moved(file, p, q) \in FilesIn(v.entries)
<1> DEFINE b == s.entries
           i == FP!Min(FP!Holding(b, p))
           e == [b[i] EXCEPT !.name = q]
           t == [b EXCEPT ![i].name = q]
<1>1. s \in FP!State /\ b \in FP!Table /\ p \in FP!Path /\ q \in FP!Path
  BY GoodTable, SameNames DEF FP!Good
<1>2. v = s \/ /\ FP!HasEntry(b, p) /\ (p = q \/ ~FP!HasEntry(b, q))
               /\ v \in FP!Commit(s, t)
  <2>1. v \in FP!RenameResult(s, p, q)
    BY SameFileResults
  <2> QED BY <2>1 DEF FP!RenameResult
<1>3. SUFFICES ASSUME FP!HasEntry(b, p), p = q \/ ~FP!HasEntry(b, q), v \in FP!Commit(s, t)
               PROVE  \/ file \in FilesIn(v.entries)
                      \/ IsPrefix(p, file.name) /\ Moved(file, p, q) \in FilesIn(v.entries)
  BY <1>2
<1>4. t \in FP!Table
  BY <1>1, <1>3, FsParts, FP!RenamedSafe DEF FP!SafeChange
<1>5. t = [b EXCEPT ![i] = e]
  OBVIOUS
<1> HIDE DEF t
<1>6. v.entries = t
  BY <1>1, <1>3, <1>4, FsParts, FP!CommitFields
<1>7. i \in FP!Slot /\ b[i].name = p
  BY <1>1, <1>3, FsParts, FP!Found
<1>8. file \in FilesIn(b)
  OBVIOUS
<1> HIDE DEF b, i
<1>9. b[i] \in FP!Entry /\ e.name = q /\ t[i] = e
  <2>1. b[i] \in FP!Entry
    BY <1>1, <1>7 DEF FP!Table
  <2>2. e.name = q
    BY <2>1 DEF FP!Entry
  <2> HIDE DEF e
  <2>3. t[i] = e
    BY <1>1, <1>5, <1>7 DEF FP!Table
  <2> QED BY <2>1, <2>2, <2>3
<1>10. SUFFICES ASSUME file \notin FilesIn(t)
                PROVE  IsPrefix(p, file.name) /\ Moved(file, p, q) \in FilesIn(t)
  BY <1>6
<1>11. file = b[i] /\ Last(p) # MARK
  <2> HIDE DEF e
  <2> QED BY <1>1, <1>5, <1>7, <1>8, <1>10, OthersStay, Zenon
<1>12. q # <<>> /\ Last(q) # MARK
  BY <1>11, PathParts
<1>13. IsPrefix(p, p) /\ F!Renamed(p, p, q) = q
  <2>1. p \in Seq(Component) /\ Len(p) \in Nat /\ q \in Seq(Component) /\ Len(q) \in Nat
    BY PathParts
  <2>2. IsPrefix(p, p)
    BY <2>1, PrefixElements
  <2>3. FP!IsPrefix(p, p)
    BY <2>2 DEF IsPrefix, FP!IsPrefix
  <2> DEFINE r == FP!Renamed(p, p, q)
  <2>4. /\ r \in Seq(Component) /\ Len(r) = Len(q) + Len(p) - Len(p)
        /\ \A k \in 1..Len(q) : r[k] = q[k]
    BY <2>1, <2>3, FsParts, FP!RenamedElements, ZenonT(60)
  <2>5. r = F!Renamed(p, p, q)
    BY DEF F!Renamed, FP!Renamed
  <2> HIDE DEF r
  <2>6. Len(r) = Len(q)
    BY <2>1, <2>4
  <2>7. r = q
    BY <2>1, <2>4, <2>6, SeqEqual
  <2> QED BY <2>2, <2>5, <2>7
<1>14. Moved(file, p, q) = e
  BY <1>7, <1>11, <1>13 DEF Moved
<1> HIDE DEF e
<1>15. t[i] \in FilesIn(t)
  BY <1>7, <1>9, <1>12, InFiles, Zenon
<1> QED BY <1>7, <1>9, <1>11, <1>13, <1>14, <1>15

(* The parts of a path that is renamed with its folder.                    *)
LEMMA RenamedParts ==
  ASSUME NEW f \in Seq(Component), NEW p \in Seq(Component), NEW q \in Seq(Component),
         FP!IsPrefix(p, f)
  PROVE  LET r == FP!Renamed(f, p, q) IN
         /\ r \in Seq(Component)
         /\ Len(p) <= Len(f)
         /\ Len(r) = Len(q) + Len(f) - Len(p)
         /\ \A k \in 1..Len(q) : r[k] = q[k]
         /\ \A k \in 1..(Len(f) - Len(p)) : r[Len(q) + k] = f[Len(p) + k]
         /\ \A k \in 1..Len(p) : f[k] = p[k]
  BY FsParts, FP!RenamedElements

(* What is renamed with its folder keeps its last component.               *)
LEMMA RenamedLast ==
  ASSUME NEW f, f \in F!Path, NEW p, p \in F!Path, NEW q, q \in F!Path,
         FP!IsPrefix(p, f)
  PROVE  LET r == FP!Renamed(f, p, q) IN
         r # <<>> /\ (Last(r) = Last(f) \/ (Last(p) = Last(f) /\ Last(r) = Last(q)))
<1> DEFINE r == FP!Renamed(f, p, q)
<1>1. /\ f \in Seq(Component) /\ Len(f) \in Nat /\ p \in Seq(Component) /\ Len(p) \in Nat
      /\ q \in Seq(Component) /\ Len(q) \in Nat /\ Len(q) > 0 /\ Len(p) > 0
  BY PathParts
<1>2. /\ r \in Seq(Component) /\ Len(p) <= Len(f)
      /\ Len(r) = Len(q) + Len(f) - Len(p)
      /\ \A k \in 1..Len(q) : r[k] = q[k]
      /\ \A k \in 1..(Len(f) - Len(p)) : r[Len(q) + k] = f[Len(p) + k]
      /\ \A k \in 1..Len(p) : f[k] = p[k]
  <2>1. f \in Seq(Component) /\ p \in Seq(Component) /\ q \in Seq(Component)
    BY <1>1
  <2> QED BY <2>1, RenamedParts, ZenonT(60)
<1> HIDE DEF r
<1>3. Len(r) \in Nat /\ Len(r) > 0
  BY <1>1, <1>2
<1>4. r # <<>>
  BY <1>2, <1>3
<1>5. CASE Len(f) = Len(p)
  <2>1. /\ Len(r) = Len(q) /\ Len(q) \in 1..Len(q)
        /\ Len(f) \in 1..Len(p)
    BY <1>1, <1>2, <1>5
  <2>2. r[Len(q)] = q[Len(q)] /\ f[Len(f)] = p[Len(f)]
    BY <1>2, <2>1
  <2> QED BY <1>4, <1>5, <2>1, <2>2 DEF Last, r
<1>6. CASE Len(f) # Len(p)
  <2> DEFINE k == Len(f) - Len(p)
  <2>1. k \in 1..k /\ Len(q) + k = Len(r) /\ Len(p) + k = Len(f)
    BY <1>1, <1>2, <1>6
  <2>2. r[Len(q) + k] = f[Len(p) + k]
    BY <1>2, <2>1
  <2> QED BY <1>4, <2>1, <2>2 DEF Last, r
<1> QED BY <1>5, <1>6

LEMMA RenameDirStay ==
  ASSUME NEW s, FP!Good(s), NEW p, p \in F!Path, NEW q, q \in F!Path,
         Last(p) # MARK => Last(q) # MARK,
         NEW v, v \in F!RenameDirResult(s, p, q),
         NEW file, file \in FilesIn(s.entries)
  PROVE  \/ file \in FilesIn(v.entries)
         \/ IsPrefix(p, file.name) /\ Moved(file, p, q) \in FilesIn(v.entries)
<1> DEFINE b == s.entries
           t == FP!MovedTree(b, p, q)
<1>1. s \in FP!State /\ b \in FP!Table /\ p \in FP!Path /\ q \in FP!Path
  BY GoodTable, SameNames DEF FP!Good
<1>2. v = s \/ /\ ~FP!Reserved(q) /\ ~FP!DirectoryExists(b, q) /\ ~FP!HasEntry(b, q)
               /\ v \in FP!Commit(s, t)
  <2>1. v \in FP!RenameDirResult(s, p, q)
    BY SameDirResults
  <2> QED BY <2>1 DEF FP!RenameDirResult
<1>3. SUFFICES ASSUME ~FP!Reserved(q), ~FP!DirectoryExists(b, q), ~FP!HasEntry(b, q),
                      v \in FP!Commit(s, t)
               PROVE  \/ file \in FilesIn(v.entries)
                      \/ IsPrefix(p, file.name) /\ Moved(file, p, q) \in FilesIn(v.entries)
  BY <1>2
<1>4. t \in FP!Table
  BY <1>1, <1>3, FsParts, FP!MovedSafe DEF FP!SafeChange
<1>5. v.entries = t
  <2> HIDE DEF t
  <2> QED BY <1>1, <1>3, <1>4, FsParts, FP!CommitFields
<1>6. PICK i \in FP!Slot : file = b[i] /\ b[i].name # <<>> /\ Last(b[i].name) # MARK
  BY InFiles
<1> DEFINE f == b[i].name
           r == FP!Renamed(f, p, q)
           e == [b[i] EXCEPT !.name = r]
<1>7. t[i] = IF FP!Moves(f, p, q) THEN e ELSE b[i]
  BY <1>6 DEF FP!MovedTree
<1>8. b[i] \in FP!Entry /\ e.name = r
  <2>1. b[i] \in FP!Entry
    BY <1>1, <1>6 DEF FP!Table
  <2> HIDE DEF r
  <2> QED BY <2>1 DEF FP!Entry
<1>9. f \in F!Path
  BY <1>6, <1>8, SameNames DEF FP!Entry
<1>10. Moved(file, p, q) = e
  BY <1>6 DEF Moved, F!Renamed, FP!Renamed
<1> HIDE DEF t, b, e, r
<1>11. CASE ~FP!Moves(f, p, q)
  <2>1. t[i] = file
    BY <1>6, <1>7, <1>11
  <2> QED BY <1>5, <1>6, <2>1, InFiles
<1>12. CASE FP!Moves(f, p, q)
  <2>1. FP!IsPrefix(p, f)
    BY <1>12 DEF FP!Moves
  <2>2. r # <<>> /\ (Last(r) = Last(f) \/ (Last(p) = Last(f) /\ Last(r) = Last(q)))
    BY <1>9, <2>1, RenamedLast DEF r
  <2>3. r # <<>> /\ Last(r) # MARK
    BY <1>6, <2>2
  <2>4. t[i] = e /\ t[i].name = r
    BY <1>7, <1>8, <1>12
  <2>5. t[i] \in FilesIn(t)
    BY <1>6, <2>3, <2>4, InFiles, Zenon
  <2>6. IsPrefix(p, file.name)
    BY <1>6, <2>1 DEF IsPrefix, FP!IsPrefix
  <2> QED BY <1>5, <1>10, <2>4, <2>5, <2>6
<1> QED BY <1>11, <1>12

(* A row of a folder that leaves no room for a component is a stub.        *)
LEMMA DeepRow ==
  ASSUME NEW d \in Folder, NEW p \in F!Path, Len(p) = Len(d) + 1, Last(p) # NONE
  PROVE  \/ Len(d) < MaxLen
         \/ \E c \in Component : Stub[c] # <<>> /\ Stub[c] # <<NONE>>
<1>1. /\ Len(d) \in Nat /\ Len(d) <= MaxLen /\ MaxLen \in Nat
      /\ p \in Seq(Component) /\ FP!Cut(p) = p
  <2>1. d \in Place /\ Len(d) <= MaxLen
    BY DEF Folder
  <2>2. p \in FP!Path
    BY SameNames
  <2> QED BY <2>1, <2>2, PlaceParts, PathParts, FsAssumption DEF FP!Path
<1>2. SUFFICES ASSUME Len(p) = MaxLen + 1
               PROVE  \E c \in Component : Stub[c] # <<>> /\ Stub[c] # <<NONE>>
  BY <1>1
<1> DEFINE m == FP!Cut(p)
           c == p[MaxLen + 1]
<1>3. /\ c \in Component
      /\ \/ Stub[c] = <<>> /\ Len(m) = MaxLen
         \/ Len(m) = MaxLen + 1 /\ Stub[c] = <<m[MaxLen + 1]>>
  <2>1. p \in Seq(Component) /\ Len(p) > MaxLen
    BY <1>1, <1>2
  <2> QED BY <2>1, FsParts, FP!CutElements
<1>4. m = p /\ c # NONE
  <2>1. m = p
    BY <1>1
  <2>2. Last(p) = c
    <3> HIDE DEF m
    <3> QED BY <1>2 DEF Last
  <2> QED BY <2>1, <2>2
<1>5. m[MaxLen + 1] = c
  BY <1>4
<1> HIDE DEF m, c
<1>6. Len(m) = MaxLen + 1
  BY <1>2, <1>4
<1>7. Stub[c] = <<c>>
  BY <1>1, <1>3, <1>5, <1>6
<1>8. <<c>> # <<>> /\ (\A x, y : <<x>> = <<y>> => x = y)
  OBVIOUS
<1> QED BY <1>3, <1>4, <1>7, <1>8

(* The dialogs keep the marker's name out of the paths they make.          *)
LEMMA TargetLast ==
  ASSUME NoMarkTyped, NEW w, Ready(w), w.fm.panel.kind = "rename",
         w.fm.panel.input # <<>>
  PROVE  Last(w.fm.panel.row.target) # MARK => Last(Target(w)) # MARK
<1> DEFINE input == w.fm.panel.input
           p == w.fm.panel.row.target
<1>1. w.fm.path \in Folder /\ input \in Place
  BY PanelKind DEF Screen
<1>2. input \in Typed \union {<<Last(p)>>}
  BY DEF Ready, Valid, Sound, Fits
<1>3. p \in F!Path /\ Last(p) # NONE /\ NoNone(input) /\ input # <<>>
  BY PanelKind
<1>4. Len(p) = Len(w.fm.path) + 1
  <2>1. /\ w.fm.panel.row = w.fm.rows[w.fm.selected] /\ w.fm.selected \in DOMAIN w.fm.rows
        /\ RowsBelow(w.fm.rows, w.fm.path)
    BY DEF Ready, Valid, Sound, Current, Fits, OnScreen
  <2>2. IsBelow(w.fm.panel.row, w.fm.path)
    BY <2>1 DEF RowsBelow
  <2> QED BY <2>2, PanelKind DEF IsBelow
<1> HIDE DEF input, p
<1>5. \/ Len(w.fm.path) < MaxLen
      \/ \E c \in Component : Stub[c] # <<>> /\ Stub[c] # <<NONE>>
  BY <1>1, <1>3, <1>4, DeepRow
<1>6. \/ Last(Child(w.fm.path, input)) # MARK
      \/ \E i \in DOMAIN input : Last(Child(w.fm.path, input)) = input[i]
  BY <1>1, <1>3, <1>5, ChildLast
<1>7. CASE input \in Typed
  BY <1>6, <1>7 DEF NoMarkTyped, Target, input
<1>8. CASE input = <<Last(p)>>
  <2> DEFINE e == Last(p)
  <2> HIDE DEF e
  <2>1. \A k \in DOMAIN <<e>> : <<e>>[k] = e
    OBVIOUS
  <2> QED BY <1>6, <1>8, <2>1 DEF Target, input, p, e
<1> QED BY <1>2, <1>7, <1>8

LEMMA OperationAsked ==
  ASSUME NoMarkTyped, NEW w, Ready(w), NEW s \in F!TryEnable(w.fs, TRUE),
         NEW v, Operation(w, s, v)
  PROVE  Asked(w, s.entries, v.entries)
<1> DEFINE k == w.fm.panel.kind
           q == Target(w)
           p == w.fm.panel.row.target
           b == s.entries
           t == v.entries
<1>1. FP!Good(s)
  BY GoodBefore
<1>2. k \in {"new", "folder", "rename"} /\ w.fm.panel.input # <<>> => q \in F!Path
  BY PanelKind, ChildPath DEF Target
<1>3. k \in {"delete", "rename"} => p \in F!Path
  BY PanelKind
<1>4. k = "rename" /\ w.fm.panel.input # <<>> => (Last(p) # MARK => Last(q) # MARK)
  BY TargetLast
<1> SUFFICES ASSUME NEW file \in FilesIn(b)
             PROVE  \/ file \in FilesIn(t)
                    \/ k = "delete" /\ file.name = p
                    \/ /\ k = "rename"
                       /\ IsPrefix(p, file.name)
                       /\ Moved(file, p, q) \in FilesIn(t)
                    \/ k = "new" /\ file.name = q
  BY DEF Asked
<1> HIDE DEF q, p
<1>5. CASE k = "delete" /\ v \in F!DeleteDirResult(s, p)
  BY <1>1, <1>3, <1>5, DeleteDirStay
<1>6. CASE k = "delete" /\ v \in F!DeleteResult(s, p)
  BY <1>1, <1>6, DeleteStay
<1>7. CASE k = "new" /\ w.fm.panel.input # <<>> /\ v \in F!WriteResult(s, q, NoData)
  BY <1>1, <1>2, <1>7, WriteStay, FsAssumption
<1>8. CASE k = "folder" /\ w.fm.panel.input # <<>> /\ v \in F!CreateDirResult(s, q)
  BY <1>1, <1>2, <1>8, CreateDirStay
<1>9. CASE k = "rename" /\ w.fm.panel.input # <<>> /\ v \in F!RenameDirResult(s, p, q)
  BY <1>1, <1>2, <1>3, <1>4, <1>9, RenameDirStay
<1>10. CASE k = "rename" /\ w.fm.panel.input # <<>> /\ v \in F!RenameResult(s, p, q)
  BY <1>1, <1>2, <1>3, <1>4, <1>10, RenameStay
<1> QED BY <1>5, <1>6, <1>7, <1>8, <1>9, <1>10 DEF Operation, p, q

(* A step of the file manager, from the state before it.                   *)
LEMMA EffectAsked ==
  ASSUME NoMarkTyped, NEW w, Ready(w), NEW v, Effect(w, v)
  PROVE  \/ w.fs.disk.magic /\ ~w.fs.enabled
         \/ Asked(w, w.fs.entries, v.entries)
<1>1. FP!Good(w.fs)
  BY DEF Ready, Valid, Sound
<1>2. CASE v.entries = w.fs.entries
  BY <1>2 DEF Asked
<1>3. CASE v \in F!TryEnable(w.fs, FALSE)
  BY <1>1, <1>2, <1>3, Probed
<1>4. CASE \E s \in F!TryEnable(w.fs, TRUE) : Operation(w, s, v)
  <2>1. PICK s \in F!TryEnable(w.fs, TRUE) : Operation(w, s, v)
    BY <1>4
  <2>2. s.entries = w.fs.entries \/ (w.fs.disk.magic /\ ~w.fs.enabled)
    BY <1>1, <2>1, Probed
  <2>3. Asked(w, s.entries, v.entries)
    BY <2>1, OperationAsked
  <2> QED BY <2>2, <2>3
<1> QED BY <1>2, <1>3, <1>4 DEF Effect, Reads

(***************************************************************************)
(* No key, press or sequence of them loses, moves or empties a file that   *)
(* was not asked about, for every tree, table and failure of the disk,     *)
(* unless somebody types the marker's name.                                *)
(***************************************************************************)
THEOREM OnlyTheAsked ==
  ASSUME NoMarkTyped
  PROVE  Spec => OnlyWhatWasAsked
<1> DEFINE Kept == \A file \in FilesIn(entries) :
              \/ file \in FilesIn(entries')
              \/ fm.panel.kind = "delete" /\ file.name = fm.panel.row.target
              \/ /\ fm.panel.kind = "rename"
                 /\ IsPrefix(fm.panel.row.target, file.name)
                 /\ RenamedFile(file) \in FilesIn(entries')
              \/ /\ fm.panel.kind = "new"
                 /\ file.name = Child(fm.path, fm.panel.input)
           Saves == \E p \in FilePaths, c \in Data : EditorSaves(p, c)
<1>1. ASSUME IInv, Becomes PROVE (disk.magic /\ ~enabled) \/ Kept
  <2>1. PICK x : Become(x) /\ Valid(x) /\ Effect(Now, x.fs)
    BY <1>1 DEF Becomes, Result
  <2>2. entries' = x.fs.entries
    BY <2>1, BecomesValid
  <2>3. /\ Now.fm = fm /\ Now.fs.entries = entries
        /\ Now.fs.disk = disk /\ Now.fs.enabled = enabled
    BY DEF Now, F!Now
  <2>4. (disk.magic /\ ~enabled) \/ Asked(Now, entries, entries')
    BY <1>1, <2>1, <2>2, <2>3, NowReady, EffectAsked
  <2>5. Asked(Now, entries, entries') => Kept
    BY <2>3 DEF Asked, RenamedFile, Moved, Target
  <2> QED BY <2>4, <2>5
<1>2. ASSUME IInv, [Next]_vars
      PROVE  [ (disk.magic /\ ~enabled) \/ Kept \/ Saves ]_vars
  BY <1>1, <1>2, Steps
<1> QED BY <1>2, Invariance, PTL DEF Spec, OnlyWhatWasAsked
=============================================================================
