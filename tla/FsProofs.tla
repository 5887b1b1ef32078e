------------------------------ MODULE FsProofs ------------------------------
(***************************************************************************)
(* Proofs about Fs for every number of slots, every set of names and       *)
(* contents, and every way in which the disk can fail.                     *)
(***************************************************************************)
EXTENDS Fs, SeqLemmas

Image == [magic : BOOLEAN, slot : Table]

State == [entries : Table, disk : Image, probeDone : BOOLEAN, enabled : BOOLEAN,
          torn : BOOLEAN, mixed : BOOLEAN, lag : BOOLEAN]

InSync(s) == s.enabled /\ ~s.lag => s.disk.magic /\ s.disk.slot = s.entries

NeverTorn(s) == ~s.torn => Whole(s.entries) /\ Whole(s.disk.slot)

NeverTwice(s) == ~s.mixed => Distinct(s.entries) /\ Distinct(s.disk.slot)

(***************************************************************************)
(* What every operation preserves, from its probe to its flush.            *)
(***************************************************************************)
Good(s) == s \in State /\ InSync(s) /\ NeverTorn(s) /\ NeverTwice(s)

(* The inductive invariant.                                                *)
IInv == Good(Now)

(***************************************************************************)
(* Every name of t is the one its slot had in b, or none, or one that no   *)
(* slot of b has: what makes a mixture of b and t free of duplicates.      *)
(***************************************************************************)
Fresh(b, t) ==
  \A i \in Slot : \/ t[i].name = b[i].name
                  \/ t[i].name = <<>>
                  \/ \A j \in Slot : b[j].name # t[i].name

(* A change of the table an operation may make.                            *)
SafeChange(b, t) ==
  /\ t \in Table
  /\ Whole(b) => Whole(t)
  /\ Distinct(b) => Distinct(t) /\ Fresh(b, t)

-----------------------------------------------------------------------------
(* An image that is cut short is a mixture of the old and the new table.   *)
LEMMA CutMixture ==
  ASSUME NEW b \in Table, NEW t \in Table, NEW k, Distinct(b), Distinct(t), Fresh(b, t),
         NEW m, \A i \in Slot : m[i].name = IF i <= k THEN t[i].name ELSE b[i].name
  PROVE  Distinct(m)
<1> SUFFICES ASSUME NEW i \in Slot, NEW j \in Slot, m[i].name # <<>>,
                    m[i].name = m[j].name
             PROVE  i = j
  BY DEF Distinct, Used
<1>1. CASE i <= k /\ j <= k
  BY <1>1 DEF Distinct, Used
<1>2. CASE ~(i <= k) /\ ~(j <= k)
  BY <1>2 DEF Distinct, Used
<1>3. CASE i <= k /\ ~(j <= k)
  BY <1>3 DEF Distinct, Used, Fresh
<1>4. CASE ~(i <= k) /\ j <= k
  BY <1>4 DEF Distinct, Used, Fresh
<1>5. QED
  BY <1>1, <1>2, <1>3, <1>4

(* How the image d relates to the old image and to the table written.      *)
Mixture(d, t, image, k) ==
  /\ d.magic = (image.magic \/ k > 0)
  /\ \A i \in Slot : d.slot[i].name = IF i <= k THEN t[i].name
                                       ELSE image.slot[i].name
  /\ k = 0 => d.slot = image.slot
  /\ k = N + 1 => d.slot = t

LEMMA CutImageMixture ==
  ASSUME NEW t \in Table, NEW image \in Image, NEW k \in 0..(N + 1)
  PROVE  /\ CutImage(t, image, k) \in Image
         /\ Mixture(CutImage(t, image, k), t, image, k)
<1> DEFINE row(i) == [name |-> IF i <= k THEN t[i].name ELSE image.slot[i].name,
                      head |-> IF i <= k THEN t[i].head ELSE image.slot[i].head,
                      tail |-> IF i < k THEN t[i].tail ELSE image.slot[i].tail]
           slot == [i \in Slot |-> row(i)]
           cut == [magic |-> image.magic \/ k > 0, slot |-> slot]
<1>1. CutImage(t, image, k) = cut
  BY DEF CutImage
<1>2. image.magic \in BOOLEAN /\ image.slot \in Table
  BY DEF Image
<1>3. ASSUME NEW i \in Slot
      PROVE  /\ row(i) \in Entry
             /\ k = 0 => row(i) = image.slot[i]
             /\ k = N + 1 => row(i) = t[i]
  <2>1. t[i] \in Entry /\ image.slot[i] \in Entry
    BY <1>2 DEF Table
  <2>2. row(i) \in Entry
    BY <2>1 DEF Entry
  <2>3. i \in Nat /\ 1 <= i /\ i <= N /\ N \in Nat
    BY SizeAssumption DEF Slot
  <2>4. CASE k = 0
    <3>1. ~(i <= k) /\ ~(i < k)
      BY <2>3, <2>4
    <3>2. QED
      BY <2>1, <2>2, <2>3, <2>4, <3>1 DEF Entry
  <2>5. CASE k = N + 1
    <3>1. i <= k /\ i < k
      BY <2>3, <2>5
    <3>2. QED
      BY <2>1, <2>2, <2>3, <2>5, <3>1 DEF Entry
  <2>6. QED
    BY <2>2, <2>3, <2>4, <2>5
<1> HIDE DEF row
<1>4. slot \in Table
  BY <1>3 DEF Table
<1>5. k = 0 => slot = image.slot
  BY <1>2, <1>3, <1>4 DEF Table
<1>6. k = N + 1 => slot = t
  BY <1>3, <1>4 DEF Table
<1>7. \A i \in Slot : slot[i].name = IF i <= k THEN t[i].name ELSE image.slot[i].name
  BY DEF row
<1> HIDE DEF slot
<1>8. cut \in Image /\ cut.magic = (image.magic \/ k > 0) /\ cut.slot = slot
  BY <1>2, <1>4 DEF Image
<1>9. Mixture(cut, t, image, k)
  BY <1>5, <1>6, <1>7, <1>8 DEF Mixture
<1>10. QED
  BY <1>1, <1>8, <1>9

LEMMA EmptyIsTable == EmptyTable \in Table
  BY ContentAssumption DEF EmptyTable, Table, Entry, FreeEntry

LEMMA EmptyIsGood == Whole(EmptyTable) /\ Distinct(EmptyTable)
<1>1. Used(EmptyTable) = {}
  BY DEF Used, EmptyTable, FreeEntry
<1>2. QED
  BY <1>1 DEF Whole, Distinct

(* What fs_flush_to_disk leaves, however far it gets.                      *)
LEMMA FlushFields ==
  ASSUME NEW s \in State, NEW before, NEW r \in FlushResult
  PROVE  LET f == Flush(s, before, r) IN
         /\ f \in State
         /\ f.entries = s.entries
         /\ f.disk = CutImage(s.entries, s.disk, r.cut)
         /\ f.enabled = s.enabled
         /\ f.probeDone = s.probeDone
         /\ f.torn = (s.torn \/ CutShort(r))
         /\ f.mixed = (s.mixed \/ (CutShort(r) /\ before # s.disk.slot))
         /\ f.lag = ~r.ok
<1> DEFINE d == CutImage(s.entries, s.disk, r.cut)
           t == s.torn \/ CutShort(r)
           m == s.mixed \/ (CutShort(r) /\ before # s.disk.slot)
           g1 == [s EXCEPT !.disk = d]
           g2 == [g1 EXCEPT !.torn = t]
           g3 == [g2 EXCEPT !.mixed = m]
           g4 == [g3 EXCEPT !.lag = ~r.ok]
<1>1. Flush(s, before, r) = g4
  BY DEF Flush, State
<1>2. d \in Image /\ t \in BOOLEAN /\ m \in BOOLEAN /\ (~r.ok) \in BOOLEAN
  <2>1. s.entries \in Table /\ s.disk \in Image /\ r.cut \in 0..(N + 1)
    BY DEF State, FlushResult
  <2>2. d \in Image
    BY <2>1, CutImageMixture
  <2> HIDE DEF d
  <2>3. t \in BOOLEAN /\ m \in BOOLEAN
    OBVIOUS
  <2>4. r.ok \in BOOLEAN
    BY DEF FlushResult
  <2>5. (~r.ok) \in BOOLEAN
    BY <2>4
  <2>6. QED
    BY <2>2, <2>3, <2>5
<1> HIDE DEF d, t, m
<1>3. /\ g1 \in State
      /\ g1.entries = s.entries
      /\ g1.disk = d
      /\ g1.enabled = s.enabled
      /\ g1.probeDone = s.probeDone
  BY <1>2 DEF State
<1> HIDE DEF g1
<1>4. /\ g2 \in State
      /\ g2.entries = s.entries
      /\ g2.disk = d
      /\ g2.enabled = s.enabled
      /\ g2.probeDone = s.probeDone
      /\ g2.torn = t
  BY <1>2, <1>3 DEF State
<1> HIDE DEF g2
<1>5. /\ g3 \in State
      /\ g3.entries = s.entries
      /\ g3.disk = d
      /\ g3.enabled = s.enabled
      /\ g3.probeDone = s.probeDone
      /\ g3.torn = t
      /\ g3.mixed = m
  BY <1>2, <1>4 DEF State
<1> HIDE DEF g3
<1>6. /\ g4 \in State
      /\ g4.entries = s.entries
      /\ g4.disk = d
      /\ g4.enabled = s.enabled
      /\ g4.probeDone = s.probeDone
      /\ g4.torn = t
      /\ g4.mixed = m
      /\ g4.lag = ~r.ok
  BY <1>2, <1>5 DEF State
<1> HIDE DEF g4
<1>7. QED
  BY <1>1, <1>6 DEF d, t, m

(***************************************************************************)
(* A flush keeps what is good, and one that succeeds leaves the image of   *)
(* the table.                                                              *)
(***************************************************************************)
LEMMA FlushGood ==
  ASSUME NEW s \in State, NeverTorn(s), NeverTwice(s),
         NEW before \in Table, Distinct(before) => Fresh(before, s.entries),
         NEW r \in FlushResult
  PROVE  LET f == Flush(s, before, r) IN
         /\ Good(f)
         /\ r.ok => f.disk.magic /\ f.disk.slot = f.entries
<1> DEFINE f == Flush(s, before, r)
           d == CutImage(s.entries, s.disk, r.cut)
<1>1. /\ f \in State
      /\ f.entries = s.entries
      /\ f.disk = d
      /\ f.enabled = s.enabled
      /\ f.torn = (s.torn \/ CutShort(r))
      /\ f.mixed = (s.mixed \/ (CutShort(r) /\ before # s.disk.slot))
      /\ f.lag = ~r.ok
  BY FlushFields
<1>2. /\ s.entries \in Table
      /\ s.disk \in Image
      /\ s.disk.slot \in Table
      /\ s.torn \in BOOLEAN
      /\ s.mixed \in BOOLEAN
  BY DEF State, Image
<1>3. /\ r.cut \in 0..(N + 1)
      /\ r.ok \in BOOLEAN
      /\ r.ok => r.cut = N + 1
      /\ ~CutShort(r) => r.cut = 0 \/ r.cut = N + 1
  BY SizeAssumption DEF FlushResult, CutShort
<1>4. /\ d.magic = (s.disk.magic \/ r.cut > 0)
      /\ \A i \in Slot : d.slot[i].name = IF i <= r.cut THEN s.entries[i].name
                                          ELSE s.disk.slot[i].name
      /\ r.cut = 0 => d.slot = s.disk.slot
      /\ r.cut = N + 1 => d.slot = s.entries
  <2>1. Mixture(d, s.entries, s.disk, r.cut)
    BY <1>2, <1>3, CutImageMixture
  <2> HIDE DEF d
  <2>2. QED
    BY <2>1 DEF Mixture
<1> HIDE DEF d, f
<1>5. r.ok => f.disk.magic /\ f.disk.slot = f.entries
  <2>1. N + 1 > 0
    BY SizeAssumption
  <2>2. r.ok => d.magic
    BY <1>3, <1>4, <2>1
  <2>3. QED
    BY <1>1, <1>3, <1>4, <2>2
<1>6. InSync(f)
  BY <1>1, <1>5 DEF InSync
<1>7. NeverTorn(f)
  BY <1>1, <1>2, <1>3, <1>4 DEF NeverTorn
<1>8. NeverTwice(f)
  <2>1. SUFFICES ASSUME ~f.mixed PROVE Distinct(f.entries) /\ Distinct(f.disk.slot)
    BY DEF NeverTwice
  <2>2. /\ ~s.mixed
        /\ CutShort(r) => before = s.disk.slot
        /\ Distinct(s.entries)
        /\ Distinct(s.disk.slot)
    BY <1>1, <1>2, <2>1 DEF NeverTwice
  <2>3. CASE CutShort(r)
    <3>1. Fresh(s.disk.slot, s.entries)
      BY <2>2, <2>3
    <3>2. Distinct(d.slot)
      BY <1>2, <1>4, <2>2, <3>1, CutMixture
    <3>3. QED
      BY <1>1, <2>2, <3>2
  <2>4. CASE ~CutShort(r)
    BY <1>1, <1>3, <1>4, <2>2, <2>4
  <2>5. QED
    BY <2>3, <2>4
<1>9. QED
  BY <1>1, <1>5, <1>6, <1>7, <1>8 DEF Good, f

(* The probe of fs_try_enable_persistence: load, initial write, or neither. *)
LEMMA TryEnableGood ==
  ASSUME NEW s, Good(s), NEW allowed \in BOOLEAN, NEW u \in TryEnable(s, allowed)
  PROVE  Good(u)
<1> DEFINE probed == [s EXCEPT !.probeDone = TRUE]
           loaded == [Load(probed) EXCEPT !.enabled = TRUE]
           flushed(r) == [Flush(probed, probed.entries, r) EXCEPT !.enabled = r.ok]
           off == [probed EXCEPT !.enabled = FALSE]
<1>0. u \in IF s.enabled \/ (s.probeDone /\ ~allowed)
           THEN {s}
           ELSE UNION { IF x THEN {loaded}
                        ELSE IF allowed THEN { flushed(r) : r \in FlushResults }
                        ELSE {off} : x \in Loads(s) }
  BY DEF TryEnable, Unloaded
<1>1. s \in State /\ NeverTorn(s) /\ NeverTwice(s)
  BY DEF Good
<1>2. /\ probed \in State
      /\ probed.entries = s.entries
      /\ probed.disk = s.disk
      /\ probed.torn = s.torn
      /\ probed.mixed = s.mixed
      /\ probed.enabled = s.enabled
      /\ probed.lag = s.lag
  BY <1>1 DEF State
<1> HIDE DEF probed
<1>3. Good(probed)
  BY <1>2 DEF Good, InSync, NeverTorn, NeverTwice
<1>4. CASE u = s
  BY <1>4
<1>5. ASSUME s.disk.magic, u = loaded PROVE Good(u)
  <2> DEFINE d == s.disk.slot
             g1 == [probed EXCEPT !.entries = d]
             g2 == [g1 EXCEPT !.lag = FALSE]
             g3 == [g2 EXCEPT !.enabled = TRUE]
  <2>1. u = g3
    BY <1>2, <1>5 DEF Load, State
  <2>2. d \in Table
    BY <1>1 DEF State, Image
  <2> HIDE DEF d
  <2>3. /\ g1 \in State
        /\ g1.entries = d
        /\ g1.disk = s.disk
        /\ g1.torn = s.torn
        /\ g1.mixed = s.mixed
    BY <1>2, <2>2 DEF State
  <2> HIDE DEF g1
  <2>4. /\ g2 \in State
        /\ g2.entries = d
        /\ g2.disk = s.disk
        /\ g2.torn = s.torn
        /\ g2.mixed = s.mixed
    BY <2>3 DEF State
  <2> HIDE DEF g2
  <2>5. /\ g3 \in State
        /\ g3.entries = d
        /\ g3.disk = s.disk
        /\ g3.torn = s.torn
        /\ g3.mixed = s.mixed
    BY <2>4 DEF State
  <2> HIDE DEF g3
  <2>6. QED
    BY <1>1, <1>5, <2>1, <2>5 DEF Good, InSync, NeverTorn, NeverTwice, d
<1>6. ASSUME NEW r \in FlushResults, u = flushed(r) PROVE Good(u)
  <2> DEFINE f == Flush(probed, probed.entries, r)
             g == [f EXCEPT !.enabled = r.ok]
  <2>1. r \in FlushResult /\ r.ok \in BOOLEAN
    BY DiskAssumption DEF FlushResult
  <2>2. probed.entries \in Table /\ Fresh(probed.entries, probed.entries)
    BY <1>2 DEF State, Fresh
  <2>3. /\ Good(f)
        /\ r.ok => f.disk.magic /\ f.disk.slot = f.entries
    BY <1>2, <1>3, <2>1, <2>2, FlushGood DEF Good
  <2> HIDE DEF f
  <2>4. f \in State
    BY <2>3 DEF Good
  <2>5. /\ g \in State
        /\ g.entries = f.entries
        /\ g.disk = f.disk
        /\ g.torn = f.torn
        /\ g.mixed = f.mixed
        /\ g.enabled = r.ok
    BY <2>1, <2>4 DEF State
  <2>6. u = g
    BY <1>6 DEF f
  <2> HIDE DEF g
  <2>7. QED
    BY <2>3, <2>5, <2>6 DEF Good, InSync, NeverTorn, NeverTwice
<1>7. ASSUME u = off PROVE Good(u)
  <2> DEFINE g == [probed EXCEPT !.enabled = FALSE]
  <2>1. /\ g \in State
        /\ g.entries = s.entries
        /\ g.disk = s.disk
        /\ g.torn = s.torn
        /\ g.mixed = s.mixed
        /\ g.enabled = FALSE
    BY <1>2 DEF State
  <2> HIDE DEF g
  <2>2. QED
    BY <1>1, <1>7, <2>1 DEF Good, InSync, NeverTorn, NeverTwice, g
<1> HIDE DEF loaded, flushed, off
<1>8. \A x \in Loads(s) : x \in BOOLEAN /\ (x => s.disk.magic)
  BY DiskAssumption DEF Loads
<1>9. \/ u = s
      \/ s.disk.magic /\ u = loaded
      \/ \E r \in FlushResults : u = flushed(r)
      \/ u = off
  <2>1. CASE s.enabled \/ (s.probeDone /\ ~allowed)
    BY <1>0, <2>1
  <2>2. CASE ~(s.enabled \/ (s.probeDone /\ ~allowed))
    <3>1. PICK x \in Loads(s) : u \in IF x THEN {loaded}
                                     ELSE IF allowed THEN { flushed(r) : r \in FlushResults }
                                     ELSE {off}
      BY <1>0, <2>2
    <3>2. QED
      BY <1>8, <3>1
  <2>3. QED
    BY <2>1, <2>2
<1>10. QED
  BY <1>4, <1>5, <1>6, <1>7, <1>9

(***************************************************************************)
(* The change and its write-through.                                       *)
(***************************************************************************)
LEMMA CommitGood ==
  ASSUME NEW s, Good(s), NEW t, SafeChange(s.entries, t), NEW u \in Commit(s, t)
  PROVE  Good(u)
<1> DEFINE g == [s EXCEPT !.entries = t]
<1>1. s \in State /\ InSync(s) /\ NeverTorn(s) /\ NeverTwice(s) /\ s.entries \in Table
  BY DEF Good, State
<1>2. /\ t \in Table
      /\ Whole(s.entries) => Whole(t)
      /\ Distinct(s.entries) => Distinct(t) /\ Fresh(s.entries, t)
  BY DEF SafeChange
<1>3. /\ g \in State
      /\ g.entries = t
      /\ g.disk = s.disk
      /\ g.torn = s.torn
      /\ g.mixed = s.mixed
      /\ g.enabled = s.enabled
  BY <1>1, <1>2 DEF State
<1>4. u \in IF s.enabled THEN { Flush(g, s.entries, r) : r \in FlushResults } ELSE {g}
  BY DEF Commit
<1> HIDE DEF g
<1>5. NeverTorn(g) /\ NeverTwice(g)
  BY <1>1, <1>2, <1>3 DEF NeverTorn, NeverTwice
<1>6. CASE s.enabled
  <2>1. PICK r \in FlushResults : u = Flush(g, s.entries, r)
    BY <1>4, <1>6
  <2>2. r \in FlushResult
    BY DiskAssumption
  <2>3. Distinct(s.entries) => Fresh(s.entries, g.entries)
    BY <1>2, <1>3
  <2>4. QED
    BY <1>1, <1>3, <1>5, <2>1, <2>2, <2>3, FlushGood
<1>7. CASE ~s.enabled
  BY <1>3, <1>4, <1>5, <1>7 DEF Good, InSync
<1>8. QED
  BY <1>6, <1>7

-----------------------------------------------------------------------------
(* A path that lies below another one.                                     *)
LEMMA BelowElements ==
  ASSUME NEW T, NEW s \in Seq(T), NEW t \in Seq(T)
  PROVE  IsStrictPrefix(s, t) <=> /\ Len(s) < Len(t)
                                  /\ \A i \in 1..Len(s) : s[i] = t[i]
<1>1. IsPrefix(s, t) <=> Len(s) <= Len(t) /\ \A i \in 1..Len(s) : s[i] = t[i]
  BY PrefixElements
<1>2. Len(s) \in Nat /\ Len(t) \in Nat
  OBVIOUS
<1>3. ASSUME s # t, Len(s) <= Len(t), \A i \in 1..Len(s) : s[i] = t[i]
      PROVE  Len(s) < Len(t)
  <2> SUFFICES ASSUME Len(s) = Len(t) PROVE FALSE
    BY <1>2, <1>3
  <2> QED BY <1>3, SeqEqual
<1>4. QED
  BY <1>1, <1>2, <1>3 DEF IsStrictPrefix

(* A sequence from its first n elements.                                   *)
LEMMA FirstElements ==
  ASSUME NEW p \in Seq(Component), NEW n \in Nat, n <= Len(p)
  PROVE  /\ SubSeq(p, 1, n) \in Seq(Component)
         /\ Len(SubSeq(p, 1, n)) = n
         /\ \A i \in 1..n : SubSeq(p, 1, n)[i] = p[i]
<1>1. Len(p) \in Nat
  OBVIOUS
<1>2. \A i \in 1..n : p[i] \in Component
  <2> TAKE i \in 1..n
  <2>1. i \in 1..Len(p)
    BY <1>1
  <2> QED BY <2>1, ElementOfSeq
<1>3. /\ SubSeq(p, 1, n) \in Seq(Component)
      /\ Len(SubSeq(p, 1, n)) = IF 1 <= n THEN n - 1 + 1 ELSE 0
      /\ \A i \in 1..(n - 1 + 1) : SubSeq(p, 1, n)[i] = p[1 + i - 1]
  BY <1>2, SubSeqProperties
<1>4. n - 1 + 1 = n /\ \A i \in 1..n : 1 + i - 1 = i
  OBVIOUS
<1>5. Len(SubSeq(p, 1, n)) = n
  BY <1>3, <1>4
<1>6. \A i \in 1..n : SubSeq(p, 1, n)[i] = p[i]
  BY <1>3, <1>4
<1> QED BY <1>3, <1>5, <1>6

LEMMA StubTypes ==
  ASSUME NEW c \in Component
  PROVE  /\ Stub[c] = <<>> \/ \E e \in Component : Stub[c] = <<e>>
         /\ Stub[c] # <<>> => Stub[Stub[c][1]] = Stub[c]
         /\ Stub[MARK] = <<>> => Stub[c] = <<>>
<1>1. \A x : <<x>> # <<>> /\ <<x>>[1] = x
  OBVIOUS
<1>2. CASE \A e \in Component : Stub[e] = <<>>
  BY <1>2
<1>3. CASE \A e \in Component : Stub[e] = <<NONE>>
  BY <1>1, <1>3, ComponentAssumption
<1>4. CASE \A f \in Component : \E e \in Component : Stub[f] = <<e>> /\ Stub[e] = <<e>>
  <2>1. PICK e \in Component : Stub[c] = <<e>> /\ Stub[e] = <<e>>
    BY <1>4
  <2>2. Stub[MARK] # <<>>
    BY <1>1, <1>4, ComponentAssumption
  <2>3. Stub[Stub[c][1]] = Stub[c]
    BY <1>1, <2>1
  <2> QED BY <2>1, <2>2, <2>3
<1> QED BY <1>2, <1>3, <1>4, StubAssumption

(* The two cases of copy_name.                                             *)
LEMMA CutCases ==
  ASSUME NEW p \in Seq(Component)
  PROVE  /\ Len(p) <= MaxLen => Cut(p) = p
         /\ Len(p) > MaxLen =>
              Cut(p) = SubSeq(p, 1, MaxLen) \o Stub[p[MaxLen + 1]]
<1>1. Len(p) > MaxLen => ~(Len(p) <= MaxLen)
  BY SizeAssumption
<1>2. Len(p) <= MaxLen => Cut(p) = p
  BY Zenon DEF Cut
<1>3. ~(Len(p) <= MaxLen) => Cut(p) = SubSeq(p, 1, MaxLen) \o Stub[p[MaxLen + 1]]
  BY Zenon DEF Cut
<1> QED BY <1>1, <1>2, <1>3

(* What copy_name leaves of a name that is too long.                       *)
LEMMA CutElements ==
  ASSUME NEW p \in Seq(Component), Len(p) > MaxLen
  PROVE  /\ Cut(p) \in Seq(Component)
         /\ p[MaxLen + 1] \in Component
         /\ \A i \in 1..MaxLen : Cut(p)[i] = p[i]
         /\ \/ Stub[p[MaxLen + 1]] = <<>> /\ Len(Cut(p)) = MaxLen
            \/ /\ Len(Cut(p)) = MaxLen + 1
               /\ Stub[p[MaxLen + 1]] = <<Cut(p)[MaxLen + 1]>>
<1> DEFINE u == SubSeq(p, 1, MaxLen)
           c == p[MaxLen + 1]
           m == u \o Stub[c]
<1>1. Len(p) \in Nat /\ MaxLen \in Nat
  BY SizeAssumption
<1>2. Cut(p) = m
  BY CutCases
<1>3. c \in Component
  BY <1>1, ElementOfSeq
<1>4. /\ u \in Seq(Component) /\ Len(u) = MaxLen
      /\ \A i \in 1..MaxLen : u[i] = p[i]
  BY <1>1, FirstElements
<1> HIDE DEF u, c
<1>5. CASE Stub[c] = <<>>
  <2>1. m = u
    BY <1>4, <1>5, ConcatEmptySeq
  <2> QED BY <1>2, <1>3, <1>4, <1>5, <2>1 DEF c
<1>6. CASE \E e \in Component : Stub[c] = <<e>>
  <2>1. PICK e \in Component : Stub[c] = <<e>>
    BY <1>6
  <2>2. m = Append(u, e)
    BY <1>4, <2>1, AppendIsConcat
  <2>3. /\ m \in Seq(Component) /\ Len(m) = MaxLen + 1
        /\ \A i \in 1..MaxLen : m[i] = u[i]
        /\ m[MaxLen + 1] = e
    BY <1>4, <2>2, AppendProperties
  <2> HIDE DEF m
  <2> QED BY <1>2, <1>3, <1>4, <2>1, <2>3 DEF c
<1> QED BY <1>3, <1>5, <1>6, StubTypes

(* It depends on the components it looks at, and cutting twice changes     *)
(* nothing more.                                                           *)
LEMMA CutSame ==
  ASSUME NEW p \in Seq(Component), NEW q \in Seq(Component),
         Len(p) > MaxLen, Len(q) > MaxLen,
         \A i \in 1..MaxLen : p[i] = q[i],
         Stub[p[MaxLen + 1]] = Stub[q[MaxLen + 1]]
  PROVE  Cut(p) = Cut(q)
<1> DEFINE u == SubSeq(p, 1, MaxLen)
           x == SubSeq(q, 1, MaxLen)
<1>1. Len(p) \in Nat /\ Len(q) \in Nat /\ MaxLen \in Nat
  BY SizeAssumption
<1>2. /\ u \in Seq(Component) /\ Len(u) = MaxLen
      /\ \A i \in 1..MaxLen : u[i] = p[i]
  BY <1>1, FirstElements
<1>3. /\ x \in Seq(Component) /\ Len(x) = MaxLen
      /\ \A i \in 1..MaxLen : x[i] = q[i]
  BY <1>1, FirstElements
<1>4. Cut(p) = u \o Stub[p[MaxLen + 1]] /\ Cut(q) = x \o Stub[q[MaxLen + 1]]
  BY CutCases
<1> HIDE DEF u, x
<1>5. u = x
  BY <1>2, <1>3, SeqEqual
<1> QED BY <1>4, <1>5

LEMMA CutTwice ==
  ASSUME NEW p \in Seq(Component)
  PROVE  Cut(Cut(p)) = Cut(p)
<1>1. Len(p) \in Nat /\ MaxLen \in Nat
  BY SizeAssumption
<1>2. CASE Len(p) <= MaxLen
  BY <1>2, CutCases
<1>3. CASE Len(p) > MaxLen
  <2> DEFINE m == Cut(p)
             c == p[MaxLen + 1]
  <2>1. /\ m \in Seq(Component) /\ c \in Component
        /\ \A i \in 1..MaxLen : m[i] = p[i]
        /\ \/ Stub[c] = <<>> /\ Len(m) = MaxLen
           \/ Len(m) = MaxLen + 1 /\ Stub[c] = <<m[MaxLen + 1]>>
    BY <1>3, CutElements
  <2> HIDE DEF m, c
  <2>2. CASE Len(m) = MaxLen
    <3>1. Cut(m) = m
      <4>1. Len(m) <= MaxLen
        BY <1>1, <2>2
      <4> QED BY <2>1, <4>1, CutCases
    <3> QED BY <3>1 DEF m
  <2>3. CASE Len(m) = MaxLen + 1 /\ Stub[c] = <<m[MaxLen + 1]>>
    <3>1. Stub[c] # <<>> /\ Stub[c][1] = m[MaxLen + 1]
      BY <2>3
    <3>2. Stub[m[MaxLen + 1]] = Stub[c]
      BY <2>1, <3>1, StubTypes
    <3>3. Len(m) > MaxLen
      BY <1>1, <2>3
    <3>4. Cut(m) = Cut(p)
      BY <1>3, <2>1, <3>2, <3>3, CutSame DEF c
    <3> QED BY <3>4 DEF m
  <2> QED BY <2>1, <2>2, <2>3
<1> QED BY <1>1, <1>2, <1>3

-----------------------------------------------------------------------------
(* A path is a non-empty sequence, so it is never the name of a free slot. *)
LEMMA PathNonEmpty ==
  ASSUME NEW p \in Path
  PROVE  p \in Seq(Component) /\ Len(p) \in Nat /\ Len(p) > 0 /\ p # <<>>
<1>1. p \in Seq(Component) /\ p # <<>>
  BY DEF Path
<1>2. Len(p) \in Nat \ {0}
  BY <1>1, EmptySeq
<1> QED BY <1>1, <1>2

(* At most a stub follows the components that fit whole.                   *)
LEMMA PathLength ==
  ASSUME NEW p \in Path
  PROVE  /\ Len(p) <= MaxLen + 1
         /\ Len(p) = MaxLen + 1 => Stub[p[MaxLen + 1]] # <<>>
<1>1. p \in Seq(Component) /\ Len(p) \in Nat /\ Cut(p) = p /\ MaxLen \in Nat
  BY PathNonEmpty, SizeAssumption DEF Path
<1>2. CASE Len(p) > MaxLen
  <2> DEFINE m == Cut(p)
  <2>1. \/ Stub[p[MaxLen + 1]] = <<>> /\ Len(m) = MaxLen
        \/ Len(m) = MaxLen + 1 /\ Stub[p[MaxLen + 1]] = <<m[MaxLen + 1]>>
    BY <1>1, <1>2, CutElements
  <2>2. m = p
    BY <1>1
  <2> HIDE DEF m
  <2>3. Len(m) = Len(p)
    BY <2>2
  <2>4. Len(m) = MaxLen + 1 => Stub[p[MaxLen + 1]] # <<>>
    <3>1. MaxLen # MaxLen + 1
      BY <1>1
    <3>2. \A x : <<x>> # <<>>
      OBVIOUS
    <3>3. Len(m) = MaxLen + 1 => Stub[p[MaxLen + 1]] = <<m[MaxLen + 1]>>
      BY <2>1, <3>1, Zenon
    <3> QED BY <3>2, <3>3, Zenon
  <2>5. Len(m) <= MaxLen + 1
    BY <1>1, <2>1
  <2> QED BY <2>3, <2>4, <2>5
<1> QED BY <1>1, <1>2

(* The names of a table are sequences, those of its used slots paths.      *)
LEMMA NamesArePaths ==
  ASSUME NEW b \in Table, NEW i \in Slot
  PROVE  /\ b[i].name \in Seq(Component)
         /\ i \in Used(b) => b[i].name \in Path
         /\ i \in Used(b) <=> b[i].name # <<>>
<1>1. b[i].name \in Path \union {<<>>}
  BY DEF Table, Entry
<1>2. <<>> \in Seq(Component)
  BY EmptySeq
<1>3. QED
  BY <1>1, <1>2 DEF Used, Path

(* The parent of a path, and its last component.                           *)
LEMMA FrontElements ==
  ASSUME NEW p \in Seq(Component), Len(p) > 0
  PROVE  /\ Front(p) \in Seq(Component)
         /\ Len(Front(p)) = Len(p) - 1
         /\ \A i \in 1..(Len(p) - 1) : Front(p)[i] = p[i]
         /\ Last(p) = p[Len(p)]
<1> DEFINE n == Len(p) - 1
<1>1. Len(p) \in Nat /\ n \in Nat /\ n <= Len(p)
  OBVIOUS
<1> HIDE DEF n
<1>2. /\ SubSeq(p, 1, n) \in Seq(Component)
      /\ Len(SubSeq(p, 1, n)) = n
      /\ \A i \in 1..n : SubSeq(p, 1, n)[i] = p[i]
  BY <1>1, FirstElements
<1> QED BY <1>2 DEF Front, Last, n

(* The parent of a path is a path, too.                                    *)
LEMMA FrontIsPath ==
  ASSUME NEW p \in Path, Len(p) > 1
  PROVE  Front(p) \in Path
<1>1. /\ p \in Seq(Component) /\ Len(p) \in Nat /\ Len(p) <= MaxLen + 1
      /\ MaxLen \in Nat
  BY PathNonEmpty, PathLength, SizeAssumption
<1>2. Front(p) \in Seq(Component) /\ Len(Front(p)) = Len(p) - 1
  BY <1>1, FrontElements
<1>3. Len(Front(p)) <= MaxLen /\ Len(Front(p)) > 0
  BY <1>1, <1>2
<1>4. Front(p) # <<>>
  BY <1>3, EmptySeq
<1>5. Cut(Front(p)) = Front(p)
  BY <1>2, <1>3, CutCases
<1> QED BY <1>2, <1>4, <1>5 DEF Path

-----------------------------------------------------------------------------
LEMMA MarkerElements ==
  ASSUME NEW d \in Seq(Component)
  PROVE  /\ Marker(d) \in Seq(Component) /\ Marker(d) # <<>>
         /\ Len(Marker(d)) = Len(d) + 1
         /\ \A i \in 1..Len(d) : Marker(d)[i] = d[i]
         /\ Marker(d)[Len(d) + 1] = MARK
         /\ IsStrictPrefix(d, Marker(d))
<1>1. /\ Marker(d) \in Seq(Component) /\ Marker(d) # <<>>
      /\ Len(Marker(d)) = Len(d) + 1
      /\ \A i \in 1..Len(d) : Marker(d)[i] = d[i]
      /\ Marker(d)[Len(d) + 1] = MARK
  BY ComponentAssumption, AppendProperties DEF Marker
<1>2. Len(d) \in Nat /\ Len(d) < Len(Marker(d))
  BY <1>1
<1>3. IsStrictPrefix(d, Marker(d))
  BY <1>1, <1>2, BelowElements
<1> QED BY <1>1, <1>3

(***************************************************************************)
(* The entry of a new directory lies below it, whole or cut, except when   *)
(* the directory's path fills a name.                                      *)
(***************************************************************************)
LEMMA StoredMarker ==
  ASSUME NEW d \in Path
  PROVE  /\ Cut(Marker(d)) \in Path
         /\ ~Fills(d) => /\ Len(Cut(Marker(d))) = Len(d) + 1
                         /\ \A i \in 1..Len(d) : Cut(Marker(d))[i] = d[i]
                         /\ IsStrictPrefix(d, Cut(Marker(d)))
<1> DEFINE m == Cut(Marker(d))
<1>1. /\ d \in Seq(Component) /\ Len(d) \in Nat /\ Len(d) > 0
      /\ Len(d) <= MaxLen + 1 /\ MaxLen \in Nat /\ MaxLen > 0 /\ Cut(d) = d
  BY PathNonEmpty, PathLength, SizeAssumption DEF Path
<1>2. /\ Marker(d) \in Seq(Component) /\ Len(Marker(d)) = Len(d) + 1
      /\ \A i \in 1..Len(d) : Marker(d)[i] = d[i]
      /\ Marker(d)[Len(d) + 1] = MARK
  BY <1>1, MarkerElements
<1>3. m \in Seq(Component) /\ Cut(m) = m /\ Len(m) > 0
  <2>1. Cut(m) = m
    BY <1>2, CutTwice
  <2>2. CASE Len(d) < MaxLen
    <3>1. m = Marker(d)
      <4>1. Len(Marker(d)) <= MaxLen
        BY <1>1, <1>2, <2>2
      <4> QED BY <1>2, <4>1, CutCases
    <3> QED BY <1>1, <1>2, <2>1, <3>1
  <2>3. CASE ~(Len(d) < MaxLen)
    <3>1. Len(Marker(d)) > MaxLen
      BY <1>1, <1>2, <2>3
    <3> QED BY <1>1, <1>2, <2>1, <3>1, CutElements
  <2> QED BY <2>2, <2>3
<1> HIDE DEF m
<1>4. m \in Path
  BY <1>3, EmptySeq DEF Path
<1>5. ASSUME ~Fills(d)
      PROVE  Len(m) = Len(d) + 1 /\ \A i \in 1..Len(d) : m[i] = d[i]
  <2>0. m # d
    BY <1>5 DEF Fills, m
  <2>1. CASE Len(d) < MaxLen
    <3>1. m = Marker(d)
      <4>1. Len(Marker(d)) <= MaxLen
        BY <1>1, <1>2, <2>1
      <4> QED BY <1>2, <4>1, CutCases DEF m
    <3> QED BY <1>2, <3>1
  <2>2. CASE Len(d) = MaxLen
    <3>1. Len(Marker(d)) > MaxLen
      BY <1>1, <1>2, <2>2
    <3>2. /\ \A i \in 1..MaxLen : m[i] = Marker(d)[i]
          /\ Len(m) = MaxLen \/ Len(m) = MaxLen + 1
      BY <1>2, <3>1, CutElements DEF m
    <3>3. \A i \in 1..Len(d) : m[i] = d[i]
      BY <1>2, <2>2, <3>2
    <3>4. Len(m) # MaxLen
      <4> SUFFICES ASSUME Len(m) = MaxLen PROVE FALSE
        OBVIOUS
      <4>1. Len(m) = Len(d)
        BY <2>2
      <4> QED BY <1>1, <1>3, <2>0, <3>3, <4>1, SeqEqual
    <3> QED BY <2>2, <3>2, <3>3, <3>4
  <2>3. CASE Len(d) = MaxLen + 1
    <3>1. /\ Len(Marker(d)) > MaxLen /\ Len(d) > MaxLen
          /\ \A i \in 1..MaxLen : Marker(d)[i] = d[i]
          /\ Marker(d)[MaxLen + 1] = d[MaxLen + 1]
      BY <1>1, <1>2, <2>3
    <3>2. m = Cut(d)
      BY <1>1, <1>2, <3>1, CutSame DEF m
    <3> QED BY <1>1, <2>0, <3>2
  <2> QED BY <1>1, <2>1, <2>2, <2>3
<1>6. ~Fills(d) => IsStrictPrefix(d, m)
  BY <1>1, <1>3, <1>5, BelowElements
<1> QED BY <1>4, <1>5, <1>6 DEF m

(* Nothing is below a path that fills a name.                              *)
LEMMA NothingBelow ==
  ASSUME NEW d \in Path, Fills(d), NEW p \in Path
  PROVE  ~IsStrictPrefix(d, p)
<1> SUFFICES ASSUME IsStrictPrefix(d, p) PROVE FALSE
  OBVIOUS
<1>1. /\ d \in Seq(Component) /\ Len(d) \in Nat
      /\ p \in Seq(Component) /\ Len(p) \in Nat /\ Len(p) <= MaxLen + 1
      /\ Len(p) = MaxLen + 1 => Stub[p[MaxLen + 1]] # <<>>
      /\ MaxLen \in Nat
  BY PathNonEmpty, PathLength, SizeAssumption
<1>2. Len(d) < Len(p)
  BY <1>1, BelowElements
<1>3. /\ Marker(d) \in Seq(Component) /\ Len(Marker(d)) = Len(d) + 1
      /\ Marker(d)[Len(d) + 1] = MARK /\ Cut(Marker(d)) = d
  BY <1>1, MarkerElements DEF Fills
<1>4. ~(Len(d) < MaxLen)
  <2> SUFFICES ASSUME Len(d) < MaxLen PROVE FALSE
    OBVIOUS
  <2>1. Cut(Marker(d)) = Marker(d)
    <3>1. Len(Marker(d)) <= MaxLen
      BY <1>1, <1>3
    <3> QED BY <1>3, <3>1, CutCases
  <2>2. Marker(d) = d
    BY <1>3, <2>1
  <2>3. Len(Marker(d)) = Len(d)
    BY <2>2
  <2>4. Len(d) # Len(d) + 1
    BY <1>1
  <2> QED BY <1>3, <2>3, <2>4
<1>5. Len(d) = MaxLen /\ Len(p) = MaxLen + 1
  BY <1>1, <1>2, <1>4
<1>6. Stub[MARK] = <<>>
  <2>1. Len(Marker(d)) > MaxLen /\ Marker(d)[MaxLen + 1] = MARK
    BY <1>1, <1>3, <1>5
  <2>2. \/ Stub[MARK] = <<>>
        \/ Len(Cut(Marker(d))) = MaxLen + 1
    BY <1>3, <2>1, CutElements
  <2> QED BY <1>1, <1>3, <1>5, <2>2
<1>7. p[MaxLen + 1] \in Component
  BY <1>1, <1>5, ElementOfSeq
<1> QED BY <1>1, <1>5, <1>6, <1>7, StubTypes

(* Except for the root and EAGLEOS, a directory is what has a child.       *)
LEMMA DirectoryHasChild ==
  ASSUME NEW b \in Table, NEW d \in Path, d # <<SYS>>
  PROVE  DirectoryExists(b, d) <=> HasChild(b, d)
<1>1. d \in Seq(Component) /\ d # <<>>
  BY PathNonEmpty
<1>2. Marker(d) # <<>> /\ IsStrictPrefix(d, Marker(d))
  BY <1>1, MarkerElements
<1>3. ASSUME HasEntry(b, Marker(d)) PROVE ~Fills(d) /\ HasBelow(b, d)
  <2>1. PICK i \in Slot : b[i].name = Marker(d)
    BY <1>3 DEF HasEntry, Holding
  <2>2. i \in Used(b)
    BY <1>2, <2>1, NamesArePaths
  <2>3. Marker(d) \in Path
    BY <2>1, <2>2, NamesArePaths
  <2>4. ~Fills(d)
    BY <1>2, <2>3, NothingBelow
  <2> QED BY <1>2, <2>1, <2>2, <2>4 DEF HasBelow
<1> QED
  BY <1>1, <1>3 DEF DirectoryExists, HasChild

(* One slot is replaced by a record with a name that is old, none or new.  *)
LEMMA OneSlot ==
  ASSUME NEW b \in Table, NEW i \in Slot, NEW e \in Entry,
         Whole(b) /\ e.name # <<>> => e.head = e.tail,
         \/ e.name = b[i].name
         \/ e.name = <<>>
         \/ \A j \in Slot : b[j].name # e.name
  PROVE  SafeChange(b, [b EXCEPT ![i] = e])
<1> DEFINE t == [b EXCEPT ![i] = e]
<1>1. t \in Table /\ \A j \in Slot : t[j] = IF j = i THEN e ELSE b[j]
  BY DEF Table
<1> HIDE DEF t
<1>2. Whole(b) => Whole(t)
  BY <1>1 DEF Whole, Used
<1>3. Fresh(b, t)
  BY <1>1 DEF Fresh
<1>4. Distinct(b) => Distinct(t)
  <2> SUFFICES ASSUME Distinct(b), NEW j \in Slot, NEW k \in Slot,
                      t[j].name # <<>>, t[j].name = t[k].name
               PROVE  j = k
    BY DEF Distinct, Used
  <2>1. \A m, n \in Slot : b[m].name # <<>> /\ b[m].name = b[n].name => m = n
    BY DEF Distinct, Used
  <2>2. QED
    BY <1>1, <2>1
<1>5. QED
  BY <1>1, <1>2, <1>3, <1>4 DEF SafeChange, t

(* find_entry and find_free_entry return a slot of the table.              *)
LEMMA Found ==
  ASSUME NEW b \in Table, NEW p
  PROVE  /\ HasEntry(b, p) =>
              Min(Holding(b, p)) \in Slot /\ b[Min(Holding(b, p))].name = p
         /\ ~HasEntry(b, p) => \A j \in Slot : b[j].name # p
         /\ Free(b) # {} => Min(Free(b)) \in Slot /\ b[Min(Free(b))].name = <<>>
<1>1. Slot \subseteq Nat
  BY DEF Slot
<1>2. HasEntry(b, p) => Min(Holding(b, p)) \in Holding(b, p)
  BY <1>1, MinOfNats DEF HasEntry, Holding
<1>3. Free(b) # {} => Min(Free(b)) \in Free(b)
  BY <1>1, MinOfNats DEF Free
<1>4. QED
  BY <1>2, <1>3 DEF HasEntry, Holding, Free, Used

LEMMA WrittenSafe ==
  ASSUME NEW b \in Table, NEW p \in Path, NEW c \in Contents,
         HasEntry(b, p) \/ Free(b) # {}
  PROVE  SafeChange(b, Written(b, p, c))
<1> DEFINE i == IF HasEntry(b, p) THEN Min(Holding(b, p)) ELSE Min(Free(b))
           e == [name |-> p, head |-> c, tail |-> c]
<1>1. /\ i \in Slot
      /\ p = b[i].name \/ \A j \in Slot : b[j].name # p
  BY Found
<1>2. e \in Entry /\ e.name = p /\ e.head = e.tail
  BY DEF Entry
<1>3. Written(b, p, c) = [b EXCEPT ![i] = e]
  BY DEF Written
<1> HIDE DEF i, e
<1>4. QED
  BY <1>1, <1>2, <1>3, OneSlot, ZenonT(60)

LEMMA DeletedSafe ==
  ASSUME NEW b \in Table, NEW p, HasEntry(b, p)
  PROVE  SafeChange(b, Deleted(b, p))
<1>1. FreeEntry \in Entry /\ FreeEntry.name = <<>>
  BY ContentAssumption DEF FreeEntry, Entry
<1>2. Min(Holding(b, p)) \in Slot
  BY Found
<1>3. QED
  BY <1>1, <1>2, OneSlot DEF Deleted

LEMMA RenamedSafe ==
  ASSUME NEW b \in Table, NEW p \in Path, NEW q \in Path, HasEntry(b, p),
         p = q \/ ~HasEntry(b, q)
  PROVE  SafeChange(b, [b EXCEPT ![Min(Holding(b, p))].name = q])
<1> DEFINE i == Min(Holding(b, p))
           e == [b[i] EXCEPT !.name = q]
<1>1. i \in Slot /\ b[i].name = p
  BY Found
<1>2. q = b[i].name \/ \A j \in Slot : b[j].name # q
  BY <1>1, Found
<1> HIDE DEF i
<1>3. b[i] \in Entry
  BY <1>1 DEF Table
<1>4. e \in Entry /\ e.name = q /\ e.head = b[i].head /\ e.tail = b[i].tail
  BY <1>3 DEF Entry
<1>5. Whole(b) => b[i].head = b[i].tail
  BY <1>1, PathNonEmpty DEF Whole, Used
<1> HIDE DEF e
<1>6. SafeChange(b, [b EXCEPT ![i] = e])
  BY <1>1, <1>2, <1>4, <1>5, OneSlot
<1>7. QED
  BY <1>6 DEF i, e

LEMMA MarkedSafe ==
  ASSUME NEW b \in Table, NEW d \in Path, d # <<SYS>>, Free(b) # {},
         ~HasEntry(b, d), ~DirectoryExists(b, d)
  PROVE  SafeChange(b, [b EXCEPT ![Min(Free(b))] =
                          [FreeEntry EXCEPT !.name = Cut(Marker(d))]])
<1> DEFINE i == Min(Free(b))
           m == Cut(Marker(d))
           e == [FreeEntry EXCEPT !.name = m]
<1>1. i \in Slot
  BY Found
<1>2. m \in Path /\ (~Fills(d) => IsStrictPrefix(d, m))
  BY StoredMarker
<1>3. ASSUME NEW j \in Slot PROVE b[j].name # m
  <2>1. CASE Fills(d)
    BY <2>1, Found DEF Fills
  <2>2. CASE ~Fills(d)
    <3>1. ~HasBelow(b, d)
      BY <2>2, DirectoryHasChild DEF HasChild
    <3>2. m # <<>>
      BY <1>2, PathNonEmpty
    <3> QED BY <1>2, <2>2, <3>1, <3>2 DEF HasBelow, Used
  <2> QED BY <2>1, <2>2
<1>4. e = [name |-> m, head |-> NoData, tail |-> NoData]
  BY DEF FreeEntry
<1> HIDE DEF i, e, m
<1>5. e \in Entry /\ e.name = m /\ e.head = e.tail
  BY <1>2, <1>4, ContentAssumption DEF Entry
<1>6. SafeChange(b, [b EXCEPT ![i] = e])
  BY <1>1, <1>3, <1>5, OneSlot
<1>7. QED
  BY <1>6 DEF i, e, m

(* What replace_path_prefix makes of a path at or below old.               *)
LEMMA RenamedElements ==
  ASSUME NEW p \in Seq(Component), NEW old \in Seq(Component),
         NEW new \in Seq(Component), IsPrefix(old, p)
  PROVE  LET r == Renamed(p, old, new) IN
         /\ r \in Seq(Component)
         /\ Len(old) <= Len(p)
         /\ Len(r) = Len(new) + Len(p) - Len(old)
         /\ \A k \in 1..Len(new) : r[k] = new[k]
         /\ \A k \in 1..(Len(p) - Len(old)) : r[Len(new) + k] = p[Len(old) + k]
         /\ \A k \in 1..Len(old) : p[k] = old[k]
<1> DEFINE u == SubSeq(p, Len(old) + 1, Len(p))
           r == Renamed(p, old, new)
<1>1. Len(p) \in Nat /\ Len(old) \in Nat /\ Len(new) \in Nat
  OBVIOUS
<1>2. Len(old) <= Len(p) /\ \A k \in 1..Len(old) : p[k] = old[k]
  BY PrefixElements
<1>3. /\ u \in Seq(Component)
      /\ Len(u) = Len(p) - Len(old)
      /\ \A k \in 1..(Len(p) - Len(old)) : u[k] = p[Len(old) + k]
  BY <1>1, <1>2, SubSeqProperties, ElementOfSeq
<1>4. r = new \o u
  BY DEF Renamed
<1> HIDE DEF u, r
<1>5. /\ r \in Seq(Component)
      /\ Len(r) = Len(new) + Len(u)
      /\ \A k \in 1..(Len(new) + Len(u)) :
           r[k] = IF k <= Len(new) THEN new[k] ELSE u[k - Len(new)]
  BY <1>3, <1>4, ConcatProperties
<1>6. ASSUME NEW k \in 1..Len(new) PROVE r[k] = new[k]
  <2>1. k \in 1..(Len(new) + Len(u)) /\ k <= Len(new)
    BY <1>1, <1>2, <1>3
  <2>2. QED
    BY <1>5, <2>1
<1>7. ASSUME NEW k \in 1..(Len(p) - Len(old))
      PROVE  r[Len(new) + k] = p[Len(old) + k]
  <2>1. /\ Len(new) + k \in 1..(Len(new) + Len(u))
        /\ ~(Len(new) + k <= Len(new))
        /\ Len(new) + k - Len(new) = k
    BY <1>1, <1>3
  <2>2. QED
    BY <1>3, <1>5, <2>1
<1>8. QED
  BY <1>1, <1>2, <1>3, <1>5, <1>6, <1>7 DEF r

(* Two paths below old that are renamed to the same path are the same.     *)
LEMMA RenamedInjective ==
  ASSUME NEW p \in Seq(Component), NEW q \in Seq(Component),
         NEW old \in Seq(Component), NEW new \in Seq(Component),
         IsPrefix(old, p), IsPrefix(old, q),
         Renamed(p, old, new) = Renamed(q, old, new)
  PROVE  p = q
<1> DEFINE r == Renamed(p, old, new)
           x == Renamed(q, old, new)
<1>1. Len(p) \in Nat /\ Len(q) \in Nat /\ Len(old) \in Nat /\ Len(new) \in Nat
  OBVIOUS
<1>2. /\ Len(old) <= Len(p)
      /\ Len(r) = Len(new) + Len(p) - Len(old)
      /\ \A k \in 1..(Len(p) - Len(old)) : r[Len(new) + k] = p[Len(old) + k]
      /\ \A k \in 1..Len(old) : p[k] = old[k]
  BY RenamedElements, ZenonT(60)
<1>3. /\ Len(old) <= Len(q)
      /\ Len(x) = Len(new) + Len(q) - Len(old)
      /\ \A k \in 1..(Len(q) - Len(old)) : x[Len(new) + k] = q[Len(old) + k]
      /\ \A k \in 1..Len(old) : q[k] = old[k]
  BY RenamedElements, ZenonT(60)
<1>0. r = x
  OBVIOUS
<1> HIDE DEF r, x
<1>4. Len(p) = Len(q)
  BY <1>0, <1>1, <1>2, <1>3
<1>5. ASSUME NEW k \in 1..Len(p) PROVE p[k] = q[k]
  <2>1. CASE k <= Len(old)
    BY <1>1, <1>2, <1>3, <2>1
  <2>2. CASE ~(k <= Len(old))
    <3> DEFINE m == k - Len(old)
    <3>1. m \in 1..(Len(p) - Len(old)) /\ Len(old) + m = k
      BY <1>1, <2>2
    <3> HIDE DEF m
    <3>2. p[Len(old) + m] = q[Len(old) + m]
      BY <1>0, <1>2, <1>3, <1>4, <3>1
    <3>3. QED
      BY <3>1, <3>2
  <2>3. QED
    BY <2>1, <2>2
<1>6. QED
  BY <1>4, <1>5, SeqEqual

(* fs_rename_dir moves entries to names that are new and distinct.         *)
LEMMA MovedSafe ==
  ASSUME NEW b \in Table, NEW old \in Path, NEW new \in Path,
         ~Reserved(new), ~DirectoryExists(b, new), ~HasEntry(b, new)
  PROVE  SafeChange(b, MovedTree(b, old, new))
<1> DEFINE t == MovedTree(b, old, new)
           moved(i) == Moves(b[i].name, old, new)
           to(i) == Renamed(b[i].name, old, new)
<1>1. /\ old \in Seq(Component) /\ Len(old) \in Nat /\ Len(old) > 0
      /\ new \in Seq(Component) /\ Len(new) \in Nat /\ Len(new) > 0
      /\ new # <<SYS>>
  BY PathNonEmpty DEF Reserved
<1>2. ASSUME NEW i \in Slot
      PROVE  b[i] \in Entry /\ b[i].name \in Seq(Component)
  <2>1. b[i] \in Entry
    BY DEF Table
  <2>2. b[i].name \in Path \union {<<>>}
    BY <2>1 DEF Entry
  <2>3. <<>> \in Seq(Component)
    BY EmptySeq
  <2>4. CASE b[i].name \in Path
    BY <2>1, <2>4, PathNonEmpty
  <2>5. QED
    BY <2>1, <2>2, <2>3, <2>4
<1>3. ASSUME NEW i \in Slot, ~Fills(new) PROVE ~IsPrefix(new, b[i].name)
  <2>1. b[i].name # new
    BY Found
  <2>2. CASE b[i].name = <<>>
    <3>1. Len(b[i].name) = 0
      BY <2>2
    <3>2. QED
      BY <1>1, <3>1 DEF IsPrefix
  <2>3. CASE b[i].name # <<>>
    <3>1. ~IsStrictPrefix(new, b[i].name)
      BY <1>1, <1>3, <2>3, DirectoryHasChild DEF HasChild, HasBelow, Used
    <3>2. QED
      BY <2>1, <3>1 DEF IsStrictPrefix
  <2>4. QED
    BY <2>2, <2>3
<1>4. ASSUME NEW i \in Slot, moved(i)
      PROVE  /\ to(i) \in Path
             /\ to(i) # <<>>
             /\ b[i].name # <<>>
             /\ ~Fills(new)
             /\ IsPrefix(old, b[i].name)
             /\ IsPrefix(new, to(i))
  <2>1. IsPrefix(old, b[i].name) /\ ~Fills(new) /\ Cut(to(i)) = to(i)
    BY <1>4 DEF Moves
  <2>2. /\ to(i) \in Seq(Component)
        /\ Len(old) <= Len(b[i].name)
        /\ Len(to(i)) = Len(new) + Len(b[i].name) - Len(old)
        /\ \A k \in 1..Len(new) : to(i)[k] = new[k]
    BY <1>1, <1>2, <2>1, RenamedElements, ZenonT(60)
  <2>3. Len(b[i].name) \in Nat /\ Len(to(i)) \in Nat
    BY <1>2, <2>2
  <2>4. b[i].name # <<>>
    BY <1>1, <2>2, <2>3
  <2>5. to(i) \in Path
    <3>1. Len(to(i)) > 0
      BY <1>1, <2>2, <2>3
    <3>2. to(i) # <<>>
      BY <2>2, <3>1, EmptySeq
    <3> QED BY <2>1, <2>2, <3>2 DEF Path
  <2>6. Len(new) <= Len(to(i))
    BY <1>1, <2>2, <2>3
  <2>7. IsPrefix(new, to(i))
    BY <1>1, <2>2, <2>6, PrefixElements
  <2>8. QED
    BY <2>1, <2>4, <2>5, <2>7, PathNonEmpty
<1> DEFINE e(i) == [b[i] EXCEPT !.name = to(i)]
<1>5. t = [i \in Slot |-> IF moved(i) THEN e(i) ELSE b[i]]
  BY DEF MovedTree
<1>6. \A i, j \in Slot : moved(i) /\ moved(j) /\ to(i) = to(j) => b[i].name = b[j].name
  BY <1>1, <1>2, <1>4, RenamedInjective
<1> HIDE DEF moved, to, t
<1>7. ASSUME NEW i \in Slot, moved(i)
      PROVE  /\ e(i) \in Entry
             /\ e(i).name = to(i)
             /\ e(i).head = b[i].head
             /\ e(i).tail = b[i].tail
  BY <1>2, <1>4, <1>7 DEF Entry
<1> HIDE DEF e
<1>8. ASSUME NEW i \in Slot
      PROVE  /\ t[i] \in Entry
             /\ t[i].head = b[i].head
             /\ t[i].tail = b[i].tail
             /\ t[i].name = IF moved(i) THEN to(i) ELSE b[i].name
             /\ t[i].name # <<>> => b[i].name # <<>>
  BY <1>2, <1>4, <1>5, <1>7
<1>9. t \in Table
  BY <1>5, <1>8 DEF Table
<1>10. Whole(b) => Whole(t)
  BY <1>8 DEF Whole, Used
<1>11. Fresh(b, t)
  BY <1>3, <1>4, <1>8 DEF Fresh
<1>12. Distinct(b) => Distinct(t)
  <2> SUFFICES ASSUME Distinct(b), NEW i \in Slot, NEW j \in Slot,
                      t[i].name # <<>>, t[i].name = t[j].name
               PROVE  i = j
    BY DEF Distinct, Used
  <2>1. \A m, n \in Slot : b[m].name # <<>> /\ b[m].name = b[n].name => m = n
    BY DEF Distinct, Used
  <2>2. b[i].name # <<>> /\ b[j].name # <<>>
    BY <1>8
  <2>3. b[i].name = b[j].name
    <3>1. CASE moved(i) /\ moved(j)
      BY <1>6, <1>8, <3>1
    <3>2. CASE moved(i) /\ ~moved(j)
      BY <1>3, <1>4, <1>8, <3>2
    <3>3. CASE ~moved(i) /\ moved(j)
      BY <1>3, <1>4, <1>8, <3>3
    <3>4. CASE ~moved(i) /\ ~moved(j)
      BY <1>8, <3>4
    <3>5. QED
      BY <3>1, <3>2, <3>3, <3>4
  <2>4. QED
    BY <2>1, <2>2, <2>3
<1>13. QED
  BY <1>9, <1>10, <1>11, <1>12 DEF SafeChange, t

-----------------------------------------------------------------------------
(* Every operation leaves the state alone or commits a change it may make. *)
Changes(s, u) ==
  u = s \/ \E t : SafeChange(s.entries, t) /\ u \in Commit(s, t)

LEMMA ChangesGood ==
  ASSUME NEW s, Good(s), NEW u, Changes(s, u)
  PROVE  Good(u)
  BY CommitGood DEF Changes

(***************************************************************************)
(* A probe that may write settles whether the disk is used, and only a     *)
(* load of an image changes the table.                                     *)
(***************************************************************************)
LEMMA ProbeFields ==
  ASSUME NEW s \in State, NEW allowed \in BOOLEAN, NEW u \in TryEnable(s, allowed)
  PROVE  /\ u.enabled \/ u.probeDone
         /\ u.entries = s.entries \/ (s.disk.magic /\ ~s.enabled)
<1> DEFINE probed == [s EXCEPT !.probeDone = TRUE]
           loaded == [Load(probed) EXCEPT !.enabled = TRUE]
           flushed(r) == [Flush(probed, probed.entries, r) EXCEPT !.enabled = r.ok]
           off == [probed EXCEPT !.enabled = FALSE]
<1>0. u \in IF s.enabled \/ (s.probeDone /\ ~allowed)
           THEN {s}
           ELSE UNION { IF x THEN {loaded}
                        ELSE IF allowed THEN { flushed(r) : r \in FlushResults }
                        ELSE {off} : x \in Loads(s) }
  BY DEF TryEnable, Unloaded
<1>1. probed \in State /\ probed.entries = s.entries /\ probed.probeDone = TRUE
  BY DEF State
<1> HIDE DEF probed
<1>2. CASE s.enabled \/ (s.probeDone /\ ~allowed)
  BY <1>0, <1>2
<1>3. CASE ~(s.enabled \/ (s.probeDone /\ ~allowed))
  <2>0. ~s.enabled
    BY <1>3
  <2> HIDE DEF loaded, flushed, off
  <2>1. PICK x \in Loads(s) : u \in IF x THEN {loaded}
                                   ELSE IF allowed THEN { flushed(r) : r \in FlushResults }
                                   ELSE {off}
    BY <1>0, <1>3
  <2>2. x \in BOOLEAN /\ (x => s.disk.magic)
    BY DiskAssumption DEF Loads
  <2>3. CASE x /\ u = loaded
    <3> DEFINE d == probed.disk.slot
               g1 == [probed EXCEPT !.entries = d]
               g2 == [g1 EXCEPT !.lag = FALSE]
               g3 == [g2 EXCEPT !.enabled = TRUE]
    <3>1. u = g3
      BY <1>1, <2>3 DEF Load, State, loaded
    <3>2. d \in Table
      BY <1>1 DEF State, Image
    <3> HIDE DEF d
    <3>3. g1 \in State
      BY <1>1, <3>2 DEF State
    <3> HIDE DEF g1
    <3>4. g2 \in State
      BY <3>3 DEF State
    <3> HIDE DEF g2
    <3>5. g3.enabled = TRUE
      BY <3>4 DEF State
    <3> QED BY <2>0, <2>2, <2>3, <3>1, <3>5
  <2>4. ASSUME NEW r \in FlushResults, u = flushed(r)
        PROVE  u.probeDone /\ u.entries = s.entries
    <3> DEFINE f == Flush(probed, probed.entries, r)
               g == [f EXCEPT !.enabled = r.ok]
    <3>1. r \in FlushResult
      BY DiskAssumption
    <3>2. f \in State /\ f.entries = probed.entries /\ f.probeDone = probed.probeDone
      BY <1>1, <3>1, FlushFields, ZenonT(60)
    <3>3. u = g
      BY <2>4 DEF flushed
    <3> HIDE DEF f
    <3>4. g.entries = f.entries /\ g.probeDone = f.probeDone
      BY <3>2 DEF State
    <3> QED BY <1>1, <3>2, <3>3, <3>4
  <2>5. CASE u = off
    <3>1. off.entries = probed.entries /\ off.probeDone = probed.probeDone
      BY <1>1 DEF State, off
    <3> QED BY <1>1, <2>5, <3>1
  <2>6. (x /\ u = loaded) \/ (\E r \in FlushResults : u = flushed(r)) \/ u = off
    BY <2>1, <2>2
  <2> QED BY <2>3, <2>4, <2>5, <2>6
<1> QED BY <1>2, <1>3

LEMMA ProbeAgain ==
  ASSUME NEW s, s.enabled \/ s.probeDone
  PROVE  TryEnable(s, FALSE) = {s}
  BY DEF TryEnable

LEMMA FlushKeeps ==
  ASSUME NEW s, s \in State, NEW before, NEW r \in FlushResults
  PROVE  /\ Flush(s, before, r).entries = s.entries
         /\ Flush(s, before, r).enabled = s.enabled
         /\ Flush(s, before, r).probeDone = s.probeDone
<1>1. r \in FlushResult
  BY DiskAssumption
<1> QED BY <1>1, FlushFields

(* A change is in the table, whether or not it is on the disk.             *)
LEMMA CommitFields ==
  ASSUME NEW s \in State, NEW t \in Table, NEW u \in Commit(s, t)
  PROVE  u.entries = t /\ u.enabled = s.enabled /\ u.probeDone = s.probeDone
<1> DEFINE g == [s EXCEPT !.entries = t]
<1>1. /\ g \in State /\ g.entries = t
      /\ g.enabled = s.enabled /\ g.probeDone = s.probeDone
  BY DEF State
<1>2. u = g \/ \E r \in FlushResults : u = Flush(g, s.entries, r)
  BY DEF Commit
<1> HIDE DEF g
<1>3. ASSUME NEW r \in FlushResults, u = Flush(g, s.entries, r)
      PROVE  u.entries = g.entries /\ u.enabled = g.enabled /\ u.probeDone = g.probeDone
  BY <1>1, <1>3, FlushKeeps
<1> QED BY <1>1, <1>2, <1>3

LEMMA ChangesFields ==
  ASSUME NEW s \in State, NEW u, Changes(s, u)
  PROVE  u.enabled = s.enabled /\ u.probeDone = s.probeDone
  BY CommitFields DEF Changes, SafeChange

LEMMA WriteChanges ==
  ASSUME NEW s, s.entries \in Table, NEW p \in Path, NEW c \in Contents,
         NEW u \in WriteResult(s, p, c)
  PROVE  Changes(s, u)
<1>1. s.entries \in Table /\ p \in Path
  OBVIOUS
<1>2. CASE u = s
  BY <1>2 DEF Changes
<1>3. CASE /\ HasEntry(s.entries, p) \/ Free(s.entries) # {}
           /\ u \in Commit(s, Written(s.entries, p, c))
  <2>1. SafeChange(s.entries, Written(s.entries, p, c))
    BY <1>1, <1>3, WrittenSafe
  <2>2. QED
    BY <1>3, <2>1 DEF Changes
<1>4. QED
  BY <1>2, <1>3 DEF WriteResult

LEMMA DeleteChanges ==
  ASSUME NEW s, s.entries \in Table, NEW p, NEW u \in DeleteResult(s, p)
  PROVE  Changes(s, u)
<1>1. s.entries \in Table
  OBVIOUS
<1>2. CASE u = s
  BY <1>2 DEF Changes
<1>3. CASE HasEntry(s.entries, p) /\ u \in Commit(s, Deleted(s.entries, p))
  <2>1. SafeChange(s.entries, Deleted(s.entries, p))
    BY <1>1, <1>3, DeletedSafe
  <2>2. QED
    BY <1>3, <2>1 DEF Changes
<1>4. QED
  BY <1>2, <1>3 DEF DeleteResult

LEMMA RenameChanges ==
  ASSUME NEW s, s.entries \in Table, NEW p \in Path, NEW q \in Path,
         NEW u \in RenameResult(s, p, q)
  PROVE  Changes(s, u)
<1> DEFINE t == [s.entries EXCEPT ![Min(Holding(s.entries, p))].name = q]
<1>1. s.entries \in Table /\ p \in Path /\ q \in Path
  OBVIOUS
<1>2. CASE u = s
  BY <1>2 DEF Changes
<1>3. CASE /\ HasEntry(s.entries, p)
           /\ p = q \/ ~HasEntry(s.entries, q)
           /\ u \in Commit(s, t)
  <2>1. SafeChange(s.entries, t)
    BY <1>1, <1>3, RenamedSafe
  <2> HIDE DEF t
  <2>2. QED
    BY <1>3, <2>1 DEF Changes
<1>4. QED
  BY <1>2, <1>3 DEF RenameResult

LEMMA CreateDirChanges ==
  ASSUME NEW s, s.entries \in Table, NEW d \in Path,
         NEW u \in CreateDirResult(s, d)
  PROVE  Changes(s, u)
<1> DEFINE t == [s.entries EXCEPT ![Min(Free(s.entries))] =
                   [FreeEntry EXCEPT !.name = Cut(Marker(d))]]
<1>1. s.entries \in Table
  OBVIOUS
<1>2. CASE u = s
  BY <1>2 DEF Changes
<1>3. CASE /\ ~HasEntry(s.entries, d) /\ ~DirectoryExists(s.entries, d)
           /\ Free(s.entries) # {}
           /\ u \in Commit(s, t)
  <2>1. d # <<SYS>>
    BY <1>3 DEF DirectoryExists
  <2>2. SafeChange(s.entries, t)
    BY <1>1, <1>3, <2>1, MarkedSafe
  <2> HIDE DEF t
  <2>3. QED
    BY <1>3, <2>2 DEF Changes
<1>4. QED
  BY <1>2, <1>3 DEF CreateDirResult

LEMMA DeleteDirChanges ==
  ASSUME NEW s, s.entries \in Table, NEW d, NEW u \in DeleteDirResult(s, d)
  PROVE  Changes(s, u)
<1>1. s.entries \in Table
  OBVIOUS
<1>2. CASE u = s
  BY <1>2 DEF Changes
<1>3. CASE /\ HasEntry(s.entries, Marker(d))
           /\ u \in Commit(s, Deleted(s.entries, Marker(d)))
  <2>1. SafeChange(s.entries, Deleted(s.entries, Marker(d)))
    BY <1>1, <1>3, DeletedSafe
  <2>2. QED
    BY <1>3, <2>1 DEF Changes
<1>4. QED
  BY <1>2, <1>3 DEF DeleteDirResult

LEMMA RenameDirChanges ==
  ASSUME NEW s, s.entries \in Table, NEW old \in Path, NEW new \in Path,
         NEW u \in RenameDirResult(s, old, new)
  PROVE  Changes(s, u)
<1>1. s.entries \in Table /\ old \in Path /\ new \in Path
  OBVIOUS
<1>2. CASE u = s
  BY <1>2 DEF Changes
<1>3. CASE /\ ~Reserved(new) /\ ~DirectoryExists(s.entries, new)
           /\ ~HasEntry(s.entries, new)
           /\ u \in Commit(s, MovedTree(s.entries, old, new))
  <2>1. SafeChange(s.entries, MovedTree(s.entries, old, new))
    BY <1>1, <1>3, MovedSafe
  <2>2. QED
    BY <1>3, <2>1 DEF Changes
<1>4. QED
  BY <1>2, <1>3 DEF RenameDirResult

LEMMA InitIInv == Init => IInv
<1> SUFFICES ASSUME Init PROVE IInv
  OBVIOUS
<1>1. Now = [entries |-> EmptyTable, disk |-> [magic |-> FALSE, slot |-> EmptyTable],
             probeDone |-> FALSE, enabled |-> FALSE,
             torn |-> FALSE, mixed |-> FALSE, lag |-> FALSE]
  BY DEF Init, Now
<1>3. Whole(EmptyTable) /\ Distinct(EmptyTable)
  BY EmptyIsGood
<1>4. /\ Now.entries = EmptyTable
      /\ Now.disk = [magic |-> FALSE, slot |-> EmptyTable]
      /\ Now.disk.slot = EmptyTable
      /\ Now.enabled = FALSE
  BY <1>1
<1>5. [magic |-> FALSE, slot |-> EmptyTable] \in Image
  BY EmptyIsTable DEF Image
<1>6. Now \in State
  BY <1>1, <1>5, EmptyIsTable DEF State
<1>7. QED
  BY <1>3, <1>4, <1>6 DEF IInv, Good, InSync, NeverTorn, NeverTwice

(* A step is a change after a probe, a probe, a restart or none of these.   *)
LEMMA Steps ==
  ASSUME \A s \in TryEnable(Now, TRUE) : s.entries \in Table, [Next]_vars
  PROVE  \/ \E s \in TryEnable(Now, TRUE) : \E u : Changes(s, u) /\ Become(u)
         \/ ReadFile \/ Reboot \/ UNCHANGED vars
<1> DEFINE Changed == \E s \in TryEnable(Now, TRUE) : \E u : Changes(s, u) /\ Become(u)
<1>1. ASSUME NEW p \in FilePaths, NEW c \in Contents, WriteFile(p, c) PROVE Changed
  <2>1. PICK s \in TryEnable(Now, TRUE) : \E u \in WriteResult(s, p, c) : Become(u)
    BY <1>1 DEF WriteFile
  <2> QED BY <2>1, InputAssumption, WriteChanges
<1>2. ASSUME NEW p \in FilePaths, DeleteFile(p) PROVE Changed
  <2>1. PICK s \in TryEnable(Now, TRUE) : \E u \in DeleteResult(s, p) : Become(u)
    BY <1>2 DEF DeleteFile
  <2> QED BY <2>1, DeleteChanges
<1>3. ASSUME NEW p \in FilePaths, NEW q \in FilePaths, RenameFile(p, q) PROVE Changed
  <2>1. PICK s \in TryEnable(Now, TRUE) : \E u \in RenameResult(s, p, q) : Become(u)
    BY <1>3 DEF RenameFile
  <2> QED BY <2>1, InputAssumption, RenameChanges
<1>4. ASSUME NEW d \in DirPaths, CreateDir(d) PROVE Changed
  <2>1. PICK s \in TryEnable(Now, TRUE) : \E u \in CreateDirResult(s, d) : Become(u)
    BY <1>4 DEF CreateDir
  <2> QED BY <2>1, InputAssumption, CreateDirChanges
<1>5. ASSUME NEW d \in DirPaths, DeleteDir(d) PROVE Changed
  <2>1. PICK s \in TryEnable(Now, TRUE) : \E u \in DeleteDirResult(s, d) : Become(u)
    BY <1>5 DEF DeleteDir
  <2> QED BY <2>1, DeleteDirChanges
<1>6. ASSUME NEW old \in DirPaths, NEW new \in DirPaths, RenameDir(old, new) PROVE Changed
  <2>1. PICK s \in TryEnable(Now, TRUE) : \E u \in RenameDirResult(s, old, new) : Become(u)
    BY <1>6 DEF RenameDir
  <2> QED BY <2>1, InputAssumption, RenameDirChanges
<1> QED BY <1>1, <1>2, <1>3, <1>4, <1>5, <1>6 DEF Next

(* A state an operation leaves is what the variables become.               *)
LEMMA BecomesNow ==
  ASSUME NEW u \in State, Become(u)
  PROVE  Now' = u
<1>1. u = [entries |-> u.entries, disk |-> u.disk, probeDone |-> u.probeDone,
           enabled |-> u.enabled, torn |-> u.torn, mixed |-> u.mixed, lag |-> u.lag]
  BY DEF State
<1>2. QED
  BY <1>1 DEF Become, Now

LEMMA NextIInv == IInv /\ [Next]_vars => IInv'
<1> SUFFICES ASSUME IInv, [Next]_vars PROVE IInv'
  OBVIOUS
<1>1. ASSUME NEW u, Good(u), Become(u) PROVE IInv'
  BY <1>1, BecomesNow DEF Good, IInv
<1>2. ASSUME NEW allowed \in BOOLEAN, NEW s \in TryEnable(Now, allowed) PROVE Good(s)
  BY TryEnableGood DEF IInv
<1>3. TRUE \in BOOLEAN /\ FALSE \in BOOLEAN
  OBVIOUS
<1>4. \A s \in TryEnable(Now, TRUE) : s.entries \in Table
  BY <1>2, <1>3 DEF Good, State
<1>5. CASE \E s \in TryEnable(Now, TRUE) : \E u : Changes(s, u) /\ Become(u)
  BY <1>1, <1>2, <1>3, <1>5, ChangesGood
<1>6. CASE ReadFile
  BY <1>1, <1>2, <1>3, <1>6 DEF ReadFile
<1>7. CASE Reboot
  <2>1. /\ Now.disk = disk
        /\ Now.torn = torn
        /\ Now.mixed = mixed
        /\ Now \in State
        /\ torn \in BOOLEAN
        /\ mixed \in BOOLEAN
        /\ disk \in Image
    BY DEF IInv, Good, State, Now
  <2>2. (~torn => Whole(disk.slot)) /\ (~mixed => Distinct(disk.slot))
    BY <2>1 DEF IInv, Good, NeverTorn, NeverTwice
  <2> DEFINE u == [entries |-> EmptyTable, disk |-> disk, probeDone |-> FALSE,
                   enabled |-> FALSE, torn |-> torn, mixed |-> mixed, lag |-> FALSE]
  <2>3. /\ u.entries = EmptyTable
        /\ u.disk = disk
        /\ u.torn = torn
        /\ u.mixed = mixed
        /\ u.enabled = FALSE
        /\ u \in State
    BY <2>1, EmptyIsTable DEF State
  <2>4. Become(u)
    BY <1>7 DEF Reboot, Become
  <2>5. Whole(EmptyTable) /\ Distinct(EmptyTable)
    BY EmptyIsGood
  <2> HIDE DEF u
  <2>6. Good(u)
    BY <2>2, <2>3, <2>5 DEF Good, InSync, NeverTorn, NeverTwice
  <2>7. QED
    BY <1>1, <2>4, <2>6
<1>8. CASE UNCHANGED vars
  BY <1>8 DEF vars, IInv, Now
<1>9. QED
  BY <1>4, <1>5, <1>6, <1>7, <1>8, Steps

-----------------------------------------------------------------------------
THEOREM Invariance == Spec => []IInv
  BY InitIInv, NextIInv, PTL DEF Spec

(* The parts of the invariant, over the variables.                         *)
LEMMA IInvParts ==
  ASSUME IInv
  PROVE  /\ Now \in State
         /\ Now.entries = entries
         /\ Now.disk = disk
         /\ Now.probeDone = probeDone
         /\ Now.enabled = enabled
         /\ Now.torn = torn
         /\ Now.mixed = mixed
         /\ Now.lag = lag
  BY DEF IInv, Good, Now

(***************************************************************************)
(* Tables and images keep their shape: in particular every name fits.      *)
(***************************************************************************)
THEOREM TypeCorrect == Spec => []TypeOK
<1>1. IInv => TypeOK
  BY IInvParts DEF State, Image, TypeOK
<1>2. QED
  BY <1>1, Invariance, PTL

(***************************************************************************)
(* What was acknowledged is on the disk.                                   *)
(***************************************************************************)
THEOREM AlwaysWrittenThrough == Spec => []WriteThrough
<1>1. IInv => WriteThrough
  BY IInvParts DEF IInv, Good, InSync, WriteThrough
<1>2. QED
  BY <1>1, Invariance, PTL

(***************************************************************************)
(* Names are unique unless a flush of a stale image was cut short.         *)
(***************************************************************************)
THEOREM AlwaysUniqueNames == Spec => []UniqueNames
<1>1. IInv => UniqueNames
  BY IInvParts DEF IInv, Good, NeverTwice, UniqueNames
<1>2. QED
  BY <1>1, Invariance, PTL

(***************************************************************************)
(* Files are whole unless a flush was cut short.                           *)
(***************************************************************************)
THEOREM AlwaysWholeFiles == Spec => []WholeFiles
<1>1. IInv => WholeFiles
  BY IInvParts DEF IInv, Good, NeverTorn, WholeFiles
<1>2. QED
  BY <1>1, Invariance, PTL

-----------------------------------------------------------------------------
(* What is listed as a folder is what has something below it.              *)
LEMMA FoldersHaveChildren ==
  ASSUME NEW b \in Table, NEW d \in Path, ~Reserved(d), Last(d) # NONE
  PROVE  Last(d) \in Folders(b, Front(d)) <=> HasBelow(b, d)
<1> DEFINE f == Front(d)
           deep(i) == /\ IsStrictPrefix(f, b[i].name)
                      /\ Len(b[i].name) > Len(f) + 1
                      /\ b[i].name[Len(f) + 1] # NONE
<1>1. /\ d \in Seq(Component) /\ Len(d) \in Nat /\ Len(d) > 0 /\ d # <<>>
      /\ d[1] # SYS
  BY PathNonEmpty DEF Reserved
<1>2. /\ f \in Seq(Component) /\ Len(f) = Len(d) - 1
      /\ \A i \in 1..(Len(d) - 1) : f[i] = d[i]
      /\ Last(d) = d[Len(d)]
  BY <1>1, FrontElements
<1> HIDE DEF f
<1>5. ASSUME NEW i \in Used(b)
      PROVE  IsStrictPrefix(d, b[i].name) <=> deep(i) /\ b[i].name[Len(f) + 1] = Last(d)
  <2> DEFINE n == b[i].name
  <2>1. n \in Seq(Component) /\ Len(n) \in Nat
    BY NamesArePaths DEF Used
  <2> HIDE DEF n
  <2>2. IsStrictPrefix(d, n) <=> Len(d) < Len(n) /\ \A k \in 1..Len(d) : d[k] = n[k]
    BY <1>1, <2>1, BelowElements
  <2>3. IsStrictPrefix(f, n) <=> Len(f) < Len(n) /\ \A k \in 1..Len(f) : f[k] = n[k]
    BY <1>2, <2>1, BelowElements
  <2>4. IsStrictPrefix(d, n)
          <=> IsStrictPrefix(f, n) /\ Len(n) > Len(f) + 1 /\ n[Len(f) + 1] = Last(d)
    <3>1. Len(f) + 1 = Len(d) /\ Len(d) \in 1..Len(d) /\ 1..Len(f) = 1..(Len(d) - 1)
      BY <1>1, <1>2
    <3>2. \A k \in 1..Len(d) : k \in 1..(Len(d) - 1) \/ k = Len(d)
      BY <1>1
    <3>3. \A k \in 1..(Len(d) - 1) : k \in 1..Len(d)
      BY <1>1
    <3>4. (\A k \in 1..Len(d) : d[k] = n[k])
            <=> (\A k \in 1..(Len(d) - 1) : f[k] = n[k]) /\ n[Len(d)] = Last(d)
      BY <1>2, <3>1, <3>2, <3>3
    <3>5. Len(n) > Len(f) + 1 <=> Len(d) < Len(n)
      BY <3>1, <1>1, <2>1
    <3>6. Len(d) < Len(n) => Len(f) < Len(n)
      BY <3>1, <1>1, <1>2, <2>1
    <3> QED BY <2>2, <2>3, <3>1, <3>4, <3>5, <3>6
  <2> QED BY <2>4 DEF n
<1>6. Last(d) \in Folders(b, f) <=> \E i \in Used(b) : deep(i) /\ b[i].name[Len(f) + 1] = Last(d)
  <2>1. f = <<>> => Last(d) # SYS
    <3> SUFFICES ASSUME f = <<>> PROVE Last(d) # SYS
      OBVIOUS
    <3>1. Len(d) = 1
      BY <1>1, <1>2
    <3> QED BY <1>1, <1>2, <3>1
  <2> QED BY <2>1 DEF Folders
<1>7. QED
  BY <1>5, <1>6 DEF f, HasBelow

(* What is listed as a file, where nothing is below it, has an entry.      *)
LEMMA FilesHaveEntries ==
  ASSUME NEW b \in Table, NEW d \in Path, Last(d) \notin {MARK, NONE},
         Last(d) \notin Folders(b, Front(d))
  PROVE  Last(d) \in Files(b, Front(d)) <=> HasEntry(b, d)
<1> DEFINE f == Front(d)
           shown(i) == /\ IsStrictPrefix(f, b[i].name)
                       /\ Len(b[i].name) = Len(f) + 1
                       /\ Last(b[i].name) \notin {MARK, NONE}
<1>1. /\ d \in Seq(Component) /\ Len(d) \in Nat /\ Len(d) > 0 /\ d # <<>>
  BY PathNonEmpty
<1>2. /\ f \in Seq(Component) /\ Len(f) = Len(d) - 1
      /\ \A i \in 1..(Len(d) - 1) : f[i] = d[i]
      /\ Last(d) = d[Len(d)]
  BY <1>1, FrontElements
<1>3. Last(d) \in Files(b, f)
        <=> \E i \in Used(b) : shown(i) /\ b[i].name[Len(f) + 1] = Last(d)
  BY DEF Files
<1> HIDE DEF f
<1>4. ASSUME NEW i \in Used(b)
      PROVE  shown(i) /\ b[i].name[Len(f) + 1] = Last(d) <=> b[i].name = d
  <2> DEFINE n == b[i].name
  <2>1. n \in Seq(Component) /\ Len(n) \in Nat
    BY NamesArePaths DEF Used
  <2> HIDE DEF n
  <2>2. IsStrictPrefix(f, n) <=> Len(f) < Len(n) /\ \A k \in 1..Len(f) : f[k] = n[k]
    BY <1>2, <2>1, BelowElements
  <2>3. ASSUME IsStrictPrefix(f, n), Len(n) = Len(f) + 1, n[Len(f) + 1] = Last(d)
        PROVE  n = d
    <3>1. Len(n) = Len(d)
      BY <1>1, <1>2, <2>3
    <3>2. ASSUME NEW k \in 1..Len(d) PROVE n[k] = d[k]
      <4>1. CASE k = Len(d)
        BY <1>1, <1>2, <2>3, <4>1
      <4>2. CASE k # Len(d)
        <5>1. k \in 1..(Len(d) - 1) /\ k \in 1..Len(f)
          BY <1>1, <1>2, <4>2
        <5> QED BY <1>2, <2>2, <2>3, <5>1
      <4> QED BY <4>1, <4>2
    <3> QED BY <1>1, <2>1, <3>1, <3>2, SeqEqual
  <2>4. ASSUME n = d
        PROVE  /\ IsStrictPrefix(f, n) /\ Len(n) = Len(f) + 1
               /\ Last(n) = Last(d) /\ n[Len(f) + 1] = Last(d)
    <3>1. Len(f) < Len(d) /\ Len(d) = Len(f) + 1 /\ 1..Len(f) = 1..(Len(d) - 1)
      BY <1>1, <1>2
    <3>2. IsStrictPrefix(f, d)
      BY <1>1, <1>2, <3>1, BelowElements
    <3> QED BY <1>2, <2>4, <3>1, <3>2
  <2> QED BY <2>3, <2>4 DEF n
<1> QED BY <1>1, <1>3, <1>4, NamesArePaths DEF HasEntry, Holding, Used, f

(***************************************************************************)
(* The two scans of fs.c agree on every table, whatever its names.         *)
(***************************************************************************)
LEMMA ScansAgree ==
  ASSUME NEW b \in Table, NEW d \in Path, ~Reserved(d), Last(d) \notin {MARK, NONE}
  PROVE  DirectoryExists(b, d)
           <=> Last(d) \in IF Fills(d) THEN Files(b, Front(d)) ELSE Folders(b, Front(d))
<1>1. d # <<SYS>>
  BY DEF Reserved
<1>2. DirectoryExists(b, d) <=> HasChild(b, d)
  BY <1>1, DirectoryHasChild
<1>3. Last(d) \in Folders(b, Front(d)) <=> HasBelow(b, d)
  BY FoldersHaveChildren
<1>4. CASE ~Fills(d)
  BY <1>2, <1>3, <1>4 DEF HasChild
<1>5. CASE Fills(d)
  <2>1. ~HasBelow(b, d)
    BY <1>5, NothingBelow, NamesArePaths DEF HasBelow, Used
  <2>2. Last(d) \in Files(b, Front(d)) <=> HasEntry(b, d)
    BY <1>3, <2>1, FilesHaveEntries
  <2> QED BY <1>2, <1>5, <2>2 DEF HasChild
<1> QED BY <1>4, <1>5

(***************************************************************************)
(* directory_exists and build_listing, each with a scan of its own, agree  *)
(* on what is a directory, on every table and for every path a name can    *)
(* hold; and of a path that fills a name, on that it is listed as a file.  *)
(***************************************************************************)
THEOREM ListingsAgree == Spec => []ListingAgrees
<1>1. IInv => ListingAgrees
  <2> SUFFICES ASSUME IInv, NEW d \in DirPaths, ~Reserved(d),
                      Last(d) \notin {MARK, NONE}
               PROVE  DirectoryExists(entries, d)
                        <=> Last(d) \in IF Fills(d) THEN Files(entries, Front(d))
                                        ELSE Folders(entries, Front(d))
    BY DEF ListingAgrees
  <2>1. entries \in Table
    BY IInvParts DEF State
  <2>2. d \in Path
    BY InputAssumption
  <2> QED BY <2>1, <2>2, ScansAgree
<1>2. QED
  BY <1>1, Invariance, PTL

-----------------------------------------------------------------------------
(***************************************************************************)
(* A disk that works: every sector is read and every flush succeeds.       *)
(***************************************************************************)
ReliableDisk == ReadResults = {TRUE} /\ \A r \in FlushResults : r.ok

(***************************************************************************)
(* What is then true between operations: nothing is in the table that is   *)
(* not in the image, and the table stays empty until the image is in use.  *)
(***************************************************************************)
Working(s) ==
  /\ s \in State
  /\ ~s.lag
  /\ s.enabled => s.disk.magic /\ s.disk.slot = s.entries
  /\ ~s.enabled => s.entries = EmptyTable
  /\ ~s.disk.magic => s.disk.slot = EmptyTable

WorkingNow == Working(Now)

(* A flush that succeeds writes the table and nothing else.                *)
LEMMA WholeFlush ==
  ASSUME ReliableDisk, NEW s \in State, NEW before, NEW r \in FlushResults
  PROVE  LET f == Flush(s, before, r) IN
         /\ f \in State
         /\ f.entries = s.entries
         /\ f.disk.magic
         /\ f.disk.slot = s.entries
         /\ f.enabled = s.enabled
         /\ ~f.lag
<1> DEFINE f == Flush(s, before, r)
<1>1. r \in FlushResult /\ r.ok /\ r.cut = N + 1
  BY DiskAssumption DEF ReliableDisk, FlushResult
<1>2. /\ f \in State /\ f.entries = s.entries /\ f.enabled = s.enabled
      /\ f.disk = CutImage(s.entries, s.disk, r.cut)
      /\ f.lag = ~r.ok
  BY <1>1, FlushFields
<1>3. s.entries \in Table /\ s.disk \in Image
  BY DEF State
<1> HIDE DEF f
<1>4. N \in Nat /\ N + 1 > 0 /\ \A i \in Slot : i <= N + 1 /\ i < N + 1
  BY SizeAssumption DEF Slot
<1>5. CutImage(s.entries, s.disk, N + 1).magic
  BY <1>4 DEF CutImage
<1>6. CutImage(s.entries, s.disk, N + 1).slot
        = [i \in Slot |-> [name |-> s.entries[i].name, head |-> s.entries[i].head,
                           tail |-> s.entries[i].tail]]
  BY <1>4 DEF CutImage
<1>7. \A i \in Slot : s.entries[i] = [name |-> s.entries[i].name, head |-> s.entries[i].head,
                                      tail |-> s.entries[i].tail]
  BY <1>3 DEF Table, Entry
<1>8. s.entries = [i \in Slot |-> s.entries[i]]
  BY <1>3 DEF Table
<1>9. CutImage(s.entries, s.disk, N + 1).slot = s.entries
  BY <1>6, <1>7, <1>8
<1>10. QED
  BY <1>1, <1>2, <1>5, <1>9 DEF f

(***************************************************************************)
(* After a probe that may write, the image is in use; before, the table    *)
(* was empty or the image was in use already.                              *)
(***************************************************************************)
LEMMA ProbeWorks ==
  ASSUME ReliableDisk, NEW s, Working(s), NEW allowed \in BOOLEAN,
         NEW u \in TryEnable(s, allowed)
  PROVE  /\ Working(u)
         /\ allowed => u.enabled
         /\ u.disk.slot = s.disk.slot
         /\ s.enabled => u = s
<1> DEFINE probed == [s EXCEPT !.probeDone = TRUE]
           loaded == [Load(probed) EXCEPT !.enabled = TRUE]
           flushed(r) == [Flush(probed, probed.entries, r) EXCEPT !.enabled = r.ok]
           off == [probed EXCEPT !.enabled = FALSE]
<1>0. u \in IF s.enabled \/ (s.probeDone /\ ~allowed)
           THEN {s}
           ELSE UNION { IF x THEN {loaded}
                        ELSE IF allowed THEN { flushed(r) : r \in FlushResults }
                        ELSE {off} : x \in Loads(s) }
  BY DEF TryEnable, Unloaded
<1>1. s \in State /\ s.enabled \in BOOLEAN /\ s.disk \in Image /\ s.disk.slot \in Table
  BY DEF Working, State, Image
<1>2. /\ probed \in State /\ probed.entries = s.entries /\ probed.disk = s.disk
      /\ probed.enabled = s.enabled /\ probed.lag = s.lag
  BY <1>1 DEF State
<1> HIDE DEF probed
<1>3. CASE s.enabled \/ (s.probeDone /\ ~allowed)
  BY <1>0, <1>3
<1>4. CASE ~(s.enabled \/ (s.probeDone /\ ~allowed))
  <2>1. PICK x \in Loads(s) : u \in IF x THEN {loaded}
                                    ELSE IF allowed THEN { flushed(r) : r \in FlushResults }
                                    ELSE {off}
    BY <1>0, <1>4
  <2>2. x = s.disk.magic /\ x \in BOOLEAN
    BY <1>1, <2>1 DEF Loads, ReliableDisk, Image
  <2>3. ~s.enabled /\ s.entries = EmptyTable /\ ~s.lag
    BY <1>4 DEF Working
  <2>4. CASE x
    <3> DEFINE g1 == [probed EXCEPT !.entries = s.disk.slot]
               g2 == [g1 EXCEPT !.lag = FALSE]
               g3 == [g2 EXCEPT !.enabled = TRUE]
    <3>1. u = g3
      BY <1>2, <2>1, <2>4 DEF Load, State
    <3>2. g1 \in State /\ g1.entries = s.disk.slot /\ g1.disk = s.disk
      BY <1>1, <1>2 DEF State
    <3> HIDE DEF g1
    <3>3. g2 \in State /\ g2.entries = s.disk.slot /\ g2.disk = s.disk /\ ~g2.lag
      BY <3>2 DEF State
    <3> HIDE DEF g2
    <3>4. /\ g3 \in State /\ g3.entries = s.disk.slot /\ g3.disk = s.disk
          /\ ~g3.lag /\ g3.enabled
      BY <3>3 DEF State
    <3> HIDE DEF g3
    <3> QED BY <2>2, <2>3, <2>4, <3>1, <3>4 DEF Working
  <2>5. CASE ~x /\ allowed
    <3>1. PICK r \in FlushResults : u = flushed(r)
      BY <2>1, <2>5
    <3> DEFINE f == Flush(probed, probed.entries, r)
    <3>2. /\ f \in State /\ f.entries = s.entries /\ f.disk.magic
          /\ f.disk.slot = s.entries /\ ~f.lag
      BY <1>2, WholeFlush
    <3>3. u = [f EXCEPT !.enabled = r.ok] /\ r.ok = TRUE
      <4>1. r.ok \in BOOLEAN /\ r.ok
        BY DiskAssumption DEF FlushResult, ReliableDisk
      <4> QED BY <3>1, <4>1
    <3> HIDE DEF f
    <3>4. /\ u \in State /\ u.entries = s.entries /\ u.disk = f.disk
          /\ ~u.lag /\ u.enabled
      BY <3>2, <3>3 DEF State
    <3>5. s.disk.slot = EmptyTable
      BY <2>2, <2>5 DEF Working
    <3> QED BY <2>3, <3>2, <3>4, <3>5 DEF Working
  <2>6. CASE ~x /\ ~allowed
    <3>1. u = off
      BY <2>1, <2>6
    <3>2. /\ u \in State /\ u.entries = s.entries /\ u.disk = s.disk
          /\ u.lag = s.lag /\ ~u.enabled
      BY <1>2, <3>1 DEF State
    <3> QED BY <2>3, <2>6, <3>2 DEF Working
  <2> QED BY <2>2, <2>4, <2>5, <2>6
<1>5. QED
  BY <1>3, <1>4

(* A change is in the image when its operation returns.                    *)
LEMMA CommitWorks ==
  ASSUME ReliableDisk, NEW s, Working(s), s.enabled,
         NEW t \in Table, NEW u \in Commit(s, t)
  PROVE  Working(u) /\ u.enabled /\ u.entries = t /\ u.disk.slot = t
<1> DEFINE g == [s EXCEPT !.entries = t]
<1>1. g \in State /\ g.entries = t /\ g.enabled = s.enabled
  BY DEF Working, State
<1>2. u \in { Flush(g, s.entries, r) : r \in FlushResults }
  BY DEF Commit
<1> HIDE DEF g
<1>3. PICK r \in FlushResults : u = Flush(g, s.entries, r)
  BY <1>2
<1>4. /\ u \in State /\ u.entries = t /\ u.disk.magic /\ u.disk.slot = t
      /\ u.enabled = s.enabled /\ ~u.lag
  BY <1>1, <1>3, WholeFlush
<1>5. QED
  BY <1>4 DEF Working

LEMMA WorkingParts ==
  ASSUME WorkingNow
  PROVE  /\ Now.entries = entries /\ Now.disk = disk /\ Now.enabled = enabled
         /\ entries \in Table /\ disk \in Image
         /\ enabled \in BOOLEAN
  BY DEF WorkingNow, Working, State, Now

LEMMA ChangesWork ==
  ASSUME ReliableDisk, NEW s, Working(s), s.enabled, NEW u, Changes(s, u)
  PROVE  Working(u)
  BY CommitWorks DEF Changes, SafeChange

LEMMA NextWorks ==
  ASSUME ReliableDisk, WorkingNow, [Next]_vars
  PROVE  WorkingNow'
<1>1. ASSUME NEW u, Working(u), Become(u) PROVE WorkingNow'
  BY <1>1, BecomesNow DEF WorkingNow, Working
<1>2. ASSUME NEW s \in TryEnable(Now, TRUE)
      PROVE  Working(s) /\ s.enabled /\ s.entries \in Table
  <2>1. TRUE \in BOOLEAN
    OBVIOUS
  <2>2. Working(s) /\ s.enabled
    BY <2>1, ProbeWorks DEF WorkingNow
  <2> QED BY <2>2 DEF Working, State
<1>3. CASE \E s \in TryEnable(Now, TRUE) : \E u : Changes(s, u) /\ Become(u)
  BY <1>1, <1>2, <1>3, ChangesWork
<1>4. CASE ReadFile
  <2>1. PICK s \in TryEnable(Now, FALSE) : Become(s)
    BY <1>4 DEF ReadFile
  <2>2. FALSE \in BOOLEAN
    OBVIOUS
  <2>3. Working(s)
    BY <2>1, <2>2, ProbeWorks DEF WorkingNow
  <2> QED BY <1>1, <2>1, <2>3
<1>5. CASE Reboot
  <2> DEFINE u == [entries |-> EmptyTable, disk |-> disk, probeDone |-> FALSE,
                   enabled |-> FALSE, torn |-> torn, mixed |-> mixed, lag |-> FALSE]
  <2>1. torn \in BOOLEAN /\ mixed \in BOOLEAN /\ disk \in Image
    BY DEF WorkingNow, Working, State, Now
  <2>2. u \in State /\ u.entries = EmptyTable /\ u.disk = disk /\ ~u.enabled /\ ~u.lag
    BY <2>1, EmptyIsTable DEF State
  <2>3. Become(u)
    BY <1>5 DEF Reboot, Become
  <2>4. ~disk.magic => disk.slot = EmptyTable
    BY WorkingParts DEF WorkingNow, Working
  <2> HIDE DEF u
  <2>5. Working(u)
    BY <2>2, <2>4 DEF Working
  <2> QED BY <1>1, <2>3, <2>5
<1>6. CASE UNCHANGED vars
  BY <1>6 DEF vars, WorkingNow, Now
<1>7. QED
  BY <1>2, <1>3, <1>4, <1>5, <1>6, Steps

LEMMA InitWorks == Init => WorkingNow
<1> SUFFICES ASSUME Init PROVE WorkingNow
  OBVIOUS
<1>1. Now = [entries |-> EmptyTable, disk |-> [magic |-> FALSE, slot |-> EmptyTable],
             probeDone |-> FALSE, enabled |-> FALSE,
             torn |-> FALSE, mixed |-> FALSE, lag |-> FALSE]
  BY DEF Init, Now
<1>2. [magic |-> FALSE, slot |-> EmptyTable] \in Image
  BY EmptyIsTable DEF Image
<1>3. Now \in State
  BY <1>1, <1>2, EmptyIsTable DEF State
<1>4. ~Now.lag /\ ~Now.enabled /\ Now.entries = EmptyTable /\ Now.disk.slot = EmptyTable
  BY <1>1
<1>5. QED
  BY <1>3, <1>4 DEF WorkingNow, Working

(***************************************************************************)
(* On a disk that works the table is the image's, or still empty: what     *)
(* was not written is never overwritten by a late load.                    *)
(***************************************************************************)
THEOREM DiskWorks ==
  ASSUME ReliableDisk
  PROVE  Spec => []WorkingNow
<1>1. WorkingNow /\ [Next]_vars => WorkingNow'
  BY NextWorks
<1>2. QED
  BY <1>1, InitWorks, PTL DEF Spec

-----------------------------------------------------------------------------
(* Where no file has a file's name as its directory, no file is on the     *)
(* way to a path whose parent exists.                                      *)
LEMMA NoFileOnTheWay ==
  ASSUME NEW b \in Table, NoShadow(b), NEW k \in Used(b),
         NEW d \in Path, ~Reserved(d), ParentExists(b, d)
  PROVE  ~IsStrictPrefix(b[k].name, d)
<1> DEFINE n == b[k].name
           f == Front(d)
<1>1. /\ d \in Seq(Component) /\ Len(d) \in Nat /\ Len(d) > 0 /\ d[1] # SYS
      /\ n \in Seq(Component) /\ Len(n) \in Nat /\ Len(n) > 0 /\ ~HasBelow(b, n)
  <2>1. n \in Path /\ ~HasBelow(b, n)
    BY NamesArePaths DEF NoShadow, Used
  <2> HIDE DEF n
  <2> QED BY <2>1, PathNonEmpty DEF Reserved
<1>2. /\ f \in Seq(Component) /\ Len(f) = Len(d) - 1
      /\ \A i \in 1..(Len(d) - 1) : f[i] = d[i]
  BY <1>1, FrontElements
<1>3. DirectoryExists(b, f)
  BY DEF ParentExists
<1> HIDE DEF n, f
<1> SUFFICES ASSUME IsStrictPrefix(n, d) PROVE FALSE
  BY DEF n
<1>4. Len(n) < Len(d) /\ \A i \in 1..Len(n) : n[i] = d[i]
  BY <1>1, BelowElements
<1>5. f # <<>> /\ f # <<SYS>>
  BY <1>1, <1>2, <1>4
<1>6. PICK j \in Used(b) : IsStrictPrefix(f, b[j].name)
  <2>1. f \in Path
    <3>1. Len(d) > 1
      BY <1>1, <1>4
    <3> QED BY <3>1, FrontIsPath DEF f
  <2>2. IsStrictPrefix(f, d)
    BY <1>1, <1>2, BelowElements
  <2>3. ~Fills(f)
    BY <2>1, <2>2, NothingBelow
  <2> QED BY <1>3, <1>5, <2>1, <2>3, DirectoryHasChild DEF HasChild, HasBelow
<1> DEFINE m == b[j].name
<1>7. m \in Seq(Component) /\ Len(m) \in Nat
  BY NamesArePaths DEF Used
<1>8. IsStrictPrefix(f, m)
  BY <1>6
<1> HIDE DEF m
<1>9. Len(f) < Len(m) /\ \A i \in 1..Len(f) : f[i] = m[i]
  BY <1>2, <1>7, <1>8, BelowElements
<1>10. Len(n) < Len(m)
  BY <1>1, <1>2, <1>4, <1>7, <1>9
<1>11. ASSUME NEW i \in 1..Len(n) PROVE n[i] = m[i]
  <2>1. i \in 1..Len(f) /\ i \in 1..(Len(d) - 1)
    BY <1>1, <1>2, <1>4
  <2> QED BY <1>2, <1>4, <1>9, <2>1
<1>12. IsStrictPrefix(n, m)
  BY <1>1, <1>7, <1>10, <1>11, BelowElements
<1>13. QED
  BY <1>1, <1>6, <1>12 DEF HasBelow, m

(* A new directory is no child of a file, and no file has its name.        *)
LEMMA MarkedNeverShadows ==
  ASSUME NEW b \in Table, NoShadow(b), NEW d \in Path, ~Reserved(d),
         ~HasEntry(b, d), ~DirectoryExists(b, d), ParentExists(b, d),
         NEW i \in Slot, NEW t \in Table, t[i].name = Cut(Marker(d)),
         \A j \in Slot : j # i => t[j] = b[j]
  PROVE  NoShadow(t)
<1>1. /\ d \in Seq(Component) /\ Len(d) \in Nat /\ Len(d) > 0 /\ d[1] # SYS
      /\ d # <<>> /\ d # <<SYS>>
  BY PathNonEmpty DEF Reserved
<1>2. ~HasBelow(b, d)
  <2>1. CASE Fills(d)
    BY <2>1, NothingBelow, NamesArePaths DEF HasBelow, Used
  <2>2. CASE ~Fills(d)
    BY <1>1, <2>2, DirectoryHasChild DEF HasChild
  <2> QED BY <2>1, <2>2
<1> DEFINE stored == Cut(Marker(d))
<1>3. /\ stored \in Seq(Component)
      /\ Len(stored) = Len(d) \/ Len(stored) = Len(d) + 1
      /\ \A x \in 1..Len(d) : stored[x] = d[x]
  <2>1. stored \in Seq(Component)
    BY StoredMarker, PathNonEmpty
  <2>2. CASE Fills(d)
    BY <2>1, <2>2 DEF Fills
  <2>3. CASE ~Fills(d)
    BY <2>1, <2>3, StoredMarker
  <2> QED BY <2>2, <2>3
<1>t. t[i].name = stored
  OBVIOUS
<1> HIDE DEF stored
<1> SUFFICES ASSUME NEW k \in Used(t), NEW j \in Used(t),
                    IsStrictPrefix(t[k].name, t[j].name)
             PROVE  FALSE
  BY DEF NoShadow, HasBelow
<1>4. k \in Slot /\ j \in Slot /\ (k # i => k \in Used(b)) /\ (j # i => j \in Used(b))
  BY DEF Used
<1>5. k # i => b[k].name \in Seq(Component) /\ Len(b[k].name) \in Nat
  BY <1>4, NamesArePaths
<1>6. j # i => b[j].name \in Seq(Component) /\ Len(b[j].name) \in Nat
  BY <1>4, NamesArePaths
<1>7. CASE k = i /\ j = i
  BY <1>7 DEF IsStrictPrefix
<1>8. CASE k # i /\ j # i
  BY <1>4, <1>8 DEF NoShadow, HasBelow
<1>9. CASE k = i /\ j # i
  <2> DEFINE m == b[j].name
  <2>m. t[k].name = stored /\ t[j].name = m
    BY <1>4, <1>9, <1>t
  <2>1. m \in Seq(Component) /\ Len(m) \in Nat /\ IsStrictPrefix(stored, m)
    BY <1>6, <1>9, <2>m
  <2>2. Len(stored) < Len(m) /\ \A x \in 1..Len(stored) : stored[x] = m[x]
    BY <1>3, <2>1, BelowElements
  <2> HIDE DEF m
  <2>3. Len(d) < Len(m) /\ \A x \in 1..Len(d) : d[x] = m[x]
    BY <1>1, <1>3, <2>1, <2>2
  <2>4. IsStrictPrefix(d, m)
    BY <1>1, <2>1, <2>3, BelowElements
  <2> QED BY <1>2, <1>4, <1>9, <2>4 DEF HasBelow, m
<1>10. CASE k # i /\ j = i
  <2> DEFINE n == b[k].name
  <2>n. t[k].name = n /\ t[j].name = stored
    BY <1>4, <1>10, <1>t
  <2>1. n \in Seq(Component) /\ Len(n) \in Nat /\ IsStrictPrefix(n, stored)
    BY <1>5, <1>10, <2>n
  <2>2. n # d
    BY <1>4 DEF HasEntry, Holding
  <2>3. ~IsStrictPrefix(n, d)
    BY <1>4, <1>10, NoFileOnTheWay
  <2> HIDE DEF n
  <2>4. Len(n) < Len(stored) /\ \A x \in 1..Len(n) : n[x] = stored[x]
    BY <1>3, <2>1, BelowElements
  <2>5. Len(n) <= Len(d) /\ \A x \in 1..Len(n) : n[x] = d[x]
    BY <1>1, <1>3, <2>1, <2>4
  <2>6. IsPrefix(n, d)
    BY <1>1, <2>1, <2>5, PrefixElements
  <2> QED BY <2>2, <2>3, <2>6 DEF IsStrictPrefix
<1>11. QED
  BY <1>7, <1>8, <1>9, <1>10

(* What fs_rename_dir makes of the names, where nothing lies below new.    *)
LEMMA MovedNames ==
  ASSUME NEW b \in Table, NEW old \in Path, NEW new \in Path, NEW i \in Slot
  PROVE  LET t == MovedTree(b, old, new) IN
         /\ t[i].head = b[i].head
         /\ t[i].tail = b[i].tail
         /\ t[i].name = IF Moves(b[i].name, old, new)
                        THEN Renamed(b[i].name, old, new) ELSE b[i].name
<1> DEFINE moved == Moves(b[i].name, old, new)
           r == Renamed(b[i].name, old, new)
           e == [b[i] EXCEPT !.name = r]
           t == MovedTree(b, old, new)
<1>1. t[i] = IF moved THEN e ELSE b[i]
  BY DEF MovedTree
<1>2. b[i] \in Entry
  BY DEF Table
<1> HIDE DEF moved, r, t
<1>3. e.name = r /\ e.head = b[i].head /\ e.tail = b[i].tail
  BY <1>2 DEF Entry
<1>4. QED
  BY <1>1, <1>3 DEF moved, r, t

(* Where the paths of a directory's files go, nothing else changes place.  *)
LEMMA MovedNeverShadows ==
  ASSUME NEW b \in Table, NoShadow(b), NEW old \in Path, NEW new \in Path,
         ~Reserved(new), ~HasEntry(b, new), ~DirectoryExists(b, new), ParentExists(b, new)
  PROVE  NoShadow(MovedTree(b, old, new))
<1> DEFINE t == MovedTree(b, old, new)
           moved(i) == Moves(b[i].name, old, new)
<1>1. /\ old \in Seq(Component) /\ Len(old) \in Nat /\ Len(old) > 0
      /\ new \in Seq(Component) /\ Len(new) \in Nat /\ Len(new) > 0
      /\ new # <<>> /\ new # <<SYS>>
  BY PathNonEmpty DEF Reserved
<1>2. \A i \in Slot : t[i].name = IF moved(i) THEN Renamed(b[i].name, old, new) ELSE b[i].name
  BY MovedNames
<1>3. ASSUME NEW i \in Used(b)
      PROVE  ~IsPrefix(new, b[i].name)
  <2>1. b[i].name # new
    BY DEF HasEntry, Holding, Used
  <2>2. ~IsStrictPrefix(new, b[i].name)
    <3>1. CASE Fills(new)
      BY <3>1, NothingBelow, NamesArePaths DEF Used
    <3>2. CASE ~Fills(new)
      BY <1>1, <3>2, DirectoryHasChild DEF HasChild, HasBelow
    <3> QED BY <3>1, <3>2
  <2> QED BY <2>1, <2>2 DEF IsStrictPrefix
<1>4. ASSUME NEW i \in Slot, moved(i)
      PROVE  i \in Used(b)
  <2>1. IsPrefix(old, b[i].name)
    BY <1>4 DEF Moves
  <2> DEFINE n == b[i].name
  <2>2. n \in Seq(Component) /\ IsPrefix(old, n)
    BY <2>1, NamesArePaths
  <2> HIDE DEF n
  <2>3. Len(old) <= Len(n) /\ Len(n) \in Nat
    BY <1>1, <2>2, PrefixElements
  <2>4. n # <<>>
    BY <1>1, <2>3
  <2> QED BY <2>4 DEF Used, n
<1> HIDE DEF t
<1> SUFFICES ASSUME NEW k \in Used(t), NEW j \in Used(t),
                    IsStrictPrefix(t[k].name, t[j].name)
             PROVE  FALSE
  BY DEF NoShadow, HasBelow, t
<1>5. k \in Slot /\ j \in Slot /\ k \in Used(b) /\ j \in Used(b)
  BY <1>2, <1>4 DEF Used
<1> DEFINE p == b[k].name
           q == b[j].name
<1>6. /\ p \in Seq(Component) /\ Len(p) \in Nat /\ q \in Seq(Component) /\ Len(q) \in Nat
      /\ ~IsStrictPrefix(p, q)
      /\ ~IsPrefix(new, p) /\ ~IsPrefix(new, q)
      /\ ~IsStrictPrefix(p, new)
  <2>1. ~IsStrictPrefix(p, q)
    BY <1>5 DEF NoShadow, HasBelow
  <2>2. ~IsStrictPrefix(p, new)
    BY <1>5, NoFileOnTheWay
  <2> QED BY <1>3, <1>5, <2>1, <2>2, NamesArePaths
<1>7. /\ t[k].name = IF moved(k) THEN Renamed(p, old, new) ELSE p
      /\ t[j].name = IF moved(j) THEN Renamed(q, old, new) ELSE q
  BY <1>2, <1>5
<1>8. (moved(k) => IsPrefix(old, p)) /\ (moved(j) => IsPrefix(old, q))
  BY DEF Moves
<1> DEFINE r == Renamed(p, old, new)
           x == Renamed(q, old, new)
<1>9. moved(k) => /\ r \in Seq(Component) /\ Len(old) <= Len(p)
                  /\ Len(r) = Len(new) + Len(p) - Len(old)
                  /\ \A i \in 1..Len(new) : r[i] = new[i]
                  /\ \A i \in 1..(Len(p) - Len(old)) : r[Len(new) + i] = p[Len(old) + i]
                  /\ \A i \in 1..Len(old) : p[i] = old[i]
  <2> HIDE DEF p, q
  <2> QED BY <1>1, <1>6, <1>8, RenamedElements, ZenonT(60)
<1>10. moved(j) => /\ x \in Seq(Component) /\ Len(old) <= Len(q)
                   /\ Len(x) = Len(new) + Len(q) - Len(old)
                   /\ \A i \in 1..Len(new) : x[i] = new[i]
                   /\ \A i \in 1..(Len(q) - Len(old)) : x[Len(new) + i] = q[Len(old) + i]
                   /\ \A i \in 1..Len(old) : q[i] = old[i]
  <2> HIDE DEF p, q
  <2> QED BY <1>1, <1>6, <1>8, RenamedElements, ZenonT(60)
<1>11. \A y \in {p, q, new} : y \in Seq(Component)
  BY <1>1, <1>6
<1>12. CASE ~moved(k) /\ ~moved(j)
  BY <1>6, <1>7, <1>12
<1>13. CASE moved(k) /\ ~moved(j)
  <2>1. IsStrictPrefix(r, q)
    BY <1>7, <1>13
  <2> HIDE DEF r, p, q
  <2>2. Len(r) < Len(q) /\ \A i \in 1..Len(r) : r[i] = q[i]
    BY <1>6, <1>9, <1>13, <2>1, BelowElements
  <2>3. Len(new) <= Len(q) /\ \A i \in 1..Len(new) : new[i] = q[i]
    BY <1>1, <1>6, <1>9, <1>13, <2>2
  <2> QED BY <1>1, <1>6, <2>3, PrefixElements
<1>14. CASE ~moved(k) /\ moved(j)
  <2>1. IsStrictPrefix(p, x)
    BY <1>7, <1>14
  <2> HIDE DEF x, p, q
  <2>2. Len(p) < Len(x) /\ \A i \in 1..Len(p) : p[i] = x[i]
    BY <1>6, <1>10, <1>14, <2>1, BelowElements
  <2>3. CASE Len(p) < Len(new)
    <3>1. \A i \in 1..Len(p) : p[i] = new[i]
      BY <1>1, <1>6, <1>10, <1>14, <2>2, <2>3
    <3> QED BY <1>1, <1>6, <2>3, <3>1, BelowElements
  <2>4. CASE ~(Len(p) < Len(new))
    <3>1. Len(new) <= Len(p) /\ \A i \in 1..Len(new) : new[i] = p[i]
      BY <1>1, <1>6, <1>10, <1>14, <2>2, <2>4
    <3> QED BY <1>1, <1>6, <3>1, PrefixElements
  <2> QED BY <2>3, <2>4
<1>15. CASE moved(k) /\ moved(j)
  <2>1. IsStrictPrefix(r, x)
    BY <1>7, <1>15
  <2> HIDE DEF r, x, p, q
  <2>2. Len(r) < Len(x) /\ \A i \in 1..Len(r) : r[i] = x[i]
    BY <1>9, <1>10, <1>15, <2>1, BelowElements
  <2>3. Len(p) < Len(q)
    BY <1>1, <1>6, <1>9, <1>10, <1>15, <2>2
  <2>4. ASSUME NEW i \in 1..Len(p) PROVE p[i] = q[i]
    <3>1. CASE i <= Len(old)
      BY <1>1, <1>6, <1>9, <1>10, <1>15, <3>1
    <3>2. CASE ~(i <= Len(old))
      <4> DEFINE m == i - Len(old)
      <4>1. /\ m \in 1..(Len(p) - Len(old)) /\ m \in 1..(Len(q) - Len(old))
            /\ Len(old) + m = i /\ Len(new) + m \in 1..Len(r)
        BY <1>1, <1>6, <1>9, <1>15, <2>3, <3>2
      <4> HIDE DEF m
      <4>2. p[Len(old) + m] = q[Len(old) + m]
        BY <1>9, <1>10, <1>15, <2>2, <4>1
      <4> QED BY <4>1, <4>2
    <3> QED BY <3>1, <3>2
  <2>5. IsStrictPrefix(p, q)
    BY <1>6, <2>3, <2>4, BelowElements
  <2> QED BY <1>6, <2>5
<1>16. QED
  BY <1>12, <1>13, <1>14, <1>15

(***************************************************************************)
(* What a change of the table by an operation on directories leaves alone. *)
(***************************************************************************)
FilesKept(b, t) ==
  \A i \in Plain(b) : i \in Plain(t) /\ t[i].head = b[i].head /\ t[i].tail = b[i].tail

(* No directory that is asked for has the name of the marker.              *)
NoneIsAMarker == \A d \in DirPaths : Last(d) # MARK

LEMMA CreatedDir ==
  ASSUME NEW s, s.entries \in Table, NEW d \in DirPaths, NEW u \in CreateDirResult(s, d)
  PROVE  u = s \/ \E t \in Table : /\ u \in Commit(s, t)
                                   /\ NoShadow(s.entries) => NoShadow(t)
                                   /\ FilesKept(s.entries, t)
                                   /\ Names(s.entries) \subseteq Names(t)
<1> DEFINE b == s.entries
           i == Min(Free(b))
           e == [FreeEntry EXCEPT !.name = Cut(Marker(d))]
           t == [b EXCEPT ![i] = e]
<1> SUFFICES ASSUME u # s
             PROVE  \E y \in Table : /\ u \in Commit(s, y)
                                     /\ NoShadow(b) => NoShadow(y)
                                     /\ FilesKept(b, y)
                                     /\ Names(b) \subseteq Names(y)
  OBVIOUS
<1>1. /\ ~Reserved(d) /\ ~HasEntry(b, d) /\ ~DirectoryExists(b, d) /\ ParentExists(b, d)
      /\ Free(b) # {} /\ u \in Commit(s, t)
  BY DEF CreateDirResult
<1>2. d \in Path /\ b \in Table
  BY InputAssumption
<1>3. d # <<SYS>>
  BY <1>1 DEF DirectoryExists
<1>4. t \in Table
  BY <1>1, <1>2, <1>3, MarkedSafe DEF SafeChange
<1>5. i \in Slot /\ b[i].name = <<>>
  BY <1>1, <1>2, Found
<1>6. e.name = Cut(Marker(d))
  BY DEF FreeEntry
<1> HIDE DEF e, i, b
<1>7. t[i].name = Cut(Marker(d)) /\ \A j \in Slot : j # i => t[j] = b[j]
  BY <1>2, <1>5, <1>6 DEF Table
<1> HIDE DEF t
<1>8. NoShadow(b) => NoShadow(t)
  BY <1>1, <1>2, <1>4, <1>5, <1>7, MarkedNeverShadows
<1>9. \A j \in Used(b) : j \in Used(t) /\ t[j] = b[j]
  BY <1>5, <1>7 DEF Used
<1>10. FilesKept(b, t) /\ Names(b) \subseteq Names(t)
  BY <1>9 DEF FilesKept, Plain, Names
<1>11. QED
  BY <1>1, <1>4, <1>8, <1>10

LEMMA DeletedDir ==
  ASSUME NEW s, s.entries \in Table, NEW d \in DirPaths, NEW u \in DeleteDirResult(s, d)
  PROVE  u = s \/ \E t \in Table : /\ u \in Commit(s, t)
                                   /\ NoShadow(s.entries) => NoShadow(t)
                                   /\ FilesKept(s.entries, t)
<1> DEFINE b == s.entries
           i == Min(Holding(b, Marker(d)))
           t == Deleted(b, Marker(d))
<1> SUFFICES ASSUME u # s
             PROVE  \E y \in Table : /\ u \in Commit(s, y)
                                     /\ NoShadow(b) => NoShadow(y)
                                     /\ FilesKept(b, y)
  OBVIOUS
<1>1. HasEntry(b, Marker(d)) /\ u \in Commit(s, t) /\ b \in Table
  BY DEF DeleteDirResult
<1>2. t \in Table
  BY <1>1, DeletedSafe DEF SafeChange
<1>3. i \in Slot /\ b[i].name = Marker(d)
  BY <1>1, Found
<1> HIDE DEF b
<1>4. /\ t[i] = FreeEntry
      /\ \A j \in Slot : j # i => t[j] = b[j]
  BY <1>1, <1>3 DEF Deleted, Table
<1>5. Last(Marker(d)) = MARK
  <2>1. d \in Seq(Component)
    BY InputAssumption, PathNonEmpty
  <2>2. /\ Len(Marker(d)) = Len(d) + 1 /\ Marker(d)[Len(d) + 1] = MARK
    BY <2>1, ComponentAssumption, AppendProperties DEF Marker
  <2> QED BY <2>2 DEF Last
<1>6. FreeEntry.name = <<>>
  BY DEF FreeEntry
<1> HIDE DEF i, t
<1>7. \A j \in Used(t) : j # i /\ j \in Used(b) /\ t[j] = b[j]
  BY <1>4, <1>6 DEF Used
<1>8. NoShadow(b) => NoShadow(t)
  BY <1>7 DEF NoShadow, HasBelow
<1>9. \A j \in Plain(b) : j # i /\ t[j] = b[j]
  BY <1>3, <1>4, <1>5 DEF Plain, Used
<1>10. FilesKept(b, t)
  BY <1>9 DEF FilesKept, Plain, Used
<1>11. QED
  BY <1>1, <1>2, <1>8, <1>10

LEMMA RenamedDir ==
  ASSUME NEW s, s.entries \in Table, NEW old \in DirPaths, NEW new \in DirPaths,
         NEW u \in RenameDirResult(s, old, new)
  PROVE  u = s \/ \E t \in Table : /\ u \in Commit(s, t)
                                   /\ NoShadow(s.entries) => NoShadow(t)
                                   /\ NoneIsAMarker => FilesKept(s.entries, t)
<1> DEFINE b == s.entries
           t == MovedTree(b, old, new)
<1> SUFFICES ASSUME u # s
             PROVE  \E y \in Table : /\ u \in Commit(s, y)
                                     /\ NoShadow(b) => NoShadow(y)
                                     /\ NoneIsAMarker => FilesKept(b, y)
  OBVIOUS
<1>1. /\ ~Reserved(new) /\ ~HasEntry(b, new) /\ ~DirectoryExists(b, new)
      /\ ParentExists(b, new) /\ u \in Commit(s, t)
  BY DEF RenameDirResult
<1>2. old \in Path /\ new \in Path /\ b \in Table
  BY InputAssumption
<1> HIDE DEF b
<1>3. t \in Table
  BY <1>1, <1>2, MovedSafe DEF SafeChange
<1>4. NoShadow(b) => NoShadow(t)
  BY <1>1, <1>2, MovedNeverShadows
<1>5. ASSUME NoneIsAMarker, NEW i \in Plain(b)
      PROVE  i \in Plain(t) /\ t[i].head = b[i].head /\ t[i].tail = b[i].tail
  <2> DEFINE p == b[i].name
             r == Renamed(p, old, new)
  <2>1. i \in Slot /\ i \in Used(b) /\ Last(p) # MARK
    BY DEF Plain, Used
  <2>2. /\ t[i].head = b[i].head /\ t[i].tail = b[i].tail
        /\ t[i].name = IF Moves(p, old, new) THEN r ELSE p
    BY <1>2, <2>1, MovedNames
  <2>3. CASE ~Moves(p, old, new)
    <3>1. t[i].name = p
      BY <2>2, <2>3
    <3>2. i \in Used(t)
      BY <2>1, <3>1 DEF Used
    <3> QED BY <2>1, <2>2, <3>1, <3>2 DEF Plain
  <2>4. CASE Moves(p, old, new)
    <3>1. p \in Seq(Component) /\ Len(p) \in Nat /\ IsPrefix(old, p)
      BY <1>2, <2>1, <2>4, NamesArePaths DEF Moves
    <3>2. /\ old \in Seq(Component) /\ Len(old) \in Nat
          /\ new \in Seq(Component) /\ Len(new) \in Nat /\ Len(new) > 0
      BY <1>2, PathNonEmpty
    <3>3. Last(new) # MARK
      BY <1>5 DEF NoneIsAMarker
    <3>0. t[i].name = r
      BY <2>2, <2>4
    <3> HIDE DEF p
    <3>4. /\ r \in Seq(Component) /\ Len(old) <= Len(p)
          /\ Len(r) = Len(new) + Len(p) - Len(old)
          /\ \A k \in 1..Len(new) : r[k] = new[k]
          /\ \A k \in 1..(Len(p) - Len(old)) : r[Len(new) + k] = p[Len(old) + k]
      BY <3>1, <3>2, RenamedElements, ZenonT(60)
    <3> HIDE DEF r
    <3>5. Len(r) \in Nat /\ Len(r) > 0
      BY <3>1, <3>2, <3>4
    <3>6. r # <<>>
      BY <3>4, <3>5
    <3>7. Last(r) # MARK
      <4>1. CASE Len(p) = Len(old)
        <5>1. Len(r) = Len(new) /\ Len(new) \in 1..Len(new)
          BY <3>1, <3>2, <3>4, <4>1
        <5> QED BY <3>3, <3>4, <5>1 DEF Last
      <4>2. CASE Len(p) # Len(old)
        <5> DEFINE k == Len(p) - Len(old)
        <5>1. k \in 1..k /\ Len(new) + k = Len(r) /\ Len(old) + k = Len(p)
          BY <3>1, <3>2, <3>4, <4>2
        <5>2. r[Len(new) + k] = p[Len(old) + k]
          BY <3>4, <5>1
        <5> QED BY <2>1, <5>1, <5>2 DEF Last
      <4> QED BY <4>1, <4>2
    <3>8. i \in Used(t)
      BY <2>1, <3>0, <3>6 DEF Used
    <3> QED BY <2>2, <3>0, <3>7, <3>8 DEF Plain
  <2> QED BY <2>3, <2>4
<1>6. QED
  BY <1>1, <1>3, <1>4, <1>5 DEF FilesKept

(***************************************************************************)
(* On a disk that works, a step of an operation on directories from a      *)
(* table that is in use.                                                   *)
(***************************************************************************)
LEMMA DirSteps ==
  ASSUME ReliableDisk, WorkingNow, entries # EmptyTable, DirOp
  PROVE  /\ NoShadow(entries) => NoShadow(entries')
         /\ NoneIsAMarker => FilesKept(entries, entries')
<1>1. Now.entries = entries /\ Now.enabled /\ entries \in Table
  BY WorkingParts DEF WorkingNow, Working
<1>2. \A s \in TryEnable(Now, TRUE) : s = Now
  <2>1. TRUE \in BOOLEAN
    OBVIOUS
  <2> QED BY <1>1, <2>1, ProbeWorks DEF WorkingNow
<1>3. FilesKept(entries, entries)
  BY DEF FilesKept
<1>4. ASSUME NEW u, Become(u),
             \/ u = Now
             \/ \E t \in Table : /\ u \in Commit(Now, t)
                                 /\ NoShadow(entries) => NoShadow(t)
                                 /\ NoneIsAMarker => FilesKept(entries, t)
      PROVE  /\ NoShadow(entries) => NoShadow(entries')
             /\ NoneIsAMarker => FilesKept(entries, entries')
  <2>1. entries' = u.entries
    BY <1>4 DEF Become
  <2>2. \A t \in Table : u \in Commit(Now, t) => u.entries = t
    BY <1>1, CommitWorks DEF WorkingNow
  <2> QED BY <1>1, <1>3, <1>4, <2>1, <2>2
<1>5. ASSUME NEW d \in DirPaths, CreateDir(d)
      PROVE  /\ NoShadow(entries) => NoShadow(entries')
             /\ NoneIsAMarker => FilesKept(entries, entries')
  <2>1. PICK u \in CreateDirResult(Now, d) : Become(u)
    BY <1>2, <1>5 DEF CreateDir
  <2>2. u = Now \/ \E t \in Table : /\ u \in Commit(Now, t)
                                    /\ NoShadow(entries) => NoShadow(t)
                                    /\ FilesKept(entries, t)
    BY <1>1, CreatedDir
  <2> QED BY <1>4, <2>1, <2>2
<1>6. ASSUME NEW d \in DirPaths, DeleteDir(d)
      PROVE  /\ NoShadow(entries) => NoShadow(entries')
             /\ NoneIsAMarker => FilesKept(entries, entries')
  <2>1. PICK u \in DeleteDirResult(Now, d) : Become(u)
    BY <1>2, <1>6 DEF DeleteDir
  <2>2. u = Now \/ \E t \in Table : /\ u \in Commit(Now, t)
                                    /\ NoShadow(entries) => NoShadow(t)
                                    /\ FilesKept(entries, t)
    BY <1>1, DeletedDir
  <2> QED BY <1>4, <2>1, <2>2
<1>7. ASSUME NEW old \in DirPaths, NEW new \in DirPaths, RenameDir(old, new)
      PROVE  /\ NoShadow(entries) => NoShadow(entries')
             /\ NoneIsAMarker => FilesKept(entries, entries')
  <2>1. PICK u \in RenameDirResult(Now, old, new) : Become(u)
    BY <1>2, <1>7 DEF RenameDir
  <2>2. u = Now \/ \E t \in Table : /\ u \in Commit(Now, t)
                                    /\ NoShadow(entries) => NoShadow(t)
                                    /\ NoneIsAMarker => FilesKept(entries, t)
    BY <1>1, RenamedDir
  <2> QED BY <1>4, <2>1, <2>2
<1>8. QED
  BY <1>5, <1>6, <1>7 DEF DirOp

(***************************************************************************)
(* Making, deleting and renaming directories never gives a file and a      *)
(* directory the same path, on a disk that works.                          *)
(***************************************************************************)
THEOREM DirectoriesNeverShadow ==
  ASSUME ReliableDisk
  PROVE  Spec => DirOpsNeverShadow
<1>1. ASSUME WorkingNow, [Next]_vars
      PROVE  [entries # EmptyTable /\ NoShadow(entries) /\ ~NoShadow(entries') => ~DirOp]_vars
  BY <1>1, DirSteps
<1>2. QED
  BY <1>1, DiskWorks, PTL DEF Spec, DirOpsNeverShadow

(***************************************************************************)
(* They lose no file and change none, on a disk that works and where no    *)
(* directory is named like the marker: a file whose path is a directory's, *)
(* too, is renamed with it and would become a marker.                      *)
(***************************************************************************)
THEOREM DirectoriesKeepFiles ==
  ASSUME ReliableDisk, NoneIsAMarker
  PROVE  Spec => DirOpsKeepFiles
<1> DEFINE Lost == \E i \in Plain(entries) :
                     \/ i \notin Plain(entries')
                     \/ entries'[i].head # entries[i].head
                     \/ entries'[i].tail # entries[i].tail
<1>1. ASSUME WorkingNow, [Next]_vars
      PROVE  [entries # EmptyTable /\ Lost => ~DirOp]_vars
  BY <1>1, DirSteps DEF FilesKept
<1>2. QED
  BY <1>1, DiskWorks, PTL DEF Spec, DirOpsKeepFiles

-----------------------------------------------------------------------------
(* A written file is one more name, or an old one.                         *)
LEMMA WrittenNames ==
  ASSUME NEW s, s.entries \in Table, NEW p \in FilePaths, NEW c \in Contents,
         NEW u \in WriteResult(s, p, c)
  PROVE  u = s \/ \E t \in Table : u \in Commit(s, t) /\ Names(s.entries) \subseteq Names(t)
<1> DEFINE b == s.entries
           i == IF HasEntry(b, p) THEN Min(Holding(b, p)) ELSE Min(Free(b))
           e == [name |-> p, head |-> c, tail |-> c]
           t == Written(b, p, c)
<1> SUFFICES ASSUME u # s
             PROVE  \E y \in Table : u \in Commit(s, y) /\ Names(b) \subseteq Names(y)
  OBVIOUS
<1>1. /\ HasEntry(b, p) \/ Free(b) # {}
      /\ u \in Commit(s, t) /\ b \in Table /\ p \in Path
  BY InputAssumption DEF WriteResult
<1> HIDE DEF b
<1>2. t \in Table
  BY <1>1, WrittenSafe DEF SafeChange
<1>3. i \in Slot /\ b[i].name \in {p, <<>>}
  BY <1>1, Found
<1>4. t = [b EXCEPT ![i] = e]
  BY DEF Written
<1>5. e.name = p /\ p # <<>>
  BY <1>1, PathNonEmpty
<1> HIDE DEF i, e, t
<1>6. t[i].name = p /\ \A j \in Slot : j # i => t[j] = b[j]
  BY <1>1, <1>3, <1>4, <1>5 DEF Table
<1>7. \A j \in Used(b) : j \in Used(t) /\ t[j].name = b[j].name
  BY <1>3, <1>5, <1>6 DEF Used
<1>8. Names(b) \subseteq Names(t)
  BY <1>7 DEF Names
<1>9. QED
  BY <1>1, <1>2, <1>8

(***************************************************************************)
(* On a disk that works, only deletions and renames take a name out of the *)
(* image; no write and no restart does.                                    *)
(***************************************************************************)
THEOREM SavedNamesStay ==
  ASSUME ReliableDisk
  PROVE  Spec => SavedFilesStay
<1> DEFINE Stay == Names(disk.slot) \subseteq Names(disk'.slot)
           Taken == \/ \E p \in FilePaths : DeleteFile(p)
                    \/ \E p, q \in FilePaths : RenameFile(p, q)
                    \/ \E d \in DirPaths : DeleteDir(d)
                    \/ \E old, new \in DirPaths : RenameDir(old, new)
<1>1. ASSUME WorkingNow, [Next]_vars
      PROVE  [Stay \/ Taken]_vars
  <2>1. ASSUME NEW s \in TryEnable(Now, TRUE)
        PROVE  /\ Working(s) /\ s.enabled /\ s.entries \in Table
               /\ s.disk.slot = disk.slot /\ s.entries = disk.slot
    <3>1. TRUE \in BOOLEAN /\ Now.disk = disk
      BY DEF Now
    <3>2. Working(s) /\ s.enabled /\ s.disk.slot = disk.slot
      BY <1>1, <3>1, ProbeWorks DEF WorkingNow
    <3> QED BY <3>2 DEF Working, State
  <2>2. ASSUME NEW s \in TryEnable(Now, TRUE), NEW u, Become(u),
               u = s \/ \E t \in Table : u \in Commit(s, t) /\ Names(s.entries) \subseteq Names(t)
        PROVE  Stay
    <3>1. disk' = u.disk
      BY <2>2 DEF Become
    <3>2. \A t \in Table : u \in Commit(s, t) => u.disk.slot = t
      BY <2>1, CommitWorks
    <3> QED BY <2>1, <2>2, <3>1, <3>2
  <2>3. ASSUME NEW p \in FilePaths, NEW c \in Contents, WriteFile(p, c) PROVE Stay
    <3>1. PICK s \in TryEnable(Now, TRUE) : \E u \in WriteResult(s, p, c) : Become(u)
      BY <2>3 DEF WriteFile
    <3> QED BY <2>1, <2>2, <3>1, WrittenNames
  <2>4. ASSUME NEW d \in DirPaths, CreateDir(d) PROVE Stay
    <3>1. PICK s \in TryEnable(Now, TRUE) : \E u \in CreateDirResult(s, d) : Become(u)
      BY <2>4 DEF CreateDir
    <3> QED BY <2>1, <2>2, <3>1, CreatedDir
  <2>5. CASE ReadFile
    <3>1. PICK s \in TryEnable(Now, FALSE) : Become(s)
      BY <2>5 DEF ReadFile
    <3>2. FALSE \in BOOLEAN /\ Now.disk = disk
      BY DEF Now
    <3>3. s.disk.slot = disk.slot
      BY <1>1, <3>1, <3>2, ProbeWorks DEF WorkingNow
    <3> QED BY <3>1, <3>3 DEF Become
  <2>6. CASE Reboot
    BY <2>6 DEF Reboot
  <2> QED BY <1>1, <2>3, <2>4, <2>5, <2>6 DEF Next
<1>2. QED
  BY <1>1, DiskWorks, PTL DEF Spec, SavedFilesStay
=============================================================================
