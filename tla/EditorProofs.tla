---------------------------- MODULE EditorProofs ----------------------------
(***************************************************************************)
(* Proofs about Editor, for every set of characters and of files, every    *)
(* number of lines and every length of a line: its types, and that the     *)
(* lines with their cursor are one text with a place in it, which is the   *)
(* promise of TextBuffer.                                                  *)
(***************************************************************************)
EXTENDS Editor, SeqLemmas

Symbol == Char \union {NL}
Row == Seq(Char)
Text == Seq(Symbol)

-----------------------------------------------------------------------------
(***************************************************************************)
(* Sequences of characters.                                                *)
(***************************************************************************)
LEMMA RowIsText == Row \subseteq Text /\ <<NL>> \in Text /\ <<>> \in Row
<1>1. ASSUME NEW s \in Row PROVE s \in Text
  <2>1. Len(s) \in Nat /\ s = [i \in 1..Len(s) |-> s[i]] /\ \A i \in 1..Len(s) : s[i] \in Symbol
    BY ElementOfSeq, LenProperties DEF Row, Symbol
  <2> QED BY <2>1 DEF Text
<1> QED BY <1>1 DEF Row, Text, Symbol

LEMMA RowJoined ==
  ASSUME NEW x \in Row, NEW y \in Row
  PROVE  x \o y \in Row /\ Len(x \o y) = Len(x) + Len(y) /\ Len(x) \in Nat /\ Len(y) \in Nat
BY ConcatProperties DEF Row

LEMMA Assoc ==
  ASSUME NEW x \in Text, NEW y \in Text, NEW z \in Text
  PROVE  (x \o y) \o z = x \o (y \o z)
BY ConcatAssociative DEF Text

LEMMA Joined ==
  ASSUME NEW x \in Text, NEW y \in Text
  PROVE  x \o y \in Text /\ Len(x \o y) = Len(x) + Len(y) /\ Len(x) \in Nat /\ Len(y) \in Nat
BY ConcatProperties DEF Text

LEMMA NoText ==
  ASSUME NEW x \in Text
  PROVE  <<>> \o x = x /\ x \o <<>> = x /\ Len(<<>>) = 0 /\ <<>> \in Text
BY ConcatEmptySeq, EmptySeq DEF Text

(* The two parts of what was put together.                                 *)
LEMMA HalvesOf ==
  ASSUME NEW S, NEW x \in Seq(S), NEW y \in Seq(S)
  PROVE  /\ SubSeq(x \o y, 1, Len(x)) = x
         /\ SubSeq(x \o y, Len(x) + 1, Len(x \o y)) = y
<1> DEFINE t == x \o y
<1>1. /\ t \in Seq(S) /\ Len(t) = Len(x) + Len(y) /\ Len(x) \in Nat /\ Len(y) \in Nat
      /\ \A i \in 1..(Len(x) + Len(y)) : t[i] = IF i <= Len(x) THEN x[i] ELSE y[i - Len(x)]
  BY ConcatProperties
<1>2. \A i \in 1..Len(t) : t[i] \in S
  BY <1>1, ElementOfSeq
<1> HIDE DEF t
<1>3. SubSeq(t, 1, Len(x)) = x
  <2> DEFINE u == SubSeq(t, 1, Len(x))
  <2>1. u \in Seq(S) /\ Len(u) = Len(x) /\ \A i \in 1..Len(x) : u[i] = t[i]
    BY <1>1, <1>2, SubSeqProperties
  <2> HIDE DEF u
  <2>2. \A i \in 1..Len(x) : u[i] = x[i]
    BY <1>1, <2>1
  <2>3. u = x
    BY <2>1, <2>2, SeqEqual
  <2> QED BY <2>3 DEF u
<1>4. SubSeq(t, Len(x) + 1, Len(t)) = y
  <2> DEFINE k == Len(x) + 1
             u == SubSeq(t, k, Len(t))
  <2>1. /\ u \in Seq(S) /\ Len(u) = Len(y)
        /\ \A i \in 1..Len(y) : u[i] = t[Len(x) + i]
    <3>1. k \in Int /\ Len(t) \in Int /\ \A i \in k..Len(t) : i \in 1..Len(t)
      BY <1>1
    <3>2. /\ u \in Seq(S) /\ Len(u) = IF k <= Len(t) THEN Len(t) - k + 1 ELSE 0
          /\ \A i \in 1..(Len(t) - k + 1) : u[i] = t[k + i - 1]
      BY <1>2, <3>1, SubSeqProperties
    <3> HIDE DEF u
    <3>3. (IF k <= Len(t) THEN Len(t) - k + 1 ELSE 0) = Len(y)
      BY <1>1
    <3>4. ASSUME NEW i \in 1..Len(y) PROVE u[i] = t[Len(x) + i]
      <4>1. i \in 1..(Len(t) - k + 1) /\ k + i - 1 = Len(x) + i
        BY <1>1
      <4> HIDE DEF k
      <4> QED BY <3>2, <4>1
    <3> QED BY <3>2, <3>3, <3>4
  <2> HIDE DEF u, k
  <2>2. \A i \in 1..Len(y) : u[i] = y[i]
    <3>1. \A i \in 1..Len(y) : /\ Len(x) + i \in 1..(Len(x) + Len(y)) /\ ~(Len(x) + i <= Len(x))
                               /\ Len(x) + i - Len(x) = i
      BY <1>1
    <3> QED BY <1>1, <2>1, <3>1, SMTT(30)
  <2>3. u = y
    BY <2>1, <2>2, SeqEqual
  <2> QED BY <2>3 DEF u, k
<1> QED BY <1>3, <1>4 DEF t

LEMMA Halves ==
  ASSUME NEW x \in Text, NEW y \in Text
  PROVE  /\ SubSeq(x \o y, 1, Len(x)) = x
         /\ SubSeq(x \o y, Len(x) + 1, Len(x \o y)) = y
BY HalvesOf DEF Text

-----------------------------------------------------------------------------
(***************************************************************************)
(* A document as one text: from its last line on, and cut in two.          *)
(***************************************************************************)
(* f holds the texts of the first lines of ls, up to n of them.            *)
Joins(f, n, ls) ==
  \A i \in 1..n : f[i] = IF i = 1 THEN ls[1] ELSE f[i - 1] \o <<NL>> \o ls[i]

LEMMA FlatLoop ==
  ASSUME NEW ls, DOMAIN ls = 1..Len(ls), Len(ls) \in Nat
  PROVE  \E f : Joins(f, Len(ls), ls) /\ Flat(ls) = f[Len(ls)]
<1> DEFINE n == Len(ls)
           S == { k \in Nat : \E f :
                    f = [i \in 1..k |-> IF i = 1 THEN ls[1]
                                        ELSE f[i - 1] \o <<NL>> \o ls[i]] }
<1>1. 0 \in S
  <2> DEFINE f == [i \in 1..0 |-> 0]
             g == [i \in 1..0 |-> IF i = 1 THEN ls[1] ELSE f[i - 1] \o <<NL>> \o ls[i]]
  <2>1. f = g
    <3>1. \A i \in 1..0 : FALSE
      OBVIOUS
    <3>2. \A i \in 1..0 : f[i] = g[i]
      BY <3>1
    <3> QED BY <3>2
  <2> QED BY <2>1
<1>2. ASSUME NEW k \in Nat, k \in S PROVE k + 1 \in S
  <2>1. PICK f : f = [i \in 1..k |-> IF i = 1 THEN ls[1]
                                     ELSE f[i - 1] \o <<NL>> \o ls[i]]
    BY <1>2
  <2> DEFINE e(x, i) == IF i = 1 THEN ls[1] ELSE x \o <<NL>> \o ls[i]
             g == [i \in 1..(k + 1) |-> IF i = k + 1 THEN e(f[k], k + 1) ELSE f[i]]
  <2>2. \A i \in 1..k : f[i] = e(f[i - 1], i)
    BY <2>1, Zenon
  <2>a. \A x, y : e(x, 1) = e(y, 1)
    OBVIOUS
  <2> HIDE DEF e
  <2>3. ASSUME NEW i \in 1..(k + 1) PROVE g[i] = e(g[i - 1], i)
    <3>1. CASE i = k + 1
      <4>1. g[i] = e(f[k], i)
        BY <3>1
      <4>2. CASE k = 0
        <5>1. i = 1
          BY <3>1, <4>2
        <5> QED BY <2>a, <4>1, <5>1
      <4>3. CASE k # 0
        <5>1. i - 1 = k /\ k \in 1..(k + 1) /\ k # k + 1
          BY <3>1, <4>3
        <5>2. g[i - 1] = f[k]
          BY <5>1
        <5> QED BY <4>1, <5>2
      <4> QED BY <4>2, <4>3
    <3>2. CASE i # k + 1
      <4>1. i \in 1..k
        BY <3>2
      <4>2. g[i] = f[i] /\ f[i] = e(f[i - 1], i)
        BY <2>2, <3>2, <4>1
      <4>3. CASE i = 1
        BY <2>a, <4>2, <4>3
      <4>4. CASE i # 1
        <5>1. i - 1 \in 1..(k + 1) /\ i - 1 # k + 1
          BY <4>1, <4>4
        <5>2. g[i - 1] = f[i - 1]
          BY <5>1
        <5> QED BY <4>2, <5>2
      <4> QED BY <4>3, <4>4
    <3> QED BY <3>1, <3>2
  <2>4. g = [i \in 1..(k + 1) |-> g[i]]
    OBVIOUS
  <2> HIDE DEF g
  <2>5. g = [i \in 1..(k + 1) |-> e(g[i - 1], i)]
    BY <2>3, <2>4, Zenon
  <2>6. g = [i \in 1..(k + 1) |-> IF i = 1 THEN ls[1] ELSE g[i - 1] \o <<NL>> \o ls[i]]
    BY <2>5, Zenon DEF e
  <2>7. k + 1 \in Nat
    OBVIOUS
  <2> QED BY <2>6, <2>7, Zenon
<1>3. n \in S
  <2> HIDE DEF S
  <2> QED BY <1>1, <1>2, SetInduction
<1> DEFINE r == CHOOSE f : f = [i \in 1..n |-> IF i = 1 THEN ls[1]
                                               ELSE f[i - 1] \o <<NL>> \o ls[i]]
<1>4. r = [i \in 1..n |-> IF i = 1 THEN ls[1] ELSE r[i - 1] \o <<NL>> \o ls[i]]
  <2>1. \E f : f = [i \in 1..n |-> IF i = 1 THEN ls[1] ELSE f[i - 1] \o <<NL>> \o ls[i]]
    BY <1>3
  <2> QED BY <2>1, Zenon
<1>5. Flat(ls) = r[n]
  BY DEF Flat
<1> HIDE DEF r
<1>6. Joins(r, n, ls)
  BY <1>4, Zenon DEF Joins
<1> QED BY <1>5, <1>6

(* Two lists that begin alike have the same text up to there.              *)
LEMMA SameJoins ==
  ASSUME NEW n \in Nat, NEW ls, NEW ms, NEW f, NEW g,
         \A i \in 1..n : ls[i] = ms[i], Joins(f, n, ls), Joins(g, n, ms)
  PROVE  \A i \in 1..n : f[i] = g[i]
<1> DEFINE S == { k \in Nat : k \in 1..n => f[k] = g[k] }
<1>1. 0 \in S
  OBVIOUS
<1>2. ASSUME NEW k \in Nat, k \in S PROVE k + 1 \in S
  <2> SUFFICES ASSUME k + 1 \in 1..n PROVE f[k + 1] = g[k + 1]
    OBVIOUS
  <2> DEFINE m == k + 1
  <2>1. m \in 1..n /\ m - 1 = k /\ (m # 1 => k \in 1..n)
    OBVIOUS
  <2>2. m # 1 => f[k] = g[k]
    BY <1>2, <2>1
  <2>3. ls[m] = ms[m] /\ (m = 1 => ls[1] = ms[1])
    BY <2>1
  <2> HIDE DEF m
  <2>4. /\ f[m] = IF m = 1 THEN ls[1] ELSE f[m - 1] \o <<NL>> \o ls[m]
        /\ g[m] = IF m = 1 THEN ms[1] ELSE g[m - 1] \o <<NL>> \o ms[m]
    BY <2>1 DEF Joins
  <2>5. f[m] = g[m]
    BY <2>1, <2>2, <2>3, <2>4
  <2> QED BY <2>5 DEF m
<1> HIDE DEF S
<1>3. \A k \in Nat : k \in S
  BY <1>1, <1>2, SetInduction
<1> QED BY <1>3 DEF S

LEMMA FlatOne ==
  ASSUME NEW l PROVE Flat(<<l>>) = l
<1> DEFINE ls == <<l>>
<1>1. DOMAIN ls = 1..Len(ls) /\ Len(ls) \in Nat /\ Len(ls) = 1 /\ ls[1] = l /\ 1 \in 1..1
  OBVIOUS
<1> HIDE DEF ls
<1>2. PICK f : Joins(f, Len(ls), ls) /\ Flat(ls) = f[Len(ls)]
  BY <1>1, FlatLoop
<1> QED BY <1>1, <1>2 DEF Joins, ls

LEMMA FlatAppend ==
  ASSUME NEW ls \in Seq(Row), ls # <<>>, NEW l \in Row
  PROVE  Flat(Append(ls, l)) = Flat(ls) \o <<NL>> \o l
<1> DEFINE ms == Append(ls, l)
           n == Len(ls)
<1>1. /\ n \in Nat /\ n # 0 /\ DOMAIN ls = 1..n
      /\ ms \in Seq(Row) /\ Len(ms) = n + 1 /\ DOMAIN ms = 1..(n + 1)
      /\ ms[n + 1] = l /\ \A i \in 1..n : ms[i] = ls[i]
  BY AppendProperties, LenProperties, EmptySeq
<1> HIDE DEF ms
<1>2. PICK f : Joins(f, Len(ls), ls) /\ Flat(ls) = f[Len(ls)]
  BY <1>1, FlatLoop
<1>3. PICK g : Joins(g, Len(ms), ms) /\ Flat(ms) = g[Len(ms)]
  <2>1. DOMAIN ms = 1..Len(ms) /\ Len(ms) \in Nat
    BY <1>1
  <2> QED BY <2>1, FlatLoop, Zenon
<1> HIDE DEF n
<1>4. Joins(g, n, ms)
  <2>1. \A i \in 1..n : i \in 1..Len(ms)
    BY <1>1
  <2> QED BY <1>3, <2>1 DEF Joins
<1>5. g[n] = f[n]
  <2>1. n \in 1..n
    BY <1>1
  <2> QED BY <1>1, <1>2, <1>4, <2>1, SameJoins DEF n
<1>6. g[n + 1] = g[n] \o <<NL>> \o ms[n + 1]
  <2> DEFINE m == n + 1
  <2>1. m \in 1..Len(ms) /\ m # 1 /\ m - 1 = n
    BY <1>1
  <2> HIDE DEF m
  <2>2. g[m] = g[n] \o <<NL>> \o ms[m]
    BY <1>3, <2>1 DEF Joins
  <2> QED BY <2>2 DEF m
<1> QED BY <1>1, <1>2, <1>3, <1>5, <1>6 DEF n, ms

(* A list of rows that is not empty has a last one.                        *)
LEMMA LastRow ==
  ASSUME NEW ls \in Seq(Row), NEW k \in Nat, Len(ls) = k + 1
  PROVE  \E ms \in Seq(Row), l \in Row : ls = Append(ms, l) /\ Len(ms) = k
<1>1. ls # <<>>
  BY EmptySeq
<1>2. PICK ms \in Seq(Row), l \in Row : ls = Append(ms, l)
  BY <1>1, SequenceEmptyOrAppend
<1>3. Len(ls) = Len(ms) + 1 /\ Len(ms) \in Nat
  BY <1>2, AppendProperties
<1> QED BY <1>2, <1>3

LEMMA OneRow ==
  ASSUME NEW ls \in Seq(Row), Len(ls) = 1
  PROVE  ls = <<ls[1]>> /\ ls[1] \in Row
<1>1. ls[1] \in Row
  BY ElementOfSeq
<1> DEFINE t == <<ls[1]>>
<1>2. t \in Seq(Row) /\ Len(t) = 1 /\ t[1] = ls[1]
  BY <1>1
<1> HIDE DEF t
<1>3. \A i \in 1..1 : i = 1
  OBVIOUS
<1>4. ls = t
  BY <1>2, <1>3, SeqEqual
<1> QED BY <1>1, <1>4 DEF t

LEMMA FlatTypes ==
  ASSUME NEW ls \in Seq(Row), ls # <<>>
  PROVE  Flat(ls) \in Text
<1> DEFINE S == { k \in Nat : \A ms \in Seq(Row) : Len(ms) = k + 1 => Flat(ms) \in Text }
<1>1. 0 \in S
  <2> SUFFICES ASSUME NEW ms \in Seq(Row), Len(ms) = 0 + 1 PROVE Flat(ms) \in Text
    OBVIOUS
  <2>1. ms = <<ms[1]>> /\ ms[1] \in Row
    BY OneRow
  <2>2. Flat(ms) = ms[1]
    BY <2>1, FlatOne
  <2> QED BY <2>1, <2>2, RowIsText
<1>2. ASSUME NEW k \in Nat, k \in S PROVE k + 1 \in S
  <2> SUFFICES ASSUME NEW ms \in Seq(Row), Len(ms) = (k + 1) + 1 PROVE Flat(ms) \in Text
    OBVIOUS
  <2> DEFINE j == k + 1
  <2>0. j \in Nat /\ Len(ms) = j + 1
    OBVIOUS
  <2> HIDE DEF j
  <2>1. PICK m \in Seq(Row), l \in Row : ms = Append(m, l) /\ Len(m) = j
    BY <2>0, LastRow
  <2>2. Flat(m) \in Text
    BY <1>2, <2>1 DEF j
  <2>3. m # <<>>
    BY <2>1, EmptySeq DEF j
  <2>4. Flat(ms) = Flat(m) \o <<NL>> \o l
    BY <2>1, <2>3, FlatAppend
  <2> QED BY <2>2, <2>4, Joined, RowIsText
<1> HIDE DEF S
<1>3. \A k \in Nat : k \in S
  BY <1>1, <1>2, SetInduction
<1>4. Len(ls) \in Nat \ {0}
  BY EmptySeq
<1>5. Len(ls) - 1 \in S /\ Len(ls) = (Len(ls) - 1) + 1
  BY <1>3, <1>4
<1> QED BY <1>5 DEF S

LEMMA FlatConcat ==
  ASSUME NEW a \in Seq(Row), a # <<>>, NEW b \in Seq(Row), b # <<>>
  PROVE  Flat(a \o b) = Flat(a) \o <<NL>> \o Flat(b)
<1> DEFINE S == { k \in Nat : \A m \in Seq(Row) :
                    Len(m) = k + 1 => Flat(a \o m) = Flat(a) \o <<NL>> \o Flat(m) }
<1>1. 0 \in S
  <2> SUFFICES ASSUME NEW m \in Seq(Row), Len(m) = 0 + 1
               PROVE  Flat(a \o m) = Flat(a) \o <<NL>> \o Flat(m)
    OBVIOUS
  <2>1. m = <<m[1]>> /\ m[1] \in Row
    BY OneRow
  <2>2. Flat(m) = m[1]
    BY <2>1, FlatOne
  <2>3. a \o m = Append(a, m[1])
    BY <2>1, AppendIsConcat
  <2> QED BY <2>1, <2>2, <2>3, FlatAppend
<1>2. ASSUME NEW k \in Nat, k \in S PROVE k + 1 \in S
  <2> SUFFICES ASSUME NEW m \in Seq(Row), Len(m) = (k + 1) + 1
               PROVE  Flat(a \o m) = Flat(a) \o <<NL>> \o Flat(m)
    OBVIOUS
  <2> DEFINE j == k + 1
  <2>0. j \in Nat /\ Len(m) = j + 1
    OBVIOUS
  <2> HIDE DEF j
  <2>1. PICK c \in Seq(Row), l \in Row : m = Append(c, l) /\ Len(c) = j
    BY <2>0, LastRow
  <2>2. Flat(a \o c) = Flat(a) \o <<NL>> \o Flat(c)
    BY <1>2, <2>1 DEF j
  <2>3. c # <<>>
    BY <2>1, EmptySeq DEF j
  <2>4. Flat(m) = Flat(c) \o <<NL>> \o l
    BY <2>1, <2>3, FlatAppend
  <2>5. a \o c \in Seq(Row) /\ a \o c # <<>>
    BY ConcatProperties, ConcatEqualIffEmpty
  <2>6. a \o m = Append(a \o c, l)
    <3>1. m = c \o <<l>> /\ <<l>> \in Seq(Row) /\ Append(a \o c, l) = (a \o c) \o <<l>>
      BY <2>1, <2>5, AppendIsConcat, SMTT(30)
    <3>2. c \in Seq(Row)
      BY <2>1
    <3>3. (a \o c) \o <<l>> = a \o (c \o <<l>>)
      BY <3>1, <3>2, ConcatAssociative, SMTT(30)
    <3> QED BY <3>1, <3>3, Zenon
  <2>7. Flat(a \o m) = Flat(a \o c) \o <<NL>> \o l
    BY <2>5, <2>6, FlatAppend
  <2> DEFINE x == Flat(a) \o <<NL>>
             y == Flat(c) \o <<NL>>
             z == Flat(c)
  <2>8. x \in Text /\ y \in Text /\ z \in Text /\ l \in Text /\ <<NL>> \in Text
    BY <2>3, FlatTypes, Joined, RowIsText
  <2>9. Flat(a \o m) = ((x \o z) \o <<NL>>) \o l /\ y = z \o <<NL>> /\ Flat(m) = y \o l
    BY <2>2, <2>4, <2>7
  <2> HIDE DEF x, y, z
  <2> DEFINE w == <<NL>>
  <2>10. (x \o z) \o w = x \o (z \o w)
    <3>1. x \in Text /\ z \in Text /\ w \in Text
      BY <2>8
    <3> HIDE DEF w
    <3> QED BY <3>1, Assoc, Zenon
  <2>11. (x \o y) \o l = x \o (y \o l)
    <3>1. x \in Text /\ y \in Text /\ l \in Text
      BY <2>8
    <3> QED BY <3>1, Assoc, Zenon
  <2>12. Flat(a \o m) = x \o Flat(m)
    BY <2>9, <2>10, <2>11, Zenon
  <2> QED BY <2>12 DEF x
<1> HIDE DEF S
<1>3. \A k \in Nat : k \in S
  BY <1>1, <1>2, SetInduction
<1>4. Len(b) \in Nat \ {0}
  BY EmptySeq
<1>5. Len(b) - 1 \in S /\ Len(b) = (Len(b) - 1) + 1
  BY <1>3, <1>4
<1> QED BY <1>5 DEF S

(* What the lines above and below a line give of the text.                 *)
Above(a) == IF a = <<>> THEN <<>> ELSE Flat(a) \o <<NL>>
Below(b) == IF b = <<>> THEN <<>> ELSE <<NL>> \o Flat(b)

LEMMA AroundTypes ==
  ASSUME NEW a \in Seq(Row)
  PROVE  Above(a) \in Text /\ Below(a) \in Text
<1>1. CASE a = <<>>
  BY <1>1, RowIsText DEF Above, Below
<1>2. CASE a # <<>>
  <2>1. Flat(a) \in Text /\ <<NL>> \in Text
    BY <1>2, FlatTypes, RowIsText
  <2> QED BY <1>2, <2>1, Joined DEF Above, Below
<1> QED BY <1>1, <1>2

LEMMA OneRowIsSeq ==
  ASSUME NEW l \in Row
  PROVE  <<l>> \in Seq(Row) /\ <<l>> # <<>> /\ Len(<<l>>) = 1 /\ <<l>>[1] = l
OBVIOUS

LEMMA TwoRows ==
  ASSUME NEW u \in Row, NEW v \in Row
  PROVE  <<u, v>> = <<u>> \o <<v>> 
<1>1. <<u>> \in Seq(Row) /\ <<v>> \in Seq(Row) /\ <<u, v>> \in Seq(Row)
  OBVIOUS
<1>2. Len(<<u, v>>) = 2 /\ Len(<<u>>) = 1 /\ Len(<<v>>) = 1
  OBVIOUS
<1> DEFINE w == <<u>> \o <<v>>
<1>3. w \in Seq(Row) /\ Len(w) = 2 /\ w[1] = u /\ w[2] = v
  <2>1. /\ w \in Seq(Row) /\ Len(w) = Len(<<u>>) + Len(<<v>>)
        /\ \A k \in 1..(Len(<<u>>) + Len(<<v>>)) :
             w[k] = IF k <= Len(<<u>>) THEN <<u>>[k] ELSE <<v>>[k - Len(<<u>>)]
    BY <1>1, ConcatProperties
  <2> HIDE DEF w
  <2> QED BY <1>2, <2>1
<1> HIDE DEF w
<1>4. \A k \in 1..2 : <<u, v>>[k] = w[k]
  <2>1. \A k \in 1..2 : k = 1 \/ k = 2
    OBVIOUS
  <2>2. <<u, v>>[1] = w[1] /\ <<u, v>>[2] = w[2]
    BY <1>3
  <2> QED BY <2>1, <2>2
<1> DEFINE z == <<u, v>>
<1>5. z \in Seq(Row) /\ Len(z) = Len(w) /\ \A k \in 1..Len(z) : z[k] = w[k]
  BY <1>1, <1>2, <1>3, <1>4
<1> HIDE DEF z
<1>6. z = w
  BY <1>3, <1>5, SeqEqual
<1> QED BY <1>6 DEF z, w

LEMMA FlatHead ==
  ASSUME NEW l \in Row, NEW b \in Seq(Row)
  PROVE  Flat(<<l>> \o b) = l \o Below(b)
<1>1. l \in Text /\ <<NL>> \in Text
  BY RowIsText
<1>2. CASE b = <<>>
  <2>1. <<l>> \o b = <<l>>
    BY <1>2, OneRowIsSeq, ConcatEmptySeq
  <2>2. l \o <<>> = l
    BY <1>1, NoText
  <2> QED BY <1>2, <2>1, <2>2, FlatOne DEF Below
<1>3. CASE b # <<>>
  <2>1. Flat(<<l>> \o b) = Flat(<<l>>) \o <<NL>> \o Flat(b)
    BY <1>3, OneRowIsSeq, FlatConcat
  <2>2. Flat(b) \in Text
    BY <1>3, FlatTypes
  <2>3. (l \o <<NL>>) \o Flat(b) = l \o (<<NL>> \o Flat(b))
    BY <1>1, <2>2, Assoc
  <2> QED BY <1>3, <2>1, <2>3, FlatOne DEF Below
<1> QED BY <1>2, <1>3

LEMMA FlatAround ==
  ASSUME NEW a \in Seq(Row), NEW l \in Row, NEW b \in Seq(Row)
  PROVE  Flat(a \o <<l>> \o b) = Above(a) \o (l \o Below(b))
<1> DEFINE c == <<l>> \o b
<1>1. <<l>> \in Seq(Row) /\ <<l>> # <<>>
  BY OneRowIsSeq
<1>2. c \in Seq(Row) /\ c # <<>>
  BY <1>1, ConcatProperties, ConcatEqualIffEmpty
<1>3. (a \o <<l>>) \o b = a \o c
  BY <1>1, ConcatAssociative
<1>4. Flat(c) = l \o Below(b)
  BY FlatHead
<1> HIDE DEF c
<1>5. CASE a = <<>>
  <2>1. a \o c = c
    BY <1>2, <1>5, ConcatEmptySeq
  <2>2. Flat(c) \in Text
    BY <1>2, FlatTypes
  <2>3. <<>> \o Flat(c) = Flat(c)
    BY <2>2, NoText
  <2> QED BY <1>3, <1>4, <1>5, <2>1, <2>3 DEF Above
<1>6. CASE a # <<>>
  <2>1. Flat(a \o c) = Flat(a) \o <<NL>> \o Flat(c)
    BY <1>2, <1>6, FlatConcat
  <2> QED BY <1>3, <1>4, <1>6, <2>1 DEF Above
<1> QED BY <1>5, <1>6

LEMMA AboveAppend ==
  ASSUME NEW a \in Seq(Row), NEW l \in Row
  PROVE  Above(Append(a, l)) = Above(a) \o (l \o <<NL>>)
<1>1. l \in Text /\ <<NL>> \in Text /\ l \o <<NL>> \in Text
  BY RowIsText, Joined
<1>2. Append(a, l) # <<>>
  BY AppendProperties
<1>3. CASE a = <<>>
  <2>1. Append(a, l) = <<l>>
    BY <1>3
  <2>2. <<>> \o (l \o <<NL>>) = l \o <<NL>>
    BY <1>1, NoText
  <2> QED BY <1>2, <1>3, <2>1, <2>2, FlatOne DEF Above
<1>4. CASE a # <<>>
  <2> DEFINE x == Flat(a) \o <<NL>>
  <2>1. Flat(Append(a, l)) = x \o l
    BY <1>4, FlatAppend
  <2>2. x \in Text
    BY <1>1, <1>4, FlatTypes, Joined
  <2>3. Above(a) = x
    BY <1>4 DEF Above
  <2> HIDE DEF x
  <2>4. (x \o l) \o <<NL>> = x \o (l \o <<NL>>)
    BY <1>1, <2>2, Assoc
  <2> QED BY <1>2, <2>1, <2>3, <2>4 DEF Above
<1> QED BY <1>3, <1>4

LEMMA BelowFirst ==
  ASSUME NEW l \in Row, NEW b \in Seq(Row)
  PROVE  Below(<<l>> \o b) = <<NL>> \o (l \o Below(b))
<1>1. <<l>> \o b # <<>>
  BY OneRowIsSeq, ConcatEqualIffEmpty
<1> QED BY <1>1, FlatHead DEF Below

-----------------------------------------------------------------------------
(***************************************************************************)
(* The cursor: line i of ls and column c of it are a place in the text.    *)
(***************************************************************************)
PlaceOf(ls, i, c) == IF i = 1 THEN c ELSE Len(Flat(SubSeq(ls, 1, i - 1))) + 1 + c

LEMMA AboveLength ==
  ASSUME NEW a \in Seq(Row)
  PROVE  Len(Above(a)) = IF a = <<>> THEN 0 ELSE Len(Flat(a)) + 1
<1>1. CASE a = <<>>
  BY <1>1, NoText, RowIsText DEF Above
<1>2. CASE a # <<>>
  <2>1. Flat(a) \in Text /\ <<NL>> \in Text /\ Len(<<NL>>) = 1
    BY <1>2, FlatTypes, RowIsText
  <2> QED BY <1>2, <2>1, Joined DEF Above
<1> QED BY <1>1, <1>2

(* A document with the cursor between h and t in the line after a: the     *)
(* text, and the place in it.                                              *)
CutAt(a, b, h, t) ==
  /\ Above(a) \o h \in Text /\ t \o Below(b) \in Text
  /\ Flat(a \o <<h \o t>> \o b) = (Above(a) \o h) \o (t \o Below(b))
  /\ PlaceOf(a \o <<h \o t>> \o b, Len(a) + 1, Len(h)) = Len(Above(a) \o h)

LEMMA CursorAt ==
  ASSUME NEW a \in Seq(Row), NEW b \in Seq(Row), NEW h \in Row, NEW t \in Row
  PROVE  CutAt(a, b, h, t)
<1> DEFINE l == h \o t
           ls == a \o <<l>> \o b
           x == Above(a) \o h
           y == t \o Below(b)
<1>1. /\ l \in Row /\ h \in Text /\ t \in Text
      /\ Above(a) \in Text /\ Below(b) \in Text
  BY RowIsText, AroundTypes, ConcatProperties DEF Row
<1>2. x \in Text /\ y \in Text /\ Len(x) = Len(Above(a)) + Len(h)
  BY <1>1, Joined
<1>3. Flat(ls) = x \o y
  <2>1. Flat(ls) = Above(a) \o (l \o Below(b))
    BY <1>1, FlatAround
  <2>2. (h \o t) \o Below(b) = h \o y
    <3>1. h \in Text /\ t \in Text /\ Below(b) \in Text
      BY <1>1
    <3> QED BY <3>1, Assoc, Zenon
  <2> HIDE DEF y
  <2>3. (Above(a) \o h) \o y = Above(a) \o (h \o y)
    <3>1. Above(a) \in Text /\ h \in Text /\ y \in Text
      BY <1>1, <1>2 DEF y
    <3> QED BY <3>1, Assoc, Zenon
  <2> QED BY <2>1, <2>2, <2>3, Zenon
<1>4. SubSeq(ls, 1, Len(a)) = a
  <2>1. /\ a \o <<l>> \in Seq(Row) /\ Len(a) \in Nat
        /\ Len(a \o <<l>>) = Len(a) + 1
    BY <1>1, OneRowIsSeq, ConcatProperties
  <2>2. CASE a = <<>>
    BY <2>2, SubSeqEmpty, EmptySeq
  <2>3. CASE a # <<>>
    <3>1. Len(a) \in 1..Len(a) /\ 1 \in 1..Len(a)
      BY <2>3, EmptySeq
    <3> DEFINE c == <<l>> \o b
    <3>2. c \in Seq(Row) /\ ls = a \o c
      BY <1>1, OneRowIsSeq, ConcatAssociative, ConcatProperties
    <3> HIDE DEF c, ls
    <3>3. SubSeq(a \o c, 1, Len(a)) = SubSeq(a, 1, Len(a))
      BY <3>1, <3>2, SubSeqOfConcat1
    <3> QED BY <3>2, <3>3, SubSeqFull
  <2> QED BY <2>2, <2>3
<1>5. PlaceOf(ls, Len(a) + 1, Len(h)) = Len(x)
  <2>1. Len(a) \in Nat /\ Len(h) \in Nat /\ Len(a) + 1 - 1 = Len(a) /\ (a = <<>> <=> Len(a) = 0)
    BY EmptySeq DEF Row
  <2>2. a # <<>> => Len(Flat(a)) \in Nat
    BY FlatTypes, Joined
  <2> DEFINE m == Len(a) + 1
  <2>3. m - 1 = Len(a) /\ (m = 1 <=> a = <<>>)
    BY <2>1
  <2> HIDE DEF ls, x, m
  <2>4. PlaceOf(ls, m, Len(h)) = IF m = 1 THEN Len(h) ELSE Len(Flat(a)) + 1 + Len(h)
    BY <1>4, <2>3 DEF PlaceOf
  <2>5. Len(Above(a)) = IF a = <<>> THEN 0 ELSE Len(Flat(a)) + 1
    BY AboveLength
  <2>6. PlaceOf(ls, m, Len(h)) = Len(x)
    BY <1>2, <2>1, <2>2, <2>3, <2>4, <2>5
  <2> QED BY <2>6 DEF m
<1> QED BY <1>2, <1>3, <1>5, Zenon DEF CutAt

(***************************************************************************)
(* The rows above and below line i, and the line cut at column c.          *)
(***************************************************************************)
Upper(ls, i) == SubSeq(ls, 1, i - 1)
Lower(ls, i) == SubSeq(ls, i + 1, Len(ls))

LeftOf(l, c) == SubSeq(l, 1, c)
RightOf(l, c) == SubSeq(l, c + 1, Len(l))

LEMMA RowsAround ==
  ASSUME NEW ls \in Seq(Row), NEW i \in 1..Len(ls)
  PROVE  /\ Upper(ls, i) \in Seq(Row) /\ Lower(ls, i) \in Seq(Row)
         /\ Len(Upper(ls, i)) = i - 1 /\ Len(Lower(ls, i)) = Len(ls) - i
         /\ ls = Upper(ls, i) \o <<ls[i]>> \o Lower(ls, i)
         /\ \A l \in Row : [ls EXCEPT ![i] = l] = Upper(ls, i) \o <<l>> \o Lower(ls, i)
         /\ i \in Nat /\ Len(ls) \in Nat /\ ls[i] \in Row
<1> DEFINE n == Len(ls)
           a == SubSeq(ls, 1, i - 1)
           b == SubSeq(ls, i + 1, n)
<1>1. n \in Nat /\ DOMAIN ls = 1..n /\ \A k \in 1..n : ls[k] \in Row
  BY LenProperties, ElementOfSeq
<1>2. /\ a \in Seq(Row) /\ Len(a) = i - 1
      /\ \A k \in 1..(i - 1) : a[k] = ls[k]
  <2>1. 1 \in Int /\ i - 1 \in Int /\ \A k \in 1..(i - 1) : ls[k] \in Row
    BY <1>1
  <2>2. /\ a \in Seq(Row) /\ Len(a) = IF 1 <= i - 1 THEN i - 1 - 1 + 1 ELSE 0
        /\ \A k \in 1..(i - 1 - 1 + 1) : a[k] = ls[1 + k - 1]
    BY <2>1, SubSeqProperties
  <2> HIDE DEF a
  <2>3. i - 1 - 1 + 1 = i - 1 /\ \A k \in 1..(i - 1) : 1 + k - 1 = k
    BY <1>1
  <2> QED BY <1>1, <2>2, <2>3
<1>3. /\ b \in Seq(Row) /\ Len(b) = n - i
      /\ \A k \in 1..(n - i) : b[k] = ls[i + k]
  <2> DEFINE j == i + 1
  <2>1. j \in Int /\ n \in Int /\ \A k \in j..n : ls[k] \in Row
    BY <1>1
  <2>2. /\ b \in Seq(Row) /\ Len(b) = IF j <= n THEN n - j + 1 ELSE 0
        /\ \A k \in 1..(n - j + 1) : b[k] = ls[j + k - 1]
    BY <2>1, SubSeqProperties
  <2> HIDE DEF b
  <2>3. n - j + 1 = n - i /\ (IF j <= n THEN n - i ELSE 0) = n - i
    <3>1. n \in Nat /\ i \in 1..n
      BY <1>1
    <3> HIDE DEF n
    <3>2. j <= n \/ n - i = 0
      BY <3>1
    <3> QED BY <3>1, <3>2
  <2>4. ASSUME NEW k \in 1..(n - i) PROVE b[k] = ls[i + k]
    <3>1. j + k - 1 = i + k
      BY <1>1
    <3> HIDE DEF j, n
    <3> QED BY <2>2, <2>3, <3>1
  <2> QED BY <2>2, <2>3, <2>4
<1> HIDE DEF a, b
<1>4. ASSUME NEW l \in Row
      PROVE  LET c == a \o <<l>> \o b IN
             /\ c \in Seq(Row) /\ Len(c) = n
             /\ \A k \in 1..n : c[k] = IF k = i THEN l ELSE ls[k]
  <2> DEFINE d == a \o <<l>>
             c == d \o b
  <2>1. /\ d \in Seq(Row) /\ Len(d) = i
        /\ \A k \in 1..i : d[k] = IF k <= i - 1 THEN a[k] ELSE <<l>>[k - (i - 1)]
    <3>1. /\ <<l>> \in Seq(Row) /\ Len(<<l>>) = 1
      BY OneRowIsSeq
    <3>2. /\ d \in Seq(Row) /\ Len(d) = Len(a) + Len(<<l>>)
          /\ \A k \in 1..(Len(a) + Len(<<l>>)) :
               d[k] = IF k <= Len(a) THEN a[k] ELSE <<l>>[k - Len(a)]
      BY <1>2, <3>1, ConcatProperties
    <3>3. Len(a) + Len(<<l>>) = i
      BY <1>1, <1>2, <3>1
    <3> HIDE DEF d
    <3> QED BY <1>2, <3>2, <3>3
  <2>2. \A k \in 1..i : d[k] = IF k = i THEN l ELSE ls[k]
    <3>1. ASSUME NEW k \in 1..i PROVE d[k] = IF k = i THEN l ELSE ls[k]
      <4> HIDE DEF d
      <4>1. CASE k = i
        <5>1. ~(k <= i - 1) /\ k - (i - 1) = 1
          BY <1>1, <4>1
        <5>2. d[k] = <<l>>[1]
          BY <2>1, <5>1
        <5> QED BY <4>1, <5>2
      <4>2. CASE k # i
        <5>1. k <= i - 1 /\ k \in 1..(i - 1)
          BY <1>1, <4>2
        <5> QED BY <1>2, <2>1, <4>2, <5>1
      <4> QED BY <4>1, <4>2
    <3> QED BY <3>1
  <2> HIDE DEF d
  <2>3. /\ c \in Seq(Row) /\ Len(c) = Len(d) + Len(b)
        /\ \A k \in 1..(Len(d) + Len(b)) :
             c[k] = IF k <= Len(d) THEN d[k] ELSE b[k - Len(d)]
    BY <1>3, <2>1, ConcatProperties
  <2> HIDE DEF c
  <2>4. Len(d) + Len(b) = n
    BY <1>1, <1>3, <2>1
  <2>5. ASSUME NEW k \in 1..n PROVE c[k] = IF k = i THEN l ELSE ls[k]
    <3>1. CASE k <= i
      <4>1. k \in 1..i
        BY <3>1
      <4> QED BY <2>1, <2>2, <2>3, <2>4, <3>1, <4>1
    <3>2. CASE ~(k <= i)
      <4>1. k - i \in 1..(n - i) /\ i + (k - i) = k /\ k # i
        BY <1>1, <3>2
      <4>2. c[k] = b[k - i]
        BY <2>1, <2>3, <2>4, <3>2
      <4> HIDE DEF n
      <4> QED BY <1>3, <4>1, <4>2
    <3> QED BY <3>1, <3>2
  <2> QED BY <2>3, <2>4, <2>5 DEF c, d
<1>5. ASSUME NEW l \in Row PROVE [ls EXCEPT ![i] = l] = a \o <<l>> \o b
  <2> DEFINE u == [ls EXCEPT ![i] = l]
             c == a \o <<l>> \o b
  <2>1. /\ u \in Seq(Row) /\ Len(u) = n
        /\ \A k \in 1..n : u[k] = IF k = i THEN l ELSE ls[k]
    BY <1>1, ExceptSeq
  <2>2. c \in Seq(Row) /\ Len(c) = n /\ \A k \in 1..n : c[k] = IF k = i THEN l ELSE ls[k]
    BY <1>4
  <2> HIDE DEF u, c
  <2>3. u = c
    BY <2>1, <2>2, SeqEqual
  <2> QED BY <2>3 DEF u, c
<1>6. ls = a \o <<ls[i]>> \o b
  <2>1. ls[i] \in Row /\ [ls EXCEPT ![i] = ls[i]] = ls
    BY <1>1
  <2> QED BY <1>5, <2>1
<1>7. a = Upper(ls, i) /\ b = Lower(ls, i)
  BY DEF a, b, Upper, Lower
<1>8. i \in Nat /\ Len(ls) \in Nat /\ ls[i] \in Row
  BY <1>1
<1> HIDE DEF n
<1> QED BY <1>2, <1>3, <1>5, <1>6, <1>7, <1>8 DEF n

LEMMA RowCut ==
  ASSUME NEW l \in Row, NEW c \in 0..Len(l)
  PROVE  /\ LeftOf(l, c) \in Row /\ RightOf(l, c) \in Row
         /\ l = LeftOf(l, c) \o RightOf(l, c)
         /\ Len(LeftOf(l, c)) = c /\ Len(RightOf(l, c)) = Len(l) - c
         /\ c \in Nat /\ Len(l) \in Nat
<1> DEFINE n == Len(l)
           h == SubSeq(l, 1, c)
           t == SubSeq(l, c + 1, n)
<1>1. n \in Nat /\ c \in Nat /\ c <= n /\ \A k \in 1..n : l[k] \in Char
  BY LenProperties, ElementOfSeq DEF Row
<1>2. h \in Row /\ Len(h) = c
  <2>1. 1 \in Int /\ c \in Int /\ \A k \in 1..c : l[k] \in Char
    BY <1>1
  <2>2. h \in Seq(Char) /\ Len(h) = IF 1 <= c THEN c - 1 + 1 ELSE 0
    BY <2>1, SubSeqProperties
  <2> HIDE DEF h
  <2>3. (IF 1 <= c THEN c - 1 + 1 ELSE 0) = c
    BY <1>1
  <2> QED BY <2>2, <2>3 DEF Row
<1>3. t \in Row /\ Len(t) = n - c
  <2> DEFINE j == c + 1
  <2>1. j \in Int /\ n \in Int /\ \A k \in j..n : l[k] \in Char
    BY <1>1
  <2>2. t \in Seq(Char) /\ Len(t) = IF j <= n THEN n - j + 1 ELSE 0
    BY <2>1, SubSeqProperties
  <2> HIDE DEF t
  <2>3. (IF j <= n THEN n - j + 1 ELSE 0) = n - c
    <3> HIDE DEF n
    <3>1. j <= n \/ n = c
      BY <1>1
    <3> QED BY <1>1, <3>1
  <2> QED BY <2>2, <2>3 DEF Row
<1>4. l = h \o t
  <2>1. 1 \in 1..(n + 1) /\ c \in (1 - 1)..n /\ n \in c..n
    BY <1>1
  <2>2. l \in Seq(Char)
    BY DEF Row
  <2>3. SubSeq(l, 1, c) \o SubSeq(l, c + 1, n) = SubSeq(l, 1, n)
    BY <2>1, <2>2, ConcatAdjacentSubSeq
  <2>4. SubSeq(l, 1, n) = l
    BY <2>2, SubSeqFull
  <2> QED BY <2>3, <2>4
<1> QED BY <1>1, <1>2, <1>3, <1>4 DEF LeftOf, RightOf

(* What comes before and after the cursor: it cuts the text as it cuts the *)
(* document.                                                               *)
Ahead(ls, i, c) == RightOf(ls[i], c) \o Below(Lower(ls, i))
Behind(ls, i, c) == Above(Upper(ls, i)) \o LeftOf(ls[i], c)

LEMMA CursorCuts ==
  ASSUME NEW ls \in Seq(Row), NEW i \in 1..Len(ls), NEW c \in 0..Len(ls[i])
  PROVE  /\ Behind(ls, i, c) \in Text /\ Ahead(ls, i, c) \in Text
         /\ Flat(ls) = Behind(ls, i, c) \o Ahead(ls, i, c)
         /\ PlaceOf(ls, i, c) = Len(Behind(ls, i, c))
<1> DEFINE a == Upper(ls, i)
           b == Lower(ls, i)
           h == LeftOf(ls[i], c)
           t == RightOf(ls[i], c)
<1>1. /\ a \in Seq(Row) /\ b \in Seq(Row) /\ Len(a) = i - 1
      /\ ls = a \o <<ls[i]>> \o b /\ ls[i] \in Row /\ i \in Nat
  BY RowsAround
<1>2. h \in Row /\ t \in Row /\ ls[i] = h \o t /\ Len(h) = c
  BY <1>1, RowCut
<1>3. Above(a) \o h = Behind(ls, i, c) /\ t \o Below(b) = Ahead(ls, i, c)
  BY DEF Behind, Ahead
<1> HIDE DEF a, b, h, t
<1>4. Len(a) + 1 = i
  BY <1>1
<1>5. a \o <<h \o t>> \o b = ls
  BY <1>1, <1>2, Zenon
<1>6. /\ Above(a) \o h \in Text /\ t \o Below(b) \in Text
      /\ Flat(a \o <<h \o t>> \o b) = (Above(a) \o h) \o (t \o Below(b))
      /\ PlaceOf(a \o <<h \o t>> \o b, Len(a) + 1, Len(h)) = Len(Above(a) \o h)
  <2>1. a \in Seq(Row) /\ b \in Seq(Row) /\ h \in Row /\ t \in Row
    BY <1>1, <1>2
  <2>2. CutAt(a, b, h, t)
    BY <2>1, CursorAt, Zenon
  <2> QED BY <2>2, Zenon DEF CutAt
<1> QED BY <1>2, <1>3, <1>4, <1>5, <1>6, Zenon

LEMMA CursorInText ==
  ASSUME NEW ls \in Seq(Row), NEW i \in 1..Len(ls), NEW c \in 0..Len(ls[i])
  PROVE  Flat(ls) \in Text /\ PlaceOf(ls, i, c) \in 0..Len(Flat(ls))
<1> DEFINE x == Behind(ls, i, c)
           y == Ahead(ls, i, c)
<1>1. x \in Text /\ y \in Text /\ Flat(ls) = x \o y /\ PlaceOf(ls, i, c) = Len(x)
  BY CursorCuts
<1> HIDE DEF x, y
<1> QED BY <1>1, Joined

-----------------------------------------------------------------------------
(***************************************************************************)
(* What the keys do to the text.                                           *)
(***************************************************************************)
(* t with s at the place p.                                                *)
Put(t, p, s) == SubSeq(t, 1, p) \o s \o SubSeq(t, p + 1, Len(t))

LEMMA PutBetween ==
  ASSUME NEW x \in Text, NEW y \in Text, NEW s
  PROVE  Put(x \o y, Len(x), s) = (x \o s) \o y
BY Halves DEF Put

LEMMA CharInserted ==
  ASSUME NEW ls \in Seq(Row), NEW i \in 1..Len(ls), NEW c \in 0..Len(ls[i]), NEW ch \in Char
  PROVE  LET ms == [ls EXCEPT ![i] = InsertAt(@, c + 1, ch)]
             p == PlaceOf(ls, i, c)
         IN Flat(ms) = Put(Flat(ls), p, <<ch>>) /\ PlaceOf(ms, i, c + 1) = p + 1
<1> DEFINE a == Upper(ls, i)
           b == Lower(ls, i)
           h == LeftOf(ls[i], c)
           t == RightOf(ls[i], c)
           x == Behind(ls, i, c)
           y == Ahead(ls, i, c)
           s == <<ch>>
           g == h \o s
           ms == [ls EXCEPT ![i] = InsertAt(@, c + 1, ch)]
<1>1. /\ x \in Text /\ y \in Text /\ x = Above(a) \o h /\ y = t \o Below(b)
      /\ Flat(ls) = x \o y /\ PlaceOf(ls, i, c) = Len(x)
  BY CursorCuts DEF Behind, Ahead
<1>2. /\ a \in Seq(Row) /\ b \in Seq(Row) /\ Len(a) = i - 1 /\ i \in Nat
      /\ ls[i] \in Row /\ Len(ls[i]) \in Nat
      /\ \A l \in Row : [ls EXCEPT ![i] = l] = a \o <<l>> \o b
  BY RowsAround, RowIsText, Joined
<1>3. h \in Row /\ t \in Row /\ Len(h) = c /\ c \in Nat
  BY <1>2, RowCut
<1>4. InsertAt(ls[i], c + 1, ch) = g \o t
  <2>1. (c + 1) - 1 = c
    BY <1>3
  <2>2. SubSeq(ls[i], 1, (c + 1) - 1) = SubSeq(ls[i], 1, c)
    BY <2>1
  <2> QED BY <2>2, Zenon DEF InsertAt, LeftOf, RightOf
<1>5. s \in Row /\ Len(s) = 1
  BY DEF Row
<1>6. ms = [ls EXCEPT ![i] = InsertAt(ls[i], c + 1, ch)]
  OBVIOUS
<1> HIDE DEF ms, a, b, h, t, x, y, s
<1>7. g \in Row /\ Len(g) = c + 1 /\ g \o t \in Row
  <2>1. g \in Row /\ Len(g) = Len(h) + Len(s)
    BY <1>3, <1>5, RowJoined
  <2> HIDE DEF g
  <2>2. g \o t \in Row
    BY <1>3, <2>1, RowJoined
  <2> QED BY <1>3, <1>5, <2>1, <2>2
<1>8. Above(a) \in Text /\ h \in Text /\ s \in Text
  BY <1>2, <1>3, <1>5, AroundTypes, RowIsText
<1>9. Above(a) \o g = x \o s
  <2>1. (Above(a) \o h) \o s = Above(a) \o (h \o s)
    BY <1>8, Assoc
  <2> QED BY <1>1, <2>1, Zenon
<1> HIDE DEF g
<1>10. ms = a \o <<g \o t>> \o b
  BY <1>2, <1>4, <1>6, <1>7
<1>11. /\ Flat(ms) = (x \o s) \o y
       /\ PlaceOf(ms, Len(a) + 1, Len(g)) = Len(x \o s)
  <2>1. /\ Flat(a \o <<g \o t>> \o b) = (Above(a) \o g) \o (t \o Below(b))
        /\ PlaceOf(a \o <<g \o t>> \o b, Len(a) + 1, Len(g)) = Len(Above(a) \o g)
    <3>1. a \in Seq(Row) /\ b \in Seq(Row) /\ g \in Row /\ t \in Row
      BY <1>2, <1>3, <1>7
    <3>2. CutAt(a, b, g, t)
      BY <3>1, CursorAt, Zenon
    <3> QED BY <3>2, Zenon DEF CutAt
  <2>2. y = t \o Below(b)
    BY <1>1
  <2> QED BY <1>9, <1>10, <2>1, <2>2, Zenon
<1>12. Len(x \o s) = Len(x) + 1
  <2>1. x \in Text /\ s \in Text
    BY <1>1, <1>8
  <2>2. Len(x \o s) = Len(x) + Len(s)
    BY <2>1, Joined
  <2> QED BY <1>5, <2>2
<1>13. Len(a) + 1 = i
  BY <1>2
<1>14. Flat(ms) = Put(Flat(ls), Len(x), s)
  <2>1. Put(x \o y, Len(x), s) = (x \o s) \o y
    BY <1>1, PutBetween
  <2> QED BY <1>1, <1>11, <2>1, Zenon
<1>15. PlaceOf(ms, i, c + 1) = Len(x) + 1
  BY <1>7, <1>11, <1>12, <1>13
<1> QED BY <1>1, <1>14, <1>15 DEF ms, s

(* An end of line that is put where the cursor is makes two lines of one.  *)
LEMMA LineSplit ==
  ASSUME NEW ls \in Seq(Row), NEW i \in 1..Len(ls), NEW c \in 0..Len(ls[i])
  PROVE  LET ms == Upper(ls, i) \o <<LeftOf(ls[i], c), RightOf(ls[i], c)>> \o Lower(ls, i)
             p == PlaceOf(ls, i, c)
         IN Flat(ms) = Put(Flat(ls), p, <<NL>>) /\ PlaceOf(ms, i + 1, 0) = p + 1
<1> DEFINE a == Upper(ls, i)
           b == Lower(ls, i)
           h == LeftOf(ls[i], c)
           t == RightOf(ls[i], c)
           x == Behind(ls, i, c)
           y == Ahead(ls, i, c)
           s == <<NL>>
           d == Append(a, h)
           ms == a \o <<h, t>> \o b
<1>1. /\ x \in Text /\ y \in Text /\ x = Above(a) \o h /\ y = t \o Below(b)
      /\ Flat(ls) = x \o y /\ PlaceOf(ls, i, c) = Len(x)
  BY CursorCuts DEF Behind, Ahead
<1>2. /\ a \in Seq(Row) /\ b \in Seq(Row) /\ Len(a) = i - 1 /\ i \in Nat /\ ls[i] \in Row
  BY RowsAround
<1>3. h \in Row /\ t \in Row
  BY <1>2, RowCut
<1>4. s \in Text /\ Len(s) = 1
  BY RowIsText
<1> HIDE DEF a, b, h, t, x, y, s
<1>5. d \in Seq(Row) /\ Len(d) + 1 = i + 1
  <2>1. d \in Seq(Row) /\ Len(d) = Len(a) + 1
    BY <1>2, <1>3, AppendProperties
  <2> HIDE DEF d
  <2> QED BY <1>2, <2>1
<1>6. ms = d \o <<<<>> \o t>> \o b
  <2>1. <<h>> \in Seq(Row) /\ <<t>> \in Seq(Row) /\ <<h, t>> = <<h>> \o <<t>>
    <3>1. <<h>> \in Seq(Row) /\ <<t>> \in Seq(Row)
      BY <1>3, OneRowIsSeq
    <3>2. <<h, t>> = <<h>> \o <<t>>
      BY <1>3, TwoRows
    <3> QED BY <3>1, <3>2
  <2>2. a \o (<<h>> \o <<t>>) = (a \o <<h>>) \o <<t>>
    BY <1>2, <2>1, ConcatAssociative, SMTT(30)
  <2>3. a \o <<h>> = d
    BY <1>2, <1>3, AppendIsConcat
  <2>4. <<>> \o t = t
    BY <1>3, RowIsText, NoText
  <2> QED BY <2>1, <2>2, <2>3, <2>4
<1> HIDE DEF ms
<1>7. <<>> \in Row /\ Len(<<>>) = 0
  BY RowIsText, EmptySeq
<1>8. /\ Flat(ms) = (Above(d) \o <<>>) \o y
      /\ PlaceOf(ms, Len(d) + 1, 0) = Len(Above(d) \o <<>>)
  <2> DEFINE e == <<>>
  <2>1. e \in Row /\ Len(e) = 0 /\ ms = d \o <<e \o t>> \o b
    BY <1>6, <1>7
  <2> HIDE DEF e, d
  <2>2. /\ Flat(d \o <<e \o t>> \o b) = (Above(d) \o e) \o (t \o Below(b))
        /\ PlaceOf(d \o <<e \o t>> \o b, Len(d) + 1, Len(e)) = Len(Above(d) \o e)
    <3>1. d \in Seq(Row) /\ b \in Seq(Row) /\ e \in Row /\ t \in Row
      BY <1>2, <1>3, <1>5, <2>1
    <3>2. CutAt(d, b, e, t)
      BY <3>1, CursorAt, Zenon
    <3> QED BY <3>2, Zenon DEF CutAt
  <2>3. y = t \o Below(b)
    BY <1>1
  <2>4. /\ Flat(ms) = (Above(d) \o e) \o y
        /\ PlaceOf(ms, Len(d) + 1, 0) = Len(Above(d) \o e)
    BY <2>1, <2>2, <2>3, Zenon
  <2> QED BY <2>4 DEF e
<1>9. Above(d) \o <<>> = x \o s
  <2>1. Above(d) = Above(a) \o (h \o s)
    BY <1>2, <1>3, AboveAppend DEF s
  <2>2. Above(a) \in Text /\ h \in Text
    BY <1>2, <1>3, AroundTypes, RowIsText
  <2>3. (Above(a) \o h) \o s = Above(a) \o (h \o s)
    BY <1>4, <2>2, Assoc
  <2>4. Above(d) = x \o s
    BY <1>1, <2>1, <2>3, Zenon
  <2>5. x \o s \in Text
    BY <1>1, <1>4, Joined
  <2> QED BY <2>4, <2>5, NoText
<1> HIDE DEF d
<1>10. Len(x \o s) = Len(x) + 1
  <2>1. Len(x \o s) = Len(x) + Len(s)
    BY <1>1, <1>4, Joined
  <2> QED BY <1>4, <2>1
<1>11. Put(x \o y, Len(x), s) = (x \o s) \o y
  BY <1>1, PutBetween
<1>12. Flat(ms) = Put(Flat(ls), Len(x), s)
  BY <1>1, <1>8, <1>9, <1>11, Zenon
<1>13. PlaceOf(ms, i + 1, 0) = Len(x) + 1
  BY <1>5, <1>8, <1>9, <1>10, Zenon
<1> QED BY <1>1, <1>12, <1>13 DEF ms, s, a, b, h, t

(* t without the character before the place p.                             *)
Drop(t, p) == SubSeq(t, 1, p - 1) \o SubSeq(t, p + 1, Len(t))

LEMMA DropBetween ==
  ASSUME NEW z \in Text, NEW s \in Text, Len(s) = 1, NEW y \in Text
  PROVE  LET x == z \o s IN
         /\ Drop(x \o y, Len(x)) = z \o y
         /\ Len(x) - 1 = Len(z) /\ Len(x) > 0
<1> DEFINE x == z \o s
           t == x \o y
<1>1. x \in Text /\ Len(x) = Len(z) + Len(s) /\ Len(z) \in Nat
  BY Joined
<1>2. Len(x) - 1 = Len(z) /\ Len(x) > 0
  BY <1>1
<1>3. SubSeq(t, Len(x) + 1, Len(t)) = y
  BY <1>1, Halves, Zenon
<1>4. SubSeq(t, 1, Len(z)) = z
  <2>1. s \o y \in Text
    BY Joined, Zenon
  <2>2. t = z \o (s \o y)
    BY Assoc, Zenon
  <2>3. SubSeq(z \o (s \o y), 1, Len(z)) = z
    BY <2>1, Halves, Zenon
  <2> QED BY <2>2, <2>3, Zenon
<1> HIDE DEF x, t
<1>5. SubSeq(t, 1, Len(x) - 1) = z
  BY <1>2, <1>4
<1> QED BY <1>2, <1>3, <1>5, Zenon DEF Drop, t, x

LEMMA CharRemoved ==
  ASSUME NEW ls \in Seq(Row), NEW i \in 1..Len(ls), NEW c \in 1..Len(ls[i])
  PROVE  LET ms == [ls EXCEPT ![i] = RemoveAt(@, c)]
             p == PlaceOf(ls, i, c)
         IN Flat(ms) = Drop(Flat(ls), p) /\ PlaceOf(ms, i, c - 1) = p - 1 /\ p > 0
<1> DEFINE a == Upper(ls, i)
           b == Lower(ls, i)
           h == LeftOf(ls[i], c)
           t == RightOf(ls[i], c)
           g == LeftOf(ls[i], c - 1)
           s == <<ls[i][c]>>
           x == Behind(ls, i, c)
           y == Ahead(ls, i, c)
           z == Above(a) \o g
           ms == [ls EXCEPT ![i] = RemoveAt(@, c)]
<1>1. /\ a \in Seq(Row) /\ b \in Seq(Row) /\ Len(a) = i - 1 /\ i \in Nat
      /\ ls[i] \in Row /\ Len(ls[i]) \in Nat
      /\ \A l \in Row : [ls EXCEPT ![i] = l] = a \o <<l>> \o b
  BY RowsAround, RowIsText, Joined
<1>2. c \in 0..Len(ls[i]) /\ c - 1 \in 0..Len(ls[i])
  BY <1>1
<1>3. /\ x \in Text /\ y \in Text /\ x = Above(a) \o h /\ y = t \o Below(b)
      /\ Flat(ls) = x \o y /\ PlaceOf(ls, i, c) = Len(x)
  BY <1>2, CursorCuts DEF Behind, Ahead
<1>4. t \in Row /\ g \in Row /\ Len(g) = c - 1
  BY <1>1, <1>2, RowCut
<1>5. s \in Row /\ Len(s) = 1
  <2>1. ls[i][c] \in Char
    BY <1>1, ElementOfSeq DEF Row
  <2> QED BY <2>1 DEF Row
<1>6. h = g \o s
  <2>1. ls[i] \in Seq(Char) /\ 1 \in 1..Len(ls[i]) /\ c \in 1..Len(ls[i])
    BY <1>1 DEF Row
  <2>2. SubSeq(ls[i], 1, c) = SubSeq(ls[i], 1, c - 1) \o <<ls[i][c]>>
    BY <2>1, SubSeqRecursiveSecond
  <2> QED BY <2>2 DEF LeftOf
<1>7. RemoveAt(ls[i], c) = g \o t
  BY DEF RemoveAt, LeftOf, RightOf
<1>8. ms = [ls EXCEPT ![i] = RemoveAt(ls[i], c)]
  OBVIOUS
<1> HIDE DEF ms, a, b, h, t, x, y, s, g
<1>9. g \o t \in Row
  BY <1>4, RowJoined
<1>10. Above(a) \in Text /\ g \in Text /\ s \in Text
  BY <1>1, <1>4, <1>5, AroundTypes, RowIsText
<1>11. ms = a \o <<g \o t>> \o b
  BY <1>1, <1>7, <1>8, <1>9
<1>12. Flat(ms) = z \o y /\ PlaceOf(ms, Len(a) + 1, Len(g)) = Len(z)
  <2>1. a \in Seq(Row) /\ b \in Seq(Row) /\ g \in Row /\ t \in Row
    BY <1>1, <1>4
  <2>2. /\ Flat(a \o <<g \o t>> \o b) = (Above(a) \o g) \o (t \o Below(b))
        /\ PlaceOf(a \o <<g \o t>> \o b, Len(a) + 1, Len(g)) = Len(Above(a) \o g)
    <3>1. CutAt(a, b, g, t)
      BY <2>1, CursorAt, Zenon
    <3> QED BY <3>1, Zenon DEF CutAt
  <2>3. y = t \o Below(b)
    BY <1>3
  <2> QED BY <1>11, <2>2, <2>3, Zenon
<1>13. x = z \o s /\ z \in Text
  <2>1. (Above(a) \o g) \o s = Above(a) \o (g \o s)
    BY <1>10, Assoc
  <2>2. z \in Text
    BY <1>10, Joined
  <2> QED BY <1>3, <1>6, <2>1, <2>2, Zenon
<1> HIDE DEF z
<1>14. Drop(x \o y, Len(x)) = z \o y /\ Len(x) - 1 = Len(z) /\ Len(x) > 0
  <2>1. z \in Text /\ s \in Text /\ Len(s) = 1 /\ y \in Text
    BY <1>3, <1>5, <1>10, <1>13
  <2>2. /\ Drop((z \o s) \o y, Len(z \o s)) = z \o y
        /\ Len(z \o s) - 1 = Len(z) /\ Len(z \o s) > 0
    BY <2>1, DropBetween
  <2> QED BY <1>13, <2>2
<1>15. Len(a) + 1 = i
  BY <1>1
<1>16. Flat(ms) = Drop(Flat(ls), Len(x))
  BY <1>3, <1>12, <1>14, Zenon
<1>17. PlaceOf(ms, i, c - 1) = Len(x) - 1
  BY <1>4, <1>12, <1>14, <1>15, Zenon
<1> QED BY <1>3, <1>14, <1>16, <1>17 DEF ms

(* The rows above a line end with the line before it, at whose end the     *)
(* cursor is one place before the line.                                    *)
LEMMA UpperStep ==
  ASSUME NEW ls \in Seq(Row), NEW i \in 1..Len(ls), i > 1
  PROVE  /\ i - 1 \in 1..Len(ls)
         /\ Upper(ls, i) = Append(Upper(ls, i - 1), ls[i - 1])
         /\ Upper(ls, i) = Upper(ls, i - 1) \o <<ls[i - 1]>>
<1> DEFINE j == i - 1
<1>1. Len(ls) \in Nat /\ j \in 1..Len(ls) /\ 1 \in 1..Len(ls) /\ j \in 1..Len(ls)
  BY LenProperties
<1>2. Upper(ls, j) \in Seq(Row) /\ ls[j] \in Row
  BY <1>1, RowsAround
<1>3. SubSeq(ls, 1, j) = SubSeq(ls, 1, j - 1) \o <<ls[j]>>
  BY <1>1, SubSeqRecursiveSecond
<1>4. Upper(ls, i) = SubSeq(ls, 1, j) /\ Upper(ls, j) = SubSeq(ls, 1, j - 1)
  BY DEF Upper
<1> HIDE DEF j
<1>5. Append(Upper(ls, j), ls[j]) = Upper(ls, j) \o <<ls[j]>>
  BY <1>2, AppendIsConcat
<1>6. Upper(ls, i) = Upper(ls, j) \o <<ls[j]>>
  BY <1>3, <1>4, Zenon
<1> QED BY <1>1, <1>5, <1>6 DEF j

LEMMA RowEnds ==
  ASSUME NEW l \in Row
  PROVE  /\ LeftOf(l, 0) = <<>> /\ RightOf(l, 0) = l /\ LeftOf(l, Len(l)) = l
         /\ 0 \in 0..Len(l) /\ Len(l) \in 0..Len(l)
<1>1. Len(l) \in Nat /\ l \in Seq(Char)
  BY LenProperties DEF Row
<1>2. SubSeq(l, 1, 0) = <<>> /\ SubSeq(l, 0 + 1, Len(l)) = l /\ SubSeq(l, 1, Len(l)) = l
  <2>1. SubSeq(l, 1, Len(l)) = l
    BY <1>1, SubSeqFull
  <2>2. 0 + 1 = 1
    OBVIOUS
  <2>3. SubSeq(l, 1, 0) = <<>>
    BY <1>1, SubSeqEmpty
  <2> QED BY <2>1, <2>2, <2>3
<1> QED BY <1>1, <1>2 DEF LeftOf, RightOf

LEMMA BehindOver ==
  ASSUME NEW ls \in Seq(Row), NEW i \in 1..Len(ls), i > 1
  PROVE  /\ Behind(ls, i, 0) = Above(Upper(ls, i - 1)) \o ls[i - 1] \o <<NL>>
         /\ Behind(ls, i - 1, Len(ls[i - 1])) = Above(Upper(ls, i - 1)) \o ls[i - 1]
<1> DEFINE j == i - 1
           u == Upper(ls, j)
           r == ls[j]
<1>1. j \in 1..Len(ls) /\ Upper(ls, i) = Append(u, r)
  BY UpperStep
<1>2. u \in Seq(Row) /\ r \in Row /\ ls[i] \in Row /\ Upper(ls, i) \in Seq(Row)
  BY <1>1, RowsAround
<1>3. LeftOf(ls[i], 0) = <<>> /\ LeftOf(r, Len(r)) = r
  BY <1>2, RowEnds
<1>4. Behind(ls, j, Len(ls[j])) = Above(u) \o r
  BY <1>3 DEF Behind
<1>5. Behind(ls, i, 0) = Above(Upper(ls, i)) \o <<>>
  BY <1>3 DEF Behind
<1> HIDE DEF u, r
<1>6. Above(Upper(ls, i)) = Above(u) \o (r \o <<NL>>)
  BY <1>1, <1>2, AboveAppend
<1>7. Above(u) \in Text /\ r \in Text /\ <<NL>> \in Text /\ Above(Upper(ls, i)) \in Text
  BY <1>2, AroundTypes, RowIsText
<1>8. Above(Upper(ls, i)) \o <<>> = Above(Upper(ls, i))
  BY <1>7, NoText
<1>9. (Above(u) \o r) \o <<NL>> = Above(u) \o (r \o <<NL>>)
  BY <1>7, Assoc, SMTT(30)
<1>10. Behind(ls, i, 0) = (Above(u) \o r) \o <<NL>>
  BY <1>5, <1>6, <1>8, <1>9, Zenon
<1> QED BY <1>4, <1>10 DEF u, r, j

LEMMA PlaceOver ==
  ASSUME NEW ls \in Seq(Row), NEW i \in 1..Len(ls), i > 1
  PROVE  PlaceOf(ls, i, 0) = PlaceOf(ls, i - 1, Len(ls[i - 1])) + 1
<1> DEFINE j == i - 1
           z == Above(Upper(ls, j)) \o ls[j]
<1>1. j \in 1..Len(ls) /\ Behind(ls, i, 0) = z \o <<NL>> /\ Behind(ls, j, Len(ls[j])) = z
  BY UpperStep, BehindOver
<1>2. ls[j] \in Row /\ ls[i] \in Row
  BY <1>1, RowsAround
<1>3. 0 \in 0..Len(ls[i]) /\ Len(ls[j]) \in 0..Len(ls[j])
  BY <1>2, RowEnds
<1> HIDE DEF z
<1>4. PlaceOf(ls, i, 0) = Len(z \o <<NL>>)
  BY <1>1, <1>3, CursorCuts
<1>5. PlaceOf(ls, j, Len(ls[j])) = Len(z) /\ z \in Text
  BY <1>1, <1>3, CursorCuts
<1>6. Len(z \o <<NL>>) = Len(z) + Len(<<NL>>) /\ Len(<<NL>>) = 1
  BY <1>5, RowIsText, Joined
<1> QED BY <1>4, <1>5, <1>6

LEMMA RemoveMiddle ==
  ASSUME NEW S, NEW d \in Seq(S), NEW l \in S, NEW b \in Seq(S)
  PROVE  RemoveAt(d \o <<l>> \o b, Len(d) + 1) = d \o b
<1> DEFINE s == <<l>>
           q == (d \o s) \o b
           k == Len(d) + 1
<1>1. s \in Seq(S) /\ Len(s) = 1
  OBVIOUS
<1> HIDE DEF s
<1>2. s \o b \in Seq(S) /\ d \o s \in Seq(S) /\ Len(d \o s) = k /\ Len(d) \in Nat
  <2>1. s \o b \in Seq(S)
    BY <1>1, ConcatProperties
  <2>2. d \o s \in Seq(S) /\ Len(d \o s) = Len(d) + Len(s)
    BY <1>1, ConcatProperties
  <2>3. Len(d) \in Nat
    BY LenProperties
  <2> QED BY <1>1, <2>1, <2>2, <2>3
<1>3. SubSeq(q, k + 1, Len(q)) = b
  BY <1>2, HalvesOf
<1>4. q = d \o (s \o b)
  BY <1>1, ConcatAssociative
<1>5. SubSeq(q, 1, Len(d)) = d
  BY <1>2, <1>4, HalvesOf
<1>6. k - 1 = Len(d)
  BY <1>2
<1> HIDE DEF q, k
<1>7. RemoveAt(q, k) = d \o b
  BY <1>3, <1>5, <1>6, Zenon DEF RemoveAt
<1> QED BY <1>7 DEF q, k, s

(* A backspace in the first column joins the line to the one before it.    *)
LEMMA LinesJoined ==
  ASSUME NEW ls \in Seq(Row), NEW i \in 1..Len(ls), i > 1
  PROVE  LET ms == RemoveAt([ls EXCEPT ![i - 1] = @ \o ls[i]], i)
             p == PlaceOf(ls, i, 0)
         IN /\ Flat(ms) = Drop(Flat(ls), p)
            /\ PlaceOf(ms, i - 1, Len(ls[i - 1])) = p - 1
            /\ p > 0
<1> DEFINE j == i - 1
           u == Upper(ls, j)
           b == Lower(ls, i)
           r == ls[j]
           l == ls[i]
           s == <<NL>>
           y == l \o Below(b)
           z == Above(u) \o r
           q == [ls EXCEPT ![j] = @ \o l]
           ms == RemoveAt(q, i)
<1>1. j \in 1..Len(ls) /\ Behind(ls, i, 0) = z \o s
  BY UpperStep, BehindOver
<1>2. /\ u \in Seq(Row) /\ r \in Row /\ Len(u) = j - 1 /\ j \in Nat
      /\ \A k \in Row : [ls EXCEPT ![j] = k] = u \o <<k>> \o Lower(ls, j)
  BY <1>1, RowsAround
<1>3. b \in Seq(Row) /\ l \in Row
  BY RowsAround
<1>4. Lower(ls, j) = <<l>> \o b
  <2>1. /\ Len(ls) \in Nat /\ i \in 1..Len(ls) /\ Len(ls) \in i..Len(ls) /\ j + 1 = i
    BY LenProperties
  <2>2. SubSeq(ls, i, Len(ls)) = <<ls[i]>> \o SubSeq(ls, i + 1, Len(ls))
    BY <2>1, SubSeqRecursiveFirst
  <2> HIDE DEF j
  <2> QED BY <2>1, <2>2 DEF Lower
<1>5. RightOf(l, 0) = l /\ 0 \in 0..Len(l)
  BY <1>3, RowEnds
<1>6. /\ z \o s \in Text /\ y \in Text /\ Flat(ls) = (z \o s) \o y
      /\ PlaceOf(ls, i, 0) = Len(z \o s)
  <2>1. /\ Behind(ls, i, 0) \in Text /\ Ahead(ls, i, 0) \in Text
        /\ Flat(ls) = Behind(ls, i, 0) \o Ahead(ls, i, 0)
        /\ PlaceOf(ls, i, 0) = Len(Behind(ls, i, 0))
    BY <1>5, CursorCuts
  <2>2. Ahead(ls, i, 0) = y
    BY <1>5 DEF Ahead
  <2> QED BY <1>1, <2>1, <2>2
<1>7. q = [ls EXCEPT ![j] = r \o l]
  OBVIOUS
<1>8. s \in Text /\ Len(s) = 1
  BY RowIsText
<1> HIDE DEF u, b, r, l, s, y, q, ms
<1> DEFINE d == u \o <<r \o l>>
<1>9. r \o l \in Row /\ d \in Seq(Row) /\ Len(d) + 1 = i
  <2>1. r \o l \in Row
    BY <1>2, <1>3, RowJoined
  <2>2. <<r \o l>> \in Seq(Row) /\ Len(<<r \o l>>) = 1
    BY <2>1, OneRowIsSeq
  <2>3. d \in Seq(Row) /\ Len(d) = Len(u) + Len(<<r \o l>>)
    BY <1>2, <2>2, ConcatProperties
  <2> HIDE DEF d
  <2> QED BY <1>2, <2>1, <2>2, <2>3
<1>10. ms = d \o b
  <2>1. q = d \o (<<l>> \o b)
    BY <1>2, <1>4, <1>7, <1>9
  <2>2. <<l>> \in Seq(Row)
    BY <1>3, OneRowIsSeq
  <2> HIDE DEF d
  <2>3. (d \o <<l>>) \o b = d \o (<<l>> \o b)
    BY <1>3, <1>9, <2>2, ConcatAssociative, SMTT(30)
  <2>4. RemoveAt((d \o <<l>>) \o b, Len(d) + 1) = d \o b
    BY <1>3, <1>9, RemoveMiddle
  <2> QED BY <1>9, <2>1, <2>3, <2>4 DEF ms
<1>11. /\ Flat(ms) = z \o y
       /\ PlaceOf(ms, Len(u) + 1, Len(r)) = Len(z)
  <2>1. /\ Flat(u \o <<r \o l>> \o b) = (Above(u) \o r) \o (l \o Below(b))
        /\ PlaceOf(u \o <<r \o l>> \o b, Len(u) + 1, Len(r)) = Len(Above(u) \o r)
    <3>1. u \in Seq(Row) /\ b \in Seq(Row) /\ r \in Row /\ l \in Row
      BY <1>2, <1>3
    <3>2. CutAt(u, b, r, l)
      BY <3>1, CursorAt, Zenon
    <3> QED BY <3>2, Zenon DEF CutAt
  <2> QED BY <1>10, <2>1 DEF y
<1>12. z \in Text
  <2>1. Above(u) \in Text /\ r \in Text
    BY <1>2, AroundTypes, RowIsText
  <2> QED BY <2>1, Joined
<1>13. Len(u) + 1 = j
  BY <1>2
<1> HIDE DEF z, j
<1>14. Drop((z \o s) \o y, Len(z \o s)) = z \o y /\ Len(z \o s) - 1 = Len(z) /\ Len(z \o s) > 0
  BY <1>6, <1>8, <1>12, DropBetween
<1>15. Flat(ms) = Drop(Flat(ls), PlaceOf(ls, i, 0))
  BY <1>6, <1>11, <1>14, Zenon
<1>16. PlaceOf(ms, j, Len(r)) = PlaceOf(ls, i, 0) - 1
  BY <1>6, <1>11, <1>13, <1>14, Zenon
<1>17. PlaceOf(ls, i, 0) > 0
  BY <1>6, <1>14
<1> QED BY <1>15, <1>16, <1>17 DEF ms, q, r, l, j

(* A line put at the end of the document, and the cursor at its end.       *)
LEMMA RowAppended ==
  ASSUME NEW ls \in Seq(Row), ls # <<>>, NEW l \in Row
  PROVE  LET ms == Append(ls, l)
         IN /\ Flat(ms) = Flat(ls) \o <<NL>> \o l
            /\ PlaceOf(ms, Len(ls) + 1, Len(l)) = Len(Flat(ms))
<1> DEFINE ms == Append(ls, l)
           s == <<l>>
           n == Len(ls)
           x == Flat(ls) \o <<NL>>
<1>1. n \in Nat /\ n # 0
  BY LenProperties, EmptySeq
<1>2. Flat(ms) = x \o l
  BY FlatAppend
<1>3. SubSeq(ms, 1, n) = ls
  <2>1. s \in Seq(Row) /\ ms = ls \o s
    BY OneRowIsSeq, AppendIsConcat
  <2> HIDE DEF s, ms
  <2>2. SubSeq(ls \o s, 1, n) = ls
    BY <2>1, HalvesOf
  <2> QED BY <2>1, <2>2
<1>4. Flat(ls) \in Text /\ <<NL>> \in Text /\ Len(<<NL>>) = 1 /\ l \in Text
  BY FlatTypes, RowIsText
<1>5. x \in Text /\ Len(x) = Len(Flat(ls)) + 1 /\ Len(Flat(ls)) \in Nat
  BY <1>4, Joined
<1> HIDE DEF ms, x
<1>6. Len(x \o l) = Len(x) + Len(l)
  BY <1>4, <1>5, Joined
<1> DEFINE m == n + 1
<1>7. m # 1 /\ m - 1 = n
  BY <1>1
<1> HIDE DEF m, n
<1>8. PlaceOf(ms, m, Len(l)) = Len(Flat(ls)) + 1 + Len(l)
  BY <1>3, <1>7 DEF PlaceOf
<1>9. PlaceOf(ms, m, Len(l)) = Len(Flat(ms))
  BY <1>2, <1>5, <1>6, <1>8
<1> QED BY <1>2, <1>9 DEF m, ms, x, n

(* The last line without the end of the line before it is where the text   *)
(* has its last end of a line.                                             *)
LEMMA RowDeleted ==
  ASSUME NEW ls \in Seq(Row), ls # <<>>, NEW l \in Row
  PROVE  LET t == Flat(Append(ls, l))
             n == Len(Flat(ls))
         IN /\ n \in Nat /\ Len(t) \in Nat /\ n < Len(t)
            /\ t[n + 1] = NL
            /\ \A k \in n + 2..Len(t) : t[k] # NL
            /\ SubSeq(t, 1, n) = Flat(ls)
<1> DEFINE x == Flat(ls)
           s == <<NL>>
           y == x \o s
           t == y \o l
           n == Len(x)
<1>1. x \in Text /\ s \in Text /\ l \in Text /\ Len(s) = 1 /\ s[1] = NL
  BY FlatTypes, RowIsText
<1>2. Flat(Append(ls, l)) = t
  BY FlatAppend
<1> HIDE DEF x, s
<1>3. /\ y \in Text /\ Len(y) = n + 1 /\ n \in Nat /\ y[n + 1] = NL
  <2>1. /\ y \in Seq(Symbol) /\ Len(y) = Len(x) + Len(s)
        /\ \A i \in 1..(Len(x) + Len(s)) : y[i] = IF i <= Len(x) THEN x[i] ELSE s[i - Len(x)]
    BY <1>1, ConcatProperties DEF Text
  <2> HIDE DEF y
  <2>2. n \in Nat
    BY <1>1, Joined
  <2>3. n + 1 \in 1..(n + 1) /\ ~(n + 1 <= n) /\ (n + 1) - n = 1
    BY <2>2
  <2>4. y[n + 1] = s[(n + 1) - n]
    BY <1>1, <2>1, <2>3
  <2> QED BY <1>1, <2>1, <2>2, <2>3, <2>4 DEF Text
<1>4. SubSeq(t, 1, n) = x
  <2>1. s \o l \in Text
    BY <1>1, Joined, Zenon
  <2>2. t = x \o (s \o l)
    BY <1>1, Assoc, Zenon
  <2>3. SubSeq(x \o (s \o l), 1, Len(x)) = x
    BY <1>1, <2>1, Halves, Zenon
  <2> QED BY <2>2, <2>3, Zenon
<1> HIDE DEF y
<1>5. /\ Len(t) = (n + 1) + Len(l) /\ Len(l) \in Nat
      /\ \A i \in 1..((n + 1) + Len(l)) : t[i] = IF i <= n + 1 THEN y[i] ELSE l[i - (n + 1)]
  <2>1. y \in Seq(Symbol) /\ l \in Seq(Symbol) /\ Len(l) \in Nat
    BY <1>1, <1>3, Joined DEF Text
  <2>2. /\ Len(t) = Len(y) + Len(l)
        /\ \A i \in 1..(Len(y) + Len(l)) : t[i] = IF i <= Len(y) THEN y[i] ELSE l[i - Len(y)]
    BY <2>1, ConcatProperties
  <2> HIDE DEF t
  <2> QED BY <1>3, <2>1, <2>2
<1> HIDE DEF t, n
<1>6. t[n + 1] = NL
  BY <1>3, <1>5
<1>7. ASSUME NEW k \in n + 2..Len(t) PROVE t[k] # NL
  <2> DEFINE j == k - (n + 1)
  <2>1. j \in 1..Len(l) /\ k \in 1..((n + 1) + Len(l)) /\ ~(k <= n + 1)
    BY <1>3, <1>5
  <2>2. t[k] = l[j]
    BY <1>5, <2>1
  <2> HIDE DEF j
  <2>3. l[j] \in Char
    BY <2>1, ElementOfSeq DEF Row
  <2> QED BY <2>2, <2>3, EditorAssumption
<1>8. Len(t) \in Nat /\ n < Len(t)
  BY <1>3, <1>5
<1> QED BY <1>2, <1>3, <1>4, <1>6, <1>7, <1>8 DEF n, x

-----------------------------------------------------------------------------
(***************************************************************************)
(* What the editor makes of the bytes of a file, from its last byte on.    *)
(***************************************************************************)
Byte == Char \union {NL, Other}
Bytes == Seq(Byte)

(* f holds the documents after the first bytes of q, up to n of them.      *)
Takes(f, n, q) ==
  \A i \in 0..n : f[i] = IF i = 0 THEN Blank ELSE Take(q[i])[f[i - 1]]

LEMMA TakeLoop ==
  ASSUME NEW q \in Bytes
  PROVE  \E f : Takes(f, Len(q), q) /\ TakeAll(q) = f[Len(q)]
<1> DEFINE n == Len(q)
           S == { k \in Nat : \E f :
                    f = [i \in 0..k |-> IF i = 0 THEN Blank ELSE Take(q[i])[f[i - 1]]] }
<1>0. n \in Nat
  BY LenProperties DEF Bytes
<1>1. 0 \in S
  <2> DEFINE f == [i \in 0..0 |-> Blank]
  <2>1. \A i \in 0..0 : i = 0
    OBVIOUS
  <2>2. f = [i \in 0..0 |-> IF i = 0 THEN Blank ELSE Take(q[i])[f[i - 1]]]
    BY <2>1, Zenon
  <2> QED BY <2>2
<1>2. ASSUME NEW k \in Nat, k \in S PROVE k + 1 \in S
  <2>1. PICK f : f = [i \in 0..k |-> IF i = 0 THEN Blank ELSE Take(q[i])[f[i - 1]]]
    BY <1>2
  <2> DEFINE e(x, i) == IF i = 0 THEN Blank ELSE Take(q[i])[x]
             g == [i \in 0..(k + 1) |-> IF i = k + 1 THEN e(f[k], k + 1) ELSE f[i]]
  <2>2. \A i \in 0..k : f[i] = e(f[i - 1], i)
    BY <2>1, Zenon
  <2>a. \A x, y : e(x, 0) = e(y, 0)
    OBVIOUS
  <2> HIDE DEF e
  <2>3. ASSUME NEW i \in 0..(k + 1) PROVE g[i] = e(g[i - 1], i)
    <3>1. CASE i = k + 1
      <4>1. g[i] = e(f[k], i)
        BY <3>1
      <4>2. i - 1 = k /\ k \in 0..(k + 1) /\ k # k + 1
        BY <3>1
      <4>3. g[i - 1] = f[k]
        BY <4>2
      <4> QED BY <4>1, <4>3
    <3>2. CASE i # k + 1
      <4>1. i \in 0..k
        BY <3>2
      <4>2. g[i] = f[i] /\ f[i] = e(f[i - 1], i)
        BY <2>2, <3>2, <4>1
      <4>3. CASE i = 0
        BY <2>a, <4>2, <4>3
      <4>4. CASE i # 0
        <5>1. i - 1 \in 0..(k + 1) /\ i - 1 # k + 1
          BY <4>1, <4>4
        <5>2. g[i - 1] = f[i - 1]
          BY <5>1
        <5> QED BY <4>2, <5>2
      <4> QED BY <4>3, <4>4
    <3> QED BY <3>1, <3>2
  <2>4. g = [i \in 0..(k + 1) |-> g[i]]
    OBVIOUS
  <2> HIDE DEF g
  <2>5. g = [i \in 0..(k + 1) |-> e(g[i - 1], i)]
    BY <2>3, <2>4, Zenon
  <2>6. g = [i \in 0..(k + 1) |-> IF i = 0 THEN Blank ELSE Take(q[i])[g[i - 1]]]
    BY <2>5, Zenon DEF e
  <2>7. k + 1 \in Nat
    OBVIOUS
  <2> QED BY <2>6, <2>7, Zenon
<1>3. n \in S
  <2> HIDE DEF S, n
  <2> QED BY <1>0, <1>1, <1>2, SetInduction
<1> DEFINE r == CHOOSE f : f = [i \in 0..n |-> IF i = 0 THEN Blank ELSE Take(q[i])[f[i - 1]]]
<1>4. r = [i \in 0..n |-> IF i = 0 THEN Blank ELSE Take(q[i])[r[i - 1]]]
  <2>1. \E f : f = [i \in 0..n |-> IF i = 0 THEN Blank ELSE Take(q[i])[f[i - 1]]]
    BY <1>3
  <2> QED BY <2>1, Zenon
<1>5. TakeAll(q) = r[n]
  BY DEF TakeAll
<1> HIDE DEF r
<1>6. Takes(r, n, q)
  BY <1>4, Zenon DEF Takes
<1> QED BY <1>5, <1>6

LEMMA SameTakes ==
  ASSUME NEW n \in Nat, NEW q, NEW u, NEW f, NEW g,
         \A i \in 1..n : q[i] = u[i], Takes(f, n, q), Takes(g, n, u)
  PROVE  f[n] = g[n]
<1> DEFINE S == { k \in Nat : k \in 0..n => f[k] = g[k] }
<1>1. 0 \in S
  <2>1. f[0] = Blank /\ g[0] = Blank
    BY DEF Takes
  <2> QED BY <2>1
<1>2. ASSUME NEW k \in Nat, k \in S PROVE k + 1 \in S
  <2> SUFFICES ASSUME k + 1 \in 0..n PROVE f[k + 1] = g[k + 1]
    OBVIOUS
  <2> DEFINE m == k + 1
  <2>1. m \in 0..n /\ m \in 1..n /\ m - 1 = k /\ m # 0 /\ k \in 0..n
    OBVIOUS
  <2>2. f[k] = g[k]
    BY <1>2, <2>1
  <2> HIDE DEF m
  <2>3. f[m] = Take(q[m])[f[m - 1]] /\ g[m] = Take(u[m])[g[m - 1]]
    BY <2>1 DEF Takes
  <2>4. f[m] = g[m]
    BY <2>1, <2>2, <2>3
  <2> QED BY <2>4 DEF m
<1> HIDE DEF S
<1>3. \A k \in Nat : k \in S
  BY <1>1, <1>2, SetInduction
<1>4. n \in 0..n
  OBVIOUS
<1> QED BY <1>3, <1>4 DEF S

LEMMA TakeNone == TakeAll(<<>>) = Blank
<1> DEFINE q == <<>>
<1>1. q \in Bytes /\ Len(q) = 0
  BY EmptySeq DEF Bytes
<1> HIDE DEF q
<1>2. PICK f : Takes(f, Len(q), q) /\ TakeAll(q) = f[Len(q)]
  BY <1>1, TakeLoop
<1>3. f[0] = Blank
  BY <1>1, <1>2 DEF Takes
<1> QED BY <1>1, <1>2, <1>3 DEF q

LEMMA TakeNext ==
  ASSUME NEW q \in Bytes, NEW b \in Byte
  PROVE  TakeAll(Append(q, b)) = Take(b)[TakeAll(q)]
<1> DEFINE u == Append(q, b)
           n == Len(q)
           m == n + 1
<1>1. /\ n \in Nat /\ u \in Bytes /\ Len(u) = m /\ u[m] = b
      /\ \A i \in 1..n : q[i] = u[i]
  BY AppendProperties, LenProperties DEF Bytes
<1> HIDE DEF u
<1>2. PICK f : Takes(f, n, q) /\ TakeAll(q) = f[n]
  BY TakeLoop
<1>3. PICK g : Takes(g, Len(u), u) /\ TakeAll(u) = g[Len(u)]
  BY <1>1, TakeLoop
<1>4. m \in 0..m /\ m # 0 /\ m - 1 = n /\ \A i \in 0..n : i \in 0..m
  BY <1>1
<1> HIDE DEF n, m
<1>5. Takes(g, n, u)
  BY <1>1, <1>3, <1>4 DEF Takes
<1>6. f[n] = g[n]
  BY <1>1, <1>2, <1>5, SameTakes
<1>7. g[m] = Take(u[m])[g[n]]
  BY <1>1, <1>3, <1>4 DEF Takes
<1> QED BY <1>1, <1>2, <1>3, <1>6, <1>7 DEF u

-----------------------------------------------------------------------------
(***************************************************************************)
(* A document that fits, and what reading a file can make of one.          *)
(***************************************************************************)
Doc == [lines : Seq(Line), done : BOOLEAN]
Fits(ls) == ls \in Seq(Line) /\ Len(ls) \in 1..MaxLines

LEMMA LinesAreRows ==
  /\ \A l \in Line : l \in Row /\ Len(l) \in Nat /\ Len(l) <= LineLen
  /\ \A l \in Row : Len(l) <= LineLen => l \in Line
  /\ <<>> \in Line
  /\ LineLen \in Nat \ {0} /\ MaxLines \in Nat \ {0}
<1>1. <<>> \in Seq(Char) /\ Len(<<>>) = 0
  BY EmptySeq
<1>2. \A l \in Seq(Char) : Len(l) \in Nat
  BY LenProperties
<1> QED BY <1>1, <1>2, EditorAssumption DEF Line, Row

LEMMA LinesAreText ==
  ASSUME NEW ls, Fits(ls)
  PROVE  ls \in Seq(Row) /\ ls # <<>> /\ Len(ls) \in Nat /\ 1 \in 1..Len(ls)
<1>1. ls \in Seq(Line) /\ Len(ls) \in Nat /\ Len(ls) >= 1
  BY LenProperties DEF Fits
<1>2. /\ ls = [i \in 1..Len(ls) |-> ls[i]] /\ \A i \in 1..Len(ls) : ls[i] \in Line
  BY <1>1, ElementOfSeq, LenProperties
<1>3. \A i \in 1..Len(ls) : ls[i] \in Row
  BY <1>2, LinesAreRows
<1>4. ls \in Seq(Row)
  BY <1>1, <1>2, <1>3
<1> QED BY <1>1, <1>4, EmptySeq

LEMMA TakeFits ==
  ASSUME NEW d \in Doc, Fits(d.lines), NEW b \in Byte
  PROVE  Take(b)[d] \in Doc /\ Fits(Take(b)[d].lines)
<1> DEFINE ls == d.lines
           n == Len(ls)
<1>1. ls \in Seq(Line) /\ n \in 1..MaxLines /\ n \in Nat /\ ls[n] \in Line
  <2>1. ls \in Seq(Line) /\ n \in 1..MaxLines /\ n \in Nat
    BY LenProperties DEF Fits
  <2> QED BY <2>1, ElementOfSeq
<1>2. CASE d.done
  BY <1>2 DEF Take, Doc
<1>3. CASE ~d.done /\ b = NL /\ n = MaxLines
  <2>1. Take(b)[d] = [d EXCEPT !.done = TRUE]
    BY <1>3 DEF Take, Doc
  <2> QED BY <2>1 DEF Doc, Fits
<1>4. CASE ~d.done /\ b = NL /\ n # MaxLines
  <2> DEFINE ms == Append(ls, <<>>)
  <2>1. Take(b)[d] = [d EXCEPT !.lines = Append(@, <<>>)]
    BY <1>4 DEF Take, Doc
  <2>2. ms \in Seq(Line) /\ Len(ms) = n + 1
    BY <1>1, AppendProperties, LinesAreRows
  <2>3. Take(b)[d] = [lines |-> ms, done |-> d.done]
    BY <2>1 DEF Doc
  <2> HIDE DEF ms, n
  <2>4. Len(ms) \in 1..MaxLines
    BY <1>1, <1>4, <2>2, LinesAreRows
  <2> QED BY <2>2, <2>3, <2>4 DEF Doc, Fits
<1>5. CASE ~d.done /\ b # NL /\ b \in Char /\ Len(ls[n]) < LineLen
  <2> DEFINE l == Append(ls[n], b)
             ms == [ls EXCEPT ![n] = l]
  <2>1. Take(b)[d] = [d EXCEPT !.lines[n] = Append(@, b)]
    BY <1>5 DEF Take, Doc
  <2>2. l \in Line
    <3>1. ls[n] \in Row /\ Len(ls[n]) \in Nat
      BY <1>1, LinesAreRows
    <3>2. l \in Row /\ Len(l) = Len(ls[n]) + 1
      BY <1>5, <3>1, AppendProperties DEF Row
    <3> HIDE DEF l, n, ls
    <3>3. Len(l) <= LineLen
      BY <1>5, <3>1, <3>2, LinesAreRows
    <3> QED BY <3>2, <3>3, LinesAreRows
  <2>3. ms \in Seq(Line) /\ Len(ms) = n
    <3> HIDE DEF l
    <3>1. n \in 1..Len(ls)
      BY <1>1
    <3> QED BY <1>1, <2>2, <3>1, ExceptSeq
  <2>4. Take(b)[d] = [d EXCEPT !.lines = ms]
    BY <2>1
  <2> HIDE DEF ms
  <2>5. Take(b)[d] = [lines |-> ms, done |-> d.done]
    BY <2>4 DEF Doc
  <2> QED BY <1>1, <2>3, <2>5 DEF Doc, Fits
<1>6. CASE ~d.done /\ b # NL /\ ~(b \in Char /\ Len(ls[n]) < LineLen)
  BY <1>6 DEF Take, Doc
<1> QED BY <1>2, <1>3, <1>4, <1>5, <1>6

LEMMA TakeAllFits ==
  ASSUME NEW q \in Bytes
  PROVE  TakeAll(q) \in Doc /\ Fits(TakeAll(q).lines)
<1> DEFINE S == { k \in Nat : \A u \in Bytes :
                    Len(u) = k => TakeAll(u) \in Doc /\ Fits(TakeAll(u).lines) }
<1>1. 0 \in S
  <2>1. Blank \in Doc /\ Fits(Blank.lines)
    <3> DEFINE ms == <<<<>>>>
    <3>1. ms \in Seq(Line) /\ Len(ms) = 1
      BY LinesAreRows
    <3>2. Blank.lines = ms /\ Blank = [lines |-> ms, done |-> FALSE]
      BY DEF Blank
    <3> HIDE DEF ms
    <3>3. 1 \in 1..MaxLines
      BY LinesAreRows
    <3>4. Fits(ms)
      BY <3>1, <3>3 DEF Fits
    <3>5. Blank \in Doc
      BY <3>1, <3>2 DEF Doc
    <3> QED BY <3>2, <3>4, <3>5
  <2>2. ASSUME NEW u \in Bytes, Len(u) = 0 PROVE TakeAll(u) = Blank
    BY <2>2, EmptySeq, TakeNone DEF Bytes
  <2> QED BY <2>1, <2>2
<1>2. ASSUME NEW k \in Nat, k \in S PROVE k + 1 \in S
  <2> SUFFICES ASSUME NEW u \in Bytes, Len(u) = k + 1
               PROVE  TakeAll(u) \in Doc /\ Fits(TakeAll(u).lines)
    OBVIOUS
  <2>1. u # <<>>
    BY EmptySeq
  <2>2. PICK v \in Bytes, b \in Byte : u = Append(v, b)
    BY <2>1, SequenceEmptyOrAppend DEF Bytes
  <2>3. Len(u) = Len(v) + 1 /\ Len(v) \in Nat
    BY <2>2, AppendProperties, LenProperties DEF Bytes
  <2>4. Len(v) = k
    BY <2>3
  <2>5. TakeAll(v) \in Doc /\ Fits(TakeAll(v).lines)
    BY <1>2, <2>4
  <2> QED BY <2>2, <2>5, TakeNext, TakeFits
<1> HIDE DEF S
<1>3. \A k \in Nat : k \in S
  BY <1>1, <1>2, SetInduction
<1>4. Len(q) \in Nat
  BY LenProperties DEF Bytes
<1> QED BY <1>3, <1>4 DEF S

(* Reading a line after its first characters r adds it to the document.    *)
Read(ls) == [lines |-> ls, done |-> FALSE]

LEMMA TakeChar ==
  ASSUME NEW ms \in Seq(Line), NEW r \in Line, NEW c \in Char, Len(r) < LineLen
  PROVE  Take(c)[Read(Append(ms, r))] = Read(Append(ms, Append(r, c))) /\ Append(r, c) \in Line
<1> DEFINE ls == Append(ms, r)
           n == Len(ms) + 1
           u == Append(r, c)
           us == Append(ms, u)
           d == Read(ls)
<1>1. /\ ls \in Seq(Line) /\ Len(ls) = n /\ n \in Nat /\ n \in 1..n /\ ls[n] = r
      /\ \A k \in 1..Len(ms) : ls[k] = ms[k]
  BY AppendProperties, LenProperties
<1>2. r \in Row /\ Len(r) \in Nat
  BY LinesAreRows
<1>3. u \in Line
  <2>1. u \in Row /\ Len(u) = Len(r) + 1
    BY <1>2, AppendProperties DEF Row
  <2> HIDE DEF u
  <2>2. Len(u) <= LineLen
    BY <1>2, <2>1, LinesAreRows
  <2> QED BY <2>1, <2>2, LinesAreRows
<1>4. /\ us \in Seq(Line) /\ Len(us) = n /\ us[n] = u
      /\ \A k \in 1..Len(ms) : us[k] = ms[k]
  <2> HIDE DEF u
  <2> QED BY <1>3, AppendProperties
<1> HIDE DEF ls, us, u
<1>5. [ls EXCEPT ![n] = u] = us
  <2> DEFINE vs == [ls EXCEPT ![n] = u]
  <2>1. /\ vs \in Seq(Line) /\ Len(vs) = n
        /\ \A k \in 1..n : vs[k] = IF k = n THEN u ELSE ls[k]
    BY <1>1, <1>3, ExceptSeq
  <2> HIDE DEF vs
  <2>2. ASSUME NEW k \in 1..n PROVE vs[k] = us[k]
    <3>1. CASE k = n
      BY <1>4, <2>1, <3>1
    <3>2. CASE k # n
      <4>1. k \in 1..Len(ms)
        BY <3>2, LenProperties
      <4> QED BY <1>1, <1>4, <2>1, <3>2, <4>1
    <3> QED BY <3>1, <3>2
  <2>3. vs = us
    BY <1>4, <2>1, <2>2, SeqEqual
  <2> QED BY <2>3 DEF vs
<1>6. d \in Doc /\ d.lines = ls /\ ~d.done
  BY <1>1 DEF Doc, Read
<1>7. c # NL
  BY EditorAssumption
<1> HIDE DEF n, d
<1>8. Take(c)[d] = [d EXCEPT !.lines[n] = Append(@, c)]
  BY <1>1, <1>6, <1>7 DEF Take, Doc
<1>9. [d EXCEPT !.lines[n] = Append(@, c)] = Read(us)
  <2>1. d.lines = ls /\ Append(d.lines[n], c) = u /\ [d.lines EXCEPT ![n] = u] = us
    BY <1>1, <1>5, <1>6 DEF u
  <2>2. [d EXCEPT !.lines[n] = Append(@, c)] = [d EXCEPT !.lines = us]
    BY <2>1
  <2>3. [d EXCEPT !.lines = us] = [lines |-> us, done |-> d.done]
    BY <1>6 DEF Doc
  <2>4. d.done = FALSE
    BY DEF d, Read
  <2> QED BY <2>2, <2>3, <2>4, Zenon DEF Read
<1> QED BY <1>3, <1>8, <1>9 DEF d, ls, us, u

LEMMA TakeEnd ==
  ASSUME NEW ms \in Seq(Line), Len(ms) \in 1..MaxLines, Len(ms) # MaxLines
  PROVE  Take(NL)[Read(ms)] = Read(Append(ms, <<>>))
<1>1. Read(ms) \in Doc /\ Read(ms).lines = ms /\ ~Read(ms).done
  BY DEF Doc, Read
<1>2. Take(NL)[Read(ms)] = [Read(ms) EXCEPT !.lines = Append(@, <<>>)]
  BY <1>1 DEF Take, Doc
<1> QED BY <1>2 DEF Read

LEMMA TakeRow ==
  ASSUME NEW q \in Bytes, NEW ms \in Seq(Line), TakeAll(q) = Read(Append(ms, <<>>)),
         NEW l \in Line
  PROVE  TakeAll(q \o l) = Read(Append(ms, l))
<1> DEFINE S == { k \in Nat : \A u \in Line :
                    Len(u) = k => TakeAll(q \o u) = Read(Append(ms, u)) }
<1>0. \A u \in Line : u \in Seq(Char) /\ u \in Bytes
  <2>1. \A u \in Seq(Char) : u \in Bytes
    <3> SUFFICES ASSUME NEW u \in Seq(Char) PROVE u \in Bytes
      OBVIOUS
    <3>1. Len(u) \in Nat /\ u = [i \in 1..Len(u) |-> u[i]] /\ \A i \in 1..Len(u) : u[i] \in Byte
      BY ElementOfSeq, LenProperties DEF Byte
    <3> QED BY <3>1 DEF Bytes
  <2> QED BY <2>1, LinesAreRows DEF Row
<1>1. 0 \in S
  <2>1. ASSUME NEW u \in Line, Len(u) = 0 PROVE TakeAll(q \o u) = Read(Append(ms, u))
    <3>1. u = <<>>
      BY <1>0, <2>1, EmptySeq
    <3>2. q \o <<>> = q
      BY ConcatEmptySeq DEF Bytes
    <3> QED BY <3>1, <3>2
  <2> QED BY <2>1
<1>2. ASSUME NEW k \in Nat, k \in S PROVE k + 1 \in S
  <2> SUFFICES ASSUME NEW u \in Line, Len(u) = k + 1
               PROVE  TakeAll(q \o u) = Read(Append(ms, u))
    OBVIOUS
  <2>1. u # <<>> /\ u \in Seq(Char)
    BY <1>0, EmptySeq
  <2>2. PICK v \in Seq(Char), c \in Char : u = Append(v, c)
    BY <2>1, SequenceEmptyOrAppend
  <2>3. Len(u) = Len(v) + 1 /\ Len(v) \in Nat
    BY <2>2, AppendProperties, LenProperties
  <2>4. Len(v) = k /\ Len(v) < LineLen /\ v \in Line
    <3>1. Len(u) <= LineLen /\ LineLen \in Nat
      BY LinesAreRows
    <3>2. Len(v) = k /\ Len(v) < LineLen /\ Len(v) <= LineLen
      BY <2>3, <3>1
    <3> QED BY <3>2, LinesAreRows DEF Row
  <2>5. TakeAll(q \o v) = Read(Append(ms, v))
    BY <1>2, <2>4
  <2>6. q \o v \in Bytes /\ c \in Byte
    BY <1>0, <2>4, ConcatProperties DEF Bytes, Byte
  <2>7. q \o u = Append(q \o v, c)
    <3>1. <<c>> \in Bytes /\ v \in Bytes
      BY <1>0, <2>4 DEF Bytes, Byte
    <3>2. q \o (v \o <<c>>) = (q \o v) \o <<c>>
      BY <3>1, ConcatAssociative DEF Bytes
    <3>3. u = v \o <<c>>
      BY <2>2, AppendIsConcat
    <3>4. Append(q \o v, c) = (q \o v) \o <<c>>
      BY <2>6, AppendIsConcat DEF Bytes
    <3> QED BY <3>2, <3>3, <3>4, Zenon
  <2>8. TakeAll(q \o u) = Take(c)[TakeAll(q \o v)]
    BY <2>6, <2>7, TakeNext
  <2> QED BY <2>2, <2>4, <2>5, <2>8, TakeChar
<1> HIDE DEF S
<1>3. \A k \in Nat : k \in S
  BY <1>1, <1>2, SetInduction
<1>4. Len(l) \in Nat
  BY LinesAreRows
<1> QED BY <1>3, <1>4 DEF S

LEMMA TextIsBytes == Text \subseteq Bytes /\ <<>> \in Bytes
<1>1. ASSUME NEW t \in Text PROVE t \in Bytes
  <2>1. Len(t) \in Nat /\ t = [i \in 1..Len(t) |-> t[i]] /\ \A i \in 1..Len(t) : t[i] \in Byte
    BY ElementOfSeq, LenProperties DEF Text, Symbol, Byte
  <2> QED BY <2>1 DEF Bytes
<1> QED BY <1>1, RowIsText

(* A document is some lines and a last one.                                *)
LEMMA LastLine ==
  ASSUME NEW ls, Fits(ls)
  PROVE  \E ms \in Seq(Line), l \in Line :
            /\ ls = Append(ms, l) /\ Len(ls) = Len(ms) + 1 /\ Len(ms) \in Nat
            /\ ms = <<>> <=> Len(ms) = 0
            /\ ms # <<>> => Fits(ms)
<1>1. ls \in Seq(Line) /\ ls # <<>> /\ Len(ls) \in 1..MaxLines
  BY LinesAreText DEF Fits
<1>2. PICK ms \in Seq(Line), l \in Line : ls = Append(ms, l)
  BY <1>1, SequenceEmptyOrAppend
<1>3. Len(ls) = Len(ms) + 1 /\ Len(ms) \in Nat /\ (ms = <<>> <=> Len(ms) = 0)
  BY <1>2, AppendProperties, LenProperties, EmptySeq
<1>4. ms # <<>> => Len(ms) \in 1..MaxLines
  BY <1>1, <1>3, LinesAreRows
<1> QED BY <1>2, <1>3, <1>4 DEF Fits

(* Saving loses nothing that opening does not bring back.                  *)
LEMMA TextIsRead ==
  ASSUME NEW ls, Fits(ls)
  PROVE  TakeAll(Flat(ls)) = Read(ls)
<1> DEFINE S == { k \in Nat : \A ms : Fits(ms) /\ Len(ms) = k + 1 => TakeAll(Flat(ms)) = Read(ms) }
<1>1. ASSUME NEW ms, Fits(ms), NEW k \in Nat, Len(ms) = k + 1, k = 0 \/ k - 1 \in S
      PROVE  TakeAll(Flat(ms)) = Read(ms)
  <2>1. PICK us \in Seq(Line), l \in Line :
           /\ ms = Append(us, l) /\ Len(ms) = Len(us) + 1 /\ Len(us) \in Nat
           /\ us = <<>> <=> Len(us) = 0
           /\ us # <<>> => Fits(us)
    BY <1>1, LastLine
  <2>2. Len(us) = k /\ l \in Row /\ l \in Text
    BY <1>1, <2>1, LinesAreRows, RowIsText
  <2>3. CASE us = <<>>
    <3>1. Flat(ms) = l
      <4>1. ms = <<l>>
        BY <2>1, <2>3
      <4> QED BY <4>1, FlatOne
    <3>2. TakeAll(<<>>) = Read(Append(us, <<>>))
      <4>1. Append(us, <<>>) = <<<<>>>>
        BY <2>3
      <4> QED BY <4>1, TakeNone DEF Read, Blank
    <3>3. TakeAll(<<>> \o l) = Read(Append(us, l))
      BY <3>2, TextIsBytes, TakeRow
    <3>4. <<>> \o l = l
      BY <2>2, NoText
    <3> QED BY <2>1, <3>1, <3>3, <3>4
  <2>4. CASE us # <<>>
    <3>1. Fits(us) /\ us \in Seq(Row)
      BY <2>1, <2>4, LinesAreText
    <3>2. Flat(ms) = (Flat(us) \o <<NL>>) \o l
      BY <2>1, <2>2, <2>4, <3>1, FlatAppend
    <3>3. k # 0 /\ k - 1 \in Nat /\ Len(us) = (k - 1) + 1
      BY <2>1, <2>2, <2>4
    <3>4. TakeAll(Flat(us)) = Read(us)
      BY <1>1, <3>1, <3>3
    <3>5. Flat(us) \in Bytes /\ NL \in Byte
      BY <2>4, <3>1, FlatTypes, TextIsBytes DEF Byte
    <3>6. Flat(us) \o <<NL>> = Append(Flat(us), NL)
      BY <3>5, AppendIsConcat DEF Bytes
    <3>7. Take(NL)[Read(us)] = Read(Append(us, <<>>))
      <4>1. Len(us) \in 1..MaxLines /\ Len(us) # MaxLines
        BY <1>1, <2>1, <3>1, LinesAreRows DEF Fits
      <4> QED BY <4>1, TakeEnd
    <3> DEFINE q == Flat(us) \o <<NL>>
    <3>8. q \in Bytes /\ TakeAll(q) = Read(Append(us, <<>>))
      <4>1. Append(Flat(us), NL) \in Bytes
        BY <3>5, AppendProperties DEF Bytes
      <4> QED BY <3>4, <3>5, <3>6, <3>7, <4>1, TakeNext
    <3> HIDE DEF q
    <3>9. TakeAll(q \o l) = Read(Append(us, l))
      BY <3>8, TakeRow
    <3> QED BY <2>1, <3>2, <3>9 DEF q
  <2> QED BY <2>3, <2>4
<1>2. 0 \in S
  BY <1>1
<1>3. ASSUME NEW k \in Nat, k \in S PROVE k + 1 \in S
  <2> DEFINE j == k + 1
  <2>1. j \in Nat /\ j - 1 = k
    OBVIOUS
  <2> HIDE DEF j
  <2>2. \A ms : Fits(ms) /\ Len(ms) = j + 1 => TakeAll(Flat(ms)) = Read(ms)
    <3> HIDE DEF S
    <3> QED BY <1>1, <1>3, <2>1
  <2>3. j \in S
    BY <2>1, <2>2
  <2> QED BY <2>3 DEF j
<1> HIDE DEF S
<1>4. \A k \in Nat : k \in S
  BY <1>2, <1>3, SetInduction
<1>5. Len(ls) - 1 \in Nat /\ Len(ls) = (Len(ls) - 1) + 1
  BY LinesAreRows DEF Fits
<1> QED BY <1>4, <1>5 DEF S

(* A document with the ends of its lines has room in the buffer.           *)
LEMMA FlatLength ==
  ASSUME NEW ls, Fits(ls)
  PROVE  Len(Flat(ls)) \in Nat /\ Len(Flat(ls)) <= BufferSize
<1> DEFINE w == LineLen + 1
           S == { k \in Nat : \A ms : Fits(ms) /\ Len(ms) = k + 1 =>
                    Len(Flat(ms)) \in Nat /\ Len(Flat(ms)) < (k + 1) * w }
<1>0. w \in Nat /\ w > 0 /\ LineLen \in Nat /\ MaxLines \in Nat
  BY LinesAreRows
<1>1. ASSUME NEW ms, Fits(ms), NEW k \in Nat, Len(ms) = k + 1, k = 0 \/ k - 1 \in S
      PROVE  Len(Flat(ms)) \in Nat /\ Len(Flat(ms)) < (k + 1) * w
  <2>1. PICK us \in Seq(Line), l \in Line :
           /\ ms = Append(us, l) /\ Len(ms) = Len(us) + 1 /\ Len(us) \in Nat
           /\ us = <<>> <=> Len(us) = 0
           /\ us # <<>> => Fits(us)
    BY <1>1, LastLine
  <2>2. Len(us) = k /\ l \in Row /\ l \in Text /\ Len(l) \in Nat /\ Len(l) < w
    BY <1>0, <1>1, <2>1, LinesAreRows, RowIsText
  <2>3. CASE us = <<>>
    <3>1. ms = <<l>>
      BY <2>1, <2>3
    <3>2. Flat(ms) = l
      BY <3>1, FlatOne
    <3>3. (k + 1) * w = w
      BY <1>0, <2>1, <2>2, <2>3
    <3> QED BY <2>2, <3>2, <3>3
  <2>4. CASE us # <<>>
    <3>1. Fits(us) /\ us \in Seq(Row)
      BY <2>1, <2>4, LinesAreText
    <3>2. Flat(ms) = (Flat(us) \o <<NL>>) \o l
      BY <2>1, <2>2, <2>4, <3>1, FlatAppend
    <3>3. k # 0 /\ k - 1 \in Nat /\ Len(us) = (k - 1) + 1 /\ (k - 1) + 1 = k
      BY <2>1, <2>2, <2>4
    <3>4. Len(Flat(us)) \in Nat /\ Len(Flat(us)) < k * w
      <4> HIDE DEF w
      <4>1. k - 1 \in S
        BY <1>1, <3>3
      <4>2. Len(Flat(us)) \in Nat /\ Len(Flat(us)) < ((k - 1) + 1) * w
        BY <3>1, <3>3, <4>1
      <4> QED BY <3>3, <4>2
    <3>5. Flat(us) \in Text /\ <<NL>> \in Text /\ Len(<<NL>>) = 1
      BY <2>4, <3>1, FlatTypes, RowIsText
    <3>6. Len(Flat(ms)) = Len(Flat(us)) + 1 + Len(l)
      <4>1. Flat(us) \o <<NL>> \in Text /\ Len(Flat(us) \o <<NL>>) = Len(Flat(us)) + 1
        BY <3>5, Joined
      <4>2. Len((Flat(us) \o <<NL>>) \o l) = Len(Flat(us) \o <<NL>>) + Len(l)
        BY <2>2, <4>1, Joined
      <4> QED BY <3>2, <4>1, <4>2
    <3>7. (k + 1) * w = k * w + w /\ k * w \in Nat
      BY <1>0
    <3> HIDE DEF w
    <3> QED BY <1>0, <2>2, <3>4, <3>6, <3>7
  <2> QED BY <2>3, <2>4
<1>2. 0 \in S
  <2> HIDE DEF w
  <2> QED BY <1>1
<1>3. ASSUME NEW k \in Nat, k \in S PROVE k + 1 \in S
  <2> DEFINE j == k + 1
  <2>1. j \in Nat /\ j - 1 = k
    OBVIOUS
  <2> HIDE DEF j, w
  <2>2. \A ms : Fits(ms) /\ Len(ms) = j + 1 =>
                  Len(Flat(ms)) \in Nat /\ Len(Flat(ms)) < (j + 1) * w
    <3> HIDE DEF S
    <3> QED BY <1>1, <1>3, <2>1
  <2>3. j \in S
    BY <2>1, <2>2
  <2> QED BY <2>3 DEF j
<1> HIDE DEF S, w
<1>4. \A k \in Nat : k \in S
  BY <1>2, <1>3, SetInduction
<1>5. Len(ls) - 1 \in Nat /\ (Len(ls) - 1) + 1 = Len(ls) /\ Len(ls) \in Nat /\ Len(ls) <= MaxLines
  BY LinesAreRows DEF Fits
<1>6. Len(Flat(ls)) \in Nat /\ Len(Flat(ls)) < Len(ls) * w
  <2>1. Len(Flat(ls)) \in Nat /\ Len(Flat(ls)) < ((Len(ls) - 1) + 1) * w
    BY <1>4, <1>5 DEF S
  <2> QED BY <1>5, <2>1
<1>7. Len(ls) * w <= MaxLines * w /\ MaxLines * w \in Nat /\ Len(ls) * w \in Nat
  <2>1. ASSUME NEW x \in Nat, NEW y \in Nat, NEW z \in Nat, x <= y
        PROVE  x * z <= y * z /\ y * z \in Nat /\ x * z \in Nat
    <3>1. y - x \in Nat
      BY <2>1
    <3>2. (y - x) * z \in Nat /\ x * z \in Nat /\ y * z = x * z + (y - x) * z
      BY <3>1
    <3> QED BY <3>2
  <2> QED BY <1>0, <1>5, <2>1
<1>8. Len(Flat(ls)) <= MaxLines * w
  BY <1>6, <1>7
<1> QED BY <1>6, <1>8 DEF BufferSize, w

LEMMA CutIsWhole ==
  ASSUME NEW s, Len(s) \in Nat, NEW n \in Nat, Len(s) <= n
  PROVE  Cut(s, n) = SubSeq(s, 1, Len(s))
<1> DEFINE T == {n, Len(s)}
<1>1. T \in SUBSET Nat /\ T # {}
  OBVIOUS
<1>2. Min(T) \in T /\ \A x \in T : Min(T) <= x
  BY <1>1, MinOfNats
<1>3. Min(T) = Len(s)
  <2>1. Min(T) <= Len(s) /\ (Min(T) = n \/ Min(T) = Len(s))
    BY <1>2
  <2> HIDE DEF T
  <2> QED BY <2>1
<1> QED BY <1>3 DEF Cut

(* What the editor saves is its text, and opening it shows that text.      *)
LEMMA SavedText ==
  ASSUME NEW ls, Fits(ls)
  PROVE  /\ Flat(ls) \in Text
         /\ Serialize(ls) = Flat(ls)
         /\ TextOf(Flat(ls)) = Flat(ls)
<1>1. Flat(ls) \in Text
  BY LinesAreText, FlatTypes
<1>2. Len(Flat(ls)) \in Nat /\ Len(Flat(ls)) <= BufferSize /\ BufferSize \in Nat
  <2>1. BufferSize \in Nat
    BY LinesAreRows DEF BufferSize
  <2> QED BY <2>1, FlatLength
<1>3. Serialize(ls) = Flat(ls)
  <2>1. SubSeq(Flat(ls), 1, Len(Flat(ls))) = Flat(ls)
    BY <1>1, SubSeqFull DEF Text
  <2> QED BY <1>2, <2>1, CutIsWhole DEF Serialize
<1>4. Flat(ls) # NoFile
  BY <1>1, TextIsBytes, FileAssumption DEF Bytes, Byte
<1>5. Deserialize(Flat(ls)) = ls
  BY TextIsRead DEF Deserialize, Read
<1> QED BY <1>1, <1>2, <1>3, <1>4, <1>5 DEF TextOf, Readable

LEMMA TextTypes ==
  ASSUME NEW q \in Bytes
  PROVE  /\ Fits(Deserialize(q))
         /\ Flat(Deserialize(q)) \in Text
         /\ TextOf(q) \in Text \union {NoFile}
         /\ Readable(q) => TextOf(q) = Flat(Deserialize(q)) /\ TextOf(q) # NoFile
<1>1. Fits(Deserialize(q))
  BY TakeAllFits DEF Deserialize
<1>2. Flat(Deserialize(q)) \in Text
  BY <1>1, LinesAreText, FlatTypes
<1>3. Flat(Deserialize(q)) # NoFile
  BY <1>2, TextIsBytes, FileAssumption DEF Bytes, Byte
<1> QED BY <1>1, <1>2, <1>3 DEF TextOf

LEMMA EmptyFile ==
  /\ Fits(<<<<>>>>) /\ Flat(<<<<>>>>) = <<>>
  /\ TextOf(<<>>) = <<>> /\ TextOf(NoFile) = NoFile
<1> DEFINE ls == <<<<>>>>
<1>1. Fits(ls)
  <2>1. ls \in Seq(Line) /\ Len(ls) = 1
    BY LinesAreRows
  <2> HIDE DEF ls
  <2> QED BY <2>1, LinesAreRows DEF Fits
<1>2. Flat(ls) = <<>>
  BY FlatOne
<1>3. TextOf(<<>>) = <<>>
  BY <1>1, <1>2, SavedText
<1> QED BY <1>1, <1>2, <1>3 DEF TextOf, Readable

-----------------------------------------------------------------------------
(***************************************************************************)
(* The document keeps to its array and the cursor to the document.         *)
(***************************************************************************)
DocOK(ls, i, c) == Fits(ls) /\ i \in 1..Len(ls) /\ c \in 0..Len(ls[i])

LEMMA LineAt ==
  ASSUME NEW ls, Fits(ls), NEW i \in 1..Len(ls)
  PROVE  /\ ls \in Seq(Line) /\ Len(ls) \in Nat /\ i \in Nat /\ DOMAIN ls = 1..Len(ls)
         /\ ls[i] \in Line /\ ls[i] \in Row /\ Len(ls[i]) \in Nat /\ Len(ls[i]) <= LineLen
         /\ 0 \in 0..Len(ls[i]) /\ Len(ls[i]) \in 0..Len(ls[i])
<1>1. ls \in Seq(Line) /\ Len(ls) \in Nat /\ DOMAIN ls = 1..Len(ls)
  BY LenProperties DEF Fits
<1>2. ls[i] \in Line /\ i \in Nat
  BY <1>1, ElementOfSeq
<1> QED BY <1>1, <1>2, LinesAreRows

LEMMA LineReplaced ==
  ASSUME NEW ls, Fits(ls), NEW i \in 1..Len(ls), NEW l \in Line
  PROVE  LET ms == [ls EXCEPT ![i] = l]
         IN Fits(ms) /\ Len(ms) = Len(ls) /\ ms[i] = l
<1> DEFINE ms == [ls EXCEPT ![i] = l]
<1>1. ls \in Seq(Line) /\ Len(ls) \in 1..MaxLines
  BY DEF Fits
<1>2. /\ ms \in Seq(Line) /\ Len(ms) = Len(ls)
      /\ \A k \in 1..Len(ls) : ms[k] = IF k = i THEN l ELSE ls[k]
  BY <1>1, ExceptSeq
<1> HIDE DEF ms
<1>3. Fits(ms) /\ Len(ms) = Len(ls) /\ ms[i] = l
  BY <1>1, <1>2 DEF Fits
<1> QED BY <1>3 DEF ms

LEMMA InsertFits ==
  ASSUME NEW ls, NEW i, NEW c, DocOK(ls, i, c), NEW ch \in Char, Len(ls[i]) < LineLen
  PROVE  DocOK([ls EXCEPT ![i] = InsertAt(@, c + 1, ch)], i, c + 1)
<1> DEFINE h == LeftOf(ls[i], c)
           t == RightOf(ls[i], c)
           s == <<ch>>
           l == InsertAt(ls[i], c + 1, ch)
<1>1. Fits(ls) /\ i \in 1..Len(ls) /\ c \in 0..Len(ls[i])
  BY DEF DocOK
<1>2. ls[i] \in Row /\ Len(ls[i]) \in Nat
  BY <1>1, LineAt
<1>3. /\ h \in Row /\ t \in Row /\ Len(h) = c /\ Len(t) = Len(ls[i]) - c /\ c \in Nat
  BY <1>1, <1>2, RowCut
<1>4. l = (h \o s) \o t
  <2>1. (c + 1) - 1 = c
    BY <1>3
  <2>2. SubSeq(ls[i], 1, (c + 1) - 1) = SubSeq(ls[i], 1, c)
    BY <2>1
  <2> QED BY <2>2, Zenon DEF InsertAt, LeftOf, RightOf
<1>5. s \in Row /\ Len(s) = 1
  BY DEF Row
<1> HIDE DEF h, t, s, l
<1>6. h \o s \in Row /\ Len(h \o s) = Len(h) + Len(s)
  BY <1>3, <1>5, RowJoined
<1>7. l \in Row /\ Len(l) = Len(h \o s) + Len(t)
  BY <1>3, <1>4, <1>6, RowJoined
<1>8. Len(l) = Len(ls[i]) + 1
  <2> DEFINE n == Len(ls[i])
  <2>1. Len(l) = (c + 1) + (n - c)
    BY <1>3, <1>5, <1>6, <1>7
  <2>2. n \in Nat /\ c \in Nat
    BY <1>2, <1>3
  <2> HIDE DEF n
  <2>3. (c + 1) + (n - c) = n + 1
    BY <2>2
  <2> QED BY <2>1, <2>3 DEF n
<1>9. l \in Line
  <2>1. Len(l) <= LineLen
    BY <1>2, <1>8, LinesAreRows
  <2> QED BY <1>7, <2>1, LinesAreRows
<1> DEFINE ms == [ls EXCEPT ![i] = l]
<1>10. Fits(ms) /\ Len(ms) = Len(ls) /\ ms[i] = l
  BY <1>1, <1>9, LineReplaced
<1>11. [ls EXCEPT ![i] = InsertAt(@, c + 1, ch)] = ms
  BY DEF l
<1> HIDE DEF ms
<1>12. c + 1 \in 0..Len(l)
  BY <1>1, <1>2, <1>3, <1>8
<1> QED BY <1>1, <1>10, <1>11, <1>12 DEF DocOK

LEMMA RemoveFits ==
  ASSUME NEW ls, NEW i, NEW c, DocOK(ls, i, c), c > 0
  PROVE  DocOK([ls EXCEPT ![i] = RemoveAt(@, c)], i, c - 1)
<1> DEFINE l == RemoveAt(ls[i], c)
           ms == [ls EXCEPT ![i] = l]
<1>1. Fits(ls) /\ i \in 1..Len(ls) /\ c \in 0..Len(ls[i])
  BY DEF DocOK
<1>2. ls[i] \in Row /\ Len(ls[i]) \in Nat /\ Len(ls[i]) <= LineLen
  BY <1>1, LineAt
<1>3. l \in Row /\ Len(l) = Len(ls[i]) - 1
  <2>1. c \in 1..Len(ls[i])
    BY <1>1, <1>2
  <2> QED BY <1>2, <2>1, RemoveAtProperties DEF Row
<1> HIDE DEF l
<1>4. l \in Line /\ c - 1 \in 0..Len(l)
  <2>1. Len(l) <= LineLen
    BY <1>2, <1>3, LinesAreRows
  <2> QED BY <1>1, <1>2, <1>3, <2>1, LinesAreRows
<1>5. Fits(ms) /\ Len(ms) = Len(ls) /\ ms[i] = l
  BY <1>1, <1>4, LineReplaced
<1>6. [ls EXCEPT ![i] = RemoveAt(@, c)] = ms
  BY DEF l
<1> HIDE DEF ms
<1> QED BY <1>1, <1>4, <1>5, <1>6 DEF DocOK

LEMMA JoinFits ==
  ASSUME NEW ls, NEW i \in 1..Len(ls), Fits(ls), i > 1,
         Len(ls[i - 1]) + Len(ls[i]) <= LineLen
  PROVE  DocOK(RemoveAt([ls EXCEPT ![i - 1] = @ \o ls[i]], i), i - 1, Len(ls[i - 1]))
<1> DEFINE j == i - 1
           l == ls[j] \o ls[i]
           q == [ls EXCEPT ![j] = l]
           ms == RemoveAt(q, i)
<1>1. j \in 1..Len(ls) /\ j \in Nat /\ Len(ls) \in Nat /\ Len(ls) \in 1..MaxLines
  BY LenProperties DEF Fits
<1>2. ls[i] \in Row /\ ls[j] \in Row
  BY <1>1, LineAt
<1>3. l \in Row /\ Len(l) = Len(ls[j]) + Len(ls[i]) /\ Len(ls[j]) \in Nat /\ Len(ls[i]) \in Nat
  BY <1>2, RowJoined
<1> HIDE DEF l
<1>4. l \in Line /\ Len(ls[j]) \in 0..Len(l)
  <2> HIDE DEF j
  <2>1. Len(l) <= LineLen
    BY <1>3 DEF j
  <2>2. l \in Line
    BY <1>3, <2>1, LinesAreRows
  <2>3. ASSUME NEW x \in Nat, NEW y \in Nat PROVE x \in 0..(x + y)
    OBVIOUS
  <2>4. Len(ls[j]) \in 0..(Len(ls[j]) + Len(ls[i]))
    BY <1>3, <2>3 DEF j
  <2> QED BY <1>3, <2>2, <2>4 DEF j
<1>5. Fits(q) /\ Len(q) = Len(ls) /\ q[j] = l
  BY <1>1, <1>4, LineReplaced
<1>6. [ls EXCEPT ![j] = @ \o ls[i]] = q
  BY DEF l
<1> HIDE DEF q
<1>7. /\ ms \in Seq(Line) /\ Len(ms) = Len(ls) - 1
      /\ \A k \in 1..(Len(ls) - 1) : ms[k] = IF k < i THEN q[k] ELSE q[k + 1]
  <2>1. q \in Seq(Line) /\ i \in 1..Len(q)
    BY <1>5 DEF Fits
  <2> QED BY <1>5, <2>1, RemoveAtProperties
<1> HIDE DEF ms
<1>8. j \in 1..(Len(ls) - 1) /\ j < i /\ Len(ls) - 1 \in 1..MaxLines
  BY <1>1, LinesAreRows
<1>9. ms[j] = l
  BY <1>5, <1>7, <1>8
<1>10. DocOK(ms, j, Len(ls[j]))
  BY <1>4, <1>7, <1>8, <1>9 DEF DocOK, Fits
<1> QED BY <1>6, <1>10 DEF ms, j

LEMMA SplitFits ==
  ASSUME NEW ls, NEW i, NEW c, DocOK(ls, i, c), Len(ls) < MaxLines
  PROVE  DocOK(Upper(ls, i) \o <<LeftOf(ls[i], c), RightOf(ls[i], c)>> \o Lower(ls, i), i + 1, 0)
<1> DEFINE a == Upper(ls, i)
           b == Lower(ls, i)
           h == LeftOf(ls[i], c)
           t == RightOf(ls[i], c)
           n == Len(ls)
           s == <<h, t>>
           d == a \o s
           ms == d \o b
<1>1. Fits(ls) /\ i \in 1..n /\ c \in 0..Len(ls[i])
  BY DEF DocOK
<1>2. /\ ls \in Seq(Line) /\ n \in Nat /\ i \in Nat /\ n < MaxLines
      /\ ls[i] \in Row /\ Len(ls[i]) <= LineLen /\ Len(ls[i]) \in Nat
  BY <1>1, LineAt
<1>3. \A k \in 1..n : ls[k] \in Line
  BY <1>2, ElementOfSeq
<1>4. a \in Seq(Line) /\ b \in Seq(Line)
  <2>1. 1 \in Int /\ i - 1 \in Int /\ \A k \in 1..(i - 1) : ls[k] \in Line
    BY <1>1, <1>2, <1>3
  <2>2. i + 1 \in Int /\ n \in Int /\ \A k \in (i + 1)..n : ls[k] \in Line
    BY <1>1, <1>2, <1>3
  <2>3. SubSeq(ls, 1, i - 1) \in Seq(Line)
    BY <2>1, SubSeqProperties
  <2>4. SubSeq(ls, i + 1, n) \in Seq(Line)
    BY <2>2, SubSeqProperties
  <2> QED BY <2>3, <2>4 DEF Upper, Lower
<1>5. Len(a) = i - 1 /\ Len(b) = n - i
  BY <1>1, LinesAreText, RowsAround
<1>6. h \in Line /\ t \in Line
  <2>1. h \in Row /\ t \in Row /\ Len(h) = c /\ Len(t) = Len(ls[i]) - c
    BY <1>1, <1>2, RowCut
  <2> HIDE DEF h, t
  <2>2. Len(h) <= LineLen /\ Len(t) <= LineLen
    <3>1. Len(ls[i]) - c <= Len(ls[i]) /\ c <= Len(ls[i])
      BY <1>1, <1>2
    <3> QED BY <1>1, <1>2, <2>1, <3>1, LinesAreRows
  <2> QED BY <2>1, <2>2, LinesAreRows
<1> HIDE DEF a, b, h, t
<1>7. s \in Seq(Line) /\ Len(s) = 2
  BY <1>6
<1> HIDE DEF s
<1>8. d \in Seq(Line) /\ Len(d) = i + 1
  <2>1. d \in Seq(Line) /\ Len(d) = Len(a) + Len(s)
    BY <1>4, <1>7, ConcatProperties
  <2> HIDE DEF d
  <2> QED BY <1>2, <1>5, <1>7, <2>1
<1> HIDE DEF d
<1>9. ms \in Seq(Line) /\ Len(ms) = n + 1
  <2>1. ms \in Seq(Line) /\ Len(ms) = Len(d) + Len(b)
    BY <1>4, <1>8, ConcatProperties
  <2>2. (i + 1) + (n - i) = n + 1
    BY <1>2
  <2> QED BY <1>5, <1>8, <2>1, <2>2
<1> HIDE DEF ms, n
<1>10. n + 1 \in 1..MaxLines /\ i + 1 \in 1..(n + 1)
  BY <1>1, <1>2, LinesAreRows
<1>11. Fits(ms) /\ i + 1 \in 1..Len(ms)
  BY <1>9, <1>10 DEF Fits
<1>12. 0 \in 0..Len(ms[i + 1])
  <2> DEFINE j == i + 1
  <2> HIDE DEF j
  <2>1. j \in 1..Len(ms)
    BY <1>11 DEF j
  <2>2. 0 \in 0..Len(ms[j])
    BY <1>11, <2>1, LineAt
  <2> QED BY <2>2 DEF j
<1>13. DocOK(ms, i + 1, 0)
  BY <1>11, <1>12 DEF DocOK
<1> QED BY <1>13 DEF ms, d, s, a, b, h, t

LEMMA AppendFits ==
  ASSUME NEW ls, Fits(ls), Len(ls) < MaxLines, NEW l \in Line
  PROVE  DocOK(Append(ls, l), Len(ls) + 1, Len(l))
<1> DEFINE ms == Append(ls, l)
           n == Len(ls) + 1
<1>1. ls \in Seq(Line) /\ Len(ls) \in Nat
  BY LenProperties DEF Fits
<1>2. ms \in Seq(Line) /\ Len(ms) = n /\ ms[n] = l
  BY <1>1, AppendProperties
<1>3. n \in 1..n /\ n \in 1..MaxLines
  BY <1>1, LinesAreRows
<1>4. Len(l) \in 0..Len(l)
  BY LinesAreRows
<1> HIDE DEF ms, n
<1>5. DocOK(ms, n, Len(l))
  BY <1>2, <1>3, <1>4 DEF DocOK, Fits
<1> QED BY <1>5 DEF ms, n

(* The first lines of a document with more than one.                       *)
LEMMA FrontFits ==
  ASSUME NEW ls, Fits(ls), Len(ls) # 1
  PROVE  /\ Fits(Front(ls))
         /\ Len(Front(ls)) = Len(ls) - 1
         /\ \E l \in Row : ls = Append(Front(ls), l)
<1>1. PICK ms \in Seq(Line), l \in Line :
         /\ ls = Append(ms, l) /\ Len(ls) = Len(ms) + 1 /\ Len(ms) \in Nat
         /\ ms = <<>> <=> Len(ms) = 0
         /\ ms # <<>> => Fits(ms)
  BY LastLine
<1>2. Fits(ms)
  BY <1>1
<1>3. Front(ls) = ms
  <2>1. <<l>> \in Seq(Line) /\ Append(ms, l) = ms \o <<l>>
    BY AppendIsConcat
  <2>2. SubSeq(ms \o <<l>>, 1, Len(ms)) = ms
    BY <2>1, HalvesOf
  <2>3. Len(ls) - 1 = Len(ms)
    BY <1>1
  <2> QED BY <1>1, <2>1, <2>2, <2>3 DEF Front
<1>4. l \in Row /\ Len(ms) = Len(ls) - 1
  BY <1>1, LinesAreRows
<1> QED BY <1>1, <1>2, <1>3, <1>4

LEMMA BlankFits == DocOK(<<<<>>>>, 1, 0)
<1> DEFINE ls == <<<<>>>>
<1>1. Fits(ls) /\ Len(ls) = 1 /\ Len(ls[1]) = 0
  BY EmptyFile
<1> HIDE DEF ls
<1>2. DocOK(ls, 1, 0)
  BY <1>1 DEF DocOK
<1> QED BY <1>2 DEF ls

-----------------------------------------------------------------------------
(***************************************************************************)
(* The types, action by action.                                            *)
(***************************************************************************)
PanelsOK ==
  /\ menu \in BOOLEAN /\ about \in BOOLEAN
  /\ dialog \in {"none", "save", "open"}
  /\ filename \in Name /\ running \in BOOLEAN
  /\ pending = <<>> \/ pending \in { <<n>> : n \in Name }

FilesOK == files \in [Name -> Bytes \union {NoFile}]

LEMMA TypeParts ==
  /\ TypeOK <=> DocOK(lines, line, col) /\ PanelsOK /\ FilesOK
  /\ TypeOK' <=> DocOK(lines, line, col)' /\ PanelsOK' /\ FilesOK'
<1>1. ASSUME NEW ls, ls \in Seq(Line) PROVE DOMAIN ls = 1..Len(ls)
  BY <1>1, LenProperties
<1>2. lines \in Seq(Line) => DOMAIN lines = 1..Len(lines)
  BY <1>1
<1>3. lines' \in Seq(Line) => DOMAIN lines' = 1..Len(lines')
  BY <1>1
<1>4. TypeOK <=> DocOK(lines, line, col) /\ PanelsOK /\ FilesOK
  BY <1>2, Zenon DEF TypeOK, DocOK, Fits, PanelsOK, FilesOK, Bytes, Byte
<1>5. TypeOK' <=> DocOK(lines, line, col)' /\ PanelsOK' /\ FilesOK'
  BY <1>3, Zenon DEF TypeOK, DocOK, Fits, PanelsOK, FilesOK, Bytes, Byte
<1> QED BY <1>4, <1>5

(* A file replaces the document by what the editor makes of it.            *)
LEMMA ShowFits ==
  ASSUME NEW q \in Bytes, Show(q)
  PROVE  DocOK(lines, line, col)'
<1>1. Fits(Deserialize(q))
  BY TextTypes
<1>2. 1 \in 1..Len(Deserialize(q))
  BY <1>1, LinesAreText
<1>3. 0 \in 0..Len(Deserialize(q)[1])
  BY <1>1, <1>2, LineAt
<1> QED BY <1>1, <1>2, <1>3 DEF Show, DocOK

LEMMA ClearFits == ClearDocument => DocOK(lines, line, col)'
BY BlankFits DEF ClearDocument

(* Only the editor's own keys change the lines.                            *)
LEMMA EditingFits ==
  ASSUME TypeOK,
         \/ \E c \in Char : InsertChar(c)
         \/ Newline \/ BackspaceChar \/ BackspaceLine
  PROVE  DocOK(lines, line, col)'
<1>1. DocOK(lines, line, col) /\ Fits(lines) /\ line \in 1..Len(lines) /\ col \in 0..Len(lines[line])
  BY TypeParts DEF DocOK
<1>2. lines[line] \in Row /\ col \in Nat /\ line \in Nat
  BY <1>1, LineAt
<1>3. ASSUME NEW c \in Char, InsertChar(c) PROVE DocOK(lines, line, col)'
  <2>1. DocOK([lines EXCEPT ![line] = InsertAt(@, col + 1, c)], line, col + 1)
    BY <1>1, <1>3, InsertFits DEF InsertChar
  <2> QED BY <1>3, <2>1 DEF InsertChar
<1>4. CASE Newline
  <2>1. DocOK(Upper(lines, line) \o <<LeftOf(lines[line], col), RightOf(lines[line], col)>>
                \o Lower(lines, line), line + 1, 0)
    BY <1>1, <1>4, SplitFits DEF Newline
  <2> QED BY <1>4, <2>1 DEF Newline, Upper, Lower, LeftOf, RightOf
<1>5. CASE BackspaceChar
  <2>1. DocOK([lines EXCEPT ![line] = RemoveAt(@, col)], line, col - 1)
    BY <1>1, <1>5, RemoveFits DEF BackspaceChar
  <2> QED BY <1>5, <2>1 DEF BackspaceChar
<1>6. CASE BackspaceLine
  <2>1. DocOK(RemoveAt([lines EXCEPT ![line - 1] = @ \o lines[line]], line),
              line - 1, Len(lines[line - 1]))
    BY <1>1, <1>6, JoinFits DEF BackspaceLine
  <2> QED BY <1>6, <2>1 DEF BackspaceLine
<1> QED BY <1>3, <1>4, <1>5, <1>6

LEMMA ClampedFits ==
  ASSUME NEW ls, Fits(ls), NEW i \in 1..Len(ls), NEW c \in Nat
  PROVE  (IF c > Len(ls[i]) THEN Len(ls[i]) ELSE c) \in 0..Len(ls[i])
<1>1. Len(ls[i]) \in Nat
  BY LineAt
<1> QED BY <1>1

(* The keys and the mouse that move the cursor leave it in the document.   *)
LEMMA MovingFits ==
  ASSUME TypeOK,
         \/ KeyLeft \/ KeyRight \/ KeyUpDown
         \/ \E r \in 1..MaxLines, c \in 0..LineLen : Click(r, c)
  PROVE  DocOK(lines, line, col)' /\ lines' = lines
<1>1. DocOK(lines, line, col) /\ Fits(lines) /\ line \in 1..Len(lines) /\ col \in 0..Len(lines[line])
  BY TypeParts DEF DocOK
<1>2. /\ lines[line] \in Row /\ Len(lines[line]) \in Nat /\ line \in Nat /\ Len(lines) \in Nat
      /\ col \in Nat /\ DOMAIN lines = 1..Len(lines)
  BY <1>1, LineAt
<1>3. CASE KeyLeft
  <2>1. lines' = lines
    BY <1>3 DEF KeyLeft
  <2>2. CASE col > 0 /\ col' = col - 1 /\ line' = line
    <3>1. col - 1 \in 0..Len(lines[line])
      BY <1>1, <1>2, <2>2
    <3> QED BY <1>1, <2>1, <2>2, <3>1 DEF DocOK
  <2>3. CASE line > 1 /\ line' = line - 1 /\ col' = Len(lines[line - 1])
    <3> DEFINE j == line - 1
    <3>1. j \in 1..Len(lines)
      BY <1>1, <1>2, <2>3
    <3> HIDE DEF j
    <3>2. Len(lines[j]) \in 0..Len(lines[j])
      BY <1>1, <3>1, LineAt
    <3>3. line' = j /\ col' = Len(lines[j])
      BY <2>3 DEF j
    <3> QED BY <1>1, <2>1, <3>1, <3>2, <3>3 DEF DocOK
  <2> QED BY <1>3, <2>1, <2>2, <2>3 DEF KeyLeft
<1>4. CASE KeyRight
  <2>1. lines' = lines
    BY <1>4 DEF KeyRight
  <2>2. CASE col < Len(lines[line]) /\ col' = col + 1 /\ line' = line
    <3>1. col + 1 \in 0..Len(lines[line])
      BY <1>1, <1>2, <2>2
    <3> QED BY <1>1, <2>1, <2>2, <3>1 DEF DocOK
  <2>3. CASE line < Len(lines) /\ line' = line + 1 /\ col' = 0
    <3> DEFINE j == line + 1
    <3>1. j \in 1..Len(lines)
      BY <1>1, <1>2, <2>3
    <3> HIDE DEF j
    <3>2. 0 \in 0..Len(lines[j])
      BY <1>1, <3>1, LineAt
    <3>3. line' = j /\ col' = 0
      BY <2>3 DEF j
    <3> QED BY <1>1, <2>1, <3>1, <3>2, <3>3 DEF DocOK
  <2> QED BY <1>4, <2>1, <2>2, <2>3 DEF KeyRight
<1>5. CASE KeyUpDown
  <2>1. lines' = lines /\ line' \in 1..Len(lines) /\ col' = Clamped(line', col)
    BY <1>2, <1>5 DEF KeyUpDown
  <2>2. col' \in 0..Len(lines[line'])
    BY <1>1, <1>2, <2>1, ClampedFits DEF Clamped
  <2> QED BY <1>1, <2>1, <2>2 DEF DocOK
<1>6. ASSUME NEW r \in 1..MaxLines, NEW c \in 0..LineLen, Click(r, c)
      PROVE  DocOK(lines, line, col)' /\ lines' = lines
  <2>1. lines' = lines /\ col' = Clamped(line', c)
    BY <1>6 DEF Click
  <2>2. line' \in 1..Len(lines) /\ c \in Nat
    BY <1>1, <1>2, <1>6, LinesAreRows DEF Click
  <2>3. col' \in 0..Len(lines[line'])
    BY <1>1, <2>1, <2>2, ClampedFits DEF Clamped
  <2> QED BY <1>1, <2>1, <2>2, <2>3 DEF DocOK
<1> QED BY <1>3, <1>4, <1>5, <1>6

(* "CLEAR", a sample line and the deletion of the last line.               *)
LEMMA ChoosingFits ==
  ASSUME TypeOK,
         ChooseClear \/ (\E s \in Samples : ChooseSample(s)) \/ ChooseDeleteLast
  PROVE  DocOK(lines, line, col)'
<1>1. DocOK(lines, line, col) /\ Fits(lines) /\ line \in 1..Len(lines) /\ col \in 0..Len(lines[line])
  BY TypeParts DEF DocOK
<1>2. CASE ChooseClear
  BY <1>2, ClearFits DEF ChooseClear
<1>3. ASSUME NEW s \in Samples, ChooseSample(s) PROVE DocOK(lines, line, col)'
  <2>1. s \in Line
    BY EditorAssumption
  <2>2. DocOK(Append(lines, s), Len(lines) + 1, Len(s))
    BY <1>1, <1>3, <2>1, AppendFits DEF ChooseSample
  <2> QED BY <1>3, <2>2 DEF ChooseSample
<1>4. CASE ChooseDeleteLast /\ Len(lines) = 1
  BY <1>4, ClearFits DEF ChooseDeleteLast
<1>5. CASE ChooseDeleteLast /\ Len(lines) # 1
  <2> DEFINE rest == Front(lines)
             at == IF line > Len(rest) THEN Len(rest) ELSE line
  <2>1. Fits(rest) /\ Len(rest) = Len(lines) - 1
    BY <1>1, <1>5, FrontFits
  <2>2. lines' = rest /\ line' = at /\ col' = IF col > Len(rest[at]) THEN Len(rest[at]) ELSE col
    BY <1>5 DEF ChooseDeleteLast
  <2> HIDE DEF rest
  <2>3. Len(rest) \in Nat /\ 1 \in 1..Len(rest) /\ line \in Nat /\ line >= 1
    BY <1>1, <2>1, LinesAreText, LineAt
  <2>4. at \in 1..Len(rest)
    BY <2>3
  <2>5. col \in Nat
    BY <1>1, LineAt
  <2> HIDE DEF at
  <2>6. col' \in 0..Len(rest[at])
    BY <2>1, <2>2, <2>4, <2>5, ClampedFits
  <2> QED BY <2>1, <2>2, <2>4, <2>6 DEF DocOK
<1> QED BY <1>2, <1>3, <1>4, <1>5

LEMMA StartTypes ==
  ASSUME NEW r, r = <<>> \/ r \in { <<n>> : n \in Name }, FilesOK', Start(r)
  PROVE  DocOK(lines, line, col)' /\ PanelsOK'
<1>1. r # <<>> => r[1] \in Name
  OBVIOUS
<1>2. PanelsOK'
  BY <1>1, FileAssumption DEF Start, PanelsOK
<1>3. CASE r # <<>> /\ Readable(files'[r[1]])
  <2>1. files'[r[1]] \in Bytes /\ Show(files'[r[1]])
    BY <1>1, <1>3 DEF FilesOK, Readable, Start
  <2> QED BY <1>2, <2>1, ShowFits
<1>4. CASE ~(r # <<>> /\ Readable(files'[r[1]]))
  <2>1. ClearDocument
    BY <1>4 DEF Start
  <2> QED BY <1>2, <2>1, ClearFits
<1> QED BY <1>3, <1>4

LEMMA RequestTypes ==
  ASSUME TypeOK, NEW n \in Name, FilesOK', Request(n)
  PROVE  DocOK(lines, line, col)' /\ PanelsOK'
<1>1. CASE running
  <2>1. DocOK(lines, line, col) /\ PanelsOK
    BY TypeParts
  <2> QED BY <1>1, <2>1 DEF Request, PanelsOK, DocOK, document, panels
<1>2. CASE ~running
  <2>1. Start(<<n>>) /\ <<n>> \in { <<k>> : k \in Name }
    BY <1>2 DEF Request
  <2> QED BY <2>1, StartTypes
<1> QED BY <1>1, <1>2

LEMMA TypeStep == TypeOK /\ [Next]_vars => TypeOK'
<1> SUFFICES ASSUME TypeOK, [Next]_vars PROVE DocOK(lines, line, col)' /\ PanelsOK' /\ FilesOK'
  BY TypeParts
<1>1. DocOK(lines, line, col) /\ PanelsOK /\ FilesOK
  BY TypeParts
<1>2. <<>> \in Bytes
  BY TextIsBytes
<1>3. CASE \/ \E c \in Char : InsertChar(c)
           \/ Newline \/ BackspaceChar \/ BackspaceLine
  <2>1. UNCHANGED <<panels, filename, running, pending, files>>
    BY <1>3 DEF InsertChar, Newline, BackspaceChar, BackspaceLine, Editing
  <2>2. DocOK(lines, line, col)'
    BY <1>3, EditingFits
  <2> QED BY <1>1, <2>1, <2>2 DEF PanelsOK, FilesOK, panels
<1>4. CASE \/ KeyLeft \/ KeyRight \/ KeyUpDown
           \/ \E r \in 1..MaxLines, c \in 0..LineLen : Click(r, c)
  <2>1. UNCHANGED <<panels, filename, running, pending, files>>
    BY <1>4 DEF KeyLeft, KeyRight, KeyUpDown, Click, Editing
  <2>2. DocOK(lines, line, col)'
    BY <1>4, MovingFits
  <2> QED BY <1>1, <2>1, <2>2 DEF PanelsOK, FilesOK, panels
<1>5. CASE KeyEscape
  BY <1>1, <1>5, ClearFits DEF KeyEscape, Editing, PanelsOK, FilesOK, panels
<1>6. CASE \/ OpenMenu \/ CloseMenu \/ CloseAbout \/ CancelDialog \/ CloseWindow
           \/ ChooseAbout \/ \E mode \in {"save", "open"} : ChooseDialog(mode)
  <2>1. DocOK(lines, line, col)' /\ FilesOK'
    BY <1>1, <1>6 DEF OpenMenu, CloseMenu, CloseAbout, CancelDialog, CloseWindow, ChooseAbout,
                      ChooseDialog, Choose, DocOK, FilesOK, document
  <2>2. PanelsOK'
    BY <1>1, <1>6 DEF OpenMenu, CloseMenu, CloseAbout, CancelDialog, CloseWindow, ChooseAbout,
                      ChooseDialog, Choose, PanelsOK, panels
  <2> QED BY <2>1, <2>2
<1>7. CASE ChooseClear \/ (\E s \in Samples : ChooseSample(s)) \/ ChooseDeleteLast
  <2>1. DocOK(lines, line, col)'
    BY <1>7, ChoosingFits
  <2>2. menu' = FALSE /\ UNCHANGED <<dialog, about, filename, running, pending, files>>
    BY <1>7 DEF ChooseClear, ChooseSample, ChooseDeleteLast, Choose
  <2> QED BY <1>1, <2>1, <2>2 DEF PanelsOK, FilesOK
<1>8. ASSUME NEW n \in Name, NEW outcome \in Outcomes, Save(n, outcome)
      PROVE  DocOK(lines, line, col)' /\ PanelsOK' /\ FilesOK'
  <2>1. Serialize(lines) \in Bytes
    BY <1>1, SavedText, TextIsBytes DEF DocOK
  <2>2. FilesOK'
    BY <1>1, <1>8, <2>1 DEF Save, FilesOK
  <2>3. DocOK(lines, line, col)'
    BY <1>1, <1>8 DEF Save, DocOK, document
  <2>4. PanelsOK'
    BY <1>1, <1>8 DEF Save, PanelsOK
  <2> QED BY <2>2, <2>3, <2>4
<1>9. ASSUME NEW n \in Name, Open(n)
      PROVE  DocOK(lines, line, col)' /\ PanelsOK' /\ FilesOK'
  <2>1. files[n] \in Bytes /\ Show(files[n])
    BY <1>1, <1>9 DEF Open, FilesOK, Readable
  <2>2. DocOK(lines, line, col)'
    BY <2>1, ShowFits
  <2> QED BY <1>1, <1>9, <2>2 DEF Open, PanelsOK, FilesOK
<1>10. CASE LaunchEditor
  <2>1. FilesOK' /\ Start(pending) /\ (pending = <<>> \/ pending \in { <<n>> : n \in Name })
    BY <1>1, <1>10 DEF LaunchEditor, FilesOK, PanelsOK
  <2> QED BY <2>1, StartTypes
<1>11. ASSUME NEW n \in Name, OpenFromManager(n)
       PROVE  DocOK(lines, line, col)' /\ PanelsOK' /\ FilesOK'
  <2>1. FilesOK' /\ Request(n)
    BY <1>1, <1>11 DEF OpenFromManager, FilesOK
  <2> QED BY <2>1, RequestTypes
<1>12. ASSUME NEW n \in Name, NEW outcome \in Outcomes, NewFromManager(n, outcome)
       PROVE  DocOK(lines, line, col)' /\ PanelsOK' /\ FilesOK'
  <2>1. FilesOK'
    BY <1>1, <1>2, <1>12 DEF NewFromManager, FilesOK
  <2>2. CASE outcome = "saved"
    BY <1>12, <2>1, <2>2, RequestTypes DEF NewFromManager
  <2>3. CASE outcome # "saved"
    BY <1>1, <1>12, <2>1, <2>3 DEF NewFromManager, PanelsOK, DocOK, document, panels
  <2> QED BY <2>2, <2>3
<1>13. ASSUME NEW n \in Name, DeleteFile(n)
       PROVE  DocOK(lines, line, col)' /\ PanelsOK' /\ FilesOK'
  BY <1>1, <1>13 DEF DeleteFile, PanelsOK, FilesOK, DocOK, document, panels
<1>14. CASE UNCHANGED vars
  BY <1>1, <1>14 DEF vars, document, panels, PanelsOK, FilesOK, DocOK
<1> QED BY <1>3, <1>4, <1>5, <1>6, <1>7, <1>8, <1>9, <1>10, <1>11, <1>12, <1>13, <1>14 DEF Next

LEMMA TypeInit == Init => TypeOK
<1> SUFFICES ASSUME Init PROVE DocOK(lines, line, col) /\ PanelsOK /\ FilesOK
  BY TypeParts
<1>1. DocOK(lines, line, col)
  BY BlankFits DEF Init
<1>2. PanelsOK
  BY FileAssumption DEF Init, PanelsOK
<1>3. FilesOK
  BY FileAssumption DEF Init, FilesOK, Bytes, Byte
<1> QED BY <1>1, <1>2, <1>3

(* The document always fits the array of kernel/text_editor.c, every line  *)
(* its row of it, and the cursor is always in the document, whatever keys, *)
(* choices and files come: no index the keys compute is out of bounds.     *)
THEOREM TypeCorrect == Spec => []TypeOK
BY TypeInit, TypeStep, PTL DEF Spec

-----------------------------------------------------------------------------
(***************************************************************************)
(* The document is the text of TextBuffer, step by step.                   *)
(***************************************************************************)
Store == [n \in Name |-> TextOf(files[n])]

LEMMA Mapped ==
  /\ Place = PlaceOf(lines, line, col)
  /\ Place' = PlaceOf(lines', line', col')
  /\ files' = files => Store' = Store
<1>1. Place = PlaceOf(lines, line, col)
  BY DEF Place, PlaceOf
<1>2. Place' = PlaceOf(lines', line', col')
  BY DEF Place, PlaceOf
<1>3. files' = files => Store' = Store
  BY DEF Store
<1> QED BY <1>1, <1>2, <1>3

(* What a step that leaves the document, or the files, is to the buffer.   *)
LEMMA SameText ==
  ASSUME lines' = lines, line' = line, col' = col
  PROVE  Flat(lines)' = Flat(lines) /\ Place' = Place
BY DEF Place

LEMMA Stutter ==
  ASSUME UNCHANGED <<document, files>>
  PROVE  UNCHANGED Buffer!vars
BY SameText, Mapped DEF Buffer!vars, document, Store

LEMMA StepInsert ==
  ASSUME NEW c, Flat(lines)' = Put(Flat(lines), Place, <<c>>),
         Place' = Place + 1, files' = files
  PROVE  Buffer!Insert(c)
BY Mapped DEF Buffer!Insert, Buffer!Before, Buffer!After, Put, Store

LEMMA StepBackspace ==
  ASSUME Flat(lines)' = Drop(Flat(lines), Place), Place' = Place - 1, Place > 0, files' = files
  PROVE  Buffer!Backspace
BY Mapped DEF Buffer!Backspace, Buffer!Before, Buffer!After, Drop, Store

LEMMA StepClear ==
  ASSUME ClearDocument, files' = files
  PROVE  Buffer!Clear
<1>1. Flat(lines') = <<>> /\ Place' = 0
  BY EmptyFile, Mapped DEF ClearDocument, PlaceOf
<1> QED BY <1>1, Mapped DEF Buffer!Clear, Store

LEMMA StepLoad ==
  ASSUME FilesOK, NEW n \in Name, Readable(files[n]), Show(files[n]), files' = files
  PROVE  Buffer!Load(n)
<1>1. files[n] \in Bytes
  BY DEF FilesOK, Readable
<1>2. Store[n] # NoFile /\ Store[n] = Flat(Deserialize(files[n]))
  BY <1>1, TextTypes DEF Store
<1>3. Flat(lines') = Store[n] /\ Place' = 0
  BY <1>2, Mapped DEF Show, PlaceOf
<1> QED BY <1>2, <1>3, Mapped DEF Buffer!Load, Store

LEMMA StoreSet ==
  ASSUME FilesOK, NEW n \in Name, NEW b, files' = [files EXCEPT ![n] = b]
  PROVE  Store' = [Store EXCEPT ![n] = TextOf(b)]
<1>1. \A k \in Name : files'[k] = IF k = n THEN b ELSE files[k]
  BY DEF FilesOK
<1>2. Store' = [k \in Name |-> TextOf(files'[k])]
  BY DEF Store
<1>3. [Store EXCEPT ![n] = TextOf(b)] = [k \in Name |-> IF k = n THEN TextOf(b) ELSE Store[k]]
  BY DEF Store
<1>4. \A k \in Name : TextOf(files'[k]) = IF k = n THEN TextOf(b) ELSE Store[k]
  BY <1>1 DEF Store
<1> QED BY <1>2, <1>3, <1>4, Zenon

LEMMA CursorIn ==
  ASSUME TypeOK
  PROVE  /\ Fits(lines) /\ lines \in Seq(Row) /\ lines # <<>> /\ line \in 1..Len(lines)
         /\ col \in 0..Len(lines[line]) /\ lines[line] \in Row /\ FilesOK
         /\ Len(lines) \in Nat /\ line \in Nat /\ col \in Nat /\ Len(lines[line]) \in Nat
<1>1. Fits(lines) /\ line \in 1..Len(lines) /\ col \in 0..Len(lines[line]) /\ FilesOK
  BY TypeParts DEF DocOK
<1>2. lines \in Seq(Row) /\ lines # <<>> /\ Len(lines) \in Nat
  BY <1>1, LinesAreText
<1>3. lines[line] \in Row /\ Len(lines[line]) \in Nat /\ line \in Nat
  BY <1>1, LineAt
<1> QED BY <1>1, <1>2, <1>3

(* Two columns of a line are as far apart as their places in the text.     *)
LEMMA PlaceInRow ==
  ASSUME NEW ls \in Seq(Row), NEW i \in 1..Len(ls), NEW c \in 0..Len(ls[i])
  PROVE  PlaceOf(ls, i, 0) \in Nat /\ PlaceOf(ls, i, c) = PlaceOf(ls, i, 0) + c
<1>1. Len(ls[i]) \in Nat /\ i \in Nat /\ c \in Nat
  <2>1. ls[i] \in Row /\ i \in Nat
    BY RowsAround
  <2>2. Len(ls[i]) \in Nat
    BY <2>1, LenProperties DEF Row
  <2> QED BY <2>1, <2>2
<1>2. 0 \in 0..Len(ls[i])
  BY <1>1
<1>3. PlaceOf(ls, i, 0) \in 0..Len(Flat(ls))
  BY <1>2, CursorInText
<1>4. PlaceOf(ls, i, 0) \in Int /\ PlaceOf(ls, i, 0) >= 0
  <2>1. Len(Flat(ls)) \in Nat
    BY <1>2, CursorInText, Joined
  <2> QED BY <1>3, <2>1
<1>5. CASE i = 1
  BY <1>1, <1>5, <1>4 DEF PlaceOf
<1>6. CASE i # 1
  <2> DEFINE m == Len(Flat(SubSeq(ls, 1, i - 1)))
  <2>1. PlaceOf(ls, i, 0) = m + 1 + 0 /\ PlaceOf(ls, i, c) = m + 1 + c
    BY <1>6 DEF PlaceOf
  <2>2. m \in Nat
    <3> DEFINE a == SubSeq(ls, 1, i - 1)
    <3>1. a \in Seq(Row) /\ Len(a) = i - 1
      BY RowsAround DEF Upper
    <3> HIDE DEF a
    <3>2. a # <<>>
      BY <1>1, <1>6, <3>1, EmptySeq
    <3>3. Flat(a) \in Text
      BY <3>1, <3>2, FlatTypes
    <3>4. Len(Flat(a)) \in Nat
      BY <3>3, Joined
    <3> QED BY <3>4 DEF a
  <2> HIDE DEF m
  <2> QED BY <1>1, <1>4, <2>1, <2>2
<1> QED BY <1>5, <1>6

(* What is typed goes where the cursor is.                                 *)
LEMMA TypingKeeps ==
  ASSUME TypeOK
  PROVE  /\ \A c \in Char : InsertChar(c) => Buffer!Insert(c)
         /\ Newline => Buffer!Insert(NL)
<1>1. ASSUME NEW c \in Char, InsertChar(c) PROVE Buffer!Insert(c)
  <2> DEFINE ms == [lines EXCEPT ![line] = InsertAt(@, col + 1, c)]
  <2>1. /\ Flat(ms) = Put(Flat(lines), PlaceOf(lines, line, col), <<c>>)
        /\ PlaceOf(ms, line, col + 1) = PlaceOf(lines, line, col) + 1
    BY CursorIn, CharInserted
  <2>2. lines' = ms /\ line' = line /\ col' = col + 1 /\ files' = files
    BY <1>1 DEF InsertChar, Editing
  <2> HIDE DEF ms
  <2> QED BY <2>1, <2>2, Mapped, StepInsert
<1>2. ASSUME Newline PROVE Buffer!Insert(NL)
  <2> DEFINE ms == Upper(lines, line) \o <<LeftOf(lines[line], col), RightOf(lines[line], col)>>
                     \o Lower(lines, line)
  <2>1. /\ Flat(ms) = Put(Flat(lines), PlaceOf(lines, line, col), <<NL>>)
        /\ PlaceOf(ms, line + 1, 0) = PlaceOf(lines, line, col) + 1
    BY CursorIn, LineSplit
  <2>2. lines' = ms /\ line' = line + 1 /\ col' = 0 /\ files' = files
    BY <1>2 DEF Newline, Editing, Upper, Lower, LeftOf, RightOf
  <2> HIDE DEF ms
  <2> QED BY <2>1, <2>2, Mapped, StepInsert
<1> QED BY <1>1, <1>2

(* A backspace takes the character before the cursor, the end of a line    *)
(* as well as one in a line.                                               *)
LEMMA BackspaceKeeps ==
  ASSUME TypeOK, BackspaceChar \/ BackspaceLine
  PROVE  Buffer!Backspace
<1>1. CASE BackspaceChar
  <2> DEFINE ms == [lines EXCEPT ![line] = RemoveAt(@, col)]
  <2>0. col \in 1..Len(lines[line])
    BY <1>1, CursorIn DEF BackspaceChar
  <2>1. /\ Flat(ms) = Drop(Flat(lines), PlaceOf(lines, line, col))
        /\ PlaceOf(ms, line, col - 1) = PlaceOf(lines, line, col) - 1
        /\ PlaceOf(lines, line, col) > 0
    BY <2>0, CursorIn, CharRemoved
  <2>2. lines' = ms /\ line' = line /\ col' = col - 1 /\ files' = files
    BY <1>1 DEF BackspaceChar, Editing
  <2> HIDE DEF ms
  <2> QED BY <2>1, <2>2, Mapped, StepBackspace
<1>2. CASE BackspaceLine
  <2> DEFINE ms == RemoveAt([lines EXCEPT ![line - 1] = @ \o lines[line]], line)
  <2>0. line > 1 /\ col = 0
    BY <1>2 DEF BackspaceLine
  <2>1. /\ Flat(ms) = Drop(Flat(lines), PlaceOf(lines, line, 0))
        /\ PlaceOf(ms, line - 1, Len(lines[line - 1])) = PlaceOf(lines, line, 0) - 1
        /\ PlaceOf(lines, line, 0) > 0
    BY <2>0, CursorIn, LinesJoined
  <2>2. lines' = ms /\ line' = line - 1 /\ col' = Len(lines[line - 1]) /\ files' = files
    BY <1>2 DEF BackspaceLine, Editing
  <2> HIDE DEF ms
  <2> QED BY <2>0, <2>1, <2>2, Mapped, StepBackspace
<1> QED BY <1>1, <1>2

(* Left and Right go one place on, over the ends of lines too.             *)
LEMMA ArrowKeeps ==
  ASSUME TypeOK
  PROVE  (KeyLeft => Buffer!Left) /\ (KeyRight => Buffer!Right)
<1> DEFINE p(i, c) == PlaceOf(lines, i, c)
<1>1. /\ p(line, 0) \in Nat /\ p(line, col) = p(line, 0) + col
      /\ p(line, Len(lines[line])) = p(line, 0) + Len(lines[line])
      /\ Len(lines[line]) \in 0..Len(lines[line])
  BY CursorIn, PlaceInRow
<1>2. ASSUME NEW i \in 1..Len(lines), NEW c \in 0..Len(lines[i])
      PROVE  p(i, c) \in 0..Len(Flat(lines))
  BY CursorIn, CursorInText
<1>3. Place = p(line, col) /\ Len(Flat(lines)) \in Nat
  <2>1. Flat(lines) \in Text
    BY CursorIn, FlatTypes
  <2> QED BY <2>1, Mapped, Joined
<1>4. ASSUME KeyLeft PROVE Buffer!Left
  <2>1. lines' = lines /\ files' = files
    BY <1>4 DEF KeyLeft, Editing
  <2>2. Place' = p(line', col')
    BY <2>1, Mapped
  <2>3. CASE col > 0 /\ col' = col - 1 /\ line' = line
    <3>1. col - 1 \in 0..Len(lines[line])
      BY <2>3, CursorIn
    <3>2. p(line, col - 1) = p(line, 0) + (col - 1)
      BY <3>1, CursorIn, PlaceInRow
    <3> HIDE DEF p
    <3>3. Place > 0 /\ Place' = Place - 1
      BY <1>1, <1>3, <2>2, <2>3, <3>2, CursorIn
    <3> QED BY <2>1, <3>3, Mapped DEF Buffer!Left, Store
  <2>4. CASE col = 0 /\ line > 1 /\ line' = line - 1 /\ col' = Len(lines[line - 1])
    <3> DEFINE j == line - 1
    <3>1. p(line, 0) = p(j, Len(lines[j])) + 1 /\ j \in 1..Len(lines)
      BY <2>4, CursorIn, PlaceOver
    <3>2. Len(lines[j]) \in 0..Len(lines[j])
      BY <3>1, CursorIn, LineAt
    <3>3. p(j, Len(lines[j])) \in 0..Len(Flat(lines))
      BY <1>2, <3>1, <3>2
    <3>4. line' = j /\ col' = Len(lines[j])
      BY <2>4
    <3> HIDE DEF p, j
    <3>5. Place > 0 /\ Place' = Place - 1
      BY <1>3, <2>2, <2>4, <3>1, <3>3, <3>4
    <3> QED BY <2>1, <3>5, Mapped DEF Buffer!Left, Store
  <2> QED BY <1>4, <2>3, <2>4 DEF KeyLeft
<1>5. ASSUME KeyRight PROVE Buffer!Right
  <2>1. lines' = lines /\ files' = files
    BY <1>5 DEF KeyRight, Editing
  <2>2. Place' = p(line', col')
    BY <2>1, Mapped
  <2>3. CASE col < Len(lines[line]) /\ col' = col + 1 /\ line' = line
    <3>1. col + 1 \in 0..Len(lines[line])
      BY <2>3, CursorIn
    <3>2. p(line, col + 1) = p(line, 0) + (col + 1)
      BY <3>1, CursorIn, PlaceInRow
    <3>3. p(line, col + 1) \in 0..Len(Flat(lines))
      BY <1>2, <3>1, CursorIn
    <3> HIDE DEF p
    <3>4. Place < Len(Flat(lines)) /\ Place' = Place + 1
      BY <1>1, <1>3, <2>2, <2>3, <3>2, <3>3, CursorIn
    <3> QED BY <2>1, <3>4, Mapped DEF Buffer!Right, Store
  <2>4. CASE col = Len(lines[line]) /\ line < Len(lines) /\ line' = line + 1 /\ col' = 0
    <3> DEFINE j == line + 1
    <3>1. j \in 1..Len(lines) /\ j > 1 /\ j - 1 = line
      BY <2>4, CursorIn
    <3> HIDE DEF j
    <3>2. p(j, 0) = p(line, Len(lines[line])) + 1
      BY <3>1, CursorIn, PlaceOver
    <3>3. 0 \in 0..Len(lines[j])
      BY <3>1, CursorIn, LineAt
    <3>4. p(j, 0) \in 0..Len(Flat(lines))
      BY <1>2, <3>1, <3>3
    <3>5. line' = j /\ col' = 0
      BY <2>4 DEF j
    <3> HIDE DEF p
    <3>6. Place < Len(Flat(lines)) /\ Place' = Place + 1
      BY <1>1, <1>3, <2>2, <2>4, <3>2, <3>4, <3>5, CursorIn
    <3> QED BY <2>1, <3>6, Mapped DEF Buffer!Right, Store
  <2> QED BY <1>5, <2>3, <2>4 DEF KeyRight
<1> QED BY <1>4, <1>5

(* The other keys and the mouse go to some place in the text.              *)
LEMMA JumpKeeps ==
  ASSUME TypeOK,
         KeyUpDown \/ \E r \in 1..MaxLines, c \in 0..LineLen : Click(r, c)
  PROVE  Buffer!Jump
<1>1. lines' = lines /\ DocOK(lines, line, col)'
  BY MovingFits
<1>2. files' = files
  BY DEF KeyUpDown, Click, Editing
<1>3. line' \in 1..Len(lines) /\ col' \in 0..Len(lines[line'])
  BY <1>1 DEF DocOK
<1>4. PlaceOf(lines, line', col') \in 0..Len(Flat(lines))
  BY <1>3, CursorIn, CursorInText
<1>5. Place' \in 0..Len(Flat(lines))
  BY <1>1, <1>4, Mapped
<1> QED BY <1>1, <1>2, <1>5, Mapped DEF Buffer!Jump, Store

LEMMA ClearKeeps ==
  ASSUME KeyEscape \/ ChooseClear
  PROVE  Buffer!Clear
<1>1. ClearDocument /\ files' = files
  BY DEF KeyEscape, ChooseClear, Choose, Editing
<1> QED BY <1>1, StepClear

LEMMA SampleKeeps ==
  ASSUME TypeOK, NEW s \in Samples, ChooseSample(s)
  PROVE  Buffer!AppendLine(s)
<1>1. s \in Row
  BY EditorAssumption, LinesAreRows
<1>2. /\ Flat(Append(lines, s)) = Flat(lines) \o <<NL>> \o s
      /\ PlaceOf(Append(lines, s), Len(lines) + 1, Len(s)) = Len(Flat(Append(lines, s)))
  BY <1>1, CursorIn, RowAppended
<1>3. lines' = Append(lines, s) /\ line' = Len(lines) + 1 /\ col' = Len(s) /\ files' = files
  BY DEF ChooseSample, Choose
<1>4. Flat(lines)' = Flat(lines) \o <<NL>> \o s /\ Place' = Len(Flat(lines)')
  BY <1>2, <1>3, Mapped
<1> QED BY <1>3, <1>4, Mapped DEF Buffer!AppendLine, Store

LEMMA DeleteKeeps ==
  ASSUME TypeOK, ChooseDeleteLast
  PROVE  Buffer!RemoveLine
<1>0. files' = files
  BY DEF ChooseDeleteLast, Choose
<1>1. DocOK(lines, line, col)'
  BY ChoosingFits
<1>2. Place' \in 0..Len(Flat(lines)')
  <2>1. lines' \in Seq(Row) /\ line' \in 1..Len(lines') /\ col' \in 0..Len(lines'[line'])
    BY <1>1, LinesAreText DEF DocOK
  <2>2. PlaceOf(lines', line', col') \in 0..Len(Flat(lines'))
    BY <2>1, CursorInText
  <2> QED BY <2>2, Mapped
<1> DEFINE t == Flat(lines)
           Cuts(n) == /\ n \in 0..Len(t)
                      /\ n = 0 \/ (n < Len(t) /\ t[n + 1] = NL)
                      /\ \A k \in n + 2..Len(t) : t[k] # NL
                      /\ Flat(lines)' = SubSeq(t, 1, n)
<1>3. \E n : Cuts(n)
  <2>1. CASE Len(lines) = 1
    <3>1. t \in Row
      <4>1. lines = <<lines[1]>> /\ lines[1] \in Row
        BY <2>1, CursorIn, OneRow
      <4> QED BY <4>1, FlatOne
    <3>2. Flat(lines)' = <<>>
      BY <2>1, EmptyFile DEF ChooseDeleteLast, ClearDocument
    <3>3. SubSeq(t, 1, 0) = <<>> /\ Len(t) \in Nat /\ 0 \in 0..Len(t)
      BY <3>1, SubSeqEmpty, LenProperties DEF Row
    <3>4. \A k \in 0 + 2..Len(t) : t[k] # NL
      <4>1. \A k \in 0 + 2..Len(t) : k \in 1..Len(t)
        BY <3>3
      <4>2. \A k \in 1..Len(t) : t[k] \in Char
        BY <3>1, ElementOfSeq DEF Row
      <4> QED BY <4>1, <4>2, EditorAssumption
    <3>5. Cuts(0)
      BY <3>2, <3>3, <3>4
    <3> HIDE DEF Cuts
    <3> QED BY <3>5
  <2>2. CASE Len(lines) # 1
    <3> DEFINE rest == Front(lines)
               n == Len(Flat(rest))
    <3>1. PICK l \in Row : lines = Append(rest, l)
      BY <2>2, CursorIn, FrontFits
    <3>2. rest \in Seq(Row) /\ rest # <<>>
      BY <2>2, CursorIn, FrontFits, LinesAreText
    <3>3. lines' = rest
      BY <2>2 DEF ChooseDeleteLast
    <3> HIDE DEF rest
    <3>4. /\ n \in Nat /\ Len(t) \in Nat /\ n < Len(t)
          /\ t[n + 1] = NL
          /\ \A k \in n + 2..Len(t) : t[k] # NL
          /\ SubSeq(t, 1, n) = Flat(rest)
      BY <3>1, <3>2, RowDeleted
    <3>5. Flat(lines)' = Flat(rest)
      BY <3>3
    <3> HIDE DEF n, t
    <3>6. n \in 0..Len(t)
      BY <3>4
    <3>7. Cuts(n)
      BY <3>4, <3>5, <3>6
    <3> HIDE DEF Cuts
    <3> QED BY <3>7
  <2> QED BY <2>1, <2>2
<1>4. \E n \in 0..Len(t) : Cuts(n)
  BY <1>3
<1> QED BY <1>0, <1>2, <1>4, Mapped DEF Buffer!RemoveLine, Buffer!Before, Store

(* What is saved is the text, also when it does not reach the disk.        *)
LEMMA SaveKeeps ==
  ASSUME TypeOK, NEW n \in Name, NEW outcome, outcome # "refused", Save(n, outcome)
  PROVE  Buffer!Save(n)
<1>1. files' = [files EXCEPT ![n] = Serialize(lines)] /\ lines' = lines /\ line' = line /\ col' = col
  BY DEF Save, document
<1>2. Serialize(lines) = Flat(lines) /\ TextOf(Flat(lines)) = Flat(lines)
  BY CursorIn, SavedText
<1>3. Store' = [Store EXCEPT ![n] = Flat(lines)]
  BY <1>1, <1>2, CursorIn, StoreSet
<1> QED BY <1>1, <1>3, SameText DEF Buffer!Save, Store

LEMMA OpenKeeps ==
  ASSUME TypeOK, NEW n \in Name, Open(n)
  PROVE  Buffer!Load(n)
BY CursorIn, StepLoad DEF Open

(* The editor starts with the file it was asked for, or with none.         *)
LEMMA StartKeeps ==
  ASSUME TypeOK, NEW r, r = <<>> \/ r \in { <<n>> : n \in Name }, files' = files, Start(r)
  PROVE  Buffer!Next
<1>1. r # <<>> => r[1] \in Name
  OBVIOUS
<1>2. CASE r # <<>> /\ Readable(files[r[1]])
  <2>1. Show(files[r[1]])
    BY <1>2 DEF Start
  <2>2. Buffer!Load(r[1])
    BY <1>1, <1>2, <2>1, CursorIn, StepLoad
  <2> QED BY <1>1, <1>2, <2>2 DEF Buffer!Next
<1>3. CASE ~(r # <<>> /\ Readable(files[r[1]]))
  <2>1. ClearDocument
    BY <1>3 DEF Start
  <2>2. Buffer!Clear
    BY <2>1, StepClear
  <2> QED BY <2>2 DEF Buffer!Next
<1> QED BY <1>2, <1>3

LEMMA CreateKeeps ==
  ASSUME TypeOK, NEW n \in Name, NEW outcome, NewFromManager(n, outcome)
  PROVE  Buffer!Next \/ UNCHANGED Buffer!vars
<1>1. CASE outcome = "refused"
  BY <1>1, Stutter DEF NewFromManager, document
<1>2. CASE outcome # "refused"
  <2>1. files' = [files EXCEPT ![n] = <<>>]
    BY <1>2 DEF NewFromManager
  <2>2. Store' = [Store EXCEPT ![n] = <<>>]
    BY <2>1, CursorIn, StoreSet, EmptyFile
  <2>3. CASE UNCHANGED document
    <3>1. Buffer!Create(n)
      BY <2>2, <2>3, SameText DEF Buffer!Create, Store, document
    <3> QED BY <3>1 DEF Buffer!Next
  <2>4. CASE ~UNCHANGED document
    <3>1. Start(<<n>>)
      BY <2>4 DEF NewFromManager, Request
    <3>2. files'[n] = <<>>
      BY <2>1, CursorIn DEF FilesOK
    <3>3. Show(<<>>) \/ ClearDocument
      <4>1. <<n>> # <<>> /\ <<n>>[1] = n
        OBVIOUS
      <4> QED BY <3>1, <3>2, <4>1 DEF Start
    <3>4. Deserialize(<<>>) = <<<<>>>>
      BY TakeNone DEF Deserialize, Blank
    <3>5. Flat(lines') = <<>> /\ Place' = 0
      BY <3>3, <3>4, EmptyFile, Mapped DEF Show, ClearDocument, PlaceOf
    <3>6. Buffer!Create(n)
      BY <2>2, <3>5 DEF Buffer!Create, Store
    <3> QED BY <3>6 DEF Buffer!Next
  <2> QED BY <2>3, <2>4
<1> QED BY <1>1, <1>2

LEMMA DeleteFileKeeps ==
  ASSUME TypeOK, NEW n \in Name, DeleteFile(n)
  PROVE  Buffer!Remove(n)
<1>1. files' = [files EXCEPT ![n] = NoFile] /\ lines' = lines /\ line' = line /\ col' = col
  BY DEF DeleteFile, document
<1>2. Store' = [Store EXCEPT ![n] = NoFile]
  BY <1>1, CursorIn, StoreSet, EmptyFile
<1> QED BY <1>1, <1>2, SameText DEF Buffer!Remove, Store

LEMMA EachStep == TypeOK => StepOfText
<1> SUFFICES ASSUME TypeOK PROVE StepOfText
  OBVIOUS
<1>1. BackspaceChar \/ BackspaceLine => Buffer!Backspace
  BY BackspaceKeeps
<1>2. KeyUpDown \/ (\E r \in 1..MaxLines, c \in 0..LineLen : Click(r, c)) => Buffer!Jump
  BY JumpKeeps
<1>3. KeyEscape \/ ChooseClear => Buffer!Clear
  BY ClearKeeps
<1>4. \A s \in Samples : ChooseSample(s) => Buffer!AppendLine(s)
  BY SampleKeeps
<1>5. ChooseDeleteLast => Buffer!RemoveLine
  BY DeleteKeeps
<1>6. \A n \in Name : Save(n, "saved") => Buffer!Save(n)
  BY SaveKeeps
<1>7. \A n \in Name : Open(n) => Buffer!Load(n)
  BY OpenKeeps
<1> QED BY <1>1, <1>2, <1>3, <1>4, <1>5, <1>6, <1>7, TypingKeeps, ArrowKeeps, Zenon DEF StepOfText

LEMMA BufferStep == TypeOK /\ [Next]_vars => [Buffer!Next]_(Buffer!vars)
<1> SUFFICES ASSUME TypeOK, [Next]_vars PROVE Buffer!Next \/ UNCHANGED Buffer!vars
  OBVIOUS
<1>0. StepOfText
  BY EachStep
<1>1. ASSUME NEW c \in Char, InsertChar(c) PROVE Buffer!Next
  BY <1>0, <1>1 DEF StepOfText, Buffer!Next
<1>2. CASE \/ Newline \/ BackspaceChar \/ BackspaceLine \/ KeyLeft \/ KeyRight
           \/ KeyUpDown \/ (\E r \in 1..MaxLines, c \in 0..LineLen : Click(r, c))
           \/ KeyEscape \/ ChooseClear \/ ChooseDeleteLast
  BY <1>0, <1>2 DEF StepOfText, Buffer!Next
<1>3. ASSUME NEW s \in Samples, ChooseSample(s) PROVE Buffer!Next
  BY <1>0, <1>3 DEF StepOfText, Buffer!Next
<1>4. ASSUME NEW n \in Name, Open(n) PROVE Buffer!Next
  BY <1>0, <1>4 DEF StepOfText, Buffer!Next
<1>5. ASSUME NEW n \in Name, NEW outcome \in Outcomes, Save(n, outcome)
      PROVE  Buffer!Next \/ UNCHANGED Buffer!vars
  <2>1. CASE outcome = "refused"
    BY <1>5, <2>1, Stutter DEF Save
  <2>2. CASE outcome # "refused"
    BY <1>5, <2>2, SaveKeeps DEF Buffer!Next
  <2> QED BY <2>1, <2>2
<1>6. CASE \/ OpenMenu \/ CloseMenu \/ CloseAbout \/ CancelDialog \/ CloseWindow
           \/ ChooseAbout \/ \E mode \in {"save", "open"} : ChooseDialog(mode)
  <2>1. UNCHANGED <<document, files>>
    BY <1>6 DEF OpenMenu, CloseMenu, CloseAbout, CancelDialog, CloseWindow, ChooseAbout,
                ChooseDialog, Choose
  <2> QED BY <2>1, Stutter
<1>7. CASE LaunchEditor
  <2>1. files' = files /\ Start(pending) /\ (pending = <<>> \/ pending \in { <<n>> : n \in Name })
    BY <1>7, TypeParts DEF LaunchEditor, PanelsOK
  <2> QED BY <2>1, StartKeeps
<1>8. ASSUME NEW n \in Name, OpenFromManager(n) PROVE Buffer!Next \/ UNCHANGED Buffer!vars
  <2>1. files' = files /\ Request(n)
    BY <1>8 DEF OpenFromManager
  <2>2. CASE running
    BY <2>1, <2>2, Stutter DEF Request
  <2>3. CASE ~running
    BY <2>1, <2>3, StartKeeps DEF Request
  <2> QED BY <2>2, <2>3
<1>9. ASSUME NEW n \in Name, NEW outcome \in Outcomes, NewFromManager(n, outcome)
      PROVE  Buffer!Next \/ UNCHANGED Buffer!vars
  BY <1>9, CreateKeeps
<1>10. ASSUME NEW n \in Name, DeleteFile(n) PROVE Buffer!Next
  BY <1>10, DeleteFileKeeps DEF Buffer!Next
<1>11. CASE UNCHANGED vars
  BY <1>11, Stutter DEF vars
<1> QED BY <1>1, <1>2, <1>3, <1>4, <1>5, <1>6, <1>7, <1>8, <1>9, <1>10, <1>11 DEF Next

LEMMA BufferInit == Init => Buffer!Init
<1> SUFFICES ASSUME Init PROVE Buffer!Init
  OBVIOUS
<1>1. FilesOK
  BY TypeInit, CursorIn
<1>2. Store \in [Name -> Text \union {NoFile}]
  <2>1. ASSUME NEW n \in Name PROVE TextOf(files[n]) \in Text \union {NoFile}
    <3>1. files[n] \in Bytes \/ files[n] = NoFile
      BY <1>1 DEF FilesOK
    <3> QED BY <3>1, TextTypes, EmptyFile
  <2> QED BY <2>1 DEF Store
<1>3. Flat(lines) = <<>> /\ Place = 0
  BY EmptyFile DEF Init, Place
<1> QED BY <1>2, <1>3 DEF Buffer!Init, Store, Text, Symbol

(* The promise of an editor: the lines of the array, with the line and the *)
(* column of the cursor, are one text with a place in it.  Every key does  *)
(* to that text what it is for and nothing else, over the ends of lines    *)
(* too; what is saved is the whole text, and opening the file brings it    *)
(* back unchanged, since deserialize_document undoes serialize_document    *)
(* for every document that fits.                                           *)
THEOREM TextIsKept == Spec => TextKept
<1>1. Init => Buffer!Init
  BY BufferInit
<1>2. TypeOK /\ [Next]_vars => [Buffer!Next]_(Buffer!vars)
  BY BufferStep
<1>3. TypeOK /\ [Next]_vars => [StepOfText]_vars
  BY EachStep
<1> QED BY <1>1, <1>2, <1>3, TypeCorrect, PTL DEF Spec, TextKept, Buffer!Spec
=============================================================================
