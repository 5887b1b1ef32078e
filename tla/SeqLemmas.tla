------------------------------ MODULE SeqLemmas ------------------------------
(***************************************************************************)
(* Facts about numbers and their extrema, about sequences, and about the  *)
(* sequences that are permutations of 1..n, the shape of the window order  *)
(* of exec.c, that the proofs of the components share.                     *)
(***************************************************************************)
EXTENDS Integers, SequencesExt, SequenceTheorems, FiniteSetTheorems, TLAPS

(* A remainder by a larger divisor leaves a number as it is.               *)
LEMMA SmallRemainder ==
  ASSUME NEW m \in Nat \ {0}, NEW y \in 0..m - 1
  PROVE  y % m = y
<1>1. y \div m = 0
  OBVIOUS
<1> QED BY <1>1

(* The smallest slot find_entry or find_free_entry looks for exists: the   *)
(* segments 0..x of a set of numbers are finite sets, and the strict       *)
(* inclusion of finite sets is well-founded.                               *)
LEMMA MinOfNats ==
  ASSUME NEW S \in SUBSET Nat, S # {}
  PROVE  Min(S) \in S /\ \A x \in S : Min(S) <= x
<1> DEFINE Segments == { 0..x : x \in S }
<1>1. Segments \subseteq FiniteSubsetsOf(Nat) /\ Segments # {}
  <2>1. ASSUME NEW x \in S PROVE 0..x \in FiniteSubsetsOf(Nat)
    <3>1. 0..x \subseteq Nat
      OBVIOUS
    <3>2. IsFiniteSet(0..x)
      BY FS_Interval, 0 \in Int, x \in Int
    <3>3. QED
      BY <3>1, <3>2 DEF FiniteSubsetsOf
  <2>2. QED
    BY <2>1
<1>2. PICK seg \in Segments :
        \A t \in Segments : ~(<<t, seg>> \in StrictSubsetOrdering(Nat))
  BY <1>1, FS_StrictSubsetOrderingWellFounded, WFMin
<1>3. PICK n \in S : seg = 0..n
  BY <1>2
<1>4. ASSUME NEW x \in S PROVE n <= x
  <2>1. SUFFICES ASSUME x < n PROVE FALSE
    BY n \in Nat, x \in Nat
  <2>2. 0..x \subseteq 0..n /\ 0..x # 0..n
    BY <2>1, n \in Nat, x \in Nat, n \in 0..n, n \notin 0..x
  <2>3. <<0..x, seg>> \in StrictSubsetOrdering(Nat)
    BY <2>2, <1>3, 0..x \subseteq Nat, 0..n \subseteq Nat DEF StrictSubsetOrdering
  <2>4. QED
    BY <2>3, <1>2
<1>5. QED
  BY <1>4 DEF Min

(* Induction over a set of numbers.                                        *)
LEMMA SetInduction ==
  ASSUME NEW S, 0 \in S, \A n \in Nat : n \in S => n + 1 \in S
  PROVE  \A n \in Nat : n \in S
<1> DEFINE T == Nat \ S
<1> SUFFICES ASSUME T # {} PROVE FALSE
  OBVIOUS
<1>1. Min(T) \in T /\ \A x \in T : Min(T) <= x
  <2>1. T \in SUBSET Nat
    OBVIOUS
  <2> QED BY <2>1, MinOfNats
<1> DEFINE m == Min(T)
<1>2. m \in Nat /\ m \notin S /\ m # 0
  BY <1>1
<1>3. m - 1 \in Nat /\ m - 1 + 1 = m /\ ~(m <= m - 1)
  <2> HIDE DEF m
  <2> QED BY <1>2
<1>4. m - 1 \in S
  BY <1>1, <1>3
<1> QED BY <1>2, <1>3, <1>4

(* A loop from the top of an array downwards finds its last hit.           *)
LEMMA MaxOfInterval ==
  ASSUME NEW n \in Nat, NEW S \in SUBSET (1..n), S # {}
  PROVE  Max(S) \in S /\ \A x \in S : x <= Max(S)
<1> DEFINE R == { n - x : x \in S }
<1>1. R \in SUBSET Nat /\ R # {}
  <2>1. ASSUME NEW x \in S PROVE n - x \in Nat
    OBVIOUS
  <2>2. QED
    BY <2>1
<1>2. Min(R) \in R /\ \A m \in R : Min(R) <= m
  BY <1>1, MinOfNats
<1>3. PICK x \in S : Min(R) = n - x
  BY <1>2
<1>4. ASSUME NEW y \in S PROVE y <= x
  <2>1. n - y \in R
    OBVIOUS
  <2>2. n - x <= n - y
    BY <1>2, <1>3, <2>1
  <2>3. QED
    BY <2>2
<1>5. QED
  BY <1>4 DEF Max

(* remove_open_order and remove_active_index shift what follows by one.    *)
LEMMA RemoveAtProperties ==
  ASSUME NEW T, NEW s \in Seq(T), NEW p \in 1..Len(s)
  PROVE  /\ RemoveAt(s, p) \in Seq(T)
         /\ Len(RemoveAt(s, p)) = Len(s) - 1
         /\ \A k \in 1..(Len(s) - 1) :
              RemoveAt(s, p)[k] = IF k < p THEN s[k] ELSE s[k + 1]
<1> DEFINE u == SubSeq(s, 1, p - 1)
           w == SubSeq(s, p + 1, Len(s))
<1>1. /\ u \in Seq(T)
      /\ Len(u) = p - 1
      /\ \A i \in 1..(p - 1) : u[i] = s[i]
  BY SubSeqProperties, ElementOfSeq, Len(s) \in Nat
<1>2. /\ w \in Seq(T)
      /\ Len(w) = Len(s) - p
      /\ \A i \in 1..(Len(s) - p) : w[i] = s[p + i]
  BY SubSeqProperties, ElementOfSeq, Len(s) \in Nat
<1>3. RemoveAt(s, p) = u \o w
  BY DEF RemoveAt
<1> HIDE DEF u, w
<1>4. /\ u \o w \in Seq(T)
      /\ Len(u \o w) = Len(s) - 1
      /\ \A i \in 1..(Len(s) - 1) :
           (u \o w)[i] = IF i <= p - 1 THEN u[i] ELSE w[i - (p - 1)]
  <2>1. Len(u) + Len(w) = Len(s) - 1
    BY <1>1, <1>2, Len(s) \in Nat
  <2>2. /\ u \o w \in Seq(T)
        /\ Len(u \o w) = Len(u) + Len(w)
        /\ \A i \in 1..(Len(u) + Len(w)) :
             (u \o w)[i] = IF i <= Len(u) THEN u[i] ELSE w[i - Len(u)]
    BY <1>1, <1>2, ConcatProperties
  <2>3. QED
    BY <1>1, <2>1, <2>2, Zenon
<1>5. ASSUME NEW k \in 1..(Len(s) - 1)
      PROVE  (u \o w)[k] = IF k < p THEN s[k] ELSE s[k + 1]
  BY <1>1, <1>2, <1>4, Len(s) \in Nat
<1>6. QED
  BY <1>3, <1>4, <1>5

(* A prefix, element by element.                                           *)
LEMMA PrefixElements ==
  ASSUME NEW T, NEW s \in Seq(T), NEW t \in Seq(T)
  PROVE  IsPrefix(s, t) <=> /\ Len(s) <= Len(t)
                            /\ \A i \in 1..Len(s) : s[i] = t[i]
<1>1. Len(s) \in Nat /\ Len(t) \in Nat
  OBVIOUS
<1>2. CASE Len(s) <= Len(t)
  <2> DEFINE u == SubSeq(s, 1, Len(s))
             w == SubSeq(t, 1, Len(s))
  <2>1. /\ u \in Seq(T)
        /\ Len(u) = Len(s)
        /\ \A i \in 1..Len(s) : u[i] = s[i]
    BY <1>1, SubSeqProperties, ElementOfSeq
  <2>2. /\ w \in Seq(T)
        /\ Len(w) = Len(s)
        /\ \A i \in 1..Len(s) : w[i] = t[i]
    <3>1. \A i \in 1..Len(s) : t[i] \in T
      BY <1>1, <1>2, ElementOfSeq
    <3>2. QED
      BY <1>1, <3>1, SubSeqProperties
  <2>3. IsPrefix(s, t) <=> u = w
    BY <1>2 DEF IsPrefix
  <2> HIDE DEF u, w
  <2>4. u = w <=> \A i \in 1..Len(s) : u[i] = w[i]
    BY <2>1, <2>2, SeqEqual
  <2>5. QED
    BY <1>2, <2>1, <2>2, <2>3, <2>4
<1>3. CASE ~(Len(s) <= Len(t))
  BY <1>3 DEF IsPrefix
<1>4. QED
  BY <1>2, <1>3

-----------------------------------------------------------------------------
(***************************************************************************)
(* Permutations: removing an index, moving it to the top, renumbering.     *)
(***************************************************************************)
(* o is a permutation of 1..n. *)
Perm(o, n) ==
  /\ o \in Seq(Nat)
  /\ Len(o) = n
  /\ \A k \in 1..n : o[k] \in 1..n
  /\ \A k, m \in 1..n : o[k] = o[m] => k = m
  /\ \A i \in 1..n : \E k \in 1..n : o[k] = i

(* r holds every value of 1..n but i, once. *)
Without(r, i, n) ==
  /\ r \in Seq(Nat)
  /\ Len(r) = n - 1
  /\ \A k \in 1..(n - 1) : r[k] \in 1..n /\ r[k] # i
  /\ \A k, m \in 1..(n - 1) : r[k] = r[m] => k = m
  /\ \A j \in (1..n) \ {i} : \E k \in 1..(n - 1) : r[k] = j

(* Taking position p out of a permutation leaves every other value once.   *)
LEMMA Remaining ==
  ASSUME NEW n \in Nat, NEW o, Perm(o, n), NEW p \in 1..n
  PROVE  Without(RemoveAt(o, p), o[p], n)
<1> DEFINE r == RemoveAt(o, p)
<1>1. o \in Seq(Nat) /\ Len(o) = n
  BY DEF Perm
<1>2. \A k \in 1..n : o[k] \in 1..n
  BY DEF Perm
<1>3. \A k, m \in 1..n : o[k] = o[m] => k = m
  BY DEF Perm
<1>4. /\ r \in Seq(Nat)
      /\ Len(r) = n - 1
      /\ \A k \in 1..(n - 1) : r[k] = IF k < p THEN o[k] ELSE o[k + 1]
  <2>1. p \in 1..Len(o)
    BY <1>1
  <2>2. /\ RemoveAt(o, p) \in Seq(Nat)
        /\ Len(RemoveAt(o, p)) = Len(o) - 1
        /\ \A k \in 1..(Len(o) - 1) :
             RemoveAt(o, p)[k] = IF k < p THEN o[k] ELSE o[k + 1]
    BY <1>1, <2>1, RemoveAtProperties
  <2>3. QED
    BY <1>1, <2>2
<1> DEFINE from(k) == IF k < p THEN k ELSE k + 1
<1>5. \A k \in 1..(n - 1) : from(k) \in 1..n /\ from(k) # p
  OBVIOUS
<1> HIDE DEF r
<1>6. \A k \in 1..(n - 1) : r[k] = o[from(k)]
  BY <1>4
<1>7. \A k, m \in 1..(n - 1) : from(k) = from(m) => k = m
  OBVIOUS
<1>8. ASSUME NEW i \in (1..n) \ {o[p]} PROVE \E k \in 1..(n - 1) : r[k] = i
  <2>1. PICK k \in 1..n : o[k] = i
    BY DEF Perm
  <2>2. k # p
    BY <2>1
  <2> DEFINE m == IF k < p THEN k ELSE k - 1
  <2>3. m \in 1..(n - 1) /\ from(m) = k
    BY <2>2
  <2>4. QED
    BY <1>6, <2>1, <2>3
<1> HIDE DEF from
<1>9. \A k \in 1..(n - 1) : r[k] \in 1..n /\ r[k] # o[p]
  BY <1>2, <1>3, <1>5, <1>6
<1>10. \A k, m \in 1..(n - 1) : r[k] = r[m] => k = m
  BY <1>3, <1>5, <1>6, <1>7
<1>11. Without(r, o[p], n)
  BY <1>4, <1>8, <1>9, <1>10 DEF Without
<1>12. QED
  BY <1>11 DEF r

(* focus_active_index takes an index out of the order and puts it on top;  *)
(* the rest keep their order.                                              *)
LEMMA MoveToTop ==
  ASSUME NEW n \in Nat, NEW o, Perm(o, n), NEW p \in 1..n
  PROVE  LET t == Append(RemoveAt(o, p), o[p]) IN Perm(t, n) /\ t[n] = o[p]
<1> DEFINE r == RemoveAt(o, p)
           t == Append(r, o[p])
<1>0. Without(r, o[p], n)
  BY Remaining
<1> HIDE DEF r
<1>1. /\ r \in Seq(Nat)
      /\ Len(r) = n - 1
      /\ \A k \in 1..(n - 1) : r[k] \in 1..n /\ r[k] # o[p]
      /\ \A k, m \in 1..(n - 1) : r[k] = r[m] => k = m
      /\ \A i \in (1..n) \ {o[p]} : \E k \in 1..(n - 1) : r[k] = i
  BY <1>0 DEF Without
<1>2. o[p] \in 1..n
  BY DEF Perm
<1>4. /\ t \in Seq(Nat)
      /\ Len(t) = n
      /\ \A k \in 1..(n - 1) : t[k] = r[k]
      /\ t[n] = o[p]
  BY <1>1, <1>2, AppendProperties
<1> HIDE DEF t
<1>5. ASSUME NEW k \in 1..n PROVE k = n \/ k \in 1..(n - 1)
  OBVIOUS
<1>6. \A k \in 1..n : t[k] \in 1..n
  BY <1>1, <1>2, <1>4, <1>5
<1>7. \A k, m \in 1..n : t[k] = t[m] => k = m
  BY <1>1, <1>4, <1>5
<1>8. ASSUME NEW i \in 1..n PROVE \E k \in 1..n : t[k] = i
  <2>1. CASE i = o[p]
    BY <2>1, <1>4, n \in 1..n
  <2>2. CASE i # o[p]
    <3>1. PICK k \in 1..(n - 1) : r[k] = i
      BY <2>2, <1>1
    <3>2. k \in 1..n /\ t[k] = i
      BY <3>1, <1>4
    <3>3. QED
      BY <3>2
  <2>3. QED
    BY <2>1, <2>2
<1>9. Perm(t, n)
  BY <1>4, <1>6, <1>7, <1>8 DEF Perm
<1>10. QED
  BY <1>4, <1>9 DEF t, r

(* remove_active_index drops one index and renumbers the ones above it.    *)
LEMMA DropIndex ==
  ASSUME NEW n \in Nat, NEW o, Perm(o, n), NEW p \in 1..n
  PROVE  LET r == RemoveAt(o, p) IN
         Perm([k \in DOMAIN r |-> IF r[k] > o[p] THEN r[k] - 1 ELSE r[k]], n - 1)
<1> DEFINE r == RemoveAt(o, p)
           t == [k \in DOMAIN r |-> IF r[k] > o[p] THEN r[k] - 1 ELSE r[k]]
<1>0. Without(r, o[p], n)
  BY Remaining
<1>1. /\ r \in Seq(Nat)
      /\ Len(r) = n - 1
      /\ \A k \in 1..(n - 1) : r[k] \in 1..n /\ r[k] # o[p]
      /\ \A k, m \in 1..(n - 1) : r[k] = r[m] => k = m
      /\ \A i \in (1..n) \ {o[p]} : \E k \in 1..(n - 1) : r[k] = i
  BY <1>0 DEF Without
<1> HIDE DEF r
<1>2. o[p] \in 1..n
  BY DEF Perm
<1>3. DOMAIN r = 1..(n - 1)
  BY <1>1
<1> DEFINE down(x) == IF x > o[p] THEN x - 1 ELSE x
<1>4. \A k \in 1..(n - 1) : t[k] = down(r[k])
  BY <1>3
<1>5. \A x \in (1..n) \ {o[p]} : down(x) \in 1..(n - 1)
  BY <1>2
<1>6. \A x, y \in (1..n) \ {o[p]} : down(x) = down(y) => x = y
  BY <1>2
<1>7. ASSUME NEW i \in 1..(n - 1) PROVE \E x \in (1..n) \ {o[p]} : down(x) = i
  <2> DEFINE x == IF i < o[p] THEN i ELSE i + 1
  <2>1. x \in (1..n) \ {o[p]} /\ down(x) = i
    BY <1>2
  <2>2. QED
    BY <2>1
<1> HIDE DEF down
<1>8. \A k \in 1..(n - 1) : t[k] \in 1..(n - 1)
  <2>1. \A k \in 1..(n - 1) : r[k] \in (1..n) \ {o[p]}
    BY <1>1
  <2>2. QED
    BY <2>1, <1>4, <1>5
<1>9. t \in Seq(Nat) /\ Len(t) = n - 1
  <2>1. DOMAIN t = 1..(n - 1)
    BY <1>3
  <2>2. t \in [1..(n - 1) -> Nat]
    <3>1. t = [k \in 1..(n - 1) |-> t[k]]
      BY <1>3
    <3>2. QED
      BY <1>8, <3>1
  <2>3. n - 1 \in Nat
    OBVIOUS
  <2>4. QED
    BY <2>1, <2>2, <2>3
<1> HIDE DEF t
<1>10. ASSUME NEW k \in 1..(n - 1), NEW m \in 1..(n - 1), t[k] = t[m]
       PROVE  k = m
  <2>1. r[k] \in (1..n) \ {o[p]} /\ r[m] \in (1..n) \ {o[p]}
    BY <1>1
  <2>2. down(r[k]) = down(r[m])
    BY <1>4, <1>10
  <2>3. r[k] = r[m]
    BY <1>6, <2>1, <2>2
  <2>4. QED
    BY <1>1, <2>3
<1>11. ASSUME NEW i \in 1..(n - 1) PROVE \E k \in 1..(n - 1) : t[k] = i
  <2>1. PICK x \in (1..n) \ {o[p]} : down(x) = i
    BY <1>7
  <2>2. PICK k \in 1..(n - 1) : r[k] = x
    BY <1>1
  <2>3. QED
    BY <1>4, <2>1, <2>2
<1>12. Perm(t, n - 1)
  BY <1>8, <1>9, <1>10, <1>11 DEF Perm
<1>13. QED
  BY <1>12 DEF t, r

(* A new program gets the next index and the top position.                 *)
LEMMA AddOnTop ==
  ASSUME NEW n \in Nat, NEW o, Perm(o, n)
  PROVE  LET t == Append(o, n + 1) IN Perm(t, n + 1) /\ t[n + 1] = n + 1
<1> DEFINE t == Append(o, n + 1)
<1>1. o \in Seq(Nat) /\ Len(o) = n
  BY DEF Perm
<1>2. \A k \in 1..n : o[k] \in 1..n
  BY DEF Perm
<1>3. \A k, m \in 1..n : o[k] = o[m] => k = m
  BY DEF Perm
<1>4. \A i \in 1..n : \E k \in 1..n : o[k] = i
  BY DEF Perm
<1>5. /\ t \in Seq(Nat)
      /\ Len(t) = n + 1
      /\ \A k \in 1..n : t[k] = o[k]
      /\ t[n + 1] = n + 1
  BY <1>1, AppendProperties
<1> HIDE DEF t
<1>6. ASSUME NEW k \in 1..(n + 1) PROVE k = n + 1 \/ k \in 1..n
  OBVIOUS
<1>7. \A k \in 1..(n + 1) : t[k] \in 1..(n + 1)
  BY <1>2, <1>5, <1>6
<1>8. \A k, m \in 1..(n + 1) : t[k] = t[m] => k = m
  BY <1>2, <1>3, <1>5, <1>6
<1>9. ASSUME NEW i \in 1..(n + 1) PROVE \E k \in 1..(n + 1) : t[k] = i
  <2>1. CASE i = n + 1
    BY <2>1, <1>5
  <2>2. CASE i \in 1..n
    <3>1. PICK k \in 1..n : o[k] = i
      BY <2>2, <1>4
    <3>2. QED
      BY <3>1, <1>5
  <2>3. QED
    BY <2>1, <2>2, <1>6
<1>10. Perm(t, n + 1)
  BY <1>5, <1>7, <1>8, <1>9 DEF Perm
<1>11. QED
  BY <1>5, <1>10 DEF t
=============================================================================
