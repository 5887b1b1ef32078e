---------------------------- MODULE DesktopProofs ----------------------------
(***************************************************************************)
(* Proofs about Exec, for every registry of programs, every capacity and   *)
(* every geometry; and about Desktop, which drives it: what the three      *)
(* memories of the left button say of each other, for every set of         *)
(* programs, whatever they launch and close.                               *)
(***************************************************************************)
EXTENDS Desktop, SeqLemmas

State == [wins : Seq(Window), order : Seq(Nat), current : Nat,
          maximized : Nat, dragging : Nat]

Unique(w) == \A i, j \in 1..Len(w) : w[i].name = w[j].name => i = j

(* The dragged window is shown; the maximized one fills the desktop.       *)
Special(w, max, drag) ==
  /\ drag # 0 => ~w[drag].minimized
  /\ max # 0 => w[max].rect = Full

(***************************************************************************)
(* What every helper of exec.c preserves, whoever has the focus.           *)
(***************************************************************************)
Base(s) ==
  /\ s \in State
  /\ Len(s.wins) <= MaxActive
  /\ Perm(s.order, Len(s.wins))
  /\ s.current \in 0..Len(s.wins)
  /\ s.maximized \in 0..Len(s.wins)
  /\ s.dragging \in 0..Len(s.wins)
  /\ Unique(s.wins)
  /\ Special(s.wins, s.maximized, s.dragging)

(***************************************************************************)
(* The focus: restored by focus_active_index, and lost between the removal *)
(* of a window and the focus that follows it.                              *)
(***************************************************************************)
Top(w, o, i) ==
  /\ i = 0 => \A j \in 1..Len(w) : w[j].minimized
  /\ i # 0 => /\ ~w[i].minimized
              /\ \E k \in 1..Len(w) :
                   /\ o[k] = i
                   /\ \A m \in (k + 1)..Len(w) : w[o[m]].minimized

Focused(s) == Len(s.wins) > 0 /\ Top(s.wins, s.order, s.current)

Well(s) == Base(s) /\ Focused(s)

(* The inductive invariant.                                                *)
IInv == Well(Now) /\ prevLeft \in BOOLEAN

-----------------------------------------------------------------------------
(* A window of the table is replaced.                                      *)
LEMMA Replaced ==
  ASSUME NEW w \in Seq(Window), NEW i \in 1..Len(w), NEW x \in Window,
         NEW v, v = [w EXCEPT ![i] = x]
  PROVE  /\ v \in Seq(Window)
         /\ Len(v) = Len(w)
         /\ \A j \in 1..Len(w) : v[j] = IF j = i THEN x ELSE w[j]
  BY ExceptSeq

(* A window in the order has one position there.                           *)
LEMMA PositionOf ==
  ASSUME NEW s, Perm(s.order, Len(s.wins)), Len(s.wins) \in Nat, NEW i \in Index(s)
  PROVE  \E p \in 1..Len(s.wins) :
           s.order[p] = i /\ Unordered(s, i) = RemoveAt(s.order, p)
<1> DEFINE n == Len(s.wins)
<1>1. s.order \in Seq(Nat) /\ Len(s.order) = n
  BY DEF Perm
<1>2. PICK p \in 1..n : s.order[p] = i
  BY DEF Perm, Index
<1>3. \A k \in 1..n : s.order[k] = i => k = p
  BY <1>2 DEF Perm
<1>4. Positions(s, i) = {p}
  BY <1>1, <1>2, <1>3 DEF Positions
<1>5. Min({p}) \in {p}
  BY MinOfNats, {p} \in SUBSET Nat, {p} # {}
<1>6. Unordered(s, i) = RemoveAt(s.order, p)
  BY <1>4, <1>5 DEF Unordered
<1>7. QED
  BY <1>2, <1>6

(***************************************************************************)
(* focus_active_index leaves a sound window table when the order it        *)
(* appends the window to becomes a permutation by it.                      *)
(***************************************************************************)
LEMMA Focusing ==
  ASSUME NEW s \in State, NEW i \in 1..Len(s.wins),
         Len(s.wins) <= MaxActive,
         NEW t, t = Append(Unordered(s, i), i),
         Perm(t, Len(s.wins)), t[Len(s.wins)] = i,
         s.maximized \in 0..Len(s.wins), s.dragging \in 0..Len(s.wins),
         Unique(s.wins), Special(s.wins, s.maximized, s.dragging)
  PROVE  Well(Focus(s, i))
<1> DEFINE n == Len(s.wins)
           x == [s.wins[i] EXCEPT !.minimized = FALSE]
           v == [s.wins EXCEPT ![i] = x]
           f == Focus(s, i)
<1>1. n \in Nat /\ s.wins \in Seq(Window) /\ s.wins[i] \in Window
  BY DEF State
<1>2. /\ x \in Window
      /\ x.name = s.wins[i].name
      /\ x.rect = s.wins[i].rect
      /\ x.minimized = FALSE
  BY <1>1 DEF Window
<1>3. f = [wins |-> v, order |-> t, current |-> i,
           maximized |-> s.maximized, dragging |-> s.dragging]
  BY DEF Focus
<1>4. /\ f.wins = v
      /\ f.order = t
      /\ f.current = i
      /\ f.maximized = s.maximized
      /\ f.dragging = s.dragging
  BY <1>3
<1> HIDE DEF f, x
<1>5. /\ v \in Seq(Window)
      /\ Len(v) = n
      /\ \A j \in 1..n : v[j] = IF j = i THEN x ELSE s.wins[j]
  BY <1>1, <1>2, Replaced
<1> HIDE DEF v
<1>6. Unique(v)
  <2>1. \A j \in 1..n : v[j].name = s.wins[j].name
    BY <1>2, <1>5
  <2>2. QED
    BY <1>5, <2>1 DEF Unique
<1>7. Special(v, s.maximized, s.dragging)
  BY <1>2, <1>5, SMTT(60) DEF Special
<1>8. Top(v, t, i)
  <2>1. ~v[i].minimized
    BY <1>2, <1>5
  <2>2. i # 0 /\ n \in 1..n /\ (n + 1)..n = {}
    BY <1>1
  <2>3. \A m \in (n + 1)..n : v[t[m]].minimized
    BY <2>2
  <2>4. \E k \in 1..n : t[k] = i /\ \A m \in (k + 1)..n : v[t[m]].minimized
    BY <2>2, <2>3
  <2> HIDE DEF n
  <2>5. QED
    BY <1>5, <2>1, <2>2, <2>4 DEF Top
<1>9. f \in State
  BY <1>1, <1>3, <1>5 DEF State, Perm
<1>10. QED
  BY <1>1, <1>4, <1>5, <1>6, <1>7, <1>8, <1>9 DEF Well, Base, Focused, f

(* focus_active_index puts the focus on a shown window on top.             *)
LEMMA FocusWell ==
  ASSUME NEW s, Base(s), NEW i \in Index(s)
  PROVE  Well(Focus(s, i))
<1> DEFINE n == Len(s.wins)
           t == Append(Unordered(s, i), i)
<1>1. s \in State /\ n \in Nat /\ i \in 1..n /\ Perm(s.order, n)
  BY DEF Base, State, Index
<1>2. Perm(t, n) /\ t[n] = i
  <2>1. PICK p \in 1..n : s.order[p] = i /\ Unordered(s, i) = RemoveAt(s.order, p)
    BY <1>1, PositionOf
  <2> DEFINE u == Append(RemoveAt(s.order, p), s.order[p])
  <2>2. Perm(u, n) /\ u[n] = s.order[p]
    BY <1>1, MoveToTop
  <2>3. QED
    BY <2>1, <2>2
<1>3. /\ n <= MaxActive
      /\ s.maximized \in 0..n
      /\ s.dragging \in 0..n
      /\ Unique(s.wins)
      /\ Special(s.wins, s.maximized, s.dragging)
  BY DEF Base
<1>4. QED
  BY <1>1, <1>2, <1>3, Focusing

(***************************************************************************)
(* remove_active_index renumbers the order, the focus, the maximized and   *)
(* the dragged window consistently.                                        *)
(***************************************************************************)
LEMMA RemoveBase ==
  ASSUME NEW s, Base(s), NEW i \in Index(s)
  PROVE  /\ Base(RemoveActive(s, i))
         /\ Len(RemoveActive(s, i).wins) = Len(s.wins) - 1
<1> DEFINE n == Len(s.wins)
           v == RemoveAt(s.wins, i)
           left == Unordered(s, i)
           t == [k \in DOMAIN left |-> IF left[k] > i THEN left[k] - 1 ELSE left[k]]
           r == RemoveActive(s, i)
           from(k) == IF k < i THEN k ELSE k + 1
<1>1. s \in State /\ n \in Nat /\ i \in 1..n /\ Perm(s.order, n)
  BY DEF Base, State, Index
<1>2. s.wins \in Seq(Window)
  BY <1>1 DEF State
<1>3. r = [wins |-> v, order |-> t, current |-> Repair(s.current, i),
           maximized |-> Repair(s.maximized, i), dragging |-> Repair(s.dragging, i)]
  BY DEF RemoveActive
<1>4. /\ r.wins = v
      /\ r.order = t
      /\ r.current = Repair(s.current, i)
      /\ r.maximized = Repair(s.maximized, i)
      /\ r.dragging = Repair(s.dragging, i)
  BY <1>3
<1> HIDE DEF r
<1>5. /\ v \in Seq(Window)
      /\ Len(v) = n - 1
      /\ \A k \in 1..(n - 1) : v[k] = s.wins[from(k)]
  BY <1>1, <1>2, RemoveAtProperties
<1>6. Perm(t, n - 1)
  <2>1. PICK p \in 1..n : s.order[p] = i /\ left = RemoveAt(s.order, p)
    BY <1>1, PositionOf
  <2> DEFINE q == RemoveAt(s.order, p)
  <2>2. Perm([k \in DOMAIN q |-> IF q[k] > s.order[p] THEN q[k] - 1 ELSE q[k]], n - 1)
    BY <1>1, DropIndex
  <2>3. QED
    BY <2>1, <2>2
<1> HIDE DEF v, t
<1>7. ASSUME NEW x \in 0..n
      PROVE  /\ Repair(x, i) \in 0..(n - 1)
             /\ Repair(x, i) # 0 => x # 0 /\ v[Repair(x, i)] = s.wins[x]
  <2>1. /\ Repair(x, i) \in 0..(n - 1)
        /\ Repair(x, i) # 0 => x # 0 /\ from(Repair(x, i)) = x
    BY <1>1 DEF Repair
  <2> HIDE DEF from
  <2>2. QED
    BY <1>1, <1>5, <2>1
<1>8. /\ s.current \in 0..n
      /\ s.maximized \in 0..n
      /\ s.dragging \in 0..n
      /\ n <= MaxActive
      /\ Unique(s.wins)
      /\ Special(s.wins, s.maximized, s.dragging)
  BY DEF Base
<1>9. Unique(v)
  <2>1. \A j, k \in 1..(n - 1) : /\ from(j) \in 1..n /\ from(k) \in 1..n
                                 /\ from(j) = from(k) => j = k
    BY <1>1
  <2> HIDE DEF from
  <2>2. ASSUME NEW j \in 1..(n - 1), NEW k \in 1..(n - 1), v[j].name = v[k].name
        PROVE  j = k
    <3>1. s.wins[from(j)].name = s.wins[from(k)].name
      BY <1>5, <2>2
    <3>2. from(j) = from(k)
      BY <1>8, <2>1, <3>1 DEF Unique
    <3>3. QED
      BY <2>1, <3>2
  <2>3. QED
    BY <1>5, <2>2 DEF Unique
<1>10. Special(v, Repair(s.maximized, i), Repair(s.dragging, i))
  <2>1. /\ Repair(s.dragging, i) # 0 =>
             s.dragging # 0 /\ v[Repair(s.dragging, i)] = s.wins[s.dragging]
        /\ Repair(s.maximized, i) # 0 =>
             s.maximized # 0 /\ v[Repair(s.maximized, i)] = s.wins[s.maximized]
    BY <1>7, <1>8
  <2>2. QED
    BY <1>8, <2>1 DEF Special
<1>11. /\ Repair(s.current, i) \in 0..(n - 1)
       /\ Repair(s.maximized, i) \in 0..(n - 1)
       /\ Repair(s.dragging, i) \in 0..(n - 1)
  BY <1>7, <1>8
<1>12. r \in State
  BY <1>3, <1>5, <1>6, <1>11 DEF State, Perm
<1>13. n - 1 <= MaxActive
  BY <1>1, <1>8, CapacityAssumption
<1>14. QED
  BY <1>4, <1>5, <1>6, <1>9, <1>10, <1>11, <1>12, <1>13 DEF Base, r

(***************************************************************************)
(* exec_launch.  After a removal there is room for PROGMAN, so that the    *)
(* refusal of a full table never leaves the desktop without a focus.       *)
(***************************************************************************)
LEMMA LaunchWell ==
  ASSUME NEW s, Base(s), Focused(s) \/ Len(s.wins) < MaxActive, NEW p \in Program
  PROVE  Well(Launch(s, p))
<1> DEFINE n == Len(s.wins)
<1>1. s \in State /\ n \in Nat /\ Perm(s.order, n) /\ s.wins \in Seq(Window)
  BY DEF Base, State
<1>2. s.order \in Seq(Nat) /\ Len(s.order) = n
  BY <1>1 DEF Perm
<1>3. CASE Named(s, p) # {}
  <2>1. Named(s, p) \in SUBSET Nat /\ Named(s, p) \subseteq Index(s)
    BY <1>1 DEF Named, Index
  <2>2. Min(Named(s, p)) \in Index(s)
    BY <2>1, <1>3, MinOfNats
  <2>3. QED
    BY <2>2, <1>3, FocusWell DEF Launch
<1>4. CASE Named(s, p) = {} /\ n >= MaxActive
  <2>1. Focused(s)
    BY <1>1, <1>4, CapacityAssumption
  <2>2. QED
    BY <1>4, <2>1 DEF Launch, Well
<1>5. CASE Named(s, p) = {} /\ ~(n >= MaxActive)
  <2> DEFINE new == NewWindow(p, n + 1)
             v == Append(s.wins, new)
             g == [s EXCEPT !.wins = v]
             t == Append(s.order, n + 1)
  <2>1. n + 1 \in 1..MaxActive
    BY <1>1, <1>5, CapacityAssumption
  <2>2. new \in Window /\ new.name = p
    BY <2>1, GeometryAssumption DEF NewWindow, Window, Rect
  <2>3. /\ v \in Seq(Window)
        /\ Len(v) = n + 1
        /\ \A k \in 1..n : v[k] = s.wins[k]
        /\ v[n + 1] = new
    BY <1>1, <2>2, AppendProperties
  <2> HIDE DEF new, v
  <2>4. /\ g.wins = v
        /\ g.order = s.order
        /\ g.maximized = s.maximized
        /\ g.dragging = s.dragging
        /\ g \in State
    BY <1>1, <2>3 DEF State
  <2>5. Perm(t, n + 1) /\ t[n + 1] = n + 1
    BY <1>1, AddOnTop
  <2>6. Unordered(g, n + 1) = s.order
    <3>1. \A k \in 1..n : s.order[k] \in 1..n
      BY <1>1 DEF Perm
    <3>2. Positions(g, n + 1) = {}
      BY <1>1, <1>2, <2>4, <3>1 DEF Positions
    <3>3. QED
      BY <2>4, <3>2 DEF Unordered
  <2>7. Unique(v)
    <3>1. \A k \in 1..n : s.wins[k].name # p
      BY <1>5 DEF Named, Index
    <3>2. \A k, m \in 1..n : s.wins[k].name = s.wins[m].name => k = m
      BY DEF Base, Unique
    <3>3. ASSUME NEW k \in 1..(n + 1) PROVE k = n + 1 \/ k \in 1..n
      BY <1>1
    <3>4. \A k, m \in 1..(n + 1) : v[k].name = v[m].name => k = m
      BY <2>2, <2>3, <3>1, <3>2, <3>3
    <3>5. QED
      BY <2>3, <3>4 DEF Unique
  <2>8. /\ s.maximized \in 0..n
        /\ s.dragging \in 0..n
        /\ Special(s.wins, s.maximized, s.dragging)
    BY DEF Base
  <2>9. /\ s.maximized \in 0..(n + 1)
        /\ s.dragging \in 0..(n + 1)
        /\ Special(v, s.maximized, s.dragging)
    BY <1>1, <2>3, <2>8 DEF Special
  <2> HIDE DEF g
  <2>10. Well(Focus(g, n + 1))
    <3>1. n + 1 \in 1..Len(g.wins) /\ Len(g.wins) <= MaxActive
      BY <1>1, <2>1, <2>3, <2>4
    <3>2. /\ Perm(t, Len(g.wins))
          /\ t[Len(g.wins)] = n + 1
          /\ t = Append(Unordered(g, n + 1), n + 1)
      BY <2>3, <2>4, <2>5, <2>6
    <3>3. /\ g.maximized \in 0..Len(g.wins)
          /\ g.dragging \in 0..Len(g.wins)
          /\ Unique(g.wins)
          /\ Special(g.wins, g.maximized, g.dragging)
      BY <2>3, <2>4, <2>7, <2>9
    <3>4. QED
      BY <2>4, <3>1, <3>2, <3>3, Focusing
  <2>11. Launch(s, p) = Focus(g, n + 1)
    BY <1>2, <1>5 DEF Launch, g, v, new
  <2>12. QED
    BY <2>10, <2>11
<1>6. QED
  BY <1>3, <1>4, <1>5

(* exec_close_current focuses a window that is there, or brings PROGMAN.   *)
LEMMA CloseCurrentWell ==
  ASSUME NEW s, Well(s)
  PROVE  Well(CloseCurrent(s))
<1>1. /\ Base(s)
      /\ Focused(s)
      /\ s.current \in 0..Len(s.wins)
      /\ Len(s.wins) \in Nat
      /\ Len(s.wins) <= MaxActive
      /\ PROGMAN \in Program
  BY ProgramAssumption DEF Well, Base, State
<1>2. CASE s.current = 0
  BY <1>1, <1>2, LaunchWell DEF CloseCurrent
<1>3. CASE s.current # 0
  <2> DEFINE rest == Others(s, s.current)
             next == IF rest = {} THEN 0 ELSE s.order[Max(rest)]
             left == RemoveActive(s, s.current)
             bare == [left EXCEPT !.current = 0]
  <2>1. s.current \in Index(s)
    BY <1>1, <1>3 DEF Index
  <2>2. Base(left) /\ Len(left.wins) = Len(s.wins) - 1
    BY <1>1, <2>1, RemoveBase
  <2>3. CloseCurrent(s) = IF next \in Index(left) THEN Focus(left, next)
                          ELSE Launch(bare, PROGMAN)
    BY <1>3 DEF CloseCurrent
  <2> HIDE DEF next, left
  <2>4. CASE next \in Index(left)
    BY <2>2, <2>3, <2>4, FocusWell
  <2>5. CASE next \notin Index(left)
    <3>1. left \in State
      BY <2>2 DEF Base
    <3>2. /\ bare \in State
          /\ bare.wins = left.wins
          /\ bare.order = left.order
          /\ bare.current = 0
          /\ bare.maximized = left.maximized
          /\ bare.dragging = left.dragging
      BY <3>1 DEF State
    <3> HIDE DEF bare
    <3>3. Base(bare)
      BY <2>2, <3>2, <1>1, SMTT(60) DEF Base
    <3>4. Len(bare.wins) < MaxActive
      BY <1>1, <2>2, <3>2, CapacityAssumption
    <3>5. QED
      BY <1>1, <2>3, <2>5, <3>3, <3>4, LaunchWell
  <2>6. QED
    BY <2>4, <2>5
<1>4. QED
  BY <1>2, <1>3
(* Two fields of the window state are assigned together.                   *)
LEMMA TwoFields ==
  ASSUME NEW s \in State, NEW v \in Seq(Window), NEW c \in Nat
  PROVE  /\ [s EXCEPT !.wins = v, !.maximized = c] =
              [wins |-> v, order |-> s.order, current |-> s.current,
               maximized |-> c, dragging |-> s.dragging]
         /\ [s EXCEPT !.wins = v, !.current = c] =
              [wins |-> v, order |-> s.order, current |-> c,
               maximized |-> s.maximized, dragging |-> s.dragging]
<1> DEFINE g == [s EXCEPT !.wins = v]
           h == [g EXCEPT !.maximized = c]
           k == [g EXCEPT !.current = c]
<1>1. /\ g \in State
      /\ g.wins = v
      /\ g.order = s.order
      /\ g.current = s.current
      /\ g.maximized = s.maximized
      /\ g.dragging = s.dragging
  BY DEF State
<1>2. /\ h = [s EXCEPT !.wins = v, !.maximized = c]
      /\ k = [s EXCEPT !.wins = v, !.current = c]
  OBVIOUS
<1> HIDE DEF g
<1>3. h = [wins |-> v, order |-> s.order, current |-> s.current,
           maximized |-> c, dragging |-> s.dragging]
  BY <1>1, SMTT(60) DEF State
<1>4. k = [wins |-> v, order |-> s.order, current |-> c,
           maximized |-> s.maximized, dragging |-> s.dragging]
  <2>1. /\ k \in State
        /\ k.wins = v
        /\ k.order = s.order
        /\ k.current = c
        /\ k.maximized = s.maximized
        /\ k.dragging = s.dragging
    BY <1>1 DEF State
  <2> HIDE DEF k
  <2>2. QED
    BY <2>1 DEF State
<1>5. QED
  BY <1>2, <1>3, <1>4 DEF g

(***************************************************************************)
(* Moving, maximizing or dragging a window touches neither the order nor   *)
(* the focus.                                                              *)
(***************************************************************************)
LEMMA Reshaped ==
  ASSUME NEW s, Well(s), NEW i \in Index(s),
         NEW x \in Window, x.name = s.wins[i].name,
         x.minimized = s.wins[i].minimized,
         NEW max \in 0..Len(s.wins), NEW drag \in 0..Len(s.wins),
         max # 0 => IF max = i THEN x.rect = Full ELSE s.wins[max].rect = Full,
         drag # 0 => ~s.wins[drag].minimized
  PROVE  Well([wins |-> [s.wins EXCEPT ![i] = x], order |-> s.order,
               current |-> s.current, maximized |-> max, dragging |-> drag])
<1> DEFINE n == Len(s.wins)
           v == [s.wins EXCEPT ![i] = x]
           r == [wins |-> v, order |-> s.order,
                 current |-> s.current, maximized |-> max, dragging |-> drag]
<1>1. /\ s \in State
      /\ n \in Nat
      /\ n > 0
      /\ n <= MaxActive
      /\ i \in 1..n
      /\ Perm(s.order, n)
      /\ s.wins \in Seq(Window)
      /\ s.current \in 0..n
      /\ Unique(s.wins)
      /\ Top(s.wins, s.order, s.current)
  BY DEF Well, Base, Focused, State, Index
<1>2. /\ r.wins = v
      /\ r.order = s.order
      /\ r.current = s.current
      /\ r.maximized = max
      /\ r.dragging = drag
  OBVIOUS
<1>0. r \in [wins : {v}, order : {s.order}, current : {s.current},
            maximized : {max}, dragging : {drag}]
  OBVIOUS
<1> HIDE DEF r
<1>3. /\ v \in Seq(Window)
      /\ Len(v) = n
      /\ \A j \in 1..n : v[j] = IF j = i THEN x ELSE s.wins[j]
  BY <1>1, Replaced
<1> HIDE DEF v
<1>4. \A j \in 1..n : v[j].name = s.wins[j].name /\ v[j].minimized = s.wins[j].minimized
  BY <1>3
<1>5. Unique(v)
  BY <1>1, <1>3, <1>4 DEF Unique
<1>6. Special(v, max, drag)
  <2>1. max # 0 => v[max].rect = Full
    BY <1>3
  <2>2. drag # 0 => ~v[drag].minimized
    BY <1>4
  <2>3. QED
    BY <2>1, <2>2 DEF Special
<1>7. Top(v, s.order, s.current)
  <2>1. s.current = 0 => \A j \in 1..n : v[j].minimized
    BY <1>1, <1>4 DEF Top
  <2>2. ASSUME s.current # 0
        PROVE  /\ ~v[s.current].minimized
               /\ \E k \in 1..n : /\ s.order[k] = s.current
                                  /\ \A m \in (k + 1)..n : v[s.order[m]].minimized
    <3>1. PICK k \in 1..n : /\ s.order[k] = s.current
                            /\ \A m \in (k + 1)..n : s.wins[s.order[m]].minimized
      BY <1>1, <2>2 DEF Top
    <3>2. \A m \in (k + 1)..n : s.order[m] \in 1..n
      <4>1. \A m \in 1..n : s.order[m] \in 1..n
        BY <1>1 DEF Perm
      <4>2. QED
        BY <1>1, <4>1
    <3>3. \A m \in (k + 1)..n : v[s.order[m]].minimized
      BY <1>4, <3>1, <3>2
    <3>4. ~v[s.current].minimized
      BY <1>1, <1>4, <2>2 DEF Top
    <3>5. QED
      BY <3>1, <3>3, <3>4
  <2> HIDE DEF n
  <2>3. QED
    BY <1>3, <2>1, <2>2 DEF Top
<1>8. r \in State
  BY <1>0, <1>1, <1>3 DEF State
<1>9. QED
  BY <1>1, <1>2, <1>3, <1>5, <1>6, <1>7, <1>8 DEF Well, Base, Focused, r, v

(* The maximize button.                                                    *)
LEMMA MaximizeWell ==
  ASSUME NEW s, Well(s), NEW i \in Index(s)
  PROVE  Well(ToggleMaximize(s, i))
<1> DEFINE w == s.wins[i]
<1>1. /\ s \in State
      /\ i \in 1..Len(s.wins)
      /\ Len(s.wins) \in Nat
      /\ s.wins \in Seq(Window)
      /\ s.dragging \in 0..Len(s.wins)
      /\ s.dragging # 0 => ~s.wins[s.dragging].minimized
  BY DEF Well, Base, State, Index, Special
<1>2. w \in Window
  BY <1>1
<1>3. CASE s.maximized = i
  <2> DEFINE x == [w EXCEPT !.rect = w.saved]
  <2>1. x \in Window /\ x.name = w.name /\ x.minimized = w.minimized
    BY <1>2 DEF Window
  <2> DEFINE v == [s.wins EXCEPT ![i] = x]
             r == [s EXCEPT !.wins = v, !.maximized = 0]
  <2> HIDE DEF x
  <2>2. v \in Seq(Window)
    BY <1>1, <2>1, Replaced
  <2>3. r = [wins |-> v, order |-> s.order, current |-> s.current,
             maximized |-> 0, dragging |-> s.dragging]
    <3> HIDE DEF v
    <3>1. 0 \in Nat
      BY <1>1
    <3>2. QED
      BY <1>1, <2>2, <3>1, TwoFields, ZenonT(60)
  <2> HIDE DEF r
  <2>4. 0 \in 0..Len(s.wins)
    BY <1>1
  <2>5. Well([wins |-> v, order |-> s.order, current |-> s.current,
              maximized |-> 0, dragging |-> s.dragging])
    BY <1>1, <2>1, <2>4, Reshaped
  <2>6. QED
    BY <1>3, <2>3, <2>5 DEF ToggleMaximize, x, r
<1>4. CASE s.maximized # i
  <2> DEFINE x == [w EXCEPT !.saved = w.rect, !.rect = Full]
  <2>1. /\ x \in Window
        /\ x.name = w.name
        /\ x.minimized = w.minimized
        /\ x.rect = Full
    BY <1>2 DEF Window, Rect
  <2> DEFINE v == [s.wins EXCEPT ![i] = x]
             r == [s EXCEPT !.wins = v, !.maximized = i]
  <2> HIDE DEF x
  <2>2. v \in Seq(Window)
    BY <1>1, <2>1, Replaced
  <2>3. r = [wins |-> v, order |-> s.order, current |-> s.current,
             maximized |-> i, dragging |-> s.dragging]
    <3> HIDE DEF v
    <3>1. i \in Nat
      BY <1>1
    <3>2. QED
      BY <1>1, <2>2, <3>1, TwoFields, ZenonT(60)
  <2> HIDE DEF r
  <2>4. i \in 0..Len(s.wins)
    BY <1>1
  <2>5. Well([wins |-> v, order |-> s.order, current |-> s.current,
              maximized |-> i, dragging |-> s.dragging])
    BY <1>1, <2>1, <2>4, Reshaped
  <2>6. QED
    BY <1>4, <2>3, <2>5 DEF ToggleMaximize, x, r
<1>5. QED
  BY <1>3, <1>4

(* The minimize button hands the focus to the topmost window still shown.  *)
LEMMA MinimizeWell ==
  ASSUME NEW s, Well(s), NEW i \in Index(s), s.dragging # i
  PROVE  Well(Minimize(s, i))
<1> DEFINE n == Len(s.wins)
           x == [s.wins[i] EXCEPT !.minimized = TRUE]
           v == [s.wins EXCEPT ![i] = x]
           shown == { k \in Others(s, i) : ~s.wins[s.order[k]].minimized }
           c == IF shown = {} THEN 0 ELSE s.order[Max(shown)]
           r == Minimize(s, i)
<1>1. /\ s \in State
      /\ n \in Nat
      /\ n > 0
      /\ n <= MaxActive
      /\ i \in 1..n
      /\ Perm(s.order, n)
      /\ s.wins \in Seq(Window)
      /\ s.maximized \in 0..n
      /\ s.dragging \in 0..n
      /\ Unique(s.wins)
      /\ Special(s.wins, s.maximized, s.dragging)
  BY DEF Well, Base, Focused, State, Index
<1>2. s.order \in Seq(Nat) /\ Len(s.order) = n /\ \A k \in 1..n : s.order[k] \in 1..n
  BY <1>1 DEF Perm
<1>3. s.wins[i] \in Window
  BY <1>1
<1>4. /\ x \in Window
      /\ x.name = s.wins[i].name
      /\ x.rect = s.wins[i].rect
      /\ x.minimized = TRUE
  BY <1>3 DEF Window
<1>5. r = [s EXCEPT !.wins = v, !.current = c]
  BY DEF Minimize
<1> HIDE DEF r, x
<1>6. /\ v \in Seq(Window)
      /\ Len(v) = n
      /\ \A j \in 1..n : v[j] = IF j = i THEN x ELSE s.wins[j]
  BY <1>1, <1>4, Replaced
<1> HIDE DEF v
<1>7. shown = { k \in 1..n : s.order[k] # i /\ ~s.wins[s.order[k]].minimized }
  BY <1>2 DEF Others
<1> HIDE DEF shown
<1>8. c \in 0..n /\ Top(v, s.order, c)
  <2>1. CASE shown = {}
    <3>1. \A k \in 1..n : s.order[k] = i \/ s.wins[s.order[k]].minimized
      BY <1>7, <2>1
    <3>2. \A j \in 1..n : \E k \in 1..n : s.order[k] = j
      BY <1>1 DEF Perm
    <3>3. \A j \in 1..n : v[j].minimized
      BY <1>4, <1>6, <3>1, <3>2, SMTT(60)
    <3>4. QED
      BY <1>6, <2>1, <3>3 DEF Top
  <2>2. CASE shown # {}
    <3> DEFINE k == Max(shown)
    <3>1. k \in shown /\ \A m \in shown : m <= k
      BY <1>1, <1>7, <2>2, MaxOfInterval
    <3> HIDE DEF k
    <3>2. k \in 1..n /\ s.order[k] # i /\ ~s.wins[s.order[k]].minimized
      BY <1>7, <3>1
    <3>3. ASSUME NEW m \in (k + 1)..n PROVE v[s.order[m]].minimized
      <4>1. m \in 1..n /\ m \notin shown
        BY <1>1, <3>1, <3>2
      <4>2. s.order[m] = i \/ s.wins[s.order[m]].minimized
        BY <1>7, <4>1
      <4>3. QED
        BY <1>2, <1>4, <1>6, <4>1, <4>2
    <3>4. c = s.order[k] /\ c \in 1..n /\ ~v[c].minimized
      BY <1>2, <1>6, <2>2, <3>2 DEF k
    <3> HIDE DEF c
    <3>5. c # 0 /\ c \in 0..n
      BY <3>4
    <3>6. QED
      BY <1>6, <3>2, <3>3, <3>4, <3>5 DEF Top
  <2>3. QED
    BY <2>1, <2>2
<1> HIDE DEF c
<1>9. /\ r.wins = v
      /\ r.order = s.order
      /\ r.current = c
      /\ r.maximized = s.maximized
      /\ r.dragging = s.dragging
      /\ r \in State
  <2>1. r = [wins |-> v, order |-> s.order, current |-> c,
             maximized |-> s.maximized, dragging |-> s.dragging]
    <3>1. c \in Nat
      BY <1>1, <1>8
    <3>2. QED
      BY <1>1, <1>5, <1>6, <3>1, TwoFields
  <2>2. QED
    BY <1>1, <1>2, <1>6, <1>8, <2>1 DEF State
<1>10. Unique(v)
  <2>1. \A j \in 1..n : v[j].name = s.wins[j].name
    BY <1>4, <1>6
  <2>2. QED
    BY <1>1, <1>6, <2>1 DEF Unique
<1>11. Special(v, s.maximized, s.dragging)
  BY <1>1, <1>4, <1>6 DEF Special
<1>12. QED
  BY <1>1, <1>6, <1>8, <1>9, <1>10, <1>11 DEF Well, Base, Focused, r

(* Beginning and ending a drag.                                            *)
LEMMA DraggingWell ==
  ASSUME NEW s, Well(s), NEW d \in 0..Len(s.wins), d # 0 => ~s.wins[d].minimized
  PROVE  Well([s EXCEPT !.dragging = d])
<1> DEFINE r == [s EXCEPT !.dragging = d]
<1>1. s \in State /\ Len(s.wins) \in Nat
  BY DEF Well, Base, State
<1>2. /\ r.wins = s.wins
      /\ r.order = s.order
      /\ r.current = s.current
      /\ r.maximized = s.maximized
      /\ r.dragging = d
      /\ r \in State
  BY <1>1, SMTT(60) DEF State
<1> HIDE DEF r
<1>3. Special(s.wins, s.maximized, d)
  BY DEF Well, Base, Special
<1>4. QED
  BY <1>2, <1>3 DEF Well, Base, Focused, r

(* What a program does with a key or a click.                              *)
LEMMA HandledWell ==
  ASSUME NEW s, Well(s), NEW i \in Index(s), NEW t \in Handled(s, i)
  PROVE  Well(t)
<1>1. /\ Base(s)
      /\ Focused(s)
      /\ s.wins \in Seq(Window)
      /\ i \in 1..Len(s.wins)
  BY DEF Well, Base, State, Index
<1>2. Launches[s.wins[i].name] \subseteq Program
  <2>1. s.wins[i] \in Window
    BY <1>1
  <2>2. s.wins[i].name \in Program
    BY <2>1 DEF Window
  <2>3. QED
    BY <2>2, ProgramAssumption
<1>3. CASE t = s
  BY <1>3
<1>4. ASSUME NEW p \in Launches[s.wins[i].name], t = Launch(s, p) PROVE Well(t)
  BY <1>1, <1>2, <1>4, LaunchWell
<1>5. CASE t = CloseCurrent(s)
  BY <1>5, CloseCurrentWell
<1>6. QED
  BY <1>3, <1>4, <1>5 DEF Handled

-----------------------------------------------------------------------------
LEMMA InitIInv == Init => IInv
<1> SUFFICES ASSUME Init PROVE IInv
  OBVIOUS
<1> DEFINE w == NewWindow(PROGMAN, 1)
<1>1. w \in Window /\ w.minimized = FALSE
  BY ProgramAssumption, CapacityAssumption, GeometryAssumption
     DEF NewWindow, Window, Rect
<1>2. Now = [wins |-> <<w>>, order |-> <<1>>, current |-> 1,
             maximized |-> 0, dragging |-> 0]
  BY DEF Init, Now
<1> HIDE DEF w
<1>3. /\ Now.wins = <<w>>
      /\ Now.order = <<1>>
      /\ Now.current = 1
      /\ Now.maximized = 0
      /\ Now.dragging = 0
  BY <1>2
<1>4. /\ <<w>> \in Seq(Window) /\ Len(<<w>>) = 1 /\ <<w>>[1] = w
      /\ <<1>> \in Seq(Nat) /\ Len(<<1>>) = 1 /\ <<1>>[1] = 1
      /\ 1..1 = {1}
  BY <1>1
<1>5. Now \in State
  BY <1>2, <1>4 DEF State
<1>6. Perm(<<1>>, 1)
  BY <1>4 DEF Perm
<1>7. Unique(<<w>>)
  BY <1>4 DEF Unique
<1>8. Top(<<w>>, <<1>>, 1)
  <2>1. (1 + 1)..1 = {}
    OBVIOUS
  <2>2. QED
    BY <1>1, <1>4, <2>1 DEF Top
<1>9. Special(<<w>>, 0, 0)
  BY DEF Special
<1>10. 1 <= MaxActive
  BY CapacityAssumption
<1>11. prevLeft \in BOOLEAN
  BY DEF Init
<1>12. QED
  BY <1>3, <1>4, <1>5, <1>6, <1>7, <1>8, <1>9, <1>10, <1>11
     DEF IInv, Well, Base, Focused

(* Every step but an end of a drag and a drag is a step of the helpers.    *)
LEMMA NextIInv == IInv /\ [Next]_vars => IInv'
<1> SUFFICES ASSUME IInv, [Next]_vars PROVE IInv'
  OBVIOUS
<1>1. /\ Well(Now)
      /\ prevLeft \in BOOLEAN
      /\ Now.wins = wins
      /\ Now.order = order
      /\ Now.current = current
      /\ Now.maximized = maximized
      /\ Now.dragging = dragging
  BY DEF IInv, Now
<1>2. /\ wins \in Seq(Window)
      /\ DOMAIN wins = 1..Len(wins)
      /\ Len(wins) \in Nat
      /\ DOMAIN wins = Index(Now)
      /\ current \in 0..Len(wins)
      /\ maximized \in 0..Len(wins)
      /\ dragging \in 0..Len(wins)
      /\ maximized # 0 => wins[maximized].rect = Full
      /\ dragging # 0 => ~wins[dragging].minimized
      /\ \A k \in DOMAIN order : order[k] \in Index(Now)
  <2>1. wins \in Seq(Window)
    BY <1>1 DEF Well, Base, State
  <2>2. Perm(order, Len(wins))
    BY <1>1 DEF Well, Base
  <2>3. \A k \in DOMAIN order : order[k] \in 1..Len(wins)
    BY <2>2 DEF Perm
  <2>4. QED
    BY <1>1, <2>1, <2>3 DEF Well, Base, Special, Index
<1>3. ASSUME NEW f, Well(f), Become(f) PROVE Well(Now)'
  <2>1. f \in State
    BY <1>3 DEF Well, Base
  <2>2. f = [wins |-> f.wins, order |-> f.order, current |-> f.current,
             maximized |-> f.maximized, dragging |-> f.dragging]
    BY <2>1 DEF State
  <2>3. Now' = f
    BY <1>3, <2>2 DEF Become, Now
  <2>4. QED
    BY <1>3, <2>3
<1>4. ASSUME NEW i \in DOMAIN wins
      PROVE  /\ i \in Index(Now)
             /\ Well(Focus(Now, i))
             /\ i \in Index(Focus(Now, i))
             /\ Focus(Now, i).dragging = dragging
             /\ Focus(Now, i).current = i
  <2>1. i \in Index(Now)
    BY <1>2
  <2>2. Well(Focus(Now, i))
    BY <1>1, <2>1, FocusWell DEF Well
  <2>3. Focus(Now, i).current = i /\ Focus(Now, i).dragging = dragging
    BY <1>1 DEF Focus
  <2>4. i \in Index(Focus(Now, i))
    <3>1. Len(Focus(Now, i).wins) = Len(wins)
      BY <1>1, <1>2 DEF Focus
    <3>2. QED
      BY <1>2, <3>1 DEF Index
  <2>5. QED
    BY <2>1, <2>2, <2>3, <2>4
<1>5. CASE EndDrag
  <2> DEFINE r == [Now EXCEPT !.dragging = 0]
  <2>1. Well(r)
    <3>1. 0 \in 0..Len(Now.wins)
      BY <1>1, <1>2
    <3>2. QED
      BY <1>1, <3>1, DraggingWell
  <2>2. Become(r)
    BY <1>5 DEF EndDrag, Become, Now
  <2>3. QED
    BY <1>3, <1>5, <2>1, <2>2 DEF EndDrag, IInv
<1>6. ASSUME NEW spot \in Spots, Drag(spot) PROVE IInv'
  <2> DEFINE w == wins[dragging]
             x == [w EXCEPT !.rect = IF w.rect = Full THEN Full ELSE spot]
             r == [wins |-> [wins EXCEPT ![dragging] = x], order |-> order,
                   current |-> current, maximized |-> maximized,
                   dragging |-> dragging]
  <2>1. dragging \in 1..Len(wins) /\ w \in Window
    BY <1>2, <1>6 DEF Drag
  <2>2. /\ x \in Window
        /\ x.name = w.name
        /\ x.minimized = w.minimized
        /\ w.rect = Full => x.rect = Full
    BY <2>1 DEF Window, Rect
  <2>3. Become(r)
    BY <1>6 DEF Drag, Become
  <2> HIDE DEF x
  <2>4. maximized # 0 => IF maximized = dragging THEN x.rect = Full
                         ELSE wins[maximized].rect = Full
    BY <1>2, <2>2
  <2>5. Well(r)
    <3>1. /\ dragging \in Index(Now)
          /\ x.name = Now.wins[dragging].name
          /\ x.minimized = Now.wins[dragging].minimized
          /\ maximized \in 0..Len(Now.wins)
          /\ dragging \in 0..Len(Now.wins)
          /\ maximized # 0 => IF maximized = dragging THEN x.rect = Full
                              ELSE Now.wins[maximized].rect = Full
          /\ dragging # 0 => ~Now.wins[dragging].minimized
      BY <1>1, <1>2, <2>1, <2>2, <2>4
    <3> DEFINE t == [wins |-> [Now.wins EXCEPT ![dragging] = x],
                     order |-> Now.order, current |-> Now.current,
                     maximized |-> maximized, dragging |-> dragging]
    <3>2. Well(t)
      BY <1>1, <2>2, <3>1, Reshaped
    <3>3. QED
      BY <1>1, <3>2
  <2>6. QED
    BY <1>3, <1>6, <2>3, <2>5 DEF Drag, IInv
<1>7. ASSUME NEW i \in DOMAIN wins, PressClose(i) PROVE IInv'
  <2>1. Well(CloseCurrent(Focus(Now, i)))
    BY <1>4, CloseCurrentWell
  <2>2. QED
    BY <1>3, <1>7, <2>1 DEF PressClose, Press, IInv
<1>8. ASSUME NEW i \in DOMAIN wins, PressMaximize(i) PROVE IInv'
  <2>1. Well(ToggleMaximize(Focus(Now, i), i))
    BY <1>4, MaximizeWell
  <2>2. QED
    BY <1>3, <1>8, <2>1 DEF PressMaximize, Press, IInv
<1>9. ASSUME NEW i \in DOMAIN wins, PressMinimize(i) PROVE IInv'
  <2>1. Focus(Now, i).dragging # i
    BY <1>2, <1>4, <1>9 DEF PressMinimize, Press
  <2>2. Well(Minimize(Focus(Now, i), i))
    BY <1>4, <2>1, MinimizeWell
  <2>3. QED
    BY <1>3, <1>9, <2>2 DEF PressMinimize, Press, IInv
<1>10. ASSUME NEW i \in DOMAIN wins, PressTitle(i) PROVE IInv'
  <2> DEFINE f == Focus(Now, i)
  <2>1. /\ Well(f)
        /\ i \in 1..Len(f.wins)
        /\ ~f.wins[i].minimized
    BY <1>4 DEF Index, Well, Focused, Top
  <2> HIDE DEF f
  <2>2. i \in 0..Len(f.wins)
    BY <2>1
  <2>3. Well([f EXCEPT !.dragging = i])
    BY <2>1, <2>2, DraggingWell
  <2>4. QED
    BY <1>3, <1>10, <2>3 DEF PressTitle, Press, IInv, f
<1>11. ASSUME NEW i \in DOMAIN wins, PressContent(i) PROVE IInv'
  <2>1. PICK f \in Handled(Focus(Now, i), i) : Become(f)
    BY <1>11 DEF PressContent
  <2>2. Well(f)
    BY <1>4, HandledWell
  <2>3. QED
    BY <1>3, <1>11, <2>1, <2>2 DEF PressContent, Press, IInv
<1>12. ASSUME NEW left \in BOOLEAN, MouseElsewhere(left) PROVE IInv'
  <2>1. CASE current = 0
    BY <1>1, <1>3, <1>12, <2>1 DEF MouseElsewhere, IInv
  <2>2. CASE current # 0
    <3>1. PICK f \in Handled(Now, current) : Become(f)
      BY <1>12, <2>2 DEF MouseElsewhere
    <3>2. Well(f)
      BY <1>1, <1>2, <2>2, HandledWell
    <3>3. QED
      BY <1>3, <1>12, <3>1, <3>2 DEF MouseElsewhere, IInv
  <2>3. QED
    BY <2>1, <2>2
<1>13. CASE DeliverKey
  <2>1. PICK f \in Handled(Now, current) : Become(f)
    BY <1>13 DEF DeliverKey
  <2>2. Well(f)
    BY <1>1, <1>2, <1>13, HandledWell DEF DeliverKey
  <2>3. QED
    BY <1>1, <1>3, <1>13, <2>1, <2>2 DEF DeliverKey, IInv
<1>14. ASSUME NEW k \in DOMAIN order, RestoreWindow(k) PROVE IInv'
  <2>1. Well(Focus(Now, order[k]))
    BY <1>2, <1>4
  <2>2. QED
    BY <1>1, <1>3, <1>14, <2>1 DEF RestoreWindow, IInv
<1>15. CASE UNCHANGED vars
  BY <1>15 DEF vars, IInv, Now
<1>16. QED
  BY <1>5, <1>6, <1>7, <1>8, <1>9, <1>10, <1>11, <1>12, <1>13, <1>14, <1>15 DEF Next

-----------------------------------------------------------------------------
THEOREM Invariance == Spec => []IInv
  BY InitIInv, NextIInv, PTL DEF Spec

(***************************************************************************)
(* The variables keep their types, and every stored index names a window.  *)
(***************************************************************************)
THEOREM TypeCorrect == Spec => []TypeOK
<1>1. IInv => TypeOK
  <2> SUFFICES ASSUME IInv PROVE TypeOK
    OBVIOUS
  <2>1. /\ wins \in Seq(Window)
        /\ Perm(order, Len(wins))
        /\ current \in 0..Len(wins)
        /\ maximized \in 0..Len(wins)
        /\ dragging \in 0..Len(wins)
        /\ prevLeft \in BOOLEAN
    BY DEF IInv, Well, Base, State, Now
  <2>2. order \in Seq(DOMAIN wins)
    <3>1. order \in Seq(Nat) /\ Len(order) = Len(wins)
      BY <2>1 DEF Perm
    <3>2. \A k \in 1..Len(wins) : order[k] \in 1..Len(wins)
      BY <2>1 DEF Perm
    <3>3. DOMAIN wins = 1..Len(wins)
      BY <2>1
    <3>4. QED
      BY <3>1, <3>2, <3>3
  <2>3. QED
    BY <2>1, <2>2 DEF TypeOK
<1>2. QED
  BY <1>1, Invariance, PTL

(***************************************************************************)
(* The window order is a permutation of the open programs.                 *)
(***************************************************************************)
THEOREM OrderAlwaysPermutation == Spec => []OrderIsPermutation
<1>1. IInv => OrderIsPermutation
  <2> SUFFICES ASSUME IInv PROVE OrderIsPermutation
    OBVIOUS
  <2>1. wins \in Seq(Window) /\ Perm(order, Len(wins))
    BY DEF IInv, Well, Base, State, Now
  <2>2. DOMAIN wins = 1..Len(wins) /\ DOMAIN order = 1..Len(wins)
    BY <2>1 DEF Perm
  <2>3. QED
    BY <2>1, <2>2 DEF Perm, OrderIsPermutation
<1>2. QED
  BY <1>1, Invariance, PTL

(***************************************************************************)
(* A program never has two windows.                                        *)
(***************************************************************************)
THEOREM AlwaysOneWindowEach == Spec => []OneWindowEach
<1>1. IInv => OneWindowEach
  <2> SUFFICES ASSUME IInv PROVE OneWindowEach
    OBVIOUS
  <2>1. wins \in Seq(Window) /\ Unique(wins)
    BY DEF IInv, Well, Base, State, Now
  <2>2. QED
    BY <2>1 DEF Unique, OneWindowEach
<1>2. QED
  BY <1>1, Invariance, PTL

(***************************************************************************)
(* The focus is on the topmost window that is shown.                       *)
(***************************************************************************)
THEOREM FocusAlwaysTopmost == Spec => []FocusIsTopmost
<1>1. IInv => FocusIsTopmost
  <2> SUFFICES ASSUME IInv PROVE FocusIsTopmost
    OBVIOUS
  <2> DEFINE n == Len(wins)
             shown == { k \in DOMAIN order : ~wins[order[k]].minimized }
  <2>1. /\ n \in Nat
        /\ Perm(order, n)
        /\ current \in 0..n
        /\ Top(wins, order, current)
    BY DEF IInv, Well, Base, Focused, State, Now
  <2>2. /\ DOMAIN order = 1..n
        /\ \A k \in 1..n : order[k] \in 1..n
        /\ \A k, m \in 1..n : order[k] = order[m] => k = m
    BY <2>1 DEF Perm
  <2>3. CASE current = 0
    <3>1. shown = {}
      BY <2>1, <2>2, <2>3 DEF Top
    <3>2. QED
      BY <2>3, <3>1 DEF FocusIsTopmost
  <2>4. CASE current # 0
    <3>1. ~wins[current].minimized
      BY <2>1, <2>4 DEF Top
    <3>2. PICK k \in 1..n : /\ order[k] = current
                            /\ \A m \in (k + 1)..n : wins[order[m]].minimized
      BY <2>1, <2>4 DEF Top
    <3>3. k \in shown
      BY <2>2, <3>1, <3>2
    <3>4. \A m \in shown : m \in 1..n /\ m \notin (k + 1)..n
      BY <2>2, <3>2
    <3>5. shown \in SUBSET (1..n)
      BY <2>2
    <3>6. Max(shown) \in shown /\ \A m \in shown : m <= Max(shown)
      BY <2>1, <3>3, <3>5, MaxOfInterval
    <3> HIDE DEF shown
    <3> DEFINE top == Max(shown)
    <3>7. k <= top /\ top \in 1..n /\ top \notin (k + 1)..n
      BY <3>3, <3>4, <3>6
    <3> HIDE DEF top
    <3>8. top = k
      BY <2>1, <3>7
    <3>9. QED
      BY <3>2, <3>3, <3>8 DEF FocusIsTopmost, shown, top
  <2>5. QED
    BY <2>3, <2>4
<1>2. QED
  BY <1>1, Invariance, PTL

(***************************************************************************)
(* Some program is always open.                                            *)
(***************************************************************************)
THEOREM AlwaysSomeProgram == Spec => []NeverEmpty
<1>1. IInv => NeverEmpty
  <2> SUFFICES ASSUME IInv PROVE NeverEmpty
    OBVIOUS
  <2>1. Len(wins) > 0
    BY DEF IInv, Well, Focused, Now
  <2>2. Len(<<>>) = 0
    OBVIOUS
  <2>3. QED
    BY <2>1, <2>2 DEF NeverEmpty
<1>2. QED
  BY <1>1, Invariance, PTL

(***************************************************************************)
(* The dragged window is shown and the maximized one fills the desktop.    *)
(***************************************************************************)
THEOREM AlwaysSpecialWindows == Spec => []SpecialWindows
<1>1. IInv => SpecialWindows
  BY DEF IInv, Well, Base, Now, Special, SpecialWindows
<1>2. QED
  BY <1>1, Invariance, PTL

-----------------------------------------------------------------------------
(***************************************************************************)
(* How the windows of t come from those of s when the programs in gone are *)
(* closed: nobody else leaves, who stays keeps its place, and a window is  *)
(* dragged only if it was.                                                 *)
(***************************************************************************)
Follows(s, t, gone) ==
  /\ NamesOf(s.wins) \ gone \subseteq NamesOf(t.wins)
  /\ \A i \in 1..Len(s.wins), j \in 1..Len(t.wins) :
       t.wins[j].name = s.wins[i].name /\ s.wins[i].name \notin gone =>
         t.wins[j].rect = s.wins[i].rect /\ t.wins[j].saved = s.wins[i].saved
  /\ t.dragging # 0 =>
       s.dragging # 0 /\ t.wins[t.dragging].name = s.wins[s.dragging].name

LEMMA NamesOfWindows ==
  ASSUME NEW w \in Seq(Window)
  PROVE  NamesOf(w) = { w[i].name : i \in 1..Len(w) }
<1>1. DOMAIN w = 1..Len(w)
  OBVIOUS
<1> QED BY <1>1 DEF NamesOf

(* Names are unique, so that the same name is the same window.             *)
LEMMA FollowsItself ==
  ASSUME NEW s, Base(s)
  PROVE  Follows(s, s, {})
BY DEF Follows, Base, Unique

(* Windows that correspond one to one, with their names and places.        *)
LEMMA FollowsSame ==
  ASSUME NEW s, Base(s), NEW t, t.wins \in Seq(Window), Len(t.wins) = Len(s.wins),
         \A i \in 1..Len(s.wins) : /\ t.wins[i].name = s.wins[i].name
                                   /\ t.wins[i].rect = s.wins[i].rect
                                   /\ t.wins[i].saved = s.wins[i].saved,
         t.dragging \in {0, s.dragging}
  PROVE  Follows(s, t, {}) /\ NamesOf(t.wins) = NamesOf(s.wins)
<1>1. s.wins \in Seq(Window) /\ Unique(s.wins) /\ s.dragging \in 0..Len(s.wins)
  BY DEF Base, State
<1>2. NamesOf(t.wins) = NamesOf(s.wins)
  <2>1. /\ NamesOf(s.wins) = { s.wins[i].name : i \in 1..Len(s.wins) }
        /\ NamesOf(t.wins) = { t.wins[i].name : i \in 1..Len(s.wins) }
    BY <1>1, NamesOfWindows
  <2>2. ASSUME NEW x PROVE x \in NamesOf(t.wins) <=> x \in NamesOf(s.wins)
    BY <2>1
  <2> QED BY <2>2
<1>3. \A i, j \in 1..Len(s.wins) :
        t.wins[j].name = s.wins[i].name => i = j
  BY <1>1 DEF Unique
<1>4. t.dragging # 0 =>
        s.dragging # 0 /\ t.wins[t.dragging].name = s.wins[s.dragging].name
  <2>1. CASE t.dragging = 0
    BY <2>1
  <2>2. CASE t.dragging = s.dragging
    BY <1>1, <2>2
  <2> QED BY <2>1, <2>2
<1>5. ASSUME NEW i \in 1..Len(s.wins), NEW j \in 1..Len(t.wins),
             t.wins[j].name = s.wins[i].name
      PROVE  t.wins[j].rect = s.wins[i].rect /\ t.wins[j].saved = s.wins[i].saved
  <2>1. i = j
    BY <1>3, <1>5
  <2> QED BY <2>1
<1>6. NamesOf(s.wins) \ {} \subseteq NamesOf(t.wins)
  BY <1>2
<1>7. Follows(s, t, {})
  BY <1>4, <1>5, <1>6 DEF Follows
<1> QED BY <1>2, <1>7

LEMMA FollowsThen ==
  ASSUME NEW r, NEW s, NEW t, NEW g, r.wins \in Seq(Window), s.wins \in Seq(Window),
         t.wins \in Seq(Window),
         (Follows(r, s, {}) /\ Follows(s, t, g)) \/ (Follows(r, s, g) /\ Follows(s, t, {}))
  PROVE  Follows(r, t, g)
<1>1. /\ NamesOf(r.wins) = { r.wins[i].name : i \in 1..Len(r.wins) }
      /\ NamesOf(s.wins) = { s.wins[i].name : i \in 1..Len(s.wins) }
  BY NamesOfWindows
<1>2. NamesOf(r.wins) \ g \subseteq NamesOf(t.wins)
  BY DEF Follows
<1>3. ASSUME NEW i \in 1..Len(r.wins), NEW j \in 1..Len(t.wins),
             t.wins[j].name = r.wins[i].name, r.wins[i].name \notin g
      PROVE  t.wins[j].rect = r.wins[i].rect /\ t.wins[j].saved = r.wins[i].saved
  <2>1. r.wins[i].name \in NamesOf(s.wins)
    BY <1>1, <1>3 DEF Follows
  <2>2. PICK k \in 1..Len(s.wins) : s.wins[k].name = r.wins[i].name
    BY <1>1, <2>1
  <2> QED BY <1>3, <2>2 DEF Follows
<1>4. t.dragging # 0 =>
        r.dragging # 0 /\ t.wins[t.dragging].name = r.wins[r.dragging].name
  BY DEF Follows
<1> QED BY <1>2, <1>3, <1>4 DEF Follows

(* focus_active_index moves no window.                                     *)
LEMMA FocusFollows ==
  ASSUME NEW s, Base(s), NEW i \in Index(s)
  PROVE  Follows(s, Focus(s, i), {}) /\ NamesOf(Focus(s, i).wins) = NamesOf(s.wins)
<1> DEFINE x == [s.wins[i] EXCEPT !.minimized = FALSE]
           v == [s.wins EXCEPT ![i] = x]
           f == Focus(s, i)
<1>1. s.wins \in Seq(Window) /\ i \in 1..Len(s.wins) /\ s.wins[i] \in Window
  BY DEF Base, State, Index
<1>2. /\ x \in Window
      /\ x.name = s.wins[i].name
      /\ x.rect = s.wins[i].rect
      /\ x.saved = s.wins[i].saved
  BY <1>1 DEF Window
<1>3. f.wins = v /\ f.dragging = s.dragging
  BY DEF Focus
<1> HIDE DEF f, x
<1>4. /\ v \in Seq(Window)
      /\ Len(v) = Len(s.wins)
      /\ \A j \in 1..Len(s.wins) : v[j] = IF j = i THEN x ELSE s.wins[j]
  BY <1>1, <1>2, Replaced
<1> HIDE DEF v
<1>5. Follows(s, f, {}) /\ NamesOf(f.wins) = NamesOf(s.wins)
  BY <1>2, <1>3, <1>4, FollowsSame
<1> QED BY <1>5 DEF f

(* remove_active_index takes out one window and shifts the records of the  *)
(* others with their names.                                                *)
LEMMA RemoveFollows ==
  ASSUME NEW s, Base(s), NEW i \in Index(s)
  PROVE  /\ Follows(s, RemoveActive(s, i), {s.wins[i].name})
         /\ NamesOf(RemoveActive(s, i).wins) = NamesOf(s.wins) \ {s.wins[i].name}
<1> DEFINE n == Len(s.wins)
           v == RemoveAt(s.wins, i)
           r == RemoveActive(s, i)
           from(k) == IF k < i THEN k ELSE k + 1
           c == s.wins[i].name
<1>1. /\ s.wins \in Seq(Window) /\ n \in Nat /\ i \in 1..n
      /\ Unique(s.wins) /\ s.dragging \in 0..n
  BY DEF Base, State, Index
<1>2. r.wins = v /\ r.dragging = Repair(s.dragging, i)
  BY DEF RemoveActive
<1> HIDE DEF r
<1>3. /\ v \in Seq(Window)
      /\ Len(v) = n - 1
      /\ \A k \in 1..(n - 1) : v[k] = s.wins[from(k)]
  BY <1>1, RemoveAtProperties
<1> HIDE DEF v
<1>4. /\ \A k \in 1..(n - 1) : from(k) \in 1..n /\ from(k) # i
      /\ \A j \in 1..n : j # i => \E k \in 1..(n - 1) : from(k) = j
  <2>1. \A k \in 1..(n - 1) : from(k) \in 1..n /\ from(k) # i
    BY <1>1
  <2>2. ASSUME NEW j \in 1..n, j # i PROVE \E k \in 1..(n - 1) : from(k) = j
    <3> DEFINE k == IF j < i THEN j ELSE j - 1
    <3>1. k \in 1..(n - 1) /\ from(k) = j
      BY <1>1, <2>2
    <3> QED BY <3>1
  <2> QED BY <2>1, <2>2
<1>5. Repair(s.dragging, i) # 0 =>
        /\ s.dragging # 0
        /\ Repair(s.dragging, i) \in 1..(n - 1)
        /\ from(Repair(s.dragging, i)) = s.dragging
  BY <1>1 DEF Repair
<1> HIDE DEF from
<1>6. NamesOf(s.wins) = { s.wins[j].name : j \in 1..n }
      /\ NamesOf(v) = { v[k].name : k \in 1..(n - 1) }
  BY <1>1, <1>3, NamesOfWindows
<1>7. NamesOf(v) = NamesOf(s.wins) \ {c}
  <2>1. ASSUME NEW k \in 1..(n - 1) PROVE v[k].name \in NamesOf(s.wins) \ {c}
    <3>1. v[k] = s.wins[from(k)] /\ from(k) \in 1..n /\ from(k) # i
      BY <1>3, <1>4
    <3>2. s.wins[from(k)].name # c
      BY <1>1, <3>1 DEF Unique
    <3> QED BY <1>6, <3>1, <3>2
  <2>2. ASSUME NEW j \in 1..n, s.wins[j].name # c PROVE s.wins[j].name \in NamesOf(v)
    <3>1. PICK k \in 1..(n - 1) : from(k) = j
      BY <1>4, <2>2
    <3> QED BY <1>3, <1>6, <3>1
  <2> QED BY <1>6, <2>1, <2>2
<1>8. ASSUME NEW j \in 1..n, NEW k \in 1..(n - 1), v[k].name = s.wins[j].name
      PROVE  v[k] = s.wins[j]
  <2>1. v[k] = s.wins[from(k)] /\ from(k) \in 1..n
    BY <1>3, <1>4
  <2>2. from(k) = j
    BY <1>1, <1>8, <2>1 DEF Unique
  <2> QED BY <2>1, <2>2
<1>9. Repair(s.dragging, i) # 0 =>
        s.dragging # 0 /\ v[Repair(s.dragging, i)].name = s.wins[s.dragging].name
  BY <1>3, <1>5
<1>10. Follows(s, r, {c}) /\ NamesOf(r.wins) = NamesOf(s.wins) \ {c}
  BY <1>2, <1>3, <1>7, <1>8, <1>9 DEF Follows
<1> QED BY <1>10 DEF r

(* exec_launch adds the program it is asked for, or moves nobody.          *)
LEMMA LaunchFollows ==
  ASSUME NEW s, Base(s), NEW p \in Program
  PROVE  /\ Follows(s, Launch(s, p), {})
         /\ NamesOf(Launch(s, p).wins) \subseteq NamesOf(s.wins) \union {p}
<1> DEFINE n == Len(s.wins)
<1>1. /\ s \in State /\ n \in Nat /\ s.wins \in Seq(Window)
      /\ Perm(s.order, n) /\ s.dragging \in 0..n /\ Unique(s.wins)
  BY DEF Base, State
<1>2. CASE Named(s, p) # {}
  <2>1. Named(s, p) \in SUBSET Nat /\ Named(s, p) \subseteq Index(s)
    BY <1>1 DEF Named, Index
  <2>2. Min(Named(s, p)) \in Index(s)
    BY <2>1, <1>2, MinOfNats
  <2> QED BY <2>2, <1>2, FocusFollows DEF Launch
<1>3. CASE Named(s, p) = {} /\ (n >= MaxActive \/ Len(s.order) >= MaxActive)
  BY <1>3, FollowsItself DEF Launch
<1>4. CASE Named(s, p) = {} /\ ~(n >= MaxActive \/ Len(s.order) >= MaxActive)
  <2> DEFINE new == NewWindow(p, n + 1)
             v == Append(s.wins, new)
             g == [s EXCEPT !.wins = v]
             x == [v[n + 1] EXCEPT !.minimized = FALSE]
             u == [v EXCEPT ![n + 1] = x]
             l == Launch(s, p)
  <2>1. n + 1 \in 1..MaxActive
    BY <1>1, <1>4, CapacityAssumption
  <2>2. new \in Window /\ new.name = p
    BY <2>1, GeometryAssumption DEF NewWindow, Window, Rect
  <2>3. l = Focus(g, n + 1)
    BY <1>4 DEF Launch
  <2>4. g.wins = v /\ g.dragging = s.dragging
    BY <1>1 DEF State
  <2>5. l.wins = u /\ l.dragging = s.dragging
    BY <2>3, <2>4 DEF Focus
  <2> HIDE DEF new, g, l
  <2>6. /\ v \in Seq(Window)
        /\ Len(v) = n + 1
        /\ \A k \in 1..n : v[k] = s.wins[k]
        /\ v[n + 1] = new
    BY <1>1, <2>2, AppendProperties
  <2> HIDE DEF v
  <2>7. x \in Window /\ x.name = p
    BY <2>2, <2>6 DEF Window
  <2> HIDE DEF x
  <2>8. n + 1 \in 1..Len(v)
    BY <1>1, <2>6
  <2>9. /\ u \in Seq(Window)
        /\ Len(u) = n + 1
        /\ \A j \in 1..(n + 1) : u[j] = IF j = n + 1 THEN x ELSE v[j]
    BY <2>6, <2>7, <2>8, Replaced
  <2> HIDE DEF u
  <2>10. /\ \A k \in 1..n : u[k] = s.wins[k]
         /\ u[n + 1].name = p
    BY <1>1, <2>6, <2>7, <2>9
  <2>11. \A k \in 1..n : s.wins[k].name # p
    BY <1>4 DEF Named, Index
  <2>12. /\ NamesOf(s.wins) = { s.wins[j].name : j \in 1..n }
         /\ NamesOf(u) = { u[j].name : j \in 1..(n + 1) }
    BY <1>1, <2>9, NamesOfWindows
  <2>13. \A j \in 1..(n + 1) : j \in 1..n \/ j = n + 1
    BY <1>1
  <2>14. \A j \in 1..n : j \in 1..(n + 1)
    BY <1>1
  <2>15. NamesOf(s.wins) \subseteq NamesOf(u)
    BY <2>10, <2>12, <2>14
  <2>16. NamesOf(u) \subseteq NamesOf(s.wins) \union {p}
    BY <2>10, <2>12, <2>13
  <2>17. ASSUME NEW i \in 1..n, NEW j \in 1..(n + 1), u[j].name = s.wins[i].name
         PROVE  u[j].rect = s.wins[i].rect /\ u[j].saved = s.wins[i].saved
    <3>1. j \in 1..n
      BY <2>10, <2>11, <2>13, <2>17
    <3>2. j = i
      BY <1>1, <2>10, <2>17, <3>1 DEF Unique
    <3> QED BY <2>10, <3>2
  <2>18. s.dragging # 0 => u[s.dragging].name = s.wins[s.dragging].name
    BY <1>1, <2>10
  <2>19. /\ Follows(s, l, {})
         /\ NamesOf(l.wins) \subseteq NamesOf(s.wins) \union {p}
    BY <2>5, <2>9, <2>15, <2>16, <2>17, <2>18 DEF Follows
  <2> QED BY <2>19 DEF l
<1> QED BY <1>2, <1>3, <1>4

-----------------------------------------------------------------------------
(* The program of the focused window, if there is one.                     *)
Focal(s) == IF s.current = 0 THEN {} ELSE {s.wins[s.current].name}

(***************************************************************************)
(* exec_close_current takes away the focused program at most, and adds     *)
(* PROGMAN at most.                                                        *)
(***************************************************************************)
LEMMA CloseFollows ==
  ASSUME NEW s, Well(s)
  PROVE  /\ Follows(s, CloseCurrent(s), Focal(s))
         /\ NamesOf(CloseCurrent(s).wins)
              \subseteq (NamesOf(s.wins) \ Focal(s)) \union {PROGMAN}
<1> DEFINE c == s.current
           rest == Others(s, c)
           next == IF rest = {} THEN 0 ELSE s.order[Max(rest)]
           left == RemoveActive(s, c)
           bare == [left EXCEPT !.current = 0]
<1>1. Base(s) /\ Focused(s) /\ s.wins \in Seq(Window) /\ c \in 0..Len(s.wins)
  BY DEF Well, Base, State
<1>2. PROGMAN \in Program
  BY ProgramAssumption
<1>3. CASE c = 0
  <2>1. CloseCurrent(s) = Launch(s, PROGMAN) /\ Focal(s) = {}
    BY <1>3 DEF CloseCurrent, Focal
  <2>2. /\ Follows(s, Launch(s, PROGMAN), {})
        /\ NamesOf(Launch(s, PROGMAN).wins) \subseteq NamesOf(s.wins) \union {PROGMAN}
    BY <1>1, <1>2, LaunchFollows
  <2> QED BY <2>1, <2>2
<1>4. CASE c # 0
  <2>1. c \in Index(s) /\ Focal(s) = {s.wins[c].name}
    BY <1>1, <1>4 DEF Index, Focal
  <2>2. CloseCurrent(s) = IF next \in Index(left) THEN Focus(left, next)
                          ELSE Launch(bare, PROGMAN)
    BY <1>4 DEF CloseCurrent
  <2>3. /\ Base(left)
        /\ Follows(s, left, Focal(s))
        /\ NamesOf(left.wins) = NamesOf(s.wins) \ Focal(s)
    BY <1>1, <2>1, RemoveBase, RemoveFollows
  <2> HIDE DEF left, next
  <2>4. /\ left \in State /\ left.wins \in Seq(Window)
        /\ bare.wins = left.wins /\ bare.order = left.order
        /\ bare.maximized = left.maximized /\ bare.dragging = left.dragging
        /\ bare.current = 0 /\ bare \in State
    BY <2>3 DEF Base, State
  <2>5. Base(bare)
    BY <2>3, <2>4 DEF Base
  <2>6. Follows(left, bare, {})
    BY <2>3, <2>4, FollowsItself DEF Follows
  <2> HIDE DEF bare
  <2>7. CASE next \in Index(left)
    <3> DEFINE f == Focus(left, next)
    <3>1. /\ Well(f)
          /\ Follows(left, f, {})
          /\ NamesOf(f.wins) = NamesOf(left.wins)
      BY <2>3, <2>7, FocusWell, FocusFollows
    <3>2. CloseCurrent(s) = f
      BY <2>2, <2>7
    <3> HIDE DEF f
    <3>3. f.wins \in Seq(Window)
      BY <3>1 DEF Well, Base, State
    <3>4. Follows(s, f, Focal(s))
      BY <1>1, <2>3, <2>4, <3>1, <3>3, FollowsThen
    <3> QED BY <2>3, <3>1, <3>2, <3>4
  <2>8. CASE next \notin Index(left)
    <3> DEFINE f == Launch(bare, PROGMAN)
    <3>1. CloseCurrent(s) = f
      BY <2>2, <2>8
    <3>2. /\ Follows(bare, f, {})
          /\ NamesOf(f.wins) \subseteq NamesOf(bare.wins) \union {PROGMAN}
      BY <1>2, <2>5, LaunchFollows
    <3>3. Well(CloseCurrent(s))
      BY CloseCurrentWell
    <3> HIDE DEF f
    <3>4. f.wins \in Seq(Window) /\ bare.wins \in Seq(Window)
      BY <2>4, <3>1, <3>3 DEF Well, Base, State
    <3>5. Follows(s, bare, Focal(s))
      BY <1>1, <2>3, <2>4, <2>6, <3>4, FollowsThen
    <3>6. Follows(s, f, Focal(s))
      BY <1>1, <3>2, <3>4, <3>5, FollowsThen
    <3> QED BY <2>3, <2>4, <3>1, <3>2, <3>6
  <2> QED BY <2>7, <2>8
<1> QED BY <1>1, <1>3, <1>4

(***************************************************************************)
(* How the windows move when a program handles a key or the mouse: at most *)
(* one program goes, and only PROGMAN can then be new.                     *)
(***************************************************************************)
Moved(s, t) ==
  \/ Follows(s, t, {})
  \/ \E n : /\ Follows(s, t, {n})
            /\ NamesOf(t.wins) \subseteq (NamesOf(s.wins) \ {n}) \union {PROGMAN}

LEMMA CloseMoved ==
  ASSUME NEW s, Well(s)
  PROVE  Moved(s, CloseCurrent(s))
<1>1. /\ Follows(s, CloseCurrent(s), Focal(s))
      /\ NamesOf(CloseCurrent(s).wins)
           \subseteq (NamesOf(s.wins) \ Focal(s)) \union {PROGMAN}
  BY CloseFollows
<1>2. Focal(s) = {} \/ \E n : Focal(s) = {n}
  BY DEF Focal
<1> QED BY <1>1, <1>2 DEF Moved

LEMMA HandledMoved ==
  ASSUME NEW s, Well(s), NEW i \in Index(s), NEW t \in Handled(s, i)
  PROVE  Moved(s, t)
<1>1. Base(s) /\ s.wins[i].name \in Program
  <2>1. Base(s) /\ s.wins \in Seq(Window) /\ i \in 1..Len(s.wins)
    BY DEF Well, Base, State, Index
  <2>2. s.wins[i] \in Window
    BY <2>1
  <2> QED BY <2>1, <2>2 DEF Window
<1>2. CASE t = s
  BY <1>1, <1>2, FollowsItself DEF Moved
<1>3. ASSUME NEW p \in Launches[s.wins[i].name], t = Launch(s, p) PROVE Moved(s, t)
  <2>1. p \in Program
    BY <1>1, ProgramAssumption
  <2> QED BY <1>1, <1>3, <2>1, LaunchFollows DEF Moved
<1>4. CASE t = CloseCurrent(s)
  BY <1>4, CloseMoved
<1> QED BY <1>2, <1>3, <1>4 DEF Handled

LEMMA MovedThen ==
  ASSUME NEW r, NEW s, NEW t, r.wins \in Seq(Window), s.wins \in Seq(Window),
         t.wins \in Seq(Window), Follows(r, s, {}),
         NamesOf(s.wins) = NamesOf(r.wins), Moved(s, t)
  PROVE  Moved(r, t)
<1>1. CASE Follows(s, t, {})
  <2>1. Follows(r, t, {})
    BY <1>1, FollowsThen
  <2> QED BY <2>1 DEF Moved
<1>2. ASSUME NEW n, Follows(s, t, {n}),
             NamesOf(t.wins) \subseteq (NamesOf(s.wins) \ {n}) \union {PROGMAN}
      PROVE  Moved(r, t)
  <2>1. Follows(r, t, {n})
    BY <1>2, FollowsThen
  <2> QED BY <1>2, <2>1 DEF Moved
<1> QED BY <1>1, <1>2 DEF Moved

-----------------------------------------------------------------------------
(* What the two action properties of Exec say of two states of the windows.*)
DragStays(s, t) ==
  s.dragging # 0 /\ t.dragging # 0 =>
    t.wins[t.dragging].name = s.wins[s.dragging].name

OthersStay(s, t) ==
  NamesOf(t.wins) # NamesOf(s.wins) =>
    /\ \A p, q \in NamesOf(s.wins) \ NamesOf(t.wins) : p = q
    /\ \A i \in 1..Len(s.wins), j \in 1..Len(t.wins) :
         t.wins[j].name = s.wins[i].name =>
           t.wins[j].rect = s.wins[i].rect /\ t.wins[j].saved = s.wins[i].saved

(***************************************************************************)
(* A program that closes and is open again can only be PROGMAN, which then *)
(* is the one that was closed: no name has come or gone.                   *)
(***************************************************************************)
LEMMA MovedStays ==
  ASSUME NEW s, NEW t, s.wins \in Seq(Window), t.wins \in Seq(Window), Moved(s, t)
  PROVE  DragStays(s, t) /\ OthersStay(s, t)
<1>1. /\ NamesOf(s.wins) = { s.wins[i].name : i \in 1..Len(s.wins) }
      /\ NamesOf(t.wins) = { t.wins[i].name : i \in 1..Len(t.wins) }
  BY NamesOfWindows
<1>2. DragStays(s, t)
  BY DEF Moved, Follows, DragStays
<1>3. CASE Follows(s, t, {})
  <2>1. /\ \A p, q \in NamesOf(s.wins) \ NamesOf(t.wins) : p = q
        /\ \A i \in 1..Len(s.wins), j \in 1..Len(t.wins) :
             t.wins[j].name = s.wins[i].name =>
               t.wins[j].rect = s.wins[i].rect /\ t.wins[j].saved = s.wins[i].saved
    BY <1>3 DEF Follows
  <2> QED BY <1>2, <2>1 DEF OthersStay
<1>4. ASSUME NEW n, Follows(s, t, {n}),
             NamesOf(t.wins) \subseteq (NamesOf(s.wins) \ {n}) \union {PROGMAN},
             NamesOf(t.wins) # NamesOf(s.wins)
      PROVE  /\ \A p, q \in NamesOf(s.wins) \ NamesOf(t.wins) : p = q
             /\ \A i \in 1..Len(s.wins), j \in 1..Len(t.wins) :
                  t.wins[j].name = s.wins[i].name =>
                    t.wins[j].rect = s.wins[i].rect /\ t.wins[j].saved = s.wins[i].saved
  <2>1. NamesOf(s.wins) \ {n} \subseteq NamesOf(t.wins)
    BY <1>4 DEF Follows
  <2>2. \A p, q \in NamesOf(s.wins) \ NamesOf(t.wins) : p = q
    BY <2>1
  <2>3. ASSUME NEW i \in 1..Len(s.wins), NEW j \in 1..Len(t.wins),
               t.wins[j].name = s.wins[i].name
        PROVE  t.wins[j].rect = s.wins[i].rect /\ t.wins[j].saved = s.wins[i].saved
    <3>1. s.wins[i].name \in NamesOf(s.wins) /\ s.wins[i].name \in NamesOf(t.wins)
      BY <1>1, <2>3
    <3>2. ASSUME s.wins[i].name = n PROVE NamesOf(t.wins) = NamesOf(s.wins)
      <4>1. n = PROGMAN
        BY <1>4, <3>1, <3>2
      <4>2. ASSUME NEW x PROVE x \in NamesOf(t.wins) <=> x \in NamesOf(s.wins)
        BY <1>4, <2>1, <3>1, <3>2, <4>1
      <4> QED BY <4>2
    <3>3. s.wins[i].name \notin {n}
      BY <1>4, <3>2
    <3> QED BY <1>4, <2>3, <3>3 DEF Follows
  <2> QED BY <2>2, <2>3
<1> QED BY <1>2, <1>3, <1>4 DEF Moved, OthersStay

(* A window changes its place or its state, and none its program.          *)
LEMMA SameNames ==
  ASSUME NEW w \in Seq(Window), NEW i \in 1..Len(w), NEW x \in Window, x.name = w[i].name,
         NEW v, v = [w EXCEPT ![i] = x]
  PROVE  /\ NamesOf(v) = NamesOf(w)
         /\ \A j \in 1..Len(w) : v[j].name = w[j].name
<1>1. /\ v \in Seq(Window)
      /\ Len(v) = Len(w)
      /\ \A j \in 1..Len(w) : v[j] = IF j = i THEN x ELSE w[j]
  BY Replaced
<1>2. \A j \in 1..Len(w) : v[j].name = w[j].name
  BY <1>1
<1>3. /\ NamesOf(w) = { w[j].name : j \in 1..Len(w) }
      /\ NamesOf(v) = { v[j].name : j \in 1..Len(w) }
  BY <1>1, NamesOfWindows
<1>4. ASSUME NEW y PROVE y \in NamesOf(v) <=> y \in NamesOf(w)
  BY <1>2, <1>3
<1> QED BY <1>2, <1>4

LEMMA ButtonsKeepNames ==
  ASSUME NEW s, Well(s), NEW i \in Index(s)
  PROVE  /\ NamesOf(ToggleMaximize(s, i).wins) = NamesOf(s.wins)
         /\ NamesOf(Minimize(s, i).wins) = NamesOf(s.wins)
         /\ ToggleMaximize(s, i).dragging = s.dragging
         /\ Minimize(s, i).dragging = s.dragging
<1> DEFINE w == s.wins[i]
           x == IF s.maximized = i THEN [w EXCEPT !.rect = w.saved]
                ELSE [w EXCEPT !.saved = w.rect, !.rect = Full]
           y == [w EXCEPT !.minimized = TRUE]
<1>1. s \in State /\ s.wins \in Seq(Window) /\ i \in 1..Len(s.wins) /\ w \in Window
  BY DEF Well, Base, State, Index
<1>2. /\ ToggleMaximize(s, i).wins = [s.wins EXCEPT ![i] = x]
      /\ ToggleMaximize(s, i).dragging = s.dragging
  BY <1>1 DEF ToggleMaximize, State
<1>3. /\ Minimize(s, i).wins = [s.wins EXCEPT ![i] = y]
      /\ Minimize(s, i).dragging = s.dragging
  BY <1>1 DEF Minimize, State
<1>4. x \in Window /\ x.name = w.name /\ y \in Window /\ y.name = w.name
  BY <1>1 DEF Window, Rect
<1> HIDE DEF x, y
<1> QED BY <1>1, <1>2, <1>3, <1>4, SameNames

(***************************************************************************)
(* Every step, by what it does to the windows.  While a drag lasts no      *)
(* press reaches a window, so that only keys, the taskbar and the drag     *)
(* itself move anything.                                                   *)
(***************************************************************************)
LEMMA StepStays ==
  ASSUME IInv, [Next]_vars
  PROVE  DragStays(Now, Now') /\ OthersStay(Now, Now')
<1>1. Well(Now) /\ Base(Now) /\ Well(Now') /\ Now' \in State
  <2>1. IInv'
    BY NextIInv
  <2> QED BY <2>1 DEF IInv, Well, Base
<1>2. /\ Now.wins = wins /\ Now.order = order /\ Now.current = current
      /\ Now.dragging = dragging
      /\ Now'.wins = wins' /\ Now'.dragging = dragging'
      /\ wins \in Seq(Window) /\ wins' \in Seq(Window)
      /\ Len(wins) \in Nat /\ Perm(order, Len(wins)) /\ current \in 0..Len(wins)
      /\ dragging \in 0..Len(wins)
  BY <1>1 DEF Now, Well, Base, State
<1> DEFINE Goal == DragStays(Now, Now') /\ OthersStay(Now, Now')
<1>3. ASSUME Moved(Now, Now') PROVE Goal
  BY <1>2, <1>3, MovedStays
<1>4. ASSUME NamesOf(wins') = NamesOf(wins),
             dragging # 0 /\ dragging' # 0 => wins'[dragging'].name = wins[dragging].name
      PROVE  Goal
  BY <1>2, <1>4 DEF DragStays, OthersStay
<1>5. ASSUME NEW i \in Index(Now), dragging = 0
      PROVE  /\ Well(Focus(Now, i))
             /\ Index(Focus(Now, i)) = Index(Now)
             /\ Focus(Now, i).wins \in Seq(Window)
             /\ Follows(Now, Focus(Now, i), {})
             /\ NamesOf(Focus(Now, i).wins) = NamesOf(wins)
  <2>1. Well(Focus(Now, i))
    BY <1>1, FocusWell
  <2>2. Follows(Now, Focus(Now, i), {}) /\ NamesOf(Focus(Now, i).wins) = NamesOf(wins)
    BY <1>1, <1>2, FocusFollows
  <2>3. Len(Focus(Now, i).wins) = Len(Now.wins)
    BY <1>2 DEF Focus
  <2> QED BY <2>1, <2>2, <2>3 DEF Index, Well, Base, State
<1>6. DOMAIN wins = 1..Len(wins) /\ Index(Now) = 1..Len(wins)
  BY <1>2 DEF Index
<1>7. ASSUME NEW s, s \in State, Become(s) PROVE Now' = s
  BY <1>7 DEF Become, Now, State
<1>8. CASE EndDrag
  BY <1>4, <1>8 DEF EndDrag
<1>9. ASSUME NEW spot \in Spots, Drag(spot) PROVE Goal
  <2> DEFINE x == [wins[dragging] EXCEPT !.rect = IF @ = Full THEN Full ELSE spot]
  <2>1. dragging \in 1..Len(wins) /\ wins' = [wins EXCEPT ![dragging] = x]
    BY <1>2, <1>9 DEF Drag
  <2>2. wins[dragging] \in Window
    BY <1>2, <2>1
  <2>3. x \in Window /\ x.name = wins[dragging].name
    BY <2>2 DEF Window, Rect
  <2> HIDE DEF x
  <2>4. ASSUME NEW v, v = wins'
        PROVE  NamesOf(v) = NamesOf(wins) /\ v[dragging].name = wins[dragging].name
    <3>1. PICK w, y, i : w = wins /\ y = x /\ i = dragging
      OBVIOUS
    <3>2. w \in Seq(Window) /\ y \in Window /\ i \in 1..Len(w)
      BY <1>2, <2>1, <2>3, <3>1
    <3>3. v = [w EXCEPT ![i] = y] /\ y.name = w[i].name
      BY <2>1, <2>3, <2>4, <3>1
    <3>4. NamesOf(v) = NamesOf(w) /\ \A j \in 1..Len(w) : v[j].name = w[j].name
      <4>1. NamesOf(v) = NamesOf(w)
        BY <3>2, <3>3, SameNames
      <4>2. ASSUME NEW j \in 1..Len(w) PROVE v[j].name = w[j].name
        BY <3>2, <3>3, SameNames
      <4> QED BY <4>1, <4>2
    <3> QED BY <3>1, <3>2, <3>4
  <2>5. dragging' = dragging
    BY <1>9 DEF Drag
  <2> QED BY <1>4, <2>4, <2>5
<1>10. ASSUME NEW i \in DOMAIN wins, PressClose(i) PROVE Goal
  <2> DEFINE f == Focus(Now, i)
             t == CloseCurrent(f)
  <2>1. dragging = 0 /\ Become(t)
    BY <1>10 DEF PressClose, Press
  <2>2. Well(f) /\ f.wins \in Seq(Window) /\ Follows(Now, f, {})
        /\ NamesOf(f.wins) = NamesOf(wins)
    BY <1>5, <1>6, <2>1
  <2> HIDE DEF f
  <2>3. Well(t) /\ Moved(f, t)
    BY <2>2, CloseCurrentWell, CloseMoved
  <2> HIDE DEF t
  <2>4. t \in State /\ t.wins \in Seq(Window) /\ Now' = t
    BY <1>7, <2>1, <2>3 DEF Well, Base, State
  <2> QED BY <1>2, <1>3, <2>2, <2>3, <2>4, MovedThen
<1>11. ASSUME NEW i \in DOMAIN wins, PressMaximize(i) \/ PressMinimize(i) \/ PressTitle(i)
       PROVE  Goal
  <2> DEFINE f == Focus(Now, i)
  <2>1. dragging = 0
    BY <1>11 DEF PressMaximize, PressMinimize, PressTitle, Press
  <2>2. Well(f) /\ i \in Index(f) /\ NamesOf(f.wins) = NamesOf(wins)
    BY <1>5, <1>6, <2>1
  <2>3. \/ Become(ToggleMaximize(f, i))
        \/ Become(Minimize(f, i))
        \/ Become([f EXCEPT !.dragging = i])
    BY <1>11 DEF PressMaximize, PressMinimize, PressTitle
  <2> HIDE DEF f
  <2>4. f \in State
    BY <2>2 DEF Well, Base
  <2>5. NamesOf(wins') = NamesOf(f.wins)
    BY <2>2, <2>3, <2>4, ButtonsKeepNames DEF Become, State
  <2> QED BY <1>4, <2>1, <2>2, <2>5
<1>12. ASSUME NEW i \in DOMAIN wins, PressContent(i) PROVE Goal
  <2> DEFINE f == Focus(Now, i)
  <2>1. dragging = 0
    BY <1>12 DEF PressContent, Press
  <2>2. PICK t \in Handled(f, i) : Become(t)
    BY <1>12 DEF PressContent
  <2>3. Well(f) /\ i \in Index(f) /\ f.wins \in Seq(Window) /\ Follows(Now, f, {})
        /\ NamesOf(f.wins) = NamesOf(wins)
    BY <1>5, <1>6, <2>1
  <2> HIDE DEF f
  <2>4. Well(t) /\ Moved(f, t)
    BY <2>2, <2>3, HandledWell, HandledMoved
  <2>5. t \in State /\ t.wins \in Seq(Window) /\ Now' = t
    BY <1>7, <2>2, <2>4 DEF Well, Base, State
  <2> QED BY <1>2, <1>3, <2>3, <2>4, <2>5, MovedThen
<1>13. ASSUME current # 0, NEW t \in Handled(Now, current), Become(t) PROVE Goal
  <2>1. current \in Index(Now)
    BY <1>2, <1>6, <1>13
  <2>2. Well(t) /\ Moved(Now, t)
    BY <1>1, <1>13, <2>1, HandledWell, HandledMoved
  <2>3. Now' = t
    BY <1>7, <1>13, <2>2 DEF Well, Base
  <2> QED BY <1>3, <2>2, <2>3
<1>14. ASSUME Become(Now) PROVE Goal
  <2>1. wins' = wins /\ dragging' = dragging
    BY <1>14 DEF Become, Now
  <2> QED BY <1>4, <2>1
<1>15. ASSUME NEW left \in BOOLEAN, MouseElsewhere(left) PROVE Goal
  BY <1>13, <1>14, <1>15 DEF MouseElsewhere
<1>16. CASE DeliverKey
  BY <1>13, <1>16 DEF DeliverKey
<1>17. ASSUME NEW k \in DOMAIN order, RestoreWindow(k) PROVE Goal
  <2>1. order[k] \in Index(Now)
    BY <1>2, <1>6, <1>17 DEF Perm
  <2> DEFINE f == Focus(Now, order[k])
  <2>2. Well(f) /\ Follows(Now, f, {})
    BY <1>1, <2>1, FocusWell, FocusFollows
  <2>3. Become(f)
    BY <1>17 DEF RestoreWindow
  <2> HIDE DEF f
  <2>4. Now' = f
    BY <1>7, <2>2, <2>3 DEF Well, Base
  <2> QED BY <1>3, <2>2, <2>4 DEF Moved
<1>18. CASE UNCHANGED vars
  <2>1. wins' = wins /\ dragging' = dragging
    BY <1>18 DEF vars
  <2> QED BY <1>4, <2>1
<1> QED
  BY <1>8, <1>9, <1>10, <1>11, <1>12, <1>15, <1>16, <1>17, <1>18 DEF Next

(***************************************************************************)
(* A drag stays with the window it began on.                               *)
(***************************************************************************)
THEOREM DragsKeepTheirWindow == Spec => DragKeepsWindow
<1>1. ASSUME IInv, [Next]_vars
      PROVE  [dragging # 0 /\ dragging' # 0 => NameOf(dragging)' = NameOf(dragging)]_vars
  <2>1. DragStays(Now, Now')
    BY <1>1, StepStays
  <2>2. dragging # 0 /\ dragging' # 0 => wins'[dragging'].name = wins[dragging].name
    BY <2>1 DEF DragStays, Now
  <2> QED BY <2>2 DEF NameOf
<1> QED BY <1>1, Invariance, PTL DEF Spec, DragKeepsWindow

(***************************************************************************)
(* A program that comes or goes disturbs no other window.                  *)
(***************************************************************************)
THEOREM ClosesKeepOthers == Spec => ClosingKeepsOthers
<1> DEFINE Kept ==
             NamesOf(wins') # NamesOf(wins) =>
               /\ \A p, q \in NamesOf(wins) \ NamesOf(wins') : p = q
               /\ \A i \in DOMAIN wins, j \in DOMAIN wins' :
                    wins'[j].name = wins[i].name =>
                      wins'[j].rect = wins[i].rect /\ wins'[j].saved = wins[i].saved
<1>1. ASSUME IInv, [Next]_vars PROVE [Kept]_vars
  <2>1. OthersStay(Now, Now')
    BY <1>1, StepStays
  <2>2. IInv'
    BY <1>1, NextIInv
  <2>3. wins \in Seq(Window) /\ wins' \in Seq(Window)
    BY <1>1, <2>2 DEF IInv, Well, Base, State, Now
  <2>4. DOMAIN wins = 1..Len(wins) /\ DOMAIN wins' = 1..Len(wins')
    BY <2>3
  <2> QED BY <2>1, <2>4 DEF OthersStay, Now
<1> QED BY <1>1, Invariance, PTL DEF Spec, ClosingKeepsOthers

-----------------------------------------------------------------------------
(***************************************************************************)
(* Desktop: the three memories of the left button.                         *)
(***************************************************************************)
DesktopTypes ==
  /\ button \in BOOLEAN
  /\ memory \in [Watched -> BOOLEAN]
  /\ taken \in [Receiver -> Nat]
  /\ away \subseteq Watched

(* A program that has taken the present press knows that the button is down.*)
TakenIsRemembered == button => \A p \in Watched : taken[p] >= 1 => memory[p]

(***************************************************************************)
(* A program that believes the button to be down has lost the focus while  *)
(* it was held, or it is the focused one and the last packet, which it was *)
(* given, had the button down.                                             *)
(***************************************************************************)
HoldersAreKnown ==
  \A p \in NamesOf(wins) \intersect Watched :
    memory[p] => p \in away \/ (prevLeft /\ dragging = 0 /\ p \in NameOf(current))

(* The inductive invariant.                                                *)
DesktopInv ==
  /\ IInv
  /\ DesktopTypes
  /\ MemoriesAgree
  /\ ActsOnce
  /\ TakenIsRemembered
  /\ HoldersAreKnown

-----------------------------------------------------------------------------
(* Every step of the desktop is one of the window manager, or leaves it.   *)
LEMMA StepsOfExec ==
  ASSUME [DesktopNext]_desktopVars
  PROVE  [Next]_vars
<1>1. CASE DesktopNext
  <2>1. CASE \E k \in DOMAIN order : PressTaskbar(k)
    BY <2>1 DEF PressTaskbar, Next
  <2>2. CASE PacketEndsDrag
    BY <2>2 DEF PacketEndsDrag, Next
  <2>3. CASE \E spot \in Spots : PacketDrags(spot)
    BY <2>3 DEF PacketDrags, Next
  <2>4. CASE \E i \in DOMAIN wins : PacketCloses(i)
    BY <2>4 DEF PacketCloses, Next
  <2>5. CASE \E i \in DOMAIN wins : PacketOnFrame(i)
    BY <2>5 DEF PacketOnFrame, Next
  <2>6. CASE \E i \in DOMAIN wins : PacketOnContent(i)
    BY <2>6 DEF PacketOnContent, Next
  <2>7. CASE \E left \in BOOLEAN : PacketElsewhere(left)
    BY <2>7 DEF PacketElsewhere, Next
  <2>8. CASE Key
    BY <2>8 DEF Key, Next
  <2> QED
    BY <1>1, <2>1, <2>2, <2>3, <2>4, <2>5, <2>6, <2>7, <2>8 DEF DesktopNext
<1>2. CASE UNCHANGED desktopVars
  BY <1>2 DEF desktopVars
<1> QED BY <1>1, <1>2

(* The receivers that are no programs.                                     *)
LEMMA Receivers ==
  /\ Watched \subseteq Receiver
  /\ "taskbar" \in Receiver /\ "taskbar" \notin Program
  /\ "windows" \in Receiver /\ "windows" \notin Program
  /\ "taskbar" # "windows"
BY WatchAssumption DEF Receiver

(***************************************************************************)
(* What a packet leaves behind once the window manager has it: it is given *)
(* to the focused program, unless it is a press or part of a drag, and a   *)
(* program that hears it is started neither by it nor dragged after it.    *)
(***************************************************************************)
LEMMA Remembering ==
  ASSUME DesktopInv, IInv', NEW left \in BOOLEAN, NEW heard, NEW closed,
         Remember(left, heard, closed), prevLeft' = left,
         prevLeft /\ dragging = 0 => NameOf(current) \subseteq heard,
         heard \intersect Started(closed) = {},
         heard = {} \/ dragging' = 0
  PROVE  DesktopInv'
<1>1. /\ button' = left
      /\ memory' = Noted(left, heard, closed)
      /\ taken' = [r \in Receiver |->
                     IF r \in Takers(left, heard)
                     THEN (IF button THEN taken[r] ELSE 0) + 1
                     ELSE IF button /\ left /\ r \in Continuing(closed) THEN taken[r]
                     ELSE 0]
      /\ away' = IF left THEN Left(heard) \intersect Continuing(closed)
                 ELSE (away \intersect Continuing(closed)) \ heard
  BY DEF Remember
<1>2. DesktopTypes'
  <2>1. DesktopTypes
    BY DEF DesktopInv
  <2>2. memory' \in [Watched -> BOOLEAN]
    BY <1>1, <2>1 DEF Noted, DesktopTypes
  <2>3. taken' \in [Receiver -> Nat]
    BY <1>1, <2>1 DEF DesktopTypes
  <2>4. away' \subseteq Watched
    BY <1>1, <2>1 DEF DesktopTypes, Left
  <2> QED BY <1>1, <2>2, <2>3, <2>4 DEF DesktopTypes
<1>3. MemoriesAgree'
  BY <1>1 DEF MemoriesAgree
<1>4. ActsOnce'
  <2>1. ASSUME NEW r \in Receiver, r \in Takers(left, heard), button PROVE taken[r] = 0
    <3>1. DesktopTypes /\ TakenIsRemembered /\ MemoriesAgree
      BY DEF DesktopInv
    <3>2. CASE r = "windows" /\ left /\ ~prevLeft
      BY <2>1, <3>1, <3>2 DEF MemoriesAgree, DesktopTypes
    <3>3. CASE r \in heard \intersect Watched /\ ~memory[r]
      <4>1. taken[r] \in Nat /\ ~(taken[r] >= 1)
        BY <2>1, <3>1, <3>3 DEF TakenIsRemembered, DesktopTypes
      <4> QED BY <4>1
    <3> QED BY <2>1, <3>2, <3>3 DEF Takers
  <2>2. ASSUME NEW r \in Receiver PROVE taken'[r] <= 1
    <3>1. taken[r] \in Nat /\ taken[r] <= 1
      BY DEF DesktopInv, DesktopTypes, ActsOnce
    <3> QED BY <1>1, <2>1, <3>1
  <2> QED BY <2>2 DEF ActsOnce
<1>5. TakenIsRemembered'
  <2> SUFFICES ASSUME left, NEW p \in Watched, taken'[p] >= 1
               PROVE  memory'[p]
    BY <1>1 DEF TakenIsRemembered
  <2>1. p \in Receiver /\ p # "windows"
    BY Receivers, WatchAssumption
  <2>2. memory'[p] = IF p \in heard THEN left
                     ELSE IF p \in Started(closed) THEN FALSE ELSE memory[p]
    BY <1>1 DEF Noted
  <2>3. CASE p \in Takers(left, heard)
    <3>1. p \in heard
      BY <2>1, <2>3 DEF Takers
    <3> QED BY <2>2, <3>1
  <2>4. CASE p \notin Takers(left, heard)
    <3>1. button /\ p \in Continuing(closed) /\ taken[p] >= 1
      <4>1. taken'[p] = IF button /\ left /\ p \in Continuing(closed) THEN taken[p] ELSE 0
        BY <1>1, <2>1, <2>4
      <4> QED BY <4>1
    <3>2. memory[p] /\ p \notin Started(closed)
      BY <3>1 DEF DesktopInv, TakenIsRemembered, Continuing
    <3> QED BY <2>2, <3>2
  <2> QED BY <2>3, <2>4
<1>6. HoldersAreKnown'
  <2> SUFFICES ASSUME NEW p \in Watched, p \in NamesOf(wins'), memory'[p]
               PROVE  p \in away' \/ (left /\ dragging' = 0 /\ p \in NameOf(current)')
    BY DEF HoldersAreKnown
  <2>1. memory'[p] = IF p \in heard THEN left
                     ELSE IF p \in Started(closed) THEN FALSE ELSE memory[p]
    BY <1>1 DEF Noted
  <2>2. CASE p \in heard
    <3>1. left /\ dragging' = 0
      BY <2>1, <2>2
    <3>2. p \in Continuing(closed)
      BY <2>2, Receivers DEF Continuing
    <3>3. CASE p \notin NameOf(current)'
      BY <1>1, <2>2, <3>1, <3>2, <3>3 DEF Left
    <3> QED BY <3>1, <3>3
  <2>3. CASE p \notin heard
    <3>1. p \notin Started(closed) /\ memory[p]
      BY <2>1, <2>3
    <3>2. p \in NamesOf(wins) /\ p \in Continuing(closed)
      BY <3>1, Receivers DEF Started, Continuing
    <3>3. p \in away
      BY <2>3, <3>1, <3>2 DEF DesktopInv, HoldersAreKnown
    <3> QED BY <1>1, <2>3, <3>2, <3>3 DEF Left
  <2> QED BY <2>2, <2>3
<1> QED BY <1>2, <1>3, <1>4, <1>5, <1>6 DEF DesktopInv

(***************************************************************************)
(* What the window manager does with the packets a program may hear leaves *)
(* a drag ended.                                                           *)
(***************************************************************************)
LEMMA HandlingStartsNoDrag ==
  ASSUME IInv, dragging = 0,
         \/ \E i \in DOMAIN wins : PressContent(i)
         \/ \E left \in BOOLEAN : MouseElsewhere(left)
         \/ DeliverKey
  PROVE  dragging' = 0
<1>1. /\ Well(Now) /\ Base(Now)
      /\ Now.wins = wins /\ Now.dragging = 0 /\ wins \in Seq(Window)
      /\ current \in 0..Len(wins)
  BY DEF IInv, Well, Base, State, Now
<1>2. DOMAIN wins = 1..Len(wins) /\ Index(Now) = 1..Len(wins)
  BY <1>1 DEF Index
<1>3. ASSUME NEW s, Well(s), s.dragging = 0, NEW i \in Index(s),
             NEW t \in Handled(s, i), Become(t)
      PROVE  dragging' = 0
  BY <1>3, HandledMoved DEF Moved, Follows, Become
<1>4. ASSUME NEW i \in DOMAIN wins, PressContent(i) PROVE dragging' = 0
  <2> DEFINE f == Focus(Now, i)
  <2>1. Well(f)
    BY <1>1, <1>2, FocusWell
  <2>2. f.dragging = 0 /\ Index(f) = Index(Now)
    BY <1>1 DEF Focus, Index
  <2>3. \E t \in Handled(f, i) : Become(t)
    BY <1>4 DEF PressContent
  <2> HIDE DEF f
  <2> QED BY <1>2, <1>3, <2>1, <2>2, <2>3
<1>5. CASE \E left \in BOOLEAN : MouseElsewhere(left)
  <2>1. CASE current = 0
    BY <1>1, <1>5, <2>1 DEF MouseElsewhere, Become
  <2>2. CASE current # 0
    <3>1. current \in Index(Now) /\ \E t \in Handled(Now, current) : Become(t)
      BY <1>1, <1>2, <1>5, <2>2 DEF MouseElsewhere
    <3> QED BY <1>1, <1>3, <3>1
  <2> QED BY <2>1, <2>2
<1>6. CASE DeliverKey
  <2>1. current \in Index(Now) /\ \E t \in Handled(Now, current) : Become(t)
    BY <1>1, <1>2, <1>6 DEF DeliverKey
  <2> QED BY <1>1, <1>3, <2>1
<1> QED BY <1>4, <1>5, <1>6

LEMMA InitDesktopInv == DesktopInit => DesktopInv
<1> SUFFICES ASSUME DesktopInit PROVE DesktopInv
  OBVIOUS
<1>1. IInv
  BY InitIInv DEF DesktopInit
<1>2. /\ button = FALSE /\ memory = [p \in Watched |-> FALSE] /\ taken = None
      /\ away = {} /\ prevLeft = FALSE
  BY DEF DesktopInit, Init
<1>3. DesktopTypes
  BY <1>2 DEF DesktopTypes, None
<1>4. MemoriesAgree /\ ActsOnce
  <2>1. MemoriesAgree
    BY <1>2 DEF MemoriesAgree
  <2>2. \A r \in Receiver : taken[r] = 0
    BY <1>2 DEF None
  <2> QED BY <2>1, <2>2 DEF ActsOnce
<1>5. TakenIsRemembered /\ HoldersAreKnown
  BY <1>2 DEF TakenIsRemembered, HoldersAreKnown
<1> QED BY <1>1, <1>3, <1>4, <1>5 DEF DesktopInv

LEMMA NextDesktopInv ==
  ASSUME DesktopInv, [DesktopNext]_desktopVars
  PROVE  DesktopInv'
<1>1. IInv /\ IInv' /\ DesktopTypes /\ MemoriesAgree
  <2>1. IInv'
    BY StepsOfExec, NextIInv DEF DesktopInv
  <2> QED BY <2>1 DEF DesktopInv
<1>2. /\ wins \in Seq(Window) /\ wins' \in Seq(Window) /\ current \in 0..Len(wins)
      /\ DOMAIN wins = 1..Len(wins)
  BY <1>1 DEF IInv, Well, Base, State, Now
<1>3. /\ NamesOf(wins) \subseteq Program /\ NamesOf(wins') \subseteq Program
      /\ NameOf(current) \subseteq NamesOf(wins)
      /\ \A i \in DOMAIN wins : wins[i].name \in NamesOf(wins)
  <2>1. NamesOf(wins) = { wins[i].name : i \in 1..Len(wins) }
    BY <1>2, NamesOfWindows
  <2>2. NamesOf(wins') = { wins'[i].name : i \in 1..Len(wins') }
    BY <1>2 DEF NamesOf
  <2>3. /\ \A i \in 1..Len(wins) : wins[i].name \in Program
        /\ \A i \in 1..Len(wins') : wins'[i].name \in Program
    <3>1. ASSUME NEW w \in Seq(Window), NEW i \in 1..Len(w) PROVE w[i].name \in Program
      <4>1. w[i] \in Window
        OBVIOUS
      <4> QED BY <4>1 DEF Window
    <3> QED BY <1>2, <3>1
  <2> QED BY <1>2, <2>1, <2>2, <2>3 DEF NameOf
<1>4. Started({}) = NamesOf(wins') \ NamesOf(wins)
  BY DEF Started
<1>5. ASSUME NEW k \in DOMAIN order, PressTaskbar(k) PROVE DesktopInv'
  <2>1. /\ button = FALSE /\ button' = TRUE /\ memory' = memory /\ prevLeft' = prevLeft
        /\ taken' = [None EXCEPT !["taskbar"] = 1]
        /\ away' = Left({})
        /\ RestoreWindow(k)
    BY <1>1, <1>5 DEF PressTaskbar, RestoreWindow, DesktopTypes
  <2>2. prevLeft = FALSE
    BY <1>1, <2>1 DEF MemoriesAgree, IInv
  <2>3. taken' = [r \in Receiver |-> IF r = "taskbar" THEN 1 ELSE 0]
    BY <2>1, Receivers DEF None
  <2>4. DesktopTypes'
    <3>1. taken' \in [Receiver -> Nat]
      BY <2>3
    <3>2. away' \subseteq Watched
      BY <2>1 DEF Left
    <3> QED BY <1>1, <2>1, <3>1, <3>2 DEF DesktopTypes
  <2>5. MemoriesAgree' /\ ActsOnce'
    <3>1. taken'["taskbar"] = 1 /\ taken'["windows"] = 0
      BY <2>3, Receivers
    <3>2. \A r \in Receiver : taken'[r] <= 1
      BY <2>3
    <3> QED BY <2>1, <3>1, <3>2 DEF MemoriesAgree, ActsOnce
  <2>6. TakenIsRemembered'
    <3>1. \A p \in Watched : p \in Receiver /\ p # "taskbar"
      BY Receivers, WatchAssumption
    <3>2. \A p \in Watched : taken'[p] = 0
      BY <2>3, <3>1
    <3> QED BY <3>2 DEF TakenIsRemembered
  <2>7. HoldersAreKnown'
    <3>1. NamesOf(wins') \subseteq NamesOf(wins)
      <4> DEFINE f == Focus(Now, order[k])
      <4>1. Base(Now) /\ Now.wins = wins /\ order[k] \in Index(Now)
        BY <1>1 DEF IInv, Well, Base, State, Now, Index, Perm
      <4>2. NamesOf(f.wins) = NamesOf(wins)
        BY <4>1, FocusFollows
      <4> QED BY <2>1, <4>2 DEF RestoreWindow, Become
    <3>2. ASSUME NEW p \in Watched, p \in NamesOf(wins'), memory'[p] PROVE p \in away'
      <4>1. p \in away
        BY <2>1, <2>2, <3>1, <3>2 DEF DesktopInv, HoldersAreKnown
      <4> QED BY <2>1, <4>1, <3>2 DEF Left
    <3> QED BY <3>2 DEF HoldersAreKnown
  <2> QED BY <1>1, <2>4, <2>5, <2>6, <2>7 DEF DesktopInv
<1>6. CASE PacketEndsDrag
  BY <1>1, <1>6, Remembering DEF PacketEndsDrag, EndDrag
<1>7. ASSUME NEW spot \in Spots, PacketDrags(spot) PROVE DesktopInv'
  BY <1>1, <1>7, Remembering DEF PacketDrags, Drag
<1>8. ASSUME NEW i \in DOMAIN wins, PacketCloses(i) PROVE DesktopInv'
  BY <1>1, <1>8, Remembering DEF PacketCloses, PressClose, Press
<1>9. ASSUME NEW i \in DOMAIN wins, PacketOnFrame(i) PROVE DesktopInv'
  BY <1>1, <1>9, Remembering
     DEF PacketOnFrame, PressMaximize, PressMinimize, PressTitle, Press
<1>10. ASSUME NEW i \in DOMAIN wins, PacketOnContent(i) PROVE DesktopInv'
  <2>1. /\ Remember(TRUE, {wins[i].name}, {}) /\ PressContent(i)
        /\ dragging = 0 /\ ~prevLeft /\ prevLeft' = TRUE
    BY <1>10 DEF PacketOnContent, PressContent, Press
  <2>2. dragging' = 0
    BY <1>1, <2>1, HandlingStartsNoDrag
  <2>3. {wins[i].name} \intersect Started({}) = {}
    BY <1>3, <1>4
  <2> QED BY <1>1, <2>1, <2>2, <2>3, Remembering
<1>11. ASSUME NEW left \in BOOLEAN, PacketElsewhere(left) PROVE DesktopInv'
  <2>1. /\ Remember(left, NameOf(current), {}) /\ MouseElsewhere(left)
        /\ dragging = 0 /\ prevLeft' = left
    BY <1>11 DEF PacketElsewhere, MouseElsewhere
  <2>2. dragging' = 0
    BY <1>1, <2>1, HandlingStartsNoDrag
  <2>3. NameOf(current) \intersect Started({}) = {}
    BY <1>3, <1>4
  <2> QED BY <1>1, <2>1, <2>2, <2>3, Remembering
<1>12. CASE Key
  <2>1. /\ button' = button /\ prevLeft' = prevLeft
        /\ memory' = [p \in Watched |-> memory[p] /\ p \notin Started({})]
        /\ taken' = [r \in Receiver |-> IF r \in Continuing({}) THEN taken[r] ELSE 0]
        /\ away' = (IF button THEN Left({}) ELSE away) \intersect Continuing({})
        /\ DeliverKey
    BY <1>12 DEF Key, DeliverKey
  <2>2. DesktopTypes'
    <3>1. memory' \in [Watched -> BOOLEAN]
      BY <2>1
    <3> QED BY <1>1, <2>1, <3>1 DEF DesktopTypes, Left
  <2>3. MemoriesAgree'
    <3>1. "taskbar" \in Continuing({}) /\ "windows" \in Receiver
      BY <1>3, <1>4, Receivers, WatchAssumption DEF Continuing
    <3>2. taken'["taskbar"] = taken["taskbar"]
      BY <2>1, <3>1, Receivers
    <3>3. taken["windows"] = 0 => taken'["windows"] = 0
      BY <2>1, <3>1
    <3> QED BY <1>1, <2>1, <3>2, <3>3 DEF MemoriesAgree
  <2>4. ActsOnce'
    BY <2>1 DEF DesktopInv, ActsOnce
  <2>5. TakenIsRemembered'
    <3>1. ASSUME button, NEW p \in Watched, taken'[p] >= 1 PROVE memory'[p]
      <4>1. p \in Continuing({}) /\ taken[p] >= 1
        BY <2>1, <3>1, Receivers
      <4>2. memory[p] /\ p \notin Started({})
        BY <3>1, <4>1 DEF DesktopInv, TakenIsRemembered, Continuing
      <4> QED BY <2>1, <4>2
    <3> QED BY <2>1, <3>1 DEF TakenIsRemembered
  <2>6. HoldersAreKnown'
    <3> SUFFICES ASSUME NEW p \in Watched, p \in NamesOf(wins'), memory'[p]
                 PROVE  p \in away' \/ (prevLeft' /\ dragging' = 0 /\ p \in NameOf(current)')
      BY DEF HoldersAreKnown
    <3>1. memory[p] /\ p \notin Started({}) /\ p \in NamesOf(wins)
      BY <1>4, <2>1
    <3>2. p \in Continuing({})
      BY <3>1, Receivers DEF Continuing
    <3>3. CASE p \in away
      BY <2>1, <3>2, <3>3 DEF Left
    <3>4. CASE prevLeft /\ dragging = 0 /\ p \in NameOf(current)
      <4>1. dragging' = 0
        BY <1>1, <2>1, <3>4, HandlingStartsNoDrag
      <4>2. button
        BY <1>1, <3>4 DEF MemoriesAgree, IInv, DesktopTypes
      <4>3. CASE p \notin NameOf(current)'
        BY <2>1, <3>2, <3>4, <4>2, <4>3 DEF Left
      <4> QED BY <2>1, <3>4, <4>1, <4>3
    <3> QED BY <3>1, <3>3, <3>4 DEF DesktopInv, HoldersAreKnown
  <2> QED BY <1>1, <2>2, <2>3, <2>4, <2>5, <2>6 DEF DesktopInv
<1>13. CASE UNCHANGED desktopVars
  <2>1. /\ wins' = wins /\ current' = current /\ dragging' = dragging
        /\ prevLeft' = prevLeft /\ button' = button /\ memory' = memory
        /\ taken' = taken /\ away' = away
    BY <1>13 DEF desktopVars, vars
  <2> QED
    BY <1>1, <2>1 DEF DesktopInv, DesktopTypes, MemoriesAgree, ActsOnce,
       TakenIsRemembered, HoldersAreKnown, NameOf
<1> QED
  BY <1>5, <1>6, <1>7, <1>8, <1>9, <1>10, <1>11, <1>12, <1>13 DEF DesktopNext

-----------------------------------------------------------------------------
THEOREM DesktopInvariance == DesktopSpec => []DesktopInv
  BY InitDesktopInv, NextDesktopInv, PTL DEF DesktopSpec

(***************************************************************************)
(* The desktop runs the window manager and adds nothing to its windows:    *)
(* what is proved of every behaviour of Exec is true of the desktop.       *)
(***************************************************************************)
THEOREM DesktopRunsExec == DesktopSpec => Spec
<1>1. DesktopInit => Init
  BY DEF DesktopInit
<1> QED BY <1>1, StepsOfExec, PTL DEF DesktopSpec, Spec

(***************************************************************************)
(* The window manager and the desktop remember the same button.            *)
(***************************************************************************)
THEOREM MemoriesAlwaysAgree == DesktopSpec => []MemoriesAgree
<1>1. DesktopInv => MemoriesAgree
  BY DEF DesktopInv
<1> QED BY <1>1, DesktopInvariance, PTL

(***************************************************************************)
(* No receiver takes one press twice.                                      *)
(***************************************************************************)
THEOREM PressesActOnce == DesktopSpec => []ActsOnce
<1>1. DesktopInv => ActsOnce
  BY DEF DesktopInv
<1> QED BY <1>1, DesktopInvariance, PTL

(***************************************************************************)
(* Only who lost the focus to a held button can miss the next press.       *)
(***************************************************************************)
THEOREM OnlyTheLeftMiss == DesktopSpec => []OnlyTheLeftMissPresses
<1>1. DesktopInv => OnlyTheLeftMissPresses
  BY DEF DesktopInv, MemoriesAgree, HoldersAreKnown, IInv, DesktopTypes,
         OnlyTheLeftMissPresses
<1> QED BY <1>1, DesktopInvariance, PTL
=============================================================================
