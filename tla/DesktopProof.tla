---------------------------- MODULE DesktopProof ----------------------------
(***************************************************************************)
(* Proofs about Desktop: type correctness, that the damage list covers all *)
(* that a step changes on the screen, that a program hears of the close of *)
(* its window, and that it sees its own pixels only.                       *)
(***************************************************************************)
EXTENDS Desktop, FiniteSetTheorems, WellFoundedInduction, SequenceTheorems, TLAPS

---------------------------------------------------------------------------
(* Numbers and sequences.                                                  *)

\* The least of a set of numbers that is not empty is one of them.
LEMMA MinIn ==
    ASSUME NEW S \in SUBSET Nat, S # {}
    PROVE  Min(S) \in S /\ \A j \in S : Min(S) <= j
<1>1. \E m \in S : \A j \in S : ~(<<j, m>> \in OpToRel(<, Nat))
  BY NatLessThanWellFounded, WFMin
<1>2. PICK m \in S : \A j \in S : ~(<<j, m>> \in OpToRel(<, Nat))
  BY <1>1
<1>3. \A j \in S : m <= j
  <2> TAKE j \in S
  <2>1. ~(j < m)
    BY <1>2 DEF OpToRel
  <2> QED BY <2>1
<1> QED BY <1>2, <1>3 DEF Min

\* So is the greatest of a set of numbers up to n.
LEMMA MaxIn ==
    ASSUME NEW n \in Nat, NEW S \in SUBSET (1 .. n), S # {}
    PROVE  Max(S) \in S /\ \A j \in S : j <= Max(S)
<1> DEFINE T == {n - k : k \in S}
<1>1. T \in SUBSET Nat /\ T # {}
  <2>1. \A k \in S : n - k \in Nat
    OBVIOUS
  <2>2. \A y \in T : y \in Nat
    BY <2>1
  <2> QED BY <2>2
<1>2. Min(T) \in T /\ \A j \in T : Min(T) <= j
  BY <1>1, MinIn
<1>3. PICK m \in S : Min(T) = n - m
  BY <1>2
<1>4. \A j \in S : m >= j
  <2> TAKE j \in S
  <2>1. n - m <= n - j
    BY <1>2, <1>3
  <2> QED BY <2>1
<1> QED BY <1>3, <1>4 DEF Max

\* The greater of two numbers.
LEMMA MaxOfTwo == \A a, b \in Int : Max({a, b}) = IF a < b THEN b ELSE a
<1> SUFFICES ASSUME NEW a \in Int, NEW b \in Int PROVE Max({a, b}) = IF a < b THEN b ELSE a
  OBVIOUS
<1> DEFINE m == IF a < b THEN b ELSE a
<1>1. m \in {a, b} /\ \A y \in {a, b} : m >= y
  OBVIOUS
<1>2. \A x \in {a, b} : (\A y \in {a, b} : x >= y) => x = m
  OBVIOUS
<1> QED BY <1>1, <1>2 DEF Max

\* The lesser of two numbers.
LEMMA MinOfTwo == \A a, b \in Int : Min({a, b}) = IF b < a THEN b ELSE a
<1> SUFFICES ASSUME NEW a \in Int, NEW b \in Int PROVE Min({a, b}) = IF b < a THEN b ELSE a
  OBVIOUS
<1> DEFINE m == IF b < a THEN b ELSE a
<1>1. m \in {a, b} /\ \A y \in {a, b} : m <= y
  OBVIOUS
<1>2. \A x \in {a, b} : (\A y \in {a, b} : x <= y) => x = m
  OBVIOUS
<1> QED BY <1>1, <1>2 DEF Min

\* A sequence without one of its elements.
LEMMA Removed ==
    ASSUME NEW z \in Seq(Nat), NEW n \in Nat, Len(z) = n, NEW at \in 1 .. n
    PROVE  /\ RemoveAt(z, at) \in Seq(Nat) /\ Len(RemoveAt(z, at)) = n - 1
           /\ \A k \in 1 .. n - 1 : RemoveAt(z, at)[k] = IF k < at THEN z[k] ELSE z[k + 1]
<1> DEFINE a == SubSeq(z, 1, at - 1)
           b == SubSeq(z, at + 1, n)
<1>1. /\ a \in Seq(Nat) /\ Len(a) = at - 1
      /\ \A k \in 1 .. at - 1 : a[k] = z[k]
  <2>1. \A k \in 1 .. at - 1 : z[k] \in Nat
    OBVIOUS
  <2>2. 1 \in Int /\ at - 1 \in Int /\ (at - 1) - 1 + 1 = at - 1 /\ \A k \in 1 .. at - 1 : 1 + k - 1 = k
    OBVIOUS
  <2>3. Len(a) = IF 1 <= at - 1 THEN (at - 1) - 1 + 1 ELSE 0
    BY <2>1, <2>2, SubSeqProperties
  <2>4. a \in Seq(Nat) /\ \A k \in 1 .. at - 1 : a[k] = z[1 + k - 1]
    BY <2>1, <2>2, SubSeqProperties
  <2> QED BY <2>2, <2>3, <2>4
<1>2. /\ b \in Seq(Nat) /\ Len(b) = n - at
      /\ \A k \in 1 .. n - at : b[k] = z[at + k]
  <2>1. \A k \in at + 1 .. n : z[k] \in Nat
    OBVIOUS
  <2>2. at + 1 \in Int /\ n - (at + 1) + 1 = n - at /\ \A k \in 1 .. n - at : (at + 1) + k - 1 = at + k
    OBVIOUS
  <2>3. Len(b) = IF at + 1 <= n THEN n - (at + 1) + 1 ELSE 0
    BY <2>1, <2>2, SubSeqProperties
  <2>4. b \in Seq(Nat) /\ \A k \in 1 .. n - at : b[k] = z[(at + 1) + k - 1]
    BY <2>1, <2>2, SubSeqProperties
  <2> QED BY <2>2, <2>3, <2>4
<1>3. RemoveAt(z, at) = a \o b
  BY DEF RemoveAt
<1> HIDE DEF a, b
<1>4. /\ a \o b \in Seq(Nat) /\ Len(a \o b) = Len(a) + Len(b)
      /\ \A k \in 1 .. Len(a) + Len(b) : (a \o b)[k] = IF k <= Len(a) THEN a[k] ELSE b[k - Len(a)]
  BY <1>1, <1>2, ConcatProperties
<1>5. (at - 1) + (n - at) = n - 1
  OBVIOUS
<1>6. ASSUME NEW k \in 1 .. n - 1 PROVE (a \o b)[k] = IF k < at THEN z[k] ELSE z[k + 1]
  <2>1. (a \o b)[k] = IF k <= at - 1 THEN a[k] ELSE b[k - (at - 1)]
    BY <1>1, <1>2, <1>4, <1>5
  <2>2. CASE k < at
    <3>1. k <= at - 1 /\ k \in 1 .. at - 1
      BY <2>2
    <3> QED BY <1>1, <2>1, <2>2, <3>1
  <2>3. CASE ~(k < at)
    <3>1. ~(k <= at - 1) /\ k - (at - 1) \in 1 .. n - at /\ at + (k - (at - 1)) = k + 1
      BY <2>3
    <3> QED BY <1>2, <2>1, <2>3, <3>1
  <2> QED BY <2>2, <2>3
<1> QED BY <1>1, <1>2, <1>3, <1>4, <1>5, <1>6

\* r is z with i at its end and, before it, the others in the order they had.
Lifted(z, i, r, at) ==
    /\ at \in 1 .. Len(r)
    /\ at <= Len(z) => z[at] = i
    /\ Len(z) = IF at <= Len(z) THEN Len(r) ELSE Len(r) - 1
    /\ r[Len(r)] = i
    /\ \A k \in 1 .. Len(r) - 1 : r[k] = IF k < at THEN z[k] ELSE z[k + 1]

\* What Lifted sequences have in them.
LEMMA LiftedSet ==
    ASSUME NEW z \in Seq(Nat), NEW r \in Seq(Nat), NEW i \in Nat, NEW at \in Nat, Lifted(z, i, r, at)
    PROVE  ToSet(r) = ToSet(z) \cup {i}
<1>0. PICK n \in Nat, m \in Nat : Len(z) = n /\ Len(r) = m /\ DOMAIN z = 1 .. n /\ DOMAIN r = 1 .. m
  OBVIOUS
<1>1. /\ at \in 1 .. m /\ (at <= n => z[at] = i) /\ r[m] = i /\ n = IF at <= n THEN m ELSE m - 1
      /\ \A k \in 1 .. m - 1 : r[k] = IF k < at THEN z[k] ELSE z[k + 1]
  BY <1>0 DEF Lifted
<1>2. ASSUME NEW k \in 1 .. m PROVE r[k] = i \/ \E l \in 1 .. n : r[k] = z[l]
  <2>1. CASE k = m
    BY <1>1, <2>1
  <2>2. CASE k # m
    <3>1. k \in 1 .. m - 1 /\ (k < at => k \in 1 .. n) /\ (~(k < at) => k + 1 \in 1 .. n)
      BY <1>1, <2>2
    <3> QED BY <1>1, <3>1
  <2> QED BY <2>1, <2>2
<1>3. ASSUME NEW k \in 1 .. n PROVE \E l \in 1 .. m : z[k] = r[l]
  <2>1. m \in 1 .. m
    BY <1>1
  <2>2. CASE k < at
    <3>1. k \in 1 .. m - 1 /\ k \in 1 .. m
      BY <1>1, <2>2
    <3> QED BY <1>1, <2>2, <3>1
  <2>3. CASE k = at
    BY <1>1, <2>1, <2>3
  <2>4. CASE k > at
    <3>1. k - 1 \in 1 .. m - 1 /\ k - 1 \in 1 .. m /\ ~(k - 1 < at) /\ (k - 1) + 1 = k
      BY <1>1, <2>4
    <3>2. r[k - 1] = z[k]
      BY <1>1, <3>1
    <3> QED BY <3>1, <3>2
  <2> QED BY <1>1, <2>2, <2>3, <2>4
<1>4. m \in 1 .. m /\ r[m] = i
  BY <1>1
<1>5. ToSet(r) = {r[k] : k \in 1 .. m} /\ ToSet(z) = {z[k] : k \in 1 .. n}
  BY <1>0 DEF ToSet
<1> QED BY <1>2, <1>3, <1>4, <1>5

\* Raising a number in a list of numbers: it is last, the others keep their order.
LEMMA RaisedLast ==
    ASSUME NEW z \in Seq(Nat), NEW i \in Nat
    PROVE  /\ Raised(z, i) \in Seq(Nat)
           /\ \E at \in Nat : Lifted(z, i, Raised(z, i), at)
           /\ ToSet(Raised(z, i)) = ToSet(z) \cup {i}
           /\ Len(Raised(z, i)) = IF i \in ToSet(z) THEN Len(z) ELSE Len(z) + 1
<1> DEFINE I == {k \in 1 .. Len(z) : z[k] = i}
           R == Raised(z, i)
<1>0. PICK n \in Nat : Len(z) = n /\ DOMAIN z = 1 .. n
  OBVIOUS
<1>1. CASE i \notin ToSet(z)
  <2>1. RemoveFirst(z, i) = z
    BY <1>1 DEF RemoveFirst, ToSet
  <2>2. R = Append(z, i)
    BY <2>1 DEF Raised
  <2>3. /\ R \in Seq(Nat) /\ Len(R) = n + 1
        /\ R[n + 1] = i /\ \A k \in 1 .. n : R[k] = z[k]
    BY <1>0, <2>2
  <2> HIDE DEF R
  <2>4. n + 1 \in Nat /\ ~(n + 1 <= n) /\ n + 1 \in 1 .. n + 1 /\ (n + 1) - 1 = n /\ \A k \in 1 .. n : k < n + 1
    OBVIOUS
  <2>5. Lifted(z, i, R, n + 1)
    BY <1>0, <2>3, <2>4 DEF Lifted
  <2> QED BY <1>0, <1>1, <2>3, <2>4, <2>5, LiftedSet DEF R
<1>2. CASE i \in ToSet(z)
  <2>1. I # {} /\ I \in SUBSET Nat
    BY <1>2 DEF ToSet
  <2>2. PICK at \in 1 .. n : at = Min(I) /\ z[at] = i
    BY <1>0, <2>1, MinIn
  <2> DEFINE r == RemoveAt(z, at)
  <2>3. R = Append(r, i)
    BY <2>1, <2>2 DEF RemoveFirst, SelectInSeq, Raised
  <2>4. r \in Seq(Nat) /\ Len(r) = n - 1 /\ \A k \in 1 .. n - 1 : r[k] = IF k < at THEN z[k] ELSE z[k + 1]
    BY <1>0, Removed
  <2> HIDE DEF r
  <2>5. (n - 1) + 1 = n /\ at \in Nat /\ at <= n
    OBVIOUS
  <2>6. R \in Seq(Nat) /\ Len(R) = n /\ R[n] = i /\ \A k \in 1 .. n - 1 : R[k] = r[k]
    BY <2>3, <2>4, <2>5
  <2> HIDE DEF R
  <2>7. Lifted(z, i, R, at)
    BY <1>0, <2>2, <2>4, <2>5, <2>6 DEF Lifted
  <2> QED BY <1>0, <1>2, <2>5, <2>6, <2>7, LiftedSet DEF R
<1> QED BY <1>1, <1>2

---------------------------------------------------------------------------
(* Scenes.                                                                 *)

Events == {"click", "close", "key", "resize"}
WinOK(win) == win \in WinType /\ Len(win.ev) <= EV_CAP /\ Len(win.input) <= TERM_IN_CAP
SceneType ==
    [wins : Seq(WinType), z : Seq(Nat), dirty : SUBSET Cells, cur : Cols, left : BOOLEAN,
     dragging : [slot : Nat, off : Int, id : Nat], resizing : [slot : Nat, id : Nat],
     menu_open : BOOLEAN, next_id : Nat]

\* Slots 1 and 2 are the kernel's, the others windows of programs and sessions with
\* an id that was given out; the z order and a gesture name slots that there are.
SlotOK(s, i) ==
    LET win == s.wins[i]
    IN  /\ WinOK(win) /\ win.id <= s.next_id
        /\ win.kind = IF i = MONITOR THEN "Monitor" ELSE IF i = ABOUT THEN "About" ELSE win.kind
        /\ i > ABOUT => win.kind \in {"User", "Term"}
        /\ win.owner \in Apps => win.kind = "User"
SceneOK(s) ==
    /\ s \in SceneType
    /\ Len(s.wins) \in 2 .. MAX_WINS /\ Len(s.z) = Len(s.wins) /\ ToSet(s.z) = Slots(s)
    /\ s.dragging.slot \in 0 .. Len(s.wins) /\ s.resizing.slot \in 0 .. Len(s.wins)
    /\ \A i \in Slots(s) : SlotOK(s, i)

\* The constants.
LEMMA Sizes ==
    /\ W \in Nat /\ MIN_WIN_W \in Nat /\ KERNEL_W \in Nat /\ MENU_W \in Nat /\ XWRAP \in Nat
    /\ MAX_WINS \in Nat /\ EV_CAP \in Nat /\ TERM_IN_CAP \in Nat
    /\ 1 <= MIN_WIN_W /\ MIN_WIN_W <= KERNEL_W /\ KERNEL_W + 1 < W /\ W <= XWRAP /\ 1 <= MENU_W
    /\ EV_CAP >= 2 /\ MAX_WINS >= 2 /\ TERM_IN_CAP >= 1
    /\ Apps \cap Terms = {} /\ 0 \notin Apps /\ 0 \notin Terms
    /\ \A req \in Requests : req[1] \in Int /\ req[2] \in Int
BY GeometryAssumption

\* The slots of a scene.
LEMMA SlotsOf ==
    ASSUME NEW s, SceneOK(s)
    PROVE  /\ Len(s.wins) \in Nat /\ Len(s.wins) >= 2 /\ Slots(s) = 1 .. Len(s.wins)
           /\ MONITOR \in Slots(s) /\ ABOUT \in Slots(s)
           /\ \A i \in Slots(s) : i \in Nat /\ i # 0 /\ s.wins[i] \in WinType
           /\ Len(s.z) \in Nat /\ DOMAIN s.z = 1 .. Len(s.z)
           /\ \A k \in DOMAIN s.z : s.z[k] \in Slots(s)
           /\ Last(s.z) \in Slots(s)
<1>1. s.z \in Seq(Nat) /\ Len(s.z) = Len(s.wins) /\ Len(s.wins) \in 2 .. MAX_WINS /\ MAX_WINS \in Nat
  BY Sizes DEF SceneOK, SceneType
<1>2. \A k \in DOMAIN s.z : s.z[k] \in Slots(s)
  BY DEF SceneOK, ToSet
<1>3. \A i \in Slots(s) : s.wins[i] \in WinType
  BY DEF SceneOK, SlotOK, WinOK
<1>4. Len(s.z) \in DOMAIN s.z
  BY <1>1
<1> QED BY <1>1, <1>2, <1>3, <1>4 DEF Slots, Last, MONITOR, ABOUT

\* A window covers the column and is to be seen.
On(s, i, c) == Visible(s, i) /\ c \in body_rect(s.wins[i])

\* The window on top is on the column, and there is one if any is.
LEMMA TopIs ==
    ASSUME NEW s, SceneOK(s), NEW c
    PROVE  /\ TopAt(s, c) = 0 \/ (TopAt(s, c) \in Slots(s) /\ On(s, TopAt(s, c), c))
           /\ TopAt(s, c) = 0 <=> \A i \in Slots(s) : ~On(s, i, c)
<1> DEFINE on == {k \in DOMAIN s.z : Visible(s, s.z[k]) /\ c \in body_rect(s.wins[s.z[k]])}
<1>1. TopAt(s, c) = IF on = {} THEN 0 ELSE s.z[Max(on)]
  BY DEF TopAt
<1>2. Len(s.z) \in Nat /\ DOMAIN s.z = 1 .. Len(s.z) /\ \A k \in DOMAIN s.z : s.z[k] \in Slots(s)
  BY SlotsOf
<1>3. on # {} => Max(on) \in on
  BY <1>2, MaxIn
<1>4. on = {} <=> \A i \in Slots(s) : ~On(s, i, c)
  BY DEF On, SceneOK, ToSet
<1>5. \A i \in Slots(s) : i # 0
  BY SlotsOf
<1>6. on # {} => s.z[Max(on)] \in Slots(s) /\ On(s, s.z[Max(on)], c)
  BY <1>2, <1>3 DEF On
<1> QED BY <1>1, <1>4, <1>5, <1>6

\* The active window is one that is to be seen.
LEMMA ActiveIs ==
    ASSUME NEW s, SceneOK(s)
    PROVE  active_idx(s) = 0 \/ (active_idx(s) \in Slots(s) /\ Visible(s, active_idx(s)))
<1> DEFINE up == {k \in DOMAIN s.z : Visible(s, s.z[k])}
<1>1. active_idx(s) = IF up = {} THEN 0 ELSE s.z[Max(up)]
  BY DEF active_idx
<1>2. Len(s.z) \in Nat /\ DOMAIN s.z = 1 .. Len(s.z) /\ \A k \in DOMAIN s.z : s.z[k] \in Slots(s)
  BY SlotsOf
<1>3. up # {} => Max(up) \in up
  BY <1>2, MaxIn
<1> QED BY <1>1, <1>2, <1>3

\* With the same z order and more windows on the column, the top one is the same if it was there.
LEMMA TopSame ==
    ASSUME NEW s, NEW t, SceneOK(s), SceneOK(t), NEW c, t.z = s.z,
           \A i \in Slots(s) : On(s, i, c) => On(t, i, c),
           TopAt(t, c) # 0 => On(s, TopAt(t, c), c)
    PROVE  TopAt(s, c) = TopAt(t, c)
<1> DEFINE on(x) == {k \in DOMAIN x.z : Visible(x, x.z[k]) /\ c \in body_rect(x.wins[x.z[k]])}
<1>1. \A x : TopAt(x, c) = IF on(x) = {} THEN 0 ELSE x.z[Max(on(x))]
  BY DEF TopAt
<1>2. Len(s.z) \in Nat /\ DOMAIN s.z = 1 .. Len(s.z) /\ \A k \in DOMAIN s.z : s.z[k] \in Slots(s)
  BY SlotsOf
<1>3. on(s) \subseteq on(t) /\ on(t) \subseteq 1 .. Len(s.z)
  BY <1>2 DEF On
<1>4. CASE on(t) = {}
  BY <1>1, <1>3, <1>4
<1>5. CASE on(t) # {}
  <2>1. Max(on(t)) \in on(t) /\ \A k \in on(t) : k <= Max(on(t))
    BY <1>2, <1>3, <1>5, MaxIn
  <2>2. TopAt(t, c) = s.z[Max(on(t))] /\ TopAt(t, c) # 0
    <3>1. s.z[Max(on(t))] \in Slots(s)
      BY <1>2, <1>3, <2>1
    <3>2. s.z[Max(on(t))] # 0
      BY <3>1, SlotsOf
    <3> QED BY <1>1, <1>5, <3>2
  <2>3. Max(on(t)) \in on(s)
    BY <1>3, <2>1, <2>2 DEF On
  <2>4. Max(on(s)) \in on(s) /\ \A k \in on(s) : k <= Max(on(s))
    BY <1>2, <1>3, <2>3, MaxIn
  <2>5. Max(on(s)) = Max(on(t))
    <3> HIDE DEF on
    <3>1. Max(on(s)) \in 1 .. Len(s.z) /\ Max(on(t)) \in 1 .. Len(s.z)
      BY <1>3, <2>1, <2>4
    <3>2. Max(on(s)) <= Max(on(t)) /\ Max(on(t)) <= Max(on(s))
      BY <1>3, <2>1, <2>3, <2>4
    <3> QED BY <1>2, <3>1, <3>2
  <2> QED BY <1>1, <2>2, <2>3, <2>5
<1> QED BY <1>4, <1>5

---------------------------------------------------------------------------
(* What a step of the compositor does to a scene.                          *)

Shows(s, i) == i = 0 \/ s.wins[i].kind \in {"User", "Term"}
Paint(win) == ToSet(win.buf) \cup ToSet(win.back)

\* The column looks as before, or shows a window of the kernel now.
SameLook(s, t, c) ==
    LET i == TopAt(t, c)
    IN  /\ c \in Menu => s.menu_open = t.menu_open
        /\ Shows(t, i) => /\ TopAt(s, c) = i
                          /\ i # 0 => /\ t.wins[i].kind = s.wins[i].kind /\ t.wins[i].id = s.wins[i].id
                                      /\ Pixel(t.wins[i], c) = Pixel(s.wins[i], c)

\* The window is the one it was, no program's pixels but its own come to it, and
\* a program's window that is shut has the close among its events.
WinStep(s, t, i) ==
    LET a == s.wins[i]
        b == t.wins[i]
    IN  /\ b.id = a.id /\ b.owner = a.owner /\ b.kind = a.kind
        /\ Paint(b) \subseteq Paint(a) \cup {0}
        /\ a.kind = "User" /\ ~a.open => ~b.open
        /\ a.kind = "User" /\ ~b.open /\ (a.open \/ ("close" \in ToSet(a.ev) /\ s.resizing.slot # i))
              => "close" \in ToSet(b.ev) /\ t.resizing.slot # i

Looks(s, t) == s.dirty \subseteq t.dirty /\ \A c \in Cols \ t.dirty : SameLook(s, t, c)
Does(s, t) ==
    /\ SceneOK(t) /\ Len(t.wins) = Len(s.wins) /\ t.next_id = s.next_id
    /\ \A i \in Slots(s) : WinStep(s, t, i)
    /\ Looks(s, t)

LEMMA DoesNothing == \A s : SceneOK(s) => Does(s, s)
BY DEF Does, Looks, WinStep, SameLook

LEMMA LooksBoth ==
    ASSUME NEW s, NEW t, NEW u, SceneOK(u), Looks(s, t), Looks(t, u)
    PROVE  Looks(s, u)
<1>1. ASSUME NEW c \in Cols \ u.dirty PROVE SameLook(s, u, c)
  <2>1. SameLook(s, t, c) /\ SameLook(t, u, c)
    BY DEF Looks
  <2>2. TopAt(u, c) = 0 \/ TopAt(u, c) \in Slots(u)
    BY TopIs
  <2> QED BY <2>1, <2>2 DEF SameLook, Shows
<1> QED BY <1>1 DEF Looks

LEMMA DoesBoth ==
    ASSUME NEW s, NEW t, NEW u, SceneOK(s), Does(s, t), Does(t, u)
    PROVE  Does(s, u)
<1>1. SceneOK(u) /\ Len(u.wins) = Len(s.wins) /\ u.next_id = s.next_id
  BY DEF Does
<1>2. Slots(s) = Slots(t)
  BY DEF Does, Slots
<1>3. ASSUME NEW i \in Slots(s) PROVE WinStep(s, u, i)
  <2>1. WinStep(s, t, i) /\ WinStep(t, u, i)
    BY <1>2 DEF Does
  <2> QED BY <2>1 DEF WinStep
<1>4. Looks(s, u)
  BY <1>1, LooksBoth DEF Does
<1> QED BY <1>1, <1>3, <1>4 DEF Does

\* Window i is drawn as before where there is no damage, or covers more and is the kernel's.
Covered(s, t, i) ==
    \A c \in Cols \ t.dirty :
        /\ On(s, i, c) => On(t, i, c)
        /\ On(t, i, c) /\ t.wins[i].kind \in {"User", "Term"}
              => On(s, i, c) /\ Pixel(t.wins[i], c) = Pixel(s.wins[i], c)

\* A step that changes one window, and damages where it was seen and what it shows now.
LEMMA OneLook ==
    ASSUME NEW s, NEW t, SceneOK(s), SceneOK(t), NEW i \in Slots(s),
           t.z = s.z, t.menu_open = s.menu_open,
           Len(t.wins) = Len(s.wins), s.dirty \subseteq t.dirty,
           \A j \in Slots(s) : j # i => t.wins[j] = s.wins[j],
           t.wins[i].id = s.wins[i].id, t.wins[i].kind = s.wins[i].kind,
           Covered(s, t, i)
    PROVE  Looks(s, t)
<1>2. ASSUME NEW c \in Cols \ t.dirty PROVE SameLook(s, t, c)
  <2> DEFINE k == TopAt(t, c)
  <2>0. Slots(t) = Slots(s)
    BY DEF Slots
  <2>1. \A j \in Slots(s) : j # i => (On(t, j, c) <=> On(s, j, c))
    BY DEF On, Visible
  <2>2. \A j \in Slots(s) : On(s, j, c) => On(t, j, c)
    BY <2>1 DEF Covered
  <2>3. ASSUME Shows(t, k) PROVE k # 0 => On(s, k, c) /\ k \in Slots(s)
    <3>1. k # 0 => k \in Slots(s) /\ On(t, k, c)
      BY <2>0, TopIs
    <3> QED BY <2>1, <2>3, <3>1 DEF Shows, Covered
  <2>4. Shows(t, k) => TopAt(s, c) = k
    BY <2>2, <2>3, TopSame
  <2>5. ASSUME Shows(t, k), k # 0
        PROVE  t.wins[k].kind = s.wins[k].kind /\ t.wins[k].id = s.wins[k].id
               /\ Pixel(t.wins[k], c) = Pixel(s.wins[k], c)
    <3>1. k \in Slots(s) /\ On(t, k, c)
      BY <2>0, <2>5, TopIs
    <3>2. CASE k # i
      BY <3>1, <3>2
    <3>3. CASE k = i
      BY <3>1, <3>3, <2>5 DEF Shows, Covered
    <3> QED BY <3>2, <3>3
  <2> QED BY <2>4, <2>5 DEF SameLook
<1> QED BY <1>2 DEF Looks

LEMMA OneWindow ==
    ASSUME NEW s, NEW t, SceneOK(s), SceneOK(t), NEW i \in Slots(s),
           t.z = s.z, t.menu_open = s.menu_open, t.resizing.slot \in {0, s.resizing.slot},
           Len(t.wins) = Len(s.wins), t.next_id = s.next_id, s.dirty \subseteq t.dirty,
           \A j \in Slots(s) : j # i => t.wins[j] = s.wins[j],
           WinStep(s, t, i),
           Covered(s, t, i)
    PROVE  Does(s, t)
<1>1. \A j \in Slots(s) : WinStep(s, t, j)
  <2>1. \A j \in Slots(s) : j # 0
    BY SlotsOf
  <2> QED BY <2>1 DEF WinStep
<1>2. Looks(s, t)
  <2>1. t.wins[i].id = s.wins[i].id /\ t.wins[i].kind = s.wins[i].kind
    BY DEF WinStep
  <2> QED BY <2>1, OneLook
<1> QED BY <1>1, <1>2 DEF Does

\* A step that leaves the windows alone.
LEMMA NoWindow ==
    ASSUME NEW s, NEW t, SceneOK(s), SceneOK(t), t.wins = s.wins, t.z = s.z, t.next_id = s.next_id,
           t.resizing.slot # s.resizing.slot => t.resizing.slot = 0 \/ s.wins[t.resizing.slot].open,
           s.dirty \subseteq t.dirty,
           t.menu_open # s.menu_open => Menu \cap Cols \subseteq t.dirty
    PROVE  Does(s, t)
<1>1. \A i \in Slots(s) : WinStep(s, t, i)
  <2>1. \A i \in Slots(s) : i # 0
    BY SlotsOf
  <2> QED BY <2>1 DEF WinStep
<1>2. \A c : TopAt(t, c) = TopAt(s, c)
  BY DEF TopAt, Visible
<1>3. \A c \in Cols \ t.dirty : SameLook(s, t, c)
  BY <1>2 DEF SameLook
<1> QED BY <1>1, <1>3 DEF Does, Looks

\* Another window in a slot.
LEMMA PutWin ==
    ASSUME NEW s, SceneOK(s), NEW i \in Slots(s), NEW win, WinOK(win), win.id <= s.next_id,
           win.kind = s.wins[i].kind, win.owner \in Apps => win.kind = "User"
    PROVE  LET t == [s EXCEPT !.wins[i] = win]
           IN  /\ SceneOK(t) /\ Len(t.wins) = Len(s.wins) /\ Slots(t) = Slots(s)
               /\ t.wins[i] = win /\ \A j \in Slots(s) : j # i => t.wins[j] = s.wins[j]
               /\ t.z = s.z /\ t.dirty = s.dirty /\ t.cur = s.cur /\ t.left = s.left
               /\ t.dragging = s.dragging /\ t.resizing = s.resizing
               /\ t.menu_open = s.menu_open /\ t.next_id = s.next_id
<1> DEFINE t == [s EXCEPT !.wins[i] = win]
<1>1. s \in SceneType /\ s.wins \in Seq(WinType) /\ i \in 1 .. Len(s.wins) /\ Len(s.wins) \in Nat
  BY SlotsOf DEF SceneOK, SceneType
<1>2. /\ t.wins = [s.wins EXCEPT ![i] = win]
      /\ t.z = s.z /\ t.dirty = s.dirty /\ t.cur = s.cur /\ t.left = s.left
      /\ t.dragging = s.dragging /\ t.resizing = s.resizing
      /\ t.menu_open = s.menu_open /\ t.next_id = s.next_id
  BY <1>1 DEF SceneType
<1>3. t.wins[i] = win
  BY <1>1, <1>2
<1>4. win \in WinType
  BY DEF WinOK
<1>5. t.wins \in Seq(WinType) /\ Len(t.wins) = Len(s.wins) /\ \A j \in 1 .. Len(s.wins) : j # i => t.wins[j] = s.wins[j]
  BY <1>1, <1>2, <1>4, ExceptSeq
<1>6. t \in SceneType
  BY <1>1, <1>2, <1>5 DEF SceneType
<1>7. Slots(t) = Slots(s)
  BY <1>5 DEF Slots
<1> HIDE DEF t
<1>8. ASSUME NEW j \in Slots(t) PROVE SlotOK(t, j)
  <2>1. SlotOK(s, j)
    BY <1>7 DEF SceneOK
  <2>2. CASE j = i
    BY <1>2, <1>3, <2>1, <2>2 DEF SlotOK
  <2>3. CASE j # i
    BY <1>2, <1>5, <1>7, <2>1, <2>3 DEF SlotOK, Slots
  <2> QED BY <2>2, <2>3
<1>9. SceneOK(t)
  BY <1>2, <1>5, <1>6, <1>7, <1>8 DEF SceneOK
<1> QED BY <1>2, <1>3, <1>5, <1>7, <1>9 DEF Slots, t

\* More damage.
LEMMA PushRect ==
    ASSUME NEW s, SceneOK(s), NEW cells
    PROVE  LET t == push_rect(s, cells)
           IN  /\ SceneOK(t) /\ t.wins = s.wins /\ t.z = s.z /\ t.dirty = s.dirty \cup (cells \cap Cells)
               /\ t.cur = s.cur /\ t.left = s.left /\ t.dragging = s.dragging /\ t.resizing = s.resizing
               /\ t.menu_open = s.menu_open /\ t.next_id = s.next_id
<1> DEFINE t == push_rect(s, cells)
<1>1. s \in SceneType
  BY DEF SceneOK
<1>2. /\ t \in SceneType /\ t.wins = s.wins /\ t.z = s.z /\ t.dirty = s.dirty \cup (cells \cap Cells)
      /\ t.cur = s.cur /\ t.left = s.left /\ t.dragging = s.dragging /\ t.resizing = s.resizing
      /\ t.menu_open = s.menu_open /\ t.next_id = s.next_id
  BY <1>1 DEF push_rect, SceneType
<1>3. SceneOK(t)
  BY <1>2 DEF SceneOK, SlotOK, Slots
<1> QED BY <1>2, <1>3

\* The columns of a window are cells.
LEMMA BodyIn == \A win : body_rect(win) \subseteq Cols /\ Cols \subseteq Cells /\ BAR \notin Cols
BY Sizes DEF body_rect, Cols, Cells, BAR

LEMMA PushDoes == ASSUME NEW s, SceneOK(s), NEW cells PROVE Does(s, push_rect(s, cells))
BY PushRect, NoWindow

\* The slots are the positions of the windows.
LEMMA WinsOf ==
    ASSUME NEW s, SceneOK(s)
    PROVE  s \in SceneType /\ s.wins \in Seq(WinType) /\ DOMAIN s.wins = Slots(s)
<1>1. s \in SceneType
  BY DEF SceneOK
<1>2. s.wins \in Seq(WinType)
  BY <1>1 DEF SceneType
<1>3. DOMAIN s.wins = 1 .. Len(s.wins)
  BY <1>2
<1> QED BY <1>1, <1>2, <1>3 DEF Slots

\* The window in its slot, whatever it is.
LEMMA PutAt ==
    ASSUME NEW s, SceneOK(s), NEW i \in Slots(s), NEW win
    PROVE  [s EXCEPT !.wins[i] = win].wins[i] = win
<1>1. s \in SceneType /\ s.wins \in Seq(WinType) /\ i \in DOMAIN s.wins
  BY SlotsOf DEF SceneOK, SceneType
<1> QED BY <1>1 DEF SceneType

\* The cursor, the button and the gestures are what they were.
Grips(s, t) == t.left = s.left /\ t.cur = s.cur /\ t.resizing = s.resizing /\ t.dragging = s.dragging

\* focus: the window is on top, and all that is seen is damaged.
LEMMA FocusDoes ==
    ASSUME NEW s, SceneOK(s), NEW i \in Slots(s)
    PROVE  Does(s, focus(s, i)) /\ Grips(s, focus(s, i))
<1>1. CASE Last(s.z) = i /\ ~s.wins[i].minimized
  BY <1>1, DoesNothing DEF focus, Grips
<1>2. CASE ~(Last(s.z) = i /\ ~s.wins[i].minimized)
  <2> DEFINE win == [s.wins[i] EXCEPT !.minimized = FALSE]
             t == [s EXCEPT !.wins[i] = win]
             up == [t EXCEPT !.z = Raised(t.z, i)]
             seen == {BAR} \cup UNION {body_rect(up.wins[j]) : j \in {k \in Slots(up) : Visible(up, k)}}
             u == push_rect(up, seen)
  <2>1. s.wins[i] \in WinType /\ s.z \in Seq(Nat) /\ i \in Nat /\ s \in SceneType
    BY SlotsOf DEF SceneOK, SceneType
  <2>2. focus(s, i) = u
    <3>1. [s EXCEPT !.z = Raised(@, i), !.wins[i].minimized = FALSE] = up
      BY <2>1 DEF SceneType
    <3> QED BY <1>2, <3>1 DEF focus
  <2>3. /\ win \in WinType /\ win.id = s.wins[i].id /\ win.owner = s.wins[i].owner
        /\ win.kind = s.wins[i].kind /\ win.open = s.wins[i].open /\ win.ev = s.wins[i].ev
        /\ win.input = s.wins[i].input /\ win.buf = s.wins[i].buf /\ win.back = s.wins[i].back
        /\ win.x = s.wins[i].x /\ win.w = s.wins[i].w /\ win.minimized = FALSE
    BY <2>1 DEF WinType
  <2>4. SlotOK(s, i)
    BY DEF SceneOK
  <2> HIDE DEF win
  <2>5. /\ SceneOK(t) /\ Len(t.wins) = Len(s.wins) /\ Slots(t) = Slots(s)
        /\ t.wins[i] = win /\ \A j \in Slots(s) : j # i => t.wins[j] = s.wins[j]
        /\ t.z = s.z /\ t.dirty = s.dirty /\ t.left = s.left /\ t.cur = s.cur
        /\ t.dragging = s.dragging
        /\ t.resizing = s.resizing /\ t.menu_open = s.menu_open /\ t.next_id = s.next_id
    <3>1. WinOK(win) /\ win.id <= s.next_id /\ (win.owner \in Apps => win.kind = "User")
      BY <2>3, <2>4 DEF SlotOK, WinOK
    <3> QED BY <2>3, <3>1, PutWin
  <2> HIDE DEF t
  <2>6. /\ up \in SceneType /\ up.wins = t.wins /\ up.z = Raised(s.z, i) /\ up.dirty = t.dirty
        /\ up.left = t.left /\ up.cur = t.cur /\ up.dragging = t.dragging
        /\ up.resizing = t.resizing /\ up.menu_open = t.menu_open /\ up.next_id = t.next_id
    BY <2>1, <2>5, RaisedLast DEF SceneOK, SceneType
  <2>7. SceneOK(up)
    <3>1. ToSet(s.z) = Slots(s) /\ Len(s.z) = Len(s.wins)
      BY DEF SceneOK
    <3>2. ToSet(up.z) = Slots(s) /\ Len(up.z) = Len(s.wins)
      <4>1. i \in ToSet(s.z) /\ Slots(s) \cup {i} = Slots(s)
        BY <3>1
      <4>2. ToSet(Raised(s.z, i)) = Slots(s) \cup {i} /\ Len(Raised(s.z, i)) = Len(s.z)
        BY <2>1, <3>1, <4>1, RaisedLast
      <4> QED BY <2>6, <3>1, <4>1, <4>2
    <3>3. Slots(up) = Slots(s)
      BY <2>5, <2>6 DEF Slots
    <3>4. \A j \in Slots(up) : SlotOK(up, j)
      BY <2>5, <2>6, <3>3 DEF SceneOK, SlotOK
    <3> QED BY <2>5, <2>6, <3>2, <3>3, <3>4 DEF SceneOK
  <2>8. /\ SceneOK(u) /\ u.wins = t.wins /\ u.dirty = s.dirty \cup (seen \cap Cells) /\ u.left = s.left
        /\ u.cur = s.cur /\ u.resizing = s.resizing /\ u.dragging = s.dragging
        /\ u.menu_open = s.menu_open /\ u.next_id = s.next_id
    <3> HIDE DEF up, seen
    <3> QED BY <2>5, <2>6, <2>7, PushRect
  <2> HIDE DEF up, u
  <2>9. \A j \in Slots(s) : WinStep(s, u, j)
    BY <2>3, <2>5, <2>8 DEF WinStep, Paint
  <2>10. ASSUME NEW c \in Cols \ u.dirty PROVE SameLook(s, u, c)
    <3>1. ASSUME NEW j \in Slots(u), On(u, j, c) PROVE FALSE
      <4>0. On(u, j, c)
        BY <3>1
      <4>1. j \in Slots(up) /\ Visible(up, j) /\ c \in body_rect(up.wins[j])
        BY <2>6, <2>8, <4>0 DEF On, Visible, Slots
      <4>2. c \in seen /\ c \in Cells
        BY <4>1, BodyIn
      <4> QED BY <2>8, <4>2
    <3>2. ASSUME NEW j \in Slots(s), On(s, j, c) PROVE FALSE
      <4>0. On(s, j, c)
        BY <3>2
      <4>1. j \in Slots(u)
        BY <2>5, <2>8 DEF Slots
      <4>2. u.wins[j].open = s.wins[j].open /\ (s.wins[j].minimized = FALSE => u.wins[j].minimized = FALSE)
            /\ u.wins[j].x = s.wins[j].x /\ u.wins[j].w = s.wins[j].w
        <5>1. CASE j = i
          BY <2>3, <2>5, <2>8, <5>1
        <5>2. CASE j # i
          BY <2>5, <2>8, <5>2
        <5> QED BY <5>1, <5>2
      <4>3. s.wins[j].minimized \in BOOLEAN
        <5>1. s.wins[j] \in WinType
          BY SlotsOf
        <5> QED BY <5>1 DEF WinType
      <4>4. On(u, j, c)
        BY <4>0, <4>2, <4>3 DEF On, Visible, body_rect
      <4> QED BY <3>1, <4>1, <4>4
    <3>3. TopAt(s, c) = 0 /\ TopAt(u, c) = 0
      BY <2>8, <3>1, <3>2, TopIs
    <3> QED BY <2>8, <3>3 DEF SameLook
  <2>11. Does(s, u)
    BY <2>5, <2>8, <2>9, <2>10 DEF Does, Looks
  <2> QED BY <2>2, <2>8, <2>11 DEF Grips
<1> QED BY <1>1, <1>2

\* Damage in two parts.
LEMMA PushTwice == \A s, a, b : push_rect(push_rect(s, a), b) = push_rect(s, a \cup b)
<1> SUFFICES ASSUME NEW s, NEW a, NEW b PROVE push_rect(push_rect(s, a), b) = push_rect(s, a \cup b)
  OBVIOUS
<1>1. CASE "dirty" \in DOMAIN s
  <2>1. push_rect(s, a).dirty = s.dirty \cup (a \cap Cells)
    BY <1>1 DEF push_rect
  <2>2. (s.dirty \cup (a \cap Cells)) \cup (b \cap Cells) = s.dirty \cup ((a \cup b) \cap Cells)
    OBVIOUS
  <2> QED BY <2>1, <2>2 DEF push_rect
<1>2. CASE "dirty" \notin DOMAIN s
  BY <1>2 DEF push_rect
<1> QED BY <1>1, <1>2

\* No damage.
LEMMA PushNone == \A s : SceneOK(s) => push_rect(s, {}) = s
<1> SUFFICES ASSUME NEW s, SceneOK(s) PROVE push_rect(s, {}) = s
  OBVIOUS
<1>1. s \in SceneType
  BY DEF SceneOK
<1>2. s.dirty \cup ({} \cap Cells) = s.dirty
  OBVIOUS
<1> QED BY <1>1, <1>2 DEF push_rect, SceneType

Seen(win, c) == win.open /\ ~win.minimized /\ c \in body_rect(win)

\* win may take the place of window i.
Heir(s, i, win) ==
    LET old == s.wins[i]
    IN  /\ WinOK(win) /\ win.id = old.id /\ win.owner = old.owner /\ win.kind = old.kind
        /\ Paint(win) \subseteq Paint(old) \cup {0}
        /\ old.kind = "User" =>
              /\ old.open \/ ~win.open
              /\ ~win.open => \/ ~old.open /\ ("close" \in ToSet(old.ev) => "close" \in ToSet(win.ev))
                              \/ "close" \in ToSet(win.ev) /\ s.resizing.slot # i

\* Outside the cells it looks as the old one did, or covers more and is the kernel's.
Same(old, win, cells) ==
    \A c \in Cols \ cells :
        /\ Seen(old, c) => Seen(win, c)
        /\ Seen(win, c) /\ win.kind \in {"User", "Term"} => Seen(old, c) /\ Pixel(win, c) = Pixel(old, c)

LEMMA PutLook ==
    ASSUME NEW s, SceneOK(s), NEW i \in Slots(s), NEW win, NEW cells, WinOK(win),
           win.id = s.wins[i].id, win.owner = s.wins[i].owner, win.kind = s.wins[i].kind,
           Same(s.wins[i], win, cells),
           NEW t, t = push_rect([s EXCEPT !.wins[i] = win], cells)
    PROVE  /\ Looks(s, t) /\ SceneOK(t) /\ Grips(s, t) /\ Slots(t) = Slots(s)
           /\ t.wins[i] = win /\ \A j \in Slots(s) : j # i => t.wins[j] = s.wins[j]
           /\ t.z = s.z /\ t.menu_open = s.menu_open
           /\ Len(t.wins) = Len(s.wins) /\ t.next_id = s.next_id
<1> DEFINE p == [s EXCEPT !.wins[i] = win]
<1>2. win.id <= s.next_id /\ (win.owner \in Apps => win.kind = "User")
  BY DEF SceneOK, SlotOK
<1>3. /\ SceneOK(p) /\ Len(p.wins) = Len(s.wins) /\ Slots(p) = Slots(s)
      /\ p.wins[i] = win /\ \A j \in Slots(s) : j # i => p.wins[j] = s.wins[j]
      /\ p.z = s.z /\ p.dirty = s.dirty /\ Grips(s, p)
      /\ p.menu_open = s.menu_open /\ p.next_id = s.next_id
  BY <1>2, PutWin DEF Grips
<1> HIDE DEF p
<1> DEFINE u == push_rect(p, cells)
<1>p. t = u
  BY DEF p
<1>4. /\ SceneOK(u) /\ u.wins = p.wins /\ u.z = p.z /\ u.dirty = p.dirty \cup (cells \cap Cells)
      /\ u.left = p.left /\ u.cur = p.cur /\ u.dragging = p.dragging /\ u.resizing = p.resizing
      /\ u.menu_open = p.menu_open /\ u.next_id = p.next_id
  BY <1>3, PushRect
<1> HIDE DEF u
<1>5. /\ SceneOK(t) /\ Slots(t) = Slots(s) /\ Grips(s, t) /\ Len(t.wins) = Len(s.wins)
      /\ t.wins[i] = win /\ \A j \in Slots(s) : j # i => t.wins[j] = s.wins[j]
      /\ t.z = s.z /\ t.dirty = s.dirty \cup (cells \cap Cells)
      /\ t.menu_open = s.menu_open /\ t.next_id = s.next_id
  BY <1>3, <1>4, <1>p DEF Slots, Grips
<1>7. Covered(s, t, i)
  <2> SUFFICES ASSUME NEW c \in Cols \ t.dirty
               PROVE  /\ On(s, i, c) => On(t, i, c)
                      /\ On(t, i, c) /\ t.wins[i].kind \in {"User", "Term"}
                            => On(s, i, c) /\ Pixel(t.wins[i], c) = Pixel(s.wins[i], c)
    BY DEF Covered
  <2>1. c \in Cols \ cells
    BY <1>5, BodyIn
  <2>3. (On(s, i, c) <=> Seen(s.wins[i], c)) /\ (On(t, i, c) <=> Seen(win, c))
    BY <1>5 DEF On, Visible, Seen
  <2> QED BY <1>5, <2>1, <2>3 DEF Same
<1>8. t.wins[i].id = s.wins[i].id /\ t.wins[i].kind = s.wins[i].kind /\ s.dirty \subseteq t.dirty
  BY <1>5
<1>9. Looks(s, t)
  BY <1>5, <1>7, <1>8, OneLook
<1> QED BY <1>5, <1>9

LEMMA PutDoes ==
    ASSUME NEW s, SceneOK(s), NEW i \in Slots(s), NEW win, NEW cells,
           Heir(s, i, win), Same(s.wins[i], win, cells)
    PROVE  LET t == push_rect([s EXCEPT !.wins[i] = win], cells)
           IN  /\ Does(s, t) /\ SceneOK(t) /\ Grips(s, t) /\ Slots(t) = Slots(s)
               /\ t.wins[i] = win /\ \A j \in Slots(s) : j # i => t.wins[j] = s.wins[j]
               /\ t.z = s.z /\ t.menu_open = s.menu_open
<1> DEFINE t == push_rect([s EXCEPT !.wins[i] = win], cells)
<1>1. WinOK(win) /\ win.id = s.wins[i].id /\ win.owner = s.wins[i].owner /\ win.kind = s.wins[i].kind
  BY DEF Heir
<1>2. /\ Looks(s, t) /\ SceneOK(t) /\ Grips(s, t) /\ Slots(t) = Slots(s)
      /\ t.wins[i] = win /\ \A j \in Slots(s) : j # i => t.wins[j] = s.wins[j]
      /\ t.z = s.z /\ t.menu_open = s.menu_open
      /\ Len(t.wins) = Len(s.wins) /\ t.next_id = s.next_id
  BY <1>1, PutLook
<1> HIDE DEF t
<1>3. WinStep(s, t, i)
  BY <1>2 DEF WinStep, Heir, Grips
<1>4. \A j \in Slots(s) : WinStep(s, t, j)
  <2>1. \A j \in Slots(s) : j # i => WinStep(s, t, j)
    BY <1>2 DEF WinStep, Grips
  <2> QED BY <1>3, <2>1
<1>5. Does(s, t)
  BY <1>2, <1>4 DEF Does
<1> QED BY <1>2, <1>5 DEF t

\* The same with no damage.
LEMMA PutClean ==
    ASSUME NEW s, SceneOK(s), NEW i \in Slots(s), NEW win,
           Heir(s, i, win), Same(s.wins[i], win, {})
    PROVE  LET t == [s EXCEPT !.wins[i] = win]
           IN  /\ Does(s, t) /\ SceneOK(t) /\ Grips(s, t) /\ Slots(t) = Slots(s)
               /\ t.wins[i] = win /\ \A j \in Slots(s) : j # i => t.wins[j] = s.wins[j]
               /\ t.z = s.z /\ t.menu_open = s.menu_open
<1> DEFINE t == [s EXCEPT !.wins[i] = win]
<1>1. WinOK(win) /\ win.id = s.wins[i].id /\ win.owner = s.wins[i].owner /\ win.kind = s.wins[i].kind
  BY DEF Heir
<1>2. win.id <= s.next_id /\ (win.owner \in Apps => win.kind = "User")
  BY <1>1 DEF SceneOK, SlotOK
<1>3. SceneOK(t)
  BY <1>1, <1>2, PutWin
<1>4. t = push_rect(t, {})
  BY <1>3, PushNone
<1> DEFINE u == push_rect([s EXCEPT !.wins[i] = win], {})
<1>5. u = t
  BY <1>4
<1>6. /\ Does(s, u) /\ SceneOK(u) /\ Grips(s, u) /\ Slots(u) = Slots(s)
      /\ u.wins[i] = win /\ \A j \in Slots(s) : j # i => u.wins[j] = s.wins[j]
      /\ u.z = s.z /\ u.menu_open = s.menu_open
  BY PutDoes
<1> HIDE DEF t, u
<1>7. /\ Does(s, t) /\ SceneOK(t) /\ Grips(s, t) /\ Slots(t) = Slots(s)
      /\ t.wins[i] = win /\ \A j \in Slots(s) : j # i => t.wins[j] = s.wins[j]
      /\ t.z = s.z /\ t.menu_open = s.menu_open
  BY <1>5, <1>6
<1> QED BY <1>7 DEF t

\* The next window down is focused.
LEMMA FocusTopDoes ==
    ASSUME NEW s, SceneOK(s)
    PROVE  Does(s, FocusTop(s)) /\ Grips(s, FocusTop(s))
<1>1. CASE active_idx(s) = 0
  BY <1>1, PushDoes, PushRect DEF FocusTop, Grips
<1>2. CASE active_idx(s) # 0
  <2>1. active_idx(s) \in Slots(s)
    BY <1>2, ActiveIs
  <2> QED BY <1>2, <2>1, FocusDoes DEF FocusTop, Grips
<1> QED BY <1>1, <1>2

\* Minimizing a window.
LEMMA MinimizeDoes ==
    ASSUME NEW s, SceneOK(s), NEW i \in Slots(s)
    PROVE  Does(s, minimize_win(s, i)) /\ Grips(s, minimize_win(s, i))
<1> DEFINE old == s.wins[i]
           win == [old EXCEPT !.minimized = TRUE]
           t == push_rect([s EXCEPT !.wins[i] = win], body_rect(win))
<1>1. old \in WinType /\ WinOK(old)
  BY DEF SceneOK, SlotOK, WinOK
<1>2. /\ WinOK(win) /\ win.id = old.id /\ win.owner = old.owner /\ win.kind = old.kind
      /\ win.open = old.open /\ win.ev = old.ev /\ win.buf = old.buf /\ win.back = old.back
      /\ win.x = old.x /\ win.w = old.w /\ win.minimized = TRUE
  BY <1>1 DEF WinType, WinOK
<1> HIDE DEF win
<1>3. Heir(s, i, win)
  BY <1>1, <1>2 DEF Heir, Paint, WinType
<1>4. Same(old, win, body_rect(win))
  BY <1>2 DEF Same, Seen, body_rect
<1>5. Does(s, t) /\ SceneOK(t) /\ Grips(s, t)
  BY <1>3, <1>4, PutDoes
<1>6. dirty_win([s EXCEPT !.wins[i].minimized = TRUE], i) = t
  <2>1. [s EXCEPT !.wins[i].minimized = TRUE] = [s EXCEPT !.wins[i] = win]
    BY DEF win
  <2>2. [s EXCEPT !.wins[i] = win].wins[i] = win
    BY PutAt
  <2> QED BY <2>1, <2>2 DEF dirty_win
<1> HIDE DEF t
<1>7. minimize_win(s, i) = FocusTop(t)
  BY <1>6 DEF minimize_win
<1>8. Does(t, FocusTop(t)) /\ Grips(t, FocusTop(t))
  BY <1>5, FocusTopDoes
<1> QED BY <1>5, <1>7, <1>8, DoesBoth DEF Grips

\* A window of the kernel that is opened.
LEMMA OpenDoes ==
    ASSUME NEW s, SceneOK(s), NEW i \in {MONITOR, ABOUT}
    PROVE  Does(s, open_win(s, i)) /\ Grips(s, open_win(s, i))
<1> DEFINE old == s.wins[i]
           at == IF i # ABOUT THEN s.wins[i].x
                 ELSE IF s.wins[MONITOR].open THEN s.wins[MONITOR].x + 1
                 ELSE (W - KERNEL_W) \div 2
           wide == IF i = ABOUT THEN KERNEL_W ELSE s.wins[i].w
           up == [old EXCEPT !.minimized = FALSE]
           new == clamp_win([old EXCEPT !.open = TRUE, !.x = at, !.w = wide])
<1>1. i \in Slots(s)
  BY SlotsOf
<1>2. old \in WinType /\ WinOK(old) /\ s.wins[MONITOR] \in WinType
  BY <1>1, SlotsOf DEF SceneOK, SlotOK
<1>3. old.kind \notin {"User", "Term"}
  BY <1>1 DEF SceneOK, SlotOK, MONITOR, ABOUT
<1>4. CASE old.open
  <2>1. /\ WinOK(up) /\ up.id = old.id /\ up.owner = old.owner /\ up.kind = old.kind /\ up.buf = old.buf
        /\ up.back = old.back /\ up.open = old.open /\ up.x = old.x /\ up.w = old.w /\ up.minimized = FALSE
    BY <1>2 DEF WinOK, WinType
  <2> HIDE DEF up
  <2>2. Heir(s, i, up) /\ Same(old, up, {})
    BY <1>3, <2>1 DEF Heir, Same, Paint, Seen, body_rect
  <2> DEFINE t == [s EXCEPT !.wins[i] = up]
  <2>3. Does(s, t) /\ SceneOK(t) /\ Grips(s, t) /\ Slots(t) = Slots(s)
    BY <1>1, <2>2, PutClean
  <2>4. t = [s EXCEPT !.wins[i].minimized = FALSE]
    BY DEF up
  <2> HIDE DEF t
  <2>5. open_win(s, i) = focus(t, i)
    BY <1>4, <2>4 DEF open_win
  <2>6. Does(t, focus(t, i)) /\ Grips(t, focus(t, i))
    BY <1>1, <2>3, FocusDoes
  <2> QED BY <2>3, <2>5, <2>6, DoesBoth DEF Grips
<1>5. CASE ~old.open
  <2>1. wide \in 1 .. W /\ at \in Nat
    <3>1. old.w \in 1 .. W /\ old.x \in Nat /\ s.wins[MONITOR].x \in Nat
      BY <1>2 DEF WinType
    <3>2. KERNEL_W \in 1 .. W /\ (W - KERNEL_W) \div 2 \in Nat
      BY Sizes
    <3> QED BY <3>1, <3>2
  <2> HIDE DEF wide, at
  <2>2. /\ WinOK(new) /\ new.id = old.id /\ new.owner = old.owner /\ new.kind = old.kind /\ new.buf = old.buf
        /\ new.back = old.back
    <3> DEFINE hi == Max({W - wide - EDGE, 0})
               x == Clamp(at, 0, hi)
    <3>1. hi \in Nat
      BY <2>1, Sizes, MaxOfTwo DEF EDGE
    <3> HIDE DEF hi
    <3>2. x \in Nat
      BY <2>1, <3>1 DEF Clamp
    <3> HIDE DEF x
    <3>3. new = [old EXCEPT !.open = TRUE, !.x = x, !.w = wide]
      BY <1>2, <2>1 DEF clamp_win, WinType, x, hi
    <3> HIDE DEF new
    <3> QED BY <1>2, <2>1, <3>2, <3>3 DEF WinOK, WinType
  <2> HIDE DEF new
  <2>3. Heir(s, i, new) /\ Same(old, new, {})
    BY <1>3, <1>5, <2>2 DEF Heir, Same, Paint, Seen
  <2> DEFINE t == [s EXCEPT !.wins[i] = new]
  <2>4. Does(s, t) /\ SceneOK(t) /\ Grips(s, t) /\ Slots(t) = Slots(s)
    BY <1>1, <2>3, PutClean
  <2>6. open_win(s, i) = focus(t, i)
    BY <1>5 DEF open_win, t, new, wide, at
  <2>7. Does(t, focus(t, i)) /\ Grips(t, focus(t, i))
    <3> HIDE DEF t
    <3> QED BY <1>1, <2>4, FocusDoes
  <2> QED BY <2>4, <2>6, <2>7, DoesBoth DEF Grips
<1> QED BY <1>4, <1>5

\* The taskbar's button.
LEMMA ButtonDoes ==
    ASSUME NEW s, SceneOK(s), NEW i \in Slots(s)
    PROVE  Does(s, task_btn_click(s, i))
BY MinimizeDoes, FocusDoes DEF task_btn_click

\* An event more in the queue of a window.
Queued(q, ev) == Append(IF Len(q) >= EV_CAP THEN Tail(q) ELSE q, ev)

LEMMA QueuedIn ==
    ASSUME NEW q \in Seq(Events), Len(q) <= EV_CAP, NEW ev \in Events
    PROVE  /\ Queued(q, ev) \in Seq(Events) /\ Len(Queued(q, ev)) <= EV_CAP
           /\ ev \in ToSet(Queued(q, ev))
<1>1. EV_CAP \in Nat /\ EV_CAP >= 2 /\ Len(q) \in Nat
  BY Sizes
<1> DEFINE r == IF Len(q) >= EV_CAP THEN Tail(q) ELSE q
<1>2. r \in Seq(Events) /\ Len(r) + 1 <= EV_CAP
  BY <1>1
<1>3. Queued(q, ev) = Append(r, ev)
  BY DEF Queued
<1> HIDE DEF r
<1>4. /\ Append(r, ev) \in Seq(Events) /\ Len(Append(r, ev)) = Len(r) + 1
      /\ Append(r, ev)[Len(r) + 1] = ev /\ Len(r) + 1 \in DOMAIN Append(r, ev)
  BY <1>2
<1> QED BY <1>2, <1>3, <1>4 DEF ToSet

\* What push_event does to its window.
LEMMA EventIs ==
    ASSUME NEW s, SceneOK(s), NEW i \in Slots(s), NEW old, s.wins[i] = old, NEW ev \in Events
    PROVE  LET win == [old EXCEPT !.ev = Queued(@, ev)]
           IN  /\ push_event(s, i, ev) = [s EXCEPT !.wins[i] = win]
               /\ WinOK(win) /\ ev \in ToSet(win.ev)
               /\ win.id = old.id /\ win.owner = old.owner /\ win.kind = old.kind /\ win.open = old.open
               /\ win.minimized = old.minimized /\ win.x = old.x /\ win.w = old.w
               /\ win.buf = old.buf /\ win.back = old.back /\ win.text = old.text
<1> DEFINE win == [old EXCEPT !.ev = Queued(@, ev)]
<1>1. old \in WinType /\ WinOK(old)
  BY DEF SceneOK, SlotOK, WinOK
<1>2. Queued(old.ev, ev) \in Seq(Events) /\ Len(Queued(old.ev, ev)) <= EV_CAP /\ ev \in ToSet(Queued(old.ev, ev))
  BY <1>1, QueuedIn DEF WinOK, WinType, Events
<1>3. push_event(s, i, ev) = [s EXCEPT !.wins[i] = win]
  BY DEF push_event, Queued
<1>4. win.ev = Queued(old.ev, ev) /\ win = [old EXCEPT !.ev = Queued(old.ev, ev)]
  BY <1>1 DEF WinType
<1>5. WinOK(win)
  BY <1>1, <1>2, <1>4 DEF WinOK, WinType, Events
<1>6. /\ win.id = old.id /\ win.owner = old.owner /\ win.kind = old.kind /\ win.open = old.open
      /\ win.minimized = old.minimized /\ win.x = old.x /\ win.w = old.w
      /\ win.buf = old.buf /\ win.back = old.back /\ win.text = old.text
  BY <1>1, <1>4 DEF WinType
<1> QED BY <1>2, <1>3, <1>4, <1>5, <1>6

\* An event for a window that is open.
LEMMA EventDoes ==
    ASSUME NEW s, SceneOK(s), NEW i \in Slots(s), s.wins[i].open, NEW ev \in Events
    PROVE  /\ Does(s, push_event(s, i, ev)) /\ Grips(s, push_event(s, i, ev))
           /\ SceneOK(push_event(s, i, ev))
<1>0. PICK old : s.wins[i] = old
  OBVIOUS
<1> DEFINE win == [old EXCEPT !.ev = Queued(@, ev)]
<1>1. /\ push_event(s, i, ev) = [s EXCEPT !.wins[i] = win] /\ WinOK(win)
      /\ win.id = old.id /\ win.owner = old.owner /\ win.kind = old.kind /\ win.open = old.open
      /\ win.minimized = old.minimized /\ win.x = old.x /\ win.w = old.w
      /\ win.buf = old.buf /\ win.back = old.back /\ win.text = old.text
  BY <1>0, EventIs
<1> HIDE DEF win
<1>2. s.wins[i].open /\ s.wins[i] = old
  BY <1>0
<1>3. Heir(s, i, win)
  BY <1>1, <1>2 DEF Heir, Paint
<1>4. Same(old, win, {})
  BY <1>1 DEF Same, Seen, Pixel, body_rect
<1> QED BY <1>0, <1>1, <1>3, <1>4, PutClean

\* The close box, when no window is being resized.
LEMMA CloseDoes ==
    ASSUME NEW s, SceneOK(s), NEW i \in Slots(s), s.resizing.slot = 0
    PROVE  Does(s, CloseBox(s, i)) /\ Grips(s, CloseBox(s, i))
<1> DEFINE old == s.wins[i]
           win == IF old.kind = "User" THEN [old EXCEPT !.open = FALSE, !.ev = Queued(@, "close")]
                  ELSE [old EXCEPT !.open = FALSE]
           told == push_rect([s EXCEPT !.wins[i] = win], body_rect(win))
           flat == [old EXCEPT !.open = FALSE]
           shut == push_rect([s EXCEPT !.wins[i] = flat], body_rect(flat))
<1>1. old \in WinType /\ WinOK(old) /\ SlotOK(s, i) /\ i # 0
  BY SlotsOf DEF SceneOK, SlotOK, WinOK
<1>2. Queued(old.ev, "close") \in Seq(Events) /\ Len(Queued(old.ev, "close")) <= EV_CAP
      /\ "close" \in ToSet(Queued(old.ev, "close"))
  BY <1>1, QueuedIn DEF WinOK, WinType, Events
<1>3. /\ WinOK(flat) /\ flat.id = old.id /\ flat.owner = old.owner /\ flat.kind = old.kind
      /\ ~flat.open /\ flat.x = old.x /\ flat.w = old.w /\ flat.ev = old.ev
  BY <1>1 DEF WinOK, WinType
<1>4. /\ WinOK(win) /\ win.id = old.id /\ win.owner = old.owner /\ win.kind = old.kind
      /\ ~win.open /\ win.x = old.x /\ win.w = old.w /\ win.buf = old.buf /\ win.back = old.back
      /\ old.kind = "User" => "close" \in ToSet(win.ev)
  BY <1>1, <1>2 DEF WinOK, WinType, Events
<1>5. Heir(s, i, win)
  BY <1>1, <1>4 DEF Heir, Paint
<1>6. Same(old, win, body_rect(win))
  BY <1>4 DEF Same, Seen, body_rect
<1> HIDE DEF win
<1>7. Does(s, told) /\ SceneOK(told) /\ Grips(s, told)
  BY <1>5, <1>6, PutDoes
<1> HIDE DEF told
<1>8. dirty_win([s EXCEPT !.wins[i].open = FALSE], i) = shut
  <2>1. [s EXCEPT !.wins[i].open = FALSE] = [s EXCEPT !.wins[i] = flat]
    OBVIOUS
  <2> HIDE DEF flat
  <2>2. [s EXCEPT !.wins[i] = flat].wins[i] = flat
    BY PutAt
  <2> QED BY <2>1, <2>2 DEF dirty_win
<1>9. (IF old.kind = "User" THEN push_event(shut, i, "close") ELSE shut) = told
  <2> DEFINE p == [s EXCEPT !.wins[i] = flat]
  <2>1. SceneOK(p) /\ p.wins[i] = flat /\ Slots(p) = Slots(s)
    <3>1. flat.id <= s.next_id /\ (flat.owner \in Apps => flat.kind = "User")
      BY <1>1, <1>3 DEF SlotOK
    <3>2. flat.kind = s.wins[i].kind /\ WinOK(flat)
      BY <1>3
    <3> HIDE DEF flat, old
    <3> QED BY <3>1, <3>2, PutWin
  <2>2. SceneOK(shut) /\ shut.wins = p.wins /\ Slots(shut) = Slots(s)
    <3>1. shut = push_rect(p, body_rect(flat))
      OBVIOUS
    <3> HIDE DEF p, flat, shut, old
    <3>2. SceneOK(shut) /\ shut.wins = p.wins
      BY <2>1, <3>1, PushRect
    <3>3. Slots(shut) = Slots(p)
      BY <3>2 DEF Slots
    <3> QED BY <2>1, <3>2, <3>3
  <2>3. CASE old.kind = "User"
    <3> DEFINE evs == Queued(old.ev, "close")
    <3>1. push_event(shut, i, "close") = [shut EXCEPT !.wins[i] = [flat EXCEPT !.ev = evs]]
      <4>1. shut.wins[i] = flat
        BY <2>1, <2>2
      <4>2. flat.ev = old.ev
        BY <1>3
      <4> HIDE DEF shut, flat, old
      <4> QED BY <4>1, <4>2 DEF push_event, Queued
    <3>2. win = [flat EXCEPT !.ev = evs]
      BY <1>1, <2>3 DEF win, WinType
    <3>3. body_rect(win) = body_rect(flat)
      BY <1>3, <1>4 DEF body_rect
    <3>4. s \in SceneType /\ s.wins \in Seq(WinType) /\ i \in DOMAIN s.wins
      BY WinsOf
    <3> HIDE DEF flat, evs
    <3>5. [shut EXCEPT !.wins[i] = win] = told
      BY <3>3, <3>4 DEF shut, told, push_rect, SceneType
    <3> QED BY <2>3, <3>1, <3>2, <3>5
  <2>4. CASE old.kind # "User"
    BY <2>4 DEF told, win
  <2> QED BY <2>3, <2>4
<1> HIDE DEF shut
<1>10. CloseBox(s, i) = IF \E j \in Slots(told) : told.wins[j].open THEN FocusTop(told) ELSE told
  BY <1>8, <1>9 DEF CloseBox
<1>11. Does(told, FocusTop(told)) /\ Grips(told, FocusTop(told))
  BY <1>7, FocusTopDoes
<1> QED BY <1>7, <1>10, <1>11, DoesBoth DEF Grips

\* A scene with the windows, the order and the ids of another.
LEMMA StillOK ==
    ASSUME NEW s, SceneOK(s), NEW t \in SceneType, t.wins = s.wins, t.z = s.z, t.next_id = s.next_id,
           t.dragging.slot \in 0 .. Len(s.wins), t.resizing.slot \in 0 .. Len(s.wins)
    PROVE  SceneOK(t) /\ Slots(t) = Slots(s)
BY DEF SceneOK, SlotOK, Slots

---------------------------------------------------------------------------
(* The input of a frame.                                                   *)

\* A window that is drawn anew where it was and where it is.
LEMMA RedrawDoes ==
    ASSUME NEW s, SceneOK(s), NEW i \in Slots(s), NEW win, Heir(s, i, win)
    PROVE  LET t == push_rect(dirty_win([s EXCEPT !.wins[i] = win], i), body_rect(s.wins[i]))
           IN  Does(s, t) /\ Grips(s, t) /\ SceneOK(t)
<1> DEFINE p == [s EXCEPT !.wins[i] = win]
           t == push_rect(dirty_win(p, i), body_rect(s.wins[i]))
           u == push_rect(p, body_rect(win) \cup body_rect(s.wins[i]))
<1>1. Same(s.wins[i], win, body_rect(win) \cup body_rect(s.wins[i]))
  BY DEF Same, Seen
<1>2. Does(s, u) /\ Grips(s, u) /\ SceneOK(u)
  BY <1>1, PutDoes
<1>3. p.wins[i] = win
  BY PutAt
<1>4. t = u
  <2> HIDE DEF p
  <2> QED BY <1>3, PushTwice DEF dirty_win
<1> HIDE DEF t, u
<1>5. Does(s, t) /\ Grips(s, t) /\ SceneOK(t)
  BY <1>2, <1>4
<1> QED BY <1>5 DEF t, p

\* Where clamping puts a window.
LEMMA ClampedAt ==
    ASSUME NEW v \in Int, NEW w \in 1 .. W
    PROVE  Clamp(v, 0, Max({W - w - EDGE, 0})) \in Nat
<1> DEFINE hi == Max({W - w - EDGE, 0})
<1>1. hi \in Nat
  BY Sizes, MaxOfTwo DEF EDGE
<1> HIDE DEF hi
<1>2. Clamp(v, 0, hi) \in Nat
  BY <1>1 DEF Clamp
<1> QED BY <1>2 DEF hi

\* A drag.
LEMMA DraggedDoes ==
    ASSUME NEW s, SceneOK(s)
    PROVE  Does(s, Dragged(s)) /\ Grips(s, Dragged(s)) /\ SceneOK(Dragged(s))
<1> DEFINE i == s.dragging.slot
           old == s.wins[i]
           v == s.cur - s.dragging.off
           x == Clamp(v, 0, Max({W - old.w - EDGE, 0}))
           win == [old EXCEPT !.x = x]
<1>1. CASE i = 0
  BY <1>1, DoesNothing DEF Dragged, Grips
<1>2. CASE i # 0
  <2>1. i \in Slots(s) /\ v \in Int
    <3>1. i \in 0 .. Len(s.wins) /\ s \in SceneType
      BY DEF SceneOK
    <3>2. i \in Slots(s)
      BY <1>2, <3>1, SlotsOf
    <3>3. s.cur \in Cols /\ s.dragging.off \in Int
      BY <3>1 DEF SceneType
    <3> QED BY <3>2, <3>3, Sizes DEF Cols
  <2>2. old \in WinType /\ WinOK(old)
    BY <2>1 DEF SceneOK, SlotOK, WinOK
  <2>3. x \in Nat
    <3>1. old.w \in 1 .. W
      BY <2>2 DEF WinType
    <3> QED BY <2>1, <3>1, ClampedAt
  <2>4. clamp_win([old EXCEPT !.x = v]) = win
    BY <2>2 DEF clamp_win, WinType
  <2> HIDE DEF x, v
  <2>5. /\ WinOK(win) /\ win.id = old.id /\ win.owner = old.owner /\ win.kind = old.kind
        /\ win.open = old.open /\ win.ev = old.ev /\ win.buf = old.buf /\ win.back = old.back
    BY <2>2, <2>3 DEF WinOK, WinType
  <2> HIDE DEF win
  <2>6. Heir(s, i, win)
    BY <2>5 DEF Heir, Paint
  <2>7. Dragged(s) = push_rect(dirty_win([s EXCEPT !.wins[i] = win], i), body_rect(old))
    <3>1. [s EXCEPT !.wins[i] = clamp_win([@ EXCEPT !.x = s.cur - s.dragging.off])] = [s EXCEPT !.wins[i] = win]
      BY <2>4 DEF v
    <3> QED BY <1>2, <3>1 DEF Dragged
  <2> QED BY <2>1, <2>6, <2>7, RedrawDoes
<1> QED BY <1>1, <1>2

\* The window of a resize with its new buffers.
LEMMA RebufferIs ==
    ASSUME NEW old \in WinType, WinOK(old), NEW nw \in 1 .. W
    PROVE  LET win == Rebuffer(old, nw)
           IN  /\ WinOK(win) /\ win.id = old.id /\ win.owner = old.owner /\ win.kind = old.kind
               /\ win.open = old.open /\ win.ev = old.ev /\ Paint(win) \subseteq Paint(old) \cup {0}
<1> DEFINE win == Rebuffer(old, nw)
           b == [k \in 1 .. nw |-> IF k <= Len(old.buf) THEN old.buf[k] ELSE 0]
           e == [k \in 1 .. nw |-> 0]
<1>1. old.buf \in Seq(Pids) /\ Len(old.buf) \in Nat /\ 0 \in Pids /\ nw \in Nat
  <2>1. old.buf \in Seq(Pids)
    BY DEF WinType
  <2> QED BY <2>1, Sizes DEF Pids
<1>2. b \in Seq(Pids) /\ DOMAIN b = 1 .. nw /\ e \in Seq(Pids) /\ DOMAIN e = 1 .. nw
  <2>1. \A k \in 1 .. nw : (IF k <= Len(old.buf) THEN old.buf[k] ELSE 0) \in Pids
    BY <1>1
  <2> HIDE DEF Pids
  <2>2. b \in [1 .. nw -> Pids] /\ e \in [1 .. nw -> Pids]
    BY <1>1, <2>1
  <2>3. \A f \in [1 .. nw -> Pids] : f \in Seq(Pids)
    BY <1>1
  <2> QED BY <2>2, <2>3
<1>3. ToSet(b) \subseteq ToSet(old.buf) \cup {0}
  <2> SUFFICES ASSUME NEW k \in 1 .. nw PROVE b[k] \in ToSet(old.buf) \cup {0}
    BY <1>2 DEF ToSet
  <2> QED BY <1>1 DEF ToSet
<1>4. ToSet(e) \subseteq {0}
  BY <1>2 DEF ToSet
<1> HIDE DEF b, e
<1>5. win = [old EXCEPT !.w = nw, !.buf = b, !.back = e, !.pending = TRUE]
  BY DEF Rebuffer, b, e
<1> HIDE DEF win
<1>6. /\ win \in WinType /\ win.id = old.id /\ win.owner = old.owner /\ win.kind = old.kind
      /\ win.open = old.open /\ win.ev = old.ev /\ win.input = old.input /\ win.buf = b /\ win.back = e
  BY <1>2, <1>5 DEF WinType
<1>7. Paint(win) \subseteq Paint(old) \cup {0}
  BY <1>3, <1>4, <1>6 DEF Paint
<1> QED BY <1>6, <1>7 DEF WinOK, win

\* A resize that does not panic.
LEMMA ResizedDoes ==
    ASSUME NEW s, SceneOK(s), ~MotionPanics(s)
    PROVE  Does(s, Resized(s)) /\ Grips(s, Resized(s)) /\ SceneOK(Resized(s))
<1> DEFINE i == s.resizing.slot
           old == s.wins[i]
           nw == ResizeTo(s, i)
           win == IF old.kind = "User" THEN Rebuffer(old, nw) ELSE [old EXCEPT !.w = nw]
<1>1. CASE i = 0
  BY <1>1, DoesNothing DEF Resized, Grips
<1>2. CASE i # 0
  <2>1. i \in Slots(s) /\ s.cur \in Nat
    <3>1. i \in 0 .. Len(s.wins) /\ s \in SceneType
      BY DEF SceneOK
    <3>2. i \in Slots(s)
      BY <1>2, <3>1, SlotsOf
    <3>3. s.cur \in Cols
      BY <3>1 DEF SceneType
    <3> QED BY <3>2, <3>3, Sizes DEF Cols
  <2>2. old \in WinType /\ WinOK(old)
    BY <2>1 DEF SceneOK, SlotOK, WinOK
  <2>3. nw \in 1 .. W
    <3>1. old.x \in Nat /\ MIN_WIN_W <= W - old.x - EDGE
      <4>1. old.x \in Nat
        BY <2>2 DEF WinType
      <4> QED BY <1>2, <4>1, Sizes DEF MotionPanics, EDGE
    <3> QED BY <2>1, <3>1, Sizes DEF ResizeTo, Clamp, EDGE
  <2> HIDE DEF nw
  <2>4. CASE nw = old.w
    <3>1. Resized(s) = push_rect(push_rect(s, body_rect(old)), body_rect(old))
      BY <1>2, <2>4 DEF Resized, nw, dirty_win
    <3>2. Resized(s) = push_rect(s, body_rect(old))
      BY <3>1, PushTwice
    <3> QED BY <3>2, PushDoes, PushRect DEF Grips
  <2>5. CASE nw # old.w
    <3>1. /\ WinOK(win) /\ win.id = old.id /\ win.owner = old.owner /\ win.kind = old.kind
          /\ win.open = old.open /\ win.ev = old.ev /\ Paint(win) \subseteq Paint(old) \cup {0}
      <4>1. CASE old.kind = "User"
        BY <2>2, <2>3, <4>1, RebufferIs
      <4>2. CASE old.kind # "User"
        BY <2>2, <2>3, <4>2 DEF WinOK, WinType, Paint
      <4> QED BY <4>1, <4>2
    <3> HIDE DEF win
    <3>2. Heir(s, i, win)
      BY <3>1 DEF Heir
    <3>3. Resized(s) = push_rect(dirty_win([s EXCEPT !.wins[i] = win], i), body_rect(old))
      <4>1. [s EXCEPT !.wins[i] = IF @.kind = "User" THEN Rebuffer(@, nw) ELSE [@ EXCEPT !.w = nw]]
            = [s EXCEPT !.wins[i] = win]
        BY DEF win
      <4>2. Resized(s) = push_rect(dirty_win([s EXCEPT !.wins[i] = IF @.kind = "User" THEN Rebuffer(@, nw)
                                                                  ELSE [@ EXCEPT !.w = nw]], i), body_rect(old))
        BY <1>2, <2>5 DEF Resized, nw
      <4> QED BY <4>1, <4>2
    <3> QED BY <2>1, <3>2, <3>3, RedrawDoes, SMTT(30)
  <2> QED BY <2>4, <2>5
<1> QED BY <1>1, <1>2

\* The cursor moves, and a drag and a resize follow it.
LEMMA MotionDoes ==
    ASSUME NEW s, SceneOK(s), NEW c \in Cols, c # s.cur => ~MotionPanics(Moved(s, c))
    PROVE  LET t == Motion(s, c)
           IN  Does(s, t) /\ SceneOK(t) /\ t.resizing = s.resizing /\ t.left = s.left
<1>1. CASE c = s.cur
  BY <1>1, DoesNothing DEF Motion
<1>2. CASE c # s.cur
  <2> DEFINE m == [s EXCEPT !.cur = c]
             d == Dragged(m)
             r == Resized(d)
  <2>1. s \in SceneType /\ s.dragging.slot \in 0 .. Len(s.wins) /\ s.resizing.slot \in 0 .. Len(s.wins)
    BY DEF SceneOK
  <2>2. /\ m \in SceneType /\ m.wins = s.wins /\ m.z = s.z /\ m.next_id = s.next_id /\ m.dirty = s.dirty
        /\ m.dragging = s.dragging /\ m.resizing = s.resizing /\ m.left = s.left
        /\ m.menu_open = s.menu_open
    BY <2>1 DEF SceneType
  <2> HIDE DEF m
  <2>3. SceneOK(m)
    BY <2>1, <2>2, StillOK
  <2>4. Does(s, m)
    BY <2>2, <2>3, NoWindow
  <2>5. Does(m, d) /\ Grips(m, d) /\ SceneOK(d)
    BY <2>3, DraggedDoes
  <2>6. d = Moved(s, c)
    BY DEF Moved, m
  <2> HIDE DEF d
  <2>7. Does(d, r) /\ Grips(d, r) /\ SceneOK(r)
    BY <1>2, <2>5, <2>6, ResizedDoes
  <2>8. Motion(s, c) = r
    BY <1>2, <2>6 DEF Motion
  <2> HIDE DEF r
  <2>9. Does(s, r)
    BY <2>3, <2>4, <2>5, <2>7, DoesBoth
  <2> QED BY <2>2, <2>5, <2>7, <2>8, <2>9 DEF Grips
<1> QED BY <1>1, <1>2

\* The button goes up.
LEMMA ReleasedDoes ==
    ASSUME NEW s, SceneOK(s)
    PROVE  Does(s, Released(s)) /\ Released(s).resizing.slot = 0
<1> DEFINE i == s.resizing.slot
           old == s.wins[i]
           free == [s EXCEPT !.resizing = NoGrip, !.dragging = NoGrab]
           calm == [old EXCEPT !.pending = FALSE]
           p == [free EXCEPT !.wins[i] = calm]
           win == [calm EXCEPT !.ev = Queued(@, "resize")]
           t == [p EXCEPT !.wins[i] = win]
<1>1. s \in SceneType /\ i \in 0 .. Len(s.wins)
  BY DEF SceneOK
<1>2. /\ free \in SceneType /\ free.wins = s.wins /\ free.z = s.z /\ free.next_id = s.next_id
      /\ free.dirty = s.dirty /\ free.menu_open = s.menu_open
      /\ free.dragging.slot = 0 /\ free.resizing.slot = 0
  <2>1. /\ NoGrip \in [slot : Nat, id : Nat] /\ NoGrip.slot = 0
        /\ NoGrab \in [slot : Nat, off : Int, id : Nat] /\ NoGrab.slot = 0
    BY DEF NoGrip, NoGrab
  <2> QED BY <1>1, <2>1 DEF SceneType
<1>3. SceneOK(free) /\ Slots(free) = Slots(s)
  <2>1. 0 \in 0 .. Len(s.wins)
    BY SlotsOf
  <2> HIDE DEF free
  <2> QED BY <1>2, <2>1, StillOK
<1>4. CASE i = 0 \/ old.kind # "User"
  <2>1. Released(s) = free
    BY <1>4 DEF Released
  <2> HIDE DEF free
  <2> QED BY <1>2, <1>3, <2>1, NoWindow
<1>5. CASE ~(i = 0 \/ old.kind # "User")
  <2>1. i \in Slots(s) /\ i # 0
    BY <1>1, <1>5, SlotsOf
  <2>2. old \in WinType /\ WinOK(old) /\ SlotOK(s, i)
    BY <2>1 DEF SceneOK, SlotOK, WinOK
  <2>3. /\ WinOK(calm) /\ calm.id = old.id /\ calm.owner = old.owner /\ calm.kind = old.kind
        /\ calm.open = old.open /\ calm.minimized = old.minimized /\ calm.x = old.x /\ calm.w = old.w
        /\ calm.buf = old.buf /\ calm.back = old.back /\ calm.text = old.text
    BY <2>2 DEF WinOK, WinType
  <2>4. free.wins[i] = old /\ i \in Slots(free)
    BY <1>2, <1>3, <2>1
  <2> HIDE DEF free, calm
  <2>5. /\ SceneOK(p) /\ Len(p.wins) = Len(s.wins) /\ Slots(p) = Slots(s)
        /\ p.wins[i] = calm /\ \A j \in Slots(s) : j # i => p.wins[j] = s.wins[j]
        /\ p.z = s.z /\ p.dirty = s.dirty /\ p.menu_open = s.menu_open
        /\ p.resizing = free.resizing /\ p.next_id = s.next_id
    BY <1>2, <1>3, <2>2, <2>3, <2>4, PutWin DEF SlotOK
  <2> HIDE DEF p
  <2>6. /\ push_event(p, i, "resize") = t /\ WinOK(win)
        /\ win.id = calm.id /\ win.owner = calm.owner /\ win.kind = calm.kind
        /\ win.open = calm.open /\ win.minimized = calm.minimized /\ win.x = calm.x /\ win.w = calm.w
        /\ win.buf = calm.buf /\ win.back = calm.back /\ win.text = calm.text
    <3>1. SceneOK(p) /\ i \in Slots(p) /\ p.wins[i] = calm /\ "resize" \in Events
      BY <2>1, <2>5 DEF Events
    <3> HIDE DEF i
    <3> QED BY <3>1, EventIs
  <2> HIDE DEF win
  <2>7. /\ win.id = old.id /\ win.owner = old.owner /\ win.kind = old.kind
        /\ win.open = old.open /\ win.minimized = old.minimized /\ win.x = old.x /\ win.w = old.w
        /\ win.buf = old.buf /\ win.back = old.back /\ win.text = old.text
    BY <2>3, <2>6
  <2>8. /\ SceneOK(t) /\ Len(t.wins) = Len(s.wins) /\ Slots(t) = Slots(s)
        /\ t.wins[i] = win /\ \A j \in Slots(s) : j # i => t.wins[j] = s.wins[j]
        /\ t.z = s.z /\ t.dirty = s.dirty /\ t.menu_open = s.menu_open
        /\ t.resizing = free.resizing /\ t.next_id = s.next_id
    <3>1. SceneOK(p) /\ i \in Slots(p) /\ WinOK(win) /\ win.id <= p.next_id /\ win.kind = p.wins[i].kind
          /\ (win.owner \in Apps => win.kind = "User")
      BY <2>1, <2>2, <2>3, <2>5, <2>6, <2>7 DEF SlotOK
    <3> HIDE DEF i
    <3>2. /\ SceneOK(t) /\ Len(t.wins) = Len(p.wins) /\ Slots(t) = Slots(p)
          /\ t.wins[i] = win /\ \A j \in Slots(p) : j # i => t.wins[j] = p.wins[j]
          /\ t.z = p.z /\ t.dirty = p.dirty /\ t.menu_open = p.menu_open
          /\ t.resizing = p.resizing /\ t.next_id = p.next_id
      BY <3>1, PutWin
    <3> QED BY <2>5, <3>2
  <2> HIDE DEF t
  <2>9. WinStep(s, t, i)
    BY <2>7, <2>8 DEF WinStep, Paint
  <2>10. Covered(s, t, i)
    BY <2>7, <2>8 DEF Covered, On, Visible, Pixel, body_rect
  <2>11. Does(s, t) /\ t.resizing.slot = 0
    BY <1>2, <2>1, <2>8, <2>9, <2>10, OneWindow
  <2>12. Released(s) = t
    BY <1>5, <2>6 DEF Released, free, calm, p
  <2> QED BY <2>11, <2>12
<1> QED BY <1>4, <1>5

\* The menu is shut.
LEMMA MenuShutDoes ==
    ASSUME NEW s, SceneOK(s)
    PROVE  Does(s, MenuShut(s)) /\ Grips(s, MenuShut(s)) /\ SceneOK(MenuShut(s))
<1> DEFINE m == [s EXCEPT !.menu_open = FALSE]
           t == push_rect(m, Menu)
<1>1. s \in SceneType /\ s.dragging.slot \in 0 .. Len(s.wins) /\ s.resizing.slot \in 0 .. Len(s.wins)
  BY DEF SceneOK
<1>2. /\ m \in SceneType /\ m.wins = s.wins /\ m.z = s.z /\ m.next_id = s.next_id /\ m.dirty = s.dirty
      /\ Grips(s, m)
  BY <1>1 DEF SceneType, Grips
<1> HIDE DEF m
<1>3. SceneOK(m)
  BY <1>1, <1>2, StillOK DEF Grips
<1>4. /\ SceneOK(t) /\ t.wins = m.wins /\ t.z = m.z /\ t.dirty = m.dirty \cup (Menu \cap Cells)
      /\ Grips(m, t) /\ t.next_id = m.next_id
  BY <1>3, PushRect DEF Grips
<1>5. MenuShut(s) = t
  BY DEF MenuShut, m
<1> HIDE DEF t
<1>6. Grips(s, t)
  BY <1>2, <1>4 DEF Grips
<1>7. s.dirty \subseteq t.dirty /\ Menu \cap Cols \subseteq t.dirty
  BY <1>2, <1>4, BodyIn
<1>8. t.wins = s.wins /\ t.z = s.z /\ t.next_id = s.next_id /\ t.resizing = s.resizing
  BY <1>2, <1>4, <1>6 DEF Grips
<1>9. Does(s, t)
  BY <1>4, <1>7, <1>8, NoWindow
<1> QED BY <1>4, <1>5, <1>6, <1>9

\* A click while the menu is open.
LEMMA OnMenuDoes == ASSUME NEW s, SceneOK(s), NEW part PROVE Does(s, OnMenu(s, part))
<1> DEFINE m == MenuShut(s)
<1>1. Does(s, m) /\ SceneOK(m)
  BY MenuShutDoes
<1> HIDE DEF m
<1>2. Does(m, open_win(m, MONITOR)) /\ Does(m, open_win(m, ABOUT))
  BY <1>1, OpenDoes
<1>3. Does(m, push_rect(m, Cells))
  BY <1>1, PushDoes
<1>4. OnMenu(s, part) \in {m, open_win(m, MONITOR), open_win(m, ABOUT), push_rect(m, Cells)}
  BY DEF OnMenu, m
<1> QED BY <1>1, <1>2, <1>3, <1>4, DoesBoth

\* A click on a window, when none is being resized.
LEMMA OnWindowDoes ==
    ASSUME NEW s, SceneOK(s), s.resizing.slot = 0, NEW i \in Slots(s), NEW part
    PROVE  Does(s, OnWindow(s, i, part))
<1> DEFINE grip == [s EXCEPT !.resizing = [slot |-> i, id |-> s.wins[i].id]]
           grab == [s EXCEPT !.dragging = [slot |-> i, off |-> s.cur - s.wins[i].x,
                                           id |-> s.wins[i].id]]
<1>1. Does(s, s) /\ Does(s, focus(s, i)) /\ Does(s, CloseBox(s, i)) /\ Does(s, minimize_win(s, i))
  BY DoesNothing, FocusDoes, CloseDoes, MinimizeDoes
<1>2. /\ s \in SceneType /\ s.dragging.slot \in 0 .. Len(s.wins) /\ s.resizing.slot \in 0 .. Len(s.wins)
      /\ i \in 0 .. Len(s.wins) /\ i \in Nat
  <2>1. i \in 0 .. Len(s.wins) /\ i \in Nat
    BY SlotsOf
  <2> QED BY <2>1 DEF SceneOK
<1>3. /\ s.wins[i].id \in Nat /\ s.cur - s.wins[i].x \in Int
  <2>1. s.wins[i] \in WinType /\ s.cur \in Cols
    BY <1>2, SlotsOf DEF SceneType
  <2>2. s.wins[i].id \in Nat /\ s.wins[i].x \in Nat
    BY <2>1 DEF WinType
  <2>3. s.cur \in Nat
    BY <2>1, Sizes DEF Cols
  <2> QED BY <2>2, <2>3
<1>4. CASE active_idx(s) # i
  BY <1>1, <1>4 DEF OnWindow
<1>5. CASE active_idx(s) = i
  <2>1. s.wins[i].open
    <3>1. i # 0
      BY SlotsOf
    <3> QED BY <1>5, <3>1, ActiveIs DEF Visible
  <2>2. Does(s, push_event(s, i, "click"))
    BY <2>1, EventDoes DEF Events
  <2>3. Does(s, grip)
    <3>1. /\ grip \in SceneType /\ grip.wins = s.wins /\ grip.z = s.z /\ grip.next_id = s.next_id
          /\ grip.dirty = s.dirty /\ grip.menu_open = s.menu_open
          /\ grip.dragging = s.dragging /\ grip.resizing.slot = i
      BY <1>2, <1>3 DEF SceneType
    <3> HIDE DEF grip
    <3>2. SceneOK(grip)
      BY <1>2, <3>1, StillOK
    <3> QED BY <2>1, <3>1, <3>2, NoWindow
  <2>4. Does(s, grab)
    <3>1. /\ grab \in SceneType /\ grab.wins = s.wins /\ grab.z = s.z /\ grab.next_id = s.next_id
          /\ grab.dirty = s.dirty /\ grab.menu_open = s.menu_open
          /\ grab.dragging.slot = i /\ grab.resizing = s.resizing
      BY <1>2, <1>3 DEF SceneType
    <3> HIDE DEF grab
    <3>2. SceneOK(grab)
      BY <1>2, <3>1, StillOK
    <3> QED BY <3>1, <3>2, NoWindow
  <2>5. OnWindow(s, i, part) \in {s, CloseBox(s, i), minimize_win(s, i), grip, grab, push_event(s, i, "click")}
    BY <1>5 DEF OnWindow
  <2> HIDE DEF grip, grab
  <2> QED BY <1>1, <2>2, <2>3, <2>4, <2>5
<1> QED BY <1>4, <1>5

\* A click, when no window is being resized.
LEMMA ClickDoes ==
    ASSUME NEW s, SceneOK(s), s.resizing.slot = 0, NEW hit \in Hits(s)
    PROVE  Does(s, on_click(s, hit))
<1>1. CASE s.menu_open
  BY <1>1, OnMenuDoes DEF on_click
<1>2. CASE ~s.menu_open /\ hit[1] = "start"
  <2> DEFINE m == [s EXCEPT !.menu_open = TRUE]
             t == push_rect(m, {BAR} \cup Menu)
  <2>1. s \in SceneType /\ s.dragging.slot \in 0 .. Len(s.wins) /\ s.resizing.slot \in 0 .. Len(s.wins)
    BY DEF SceneOK
  <2>2. /\ m \in SceneType /\ m.wins = s.wins /\ m.z = s.z /\ m.next_id = s.next_id /\ m.dirty = s.dirty
        /\ m.resizing = s.resizing /\ m.dragging = s.dragging
    BY <2>1 DEF SceneType
  <2>3. on_click(s, hit) = t
    BY <1>2 DEF on_click
  <2> HIDE DEF m
  <2>4. SceneOK(m)
    BY <2>1, <2>2, StillOK
  <2>5. /\ SceneOK(t) /\ t.wins = s.wins /\ t.z = s.z /\ t.next_id = s.next_id /\ t.resizing = s.resizing
        /\ t.dirty = s.dirty \cup (({BAR} \cup Menu) \cap Cells)
    BY <2>2, <2>4, PushRect
  <2> HIDE DEF t
  <2>6. s.dirty \subseteq t.dirty /\ Menu \cap Cols \subseteq t.dirty
    BY <2>5, BodyIn
  <2> QED BY <2>3, <2>5, <2>6, NoWindow
<1>3. CASE ~s.menu_open /\ hit[1] = "button"
  <2>1. hit[2] \in Slots(s)
    BY <1>3 DEF Hits
  <2> QED BY <1>3, <2>1, ButtonDoes DEF on_click
<1>4. CASE ~s.menu_open /\ hit[1] # "start" /\ hit[1] # "button"
  <2>1. on_click(s, hit) = IF TopAt(s, s.cur) = 0 THEN s ELSE OnWindow(s, TopAt(s, s.cur), hit[1])
    BY <1>4 DEF on_click
  <2>2. TopAt(s, s.cur) # 0 => TopAt(s, s.cur) \in Slots(s)
    BY TopIs
  <2> QED BY <2>1, <2>2, DoesNothing, OnWindowDoes
<1> QED BY <1>1, <1>2, <1>3, <1>4

\* A key.
LEMMA TypedDoes ==
    ASSUME NEW s, SceneOK(s), NEW key \in {"none", "esc", "char"}
    PROVE  LET t == Typed(s, key) IN Does(s, t) /\ Grips(s, t) /\ SceneOK(t)
<1> DEFINE i == active_idx(s)
           old == s.wins[i]
           win == [old EXCEPT !.input = Append(@, "char")]
<1>1. Does(s, s) /\ Grips(s, s)
  BY DoesNothing DEF Grips
<1>2. Does(s, MenuShut(s)) /\ Grips(s, MenuShut(s)) /\ SceneOK(MenuShut(s))
  BY MenuShutDoes
<1>3. CASE key # "char" \/ i = 0
  <2>1. Typed(s, key) \in {s, MenuShut(s)}
    BY <1>3 DEF Typed
  <2> QED BY <1>1, <1>2, <2>1
<1>4. CASE key = "char" /\ i # 0
  <2>1. i \in Slots(s) /\ old.open
    BY <1>4, ActiveIs DEF Visible
  <2>2. old \in WinType /\ WinOK(old)
    BY <2>1 DEF SceneOK, SlotOK, WinOK
  <2>3. /\ Does(s, push_event(s, i, "key")) /\ Grips(s, push_event(s, i, "key"))
        /\ SceneOK(push_event(s, i, "key"))
    BY <2>1, EventDoes DEF Events
  <2>4. CASE old.kind = "Term" /\ Len(old.input) < TERM_IN_CAP
    <3>1. /\ WinOK(win) /\ win.id = old.id /\ win.owner = old.owner /\ win.kind = old.kind
          /\ win.open = old.open /\ win.minimized = old.minimized /\ win.x = old.x /\ win.w = old.w
          /\ win.buf = old.buf /\ win.back = old.back /\ win.text = old.text
      <4>1. old.input \in Seq({"char"})
        BY <2>2 DEF WinType
      <4>2. Append(old.input, "char") \in Seq({"char"}) /\ Len(Append(old.input, "char")) <= TERM_IN_CAP
        BY <2>4, <4>1, Sizes
      <4> QED BY <2>2, <4>2 DEF WinOK, WinType
    <3> HIDE DEF win
    <3>2. Heir(s, i, win) /\ Same(old, win, {})
      BY <2>4, <3>1 DEF Heir, Same, Paint, Seen, Pixel, body_rect
    <3>3. Typed(s, key) = [s EXCEPT !.wins[i] = win]
      BY <1>4, <2>4 DEF Typed, win
    <3> QED BY <2>1, <3>2, <3>3, PutClean
  <2>5. CASE ~(old.kind = "Term" /\ Len(old.input) < TERM_IN_CAP)
    <3>1. Typed(s, key) \in {s, push_event(s, i, "key")}
      BY <1>4, <2>5 DEF Typed
    <3> QED BY <1>1, <2>3, <3>1
  <2> QED BY <2>4, <2>5
<1> QED BY <1>3, <1>4

\* The tick.
LEMMA TickedDoes ==
    ASSUME NEW s, SceneOK(s), NEW tick \in BOOLEAN
    PROVE  LET t == Ticked(s, tick) IN Does(s, t) /\ Grips(s, t) /\ SceneOK(t)
BY DoesNothing, PushDoes, PushRect DEF Ticked, dirty_win, Grips

---------------------------------------------------------------------------
(* Windows that come and go.                                               *)

\* With a window lifted that is not on the column, the top one is the same.
LEMMA TopLifted ==
    ASSUME NEW s, NEW t, SceneOK(s), SceneOK(t), NEW c, NEW i \in Slots(t), NEW at \in Nat,
           Lifted(s.z, i, t.z, at),
           \A j \in Slots(s) : j # i => (On(s, j, c) <=> On(t, j, c)),
           i \in Slots(s) => ~On(s, i, c), ~On(t, i, c)
    PROVE  TopAt(s, c) = TopAt(t, c)
<1> DEFINE on(x) == {k \in DOMAIN x.z : On(x, x.z[k], c)}
<1>1. \A x : TopAt(x, c) = IF on(x) = {} THEN 0 ELSE x.z[Max(on(x))]
  BY DEF TopAt, On
<1>2. PICK n \in Nat, m \in Nat :
         /\ Len(s.z) = n /\ Len(t.z) = m /\ DOMAIN s.z = 1 .. n /\ DOMAIN t.z = 1 .. m
         /\ \A k \in 1 .. n : s.z[k] \in Slots(s)
         /\ \A k \in 1 .. m : t.z[k] \in Slots(t)
  BY SlotsOf
<1>3. /\ at \in 1 .. m /\ (at <= n => s.z[at] = i) /\ t.z[m] = i /\ n = IF at <= n THEN m ELSE m - 1
      /\ \A k \in 1 .. m - 1 : t.z[k] = IF k < at THEN s.z[k] ELSE s.z[k + 1]
  BY <1>2 DEF Lifted
<1>4. on(s) \subseteq 1 .. n /\ on(t) \subseteq 1 .. m
  BY <1>2
<1>5. ASSUME NEW k \in on(t)
      PROVE  /\ k \in 1 .. m - 1
             /\ k < at => k \in on(s) /\ t.z[k] = s.z[k]
             /\ ~(k < at) => k + 1 \in on(s) /\ t.z[k] = s.z[k + 1]
  <2>1. k \in 1 .. m /\ On(t, t.z[k], c)
    BY <1>4
  <2>2. k # m /\ k \in 1 .. m - 1
    BY <1>3, <2>1
  <2>3. t.z[k] # i
    BY <2>1
  <2>4. CASE k < at
    <3>1. k \in 1 .. n /\ t.z[k] = s.z[k]
      BY <1>3, <2>2, <2>4
    <3>2. On(s, s.z[k], c)
      BY <1>2, <2>1, <2>3, <3>1
    <3> QED BY <1>2, <2>2, <2>4, <3>1, <3>2
  <2>5. CASE ~(k < at)
    <3>1. k + 1 \in 1 .. n /\ t.z[k] = s.z[k + 1]
      BY <1>3, <2>2, <2>5
    <3>2. On(s, s.z[k + 1], c)
      BY <1>2, <2>1, <2>3, <3>1
    <3> QED BY <1>2, <2>2, <2>5, <3>1, <3>2
  <2> QED BY <2>4, <2>5
<1>6. ASSUME NEW l \in on(s)
      PROVE  /\ l \in 1 .. n /\ l # at
             /\ l < at => l \in on(t)
             /\ l > at => l - 1 \in on(t)
  <2>1. l \in 1 .. n /\ On(s, s.z[l], c) /\ s.z[l] \in Slots(s)
    BY <1>2, <1>4
  <2>2. s.z[l] # i
    BY <2>1
  <2>3. l # at
    BY <1>3, <2>1, <2>2
  <2>4. CASE l < at
    <3>1. l \in 1 .. m - 1 /\ l \in 1 .. m /\ t.z[l] = s.z[l]
      BY <1>3, <2>1, <2>4
    <3> QED BY <1>2, <2>1, <2>2, <2>4, <3>1
  <2>5. CASE l > at
    <3>1. l - 1 \in 1 .. m - 1 /\ l - 1 \in 1 .. m /\ ~(l - 1 < at) /\ (l - 1) + 1 = l
      BY <1>3, <2>1, <2>5
    <3>2. t.z[l - 1] = s.z[l]
      BY <1>3, <3>1
    <3>3. l - 1 \in on(t)
      BY <1>2, <2>1, <2>2, <3>1, <3>2
    <3> QED BY <2>1, <2>5, <3>3
  <2> QED BY <2>1, <2>3, <2>4, <2>5
<1> HIDE DEF on
<1>7. CASE on(t) = {}
  <2>1. on(s) = {}
    <3> SUFFICES ASSUME NEW l \in on(s) PROVE FALSE
      OBVIOUS
    <3> QED BY <1>3, <1>6, <1>7
  <2> QED BY <1>1, <1>7, <2>1
<1>8. CASE on(t) # {}
  <2> DEFINE K == Max(on(t))
             M == IF K < at THEN K ELSE K + 1
  <2>1. K \in on(t) /\ \A k \in on(t) : k <= K
    BY <1>4, <1>8, MaxIn
  <2> HIDE DEF K
  <2>2. K \in 1 .. m - 1 /\ M \in on(s) /\ t.z[K] = s.z[M]
    BY <1>5, <2>1
  <2>3. ASSUME NEW l \in on(s) PROVE l <= M
    <3>1. l \in 1 .. n /\ (l < at \/ l > at)
      BY <1>3, <1>6
    <3>2. CASE l < at
      <4>1. l <= K
        BY <1>6, <2>1, <3>2
      <4> QED BY <2>2, <3>1, <4>1
    <3>3. CASE l > at
      <4>1. l - 1 <= K
        BY <1>6, <2>1, <3>3
      <4> QED BY <1>3, <2>2, <3>1, <3>3, <4>1
    <3> QED BY <3>1, <3>2, <3>3
  <2>4. Max(on(s)) \in on(s) /\ \A l \in on(s) : l <= Max(on(s))
    BY <1>4, <2>2, MaxIn
  <2>5. Max(on(s)) = M
    <3>1. Max(on(s)) \in 1 .. n /\ M \in 1 .. n
      BY <1>4, <2>2, <2>4
    <3>2. Max(on(s)) <= M /\ M <= Max(on(s))
      BY <2>2, <2>3, <2>4
    <3> HIDE DEF M
    <3> QED BY <3>1, <3>2
  <2> QED BY <1>1, <1>8, <2>2, <2>5 DEF K
<1> QED BY <1>7, <1>8

\* The slot that is given out.
LEMMA SlotForIs ==
    ASSUME NEW s, SceneOK(s), NEW kind, SlotFor(s, kind) # 0
    PROVE  \/ /\ SlotFor(s, kind) \in Slots(s) /\ s.wins[SlotFor(s, kind)].kind = kind
              /\ ~s.wins[SlotFor(s, kind)].open
           \/ SlotFor(s, kind) = Len(s.wins) + 1 /\ Len(s.wins) < MAX_WINS
<1> DEFINE free == {i \in Slots(s) : s.wins[i].kind = kind /\ ~s.wins[i].open}
<1>1. free \in SUBSET Nat
  BY SlotsOf
<1>2. free # {} => Min(free) \in free
  BY <1>1, MinIn
<1>3. SlotFor(s, kind) = IF free # {} THEN Min(free) ELSE IF Len(s.wins) < MAX_WINS THEN Len(s.wins) + 1 ELSE 0
  BY DEF SlotFor
<1> QED BY <1>2, <1>3

\* A window that a call opens.
LEMMA OpenedIs ==
    ASSUME NEW s, SceneOK(s), NEW win, WinOK(win), win.kind \in {"User", "Term"}, win.id = s.next_id + 1,
           win.owner \in Apps => win.kind = "User",
           NEW i, i = SlotFor(s, win.kind), i # 0, NEW t, t = Opened(s, i, win)
    PROVE  /\ SceneOK(t) /\ Looks(s, t) /\ t.wins[i] = win /\ i \in Slots(t) /\ Slots(s) \subseteq Slots(t)
           /\ \A j \in Slots(t) : j # i => j \in Slots(s) /\ t.wins[j] = s.wins[j]
           /\ t.resizing = s.resizing /\ t.left = s.left /\ t.next_id = s.next_id + 1
<1> DEFINE room == IF i > Len(s.wins) THEN [s EXCEPT !.wins = Append(@, win)] ELSE s
           put == [room EXCEPT !.wins[i] = win, !.next_id = @ + 1, !.z = Raised(@, i)]
           cells == {BAR} \cup body_rect(win)
           u == push_rect(put, cells)
           ws == IF i > Len(s.wins) THEN Append(s.wins, win) ELSE [s.wins EXCEPT ![i] = win]
<1>1. PICK n \in Nat : Len(s.wins) = n /\ Slots(s) = 1 .. n /\ n >= 2
  BY SlotsOf
<1>2. /\ s \in SceneType /\ s.wins \in Seq(WinType) /\ DOMAIN s.wins = 1 .. n /\ s.z \in Seq(Nat)
      /\ s.next_id \in Nat
  BY <1>1, WinsOf DEF SceneType
<1>3. win \in WinType
  BY DEF WinOK
<1>4. \/ i \in 1 .. n /\ s.wins[i].kind = win.kind /\ ~s.wins[i].open
      \/ i = n + 1 /\ n < MAX_WINS
  BY <1>1, SlotForIs
<1>5. i \in Nat /\ i \in 1 .. n + 1
  BY <1>4
<1>6. /\ ws \in Seq(WinType) /\ Len(ws) = (IF i > n THEN n + 1 ELSE n) /\ ws[i] = win
      /\ \A j \in 1 .. n : j # i => ws[j] = s.wins[j]
  <2>1. CASE i = n + 1
    <3>1. ws = Append(s.wins, win)
      BY <1>1, <2>1
    <3>2. /\ Append(s.wins, win) \in Seq(WinType) /\ Len(Append(s.wins, win)) = n + 1
          /\ Append(s.wins, win)[n + 1] = win /\ \A j \in 1 .. n : Append(s.wins, win)[j] = s.wins[j]
      BY <1>1, <1>2, <1>3
    <3> QED BY <1>1, <2>1, <3>1, <3>2
  <2>2. CASE i \in 1 .. n
    <3>1. ws = [s.wins EXCEPT ![i] = win]
      BY <1>1, <2>2
    <3>2. /\ [s.wins EXCEPT ![i] = win] \in Seq(WinType) /\ Len([s.wins EXCEPT ![i] = win]) = n
          /\ \A j \in 1 .. n : j # i => [s.wins EXCEPT ![i] = win][j] = s.wins[j]
      BY <1>1, <1>2, <1>3, <2>2, ExceptSeq
    <3>3. [s.wins EXCEPT ![i] = win][i] = win
      BY <1>2, <2>2
    <3> QED BY <2>2, <3>1, <3>2, <3>3
  <2> QED BY <1>4, <2>1, <2>2
<1>7. /\ put.wins = ws /\ put.z = Raised(s.z, i) /\ put.next_id = s.next_id + 1
      /\ put.dirty = s.dirty /\ put.cur = s.cur /\ put.left = s.left /\ put.dragging = s.dragging
      /\ put.resizing = s.resizing /\ put.menu_open = s.menu_open
      /\ put = [s EXCEPT !.wins = ws, !.next_id = s.next_id + 1, !.z = Raised(s.z, i)]
  <2>1. CASE i = n + 1
    <3>1. i > Len(s.wins)
      BY <1>1, <2>1
    <3>2. room = [s EXCEPT !.wins = Append(@, win)] /\ ws = Append(s.wins, win)
      BY <3>1
    <3>3. [ws EXCEPT ![i] = win] = ws
      <4>1. i \in DOMAIN ws /\ ws[i] = win /\ ws \in Seq(WinType)
        BY <1>6, <2>1
      <4> HIDE DEF ws
      <4> QED BY <4>1
    <3>4. room.wins = ws
      BY <1>2, <3>2 DEF SceneType
    <3> HIDE DEF ws
    <3>5. room = [s EXCEPT !.wins = ws]
      BY <3>2
    <3> HIDE DEF room
    <3>6. put = [s EXCEPT !.wins = ws, !.next_id = s.next_id + 1, !.z = Raised(s.z, i)]
      BY <1>2, <3>3, <3>5 DEF SceneType
    <3> HIDE DEF put
    <3> QED BY <1>2, <3>6 DEF SceneType
  <2>2. CASE i \in 1 .. n
    <3>1. room = s /\ ws = [s.wins EXCEPT ![i] = win]
      BY <1>1, <2>2
    <3> QED BY <1>2, <3>1 DEF SceneType
  <2> QED BY <1>4, <2>1, <2>2
<1>9. t = u
  BY DEF Opened
<1> HIDE DEF put, ws
<1>10. Raised(s.z, i) \in Seq(Nat) /\ ToSet(Raised(s.z, i)) = Slots(put) /\ Len(Raised(s.z, i)) = Len(put.wins)
  <2>1. ToSet(s.z) = 1 .. n /\ Len(s.z) = n
    BY <1>1 DEF SceneOK
  <2>2. /\ Raised(s.z, i) \in Seq(Nat) /\ ToSet(Raised(s.z, i)) = (1 .. n) \cup {i}
        /\ Len(Raised(s.z, i)) = IF i \in 1 .. n THEN n ELSE n + 1
    BY <1>2, <1>5, <2>1, RaisedLast
  <2>3. (1 .. n) \cup {i} = IF i \in 1 .. n THEN 1 .. n ELSE 1 .. n + 1
    BY <1>4
  <2>4. Slots(put) = IF i > n THEN 1 .. n + 1 ELSE 1 .. n
    BY <1>6, <1>7 DEF Slots
  <2>5. i > n <=> i \notin 1 .. n
    BY <1>4
  <2> QED BY <1>6, <1>7, <2>2, <2>3, <2>4, <2>5
<1>11. put \in SceneType
  <2>1. s.next_id + 1 \in Nat /\ ws \in Seq(WinType) /\ Raised(s.z, i) \in Seq(Nat)
    BY <1>2, <1>6, <1>10
  <2> QED BY <1>2, <1>7, <2>1 DEF SceneType
<1>12. /\ Slots(put) = 1 .. Len(put.wins) /\ i \in Slots(put) /\ Slots(s) \subseteq Slots(put)
       /\ Len(put.wins) \in 2 .. MAX_WINS
       /\ \A j \in Slots(put) : j # i => j \in Slots(s) /\ put.wins[j] = s.wins[j]
       /\ put.wins[i] = win
  <2>1. Len(put.wins) = IF i > n THEN n + 1 ELSE n
    BY <1>6, <1>7
  <2>2. n \in 2 .. MAX_WINS
    BY <1>1 DEF SceneOK
  <2>3. Slots(put) = IF i > n THEN 1 .. n + 1 ELSE 1 .. n
    BY <2>1 DEF Slots
  <2>4. i \in Slots(put) /\ Slots(s) \subseteq Slots(put) /\ \A j \in Slots(put) : j # i => j \in Slots(s)
    BY <1>1, <1>4, <2>3
  <2>5. Len(put.wins) \in 2 .. MAX_WINS
    BY <1>1, <1>4, <2>1, <2>2, Sizes
  <2>6. put.wins[i] = win /\ \A j \in Slots(s) : j # i => put.wins[j] = s.wins[j]
    BY <1>1, <1>6, <1>7
  <2>7. Slots(put) = 1 .. Len(put.wins)
    BY DEF Slots
  <2> QED BY <2>4, <2>5, <2>6, <2>7
<1>13. ASSUME NEW j \in Slots(put) PROVE SlotOK(put, j)
  <2>1. CASE j = i
    <3>1. i \in 1 .. n => SlotOK(s, i)
      BY <1>1 DEF SceneOK
    <3>2. win.kind = IF i = MONITOR THEN "Monitor" ELSE IF i = ABOUT THEN "About" ELSE win.kind
      BY <1>1, <1>4, <3>1 DEF SlotOK, MONITOR, ABOUT
    <3>3. win.id <= s.next_id + 1
      BY <1>2
    <3> QED BY <1>7, <1>12, <2>1, <3>2, <3>3 DEF SlotOK
  <2>2. CASE j # i
    <3>1. SlotOK(s, j) /\ put.wins[j] = s.wins[j] /\ s.wins[j].id \in Nat
      BY <1>12, <2>2, SlotsOf DEF SceneOK, WinType
    <3> QED BY <1>2, <1>7, <3>1 DEF SlotOK
  <2> QED BY <2>1, <2>2
<1>14. SceneOK(put)
  <2>1. s.dragging.slot \in 0 .. n /\ s.resizing.slot \in 0 .. n /\ n <= Len(put.wins)
    BY <1>1, <1>6, <1>7 DEF SceneOK
  <2>2. put.dragging.slot \in 0 .. Len(put.wins) /\ put.resizing.slot \in 0 .. Len(put.wins)
    BY <1>7, <1>12, <2>1
  <2> QED BY <1>7, <1>10, <1>11, <1>12, <1>13, <2>2 DEF SceneOK
<1>15. /\ SceneOK(u) /\ u.wins = put.wins /\ u.z = put.z /\ u.dirty = put.dirty \cup (cells \cap Cells)
       /\ u.left = put.left /\ u.resizing = put.resizing /\ u.menu_open = put.menu_open
       /\ u.next_id = put.next_id
  <2> HIDE DEF cells
  <2> QED BY <1>14, PushRect
<1> HIDE DEF u
<1>16. Slots(u) = Slots(put)
  BY <1>15 DEF Slots
<1>17. ASSUME NEW c \in Cols \ u.dirty PROVE SameLook(s, u, c)
  <2>1. c \notin body_rect(win)
    BY <1>15, BodyIn
  <2>2. ~On(u, i, c)
    BY <1>12, <1>15, <2>1 DEF On
  <2>3. i \in Slots(s) => ~On(s, i, c)
    BY <1>1, <1>4 DEF On, Visible
  <2>4. \A j \in Slots(s) : j # i => (On(s, j, c) <=> On(u, j, c))
    BY <1>12, <1>15 DEF On, Visible
  <2>5. PICK at \in Nat : Lifted(s.z, i, u.z, at)
    BY <1>2, <1>5, <1>7, <1>15, RaisedLast
  <2>6. TopAt(s, c) = TopAt(u, c)
    BY <1>12, <1>15, <1>16, <2>2, <2>3, <2>4, <2>5, TopLifted
  <2>7. TopAt(u, c) # 0 => /\ TopAt(u, c) \in Slots(u) /\ TopAt(u, c) # i
    BY <1>15, <2>2, TopIs
  <2> QED BY <1>7, <1>12, <1>15, <1>16, <2>6, <2>7 DEF SameLook
<1>18. Looks(s, u)
  BY <1>7, <1>15, <1>17 DEF Looks
<1> QED BY <1>7, <1>9, <1>12, <1>15, <1>16, <1>18

LEMMA Empty == <<>> \in Seq(Pids) /\ <<>> \in Seq({"char"}) /\ Len(<<>>) = 0 /\ ToSet(<<>>) = {}
BY DEF ToSet

\* A program's window that is shut.
LEMMA ShutUser ==
    ASSUME NEW old \in WinType, WinOK(old), NEW b \in Seq(Pids)
    PROVE  LET win == [old EXCEPT !.open = FALSE, !.buf = b, !.back = b]
           IN  /\ WinOK(win) /\ win.owner = old.owner /\ win.id = old.id /\ win.kind = old.kind
               /\ ~win.open /\ win.buf = b /\ win.back = b /\ win.ev = old.ev
               /\ win.x = old.x /\ win.w = old.w
BY DEF WinOK, WinType

\* A session's window that is shut.
LEMMA ShutTerm ==
    ASSUME NEW old \in WinType, WinOK(old), NEW q \in Seq({"char"}), Len(q) <= TERM_IN_CAP
    PROVE  LET win == [old EXCEPT !.open = FALSE, !.input = q]
           IN  /\ WinOK(win) /\ win.owner = old.owner /\ win.id = old.id /\ win.kind = old.kind
               /\ ~win.open /\ win.buf = old.buf /\ win.back = old.back
               /\ win.x = old.x /\ win.w = old.w
BY DEF WinOK, WinType

\* The windows of a task that ends.
LEMMA ExitedIs ==
    ASSUME NEW s, SceneOK(s), NEW t, NEW e, e = Exited(s, t)
    PROVE  /\ SceneOK(e) /\ Looks(s, e) /\ Slots(e) = Slots(s)
           /\ \A j \in Slots(s) :
                 /\ e.wins[j].owner = s.wins[j].owner /\ e.wins[j].id = s.wins[j].id
                 /\ e.wins[j].kind = s.wins[j].kind /\ Paint(e.wins[j]) \subseteq Paint(s.wins[j])
                 /\ s.wins[j].owner # t => e.wins[j] = s.wins[j]
           /\ e.resizing = s.resizing /\ e.left = s.left /\ e.next_id = s.next_id
<1> DEFINE mine == {i \in Slots(s) : s.wins[i].open /\ s.wins[i].owner = t}
           After(i) == IF i \notin mine THEN s.wins[i]
                       ELSE IF s.wins[i].kind = "User" THEN Shut(s, i).wins[i]
                       ELSE [s.wins[i] EXCEPT !.open = FALSE, !.input = <<>>]
           f == [i \in Slots(s) |-> After(i)]
           shut == [s EXCEPT !.wins = f]
           cells == {BAR} \cup UNION {body_rect(s.wins[i]) : i \in mine}
           u == push_rect(shut, cells)
<1>1. CASE mine = {}
  <2>1. e = s
    BY <1>1 DEF Exited
  <2> QED BY <2>1 DEF Looks, SameLook
<1>2. CASE mine # {}
  <2>1. /\ s \in SceneType /\ s.wins \in Seq(WinType) /\ DOMAIN s.wins = Slots(s)
        /\ Len(s.wins) \in Nat /\ Slots(s) = 1 .. Len(s.wins)
    BY WinsOf, SlotsOf
  <2>2. ASSUME NEW j \in Slots(s)
        PROVE  LET win == After(j)
               IN  /\ WinOK(win) /\ win.owner = s.wins[j].owner /\ win.id = s.wins[j].id
                   /\ win.kind = s.wins[j].kind /\ Paint(win) \subseteq Paint(s.wins[j])
                   /\ j \notin mine => win = s.wins[j]
                   /\ j \in mine => ~win.open
    <3> DEFINE old == s.wins[j]
    <3>1. old \in WinType /\ WinOK(old)
      BY DEF SceneOK, SlotOK, WinOK
    <3>2. CASE j \notin mine
      <4>1. After(j) = old
        BY <3>2
      <4> HIDE DEF After
      <4> QED BY <3>1, <3>2, <4>1
    <3>3. CASE j \in mine /\ old.kind = "User"
      <4> DEFINE win == [old EXCEPT !.open = FALSE, !.buf = <<>>, !.back = <<>>]
      <4>1. Shut(s, j).wins[j] = win
        BY <2>1 DEF Shut, SceneType
      <4>2. After(j) = win
        BY <3>3, <4>1
      <4>3. /\ WinOK(win) /\ win.owner = old.owner /\ win.id = old.id /\ win.kind = old.kind
            /\ ~win.open /\ win.buf = <<>> /\ win.back = <<>>
        BY <3>1, Empty, ShutUser
      <4> HIDE DEF win, After
      <4>4. Paint(win) = {}
        BY <4>3, Empty DEF Paint
      <4> QED BY <3>3, <4>2, <4>3, <4>4
    <3>4. CASE j \in mine /\ old.kind # "User"
      <4> DEFINE win == [old EXCEPT !.open = FALSE, !.input = <<>>]
      <4>1. After(j) = win
        BY <3>4
      <4>2. /\ WinOK(win) /\ win.owner = old.owner /\ win.id = old.id /\ win.kind = old.kind
            /\ ~win.open /\ win.buf = old.buf /\ win.back = old.back
        <5>1. Len(<<>>) <= TERM_IN_CAP /\ <<>> \in Seq({"char"})
          BY Empty, Sizes
        <5> QED BY <3>1, <5>1, ShutTerm
      <4> HIDE DEF win, After
      <4> QED BY <3>4, <4>1, <4>2 DEF Paint
    <3> QED BY <3>2, <3>3, <3>4
  <2>3. e = u
    BY <1>2 DEF Exited
  <2> HIDE DEF After
  <2>4. f \in Seq(WinType) /\ Len(f) = Len(s.wins) /\ \A j \in Slots(s) : f[j] = After(j)
    <3>1. \A j \in Slots(s) : After(j) \in WinType
      BY <2>2 DEF WinOK
    <3>2. f \in [Slots(s) -> WinType]
      BY <3>1
    <3> QED BY <2>1, <3>2
  <2> HIDE DEF f
  <2>5. /\ shut \in SceneType /\ shut.wins = f /\ shut.z = s.z /\ shut.dirty = s.dirty
        /\ shut.left = s.left /\ shut.dragging = s.dragging /\ shut.resizing = s.resizing
        /\ shut.menu_open = s.menu_open /\ shut.next_id = s.next_id
    BY <2>1, <2>4 DEF SceneType
  <2> HIDE DEF shut
  <2>6. Slots(shut) = Slots(s) /\ Len(shut.wins) = Len(s.wins)
    BY <2>4, <2>5 DEF Slots
  <2>7. ASSUME NEW j \in Slots(shut) PROVE SlotOK(shut, j)
    <3>1. SlotOK(s, j) /\ shut.wins[j] = After(j)
      BY <2>4, <2>5, <2>6 DEF SceneOK
    <3>2. /\ WinOK(After(j)) /\ After(j).owner = s.wins[j].owner /\ After(j).id = s.wins[j].id
          /\ After(j).kind = s.wins[j].kind
      BY <2>2, <2>6
    <3> QED BY <2>5, <3>1, <3>2 DEF SlotOK
  <2>8. SceneOK(shut)
    <3>1. /\ Len(s.wins) \in 2 .. MAX_WINS /\ Len(s.z) = Len(s.wins) /\ ToSet(s.z) = Slots(s)
          /\ s.dragging.slot \in 0 .. Len(s.wins) /\ s.resizing.slot \in 0 .. Len(s.wins)
      BY DEF SceneOK
    <3> QED BY <2>5, <2>6, <2>7, <3>1 DEF SceneOK
  <2>9. /\ SceneOK(u) /\ u.wins = f /\ u.z = s.z /\ u.dirty = s.dirty \cup (cells \cap Cells)
        /\ u.left = s.left /\ u.resizing = s.resizing /\ u.menu_open = s.menu_open
        /\ u.next_id = s.next_id
    <3> HIDE DEF cells
    <3>1. /\ SceneOK(u) /\ u.wins = shut.wins /\ u.z = shut.z /\ u.dirty = shut.dirty \cup (cells \cap Cells)
          /\ u.left = shut.left /\ u.resizing = shut.resizing /\ u.menu_open = shut.menu_open
          /\ u.next_id = shut.next_id
      BY <2>8, PushRect
    <3> QED BY <2>5, <3>1
  <2> HIDE DEF u
  <2>10. Slots(u) = Slots(s)
    BY <2>4, <2>9 DEF Slots
  <2>11. \A j \in Slots(s) :
            /\ u.wins[j].owner = s.wins[j].owner /\ u.wins[j].id = s.wins[j].id
            /\ u.wins[j].kind = s.wins[j].kind /\ Paint(u.wins[j]) \subseteq Paint(s.wins[j])
            /\ j \notin mine => u.wins[j] = s.wins[j]
            /\ j \in mine => ~u.wins[j].open
    BY <2>2, <2>4, <2>9
  <2>12. ASSUME NEW c \in Cols \ u.dirty PROVE SameLook(s, u, c)
    <3>1. \A j \in mine : c \notin body_rect(s.wins[j])
      <4> SUFFICES ASSUME NEW j \in mine, c \in body_rect(s.wins[j]) PROVE FALSE
        OBVIOUS
      <4>1. c \in cells /\ c \in Cells
        BY BodyIn
      <4> QED BY <2>9, <4>1
    <3>2. \A j \in Slots(s) : j \in mine => ~On(s, j, c) /\ ~On(u, j, c)
      BY <2>11, <3>1 DEF On, Visible
    <3> HIDE DEF mine
    <3>3. \A j \in Slots(s) : On(s, j, c) <=> On(u, j, c)
      <4> SUFFICES ASSUME NEW j \in Slots(s) PROVE On(s, j, c) <=> On(u, j, c)
        OBVIOUS
      <4>1. j \notin mine => u.wins[j] = s.wins[j]
        BY <2>11
      <4> QED BY <3>2, <4>1 DEF On, Visible
    <3>4. TopAt(u, c) # 0 => TopAt(u, c) \in Slots(s) /\ On(u, TopAt(u, c), c)
      BY <2>9, <2>10, TopIs
    <3>5. TopAt(s, c) = TopAt(u, c)
      BY <2>9, <3>3, <3>4, TopSame
    <3>6. TopAt(u, c) # 0 => u.wins[TopAt(u, c)] = s.wins[TopAt(u, c)]
      BY <2>11, <3>2, <3>4
    <3> QED BY <2>9, <3>5, <3>6 DEF SameLook
  <2>13. Looks(s, u)
    BY <2>9, <2>12 DEF Looks
  <2>14. \A j \in Slots(s) : s.wins[j].owner # t => j \notin mine
    OBVIOUS
  <2> HIDE DEF mine
  <2> QED BY <2>3, <2>9, <2>10, <2>11, <2>13, <2>14
<1> QED BY <1>1, <1>2

---------------------------------------------------------------------------
(* The invariant.                                                          *)

PcOK == pc \in {"off", "go", "esc", "closed", "reboot", "halt", "frozen", "reset", "panic"}
TaskOK == task \in [Apps \cup Terms -> [st : {"none", "run", "gone"}, id : Nat, told : BOOLEAN]]

\* A window is resized while the button is held only.
GripHeld == sc.resizing.slot # 0 => sc.left

\* Every window holds pixels of its owner only.
PaintOwn == \A i \in Slots(sc) : Paint(sc.wins[i]) \subseteq {0, sc.wins[i].owner}

\* A window that was shut under a program has the close among its events, and
\* the end of a gesture will not push it out of the queue.
Heard ==
    \A p \in Apps : \A i \in Slots(sc) :
        /\ task[p].id # 0 /\ ~task[p].told
        /\ sc.wins[i].owner = p /\ sc.wins[i].id = task[p].id /\ ~sc.wins[i].open
        => "close" \in ToSet(sc.wins[i].ev) /\ sc.resizing.slot # i

DeskInv ==
    /\ PcOK /\ TaskOK /\ SceneOK(sc) /\ GripHeld
    /\ PaintOwn /\ Heard /\ DamageComplete

\* What a cell shows is a matter of the windows, their order and the menu.
LEMMA DrawnSame ==
    ASSUME NEW s, NEW t, t.wins = s.wins, t.z = s.z, t.menu_open = s.menu_open, NEW c \in Cols
    PROVE  TopAt(t, c) = TopAt(s, c) /\ DrawnAt(t, c) = DrawnAt(s, c)
<1>1. TopAt(t, c) = TopAt(s, c) /\ active_idx(t) = active_idx(s)
  BY DEF TopAt, active_idx, Visible
<1>2. c # BAR
  BY BodyIn
<1> QED BY <1>1, <1>2 DEF DrawnAt

LEMMA LookSame ==
    ASSUME NEW s, NEW t, NEW c \in Cols, SameLook(s, t, c), Shows(t, TopAt(t, c))
    PROVE  Shows(s, TopAt(s, c)) /\ Picture(DrawnAt(s, c)) = Picture(DrawnAt(t, c))
<1> DEFINE i == TopAt(t, c)
<1>1. /\ c # BAR /\ TopAt(s, c) = i /\ (c \in Menu => s.menu_open = t.menu_open)
      /\ i # 0 => /\ t.wins[i].kind = s.wins[i].kind /\ t.wins[i].id = s.wins[i].id
                  /\ Pixel(t.wins[i], c) = Pixel(s.wins[i], c)
  BY BodyIn DEF SameLook
<1>2. Shows(s, i)
  BY <1>1 DEF Shows
<1>3. \A a, b, d, e : Picture(<<a, b, d, e>>) = <<a, b, d>>
  BY DEF Picture
<1>4. Picture(DrawnAt(s, c)) = Picture(DrawnAt(t, c))
  <2>1. CASE c \in Menu /\ t.menu_open
    BY <1>1, <2>1 DEF DrawnAt
  <2>2. CASE ~(c \in Menu /\ t.menu_open) /\ i = 0
    BY <1>1, <2>2 DEF DrawnAt
  <2>3. CASE ~(c \in Menu /\ t.menu_open) /\ i # 0
    <3>1. /\ DrawnAt(t, c) = <<i, t.wins[i].id, Pixel(t.wins[i], c), i = active_idx(t)>>
          /\ DrawnAt(s, c) = <<i, s.wins[i].id, Pixel(s.wins[i], c), i = active_idx(s)>>
      BY <1>1, <2>3 DEF DrawnAt
    <3> HIDE DEF i
    <3>2. /\ Picture(DrawnAt(t, c)) = <<i, t.wins[i].id, Pixel(t.wins[i], c)>>
          /\ Picture(DrawnAt(s, c)) = <<i, s.wins[i].id, Pixel(s.wins[i], c)>>
      BY <1>3, <3>1
    <3> QED BY <1>1, <2>3, <3>2
  <2> QED BY <2>1, <2>2, <2>3
<1> QED BY <1>1, <1>2, <1>4

\* The screen is right outside the damage as long as nothing changes there.
LEMMA DamageKept ==
    ASSUME DamageComplete, pc' = pc, Looks(sc, sc'), shown' = shown
    PROVE  DamageComplete'
<1> SUFFICES ASSUME Desk', pc # "frozen", NEW c \in Cols \ sc'.dirty, Shows(sc', TopAt(sc', c))
             PROVE  Picture(shown'[c]) = Picture(DrawnAt(sc', c))
  BY DEF DamageComplete, Shows
<1>1. Desk /\ c \in Cols \ sc.dirty /\ SameLook(sc, sc', c)
  BY DEF Desk, Looks
<1>2. Shows(sc, TopAt(sc, c)) /\ Picture(DrawnAt(sc, c)) = Picture(DrawnAt(sc', c))
  BY <1>1, LookSame
<1>3. Picture(shown[c]) = Picture(DrawnAt(sc, c))
  BY <1>1, <1>2 DEF DamageComplete, Shows
<1> QED BY <1>2, <1>3

\* And when the damage is drawn.
LEMMA DamageDrawn ==
    ASSUME DamageComplete, Desk, pc # "frozen", NEW s, SceneOK(s), Looks(sc, s), Render(s)
    PROVE  DamageComplete'
<1> SUFFICES ASSUME NEW c \in Cols \ sc'.dirty, Shows(sc', TopAt(sc', c))
             PROVE  Picture(shown'[c]) = Picture(DrawnAt(sc', c))
  BY DEF DamageComplete, Shows
<1>1. sc' = [s EXCEPT !.dirty = {}] /\ s \in SceneType
  BY DEF Render, SceneOK
<1>2. sc'.wins = s.wins /\ sc'.z = s.z /\ sc'.menu_open = s.menu_open
  BY <1>1 DEF SceneType
<1>3. TopAt(sc', c) = TopAt(s, c) /\ DrawnAt(sc', c) = DrawnAt(s, c) /\ Shows(s, TopAt(s, c))
  BY <1>2, DrawnSame DEF Shows
<1>4. shown'[c] = IF c \in s.dirty THEN DrawnAt(s, c) ELSE shown[c]
  BY BodyIn DEF Render
<1>5. CASE c \in s.dirty
  BY <1>3, <1>4, <1>5
<1>6. CASE c \notin s.dirty
  <2>1. c \in Cols \ sc.dirty /\ SameLook(sc, s, c)
    BY <1>6 DEF Looks
  <2>2. Shows(sc, TopAt(sc, c)) /\ Picture(DrawnAt(sc, c)) = Picture(DrawnAt(s, c))
    BY <1>3, <2>1, LookSame
  <2>3. Picture(shown[c]) = Picture(DrawnAt(sc, c))
    BY <2>1, <2>2 DEF DamageComplete, Shows
  <2> QED BY <1>3, <1>4, <1>6, <2>2, <2>3
<1> QED BY <1>5, <1>6

\* What the compositor does to the windows keeps what programs are promised.
LEMMA StepKept ==
    ASSUME DeskInv, NEW s, Does(sc, s), sc'.wins = s.wins, sc'.resizing = s.resizing,
           \A p \in Apps : task'[p].id = task[p].id /\ task'[p].told = task[p].told
    PROVE  PaintOwn' /\ Heard'
<1>1. /\ Slots(sc') = Slots(sc) /\ SceneOK(sc) /\ PaintOwn /\ Heard
      /\ \A i \in Slots(sc) : WinStep(sc, s, i)
  BY DEF DeskInv, Does, Slots
<1>2. PaintOwn'
  <2> SUFFICES ASSUME NEW i \in Slots(sc) PROVE Paint(sc'.wins[i]) \subseteq {0, sc'.wins[i].owner}
    BY <1>1 DEF PaintOwn
  <2>1. WinStep(sc, s, i) /\ Paint(sc.wins[i]) \subseteq {0, sc.wins[i].owner}
    BY <1>1 DEF PaintOwn
  <2>2. s.wins[i].owner = sc.wins[i].owner /\ Paint(s.wins[i]) \subseteq Paint(sc.wins[i]) \cup {0}
    BY <2>1 DEF WinStep
  <2> QED BY <2>1, <2>2
<1>3. Heard'
  <2> SUFFICES ASSUME NEW p \in Apps, NEW i \in Slots(sc), task'[p].id # 0, ~task'[p].told,
                      sc'.wins[i].owner = p, sc'.wins[i].id = task'[p].id, ~sc'.wins[i].open
               PROVE  "close" \in ToSet(sc'.wins[i].ev) /\ sc'.resizing.slot # i
    BY <1>1 DEF Heard
  <2>1. WinStep(sc, s, i) /\ SlotOK(sc, i)
    BY <1>1 DEF SceneOK
  <2>2. sc.wins[i].owner = p /\ sc.wins[i].id = task[p].id /\ sc.wins[i].kind = "User"
    BY <2>1 DEF WinStep, SlotOK
  <2>3. ~sc.wins[i].open => "close" \in ToSet(sc.wins[i].ev) /\ sc.resizing.slot # i
    BY <1>1, <2>2 DEF Heard
  <2> QED BY <2>1, <2>2, <2>3 DEF WinStep
<1> QED BY <1>2, <1>3

\* A window as NewWin makes it.
LEMMA NewIs ==
    ASSUME NEW kind \in Kinds, NEW w \in 1 .. W
    PROVE  LET win == NewWin(kind, w)
           IN  /\ win \in WinType /\ win.ev = <<>> /\ win.input = <<>> /\ win.id = 0 /\ win.kind = kind
               /\ win.owner = 0 /\ win.buf = <<>> /\ win.back = <<>> /\ win.w = w
<1>1. PICK q, ps, es, cs : q = <<>> /\ ps = Seq(Pids) /\ es = Seq(Events) /\ cs = Seq({"char"})
  OBVIOUS
<1>2. q \in ps /\ q \in es /\ q \in cs
  BY <1>1, Empty
<1>3. WinType = [id : Nat, kind : Kinds, owner : Pids, x : Nat, w : 1 .. W,
                 open : BOOLEAN, minimized : BOOLEAN, buf : ps, back : ps,
                 pending : BOOLEAN, ev : es, input : cs, text : Pids]
  BY <1>1 DEF WinType, Events
<1>4. 0 \in Nat /\ FALSE \in BOOLEAN /\ 0 \in Pids
  BY DEF Pids
<1> HIDE DEF Pids
<1> DEFINE win == [id |-> 0, kind |-> kind, owner |-> 0, x |-> 0, w |-> w, open |-> FALSE,
                   minimized |-> FALSE, buf |-> q, back |-> q, pending |-> FALSE,
                   ev |-> q, input |-> q, text |-> 0]
<1>5. NewWin(kind, w) = win
  BY <1>1 DEF NewWin
<1>6. win \in [id : Nat, kind : Kinds, owner : Pids, x : Nat, w : 1 .. W,
               open : BOOLEAN, minimized : BOOLEAN, buf : ps, back : ps,
               pending : BOOLEAN, ev : es, input : cs, text : Pids]
  BY <1>2, <1>4
<1>7. /\ win.ev = q /\ win.input = q /\ win.id = 0 /\ win.kind = kind
      /\ win.owner = 0 /\ win.buf = q /\ win.back = q /\ win.w = w
  OBVIOUS
<1> HIDE DEF win
<1> QED BY <1>1, <1>3, <1>5, <1>6, <1>7

\* The scene a session starts with.
LEMMA FreshOK ==
    /\ SceneOK(Fresh) /\ Fresh.resizing.slot = 0
    /\ \A i \in Slots(Fresh) : Paint(Fresh.wins[i]) = {} /\ Fresh.wins[i].owner = 0
<1> DEFINE x == Clamp((W - KERNEL_W) \div 2, 0, Max({W - KERNEL_W - EDGE, 0}))
           nw == NewWin("Monitor", KERNEL_W)
           mw == [nw EXCEPT !.open = TRUE, !.x = x]
           aw == NewWin("About", KERNEL_W)
<1>1. x \in Nat /\ KERNEL_W \in 1 .. W
  BY Sizes, ClampedAt
<1>2. clamp_win([NewWin("Monitor", KERNEL_W) EXCEPT !.open = TRUE, !.x = (W - KERNEL_W) \div 2]) = mw
  BY DEF clamp_win, NewWin
<1> HIDE DEF x
<1>3. 0 \in Pids /\ <<>> \in Seq(Pids) /\ <<>> \in Seq({"char"}) /\ <<>> \in Seq(Events) /\ Len(<<>>) = 0
  BY Empty DEF Pids
<1>4. \A kind \in Kinds :
         LET win == NewWin(kind, KERNEL_W)
         IN  /\ win \in WinType /\ win.ev = <<>> /\ win.input = <<>> /\ win.id = 0 /\ win.kind = kind
             /\ win.owner = 0 /\ win.buf = <<>> /\ win.back = <<>>
  BY <1>1, NewIs
<1>5. /\ nw \in WinType /\ nw.ev = <<>> /\ nw.input = <<>> /\ nw.id = 0 /\ nw.kind = "Monitor"
      /\ nw.owner = 0 /\ nw.buf = <<>> /\ nw.back = <<>>
      /\ aw \in WinType /\ aw.ev = <<>> /\ aw.input = <<>> /\ aw.id = 0 /\ aw.kind = "About"
      /\ aw.owner = 0 /\ aw.buf = <<>> /\ aw.back = <<>>
  BY <1>4 DEF Kinds
<1> HIDE DEF nw, aw
<1>6. /\ mw \in WinType /\ mw.ev = nw.ev /\ mw.input = nw.input /\ mw.id = 0 /\ mw.kind = "Monitor"
      /\ mw.owner = 0 /\ mw.buf = nw.buf /\ mw.back = nw.back
  BY <1>1, <1>5 DEF WinType
<1> HIDE DEF mw
<1>7. WinOK(mw) /\ WinOK(aw) /\ Paint(mw) = {} /\ Paint(aw) = {}
  BY <1>3, <1>5, <1>6, Sizes, Empty DEF WinOK, Paint
<1>8. /\ Fresh.wins = <<mw, aw>> /\ Fresh.z = <<1, 2>> /\ Fresh.next_id = 0 /\ Fresh.dirty = {}
      /\ Fresh.cur = W \div 2 /\ Fresh.left = FALSE /\ Fresh.dragging = NoGrab /\ Fresh.resizing = NoGrip
      /\ Fresh.menu_open = FALSE
  BY <1>2 DEF Fresh, MONITOR, ABOUT, aw
<1>9. /\ NoGrip \in [slot : Nat, id : Nat] /\ NoGrip.slot = 0
      /\ NoGrab \in [slot : Nat, off : Int, id : Nat] /\ NoGrab.slot = 0
  BY DEF NoGrip, NoGrab
<1>10. Fresh \in SceneType
  <2>1. Fresh = [wins |-> <<mw, aw>>, z |-> <<1, 2>>, dirty |-> {}, cur |-> W \div 2, left |-> FALSE,
                 dragging |-> NoGrab, resizing |-> NoGrip, menu_open |-> FALSE, next_id |-> 0]
    BY <1>2 DEF Fresh, MONITOR, ABOUT, aw
  <2>2. <<mw, aw>> \in Seq(WinType) /\ <<1, 2>> \in Seq(Nat) /\ W \div 2 \in Cols
    <3>1. W \div 2 \in 0 .. W - 1
      BY Sizes
    <3> QED BY <1>5, <1>6, <3>1 DEF Cols
  <2>3. PICK ws, zz, cc : ws = <<mw, aw>> /\ zz = <<1, 2>> /\ cc = W \div 2
    OBVIOUS
  <2>4. ws \in Seq(WinType) /\ zz \in Seq(Nat) /\ cc \in Cols
    BY <2>2, <2>3
  <2>5. [wins |-> ws, z |-> zz, dirty |-> {}, cur |-> cc, left |-> FALSE,
         dragging |-> NoGrab, resizing |-> NoGrip, menu_open |-> FALSE, next_id |-> 0] \in SceneType
    BY <1>9, <2>4 DEF SceneType
  <2> QED BY <2>1, <2>3, <2>5
<1> HIDE DEF Fresh
<1>11. Slots(Fresh) = {1, 2} /\ Len(Fresh.wins) = 2 /\ Fresh.wins[1] = mw /\ Fresh.wins[2] = aw
  BY <1>8 DEF Slots
<1>12. Len(Fresh.z) = 2 /\ ToSet(Fresh.z) = {1, 2}
  BY <1>8 DEF ToSet
<1>13. \A i \in Slots(Fresh) : SlotOK(Fresh, i)
  <2>1. 0 \notin Apps
    BY Sizes
  <2>2. SlotOK(Fresh, 1)
    BY <1>6, <1>7, <1>8, <1>11, <2>1 DEF SlotOK, MONITOR, ABOUT
  <2>3. SlotOK(Fresh, 2)
    BY <1>5, <1>7, <1>8, <1>11, <2>1 DEF SlotOK, MONITOR, ABOUT
  <2> QED BY <1>11, <2>2, <2>3
<1>14. SceneOK(Fresh)
  <2>1. 2 \in 2 .. MAX_WINS /\ 0 \in 0 .. 2
    BY Sizes
  <2> QED BY <1>8, <1>9, <1>10, <1>11, <1>12, <1>13, <2>1 DEF SceneOK
<1> QED BY <1>5, <1>6, <1>7, <1>8, <1>9, <1>11, <1>14

\* A session of the desktop has no window of a program when it starts.
LEMMA FreshKept ==
    ASSUME DeskInv, sc' = Fresh, task' = task, pc' \in {"off", "go", "reset"}, DamageComplete'
    PROVE  DeskInv'
<1>1. PcOK' /\ TaskOK' /\ SceneOK(sc')
  BY FreshOK DEF DeskInv, PcOK, TaskOK
<1>2. GripHeld' /\ PaintOwn'
  BY FreshOK DEF GripHeld, PaintOwn
<1>3. Heard'
  BY FreshOK, Sizes DEF Heard
<1> QED BY <1>1, <1>2, <1>3 DEF DeskInv

LEMMA InitInv == Init => DeskInv
<1> SUFFICES ASSUME Init PROVE DeskInv
  OBVIOUS
<1>1. PcOK /\ TaskOK /\ SceneOK(sc)
  BY FreshOK DEF Init, PcOK, TaskOK
<1>2. GripHeld /\ PaintOwn /\ Heard
  BY FreshOK, Sizes DEF Init, GripHeld, PaintOwn, Heard
<1>3. DamageComplete
  BY DEF Init, DamageComplete, Desk
<1> QED BY <1>1, <1>2, <1>3 DEF DeskInv

LEMMA EnterInv == DeskInv /\ Enter => DeskInv'
<1> SUFFICES ASSUME DeskInv, Enter PROVE DeskInv'
  OBVIOUS
<1>1. pc' = "go" /\ sc' = Fresh /\ shown' = [c \in Cells |-> DrawnAt(Fresh, c)] /\ task' = task
  BY DEF Enter
<1>2. DamageComplete'
  <2>1. \A c \in Cols : shown'[c] = DrawnAt(sc', c)
    BY <1>1, BodyIn
  <2> QED BY <2>1 DEF DamageComplete
<1> QED BY <1>1, <1>2, FreshKept

LEMMA TeardownInv == DeskInv /\ Teardown => DeskInv'
<1> SUFFICES ASSUME DeskInv, Teardown PROVE DeskInv'
  OBVIOUS
<1>1. pc' \in {"off", "reset"} /\ sc' = Fresh /\ task' = task
  BY DEF Teardown
<1>2. DamageComplete'
  BY <1>1 DEF DamageComplete, Desk
<1> QED BY <1>1, <1>2, FreshKept

LEMMA FreezeInv == DeskInv /\ Freeze => DeskInv'
<1> SUFFICES ASSUME DeskInv, Freeze PROVE DeskInv'
  OBVIOUS
<1>1. pc' = "frozen" /\ sc' = sc /\ task' = task
  BY DEF Freeze
<1>2. DamageComplete'
  BY <1>1 DEF DamageComplete
<1> QED BY <1>1, <1>2 DEF DeskInv, PcOK, TaskOK, GripHeld, PaintOwn, Heard

LEMMA PanicInv == ASSUME DeskInv, NEW c \in Cols, FramePanics(c) PROVE DeskInv'
<1>1. pc' = "panic" /\ sc' = sc /\ task' = task
  BY DEF FramePanics
<1>2. ~Desk'
  BY <1>1 DEF Desk
<1>3. DamageComplete'
  BY <1>2 DEF DamageComplete
<1> QED BY <1>1, <1>3 DEF DeskInv, PcOK, TaskOK, GripHeld, PaintOwn, Heard

\* The tasks a menu item starts.
LEMMA LaunchedIs ==
    ASSUME TaskOK, NEW part, NEW ts \in Launched(part)
    PROVE  /\ ts \in [Apps \cup Terms -> [st : {"none", "run", "gone"}, id : Nat, told : BOOLEAN]]
           /\ \A p \in Apps : ts[p].id = task[p].id /\ ts[p].told = task[p].told
<1>1. CASE ts = task
  BY <1>1 DEF TaskOK
<1>2. CASE ts # task
  <2>1. PICK t \in Apps \cup Terms : ts = [task EXCEPT ![t].st = "run"]
    BY <1>2 DEF Launched
  <2> QED BY <2>1 DEF TaskOK
<1> QED BY <1>1, <1>2

\* One frame.
LEMMA FrameInv ==
    ASSUME DeskInv, NEW c \in Cols, NEW left \in BOOLEAN, NEW hit, NEW key \in {"none", "esc", "char"},
           NEW tick \in BOOLEAN, Frame(c, left, hit, key, tick)
    PROVE  DeskInv'
<1> DEFINE press == left /\ ~sc.left
           s1 == Motion(sc, c)
           s2 == IF press THEN on_click(s1, hit) ELSE IF ~left /\ sc.left THEN Released(s1) ELSE s1
           lt == [s2 EXCEPT !.left = left]
           s3 == Typed(lt, key)
           s4 == Ticked(s3, tick)
<1>1. SceneOK(sc) /\ TaskOK /\ GripHeld /\ DamageComplete /\ sc \in SceneType
  BY DEF DeskInv, SceneOK
<1>2. /\ pc = "go" /\ ~(c # sc.cur /\ MotionPanics(Moved(sc, c)))
      /\ press => hit \in Hits(s1)
      /\ Render(s4)
      /\ task' \in IF press /\ s1.menu_open THEN Launched(hit[1]) ELSE {task}
  BY DEF Frame
<1>3. PcOK'
  <2>1. ClickReason(s1, hit) \in {"reboot", "halt", "closed", "go"}
    BY DEF ClickReason
  <2>2. pc' \in {"esc", "reboot", "halt", "closed", "go"}
    <3> HIDE DEF s1
    <3> QED BY <2>1 DEF Frame, s1
  <2> QED BY <2>2 DEF PcOK
<1>4. /\ TaskOK'
      /\ \A p \in Apps : task'[p].id = task[p].id /\ task'[p].told = task[p].told
  BY <1>1, <1>2, LaunchedIs DEF TaskOK
<1>5. Does(sc, s1) /\ SceneOK(s1) /\ s1.resizing = sc.resizing /\ s1.left = sc.left
  BY <1>1, <1>2, MotionDoes
<1> HIDE DEF s1
<1>6. Does(s1, s2) /\ SceneOK(s2) /\ (s2.resizing.slot # 0 => left)
  <2>1. CASE press
    <3>1. s1.resizing.slot = 0
      BY <1>1, <1>5, <2>1 DEF GripHeld
    <3> QED BY <1>2, <1>5, <2>1, <3>1, ClickDoes DEF Does
  <2>2. CASE ~press /\ ~left /\ sc.left
    BY <1>5, <2>2, ReleasedDoes DEF Does
  <2>3. CASE ~press /\ ~(~left /\ sc.left)
    BY <1>1, <1>5, <2>3, DoesNothing DEF GripHeld
  <2> QED BY <2>1, <2>2, <2>3
<1> HIDE DEF s2
<1>7. Does(s2, lt) /\ SceneOK(lt) /\ lt.left = left /\ lt.resizing = s2.resizing
  <2>1. /\ s2 \in SceneType /\ s2.dragging.slot \in 0 .. Len(s2.wins)
        /\ s2.resizing.slot \in 0 .. Len(s2.wins)
    BY <1>6 DEF SceneOK
  <2>2. /\ lt \in SceneType /\ lt.wins = s2.wins /\ lt.z = s2.z /\ lt.next_id = s2.next_id
        /\ lt.dirty = s2.dirty /\ lt.dragging = s2.dragging /\ lt.resizing = s2.resizing
        /\ lt.left = left /\ lt.menu_open = s2.menu_open
    BY <2>1 DEF SceneType
  <2> HIDE DEF lt
  <2>3. SceneOK(lt)
    BY <1>6, <2>1, <2>2, StillOK
  <2> QED BY <1>6, <2>2, <2>3, NoWindow
<1> HIDE DEF lt
<1>8. Does(lt, s3) /\ SceneOK(s3) /\ Grips(lt, s3)
  BY <1>7, TypedDoes
<1> HIDE DEF s3
<1>9. Does(s3, s4) /\ SceneOK(s4) /\ Grips(s3, s4)
  BY <1>8, TickedDoes
<1> HIDE DEF s4, press
<1>10. Does(sc, s4)
  <2>1. Does(sc, s2)
    BY <1>1, <1>5, <1>6, DoesBoth
  <2>2. Does(sc, lt)
    BY <1>1, <1>7, <2>1, DoesBoth
  <2>3. Does(sc, s3)
    BY <1>1, <1>8, <2>2, DoesBoth
  <2> QED BY <1>1, <1>9, <2>3, DoesBoth
<1>11. /\ sc' \in SceneType /\ sc'.wins = s4.wins /\ sc'.z = s4.z /\ sc'.next_id = s4.next_id
       /\ sc'.dragging = s4.dragging /\ sc'.resizing = s4.resizing /\ sc'.left = s4.left
  <2>1. sc' = [s4 EXCEPT !.dirty = {}]
    BY <1>2 DEF Render
  <2>2. s4 \in SceneType
    BY <1>9 DEF SceneOK
  <2> QED BY <2>1, <2>2 DEF SceneType
<1>12. SceneOK(sc')
  <2>1. s4.dragging.slot \in 0 .. Len(s4.wins) /\ s4.resizing.slot \in 0 .. Len(s4.wins)
    BY <1>9 DEF SceneOK
  <2> QED BY <1>9, <1>11, <2>1, StillOK
<1>13. GripHeld'
  BY <1>6, <1>7, <1>8, <1>9, <1>11 DEF Grips, GripHeld
<1>14. DamageComplete'
  BY <1>1, <1>2, <1>9, <1>10, DamageDrawn DEF Does, Desk
<1>15. PaintOwn' /\ Heard'
  BY <1>4, <1>10, <1>11, StepKept
<1> QED BY <1>3, <1>4, <1>12, <1>13, <1>14, <1>15 DEF DeskInv

---------------------------------------------------------------------------
(* The calls of programs and sessions.                                     *)

\* What a task was promised stands when its state is what it was, or it was told.
SameTasks == \A q \in Apps : task'[q].id # 0 /\ ~task'[q].told => task[q].id = task'[q].id /\ ~task[q].told

\* A call that changes one window.
LEMMA CallKept ==
    ASSUME DeskInv, NEW i \in Slots(sc), NEW old, sc.wins[i] = old, NEW win, NEW cells,
           WinOK(win), win.id = old.id, win.owner = old.owner, win.kind = old.kind,
           Paint(win) \subseteq {0, old.owner}, Same(old, win, cells),
           sc' = push_rect([sc EXCEPT !.wins[i] = win], cells),
           TaskOK', SameTasks,
           old.owner \in Apps /\ task'[old.owner].id # 0 /\ ~task'[old.owner].told /\ ~win.open
              => ~old.open /\ ("close" \in ToSet(old.ev) => "close" \in ToSet(win.ev)),
           pc' = pc, shown' = shown
    PROVE  DeskInv'
<1>1. PcOK /\ SceneOK(sc) /\ GripHeld /\ PaintOwn /\ Heard /\ DamageComplete
  BY DEF DeskInv
<1>2. /\ Looks(sc, sc') /\ SceneOK(sc') /\ Grips(sc, sc') /\ Slots(sc') = Slots(sc)
      /\ sc'.wins[i] = win /\ \A j \in Slots(sc) : j # i => sc'.wins[j] = sc.wins[j]
  BY <1>1, PutLook
<1>3. PcOK' /\ GripHeld'
  BY <1>1, <1>2 DEF PcOK, GripHeld, Grips
<1>4. PaintOwn'
  BY <1>1, <1>2 DEF PaintOwn
<1>5. Heard'
  <2> SUFFICES ASSUME NEW p \in Apps, NEW j \in Slots(sc), task'[p].id # 0, ~task'[p].told,
                      sc'.wins[j].owner = p, sc'.wins[j].id = task'[p].id, ~sc'.wins[j].open
               PROVE  "close" \in ToSet(sc'.wins[j].ev) /\ sc'.resizing.slot # j
    BY <1>2 DEF Heard
  <2>1. task[p].id = task'[p].id /\ task[p].id # 0 /\ ~task[p].told
    BY DEF SameTasks
  <2>2. sc'.resizing = sc.resizing
    BY <1>2 DEF Grips
  <2>3. CASE j # i
    BY <1>1, <1>2, <2>1, <2>2, <2>3 DEF Heard
  <2>4. CASE j = i
    <3>1. old.owner = p /\ old.id = task[p].id /\ ~win.open
      BY <1>2, <2>1, <2>4
    <3>2. ~old.open /\ ("close" \in ToSet(old.ev) => "close" \in ToSet(win.ev))
      BY <3>1
    <3>3. "close" \in ToSet(old.ev) /\ sc.resizing.slot # i
      BY <1>1, <2>1, <3>1, <3>2 DEF Heard
    <3> QED BY <1>2, <2>2, <2>4, <3>2, <3>3
  <2> QED BY <2>3, <2>4
<1>6. DamageComplete'
  BY <1>1, <1>2, DamageKept
<1> QED BY <1>2, <1>3, <1>4, <1>5, <1>6 DEF DeskInv

\* A call that leaves the scene alone.
LEMMA SceneKept ==
    ASSUME DeskInv, sc' = sc, TaskOK', SameTasks, pc' = pc, shown' = shown
    PROVE  DeskInv'
<1>1. PcOK' /\ SceneOK(sc') /\ GripHeld' /\ PaintOwn' /\ DamageComplete'
  BY DEF DeskInv, PcOK, GripHeld, PaintOwn, DamageComplete, Desk
<1>2. Heard'
  BY DEF DeskInv, Heard, SameTasks
<1> QED BY <1>1, <1>2 DEF DeskInv

\* The window find_by_id finds has the id.
LEMMA FoundIs ==
    ASSUME NEW s, SceneOK(s), NEW id, find_by_id(s, id) # 0
    PROVE  find_by_id(s, id) \in Slots(s) /\ s.wins[find_by_id(s, id)].id = id
<1> DEFINE found == {i \in Slots(s) : s.wins[i].id = id}
<1>1. found \in SUBSET Nat
  BY SlotsOf
<1>2. found # {} => Min(found) \in found
  BY <1>1, MinIn
<1>3. find_by_id(s, id) = IF found = {} THEN 0 ELSE Min(found)
  BY DEF find_by_id
<1> QED BY <1>2, <1>3

\* A program's own window is there, and its own.
LEMMA OwnIs ==
    ASSUME SceneOK(sc), NEW p, Own(p) # 0
    PROVE  Own(p) \in Slots(sc) /\ sc.wins[Own(p)].owner = p /\ sc.wins[Own(p)].id = task[p].id
<1> DEFINE i == find_by_id(sc, task[p].id)
<1>1. Own(p) = i /\ i # 0 /\ sc.wins[i].owner = p
  BY DEF Own
<1> HIDE DEF i
<1>2. i \in Slots(sc) /\ sc.wins[i].id = task[p].id
  BY <1>1, FoundIs DEF i
<1> QED BY <1>1, <1>2

\* So is a session's.
LEMMA MyTermIs ==
    ASSUME SceneOK(sc), NEW t, MyTerm(t) # 0
    PROVE  /\ MyTerm(t) \in Slots(sc) /\ sc.wins[MyTerm(t)].kind = "Term"
           /\ sc.wins[MyTerm(t)].owner \notin Apps /\ Desk
<1> DEFINE i == find_by_id(sc, task[t].id)
<1>1. Desk /\ MyTerm(t) = term_slot(sc, task[t].id)
  BY DEF MyTerm
<1>2. MyTerm(t) = i /\ i # 0 /\ sc.wins[i].kind = "Term"
  BY <1>1 DEF term_slot
<1> HIDE DEF i
<1>3. i \in Slots(sc)
  BY <1>2, FoundIs DEF i
<1>4. sc.wins[i].owner \notin Apps
  BY <1>2, <1>3 DEF SceneOK, SlotOK
<1> QED BY <1>1, <1>2, <1>3, <1>4

\* One task's entry.
LEMMA TaskSet ==
    ASSUME TaskOK, NEW p \in Apps \cup Terms, NEW e,
           e \in [st : {"none", "run", "gone"}, id : Nat, told : BOOLEAN]
    PROVE  LET ts == [task EXCEPT ![p] = e]
           IN  /\ ts \in [Apps \cup Terms -> [st : {"none", "run", "gone"}, id : Nat, told : BOOLEAN]]
               /\ ts[p] = e /\ \A q \in Apps : q # p => ts[q] = task[q]
BY DEF TaskOK

LEMMA RunInv == ASSUME DeskInv, NEW p \in Apps, Run(p) PROVE DeskInv'
<1>1. task' = [task EXCEPT ![p].st = "run"] /\ sc' = sc /\ pc' = pc /\ shown' = shown
  BY DEF Run
<1>2. TaskOK' /\ SameTasks
  BY <1>1 DEF DeskInv, TaskOK, SameTasks
<1> QED BY <1>1, <1>2, SceneKept

LEMMA CloseInv == ASSUME DeskInv, NEW p \in Apps, sys_close(p) PROVE DeskInv'
<1>1. SceneOK(sc) /\ TaskOK
  BY DEF DeskInv
<1> DEFINE i == Own(p)
           old == sc.wins[i]
           win == [old EXCEPT !.open = FALSE, !.buf = <<>>, !.back = <<>>]
           put == [sc EXCEPT !.wins[i] = win]
<1>2. /\ task' = [task EXCEPT ![p].told = TRUE] /\ pc' = pc /\ shown' = shown
      /\ sc' = IF i = 0 THEN sc
               ELSE IF sc.wins[i].open THEN dirty_win(Shut(sc, i), i) ELSE Shut(sc, i)
  BY DEF sys_close
<1>3. TaskOK' /\ SameTasks /\ task'[p].told
  BY <1>1, <1>2 DEF TaskOK, SameTasks
<1>4. CASE i = 0
  BY <1>2, <1>3, <1>4, SceneKept
<1>5. CASE i # 0
  <2>1. i \in Slots(sc) /\ old.owner = p /\ old \in WinType /\ WinOK(old)
    BY <1>1, <1>5, OwnIs, SlotsOf DEF SceneOK, SlotOK
  <2>2. /\ WinOK(win) /\ win.owner = old.owner /\ win.id = old.id /\ win.kind = old.kind
        /\ ~win.open /\ win.buf = <<>> /\ win.back = <<>> /\ win.x = old.x /\ win.w = old.w
    BY <2>1, ShutUser, Empty
  <2>3. Shut(sc, i) = put
    BY DEF Shut
  <2>4. SceneOK(put) /\ put.wins[i] = win
    <3>1. win.id <= sc.next_id /\ (win.owner \in Apps => win.kind = "User")
      BY <1>1, <2>1, <2>2 DEF SceneOK, SlotOK
    <3> HIDE DEF win
    <3> QED BY <1>1, <2>1, <2>2, <3>1, PutWin
  <2>5. Paint(win) \subseteq {0, old.owner}
    BY <2>2, Empty DEF Paint
  <2>6. body_rect(win) = body_rect(old)
    BY <2>2 DEF body_rect
  <2> DEFINE cells == IF old.open THEN body_rect(win) ELSE {}
  <2>7. Same(old, win, cells)
    BY <2>2, <2>6 DEF Same, Seen
  <2>8. sc' = push_rect(put, cells)
    <3>1. CASE old.open
      BY <1>2, <1>5, <2>3, <2>4, <3>1 DEF dirty_win
    <3>2. CASE ~old.open
      <4>1. sc' = put
        BY <1>2, <1>5, <2>3, <3>2
      <4> HIDE DEF put, win, old
      <4> QED BY <2>4, <3>2, <4>1, PushNone
    <3> QED BY <3>1, <3>2
  <2> HIDE DEF win, cells
  <2> QED BY <1>2, <1>3, <2>1, <2>2, <2>5, <2>7, <2>8, CallKept DEF put
<1> QED BY <1>4, <1>5

LEMMA RectInv == ASSUME DeskInv, NEW p \in Apps, sys_rect(p) PROVE DeskInv'
<1>1. SceneOK(sc) /\ TaskOK /\ PaintOwn
  BY DEF DeskInv
<1>2. PICK i : i = Own(p)
  OBVIOUS
<1>3. PICK old : old = sc.wins[i]
  OBVIOUS
<1> DEFINE painted == [k \in 1 .. old.w |-> p]
           win == [old EXCEPT !.back = painted]
           put == [sc EXCEPT !.wins[i] = win]
<1>4. i # 0 /\ old.open /\ sc' = put /\ pc' = pc /\ shown' = shown /\ task' = task
  BY <1>2, <1>3 DEF sys_rect
<1>5. i \in Slots(sc) /\ old.owner = p /\ old \in WinType /\ WinOK(old)
  BY <1>1, <1>2, <1>3, <1>4, OwnIs, SlotsOf DEF SceneOK, SlotOK
<1>6. painted \in Seq(Pids) /\ ToSet(painted) \subseteq {p}
  <2>1. old.w \in Nat /\ p \in Pids
    BY <1>5, Sizes DEF WinType, Pids
  <2> HIDE DEF Pids
  <2>2. painted \in [1 .. old.w -> Pids]
    BY <2>1
  <2> QED BY <2>1, <2>2, SeqDef DEF ToSet
<1> HIDE DEF painted
<1>7. /\ WinOK(win) /\ win.owner = old.owner /\ win.id = old.id /\ win.kind = old.kind
      /\ win.open = old.open /\ win.minimized = old.minimized /\ win.buf = old.buf /\ win.back = painted
      /\ win.x = old.x /\ win.w = old.w /\ win.text = old.text
  BY <1>5, <1>6 DEF WinOK, WinType
<1> HIDE DEF win
<1>8. SceneOK(put)
  <2>1. win.id <= sc.next_id /\ (win.owner \in Apps => win.kind = "User")
    BY <1>1, <1>3, <1>5, <1>7 DEF SceneOK, SlotOK
  <2> QED BY <1>1, <1>3, <1>5, <1>7, <2>1, PutWin
<1>9. sc' = push_rect(put, {})
  <2> HIDE DEF put
  <2> QED BY <1>4, <1>8, PushNone
<1>10. Paint(win) \subseteq {0, old.owner}
  BY <1>1, <1>3, <1>5, <1>6, <1>7 DEF Paint, PaintOwn
<1>11. Same(old, win, {})
  BY <1>7 DEF Same, Seen, Pixel, body_rect
<1>12. TaskOK' /\ SameTasks
  BY <1>1, <1>4 DEF TaskOK, SameTasks
<1> QED BY <1>3, <1>4, <1>5, <1>7, <1>9, <1>10, <1>11, <1>12, CallKept DEF put

LEMMA FlushInv == ASSUME DeskInv, NEW p \in Apps, sys_flush(p) PROVE DeskInv'
<1>1. SceneOK(sc) /\ TaskOK /\ PaintOwn
  BY DEF DeskInv
<1>2. PICK i : i = Own(p)
  OBVIOUS
<1>3. PICK old : old = sc.wins[i]
  OBVIOUS
<1> DEFINE win == [old EXCEPT !.buf = old.back]
           put == [sc EXCEPT !.wins[i] = win]
<1>4. i # 0 /\ old.open /\ sc' = dirty_win(put, i) /\ pc' = pc /\ shown' = shown /\ task' = task
  BY <1>2, <1>3 DEF sys_flush
<1>5. i \in Slots(sc) /\ old.owner = p /\ old \in WinType /\ WinOK(old)
  BY <1>1, <1>2, <1>3, <1>4, OwnIs, SlotsOf DEF SceneOK, SlotOK
<1>7. /\ WinOK(win) /\ win.owner = old.owner /\ win.id = old.id /\ win.kind = old.kind
      /\ win.open = old.open /\ win.minimized = old.minimized /\ win.buf = old.back /\ win.back = old.back
      /\ win.x = old.x /\ win.w = old.w /\ win.text = old.text
  BY <1>5 DEF WinOK, WinType
<1> HIDE DEF win
<1>8. put.wins[i] = win
  BY <1>1, <1>5, PutAt
<1>9. sc' = push_rect(put, body_rect(win))
  BY <1>4, <1>8 DEF dirty_win
<1>10. Paint(win) \subseteq {0, old.owner}
  BY <1>1, <1>3, <1>5, <1>7 DEF Paint, PaintOwn
<1>11. Same(old, win, body_rect(win))
  BY <1>7 DEF Same, Seen, body_rect
<1>12. TaskOK' /\ SameTasks
  BY <1>1, <1>4 DEF TaskOK, SameTasks
<1> QED BY <1>3, <1>4, <1>5, <1>7, <1>9, <1>10, <1>11, <1>12, CallKept DEF put

\* The tail of a queue has what its head is not.
LEMMA TailIs ==
    ASSUME NEW S, NEW q \in Seq(S), q # <<>>
    PROVE  /\ Tail(q) \in Seq(S) /\ Len(Tail(q)) <= Len(q)
           /\ \A v \in ToSet(q) : v = Head(q) \/ v \in ToSet(Tail(q))
<1>1. PICK n \in Nat : Len(q) = n /\ DOMAIN q = 1 .. n /\ n # 0
  BY EmptySeq
<1>2. /\ Tail(q) \in Seq(S) /\ Len(Tail(q)) = n - 1 /\ Head(q) = q[1]
      /\ \A k \in 1 .. n - 1 : Tail(q)[k] = q[k + 1]
  BY <1>1
<1>3. ASSUME NEW v \in ToSet(q) PROVE v = Head(q) \/ v \in ToSet(Tail(q))
  <2>1. PICK k \in 1 .. n : v = q[k]
    BY <1>1 DEF ToSet
  <2>2. CASE k = 1
    BY <1>2, <2>1, <2>2
  <2>3. CASE k # 1
    <3>1. k - 1 \in 1 .. n - 1 /\ (k - 1) + 1 = k
      BY <1>1, <2>3
    <3>2. v = Tail(q)[k - 1] /\ k - 1 \in DOMAIN Tail(q)
      BY <1>2, <2>1, <3>1
    <3> QED BY <3>2 DEF ToSet
  <2> QED BY <2>2, <2>3
<1> QED BY <1>1, <1>2, <1>3

LEMMA EventInv == ASSUME DeskInv, NEW p \in Apps, sys_event(p) PROVE DeskInv'
<1>1. SceneOK(sc) /\ TaskOK /\ PaintOwn
  BY DEF DeskInv
<1>2. PICK i : i = Own(p)
  OBVIOUS
<1>3. PICK old : old = sc.wins[i]
  OBVIOUS
<1>4. PICK ev : ev = IF i = 0 THEN "gone" ELSE IF old.ev = <<>> THEN "none" ELSE Head(old.ev)
  OBVIOUS
<1> DEFINE win == [old EXCEPT !.ev = Tail(old.ev)]
           put == [sc EXCEPT !.wins[i] = win]
<1>5. /\ task[p].id # 0 /\ ev # "none"
      /\ sc' = IF i = 0 THEN sc ELSE [sc EXCEPT !.wins[i].ev = Tail(@)]
      /\ task' = [task EXCEPT ![p].told = @ \/ ev \in {"close", "gone"}]
      /\ pc' = pc /\ shown' = shown
  BY <1>2, <1>3, <1>4 DEF sys_event
<1>6. TaskOK' /\ SameTasks /\ (ev \in {"close", "gone"} => task'[p].told)
  <2>0. (task[p].told \/ ev \in {"close", "gone"}) \in BOOLEAN
    OBVIOUS
  <2>1. PICK tb \in BOOLEAN : tb = (task[p].told \/ ev \in {"close", "gone"})
    BY <2>0
  <2>2. task' = [task EXCEPT ![p] = [task[p] EXCEPT !.told = tb]]
    BY <1>1, <1>5, <2>1 DEF TaskOK
  <2>6. (task[p].told => tb) /\ (ev \in {"close", "gone"} => tb)
    BY <2>1
  <2>3. TaskOK' /\ task'[p].told = tb /\ \A q \in Apps : q # p => task'[q] = task[q]
    BY <1>1, <2>2 DEF TaskOK
  <2>4. task'[p].id = task[p].id
    BY <1>1, <2>2 DEF TaskOK
  <2>5. SameTasks
    BY <2>3, <2>4, <2>6 DEF SameTasks
  <2> QED BY <2>3, <2>5, <2>6
<1>7. CASE i = 0
  BY <1>5, <1>6, <1>7, SceneKept
<1>8. CASE i # 0
  <2>1. i \in Slots(sc) /\ old.owner = p /\ old \in WinType /\ WinOK(old)
    BY <1>1, <1>2, <1>3, <1>8, OwnIs, SlotsOf DEF SceneOK, SlotOK
  <2>2. old.ev \in Seq(Events) /\ Len(old.ev) <= EV_CAP /\ old.ev # <<>> /\ ev = Head(old.ev)
    BY <1>4, <1>5, <1>8, <2>1 DEF WinOK, WinType, Events
  <2>3. /\ Tail(old.ev) \in Seq(Events) /\ Len(Tail(old.ev)) <= Len(old.ev)
        /\ \A v \in ToSet(old.ev) : v = ev \/ v \in ToSet(Tail(old.ev))
    BY <2>2, TailIs
  <2>4. Len(Tail(old.ev)) <= EV_CAP
    BY <2>2, <2>3, Sizes
  <2>5. /\ WinOK(win) /\ win.owner = old.owner /\ win.id = old.id /\ win.kind = old.kind
        /\ win.open = old.open /\ win.minimized = old.minimized /\ win.buf = old.buf /\ win.back = old.back
        /\ win.x = old.x /\ win.w = old.w /\ win.text = old.text /\ win.ev = Tail(old.ev)
    BY <2>1, <2>3, <2>4 DEF WinOK, WinType, Events
  <2>6. sc' = put
    BY <1>3, <1>5, <1>8
  <2> HIDE DEF win
  <2>7. SceneOK(put)
    <3>1. win.id <= sc.next_id /\ (win.owner \in Apps => win.kind = "User")
      BY <1>1, <1>3, <2>1, <2>5 DEF SceneOK, SlotOK
    <3> QED BY <1>1, <1>3, <2>1, <2>5, <3>1, PutWin
  <2>8. sc' = push_rect(put, {})
    <3> HIDE DEF put
    <3> QED BY <2>6, <2>7, PushNone
  <2>9. Paint(win) \subseteq {0, old.owner}
    BY <1>1, <1>3, <2>1, <2>5 DEF Paint, PaintOwn
  <2>10. Same(old, win, {})
    BY <2>5 DEF Same, Seen, Pixel, body_rect
  <2>11. ~task'[p].told /\ ~win.open => ~old.open /\ ("close" \in ToSet(old.ev) => "close" \in ToSet(win.ev))
    BY <1>6, <2>3, <2>5
  <2> QED BY <1>3, <1>5, <1>6, <2>1, <2>5, <2>8, <2>9, <2>10, <2>11, CallKept DEF put
<1> QED BY <1>7, <1>8

\* The window sys_open makes: of the program, and empty.
LEMMA UserWinIs ==
    ASSUME NEW p \in Apps, NEW id \in Nat, NEW req \in Requests
    PROVE  LET win == UserWin(p, id, req)
           IN  /\ WinOK(win) /\ win.id = id /\ win.kind = "User" /\ win.owner = p /\ win.open
               /\ Paint(win) \subseteq {0, p}
<1> DEFINE w == Min({Clamp(req[2], MIN_WIN_W, W), W - 1})
           blank == [k \in 1 .. w |-> 0]
           x == req[1] % XWRAP
           nw == NewWin("User", w)
<1>1. w \in 1 .. W
  <2>1. req[2] \in Int /\ W \in Nat /\ W - 1 \in Int /\ W - 1 >= 1 /\ MIN_WIN_W \in Nat /\ MIN_WIN_W >= 1 /\ MIN_WIN_W <= W
    BY Sizes
  <2>2. Clamp(req[2], MIN_WIN_W, W) \in 1 .. W
    BY <2>1 DEF Clamp
  <2>3. PICK v : v = Clamp(req[2], MIN_WIN_W, W)
    OBVIOUS
  <2>4. Min({v, W - 1}) = IF W - 1 < v THEN W - 1 ELSE v
    BY <2>1, <2>2, <2>3, MinOfTwo
  <2> QED BY <2>1, <2>2, <2>3, <2>4
<1>2. x \in Nat
  <2>1. req[1] \in Int /\ XWRAP \in Nat /\ XWRAP > 0
    BY Sizes
  <2> QED BY <2>1
<1> HIDE DEF w
<1>3. blank \in Seq(Pids) /\ ToSet(blank) \subseteq {0}
  <2>1. w \in Nat /\ 0 \in Pids
    BY <1>1, Sizes DEF Pids
  <2> HIDE DEF Pids
  <2>2. blank \in [1 .. w -> Pids]
    BY <2>1
  <2> QED BY <2>1, <2>2, SeqDef DEF ToSet
<1> HIDE DEF x, blank
<1>4. nw \in WinType /\ nw.ev = <<>> /\ nw.input = <<>> /\ nw.kind = "User"
  BY <1>1, NewIs DEF Kinds
<1> HIDE DEF nw
<1> DEFINE win == [nw EXCEPT !.id = id, !.owner = p, !.x = x, !.open = TRUE, !.buf = blank, !.back = blank]
<1>5. UserWin(p, id, req) = win
  BY DEF UserWin, nw, blank, x, w
<1>6. p \in Pids
  BY DEF Pids
<1>7. /\ win \in WinType /\ win.ev = nw.ev /\ win.input = nw.input /\ win.id = id /\ win.kind = "User"
      /\ win.owner = p /\ win.open /\ win.buf = blank /\ win.back = blank
  BY <1>2, <1>3, <1>4, <1>6 DEF WinType
<1> HIDE DEF win
<1>8. WinOK(win)
  <2>1. Len(win.ev) = 0 /\ Len(win.input) = 0
    BY <1>4, <1>7, Empty
  <2> QED BY <1>7, <2>1, Sizes DEF WinOK
<1>9. Paint(win) \subseteq {0, p}
  BY <1>3, <1>7 DEF Paint
<1> QED BY <1>5, <1>7, <1>8, <1>9

\* A call that opens a window.
LEMMA OpenKept ==
    ASSUME DeskInv, NEW win, WinOK(win), win.kind \in {"User", "Term"}, win.id = sc.next_id + 1, win.open,
           win.owner \in Apps => win.kind = "User", Paint(win) \subseteq {0, win.owner},
           NEW i, i = SlotFor(sc, win.kind), i # 0, sc' = Opened(sc, i, win),
           TaskOK',
           \A q \in Apps : task'[q].id # 0 /\ ~task'[q].told
              => task'[q].id = sc.next_id + 1 \/ (task[q].id = task'[q].id /\ ~task[q].told),
           pc' = pc, shown' = shown
    PROVE  DeskInv'
<1>1. PcOK /\ SceneOK(sc) /\ GripHeld /\ PaintOwn /\ Heard /\ DamageComplete
  BY DEF DeskInv
<1>2. /\ SceneOK(sc') /\ Looks(sc, sc') /\ sc'.wins[i] = win
      /\ \A j \in Slots(sc') : j # i => j \in Slots(sc) /\ sc'.wins[j] = sc.wins[j]
      /\ sc'.resizing = sc.resizing /\ sc'.left = sc.left
  BY <1>1, OpenedIs
<1>3. PcOK' /\ GripHeld' /\ PaintOwn'
  BY <1>1, <1>2 DEF PcOK, GripHeld, PaintOwn
<1>4. Heard'
  <2> SUFFICES ASSUME NEW q \in Apps, NEW j \in Slots(sc'), task'[q].id # 0, ~task'[q].told,
                      sc'.wins[j].owner = q, sc'.wins[j].id = task'[q].id, ~sc'.wins[j].open
               PROVE  "close" \in ToSet(sc'.wins[j].ev) /\ sc'.resizing.slot # j
    BY DEF Heard
  <2>1. j # i /\ j \in Slots(sc) /\ sc'.wins[j] = sc.wins[j]
    BY <1>2
  <2>2. sc.wins[j].id <= sc.next_id /\ sc.wins[j].id \in Nat /\ sc.next_id \in Nat
    BY <1>1, <2>1 DEF SceneOK, SlotOK, SceneType, WinOK, WinType
  <2>3. task[q].id = task'[q].id /\ ~task[q].told
    BY <2>1, <2>2
  <2> QED BY <1>1, <1>2, <2>1, <2>3 DEF Heard
<1>5. DamageComplete'
  BY <1>1, <1>2, DamageKept
<1> QED BY <1>2, <1>3, <1>4, <1>5 DEF DeskInv

LEMMA SysOpenInv == ASSUME DeskInv, NEW p \in Apps, NEW req \in Requests, sys_open(p, req) PROVE DeskInv'
<1>1. SceneOK(sc) /\ TaskOK /\ sc.next_id \in Nat
  BY DEF DeskInv, SceneOK, SceneType
<1>2. PICK i : i = SlotFor(sc, "User")
  OBVIOUS
<1>3. PICK id : id = sc.next_id + 1
  OBVIOUS
<1>4. pc' = pc /\ shown' = shown
  BY DEF sys_open
<1>5. CASE Desk /\ i # 0
  <2>1. /\ sc' = Opened(sc, i, UserWin(p, id, req))
        /\ task' = [task EXCEPT ![p].id = id, ![p].told = FALSE]
    BY <1>2, <1>3, <1>5 DEF sys_open
  <2>2. id \in Nat
    BY <1>1, <1>3
  <2>3. PICK win : win = UserWin(p, id, req)
    OBVIOUS
  <2>4. /\ WinOK(win) /\ win.id = id /\ win.kind = "User" /\ win.owner = p /\ win.open
        /\ Paint(win) \subseteq {0, p}
    BY <2>2, <2>3, UserWinIs
  <2>5. TaskOK' /\ task'[p].id = id /\ \A q \in Apps : q # p => task'[q] = task[q]
    BY <1>1, <2>1, <2>2 DEF TaskOK
  <2> QED BY <1>2, <1>3, <1>4, <1>5, <2>1, <2>3, <2>4, <2>5, OpenKept
<1>6. CASE ~(Desk /\ i # 0)
  <2>1. sc' = sc /\ task' = task
    BY <1>2, <1>6 DEF sys_open
  <2>2. TaskOK' /\ SameTasks
    BY <1>1, <2>1 DEF TaskOK, SameTasks
  <2> QED BY <1>4, <2>1, <2>2, SceneKept
<1> QED BY <1>5, <1>6

Gone == [st |-> "gone", id |-> 0, told |-> TRUE]

\* A task that ends after its window was shut, or with it open.
LEMMA ExitKept ==
    ASSUME DeskInv, NEW t \in Apps \cup Terms, NEW s, SceneOK(s), Looks(sc, s), Slots(s) = Slots(sc),
           s.resizing = sc.resizing, s.left = sc.left,
           \A j \in Slots(sc) : /\ s.wins[j].owner = sc.wins[j].owner
                                /\ Paint(s.wins[j]) \subseteq Paint(sc.wins[j])
                                /\ s.wins[j].owner \in Apps => s.wins[j] = sc.wins[j],
           sc' = Exited(s, t), task' = [task EXCEPT ![t] = Gone], pc' = pc, shown' = shown
    PROVE  DeskInv'
<1>1. PcOK /\ TaskOK /\ SceneOK(sc) /\ GripHeld /\ PaintOwn /\ Heard /\ DamageComplete
  BY DEF DeskInv
<1>2. /\ SceneOK(sc') /\ Looks(s, sc') /\ Slots(sc') = Slots(sc)
      /\ \A j \in Slots(sc) : /\ sc'.wins[j].owner = s.wins[j].owner
                              /\ Paint(sc'.wins[j]) \subseteq Paint(s.wins[j])
                              /\ s.wins[j].owner # t => sc'.wins[j] = s.wins[j]
      /\ sc'.resizing = sc.resizing /\ sc'.left = sc.left
  BY ExitedIs
<1>3. TaskOK' /\ task'[t] = Gone /\ \A q \in Apps : q # t => task'[q] = task[q]
  BY <1>1, TaskSet DEF Gone, TaskOK
<1>4. PcOK' /\ GripHeld'
  BY <1>1, <1>2 DEF PcOK, GripHeld
<1>5. PaintOwn'
  <2> SUFFICES ASSUME NEW j \in Slots(sc) PROVE Paint(sc'.wins[j]) \subseteq {0, sc'.wins[j].owner}
    BY <1>2 DEF PaintOwn
  <2>1. Paint(sc.wins[j]) \subseteq {0, sc.wins[j].owner}
    BY <1>1 DEF PaintOwn
  <2>2. Paint(sc'.wins[j]) \subseteq Paint(sc.wins[j]) /\ sc'.wins[j].owner = sc.wins[j].owner
    BY <1>2
  <2> QED BY <2>1, <2>2
<1>6. Heard'
  <2> SUFFICES ASSUME NEW q \in Apps, NEW j \in Slots(sc), task'[q].id # 0, ~task'[q].told,
                      sc'.wins[j].owner = q, sc'.wins[j].id = task'[q].id, ~sc'.wins[j].open
               PROVE  "close" \in ToSet(sc'.wins[j].ev) /\ sc'.resizing.slot # j
    BY <1>2 DEF Heard
  <2>1. q # t
    BY <1>3 DEF Gone
  <2>2. sc'.wins[j] = sc.wins[j] /\ task'[q] = task[q]
    BY <1>2, <1>3, <2>1
  <2> QED BY <1>1, <1>2, <2>2 DEF Heard
<1>7. DamageComplete'
  <2>1. Looks(sc, sc')
    BY <1>2, LooksBoth
  <2> QED BY <1>1, <2>1, DamageKept
<1> QED BY <1>2, <1>3, <1>4, <1>5, <1>6, <1>7 DEF DeskInv

LEMMA TaskExitInv ==
    ASSUME DeskInv, NEW t \in Apps \cup Terms, on_task_exit(t), pc' = pc, shown' = shown
    PROVE  DeskInv'
<1>1. SceneOK(sc) /\ TaskOK
  BY DEF DeskInv
<1>2. sc' = (IF Desk THEN Exited(sc, t) ELSE sc) /\ task' = [task EXCEPT ![t] = Gone]
  BY DEF on_task_exit, Gone
<1>3. CASE Desk
  <2>1. Looks(sc, sc)
    BY <1>1, DoesNothing DEF Does
  <2> QED BY <1>1, <1>2, <1>3, <2>1, ExitKept
<1>4. CASE ~Desk
  <2>1. TaskOK' /\ task'[t] = Gone /\ \A q \in Apps : q # t => task'[q] = task[q]
    BY <1>1, <1>2, TaskSet DEF Gone, TaskOK
  <2>2. SameTasks
    BY <2>1 DEF SameTasks, Gone
  <2> QED BY <1>2, <1>4, <2>1, <2>2, SceneKept
<1> QED BY <1>3, <1>4

LEMMA AppExitInv == ASSUME DeskInv, NEW p \in Apps, AppExit(p) PROVE DeskInv'
BY TaskExitInv DEF AppExit

\* The window term_open_for makes.
TermWin(t, id, x) ==
    [NewWin("Term", KERNEL_W) EXCEPT !.id = id, !.owner = t, !.x = x, !.open = TRUE, !.text = t]

LEMMA TermWinIs ==
    ASSUME NEW t \in Terms, NEW id \in Nat, NEW x \in Nat, NEW win, win = TermWin(t, id, x)
    PROVE  /\ WinOK(win) /\ win.id = id /\ win.kind = "Term" /\ win.owner = t /\ win.open
           /\ Paint(win) = {}
<1> DEFINE nw == NewWin("Term", KERNEL_W)
<1>1. KERNEL_W \in 1 .. W /\ t \in Pids
  BY Sizes DEF Pids
<1>2. /\ nw \in WinType /\ nw.ev = <<>> /\ nw.input = <<>> /\ nw.kind = "Term"
      /\ nw.buf = <<>> /\ nw.back = <<>>
  BY <1>1, NewIs DEF Kinds
<1>x. win = [nw EXCEPT !.id = id, !.owner = t, !.x = x, !.open = TRUE, !.text = t]
  BY DEF TermWin
<1> HIDE DEF nw
<1>3. /\ win \in WinType /\ win.ev = nw.ev /\ win.input = nw.input /\ win.id = id /\ win.kind = "Term"
      /\ win.owner = t /\ win.open /\ win.buf = nw.buf /\ win.back = nw.back
  <2>1. win \in WinType
    BY <1>x, <1>1, <1>2 DEF WinType
  <2>2. /\ win.ev = nw.ev /\ win.input = nw.input /\ win.id = id /\ win.kind = nw.kind
        /\ win.owner = t /\ win.open = TRUE /\ win.buf = nw.buf /\ win.back = nw.back
    BY <1>x, <1>2 DEF WinType
  <2> QED BY <1>2, <2>1, <2>2
<1>4. WinOK(win)
  <2>1. Len(win.ev) = 0 /\ Len(win.input) = 0
    BY <1>2, <1>3, Empty
  <2> QED BY <1>3, <2>1, Sizes DEF WinOK
<1>5. Paint(win) = {}
  BY <1>2, <1>3, Empty DEF Paint
<1> QED BY <1>3, <1>4, <1>5

LEMMA TermStartInv == ASSUME DeskInv, NEW t \in Terms, TermStart(t) PROVE DeskInv'
<1>1. SceneOK(sc) /\ TaskOK /\ sc.next_id \in Nat
  BY DEF DeskInv, SceneOK, SceneType
<1>2. PICK i, id : i = SlotFor(sc, "Term") /\ id = sc.next_id + 1
  OBVIOUS
<1> DEFINE x == IF sc.wins[MONITOR].open THEN sc.wins[MONITOR].x + 1
                ELSE (W - KERNEL_W) \div 2
           up == Cardinality({j \in Slots(sc) : sc.wins[j].kind = "Term" /\ sc.wins[j].open})
<1>3. pc' = pc /\ shown' = shown
  BY DEF TermStart
<1>4. CASE Desk /\ i # 0
  <2>1. /\ sc' = Opened(sc, i, [NewWin("Term", KERNEL_W) EXCEPT
                            !.id = id, !.owner = t, !.x = x + up, !.open = TRUE, !.text = t])
        /\ task' = [task EXCEPT ![t].id = id]
    BY <1>2, <1>4 DEF TermStart
  <2>2. id \in Nat
    BY <1>1, <1>2
  <2>3. x \in Nat
    <3>1. sc.wins[MONITOR].x \in Nat
      BY <1>1, SlotsOf DEF WinType
    <3>2. (W - KERNEL_W) \div 2 \in Nat
      BY Sizes
    <3> QED BY <3>1, <3>2
  <2>4. up \in Nat
    <3>1. Slots(sc) = 1 .. Len(sc.wins) /\ Len(sc.wins) \in Nat
      BY <1>1, SlotsOf
    <3>2. IsFiniteSet(Slots(sc))
      BY <3>1, FS_Interval
    <3> QED BY <3>2, FS_Subset, FS_CardinalityType
  <2>5. PICK at : at = x + up
    OBVIOUS
  <2>6. at \in Nat
    BY <2>3, <2>4, <2>5
  <2>7. PICK win : win = TermWin(t, id, at)
    OBVIOUS
  <2>8. /\ WinOK(win) /\ win.id = id /\ win.kind = "Term" /\ win.owner = t /\ win.open
        /\ Paint(win) = {}
    BY <2>2, <2>6, <2>7, TermWinIs
  <2>9. sc' = Opened(sc, i, win)
    BY <2>1, <2>5, <2>7 DEF TermWin
  <2>10. t \notin Apps
    BY Sizes
  <2>11. TaskOK' /\ \A q \in Apps : task'[q] = task[q]
    BY <1>1, <2>1, <2>2, <2>10 DEF TaskOK
  <2> HIDE DEF x, up
  <2> QED BY <1>2, <1>3, <1>4, <2>8, <2>9, <2>10, <2>11, OpenKept
<1>5. CASE ~(Desk /\ i # 0)
  <2>1. on_task_exit(t)
    BY <1>2, <1>5 DEF TermStart
  <2> QED BY <1>3, <2>1, TaskExitInv
<1> QED BY <1>4, <1>5

\* A session's window after it printed, with what is left of its keystrokes.
Printed(old, q, t) == [old EXCEPT !.input = q, !.text = t]

LEMMA PrintIs ==
    ASSUME NEW old \in WinType, WinOK(old), NEW t \in Terms, NEW q \in Seq({"char"}), Len(q) <= TERM_IN_CAP,
           NEW win, win = Printed(old, q, t)
    PROVE  /\ WinOK(win) /\ win.owner = old.owner /\ win.id = old.id /\ win.kind = old.kind
           /\ win.open = old.open /\ win.minimized = old.minimized
           /\ win.buf = old.buf /\ win.back = old.back
           /\ win.x = old.x /\ win.w = old.w
<1>1. t \in Pids
  BY DEF Pids
<1> QED BY <1>1 DEF WinOK, WinType, Printed

LEMMA PrintKept ==
    ASSUME DeskInv, NEW t \in Terms, MyTerm(t) # 0, NEW q \in Seq({"char"}), Len(q) <= TERM_IN_CAP,
           NEW win, win = Printed(sc.wins[MyTerm(t)], q, t),
           sc' = dirty_win([sc EXCEPT !.wins[MyTerm(t)] = win], MyTerm(t)),
           task' = task, pc' = pc, shown' = shown
    PROVE  DeskInv'
<1>1. SceneOK(sc) /\ TaskOK /\ PaintOwn
  BY DEF DeskInv
<1>2. PICK i : i = MyTerm(t)
  OBVIOUS
<1>3. PICK old : old = sc.wins[i]
  OBVIOUS
<1>4. i \in Slots(sc) /\ old.owner \notin Apps /\ old \in WinType /\ WinOK(old)
  BY <1>1, <1>2, <1>3, MyTermIs, SlotsOf DEF SceneOK, SlotOK
<1>5. /\ WinOK(win) /\ win.owner = old.owner /\ win.id = old.id /\ win.kind = old.kind
      /\ win.open = old.open /\ win.minimized = old.minimized
      /\ win.buf = old.buf /\ win.back = old.back /\ win.x = old.x /\ win.w = old.w
  BY <1>2, <1>3, <1>4, PrintIs
<1> DEFINE put == [sc EXCEPT !.wins[i] = win]
<1>6. put.wins[i] = win
  BY <1>1, <1>4, PutAt
<1>7. sc' = push_rect(put, body_rect(win))
  BY <1>2, <1>6 DEF dirty_win
<1>8. Paint(win) \subseteq {0, old.owner}
  BY <1>1, <1>3, <1>4, <1>5 DEF Paint, PaintOwn
<1>9. Same(old, win, body_rect(win))
  BY <1>5 DEF Same, Seen, body_rect
<1>10. TaskOK' /\ SameTasks
  BY <1>1 DEF TaskOK, SameTasks
<1> QED BY <1>3, <1>4, <1>5, <1>7, <1>8, <1>9, <1>10, CallKept DEF put

LEMMA TermPrintInv == ASSUME DeskInv, NEW t \in Terms, TermPrint(t) PROVE DeskInv'
<1>1. SceneOK(sc)
  BY DEF DeskInv
<1>2. PICK i : i = MyTerm(t)
  OBVIOUS
<1>3. PICK old : old = sc.wins[i]
  OBVIOUS
<1>4. i # 0 /\ sc' = dirty_win([sc EXCEPT !.wins[i].text = t], i) /\ pc' = pc /\ shown' = shown /\ task' = task
  BY <1>2 DEF TermPrint
<1>5. i \in Slots(sc) /\ old \in WinType /\ WinOK(old)
  BY <1>1, <1>2, <1>3, <1>4, MyTermIs, SlotsOf DEF SceneOK, SlotOK
<1>6. old.input \in Seq({"char"}) /\ Len(old.input) <= TERM_IN_CAP
  BY <1>5 DEF WinOK, WinType
<1>7. [old EXCEPT !.text = t] = [old EXCEPT !.input = old.input, !.text = t]
  BY <1>5 DEF WinType
<1>8. PICK win : win = Printed(old, old.input, t)
  OBVIOUS
<1>9. sc' = dirty_win([sc EXCEPT !.wins[i] = win], i)
  BY <1>3, <1>4, <1>7, <1>8 DEF Printed
<1> QED BY <1>2, <1>3, <1>4, <1>6, <1>8, <1>9, PrintKept

LEMMA TermPollInv == ASSUME DeskInv, NEW t \in Terms, TermPoll(t) PROVE DeskInv'
<1>1. SceneOK(sc)
  BY DEF DeskInv
<1>2. PICK i : i = MyTerm(t)
  OBVIOUS
<1>3. PICK old : old = sc.wins[i]
  OBVIOUS
<1>4. pc' = pc /\ shown' = shown
  BY DEF TermPoll
<1>5. CASE i = 0
  <2>1. on_task_exit(t)
    BY <1>2, <1>5 DEF TermPoll
  <2> QED BY <1>4, <2>1, TaskExitInv
<1>6. CASE i # 0
  <2>1. /\ old.input # <<>> /\ task' = task
        /\ sc' = dirty_win([sc EXCEPT !.wins[i].input = Tail(@), !.wins[i].text = t], i)
    BY <1>2, <1>3, <1>6 DEF TermPoll
  <2>2. i \in Slots(sc) /\ old \in WinType /\ WinOK(old)
    BY <1>1, <1>2, <1>3, <1>6, MyTermIs, SlotsOf DEF SceneOK, SlotOK
  <2>3. old.input \in Seq({"char"}) /\ Len(old.input) <= TERM_IN_CAP
    BY <2>2 DEF WinOK, WinType
  <2>4. PICK q : q = Tail(old.input)
    OBVIOUS
  <2>5. q \in Seq({"char"}) /\ Len(q) <= TERM_IN_CAP
    <3>1. Len(q) <= Len(old.input) /\ Len(q) \in Nat /\ Len(old.input) \in Nat
      BY <2>1, <2>3, <2>4, TailIs
    <3> QED BY <2>1, <2>3, <2>4, <3>1, Sizes, TailIs
  <2>6. PICK win : win = Printed(old, q, t)
    OBVIOUS
  <2>7. [sc EXCEPT !.wins[i].input = Tail(@), !.wins[i].text = t] = [sc EXCEPT !.wins[i] = win]
    <3>1. sc \in SceneType /\ i \in DOMAIN sc.wins /\ sc.wins \in Seq(WinType)
      BY <1>1, <2>2, WinsOf
    <3>2. [sc.wins EXCEPT ![i] = [old EXCEPT !.input = Tail(old.input), !.text = t]] = [sc.wins EXCEPT ![i] = win]
      BY <1>3, <2>2, <2>4, <2>6, <3>1 DEF WinType, Printed
    <3> QED BY <1>3, <2>2, <2>4, <2>6, <3>1, <3>2 DEF SceneType, Printed
  <2>8. sc' = dirty_win([sc EXCEPT !.wins[i] = win], i)
    BY <2>1, <2>7
  <2> QED BY <1>2, <1>3, <1>4, <1>6, <2>1, <2>5, <2>6, <2>8, PrintKept
<1> QED BY <1>5, <1>6

LEMMA TermCloseInv == ASSUME DeskInv, NEW t \in Terms, TermClose(t) PROVE DeskInv'
<1>1. SceneOK(sc)
  BY DEF DeskInv
<1>2. PICK i : i = MyTerm(t)
  OBVIOUS
<1>3. PICK old : old = sc.wins[i]
  OBVIOUS
<1> DEFINE win == [old EXCEPT !.open = FALSE, !.input = <<>>]
           put == [sc EXCEPT !.wins[i] = win]
           cells == body_rect(win) \cup {BAR}
<1>s. PICK shut : shut = push_rect(put, cells)
  OBVIOUS
<1>4. i # 0 /\ pc' = pc /\ shown' = shown /\ task' = [task EXCEPT ![t] = Gone]
  BY <1>2 DEF TermClose, Gone
<1>5. i \in Slots(sc) /\ old.owner \notin Apps /\ old \in WinType /\ WinOK(old)
  BY <1>1, <1>2, <1>3, <1>4, MyTermIs, SlotsOf DEF SceneOK, SlotOK
<1>6. /\ WinOK(win) /\ win.owner = old.owner /\ win.id = old.id /\ win.kind = old.kind
      /\ ~win.open /\ win.buf = old.buf /\ win.back = old.back /\ win.x = old.x /\ win.w = old.w
  <2>1. Len(<<>>) <= TERM_IN_CAP
    BY Empty, Sizes
  <2> QED BY <1>5, <2>1, ShutTerm, Empty
<1>7. sc' = Exited(shut, t)
  <2>1. sc' = Exited(push_rect(dirty_win([sc EXCEPT !.wins[i].open = FALSE, !.wins[i].input = <<>>], i), {BAR}), t)
    BY <1>2 DEF TermClose
  <2>2. [sc EXCEPT !.wins[i].open = FALSE, !.wins[i].input = <<>>] = put
    <3>1. sc \in SceneType /\ i \in DOMAIN sc.wins /\ sc.wins \in Seq(WinType)
      BY <1>1, <1>5, WinsOf
    <3>2. [sc.wins EXCEPT ![i] = [@ EXCEPT !.open = FALSE, !.input = <<>>]] = [sc.wins EXCEPT ![i] = win]
      BY <1>3, <1>5, <3>1 DEF WinType
    <3> QED BY <1>3, <1>5, <3>1, <3>2 DEF SceneType
  <2>3. put.wins[i] = win
    BY <1>1, <1>5, PutAt
  <2> HIDE DEF put, win
  <2>4. dirty_win(put, i) = push_rect(put, body_rect(win))
    BY <2>3 DEF dirty_win
  <2> QED BY <1>s, <2>1, <2>2, <2>4, PushTwice
<1> HIDE DEF win
<1>8. Same(old, win, cells)
  BY <1>6 DEF Same, Seen, body_rect
<1>9. /\ Looks(sc, shut) /\ SceneOK(shut) /\ Grips(sc, shut) /\ Slots(shut) = Slots(sc)
      /\ shut.wins[i] = win /\ \A j \in Slots(sc) : j # i => shut.wins[j] = sc.wins[j]
  <2> HIDE DEF cells
  <2>1. Same(sc.wins[i], win, cells) /\ win.id = sc.wins[i].id /\ win.owner = sc.wins[i].owner /\ win.kind = sc.wins[i].kind
    BY <1>3, <1>6, <1>8
  <2>2. PICK w, cs : w = win /\ cs = cells
    OBVIOUS
  <2>3. /\ Same(sc.wins[i], w, cs) /\ w.id = sc.wins[i].id /\ w.owner = sc.wins[i].owner
        /\ w.kind = sc.wins[i].kind /\ WinOK(w)
    BY <1>6, <2>1, <2>2
  <2>4. shut = push_rect([sc EXCEPT !.wins[i] = w], cs) /\ i \in Slots(sc)
    BY <1>s, <1>5, <2>2
  <2>5. /\ Looks(sc, shut) /\ SceneOK(shut) /\ Grips(sc, shut) /\ Slots(shut) = Slots(sc)
        /\ shut.wins[i] = w /\ \A j \in Slots(sc) : j # i => shut.wins[j] = sc.wins[j]
    BY <1>1, <2>3, <2>4, PutLook
  <2> QED BY <2>2, <2>5
<1>10. \A j \in Slots(sc) : /\ shut.wins[j].owner = sc.wins[j].owner
                            /\ Paint(shut.wins[j]) \subseteq Paint(sc.wins[j])
                            /\ shut.wins[j].owner \in Apps => shut.wins[j] = sc.wins[j]
  BY <1>3, <1>5, <1>6, <1>9 DEF Paint
<1>11. shut.resizing = sc.resizing /\ shut.left = sc.left
  BY <1>9 DEF Grips
<1> QED BY <1>4, <1>7, <1>9, <1>10, <1>11, ExitKept

LEMMA TermMonitorInv == ASSUME DeskInv, NEW t \in Terms, TermMonitor(t) PROVE DeskInv'
<1>1. SceneOK(sc) /\ PcOK /\ TaskOK /\ GripHeld /\ DamageComplete
  BY DEF DeskInv
<1>2. sc' = open_win(sc, MONITOR) /\ pc' = pc /\ shown' = shown /\ task' = task
  BY DEF TermMonitor
<1>3. Does(sc, sc') /\ Grips(sc, sc')
  BY <1>1, <1>2, OpenDoes
<1>4. PcOK' /\ TaskOK' /\ SceneOK(sc') /\ GripHeld'
  BY <1>1, <1>2, <1>3 DEF PcOK, TaskOK, GripHeld, Grips, Does
<1>5. PaintOwn' /\ Heard'
  BY <1>2, <1>3, StepKept
<1>6. DamageComplete'
  BY <1>1, <1>2, <1>3, DamageKept DEF Does
<1> QED BY <1>4, <1>5, <1>6 DEF DeskInv

---------------------------------------------------------------------------
(* Every step.                                                             *)

LEMMA MouseInv == DeskInv /\ Mouse => DeskInv'
<1> SUFFICES ASSUME DeskInv, Mouse PROVE DeskInv'
  OBVIOUS
<1>1. sc.cur \in Cols
  BY DEF DeskInv, SceneOK, SceneType
<1>2. PICK left \in BOOLEAN, c \in Cols : \E hit : Frame(c, left, hit, "none", FALSE)
  BY <1>1 DEF Mouse
<1>3. PICK hit : Frame(c, left, hit, "none", FALSE)
  BY <1>2
<1> QED BY <1>3, FrameInv

LEMMA CompositorInv == DeskInv /\ Compositor => DeskInv'
<1> SUFFICES ASSUME DeskInv, Compositor PROVE DeskInv'
  OBVIOUS
<1>1. sc.cur \in Cols /\ sc.left \in BOOLEAN
  BY DEF DeskInv, SceneOK, SceneType
<1>2. CASE Enter
  BY <1>2, EnterInv
<1>3. CASE Teardown
  BY <1>3, TeardownInv
<1>8. CASE Freeze
  BY <1>8, FreezeInv
<1>4. CASE Mouse
  BY <1>4, MouseInv
<1>5. CASE \E key \in {"esc", "char"} : Frame(sc.cur, sc.left, <<"content", 0>>, key, FALSE)
  <2>1. PICK key \in {"esc", "char"} : Frame(sc.cur, sc.left, <<"content", 0>>, key, FALSE)
    BY <1>5
  <2>2. key \in {"none", "esc", "char"}
    OBVIOUS
  <2> QED BY <1>1, <2>1, <2>2, FrameInv
<1>6. CASE Frame(sc.cur, sc.left, <<"content", 0>>, "none", TRUE)
  BY <1>1, <1>6, FrameInv
<1>7. CASE \E c \in Cols : FramePanics(c)
  BY <1>7, PanicInv
<1> QED BY <1>2, <1>3, <1>4, <1>5, <1>6, <1>7, <1>8 DEF Compositor

LEMMA ProgramsInv == DeskInv /\ Programs => DeskInv'
<1> SUFFICES ASSUME DeskInv, NEW p \in Apps,
                    \/ Run(p) \/ \E req \in Requests : sys_open(p, req)
                    \/ sys_close(p) \/ sys_rect(p) \/ sys_flush(p) \/ sys_event(p) \/ AppExit(p)
             PROVE  DeskInv'
  BY DEF Programs
<1>1. CASE Run(p)
  BY <1>1, RunInv
<1>2. CASE \E req \in Requests : sys_open(p, req)
  BY <1>2, SysOpenInv
<1>3. CASE sys_close(p)
  BY <1>3, CloseInv
<1>4. CASE sys_rect(p)
  BY <1>4, RectInv
<1>5. CASE sys_flush(p)
  BY <1>5, FlushInv
<1>6. CASE sys_event(p)
  BY <1>6, EventInv
<1>7. CASE AppExit(p)
  BY <1>7, AppExitInv
<1> QED BY <1>1, <1>2, <1>3, <1>4, <1>5, <1>6, <1>7

LEMMA SessionsInv == DeskInv /\ Sessions => DeskInv'
<1> SUFFICES ASSUME DeskInv, NEW t \in Terms,
                    TermStart(t) \/ TermPrint(t) \/ TermPoll(t) \/ TermClose(t) \/ TermMonitor(t)
             PROVE  DeskInv'
  BY DEF Sessions
<1>1. CASE TermStart(t)
  BY <1>1, TermStartInv
<1>2. CASE TermPrint(t)
  BY <1>2, TermPrintInv
<1>3. CASE TermPoll(t)
  BY <1>3, TermPollInv
<1>4. CASE TermClose(t)
  BY <1>4, TermCloseInv
<1>5. CASE TermMonitor(t)
  BY <1>5, TermMonitorInv
<1> QED BY <1>1, <1>2, <1>3, <1>4, <1>5

LEMMA NextInv == DeskInv /\ [Next]_vars => DeskInv'
<1> SUFFICES ASSUME DeskInv, [Next]_vars PROVE DeskInv'
  OBVIOUS
<1>1. CASE Compositor
  BY <1>1, CompositorInv
<1>2. CASE Programs
  BY <1>2, ProgramsInv
<1>3. CASE Sessions
  BY <1>3, SessionsInv
<1>4. CASE UNCHANGED vars
  <2>1. sc' = sc /\ task' = task /\ pc' = pc /\ shown' = shown
    BY <1>4 DEF vars
  <2>2. TaskOK' /\ SameTasks
    BY <2>1 DEF DeskInv, TaskOK, SameTasks
  <2> QED BY <2>1, <2>2, SceneKept
<1> QED BY <1>1, <1>2, <1>3, <1>4 DEF Next

LEMMA DeskAlways == Spec => []DeskInv
<1>1. Init => DeskInv
  BY InitInv
<1>2. DeskInv /\ [Next]_vars => DeskInv'
  BY NextInv
<1> QED BY <1>1, <1>2, PTL DEF Spec

\* The scene keeps its types, its queues their limits and the z order one entry for
\* each slot, through every frame of gui.rs and every GUI call.
THEOREM DesktopTypeCorrect == Spec => []TypeOK
<1>1. DeskInv => TypeOK
  <2> SUFFICES ASSUME DeskInv PROVE TypeOK
    OBVIOUS
  <2>1. PcOK /\ TaskOK /\ SceneOK(sc) /\ sc \in SceneType
    BY DEF DeskInv, SceneOK
  <2>2. \A i \in Slots(sc) : WinOK(sc.wins[i])
    BY <2>1 DEF SceneOK, SlotOK
  <2>3. Len(sc.wins) <= MAX_WINS /\ Len(sc.z) = Len(sc.wins) /\ ToSet(sc.z) = Slots(sc)
    BY <2>1, Sizes DEF SceneOK
  <2>4. sc.dirty \subseteq Cells /\ sc.cur \in Cols
    BY <2>1 DEF SceneType
  <2>5. \A t \in Apps \cup Terms : task[t].st \in {"none", "run", "gone"}
    BY <2>1 DEF TaskOK
  <2> QED BY <2>1, <2>2, <2>3, <2>4, <2>5 DEF TypeOK, WinOK, PcOK
<1> QED BY <1>1, DeskAlways, PTL

\* Whatever a frame, a click, a drag, a resize, a flush, a close or the end of a task
\* changes in a program's or a session's window is on the damage list of gui.rs: a
\* column that is not on it shows what composing it anew would show.
THEOREM DamageIsComplete == Spec => []DamageComplete
<1>1. DeskInv => DamageComplete
  BY DEF DeskInv
<1> QED BY <1>1, DeskAlways, PTL

\* A program whose window was shut by its close box finds EV_CLOSE among its events,
\* however many others come before it hears of it and whatever slot is given out again.
THEOREM CloseIsHeard == Spec => []CloseHeard
<1>1. DeskInv => CloseHeard
  <2> SUFFICES ASSUME DeskInv, NEW p \in Apps, task[p].id # 0, ~task[p].told,
                      Own(p) # 0, ~sc.wins[Own(p)].open
               PROVE  "close" \in ToSet(sc.wins[Own(p)].ev)
    BY DEF CloseHeard
  <2>1. SceneOK(sc) /\ Heard
    BY DEF DeskInv
  <2>2. Own(p) \in Slots(sc) /\ sc.wins[Own(p)].owner = p /\ sc.wins[Own(p)].id = task[p].id
    BY <2>1, OwnIs
  <2> QED BY <2>1, <2>2 DEF Heard
<1> QED BY <1>1, DeskAlways, PTL

\* The buffers of a program's window hold its own pixels, in whatever slot sys_open
\* put it and whoever had the slot before.
THEOREM PixelsAreOwn == Spec => []OwnPixels
<1>1. DeskInv => OwnPixels
  BY DEF DeskInv, PaintOwn, Paint, OwnPixels
<1> QED BY <1>1, DeskAlways, PTL
=============================================================================
