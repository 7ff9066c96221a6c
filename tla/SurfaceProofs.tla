---------------------------- MODULE SurfaceProofs -----------------------------
(***************************************************************************)
(* The surfaces a user works on, for every bound.  The editor window: its  *)
(* types, that what is on the canvas is what would be applied, that undo   *)
(* and redo walk one line of states of which only the far ends are ever    *)
(* forgotten (the refinement of EditTimeline), and that a window which     *)
(* closes unasked leaves in the document what it showed.  The overlay of a *)
(* capture, which has the same drawing: what was captured is the selection *)
(* as shown, with the finished ink that meets it.  Then what a long shot   *)
(* takes its picture from: the control panel outside the region that is    *)
(* sampled, the bands of a page that stay, and the frames of the screen.   *)
(*                                                                         *)
(* The provers have no induction over data.  What a history keeps, or a    *)
(* buffer drops, is found by least counterexample instead: the natural     *)
(* numbers are well founded (LeastNat), so of the numbers for which a      *)
(* statement fails there would be a smallest one.                          *)
(***************************************************************************)
EXTENDS Editor, CaptureSurface, PanelPlacement, FixedRegions, ScreenCopy,
        FiniteSetTheorems, SequenceTheorems, WellFoundedInduction, TLAPS

-----------------------------------------------------------------------------
(* What a line of states takes.                                            *)

(* The bytes of a line are added up by a function of the set of places.    *)
SumStep(line, D, g) ==
    [s \in SUBSET D |-> IF s = {} THEN 0
                        ELSE LET x == CHOOSE x \in s : TRUE
                             IN  Bytes(line[x]) + g[s \ {x}]]

LEMMA LineIsSum ==
    ASSUME NEW line, NEW sum,
           \E g : g = SumStep(line, DOMAIN line, g),
           \A g : g = SumStep(line, DOMAIN line, g) => g[DOMAIN line] = sum
    PROVE  LineBytes(line) = sum
<1> DEFINE it == CHOOSE g : g = SumStep(line, DOMAIN line, g)
<1>1. LineBytes(line) = it[DOMAIN line]
  BY DEF LineBytes, MapThenSumSet, MapThenFoldSet, SumStep
<1>2. it = SumStep(line, DOMAIN line, it)
  OBVIOUS
<1> QED
  BY <1>1, <1>2

LEMMA LineOfNone == LineBytes(<<>>) = 0
<1> DEFINE line == <<>>
           zero == [s \in SUBSET {} |-> 0]
<1>1. DOMAIN line = {}
  OBVIOUS
<1>2. LineBytes(line) = 0 => LineBytes(<<>>) = 0
  OBVIOUS
<1> HIDE DEF line
<1>3. zero = SumStep(line, {}, zero)
  <2>1. \A s \in SUBSET {} : s = {}
    OBVIOUS
  <2> QED
    BY <2>1 DEF SumStep
<1>4. \A g : g = SumStep(line, {}, g) => g[{}] = 0
  BY DEF SumStep
<1> HIDE DEF zero
<1> QED
  BY <1>1, <1>2, <1>3, <1>4, LineIsSum

LEMMA LineOfOne ==
    ASSUME NEW state, Bytes(state) \in Nat
    PROVE  LineBytes(<<state>>) = Bytes(state)
<1> DEFINE line == <<state>>
           one == [s \in SUBSET {1} |-> IF s = {} THEN 0 ELSE Bytes(state)]
<1>1. DOMAIN line = {1} /\ line[1] = state
  OBVIOUS
<1> HIDE DEF line
<1>2. \A s \in SUBSET {1} : s # {} => s = {1} /\ (CHOOSE x \in s : TRUE) = 1 /\ s \ {1} = {}
  OBVIOUS
<1>3. one = SumStep(line, {1}, one)
  <2>1. ASSUME NEW s \in SUBSET {1} PROVE one[s] = SumStep(line, {1}, one)[s]
    <3>1. CASE s = {}
      BY <3>1 DEF SumStep
    <3>2. CASE s # {}
      <4>1. SumStep(line, {1}, one)[s] = Bytes(state) + one[{}]
        BY <3>2, <1>1, <1>2 DEF SumStep
      <4>2. one[{}] = 0 /\ one[s] = Bytes(state)
        BY <3>2
      <4> QED
        BY <4>1, <4>2
    <3> QED
      BY <3>1, <3>2
  <2> QED
    BY <2>1 DEF SumStep
<1>4. \A g : g = SumStep(line, {1}, g) => g[{1}] = Bytes(state)
  <2> TAKE g
  <2> HAVE g = SumStep(line, {1}, g)
  <2>1. g[{}] = 0
    BY DEF SumStep
  <2>2. g[{1}] = Bytes(state) + g[{}]
    BY <1>1, <1>2 DEF SumStep
  <2> QED
    BY <2>1, <2>2
<1> HIDE DEF one
<1>5. LineBytes(line) = Bytes(state)
  BY <1>1, <1>3, <1>4, LineIsSum
<1> QED
  BY <1>5 DEF line

-----------------------------------------------------------------------------
(* The least number of states to drop, and what trimming a history keeps.  *)

(* Of any numbers one is the least: the natural numbers are well founded.  *)
LEMMA LeastNat ==
    ASSUME NEW T \in SUBSET Nat, T # {}
    PROVE  \E x \in T : \A y \in T : x <= y
<1> DEFINE R == OpToRel(<, Nat)
<1>1. \A x, y \in Nat : x < y => <<x, y>> \in R
  BY DEF OpToRel
<1>2. IsWellFoundedOn(R, Nat)
  BY NatLessThanWellFounded
<1> HIDE DEF R
<1>3. PICK x \in T : \A y \in T : ~(<<y, x>> \in R)
  BY <1>2, WFMin
<1>4. \A y \in T : ~(y < x)
  BY <1>1, <1>3
<1> QED
  BY <1>4

(* What is dropped from the front of a line is dropped from its first part *)
(* and, when that is used up, from the second.                             *)
LEMMA DropLen ==
    ASSUME NEW V, NEW s \in Seq(V), NEW j \in 0 .. Len(s)
    PROVE  /\ DropFirst(s, j) \in Seq(V) /\ Len(DropFirst(s, j)) = Len(s) - j
           /\ \A i \in 1 .. Len(s) - j : DropFirst(s, j)[i] = s[i + j]
           /\ DropFirst(s, j) = Timeline!Nearest(s, Len(s) - j)
<1>1. Len(s) \in Nat /\ \A i \in j + 1 .. Len(s) : s[i] \in V
  BY LenProperties, ElementOfSeq
<1>2. /\ SubSeq(s, j + 1, Len(s)) \in Seq(V)
      /\ Len(SubSeq(s, j + 1, Len(s))) = IF j + 1 <= Len(s) THEN Len(s) - (j + 1) + 1 ELSE 0
      /\ \A i \in 1 .. Len(s) - (j + 1) + 1 : SubSeq(s, j + 1, Len(s))[i] = s[j + 1 + i - 1]
  BY <1>1, SubSeqProperties
<1>3. Len(s) - (Len(s) - j) + 1 = j + 1
  BY <1>1
<1> QED
  BY <1>1, <1>2, <1>3 DEF DropFirst, Timeline!Nearest

LEMMA SplitNumber ==
    ASSUME NEW m \in Nat, NEW k \in Nat, NEW j \in 0 .. m + k
    PROVE  /\ Smaller(j, m) \in 0 .. m /\ Larger(j - m, 0) \in 0 .. k
           /\ Smaller(j, m) + Larger(j - m, 0) = j
           /\ j <= m => Smaller(j, m) = j /\ Larger(j - m, 0) = 0
           /\ j >= m => Smaller(j, m) = m /\ Larger(j - m, 0) = j - m
<1>1. CASE j <= m
  BY <1>1 DEF Smaller, Larger
<1>2. CASE j > m
  BY <1>2 DEF Smaller, Larger
<1> QED
  BY <1>1, <1>2

LEMMA DropConcat ==
    ASSUME NEW V, NEW p \in Seq(V), NEW f \in Seq(V), NEW j \in 0 .. Len(p) + Len(f)
    PROVE  DropFirst(p \o f, j)
             = DropFirst(p, Smaller(j, Len(p))) \o DropFirst(f, Larger(j - Len(p), 0))
<1> DEFINE a == Smaller(j, Len(p))
           b == Larger(j - Len(p), 0)
<1>1. /\ Len(p) \in Nat /\ Len(f) \in Nat /\ p \o f \in Seq(V)
      /\ Len(p \o f) = Len(p) + Len(f)
      /\ \A i \in 1 .. Len(p) + Len(f) : (p \o f)[i] = IF i <= Len(p) THEN p[i] ELSE f[i - Len(p)]
  BY ConcatProperties, LenProperties
<1>2. /\ a \in 0 .. Len(p) /\ b \in 0 .. Len(f) /\ a + b = j /\ j \in Nat
      /\ a < Len(p) => b = 0
  <2>1. /\ a \in 0 .. Len(p) /\ b \in 0 .. Len(f) /\ a + b = j
        /\ j <= Len(p) => b = 0
        /\ j >= Len(p) => a = Len(p)
    BY ZenonT(60), <1>1, SplitNumber
  <2>2. j \in Nat
    BY <1>1
  <2> HIDE DEF a, b
  <2> QED
    BY <1>1, <2>1, <2>2
<1> HIDE DEF a, b
<1> DEFINE u == DropFirst(p, a)
           v == DropFirst(f, b)
           w == DropFirst(p \o f, j)
<1>3. /\ u \in Seq(V) /\ Len(u) = Len(p) - a
      /\ \A i \in 1 .. Len(p) - a : u[i] = p[i + a]
  BY <1>2, DropLen
<1>4. /\ v \in Seq(V) /\ Len(v) = Len(f) - b
      /\ \A i \in 1 .. Len(f) - b : v[i] = f[i + b]
  BY <1>2, DropLen
<1>5. /\ w \in Seq(V) /\ Len(w) = Len(p) + Len(f) - j
      /\ \A i \in 1 .. Len(p) + Len(f) - j : w[i] = (p \o f)[i + j]
  <2> DEFINE x == p \o f
  <2>1. x \in Seq(V) /\ j \in 0 .. Len(x) /\ Len(x) = Len(p) + Len(f)
    BY <1>1
  <2> HIDE DEF x
  <2>2. /\ DropFirst(x, j) \in Seq(V) /\ Len(DropFirst(x, j)) = Len(x) - j
        /\ \A i \in 1 .. Len(x) - j : DropFirst(x, j)[i] = x[i + j]
    BY <2>1, DropLen
  <2> QED
    BY <2>1, <2>2 DEF x
<1> HIDE DEF u, v, w
<1>6. /\ u \o v \in Seq(V) /\ Len(u \o v) = Len(u) + Len(v)
      /\ \A i \in 1 .. Len(u) + Len(v) : (u \o v)[i] = IF i <= Len(u) THEN u[i] ELSE v[i - Len(u)]
  BY <1>3, <1>4, ConcatProperties
<1>7. PICK m \in Nat, k \in Nat : m = Len(p) /\ k = Len(f)
  BY <1>1
<1>8. Len(w) = Len(u \o v) /\ Len(w) = m + k - j /\ a \in 0 .. m /\ b \in 0 .. k /\ Len(u) = m - a
  <2>1. Len(u) = m - a /\ Len(v) = k - b /\ Len(w) = m + k - j /\ a \in 0 .. m /\ b \in 0 .. k
    BY <1>2, <1>3, <1>4, <1>5, <1>7
  <2>2. Len(u \o v) = (m - a) + (k - b)
    BY <1>6, <2>1
  <2> QED
    BY <1>2, <2>1, <2>2
<1>81. ASSUME NEW i \in 1 .. Len(w) PROVE w[i] = (u \o v)[i]
  <2>1. i \in 1 .. m + k - j /\ i + j \in 1 .. m + k /\ i \in Int
    BY <1>2, <1>8
  <2>0. i \in Int /\ j \in Int /\ m \in Int /\ k \in Int /\ a \in Int /\ b \in Int
    BY <1>2, <1>8, <2>1
  <2>2. w[i] = IF i + j <= m THEN p[i + j] ELSE f[i + j - m]
    <3>1. w[i] = (p \o f)[i + j]
      BY <1>5, <1>7, <2>1
    <3>2. i + j \in 1 .. Len(p) + Len(f)
      BY <1>7, <2>1
    <3>3. (p \o f)[i + j] = IF i + j <= Len(p) THEN p[i + j] ELSE f[i + j - Len(p)]
      BY <1>1, <3>2
    <3> QED
      BY <1>7, <3>1, <3>3
  <2>3. (u \o v)[i] = IF i <= m - a THEN u[i] ELSE v[i - (m - a)]
    <3>1. i \in 1 .. Len(u) + Len(v)
      BY <1>6, <1>8
    <3>2. (u \o v)[i] = IF i <= Len(u) THEN u[i] ELSE v[i - Len(u)]
      BY <1>6, <3>1
    <3> QED
      BY <1>8, <3>2
  <2>4. CASE i <= m - a
    <3>1. b = 0 /\ a = j /\ i \in 1 .. m - a
      BY <1>2, <1>7, <1>8, <2>1, <2>4
    <3>2. u[i] = p[i + j] /\ i + j <= m
      BY <1>3, <1>7, <2>1, <2>4, <3>1
    <3> QED
      BY <2>2, <2>3, <2>4, <3>2
  <2>5. CASE i > m - a
    <3>1. i - (m - a) \in 1 .. k - b
      BY <1>2, <1>8, <2>1, <2>5
    <3>2. v[i - (m - a)] = f[i - (m - a) + b]
      BY <1>4, <1>7, <3>1
    <3>3. i - (m - a) + b = i + j - m /\ ~(i + j <= m)
      BY <1>2, <1>7, <1>8, <2>1, <2>5
    <3>4. v[i - (m - a)] = f[i + j - m]
      BY <3>2, <3>3
    <3>5. ~(i <= m - a)
      BY <2>0, <2>5
    <3> QED
      BY <2>2, <2>3, <3>3, <3>4, <3>5
  <2>6. i <= m - a \/ i > m - a
    BY <2>0
  <2> QED
    BY <2>4, <2>5, <2>6
<1>9. w = u \o v
  BY <1>5, <1>6, <1>8, <1>81, SeqEqual
<1> QED
  BY <1>9 DEF u, v, w, a, b

LEMMA FitsIsHistoryFits ==
    ASSUME NEW V, NEW p \in Seq(V), NEW f \in Seq(V)
    PROVE  Timeline!Fits(p, f) <=> HistoryFits(p \o f)
<1>1. Len(p \o f) = Len(p) + Len(f)
  BY ConcatProperties
<1> QED
  BY <1>1 DEF Timeline!Fits, HistoryFits

(* TrimHistory drops as little as it can, and what it drops is farthest    *)
(* from the present.                                                       *)
LEMMA TrimKeeps ==
    ASSUME NEW draft, NEW V, draft.undo \in Seq(V), draft.redo \in Seq(V)
    PROVE  \E a \in 0 .. Len(draft.undo), b \in 0 .. Len(draft.redo) :
              /\ Timeline!Kept(draft.undo, draft.redo, a, b)
              /\ TrimHistory(draft) = [draft EXCEPT !.undo = Timeline!Nearest(draft.undo, a),
                                                    !.redo = Timeline!Nearest(draft.redo, b)]
<1>0. PICK p \in Seq(V), f \in Seq(V) : p = draft.undo /\ f = draft.redo
  OBVIOUS
<1> DEFINE line == p \o f
           used == Len(p)
           P(k) == /\ HistoryFits(DropFirst(line, k))
                   /\ \A j \in 0 .. k - 1 : ~HistoryFits(DropFirst(line, j))
           n == CHOOSE k \in 0 .. Len(line) : P(k)
           T == {k \in 0 .. Len(line) : HistoryFits(DropFirst(line, k))}
<1>1. /\ line \in Seq(V) /\ Len(line) = Len(p) + Len(f) /\ Len(p) \in Nat /\ Len(f) \in Nat
  BY ConcatProperties, LenProperties
<1>2. Len(line) \in T
  <2>1. DropFirst(line, Len(line)) = <<>>
    BY <1>1, SubSeqEmpty DEF DropFirst
  <2>2. HistoryFits(<<>>)
    BY LineOfNone, HistoryAssumption DEF HistoryFits
  <2> QED
    BY <1>1, <2>1, <2>2
<1>3. \E k \in 0 .. Len(line) : P(k)
  <2>0. T \in SUBSET Nat /\ T # {}
    BY <1>1, <1>2
  <2> HIDE DEF T
  <2>1. PICK k \in T : \A j \in T : k <= j
    BY <2>0, LeastNat
  <2> USE DEF T
  <2>2. \A j \in 0 .. k - 1 : ~HistoryFits(DropFirst(line, j))
    BY <1>1, <2>1
  <2> QED
    BY <2>1, <2>2
<1>4. n \in 0 .. Len(line) /\ P(n)
  BY <1>3
<1> DEFINE c == Smaller(n, used)
           d == Larger(n - used, 0)
           a == used - c
           b == Len(f) - d
<1>5. TrimHistory(draft) = [draft EXCEPT !.undo = DropFirst(p, c), !.redo = DropFirst(f, d)]
  BY <1>0 DEF TrimHistory
<1> HIDE DEF n
<1>6. /\ c \in 0 .. Len(p) /\ d \in 0 .. Len(f) /\ c + d = n
      /\ a \in 0 .. Len(p) /\ b \in 0 .. Len(f)
      /\ (c < used => d = 0)
  <2>1. n \in 0 .. Len(p) + Len(f)
    BY <1>1, <1>4
  <2>2. /\ c \in 0 .. Len(p) /\ d \in 0 .. Len(f) /\ c + d = n
        /\ n <= Len(p) => d = 0
        /\ n >= Len(p) => c = Len(p)
    <3> DEFINE m == Len(p)
               k == Len(f)
    <3>1. m \in Nat /\ k \in Nat /\ n \in 0 .. m + k
      BY <1>1, <2>1
    <3> HIDE DEF m, k
    <3>2. /\ Smaller(n, m) \in 0 .. m /\ Larger(n - m, 0) \in 0 .. k
          /\ Smaller(n, m) + Larger(n - m, 0) = n
          /\ n <= m => Smaller(n, m) = n /\ Larger(n - m, 0) = 0
          /\ n >= m => Smaller(n, m) = m /\ Larger(n - m, 0) = n - m
      BY <3>1, SplitNumber
    <3> QED
      BY <3>2 DEF m, k
  <2> HIDE DEF c, d
  <2> QED
    BY <1>1, <2>1, <2>2
<1>7. /\ DropFirst(p, c) = Timeline!Nearest(p, a) /\ DropFirst(p, c) \in Seq(V)
      /\ DropFirst(f, d) = Timeline!Nearest(f, b) /\ DropFirst(f, d) \in Seq(V)
  BY <1>6, DropLen
<1>8. Timeline!Fits(Timeline!Nearest(p, a), Timeline!Nearest(f, b))
  <2>1. DropFirst(line, n) = DropFirst(p, c) \o DropFirst(f, d)
    BY <1>1, <1>4, DropConcat
  <2> QED
    BY <1>4, <1>7, <2>1, FitsIsHistoryFits
<1> HIDE DEF line
<1>9. ASSUME a < Len(p) PROVE ~Timeline!Fits(Timeline!Nearest(p, a + 1), f)
  <2> DEFINE j == c - 1
  <2>1. j \in 0 .. n - 1 /\ j \in 0 .. Len(p) /\ j \in 0 .. Len(p) + Len(f) /\ Len(p) - j = a + 1
    BY SMTT(25), <1>1, <1>6, <1>9
  <2>2. Smaller(j, Len(p)) = j /\ Larger(j - Len(p), 0) = 0
    BY <1>1, <2>1 DEF Smaller, Larger
  <2> HIDE DEF j
  <2>3. DropFirst(p, j) = Timeline!Nearest(p, a + 1) /\ DropFirst(p, j) \in Seq(V)
    BY <2>1, DropLen
  <2>4. DropFirst(f, 0) = f
    BY <1>1, SubSeqFull DEF DropFirst
  <2>5. DropFirst(line, j) = DropFirst(p, j) \o f
    <3>1. DropFirst(p \o f, j) = DropFirst(p, Smaller(j, Len(p))) \o DropFirst(f, Larger(j - Len(p), 0))
      BY <2>1, DropConcat
    <3> QED
      BY <3>1, <2>2, <2>4 DEF line
  <2>6. ~HistoryFits(DropFirst(line, j))
    BY <1>4, <2>1
  <2> QED
    BY <2>3, <2>5, <2>6, FitsIsHistoryFits
<1>10. ASSUME b < Len(f) PROVE a = 0 /\ ~Timeline!Fits(<<>>, Timeline!Nearest(f, b + 1))
  <2> DEFINE j == n - 1
  <2>1. d > 0 /\ c = used /\ a = 0
    BY <1>1, <1>6, <1>10
  <2>2. j \in 0 .. n - 1 /\ j \in 0 .. Len(p) + Len(f) /\ d - 1 \in 0 .. Len(f) /\ Len(f) - (d - 1) = b + 1
    <3> HIDE DEF c, d
    <3>1. PICK k \in Nat, m \in Nat : k = Len(p) /\ m = Len(f)
      BY <1>1
    <3>2. c = k /\ d \in 0 .. m /\ k + d = n /\ d > 0
      BY <1>6, <2>1, <3>1
    <3>3. n - 1 \in 0 .. n - 1 /\ n - 1 \in 0 .. k + m /\ d - 1 \in 0 .. m /\ m - (d - 1) = m - d + 1
      BY <3>2
    <3> QED
      BY <3>1, <3>3
  <2>3. Smaller(j, Len(p)) = Len(p) /\ Larger(j - Len(p), 0) = d - 1
    BY SMTT(25), <1>1, <1>6, <2>1, <2>2 DEF Smaller, Larger
  <2> HIDE DEF j
  <2>4. DropFirst(f, d - 1) = Timeline!Nearest(f, b + 1) /\ DropFirst(f, d - 1) \in Seq(V)
    BY <2>2, DropLen
  <2>5. DropFirst(p, Len(p)) = <<>>
    BY <1>1, SubSeqEmpty DEF DropFirst
  <2>6. DropFirst(line, j) = <<>> \o DropFirst(f, d - 1)
    <3>1. DropFirst(p \o f, j) = DropFirst(p, Smaller(j, Len(p))) \o DropFirst(f, Larger(j - Len(p), 0))
      BY <2>2, DropConcat
    <3> QED
      BY <3>1, <2>3, <2>5 DEF line
  <2>7. ~HistoryFits(DropFirst(line, j))
    BY <1>4, <2>2
  <2>8. <<>> \in Seq(V)
    BY EmptySeq
  <2> QED
    BY <2>1, <2>4, <2>6, <2>7, <2>8, FitsIsHistoryFits
<1>11. Timeline!Kept(p, f, a, b)
  BY <1>8, <1>9, <1>10 DEF Timeline!Kept
<1>12. TrimHistory(draft) = [draft EXCEPT !.undo = Timeline!Nearest(p, a), !.redo = Timeline!Nearest(f, b)]
  BY <1>5, <1>7
<1>13. a \in 0 .. Len(p) /\ b \in 0 .. Len(f)
  BY <1>6
<1> HIDE DEF a, b
<1> QED
  BY <1>0, <1>11, <1>12, <1>13

-----------------------------------------------------------------------------
(* The nearest states of a line.                                           *)

LEMMA NearestFacts ==
    ASSUME NEW V, NEW s \in Seq(V), NEW n \in 0 .. Len(s)
    PROVE  /\ Timeline!Nearest(s, n) \in Seq(V) /\ Len(Timeline!Nearest(s, n)) = n
           /\ \A i \in 1 .. n : Timeline!Nearest(s, n)[i] = s[Len(s) - n + i]
<1> DEFINE m == Len(s) - n + 1
<1>1. Len(s) \in Nat /\ m \in Int /\ \A i \in m .. Len(s) : s[i] \in V
  BY LenProperties, ElementOfSeq
<1> HIDE DEF m
<1>2. /\ SubSeq(s, m, Len(s)) \in Seq(V)
      /\ Len(SubSeq(s, m, Len(s))) = IF m <= Len(s) THEN Len(s) - m + 1 ELSE 0
      /\ \A i \in 1 .. Len(s) - m + 1 : SubSeq(s, m, Len(s))[i] = s[m + i - 1]
  BY <1>1, SubSeqProperties
<1>3. Timeline!Nearest(s, n) = SubSeq(s, m, Len(s))
  BY DEF Timeline!Nearest, m
<1>4. Len(s) - m + 1 = n /\ n \in Nat
  BY <1>1 DEF m
<1>5. Len(SubSeq(s, m, Len(s))) = n
  BY <1>1, <1>2, <1>4
<1>6. ASSUME NEW i \in 1 .. n PROVE Timeline!Nearest(s, n)[i] = s[Len(s) - n + i]
  <2>1. Timeline!Nearest(s, n)[i] = s[m + i - 1]
    BY <1>2, <1>3, <1>4
  <2>2. m + i - 1 = Len(s) - n + i
    BY <1>1, <1>4 DEF m
  <2> QED
    BY <2>1, <2>2
<1> QED
  BY <1>2, <1>3, <1>5, <1>6

LEMMA NearestAppend ==
    ASSUME NEW V, NEW s \in Seq(V), NEW e \in V, NEW n \in 1 .. Len(s) + 1
    PROVE  /\ Timeline!Nearest(Append(s, e), n) \in Seq(V)
           /\ Timeline!Nearest(Append(s, e), n) # <<>>
           /\ Len(Timeline!Nearest(Append(s, e), n)) = n
           /\ Timeline!Nearest(Append(s, e), n)[n] = e
           /\ Last(Timeline!Nearest(Append(s, e), n)) = e
           /\ Front(Timeline!Nearest(Append(s, e), n)) = Timeline!Nearest(s, n - 1)
<1> DEFINE u == Append(s, e)
           t == Timeline!Nearest(u, n)
           k == Len(s)
<1>1. /\ k \in Nat /\ u \in Seq(V) /\ Len(u) = k + 1 /\ u[k + 1] = e
      /\ \A i \in 1 .. k : u[i] = s[i]
  BY AppendProperties, LenProperties
<1> HIDE DEF u
<1>2. /\ t \in Seq(V) /\ Len(t) = n
      /\ \A i \in 1 .. n : t[i] = u[Len(u) - n + i]
  <2>1. n \in 0 .. Len(u)
    BY <1>1
  <2> QED
    BY <1>1, <2>1, NearestFacts
<1> HIDE DEF t
<1>3. t[n] = e /\ t # <<>> /\ Last(t) = e
  <2>1. Len(u) - n + n = k + 1 /\ n \in 1 .. n
    BY <1>1
  <2>2. t[n] = e
    BY <1>1, <1>2, <2>1
  <2> QED
    BY <1>2, <2>2 DEF Last
<1>4. /\ Front(t) \in Seq(V) /\ Len(Front(t)) = n - 1
      /\ \A i \in 1 .. n - 1 : Front(t)[i] = t[i]
  <2>1. /\ SubSeq(t, 1, n - 1) \in Seq(V)
        /\ Len(SubSeq(t, 1, n - 1)) = IF 1 <= n - 1 THEN n - 1 - 1 + 1 ELSE 0
        /\ \A i \in 1 .. n - 1 - 1 + 1 : SubSeq(t, 1, n - 1)[i] = t[1 + i - 1]
    <3>1. n - 1 \in Int /\ \A i \in 1 .. n - 1 : t[i] \in V
      BY <1>1, <1>2, ElementOfSeq
    <3> QED
      BY <3>1, SubSeqProperties
  <2>2. n \in Int /\ n >= 1 /\ Len(t) - 1 = n - 1 /\ n - 1 - 1 + 1 = n - 1
    BY <1>1, <1>2
  <2>3. Front(t) = SubSeq(t, 1, n - 1)
    BY <1>2, <2>2 DEF Front
  <2>4. Len(Front(t)) = n - 1
    BY <2>1, <2>2, <2>3
  <2>5. \A i \in 1 .. n - 1 : 1 + i - 1 = i
    OBVIOUS
  <2> QED
    BY <2>1, <2>2, <2>3, <2>4, <2>5
<1> DEFINE v == Timeline!Nearest(s, n - 1)
<1>5. /\ v \in Seq(V) /\ Len(v) = n - 1
      /\ \A i \in 1 .. n - 1 : v[i] = s[k - (n - 1) + i]
  <2>1. n - 1 \in 0 .. Len(s)
    BY <1>1
  <2> QED
    BY <2>1, NearestFacts
<1> HIDE DEF v
<1>6. ASSUME NEW i \in 1 .. n - 1 PROVE Front(t)[i] = v[i]
  <2>1. Front(t)[i] = u[k + 1 - n + i]
    <3>1. i \in 1 .. n /\ Len(u) - n + i = k + 1 - n + i
      BY <1>1
    <3>2. t[i] = u[Len(u) - n + i]
      BY <1>2, <3>1
    <3> QED
      BY <1>4, <3>1, <3>2
  <2>2. k + 1 - n + i \in 1 .. k /\ k - (n - 1) + i = k + 1 - n + i
    BY <1>1
  <2> QED
    BY <1>1, <1>5, <2>1, <2>2
<1>7. Front(t) = v
  BY <1>4, <1>5, <1>6, SeqEqual
<1> QED
  BY <1>2, <1>3, <1>7 DEF t, u, v

LEMMA OneFits ==
    ASSUME NEW s \in EditStates
    PROVE  HistoryFits(<<s>>)
<1>1. Len(s.objects) \in Nat /\ Len(s.objects) <= MaxObjects
  BY DEF EditStates, StateValid, ObjectsValid
<1>2. Bytes(s) \in Nat /\ Bytes(s) <= HistoryBytes
  BY <1>1, LimitsAssumption, HistoryAssumption DEF Bytes
<1>3. LineBytes(<<s>>) = Bytes(s)
  BY <1>2, LineOfOne
<1>4. Len(<<s>>) = 1 /\ 1 <= HistorySteps
  BY HistoryAssumption
<1> QED
  BY <1>2, <1>3, <1>4 DEF HistoryFits

(* The state next to the present is never forgotten.                       *)
LEMMA NextIsKept ==
    ASSUME NEW p \in Seq(EditStates), NEW s \in EditStates, NEW n \in 0 .. Len(p) + 1,
           Timeline!Kept(Append(p, s), <<>>, n, 0)
    PROVE  n \in 1 .. Len(p) + 1
<1>1. /\ Append(p, s) \in Seq(EditStates) /\ Len(Append(p, s)) = Len(p) + 1 /\ Len(p) \in Nat
      /\ Append(p, s)[Len(p) + 1] = s
  BY AppendProperties, LenProperties
<1> SUFFICES ASSUME n = 0 PROVE FALSE
  BY <1>1
<1>2. ~Timeline!Fits(Timeline!Nearest(Append(p, s), 1), <<>>)
  BY <1>1 DEF Timeline!Kept
<1> DEFINE t == Timeline!Nearest(Append(p, s), 1)
<1>3. t \in Seq(EditStates) /\ Len(t) = 1 /\ t[1] = s
  <2>1. PICK k \in 1 .. Len(p) + 1 : k = 1
    BY <1>1
  <2>2. /\ Timeline!Nearest(Append(p, s), k) \in Seq(EditStates)
        /\ Len(Timeline!Nearest(Append(p, s), k)) = k
        /\ Timeline!Nearest(Append(p, s), k)[k] = s
    BY NearestAppend
  <2> QED
    BY <2>1, <2>2
<1> HIDE DEF t
<1>4. t = <<s>> /\ <<>> \in Seq(EditStates)
  <2>1. <<s>> \in Seq(EditStates) /\ Len(<<s>>) = 1 /\ (<<s>>)[1] = s
    OBVIOUS
  <2> QED
    BY <1>3, <2>1, SeqEqual
<1>5. t \o <<>> = <<s>>
  BY <1>3, <1>4, ConcatEmptySeq
<1> QED
  BY <1>2, <1>3, <1>4, <1>5, OneFits, FitsIsHistoryFits DEF t

LEMMA FutureIsKept ==
    ASSUME NEW p \in Seq(EditStates), NEW s \in EditStates, NEW n \in 0 .. Len(p), NEW m \in 0 .. 1,
           Timeline!Kept(p, <<s>>, n, m)
    PROVE  m = 1 /\ Timeline!Nearest(<<s>>, m) = <<s>>
<1>1. <<s>> \in Seq(EditStates) /\ <<>> \in Seq(EditStates) /\ Len(<<s>>) = 1
  OBVIOUS
<1>2. Timeline!Nearest(<<s>>, 1) = <<s>>
  <2> DEFINE q == <<s>>
  <2>1. q \in Seq(EditStates) /\ Len(q) = 1
    BY <1>1
  <2> HIDE DEF q
  <2>2. SubSeq(q, 1, 1) = q /\ 1 - 1 + 1 = 1
    BY <2>1, SubSeqFull
  <2>3. Timeline!Nearest(q, 1) = q
    BY <2>1, <2>2 DEF Timeline!Nearest
  <2> QED
    BY <2>3 DEF q
<1>3. Timeline!Fits(<<>>, <<s>>)
  <2>1. <<>> \o <<s>> = <<s>>
    BY <1>1, ConcatEmptySeq
  <2> QED
    BY <1>1, <2>1, OneFits, FitsIsHistoryFits
<1>4. m # 0
  <2> SUFFICES ASSUME m = 0 PROVE FALSE
    OBVIOUS
  <2>1. ~Timeline!Fits(<<>>, Timeline!Nearest(<<s>>, 0 + 1))
    BY <1>1 DEF Timeline!Kept
  <2> QED
    BY <1>2, <1>3, <2>1
<1> QED
  BY <1>2, <1>4

-----------------------------------------------------------------------------
(* What a new state, an undo and a redo make of a draft.                   *)

(* The draft a step leaves, as far as its history is concerned.            *)
SameHistory(d) == /\ edDraft'.undo = d.undo /\ edDraft'.state = d.state
                  /\ edDraft'.redo = d.redo

Lines == Seq(EditStates)

(* A draft by its fields.                                                  *)
DraftTyped(d) ==
    /\ d = [field \in {"base", "initial", "state", "undo", "redo"} |-> d[field]]
    /\ d.base \in Nat /\ d.initial \in EditStates /\ d.state \in EditStates
    /\ d.undo \in Lines /\ d.redo \in Lines

LEMMA DraftFields == \A d : DraftTyped(d) <=> d \in Drafts
BY DEF DraftTyped, Drafts, Lines

LEMMA TrimDraft ==
    ASSUME NEW d, DraftTyped(d)
    PROVE  /\ DraftTyped(TrimHistory(d)) /\ TrimHistory(d).state = d.state
           /\ TrimHistory(d).base = d.base /\ TrimHistory(d).initial = d.initial
           /\ \E n \in 0 .. Len(d.undo), m \in 0 .. Len(d.redo) :
                /\ Timeline!Kept(d.undo, d.redo, n, m)
                /\ TrimHistory(d).undo = Timeline!Nearest(d.undo, n)
                /\ TrimHistory(d).redo = Timeline!Nearest(d.redo, m)
<1> DEFINE t == TrimHistory(d)
<1>1. d.undo \in Seq(EditStates) /\ d.redo \in Seq(EditStates)
  BY DEF DraftTyped, Lines
<1>2. PICK n \in 0 .. Len(d.undo), m \in 0 .. Len(d.redo) :
        /\ Timeline!Kept(d.undo, d.redo, n, m)
        /\ t = [d EXCEPT !.undo = Timeline!Nearest(d.undo, n), !.redo = Timeline!Nearest(d.redo, m)]
  BY <1>1, TrimKeeps
<1>3. Timeline!Nearest(d.undo, n) \in Lines /\ Timeline!Nearest(d.redo, m) \in Lines
  BY <1>1, NearestFacts DEF Lines
<1> HIDE DEF t
<1>4. /\ DraftTyped(t) /\ t.state = d.state /\ t.base = d.base /\ t.initial = d.initial
      /\ t.undo = Timeline!Nearest(d.undo, n) /\ t.redo = Timeline!Nearest(d.redo, m)
  BY <1>2, <1>3 DEF DraftTyped
<1> QED
  BY <1>2, <1>4 DEF t

(* What a new state, an undo and a redo make of a draft.                   *)
LEMMA RecordDraft ==
    ASSUME NEW d, DraftTyped(d), NEW state \in EditStates
    PROVE  /\ DraftTyped(RecordState(d, state)) /\ RecordState(d, state).state = state
           /\ RecordState(d, state).base = d.base /\ RecordState(d, state).initial = d.initial
           /\ state = d.state => RecordState(d, state) = d
           /\ state # d.state =>
                \E n \in 1 .. Len(d.undo) + 1 :
                   /\ Timeline!Kept(Append(d.undo, d.state), <<>>, n, 0)
                   /\ RecordState(d, state).undo = Timeline!Nearest(Append(d.undo, d.state), n)
                   /\ RecordState(d, state).redo = <<>>
<1> DEFINE r == RecordState(d, state)
           more == Append(d.undo, d.state)
           e == [d EXCEPT !.undo = more, !.state = state, !.redo = <<>>]
<1>1. CASE state = d.state
  BY <1>1 DEF RecordState, DraftTyped
<1>2. CASE state # d.state
  <2>1. d.undo \in Seq(EditStates) /\ d.state \in EditStates
    BY DEF DraftTyped, Lines
  <2>2. more \in Lines /\ Len(more) = Len(d.undo) + 1 /\ <<>> \in Lines
    BY <2>1, AppendProperties DEF Lines
  <2>3. r = TrimHistory(e)
    BY <1>2 DEF RecordState
  <2> HIDE DEF more
  <2>4. /\ DraftTyped(e) /\ e.undo = more /\ e.redo = <<>> /\ e.state = state
        /\ e.base = d.base /\ e.initial = d.initial
    BY <2>2 DEF DraftTyped
  <2> HIDE DEF e, r
  <2>5. PICK n \in 0 .. Len(more), m \in 0 .. Len(<<>>) :
          /\ DraftTyped(r) /\ r.state = state /\ r.base = d.base /\ r.initial = d.initial
          /\ Timeline!Kept(more, <<>>, n, m)
          /\ r.undo = Timeline!Nearest(more, n) /\ r.redo = Timeline!Nearest(<<>>, m)
    BY <2>3, <2>4, TrimDraft
  <2>6. m = 0
    OBVIOUS
  <2>7. r.redo = <<>>
    <3>1. Timeline!Nearest(<<>>, m) \in Seq(EditStates) /\ Len(Timeline!Nearest(<<>>, m)) = 0
      BY <2>2, <2>6, NearestFacts DEF Lines
    <3> QED
      BY <2>5, <3>1
  <2>8. n \in 1 .. Len(d.undo) + 1
    BY <2>1, <2>2, <2>5, <2>6, NextIsKept DEF more
  <2> QED
    BY <1>2, <2>5, <2>6, <2>7, <2>8 DEF more, r
<1> QED
  BY <1>1, <1>2

LEMMA FrontOfLine ==
    ASSUME NEW s \in Lines, s # <<>>
    PROVE  Front(s) \in Lines /\ Last(s) \in EditStates /\ Len(Front(s)) = Len(s) - 1
<1>1. s \in Seq(EditStates) /\ Len(s) \in Nat /\ Len(s) >= 1
  BY EmptySeq DEF Lines
<1>2. Last(s) \in EditStates
  BY <1>1, ElementOfSeq DEF Last
<1>3. \A i \in 1 .. Len(s) - 1 : s[i] \in EditStates
  BY <1>1, ElementOfSeq
<1>4. /\ SubSeq(s, 1, Len(s) - 1) \in Seq(EditStates)
      /\ Len(SubSeq(s, 1, Len(s) - 1)) = IF 1 <= Len(s) - 1 THEN Len(s) - 1 - 1 + 1 ELSE 0
  BY <1>1, <1>3, SubSeqProperties
<1>5. Len(SubSeq(s, 1, Len(s) - 1)) = Len(s) - 1
  <2>1. PICK k \in Nat : k = Len(s) /\ k >= 1
    BY <1>1
  <2>2. Len(SubSeq(s, 1, k - 1)) = IF 1 <= k - 1 THEN k - 1 - 1 + 1 ELSE 0
    BY <1>4, <2>1
  <2>3. (IF 1 <= k - 1 THEN k - 1 - 1 + 1 ELSE 0) = k - 1
    BY <2>1
  <2> QED
    BY <2>1, <2>2, <2>3
<1> QED
  BY <1>2, <1>4, <1>5 DEF Front, Lines

LEMMA UndoDraftFacts ==
    ASSUME NEW d, DraftTyped(d)
    PROVE  /\ DraftTyped(UndoDraft(d)) /\ UndoDraft(d).base = d.base /\ UndoDraft(d).initial = d.initial
           /\ d.undo = <<>> => UndoDraft(d) = d
           /\ d.undo # <<>> =>
                \E n \in 0 .. Len(Front(d.undo)), m \in 0 .. Len(d.redo) + 1 :
                   /\ Timeline!Kept(Front(d.undo), Append(d.redo, d.state), n, m)
                   /\ UndoDraft(d).state = Last(d.undo)
                   /\ UndoDraft(d).undo = Timeline!Nearest(Front(d.undo), n)
                   /\ UndoDraft(d).redo = Timeline!Nearest(Append(d.redo, d.state), m)
<1> DEFINE r == UndoDraft(d)
           p == Front(d.undo)
           s == Last(d.undo)
           f == Append(d.redo, d.state)
           e == [d EXCEPT !.undo = p, !.state = s, !.redo = f]
<1>1. CASE d.undo = <<>>
  BY <1>1 DEF UndoDraft, DraftTyped
<1>2. CASE d.undo # <<>>
  <2>1. p \in Lines /\ s \in EditStates
    BY <1>2, FrontOfLine DEF DraftTyped
  <2>2. f \in Lines /\ Len(f) = Len(d.redo) + 1
    BY AppendProperties DEF Lines, DraftTyped
  <2>3. r = TrimHistory(e)
    BY <1>2 DEF UndoDraft
  <2> HIDE DEF p, s, f
  <2>4. /\ DraftTyped(e) /\ e.undo = p /\ e.redo = f /\ e.state = s
        /\ e.base = d.base /\ e.initial = d.initial
    BY <2>1, <2>2 DEF DraftTyped
  <2> HIDE DEF e, r
  <2>5. PICK n \in 0 .. Len(p), m \in 0 .. Len(f) :
          /\ DraftTyped(r) /\ r.state = s /\ r.base = d.base /\ r.initial = d.initial
          /\ Timeline!Kept(p, f, n, m)
          /\ r.undo = Timeline!Nearest(p, n) /\ r.redo = Timeline!Nearest(f, m)
    BY <2>3, <2>4, TrimDraft
  <2> QED
    BY <1>2, <2>2, <2>5 DEF p, s, f, r
<1> QED
  BY <1>1, <1>2

LEMMA RedoDraftFacts ==
    ASSUME NEW d, DraftTyped(d)
    PROVE  /\ DraftTyped(RedoDraft(d)) /\ RedoDraft(d).base = d.base /\ RedoDraft(d).initial = d.initial
           /\ d.redo = <<>> => RedoDraft(d) = d
           /\ d.redo # <<>> =>
                \E n \in 0 .. Len(d.undo) + 1, m \in 0 .. Len(Front(d.redo)) :
                   /\ Timeline!Kept(Append(d.undo, d.state), Front(d.redo), n, m)
                   /\ RedoDraft(d).state = Last(d.redo)
                   /\ RedoDraft(d).undo = Timeline!Nearest(Append(d.undo, d.state), n)
                   /\ RedoDraft(d).redo = Timeline!Nearest(Front(d.redo), m)
<1> DEFINE r == RedoDraft(d)
           f == Front(d.redo)
           s == Last(d.redo)
           p == Append(d.undo, d.state)
           e == [d EXCEPT !.redo = f, !.state = s, !.undo = p]
<1>1. CASE d.redo = <<>>
  BY <1>1 DEF RedoDraft, DraftTyped
<1>2. CASE d.redo # <<>>
  <2>1. f \in Lines /\ s \in EditStates
    BY <1>2, FrontOfLine DEF DraftTyped
  <2>2. p \in Lines /\ Len(p) = Len(d.undo) + 1
    BY AppendProperties DEF Lines, DraftTyped
  <2>3. r = TrimHistory(e)
    BY <1>2 DEF RedoDraft
  <2> HIDE DEF p, s, f
  <2>4. /\ DraftTyped(e) /\ e.undo = p /\ e.redo = f /\ e.state = s
        /\ e.base = d.base /\ e.initial = d.initial
    BY <2>1, <2>2 DEF DraftTyped
  <2> HIDE DEF e, r
  <2>5. PICK n \in 0 .. Len(p), m \in 0 .. Len(f) :
          /\ DraftTyped(r) /\ r.state = s /\ r.base = d.base /\ r.initial = d.initial
          /\ Timeline!Kept(p, f, n, m)
          /\ r.undo = Timeline!Nearest(p, n) /\ r.redo = Timeline!Nearest(f, m)
    BY <2>3, <2>4, TrimDraft
  <2> QED
    BY <1>2, <2>2, <2>5 DEF p, s, f, r
<1> QED
  BY <1>1, <1>2

-----------------------------------------------------------------------------
(* They are the moves of the timeline.                                     *)

Walked == [Timeline!TimelineNext]_(Timeline!tlVars)

(* A change of the state is a change of the timeline.                      *)
LEMMA RecordWalks ==
    ASSUME DraftTyped(edDraft), NEW state \in EditStates, SameHistory(RecordState(edDraft, state))
    PROVE  Walked
<1> DEFINE r == RecordState(edDraft, state)
<1>1. CASE state = edDraft.state
  <2>1. r = edDraft
    BY <1>1, RecordDraft
  <2> QED
    BY <2>1 DEF SameHistory, Walked, Timeline!tlVars
<1>2. CASE state # edDraft.state
  <2>1. PICK n \in 1 .. Len(edDraft.undo) + 1 :
          /\ Timeline!Kept(Append(edDraft.undo, edDraft.state), <<>>, n, 0)
          /\ r.undo = Timeline!Nearest(Append(edDraft.undo, edDraft.state), n)
          /\ r.redo = <<>> /\ r.state = state
    BY <1>2, RecordDraft
  <2>2. Timeline!Nearest(<<>>, 0) = <<>>
    BY SubSeqEmpty DEF Timeline!Nearest
  <2>3. /\ n \in 0 .. Len(Append(edDraft.undo, edDraft.state)) /\ 0 \in 0 .. Len(<<>>)
    <3>1. edDraft.undo \in Seq(EditStates) /\ edDraft.state \in EditStates
      BY DEF DraftTyped, Lines
    <3> QED
      BY <3>1, AppendProperties, LenProperties
  <2>4. Timeline!Settle(Append(edDraft.undo, edDraft.state), <<>>)
    BY <2>1, <2>2, <2>3 DEF Timeline!Settle, SameHistory
  <2>5. Timeline!Change
    BY <1>2, <2>1, <2>4 DEF Timeline!Change, SameHistory
  <2> QED
    BY <2>5 DEF Timeline!TimelineNext, Walked
<1> QED
  BY <1>1, <1>2

(* An undo, of what was recorded or of what it records first.              *)
LEMMA UndoWalks ==
    ASSUME DraftTyped(edDraft), NEW state \in EditStates,
           SameHistory(UndoDraft(RecordState(edDraft, state)))
    PROVE  Walked
<1> DEFINE m == RecordState(edDraft, state)
           r == UndoDraft(m)
           p == edDraft.undo
           now == edDraft.state
<1>1. /\ DraftTyped(m) /\ p \in Seq(EditStates) /\ now \in EditStates
      /\ Len(Append(p, now)) = Len(p) + 1 /\ Len(p) \in Nat
  <2>1. p \in Seq(EditStates) /\ now \in EditStates /\ DraftTyped(m)
    BY RecordDraft DEF DraftTyped, Lines
  <2> QED
    BY <2>1, AppendProperties, LenProperties
<1>2. CASE m.undo = <<>>
  <2>1. r = m
    BY <1>1, <1>2, UndoDraftFacts
  <2> QED
    BY <2>1, RecordWalks
<1>3. CASE state = now /\ m.undo # <<>>
  <2>1. m = edDraft
    BY <1>3, RecordDraft
  <2>2. PICK n \in 0 .. Len(Front(p)), k \in 0 .. Len(edDraft.redo) + 1 :
          /\ Timeline!Kept(Front(p), Append(edDraft.redo, now), n, k)
          /\ r.state = Last(p) /\ r.undo = Timeline!Nearest(Front(p), n)
          /\ r.redo = Timeline!Nearest(Append(edDraft.redo, now), k)
    BY <1>3, <2>1, UndoDraftFacts
  <2>3. k \in 0 .. Len(Append(edDraft.redo, now))
    <3>1. edDraft.redo \in Seq(EditStates)
      BY DEF DraftTyped, Lines
    <3> QED
      BY <1>1, <3>1, AppendProperties
  <2>4. Timeline!Settle(Timeline!Front(p), Append(edDraft.redo, now))
    BY <2>2, <2>3 DEF Timeline!Settle, Timeline!Front, Front, SameHistory
  <2>5. Timeline!Undo
    BY <1>3, <2>1, <2>2, <2>4 DEF Timeline!Undo, Timeline!Last, Last, SameHistory
  <2> QED
    BY <2>5 DEF Timeline!TimelineNext, Walked
<1>4. CASE state # now /\ m.undo # <<>>
  <2>1. PICK n \in 1 .. Len(p) + 1 :
          /\ Timeline!Kept(Append(p, now), <<>>, n, 0)
          /\ m.undo = Timeline!Nearest(Append(p, now), n) /\ m.redo = <<>> /\ m.state = state
    BY <1>4, RecordDraft
  <2>2. Last(m.undo) = now /\ Front(m.undo) = Timeline!Nearest(p, n - 1)
    BY <1>1, <2>1, NearestAppend
  <2>3. PICK a \in 0 .. Len(Front(m.undo)), b \in 0 .. Len(m.redo) + 1 :
          /\ Timeline!Kept(Front(m.undo), Append(m.redo, m.state), a, b)
          /\ r.state = Last(m.undo) /\ r.undo = Timeline!Nearest(Front(m.undo), a)
          /\ r.redo = Timeline!Nearest(Append(m.redo, m.state), b)
    BY <1>1, <1>4, UndoDraftFacts
  <2>4. Append(m.redo, m.state) = <<state>> /\ Len(m.redo) = 0
    BY <2>1
  <2> HIDE DEF m, r
  <2>5. n - 1 \in 0 .. Len(p)
    BY <1>1
  <2>6. Timeline!Nearest(p, n - 1) \in Seq(EditStates)
    BY <1>1, <2>5, NearestFacts
  <2>7. b = 1 /\ Timeline!Nearest(<<state>>, b) = <<state>>
    <3>1. b \in 0 .. 1
      BY <2>4
    <3>2. PICK q \in Seq(EditStates) : q = Timeline!Nearest(p, n - 1)
      BY <2>6
    <3>3. a \in 0 .. Len(q) /\ Timeline!Kept(q, <<state>>, a, b)
      BY <2>2, <2>3, <2>4, <3>2
    <3> QED
      BY <3>1, <3>3, FutureIsKept
  <2>8. Len(<<state>>) = 1
    OBVIOUS
  <2>9. Timeline!Settle(Timeline!Nearest(p, n - 1), <<state>>)
    <3>1. a \in 0 .. Len(Timeline!Nearest(p, n - 1)) /\ b \in 0 .. Len(<<state>>)
      BY <2>2, <2>3, <2>7, <2>8
    <3>2. /\ Timeline!Kept(Timeline!Nearest(p, n - 1), <<state>>, a, b)
          /\ edDraft'.undo = Timeline!Nearest(Timeline!Nearest(p, n - 1), a)
          /\ edDraft'.redo = Timeline!Nearest(<<state>>, b)
      BY <2>2, <2>3, <2>4 DEF SameHistory, m, r
    <3> QED
      BY <3>1, <3>2 DEF Timeline!Settle
  <2>10. state \in Timeline!Range(edDraft'.redo)
    <3>1. edDraft'.redo = <<state>>
      BY <2>3, <2>4, <2>7 DEF SameHistory, m, r
    <3>2. DOMAIN <<state>> = {1} /\ (<<state>>)[1] = state
      OBVIOUS
    <3> QED
      BY <3>1, <3>2 DEF Timeline!Range
  <2>11. edDraft'.state = now
    BY <2>2, <2>3 DEF SameHistory, m, r
  <2>12. Timeline!ChangeAndUndo
    BY <1>4, <2>1, <2>9, <2>10, <2>11 DEF Timeline!ChangeAndUndo
  <2> QED
    BY <2>12 DEF Timeline!TimelineNext, Walked
<1> QED
  BY <1>2, <1>3, <1>4

(* A redo: what is recorded first ends what could be redone.               *)
LEMMA RedoWalks ==
    ASSUME DraftTyped(edDraft), NEW state \in EditStates,
           SameHistory(RedoDraft(RecordState(edDraft, state)))
    PROVE  Walked
<1> DEFINE m == RecordState(edDraft, state)
           r == RedoDraft(m)
           p == edDraft.undo
           now == edDraft.state
<1>1. DraftTyped(m)
  BY RecordDraft
<1>2. CASE m.redo = <<>>
  <2>1. r = m
    BY <1>1, <1>2, RedoDraftFacts
  <2> QED
    BY <2>1, RecordWalks
<1>3. CASE m.redo # <<>>
  <2>1. m = edDraft
    BY <1>3, RecordDraft
  <2>2. PICK n \in 0 .. Len(p) + 1, k \in 0 .. Len(Front(edDraft.redo)) :
          /\ Timeline!Kept(Append(p, now), Front(edDraft.redo), n, k)
          /\ r.state = Last(edDraft.redo) /\ r.undo = Timeline!Nearest(Append(p, now), n)
          /\ r.redo = Timeline!Nearest(Front(edDraft.redo), k)
    BY <1>3, <2>1, RedoDraftFacts
  <2>3. n \in 0 .. Len(Append(p, now))
    <3>1. p \in Seq(EditStates) /\ now \in EditStates
      BY DEF DraftTyped, Lines
    <3> QED
      BY <3>1, AppendProperties
  <2>4. Timeline!Settle(Append(p, now), Timeline!Front(edDraft.redo))
    BY <2>2, <2>3 DEF Timeline!Settle, Timeline!Front, Front, SameHistory
  <2>5. Timeline!Redo
    BY <1>3, <2>1, <2>2, <2>4 DEF Timeline!Redo, Timeline!Last, Last, SameHistory
  <2> QED
    BY <2>5 DEF Timeline!TimelineNext, Walked
<1> QED
  BY <1>2, <1>3

(* Two changes at once: what is on the canvas, and what is made of it.     *)
LEMMA TwiceWalks ==
    ASSUME DraftTyped(edDraft), NEW one \in EditStates, NEW two \in EditStates, one # two,
           SameHistory(RecordState(RecordState(edDraft, one), two))
    PROVE  Walked
<1> DEFINE m == RecordState(edDraft, one)
           r == RecordState(m, two)
           p == edDraft.undo
           now == edDraft.state
<1>1. CASE one = now
  <2>1. m = edDraft
    BY <1>1, RecordDraft
  <2> QED
    BY <2>1, RecordWalks
<1>2. CASE one # now
  <2>1. /\ DraftTyped(m) /\ p \in Seq(EditStates) /\ now \in EditStates
        /\ Len(Append(p, now)) = Len(p) + 1 /\ Len(p) \in Nat
    <3>1. p \in Seq(EditStates) /\ now \in EditStates /\ DraftTyped(m)
      BY RecordDraft DEF DraftTyped, Lines
    <3> QED
      BY <3>1, AppendProperties, LenProperties
  <2>2. PICK n \in 1 .. Len(p) + 1 :
          /\ Timeline!Kept(Append(p, now), <<>>, n, 0)
          /\ m.undo = Timeline!Nearest(Append(p, now), n) /\ m.redo = <<>> /\ m.state = one
    BY <1>2, RecordDraft
  <2>3. PICK k \in 1 .. Len(m.undo) + 1 :
          /\ Timeline!Kept(Append(m.undo, one), <<>>, k, 0)
          /\ r.undo = Timeline!Nearest(Append(m.undo, one), k)
          /\ r.redo = <<>> /\ r.state = two
    BY <2>1, <2>2, RecordDraft
  <2>4. m.undo \in Seq(EditStates)
    BY <2>1 DEF DraftTyped, Lines
  <2> HIDE DEF m, r
  <2>5. /\ Len(Append(m.undo, one)) = Len(m.undo) + 1 /\ Len(m.undo) \in Nat
        /\ Timeline!Nearest(<<>>, 0) = <<>>
    BY <2>4, AppendProperties, LenProperties, SubSeqEmpty DEF Timeline!Nearest
  <2>6. Timeline!Settle(Append(m.undo, one), <<>>)
    <3>1. k \in 0 .. Len(Append(m.undo, one)) /\ 0 \in 0 .. Len(<<>>)
      BY <2>5
    <3> QED
      BY <2>3, <2>5, <3>1 DEF Timeline!Settle, SameHistory, m, r
  <2>7. one \in Timeline!Range(edDraft'.undo)
    <3>1. /\ edDraft'.undo \in Seq(EditStates) /\ Len(edDraft'.undo) = k /\ edDraft'.undo[k] = one
      BY <2>3, <2>4, NearestAppend DEF SameHistory, m, r
    <3>2. k \in DOMAIN edDraft'.undo
      BY <2>5, <3>1
    <3> QED
      BY <3>1, <3>2 DEF Timeline!Range
  <2>8. edDraft'.state = two /\ n \in 0 .. Len(p) + 1
    BY <2>1, <2>3 DEF SameHistory, m, r
  <2>9. Timeline!ChangeTwice
    BY <1>2, <2>2, <2>6, <2>7, <2>8 DEF Timeline!ChangeTwice
  <2> QED
    BY <2>9 DEF Timeline!TimelineNext, Walked
<1> QED
  BY <1>1, <1>2

-----------------------------------------------------------------------------
(* The canvas: every operation of annotate.rs that the editor calls keeps  *)
(* its cache true.                                                         *)

(* The cache is as the strokes are, unless it is known not to be.          *)
Coherent(a) == a.stale \/ a.cache = a.strokes

(* A canvas as its operations leave it, by its fields.                     *)
Shaped(a) == a = [field \in {"tool", "look", "strokes", "redo", "active", "start", "editing",
                              "preedit", "cache", "stale"} |-> a[field]]

Strokes0 == Seq(Strokes)
Drawn0 == Strokes \union {NoStroke}

CanvasTyped(a) ==
    /\ a.tool \in Tools /\ a.look \in Int /\ a.start \in Int
    /\ a.strokes \in Strokes0 /\ a.redo \in Strokes0 /\ a.cache \in Strokes0
    /\ a.active \in Drawn0 /\ a.editing \in Drawn0
    /\ a.preedit \in BOOLEAN /\ a.stale \in BOOLEAN

IsCanvas(a) == Shaped(a) /\ CanvasTyped(a) /\ Coherent(a)

LEMMA CanvasFields ==
    /\ \A a \in Annotators : Shaped(a) /\ CanvasTyped(a)
    /\ \A a : Shaped(a) /\ CanvasTyped(a) => a \in Annotators
BY DEF Annotators, Shaped, CanvasTyped, Strokes0, Drawn0

LEMMA SequencesOfStrokes ==
    /\ <<>> \in Strokes0
    /\ \A s \in Strokes0, t \in Strokes : Append(s, t) \in Strokes0 /\ Len(Append(s, t)) = Len(s) + 1
    /\ \A s \in Strokes0 : Len(s) \in Nat
    /\ NoStroke \in Drawn0 /\ \A s \in Strokes : s \in Drawn0
    /\ \A s \in Drawn0 : s # NoStroke => s \in Strokes
BY DEF Strokes0, Drawn0

LEMMA NoStrokeIsNone == NoStroke \notin Strokes /\ \A s \in Strokes : s.tool # "none"
BY DEF NoStroke, Strokes, Tools

(* A stroke, new or with another end, text or look, is a stroke.           *)
LEMMA StrokeFields ==
    ASSUME NEW s \in Strokes
    PROVE  /\ s = [tool |-> s.tool, l |-> s.l, r |-> s.r, text |-> s.text, look |-> s.look]
           /\ s.tool \in Tools /\ s.l \in Int /\ s.r \in Int /\ s.text \in Nat /\ s.look \in Int
           /\ s.l <= s.r
BY DEF Strokes

LEMMA StrokeMade ==
    ASSUME NEW tool \in Tools, NEW l \in Int, NEW r \in Int, NEW text \in Nat, NEW look \in Int,
           l <= r
    PROVE  [tool |-> tool, l |-> l, r |-> r, text |-> text, look |-> look] \in Strokes
<1> DEFINE s == [tool |-> tool, l |-> l, r |-> r, text |-> text, look |-> look]
<1>1. s \in [tool : Tools, l : Int, r : Int, text : Nat, look : Int] /\ s.l = l /\ s.r = r
  OBVIOUS
<1> HIDE DEF s
<1>2. s \in Strokes
  BY <1>1 DEF Strokes
<1> QED
  BY <1>2 DEF s

LEMMA StrokeChanged ==
    ASSUME NEW s \in Strokes
    PROVE  /\ \A l, r \in Int : l <= r => [s EXCEPT !.l = l, !.r = r] \in Strokes
           /\ \A r \in Int : s.l <= r => [s EXCEPT !.r = r] \in Strokes
           /\ \A n \in Nat : [s EXCEPT !.text = n] \in Strokes
           /\ \A look \in Int : [s EXCEPT !.look = look] \in Strokes
<1>1. /\ s = [tool |-> s.tool, l |-> s.l, r |-> s.r, text |-> s.text, look |-> s.look]
      /\ s.tool \in Tools /\ s.l \in Int /\ s.r \in Int /\ s.text \in Nat /\ s.look \in Int
      /\ s.l <= s.r
  BY StrokeFields
<1>2. ASSUME NEW l \in Int, NEW r \in Int, l <= r
      PROVE  [s EXCEPT !.l = l, !.r = r] \in Strokes
  <2> DEFINE q == [s EXCEPT !.l = l]
  <2>1. [s EXCEPT !.l = l, !.r = r] = [q EXCEPT !.r = r]
    OBVIOUS
  <2>2. q = [tool |-> s.tool, l |-> l, r |-> s.r, text |-> s.text, look |-> s.look]
    BY <1>1
  <2> HIDE DEF q
  <2>3. [q EXCEPT !.r = r] = [tool |-> s.tool, l |-> l, r |-> r, text |-> s.text, look |-> s.look]
    BY <2>2
  <2> QED
    BY <1>1, <1>2, <2>1, <2>3, StrokeMade
<1>3. ASSUME NEW r \in Int, s.l <= r PROVE [s EXCEPT !.r = r] \in Strokes
  <2>1. [s EXCEPT !.r = r] =
          [tool |-> s.tool, l |-> s.l, r |-> r, text |-> s.text, look |-> s.look]
    BY <1>1
  <2> QED
    BY <1>1, <1>3, <2>1, StrokeMade
<1>4. ASSUME NEW n \in Nat PROVE [s EXCEPT !.text = n] \in Strokes
  <2>1. [s EXCEPT !.text = n] =
          [tool |-> s.tool, l |-> s.l, r |-> s.r, text |-> n, look |-> s.look]
    BY <1>1
  <2> QED
    BY <1>1, <2>1, StrokeMade
<1>5. ASSUME NEW look \in Int PROVE [s EXCEPT !.look = look] \in Strokes
  <2>1. [s EXCEPT !.look = look] =
          [tool |-> s.tool, l |-> s.l, r |-> s.r, text |-> s.text, look |-> look]
    BY <1>1
  <2> QED
    BY <1>1, <2>1, StrokeMade
<1> QED
  BY <1>2, <1>3, <1>4, <1>5

(* What the operations on a canvas keep.                                   *)
LEMMA NewIsCanvas == IsCanvas(NewAnnotator) /\ NewAnnotator.redo = <<>>
BY SequencesOfStrokes DEF NewAnnotator, IsCanvas, Shaped, CanvasTyped, Coherent, Tools

LEMMA RebuildIsCanvas ==
    ASSUME NEW a, Shaped(a), CanvasTyped(a)
    PROVE  IsCanvas(RebuildCache(a)) /\ RebuildCache(a).redo = a.redo
           /\ RebuildCache(a).strokes = a.strokes
BY DEF RebuildCache, IsCanvas, Shaped, CanvasTyped, Coherent

LEMMA AppendIsCanvas ==
    ASSUME NEW a, IsCanvas(a), NEW s \in Strokes
    PROVE  IsCanvas(AppendStroke(a, s)) /\ AppendStroke(a, s).redo = a.redo
           /\ AppendStroke(a, s).strokes = Append(a.strokes, s)
           /\ AppendStroke(a, s).active = a.active
BY SequencesOfStrokes DEF AppendStroke, IsCanvas, Shaped, CanvasTyped, Coherent

LEMMA RecordIsCanvas ==
    ASSUME NEW a, IsCanvas(a), NEW s \in Strokes
    PROVE  IsCanvas(Record(a, s)) /\ Record(a, s).redo = <<>>
           /\ Record(a, s).strokes = Append(a.strokes, s)
           /\ Record(a, s).active = a.active
BY SequencesOfStrokes DEF Record, AppendStroke, IsCanvas, Shaped, CanvasTyped, Coherent

LEMMA EndIsCanvas ==
    ASSUME NEW a, IsCanvas(a)
    PROVE  IsCanvas(EndEditing(a)) /\ EndEditing(a).redo = a.redo
           /\ EndEditing(a).strokes = a.strokes /\ EndEditing(a).active = a.active
BY SequencesOfStrokes DEF EndEditing, IsCanvas, Shaped, CanvasTyped, Coherent

LEMMA CommitTextIsCanvas ==
    ASSUME NEW a, IsCanvas(a)
    PROVE  IsCanvas(CommitText(a)) /\ (a.redo = <<>> => CommitText(a).redo = <<>>)
           /\ Len(CommitText(a).strokes) >= Len(a.strokes) /\ CommitText(a).active = a.active
<1>1. CASE a.editing # NoStroke /\ a.editing.text > 0
  <2>1. a.editing \in Strokes /\ CommitText(a) = Record(EndEditing(a), a.editing)
    BY <1>1, SequencesOfStrokes DEF CommitText, IsCanvas, CanvasTyped
  <2>2. /\ IsCanvas(EndEditing(a)) /\ EndEditing(a).strokes = a.strokes
        /\ EndEditing(a).active = a.active
    BY EndIsCanvas
  <2>3. /\ IsCanvas(CommitText(a)) /\ CommitText(a).redo = <<>>
        /\ CommitText(a).strokes = Append(a.strokes, a.editing) /\ CommitText(a).active = a.active
    BY <2>1, <2>2, RecordIsCanvas
  <2>4. a.strokes \in Strokes0
    BY DEF IsCanvas, CanvasTyped
  <2> QED
    BY <2>1, <2>3, <2>4, SequencesOfStrokes
<1>2. CASE ~(a.editing # NoStroke /\ a.editing.text > 0)
  BY <1>2, EndIsCanvas, SequencesOfStrokes DEF CommitText, IsCanvas, CanvasTyped
<1> QED
  BY <1>1, <1>2

LEMMA SetToolIsCanvas ==
    ASSUME NEW a, IsCanvas(a), NEW tool \in Tools
    PROVE  IsCanvas(SetTool(a, tool)) /\ (a.redo = <<>> => SetTool(a, tool).redo = <<>>)
           /\ Len(SetTool(a, tool).strokes) >= Len(a.strokes)
<1> DEFINE b == IF tool # "Text" THEN CommitText(a) ELSE a
<1>1. IsCanvas(b) /\ (a.redo = <<>> => b.redo = <<>>) /\ Len(b.strokes) >= Len(a.strokes)
  BY CommitTextIsCanvas, SequencesOfStrokes DEF IsCanvas, CanvasTyped
<1>2. SetTool(a, tool) = [b EXCEPT !.tool = tool]
  BY DEF SetTool
<1> HIDE DEF b
<1> QED
  BY <1>1, <1>2 DEF IsCanvas, Shaped, CanvasTyped, Coherent

LEMMA SetLookIsCanvas ==
    ASSUME NEW a, IsCanvas(a), NEW look \in Int
    PROVE  IsCanvas(SetLook(a, look)) /\ SetLook(a, look).redo = a.redo
           /\ SetLook(a, look).strokes = a.strokes /\ SetLook(a, look).active = a.active
<1> DEFINE s == IF a.editing # NoStroke THEN [a.editing EXCEPT !.look = look] ELSE a.editing
<1>1. s \in Drawn0
  BY StrokeChanged DEF IsCanvas, CanvasTyped, Drawn0
<1>2. SetLook(a, look) = [a EXCEPT !.look = look, !.editing = s]
  BY DEF SetLook, IsCanvas, Shaped
<1> HIDE DEF s
<1> QED
  BY <1>1, <1>2 DEF IsCanvas, Shaped, CanvasTyped, Coherent

LEMMA PressIsCanvas ==
    ASSUME NEW a, IsCanvas(a), NEW x \in Int
    PROVE  IsCanvas(Press(a, x)) /\ (a.redo = <<>> => Press(a, x).redo = <<>>)
           /\ Len(Press(a, x).strokes) >= Len(a.strokes)
<1> DEFINE b == IF a.tool = "Text" THEN CommitText(a) ELSE a
           s == Stroke(a.tool, x, a.look)
<1>1. IsCanvas(b) /\ (a.redo = <<>> => b.redo = <<>>) /\ Len(b.strokes) >= Len(a.strokes)
  BY CommitTextIsCanvas, SequencesOfStrokes DEF IsCanvas, CanvasTyped
<1>2. s \in Drawn0
  <2>1. a.tool \in Tools /\ a.look \in Int /\ x <= x
    BY DEF IsCanvas, CanvasTyped
  <2> QED
    BY <2>1, StrokeMade DEF Stroke, Drawn0
<1>3. \/ Press(a, x) = b
      \/ Press(a, x) = [b EXCEPT !.editing = s]
      \/ Press(a, x) = [b EXCEPT !.active = s, !.start = x]
  BY DEF Press
<1> HIDE DEF b, s
<1> QED
  BY <1>1, <1>2, <1>3 DEF IsCanvas, Shaped, CanvasTyped, Coherent

LEMMA MotionIsCanvas ==
    ASSUME NEW a, IsCanvas(a), NEW x \in Int
    PROVE  IsCanvas(Motion(a, x)) /\ Motion(a, x).redo = a.redo
           /\ Motion(a, x).strokes = a.strokes
           /\ (a.active # NoStroke => Motion(a, x).active \in Strokes)
<1>1. CASE a.active = NoStroke
  BY <1>1 DEF Motion, NoStroke
<1>2. CASE a.active # NoStroke
  <2>1. a.active \in Strokes /\ a.active.tool # "none" /\ a.start \in Int
    BY <1>2, NoStrokeIsNone, SequencesOfStrokes DEF IsCanvas, CanvasTyped
  <2> DEFINE l == IF a.active.tool = "Pen" THEN Smaller(a.active.l, x) ELSE Smaller(a.start, x)
             r == IF a.active.tool = "Pen" THEN Larger(a.active.r, x) ELSE Larger(a.start, x)
             s == [a.active EXCEPT !.l = l, !.r = r]
  <2>2. l \in Int /\ r \in Int /\ l <= r
    BY <2>1, StrokeFields DEF Smaller, Larger
  <2>3. Motion(a, x) = [a EXCEPT !.active = s]
    BY <2>1, StrokeFields DEF Motion, IsCanvas, Shaped
  <2>4. s \in Strokes /\ s \in Drawn0
    BY <2>1, <2>2, StrokeChanged DEF Drawn0
  <2> HIDE DEF s
  <2> QED
    BY <2>3, <2>4, <1>2 DEF IsCanvas, Shaped, CanvasTyped, Coherent
<1> QED
  BY <1>1, <1>2

LEMMA ReleaseIsCanvas ==
    ASSUME NEW a, IsCanvas(a), NEW x \in Int
    PROVE  IsCanvas(Release(a, x)) /\ (a.redo = <<>> => Release(a, x).redo = <<>>)
           /\ Len(Release(a, x).strokes) >= Len(a.strokes)
<1> DEFINE s == (IF a.active.tool = "Pen" THEN a ELSE Motion(a, x)).active
           b == [a EXCEPT !.active = NoStroke, !.start = 0]
<1>0. NoStroke \in Drawn0
  BY SequencesOfStrokes
<1>1. IsCanvas(b) /\ b.redo = a.redo /\ b.strokes = a.strokes
  <2>1. Shaped(b)
    BY DEF IsCanvas, Shaped
  <2>2. /\ b.redo = a.redo /\ b.strokes = a.strokes /\ b.cache = a.cache /\ b.stale = a.stale
        /\ b.active = NoStroke /\ b.editing = a.editing /\ b.preedit = a.preedit
        /\ b.tool = a.tool /\ b.look = a.look /\ b.start = 0
    BY DEF IsCanvas, Shaped
  <2> QED
    BY <1>0, <2>1, <2>2 DEF IsCanvas, CanvasTyped, Coherent
<1>2. a.active # NoStroke => s \in Strokes
  BY MotionIsCanvas, SequencesOfStrokes DEF IsCanvas, CanvasTyped
<1>3. Release(a, x) = IF a.active # NoStroke /\ s.l # s.r THEN Record(b, s) ELSE b
  BY DEF Release
<1> HIDE DEF s, b
<1>4. a.strokes \in Strokes0
  BY DEF IsCanvas, CanvasTyped
<1>5. CASE Release(a, x) = b
  BY <1>1, <1>4, <1>5, SequencesOfStrokes
<1>6. CASE a.active # NoStroke /\ Release(a, x) = Record(b, s)
  <2>1. /\ IsCanvas(Release(a, x)) /\ Release(a, x).redo = <<>>
        /\ Release(a, x).strokes = Append(a.strokes, s)
    BY <1>1, <1>2, <1>6, RecordIsCanvas
  <2> QED
    BY <1>2, <1>4, <1>6, <2>1, SequencesOfStrokes
<1> QED
  BY <1>3, <1>5, <1>6

LEMMA ReplaceTextIsCanvas ==
    ASSUME NEW a, IsCanvas(a), NEW n \in Nat
    PROVE  IsCanvas(ReplaceEditingText(a, n)) /\ ReplaceEditingText(a, n).redo = a.redo
           /\ ReplaceEditingText(a, n).strokes = a.strokes
<1> DEFINE s == [a.editing EXCEPT !.text = n]
<1>1. a.editing # NoStroke => s \in Drawn0
  BY StrokeChanged DEF IsCanvas, CanvasTyped, Drawn0
<1>2. \/ ReplaceEditingText(a, n) = a
      \/ /\ a.editing # NoStroke
         /\ ReplaceEditingText(a, n) = [a EXCEPT !.editing = s, !.preedit = FALSE]
  BY DEF ReplaceEditingText, IsCanvas, Shaped
<1> HIDE DEF s
<1> QED
  BY <1>1, <1>2 DEF IsCanvas, Shaped, CanvasTyped, Coherent

LEMMA ReplaceIsCanvas ==
    ASSUME NEW a, IsCanvas(a), NEW objects \in Seq(Strokes)
    PROVE  IsCanvas(ReplaceObjects(a, objects)) /\ ReplaceObjects(a, objects).redo = <<>>
           /\ ReplaceObjects(a, objects).strokes = objects
           /\ ReplaceObjects(a, objects).active = NoStroke
           /\ ReplaceObjects(a, objects).editing = NoStroke
           /\ ReplaceObjects(a, objects).tool = a.tool
<1>1. objects \in Strokes0
  BY DEF Strokes0
<1> QED
  BY <1>1, SequencesOfStrokes
  DEF ReplaceObjects, EndEditing, RebuildCache, IsCanvas, Shaped, CanvasTyped, Coherent

LEMMA ReplaceObjectIsCanvas ==
    ASSUME NEW a, IsCanvas(a), NEW i, NEW object \in Strokes
    PROVE  IsCanvas(ReplaceObject(a, i, object)) /\ ReplaceObject(a, i, object).redo = a.redo
           /\ Len(ReplaceObject(a, i, object).strokes) = Len(a.strokes)
<1>1. CASE i \in DOMAIN a.strokes
  <2> DEFINE new == [a.strokes EXCEPT ![i] = object]
  <2>1. a.strokes \in Seq(Strokes) /\ i \in 1 .. Len(a.strokes)
    BY <1>1 DEF IsCanvas, CanvasTyped, Strokes0
  <2>2. new \in Strokes0 /\ Len(new) = Len(a.strokes)
    BY <2>1, ExceptSeq DEF Strokes0
  <2>3. \/ ReplaceObject(a, i, object) = a
        \/ ReplaceObject(a, i, object) = [a EXCEPT !.strokes = new, !.stale = TRUE]
    BY DEF ReplaceObject, IsCanvas, Shaped
  <2> HIDE DEF new
  <2> QED
    BY <2>2, <2>3 DEF IsCanvas, Shaped, CanvasTyped, Coherent
<1>2. CASE i \notin DOMAIN a.strokes
  BY <1>2 DEF ReplaceObject
<1> QED
  BY <1>1, <1>2

LEMMA SnapshotIsStrokes ==
    ASSUME NEW a, IsCanvas(a)
    PROVE  SnapshotObjects(a) \in Seq(Strokes) /\ Len(SnapshotObjects(a)) >= Len(a.strokes)
<1> DEFINE one == IF a.active # NoStroke THEN <<a.active>> ELSE <<>>
           two == IF a.editing # NoStroke /\ a.editing.text > 0 THEN <<a.editing>> ELSE <<>>
<1>1. a.strokes \in Seq(Strokes)
  BY DEF IsCanvas, CanvasTyped, Strokes0
<1>2. one \in Seq(Strokes)
  BY SequencesOfStrokes DEF IsCanvas, CanvasTyped
<1>3. two \in Seq(Strokes)
  BY SequencesOfStrokes DEF IsCanvas, CanvasTyped
<1>4. SnapshotObjects(a) = a.strokes \o one \o two
  BY DEF SnapshotObjects
<1> HIDE DEF one, two
<1>5. /\ a.strokes \o one \in Seq(Strokes) /\ Len(a.strokes \o one) = Len(a.strokes) + Len(one)
      /\ Len(one) \in Nat /\ Len(two) \in Nat /\ Len(a.strokes) \in Nat
  BY <1>1, <1>2, <1>3
<1>6. SnapshotObjects(a) \in Seq(Strokes) /\ Len(SnapshotObjects(a)) = Len(a.strokes \o one) + Len(two)
  BY <1>3, <1>4, <1>5
<1> QED
  BY <1>5, <1>6

(* What is drawn is what is there.                                         *)
LEMMA DrawnIsThere ==
    ASSUME NEW a, IsCanvas(a)
    PROVE  Draw(a) = SnapshotObjects(a)
BY DEF Draw, Finished, SnapshotObjects, IsCanvas, Coherent

-----------------------------------------------------------------------------
(* The invariant of the window.                                            *)

DocTyped(d) ==
    /\ d = [field \in {"revision", "saved", "copied", "cache", "state"} |-> d[field]]
    /\ d.revision \in Nat /\ d.saved \in Nat /\ d.copied \in Nat
    /\ d.state \in EditStates /\ d.cache \in {None, d.state}

DraftOfDoc ==
    /\ DocTyped(edDoc) /\ DraftTyped(edDraft)
    /\ edDraft.initial = edDoc.state /\ edDraft.base = edDoc.revision

CanvasOfDraft ==
    /\ IsCanvas(edCanvas) /\ edCanvas.redo = <<>>
    /\ edSelected \in 0 .. Len(edCanvas.strokes)

HandTyped ==
    /\ edMode \in {"select", "crop"} \union EditorTools
    /\ edDrag \in [index : Nat, original : Strokes, start : Points, resize : BOOLEAN] \union {None}
    /\ edCropDrag \in [from : Points, to : Points] \union {None}
    /\ edEntry \in Hidden .. MaxText + 1
    /\ {edDown, edOpen, edAsking, edDiscard, edViewer} \subseteq BOOLEAN
    /\ edActs \in 0 .. MaxActs

EditInv == DraftOfDoc /\ CanvasOfDraft /\ HandTyped

LEMMA EditStateFacts ==
    ASSUME NEW s \in EditStates
    PROVE  /\ s.objects \in Seq(Strokes) /\ ObjectsValid(s.objects)
           /\ s.crop.l \in Points /\ s.crop.r \in Points /\ s.crop.l < s.crop.r
           /\ \A objects \in Seq(Strokes) : ObjectsValid(objects) =>
                /\ [s EXCEPT !.objects = objects] \in EditStates
                /\ [s EXCEPT !.objects = objects].objects = objects
                /\ [s EXCEPT !.objects = objects].crop = s.crop
           /\ \A crop \in [l : Points, r : Points] : crop.l < crop.r =>
                [s EXCEPT !.crop = crop] \in EditStates
<1>1. /\ s \in [objects : Seq(Strokes), crop : [l : Int, r : Int]]
      /\ ObjectsValid(s.objects) /\ CropValid(s.crop)
  BY DEF EditStates, StateValid
<1>2. s.crop.l \in Points /\ s.crop.r \in Points /\ s.crop.l < s.crop.r
  BY <1>1, HistoryAssumption DEF CropValid, Points
<1>3. ASSUME NEW objects \in Seq(Strokes), ObjectsValid(objects)
      PROVE  /\ [s EXCEPT !.objects = objects] \in EditStates
             /\ [s EXCEPT !.objects = objects].objects = objects
             /\ [s EXCEPT !.objects = objects].crop = s.crop
  <2> DEFINE t == [s EXCEPT !.objects = objects]
  <2>1. t \in [objects : Seq(Strokes), crop : [l : Int, r : Int]] /\ t.objects = objects /\ t.crop = s.crop
    BY <1>1
  <2> HIDE DEF t
  <2>2. t \in EditStates
    BY <1>1, <1>3, <2>1 DEF EditStates, StateValid
  <2> QED
    BY <2>1, <2>2 DEF t
<1>4. ASSUME NEW crop \in [l : Points, r : Points], crop.l < crop.r
      PROVE  [s EXCEPT !.crop = crop] \in EditStates
  <2> DEFINE t == [s EXCEPT !.crop = crop]
  <2>1. crop \in [l : Int, r : Int] /\ CropValid(crop)
    BY <1>4, HistoryAssumption DEF CropValid, Points
  <2>2. t \in [objects : Seq(Strokes), crop : [l : Int, r : Int]] /\ t.objects = s.objects /\ t.crop = crop
    BY <1>1, <2>1
  <2> HIDE DEF t
  <2>3. t \in EditStates
    BY <1>1, <2>1, <2>2 DEF EditStates, StateValid
  <2> QED
    BY <2>3 DEF t
<1> QED
  BY <1>1, <1>2, <1>3, <1>4

(* The draft that a commit of the canvas leaves, and its canvas.           *)
LEMMA CommitFacts ==
    ASSUME NEW canvas, IsCanvas(canvas), NEW draft, DraftTyped(draft), CommitsTo(canvas, draft).ok
    PROVE  /\ \E state \in EditStates :
                /\ CommitsTo(canvas, draft).draft = RecordState(draft, state)
                /\ state.objects = CommitsTo(canvas, draft).canvas.strokes
           /\ DraftTyped(CommitsTo(canvas, draft).draft)
           /\ CommitsTo(canvas, draft).draft.base = draft.base
           /\ CommitsTo(canvas, draft).draft.initial = draft.initial
           /\ CommitsTo(canvas, draft).draft.state.objects = CommitsTo(canvas, draft).canvas.strokes
           /\ IsCanvas(CommitsTo(canvas, draft).canvas)
           /\ CommitsTo(canvas, draft).canvas.redo = <<>>
           /\ Len(CommitsTo(canvas, draft).canvas.strokes) >= Len(canvas.strokes)
           /\ ObjectsValid(CommitsTo(canvas, draft).canvas.strokes)
<1> DEFINE objects == SnapshotObjects(canvas)
           state == [draft.state EXCEPT !.objects = objects]
           c == CommitsTo(canvas, draft)
<1>1. /\ c.draft = RecordState(draft, state) /\ c.canvas = ReplaceObjects(canvas, objects)
      /\ ObjectsValid(objects)
  BY DEF CommitsTo, SetObjects
<1>2. objects \in Seq(Strokes) /\ Len(objects) >= Len(canvas.strokes)
  BY SnapshotIsStrokes
<1>3. draft.state \in EditStates
  BY DEF DraftTyped
<1> HIDE DEF objects, c
<1>4. state \in EditStates /\ state.objects = objects
  BY <1>1, <1>2, <1>3, EditStateFacts
<1> HIDE DEF state
<1>5. /\ IsCanvas(c.canvas) /\ c.canvas.redo = <<>> /\ c.canvas.strokes = objects
  BY <1>1, <1>2, ReplaceIsCanvas
<1>6. /\ DraftTyped(c.draft) /\ c.draft.base = draft.base /\ c.draft.initial = draft.initial
      /\ c.draft.state = state
  BY <1>1, <1>4, RecordDraft
<1> QED
  BY <1>1, <1>2, <1>4, <1>5, <1>6 DEF c

LEMMA RebuiltFacts ==
    ASSUME IsCanvas(edCanvas), NEW draft, DraftTyped(draft)
    PROVE  IsCanvas(Rebuilt(draft)) /\ Rebuilt(draft).redo = <<>>
           /\ Len(Rebuilt(draft).strokes) \in Nat
<1> DEFINE b == DraftAnnotator(draft)
<1>1. draft.state.objects \in Seq(Strokes)
  BY EditStateFacts DEF DraftTyped
<1>2. IsCanvas(BeginCanvas(NewAnnotator))
  BY NewIsCanvas, RebuildIsCanvas DEF BeginCanvas, IsCanvas
<1>3. IsCanvas(b) /\ b.redo = <<>>
  BY <1>1, <1>2, ReplaceIsCanvas DEF DraftAnnotator
<1>4. Rebuilt(draft) = [b EXCEPT !.tool = edCanvas.tool, !.look = edCanvas.look]
  BY DEF Rebuilt
<1> HIDE DEF b
<1>5. IsCanvas(Rebuilt(draft)) /\ Rebuilt(draft).redo = <<>>
  BY <1>3, <1>4 DEF IsCanvas, Shaped, CanvasTyped, Coherent
<1> QED
  BY <1>5, SequencesOfStrokes DEF IsCanvas, CanvasTyped

LEMMA ClampInPoints ==
    ASSUME DraftTyped(edDraft), NEW p \in Points
    PROVE  Clamp(p) \in Points
<1>1. edDraft.state.crop.l \in Points /\ edDraft.state.crop.r \in Points
  BY EditStateFacts DEF DraftTyped
<1> QED
  BY <1>1, HistoryAssumption DEF Clamp, Larger, Smaller, Points

(* The greatest of some places in a list is one of them.                   *)
LEMMA GreatestIsOne ==
    ASSUME NEW n \in Nat, NEW T \in SUBSET (1 .. n), T # {}
    PROVE  Max(T) \in T
<1> DEFINE D == {n - i : i \in T}
<1>1. D \in SUBSET Nat /\ D # {}
  <2>1. \A i \in T : n - i \in Nat
    OBVIOUS
  <2>2. PICK i \in T : TRUE
    OBVIOUS
  <2> QED
    BY <2>1, <2>2
<1> HIDE DEF D
<1>2. PICK d \in D : \A e \in D : d <= e
  BY <1>1, LeastNat
<1>3. PICK i \in T : d = n - i
  BY <1>2 DEF D
<1>4. \A j \in T : i >= j
  <2> TAKE j \in T
  <2>1. n - j \in D
    BY DEF D
  <2>2. n - i <= n - j
    BY <1>2, <1>3, <2>1
  <2> QED
    BY <2>2
<1> QED
  BY <1>3, <1>4 DEF Max

LEMMA HitIsPlace ==
    ASSUME NEW objects \in Seq(Strokes), NEW x
    PROVE  HitTest(objects, x) \in 0 .. Len(objects)
<1> DEFINE under == {i \in DOMAIN objects : Covers(objects[i], x)}
           covers == {i \in under : objects[i].tool = "Cover"}
           T == IF covers # {} THEN covers ELSE under
<1>1. Len(objects) \in Nat /\ DOMAIN objects = 1 .. Len(objects)
  BY LenProperties
<1>2. CASE under = {}
  BY <1>1, <1>2 DEF HitTest
<1>3. CASE under # {}
  <2>1. T \in SUBSET (1 .. Len(objects)) /\ T # {}
    BY <1>1, <1>3
  <2>2. HitTest(objects, x) = Max(T)
    BY <1>3 DEF HitTest
  <2> HIDE DEF T
  <2>3. Max(T) \in T
    BY <1>1, <2>1, GreatestIsOne
  <2>4. PICK i \in 1 .. Len(objects) : i = HitTest(objects, x)
    BY <2>1, <2>2, <2>3
  <2> QED
    BY <1>1, <2>4
<1> QED
  BY <1>2, <1>3

-----------------------------------------------------------------------------
(* The steps of the window.                                                *)

(* What a step leaves that keeps the draft, commits the canvas to it, or   *)
(* commits it if it can.                                                   *)
LEMMA SameDraft ==
    ASSUME DraftOfDoc, edDoc' = edDoc, edDraft' = edDraft
    PROVE  DraftOfDoc' /\ Walked
BY DEF DraftOfDoc, DocTyped, DraftTyped, Walked, Timeline!tlVars

LEMMA CommitStep ==
    ASSUME DraftOfDoc, NEW canvas, IsCanvas(canvas), CommitsTo(canvas, edDraft).ok,
           edDoc' = edDoc, edDraft' = CommitsTo(canvas, edDraft).draft
    PROVE  DraftOfDoc' /\ Walked
<1>1. DraftTyped(edDraft)
  BY DEF DraftOfDoc
<1>2. PICK state \in EditStates :
        /\ edDraft' = RecordState(edDraft, state)
        /\ DraftTyped(edDraft') /\ edDraft'.base = edDraft.base /\ edDraft'.initial = edDraft.initial
  BY <1>1, CommitFacts
<1>3. Walked
  BY <1>1, <1>2, RecordWalks DEF SameHistory
<1>4. DraftOfDoc'
  BY <1>2 DEF DraftOfDoc, DocTyped, DraftTyped
<1> QED
  BY <1>3, <1>4

LEMMA SaveStep ==
    ASSUME DraftOfDoc, NEW canvas, IsCanvas(canvas), canvas.redo = <<>>, edDoc' = edDoc,
           edDraft' = IF CommitsTo(canvas, edDraft).ok THEN CommitsTo(canvas, edDraft).draft
                      ELSE edDraft,
           edCanvas' = IF CommitsTo(canvas, edDraft).ok THEN CommitsTo(canvas, edDraft).canvas
                       ELSE canvas
    PROVE  /\ DraftOfDoc' /\ Walked /\ IsCanvas(edCanvas)' /\ edCanvas'.redo = <<>>
           /\ Len(edCanvas'.strokes) >= Len(canvas.strokes)
<1>1. DraftTyped(edDraft) /\ Len(canvas.strokes) \in Nat
  BY SMTT(25), SequencesOfStrokes DEF DraftOfDoc, IsCanvas, CanvasTyped
<1>2. CASE CommitsTo(canvas, edDraft).ok
  <2>1. DraftOfDoc' /\ Walked
    BY <1>2, CommitStep
  <2>2. /\ IsCanvas(edCanvas') /\ edCanvas'.redo = <<>>
        /\ Len(edCanvas'.strokes) >= Len(canvas.strokes)
    BY <1>1, <1>2, CommitFacts
  <2> QED
    BY <2>1, <2>2 DEF IsCanvas, CanvasTyped, Shaped, Coherent
<1>3. CASE ~CommitsTo(canvas, edDraft).ok
  <2>1. DraftOfDoc' /\ Walked
    BY <1>3, SameDraft
  <2> QED
    BY <1>1, <1>3, <2>1 DEF IsCanvas, CanvasTyped, Shaped, Coherent
<1> QED
  BY <1>2, <1>3

LEMMA StillSelected ==
    ASSUME CanvasOfDraft, IsCanvas(edCanvas)', edCanvas'.redo = <<>>,
           Len(edCanvas'.strokes) >= Len(edCanvas.strokes), edSelected' \in {0, edSelected}
    PROVE  CanvasOfDraft'
<1>1. Len(edCanvas.strokes) \in Nat /\ Len(edCanvas'.strokes) \in Nat
  BY SequencesOfStrokes DEF CanvasOfDraft, IsCanvas, CanvasTyped
<1> QED
  BY <1>1 DEF CanvasOfDraft

LEMMA RebuildStep ==
    ASSUME EditInv, NEW draft, DraftTyped(draft), Rebuild(draft)
    PROVE  CanvasOfDraft' /\ DraftTyped(edDraft)' /\ edEntry' = Hidden
<1>1. IsCanvas(Rebuilt(draft)) /\ Rebuilt(draft).redo = <<>> /\ Len(Rebuilt(draft).strokes) \in Nat
  BY RebuiltFacts DEF EditInv, CanvasOfDraft
<1>2. edCanvas' = Rebuilt(draft) /\ edDraft' = draft /\ edSelected' = 0 /\ edEntry' = Hidden
  BY DEF Rebuild
<1>3. IsCanvas(edCanvas)'
  BY <1>1, <1>2 DEF IsCanvas, CanvasTyped, Shaped, Coherent
<1>4. DraftTyped(edDraft)'
  BY <1>2 DEF DraftTyped
<1> QED
  BY <1>1, <1>2, <1>3, <1>4 DEF CanvasOfDraft

LEMMA ActCounts ==
    ASSUME HandTyped, Act
    PROVE  edActs' \in 0 .. MaxActs
BY EditorAssumption DEF HandTyped, Act

(* The steps of the pointer.                                               *)
LEMMA PressCanvasStep ==
    ASSUME EditInv, NEW p \in Points, NEW double \in BOOLEAN, PressCanvas(p, double)
    PROVE  EditInv' /\ Walked
<1> DEFINE x == Clamp(p)
           c == Committed.canvas
<1>1. /\ DraftTyped(edDraft) /\ IsCanvas(edCanvas) /\ edCanvas.redo = <<>>
      /\ DraftOfDoc /\ CanvasOfDraft /\ HandTyped
  BY DEF EditInv, DraftOfDoc, CanvasOfDraft
<1>2. x \in Points /\ x \in Int
  BY <1>1, ClampInPoints, HistoryAssumption DEF Points
<1>3. edActs' \in 0 .. MaxActs /\ edDown' = TRUE
  BY <1>1, ActCounts DEF PressCanvas
<1>4. UNCHANGED <<edDoc, edMode, edOpen, edAsking, edDiscard, edViewer>>
  BY DEF PressCanvas
<1>5. CASE ~Committed.ok
  <2>1. UNCHANGED <<edDraft, edCanvas, edSelected, edDrag, edCropDrag, edEntry>>
    BY <1>5 DEF PressCanvas
  <2>2. DraftOfDoc' /\ Walked
    BY <1>1, <1>4, <2>1, SameDraft
  <2>3. CanvasOfDraft'
    BY <1>1, <2>1 DEF CanvasOfDraft, IsCanvas, CanvasTyped, Shaped, Coherent
  <2>4. HandTyped'
    BY <1>1, <1>3, <1>4, <2>1 DEF HandTyped
  <2> QED
    BY <2>2, <2>3, <2>4 DEF EditInv
<1>6. CASE Committed.ok
  <2>1. /\ edDraft' = Committed.draft
        /\ \/ edMode = "crop" /\ PressCrop(x)
           \/ edMode = "select" /\ PressSelect(x, double)
           \/ edMode \notin {"crop", "select"} /\ PressDraw(x)
    BY <1>6 DEF PressCanvas
  <2>2. DraftOfDoc' /\ Walked
    BY <1>1, <1>4, <1>6, <2>1, CommitStep DEF Committed
  <2>3. /\ IsCanvas(c) /\ c.redo = <<>> /\ ObjectsValid(c.strokes)
        /\ Len(c.strokes) >= Len(edCanvas.strokes)
    BY <1>1, <1>6, CommitFacts DEF Committed
  <2> HIDE DEF x, c
  <2>4. c.strokes \in Seq(Strokes) /\ Len(c.strokes) \in Nat
    BY <2>3, SequencesOfStrokes DEF IsCanvas, CanvasTyped, Strokes0
  <2>5. CASE edMode = "crop" /\ PressCrop(x)
    <3>1. /\ edCropDrag' = [from |-> x, to |-> x] /\ edSelected' = 0 /\ edEntry' = Hidden
          /\ edCanvas' = c /\ edDrag' = edDrag
      BY <2>5 DEF PressCrop, c
    <3>2. CanvasOfDraft'
      BY <2>3, <2>4, <3>1 DEF CanvasOfDraft, IsCanvas, CanvasTyped, Shaped, Coherent
    <3>3. HandTyped'
      BY <1>1, <1>2, <1>3, <1>4, <3>1, LimitsAssumption DEF HandTyped, Hidden
    <3> QED
      BY <2>2, <3>2, <3>3 DEF EditInv
  <2>6. CASE edMode = "select" /\ PressSelect(x, double)
    <3> DEFINE objects == c.strokes
               resize == AtCorner(objects, x)
               hit == IF resize THEN edSelected ELSE HitTest(objects, x)
               object == objects[hit]
               edits == hit # 0 /\ double /\ object.tool = "Text"
    <3>1. /\ edSelected' = hit /\ edCanvas' = c /\ edCropDrag' = edCropDrag
          /\ edEntry' = IF edits THEN object.text ELSE Hidden
          /\ edDrag' = IF hit # 0 /\ ~edits
                       THEN [index |-> hit, original |-> object, start |-> x, resize |-> resize]
                       ELSE edDrag
      BY <2>6 DEF PressSelect, c
    <3>2. hit \in 0 .. Len(objects) /\ resize \in BOOLEAN
      <4>1. HitTest(objects, x) \in 0 .. Len(objects)
        BY <2>4, HitIsPlace
      <4>2. resize => edSelected \in 0 .. Len(objects)
        BY <2>4 DEF AtCorner
      <4> QED
        BY <4>1, <4>2 DEF AtCorner
    <3> HIDE DEF hit, resize
    <3>3. hit # 0 => object \in Strokes /\ object.text \in 0 .. MaxText
      <4> SUFFICES ASSUME hit # 0 PROVE object \in Strokes /\ object.text \in 0 .. MaxText
        OBVIOUS
      <4>1. hit \in 1 .. Len(objects) /\ hit \in DOMAIN objects
        BY <2>4, <3>2
      <4>2. object \in Strokes
        BY <2>4, <4>1, ElementOfSeq
      <4>3. object.text <= MaxText /\ object.text \in Nat
        BY <2>3, <4>1, <4>2 DEF ObjectsValid, Strokes
      <4> QED
        BY <4>2, <4>3, LimitsAssumption
    <3> HIDE DEF objects, object
    <3>4. CanvasOfDraft'
      BY <2>3, <2>4, <3>1, <3>2 DEF CanvasOfDraft, IsCanvas, CanvasTyped, Shaped, Coherent, objects
    <3>5. edEntry' \in Hidden .. MaxText + 1
      BY <3>1, <3>3, LimitsAssumption DEF Hidden
    <3>6. edDrag' \in [index : Nat, original : Strokes, start : Points, resize : BOOLEAN] \union {None}
      <4>1. CASE hit # 0 /\ ~edits
        <5>1. hit \in Nat /\ object \in Strokes
          BY <2>4, <3>2, <3>3, <4>1
        <5> QED
          BY <1>2, <3>1, <3>2, <4>1, <5>1
      <4>2. CASE ~(hit # 0 /\ ~edits)
        BY <1>1, <3>1, <4>2 DEF HandTyped
      <4> QED
        BY <4>1, <4>2
    <3>7. HandTyped'
      BY <1>1, <1>3, <1>4, <3>1, <3>5, <3>6 DEF HandTyped
    <3> QED
      BY <2>2, <3>4, <3>7 DEF EditInv
  <2>7. CASE edMode \notin {"crop", "select"} /\ PressDraw(x)
    <3>1. /\ edSelected' = 0 /\ edCanvas' = Press(c, x)
          /\ edEntry' \in {0, Hidden} /\ edDrag' = edDrag /\ edCropDrag' = edCropDrag
      BY <2>7 DEF PressDraw, c
    <3>2. IsCanvas(edCanvas') /\ edCanvas'.redo = <<>> /\ Len(edCanvas'.strokes) >= Len(c.strokes)
      BY <1>2, <2>3, <3>1, PressIsCanvas
    <3>3. IsCanvas(edCanvas)'
      BY <3>2 DEF IsCanvas, CanvasTyped, Shaped, Coherent
    <3>4. Len(edCanvas'.strokes) >= Len(edCanvas.strokes)
      <4>1. Len(edCanvas.strokes) \in Nat /\ Len(edCanvas'.strokes) \in Nat
        BY <1>1, <3>2, SequencesOfStrokes DEF IsCanvas, CanvasTyped
      <4> QED
        BY <2>3, <2>4, <3>2, <4>1
    <3>5. CanvasOfDraft'
      BY <1>1, <3>1, <3>2, <3>3, <3>4, StillSelected
    <3>6. HandTyped'
      BY <1>1, <1>3, <1>4, <3>1, LimitsAssumption DEF HandTyped, Hidden
    <3> QED
      BY <2>2, <3>5, <3>6 DEF EditInv
  <2> QED
    BY <2>1, <2>5, <2>6, <2>7
<1> QED
  BY <1>5, <1>6

LEMMA TransformedIsStroke ==
    ASSUME NEW drag \in [index : Nat, original : Strokes, start : Points, resize : BOOLEAN],
           NEW x \in Points
    PROVE  Transformed(drag, x) \in Strokes
<1> DEFINE object == drag.original
           delta == x - drag.start
           width == object.r - object.l
<1>1. /\ object \in Strokes /\ object.l \in Int /\ object.r \in Int /\ object.l <= object.r
      /\ delta \in Int /\ width \in Nat
  BY StrokeFields, HistoryAssumption DEF Points
<1>2. /\ object.l + delta \in Int /\ object.r + delta \in Int
      /\ object.l + delta <= object.r + delta
      /\ object.l + Larger(1, width + delta) \in Int
      /\ object.l <= object.l + Larger(1, width + delta)
      /\ object.l + width = object.r /\ ~(width > 0) => width = 0
  BY <1>1 DEF Larger
<1>3. \/ Transformed(drag, x) = [object EXCEPT !.l = object.l + delta, !.r = object.r + delta]
      \/ Transformed(drag, x) = [object EXCEPT !.r = object.l + Larger(1, width + delta)]
      \/ Transformed(drag, x) = object
  <2>1. object = [tool |-> object.tool, l |-> object.l, r |-> object.r, text |-> object.text,
                  look |-> object.look]
    BY StrokeFields
  <2> QED
    BY <1>1, <2>1 DEF Transformed
<1> HIDE DEF object, delta, width
<1>4. \A l, r \in Int : l <= r => [object EXCEPT !.l = l, !.r = r] \in Strokes
  BY <1>1, StrokeChanged
<1>5. \A r \in Int : object.l <= r => [object EXCEPT !.r = r] \in Strokes
  BY <1>1, StrokeChanged
<1>6. [object EXCEPT !.l = object.l + delta, !.r = object.r + delta] \in Strokes
  BY <1>2, <1>4
<1>7. [object EXCEPT !.r = object.l + Larger(1, width + delta)] \in Strokes
  BY <1>2, <1>5
<1> QED
  BY <1>1, <1>3, <1>6, <1>7

LEMMA MovedFacts ==
    ASSUME EditInv, NEW x \in Points
    PROVE  IsCanvas(Moved(x)) /\ Moved(x).redo = <<>>
           /\ Len(Moved(x).strokes) = Len(edCanvas.strokes)
<1>1. IsCanvas(edCanvas) /\ edCanvas.redo = <<>> /\ x \in Int
  BY HistoryAssumption DEF EditInv, CanvasOfDraft, Points
<1>2. CASE edDrag # None
  <2>1. edDrag \in [index : Nat, original : Strokes, start : Points, resize : BOOLEAN]
    BY <1>2 DEF EditInv, HandTyped
  <2>2. Transformed(edDrag, x) \in Strokes
    BY <2>1, TransformedIsStroke
  <2>3. Moved(x) = ReplaceObject(edCanvas, edDrag.index, Transformed(edDrag, x))
    BY <1>2 DEF Moved
  <2> QED
    BY <1>1, <2>2, <2>3, ReplaceObjectIsCanvas
<1>3. CASE edDrag = None
  <2>1. Moved(x) = edCanvas \/ Moved(x) = Motion(edCanvas, x)
    BY <1>3 DEF Moved
  <2> QED
    BY <1>1, <2>1, MotionIsCanvas
<1> QED
  BY <1>2, <1>3

LEMMA MoveCanvasStep ==
    ASSUME EditInv, NEW p \in Points, MoveCanvas(p)
    PROVE  EditInv' /\ Walked
<1> DEFINE x == Clamp(p)
<1>1. x \in Points
  BY ClampInPoints DEF EditInv, DraftOfDoc
<1>2. /\ edCanvas' = Moved(x)
      /\ edCropDrag' = IF edDrag = None /\ edCropDrag # None THEN [edCropDrag EXCEPT !.to = x]
                       ELSE edCropDrag
      /\ UNCHANGED <<edDoc, edDraft, edMode, edSelected, edDrag, edEntry, edDown, edOpen,
                     edAsking, edDiscard, edViewer, edActs>>
  BY DEF MoveCanvas
<1> HIDE DEF x
<1>3. DraftOfDoc' /\ Walked
  BY <1>2, SameDraft DEF EditInv
<1>4. IsCanvas(edCanvas') /\ edCanvas'.redo = <<>> /\ Len(edCanvas'.strokes) = Len(edCanvas.strokes)
  BY <1>1, <1>2, MovedFacts
<1>5. CanvasOfDraft'
  <2>1. IsCanvas(edCanvas)' /\ edSelected' = edSelected
    BY <1>2, <1>4 DEF IsCanvas, CanvasTyped, Shaped, Coherent
  <2> QED
    BY <1>4, <2>1 DEF CanvasOfDraft, EditInv
<1>6. edCropDrag' \in [from : Points, to : Points] \union {None}
  BY <1>1, <1>2 DEF EditInv, HandTyped
<1>7. HandTyped'
  BY <1>2, <1>6 DEF EditInv, HandTyped
<1> QED
  BY <1>3, <1>5, <1>7 DEF EditInv

LEMMA ReleaseCanvasStep ==
    ASSUME EditInv, NEW p \in Points, ReleaseCanvas(p)
    PROVE  EditInv' /\ Walked
<1> DEFINE x == Clamp(p)
<1>1. /\ DraftTyped(edDraft) /\ IsCanvas(edCanvas) /\ edCanvas.redo = <<>>
      /\ DraftOfDoc /\ CanvasOfDraft /\ HandTyped
  BY DEF EditInv, DraftOfDoc, CanvasOfDraft
<1>2. x \in Points /\ x \in Int
  BY <1>1, ClampInPoints, HistoryAssumption DEF Points
<1>3. /\ UNCHANGED <<edDoc, edMode, edOpen, edAsking, edDiscard, edViewer, edActs>>
      /\ edDown' = FALSE
      /\ ReleaseDrag(x) \/ ReleaseCrop(x) \/ ReleaseDraw(x) \/ ReleaseNothing
  BY DEF ReleaseCanvas
<1> HIDE DEF x
<1>4. Len(edCanvas.strokes) \in Nat
  BY <1>1, SequencesOfStrokes DEF IsCanvas, CanvasTyped
<1>5. CASE ReleaseDrag(x)
  <2> DEFINE moved == Moved(x)
  <2>1. /\ edDrag' = None
        /\ edCanvas' = IF CommitsTo(moved, edDraft).ok THEN CommitsTo(moved, edDraft).canvas
                       ELSE moved
        /\ edDraft' = IF CommitsTo(moved, edDraft).ok THEN CommitsTo(moved, edDraft).draft
                      ELSE edDraft
        /\ UNCHANGED <<edSelected, edEntry, edCropDrag>>
    BY <1>5 DEF ReleaseDrag
  <2>2. IsCanvas(moved) /\ moved.redo = <<>> /\ Len(moved.strokes) = Len(edCanvas.strokes)
    BY <1>2, MovedFacts
  <2> HIDE DEF moved
  <2>3. /\ DraftOfDoc' /\ Walked /\ IsCanvas(edCanvas)' /\ edCanvas'.redo = <<>>
        /\ Len(edCanvas'.strokes) >= Len(moved.strokes)
    BY <1>1, <1>3, <2>1, <2>2, SaveStep
  <2>4. CanvasOfDraft'
    BY <1>1, <2>1, <2>2, <2>3, StillSelected
  <2>5. HandTyped'
    BY <1>1, <1>3, <2>1 DEF HandTyped
  <2> QED
    BY <2>3, <2>4, <2>5 DEF EditInv
<1>6. CASE ReleaseCrop(x)
  <2> DEFINE crop == [l |-> Smaller(edCropDrag.from, x), r |-> Larger(edCropDrag.from, x)]
  <2>1. /\ edDrag' = edDrag /\ edCropDrag' = None
        /\ \/ crop.l < crop.r /\ Rebuild(SetCrop(edDraft, crop))
           \/ UNCHANGED <<edDraft, edCanvas, edSelected, edEntry>>
    BY <1>6 DEF ReleaseCrop
  <2>2. crop \in [l : Points, r : Points]
    <3>1. edCropDrag \in [from : Points, to : Points]
      BY <1>1, <1>6 DEF ReleaseCrop, HandTyped
    <3>2. edCropDrag.from \in Points
      BY <3>1
    <3> QED
      BY <1>2, <3>2 DEF Smaller, Larger, Points
  <2> HIDE DEF crop
  <2>3. CASE crop.l < crop.r /\ Rebuild(SetCrop(edDraft, crop))
    <3> DEFINE state == [edDraft.state EXCEPT !.crop = crop]
               draft == RecordState(edDraft, state)
    <3>1. state \in EditStates
      BY <1>1, <2>2, <2>3, EditStateFacts DEF DraftTyped
    <3> HIDE DEF state
    <3>2. DraftTyped(draft) /\ draft.base = edDraft.base /\ draft.initial = edDraft.initial
      BY <1>1, <3>1, RecordDraft
    <3>3. Rebuild(draft) /\ edDraft' = draft
      BY <2>3 DEF SetCrop, Rebuild, state
    <3>4. Walked
      BY <1>1, <3>1, <3>3, RecordWalks DEF SameHistory
    <3> HIDE DEF draft
    <3>5. CanvasOfDraft' /\ DraftTyped(edDraft)' /\ edEntry' = Hidden
      BY <3>2, <3>3, RebuildStep
    <3>6. DraftOfDoc'
      BY <1>1, <1>3, <3>2, <3>3, <3>5 DEF DraftOfDoc, DocTyped
    <3>7. HandTyped'
      <4>1. edEntry' \in Hidden .. MaxText + 1
        BY <3>5, LimitsAssumption DEF Hidden
      <4>2. edDrag' = edDrag /\ edCropDrag' = None
        BY <2>1
      <4> QED
        BY <1>1, <1>3, <4>1, <4>2 DEF HandTyped
    <3> QED
      BY <3>4, <3>5, <3>6, <3>7 DEF EditInv
  <2>4. CASE UNCHANGED <<edDraft, edCanvas, edSelected, edEntry>>
    <3>1. DraftOfDoc' /\ Walked
      BY <1>1, <1>3, <2>4, SameDraft
    <3>2. IsCanvas(edCanvas)' /\ CanvasOfDraft'
      BY <1>1, <2>4 DEF CanvasOfDraft, IsCanvas, CanvasTyped, Shaped, Coherent
    <3>3. HandTyped'
      BY <1>1, <1>3, <2>1, <2>4 DEF HandTyped
    <3> QED
      BY <3>1, <3>2, <3>3 DEF EditInv
  <2> QED
    BY <2>1, <2>3, <2>4
<1>7. CASE ReleaseDraw(x)
  <2> DEFINE drawn == Release(edCanvas, x)
  <2>1. /\ edCanvas' = IF CommitsTo(drawn, edDraft).ok THEN CommitsTo(drawn, edDraft).canvas
                       ELSE drawn
        /\ edDraft' = IF CommitsTo(drawn, edDraft).ok THEN CommitsTo(drawn, edDraft).draft
                      ELSE edDraft
        /\ UNCHANGED <<edSelected, edEntry, edDrag, edCropDrag>>
    BY <1>7 DEF ReleaseDraw
  <2>2. IsCanvas(drawn) /\ drawn.redo = <<>> /\ Len(drawn.strokes) >= Len(edCanvas.strokes)
    BY <1>1, <1>2, ReleaseIsCanvas
  <2> HIDE DEF drawn
  <2>3. /\ DraftOfDoc' /\ Walked /\ IsCanvas(edCanvas)' /\ edCanvas'.redo = <<>>
        /\ Len(edCanvas'.strokes) >= Len(drawn.strokes)
    BY <1>1, <1>3, <2>1, <2>2, SaveStep
  <2>4. Len(edCanvas'.strokes) >= Len(edCanvas.strokes)
    <3>1. Len(drawn.strokes) \in Nat /\ Len(edCanvas'.strokes) \in Nat
      BY <2>2, <2>3, SequencesOfStrokes DEF IsCanvas, CanvasTyped
    <3> QED
      BY <1>4, <2>2, <2>3, <3>1
  <2>5. CanvasOfDraft'
    BY <1>1, <2>1, <2>3, <2>4, StillSelected
  <2>6. HandTyped'
    BY <1>1, <1>3, <2>1 DEF HandTyped
  <2> QED
    BY <2>3, <2>5, <2>6 DEF EditInv
<1>8. CASE ReleaseNothing
  <2>1. UNCHANGED <<edDraft, edCanvas, edSelected, edEntry, edDrag, edCropDrag>>
    BY <1>8 DEF ReleaseNothing
  <2>2. DraftOfDoc' /\ Walked
    BY <1>1, <1>3, <2>1, SameDraft
  <2>3. CanvasOfDraft'
    BY <1>1, <2>1 DEF CanvasOfDraft, IsCanvas, CanvasTyped, Shaped, Coherent
  <2>4. HandTyped'
    BY <1>1, <1>3, <2>1 DEF HandTyped
  <2> QED
    BY <2>2, <2>3, <2>4 DEF EditInv
<1> QED
  BY <1>3, <1>5, <1>6, <1>7, <1>8

LEMMA SameCanvas ==
    ASSUME CanvasOfDraft, edCanvas' = edCanvas, edSelected' \in {0, edSelected}
    PROVE  CanvasOfDraft'
<1>1. Len(edCanvas.strokes) \in Nat
  BY SequencesOfStrokes DEF CanvasOfDraft, IsCanvas, CanvasTyped
<1> QED
  BY <1>1 DEF CanvasOfDraft, IsCanvas, CanvasTyped, Shaped, Coherent

(* A canvas that is put in its place with no fewer objects.                *)
LEMMA OtherCanvas ==
    ASSUME CanvasOfDraft, NEW canvas, IsCanvas(canvas), canvas.redo = <<>>,
           Len(canvas.strokes) >= Len(edCanvas.strokes), edCanvas' = canvas,
           edSelected' \in {0, edSelected}
    PROVE  CanvasOfDraft'
<1>1. IsCanvas(edCanvas)' /\ edCanvas'.redo = <<>>
  BY DEF IsCanvas, CanvasTyped, Shaped, Coherent
<1> QED
  BY <1>1, StillSelected

LEMMA ChooseModeStep ==
    ASSUME EditInv, NEW mode \in {"select", "crop"} \union EditorTools, ChooseMode(mode)
    PROVE  EditInv' /\ Walked
<1> DEFINE c == Committed.canvas
           new == IF mode \in Tools THEN SetTool(c, mode) ELSE c
<1>1. /\ DraftTyped(edDraft) /\ IsCanvas(edCanvas) /\ edCanvas.redo = <<>>
      /\ DraftOfDoc /\ CanvasOfDraft /\ HandTyped
  BY DEF EditInv, DraftOfDoc, CanvasOfDraft
<1>2. /\ Committed.ok /\ edDraft' = Committed.draft /\ edCanvas' = new /\ edActs' \in 0 .. MaxActs
      /\ edDrag' = None /\ edCropDrag' = None /\ edSelected' = 0 /\ edEntry' = Hidden
      /\ edMode' = mode /\ UNCHANGED <<edDoc, edDown, edOpen, edAsking, edDiscard, edViewer>>
  BY <1>1, ActCounts DEF ChooseMode
<1>3. DraftOfDoc' /\ Walked
  BY <1>1, <1>2, CommitStep DEF Committed
<1>4. IsCanvas(c) /\ c.redo = <<>> /\ Len(c.strokes) >= Len(edCanvas.strokes)
  BY <1>1, <1>2, CommitFacts DEF Committed
<1> HIDE DEF c
<1>5. IsCanvas(new) /\ new.redo = <<>> /\ Len(new.strokes) >= Len(c.strokes)
  <2>1. Len(c.strokes) \in Nat
    BY <1>4, SequencesOfStrokes DEF IsCanvas, CanvasTyped
  <2> QED
    BY <1>4, <2>1, SetToolIsCanvas
<1> HIDE DEF new
<1>6. Len(new.strokes) >= Len(edCanvas.strokes)
  <2>1. Len(edCanvas.strokes) \in Nat /\ Len(c.strokes) \in Nat /\ Len(new.strokes) \in Nat
    BY <1>1, <1>4, <1>5, SequencesOfStrokes DEF IsCanvas, CanvasTyped
  <2> QED
    BY <1>4, <1>5, <2>1
<1>7. CanvasOfDraft'
  BY <1>1, <1>2, <1>5, <1>6, OtherCanvas
<1>8. HandTyped'
  <2>1. edEntry' \in Hidden .. MaxText + 1
    BY <1>2, LimitsAssumption DEF Hidden
  <2> QED
    BY <1>1, <1>2, <2>1 DEF HandTyped
<1> QED
  BY <1>3, <1>7, <1>8 DEF EditInv

LEMMA RestyledFacts ==
    ASSUME IsCanvas(edCanvas), Chosen
    PROVE  IsCanvas(Restyled) /\ Restyled.redo = edCanvas.redo
           /\ Len(Restyled.strokes) = Len(edCanvas.strokes)
<1> DEFINE object == edCanvas.strokes[edSelected]
<1>1. object \in Strokes
  BY ElementOfSeq DEF Chosen, IsCanvas, CanvasTyped, Strokes0
<1>2. Restyled = ReplaceObject(edCanvas, edSelected, [object EXCEPT !.look = 1 - object.look])
  BY <1>1, StrokeFields DEF Restyled
<1> HIDE DEF object
<1>3. 1 - object.look \in Int
  BY <1>1, StrokeFields
<1>4. [object EXCEPT !.look = 1 - object.look] \in Strokes
  BY <1>1, <1>3, StrokeChanged
<1> QED
  BY <1>2, <1>4, ReplaceObjectIsCanvas

LEMMA ChangeColorStep ==
    ASSUME EditInv, ChangeColor
    PROVE  EditInv' /\ Walked
<1>1. /\ DraftTyped(edDraft) /\ IsCanvas(edCanvas) /\ edCanvas.redo = <<>>
      /\ DraftOfDoc /\ CanvasOfDraft /\ HandTyped
  BY DEF EditInv, DraftOfDoc, CanvasOfDraft
<1>2. /\ edActs' \in 0 .. MaxActs
      /\ UNCHANGED <<edDoc, edMode, edSelected, edDrag, edCropDrag, edEntry, edDown, edOpen,
                     edAsking, edDiscard, edViewer>>
  BY <1>1, ActCounts DEF ChangeColor
<1>3. HandTyped'
  BY <1>1, <1>2 DEF HandTyped
<1>4. Len(edCanvas.strokes) \in Nat
  BY <1>1, SequencesOfStrokes DEF IsCanvas, CanvasTyped
<1>5. CASE /\ Chosen
           /\ edCanvas' = IF CommitsTo(Restyled, edDraft).ok THEN CommitsTo(Restyled, edDraft).canvas
                          ELSE Restyled
           /\ edDraft' = IF CommitsTo(Restyled, edDraft).ok THEN CommitsTo(Restyled, edDraft).draft
                         ELSE edDraft
  <2>1. /\ IsCanvas(Restyled) /\ Restyled.redo = <<>>
        /\ Len(Restyled.strokes) = Len(edCanvas.strokes)
    BY <1>1, <1>5, RestyledFacts
  <2>2. /\ DraftOfDoc' /\ Walked /\ IsCanvas(edCanvas)' /\ edCanvas'.redo = <<>>
        /\ Len(edCanvas'.strokes) >= Len(Restyled.strokes)
    BY <1>1, <1>2, <1>5, <2>1, SaveStep
  <2>3. CanvasOfDraft'
    BY <1>1, <1>2, <2>1, <2>2, StillSelected
  <2> QED
    BY <1>3, <2>2, <2>3 DEF EditInv
<1>6. CASE edCanvas' = [edCanvas EXCEPT !.look = 1 - @] /\ edDraft' = edDraft
  <2> DEFINE a == [edCanvas EXCEPT !.look = 1 - edCanvas.look]
  <2>1. edCanvas' = a /\ 1 - edCanvas.look \in Int
    BY <1>1, <1>6 DEF IsCanvas, CanvasTyped
  <2>2. IsCanvas(a) /\ a.redo = <<>> /\ a.strokes = edCanvas.strokes
    BY <1>1, <2>1 DEF IsCanvas, CanvasTyped, Shaped, Coherent
  <2> HIDE DEF a
  <2>3. CanvasOfDraft'
    BY <1>1, <1>2, <1>4, <2>1, <2>2, OtherCanvas
  <2>4. DraftOfDoc' /\ Walked
    BY <1>1, <1>2, <1>6, SameDraft
  <2> QED
    BY <1>3, <2>3, <2>4 DEF EditInv
<1> QED
  BY <1>5, <1>6 DEF ChangeColor

LEMMA ChangeSizeStep ==
    ASSUME EditInv, ChangeSize
    PROVE  EditInv' /\ Walked
<1> DEFINE new == IF Chosen THEN Restyled ELSE SetLook(edCanvas, 1 - edCanvas.look)
<1>1. /\ IsCanvas(edCanvas) /\ edCanvas.redo = <<>> /\ DraftOfDoc /\ CanvasOfDraft /\ HandTyped
  BY DEF EditInv, DraftOfDoc, CanvasOfDraft
<1>2. /\ edActs' \in 0 .. MaxActs /\ edCanvas' = new
      /\ UNCHANGED <<edDoc, edDraft, edMode, edSelected, edDrag, edCropDrag, edEntry, edDown,
                     edOpen, edAsking, edDiscard, edViewer>>
  BY <1>1, ActCounts DEF ChangeSize
<1>3. IsCanvas(new) /\ new.redo = <<>> /\ Len(new.strokes) >= Len(edCanvas.strokes)
  <2>1. Len(edCanvas.strokes) \in Nat /\ 1 - edCanvas.look \in Int
    BY <1>1, SequencesOfStrokes DEF IsCanvas, CanvasTyped
  <2>2. CASE Chosen
    BY <1>1, <2>1, <2>2, RestyledFacts
  <2>3. CASE ~Chosen
    <3>1. /\ IsCanvas(SetLook(edCanvas, 1 - edCanvas.look))
          /\ SetLook(edCanvas, 1 - edCanvas.look).redo = edCanvas.redo
          /\ SetLook(edCanvas, 1 - edCanvas.look).strokes = edCanvas.strokes
      BY <1>1, <2>1, SetLookIsCanvas
    <3> QED
      BY <1>1, <2>1, <2>3, <3>1
  <2> QED
    BY <2>2, <2>3
<1> HIDE DEF new
<1>4. CanvasOfDraft'
  BY <1>1, <1>2, <1>3, OtherCanvas
<1>5. DraftOfDoc' /\ Walked
  BY <1>1, <1>2, SameDraft
<1>6. HandTyped'
  BY <1>1, <1>2 DEF HandTyped
<1> QED
  BY <1>4, <1>5, <1>6 DEF EditInv

LEMMA TypeTextStep ==
    ASSUME EditInv, NEW n \in 0 .. MaxText + 1, TypeText(n)
    PROVE  EditInv' /\ Walked
<1>1. /\ IsCanvas(edCanvas) /\ edCanvas.redo = <<>> /\ DraftOfDoc /\ CanvasOfDraft /\ HandTyped
  BY DEF EditInv, DraftOfDoc, CanvasOfDraft
<1>2. /\ edActs' \in 0 .. MaxActs /\ edEntry' = n
      /\ UNCHANGED <<edDoc, edDraft, edMode, edSelected, edDrag, edCropDrag, edDown, edOpen,
                     edAsking, edDiscard, edViewer>>
  BY <1>1, ActCounts DEF TypeText
<1>3. n \in Nat /\ MaxText \in Nat /\ edSelected \in Nat
  <2>1. Len(edCanvas.strokes) \in Nat
    BY <1>1, SequencesOfStrokes DEF IsCanvas, CanvasTyped
  <2> QED
    BY <1>1, <2>1, LimitsAssumption DEF CanvasOfDraft
<1>4. \/ edCanvas' = edCanvas
      \/ edCanvas' = ReplaceEditingText(edCanvas, n)
      \/ /\ edSelected \in DOMAIN edCanvas.strokes
         /\ edCanvas' = ReplaceObject(edCanvas, edSelected,
                                      [edCanvas.strokes[edSelected] EXCEPT !.text = n])
  BY <1>3 DEF TypeText
<1>5. Len(edCanvas.strokes) \in Nat
  BY <1>1, SequencesOfStrokes DEF IsCanvas, CanvasTyped
<1>6. CanvasOfDraft'
  <2>1. CASE edCanvas' = edCanvas
    BY <1>1, <1>2, <2>1, SameCanvas
  <2>2. CASE edCanvas' = ReplaceEditingText(edCanvas, n)
    <3> DEFINE a == ReplaceEditingText(edCanvas, n)
    <3>1. IsCanvas(a) /\ a.redo = edCanvas.redo /\ a.strokes = edCanvas.strokes
      BY <1>1, <1>3, ReplaceTextIsCanvas
    <3> HIDE DEF a
    <3> QED
      BY <1>1, <1>2, <1>5, <2>2, <3>1, OtherCanvas DEF a
  <2>3. CASE /\ edSelected \in DOMAIN edCanvas.strokes
             /\ edCanvas' = ReplaceObject(edCanvas, edSelected,
                                          [edCanvas.strokes[edSelected] EXCEPT !.text = n])
    <3> DEFINE s == [edCanvas.strokes[edSelected] EXCEPT !.text = n]
               a == ReplaceObject(edCanvas, edSelected, s)
    <3>1. edCanvas.strokes[edSelected] \in Strokes
      BY <1>1, <2>3, ElementOfSeq DEF IsCanvas, CanvasTyped, Strokes0
    <3>2. s \in Strokes
      BY <1>3, <3>1, StrokeChanged
    <3>3. edCanvas' = a
      BY <2>3
    <3> HIDE DEF s
    <3>4. IsCanvas(a) /\ a.redo = edCanvas.redo /\ Len(a.strokes) = Len(edCanvas.strokes)
      BY <1>1, <3>2, ReplaceObjectIsCanvas
    <3> HIDE DEF a
    <3> QED
      BY <1>1, <1>2, <1>5, <3>3, <3>4, OtherCanvas
  <2> QED
    BY <1>4, <2>1, <2>2, <2>3
<1>7. DraftOfDoc' /\ Walked
  BY <1>1, <1>2, SameDraft
<1>8. HandTyped'
  <2>1. edEntry' \in Hidden .. MaxText + 1
    BY <1>2, <1>3 DEF Hidden
  <2> QED
    BY <1>1, <1>2, <2>1 DEF HandTyped
<1> QED
  BY <1>6, <1>7, <1>8 DEF EditInv

LEMMA FinishTextStep ==
    ASSUME EditInv, FinishText
    PROVE  EditInv' /\ Walked
<1>1. /\ IsCanvas(edCanvas) /\ edCanvas.redo = <<>> /\ DraftOfDoc /\ CanvasOfDraft /\ HandTyped
  BY DEF EditInv, DraftOfDoc, CanvasOfDraft
<1>2. /\ edActs' \in 0 .. MaxActs /\ edEntry' = Hidden
      /\ edCanvas' = IF CommitsTo(edCanvas, edDraft).ok THEN CommitsTo(edCanvas, edDraft).canvas
                     ELSE edCanvas
      /\ edDraft' = IF CommitsTo(edCanvas, edDraft).ok THEN CommitsTo(edCanvas, edDraft).draft
                    ELSE edDraft
      /\ UNCHANGED <<edDoc, edMode, edSelected, edDrag, edCropDrag, edDown, edOpen, edAsking,
                     edDiscard, edViewer>>
  BY <1>1, ActCounts DEF FinishText, Committed
<1>3. /\ DraftOfDoc' /\ Walked /\ IsCanvas(edCanvas)' /\ edCanvas'.redo = <<>>
      /\ Len(edCanvas'.strokes) >= Len(edCanvas.strokes)
  BY <1>1, <1>2, SaveStep
<1>4. CanvasOfDraft'
  BY <1>1, <1>2, <1>3, StillSelected
<1>5. HandTyped'
  <2>1. edEntry' \in Hidden .. MaxText + 1
    BY <1>2, LimitsAssumption DEF Hidden
  <2> QED
    BY <1>1, <1>2, <2>1 DEF HandTyped
<1> QED
  BY <1>3, <1>4, <1>5 DEF EditInv

(* Steps that touch neither the draft nor the canvas.                      *)
LEMMA BothKept ==
    ASSUME EditInv, UNCHANGED <<edDoc, edDraft, edCanvas, edSelected>>
    PROVE  DraftOfDoc' /\ Walked /\ CanvasOfDraft'
BY SameDraft, SameCanvas DEF EditInv

LEMMA CancelCropStep ==
    ASSUME EditInv, CancelCrop
    PROVE  EditInv' /\ Walked
<1>1. /\ edActs' \in 0 .. MaxActs /\ edCropDrag' = None
      /\ UNCHANGED <<edDoc, edDraft, edCanvas, edMode, edSelected, edDrag, edEntry, edDown,
                     edOpen, edAsking, edDiscard, edViewer>>
  BY ActCounts DEF CancelCrop, EditInv
<1>2. HandTyped'
  BY <1>1 DEF HandTyped, EditInv
<1> QED
  BY <1>1, <1>2, BothKept DEF EditInv

(* Undo and redo, once it is known what they make of the draft.            *)
LEMMA WalkHistoryStep ==
    ASSUME EditInv, NEW walked, WalkHistory(walked),
           Committed.ok => /\ DraftTyped(walked) /\ walked.base = edDraft.base
                           /\ walked.initial = edDraft.initial
                           /\ SameHistory(walked) => Walked
    PROVE  EditInv' /\ Walked
<1>1. /\ DraftOfDoc /\ CanvasOfDraft /\ HandTyped
  BY DEF EditInv
<1>2. /\ edActs' \in 0 .. MaxActs /\ edDrag' = None
      /\ UNCHANGED <<edDoc, edMode, edCropDrag, edDown, edOpen, edAsking, edDiscard, edViewer>>
  BY <1>1, ActCounts DEF WalkHistory
<1>3. CASE Committed.ok
  <2>1. Rebuild(walked) /\ edDraft' = walked
    BY <1>3 DEF WalkHistory, Rebuild
  <2>2. CanvasOfDraft' /\ DraftTyped(edDraft)' /\ edEntry' = Hidden
    BY <1>3, <2>1, RebuildStep
  <2>3. DraftOfDoc'
    BY <1>1, <1>2, <1>3, <2>1, <2>2 DEF DraftOfDoc, DocTyped
  <2>4. Walked
    BY <1>3, <2>1 DEF SameHistory
  <2>5. HandTyped'
    <3>1. edEntry' \in Hidden .. MaxText + 1
      BY <2>2, LimitsAssumption DEF Hidden
    <3> QED
      BY <1>1, <1>2, <3>1 DEF HandTyped
  <2> QED
    BY <2>2, <2>3, <2>4, <2>5 DEF EditInv
<1>4. CASE ~Committed.ok
  <2>1. UNCHANGED <<edDraft, edCanvas, edSelected, edEntry>>
    BY <1>4 DEF WalkHistory
  <2>2. DraftOfDoc' /\ Walked /\ CanvasOfDraft'
    BY <1>2, <2>1, BothKept
  <2>3. HandTyped'
    BY <1>1, <1>2, <2>1 DEF HandTyped
  <2> QED
    BY <2>2, <2>3 DEF EditInv
<1> QED
  BY <1>3, <1>4

(* What a commit makes of the draft is a recorded state.                   *)
LEMMA CommittedRecords ==
    ASSUME EditInv, Committed.ok
    PROVE  /\ DraftTyped(edDraft) /\ DraftTyped(Committed.draft)
           /\ Committed.draft.base = edDraft.base /\ Committed.draft.initial = edDraft.initial
           /\ ObjectsValid(Committed.draft.state.objects)
           /\ Len(Committed.draft.state.objects) >= Len(edCanvas.strokes)
           /\ \E state \in EditStates : Committed.draft = RecordState(edDraft, state)
<1>1. DraftTyped(edDraft) /\ IsCanvas(edCanvas)
  BY DEF EditInv, DraftOfDoc, CanvasOfDraft
<1> QED
  BY <1>1, CommitFacts DEF Committed

LEMMA UndoEditStep ==
    ASSUME EditInv, UndoEdit
    PROVE  EditInv' /\ Walked
<1> DEFINE walked == UndoDraft(Committed.draft)
<1>1. ASSUME Committed.ok
      PROVE  /\ DraftTyped(walked) /\ walked.base = edDraft.base
             /\ walked.initial = edDraft.initial
             /\ SameHistory(walked) => Walked
  <2>1. PICK state \in EditStates : Committed.draft = RecordState(edDraft, state)
    BY <1>1, CommittedRecords
  <2>2. SameHistory(walked) => Walked
    BY <1>1, <2>1, CommittedRecords, UndoWalks
  <2> QED
    BY <1>1, <2>2, CommittedRecords, UndoDraftFacts
<1>2. WalkHistory(walked)
  BY DEF UndoEdit
<1> HIDE DEF walked
<1> QED
  BY <1>1, <1>2, WalkHistoryStep

LEMMA RedoEditStep ==
    ASSUME EditInv, RedoEdit
    PROVE  EditInv' /\ Walked
<1> DEFINE walked == RedoDraft(Committed.draft)
<1>1. ASSUME Committed.ok
      PROVE  /\ DraftTyped(walked) /\ walked.base = edDraft.base
             /\ walked.initial = edDraft.initial
             /\ SameHistory(walked) => Walked
  <2>1. PICK state \in EditStates : Committed.draft = RecordState(edDraft, state)
    BY <1>1, CommittedRecords
  <2>2. SameHistory(walked) => Walked
    BY <1>1, <2>1, CommittedRecords, RedoWalks
  <2> QED
    BY <1>1, <2>2, CommittedRecords, RedoDraftFacts
<1>2. WalkHistory(walked)
  BY DEF RedoEdit
<1> HIDE DEF walked
<1> QED
  BY <1>1, <1>2, WalkHistoryStep

(* A list without one of its objects.                                      *)
LEMMA OneRemoved ==
    ASSUME NEW objects \in Seq(Strokes), NEW i \in 1 .. Len(objects), ObjectsValid(objects)
    PROVE  /\ RemoveAt(objects, i) \in Seq(Strokes) /\ RemoveAt(objects, i) # objects
           /\ ObjectsValid(RemoveAt(objects, i))
<1> DEFINE before == SubSeq(objects, 1, i - 1)
           after == SubSeq(objects, i + 1, Len(objects))
           rest == RemoveAt(objects, i)
<1>1. PICK n \in Nat : n = Len(objects)
  BY LenProperties
<1>2. i \in 1 .. n /\ DOMAIN objects = 1 .. n
  BY <1>1, LenProperties
<1>3. \A j \in 1 .. n : objects[j] \in Strokes
  BY <1>1, ElementOfSeq
<1>4. /\ before \in Seq(Strokes) /\ Len(before) = i - 1
      /\ \A j \in 1 .. i - 1 : before[j] = objects[j]
  <2>1. \A j \in 1 .. i - 1 : objects[j] \in Strokes
    BY <1>2, <1>3
  <2>2. /\ before \in Seq(Strokes)
        /\ Len(before) = IF 1 <= i - 1 THEN i - 1 - 1 + 1 ELSE 0
        /\ \A j \in 1 .. i - 1 - 1 + 1 : before[j] = objects[1 + j - 1]
    BY <1>2, <2>1, SubSeqProperties
  <2> HIDE DEF before
  <2> QED
    BY <1>2, <2>2
<1>5. /\ after \in Seq(Strokes) /\ Len(after) = n - i
      /\ \A j \in 1 .. n - i : after[j] = objects[j + i]
  <2> DEFINE k == i + 1
  <2>1. k \in Int /\ \A j \in k .. n : objects[j] \in Strokes
    BY <1>2, <1>3
  <2> HIDE DEF k
  <2>2. /\ SubSeq(objects, k, n) \in Seq(Strokes)
        /\ Len(SubSeq(objects, k, n)) = IF k <= n THEN n - k + 1 ELSE 0
        /\ \A j \in 1 .. n - k + 1 : SubSeq(objects, k, n)[j] = objects[k + j - 1]
    BY <2>1, SubSeqProperties
  <2>3. after = SubSeq(objects, k, n)
    BY <1>1 DEF k
  <2> HIDE DEF after
  <2> QED
    BY <1>2, <2>2, <2>3 DEF k
<1>6. rest = before \o after
  BY DEF RemoveAt
<1> HIDE DEF before, after, rest
<1>7. /\ rest \in Seq(Strokes) /\ Len(rest) = n - 1
      /\ \A j \in 1 .. n - 1 : rest[j] = IF j <= i - 1 THEN before[j] ELSE after[j - (i - 1)]
  <2>1. rest \in Seq(Strokes) /\ Len(rest) = Len(before) + Len(after)
    BY <1>4, <1>5, <1>6, ConcatProperties
  <2>2. \A j \in 1 .. Len(before) + Len(after) :
           rest[j] = IF j <= Len(before) THEN before[j] ELSE after[j - Len(before)]
    BY <1>4, <1>5, <1>6, ConcatProperties
  <2>3. Len(before) + Len(after) = n - 1
    BY <1>2, <1>4, <1>5
  <2>4. \A j \in 1 .. n - 1 : rest[j] = IF j <= i - 1 THEN before[j] ELSE after[j - (i - 1)]
    BY <1>4, <2>2, <2>3
  <2> QED
    BY <2>1, <2>3, <2>4
<1>8. \A j \in 1 .. n - 1 : \E k \in 1 .. n : rest[j] = objects[k]
  <2> TAKE j \in 1 .. n - 1
  <2>1. CASE j <= i - 1
    BY <1>2, <1>4, <1>7, <2>1
  <2>2. CASE ~(j <= i - 1)
    <3>1. j - (i - 1) \in 1 .. n - i /\ j - (i - 1) + i \in 1 .. n
      BY <1>2, <2>2
    <3> QED
      BY <1>5, <1>7, <2>2, <3>1
  <2> QED
    BY <2>1, <2>2
<1>9. DOMAIN rest = 1 .. n - 1
  BY <1>7, LenProperties
<1>10. ObjectsValid(rest)
  <2>1. n <= MaxObjects /\ \A k \in 1 .. n :
           /\ objects[k].tool # "Pick" /\ objects[k].text <= MaxText
           /\ -Width <= objects[k].l /\ objects[k].r <= 2 * Width
    BY <1>1, <1>2 DEF ObjectsValid
  <2>2. Len(rest) <= MaxObjects
    BY <1>7, <2>1, LimitsAssumption
  <2>3. \A j \in 1 .. n - 1 :
           /\ rest[j].tool # "Pick" /\ rest[j].text <= MaxText
           /\ -Width <= rest[j].l /\ rest[j].r <= 2 * Width
    BY <1>8, <2>1
  <2> QED
    BY <1>9, <2>2, <2>3 DEF ObjectsValid
<1> QED
  BY <1>1, <1>7, <1>10 DEF rest

LEMMA DeleteObjectStep ==
    ASSUME EditInv, DeleteObject
    PROVE  EditInv' /\ Walked
<1>1. /\ DraftOfDoc /\ CanvasOfDraft /\ HandTyped
  BY DEF EditInv
<1>2. /\ edActs' \in 0 .. MaxActs /\ edSelected \in DOMAIN edCanvas.strokes
      /\ UNCHANGED <<edDoc, edMode, edDrag, edCropDrag, edDown, edOpen, edAsking, edDiscard,
                     edViewer>>
  BY <1>1, ActCounts DEF DeleteObject
<1>3. CASE Committed.ok
  <2> DEFINE m == Committed.draft
             fewer == RemoveAt(m.state.objects, edSelected)
             two == [m.state EXCEPT !.objects = fewer]
             draft == RecordState(m, two)
  <2>1. PICK one \in EditStates : m = RecordState(edDraft, one)
    BY <1>3, CommittedRecords
  <2>2. /\ DraftTyped(edDraft) /\ DraftTyped(m) /\ m.base = edDraft.base /\ m.initial = edDraft.initial
        /\ ObjectsValid(m.state.objects) /\ Len(m.state.objects) >= Len(edCanvas.strokes)
    BY <1>3, CommittedRecords
  <2>3. m.state = one
    BY <2>1, <2>2, RecordDraft
  <2>4. Rebuild(draft) /\ edDraft' = draft
    BY <1>3 DEF DeleteObject, SetObjects, Rebuild
  <2> HIDE DEF m
  <2>5. m.state.objects \in Seq(Strokes) /\ m.state \in EditStates
    BY <2>2, EditStateFacts DEF DraftTyped
  <2>6. edSelected \in 1 .. Len(m.state.objects)
    <3>1. edCanvas.strokes \in Seq(Strokes)
      BY <1>1 DEF CanvasOfDraft, IsCanvas, CanvasTyped, Strokes0
    <3> QED
      BY <1>2, <2>2, <2>5, <3>1, LenProperties
  <2>7. fewer \in Seq(Strokes) /\ fewer # m.state.objects /\ ObjectsValid(fewer)
    BY <2>2, <2>5, <2>6, OneRemoved
  <2> HIDE DEF fewer
  <2>8. two \in EditStates /\ two.objects = fewer
    BY <2>5, <2>7, EditStateFacts
  <2> HIDE DEF two
  <2>9. one # two
    BY <2>3, <2>7, <2>8
  <2>10. Walked
    BY <2>1, <2>2, <2>4, <2>8, <2>9, TwiceWalks DEF SameHistory
  <2>11. DraftTyped(draft) /\ draft.base = edDraft.base /\ draft.initial = edDraft.initial
    BY <2>2, <2>8, RecordDraft
  <2> HIDE DEF draft
  <2>12. CanvasOfDraft' /\ DraftTyped(edDraft)' /\ edEntry' = Hidden
    BY <2>4, <2>11, RebuildStep
  <2>13. DraftOfDoc'
    BY <1>1, <1>2, <2>4, <2>11, <2>12 DEF DraftOfDoc, DocTyped
  <2>14. HandTyped'
    <3>1. edEntry' \in Hidden .. MaxText + 1
      BY <2>12, LimitsAssumption DEF Hidden
    <3> QED
      BY <1>1, <1>2, <3>1 DEF HandTyped
  <2> QED
    BY <2>10, <2>12, <2>13, <2>14 DEF EditInv
<1>4. CASE ~Committed.ok
  <2>1. UNCHANGED <<edDraft, edCanvas, edSelected, edEntry>>
    BY <1>4 DEF DeleteObject
  <2>2. DraftOfDoc' /\ Walked /\ CanvasOfDraft'
    BY <1>2, <2>1, BothKept
  <2>3. HandTyped'
    BY <1>1, <1>2, <2>1 DEF HandTyped
  <2> QED
    BY <2>2, <2>3 DEF EditInv
<1> QED
  BY <1>3, <1>4

(* What is applied is what the document holds, whether it changed or not.  *)
LEMMA CommitDoc ==
    ASSUME NEW d, DocTyped(d), NEW draft, DraftTyped(draft)
    PROVE  /\ DocTyped(Commit(d, draft)) /\ Commit(d, draft).state = draft.state
           /\ Commit(d, draft).revision \in Nat
<1> DEFINE bumped == BumpRevision(d)
           new == [bumped EXCEPT !.state = draft.state]
<1>1. draft.state \in EditStates
  BY DEF DraftTyped
<1>2. /\ bumped = [field \in {"revision", "saved", "copied", "cache", "state"} |-> bumped[field]]
      /\ bumped.revision \in Nat /\ bumped.saved \in Nat /\ bumped.copied \in Nat
      /\ bumped.cache = None
  <2> DEFINE a == [d EXCEPT !.revision = d.revision + 1]
             b == [a EXCEPT !.cache = None]
             c == [b EXCEPT !.saved = 0]
             e == [c EXCEPT !.copied = 0]
  <2>1. bumped = e
    BY DEF BumpRevision, DocTyped
  <2>2. a = [field \in {"revision", "saved", "copied", "cache", "state"} |-> a[field]]
        /\ a.revision \in Nat
    BY DEF DocTyped
  <2> HIDE DEF a
  <2>3. b = [field \in {"revision", "saved", "copied", "cache", "state"} |-> b[field]]
        /\ b.revision \in Nat /\ b.cache = None
    BY <2>2
  <2> HIDE DEF b
  <2>4. c = [field \in {"revision", "saved", "copied", "cache", "state"} |-> c[field]]
        /\ c.revision \in Nat /\ c.cache = None /\ c.saved = 0
    BY <2>3
  <2> HIDE DEF c
  <2>5. e = [field \in {"revision", "saved", "copied", "cache", "state"} |-> e[field]]
        /\ e.revision \in Nat /\ e.cache = None /\ e.saved = 0 /\ e.copied = 0
    BY <2>4
  <2> HIDE DEF e, bumped
  <2> QED
    BY <2>1, <2>5
<1>3. DocTyped(new) /\ new.state = draft.state
  <2> HIDE DEF bumped
  <2> QED
    BY <1>1, <1>2 DEF DocTyped
<1>4. Commit(d, draft) = IF d.state = draft.state THEN d ELSE new
  BY DEF Commit
<1> HIDE DEF new
<1> QED
  BY <1>3, <1>4 DEF DocTyped

LEMMA ApplyEditsStep ==
    ASSUME EditInv, ApplyEdits
    PROVE  EditInv' /\ Walked
<1>1. /\ DraftOfDoc /\ CanvasOfDraft /\ HandTyped
  BY DEF EditInv
<1>2. /\ edActs' \in 0 .. MaxActs /\ edDrag' = None /\ edCropDrag' = None
      /\ UNCHANGED <<edMode, edDown, edOpen, edAsking, edDiscard>>
  BY <1>1, ActCounts DEF ApplyEdits
<1>3. CASE Committed.ok
  <2> DEFINE m == Committed.draft
             draft == AcknowledgeCommit(m, edDoc')
  <2>1. /\ edDoc' = Commit(edDoc, m) /\ Rebuild(draft) /\ edDraft' = draft
        /\ edViewer' \in {edViewer, TRUE}
    BY <1>3 DEF ApplyEdits, Rebuild
  <2>2. PICK state \in EditStates : m = RecordState(edDraft, state)
    BY <1>3, CommittedRecords
  <2>3. DraftTyped(edDraft) /\ DraftTyped(m) /\ DocTyped(edDoc)
    BY <1>1, <1>3, CommittedRecords DEF DraftOfDoc
  <2> HIDE DEF m
  <2>4. DocTyped(edDoc') /\ edDoc'.state = m.state /\ edDoc'.revision \in Nat
    BY <2>1, <2>3, CommitDoc
  <2>5. /\ DraftTyped(draft) /\ draft.base = edDoc'.revision /\ draft.initial = m.state
        /\ draft.state = m.state /\ draft.undo = m.undo /\ draft.redo = m.redo
    BY <2>3, <2>4 DEF AcknowledgeCommit, DraftTyped
  <2> HIDE DEF draft
  <2>6. Walked
    BY <2>1, <2>2, <2>3, <2>5, RecordWalks DEF SameHistory
  <2>7. CanvasOfDraft' /\ DraftTyped(edDraft)' /\ edEntry' = Hidden
    BY <2>1, <2>5, RebuildStep
  <2>8. DraftOfDoc'
    BY <2>1, <2>4, <2>5, <2>7 DEF DraftOfDoc, DocTyped
  <2>9. HandTyped'
    <3>1. edEntry' \in Hidden .. MaxText + 1
      BY <2>7, LimitsAssumption DEF Hidden
    <3> QED
      BY <1>1, <1>2, <2>1, <3>1 DEF HandTyped
  <2> QED
    BY <2>6, <2>7, <2>8, <2>9 DEF EditInv
<1>4. CASE ~Committed.ok
  <2>1. UNCHANGED <<edDoc, edDraft, edCanvas, edSelected, edEntry, edViewer>>
    BY <1>4 DEF ApplyEdits
  <2>2. DraftOfDoc' /\ Walked /\ CanvasOfDraft'
    BY <1>2, <2>1, BothKept
  <2>3. HandTyped'
    BY <1>1, <1>2, <2>1 DEF HandTyped
  <2> QED
    BY <2>2, <2>3 DEF EditInv
<1> QED
  BY <1>3, <1>4

(* The ways out of the window.                                             *)
LEMMA LeaveSteps ==
    ASSUME EditInv, AskDiscard \/ CloseEditor \/ AnswerKeep \/ AnswerDiscard \/ ViewerCloses
    PROVE  EditInv' /\ Walked
<1>1. /\ UNCHANGED <<edDoc, edDraft, edCanvas, edMode, edSelected, edDrag, edCropDrag, edEntry,
                     edDown, edActs>>
      /\ {edOpen', edAsking', edDiscard', edViewer'} \subseteq BOOLEAN
  BY DEF AskDiscard, CloseEditor, AnswerKeep, AnswerDiscard, ViewerCloses, Leave, EditInv, HandTyped
<1>2. HandTyped'
  BY <1>1 DEF HandTyped, EditInv
<1> QED
  BY <1>1, <1>2, BothKept DEF EditInv

LEMMA ViewerSteps ==
    ASSUME EditInv, ViewerShows \/ ViewerSaves
    PROVE  EditInv' /\ Walked
<1>1. /\ UNCHANGED <<edDraft, edCanvas, edMode, edSelected, edDrag, edCropDrag, edEntry,
                     edDown, edOpen, edAsking, edDiscard, edViewer, edActs>>
      /\ edDoc' = Snapshot(edDoc) \/ edDoc' = MarkSaved(edDoc, edDoc.revision)
  BY DEF ViewerShows, ViewerSaves
<1>2. DocTyped(edDoc)' /\ edDoc'.state = edDoc.state /\ edDoc'.revision = edDoc.revision
  BY <1>1 DEF EditInv, DraftOfDoc, DocTyped, Snapshot, MarkSaved
<1>3. DraftOfDoc'
  BY <1>1, <1>2 DEF EditInv, DraftOfDoc, DraftTyped
<1>4. Walked
  BY <1>1 DEF Walked, Timeline!tlVars
<1>5. CanvasOfDraft'
  BY <1>1, SameCanvas DEF EditInv
<1>6. HandTyped'
  BY <1>1 DEF EditInv, HandTyped
<1> QED
  BY <1>3, <1>4, <1>5, <1>6 DEF EditInv

LEMMA EditSteps == EditInv /\ [EditorNext]_edVars => EditInv' /\ Walked
<1> SUFFICES ASSUME EditInv, [EditorNext]_edVars PROVE EditInv' /\ Walked
  OBVIOUS
<1>1. CASE EditorNext
  BY <1>1, PressCanvasStep, MoveCanvasStep, ReleaseCanvasStep, ChooseModeStep, ChangeColorStep,
     ChangeSizeStep, TypeTextStep, FinishTextStep, CancelCropStep, UndoEditStep, RedoEditStep,
     DeleteObjectStep, ApplyEditsStep, LeaveSteps, ViewerSteps DEF EditorNext
<1>2. CASE UNCHANGED edVars
  <2>1. DraftOfDoc' /\ Walked /\ CanvasOfDraft'
    BY <1>2, BothKept DEF edVars
  <2>2. HandTyped'
    BY <1>2 DEF EditInv, HandTyped, edVars
  <2> QED
    BY <2>1, <2>2 DEF EditInv
<1> QED
  BY <1>1, <1>2

-----------------------------------------------------------------------------
(* The theorems.                                                           *)

LEMMA FirstEdit == EditorInit => EditInv
<1> SUFFICES ASSUME EditorInit PROVE EditInv
  OBVIOUS
<1>1. PICK objects \in Captured : edDoc = NewDocument(objects)
  BY DEF EditorInit
<1>2. objects \in Seq(Strokes) /\ ObjectsValid(objects)
  BY EditorAssumption
<1> DEFINE state == [objects |-> objects, crop |-> [l |-> 0, r |-> Width]]
<1>3. state \in EditStates
  <2>1. state \in [objects : Seq(Strokes), crop : [l : Int, r : Int]]
    BY <1>2, HistoryAssumption
  <2>2. state.objects = objects /\ state.crop.l = 0 /\ state.crop.r = Width
    OBVIOUS
  <2> HIDE DEF state
  <2>3. StateValid(state)
    BY <1>2, <2>2, HistoryAssumption DEF StateValid, CropValid
  <2> QED
    BY <2>1, <2>3 DEF EditStates
<1> HIDE DEF state
<1>4. edDoc = [revision |-> 1, saved |-> 0, copied |-> 0, cache |-> None, state |-> state]
  BY <1>1 DEF NewDocument, state
<1>5. DocTyped(edDoc) /\ edDoc.state = state /\ edDoc.revision = 1
  BY <1>3, <1>4 DEF DocTyped
<1>6. edDraft = [base |-> 1, initial |-> state, state |-> state, undo |-> <<>>, redo |-> <<>>]
  BY <1>5 DEF EditorInit, NewDraft
<1>7. DraftTyped(edDraft) /\ edDraft.initial = state /\ edDraft.base = 1 /\ edDraft.state = state
  <2>1. <<>> \in Lines
    BY DEF Lines
  <2> QED
    BY <1>3, <1>6, <2>1 DEF DraftTyped
<1>8. DraftOfDoc
  BY <1>5, <1>7 DEF DraftOfDoc
<1>9. CanvasOfDraft
  <2> DEFINE begun == BeginCanvas(NewAnnotator)
             a == ReplaceObjects(begun, state.objects)
  <2>1. IsCanvas(begun)
    BY NewIsCanvas, RebuildIsCanvas DEF BeginCanvas, IsCanvas
  <2>2. state.objects \in Seq(Strokes)
    BY <1>3, EditStateFacts
  <2> HIDE DEF begun
  <2>3. IsCanvas(a) /\ a.redo = <<>>
    BY <2>1, <2>2, ReplaceIsCanvas
  <2>4. edCanvas = a /\ edSelected = 0
    BY <1>7 DEF EditorInit, DraftAnnotator, begun
  <2> HIDE DEF a
  <2>5. Len(a.strokes) \in Nat
    BY <2>3, SequencesOfStrokes DEF IsCanvas, CanvasTyped
  <2> QED
    BY <2>3, <2>4, <2>5 DEF CanvasOfDraft
<1>10. HandTyped
  <2>1. edEntry \in Hidden .. MaxText + 1 /\ edActs \in 0 .. MaxActs
    BY LimitsAssumption, EditorAssumption DEF EditorInit, Hidden
  <2> QED
    BY <2>1 DEF EditorInit, HandTyped
<1> QED
  BY <1>8, <1>9, <1>10 DEF EditInv

LEMMA EditInvType == EditInv => EditorTypeOK
<1> SUFFICES ASSUME EditInv PROVE EditorTypeOK
  OBVIOUS
<1>1. edDraft \in Drafts /\ edDraft.initial = edDoc.state /\ edDraft.state \in EditStates
  BY DraftFields DEF EditInv, DraftOfDoc, DraftTyped
<1>2. CanCommit(edDoc, edDraft)
  BY <1>1 DEF CanCommit, EditInv, DraftOfDoc, EditStates
<1>3. edCanvas \in Annotators
  BY CanvasFields DEF EditInv, CanvasOfDraft, IsCanvas
<1> QED
  BY <1>1, <1>2, <1>3 DEF EditorTypeOK, EditInv, CanvasOfDraft, HandTyped

LEMMA EditInvShown == EditInv => WhatIsShown
BY DrawnIsThere DEF EditInv, CanvasOfDraft, DraftOfDoc, DocTyped, WhatIsShown

(* A window that closes unasked shows what the document holds.             *)
LEMMA EditCloses ==
    ASSUME EditInv, EditorNext, edOpen, ~edOpen', ~edDiscard'
    PROVE  edDoc.state = [objects |-> Draw(edCanvas), crop |-> edDraft.state.crop]
<1>1. CloseEditor
  BY DEF EditorNext, PressCanvas, MoveCanvas, ReleaseCanvas, ChooseMode, ChangeColor, ChangeSize,
     TypeText, FinishText, CancelCrop, UndoEdit, RedoEdit, WalkHistory, DeleteObject, ApplyEdits,
     AskDiscard, AnswerKeep, AnswerDiscard, ViewerShows, ViewerSaves, ViewerCloses
<1>2. ~Dirty
  BY <1>1 DEF CloseEditor
<1>3. edDraft.state = edDoc.state /\ SnapshotObjects(edCanvas) = edDraft.state.objects
  BY <1>2 DEF Dirty, IsDirty, EditInv, DraftOfDoc
<1>4. Draw(edCanvas) = SnapshotObjects(edCanvas)
  BY DrawnIsThere DEF EditInv, CanvasOfDraft
<1>5. edDoc.state \in [objects : Seq(Strokes), crop : [l : Int, r : Int]]
  BY DEF EditInv, DraftOfDoc, DocTyped, EditStates
<1> QED
  BY <1>3, <1>4, <1>5

(* The draft is of the document, the canvas of the draft, its cache is     *)
(* true and the hand holds what it may (editor.rs).                        *)
THEOREM EditorInvariant == EditorSpec => []EditInv
<1>1. EditorInit => EditInv
  BY FirstEdit
<1>2. EditInv /\ [EditorNext]_edVars => EditInv'
  BY EditSteps
<1> QED
  BY <1>1, <1>2, PTL DEF EditorSpec

(* Every variable of the window keeps its type: the history holds only     *)
(* states a document accepts, and what is selected is on the canvas        *)
(* (editor.rs, document.rs).                                               *)
THEOREM EditorTyped == EditorSpec => []EditorTypeOK
BY EditorInvariant, EditInvType, PTL

(* What is drawn on the canvas, from the cache or not, is what a commit    *)
(* takes from it, and a composed picture is of the present revision        *)
(* (annotate.rs draw, document.rs snapshot).                               *)
THEOREM EditorShows == EditorSpec => []WhatIsShown
BY EditorInvariant, EditInvShown, PTL

(* Undo and redo walk one line of states: the editor implements            *)
(* EditTimeline (document.rs trim_history, editor.rs history).             *)
THEOREM EditorWalksTheLine == EditorSpec => HistoryIsTimeline
<1>1. EditorInit => Timeline!TimelineInit
  BY DEF EditorInit, NewDraft, Timeline!TimelineInit
<1>2. EditInv /\ [EditorNext]_edVars => [Timeline!TimelineNext]_(Timeline!tlVars)
  BY EditSteps DEF Walked
<1> QED
  BY <1>1, <1>2, EditorInvariant, PTL DEF EditorSpec, HistoryIsTimeline, Timeline!TimelineSpec

(* A window that closes without an answer leaves in the document what it   *)
(* showed (editor.rs connect_close, dirty).                                *)
THEOREM EditorClosesTrue == EditorSpec => CloseKeepsDrawn
<1>1. EditInv /\ [EditorNext]_edVars =>
        [edOpen /\ ~edOpen' /\ ~edDiscard' =>
           edDoc.state = [objects |-> Draw(edCanvas), crop |-> edDraft.state.crop]]_edVars
  BY EditCloses
<1> QED
  BY <1>1, EditorInvariant, PTL DEF EditorSpec, CloseKeepsDrawn

-----------------------------------------------------------------------------
(* The overlay: what every event does to the selection and the drawing on  *)
(* it, for any screen, tools, looks and number of presses.                 *)

Rects == {rect \in Positions \X Positions : rect[1] <= rect[2]}

OverlayStates ==
    [mode : {"Idle", "Selecting", "HasSelection", "Moving", "Resizing"}, rect : Rects, orig : Rects,
     anchor : Positions, handle : {"none", "w", "e"}, annotator : Annotators, annotating : BOOLEAN,
     canvas : Rects, popup : {"none", "Color", "Size"}, slider : BOOLEAN, long : BOOLEAN]

(* The cache of the overlay is never stale.                                *)
Cached(a) == ~a.stale /\ a.cache = a.strokes

OwnerOf(s) ==
    /\ s.slider => s.popup = "Size"
    /\ s.popup # "none" => s.annotating /\ Supports(s)
    /\ s.annotator.editing # NoStroke => s.annotating

OverlayInv ==
    /\ csState \in OverlayStates /\ Cached(csState.annotator) /\ OwnerOf(csState)
    /\ {csIm, csDown, csGrace, csLaid} \subseteq BOOLEAN
    /\ csOutcome.action \in FinalActions \cup {"none", "cancel"}
    /\ csIm = (csState.annotator.editing # NoStroke)
    /\ csOutcome = NoOutcome => csScreen = Shown(csState)
    /\ FinishedInkCaptured

(* One more stroke clipped.                                                *)
CutNext(ink, rect, g, i) ==
    IF i = 0 THEN <<>>
    ELSE IF Meets(ink[i], rect) THEN Append(g[i - 1], Cut(ink[i], rect)) ELSE g[i - 1]

LEMMA CutIsThere ==
    ASSUME NEW ink, NEW rect, NEW n \in Nat
    PROVE  \E g : g = [i \in 0 .. n |-> CutNext(ink, rect, g, i)]
<1> DEFINE T == {k \in Nat : ~ \E g : g = [i \in 0 .. k |-> CutNext(ink, rect, g, i)]}
<1> SUFFICES ASSUME T # {} PROVE FALSE
  OBVIOUS
<1>1. PICK t \in T : \A k \in T : t <= k
  BY LeastNat
<1>2. CASE t = 0
  <2> DEFINE g == [i \in 0 .. 0 |-> <<>>]
  <2>1. g = [i \in 0 .. 0 |-> CutNext(ink, rect, g, i)]
    BY DEF CutNext
  <2> HIDE DEF g
  <2>2. \E f : f = [i \in 0 .. t |-> CutNext(ink, rect, f, i)]
    BY <1>2, <2>1
  <2> QED
    BY <2>2
<1>3. CASE t # 0
  <2>1. t - 1 \in Nat /\ t - 1 \notin T /\ t \in Nat
    BY <1>1, <1>3
  <2>2. PICK g : g = [i \in 0 .. t - 1 |-> CutNext(ink, rect, g, i)]
    BY <2>1
  <2> DEFINE last == CutNext(ink, rect, g, t)
             h == [i \in 0 .. t |-> IF i = t THEN last ELSE g[i]]
  <2>3. \A i \in 0 .. t : CutNext(ink, rect, h, i) = h[i]
    <3> TAKE i \in 0 .. t
    <3>1. i # 0 => i - 1 \in 0 .. t /\ i - 1 # t /\ h[i - 1] = g[i - 1]
      BY <2>1
    <3>2. CutNext(ink, rect, h, i) = CutNext(ink, rect, g, i)
      BY <3>1 DEF CutNext
    <3>3. i # t => i \in 0 .. t - 1 /\ g[i] = CutNext(ink, rect, g, i)
      BY <2>1, <2>2
    <3> QED
      BY <3>2, <3>3
  <2> HIDE DEF last
  <2>4. h = [i \in 0 .. t |-> h[i]]
    OBVIOUS
  <2> HIDE DEF h
  <2>5. h = [i \in 0 .. t |-> CutNext(ink, rect, h, i)]
    BY <2>3, <2>4
  <2> QED
    BY <2>5
<1> QED
  BY <1>2, <1>3

(* What is cut is of strokes, and no longer than what it is cut from.      *)
LEMMA CutTyped ==
    ASSUME NEW ink \in Seq(Strokes), NEW rect \in Int \X Int, NEW n \in 0 .. Len(ink),
           NEW g, \A i \in 0 .. n : g[i] = CutNext(ink, rect, g, i)
    PROVE  \A i \in 0 .. n : g[i] \in Seq(Strokes) /\ Len(g[i]) <= i
<1>1. Len(ink) \in Nat /\ n \in Nat /\ \A i \in 1 .. Len(ink) : ink[i] \in Strokes
  BY LenProperties, ElementOfSeq
<1> DEFINE T == {i \in 0 .. n : ~(g[i] \in Seq(Strokes) /\ Len(g[i]) <= i)}
<1> SUFFICES ASSUME T # {} PROVE FALSE
  OBVIOUS
<1>2. PICK t \in T : \A k \in T : t <= k
  <2>1. T \in SUBSET Nat
    BY <1>1
  <2> HIDE DEF T
  <2> QED
    BY <2>1, LeastNat
<1>3. CASE t = 0
  <2>1. g[t] = <<>>
    BY <1>2, <1>3 DEF CutNext
  <2>2. <<>> \in Seq(Strokes) /\ Len(<<>>) = 0
    OBVIOUS
  <2>3. g[t] \in Seq(Strokes) /\ Len(g[t]) <= t
    BY <1>3, <2>1, <2>2
  <2> QED
    BY <1>2, <2>3
<1>4. CASE t # 0
  <2>1. t - 1 \in 0 .. n /\ t - 1 \notin T /\ t \in 1 .. n /\ t \in 1 .. Len(ink)
    BY <1>1, <1>2, <1>4
  <2>2. PICK before : before = g[t - 1]
    OBVIOUS
  <2>3. before \in Seq(Strokes) /\ Len(before) <= t - 1
    BY <2>1, <2>2
  <2>4. PICK s \in Strokes : s = ink[t]
    BY <1>1, <2>1
  <2>5. g[t] = IF Meets(s, rect) THEN Append(before, Cut(s, rect)) ELSE before
    BY <1>4, <2>1, <2>2, <2>4 DEF CutNext
  <2>6. CASE Meets(s, rect)
    <3>1. rect[1] \in Int /\ rect[2] \in Int /\ s.l \in Int /\ s.r \in Int
      BY StrokeFields
    <3>2. PICK l \in Int, r \in Int : l = Larger(s.l, rect[1]) /\ r = Smaller(s.r, rect[2] - 1)
      BY <3>1 DEF Larger, Smaller
    <3>3. Cut(s, rect) = [s EXCEPT !.l = l, !.r = r] /\ l <= r
      BY <2>6, <3>2 DEF Cut, Meets
    <3>4. Cut(s, rect) \in Strokes
      <4>1. \A a, b \in Int : a <= b => [s EXCEPT !.l = a, !.r = b] \in Strokes
        BY StrokeChanged
      <4>2. [s EXCEPT !.l = l, !.r = r] \in Strokes
        BY <3>2, <3>3, <4>1, Zenon
      <4> QED
        BY <3>3, <4>2
    <3>5. Append(before, Cut(s, rect)) \in Seq(Strokes) /\ Len(Append(before, Cut(s, rect))) = Len(before) + 1
      BY <2>3, <3>4, AppendProperties
    <3>6. Len(before) \in Nat
      BY <2>3, LenProperties
    <3>7. g[t] = Append(before, Cut(s, rect))
      BY <2>5, <2>6
    <3>8. g[t] \in Seq(Strokes) /\ Len(g[t]) <= t
      BY <1>1, <2>1, <2>3, <3>5, <3>6, <3>7
    <3> QED
      BY <1>2, <3>8
  <2>7. CASE ~Meets(s, rect)
    <3>1. Len(before) \in Nat
      BY <2>3, LenProperties
    <3> QED
      BY <1>1, <1>2, <2>1, <2>3, <2>5, <2>7, <3>1
  <2> QED
    BY <2>6, <2>7
<1> QED
  BY <1>3, <1>4

LEMMA ClipIs ==
    ASSUME NEW ink \in Seq(Strokes), NEW rect
    PROVE  \E g : /\ g = [i \in 0 .. Len(ink) |-> CutNext(ink, rect, g, i)]
                  /\ Clip(ink, rect) = g[Len(ink)]
<1>1. Len(ink) \in Nat
  BY LenProperties
<1> DEFINE kept == CHOOSE g : g = [i \in 0 .. Len(ink) |-> CutNext(ink, rect, g, i)]
<1>2. Clip(ink, rect) = kept[Len(ink)]
  BY DEF Clip, CutNext
<1>3. kept = [i \in 0 .. Len(ink) |-> CutNext(ink, rect, kept, i)]
  BY <1>1, CutIsThere
<1> QED
  BY <1>2, <1>3

MadeOf(g, ink, rect, n) == \A i \in 0 .. n : g[i] = CutNext(ink, rect, g, i)
Agree(one, two, n) == \A i \in 1 .. n : one[i] = two[i]

(* Two that are made in the same way are the same.                         *)
LEMMA CutSame ==
    ASSUME NEW one, NEW two, NEW where, NEW n \in Nat, NEW g, NEW h,
           Agree(one, two, n), MadeOf(g, one, where, n), MadeOf(h, two, where, n)
    PROVE  g[n] = h[n]
<1>0. /\ \A i \in 1 .. n : one[i] = two[i]
      /\ \A i \in 0 .. n : g[i] = CutNext(one, where, g, i) /\ h[i] = CutNext(two, where, h, i)
  BY DEF Agree, MadeOf
<1> DEFINE T == {i \in 0 .. n : g[i] # h[i]}
<1> SUFFICES ASSUME T # {} PROVE FALSE
  OBVIOUS
<1>1. PICK t \in T : \A k \in T : t <= k
  <2>1. T \in SUBSET Nat
    OBVIOUS
  <2> HIDE DEF T
  <2> QED
    BY <2>1, LeastNat
<1>2. CASE t = 0
  BY <1>0, <1>1, <1>2 DEF CutNext
<1>3. CASE t # 0
  <2>1. t - 1 \in 0 .. n /\ t - 1 \notin T /\ t \in 1 .. n
    BY <1>1, <1>3
  <2>2. g[t - 1] = h[t - 1] /\ one[t] = two[t]
    BY <1>0, <2>1
  <2>3. CutNext(one, where, g, t) = CutNext(two, where, h, t)
    BY <2>2 DEF CutNext
  <2> QED
    BY <1>0, <1>1, <2>3
<1> QED
  BY <1>2, <1>3

LEMMA ClipOfNone == ASSUME NEW rect PROVE Clip(<<>>, rect) = <<>>
<1>1. <<>> \in Seq(Strokes) /\ Len(<<>>) = 0
  OBVIOUS
<1>2. PICK g : g = [i \in 0 .. Len(<<>>) |-> CutNext(<<>>, rect, g, i)] /\ Clip(<<>>, rect) = g[Len(<<>>)]
  BY <1>1, ClipIs
<1>3. g[0] = CutNext(<<>>, rect, g, 0)
  BY <1>1, <1>2
<1> QED
  BY <1>1, <1>2, <1>3 DEF CutNext

(* If nothing is cut of a picture, nothing is cut of it without its last   *)
(* stroke.                                                                 *)
LEMMA WholeBefore ==
    ASSUME NEW ink \in Seq(Strokes), NEW s \in Strokes, NEW rect \in Int \X Int,
           Clip(Append(ink, s), rect) = Append(ink, s)
    PROVE  Clip(ink, rect) = ink
<1> DEFINE more == Append(ink, s)
<1>1. /\ Len(ink) \in Nat /\ more \in Seq(Strokes) /\ Len(more) = Len(ink) + 1
      /\ \A i \in 1 .. Len(ink) : ink[i] = more[i]
  BY LenProperties, AppendProperties
<1>2. PICK n \in Nat : n = Len(ink)
  BY <1>1
<1>3. PICK g : g = [i \in 0 .. n |-> CutNext(ink, rect, g, i)] /\ Clip(ink, rect) = g[n]
  BY <1>2, ClipIs
<1> HIDE DEF more
<1>0. PICK m \in Nat : m = n + 1
  OBVIOUS
<1>4. PICK h : h = [i \in 0 .. m |-> CutNext(more, rect, h, i)] /\ Clip(more, rect) = h[m]
  <2>1. PICK h : h = [i \in 0 .. Len(more) |-> CutNext(more, rect, h, i)] /\ Clip(more, rect) = h[Len(more)]
    BY <1>1, ClipIs
  <2>2. Len(more) = m
    BY <1>0, <1>1, <1>2
  <2> QED
    BY <2>1, <2>2
<1>5. \A i \in 0 .. m : h[i] = CutNext(more, rect, h, i)
  BY <1>4
<1>6. \A i \in 0 .. n : g[i] = CutNext(ink, rect, g, i) /\ h[i] = CutNext(more, rect, h, i)
  <2>1. \A i \in 0 .. n : g[i] = CutNext(ink, rect, g, i)
    BY <1>3
  <2>2. \A i \in 0 .. n : i \in 0 .. m
    BY <1>0
  <2> QED
    BY <1>5, <2>1, <2>2
<1>7. g[n] = h[n]
  <2>1. Agree(ink, more, n)
    BY <1>1, <1>2 DEF Agree
  <2>2. MadeOf(g, ink, rect, n) /\ MadeOf(h, more, rect, n)
    BY <1>6 DEF MadeOf
  <2> QED
    BY <2>1, <2>2, CutSame
<1>8. h[n] \in Seq(Strokes) /\ Len(h[n]) <= n
  <2>1. n \in 0 .. Len(more)
    BY <1>1, <1>2
  <2> QED
    BY SMTT(25), <1>1, <1>6, <2>1, CutTyped
<1>9. h[m] = more
  BY <1>4 DEF more
<1>10. h[m] = CutNext(more, rect, h, m)
  BY <1>5
<1>11. PICK before \in Seq(Strokes) : before = h[n] /\ Len(before) <= n /\ Len(before) \in Nat
  BY <1>8, LenProperties
<1>12. more = before \/ \E c : more = Append(before, c)
  <2>1. m # 0 /\ h[m - 1] = before
    <3>1. m # 0 /\ m - 1 = n
      BY <1>0
    <3> QED
      BY <1>11, <3>1
  <2>2. CutNext(more, rect, h, m) \in {before, Append(before, Cut(more[m], rect))}
    BY <2>1 DEF CutNext
  <2> QED
    BY <1>9, <1>10, <2>2
<1>13. more # before
  BY <1>1, <1>2, <1>11
<1>14. PICK c : more = Append(before, c)
  BY <1>12, <1>13
<1>15. Append(ink, s) = Append(before, c)
  BY <1>14 DEF more
<1>16. ink = before
  <2>1. before = [i \in 1 .. Len(before) |-> before[i]] /\ ink = [i \in 1 .. Len(ink) |-> ink[i]]
    BY IsASeq
  <2>2. DOMAIN Append(before, c) = 1 .. Len(before) + 1 /\ \A i \in 1 .. Len(before) : Append(before, c)[i] = before[i]
    BY <1>11
  <2>3. DOMAIN more = 1 .. n + 1
    BY <1>1, <1>2, LenProperties
  <2>4. Len(before) = n
    BY <1>2, <1>11, <1>14, <2>2, <2>3
  <2>5. \A i \in 1 .. n : before[i] = ink[i]
    BY <1>1, <1>2, <1>14, <2>2, <2>4
  <2> QED
    BY <1>2, <2>1, <2>4, <2>5
<1> QED
  BY <1>3, <1>7, <1>11, <1>16

(* What the overlay does to its canvas. *)
Fine(a) == IsCanvas(a) /\ ~a.stale

LEMMA FineIs == \A a : Fine(a) <=> a \in Annotators /\ Cached(a)
<1>1. ASSUME NEW a, Fine(a) PROVE a \in Annotators /\ Cached(a)
  BY <1>1, CanvasFields DEF Fine, IsCanvas, Coherent, Cached
<1>2. ASSUME NEW a, a \in Annotators, Cached(a) PROVE Fine(a)
  BY <1>2, CanvasFields DEF Fine, IsCanvas, Coherent, Cached
<1> QED
  BY <1>1, <1>2

LEMMA NewIsFine == Fine(NewAnnotator) /\ NewAnnotator.editing = NoStroke /\ NewAnnotator.strokes = <<>>
  BY NewIsCanvas DEF Fine, NewAnnotator

LEMMA BeginIsFine ==
    ASSUME NEW a, Fine(a)
    PROVE  Fine(BeginCanvas(a)) /\ BeginCanvas(a).editing = a.editing /\ BeginCanvas(a).tool = a.tool
<1>1. IsCanvas(RebuildCache(a))
  BY RebuildIsCanvas DEF Fine, IsCanvas
<1>2. ~RebuildCache(a).stale /\ RebuildCache(a).editing = a.editing /\ RebuildCache(a).tool = a.tool
  BY DEF RebuildCache, Fine, IsCanvas, Shaped
<1> QED
  BY <1>1, <1>2 DEF BeginCanvas, Fine

LEMMA EndIsFine ==
    ASSUME NEW a, Fine(a)
    PROVE  /\ Fine(EndEditing(a)) /\ EndEditing(a).editing = NoStroke /\ EndEditing(a).tool = a.tool
           /\ EndEditing(a).active = a.active /\ EndEditing(a).strokes = a.strokes
<1>1. IsCanvas(EndEditing(a))
  BY EndIsCanvas DEF Fine
<1>2. /\ ~EndEditing(a).stale /\ EndEditing(a).editing = NoStroke /\ EndEditing(a).tool = a.tool
      /\ EndEditing(a).active = a.active /\ EndEditing(a).strokes = a.strokes
  BY DEF EndEditing, Fine, IsCanvas, Shaped
<1> QED
  BY <1>1, <1>2 DEF Fine

LEMMA RecordIsFine ==
    ASSUME NEW a, Fine(a), NEW s \in Strokes
    PROVE  /\ Fine(Record(a, s)) /\ Record(a, s).editing = a.editing /\ Record(a, s).tool = a.tool
           /\ Record(a, s).active = a.active /\ Record(a, s).strokes = Append(a.strokes, s)
<1>1. IsCanvas(Record(a, s)) /\ Record(a, s).strokes = Append(a.strokes, s)
  BY RecordIsCanvas DEF Fine
<1>2. /\ Record(a, s).stale = a.stale /\ Record(a, s).editing = a.editing /\ Record(a, s).tool = a.tool
      /\ Record(a, s).active = a.active
  BY DEF Record, AppendStroke, Fine, IsCanvas, Shaped
<1> QED
  BY <1>1, <1>2 DEF Fine

(* The label that is typed, if it has text. *)
Label(a) == IF a.editing # NoStroke /\ a.editing.text > 0 THEN <<a.editing>> ELSE <<>>

LEMMA CommitIsFine ==
    ASSUME NEW a, Fine(a)
    PROVE  /\ Fine(CommitText(a)) /\ CommitText(a).editing = NoStroke /\ CommitText(a).tool = a.tool
           /\ CommitText(a).active = a.active
           /\ \/ Label(a) = <<>> /\ CommitText(a).strokes = a.strokes
              \/ \E s \in Strokes : Label(a) = <<s>> /\ CommitText(a).strokes = Append(a.strokes, s)
<1>1. /\ Fine(EndEditing(a)) /\ EndEditing(a).editing = NoStroke /\ EndEditing(a).tool = a.tool
      /\ EndEditing(a).active = a.active /\ EndEditing(a).strokes = a.strokes
  BY EndIsFine
<1>2. CASE a.editing # NoStroke /\ a.editing.text > 0
  <2>1. a.editing \in Strokes
    BY <1>2 DEF Fine, IsCanvas, CanvasTyped, Drawn0
  <2>2. PICK b : b = EndEditing(a)
    OBVIOUS
  <2>3. PICK s \in Strokes : s = a.editing
    BY <2>1
  <2>4. CommitText(a) = Record(b, s) /\ Label(a) = <<s>>
    BY <1>2, <2>2, <2>3 DEF CommitText, Label
  <2>5. /\ Fine(Record(b, s)) /\ Record(b, s).editing = NoStroke /\ Record(b, s).tool = a.tool
        /\ Record(b, s).active = a.active /\ Record(b, s).strokes = Append(a.strokes, s)
    BY <1>1, <2>2, RecordIsFine
  <2> QED
    BY <2>4, <2>5
<1>3. CASE ~(a.editing # NoStroke /\ a.editing.text > 0)
  <2>1. CommitText(a) = EndEditing(a) /\ Label(a) = <<>>
    BY <1>3 DEF CommitText, Label
  <2> QED
    BY <1>1, <2>1
<1> QED
  BY <1>2, <1>3

LEMMA SetToolIsFine ==
    ASSUME NEW a, Fine(a), NEW tool \in Tools
    PROVE  Fine(SetTool(a, tool))
<1> DEFINE b == IF tool # "Text" THEN CommitText(a) ELSE a
<1>1. Fine(b)
  BY CommitIsFine
<1>2. SetTool(a, tool) = [b EXCEPT !.tool = tool]
  BY DEF SetTool
<1> HIDE DEF b
<1>3. SetTool(a, tool).stale = b.stale
  BY <1>1, <1>2 DEF Fine, IsCanvas, Shaped
<1>4. IsCanvas(SetTool(a, tool))
  BY SetToolIsCanvas DEF Fine
<1> QED
  BY <1>1, <1>3, <1>4 DEF Fine

LEMMA SetLookIsFine ==
    ASSUME NEW a, Fine(a), NEW look \in Int
    PROVE  /\ Fine(SetLook(a, look)) /\ SetLook(a, look).tool = a.tool
           /\ SetLook(a, look).editing = NoStroke <=> a.editing = NoStroke
<1>1. IsCanvas(SetLook(a, look))
  BY SetLookIsCanvas DEF Fine
<1> DEFINE s == IF a.editing # NoStroke THEN [a.editing EXCEPT !.look = look] ELSE a.editing
<1>2. s = NoStroke <=> a.editing = NoStroke
  <2>1. a.editing # NoStroke => s \in Strokes
    BY StrokeChanged DEF Fine, IsCanvas, CanvasTyped, Drawn0
  <2> QED
    BY <2>1, NoStrokeIsNone
<1>3. SetLook(a, look) = [a EXCEPT !.look = look, !.editing = s]
  BY DEF SetLook, Fine, IsCanvas, Shaped
<1> HIDE DEF s
<1>4. SetLook(a, look).stale = a.stale /\ SetLook(a, look).tool = a.tool /\ SetLook(a, look).editing = s
  BY <1>3 DEF Fine, IsCanvas, Shaped
<1> QED
  BY <1>1, <1>2, <1>4 DEF Fine

LEMMA PressIsFine ==
    ASSUME NEW a, Fine(a), NEW x \in Int
    PROVE  Fine(Press(a, x)) /\ Press(a, x).tool = a.tool
<1> DEFINE b == IF a.tool = "Text" THEN CommitText(a) ELSE a
           s == Stroke(a.tool, x, a.look)
<1>1. Fine(b) /\ b.tool = a.tool
  BY CommitIsFine
<1>2. \/ Press(a, x) = b
      \/ Press(a, x) = [b EXCEPT !.editing = s]
      \/ Press(a, x) = [b EXCEPT !.active = s, !.start = x]
  BY DEF Press
<1>3. IsCanvas(Press(a, x))
  BY PressIsCanvas DEF Fine
<1> HIDE DEF b, s
<1>4. Press(a, x).stale = b.stale /\ Press(a, x).tool = b.tool
  BY <1>1, <1>2 DEF Fine, IsCanvas, Shaped
<1> QED
  BY <1>1, <1>3, <1>4 DEF Fine

LEMMA MotionIsFine ==
    ASSUME NEW a, Fine(a), NEW x \in Int
    PROVE  /\ Fine(Motion(a, x)) /\ Motion(a, x).tool = a.tool /\ Motion(a, x).editing = a.editing
           /\ a.active # NoStroke => Motion(a, x).active \in Strokes
<1>1. IsCanvas(Motion(a, x)) /\ (a.active # NoStroke => Motion(a, x).active \in Strokes)
  BY MotionIsCanvas DEF Fine
<1>2. /\ Motion(a, x).stale = a.stale /\ Motion(a, x).tool = a.tool /\ Motion(a, x).editing = a.editing
  BY DEF Motion, Fine, IsCanvas, Shaped
<1> QED
  BY <1>1, <1>2 DEF Fine

LEMMA ReleaseIsFine ==
    ASSUME NEW a, Fine(a), NEW x \in Int
    PROVE  Fine(Release(a, x)) /\ Release(a, x).tool = a.tool /\ Release(a, x).editing = a.editing
<1> DEFINE s == (IF a.active.tool = "Pen" THEN a ELSE Motion(a, x)).active
           b == [a EXCEPT !.active = NoStroke, !.start = 0]
<1>1. Release(a, x) = b \/ Release(a, x) = Record(b, s)
  BY DEF Release
<1>2. IsCanvas(Release(a, x))
  BY ReleaseIsCanvas DEF Fine
<1>3. b.stale = a.stale /\ b.tool = a.tool /\ b.editing = a.editing
      /\ b = [field \in {"tool", "look", "strokes", "redo", "active", "start", "editing",
                              "preedit", "cache", "stale"} |-> b[field]]
  BY DEF Fine, IsCanvas, Shaped
<1> HIDE DEF b, s
<1>4. Release(a, x).stale = b.stale /\ Release(a, x).tool = b.tool /\ Release(a, x).editing = b.editing
  BY <1>1, <1>3 DEF Record, AppendStroke
<1> QED
  BY <1>2, <1>3, <1>4 DEF Fine

(* Keys. *)
LEMMA EditedIsFine ==
    ASSUME NEW a, Fine(a), a.editing # NoStroke, NEW n \in Nat, NEW on \in BOOLEAN
    PROVE  LET b == [a EXCEPT !.editing = [@ EXCEPT !.text = n], !.preedit = on]
           IN  Fine(b) /\ b.tool = a.tool /\ b.editing # NoStroke
<1> DEFINE s == [a.editing EXCEPT !.text = n]
           b == [a EXCEPT !.editing = s, !.preedit = on]
<1>1. s \in Strokes
  BY StrokeChanged DEF Fine, IsCanvas, CanvasTyped, Drawn0
<1>2. [a EXCEPT !.editing = [@ EXCEPT !.text = n], !.preedit = on] = b
  BY DEF Fine, IsCanvas, Shaped
<1>3. s \in Drawn0 /\ s # NoStroke
  BY <1>1, NoStrokeIsNone DEF Drawn0
<1> HIDE DEF s
<1>4. IsCanvas(b)
  BY <1>3 DEF Fine, IsCanvas, Shaped, CanvasTyped, Coherent
<1>5. b.stale = a.stale /\ b.tool = a.tool /\ b.editing = s
  BY DEF Fine, IsCanvas, Shaped
<1> QED
  BY <1>2, <1>3, <1>4, <1>5 DEF Fine

LEMMA KeysAreFine ==
    ASSUME NEW a, Fine(a)
    PROVE  \A b \in {TypeStr(a, 1), SetPreedit(a, TRUE), Backspace(a)} :
              Fine(b) /\ b.tool = a.tool /\ (b.editing = NoStroke <=> a.editing = NoStroke)
<1>1. CASE a.editing = NoStroke
  BY <1>1 DEF TypeStr, SetPreedit, Backspace
<1>2. CASE a.editing # NoStroke
  <2>1. a.editing \in Strokes /\ a.editing.text \in Nat /\ a.preedit \in BOOLEAN
    BY <1>2, StrokeFields DEF Fine, IsCanvas, CanvasTyped, Drawn0
  <2>2. Shaped(a)
    BY DEF Fine, IsCanvas
  <2>3. PICK one \in Nat, less \in Nat, same \in Nat :
            one = a.editing.text + 1 /\ less = Larger(a.editing.text - 1, 0) /\ same = a.editing.text
    BY <2>1 DEF Larger
  <2>4. \/ TypeStr(a, 1) = a
        \/ TypeStr(a, 1) = [a EXCEPT !.editing = [@ EXCEPT !.text = one], !.preedit = FALSE]
    BY <1>2, <2>2, <2>3 DEF TypeStr, Shaped
  <2>5. Fine(TypeStr(a, 1)) /\ TypeStr(a, 1).tool = a.tool /\ TypeStr(a, 1).editing # NoStroke
    <3>1. CASE TypeStr(a, 1) = a
      BY <1>2, <3>1
    <3>2. CASE TypeStr(a, 1) = [a EXCEPT !.editing = [@ EXCEPT !.text = one], !.preedit = FALSE]
      <4>1. PICK no \in BOOLEAN : no = FALSE
        OBVIOUS
      <4>2. PICK b : b = [a EXCEPT !.editing = [@ EXCEPT !.text = one], !.preedit = no]
        OBVIOUS
      <4>3. Fine(b) /\ b.tool = a.tool /\ b.editing # NoStroke
        BY <1>2, <4>2, EditedIsFine
      <4>4. TypeStr(a, 1) = b
        BY <3>2, <4>1, <4>2, Zenon
      <4> QED
        BY <4>3, <4>4
    <3> QED
      BY <2>4, <3>1, <3>2
  <2>6. ASSUME NEW on \in BOOLEAN
        PROVE  LET b == [a EXCEPT !.preedit = on] IN Fine(b) /\ b.tool = a.tool /\ b.editing # NoStroke
    <3> DEFINE b == [a EXCEPT !.preedit = on]
    <3>1. IsCanvas(b)
      BY DEF Fine, IsCanvas, Shaped, CanvasTyped, Coherent
    <3>2. b.stale = a.stale /\ b.tool = a.tool /\ b.editing = a.editing
      BY DEF Fine, IsCanvas, Shaped
    <3> QED
      BY <1>2, <3>1, <3>2 DEF Fine
  <2>7. Fine(SetPreedit(a, TRUE)) /\ SetPreedit(a, TRUE).tool = a.tool /\ SetPreedit(a, TRUE).editing # NoStroke
    <3>1. PICK yes \in BOOLEAN : yes = TRUE
      OBVIOUS
    <3>2. SetPreedit(a, TRUE) = [a EXCEPT !.preedit = yes]
      BY <1>2, <3>1 DEF SetPreedit
    <3> QED
      BY <2>6, <3>2
  <2>8. Fine(Backspace(a)) /\ Backspace(a).tool = a.tool /\ Backspace(a).editing # NoStroke
    <3>1. CASE a.preedit
      <4>1. PICK no \in BOOLEAN : no = FALSE
        OBVIOUS
      <4>2. Backspace(a) = [a EXCEPT !.preedit = no]
        BY <1>2, <3>1, <4>1 DEF Backspace
      <4> QED
        BY <2>6, <4>2
    <3>2. CASE ~a.preedit
      <4>1. PICK on \in BOOLEAN : on = a.preedit
        BY <2>1
      <4>2. Backspace(a) = [a EXCEPT !.editing = [@ EXCEPT !.text = less], !.preedit = on]
        BY <1>2, <2>2, <2>3, <3>2, <4>1 DEF Backspace, Shaped
      <4>3. PICK b : b = [a EXCEPT !.editing = [@ EXCEPT !.text = less], !.preedit = on]
        OBVIOUS
      <4>4. Fine(b) /\ b.tool = a.tool /\ b.editing # NoStroke
        BY ZenonT(60), <1>2, <4>3, EditedIsFine
      <4> QED
        BY <4>2, <4>3, <4>4
    <3> QED
      BY <2>1, <3>1, <3>2
  <2> QED
    BY <1>2, <2>5, <2>7, <2>8
<1> QED
  BY <1>1, <1>2

(* Undo and redo. *)
LEMMA FrontOfStrokes ==
    ASSUME NEW strokes \in Seq(Strokes), strokes # <<>>
    PROVE  Front(strokes) \in Strokes0 /\ Last(strokes) \in Strokes
<1>1. Len(strokes) \in Nat /\ Len(strokes) # 0 /\ \A i \in 1 .. Len(strokes) : strokes[i] \in Strokes
  BY LenProperties, ElementOfSeq, EmptySeq
<1>2. Last(strokes) \in Strokes
  BY <1>1 DEF Last
<1>3. Front(strokes) \in Seq(Strokes)
  <2>1. Front(strokes) = SubSeq(strokes, 1, Len(strokes) - 1)
    BY DEF Front
  <2>2. PICK n \in Nat : n = Len(strokes) - 1
    BY <1>1
  <2>3. SubSeq(strokes, 1, n) = [i \in 1 .. n |-> strokes[i]]
    BY <1>1, <2>2
  <2>4. \A i \in 1 .. n : strokes[i] \in Strokes
    BY <1>1, <2>2
  <2>5. [i \in 1 .. n |-> strokes[i]] \in Seq(Strokes)
    BY <2>4, IsASeq
  <2> QED
    BY <2>1, <2>2, <2>3, <2>5
<1> QED
  BY <1>2, <1>3 DEF Strokes0

LEMMA UndoIsFine ==
    ASSUME NEW a, Fine(a)
    PROVE  /\ Fine(Undo(a)) /\ Undo(a).tool = a.tool
           /\ Undo(a).editing # NoStroke => a.editing # NoStroke
<1>1. CASE a.editing # NoStroke
  <2>1. Undo(a) = EndEditing(a)
    BY <1>1 DEF Undo
  <2> QED
    BY <2>1, EndIsFine
<1>2. CASE a.editing = NoStroke /\ a.strokes # <<>>
  <2>1. PICK front, last : front = Front(a.strokes) /\ last = Last(a.strokes)
    OBVIOUS
  <2>2. front \in Strokes0 /\ last \in Strokes
    BY <1>2, <2>1, FrontOfStrokes DEF Fine, IsCanvas, CanvasTyped, Strokes0
  <2>3. PICK redo : redo = Append(a.redo, last)
    OBVIOUS
  <2>4. redo \in Strokes0
    BY <2>2, <2>3, SequencesOfStrokes DEF Fine, IsCanvas, CanvasTyped
  <2> DEFINE b == [a EXCEPT !.strokes = front, !.redo = redo]
  <2>5. Undo(a) = RebuildCache(b)
    BY <1>2, <2>1, <2>3 DEF Undo, Fine, IsCanvas, Shaped
  <2>6. Shaped(b) /\ CanvasTyped(b)
    BY <2>2, <2>4 DEF Fine, IsCanvas, Shaped, CanvasTyped
  <2>7. b.tool = a.tool /\ b.editing = a.editing
    BY DEF Fine, IsCanvas, Shaped
  <2> HIDE DEF b
  <2>8. IsCanvas(RebuildCache(b))
    BY <2>6, RebuildIsCanvas
  <2>9. ~RebuildCache(b).stale /\ RebuildCache(b).tool = b.tool /\ RebuildCache(b).editing = b.editing
    BY <2>6 DEF RebuildCache, Shaped
  <2> QED
    BY <2>5, <2>7, <2>8, <2>9 DEF Fine
<1>3. CASE a.editing = NoStroke /\ a.strokes = <<>>
  BY <1>3 DEF Undo
<1> QED
  BY <1>1, <1>2, <1>3

LEMMA RedoIsFine ==
    ASSUME NEW a, Fine(a)
    PROVE  Fine(Redo(a)) /\ Redo(a).tool = a.tool /\ Redo(a).editing = a.editing
<1>1. CASE a.redo = <<>>
  BY <1>1 DEF Redo
<1>2. CASE a.redo # <<>>
  <2>1. PICK front, last : front = Front(a.redo) /\ last = Last(a.redo)
    OBVIOUS
  <2>2. front \in Strokes0 /\ last \in Strokes
    BY <1>2, <2>1, FrontOfStrokes DEF Fine, IsCanvas, CanvasTyped, Strokes0
  <2> DEFINE b == [a EXCEPT !.redo = front]
  <2>3. Redo(a) = AppendStroke(b, last)
    BY <1>2, <2>1 DEF Redo
  <2>4. IsCanvas(b) /\ b.stale = a.stale /\ b.tool = a.tool /\ b.editing = a.editing
    BY <2>2 DEF Fine, IsCanvas, Shaped, CanvasTyped, Coherent
  <2> HIDE DEF b
  <2>5. IsCanvas(AppendStroke(b, last))
    BY <2>2, <2>4, AppendIsCanvas
  <2>6. /\ AppendStroke(b, last).stale = b.stale /\ AppendStroke(b, last).tool = b.tool
        /\ AppendStroke(b, last).editing = b.editing
    BY <2>4 DEF AppendStroke, IsCanvas, Shaped
  <2> QED
    BY <2>3, <2>4, <2>5, <2>6 DEF Fine
<1> QED
  BY <1>1, <1>2

OvShaped(s) ==
    s = [field \in {"mode", "rect", "orig", "anchor", "handle", "annotator", "annotating", "canvas",
                    "popup", "slider", "long"} |-> s[field]]

SelectorTyped(s) ==
    /\ s.mode \in {"Idle", "Selecting", "HasSelection", "Moving", "Resizing"}
    /\ s.rect \in Rects /\ s.orig \in Rects /\ s.anchor \in Positions /\ s.handle \in {"none", "w", "e"}

DrawingTyped(s) ==
    /\ s.annotating \in BOOLEAN /\ s.canvas \in Rects /\ s.popup \in {"none", "Color", "Size"}
    /\ s.slider \in BOOLEAN /\ s.long \in BOOLEAN

Whole(s) == /\ OvShaped(s) /\ SelectorTyped(s) /\ DrawingTyped(s) /\ Fine(s.annotator) /\ OwnerOf(s)

LEMMA WholeIs == \A s : Whole(s) <=> s \in OverlayStates /\ Cached(s.annotator) /\ OwnerOf(s)
<1>1. \A s : s \in OverlayStates <=> OvShaped(s) /\ SelectorTyped(s) /\ DrawingTyped(s) /\ s.annotator \in Annotators
  BY DEF OverlayStates, OvShaped, SelectorTyped, DrawingTyped
<1> QED
  BY <1>1, FineIs DEF Whole

LEMMA OverlaySizes == ScreenWidth \in Nat /\ ScreenWidth > 0 /\ MinSelection \in Nat /\ MinSelection > 0
                      /\ OverlayTools \subseteq Tools /\ Looks \subseteq Int
  BY OverlayAssumption

LEMMA NoRectIs == NoRect \in Rects /\ 0 \in Positions
  BY OverlaySizes DEF NoRect, Rects, Positions

LEMMA RectMade ==
    ASSUME NEW x \in Positions, NEW y \in Positions
    PROVE  Spanning(x, y) \in Rects /\ <<x, x>> \in Rects
<1>1. x \in Int /\ y \in Int
  BY OverlaySizes DEF Positions
<1>2. PICK l \in Positions, r \in Positions : l = Smaller(x, y) /\ r = Larger(x, y) /\ l <= r
  BY <1>1 DEF Smaller, Larger
<1>3. <<l, r>> \in Rects /\ <<x, x>> \in Rects
  BY <1>1, <1>2 DEF Rects
<1> QED
  BY <1>2, <1>3 DEF Spanning

(* What only moves the selector: the drawing is as it was. *)
DrawingKept(s, t) ==
    /\ OvShaped(t) /\ t.annotator = s.annotator /\ t.annotating = s.annotating /\ t.canvas = s.canvas
    /\ t.popup = s.popup /\ t.slider = s.slider /\ t.long = s.long

LEMMA SelectorMoves ==
    ASSUME NEW s, Whole(s), NEW t, DrawingKept(s, t), SelectorTyped(t)
    PROVE  Whole(t) /\ t.annotator = s.annotator
  BY DEF Whole, DrawingKept, DrawingTyped, OwnerOf, Supports

LEMMA PressMoves ==
    ASSUME NEW s, Whole(s), NEW x \in Positions
    PROVE  DrawingKept(s, SelectorPress(s, x)) /\ SelectorTyped(SelectorPress(s, x))
<1> DEFINE at == [s EXCEPT !.anchor = x, !.orig = s.rect, !.handle = "none"]
<1>1. DrawingKept(s, at) /\ SelectorTyped(at) /\ at.rect = s.rect
  BY DEF Whole, OvShaped, SelectorTyped, DrawingKept
<1>2. \/ SelectorPress(s, x) = [at EXCEPT !.mode = "Resizing", !.handle = "w"]
      \/ SelectorPress(s, x) = [at EXCEPT !.mode = "Resizing", !.handle = "e"]
      \/ SelectorPress(s, x) = [at EXCEPT !.mode = "Moving"]
      \/ SelectorPress(s, x) = [at EXCEPT !.mode = "Selecting", !.rect = <<x, x>>]
  BY DEF SelectorPress
<1>3. PICK point : point = <<x, x>> /\ point \in Rects
  BY RectMade
<1> HIDE DEF at
<1>4. CASE SelectorPress(s, x) = [at EXCEPT !.mode = "Resizing", !.handle = "w"]
  BY <1>1, <1>4 DEF DrawingKept, OvShaped, SelectorTyped
<1>5. CASE SelectorPress(s, x) = [at EXCEPT !.mode = "Resizing", !.handle = "e"]
  BY <1>1, <1>5 DEF DrawingKept, OvShaped, SelectorTyped
<1>6. CASE SelectorPress(s, x) = [at EXCEPT !.mode = "Moving"]
  BY <1>1, <1>6 DEF DrawingKept, OvShaped, SelectorTyped
<1>7. CASE SelectorPress(s, x) = [at EXCEPT !.mode = "Selecting", !.rect = <<x, x>>]
  <2>1. SelectorPress(s, x) = [at EXCEPT !.mode = "Selecting", !.rect = point]
    BY <1>3, <1>7
  <2> QED
    BY <1>1, <1>3, <2>1 DEF DrawingKept, OvShaped, SelectorTyped
<1> QED
  BY <1>2, <1>4, <1>5, <1>6, <1>7

LEMMA MovedRect ==
    ASSUME NEW orig \in Rects, NEW x \in Positions, NEW anchor \in Positions
    PROVE  LET width == orig[2] - orig[1]
               left == Smaller(Larger(orig[1] + x - anchor, 0), ScreenWidth - width)
           IN  <<left, left + width>> \in Rects
<1>1. PICK l \in Positions, r \in Positions : l = orig[1] /\ r = orig[2] /\ l <= r
  BY DEF Rects
<1>2. l \in Int /\ r \in Int /\ 0 <= l /\ r <= ScreenWidth /\ x \in Int /\ anchor \in Int /\ ScreenWidth \in Int
  BY OverlaySizes DEF Positions
<1>3. PICK width \in Nat : width = r - l /\ width <= ScreenWidth
  BY <1>1, <1>2
<1>4. PICK left \in Int : left = Smaller(Larger(l + x - anchor, 0), ScreenWidth - width)
                          /\ 0 <= left /\ left <= ScreenWidth - width
  BY <1>2, <1>3 DEF Smaller, Larger
<1>5. left \in Positions /\ left + width \in Positions /\ left <= left + width
  BY <1>2, <1>3, <1>4 DEF Positions
<1>6. <<left, left + width>> \in Rects
  BY <1>5 DEF Rects
<1> QED
  BY <1>1, <1>3, <1>4, <1>6

LEMMA MotionMoves ==
    ASSUME NEW s, Whole(s), NEW x \in Positions
    PROVE  DrawingKept(s, SelectorMotion(s, x)) /\ SelectorTyped(SelectorMotion(s, x))
<1>1. s.orig \in Rects /\ s.anchor \in Positions
  BY DEF Whole, SelectorTyped
<1> DEFINE width == s.orig[2] - s.orig[1]
           left == Smaller(Larger(s.orig[1] + x - s.anchor, 0), ScreenWidth - width)
<1>2. <<left, left + width>> \in Rects
  BY <1>1, MovedRect
<1>3. s.orig[1] \in Positions /\ s.orig[2] \in Positions
  BY <1>1 DEF Rects
<1>4. Spanning(s.anchor, x) \in Rects /\ Spanning(x, s.orig[2]) \in Rects /\ Spanning(s.orig[1], x) \in Rects
  BY <1>1, <1>3, RectMade
<1>5. SelectorMotion(s, x) = s \/ \E rect \in Rects : SelectorMotion(s, x) = [s EXCEPT !.rect = rect]
  <2>1. CASE s.mode = "Selecting"
    <3>1. SelectorMotion(s, x) = [s EXCEPT !.rect = Spanning(s.anchor, x)]
      BY <2>1 DEF SelectorMotion
    <3> QED
      BY <1>4, <3>1
  <2>2. CASE s.mode = "Moving"
    <3>1. SelectorMotion(s, x) = [s EXCEPT !.rect = <<left, left + width>>]
      BY <2>2 DEF SelectorMotion
    <3> QED
      BY <1>2, <3>1
  <2>3. CASE s.mode = "Resizing"
    <3>1. SelectorMotion(s, x) =
            [s EXCEPT !.rect = IF s.handle = "w" THEN Spanning(x, s.orig[2]) ELSE Spanning(s.orig[1], x)]
      BY <2>3 DEF SelectorMotion
    <3>2. PICK rect \in Rects :
            rect = IF s.handle = "w" THEN Spanning(x, s.orig[2]) ELSE Spanning(s.orig[1], x)
      BY <1>4
    <3> QED
      BY <3>1, <3>2
  <2>4. CASE s.mode \notin {"Selecting", "Moving", "Resizing"}
    BY <2>4 DEF SelectorMotion
  <2> QED
    BY <2>1, <2>2, <2>3, <2>4
<1>6. CASE SelectorMotion(s, x) = s
  BY <1>6 DEF Whole, DrawingKept
<1>7. ASSUME NEW rect \in Rects, SelectorMotion(s, x) = [s EXCEPT !.rect = rect]
      PROVE  DrawingKept(s, SelectorMotion(s, x)) /\ SelectorTyped(SelectorMotion(s, x))
  BY <1>7 DEF Whole, DrawingKept, OvShaped, SelectorTyped
<1> QED
  BY <1>5, <1>6, <1>7

LEMMA ReleaseMoves ==
    ASSUME NEW s, Whole(s)
    PROVE  /\ DrawingKept(s, SelectorClear(s)) /\ SelectorTyped(SelectorClear(s))
           /\ DrawingKept(s, SelectorRelease(s)) /\ SelectorTyped(SelectorRelease(s))
<1>1. PICK nowhere : nowhere = NoRect
  OBVIOUS
<1>2. nowhere \in Rects /\ 0 \in Positions
  BY <1>1, NoRectIs
<1> DEFINE over == [s EXCEPT !.handle = "none", !.anchor = 0, !.orig = nowhere]
<1>3. DragOver(s) = over
  BY <1>1 DEF DragOver
<1>4. DrawingKept(s, over) /\ SelectorTyped(over)
  BY <1>2 DEF Whole, OvShaped, SelectorTyped, DrawingKept
<1> HIDE DEF over
<1>5. SelectorClear(s) = [over EXCEPT !.rect = nowhere, !.mode = "Idle"]
  BY <1>1, <1>3 DEF SelectorClear
<1>6. DrawingKept(s, SelectorClear(s)) /\ SelectorTyped(SelectorClear(s))
  BY <1>2, <1>4, <1>5 DEF DrawingKept, OvShaped, SelectorTyped
<1>7. SelectorRelease(s) = SelectorClear(s) \/ SelectorRelease(s) = [over EXCEPT !.mode = "HasSelection"]
  BY <1>3 DEF SelectorRelease
<1>8. CASE SelectorRelease(s) = [over EXCEPT !.mode = "HasSelection"]
  BY <1>4, <1>6, <1>8 DEF DrawingKept, OvShaped, SelectorTyped
<1> QED
  BY <1>6, <1>7, <1>8

-----------------------------------------------------------------------------
(* What only draws: the selector is as it was. *)
SelectorKept(s, t) ==
    /\ OvShaped(t) /\ t.mode = s.mode /\ t.rect = s.rect /\ t.orig = s.orig /\ t.anchor = s.anchor
    /\ t.handle = s.handle /\ t.long = s.long

LEMMA Draws ==
    ASSUME NEW s, Whole(s), NEW t, SelectorKept(s, t), Fine(t.annotator),
           t.annotating \in BOOLEAN, t.canvas \in Rects, t.popup \in {"none", "Color", "Size"},
           t.slider \in BOOLEAN, OwnerOf(t)
    PROVE  Whole(t)
  BY DEF Whole, SelectorKept, SelectorTyped, DrawingTyped

(* Another canvas, or the same one drawn on. *)
LEMMA DrawsOn ==
    ASSUME NEW s, Whole(s), NEW b, Fine(b), s.annotating \/ b.editing = NoStroke,
           b.tool = s.annotator.tool \/ s.popup = "none"
    PROVE  LET t == [s EXCEPT !.annotator = b]
           IN  /\ Whole(t) /\ t.annotator = b /\ t.rect = s.rect /\ t.canvas = s.canvas
               /\ t.annotating = s.annotating
<1> DEFINE t == [s EXCEPT !.annotator = b]
<1>1. /\ SelectorKept(s, t) /\ t.annotator = b /\ t.rect = s.rect /\ t.canvas = s.canvas
      /\ t.annotating = s.annotating /\ t.popup = s.popup /\ t.slider = s.slider
  BY DEF Whole, OvShaped, SelectorKept
<1> HIDE DEF t
<1>2. OwnerOf(t)
  BY <1>1 DEF Whole, OwnerOf, Supports
<1>3. Whole(t)
  BY <1>1, <1>2, Draws DEF Whole, DrawingTyped
<1> QED
  BY <1>1, <1>3 DEF t

LEMMA Dismissed ==
    ASSUME NEW s, Whole(s)
    PROVE  LET t == DismissPopup(s)
           IN  /\ Whole(t) /\ t.annotator = s.annotator /\ t.rect = s.rect /\ t.canvas = s.canvas
               /\ t.annotating = s.annotating /\ t.popup = "none" /\ ~t.slider
<1> DEFINE t == DismissPopup(s)
<1>1. /\ SelectorKept(s, t) /\ t.annotator = s.annotator /\ t.rect = s.rect /\ t.canvas = s.canvas
      /\ t.annotating = s.annotating /\ t.popup = "none" /\ t.slider = FALSE
  BY DEF Whole, OvShaped, SelectorKept, DismissPopup
<1> HIDE DEF t
<1>2. OwnerOf(t)
  BY <1>1 DEF Whole, OwnerOf
<1>3. t.slider \in BOOLEAN /\ ~t.slider
  BY <1>1
<1>4. Whole(t)
  BY <1>1, <1>2, <1>3, Draws DEF Whole, DrawingTyped
<1> QED
  BY <1>1, <1>3, <1>4 DEF t

LEMMA Returned ==
    ASSUME NEW s, Whole(s)
    PROVE  LET t == ReturnToSelection(s)
           IN  /\ Whole(t) /\ t.annotator = CommitText(s.annotator) /\ t.rect = s.rect
               /\ t.canvas = s.canvas
<1> DEFINE r == DismissPopup(s)
           b == CommitText(s.annotator)
           t == [r EXCEPT !.annotator = b, !.annotating = FALSE]
<1>1. /\ Whole(r) /\ r.annotator = s.annotator /\ r.rect = s.rect /\ r.canvas = s.canvas
      /\ r.popup = "none" /\ ~r.slider
  BY Dismissed
<1>2. Fine(b) /\ b.editing = NoStroke
  BY CommitIsFine DEF Whole
<1>3. ReturnToSelection(s) = t
  BY <1>1 DEF ReturnToSelection, Whole, OvShaped
<1> HIDE DEF r, b
<1>4. /\ SelectorKept(r, t) /\ t.annotator = b /\ t.rect = r.rect /\ t.canvas = r.canvas
      /\ t.annotating = FALSE /\ t.popup = r.popup /\ t.slider = r.slider
  BY <1>1 DEF Whole, OvShaped, SelectorKept
<1> HIDE DEF t
<1>5. OwnerOf(t)
  BY <1>1, <1>2, <1>4 DEF OwnerOf
<1>6. t.annotating \in BOOLEAN
  BY <1>4
<1>7. Whole(t)
  BY <1>1, <1>2, <1>4, <1>5, <1>6, Draws DEF Whole, DrawingTyped
<1> QED
  BY <1>1, <1>3, <1>4, <1>7 DEF b

LEMMA Toggled ==
    ASSUME NEW s, Whole(s), s.annotating, NEW popup \in {"Color", "Size"}
    PROVE  LET t == TogglePopup(s, popup) IN Whole(t) /\ t.annotator = s.annotator /\ t.annotating = s.annotating
<1>1. CASE ~Supports(s)
  BY <1>1 DEF TogglePopup
<1>2. CASE Supports(s)
  <2> DEFINE next == IF s.popup = popup THEN "none" ELSE popup
             t == [s EXCEPT !.slider = FALSE, !.popup = next]
  <2>1. TogglePopup(s, popup) = t
    BY <1>2 DEF TogglePopup, Whole, OvShaped
  <2>2. next \in {"none", "Color", "Size"}
    OBVIOUS
  <2> HIDE DEF next
  <2>3. /\ SelectorKept(s, t) /\ t.annotator = s.annotator /\ t.rect = s.rect /\ t.canvas = s.canvas
        /\ t.annotating = s.annotating /\ t.popup = next /\ t.slider = FALSE
    BY DEF Whole, OvShaped, SelectorKept
  <2> HIDE DEF t
  <2>4. OwnerOf(t)
    BY <1>2, <2>3 DEF Whole, OwnerOf, Supports
  <2>5. t.slider \in BOOLEAN
    BY <2>3
  <2>6. Whole(t)
    BY <2>2, <2>3, <2>4, <2>5, Draws DEF Whole, DrawingTyped
  <2> QED
    BY <2>1, <2>3, <2>6
<1> QED
  BY <1>1, <1>2

LEMMA Begins ==
    ASSUME NEW s, Whole(s)
    PROVE  LET t == [s EXCEPT !.annotating = TRUE, !.canvas = s.rect, !.annotator = BeginCanvas(@)]
           IN  Whole(t) /\ t.annotator.editing = s.annotator.editing
<1> DEFINE b == BeginCanvas(s.annotator)
           t == [s EXCEPT !.annotating = TRUE, !.canvas = s.rect, !.annotator = b]
<1>1. Fine(b) /\ b.editing = s.annotator.editing /\ b.tool = s.annotator.tool
  BY BeginIsFine DEF Whole
<1>2. t = [s EXCEPT !.annotating = TRUE, !.canvas = s.rect, !.annotator = BeginCanvas(@)]
  BY DEF Whole, OvShaped
<1> HIDE DEF b
<1>3. /\ SelectorKept(s, t) /\ t.annotator = b /\ t.canvas = s.rect
      /\ t.annotating = TRUE /\ t.popup = s.popup /\ t.slider = s.slider
  BY DEF Whole, OvShaped, SelectorKept
<1> HIDE DEF t
<1>4. t.annotating \in BOOLEAN /\ t.annotating
  BY <1>3
<1>5. OwnerOf(t)
  BY <1>1, <1>3, <1>4 DEF Whole, OwnerOf, Supports
<1>6. Whole(t)
  BY <1>1, <1>3, <1>4, <1>5, Draws DEF Whole, SelectorTyped, DrawingTyped
<1> QED
  BY <1>1, <1>2, <1>3, <1>6

(* With the label that was typed among the strokes. *)
Settled(a, b) ==
    /\ Fine(b) /\ b.editing = NoStroke /\ b.active = a.active
    /\ \/ Label(a) = <<>> /\ b.strokes = a.strokes
       \/ \E s \in Strokes : Label(a) = <<s>> /\ b.strokes = Append(a.strokes, s)

LEMMA NothingMore == /\ \A ink \in Seq(Strokes) : ink \o <<>> = ink
                     /\ \A ink \in Seq(Strokes), s \in Strokes : ink \o <<s>> = Append(ink, s)
                     /\ <<>> \o <<>> = <<>> /\ \A s \in Strokes : <<>> \o <<s>> = <<s>>
                     /\ <<>> \in Seq(Strokes)
<1>1. <<>> \in Seq(Strokes)
  OBVIOUS
<1>2. \A ink \in Seq(Strokes) : ink \o <<>> = ink
  BY ConcatEmptySeq
<1>3. \A ink \in Seq(Strokes), s \in Strokes : ink \o <<s>> = Append(ink, s)
  OBVIOUS
<1>4. \A s \in Strokes : <<>> \o <<s>> = <<s>>
  OBVIOUS
<1> QED
  BY <1>1, <1>2, <1>3, <1>4

LEMMA InFlightIs ==
    ASSUME NEW a, a.active = NoStroke
    PROVE  InFlight(a) = <<>> \o Label(a)
  BY DEF InFlight, Label

(* The picture that is taken is the one that is shown. *)
LEMMA PictureIsShown ==
    ASSUME NEW s, Whole(s), NEW t, Settled(s.annotator, t.annotator), t.rect = s.rect, t.canvas = s.canvas,
           Valid(t.rect), t.annotator.active = NoStroke,
           Clip(t.annotator.strokes, t.canvas) = t.annotator.strokes,
           NEW action \in FinalActions \ {"long"}
    PROVE  Taken(t, action) = Shown(s)
<1>1. PICK a, b : a = s.annotator /\ b = t.annotator
  OBVIOUS
<1>2. Fine(a) /\ Fine(b) /\ b.editing = NoStroke /\ a.active = NoStroke /\ b.active = NoStroke
  BY <1>1 DEF Whole, Settled
<1>3. PICK ink, more : ink = a.strokes /\ more = b.strokes
  OBVIOUS
<1>4. ink \in Seq(Strokes) /\ more \in Seq(Strokes) /\ a.cache = ink /\ b.cache = more
  BY <1>2, <1>3 DEF Fine, IsCanvas, CanvasTyped, Coherent, Strokes0
<1>5. PICK rect, canvas : rect = s.rect /\ canvas = s.canvas /\ canvas \in Int \X Int
  <2>1. s.canvas \in Int \X Int
    BY OverlaySizes DEF Whole, DrawingTyped, Rects, Positions
  <2> QED
    BY <2>1
<1>6. Clip(more, canvas) = more
  BY <1>1, <1>3, <1>5
<1>7. Drawn(a, s) = Clip(Clip(ink, canvas) \o (<<>> \o Label(a)), rect)
  BY <1>2, <1>4, <1>5, InFlightIs DEF Drawn
<1>8. Shown(s) = Clip(more, rect)
  <2>1. CASE Label(a) = <<>> /\ more = ink
    <3>1. Drawn(a, s) = Clip(ink, rect)
      BY <1>4, <1>6, <1>7, <2>1, NothingMore
    <3>2. CASE s.annotating \/ HasContent(a)
      BY <1>1, <1>5, <2>1, <3>1, <3>2 DEF Shown
    <3>3. CASE ~(s.annotating \/ HasContent(a))
      <4>1. ink = <<>>
        BY <1>3, <3>3 DEF HasContent
      <4>2. Shown(s) = <<>>
        BY <1>1, <3>3 DEF Shown
      <4> QED
        BY <2>1, <4>1, <4>2, ClipOfNone
    <3> QED
      BY <3>2, <3>3
  <2>2. ASSUME NEW e \in Strokes, Label(a) = <<e>>, more = Append(ink, e) PROVE Shown(s) = Clip(more, rect)
    <3>1. Clip(ink, canvas) = ink
      BY <1>4, <1>5, <1>6, <2>2, WholeBefore
    <3>2. Drawn(a, s) = Clip(more, rect)
      <4>1. <<>> \o Label(a) = <<e>> /\ ink \o <<e>> = more
        BY <1>4, <2>2, NothingMore
      <4> QED
        BY <1>7, <3>1, <4>1
    <3>3. HasContent(a)
      BY <2>2 DEF Label, HasContent
    <3> QED
      BY <1>1, <3>2, <3>3 DEF Shown
  <2> QED
    BY <1>1, <1>3, <2>1, <2>2 DEF Settled
<1>9. CASE action # "pin"
  <2>1. Taken(t, action) = Clip(SnapshotObjects(b), rect)
    BY <1>1, <1>5, <1>9 DEF Taken, FinalActions
  <2>2. SnapshotObjects(b) = more \o <<>> \o <<>>
    BY <1>2, <1>3 DEF SnapshotObjects
  <2>3. SnapshotObjects(b) = more
    BY <1>4, <2>2, NothingMore
  <2> QED
    BY <1>8, <2>1, <2>3
<1>10. CASE action = "pin"
  <2>1. PICK c : c = CommitText(b)
    OBVIOUS
  <2>2. Label(b) = <<>>
    BY <1>2 DEF Label
  <2>3. Fine(c) /\ c.editing = NoStroke /\ c.active = NoStroke /\ c.strokes = more
    <3>1. /\ Fine(c) /\ c.editing = NoStroke /\ c.active = b.active
          /\ \/ Label(b) = <<>> /\ c.strokes = b.strokes
             \/ \E e \in Strokes : Label(b) = <<e>> /\ c.strokes = Append(b.strokes, e)
      BY <1>2, <2>1, CommitIsFine
    <3>2. \A e : <<e>> # <<>>
      OBVIOUS
    <3> QED
      BY <1>2, <1>3, <2>2, <3>1, <3>2
  <2>4. c.cache = more /\ Label(c) = <<>>
    BY <2>3 DEF Fine, IsCanvas, Coherent, Label
  <2>5. Drawn(c, t) = Clip(Clip(more, canvas) \o (<<>> \o <<>>), rect)
    BY <1>5, <2>3, <2>4, InFlightIs DEF Drawn
  <2>6. Drawn(c, t) = Clip(more, rect)
    BY <1>4, <1>6, <2>5, NothingMore
  <2>7. Taken(t, action) = Drawn(c, t)
    BY <1>1, <1>10, <2>1 DEF Taken
  <2> QED
    BY <1>8, <2>6, <2>7
<1> QED
  BY <1>9, <1>10

-----------------------------------------------------------------------------
(* What a step may tell the handler, about the state it leaves. *)
OutcomeTrue(t, told) ==
    /\ told.action \in FinalActions \cup {"none", "cancel"}
    /\ /\ told.action \in FinalActions \ {"long"} /\ t.annotator.active = NoStroke
       /\ Clip(t.annotator.strokes, t.canvas) = t.annotator.strokes
       => told.picture = Shown(csState)

LEMMA OverlayFacts ==
    OverlayInv => /\ Whole(csState) /\ csIm \in BOOLEAN /\ csDown \in BOOLEAN /\ csGrace \in BOOLEAN
                  /\ csLaid \in BOOLEAN /\ csIm = (csState.annotator.editing # NoStroke)
                  /\ csOutcome = NoOutcome => csScreen = Shown(csState)
  BY WholeIs DEF OverlayInv

LEMMA OverlayMade ==
    ASSUME OverlayInv, Open, NEW next, Whole(next), csState' = next, csDown' \in BOOLEAN,
           csGrace' \in BOOLEAN, csLaid' \in BOOLEAN, csIm' = (next.annotator.editing # NoStroke),
           OutcomeTrue(next, csOutcome'),
           csOutcome' = NoOutcome => csScreen' = Shown(next),
           csOutcome' # NoOutcome => csScreen' = csScreen
    PROVE  OverlayInv'
<1>1. next \in OverlayStates /\ Cached(next.annotator) /\ OwnerOf(next)
  BY WholeIs
<1>2. csState' \in OverlayStates /\ Cached(csState'.annotator) /\ OwnerOf(csState')
  BY <1>1
<1>3. csIm' \in BOOLEAN
  OBVIOUS
<1>4. csScreen = Shown(csState)
  BY OverlayFacts DEF Open
<1>5. FinishedInkCaptured'
  <2> SUFFICES ASSUME csOutcome'.action \in FinalActions \ {"long"}, next.annotator.active = NoStroke,
                      Clip(next.annotator.strokes, next.canvas) = next.annotator.strokes
               PROVE  csOutcome'.picture = csScreen'
    BY DEF FinishedInkCaptured
  <2>1. csOutcome'.picture = Shown(csState)
    BY DEF OutcomeTrue
  <2>2. csOutcome' # NoOutcome
    BY DEF NoOutcome, FinalActions
  <2> QED
    BY <1>4, <2>1, <2>2
<1>6. csOutcome'.action \in FinalActions \cup {"none", "cancel"}
  BY DEF OutcomeTrue
<1>7. csIm' = (csState'.annotator.editing # NoStroke)
  OBVIOUS
<1>8. csOutcome' = NoOutcome => csScreen' = Shown(csState')
  OBVIOUS
<1> QED
  BY <1>2, <1>3, <1>5, <1>6, <1>7, <1>8 DEF OverlayInv

LEMMA DrawnStep ==
    ASSUME OverlayInv, Open, NEW next, Whole(next), csState' = next, csDown' \in BOOLEAN,
           csGrace' \in BOOLEAN, csIm' = (next.annotator.editing # NoStroke),
           OutcomeTrue(next, csOutcome'), Redraw
    PROVE  OverlayInv'
<1>1. csLaid' \in BOOLEAN
  BY OverlayFacts DEF Redraw
<1>2. csScreen' = IF csOutcome' = NoOutcome THEN Shown(next) ELSE csScreen
  BY DEF Redraw
<1> QED
  BY <1>1, <1>2, OverlayMade

LEMMA NothingTold == ASSUME Open, csOutcome' = csOutcome PROVE \A next : OutcomeTrue(next, csOutcome')
  BY DEF Open, OutcomeTrue, NoOutcome, FinalActions

LEMMA Cancelled == \A next : OutcomeTrue(next, [action |-> "cancel", picture |-> <<>>])
  BY DEF OutcomeTrue, FinalActions

LEMMA Handed ==
    ASSUME OverlayInv, Open, NEW next, Settled(csState.annotator, next.annotator), next.rect = csState.rect,
           next.canvas = csState.canvas, NEW action \in FinalActions, Invoke(next, action)
    PROVE  OutcomeTrue(next, csOutcome')
<1>1. CASE Valid(next.rect)
  <2>1. csOutcome' = [action |-> action, picture |-> Taken(next, action)]
    BY <1>1 DEF Invoke, Emit
  <2>2. csOutcome'.action = action /\ csOutcome'.picture = Taken(next, action)
    BY <2>1
  <2> SUFFICES ASSUME action # "long", next.annotator.active = NoStroke,
                      Clip(next.annotator.strokes, next.canvas) = next.annotator.strokes
               PROVE  Taken(next, action) = Shown(csState)
    BY <2>2 DEF OutcomeTrue
  <2>3. Whole(csState)
    BY OverlayFacts
  <2> QED
    BY <1>1, <2>3, PictureIsShown
<1>2. CASE ~Valid(next.rect)
  <2>1. csOutcome' = csOutcome
    BY <1>2 DEF Invoke
  <2> QED
    BY <2>1, NothingTold
<1> QED
  BY <1>1, <1>2

LEMMA Unlabelled ==
    ASSUME NEW s, Whole(s), ~s.annotating
    PROVE  s.annotator.editing = NoStroke /\ Settled(s.annotator, s.annotator)
<1>1. s.annotator.editing = NoStroke /\ Fine(s.annotator)
  BY DEF Whole, OwnerOf
<1>2. Label(s.annotator) = <<>>
  BY <1>1 DEF Label
<1> QED
  BY <1>1, <1>2 DEF Settled

LEMMA CommitSettles ==
    ASSUME NEW a, Fine(a)
    PROVE  Settled(a, CommitText(a))
  BY CommitIsFine DEF Settled

(* A button or a key that takes a picture, or ends the overlay. *)
LEMMA DispatchFinal ==
    ASSUME OverlayInv, Open, NEW s, Whole(s), Settled(csState.annotator, s.annotator), s.rect = csState.rect,
           s.canvas = csState.canvas, NEW action \in FinalActions \cup {"cancel"}, Dispatch(s, action)
    PROVE  csState' = s /\ OutcomeTrue(s, csOutcome')
<1>1. Local(s, action) = s
  BY DEF Local, FinalActions, Tools
<1>2. csState' = s
  BY <1>1 DEF Dispatch
<1>3. CASE action = "cancel"
  <2>1. csOutcome' = [action |-> "cancel", picture |-> <<>>]
    BY <1>3 DEF Dispatch, Emit
  <2> QED
    BY <1>2, <2>1, Cancelled
<1>4. CASE action # "cancel"
  <2>1. Invoke(s, action) /\ action \in FinalActions
    BY <1>1, <1>4 DEF Dispatch
  <2> QED
    BY <1>2, <2>1, Handed
<1> QED
  BY <1>3, <1>4

(* The others. *)
LEMMA LocalIsWhole ==
    ASSUME NEW s, Whole(s), NEW action \in AnnotateButtons \cup {"annotate"},
           action # "annotate" => s.annotating
    PROVE  Whole(Local(s, action))
<1>0. Fine(s.annotator)
  BY DEF Whole
<1>1. CASE action = "annotate"
  <2> DEFINE t == [s EXCEPT !.annotating = TRUE, !.canvas = s.rect, !.annotator = BeginCanvas(@)]
  <2>1. Whole(t)
    BY Begins
  <2>2. Local(s, action) = t \/ Local(s, action) = s
    BY <1>1 DEF Local, Tools
  <2> HIDE DEF t
  <2> QED
    BY <2>1, <2>2
<1>2. CASE action \in {"anno.back", "anno.done"}
  <2>1. Local(s, action) = ReturnToSelection(s)
    BY <1>2 DEF Local, Tools
  <2> QED
    BY <2>1, Returned
<1>3. CASE action \in {"anno.undo", "anno.redo"}
  <2>1. PICK b : b = IF action = "anno.undo" THEN Undo(s.annotator) ELSE Redo(s.annotator)
    OBVIOUS
  <2>2. Fine(b) /\ b.tool = s.annotator.tool
    BY <1>0, <2>1, UndoIsFine, RedoIsFine
  <2>3. Local(s, action) = [s EXCEPT !.annotator = b]
    BY <1>3, <2>1 DEF Local, Tools, Whole, OvShaped
  <2>4. s.annotating
    BY <1>3
  <2> QED
    BY <2>2, <2>3, <2>4, DrawsOn
<1>4. CASE action \in {"anno.color", "anno.width"}
  <2>1. PICK popup \in {"Color", "Size"} : Local(s, action) = TogglePopup(s, popup)
    BY <1>4 DEF Local, Tools
  <2>2. s.annotating
    BY <1>4
  <2> QED
    BY <2>1, <2>2, Toggled
<1>5. CASE action \in Tools
  <2>1. PICK r : r = DismissPopup(s)
    OBVIOUS
  <2>2. Whole(r) /\ r.annotator = s.annotator /\ r.annotating = s.annotating /\ r.popup = "none"
    BY <2>1, Dismissed
  <2>3. PICK b : b = SetTool(r.annotator, action)
    OBVIOUS
  <2>4. Fine(b)
    BY <1>0, <1>5, <2>2, <2>3, SetToolIsFine
  <2>5. Local(s, action) = [r EXCEPT !.annotator = SetTool(@, action)]
    BY <1>5, <2>1 DEF Local, Tools
  <2>6. Local(s, action) = [r EXCEPT !.annotator = b]
    BY <2>2, <2>3, <2>5 DEF Whole, OvShaped
  <2>7. s.annotating
    BY <1>5 DEF Tools
  <2>8. r.annotating
    BY <2>2, <2>7
  <2>9. PICK t : t = [r EXCEPT !.annotator = b]
    OBVIOUS
  <2>10. Whole(t)
    BY <2>2, <2>4, <2>8, <2>9, DrawsOn
  <2> QED
    BY <2>6, <2>9, <2>10
<1> QED
  BY <1>1, <1>2, <1>3, <1>4, <1>5, OverlaySizes DEF AnnotateButtons

LEMMA DispatchLocal ==
    ASSUME OverlayInv, Open, NEW action \in AnnotateButtons \cup {"annotate"},
           action # "annotate" => csState.annotating, Dispatch(csState, action)
    PROVE  \E next : Whole(next) /\ csState' = next /\ OutcomeTrue(next, csOutcome')
<1>1. PICK next : next = Local(csState, action)
  OBVIOUS
<1>2. Whole(csState)
  BY OverlayFacts
<1>3. Whole(next) /\ csState' = next
  BY <1>1, <1>2, LocalIsWhole DEF Dispatch
<1>4. action # "cancel" /\ action \notin FinalActions
  BY OverlaySizes DEF AnnotateButtons, FinalActions, Tools
<1>5. CASE action = "anno.done" /\ HasContent(next.annotator)
  <2>1. Invoke(next, "confirm")
    BY <1>1, <1>4, <1>5 DEF Dispatch
  <2>2. next = ReturnToSelection(csState)
    BY <1>1, <1>5 DEF Local, Tools
  <2>3. next.annotator = CommitText(csState.annotator) /\ next.rect = csState.rect /\ next.canvas = csState.canvas
    BY <1>2, <2>2, Returned
  <2>4. Settled(csState.annotator, next.annotator)
    BY <1>2, <2>3, CommitSettles DEF Whole
  <2>5. PICK confirm \in FinalActions : confirm = "confirm"
    BY DEF FinalActions
  <2>6. OutcomeTrue(next, csOutcome')
    BY <2>1, <2>3, <2>4, <2>5, Handed
  <2> QED
    BY <1>3, <2>6
<1>6. CASE ~(action = "anno.done" /\ HasContent(next.annotator))
  <2>1. csOutcome' = csOutcome
    BY <1>1, <1>4, <1>6 DEF Dispatch
  <2> QED
    BY <1>3, <2>1, NothingTold
<1> QED
  BY <1>5, <1>6

LEMMA InputIsOpen == Input => Open /\ csGrace' \in BOOLEAN
  BY DEF Input

LEMMA PressedIsInput == Pressed => Input
  BY DEF Pressed

LEMMA PositionIsInt == \A x \in Positions : x \in Int
  BY OverlaySizes DEF Positions

LEMMA LookIsInt == \A look \in Looks : look \in Int
  BY OverlaySizes

(* The input method, synchronised or left as it is. *)
LEMMA Attached ==
    ASSUME NEW next, csState' = next, Sync
    PROVE  csIm' = (next.annotator.editing # NoStroke)
  BY DEF Sync

LEMMA LeftAttached ==
    ASSUME OverlayInv, NEW next, csIm' = csIm,
           next.annotator.editing = NoStroke <=> csState.annotator.editing = NoStroke
    PROVE  csIm' = (next.annotator.editing # NoStroke)
<1>1. csIm = (csState.annotator.editing # NoStroke)
  BY OverlayFacts
<1> QED
  BY <1>1

(* The pointer. *)
LEMMA PressSurfaceStep == ASSUME OverlayInv, NEW x \in Positions, PressSurface(x) PROVE OverlayInv'
<1>1. Whole(csState) /\ Open /\ csGrace' \in BOOLEAN
  BY OverlayFacts, PressedIsInput, InputIsOpen DEF PressSurface
<1>2. PICK next : next = IF csState.annotating THEN AnnotatePress(csState, x) ELSE SelectorPress(csState, x)
  OBVIOUS
<1>3. Whole(next)
  <2>1. CASE csState.annotating
    <3>1. CASE AnnotatePress(csState, x) = DismissPopup(csState)
      <4>1. Whole(DismissPopup(csState))
        BY <1>1, Dismissed
      <4> QED
        BY <1>2, <2>1, <3>1, <4>1
    <3>2. CASE AnnotatePress(csState, x) = csState
      BY <1>1, <1>2, <2>1, <3>2
    <3>3. CASE AnnotatePress(csState, x) = [csState EXCEPT !.annotator = Press(@, x)]
      <4>1. PICK b : b = Press(csState.annotator, x)
        OBVIOUS
      <4>2. Fine(b) /\ b.tool = csState.annotator.tool
        BY <1>1, <4>1, PressIsFine, PositionIsInt DEF Whole
      <4>3. PICK t : t = [csState EXCEPT !.annotator = b]
        OBVIOUS
      <4>4. Whole(t)
        BY <1>1, <2>1, <4>2, <4>3, DrawsOn
      <4>5. next = t
        BY <1>1, <1>2, <2>1, <3>3, <4>1, <4>3 DEF Whole, OvShaped
      <4> QED
        BY <4>4, <4>5
    <3> QED
      BY <3>1, <3>2, <3>3 DEF AnnotatePress
  <2>2. CASE ~csState.annotating
    <3>1. DrawingKept(csState, SelectorPress(csState, x)) /\ SelectorTyped(SelectorPress(csState, x))
      BY <1>1, PressMoves
    <3> QED
      BY <1>1, <1>2, <2>2, <3>1, SelectorMoves
  <2> QED
    BY <2>1, <2>2
<1>4. csState' = next /\ csDown' \in BOOLEAN /\ csOutcome' = csOutcome /\ Sync /\ Redraw
  BY <1>2 DEF PressSurface
<1>5. OutcomeTrue(next, csOutcome')
  BY <1>1, <1>4, NothingTold
<1> QED
  BY <1>1, <1>3, <1>4, <1>5, Attached, DrawnStep

(* A button, or a key that acts as one. *)
LEMMA CommandStep ==
    ASSUME OverlayInv, Open, csGrace' \in BOOLEAN, csDown' \in BOOLEAN,
           NEW action \in AnnotateButtons \cup FinalActions \cup {"cancel", "annotate"},
           IF csState.annotating THEN action \in AnnotateButtons
                                 ELSE action \in FinalActions \cup {"cancel", "annotate"},
           Dispatch(csState, action), Sync, Redraw
    PROVE  OverlayInv'
<1>1. Whole(csState)
  BY OverlayFacts
<1>2. \E next : Whole(next) /\ csState' = next /\ OutcomeTrue(next, csOutcome')
  <2>1. CASE action \in FinalActions \cup {"cancel"} /\ ~csState.annotating
    <3>1. PICK s : s = csState
      OBVIOUS
    <3>2. Settled(csState.annotator, s.annotator) /\ Whole(s)
      BY <1>1, <2>1, <3>1, Unlabelled
    <3>3. csState' = s /\ OutcomeTrue(s, csOutcome')
      BY <2>1, <3>1, <3>2, DispatchFinal
    <3> QED
      BY <3>2, <3>3
  <2>2. CASE action \in AnnotateButtons /\ csState.annotating
    BY <2>2, DispatchLocal
  <2>3. CASE action = "annotate" /\ ~csState.annotating
    BY <2>3, DispatchLocal
  <2> QED
    BY <2>1, <2>2, <2>3
<1>3. PICK next : Whole(next) /\ csState' = next /\ OutcomeTrue(next, csOutcome')
  BY <1>2
<1> QED
  BY <1>3, Attached, DrawnStep

LEMMA PressButtonStep ==
    ASSUME OverlayInv, NEW action \in AnnotateButtons \cup FinalActions \cup {"cancel", "annotate"},
           PressButton(action)
    PROVE  OverlayInv'
<1>1. Open /\ csGrace' \in BOOLEAN /\ csDown' \in BOOLEAN
  BY PressedIsInput, InputIsOpen DEF PressButton
<1>2. IF csState.annotating THEN action \in AnnotateButtons ELSE action \in FinalActions \cup {"cancel", "annotate"}
  BY DEF PressButton
<1>3. Dispatch(csState, action) /\ Sync /\ Redraw
  BY DEF PressButton
<1> QED
  BY <1>1, <1>2, <1>3, CommandStep

LEMMA PressPaddingStep == OverlayInv /\ PressPadding => OverlayInv'
<1> SUFFICES ASSUME OverlayInv, PressPadding PROVE OverlayInv'
  OBVIOUS
<1>1. Whole(csState) /\ Open /\ csGrace' \in BOOLEAN
  BY OverlayFacts, PressedIsInput, InputIsOpen DEF PressPadding
<1>2. PICK next : next = csState
  OBVIOUS
<1>3. Whole(next) /\ csState' = next /\ csDown' \in BOOLEAN /\ csOutcome' = csOutcome /\ Sync /\ Redraw
  BY <1>1, <1>2 DEF PressPadding
<1>4. OutcomeTrue(next, csOutcome')
  BY <1>1, <1>3, NothingTold
<1> QED
  BY <1>1, <1>3, <1>4, Attached, DrawnStep

LEMMA PressPopupStep == OverlayInv /\ PressPopup => OverlayInv'
<1> SUFFICES ASSUME OverlayInv, PressPopup PROVE OverlayInv'
  OBVIOUS
<1>1. Whole(csState) /\ Open /\ csGrace' \in BOOLEAN
  BY OverlayFacts, PressedIsInput, InputIsOpen DEF PressPopup
<1>2. PICK look \in Looks :
        csState' = [csState EXCEPT !.annotator = SetLook(@, look),
                                   !.popup = IF @ = "Color" THEN "none" ELSE @,
                                   !.slider = (csState.popup = "Size")]
  BY DEF PressPopup
<1>3. PICK b : b = SetLook(csState.annotator, look)
  OBVIOUS
<1>4. Fine(b) /\ b.tool = csState.annotator.tool /\ csState.annotating
  BY <1>1, <1>2, <1>3, SetLookIsFine, LookIsInt DEF Whole, PressPopup
<1>5. PICK popup, slider : popup = (IF csState.popup = "Color" THEN "none" ELSE csState.popup)
                           /\ slider = (csState.popup = "Size")
  OBVIOUS
<1> DEFINE next == [csState EXCEPT !.annotator = b, !.popup = popup, !.slider = slider]
<1>6. csState' = next
  BY <1>1, <1>2, <1>3, <1>5 DEF Whole, OvShaped
<1>7. /\ SelectorKept(csState, next) /\ next.annotator = b /\ next.canvas = csState.canvas
      /\ next.annotating = csState.annotating /\ next.popup = popup /\ next.slider = slider
  BY <1>1 DEF Whole, OvShaped, SelectorKept
<1>8. slider \in BOOLEAN /\ (slider => popup = "Size") /\ popup \in {"none", csState.popup}
      /\ popup \in {"none", "Color", "Size"}
  BY <1>1, <1>5 DEF Whole, DrawingTyped
<1> HIDE DEF next
<1>9. OwnerOf(next)
  BY <1>1, <1>4, <1>7, <1>8 DEF Whole, OwnerOf, Supports
<1>10. Whole(next)
  BY <1>1, <1>4, <1>7, <1>8, <1>9, Draws DEF Whole, DrawingTyped
<1>11. csDown' \in BOOLEAN /\ csOutcome' = csOutcome /\ Sync /\ Redraw
  BY DEF PressPopup
<1>12. OutcomeTrue(next, csOutcome')
  BY <1>1, <1>11, NothingTold
<1> QED
  BY <1>1, <1>6, <1>10, <1>11, <1>12, Attached, DrawnStep

LEMMA RightPressStep == OverlayInv /\ RightPress => OverlayInv'
<1> SUFFICES ASSUME OverlayInv, RightPress PROVE OverlayInv'
  OBVIOUS
<1>1. Whole(csState) /\ Open /\ csGrace' \in BOOLEAN /\ csDown \in BOOLEAN
  BY OverlayFacts, PressedIsInput, InputIsOpen DEF RightPress
<1>2. csDown' \in BOOLEAN /\ csOutcome' = csOutcome /\ Sync /\ Redraw
  BY <1>1 DEF RightPress
<1>3. \E next : Whole(next) /\ csState' = next
  <2>1. CASE csState.annotating
    BY <1>1, <2>1 DEF RightPress
  <2>2. CASE ~csState.annotating
    <3>1. PICK cleared : cleared = SelectorClear(csState)
      OBVIOUS
    <3>2. DrawingKept(csState, cleared) /\ SelectorTyped(cleared)
      BY <1>1, <3>1, ReleaseMoves
    <3>3. Whole(cleared)
      BY <1>1, <3>2, SelectorMoves
    <3>4. cleared.popup = "none"
      BY <1>1, <2>2, <3>2 DEF DrawingKept, Whole, OwnerOf, DrawingTyped
    <3>5. PICK b : b = NewAnnotator
      OBVIOUS
    <3>6. Fine(b) /\ b.editing = NoStroke
      BY <3>5, NewIsFine
    <3>7. PICK t : t = [cleared EXCEPT !.annotator = b]
      OBVIOUS
    <3>8. Whole(t)
      BY <3>3, <3>4, <3>6, <3>7, DrawsOn
    <3>9. csState' = t
      BY <2>2, <3>1, <3>5, <3>7 DEF RightPress
    <3> QED
      BY <3>8, <3>9
  <2> QED
    BY <2>1, <2>2
<1>4. PICK next : Whole(next) /\ csState' = next
  BY <1>3
<1>5. OutcomeTrue(next, csOutcome')
  BY <1>1, <1>2, NothingTold
<1> QED
  BY <1>1, <1>2, <1>4, <1>5, Attached, DrawnStep

LEMMA ReleaseButtonStep == ASSUME OverlayInv, NEW x \in Positions, ReleaseButton(x) PROVE OverlayInv'
<1>1. Whole(csState) /\ Open /\ csGrace' \in BOOLEAN /\ csDown' \in BOOLEAN /\ csIm' = csIm
  BY OverlayFacts, InputIsOpen DEF ReleaseButton
<1> DEFINE s == [csState EXCEPT !.slider = FALSE]
<1>2. /\ SelectorKept(csState, s) /\ s.annotator = csState.annotator /\ s.canvas = csState.canvas
      /\ s.annotating = csState.annotating /\ s.popup = csState.popup /\ s.slider = FALSE
  BY <1>1 DEF Whole, OvShaped, SelectorKept
<1>3. csState' = CASE csState.slider                        -> s
                   [] ~csState.slider /\ s.annotating       -> [s EXCEPT !.annotator = Release(@, x)]
                   [] ~csState.slider /\ ~s.annotating      -> SelectorRelease([csState EXCEPT !.slider = FALSE])
  BY DEF ReleaseButton
<1>4. IF /\ ~csState.slider /\ ~csState.annotating /\ csState.long
         /\ csState.mode = "Selecting" /\ csState'.mode = "HasSelection"
      THEN Invoke(csState', "long") ELSE csOutcome' = csOutcome
  BY DEF ReleaseButton
<1>5. [csState EXCEPT !.slider = FALSE] = s
  OBVIOUS
<1> HIDE DEF s
<1>6. s.slider \in BOOLEAN /\ ~s.slider
  BY <1>2
<1>7. OwnerOf(s)
  BY <1>1, <1>2, <1>6 DEF Whole, OwnerOf, Supports
<1>8. Whole(s)
  BY <1>1, <1>2, <1>6, <1>7, Draws DEF Whole, DrawingTyped
<1>9. \E next : Whole(next) /\ csState' = next
                /\ (next.annotator.editing = NoStroke <=> csState.annotator.editing = NoStroke)
  <2>1. CASE csState.slider
    BY <1>2, <1>3, <1>8, <2>1
  <2>2. CASE ~csState.slider /\ s.annotating
    <3>1. PICK b : b = Release(s.annotator, x)
      OBVIOUS
    <3>2. Fine(b) /\ b.tool = s.annotator.tool /\ b.editing = s.annotator.editing
      BY <1>8, <3>1, ReleaseIsFine, PositionIsInt DEF Whole
    <3>3. PICK t : t = [s EXCEPT !.annotator = b]
      OBVIOUS
    <3>4. Whole(t) /\ t.annotator = b
      BY <1>8, <2>2, <3>2, <3>3, DrawsOn
    <3>5. csState' = t
      BY <1>3, <1>8, <2>2, <3>1, <3>3 DEF Whole, OvShaped
    <3> QED
      BY <1>2, <3>2, <3>4, <3>5
  <2>3. CASE ~csState.slider /\ ~s.annotating
    <3>1. PICK t : t = SelectorRelease(s)
      OBVIOUS
    <3>2. DrawingKept(s, t) /\ SelectorTyped(t)
      BY <1>8, <3>1, ReleaseMoves
    <3>3. Whole(t) /\ t.annotator = s.annotator
      BY <1>8, <3>2, SelectorMoves
    <3>4. csState' = t
      BY <1>3, <1>5, <2>3, <3>1
    <3> QED
      BY <1>2, <3>3, <3>4
  <2> QED
    BY <2>1, <2>2, <2>3
<1>10. PICK next : Whole(next) /\ csState' = next
                /\ (next.annotator.editing = NoStroke <=> csState.annotator.editing = NoStroke)
  BY <1>9
<1>11. csIm' = (next.annotator.editing # NoStroke)
  BY <1>1, <1>10, LeftAttached
<1>12. OutcomeTrue(next, csOutcome')
  <2>1. CASE csOutcome' = csOutcome
    BY <1>1, <2>1, NothingTold
  <2>2. CASE Invoke(csState', "long") /\ csOutcome' # csOutcome
    <3>1. csOutcome' = [action |-> "long", picture |-> Taken(next, "long")]
      BY <1>10, <2>2 DEF Invoke, Emit
    <3>2. csOutcome'.action = "long"
      BY <3>1
    <3> QED
      BY <3>2 DEF OutcomeTrue, FinalActions
  <2> QED
    BY <1>4, <2>1, <2>2
<1>13. Redraw
  BY DEF ReleaseButton
<1> QED
  BY <1>1, <1>10, <1>11, <1>12, <1>13, DrawnStep

LEMMA LookStep ==
    ASSUME OverlayInv, Open, csState.annotating \/ csState.slider, NEW look \in Looks,
           csState' = [csState EXCEPT !.annotator = SetLook(@, look)]
    PROVE  \E next : Whole(next) /\ csState' = next
                     /\ (next.annotator.editing = NoStroke <=> csState.annotator.editing = NoStroke)
<1>1. Whole(csState)
  BY OverlayFacts
<1>2. PICK b : b = SetLook(csState.annotator, look)
  OBVIOUS
<1>3. Fine(b) /\ b.tool = csState.annotator.tool /\ (b.editing = NoStroke <=> csState.annotator.editing = NoStroke)
  BY <1>1, <1>2, SetLookIsFine, LookIsInt DEF Whole
<1>4. csState.annotating
  BY <1>1 DEF Whole, OwnerOf
<1>5. PICK t : t = [csState EXCEPT !.annotator = b]
  OBVIOUS
<1>6. Whole(t) /\ t.annotator = b
  BY <1>1, <1>3, <1>4, <1>5, DrawsOn
<1>7. csState' = t
  BY <1>1, <1>2, <1>5 DEF Whole, OvShaped
<1> QED
  BY <1>3, <1>6, <1>7

LEMMA MovePointerStep == ASSUME OverlayInv, NEW x \in Positions, MovePointer(x) PROVE OverlayInv'
<1>1. Whole(csState) /\ Open /\ csGrace' \in BOOLEAN /\ csDown' \in BOOLEAN /\ csIm' = csIm
      /\ csOutcome' = csOutcome /\ Redraw
  BY OverlayFacts, InputIsOpen DEF MovePointer
<1>2. PICK look \in Looks :
       csState' = CASE csState.slider -> [csState EXCEPT !.annotator = SetLook(@, look)]
                    [] ~csState.slider /\ csState.annotating ->
                          [csState EXCEPT !.annotator = Motion(@, x)]
                    [] ~csState.slider /\ ~csState.annotating -> SelectorMotion(csState, x)
  BY DEF MovePointer
<1>3. \E next : Whole(next) /\ csState' = next
                /\ (next.annotator.editing = NoStroke <=> csState.annotator.editing = NoStroke)
  <2>1. CASE csState.slider
    <3>1. csState' = [csState EXCEPT !.annotator = SetLook(@, look)]
      BY <1>2, <2>1
    <3> QED
      BY <1>1, <2>1, <3>1, LookStep
  <2>2. CASE ~csState.slider /\ csState.annotating
    <3>1. PICK b : b = Motion(csState.annotator, x)
      OBVIOUS
    <3>2. Fine(b) /\ b.tool = csState.annotator.tool /\ b.editing = csState.annotator.editing
      BY <1>1, <3>1, MotionIsFine, PositionIsInt DEF Whole
    <3>3. PICK t : t = [csState EXCEPT !.annotator = b]
      OBVIOUS
    <3>4. Whole(t) /\ t.annotator = b
      BY <1>1, <2>2, <3>2, <3>3, DrawsOn
    <3>5. csState' = t
      BY <1>1, <1>2, <2>2, <3>1, <3>3 DEF Whole, OvShaped
    <3> QED
      BY <3>2, <3>4, <3>5
  <2>3. CASE ~csState.slider /\ ~csState.annotating
    <3>1. PICK t : t = SelectorMotion(csState, x)
      OBVIOUS
    <3>2. DrawingKept(csState, t) /\ SelectorTyped(t)
      BY <1>1, <3>1, MotionMoves
    <3>3. Whole(t) /\ t.annotator = csState.annotator
      BY <1>1, <3>2, SelectorMoves
    <3>4. csState' = t
      BY <1>2, <2>3, <3>1
    <3> QED
      BY <3>3, <3>4
  <2> QED
    BY <2>1, <2>2, <2>3
<1>4. PICK next : Whole(next) /\ csState' = next
                /\ (next.annotator.editing = NoStroke <=> csState.annotator.editing = NoStroke)
  BY <1>3
<1>5. csIm' = (next.annotator.editing # NoStroke)
  BY <1>1, <1>4, LeftAttached
<1>6. OutcomeTrue(next, csOutcome')
  BY <1>1, NothingTold
<1> QED
  BY <1>1, <1>4, <1>5, <1>6, DrawnStep

LEMMA ScrollStep == OverlayInv /\ Scroll => OverlayInv'
<1> SUFFICES ASSUME OverlayInv, Scroll PROVE OverlayInv'
  OBVIOUS
<1>1. Open /\ csGrace' \in BOOLEAN /\ csDown' \in BOOLEAN /\ csIm' = csIm
      /\ csOutcome' = csOutcome /\ Redraw /\ csState.annotating
  BY OverlayFacts, InputIsOpen DEF Scroll
<1>2. PICK look \in Looks : csState' = [csState EXCEPT !.annotator = SetLook(@, look)]
  BY DEF Scroll
<1>3. PICK next : Whole(next) /\ csState' = next
                /\ (next.annotator.editing = NoStroke <=> csState.annotator.editing = NoStroke)
  BY <1>1, <1>2, LookStep
<1>4. csIm' = (next.annotator.editing # NoStroke)
  BY <1>1, <1>3, LeftAttached
<1>5. OutcomeTrue(next, csOutcome')
  BY <1>1, NothingTold
<1> QED
  BY <1>1, <1>3, <1>4, <1>5, DrawnStep

(* The keyboard. *)
LEMMA PreviewKeyStep == OverlayInv /\ PreviewKey => OverlayInv'
<1> SUFFICES ASSUME OverlayInv, PreviewKey PROVE OverlayInv'
  OBVIOUS
<1>1. Whole(csState) /\ Open /\ csGrace' \in BOOLEAN /\ csDown' \in BOOLEAN /\ Sync /\ Redraw
  BY OverlayFacts, InputIsOpen DEF PreviewKey
<1>2. PICK s : s = IF csState.annotating THEN [csState EXCEPT !.annotator = CommitText(@)] ELSE csState
  OBVIOUS
<1>3. /\ Whole(s) /\ Settled(csState.annotator, s.annotator) /\ s.rect = csState.rect
      /\ s.canvas = csState.canvas
  <2>1. CASE csState.annotating
    <3>1. PICK b : b = CommitText(csState.annotator)
      OBVIOUS
    <3>2. Fine(b) /\ b.editing = NoStroke /\ b.tool = csState.annotator.tool /\ Settled(csState.annotator, b)
      BY <1>1, <3>1, CommitIsFine, CommitSettles DEF Whole
    <3>3. PICK t : t = [csState EXCEPT !.annotator = b]
      OBVIOUS
    <3>4. Whole(t) /\ t.annotator = b /\ t.rect = csState.rect /\ t.canvas = csState.canvas
      BY <1>1, <3>2, <3>3, DrawsOn
    <3>5. s = t
      BY <1>1, <1>2, <2>1, <3>1, <3>3 DEF Whole, OvShaped
    <3> QED
      BY <3>2, <3>4, <3>5
  <2>2. CASE ~csState.annotating
    BY <1>1, <1>2, <2>2, Unlabelled
  <2> QED
    BY <2>1, <2>2
<1>4. PICK action \in FinalActions : action = "preview"
  BY DEF FinalActions
<1>5. Dispatch(s, action)
  BY <1>2, <1>4 DEF PreviewKey
<1>6. csState' = s /\ OutcomeTrue(s, csOutcome')
  BY <1>1, <1>3, <1>5, DispatchFinal
<1> QED
  BY <1>1, <1>3, <1>6, Attached, DrawnStep

LEMMA PlainKeyStep ==
    ASSUME OverlayInv, NEW action \in FinalActions \cup {"cancel", "annotate"}, PlainKey(action)
    PROVE  OverlayInv'
<1>1. Whole(csState) /\ Open /\ csGrace' \in BOOLEAN /\ csDown' \in BOOLEAN
  BY OverlayFacts, InputIsOpen DEF PlainKey
<1>2. ~csState.annotating /\ Dispatch(csState, action) /\ Sync /\ Redraw
  BY DEF PlainKey
<1> QED
  BY <1>1, <1>2, CommandStep

LEMMA AnnotateKeyStep ==
    ASSUME OverlayInv, NEW action \in AnnotateButtons, AnnotateKey(action)
    PROVE  OverlayInv'
<1>1. Whole(csState) /\ Open /\ csGrace' \in BOOLEAN /\ csDown' \in BOOLEAN
  BY OverlayFacts, InputIsOpen DEF AnnotateKey
<1>2. csState.annotating /\ Dispatch(csState, action) /\ Sync /\ Redraw
  BY DEF AnnotateKey
<1> QED
  BY <1>1, <1>2, CommandStep

LEMMA UndoKeyStep == OverlayInv /\ UndoKey => OverlayInv'
<1> SUFFICES ASSUME OverlayInv, UndoKey PROVE OverlayInv'
  OBVIOUS
<1>1. Whole(csState) /\ Open /\ csGrace' \in BOOLEAN /\ csDown' \in BOOLEAN
  BY OverlayFacts, InputIsOpen DEF UndoKey
<1>2. PICK action \in AnnotateButtons : Dispatch(csState, action)
  BY DEF UndoKey, AnnotateButtons
<1>3. csState.annotating /\ Sync /\ Redraw
  BY DEF UndoKey
<1> QED
  BY <1>1, <1>2, <1>3, CommandStep

LEMMA EscapeKeyStep == OverlayInv /\ EscapeKey => OverlayInv'
<1> SUFFICES ASSUME OverlayInv, EscapeKey PROVE OverlayInv'
  OBVIOUS
<1>1. /\ Whole(csState) /\ Open /\ csGrace' \in BOOLEAN /\ csDown' \in BOOLEAN /\ Sync /\ Redraw
      /\ csState.annotating
  BY OverlayFacts, InputIsOpen DEF EscapeKey
<1>2. CASE csState' = DismissPopup(csState) /\ csOutcome' = csOutcome
  <2>1. PICK next : next = DismissPopup(csState)
    OBVIOUS
  <2>2. Whole(next)
    BY <1>1, <2>1, Dismissed
  <2>3. OutcomeTrue(next, csOutcome')
    BY <1>1, <1>2, NothingTold
  <2> QED
    BY <1>1, <1>2, <2>1, <2>2, <2>3, Attached, DrawnStep
<1>3. CASE Dispatch(csState, "anno.back")
  <2>1. PICK action \in AnnotateButtons : action = "anno.back"
    BY DEF AnnotateButtons
  <2>2. Dispatch(csState, action)
    BY <1>3, <2>1
  <2> QED
    BY <1>1, <2>2, CommandStep
<1> QED
  BY <1>2, <1>3 DEF EscapeKey

LEMMA TypedStep ==
    ASSUME OverlayInv, csState.annotating, NEW b, Fine(b), b.tool = csState.annotator.tool,
           csState' = [csState EXCEPT !.annotator = b]
    PROVE  \E next : Whole(next) /\ csState' = next /\ next.annotator = b
<1>1. Whole(csState)
  BY OverlayFacts
<1>2. PICK t : t = [csState EXCEPT !.annotator = b]
  OBVIOUS
<1>3. Whole(t) /\ t.annotator = b
  BY <1>1, <1>2, DrawsOn
<1> QED
  BY <1>2, <1>3

LEMMA TypeKeyStep == OverlayInv /\ TypeKey => OverlayInv'
<1> SUFFICES ASSUME OverlayInv, TypeKey PROVE OverlayInv'
  OBVIOUS
<1>1. /\ Whole(csState) /\ Open /\ csGrace' \in BOOLEAN /\ csDown' \in BOOLEAN /\ Sync /\ Redraw
      /\ csOutcome' = csOutcome /\ csState.annotating
  BY OverlayFacts, InputIsOpen DEF TypeKey
<1>2. PICK b \in {CommitText(csState.annotator), Backspace(csState.annotator), TypeStr(csState.annotator, 1)} :
         csState' = [csState EXCEPT !.annotator = b]
  BY DEF TypeKey
<1>3. Fine(b) /\ b.tool = csState.annotator.tool
  BY ZenonT(60), <1>1, CommitIsFine, KeysAreFine DEF Whole
<1>4. PICK next : Whole(next) /\ csState' = next
  BY <1>1, <1>2, <1>3, TypedStep
<1>5. OutcomeTrue(next, csOutcome')
  BY <1>1, NothingTold
<1> QED
  BY <1>1, <1>4, <1>5, Attached, DrawnStep

LEMMA ImeInputStep == OverlayInv /\ ImeInput => OverlayInv'
<1> SUFFICES ASSUME OverlayInv, ImeInput PROVE OverlayInv'
  OBVIOUS
<1>1. /\ Whole(csState) /\ Open /\ csGrace' \in BOOLEAN /\ csDown' \in BOOLEAN /\ csIm' = csIm /\ Redraw
      /\ csOutcome' = csOutcome /\ csIm
  BY OverlayFacts DEF ImeInput
<1>2. PICK b \in {SetPreedit(csState.annotator, TRUE), TypeStr(csState.annotator, 1)} :
         csState' = [csState EXCEPT !.annotator = b]
  BY DEF ImeInput
<1>3. csState.annotator.editing # NoStroke
  BY <1>1, OverlayFacts
<1>4. csState.annotating
  BY <1>1, <1>3 DEF Whole, OwnerOf
<1>5. Fine(b) /\ b.tool = csState.annotator.tool /\ (b.editing = NoStroke <=> csState.annotator.editing = NoStroke)
  BY <1>1, KeysAreFine DEF Whole
<1>6. PICK next : Whole(next) /\ csState' = next /\ next.annotator = b
  BY <1>2, <1>4, <1>5, TypedStep
<1>7. csIm' = (next.annotator.editing # NoStroke)
  BY <1>1, <1>5, <1>6, LeftAttached
<1>8. OutcomeTrue(next, csOutcome')
  BY <1>1, NothingTold
<1> QED
  BY <1>1, <1>6, <1>7, <1>8, DrawnStep

(* Focus and the timers. *)
LEMMA TimerSteps == OverlayInv /\ Timers => OverlayInv'
<1> SUFFICES ASSUME OverlayInv, Timers PROVE OverlayInv'
  OBVIOUS
<1>1. /\ Open /\ csState' = csState /\ csIm' = csIm /\ csDown' = csDown /\ csLaid' = csLaid
      /\ csScreen' = csScreen
  BY DEF Timers, FocusEnters, FocusLeaves, GraceFires, WatchdogCancels
<1>2. csGrace' \in BOOLEAN
  BY DEF Timers, FocusEnters, FocusLeaves, GraceFires, WatchdogCancels, Emit
<1>3. PICK next : next = csState
  OBVIOUS
<1>4. /\ Whole(next) /\ csDown' \in BOOLEAN /\ csLaid' \in BOOLEAN /\ csState' = next
      /\ csIm' = (next.annotator.editing # NoStroke) /\ csScreen' = Shown(next)
  BY <1>1, <1>3, OverlayFacts DEF Open
<1>5. csOutcome' = csOutcome \/ csOutcome' = [action |-> "cancel", picture |-> <<>>]
  BY DEF Timers, FocusEnters, FocusLeaves, GraceFires, WatchdogCancels, Emit, NoOutcome
<1>6. OutcomeTrue(next, csOutcome')
  BY <1>1, <1>5, NothingTold, Cancelled
<1> QED
  BY <1>1, <1>2, <1>4, <1>6, OverlayMade

-----------------------------------------------------------------------------
LEMMA OverlayStart == CaptureInit => OverlayInv
<1> SUFFICES ASSUME CaptureInit PROVE OverlayInv
  OBVIOUS
<1>1. PICK long \in BOOLEAN :
          csState = [mode |-> "Idle", rect |-> NoRect, orig |-> NoRect, anchor |-> 0,
                     handle |-> "none", annotator |-> NewAnnotator, annotating |-> FALSE,
                     canvas |-> NoRect,
                     popup |-> "none", slider |-> FALSE, long |-> long]
  BY DEF CaptureInit
<1>2. PICK nowhere, new, no : nowhere = NoRect /\ new = NewAnnotator /\ no = FALSE
  OBVIOUS
<1>3. nowhere \in Rects /\ 0 \in Positions /\ Fine(new) /\ new.editing = NoStroke /\ new.strokes = <<>>
      /\ no \in BOOLEAN /\ ~no
  BY <1>2, NoRectIs, NewIsFine
<1> DEFINE s == [mode |-> "Idle", rect |-> nowhere, orig |-> nowhere, anchor |-> 0,
                 handle |-> "none", annotator |-> new, annotating |-> no,
                 canvas |-> nowhere, popup |-> "none", slider |-> no, long |-> long]
<1>4. csState = s
  BY <1>1, <1>2
<1>5. SelectorTyped(s) /\ DrawingTyped(s) /\ OvShaped(s) /\ s.annotator = new /\ s.popup = "none"
      /\ s.slider = no /\ s.rect = nowhere
  BY <1>3 DEF SelectorTyped, DrawingTyped, OvShaped
<1> HIDE DEF s
<1>6. Whole(s)
  BY <1>3, <1>5 DEF Whole, OwnerOf
<1>7. csState \in OverlayStates /\ Cached(csState.annotator) /\ OwnerOf(csState)
  BY <1>4, <1>6, WholeIs
<1>8. csOutcome = NoOutcome /\ csScreen = <<>>
  BY DEF CaptureInit
<1>9. Shown(csState) = <<>>
  <2>1. ~Valid(s.rect)
    BY <1>2, <1>5 DEF Valid, NoRect
  <2> QED
    BY <1>4, <2>1 DEF Shown
<1>10. csIm \in BOOLEAN /\ csDown \in BOOLEAN /\ csGrace \in BOOLEAN /\ csLaid \in BOOLEAN /\ ~csIm
  BY DEF CaptureInit
<1>11. csIm = (csState.annotator.editing # NoStroke)
  BY <1>3, <1>4, <1>5, <1>10
<1>12. FinishedInkCaptured /\ csOutcome.action \in FinalActions \cup {"none", "cancel"}
  BY <1>8 DEF FinishedInkCaptured, NoOutcome, FinalActions
<1> QED
  BY <1>7, <1>8, <1>9, <1>10, <1>11, <1>12 DEF OverlayInv

LEMMA OverlayStep == OverlayInv /\ [CaptureNext]_csVars => OverlayInv'
<1> SUFFICES ASSUME OverlayInv, [CaptureNext]_csVars PROVE OverlayInv'
  OBVIOUS
<1>1. CASE UNCHANGED csVars
  <2>1. /\ csState' = csState /\ csIm' = csIm /\ csDown' = csDown /\ csGrace' = csGrace /\ csLaid' = csLaid
        /\ csScreen' = csScreen /\ csOutcome' = csOutcome
    BY <1>1 DEF csVars
  <2> QED
    BY <2>1 DEF OverlayInv, FinishedInkCaptured
<1>2. CASE Pointer
  BY <1>2, PressSurfaceStep, PressButtonStep, PressPaddingStep, PressPopupStep, RightPressStep,
     ReleaseButtonStep, MovePointerStep, ScrollStep DEF Pointer
<1>3. CASE Keyboard
  BY <1>3, PreviewKeyStep, TypeKeyStep, UndoKeyStep, EscapeKeyStep, ImeInputStep, PlainKeyStep,
     AnnotateKeyStep DEF Keyboard
<1>4. CASE Timers
  BY <1>4, TimerSteps
<1> QED
  BY <1>1, <1>2, <1>3, <1>4 DEF CaptureNext

LEMMA OverlayMeans == OverlayInv => CaptureTypeOK /\ OverlaySound
<1> SUFFICES ASSUME OverlayInv PROVE CaptureTypeOK /\ OverlaySound
  OBVIOUS
<1>1. /\ Whole(csState) /\ csIm \in BOOLEAN /\ csDown \in BOOLEAN /\ csGrace \in BOOLEAN
      /\ csLaid \in BOOLEAN /\ csIm = (csState.annotator.editing # NoStroke)
  BY OverlayFacts
<1>2. csState.annotating \in BOOLEAN /\ csState.slider \in BOOLEAN
  BY <1>1 DEF Whole, DrawingTyped
<1>3. {csState.annotating, csState.slider, csIm, csDown, csGrace, csLaid} \subseteq BOOLEAN
  BY <1>1, <1>2, Zenon
<1>4. csState.rect \in Positions \X Positions /\ csState.rect[1] <= csState.rect[2]
      /\ csState.canvas \in Positions \X Positions
  BY <1>1 DEF Whole, SelectorTyped, DrawingTyped, Rects
<1>5. csState.annotator.tool \in Tools /\ csOutcome.action \in FinalActions \cup {"none", "cancel"}
  BY <1>1 DEF Whole, Fine, IsCanvas, CanvasTyped, OverlayInv
<1>6. csState.mode \in {"Idle", "Selecting", "HasSelection", "Moving", "Resizing"}
      /\ csState.popup \in {"none", "Color", "Size"} /\ csState.handle \in {"none", "w", "e"}
  BY <1>1 DEF Whole, SelectorTyped, DrawingTyped
<1>7. CaptureTypeOK
  BY <1>3, <1>4, <1>5, <1>6 DEF CaptureTypeOK
<1>8. OneInputOwner
  BY <1>1 DEF OneInputOwner, Whole, OwnerOf
<1> QED
  BY <1>7, <1>8 DEF OverlaySound, OverlayInv

(* An overlay captures the selection as it was shown with the finished ink *)
(* that meets it, and one of its parts has the input (surface.rs capture,  *)
(* selector.rs).                                                           *)
THEOREM OverlayTrue == CaptureSpec => [](CaptureTypeOK /\ OverlaySound)
<1> QED
  BY OverlayStart, OverlayStep, OverlayMeans, PTL DEF CaptureSpec

-----------------------------------------------------------------------------
(* The control panel of a long shot.                                       *)

Sizes == [full : Nat \X Nat, compact : Nat \X Nat, horizontal : Nat \X Nat, vertical : Nat \X Nat]
PanelPlaced == cpStage \in {"present", "sampling"}

GivenTrue ==
    /\ cpGiven.screen \in PanelScreens /\ cpGiven.sizes \in PanelSizes
    /\ cpGiven.layered \in BOOLEAN /\ cpGiven.single \in BOOLEAN
    /\ cpGiven.rect \in Selections(cpGiven.screen)

(* A panel at its edge, and on the screen along it if it is no longer.     *)
StandsAt(edge) ==
    /\ {cpPanel.x, cpPanel.y, cpPanel.w, cpPanel.h} \subseteq Int
    /\ edge \in Along /\ cpPanel.w <= Wide => 0 <= cpPanel.x /\ cpPanel.x + cpPanel.w <= Wide
    /\ edge \notin Along /\ cpPanel.h <= High => 0 <= cpPanel.y /\ cpPanel.y + cpPanel.h <= High
    /\ edge = "top" => cpPanel.y = PanelMargin
    /\ edge = "bottom" => cpPanel.y = High - cpPanel.h - PanelMargin
    /\ edge = "left" => cpPanel.x = PanelMargin
    /\ edge = "right" => cpPanel.x = Wide - cpPanel.w - PanelMargin

PanelInv ==
    /\ GivenTrue
    /\ cpStage \in {"measure", "present", "sampling", "hidden"} /\ cpMoved \in BOOLEAN
    /\ cpPanel.mapped \in BOOLEAN
    /\ cpPlacement = IF cpStage = "measure" THEN NoPlacement ELSE PanelChoice
    /\ PanelPlaced => PanelChoice.kind # "hidden"
    /\ ~PanelPlaced => ~cpPanel.mapped
    /\ cpStage \in {"measure", "present"} /\ ~cpPanel.mapped => ~cpMoved
    /\ cpPanel.mapped /\ (cpGiven.layered \/ cpMoved) => StandsAt(cpPlacement.edge)
    /\ cpStage = "sampling" => cpPanel.mapped /\ AllocationSafe

LEMMA OneMore ==
    ASSUME NEW S, NEW x, NEW worth, \A y \in S \union {x} : worth[y] \in Int,
           S # {} => \E best \in S : \A y \in S : worth[best] >= worth[y]
    PROVE  \E best \in S \union {x} : \A y \in S \union {x} : worth[best] >= worth[y]
<1>1. CASE S = {}
  BY <1>1
<1>2. CASE S # {}
  <2>1. PICK best \in S : \A y \in S : worth[best] >= worth[y]
    BY <1>2
  <2>2. CASE worth[best] >= worth[x]
    BY <2>1, <2>2
  <2>3. CASE worth[x] > worth[best]
    BY <2>1, <2>3
  <2> QED
    BY <2>1, <2>2, <2>3
<1> QED
  BY <1>1, <1>2

LEMMA RoomiestIsOne ==
    ASSUME NEW edges, edges \subseteq PanelEdges, edges # {}, NEW slack \in [PanelEdges -> Int]
    PROVE  Roomiest(edges, slack) \in edges
<1>1. /\ EdgeRank["top"] = 1 /\ EdgeRank["bottom"] = 2 /\ EdgeRank["left"] = 3 /\ EdgeRank["right"] = 4
  BY DEF EdgeRank, PanelEdges
<1>2. \A edge \in PanelEdges : slack[edge] \in Int /\ EdgeRank[edge] \in 1 .. 4
  BY <1>1 DEF PanelEdges
<1>3. \A edge, other \in PanelEdges : edge # other => EdgeRank[edge] # EdgeRank[other]
  BY <1>1 DEF PanelEdges
<1>4. PICK worth : worth = [edge \in PanelEdges |-> 4 * slack[edge] + EdgeRank[edge]]
  OBVIOUS
<1>5. \A edge \in PanelEdges : worth[edge] = 4 * slack[edge] + EdgeRank[edge] /\ worth[edge] \in Int
  BY <1>2, <1>4
<1> DEFINE Best(S) == S # {} => \E best \in S : \A y \in S : worth[best] >= worth[y]
<1>6. ASSUME NEW S \in SUBSET PanelEdges, Best(S), NEW x \in PanelEdges
      PROVE  Best(S \union {x})
  BY <1>5, <1>6, OneMore
<1>7. Best({})
  OBVIOUS
<1> HIDE DEF Best
<1>8. ASSUME NEW S \in SUBSET PanelEdges, Best(S), NEW x \in PanelEdges
      PROVE  Best(S \union (edges \intersect {x}))
  <2>1. CASE x \in edges
    <3>1. edges \intersect {x} = {x}
      BY <2>1
    <3>2. Best(S \union {x})
      BY <1>6, <1>8
    <3> QED
      BY <3>1, <3>2
  <2>2. CASE x \notin edges
    <3>1. S \union (edges \intersect {x}) = S
      BY <2>2
    <3> QED
      BY <1>8, <3>1
  <2> QED
    BY <2>1, <2>2
<1>9. Best({} \union (edges \intersect {"top"}))
  BY <1>7, <1>8 DEF PanelEdges
<1>10. Best(({} \union (edges \intersect {"top"})) \union (edges \intersect {"bottom"}))
  BY <1>9, <1>8 DEF PanelEdges
<1>11. Best((({} \union (edges \intersect {"top"})) \union (edges \intersect {"bottom"})) \union (edges \intersect {"left"}))
  BY <1>10, <1>8 DEF PanelEdges
<1>12. Best(((({} \union (edges \intersect {"top"})) \union (edges \intersect {"bottom"})) \union (edges \intersect {"left"}))
            \union (edges \intersect {"right"}))
  BY <1>11, <1>8 DEF PanelEdges
<1>13. (((({} \union (edges \intersect {"top"})) \union (edges \intersect {"bottom"})) \union (edges \intersect {"left"}))
            \union (edges \intersect {"right"})) = edges
  BY DEF PanelEdges
<1>14. Best(edges)
  BY <1>12, <1>13
<1>15. PICK edge \in edges : \A other \in edges : worth[edge] >= worth[other]
  BY <1>14 DEF Best
<1>16. ASSUME NEW other \in edges \ {edge}
       PROVE  slack[edge] > slack[other] \/ (slack[edge] = slack[other] /\ EdgeRank[edge] > EdgeRank[other])
  <2>1. edge \in PanelEdges /\ other \in PanelEdges /\ edge # other
    OBVIOUS
  <2>2. 4 * slack[edge] + EdgeRank[edge] >= 4 * slack[other] + EdgeRank[other]
    BY <1>5, <1>15, <2>1
  <2>3. EdgeRank[edge] # EdgeRank[other]
    BY <1>3, <2>1
  <2>4. slack[edge] \in Int /\ slack[other] \in Int /\ EdgeRank[edge] \in 1 .. 4 /\ EdgeRank[other] \in 1 .. 4
    BY <1>2, <2>1
  <2> QED
    BY <2>2, <2>3, <2>4
<1> QED
  BY <1>16 DEF Roomiest

LEMMA MaxOfTwo ==
    ASSUME NEW a \in Int, NEW b \in Int
    PROVE  Max({a, b}) \in {a, b} /\ Max({a, b}) >= a /\ Max({a, b}) >= b
<1>1. \E x \in {a, b} : \A y \in {a, b} : x >= y
  OBVIOUS
<1> QED
  BY <1>1 DEF Max

LEMMA MinOfTwo ==
    ASSUME NEW a \in Int, NEW b \in Int
    PROVE  Min({a, b}) \in {a, b} /\ Min({a, b}) <= a /\ Min({a, b}) <= b
<1>1. \E x \in {a, b} : \A y \in {a, b} : x <= y
  OBVIOUS
<1> QED
  BY <1>1 DEF Min

LEMMA OnScreenIs ==
    ASSUME NEW place \in Int, NEW length \in Int, NEW most \in Int, length <= most
    PROVE  OnScreen(place, length, most) \in 0 .. most - length
<1>1. Min({place, most - length}) \in Int /\ Min({place, most - length}) <= most - length
  BY MinOfTwo
<1>2. PICK least : least = Min({place, most - length})
  OBVIOUS
<1>3. least \in Int /\ least <= most - length
  BY <1>1, <1>2
<1>4. Max({0, least}) \in {0, least} /\ Max({0, least}) >= 0
  BY <1>3, MaxOfTwo
<1>5. OnScreen(place, length, most) = Max({0, least})
  BY <1>2 DEF OnScreen
<1> QED
  BY <1>3, <1>4, <1>5

-----------------------------------------------------------------------------
LEMMA AreaHas ==
    ASSUME NEW rect, {rect.x, rect.y, rect.w, rect.h} \subseteq Int, NEW a \in Int, NEW b \in Int
    PROVE  <<a, b>> \in Area(rect) <=> (rect.x <= a /\ a < rect.x + rect.w /\ rect.y <= b /\ b < rect.y + rect.h)
  BY DEF Area

LEMMA AreaInside ==
    ASSUME NEW inner, {inner.x, inner.y, inner.w, inner.h} \subseteq Int,
           NEW outer, {outer.x, outer.y, outer.w, outer.h} \subseteq Int,
           outer.x <= inner.x, inner.x + inner.w <= outer.x + outer.w,
           outer.y <= inner.y, inner.y + inner.h <= outer.y + outer.h
    PROVE  Area(inner) \subseteq Area(outer)
  BY DEF Area

LEMMA AreasApart ==
    ASSUME NEW one, {one.x, one.y, one.w, one.h} \subseteq Int,
           NEW two, {two.x, two.y, two.w, two.h} \subseteq Int,
           \/ one.x + one.w <= two.x \/ two.x + two.w <= one.x
           \/ one.y + one.h <= two.y \/ two.y + two.h <= one.y
    PROVE  Area(one) \intersect Area(two) = {}
  BY DEF Area

LEMMA GivenFacts ==
    ASSUME GivenTrue
    PROVE  /\ Wide \in Nat \ {0} /\ High \in Nat \ {0}
           /\ Sel.x \in Nat /\ Sel.y \in Nat /\ Sel.w \in Nat \ {0} /\ Sel.h \in Nat \ {0}
           /\ Sel.x < Wide /\ Sel.y < High
           /\ cpGiven.sizes.full \in Nat \X Nat /\ cpGiven.sizes.compact \in Nat \X Nat
           /\ cpGiven.sizes.horizontal \in Nat \X Nat /\ cpGiven.sizes.vertical \in Nat \X Nat
           /\ PanelHint.horizontal \in Nat \X Nat /\ PanelHint.vertical \in Nat \X Nat
           /\ \A axis \in {1, 2} : /\ cpGiven.sizes.horizontal[axis] <= PanelHint.horizontal[axis]
                                   /\ cpGiven.sizes.vertical[axis] <= PanelHint.vertical[axis]
           /\ PanelMargin \in Nat
<1>1. Wide \in Nat \ {0} /\ High \in Nat \ {0}
  BY PanelAssumption DEF GivenTrue, Wide, High
<1>2. /\ Sel.x \in Nat /\ Sel.y \in Nat /\ Sel.w \in Nat \ {0} /\ Sel.h \in Nat \ {0}
      /\ Sel.x < Wide /\ Sel.y < High
  BY <1>1 DEF GivenTrue, Wide, High, Sel, Selections
<1>3. cpGiven.sizes \in Sizes
  BY PanelAssumption DEF GivenTrue, Sizes
<1>4. /\ cpGiven.sizes.full \in Nat \X Nat /\ cpGiven.sizes.compact \in Nat \X Nat
      /\ cpGiven.sizes.horizontal \in Nat \X Nat /\ cpGiven.sizes.vertical \in Nat \X Nat
  BY <1>3 DEF Sizes
<1> QED
  BY <1>1, <1>2, <1>4, PanelAssumption DEF GivenTrue

LEMMA StripFields ==
    ASSUME NEW edge \in PanelEdges, NEW size
    PROVE  LET depth == Need(edge, size) + PanelMargin IN
           /\ edge = "top" => Strip(edge, size) = [x |-> 0, y |-> 0, w |-> Wide, h |-> depth]
           /\ edge = "bottom" => Strip(edge, size) = [x |-> 0, y |-> High - depth, w |-> Wide, h |-> depth]
           /\ edge = "left" => Strip(edge, size) = [x |-> 0, y |-> 0, w |-> depth, h |-> High]
           /\ edge = "right" => Strip(edge, size) = [x |-> Wide - depth, y |-> 0, w |-> depth, h |-> High]
<1> DEFINE depth == Need(edge, size) + PanelMargin
<1>1. edge = "top" => Strip(edge, size) = [Screen EXCEPT !.h = depth]
  BY DEF Strip
<1>2. edge = "bottom" => Strip(edge, size) = [Screen EXCEPT !.y = High - depth, !.h = depth]
  BY DEF Strip
<1>3. edge = "left" => Strip(edge, size) = [Screen EXCEPT !.w = depth]
  BY DEF Strip
<1>4. edge = "right" => Strip(edge, size) = [Screen EXCEPT !.x = Wide - depth, !.w = depth]
  BY DEF Strip
<1>5. depth = Need(edge, size) + PanelMargin
  OBVIOUS
<1> HIDE DEF depth
<1>6. Screen = [x |-> 0, y |-> 0, w |-> Wide, h |-> High]
  BY DEF Screen
<1>7. [Screen EXCEPT !.h = depth] = [x |-> 0, y |-> 0, w |-> Wide, h |-> depth]
  BY <1>6
<1>8. [Screen EXCEPT !.w = depth] = [x |-> 0, y |-> 0, w |-> depth, h |-> High]
  BY <1>6
<1>9. [Screen EXCEPT !.y = High - depth, !.h = depth] = [x |-> 0, y |-> High - depth, w |-> Wide, h |-> depth]
  <2> DEFINE moved == [Screen EXCEPT !.y = High - depth]
  <2>1. moved = [x |-> 0, y |-> High - depth, w |-> Wide, h |-> High]
    BY <1>6
  <2>2. [Screen EXCEPT !.y = High - depth, !.h = depth] = [moved EXCEPT !.h = depth]
    OBVIOUS
  <2> HIDE DEF moved
  <2> QED
    BY <2>1, <2>2
<1>10. [Screen EXCEPT !.x = Wide - depth, !.w = depth] = [x |-> Wide - depth, y |-> 0, w |-> depth, h |-> High]
  <2> DEFINE moved == [Screen EXCEPT !.x = Wide - depth]
  <2>1. moved = [x |-> Wide - depth, y |-> 0, w |-> Wide, h |-> High]
    BY <1>6
  <2>2. [Screen EXCEPT !.x = Wide - depth, !.w = depth] = [moved EXCEPT !.w = depth]
    OBVIOUS
  <2> HIDE DEF moved
  <2> QED
    BY <2>1, <2>2
<1> QED
  BY <1>1, <1>2, <1>3, <1>4, <1>5, <1>7, <1>8, <1>9, <1>10

LEMMA StripIsFree ==
    ASSUME GivenTrue, SelectionFits, NEW edge \in PanelEdges, NEW size \in Nat \X Nat,
           size[1] <= Wide, size[2] <= High
    PROVE  Gap(edge) >= Need(edge, size) + PanelMargin
              <=> Area(Strip(edge, size)) \subseteq Area(Screen) /\ Area(Strip(edge, size)) \intersect Area(Sel) = {}
<1> DEFINE depth == Need(edge, size) + PanelMargin
<1>1. /\ Wide \in Nat \ {0} /\ High \in Nat \ {0} /\ PanelMargin \in Nat
      /\ Sel.x \in Nat /\ Sel.y \in Nat /\ Sel.w \in Nat \ {0} /\ Sel.h \in Nat \ {0}
      /\ Sel.x < Wide /\ Sel.y < High /\ Sel.x + Sel.w <= Wide /\ Sel.y + Sel.h <= High
  BY GivenFacts DEF SelectionFits
<1>2. depth \in Nat
  BY <1>1 DEF Need
<1>3. {Sel.x, Sel.y, Sel.w, Sel.h} \subseteq Int
  BY <1>1
<1>4. Screen.x = 0 /\ Screen.y = 0 /\ Screen.w = Wide /\ Screen.h = High
  BY DEF Screen
<1>5. {Screen.x, Screen.y, Screen.w, Screen.h} \subseteq Int
  BY <1>1, <1>4
<1>6. LET depth_1 == Need(edge, size) + PanelMargin IN
           /\ edge = "top" => Strip(edge, size) = [x |-> 0, y |-> 0, w |-> Wide, h |-> depth_1]
           /\ edge = "bottom" => Strip(edge, size) = [x |-> 0, y |-> High - depth_1, w |-> Wide, h |-> depth_1]
           /\ edge = "left" => Strip(edge, size) = [x |-> 0, y |-> 0, w |-> depth_1, h |-> High]
           /\ edge = "right" => Strip(edge, size) = [x |-> Wide - depth_1, y |-> 0, w |-> depth_1, h |-> High]
  BY StripFields
<1>7. PICK strip : strip = Strip(edge, size)
  OBVIOUS
<1>8. /\ edge = "top" => strip = [x |-> 0, y |-> 0, w |-> Wide, h |-> depth]
      /\ edge = "bottom" => strip = [x |-> 0, y |-> High - depth, w |-> Wide, h |-> depth]
      /\ edge = "left" => strip = [x |-> 0, y |-> 0, w |-> depth, h |-> High]
      /\ edge = "right" => strip = [x |-> Wide - depth, y |-> 0, w |-> depth, h |-> High]
  BY <1>6, <1>7
<1> HIDE DEF depth
<1>9. {strip.x, strip.y, strip.w, strip.h} \subseteq Int
  BY <1>1, <1>2, <1>8 DEF PanelEdges
<1>10. /\ edge = "top" => Gap(edge) = Sel.y
       /\ edge = "bottom" => Gap(edge) = High - (Sel.y + Sel.h)
       /\ edge = "left" => Gap(edge) = Sel.x
       /\ edge = "right" => Gap(edge) = Wide - (Sel.x + Sel.w)
  BY DEF Gap
<1>11. ASSUME Gap(edge) >= depth
       PROVE  Area(strip) \subseteq Area(Screen) /\ Area(strip) \intersect Area(Sel) = {}
  <2>1. /\ 0 <= strip.x /\ strip.x + strip.w <= Wide
        /\ 0 <= strip.y /\ strip.y + strip.h <= High
    BY <1>1, <1>2, <1>8, <1>10, <1>11 DEF PanelEdges
  <2>2. \/ strip.x + strip.w <= Sel.x \/ Sel.x + Sel.w <= strip.x
        \/ strip.y + strip.h <= Sel.y \/ Sel.y + Sel.h <= strip.y
    BY <1>1, <1>2, <1>8, <1>10, <1>11 DEF PanelEdges
  <2>3. Area(strip) \subseteq Area(Screen)
    BY <1>4, <1>5, <1>9, <2>1, AreaInside
  <2> QED
    BY <1>3, <1>9, <2>2, <2>3, AreasApart
<1>12. ASSUME ~(Gap(edge) >= depth)
       PROVE  Area(strip) \intersect Area(Sel) # {}
  <2>1. PICK a \in Int, b \in Int :
           /\ a = (IF edge = "right" THEN Sel.x + Sel.w - 1 ELSE Sel.x)
           /\ b = (IF edge = "bottom" THEN Sel.y + Sel.h - 1 ELSE Sel.y)
    BY <1>1
  <2>2. Sel.x <= a /\ a < Sel.x + Sel.w /\ Sel.y <= b /\ b < Sel.y + Sel.h
    BY <1>1, <2>1
  <2>3. strip.x <= a /\ a < strip.x + strip.w /\ strip.y <= b /\ b < strip.y + strip.h
    BY <1>1, <1>2, <1>8, <1>10, <1>12, <2>1 DEF PanelEdges
  <2>4. <<a, b>> \in Area(Sel)
    BY <1>3, <2>2, AreaHas
  <2>5. <<a, b>> \in Area(strip)
    BY <1>9, <2>3, AreaHas
  <2> QED
    BY <2>4, <2>5
<1> QED
  BY <1>7, <1>11, <1>12 DEF depth

LEMMA FreeStripIs ==
    ASSUME GivenTrue, SelectionFits, NEW size \in Nat \X Nat
    PROVE  FreeStrip(size) <=> EdgesFor(size) # {}
<1>1. ASSUME NEW edge \in PanelEdges, RoomAt(edge, size)
      PROVE  FreeStrip(size)
  BY <1>1, StripIsFree DEF RoomAt, FreeStrip
<1>2. ASSUME FreeStrip(size)
      PROVE  \E edge \in PanelEdges : RoomAt(edge, size)
  <2>1. size[1] <= Wide /\ size[2] <= High
    BY <1>2 DEF FreeStrip
  <2>2. PICK edge \in PanelEdges :
           Area(Strip(edge, size)) \subseteq Area(Screen) /\ Area(Strip(edge, size)) \intersect Area(Sel) = {}
    BY <1>2 DEF FreeStrip
  <2> QED
    BY <2>1, <2>2, StripIsFree DEF RoomAt
<1> QED
  BY <1>1, <1>2 DEF EdgesFor

LEMMA RailHasRoom ==
    ASSUME GivenTrue, SelectionFits, NEW edge \in PanelEdges, NEW rails,
           RailOf(rails, edge) \in Nat \X Nat, RailFits(rails, edge)
    PROVE  RoomAt(edge, RailOf(rails, edge))
<1>1. PICK rail : rail = RailOf(rails, edge)
  OBVIOUS
<1>2. /\ IF edge \in Along THEN rail[1] <= Wide ELSE rail[2] <= High
      /\ Gap(edge) >= Need(edge, rail) + PanelMargin
  BY <1>1 DEF RailFits
<1>3. rail[1] \in Nat /\ rail[2] \in Nat
  BY <1>1
<1>4. Need(edge, rail) \in Nat /\ (edge \in Along => Need(edge, rail) = rail[2]) /\ (edge \notin Along => Need(edge, rail) = rail[1])
  BY <1>3 DEF Need
<1>5. Gap(edge) \in Int /\ (edge \in Along => Gap(edge) <= High) /\ (edge \notin Along => Gap(edge) <= Wide)
  BY GivenFacts DEF Gap, PanelEdges, Along, SelectionFits
<1> QED
  BY <1>1, <1>2, <1>3, <1>4, <1>5, GivenFacts DEF RoomAt

-----------------------------------------------------------------------------
LEMMA Slacks ==
    ASSUME GivenTrue, NEW size \in Nat \X Nat
    PROVE  Slack(size) \in [PanelEdges -> Int]
<1>1. ASSUME NEW edge \in PanelEdges PROVE Gap(edge) - Need(edge, size) \in Int
  <2>1. Gap(edge) \in Int
    BY GivenFacts DEF Gap, PanelEdges
  <2>2. Need(edge, size) \in Int
    BY DEF Need
  <2> QED
    BY <2>1, <2>2
<1> QED
  BY <1>1 DEF Slack

LEMMA RailSlacks ==
    ASSUME GivenTrue
    PROVE  RailSlack(cpGiven.sizes) \in [PanelEdges -> Int]
<1>1. ASSUME NEW edge \in PanelEdges PROVE Gap(edge) - Need(edge, RailOf(cpGiven.sizes, edge)) \in Int
  <2>1. Gap(edge) \in Int
    BY GivenFacts DEF Gap, PanelEdges
  <2>2. RailOf(cpGiven.sizes, edge) \in Nat \X Nat
    BY GivenFacts DEF RailOf
  <2>3. Need(edge, RailOf(cpGiven.sizes, edge)) \in Int
    BY <2>2 DEF Need
  <2> QED
    BY <2>1, <2>3
<1> QED
  BY <1>1 DEF RailSlack

LEMMA ChoiceIs ==
    ASSUME GivenTrue
    PROVE  LET sizes == cpGiven.sizes IN
           \/ /\ ~Proven /\ PanelChoice = NoPlacement
           \/ /\ Proven /\ EdgesFor(sizes.full) # {}
              /\ PanelChoice.kind = "full" /\ PanelChoice.edge \in EdgesFor(sizes.full)
           \/ /\ Proven /\ EdgesFor(sizes.full) = {} /\ EdgesFor(sizes.compact) # {}
              /\ PanelChoice.kind = "compact" /\ PanelChoice.edge \in EdgesFor(sizes.compact)
           \/ /\ Proven /\ EdgesFor(sizes.full) = {} /\ EdgesFor(sizes.compact) = {} /\ EdgesForRail(sizes) # {}
              /\ PanelChoice.kind = "rail" /\ PanelChoice.edge \in EdgesForRail(sizes)
           \/ /\ Proven /\ EdgesFor(sizes.full) = {} /\ EdgesFor(sizes.compact) = {} /\ EdgesForRail(sizes) = {}
              /\ PanelChoice = NoPlacement
<1> DEFINE sizes == cpGiven.sizes
<1>1. ASSUME NEW kind, NEW edges, edges \subseteq PanelEdges, edges # {}, NEW slack \in [PanelEdges -> Int]
      PROVE  PanelAt(kind, edges, slack).kind = kind /\ PanelAt(kind, edges, slack).edge \in edges
  BY <1>1, RoomiestIsOne DEF PanelAt
<1>2. EdgesFor(sizes.full) \subseteq PanelEdges /\ EdgesFor(sizes.compact) \subseteq PanelEdges /\ EdgesForRail(sizes) \subseteq PanelEdges
  BY DEF EdgesFor, EdgesForRail
<1>3. sizes.full \in Nat \X Nat /\ sizes.compact \in Nat \X Nat
  BY GivenFacts
<1>4. Slack(sizes.full) \in [PanelEdges -> Int] /\ Slack(sizes.compact) \in [PanelEdges -> Int] /\ RailSlack(sizes) \in [PanelEdges -> Int]
  BY <1>3, Slacks, RailSlacks
<1>5. CASE ~Proven
  BY <1>5 DEF PanelChoice
<1>6. CASE Proven /\ EdgesFor(sizes.full) # {}
  <2>1. PanelChoice = PanelAt("full", EdgesFor(sizes.full), Slack(sizes.full))
    BY <1>6 DEF PanelChoice
  <2> HIDE DEF sizes
  <2>2. PanelChoice.kind = "full" /\ PanelChoice.edge \in EdgesFor(sizes.full)
    BY <1>1, <1>2, <1>4, <1>6, <2>1
  <2> QED
    BY <1>6, <2>2 DEF sizes
<1>7. CASE Proven /\ EdgesFor(sizes.full) = {} /\ EdgesFor(sizes.compact) # {}
  <2>1. PanelChoice = PanelAt("compact", EdgesFor(sizes.compact), Slack(sizes.compact))
    BY <1>7 DEF PanelChoice
  <2> HIDE DEF sizes
  <2>2. PanelChoice.kind = "compact" /\ PanelChoice.edge \in EdgesFor(sizes.compact)
    BY <1>1, <1>2, <1>4, <1>7, <2>1
  <2> QED
    BY <1>7, <2>2 DEF sizes
<1>8. CASE Proven /\ EdgesFor(sizes.full) = {} /\ EdgesFor(sizes.compact) = {} /\ EdgesForRail(sizes) # {}
  <2>1. PanelChoice = PanelAt("rail", EdgesForRail(sizes), RailSlack(sizes))
    BY <1>8 DEF PanelChoice
  <2> HIDE DEF sizes
  <2>2. PanelChoice.kind = "rail" /\ PanelChoice.edge \in EdgesForRail(sizes)
    BY <1>1, <1>2, <1>4, <1>8, <2>1
  <2> QED
    BY <1>8, <2>2 DEF sizes
<1>9. CASE Proven /\ EdgesFor(sizes.full) = {} /\ EdgesFor(sizes.compact) = {} /\ EdgesForRail(sizes) = {}
  BY <1>9 DEF PanelChoice
<1> QED
  BY <1>5, <1>6, <1>7, <1>8, <1>9

(* The panel that is shown has room at its edge, whatever its kind.        *)
LEMMA ChosenHasRoom ==
    ASSUME GivenTrue, cpPlacement = PanelChoice, PanelChoice.kind # "hidden"
    PROVE  /\ cpPlacement.edge \in PanelEdges /\ Proven
           /\ Expected \in Nat \X Nat /\ RoomAt(cpPlacement.edge, Expected)
<1> DEFINE sizes == cpGiven.sizes
<1>1. NoPlacement.kind = "hidden"
  BY DEF NoPlacement
<1>2. /\ sizes.full \in Nat \X Nat /\ sizes.compact \in Nat \X Nat
      /\ sizes.horizontal \in Nat \X Nat /\ sizes.vertical \in Nat \X Nat
  BY GivenFacts
<1>3. CASE cpPlacement.kind = "full"
  <2>1. Expected = sizes.full
    BY <1>3 DEF Expected
  <2>2. Proven /\ cpPlacement.edge \in EdgesFor(sizes.full)
    BY <1>1, <1>3, ChoiceIs
  <2> QED
    BY <1>2, <2>1, <2>2 DEF EdgesFor
<1>4. CASE cpPlacement.kind = "compact"
  <2>1. Expected = sizes.compact
    BY <1>4 DEF Expected
  <2>2. Proven /\ cpPlacement.edge \in EdgesFor(sizes.compact)
    BY <1>1, <1>4, ChoiceIs
  <2> QED
    BY <1>2, <2>1, <2>2 DEF EdgesFor
<1>5. CASE cpPlacement.kind = "rail"
  <2>1. Expected = RailOf(sizes, cpPlacement.edge)
    BY <1>5 DEF Expected
  <2>2. Proven /\ cpPlacement.edge \in EdgesForRail(sizes)
    BY <1>1, <1>5, ChoiceIs
  <2>3. RailOf(sizes, cpPlacement.edge) \in Nat \X Nat
    BY <1>2 DEF RailOf
  <2>4. cpPlacement.edge \in PanelEdges /\ RailFits(sizes, cpPlacement.edge)
    BY <2>2 DEF EdgesForRail
  <2>5. SelectionFits
    BY <2>2 DEF Proven
  <2> HIDE DEF sizes
  <2>6. RoomAt(cpPlacement.edge, RailOf(sizes, cpPlacement.edge))
    BY <2>3, <2>4, <2>5, RailHasRoom
  <2> QED
    BY <2>1, <2>2, <2>3, <2>4, <2>6
<1> QED
  BY <1>1, <1>3, <1>4, <1>5, ChoiceIs

(* Where a panel of that size stands once it is anchored to its edge.      *)
LEMMA AnchoredStands ==
    ASSUME GivenTrue, NEW w \in Int, NEW h \in Int, NEW x \in Int, NEW y \in Int,
           w <= Wide => 0 <= x /\ x + w <= Wide,
           h <= High => 0 <= y /\ y + h <= High,
           NEW panel, panel = Anchored(<<w, h>>, x, y)
    PROVE  LET edge == cpPlacement.edge IN
           /\ panel.mapped \in BOOLEAN /\ panel.w = w /\ panel.h = h
           /\ {panel.x, panel.y, panel.w, panel.h} \subseteq Int
           /\ edge \in Along /\ panel.w <= Wide => 0 <= panel.x /\ panel.x + panel.w <= Wide
           /\ edge \notin Along /\ panel.h <= High => 0 <= panel.y /\ panel.y + panel.h <= High
           /\ edge = "top" => panel.y = PanelMargin
           /\ edge = "bottom" => panel.y = High - panel.h - PanelMargin
           /\ edge = "left" => panel.x = PanelMargin
           /\ edge = "right" => panel.x = Wide - panel.w - PanelMargin
<1>1. PICK edge : edge = cpPlacement.edge
  OBVIOUS
<1>2. PICK left : left = CASE edge = "left" -> PanelMargin [] edge = "right" -> Wide - w - PanelMargin [] OTHER -> x
  OBVIOUS
<1>3. PICK top : top = CASE edge = "top" -> PanelMargin [] edge = "bottom" -> High - h - PanelMargin [] OTHER -> y
  OBVIOUS
<1>4. panel = [mapped |-> TRUE, w |-> w, h |-> h, x |-> left, y |-> top]
  BY <1>1, <1>2, <1>3 DEF Anchored
<1>5. panel.mapped \in BOOLEAN
  <2>1. PICK yes : yes = TRUE
    OBVIOUS
  <2>2. panel = [mapped |-> yes, w |-> w, h |-> h, x |-> left, y |-> top]
    BY <1>4, <2>1, Zenon
  <2>3. panel.mapped = yes
    BY <2>2
  <2> QED
    BY <2>1, <2>3, Zenon
<1>6. panel.w = w /\ panel.h = h /\ panel.x = left /\ panel.y = top
  BY <1>4
<1>7. Wide \in Int /\ High \in Int /\ PanelMargin \in Int
  BY GivenFacts
<1>8. /\ edge = "left" => left = PanelMargin
      /\ edge = "right" => left = Wide - w - PanelMargin
      /\ edge \notin {"left", "right"} => left = x
  BY <1>2
<1>9. /\ edge = "top" => top = PanelMargin
      /\ edge = "bottom" => top = High - h - PanelMargin
      /\ edge \notin {"top", "bottom"} => top = y
  BY <1>3
<1>10. left \in Int /\ top \in Int
  BY <1>7, <1>8, <1>9
<1> QED
  BY <1>1, <1>5, <1>6, <1>7, <1>8, <1>9, <1>10 DEF Along

LEMMA PanelStart == PanelInit => PanelInv
<1> SUFFICES ASSUME PanelInit PROVE PanelInv
  OBVIOUS
<1>1. PICK screen \in PanelScreens, sizes \in PanelSizes, layered \in BOOLEAN, single \in BOOLEAN :
        \E rect \in Selections(screen) :
            cpGiven = [screen |-> screen, sizes |-> sizes, layered |-> layered, single |-> single, rect |-> rect]
  BY DEF PanelInit
<1>2. PICK rect \in Selections(screen) :
            cpGiven = [screen |-> screen, sizes |-> sizes, layered |-> layered, single |-> single, rect |-> rect]
  BY <1>1
<1>3. GivenTrue
  BY <1>2 DEF GivenTrue
<1>4. ~cpPanel.mapped /\ cpPanel.mapped \in BOOLEAN
  BY DEF PanelInit, NoPanel
<1>5. cpStage = "measure" /\ cpPlacement = NoPlacement /\ cpMoved \in BOOLEAN /\ ~cpMoved
  <2>1. cpMoved \in BOOLEAN /\ ~cpMoved
    BY Zenon DEF PanelInit
  <2> QED
    BY <2>1 DEF PanelInit
<1> QED
  BY <1>3, <1>4, <1>5 DEF PanelInv, PanelPlaced

LEMMA GivenKept == GivenTrue /\ UNCHANGED cpGiven => GivenTrue'
  BY DEF GivenTrue, Selections

LEMMA ChoiceKept == UNCHANGED cpGiven => PanelChoice' = PanelChoice
  BY DEF PanelChoice, Proven, SelectionFits, EdgesFor, EdgesForRail, RoomAt, RailFits, Gap, Need, RailOf, Slack, RailSlack,
         Wide, High, Sel, PanelAt, Roomiest

LEMMA PanelStep == PanelInv /\ [PanelNext]_cpVars => PanelInv'
<1> SUFFICES ASSUME PanelInv, [PanelNext]_cpVars PROVE PanelInv'
  OBVIOUS
<1>1. UNCHANGED cpGiven /\ GivenTrue /\ GivenTrue' /\ PanelChoice' = PanelChoice
      /\ UNCHANGED <<Wide, High, Sel>>
  BY GivenKept, ChoiceKept DEF PanelInv, PanelNext, ChoosePanel, MapPanel, PlaceByKWin, VerifyPanel, cpVars, Wide, High, Sel
<1>2. CASE UNCHANGED cpVars
  BY ZenonT(60), <1>1, <1>2 DEF PanelInv, PanelPlaced, cpVars, StandsAt, Wide, High, AllocationSafe, RoomAt, Gap, Need, Sel
<1>3. CASE ChoosePanel
  <2>1. cpStage = "measure" /\ ~cpPanel.mapped /\ UNCHANGED <<cpPanel, cpMoved>> /\ cpPlacement' = PanelChoice
        /\ cpStage' = IF PanelChoice.kind = "hidden" THEN "hidden" ELSE "present"
    BY <1>3 DEF ChoosePanel, PanelInv, PanelPlaced
  <2> QED
    BY <1>1, <2>1 DEF PanelInv, PanelPlaced
<1>4. CASE MapPanel
  <2>1. cpStage = "present" /\ UNCHANGED <<cpStage, cpPlacement, cpMoved>> /\ cpPlacement = PanelChoice
        /\ PanelChoice.kind # "hidden" /\ cpMoved \in BOOLEAN /\ ~cpMoved
    BY <1>4 DEF MapPanel, PanelInv, PanelPlaced
  <2>2. Expected \in Nat \X Nat
    BY <1>1, <2>1, ChosenHasRoom
  <2>3. PICK size \in Allocations :
        IF cpGiven.layered
        THEN cpPanel' = Anchored(size, (Wide - size[1]) \div 2, (High - size[2]) \div 2)
        ELSE \E x \in {0, Sel.x}, y \in {0, Sel.y} :
                cpPanel' = [mapped |-> TRUE, x |-> x, y |-> y, w |-> size[1], h |-> size[2]]
    BY <1>4 DEF MapPanel
  <2>4. PICK w \in Int, h \in Int : size = <<w, h>>
    BY <2>2, <2>3 DEF Allocations
  <2>5. CASE cpGiven.layered
    <3>1. cpPanel' = Anchored(<<w, h>>, (Wide - w) \div 2, (High - h) \div 2)
      BY <2>3, <2>4, <2>5
    <3>2. Wide \in Int /\ High \in Int
      BY <1>1, GivenFacts
    <3>3. (Wide - w) \div 2 \in Int /\ (High - h) \div 2 \in Int
      BY <3>2
    <3>4. (w <= Wide => 0 <= (Wide - w) \div 2 /\ (Wide - w) \div 2 + w <= Wide)
          /\ (h <= High => 0 <= (High - h) \div 2 /\ (High - h) \div 2 + h <= High)
      BY <3>2
    <3>5. PICK x \in Int, y \in Int : x = (Wide - w) \div 2 /\ y = (High - h) \div 2
      BY <3>3
    <3>6. PICK new : new = Anchored(<<w, h>>, x, y)
      OBVIOUS
    <3>c. x \in Int /\ y \in Int /\ (w <= Wide => 0 <= x /\ x + w <= Wide) /\ (h <= High => 0 <= y /\ y + h <= High)
      BY <3>4, <3>5
    <3>7. LET edge == cpPlacement.edge IN
           /\ new.mapped \in BOOLEAN /\ new.w = w /\ new.h = h
           /\ {new.x, new.y, new.w, new.h} \subseteq Int
           /\ edge \in Along /\ new.w <= Wide => 0 <= new.x /\ new.x + new.w <= Wide
           /\ edge \notin Along /\ new.h <= High => 0 <= new.y /\ new.y + new.h <= High
           /\ edge = "top" => new.y = PanelMargin
           /\ edge = "bottom" => new.y = High - new.h - PanelMargin
           /\ edge = "left" => new.x = PanelMargin
           /\ edge = "right" => new.x = Wide - new.w - PanelMargin
      BY <1>1, <3>c, <3>6, AnchoredStands
    <3>8. cpPanel' = new
      BY <3>1, <3>5, <3>6
    <3>9. cpPanel'.mapped \in BOOLEAN
      BY <3>7, <3>8
    <3>10. StandsAt(cpPlacement.edge)'
      BY <1>1, <2>1, <3>7, <3>8 DEF StandsAt
    <3> QED
      BY <1>1, <2>1, <3>9, <3>10 DEF PanelInv, PanelPlaced
  <2>6. CASE ~cpGiven.layered
    <3>1. PICK yes : yes = TRUE
      OBVIOUS
    <3>a. \E x \in {0, Sel.x}, y \in {0, Sel.y} :
                cpPanel' = [mapped |-> yes, x |-> x, y |-> y, w |-> size[1], h |-> size[2]]
      BY <2>3, <2>6, <3>1, Zenon
    <3>b. cpPanel'.mapped = yes
      BY <3>a
    <3>2. cpPanel'.mapped \in BOOLEAN
      BY <3>1, <3>b, Zenon
    <3> QED
      BY <1>1, <2>1, <2>6, <3>2 DEF PanelInv, PanelPlaced
  <2> QED
    BY <2>5, <2>6
<1>5. CASE PlaceByKWin
  <2>1. /\ cpPanel.mapped /\ ~cpGiven.layered /\ ~cpMoved /\ UNCHANGED <<cpStage, cpPlacement>>
        /\ Expected[1] <= Wide /\ Expected[2] <= High
    BY <1>5 DEF PlaceByKWin
  <2>2. PanelPlaced /\ PanelChoice.kind # "hidden" /\ cpPlacement = PanelChoice
    BY <2>1 DEF PanelInv, PanelPlaced
  <2>3. Expected \in Nat \X Nat /\ RoomAt(cpPlacement.edge, Expected)
    BY <1>1, <2>2, ChosenHasRoom
  <2>4. PICK w \in Nat, h \in Nat : Expected = <<w, h>>
    BY <2>3
  <2>5. w <= Wide /\ h <= High /\ Expected[1] = w /\ Expected[2] = h
    BY <2>1, <2>4
  <2>6. /\ Wide \in Int /\ High \in Int /\ Sel.x \in Int /\ Sel.y \in Int /\ Sel.w \in Int /\ Sel.h \in Int
    BY <1>1, GivenFacts
  <2>7. PICK x, y : /\ x = OnScreen(Sel.x + Sel.w \div 2 - w \div 2, w, Wide)
                    /\ y = OnScreen(Sel.y + Sel.h \div 2 - h \div 2, h, High)
    OBVIOUS
  <2>8. x \in 0 .. Wide - w /\ y \in 0 .. High - h
    <3>1. Sel.x + Sel.w \div 2 - w \div 2 \in Int /\ Sel.y + Sel.h \div 2 - h \div 2 \in Int
      BY <2>6
    <3>2. w \in Int /\ h \in Int
      OBVIOUS
    <3> QED
      BY <2>5, <2>6, <2>7, <3>1, <3>2, OnScreenIs
  <2>9. cpPanel' = Anchored(Expected, x, y)
    BY <1>5, <2>5, <2>7 DEF PlaceByKWin
  <2>10. PICK new : new = Anchored(<<w, h>>, x, y)
    OBVIOUS
  <2>11. cpPanel' = new
    BY <2>4, <2>9, <2>10
  <2>12. w \in Int /\ h \in Int /\ x \in Int /\ y \in Int
         /\ (w <= Wide => 0 <= x /\ x + w <= Wide) /\ (h <= High => 0 <= y /\ y + h <= High)
    BY <2>6, <2>8
  <2>13. LET edge == cpPlacement.edge IN
           /\ new.mapped \in BOOLEAN /\ new.w = w /\ new.h = h
           /\ {new.x, new.y, new.w, new.h} \subseteq Int
           /\ edge \in Along /\ new.w <= Wide => 0 <= new.x /\ new.x + new.w <= Wide
           /\ edge \notin Along /\ new.h <= High => 0 <= new.y /\ new.y + new.h <= High
           /\ edge = "top" => new.y = PanelMargin
           /\ edge = "bottom" => new.y = High - new.h - PanelMargin
           /\ edge = "left" => new.x = PanelMargin
           /\ edge = "right" => new.x = Wide - new.w - PanelMargin
    BY <1>1, <2>10, <2>12, AnchoredStands
  <2>14. StandsAt(cpPlacement.edge)'
    BY <1>1, <2>1, <2>11, <2>13 DEF StandsAt
  <2>15. cpPanel'.mapped \in BOOLEAN /\ <<cpPanel'.w, cpPanel'.h>> = Expected
    BY <2>4, <2>11, <2>13
  <2>16. new.mapped
    <3>1. PICK yes, left, top : yes = TRUE /\ new = [mapped |-> yes, w |-> w, h |-> h, x |-> left, y |-> top]
      BY <2>10 DEF Anchored
    <3>2. new.mapped = yes
      BY <3>1
    <3> QED
      BY <3>1, <3>2, Zenon
  <2>17. AllocationSafe'
    BY <1>1, <2>1, <2>3, <2>15 DEF AllocationSafe, RoomAt, Gap, Need
  <2>18. cpMoved' \in BOOLEAN
    BY <1>5, Zenon DEF PlaceByKWin
  <2> QED
    BY <1>1, <2>1, <2>2, <2>11, <2>14, <2>15, <2>16, <2>17, <2>18 DEF PanelInv, PanelPlaced
<1>6. CASE VerifyPanel
  <2>1. cpStage = "present" /\ UNCHANGED <<cpPlacement, cpMoved>>
    BY <1>6 DEF VerifyPanel
  <2>2. CASE /\ cpPanel.mapped /\ AllocationSafe
             /\ cpStage' = "sampling" /\ UNCHANGED cpPanel
    <3>1. AllocationSafe' /\ (StandsAt(cpPlacement.edge) => StandsAt(cpPlacement.edge)')
      BY <1>1, <2>1, <2>2 DEF AllocationSafe, StandsAt, RoomAt, Gap, Need
    <3> QED
      BY <1>1, <2>1, <2>2, <3>1 DEF PanelInv, PanelPlaced
  <2>3. CASE cpStage' = "hidden" /\ cpPanel' = NoPanel
    <3>1. ~cpPanel'.mapped /\ cpPanel'.mapped \in BOOLEAN
      BY <2>3 DEF NoPanel
    <3> QED
      BY <1>1, <2>1, <2>3, <3>1 DEF PanelInv, PanelPlaced
  <2> QED
    BY <1>6, <2>2, <2>3 DEF VerifyPanel
<1> QED
  BY <1>2, <1>3, <1>4, <1>5, <1>6 DEF PanelNext

-----------------------------------------------------------------------------
LEMMA PanelStaysOutside == PanelInv => PanelOutside
<1> SUFFICES ASSUME PanelInv, cpStage = "sampling", cpPanel.mapped, cpGiven.layered \/ cpMoved
             PROVE  Area(cpPanel) \intersect Area(Sel) = {} /\ Area(cpPanel) \subseteq Area(Screen)
  BY DEF PanelOutside
<1>1. PICK edge : edge = cpPlacement.edge
  OBVIOUS
<1>2. GivenTrue /\ StandsAt(edge) /\ RoomAt(edge, <<cpPanel.w, cpPanel.h>>)
      /\ PanelChoice.kind # "hidden" /\ cpPlacement = PanelChoice
  BY <1>1 DEF PanelInv, PanelPlaced, AllocationSafe
<1>3. edge \in PanelEdges /\ Proven
  BY <1>1, <1>2, ChosenHasRoom
<1>4. /\ Wide \in Nat \ {0} /\ High \in Nat \ {0} /\ PanelMargin \in Nat
      /\ Sel.x \in Nat /\ Sel.y \in Nat /\ Sel.w \in Nat \ {0} /\ Sel.h \in Nat \ {0}
      /\ Sel.x + Sel.w <= Wide /\ Sel.y + Sel.h <= High
  BY <1>2, <1>3, GivenFacts DEF Proven, SelectionFits
<1>5. {cpPanel.x, cpPanel.y, cpPanel.w, cpPanel.h} \subseteq Int
  BY <1>2 DEF StandsAt
<1>6. cpPanel.w <= Wide /\ cpPanel.h <= High
  BY <1>2 DEF RoomAt
<1>7. /\ edge = "top" => cpPanel.y = PanelMargin /\ Sel.y >= cpPanel.h + PanelMargin
      /\ edge = "bottom" => cpPanel.y = High - cpPanel.h - PanelMargin /\ High - (Sel.y + Sel.h) >= cpPanel.h + PanelMargin
      /\ edge = "left" => cpPanel.x = PanelMargin /\ Sel.x >= cpPanel.w + PanelMargin
      /\ edge = "right" => cpPanel.x = Wide - cpPanel.w - PanelMargin /\ Wide - (Sel.x + Sel.w) >= cpPanel.w + PanelMargin
  BY <1>2 DEF StandsAt, RoomAt, Gap, Need, Along
<1>8. /\ edge \in {"top", "bottom"} => 0 <= cpPanel.x /\ cpPanel.x + cpPanel.w <= Wide
      /\ edge \in {"left", "right"} => 0 <= cpPanel.y /\ cpPanel.y + cpPanel.h <= High
  BY <1>2, <1>6 DEF StandsAt, Along
<1>9. {Sel.x, Sel.y, Sel.w, Sel.h} \subseteq Int
  BY <1>4
<1>10. Screen.x = 0 /\ Screen.y = 0 /\ Screen.w = Wide /\ Screen.h = High
       /\ {Screen.x, Screen.y, Screen.w, Screen.h} \subseteq Int
  BY <1>4 DEF Screen
<1>11. \/ cpPanel.x + cpPanel.w <= Sel.x \/ Sel.x + Sel.w <= cpPanel.x
       \/ cpPanel.y + cpPanel.h <= Sel.y \/ Sel.y + Sel.h <= cpPanel.y
  BY <1>3, <1>4, <1>5, <1>7 DEF PanelEdges
<1>12. /\ 0 <= cpPanel.x /\ cpPanel.x + cpPanel.w <= Wide
       /\ 0 <= cpPanel.y /\ cpPanel.y + cpPanel.h <= High
  BY <1>3, <1>4, <1>5, <1>7, <1>8 DEF PanelEdges
<1>13. Area(cpPanel) \intersect Area(Sel) = {}
  BY <1>5, <1>9, <1>11, AreasApart
<1>14. Area(cpPanel) \subseteq Area(Screen)
  BY <1>5, <1>10, <1>12, AreaInside
<1> QED
  BY <1>13, <1>14

(* The hint's rails are no smaller than the ones that are measured.        *)
LEMMA HintIsSafe ==
    ASSUME GivenTrue, SelectionFits, EdgesForRail(PanelHint) # {}
    PROVE  EdgesForRail(cpGiven.sizes) # {}
<1>1. PICK edge \in PanelEdges : RailFits(PanelHint, edge)
  BY DEF EdgesForRail
<1>2. PICK hint, rail : hint = RailOf(PanelHint, edge) /\ rail = RailOf(cpGiven.sizes, edge)
  OBVIOUS
<1>3. /\ hint \in Nat \X Nat /\ rail \in Nat \X Nat
      /\ rail[1] <= hint[1] /\ rail[2] <= hint[2]
  BY <1>2, GivenFacts DEF RailOf
<1>4. /\ IF edge \in Along THEN hint[1] <= Wide ELSE hint[2] <= High
      /\ Gap(edge) >= Need(edge, hint) + PanelMargin
  BY <1>1, <1>2 DEF RailFits
<1>5. Need(edge, rail) <= Need(edge, hint) /\ Need(edge, rail) \in Nat /\ Need(edge, hint) \in Nat
  BY <1>3 DEF Need
<1>6. Gap(edge) \in Int /\ Wide \in Int /\ High \in Int /\ PanelMargin \in Int
  BY GivenFacts DEF Gap, PanelEdges
<1>7. /\ IF edge \in Along THEN rail[1] <= Wide ELSE rail[2] <= High
      /\ Gap(edge) >= Need(edge, rail) + PanelMargin
  BY <1>3, <1>4, <1>5, <1>6
<1>8. RailFits(cpGiven.sizes, edge)
  BY <1>2, <1>7 DEF RailFits
<1> QED
  BY <1>8 DEF EdgesForRail

LEMMA PanelIsOffered == PanelInv => PanelOffered
<1> SUFFICES ASSUME PanelInv, cpStage = "present" \/ (cpStage = "hidden" /\ cpPlacement = NoPlacement)
             PROVE  /\ cpPlacement.kind = "full" <=> (Proven /\ FreeStrip(cpGiven.sizes.full))
                    /\ cpPlacement.kind = "compact" => FreeStrip(cpGiven.sizes.compact)
                    /\ Proven /\ FreeStrip(cpGiven.sizes.compact) => cpPlacement.kind \in {"full", "compact"}
                    /\ Proven /\ ControlExpected => cpPlacement.kind # "hidden"
  BY DEF PanelOffered
<1>1. GivenTrue /\ cpPlacement = PanelChoice
  BY DEF PanelInv
<1>2. NoPlacement.kind = "hidden"
  BY DEF NoPlacement
<1>3. cpGiven.sizes.full \in Nat \X Nat /\ cpGiven.sizes.compact \in Nat \X Nat
  BY <1>1, GivenFacts
<1>4. Proven => /\ FreeStrip(cpGiven.sizes.full) <=> EdgesFor(cpGiven.sizes.full) # {}
                /\ FreeStrip(cpGiven.sizes.compact) <=> EdgesFor(cpGiven.sizes.compact) # {}
  BY <1>1, <1>3, FreeStripIs DEF Proven
<1>5. Proven /\ ControlExpected => EdgesForRail(cpGiven.sizes) # {}
  BY <1>1, HintIsSafe DEF ControlExpected, Proven
<1> QED
  BY <1>1, <1>2, <1>4, <1>5, ChoiceIs

LEMMA PanelMeans == PanelInv => PanelTypeOK /\ PanelSafe
<1>1. PanelInv => PanelTypeOK
  <2> SUFFICES ASSUME PanelInv PROVE PanelTypeOK
    OBVIOUS
  <2>1. NoPlacement.kind = "hidden" /\ NoPlacement.edge = "none"
    BY DEF NoPlacement
  <2>2. PanelChoice.kind \in {"full", "compact", "rail", "hidden"} /\ PanelChoice.edge \in PanelEdges \union {"none"}
    BY <2>1, ChoiceIs DEF PanelInv, EdgesFor, EdgesForRail
  <2> QED
    BY <2>1, <2>2 DEF PanelInv, PanelTypeOK
<1>2. PanelInv => PanelSafe
  BY PanelStaysOutside, PanelIsOffered DEF PanelSafe
<1> QED
  BY <1>1, <1>2

(* The control panel of a long shot stands beside the region that is       *)
(* sampled, on its screen, and is offered when it has room (recorder.rs,   *)
(* panel.rs).                                                              *)
THEOREM PanelTrue == PanelSpec => [](PanelTypeOK /\ PanelSafe)
BY PanelMeans, PanelStart, PanelStep, PTL DEF PanelSpec

-----------------------------------------------------------------------------
(* Fixed headers and footers of a scrolled page.                           *)

LEMMA MostOf ==
    ASSUME NEW length \in Nat, NEW P \in SUBSET (0 .. length), 0 \in P
    PROVE  Max(P) \in P /\ \A n \in P : n <= Max(P)
<1> DEFINE T == {m \in Nat : m <= length /\ length - m \in P}
<1>1. T \in SUBSET Nat /\ T # {}
  <2>1. length \in T
    OBVIOUS
  <2> QED
    BY <2>1
<1>2. \A m \in T : m \in Nat /\ m <= length /\ length - m \in P
  OBVIOUS
<1>3. \A n \in P : length - n \in T
  OBVIOUS
<1> HIDE DEF T
<1>4. PICK m \in T : \A other \in T : m <= other
  BY <1>1, LeastNat
<1>5. length - m \in P
  BY <1>2, <1>4
<1>6. \A n \in P : length - m >= n
  <2> TAKE n \in P
  <2>1. m <= length - n /\ m \in Nat /\ n \in Nat
    BY <1>2, <1>3, <1>4
  <2> QED
    BY <2>1
<1>7. \E x \in P : \A y \in P : x >= y
  BY <1>5, <1>6
<1>8. Max(P) \in P /\ \A y \in P : Max(P) >= y
  BY <1>7 DEF Max
<1>9. Max(P) \in 0 .. length
  BY <1>8
<1>10. \A y \in P : y <= Max(P)
  <2> TAKE y \in P
  <2>1. y \in 0 .. length /\ Max(P) >= y
    BY <1>8
  <2> QED
    BY <1>9, <2>1
<1> QED
  BY <1>8, <1>10

LEMMA LeadingRunIs ==
    ASSUME NEW agreed, NEW length \in Nat
    PROVE  /\ LeadingRun(agreed, length) \in 0 .. length
           /\ 1 .. LeadingRun(agreed, length) \subseteq agreed
           /\ \A n \in 0 .. length : 1 .. n \subseteq agreed => n <= LeadingRun(agreed, length)
<1> DEFINE P == {n \in 0 .. length : 1 .. n \subseteq agreed}
<1>1. P \in SUBSET (0 .. length) /\ 0 \in P
  OBVIOUS
<1>2. LeadingRun(agreed, length) = Max(P)
  BY DEF LeadingRun
<1>3. Max(P) \in P /\ \A n \in P : n <= Max(P)
  BY <1>1, MostOf
<1> QED
  BY <1>2, <1>3

LEMMA TrailingRunIs ==
    ASSUME NEW agreed, NEW length \in Nat
    PROVE  /\ TrailingRun(agreed, length) \in 0 .. length
           /\ length - TrailingRun(agreed, length) + 1 .. length \subseteq agreed
<1> DEFINE P == {n \in 0 .. length : length - n + 1 .. length \subseteq agreed}
<1>1. P \in SUBSET (0 .. length) /\ 0 \in P
  <2>1. length - 0 + 1 .. length = {}
    OBVIOUS
  <2> QED
    BY <2>1
<1>2. TrailingRun(agreed, length) = Max(P)
  BY DEF TrailingRun
<1>3. Max(P) \in P
  BY <1>1, MostOf
<1> QED
  BY <1>2, <1>3

-----------------------------------------------------------------------------
LEMMA Counted ==
    ASSUME FixedTypeOK, NEW row \in 1 .. FixedRows
    PROVE  /\ Unchanged("rows", row) \in Nat /\ TimesMoved(row) \in Nat
           /\ Unchanged("rows", row) + TimesMoved(row) = Len(frWindow)
           /\ Len(frWindow) \in 0 .. WindowLen
<1> DEFINE D == DOMAIN frWindow
           Same == {i \in D : row \in frWindow[i]["rows"]}
           MovedRows == {i \in D : row \notin frWindow[i].rows}
<1>1. Len(frWindow) \in Nat /\ D = 1 .. Len(frWindow)
  BY LenProperties DEF FixedTypeOK
<1>2. IsFiniteSet(D) /\ Cardinality(D) = Len(frWindow)
  <2>1. PICK n \in Nat : n = Len(frWindow)
    BY <1>1
  <2>2. IsFiniteSet(1 .. n) /\ Cardinality(1 .. n) = IF 1 > n THEN 0 ELSE n - 1 + 1
    BY FS_Interval
  <2>3. Cardinality(1 .. n) = n
    BY <2>2
  <2> QED
    BY SMTT(25), <1>1, <2>1, <2>2, <2>3
<1>3. MovedRows = D \ Same /\ D \intersect Same = Same /\ Same \subseteq D /\ MovedRows \subseteq D
  OBVIOUS
<1>4. IsFiniteSet(Same) /\ IsFiniteSet(MovedRows)
  BY <1>2, <1>3, FS_Subset
<1>5. Cardinality(Same) \in Nat /\ Cardinality(MovedRows) \in Nat
  BY <1>4, FS_CardinalityType
<1>a. Unchanged("rows", row) = Cardinality(Same) /\ TimesMoved(row) = Cardinality(MovedRows)
  BY DEF Unchanged, TimesMoved
<1> HIDE DEF D, Same, MovedRows
<1>6. Cardinality(MovedRows) = Cardinality(D) - Cardinality(Same)
  <2>1. Cardinality(D \ Same) = Cardinality(D) - Cardinality(D \cap Same)
    BY <1>2, FS_Difference
  <2> QED
    BY <1>3, <2>1
<1> QED
  BY <1>1, <1>2, <1>5, <1>6, <1>a DEF FixedTypeOK

(* Of the transitions kept one may disagree, two may not.                  *)
LEMMA AgreedMeans ==
    ASSUME FixedTypeOK, NEW row \in 1 .. FixedRows
    PROVE  /\ row \in Agreed("rows", FixedRows) => TimesMoved(row) < 2
           /\ TimesMoved(row) = 0 => row \in Agreed("rows", FixedRows)
<1>1. PICK same \in Nat, moved \in Nat, kept \in 0 .. WindowLen :
         same = Unchanged("rows", row) /\ moved = TimesMoved(row) /\ kept = Len(frWindow) /\ same + moved = kept
  BY Counted
<1>2. row \in Agreed("rows", FixedRows) <=> 100 * same >= ConsensusPercent * kept
  BY <1>1 DEF Agreed
<1>3. ConsensusPercent \in 1 .. 100 /\ WindowLen \in Nat /\ (100 - ConsensusPercent) * WindowLen < 200
  BY FixedAssumption
<1>4. PICK least \in Nat : least = 100 - ConsensusPercent
  BY <1>3
<1>5. ConsensusPercent = 100 - least
  BY <1>3, <1>4
<1>6. ConsensusPercent * kept = 100 * kept - least * kept
  BY <1>5
<1>7. least * kept <= least * WindowLen /\ least * kept \in Nat /\ least * WindowLen < 200
  <2>1. PICK rest \in Nat : WindowLen = kept + rest
    <3>1. WindowLen - kept \in Nat /\ WindowLen = kept + (WindowLen - kept)
      BY <1>3
    <3> QED
      BY <3>1
  <2>2. least * WindowLen = least * kept + least * rest /\ least * rest \in Nat /\ least * kept \in Nat
    BY <2>1
  <2> QED
    BY <1>3, <1>4, <2>2
<1>8. PICK most \in Nat, lost \in Nat : most = ConsensusPercent * kept /\ lost = least * kept
  BY <1>3, <1>7
<1>9. most = 100 * kept - lost /\ lost < 200 /\ lost \in Nat
  BY <1>3, <1>6, <1>7, <1>8
<1>10. 100 * same >= most => moved < 2
  BY <1>1, <1>9
<1>11. moved = 0 => 100 * same >= most
  BY <1>1, <1>9
<1> QED
  BY <1>1, <1>2, <1>8, <1>10, <1>11

LEMMA WindowStart == FixedInit => FixedTypeOK
  BY FixedAssumption, EmptySeq DEF FixedInit, FixedTypeOK

LEMMA WindowStep == FixedTypeOK /\ [FixedNext]_frVars => FixedTypeOK'
<1> SUFFICES ASSUME FixedTypeOK, [FixedNext]_frVars PROVE FixedTypeOK'
  OBVIOUS
<1>1. CASE UNCHANGED frVars
  BY <1>1 DEF frVars, FixedTypeOK
<1>2. CASE FixedNext
  <2>1. PICK transition \in Transitions :
        frWindow' = Append(IF Len(frWindow) = WindowLen THEN Tail(frWindow) ELSE frWindow, transition)
    BY <1>2 DEF FixedNext, ObserveTransition
  <2>2. frWindow \in Seq(Transitions) /\ Len(frWindow) \in 0 .. WindowLen /\ WindowLen \in Nat \ {0}
    BY FixedAssumption, LenProperties DEF FixedTypeOK
  <2>3. PICK rest : rest = IF Len(frWindow) = WindowLen THEN Tail(frWindow) ELSE frWindow
    OBVIOUS
  <2>4. rest \in Seq(Transitions) /\ Len(rest) \in 0 .. WindowLen - 1
    <3>1. CASE Len(frWindow) = WindowLen
      <4>1. frWindow # <<>>
        BY <2>2, <3>1, EmptySeq
      <4>2. Tail(frWindow) \in Seq(Transitions) /\ Len(Tail(frWindow)) = Len(frWindow) - 1
        BY <2>2, <4>1, HeadTailProperties
      <4> QED
        BY <2>2, <2>3, <3>1, <4>2
    <3>2. CASE Len(frWindow) # WindowLen
      BY <2>2, <2>3, <3>2
    <3> QED
      BY <3>1, <3>2
  <2>5. Append(rest, transition) \in Seq(Transitions) /\ Len(Append(rest, transition)) = Len(rest) + 1
    BY <2>4, AppendProperties
  <2>6. frWindow' = Append(rest, transition)
    BY <2>1, <2>3
  <2> QED
    BY <2>2, <2>4, <2>5, <2>6 DEF FixedTypeOK
<1> QED
  BY <1>1, <1>2

-----------------------------------------------------------------------------
LEMMA AsBandIs ==
    ASSUME NEW run \in Nat, NEW least \in Nat \ {0}, NEW length \in Nat
    PROVE  /\ AsBand(run, least, length) \in {0, run}
           /\ AsBand(run, least, length) # 0 <=> (least <= run /\ run <= MostBand(least, length))
  BY DEF AsBand

LEMMA EdgeBandsAre ==
    ASSUME NEW axis, NEW least \in Nat \ {0}, NEW length \in Nat \ {0}
    PROVE  LET agreed == Agreed(axis, length)
               bands == EdgeBands(axis, least, length)
               head == AsBand(LeadingRun(agreed, length), least, length)
               tail == AsBand(TrailingRun(agreed, length), least, length)
           IN /\ head \in Nat /\ tail \in Nat
              /\ bands[1] \in Nat /\ bands[2] \in Nat /\ bands[1] + bands[2] < length
              /\ bands[1] \in {0, LeadingRun(agreed, length)}
              /\ bands[2] \in {0, TrailingRun(agreed, length)}
              /\ Ready /\ head + tail < length => bands[1] = head
<1> DEFINE agreed == Agreed(axis, length)
<1>1. PICK lead, trail : lead = LeadingRun(agreed, length) /\ trail = TrailingRun(agreed, length)
  OBVIOUS
<1>2. lead \in Nat /\ trail \in Nat
  BY <1>1, LeadingRunIs, TrailingRunIs
<1>3. PICK head, tail : head = AsBand(lead, least, length) /\ tail = AsBand(trail, least, length)
  OBVIOUS
<1>4. head \in {0, lead} /\ tail \in {0, trail}
  BY <1>2, <1>3, AsBandIs
<1>5. EdgeBands(axis, least, length) = IF ~Ready \/ head + tail >= length THEN <<0, 0>> ELSE <<head, tail>>
  BY <1>1, <1>3 DEF EdgeBands
<1>6. CASE ~Ready \/ head + tail >= length
  <2>1. EdgeBands(axis, least, length) = <<0, 0>>
    BY <1>5, <1>6
  <2> QED
    BY <1>1, <1>2, <1>3, <1>4, <1>6, <2>1
<1>7. CASE ~(~Ready \/ head + tail >= length)
  <2>1. EdgeBands(axis, least, length) = <<head, tail>>
    BY <1>5, <1>7
  <2> QED
    BY <1>1, <1>2, <1>3, <1>4, <1>7, <2>1
<1> QED
  BY <1>6, <1>7

-----------------------------------------------------------------------------
(* From samples to pixels. *)
AgreedAt(i) == (i * (PixelWidth - 1)) \div Max({FixedColumns - 1, 1})

LEMMA AtIs ==
    ASSUME NEW i \in Nat, i <= FixedColumns - 1, FixedColumns >= 2
    PROVE  /\ AgreedAt(i) \in Nat /\ AgreedAt(i) * (FixedColumns - 1) <= i * (PixelWidth - 1)
           /\ AgreedAt(i) <= PixelWidth - 1
<1>1. FixedColumns \in Nat /\ PixelWidth \in Nat /\ PixelWidth >= 1
  BY FixedAssumption
<1>2. PICK last \in Nat, wide \in Nat : last = FixedColumns - 1 /\ wide = PixelWidth - 1
  BY <1>1
<1>3. Max({FixedColumns - 1, 1}) = last
  BY <1>1, <1>2, MaxOfTwo
<1>4. last > 0
  BY <1>1, <1>2
<1>5. PICK all \in Nat : all = i * wide
  <2>1. i * wide \in Nat
    OBVIOUS
  <2> QED
    BY <2>1
<1>6. AgreedAt(i) = all \div last
  BY <1>2, <1>3, <1>5 DEF AgreedAt
<1>7. PICK share \in Nat : share = all \div last /\ share * last <= all
  <2>1. all \div last \in Nat /\ (all \div last) * last <= all
    BY <1>4
  <2> QED
    BY <2>1
<1>8. all <= last * wide
  <2>1. PICK rest \in Nat : last = i + rest
    <3>1. last - i \in Nat /\ last = i + (last - i)
      BY <1>2
    <3> QED
      BY <3>1
  <2>2. last * wide = i * wide + rest * wide /\ rest * wide \in Nat
    BY <2>1
  <2> QED
    BY <1>5, <2>2
<1>9. share <= wide
  <2> SUFFICES ASSUME share > wide PROVE FALSE
    BY <1>7
  <2>1. PICK more \in Nat : share = wide + 1 + more
    <3>1. share - wide - 1 \in Nat /\ share = wide + 1 + (share - wide - 1)
      OBVIOUS
    <3> QED
      BY <3>1
  <2>2. share * last = wide * last + last + more * last /\ more * last \in Nat
    BY <1>4, <2>1
  <2>3. wide * last = last * wide /\ wide * last \in Nat
    OBVIOUS
  <2> QED
    BY <1>4, <1>7, <1>8, <2>2, <2>3
<1> QED
  BY <1>2, <1>5, <1>6, <1>7, <1>9

(* What is fixed at the two sides together is not the whole width.         *)
LEMMA SidesLeaveSome ==
    ASSUME NEW a \in Nat, NEW b \in Nat, a + b < FixedColumns
    PROVE  SampleBoundary(a) \in Nat /\ SampleBoundary(b) \in Nat /\ SampleBoundary(a) + SampleBoundary(b) < PixelWidth
<1>1. FixedColumns \in Nat /\ PixelWidth \in Nat /\ PixelWidth >= 1
  BY FixedAssumption
<1>2. \A count \in Nat : count < FixedColumns =>
         SampleBoundary(count) = IF count = 0 THEN 0 ELSE (AgreedAt(count - 1) + AgreedAt(count) + 1) \div 2
  BY <1>1 DEF SampleBoundary, AgreedAt
<1>3. \A count \in Nat : count > 0 /\ count < FixedColumns =>
         /\ SampleBoundary(count) \in Nat
         /\ 2 * SampleBoundary(count) <= AgreedAt(count - 1) + AgreedAt(count) + 1
         /\ AgreedAt(count - 1) \in Nat /\ AgreedAt(count) \in Nat
         /\ AgreedAt(count) <= PixelWidth - 1 /\ AgreedAt(count - 1) <= PixelWidth - 1
  <2> TAKE count \in Nat
  <2> HAVE count > 0 /\ count < FixedColumns
  <2>1. count - 1 \in Nat /\ count <= FixedColumns - 1 /\ count - 1 <= FixedColumns - 1 /\ FixedColumns >= 2
    BY <1>1
  <2>2. /\ AgreedAt(count - 1) \in Nat /\ AgreedAt(count) \in Nat
        /\ AgreedAt(count) <= PixelWidth - 1 /\ AgreedAt(count - 1) <= PixelWidth - 1
    BY <2>1, AtIs
  <2>3. PICK sum \in Nat : sum = AgreedAt(count - 1) + AgreedAt(count) + 1
    BY <2>2
  <2>4. SampleBoundary(count) = sum \div 2
    BY <1>2, <2>3
  <2>5. sum \div 2 \in Nat /\ 2 * (sum \div 2) <= sum
    OBVIOUS
  <2> QED
    BY <2>2, <2>3, <2>4, <2>5
<1>4. CASE a = 0 /\ b = 0
  BY <1>1, <1>2, <1>4
<1>5. CASE a = 0 /\ b > 0
  BY <1>1, <1>2, <1>3, <1>5
<1>6. CASE a > 0 /\ b = 0
  BY <1>1, <1>2, <1>3, <1>6
<1>7. CASE a > 0 /\ b > 0
  <2>1. PICK last \in Nat, wide \in Nat : last = FixedColumns - 1 /\ wide = PixelWidth - 1
    BY <1>1
  <2>2. last >= 2 /\ a + b <= last /\ FixedColumns >= 2
    BY <1>1, <1>7, <2>1
  <2>3. PICK p \in Nat, q \in Nat, r \in Nat, s \in Nat :
          p = AgreedAt(a - 1) /\ q = AgreedAt(a) /\ r = AgreedAt(b - 1) /\ s = AgreedAt(b)
    <3>1. a < FixedColumns /\ b < FixedColumns
      BY <1>1, <1>7
    <3>2. AgreedAt(a - 1) \in Nat /\ AgreedAt(a) \in Nat
      BY <1>3, <1>7, <3>1
    <3>3. AgreedAt(b - 1) \in Nat /\ AgreedAt(b) \in Nat
      BY <1>3, <1>7, <3>1
    <3> QED
      BY <3>2, <3>3
  <2>4. /\ p * last <= (a - 1) * wide /\ q * last <= a * wide
        /\ r * last <= (b - 1) * wide /\ s * last <= b * wide
    <3>1. a - 1 \in Nat /\ b - 1 \in Nat /\ a - 1 <= FixedColumns - 1 /\ a <= FixedColumns - 1
          /\ b - 1 <= FixedColumns - 1 /\ b <= FixedColumns - 1
      BY <1>1, <1>7
    <3> QED
      BY <2>1, <2>2, <2>3, <3>1, AtIs
  <2>5. PICK x \in Nat, y \in Nat : x = SampleBoundary(a) /\ y = SampleBoundary(b)
    BY <1>1, <1>3, <1>7
  <2>6. 2 * x <= p + q + 1 /\ 2 * y <= r + s + 1
    BY <1>1, <1>3, <1>7, <2>3, <2>5
  <2>7. x + y < PixelWidth
    <3>1. PICK sum \in Nat : sum = p + q + r + s
      OBVIOUS
    <3>2. sum * last <= 2 * (last - 1) * wide
      <4>1. sum * last = p * last + q * last + r * last + s * last
        BY <3>1
      <4>2. (a - 1) * wide = a * wide - wide /\ (b - 1) * wide = b * wide - wide
        OBVIOUS
      <4>3. PICK aw \in Nat, bw \in Nat : aw = a * wide /\ bw = b * wide
        OBVIOUS
      <4>4. PICK pl \in Nat, ql \in Nat, rl \in Nat, sl \in Nat :
               pl = p * last /\ ql = q * last /\ rl = r * last /\ sl = s * last
        OBVIOUS
      <4>5. pl <= aw - wide /\ ql <= aw /\ rl <= bw - wide /\ sl <= bw
        BY <2>4, <4>2, <4>3, <4>4
      <4>6. pl + ql + rl + sl <= 2 * aw + 2 * bw - 2 * wide
        BY <4>5
      <4>7. aw + bw <= last * wide
        <5>1. PICK rest \in Nat : last = a + b + rest
          <6>1. last - a - b \in Nat /\ last = a + b + (last - a - b)
            BY <2>2
          <6> QED
            BY <6>1
        <5>2. last * wide = a * wide + b * wide + rest * wide /\ rest * wide \in Nat
          BY <5>1
        <5>3. PICK rw \in Nat : rw = rest * wide
          BY <5>2
        <5> QED
          BY <4>3, <5>2, <5>3
      <4>8. PICK lw \in Nat : lw = last * wide
        OBVIOUS
      <4>9. 2 * (last - 1) * wide = 2 * lw - 2 * wide
        BY <4>8
      <4>10. sum * last = pl + ql + rl + sl
        BY <4>1, <4>4
      <4> QED
        BY <4>6, <4>7, <4>8, <4>9, <4>10
    <3>3. sum <= 2 * wide /\ (wide > 0 => sum < 2 * wide)
      <4>1. PICK lw \in Nat, sl \in Nat : lw = last * wide /\ sl = sum * last
        OBVIOUS
      <4>2. 2 * (last - 1) * wide = 2 * lw - 2 * wide
        BY <4>1
      <4>3. sl <= 2 * lw - 2 * wide
        BY <3>2, <4>1, <4>2
      <4>4. ASSUME NEW more \in Nat, sum = 2 * wide + more
            PROVE  sl >= 2 * lw + more
        <5>1. sum * last = 2 * (last * wide) + more * last
          BY <4>4
        <5>2. PICK rest \in Nat : last = 1 + rest
          <6>1. last - 1 \in Nat /\ last = 1 + (last - 1)
            BY <2>2
          <6> QED
            BY <6>1
        <5>3. more * last = more + more * rest /\ more * rest \in Nat
          BY <5>2
        <5>4. PICK extra \in Nat : extra = more * rest
          BY <5>3
        <5> QED
          BY <4>1, <5>1, <5>3, <5>4
      <4>5. CASE sum >= 2 * wide
        <5>1. PICK more \in Nat : sum = 2 * wide + more
          <6>1. sum - 2 * wide \in Nat /\ sum = 2 * wide + (sum - 2 * wide)
            BY <4>5
          <6> QED
            BY <6>1
        <5>2. sl >= 2 * lw + more
          BY <4>4, <5>1
        <5> QED
          BY <4>3, <5>1, <5>2
      <4>6. CASE sum < 2 * wide
        BY <4>6
      <4> QED
        BY <4>5, <4>6
    <3>4. 2 * (x + y) <= sum + 2
      BY <2>6, <3>1
    <3>5. CASE wide > 0
      BY <1>1, <2>1, <3>3, <3>4, <3>5
    <3>6. CASE wide = 0
      <4>1. sum = 0
        BY <3>3, <3>6
      <4>2. p = 0 /\ q = 0 /\ r = 0 /\ s = 0
        BY <3>1, <4>1
      <4>3. x = 0 /\ y = 0
        BY <2>6, <4>2
      <4> QED
        BY <1>1, <4>3
    <3> QED
      BY <3>5, <3>6
  <2> QED
    BY <2>5, <2>7
<1> QED
  BY <1>4, <1>5, <1>6, <1>7

LEMMA Dimensions ==
    /\ FixedRows \in Nat \ {0} /\ FixedColumns \in Nat \ {0} /\ PixelWidth \in Nat \ {0}
    /\ LeastRows \in Nat \ {0} /\ LeastColumns \in Nat \ {0} /\ MostPercent \in 1 .. 100
    /\ 2 * MostPercent < 100
  BY FixedAssumption

LEMMA BandsAre ==
    LET agreed == Agreed("rows", FixedRows)
        head == AsBand(LeadingRun(agreed, FixedRows), LeastRows, FixedRows)
        tail == AsBand(TrailingRun(agreed, FixedRows), LeastRows, FixedRows)
    IN /\ Bands.top \in Nat /\ Bands.bottom \in Nat /\ Bands.top + Bands.bottom < FixedRows
       /\ Bands.top \in {0, LeadingRun(agreed, FixedRows)}
       /\ Bands.bottom \in {0, TrailingRun(agreed, FixedRows)}
       /\ Ready /\ head + tail < FixedRows => Bands.top = head
       /\ Bands.left + Bands.right < PixelWidth
<1>1. PICK rows : rows = EdgeBands("rows", LeastRows, FixedRows)
  OBVIOUS
<1>2. PICK columns : columns = EdgeBands("columns", LeastColumns, FixedColumns)
  OBVIOUS
<1>3. /\ Bands.top = rows[1] /\ Bands.bottom = rows[2]
      /\ Bands.left = SampleBoundary(columns[1]) /\ Bands.right = SampleBoundary(columns[2])
  BY <1>1, <1>2 DEF Bands
<1>4. columns[1] \in Nat /\ columns[2] \in Nat /\ columns[1] + columns[2] < FixedColumns
  BY <1>2, Dimensions, EdgeBandsAre
<1>5. PICK left \in Nat, right \in Nat : left = columns[1] /\ right = columns[2]
  BY <1>4
<1>6. SampleBoundary(left) + SampleBoundary(right) < PixelWidth
  BY <1>4, <1>5, SidesLeaveSome
<1>7. Bands.left + Bands.right < PixelWidth
  BY <1>3, <1>5, <1>6
<1> DEFINE agreed == Agreed("rows", FixedRows)
           head == AsBand(LeadingRun(agreed, FixedRows), LeastRows, FixedRows)
           tail == AsBand(TrailingRun(agreed, FixedRows), LeastRows, FixedRows)
<1>8. /\ rows[1] \in Nat /\ rows[2] \in Nat /\ rows[1] + rows[2] < FixedRows
      /\ rows[1] \in {0, LeadingRun(agreed, FixedRows)}
      /\ rows[2] \in {0, TrailingRun(agreed, FixedRows)}
      /\ Ready /\ head + tail < FixedRows => rows[1] = head
  BY <1>1, Dimensions, EdgeBandsAre
<1> QED
  BY <1>3, <1>7, <1>8

LEMMA ContentIsKept == FixedTypeOK => ContentKept
<1> SUFFICES ASSUME FixedTypeOK PROVE ContentKept
  OBVIOUS
<1> DEFINE agreed == Agreed("rows", FixedRows)
<1>1. PICK top \in Nat, bottom \in Nat : top = Bands.top /\ bottom = Bands.bottom
  BY BandsAre
<1>2. PICK lead \in Nat, trail \in Nat :
        /\ lead = LeadingRun(agreed, FixedRows) /\ trail = TrailingRun(agreed, FixedRows)
        /\ lead <= FixedRows /\ trail <= FixedRows
        /\ 1 .. lead \subseteq agreed /\ FixedRows - trail + 1 .. FixedRows \subseteq agreed
  BY Dimensions, LeadingRunIs, TrailingRunIs
<1>3. top \in {0, lead} /\ bottom \in {0, trail} /\ top + bottom < FixedRows
  BY <1>1, <1>2, BandsAre
<1>4. BandRows = (1 .. top) \union (FixedRows - bottom + 1 .. FixedRows)
  BY <1>1 DEF BandRows
<1> HIDE DEF agreed
<1>5. \A row \in BandRows : row \in 1 .. FixedRows /\ row \in agreed
  BY <1>2, <1>3, <1>4, Dimensions
<1>6. \A row \in BandRows : TimesMoved(row) < 2
  BY <1>5, AgreedMeans DEF agreed
<1> QED
  BY <1>1, <1>3, <1>6, BandsAre DEF ContentKept

LEMMA TwoBandsLeaveSome ==
    2 * LeastRows < FixedRows => /\ MostBand(LeastRows, FixedRows) \in Nat
                                 /\ 2 * MostBand(LeastRows, FixedRows) < FixedRows
<1>1. PICK all \in Nat : all = MostPercent * FixedRows
  BY Dimensions
<1>2. 2 * all < 100 * FixedRows
  <2>1. PICK percent \in Nat, rest \in Nat : percent = MostPercent /\ 50 = percent + rest /\ rest >= 1
    <3>1. MostPercent \in Nat /\ 50 - MostPercent \in Nat /\ 50 = MostPercent + (50 - MostPercent) /\ 50 - MostPercent >= 1
      BY Dimensions
    <3> QED
      BY <3>1
  <2>2. PICK rows \in Nat : rows = FixedRows /\ rows >= 1
    BY Dimensions
  <2>3. 50 * rows = percent * rows + rest * rows
    BY <2>1
  <2>4. PICK less \in Nat : rest = 1 + less
    <3>1. rest - 1 \in Nat /\ rest = 1 + (rest - 1)
      BY <2>1
    <3> QED
      BY <3>1
  <2>5. rest * rows = rows + less * rows /\ less * rows \in Nat
    BY <2>4
  <2> QED
    BY <1>1, <2>1, <2>2, <2>3, <2>5
<1>3. PICK share \in Nat : share = all \div 100 /\ 100 * share <= all
  <2>1. all \div 100 \in Nat /\ 100 * (all \div 100) <= all
    OBVIOUS
  <2> QED
    BY <2>1
<1>4. MostBand(LeastRows, FixedRows) = Max({LeastRows, share})
  BY <1>1, <1>3 DEF MostBand
<1>5. MostBand(LeastRows, FixedRows) \in {LeastRows, share}
  BY <1>4, Dimensions, MaxOfTwo
<1> QED
  BY <1>2, <1>3, <1>5, Dimensions

LEMMA HeadersAreFound == FixedTypeOK => HeadersFound
<1> SUFFICES ASSUME FixedTypeOK, Ready, 2 * LeastRows < FixedRows,
                    NEW n \in 1 .. FixedRows, Header(n)
             PROVE  Bands.top = IF n \in LeastRows .. MostBand(LeastRows, FixedRows) THEN n ELSE 0
  BY DEF HeadersFound
<1> DEFINE agreed == Agreed("rows", FixedRows)
<1>1. PICK lead \in Nat, trail \in Nat :
        /\ lead = LeadingRun(agreed, FixedRows) /\ trail = TrailingRun(agreed, FixedRows)
        /\ lead <= FixedRows /\ 1 .. lead \subseteq agreed
        /\ \A m \in 0 .. FixedRows : 1 .. m \subseteq agreed => m <= lead
  BY Dimensions, LeadingRunIs, TrailingRunIs
<1>2. \A row \in 1 .. n : row \in agreed
  BY AgreedMeans, Dimensions DEF Header
<1>3. n < FixedRows => n + 1 \notin agreed
  <2> SUFFICES ASSUME n < FixedRows PROVE n + 1 \notin agreed
    OBVIOUS
  <2>1. n + 1 \in 1 .. FixedRows
    BY Dimensions
  <2>2. TimesMoved(n + 1) >= 2 /\ TimesMoved(n + 1) \in Nat
    BY <2>1, Counted DEF Header
  <2> QED
    BY <2>1, <2>2, AgreedMeans
<1> HIDE DEF agreed
<1>4. lead = n
  <2>1. n <= lead
    BY <1>1, <1>2, Dimensions
  <2>2. ~(n < lead)
    <3> SUFFICES ASSUME n < lead PROVE FALSE
      OBVIOUS
    <3>1. n + 1 \in 1 .. lead /\ n < FixedRows
      BY <1>1, Dimensions
    <3> QED
      BY <1>1, <1>3, <3>1
  <2> QED
    BY <2>1, <2>2
<1>5. PICK most \in Nat : most = MostBand(LeastRows, FixedRows) /\ 2 * most < FixedRows
  BY TwoBandsLeaveSome
<1>6. PICK head, tail : head = AsBand(lead, LeastRows, FixedRows) /\ tail = AsBand(trail, LeastRows, FixedRows)
  OBVIOUS
<1>7. head = (IF LeastRows <= lead /\ lead <= most THEN lead ELSE 0)
      /\ tail = (IF LeastRows <= trail /\ trail <= most THEN trail ELSE 0)
  BY <1>5, <1>6 DEF AsBand
<1>8. head \in Nat /\ tail \in Nat /\ head <= most /\ tail <= most
  BY <1>1, <1>5, <1>7
<1>9. head + tail < FixedRows
  BY <1>5, <1>8, Dimensions
<1>10. Ready /\ AsBand(lead, LeastRows, FixedRows) + AsBand(trail, LeastRows, FixedRows) < FixedRows
         => Bands.top = AsBand(lead, LeastRows, FixedRows)
  BY <1>1, BandsAre DEF agreed
<1>11. Bands.top = head
  BY <1>6, <1>9, <1>10
<1>12. n \in LeastRows .. most <=> (LeastRows <= n /\ n <= most)
  BY <1>5, Dimensions
<1> QED
  BY <1>4, <1>5, <1>7, <1>11, <1>12

(* A fixed band leaves content between its ends, and a header that stays   *)
(* for a window of steps is found (fixed_regions.rs).                      *)
THEOREM BandsTrue == FixedSpec => [](FixedTypeOK /\ BandsSound)
<1>1. FixedTypeOK => FixedTypeOK /\ BandsSound
  BY ContentIsKept, HeadersAreFound DEF BandsSound
<1> QED
  BY <1>1, WindowStart, WindowStep, PTL DEF FixedSpec

-----------------------------------------------------------------------------
(* The frames of the screen.                                               *)

Events ==
    [kind : {"Removed"}, output : Outputs] \union [kind : {"Position"}, output : Outputs, x : Int]
    \union [kind : {"Size"}, output : Outputs, w : Nat] \union [kind : {"Buffer"}, format : Formats]
    \union [kind : {"BufferDone", "Ready", "Failed"}] \union [kind : {"Flags"}, inverted : BOOLEAN]

ForLayout == {event \in Events : event.kind \in LayoutEvents}

(* One more event of an inbox looked at.                                   *)
KeptNext(g, i) ==
    IF i = 0 THEN <<>>
    ELSE IF syInbox[i].kind \in LayoutEvents THEN Append(g[i - 1], syInbox[i]) ELSE g[i - 1]

(* Such a function is there, for every length.                             *)
LEMMA KeptIsThere ==
    ASSUME NEW n \in Nat
    PROVE  \E g : g = [i \in 0 .. n |-> KeptNext(g, i)]
<1> DEFINE T == {k \in Nat : ~ \E g : g = [i \in 0 .. k |-> KeptNext(g, i)]}
<1> SUFFICES ASSUME T # {} PROVE FALSE
  OBVIOUS
<1>1. PICK t \in T : \A k \in T : t <= k
  BY LeastNat
<1>2. CASE t = 0
  <2> DEFINE g == [i \in 0 .. 0 |-> <<>>]
  <2>1. g = [i \in 0 .. 0 |-> KeptNext(g, i)]
    BY DEF KeptNext
  <2> HIDE DEF g
  <2>2. \E f : f = [i \in 0 .. t |-> KeptNext(f, i)]
    BY <1>2, <2>1
  <2> QED
    BY <2>2
<1>3. CASE t # 0
  <2>1. t - 1 \in Nat /\ t - 1 \notin T /\ t \in Nat
    BY <1>1, <1>3
  <2>2. PICK g : g = [i \in 0 .. t - 1 |-> KeptNext(g, i)]
    BY <2>1
  <2> DEFINE last == KeptNext(g, t)
             h == [i \in 0 .. t |-> IF i = t THEN last ELSE g[i]]
  <2>3. \A i \in 0 .. t : KeptNext(h, i) = h[i]
    <3> TAKE i \in 0 .. t
    <3>1. i # 0 => i - 1 \in 0 .. t /\ i - 1 # t /\ h[i - 1] = g[i - 1]
      BY <2>1
    <3>2. KeptNext(h, i) = KeptNext(g, i)
      BY <3>1 DEF KeptNext
    <3>3. i # t => i \in 0 .. t - 1 /\ g[i] = KeptNext(g, i)
      BY <2>1, <2>2
    <3> QED
      BY <3>2, <3>3
  <2> HIDE DEF last
  <2>4. h = [i \in 0 .. t |-> h[i]]
    OBVIOUS
  <2> HIDE DEF h
  <2>5. h = [i \in 0 .. t |-> KeptNext(h, i)]
    BY <2>3, <2>4
  <2> QED
    BY <2>5
<1> QED
  BY <1>2, <1>3

(* Of the events of a frame that is gone none is left.                     *)
LEMMA UndroppedFacts ==
    ASSUME syInbox \in Seq(Events)
    PROVE  Undropped \in Seq(ForLayout)
<1> DEFINE n == Len(syInbox)
           kept == CHOOSE g : g = [i \in 0 .. n |-> KeptNext(g, i)]
<1>1. n \in Nat /\ \A i \in 1 .. n : syInbox[i] \in Events
  BY LenProperties, ElementOfSeq
<1>2. Undropped = kept[n]
  BY DEF Undropped, KeptNext
<1>3. kept = [i \in 0 .. n |-> KeptNext(kept, i)]
  BY <1>1, KeptIsThere
<1> HIDE DEF n, kept
<1> DEFINE T == {i \in 0 .. n : kept[i] \notin Seq(ForLayout)}
<1>4. T = {}
  <2> SUFFICES ASSUME T # {} PROVE FALSE
    OBVIOUS
  <2>1. PICK t \in T : \A k \in T : t <= k
    <3>1. T \in SUBSET Nat
      BY <1>1
    <3> HIDE DEF T
    <3> QED
      BY <3>1, LeastNat
  <2>2. CASE t = 0
    BY <1>3, <2>1, <2>2 DEF KeptNext
  <2>3. CASE t # 0
    <3>1. t - 1 \in 0 .. n /\ t - 1 \notin T /\ t \in 1 .. n
      BY <1>1, <2>1, <2>3
    <3>2. kept[t - 1] \in Seq(ForLayout)
      BY <3>1
    <3>3. kept[t] = KeptNext(kept, t)
      BY <1>3, <3>1
    <3>4. syInbox[t].kind \in LayoutEvents => syInbox[t] \in ForLayout
      BY <1>1, <3>1 DEF ForLayout
    <3>5. kept[t] \in Seq(ForLayout)
      <4>1. CASE syInbox[t].kind \in LayoutEvents
        <5>1. kept[t] = Append(kept[t - 1], syInbox[t])
          BY <2>3, <3>3, <4>1 DEF KeptNext
        <5> QED
          BY <3>2, <3>4, <4>1, <5>1, AppendProperties
      <4>2. CASE syInbox[t].kind \notin LayoutEvents
        <5>1. kept[t] = kept[t - 1]
          BY <2>3, <3>3, <4>2 DEF KeptNext
        <5> QED
          BY <3>2, <5>1
      <4> QED
        BY <4>1, <4>2
    <3> QED
      BY <2>1, <3>5
  <2> QED
    BY <2>2, <2>3
<1> QED
  BY <1>1, <1>2, <1>4

ClientShaped(c) ==
    c = [field \in {"version", "globals", "outputs", "output", "frame", "buffer", "done", "failed",
                    "inverted", "ready", "wait", "hasFrame"} |-> c[field]]

ClientTyped(c) ==
    /\ c.version \in 1 .. 3 /\ DOMAIN c.outputs \subseteq Outputs /\ c.frame \in Nat
    /\ c.buffer \in {"none"} \union Formats
    /\ {c.done, c.failed, c.inverted, c.ready, c.wait, c.hasFrame} \subseteq BOOLEAN

CallTyped(c) ==
    /\ c = [field \in {"phase", "outcome", "shot", "asked", "steady"} |-> c[field]]
    /\ c.phase \in {"registry", "geometry", "idle", "first", "heartbeat", "over"}
    /\ c.outcome \in {"none", "Ok", "Failed", "Timeout", "Cancelled", "Unavailable"}
    /\ c.asked \in Nat /\ c.steady \in BOOLEAN

PictureTyped(m) ==
    /\ m = [field \in {"frame", "shows", "column", "inverted"} |-> m[field]]
    /\ m.shows \in Nat /\ m.inverted \in BOOLEAN

ScreenTyped(s) ==
    /\ s = [field \in {"places", "shows", "copied"} |-> s[field]]
    /\ s.places \in [Outputs -> Layouts \union {NoPlace}] /\ s.shows \in Nat

FrameTyped(f) ==
    /\ f = [field \in {"id", "output", "x", "stage", "damage"} |-> f[field]]
    /\ f.id \in Nat /\ f.id # NoFrame /\ f.output \in Outputs
    /\ f.stage \in {"buffer", "offered", "copy"}

CopyTyped ==
    /\ ClientShaped(syClient) /\ ClientTyped(syClient) /\ CallTyped(syCall) /\ PictureTyped(syMemory)
    /\ ScreenTyped(syScreen)
    /\ syInbox \in Seq(Events)
    /\ \A f \in syPending : FrameTyped(f) /\ f.id <= syCounts.frames
    /\ syCounts = [frames |-> syCounts.frames, changes |-> syCounts.changes]
    /\ syCounts.frames \in Nat

(* A frame is there while a capture is under way, and only then; it is the *)
(* last one.                                                               *)
CallOfFrame ==
    /\ syCall.phase \in {"registry", "geometry", "idle", "over"} => syClient.frame = NoFrame
    /\ syCall.phase \in {"first", "heartbeat"} =>
         /\ syClient.frame = syCounts.frames /\ syClient.frame # NoFrame
         /\ syCall.outcome = "none" /\ syCall.asked <= syScreen.shows
    /\ syCall.phase \in {"idle", "first", "heartbeat"} => syClient.output \in Outputs
    /\ syCall.phase \in {"registry", "geometry"} => ~syClient.wait /\ syCall.outcome = "none"
    /\ syCall.outcome = "Timeout" => ~syClient.wait

ShotTrue ==
    syCall.outcome = "Ok" =>
        /\ syCall.phase = "idle" /\ syCall.shot.frame = syCounts.frames /\ ~syCall.shot.inverted
        /\ syCall.shot.shows >= syCall.asked
        /\ syCall.steady => syCall.shot.column = Selected.x

IsLayout(i) == syInbox[i].kind \in LayoutEvents
Quiet == \A i \in DOMAIN syInbox : IsLayout(i)

OneEach == \A f, g \in syPending : f.id = g.id => f = g

(* What is known of the frame under way while the compositor has it.       *)
Asked(f) ==
    /\ f.output = syClient.output
    /\ syCall.steady => syScreen.places[f.output].x + f.x = Selected.x
    /\ syClient.done => syClient.failed
    /\ f.stage \in {"buffer", "copy"} => Quiet /\ ~syClient.failed
    /\ \A i \in DOMAIN syInbox :
         /\ IsLayout(i) \/ syInbox[i].kind \in {"Buffer", "BufferDone"}
         /\ syInbox[i].kind = "BufferDone" \/ (syInbox[i].kind = "Buffer" /\ syClient.version < 3) =>
              \A j \in DOMAIN syInbox : j > i => IsLayout(j)

Refused ==
    /\ syClient.done => syClient.failed
    /\ \A i \in DOMAIN syInbox : IsLayout(i) \/ syInbox[i].kind \in {"BufferDone", "Failed"}

(* It was copied: the shared buffer holds it, and the flags come before    *)
(* the news that it is ready.                                              *)
Copied ==
    /\ ~syClient.failed
    /\ syMemory.frame = syClient.frame /\ syMemory.shows >= syCall.asked
    /\ syCall.steady => syMemory.column = Selected.x
    /\ syClient.done => syClient.inverted = syMemory.inverted
    /\ \A i \in DOMAIN syInbox :
         /\ \/ IsLayout(i) \/ syInbox[i].kind = "Ready"
            \/ syInbox[i].kind = "Flags" /\ syInbox[i].inverted = syMemory.inverted
         /\ syInbox[i].kind = "Ready" =>
              \/ syClient.inverted = syMemory.inverted
              \/ \E j \in DOMAIN syInbox : j < i /\ syInbox[j].kind = "Flags"

HasFrame == syClient.frame # NoFrame
FrameKnown ==
    IF HasFrame
    THEN \/ \E f \in syPending : f.id = syClient.frame /\ Asked(f)
         \/ syPending = {} /\ (Refused \/ Copied)
    ELSE Quiet

CopyInv == CopyTyped /\ CallOfFrame /\ ShotTrue /\ OneEach /\ FrameKnown

LEMMA InboxFacts ==
    ASSUME syInbox \in Seq(Events)
    PROVE  /\ Len(syInbox) \in Nat /\ DOMAIN syInbox = 1 .. Len(syInbox)
           /\ \A i \in DOMAIN syInbox : syInbox[i] \in Events
BY LenProperties, ElementOfSeq

LEMMA FirstEvent ==
    ASSUME syInbox \in Seq(Events), syInbox # <<>>, syInbox' = Tail(syInbox)
    PROVE  /\ Head(syInbox) \in Events /\ Head(syInbox) = syInbox[1] /\ 1 \in DOMAIN syInbox
           /\ syInbox' \in Seq(Events)
           /\ \A i \in DOMAIN syInbox' : i \in Nat /\ i >= 1 /\ i + 1 \in DOMAIN syInbox
                                         /\ syInbox'[i] = syInbox[i + 1]
           /\ \A i \in DOMAIN syInbox : i \in Nat /\ i >= 1 /\ (i # 1 => i - 1 \in DOMAIN syInbox')
<1>1. /\ Head(syInbox) \in Events /\ Head(syInbox) = syInbox[1]
      /\ syInbox' \in Seq(Events) /\ Len(syInbox') = Len(syInbox) - 1
      /\ \A i \in 1 .. Len(syInbox') : syInbox'[i] = syInbox[i + 1]
  BY HeadTailProperties
<1>2. Len(syInbox) \in Nat /\ Len(syInbox) >= 1 /\ DOMAIN syInbox = 1 .. Len(syInbox)
  BY EmptySeq, LenProperties
<1>3. DOMAIN syInbox' = 1 .. Len(syInbox) - 1
  BY <1>1, LenProperties
<1> QED
  BY <1>1, <1>2, <1>3

LEMMA MoreEvents ==
    ASSUME syInbox \in Seq(Events), NEW events \in Seq(Events), syInbox' = syInbox \o events
    PROVE  /\ syInbox' \in Seq(Events)
           /\ \A i \in DOMAIN syInbox : i \in Nat /\ i \in DOMAIN syInbox' /\ syInbox'[i] = syInbox[i]
           /\ \A i \in DOMAIN syInbox' :
                /\ i \in Nat
                /\ \/ i \in DOMAIN syInbox
                   \/ /\ i > Len(syInbox) /\ i - Len(syInbox) \in DOMAIN events
                      /\ syInbox'[i] = events[i - Len(syInbox)]
           /\ \A i \in DOMAIN syInbox : i <= Len(syInbox)
           /\ Len(syInbox) \in Nat /\ DOMAIN syInbox = 1 .. Len(syInbox)
<1>1. PICK n, m \in Nat : n = Len(syInbox) /\ m = Len(events)
  BY LenProperties
<1>2. DOMAIN syInbox = 1 .. n /\ DOMAIN events = 1 .. m
  BY <1>1, LenProperties
<1>3. /\ syInbox' \in Seq(Events) /\ Len(syInbox') = n + m
      /\ \A i \in 1 .. n + m : syInbox'[i] = IF i <= n THEN syInbox[i] ELSE events[i - n]
  BY <1>1, ConcatProperties
<1>4. DOMAIN syInbox' = 1 .. n + m
  BY <1>3, LenProperties
<1> QED
  BY <1>1, <1>2, <1>3, <1>4

LEMMA NoneDropped ==
    ASSUME syInbox \in Seq(Events), syInbox' = Undropped
    PROVE  syInbox' \in Seq(Events) /\ Quiet'
<1>1. syInbox' \in Seq(ForLayout)
  BY UndroppedFacts
<1>2. /\ DOMAIN syInbox' = 1 .. Len(syInbox') /\ Len(syInbox') \in Nat
      /\ \A i \in DOMAIN syInbox' : syInbox'[i] \in ForLayout
  BY <1>1, LenProperties, ElementOfSeq
<1>3. \A i \in DOMAIN syInbox' : syInbox'[i] \in Events /\ syInbox'[i].kind \in LayoutEvents
  BY <1>2 DEF ForLayout
<1>4. syInbox' \in Seq(Events)
  BY <1>1, <1>2, <1>3, IsASeq
<1> QED
  BY <1>3, <1>4 DEF Quiet, IsLayout

LEMMA EventKinds ==
    /\ \A e \in Events : e.kind \in LayoutEvents \/ e.kind \in {"Buffer", "BufferDone", "Flags", "Ready", "Failed"}
    /\ \A e \in Events : e.kind = "Buffer" => e.format \in Formats
    /\ \A e \in Events : e.kind = "Flags" => e.inverted \in BOOLEAN
    /\ \A k \in {"Buffer", "BufferDone", "Flags", "Ready", "Failed"} : k \notin LayoutEvents
BY DEF Events, LayoutEvents

(* What every frame starts from is the client with its marks taken down.   *)
LEMMA FreshFields ==
    ASSUME NEW c, ClientShaped(c), ClientTyped(c)
    PROVE  /\ ClientShaped(Fresh(c)) /\ ClientTyped(Fresh(c))
           /\ ~Fresh(c).done /\ ~Fresh(c).failed /\ ~Fresh(c).inverted /\ ~Fresh(c).ready
           /\ Fresh(c).version = c.version /\ Fresh(c).globals = c.globals
           /\ Fresh(c).outputs = c.outputs /\ Fresh(c).output = c.output
           /\ Fresh(c).frame = c.frame /\ Fresh(c).buffer = c.buffer
           /\ Fresh(c).wait = c.wait /\ Fresh(c).hasFrame = c.hasFrame
<1> DEFINE d == [c EXCEPT !.done = FALSE]
           e == [d EXCEPT !.failed = FALSE]
           f == [e EXCEPT !.inverted = FALSE]
           g == [f EXCEPT !.ready = FALSE]
<1>1. Fresh(c) = g
  BY DEF Fresh, ClientShaped
<1>2. ClientShaped(d) /\ ClientTyped(d) /\ ~d.done
      /\ d.version = c.version /\ d.globals = c.globals /\ d.outputs = c.outputs
      /\ d.output = c.output /\ d.frame = c.frame /\ d.buffer = c.buffer /\ d.wait = c.wait
      /\ d.hasFrame = c.hasFrame
  BY DEF ClientShaped, ClientTyped
<1> HIDE DEF d
<1>3. ClientShaped(e) /\ ClientTyped(e) /\ ~e.done /\ ~e.failed
      /\ e.version = c.version /\ e.globals = c.globals /\ e.outputs = c.outputs
      /\ e.output = c.output /\ e.frame = c.frame /\ e.buffer = c.buffer /\ e.wait = c.wait
      /\ e.hasFrame = c.hasFrame
  BY <1>2 DEF ClientShaped, ClientTyped
<1> HIDE DEF e
<1>4. ClientShaped(f) /\ ClientTyped(f) /\ ~f.done /\ ~f.failed /\ ~f.inverted
      /\ f.version = c.version /\ f.globals = c.globals /\ f.outputs = c.outputs
      /\ f.output = c.output /\ f.frame = c.frame /\ f.buffer = c.buffer /\ f.wait = c.wait
      /\ f.hasFrame = c.hasFrame
  BY <1>3 DEF ClientShaped, ClientTyped
<1> HIDE DEF f
<1>5. ClientShaped(g) /\ ClientTyped(g) /\ ~g.done /\ ~g.failed /\ ~g.inverted /\ ~g.ready
      /\ g.version = c.version /\ g.globals = c.globals /\ g.outputs = c.outputs
      /\ g.output = c.output /\ g.frame = c.frame /\ g.buffer = c.buffer /\ g.wait = c.wait
      /\ g.hasFrame = c.hasFrame
  BY <1>4 DEF ClientShaped, ClientTyped
<1> HIDE DEF g
<1> QED
  BY <1>1, <1>5

(* The client of a frame that begins.                                      *)
Begun(c, wait, id) == [Fresh(c) EXCEPT !.wait = wait, !.frame = id]

LEMMA BegunFields ==
    ASSUME NEW c, ClientShaped(c), ClientTyped(c), NEW wait \in BOOLEAN, NEW id \in Nat
    PROVE  /\ ClientShaped(Begun(c, wait, id)) /\ ClientTyped(Begun(c, wait, id))
           /\ ~Begun(c, wait, id).done /\ ~Begun(c, wait, id).failed
           /\ Begun(c, wait, id).frame = id /\ Begun(c, wait, id).output = c.output
<1> DEFINE f == Fresh(c)
           g == [f EXCEPT !.wait = wait]
           d == [g EXCEPT !.frame = id]
<1>1. /\ ClientShaped(f) /\ ClientTyped(f) /\ ~f.done /\ ~f.failed /\ f.output = c.output
  BY FreshFields
<1> HIDE DEF f
<1>2. Begun(c, wait, id) = d
  BY DEF f, Begun
<1>3. ClientShaped(g) /\ ClientTyped(g) /\ ~g.done /\ ~g.failed /\ g.output = c.output
  BY <1>1 DEF ClientShaped, ClientTyped
<1> HIDE DEF g
<1>4. /\ ClientShaped(d) /\ ClientTyped(d) /\ ~d.done /\ ~d.failed /\ d.output = c.output
      /\ d.frame = id
  BY <1>3 DEF ClientShaped, ClientTyped
<1> HIDE DEF d
<1> QED
  BY <1>2, <1>4

(* What is known of a frame stays known where nothing it speaks of moved.  *)
LEMMA NothingMoved ==
    ASSUME FrameKnown, syClient' = syClient, syMemory' = syMemory, syInbox' = syInbox,
           syPending' = syPending, syScreen'.places = syScreen.places,
           syCall'.asked = syCall.asked, syCall'.steady = syCall.steady
    PROVE  FrameKnown'
<1>1. Quiet' = Quiet /\ HasFrame' = HasFrame /\ Refused' = Refused /\ Copied' = Copied
  BY DEF Quiet, IsLayout, HasFrame, Refused, Copied
<1>2. \A f \in syPending : Asked(f)' = Asked(f)
  BY DEF Asked, IsLayout, Quiet
<1> QED
  BY <1>1, <1>2 DEF FrameKnown

LEMMA CallOverIs ==
    ASSUME NEW phase \in {"idle", "over", "geometry"},
           NEW outcome \in {"none", "Failed", "Timeout", "Cancelled", "Unavailable"},
           syCall' = CallOver(phase, outcome)
    PROVE  /\ CallTyped(syCall)' /\ syCall'.phase = phase /\ syCall'.outcome = outcome
           /\ ShotTrue'
BY DEF CallOver, CallTyped, ShotTrue

(* Opening the connection.                                                 *)
LEMMA OpeningSteps ==
    ASSUME CopyInv, NewFails \/ BindGlobals
    PROVE  CopyInv'
<1>1. /\ syCall.phase \in {"registry", "geometry"}
      /\ UNCHANGED <<syClient, syInbox, syMemory, syScreen, syPending, syCounts>>
      /\ \E phase \in {"geometry", "over"}, outcome \in {"none", "Timeout", "Cancelled", "Failed", "Unavailable"} :
            /\ syCall' = CallOver(phase, outcome)
            /\ phase = "geometry" => outcome = "none"
  BY DEF NewFails, BindGlobals
<1>2. PICK phase \in {"geometry", "over"}, outcome \in {"none", "Timeout", "Cancelled", "Failed", "Unavailable"} :
         /\ syCall' = CallOver(phase, outcome)
         /\ phase = "geometry" => outcome = "none"
  BY <1>1
<1>3. CallTyped(syCall)' /\ syCall'.phase = phase /\ syCall'.outcome = outcome /\ ShotTrue'
  BY <1>2, CallOverIs
<1>4. CopyTyped'
  BY <1>1, <1>3 DEF CopyInv, CopyTyped, ClientShaped, ClientTyped, PictureTyped, ScreenTyped
<1>5. CallOfFrame'
  BY <1>1, <1>2, <1>3 DEF CopyInv, CallOfFrame
<1>6. FrameKnown'
  BY SMTT(25), <1>1 DEF CopyInv, CallOfFrame, FrameKnown, HasFrame, Quiet, IsLayout
<1> QED
  BY <1>1, <1>3, <1>4, <1>5, <1>6 DEF CopyInv, OneEach

LEMMA LearnOutputsStep ==
    ASSUME CopyInv, LearnOutputs
    PROVE  CopyInv'
<1> DEFINE known == [o \in {p \in Outputs : syScreen.places[p] # NoPlace} |-> syScreen.places[o]]
           usable == {"shm", "screencopy"} \subseteq syClient.globals
<1>0. UNCHANGED <<syMemory, syScreen, syPending, syCounts>> /\ syCall.phase = "geometry"
  BY DEF LearnOutputs
<1>1. CASE /\ syInbox' = <<>> /\ syCall' = CallOver("idle", "none")
           /\ \E o \in Tightest(known) : syClient' = [syClient EXCEPT !.outputs = known, !.output = o]
  <2>1. PICK o \in Tightest(known) : syClient' = [syClient EXCEPT !.outputs = known, !.output = o]
    BY <1>1
  <2>2. o \in Outputs /\ DOMAIN known \subseteq Outputs
    BY DEF Tightest, Containing
  <2> HIDE DEF known
  <2>3. /\ ClientShaped(syClient)' /\ ClientTyped(syClient)' /\ syClient'.output = o
        /\ syClient'.frame = syClient.frame /\ syClient'.wait = syClient.wait
    BY <2>1, <2>2 DEF CopyInv, CopyTyped, ClientShaped, ClientTyped
  <2>4. CallTyped(syCall)' /\ syCall'.phase = "idle" /\ syCall'.outcome = "none" /\ ShotTrue'
    BY <1>1, CallOverIs
  <2>5. syInbox' \in Seq(Events) /\ Quiet'
    BY <1>1 DEF Quiet
  <2>6. CopyTyped'
    BY <1>0, <2>3, <2>4, <2>5 DEF CopyInv, CopyTyped, PictureTyped, ScreenTyped
  <2>7. CallOfFrame' /\ FrameKnown' /\ OneEach'
    BY <1>0, <2>2, <2>3, <2>4, <2>5 DEF CopyInv, CallOfFrame, FrameKnown, HasFrame, OneEach
  <2> QED
    BY SMTT(25), <2>4, <2>6, <2>7 DEF CopyInv
<1>2. CASE syCall' = CallOver("over", "Unavailable") /\ UNCHANGED <<syClient, syInbox>>
  <2>1. CallTyped(syCall)' /\ syCall'.phase = "over" /\ syCall'.outcome = "Unavailable" /\ ShotTrue'
    BY <1>2, CallOverIs
  <2>2. CopyTyped'
    BY <1>0, <1>2, <2>1 DEF CopyInv, CopyTyped, ClientShaped, ClientTyped, PictureTyped, ScreenTyped
  <2>3. CallOfFrame'
    BY <1>0, <1>2, <2>1 DEF CopyInv, CallOfFrame
  <2>4. FrameKnown' /\ OneEach'
    BY <1>0, <1>2 DEF CopyInv, CallOfFrame, FrameKnown, HasFrame, Quiet, IsLayout, OneEach
  <2> QED
    BY <2>1, <2>2, <2>3, <2>4 DEF CopyInv
<1> QED
  BY <1>1, <1>2 DEF LearnOutputs

(* A new frame, asked for where the output is.                             *)
LEMMA BeginFrameStep ==
    ASSUME CopyInv, NEW phase \in {"first", "heartbeat"}, NEW wait \in BOOLEAN,
           syCall.phase \in {"idle", "first", "heartbeat"}, BeginFrame(phase, wait)
    PROVE  CopyInv'
<1> DEFINE place == LogicalRect(syClient.outputs, syClient.output)
           id == syCounts.frames + 1
<1> PICK new : new = [id |-> id, output |-> syClient.output, x |-> Selected.x - place.x,
                      stage |-> "buffer", damage |-> FALSE]
  OBVIOUS
<1>0. /\ syInbox' = Undropped /\ UNCHANGED <<syMemory, syScreen>>
      /\ syInbox' \in Seq(Events) /\ Quiet' /\ syCounts.frames \in Nat /\ id \in Nat
      /\ ClientShaped(syClient) /\ ClientTyped(syClient) /\ syClient.output \in Outputs
  BY NoneDropped DEF BeginFrame, CopyInv, CopyTyped, CallOfFrame
<1>1. CASE /\ syClient' = [Fresh(syClient) EXCEPT !.wait = wait, !.frame = id]
           /\ syPending' = syPending \union {new}
           /\ syCounts' = [syCounts EXCEPT !.frames = id]
           /\ syCall' = [phase |-> phase, outcome |-> "none", shot |-> Blank, asked |-> syScreen.shows,
                         steady |-> syScreen.places[syClient.output] = place]
  <2>1. /\ ClientShaped(syClient') /\ ClientTyped(syClient')
        /\ ~syClient'.done /\ ~syClient'.failed /\ syClient'.frame = id
        /\ syClient'.output = syClient.output
    <3>1. syClient' = Begun(syClient, wait, id)
      BY <1>1 DEF Begun
    <3>2. id \in Nat
      BY <1>0
    <3> HIDE DEF id
    <3>3. ClientShaped(syClient') /\ ClientTyped(syClient')
      BY <1>0, <3>1, <3>2, BegunFields
    <3>4. syClient'.frame = id /\ syClient'.output = syClient.output
      BY <1>0, <3>1, <3>2, BegunFields
    <3>5. ~syClient'.done /\ ~syClient'.failed
      BY <1>0, <3>1, <3>2, BegunFields
    <3> QED
      BY <3>3, <3>4, <3>5
  <2>2. /\ CallTyped(syCall)' /\ syCall'.phase = phase /\ syCall'.outcome = "none"
        /\ syCall'.asked = syScreen.shows
        /\ syCall'.steady = (syScreen.places[syClient.output] = place)
    <3>1. syScreen.shows \in Nat
      BY DEF CopyInv, CopyTyped, ScreenTyped
    <3> DEFINE steady == syScreen.places[syClient.output] = place
    <3>2. steady \in BOOLEAN
      OBVIOUS
    <3> HIDE DEF steady, place
    <3>3. syCall' = [phase |-> phase, outcome |-> "none", shot |-> Blank, asked |-> syScreen.shows,
                     steady |-> steady]
      BY <1>1 DEF steady
    <3>4. syCall' = [field \in {"phase", "outcome", "shot", "asked", "steady"} |-> syCall'[field]]
      BY <3>3
    <3>5. /\ syCall'.phase = phase /\ syCall'.outcome = "none" /\ syCall'.asked = syScreen.shows
          /\ syCall'.steady = steady
      BY <3>3
    <3> QED
      BY <3>1, <3>2, <3>4, <3>5 DEF CallTyped, steady
  <2>3. /\ syCounts' = [frames |-> syCounts'.frames, changes |-> syCounts'.changes]
        /\ syCounts'.frames = id
    BY <1>1 DEF CopyInv, CopyTyped
  <2>4. FrameTyped(new) /\ new.id = id /\ new.stage = "buffer" /\ new.output = syClient.output
        /\ new.x = Selected.x - place.x
    BY <1>0 DEF FrameTyped, NoFrame
  <2>5. \A f \in syPending : FrameTyped(f) /\ f.id \in Nat /\ f.id <= syCounts.frames /\ f.id # id
    BY <1>0 DEF CopyInv, CopyTyped, FrameTyped
  <2>6. CopyTyped'
    <3>1. \A f \in syPending' : FrameTyped(f) /\ f.id <= syCounts'.frames
      BY <1>0, <1>1, <2>3, <2>4, <2>5 DEF FrameTyped
    <3>2. ScreenTyped(syScreen)' /\ PictureTyped(syMemory)'
      BY <1>0 DEF CopyInv, CopyTyped, ScreenTyped, PictureTyped
    <3>3. ClientShaped(syClient)' /\ ClientTyped(syClient)'
      BY <2>1 DEF ClientShaped, ClientTyped
    <3>4. \A f \in syPending' : FrameTyped(f)' /\ f.id <= syCounts'.frames
      BY <3>1 DEF FrameTyped
    <3> QED
      BY <1>0, <2>2, <2>3, <3>2, <3>3, <3>4 DEF CopyTyped
  <2>7. CallOfFrame'
    <3>1. syScreen.shows \in Nat /\ syScreen'.shows = syScreen.shows
      BY <1>0 DEF CopyInv, CopyTyped, ScreenTyped
    <3> QED
      BY <1>0, <2>1, <2>2, <2>3, <3>1 DEF CallOfFrame, NoFrame
  <2>8. ShotTrue'
    BY <2>2 DEF ShotTrue
  <2>9. OneEach'
    <3>1. OneEach
      BY DEF CopyInv
    <3>2. \A f \in syPending' : f \in syPending \/ f = new
      BY <1>1
    <3>3. \A f, g \in syPending' : f.id = g.id => f = g
      BY ZenonT(60), <2>4, <2>5, <3>1, <3>2 DEF OneEach
    <3> QED
      BY <3>3 DEF OneEach
  <2>10. Asked(new)'
    <3>1. syCall'.steady => syScreen'.places[new.output] = place /\ place.x \in Int
      <4>1. syScreen.places[syClient.output] \in Layouts \union {NoPlace}
        BY <1>0 DEF CopyInv, CopyTyped, ScreenTyped
      <4>2. \A layout \in Layouts \union {NoPlace} : layout.x \in Int
        BY ScreenCopyAssumption DEF NoPlace
      <4> QED
        BY <1>0, <2>2, <2>4, <4>1, <4>2
    <3> HIDE DEF place
    <3>2. syCall'.steady => syScreen'.places[new.output].x + new.x = Selected.x
      BY <2>4, <3>1 DEF Selected
    <3>3. \A i \in DOMAIN syInbox' : syInbox'[i].kind \in LayoutEvents
      BY <1>0 DEF Quiet, IsLayout
    <3> QED
      BY <1>0, <2>1, <2>4, <3>2, <3>3 DEF Asked, IsLayout, LayoutEvents
  <2>11. FrameKnown'
    <3>1. new \in syPending' /\ new.id = syClient'.frame
      BY <1>1, <2>1, <2>4
    <3>2. HasFrame'
      BY <1>0, <2>1 DEF HasFrame, NoFrame
    <3> QED
      BY <2>10, <3>1, <3>2 DEF FrameKnown
  <2> QED
    BY <2>6, <2>7, <2>8, <2>9, <2>11 DEF CopyInv
<1>2. CASE /\ syClient' = [Fresh(syClient) EXCEPT !.wait = wait, !.frame = NoFrame]
           /\ syCall' = CallOver("idle", "Failed")
           /\ UNCHANGED <<syPending, syCounts>>
  <2>1. /\ ClientShaped(syClient') /\ ClientTyped(syClient') /\ syClient'.frame = NoFrame
        /\ syClient'.output = syClient.output
    <3>1. NoFrame \in Nat
      BY DEF NoFrame
    <3> QED
      <4>1. syClient' = Begun(syClient, wait, NoFrame)
        BY <1>2 DEF Begun
      <4>2. ClientShaped(syClient') /\ ClientTyped(syClient')
        BY <1>0, <3>1, <4>1, BegunFields
      <4>3. syClient'.frame = NoFrame /\ syClient'.output = syClient.output
        BY ZenonT(60), <1>0, <3>1, <4>1, BegunFields
      <4> QED
        BY <4>2, <4>3
  <2>2. CallTyped(syCall)' /\ syCall'.phase = "idle" /\ syCall'.outcome = "Failed" /\ ShotTrue'
    BY <1>2, CallOverIs
  <2>3. CopyTyped'
    <3>1. ScreenTyped(syScreen)' /\ PictureTyped(syMemory)'
      BY <1>0 DEF CopyInv, CopyTyped, ScreenTyped, PictureTyped
    <3>2. ClientShaped(syClient)' /\ ClientTyped(syClient)'
      BY <2>1 DEF ClientShaped, ClientTyped
    <3>3. \A f \in syPending' : FrameTyped(f)' /\ f.id <= syCounts'.frames
      BY <1>2 DEF FrameTyped, CopyInv, CopyTyped
    <3> QED
      BY <1>0, <1>2, <2>2, <3>1, <3>2, <3>3 DEF CopyInv, CopyTyped
  <2>4. CallOfFrame'
    BY <1>0, <2>1, <2>2 DEF CallOfFrame
  <2>5. FrameKnown' /\ OneEach'
    BY <1>0, <1>2, <2>1 DEF CopyInv, FrameKnown, HasFrame, OneEach
  <2> QED
    BY <2>2, <2>3, <2>4, <2>5 DEF CopyInv
<1> QED
  BY <1>1, <1>2 DEF BeginFrame

LEMMA BeginSteps ==
    ASSUME CopyInv, CaptureBegins \/ Heartbeat
    PROVE  CopyInv'
<1>1. ClientTyped(syClient)
  BY DEF CopyInv, CopyTyped
<1> DEFINE wait == syClient.hasFrame /\ syClient.version >= 2
<1>2. wait \in BOOLEAN
  OBVIOUS
<1> HIDE DEF wait
<1>3. CASE CaptureBegins
  <2>1. syCall.phase = "idle" /\ BeginFrame("first", wait)
    BY <1>3 DEF CaptureBegins, wait
  <2> QED
    BY <1>2, <2>1, BeginFrameStep
<1>4. CASE Heartbeat
  <2>1. syCall.phase = "first" /\ BeginFrame("heartbeat", FALSE)
    BY <1>4 DEF Heartbeat
  <2> QED
    BY <2>1, BeginFrameStep
<1> QED
  BY <1>3, <1>4

(* Types that a step leaves.                                               *)
LEMMA SameTypes ==
    ASSUME CopyTyped
    PROVE  /\ syClient' = syClient => (ClientShaped(syClient) /\ ClientTyped(syClient))'
           /\ syCall' = syCall => CallTyped(syCall)'
           /\ syMemory' = syMemory => PictureTyped(syMemory)'
           /\ syScreen' = syScreen => ScreenTyped(syScreen)'
           /\ syPending' \subseteq syPending /\ syCounts' = syCounts =>
                (\A f \in syPending : FrameTyped(f) /\ f.id <= syCounts.frames)'
           /\ syCounts' = syCounts =>
                (syCounts = [frames |-> syCounts.frames, changes |-> syCounts.changes] /\ syCounts.frames \in Nat)'
BY DEF CopyTyped, ClientShaped, ClientTyped, CallTyped, PictureTyped, ScreenTyped, FrameTyped

LEMMA FewerFrames ==
    ASSUME OneEach, syPending' \subseteq syPending
    PROVE  OneEach'
BY DEF OneEach

LEMMA GivesUpStep ==
    ASSUME CopyInv, NEW outcome \in {"Timeout", "Cancelled", "Failed"}, GivesUp(outcome)
    PROVE  CopyInv'
<1>1. /\ syCall.phase \in {"first", "heartbeat"}
      /\ outcome = "Timeout" => ~syClient.wait
      /\ syClient' = [syClient EXCEPT !.frame = NoFrame]
      /\ syCall' = CallOver("idle", outcome) /\ syInbox' = Undropped
      /\ UNCHANGED <<syMemory, syScreen, syPending, syCounts>>
  BY DEF GivesUp
<1>2. syInbox' \in Seq(Events) /\ Quiet'
  BY <1>1, NoneDropped DEF CopyInv, CopyTyped
<1>3. /\ ClientShaped(syClient)' /\ ClientTyped(syClient)' /\ syClient'.frame = NoFrame
      /\ syClient'.output = syClient.output /\ syClient'.wait = syClient.wait
  BY <1>1 DEF CopyInv, CopyTyped, ClientShaped, ClientTyped, NoFrame
<1>4. CallTyped(syCall)' /\ syCall'.phase = "idle" /\ syCall'.outcome = outcome /\ ShotTrue'
  BY <1>1, CallOverIs
<1>5. CopyTyped'
  BY <1>1, <1>2, <1>3, <1>4, SameTypes DEF CopyInv, CopyTyped
<1>6. CallOfFrame'
  BY <1>1, <1>3, <1>4 DEF CopyInv, CallOfFrame
<1>7. FrameKnown' /\ OneEach'
  BY <1>1, <1>2, <1>3, FewerFrames DEF CopyInv, FrameKnown, HasFrame
<1> QED
  BY <1>4, <1>5, <1>6, <1>7 DEF CopyInv

(* The picture that is handed out is the one that was copied.              *)
LEMMA FrameDoneStep ==
    ASSUME CopyInv, FrameDone
    PROVE  CopyInv'
<1> DEFINE ok == ~syClient.failed /\ syClient.buffer # "none"
<1>1. /\ syCall.phase \in {"first", "heartbeat"} /\ syClient.done
      /\ syClient' = [syClient EXCEPT !.frame = NoFrame, !.hasFrame = @ \/ ok]
      /\ syCall' = [syCall EXCEPT !.phase = "idle", !.outcome = IF ok THEN "Ok" ELSE "Failed",
                                  !.shot = [syMemory EXCEPT !.inverted = (@ # syClient.inverted)]]
      /\ syInbox' = Undropped
      /\ UNCHANGED <<syMemory, syScreen, syPending, syCounts>>
  BY DEF FrameDone
<1>2. syInbox' \in Seq(Events) /\ Quiet'
  BY <1>1, NoneDropped DEF CopyInv, CopyTyped
<1>3. /\ ClientShaped(syClient) /\ ClientTyped(syClient) /\ CallTyped(syCall) /\ PictureTyped(syMemory)
  BY DEF CopyInv, CopyTyped
<1>4. /\ ClientShaped(syClient)' /\ ClientTyped(syClient)' /\ syClient'.frame = NoFrame
      /\ syClient'.output = syClient.output
  <2> DEFINE c == [syClient EXCEPT !.frame = NoFrame]
             flag == syClient.hasFrame \/ ok
  <2>1. flag \in BOOLEAN /\ NoFrame \in Nat
    BY DEF NoFrame
  <2>2. syClient' = [c EXCEPT !.hasFrame = flag]
    BY <1>1, <1>3 DEF ClientShaped
  <2>3. ClientShaped(c) /\ ClientTyped(c) /\ c.frame = NoFrame /\ c.output = syClient.output
    BY <1>3, <2>1 DEF ClientShaped, ClientTyped
  <2> HIDE DEF c, flag
  <2>4. ClientShaped(syClient') /\ ClientTyped(syClient') /\ syClient'.frame = NoFrame
        /\ syClient'.output = syClient.output
    BY <2>1, <2>2, <2>3 DEF ClientShaped, ClientTyped
  <2> QED
    BY <2>4 DEF ClientShaped, ClientTyped
<1> DEFINE shot == [syMemory EXCEPT !.inverted = (@ # syClient.inverted)]
<1>5. /\ CallTyped(syCall') /\ syCall'.phase = "idle" /\ syCall'.outcome = IF ok THEN "Ok" ELSE "Failed"
      /\ syCall'.shot = shot /\ syCall'.asked = syCall.asked /\ syCall'.steady = syCall.steady
  <2> DEFINE outcome == IF ok THEN "Ok" ELSE "Failed"
             c == [syCall EXCEPT !.phase = "idle"]
             d == [c EXCEPT !.outcome = outcome]
  <2> HIDE DEF shot
  <2>1. outcome \in {"Ok", "Failed"}
    OBVIOUS
  <2>2. syCall' = [d EXCEPT !.shot = shot]
    BY <1>1, <1>3 DEF CallTyped, shot
  <2>3. CallTyped(c) /\ c.phase = "idle" /\ c.asked = syCall.asked /\ c.steady = syCall.steady
    BY <1>3 DEF CallTyped
  <2> HIDE DEF c, outcome
  <2>4. CallTyped(d) /\ d.phase = "idle" /\ d.outcome = outcome
        /\ d.asked = syCall.asked /\ d.steady = syCall.steady
    BY <2>1, <2>3 DEF CallTyped
  <2> HIDE DEF d
  <2>5. CallTyped(syCall') /\ syCall'.phase = "idle" /\ syCall'.outcome = outcome
        /\ syCall'.shot = shot /\ syCall'.asked = syCall.asked /\ syCall'.steady = syCall.steady
    BY <2>1, <2>2, <2>4 DEF CallTyped
  <2> QED
    BY <2>5 DEF outcome
<1>6. CallTyped(syCall)'
  BY <1>5 DEF CallTyped
<1>7. ShotTrue'
  <2> SUFFICES ASSUME syCall'.outcome = "Ok"
               PROVE  /\ syCall'.phase = "idle" /\ syCall'.shot.frame = syCounts'.frames /\ ~syCall'.shot.inverted
                      /\ syCall'.shot.shows >= syCall'.asked
                      /\ syCall'.steady => syCall'.shot.column = Selected.x
    BY DEF ShotTrue
  <2>1. ok
    BY <1>5
  <2>2. HasFrame /\ syClient.frame = syCounts.frames
    BY <1>1 DEF CopyInv, CallOfFrame, HasFrame
  <2>3. Copied
    BY <1>1, <2>1, <2>2 DEF CopyInv, FrameKnown, Asked, Refused
  <2>4. /\ shot.frame = syMemory.frame /\ shot.shows = syMemory.shows /\ shot.column = syMemory.column
        /\ shot.inverted = (syMemory.inverted # syClient.inverted)
    BY <1>3 DEF PictureTyped
  <2> HIDE DEF shot, ok
  <2> QED
    BY <1>1, <1>5, <2>2, <2>3, <2>4 DEF Copied
<1>8. CopyTyped'
  BY <1>1, <1>2, <1>4, <1>6, SameTypes DEF CopyInv, CopyTyped
<1>9. CallOfFrame'
  BY <1>1, <1>4, <1>5 DEF CopyInv, CallOfFrame
<1>10. FrameKnown' /\ OneEach'
  BY <1>1, <1>2, <1>4, FewerFrames DEF CopyInv, FrameKnown, HasFrame
<1> QED
  BY <1>7, <1>8, <1>9, <1>10 DEF CopyInv

LEMMA PageChangesStep ==
    ASSUME CopyInv, PageChanges
    PROVE  CopyInv'
<1>1. /\ syCounts' = [syCounts EXCEPT !.changes = @ + 1]
      /\ syScreen' = [syScreen EXCEPT !.shows = @ + 1]
      /\ UNCHANGED <<syClient, syCall, syInbox, syMemory, syPending>>
  BY DEF PageChanges, Changes
<1>2. ScreenTyped(syScreen') /\ syScreen'.places = syScreen.places /\ syScreen'.shows = syScreen.shows + 1
      /\ syScreen.shows \in Nat
  <2>1. ScreenTyped(syScreen) /\ syScreen.shows \in Nat
    BY DEF CopyInv, CopyTyped, ScreenTyped
  <2>2. PICK n \in Nat : n = syScreen.shows + 1
    BY <2>1
  <2>3. syScreen' = [syScreen EXCEPT !.shows = n]
    BY <1>1, <2>2
  <2>4. syScreen'.places = syScreen.places /\ syScreen'.shows = n
    BY <2>1, <2>3 DEF ScreenTyped
  <2>5. syScreen' = [field \in {"places", "shows", "copied"} |-> syScreen'[field]]
    BY <2>1, <2>3 DEF ScreenTyped
  <2> QED
    BY <2>1, <2>2, <2>4, <2>5 DEF ScreenTyped
<1>3. /\ syCounts' = [frames |-> syCounts'.frames, changes |-> syCounts'.changes]
      /\ syCounts'.frames = syCounts.frames
  BY <1>1 DEF CopyInv, CopyTyped
<1>4. CopyTyped'
  <2>1. ScreenTyped(syScreen)'
    BY <1>2 DEF ScreenTyped
  <2>2. (\A f \in syPending : FrameTyped(f) /\ f.id <= syCounts.frames)'
    BY <1>1, <1>3 DEF CopyInv, CopyTyped, FrameTyped
  <2> QED
    BY <1>1, <1>3, <2>1, <2>2, SameTypes DEF CopyInv, CopyTyped
<1>5. CallOfFrame' /\ ShotTrue' /\ OneEach'
  <2>1. syCall.asked \in Nat
    BY DEF CopyInv, CopyTyped, CallTyped
  <2>2. CallOfFrame'
    BY <1>1, <1>2, <1>3, <2>1 DEF CopyInv, CallOfFrame
  <2>3. ShotTrue'
    BY <1>1, <1>3 DEF CopyInv, ShotTrue
  <2>4. OneEach'
    BY <1>1 DEF CopyInv, OneEach
  <2> QED
    BY <2>2, <2>3, <2>4
<1>6. FrameKnown'
  BY <1>1, <1>2, NothingMoved DEF CopyInv
<1> QED
  BY <1>4, <1>5, <1>6 DEF CopyInv

(* News of the layout changes nothing of what is known of the frame but    *)
(* where its picture is taken.                                             *)
LEMMA LayoutNews ==
    ASSUME syInbox \in Seq(Events), NEW events \in Seq(Events), syInbox' = syInbox \o events,
           \A i \in DOMAIN events : events[i].kind \in LayoutEvents,
           syClient' = syClient, syMemory' = syMemory,
           syCall'.asked = syCall.asked, syCall'.steady => syCall.steady
    PROVE  /\ (Quiet => Quiet') /\ (Refused => Refused') /\ (Copied => Copied')
           /\ \A f : Asked(f) /\ (syCall'.steady => syScreen'.places[f.output].x + f.x = Selected.x)
                     => Asked(f)'
<1>1. /\ \A i \in DOMAIN syInbox : i \in Nat /\ i \in DOMAIN syInbox' /\ syInbox'[i] = syInbox[i]
      /\ \A i \in DOMAIN syInbox' : i \in Nat /\ (i \in DOMAIN syInbox \/ syInbox'[i].kind \in LayoutEvents)
  BY MoreEvents
<1>2. Quiet => Quiet'
  BY <1>1 DEF Quiet, IsLayout
<1>3. Refused => Refused'
  BY <1>1 DEF Refused, IsLayout
<1>4. \A k \in {"Ready", "Flags", "Buffer", "BufferDone"} : k \notin LayoutEvents
  BY DEF LayoutEvents
<1>5. Copied => Copied'
  <2> SUFFICES ASSUME Copied PROVE Copied'
    OBVIOUS
  <2>1. ASSUME NEW i \in DOMAIN syInbox'
        PROVE  /\ \/ syInbox'[i].kind \in LayoutEvents \/ syInbox'[i].kind = "Ready"
                  \/ syInbox'[i].kind = "Flags" /\ syInbox'[i].inverted = syMemory'.inverted
               /\ syInbox'[i].kind = "Ready" =>
                    \/ syClient'.inverted = syMemory'.inverted
                    \/ \E j \in DOMAIN syInbox' : j < i /\ syInbox'[j].kind = "Flags"
    <3>1. CASE i \in DOMAIN syInbox
      <4>1. syInbox'[i] = syInbox[i]
        BY <1>1, <3>1
      <4> QED
        BY <1>1, <3>1, <4>1 DEF Copied, IsLayout
    <3>2. CASE syInbox'[i].kind \in LayoutEvents
      BY <1>4, <3>2
    <3> QED
      BY <1>1, <3>1, <3>2
  <2> QED
    BY <2>1 DEF Copied, IsLayout
<1>6. ASSUME NEW f, Asked(f), syCall'.steady => syScreen'.places[f.output].x + f.x = Selected.x
      PROVE  Asked(f)'
  <2>1. ASSUME NEW i \in DOMAIN syInbox'
        PROVE  /\ syInbox'[i].kind \in LayoutEvents \/ syInbox'[i].kind \in {"Buffer", "BufferDone"}
               /\ syInbox'[i].kind = "BufferDone" \/ (syInbox'[i].kind = "Buffer" /\ syClient'.version < 3) =>
                    \A j \in DOMAIN syInbox' : j > i => syInbox'[j].kind \in LayoutEvents
    <3>1. CASE i \in DOMAIN syInbox
      <4>1. syInbox'[i] = syInbox[i]
        BY <1>1, <3>1
      <4> QED
        BY <1>1, <1>6, <3>1, <4>1 DEF Asked, IsLayout
    <3>2. CASE syInbox'[i].kind \in LayoutEvents
      BY <1>4, <3>2
    <3> QED
      BY <1>1, <3>1, <3>2
  <2> QED
    BY <1>2, <1>6, <2>1 DEF Asked, IsLayout
<1> QED
  BY <1>2, <1>3, <1>5, <1>6

(* An output goes or moves.                                                *)
LEMMA OutputChangesStep ==
    ASSUME CopyInv, NEW o \in Outputs, OutputChanges(o)
    PROVE  CopyInv'
<1>0. /\ syCounts' = [syCounts EXCEPT !.changes = @ + 1]
      /\ syCall' = [syCall EXCEPT !.steady = @ /\ (o # syClient.output)]
      /\ UNCHANGED <<syClient, syMemory, syPending>>
      /\ syInbox \in Seq(Events) /\ ScreenTyped(syScreen) /\ CallTyped(syCall)
  BY DEF OutputChanges, Changes, CopyInv, CopyTyped
<1>1. \E place \in Layouts \union {NoPlace}, events \in Seq(Events) :
         /\ syScreen' = [syScreen EXCEPT !.places[o] = place]
         /\ syInbox' = syInbox \o events
         /\ \A i \in DOMAIN events : events[i].kind \in LayoutEvents
  <2>1. CASE /\ syScreen' = [syScreen EXCEPT !.places[o] = NoPlace]
             /\ Sends(<<[kind |-> "Removed", output |-> o]>>)
    <3>1. PICK event : event = [kind |-> "Removed", output |-> o]
      OBVIOUS
    <3>2. event \in Events /\ event.kind \in LayoutEvents
      BY <3>1 DEF Events, LayoutEvents
    <3>3. <<event>> \in Seq(Events) /\ \A i \in DOMAIN <<event>> : <<event>>[i].kind \in LayoutEvents
      BY <3>2
    <3> QED
      BY <2>1, <3>1, <3>3 DEF Sends
  <2>2. CASE \E place \in Layouts \ {syScreen.places[o]} :
               /\ syScreen' = [syScreen EXCEPT !.places[o] = place]
               /\ Sends(<<[kind |-> "Position", output |-> o, x |-> place.x],
                          [kind |-> "Size", output |-> o, w |-> place.w]>>)
    <3>1. PICK place \in Layouts : /\ syScreen' = [syScreen EXCEPT !.places[o] = place]
               /\ Sends(<<[kind |-> "Position", output |-> o, x |-> place.x],
                          [kind |-> "Size", output |-> o, w |-> place.w]>>)
      BY <2>2
    <3>2. PICK first, second : /\ first = [kind |-> "Position", output |-> o, x |-> place.x]
                               /\ second = [kind |-> "Size", output |-> o, w |-> place.w]
      OBVIOUS
    <3>3. place.x \in Int /\ place.w \in Nat
      BY ScreenCopyAssumption
    <3>4. /\ first \in Events /\ first.kind \in LayoutEvents
          /\ second \in Events /\ second.kind \in LayoutEvents
      BY <3>2, <3>3 DEF Events, LayoutEvents
    <3>5. /\ <<first, second>> \in Seq(Events)
          /\ \A i \in DOMAIN <<first, second>> : <<first, second>>[i].kind \in LayoutEvents
      BY <3>4
    <3> QED
      BY <3>1, <3>2, <3>5 DEF Sends
  <2> QED
    BY <2>1, <2>2 DEF OutputChanges
<1>2. PICK place \in Layouts \union {NoPlace}, events \in Seq(Events) :
         /\ syScreen' = [syScreen EXCEPT !.places[o] = place]
         /\ syInbox' = syInbox \o events
         /\ \A i \in DOMAIN events : events[i].kind \in LayoutEvents
  BY <1>1
<1>3. syInbox' \in Seq(Events)
  BY <1>0, <1>2, MoreEvents
<1>4. /\ ScreenTyped(syScreen') /\ syScreen'.shows = syScreen.shows
      /\ \A p \in Outputs : p # o => syScreen'.places[p] = syScreen.places[p]
  <2> DEFINE places == [syScreen.places EXCEPT ![o] = place]
  <2>1. places \in [Outputs -> Layouts \union {NoPlace}]
        /\ \A p \in Outputs : p # o => places[p] = syScreen.places[p]
    BY <1>0 DEF ScreenTyped
  <2>2. syScreen' = [syScreen EXCEPT !.places = places]
    BY <1>2
  <2> HIDE DEF places
  <2>3. /\ syScreen'.places = places /\ syScreen'.shows = syScreen.shows
        /\ syScreen' = [field \in {"places", "shows", "copied"} |-> syScreen'[field]]
    BY <1>0, <2>2 DEF ScreenTyped
  <2> QED
    BY <1>0, <2>1, <2>3 DEF ScreenTyped
<1>5. /\ CallTyped(syCall') /\ syCall'.asked = syCall.asked /\ syCall'.phase = syCall.phase
      /\ syCall'.outcome = syCall.outcome /\ syCall'.shot = syCall.shot
      /\ syCall'.steady => syCall.steady /\ o # syClient.output
  <2> DEFINE steady == syCall.steady /\ o # syClient.output
  <2>1. steady \in BOOLEAN /\ (steady => syCall.steady /\ o # syClient.output)
    OBVIOUS
  <2>2. syCall' = [syCall EXCEPT !.steady = steady]
    BY <1>0
  <2> HIDE DEF steady
  <2>3. syCall'.steady = steady
    BY <1>0, <2>2 DEF CallTyped
  <2>4. /\ CallTyped(syCall') /\ syCall'.asked = syCall.asked /\ syCall'.phase = syCall.phase
        /\ syCall'.outcome = syCall.outcome /\ syCall'.shot = syCall.shot
    BY <1>0, <2>1, <2>2, <2>3 DEF CallTyped
  <2> QED
    BY <2>1, <2>3, <2>4
<1>6. /\ syCounts' = [frames |-> syCounts'.frames, changes |-> syCounts'.changes]
      /\ syCounts'.frames = syCounts.frames
  BY <1>0 DEF CopyInv, CopyTyped
<1>7. CopyTyped'
  <2>1. ScreenTyped(syScreen)' /\ CallTyped(syCall)'
    BY <1>4, <1>5 DEF ScreenTyped, CallTyped
  <2>2. (\A f \in syPending : FrameTyped(f) /\ f.id <= syCounts.frames)'
    BY <1>0, <1>6 DEF CopyInv, CopyTyped, FrameTyped
  <2> QED
    BY <1>0, <1>3, <1>6, <2>1, <2>2, SameTypes DEF CopyInv, CopyTyped
<1>8. CallOfFrame' /\ OneEach'
  BY <1>0, <1>4, <1>5, <1>6, FewerFrames DEF CopyInv, CallOfFrame
<1>9. ShotTrue'
  BY <1>5, <1>6 DEF CopyInv, ShotTrue
<1>10. FrameKnown'
  <2>1. /\ (Quiet => Quiet') /\ (Refused => Refused') /\ (Copied => Copied')
        /\ \A f : Asked(f) /\ (syCall'.steady => syScreen'.places[f.output].x + f.x = Selected.x)
                  => Asked(f)'
    BY <1>0, <1>2, <1>5, LayoutNews
  <2>2. ASSUME NEW f \in syPending, Asked(f)
        PROVE  Asked(f)'
    <3>1. f.output \in Outputs
      BY DEF CopyInv, CopyTyped, FrameTyped
    <3>2. syCall'.steady => syScreen'.places[f.output] = syScreen.places[f.output]
      BY <1>4, <1>5, <2>2, <3>1 DEF Asked
    <3>3. syCall'.steady => syScreen'.places[f.output].x + f.x = Selected.x
      BY <1>5, <2>2, <3>2 DEF Asked
    <3> QED
      BY <2>1, <2>2, <3>3
  <2>3. FrameKnown /\ HasFrame' = HasFrame
    BY <1>0 DEF CopyInv, HasFrame
  <2>4. CASE HasFrame
    <3>1. CASE \E f \in syPending : f.id = syClient.frame /\ Asked(f)
      <4>1. PICK f \in syPending : f.id = syClient.frame /\ Asked(f)
        BY <3>1
      <4>2. f \in syPending' /\ f.id = syClient'.frame /\ Asked(f)'
        BY <1>0, <2>2, <4>1
      <4> QED
        BY <2>3, <2>4, <4>2 DEF FrameKnown
    <3>2. CASE (syPending = {} /\ (Refused \/ Copied))
      <4>1. syPending' = {} /\ (Refused' \/ Copied')
        BY <1>0, <2>1, <3>2
      <4> QED
        BY <2>3, <2>4, <4>1 DEF FrameKnown
    <3>3. (\E f \in syPending : f.id = syClient.frame /\ Asked(f)) \/ (syPending = {} /\ (Refused \/ Copied))
      BY <2>3, <2>4 DEF FrameKnown
    <3> QED
      BY <3>1, <3>2, <3>3
  <2>5. CASE ~HasFrame
    BY <2>1, <2>3, <2>5 DEF FrameKnown
  <2> QED
    BY <2>4, <2>5
<1> QED
  BY <1>7, <1>8, <1>9, <1>10 DEF CopyInv

(* The frame under way, while the compositor has it, is the only one the   *)
(* compositor can be at.                                                   *)
LEMMA TheFrame ==
    ASSUME CopyInv, NEW f \in syPending, f.id = syClient.frame
    PROVE  /\ Asked(f) /\ HasFrame /\ FrameTyped(f)
           /\ syCall.phase \in {"first", "heartbeat"} /\ syCall.outcome = "none"
           /\ Working(f) => syPending = {f}
<1>1. FrameTyped(f) /\ f.id \in Nat /\ f.id # NoFrame
  BY DEF CopyInv, CopyTyped, FrameTyped
<1>2. HasFrame
  BY <1>1 DEF HasFrame
<1>3. syCall.phase \in {"first", "heartbeat"} /\ syCall.outcome = "none" /\ syClient.frame = syCounts.frames
  BY <1>2 DEF CopyInv, CopyTyped, CallOfFrame, CallTyped, HasFrame
<1>4. Asked(f)
  <2>1. syPending # {}
    OBVIOUS
  <2>2. PICK g \in syPending : g.id = syClient.frame /\ Asked(g)
    BY <1>2, <2>1 DEF CopyInv, FrameKnown
  <2> QED
    BY <2>2 DEF CopyInv, OneEach
<1>5. Working(f) => syPending = {f}
  <2>1. \A g \in syPending : g.id \in Nat /\ g.id <= syCounts.frames /\ (g.id = f.id => g = f)
    BY DEF CopyInv, CopyTyped, FrameTyped, OneEach
  <2>2. syCounts.frames \in Nat
    BY DEF CopyInv, CopyTyped
  <2> QED
    BY <1>3, <2>1, <2>2 DEF Working
<1> QED
  BY <1>1, <1>2, <1>3, <1>4, <1>5

(* What the compositor says of a frame comes after all that is waiting.    *)
LEMMA OwnNews ==
    ASSUME syInbox \in Seq(Events), Quiet, NEW events \in Seq(Events), syInbox' = syInbox \o events
    PROVE  /\ syInbox' \in Seq(Events) /\ Len(syInbox) \in Nat
           /\ \A i \in DOMAIN syInbox' :
                /\ i \in Nat
                /\ \/ i <= Len(syInbox) /\ syInbox'[i].kind \in LayoutEvents
                   \/ i > Len(syInbox) /\ i - Len(syInbox) \in DOMAIN events
                      /\ syInbox'[i] = events[i - Len(syInbox)]
<1>1. \A i \in DOMAIN syInbox : syInbox[i].kind \in LayoutEvents
  BY DEF Quiet, IsLayout
<1> QED
  BY <1>1, MoreEvents

LEMMA OffersBufferStep ==
    ASSUME CopyInv, NEW f \in syPending, OffersBuffer(f)
    PROVE  CopyInv'
<1>0. /\ Working(f) /\ f.id = syClient.frame /\ f.stage = "buffer"
      /\ syPending' = (syPending \ {f}) \union {[f EXCEPT !.stage = "offered"]}
      /\ UNCHANGED <<syClient, syCall, syMemory, syScreen, syCounts>>
      /\ syInbox \in Seq(Events)
  BY DEF OffersBuffer, CopyInv, CopyTyped
<1>1. Asked(f) /\ HasFrame /\ FrameTyped(f) /\ syPending = {f} /\ syCall.phase \in {"first", "heartbeat"}
  BY <1>0, TheFrame
<1>2. \E events \in Seq(Events) :
         /\ syInbox' = syInbox \o events
         /\ \A i \in DOMAIN events : i \in {1, 2} /\ events[i].kind \in {"Buffer", "BufferDone"}
         /\ \A i \in DOMAIN events :
              events[i].kind = "BufferDone" \/ (events[i].kind = "Buffer" /\ syClient.version < 3)
                => \A j \in DOMAIN events : ~(j > i)
  <2>1. PICK format \in Formats :
           Sends(<<[kind |-> "Buffer", format |-> format]>>
                \o IF syClient.version = 3 THEN <<[kind |-> "BufferDone"]>> ELSE <<>>)
    BY <1>0 DEF OffersBuffer, SendsOf
  <2>2. PICK first, second : first = [kind |-> "Buffer", format |-> format] /\ second = [kind |-> "BufferDone"]
    OBVIOUS
  <2>3. first \in Events /\ second \in Events /\ first.kind = "Buffer" /\ second.kind = "BufferDone"
    BY <2>2 DEF Events
  <2>4. syClient.version \in 1 .. 3
    BY DEF CopyInv, CopyTyped, ClientTyped
  <2>5. CASE syClient.version = 3
    <3> DEFINE events == <<first>> \o <<second>>
    <3>1. syInbox' = syInbox \o events
      BY <2>1, <2>2, <2>5 DEF Sends
    <3>2. <<first>> \in Seq(Events) /\ <<second>> \in Seq(Events)
          /\ Len(<<first>>) = 1 /\ Len(<<second>>) = 1
      BY <2>3
    <3>3. /\ events \in Seq(Events) /\ Len(events) = 2
          /\ events[1] = first /\ events[2] = second
      <4>1. /\ events \in Seq(Events)
            /\ Len(events) = Len(<<first>>) + Len(<<second>>)
            /\ \A i \in 1 .. Len(<<first>>) + Len(<<second>>) :
                  events[i] = IF i <= Len(<<first>>) THEN <<first>>[i] ELSE <<second>>[i - Len(<<first>>)]
        BY <3>2, ConcatProperties
      <4> HIDE DEF events
      <4> QED
        BY <3>2, <4>1
    <3> HIDE DEF events
    <3>4. DOMAIN events = 1 .. 2
      BY <3>3, LenProperties
    <3>5. \A i \in DOMAIN events : i = 1 \/ i = 2
      BY <3>4
    <3>6. \A i \in DOMAIN events : i \in {1, 2} /\ events[i].kind \in {"Buffer", "BufferDone"}
      BY <2>3, <3>3, <3>5
    <3>7. \A i \in DOMAIN events :
            events[i].kind = "BufferDone" \/ (events[i].kind = "Buffer" /\ syClient.version < 3)
              => i = 2
      BY <2>3, <2>5, <3>3, <3>5
    <3>8. \A i, j \in DOMAIN events : i = 2 => ~(j > i)
      BY <3>5
    <3> QED
      BY <3>1, <3>3, <3>6, <3>7, <3>8
  <2>6. CASE syClient.version < 3
    <3> DEFINE events == <<first>>
    <3>1. syInbox' = syInbox \o events
      <4>1. <<first>> \o <<>> = events
        <5>1. <<first>> \in Seq(Events)
          BY <2>3
        <5> QED
          BY <5>1, ConcatEmptySeq
      <4> QED
        BY <2>1, <2>2, <2>6, <4>1 DEF Sends
    <3>2. events \in Seq(Events) /\ DOMAIN events = {1} /\ events[1] = first
      BY <2>3
    <3> HIDE DEF events
    <3>3. \A i \in DOMAIN events : i = 1 /\ events[i].kind = "Buffer"
      BY <2>3, <3>2
    <3>4. \A i, j \in DOMAIN events : ~(j > i)
      BY <3>3
    <3> QED
      BY <3>1, <3>2, <3>3, <3>4
  <2> QED
    BY SMTT(25), <2>4, <2>5, <2>6
<1>3. PICK events \in Seq(Events) :
         /\ syInbox' = syInbox \o events
         /\ \A i \in DOMAIN events : i \in {1, 2} /\ events[i].kind \in {"Buffer", "BufferDone"}
         /\ \A i \in DOMAIN events :
              events[i].kind = "BufferDone" \/ (events[i].kind = "Buffer" /\ syClient.version < 3)
                => \A j \in DOMAIN events : ~(j > i)
  BY <1>2
<1>4. Quiet /\ ~syClient.failed /\ f.output = syClient.output
      /\ (syCall.steady => syScreen.places[f.output].x + f.x = Selected.x)
      /\ (syClient.done => syClient.failed)
  BY <1>0, <1>1 DEF Asked
<1>5. PICK n \in Nat : n = Len(syInbox)
  BY <1>0, LenProperties
<1>6. /\ syInbox' \in Seq(Events)
      /\ \A i \in DOMAIN syInbox' :
           /\ i \in Nat
           /\ \/ i <= n /\ syInbox'[i].kind \in LayoutEvents
              \/ i > n /\ i - n \in DOMAIN events /\ syInbox'[i] = events[i - n]
  BY <1>0, <1>3, <1>4, <1>5, OwnNews
<1>7. PICK new : new = [f EXCEPT !.stage = "offered"]
  OBVIOUS
<1>8. FrameTyped(new) /\ new.id = f.id /\ new.output = f.output /\ new.x = f.x /\ new.stage = "offered"
  BY <1>1, <1>7 DEF FrameTyped
<1>9. syPending' = {new}
  BY <1>0, <1>1, <1>7
<1>10. CopyTyped'
  <2>1. f.id <= syCounts.frames
    BY DEF CopyInv, CopyTyped
  <2>2. (\A g \in syPending : FrameTyped(g) /\ g.id <= syCounts.frames)'
    BY <1>0, <1>8, <1>9, <2>1 DEF FrameTyped
  <2> QED
    BY <1>0, <1>6, <2>2, SameTypes DEF CopyInv, CopyTyped
<1>11. CallOfFrame' /\ ShotTrue' /\ OneEach'
  BY <1>0, <1>9 DEF CopyInv, CallOfFrame, ShotTrue, OneEach
<1>12. Asked(new)'
  <2>1. \A k \in {"Buffer", "BufferDone"} : k \notin LayoutEvents
    BY DEF LayoutEvents
  <2>2. ASSUME NEW i \in DOMAIN syInbox'
        PROVE  /\ syInbox'[i].kind \in LayoutEvents \/ syInbox'[i].kind \in {"Buffer", "BufferDone"}
               /\ syInbox'[i].kind = "BufferDone" \/ (syInbox'[i].kind = "Buffer" /\ syClient.version < 3) =>
                    \A j \in DOMAIN syInbox' : j > i => syInbox'[j].kind \in LayoutEvents
    <3>1. CASE i <= n /\ syInbox'[i].kind \in LayoutEvents
      BY <2>1, <3>1
    <3>2. CASE i > n /\ i - n \in DOMAIN events /\ syInbox'[i] = events[i - n]
      <4>1. syInbox'[i].kind \in {"Buffer", "BufferDone"}
        BY <1>3, <3>2
      <4>2. ASSUME syInbox'[i].kind = "BufferDone" \/ (syInbox'[i].kind = "Buffer" /\ syClient.version < 3),
                   NEW j \in DOMAIN syInbox', j > i
            PROVE  syInbox'[j].kind \in LayoutEvents
        <5>1. i \in Nat /\ j \in Nat /\ i > n
          BY <1>6, <3>2
        <5>2. ~(j - n \in DOMAIN events)
          <6>1. \A k \in DOMAIN events : ~(k > i - n)
            BY <1>3, <3>2, <4>2
          <6> QED
            BY <4>2, <5>1, <6>1
        <5> QED
          BY <1>6, <5>1, <5>2
      <4> QED
        BY <4>1, <4>2
    <3> QED
      BY <1>6, <3>1, <3>2
  <2> QED
    BY <1>0, <1>4, <1>8, <2>2 DEF Asked, IsLayout
<1>13. FrameKnown'
  BY <1>0, <1>1, <1>8, <1>9, <1>12 DEF FrameKnown, HasFrame
<1> QED
  BY <1>10, <1>11, <1>13 DEF CopyInv

(* The compositor refuses the frame: by offering no buffer of the kind     *)
(* wanted, or outright.                                                    *)
LEMMA RefusesStep ==
    ASSUME CopyInv, NEW f \in syPending, Working(f), f.id = syClient.frame, f.stage # "offered",
           NEW kind \in {"BufferDone", "Failed"}, Sends(<<[kind |-> kind]>>),
           syPending' = syPending \ {f},
           UNCHANGED <<syClient, syCall, syMemory, syScreen, syCounts>>
    PROVE  CopyInv'
<1>1. Asked(f) /\ HasFrame /\ FrameTyped(f) /\ syPending = {f} /\ syInbox \in Seq(Events)
  BY TheFrame DEF CopyInv, CopyTyped
<1>2. Quiet /\ (syClient.done => syClient.failed)
  BY <1>1 DEF Asked, FrameTyped
<1>3. PICK event : event = [kind |-> kind]
  OBVIOUS
<1>4. event \in Events /\ event.kind \in {"BufferDone", "Failed"}
  BY <1>3 DEF Events
<1> DEFINE events == <<event>>
<1>5. events \in Seq(Events) /\ syInbox' = syInbox \o events
      /\ \A i \in DOMAIN events : events[i].kind \in {"BufferDone", "Failed"}
  BY <1>3, <1>4 DEF Sends
<1> HIDE DEF events
<1>6. PICK n \in Nat : n = Len(syInbox)
  BY <1>1, LenProperties
<1>7. /\ syInbox' \in Seq(Events)
      /\ \A i \in DOMAIN syInbox' :
           \/ syInbox'[i].kind \in LayoutEvents
           \/ i - n \in DOMAIN events /\ syInbox'[i] = events[i - n]
  BY <1>1, <1>2, <1>5, <1>6, OwnNews
<1>8. Refused'
  <2>1. \A i \in DOMAIN syInbox' : syInbox'[i].kind \in LayoutEvents \/ syInbox'[i].kind \in {"BufferDone", "Failed"}
    BY <1>5, <1>7
  <2> QED
    BY <1>2, <2>1 DEF Refused, IsLayout
<1>9. syPending' = {}
  BY <1>1
<1>10. CopyTyped'
  BY <1>7, <1>9, SameTypes DEF CopyInv, CopyTyped
<1>11. CallOfFrame' /\ ShotTrue' /\ OneEach'
  BY <1>9 DEF CopyInv, CallOfFrame, ShotTrue, OneEach
<1>12. FrameKnown'
  BY <1>1, <1>8, <1>9 DEF FrameKnown, HasFrame
<1> QED
  BY <1>10, <1>11, <1>12 DEF CopyInv

LEMMA RefusingSteps ==
    ASSUME CopyInv, NEW f \in syPending, OffersNone(f) \/ FailsFrame(f)
    PROVE  CopyInv'
<1>1. CASE OffersNone(f)
  BY <1>1, RefusesStep DEF OffersNone, SendsOf
<1>2. CASE FailsFrame(f)
  BY <1>2, RefusesStep DEF FailsFrame, SendsOf
<1> QED
  BY <1>1, <1>2

(* A frame that the client gave up leaves what is known of the next one.   *)
LEMMA OthersGo ==
    ASSUME CopyInv, NEW f \in syPending, f.id # syClient.frame,
           syPending' = syPending \ {f},
           UNCHANGED <<syClient, syCall, syInbox, syCounts>>,
           syScreen'.places = syScreen.places
    PROVE  FrameKnown'
<1>1. HasFrame' = HasFrame /\ Quiet' = Quiet /\ \A g \in syPending : Asked(g)' = Asked(g)
  BY DEF HasFrame, Quiet, IsLayout, Asked
<1>2. CASE HasFrame
  <2>1. syPending # {}
    OBVIOUS
  <2>2. PICK g \in syPending : g.id = syClient.frame /\ Asked(g)
    BY <1>2, <2>1 DEF CopyInv, FrameKnown
  <2>3. g \in syPending' /\ g.id = syClient'.frame /\ Asked(g)'
    BY <1>1, <2>2
  <2> QED
    BY <1>1, <1>2, <2>3 DEF FrameKnown
<1>3. CASE ~HasFrame
  BY <1>1, <1>3 DEF CopyInv, FrameKnown
<1> QED
  BY <1>2, <1>3

LEMMA ForgetsStep ==
    ASSUME CopyInv, NEW f \in syPending, Forgets(f)
    PROVE  CopyInv'
<1>1. /\ f.id # syClient.frame /\ syPending' = syPending \ {f}
      /\ UNCHANGED <<syClient, syCall, syInbox, syMemory, syScreen, syCounts>>
  BY DEF Forgets
<1>2. FrameKnown'
  BY <1>1, OthersGo
<1>3. CopyTyped'
  BY <1>1, SameTypes DEF CopyInv, CopyTyped
<1>4. CallOfFrame' /\ ShotTrue' /\ OneEach'
  BY <1>1, FewerFrames DEF CopyInv, CallOfFrame, ShotTrue
<1> QED
  BY <1>2, <1>3, <1>4 DEF CopyInv

(* The page is copied into the shared buffer.                              *)
LEMMA CopiesStep ==
    ASSUME CopyInv, NEW f \in syPending, Copies(f)
    PROVE  CopyInv'
<1>0. PICK inverted \in BOOLEAN :
         /\ syMemory' = [frame |-> f.id, shows |-> syScreen.shows, column |-> syScreen.places[f.output].x + f.x,
                         inverted |-> inverted]
         /\ SendsOf(f, <<[kind |-> "Flags", inverted |-> inverted], [kind |-> "Ready"]>>)
  BY DEF Copies
<1>1. /\ Working(f) /\ f.stage = "copy"
      /\ syScreen' = [syScreen EXCEPT !.copied = syScreen.shows]
      /\ syPending' = syPending \ {f}
      /\ UNCHANGED <<syClient, syCall, syCounts>>
      /\ syInbox \in Seq(Events)
  BY DEF Copies, CopyInv, CopyTyped
<1>2. ScreenTyped(syScreen) /\ syScreen.shows \in Nat
  BY DEF CopyInv, CopyTyped, ScreenTyped
<1>3. ScreenTyped(syScreen') /\ syScreen'.places = syScreen.places /\ syScreen'.shows = syScreen.shows
  BY <1>1, <1>2 DEF ScreenTyped
<1>4. /\ PictureTyped(syMemory') /\ syMemory'.frame = f.id /\ syMemory'.shows = syScreen.shows
      /\ syMemory'.column = syScreen.places[f.output].x + f.x /\ syMemory'.inverted = inverted
  BY <1>0, <1>2 DEF PictureTyped
<1>5. CallOfFrame' /\ ShotTrue' /\ OneEach'
  BY <1>1, <1>3, FewerFrames DEF CopyInv, CallOfFrame, ShotTrue
<1>6. ASSUME syInbox' \in Seq(Events) PROVE CopyTyped'
  <2>1. ScreenTyped(syScreen)' /\ PictureTyped(syMemory)'
    BY <1>3, <1>4 DEF ScreenTyped, PictureTyped
  <2> QED
    BY <1>1, <1>6, <2>1, SameTypes DEF CopyInv, CopyTyped
<1>7. CASE f.id # syClient.frame
  <2>1. syInbox' = syInbox
    BY <1>0, <1>7 DEF SendsOf
  <2>2. FrameKnown'
    BY <1>1, <1>3, <1>7, <2>1, OthersGo
  <2> QED
    BY <1>1, <1>5, <1>6, <2>1, <2>2 DEF CopyInv
<1>8. CASE f.id = syClient.frame
  <2>1. /\ Asked(f) /\ HasFrame /\ FrameTyped(f) /\ syPending = {f}
        /\ syCall.phase \in {"first", "heartbeat"}
    BY <1>1, <1>8, TheFrame
  <2>2. /\ Quiet /\ ~syClient.failed /\ ~syClient.done
        /\ syCall.steady => syScreen.places[f.output].x + f.x = Selected.x
    BY <1>1, <2>1 DEF Asked
  <2>3. syCall.asked <= syScreen.shows
    BY <2>1 DEF CopyInv, CallOfFrame
  <2>4. PICK first, second : first = [kind |-> "Flags", inverted |-> inverted] /\ second = [kind |-> "Ready"]
    OBVIOUS
  <2>5. /\ first \in Events /\ first.kind = "Flags" /\ first.inverted = inverted
        /\ second \in Events /\ second.kind = "Ready"
    BY <2>4 DEF Events
  <2> DEFINE events == <<first, second>>
  <2>6. /\ events \in Seq(Events) /\ syInbox' = syInbox \o events /\ DOMAIN events = {1, 2}
        /\ events[1] = first /\ events[2] = second
    BY <1>0, <1>8, <2>4, <2>5 DEF SendsOf, Sends
  <2> HIDE DEF events
  <2>7. PICK n \in Nat : n = Len(syInbox)
    BY <1>1, LenProperties
  <2>8. /\ syInbox' \in Seq(Events)
        /\ \A i \in DOMAIN syInbox' :
             \/ i <= n /\ syInbox'[i].kind \in LayoutEvents
             \/ i \in Nat /\ i - n \in DOMAIN events /\ syInbox'[i] = events[i - n]
    BY <1>1, <2>2, <2>6, <2>7, OwnNews
  <2>9. n + 1 \in DOMAIN syInbox' /\ syInbox'[n + 1] = first
    <3>1. PICK m \in Nat : m = Len(syInbox') /\ m = n + 2
      <4>1. Len(events) = 2
        <5>1. Len(events) \in Nat /\ DOMAIN events = 1 .. Len(events)
          BY <2>6, LenProperties
        <5> QED
          BY <2>6, <5>1
      <4>2. Len(syInbox') = Len(syInbox) + Len(events)
        BY <1>1, <2>6, ConcatProperties
      <4> QED
        BY <2>7, <4>1, <4>2
    <3>2. DOMAIN syInbox' = 1 .. m
      BY <2>8, <3>1, LenProperties
    <3>3. n + 1 \in 1 .. m
      BY <3>1
    <3>4. ~(n + 1 <= n)
      OBVIOUS
    <3>5. (n + 1) - n = 1
      OBVIOUS
    <3> QED
      BY <2>6, <2>8, <3>2, <3>3, <3>4, <3>5
  <2>10. Copied'
    <3>1. ASSUME NEW i \in DOMAIN syInbox'
          PROVE  /\ \/ syInbox'[i].kind \in LayoutEvents \/ syInbox'[i].kind = "Ready"
                    \/ syInbox'[i].kind = "Flags" /\ syInbox'[i].inverted = syMemory'.inverted
                 /\ syInbox'[i].kind = "Ready" =>
                      \E j \in DOMAIN syInbox' : j < i /\ syInbox'[j].kind = "Flags"
      <4>1. CASE syInbox'[i].kind \in LayoutEvents
        BY <4>1 DEF LayoutEvents
      <4>2. CASE i \in Nat /\ i - n = 1 /\ syInbox'[i] = first
        BY <1>4, <2>5, <4>2
      <4>3. CASE i \in Nat /\ i - n = 2 /\ syInbox'[i] = second
        <5>1. n + 1 < i
          BY <4>3
        <5> QED
          BY <2>5, <2>9, <4>3, <5>1
      <4> QED
        BY <2>6, <2>8, <4>1, <4>2, <4>3
    <3>2. syMemory'.shows >= syCall'.asked
      <4>1. syCall.asked \in Nat
        BY DEF CopyInv, CopyTyped, CallTyped
      <4> QED
        BY <1>1, <1>2, <1>4, <2>3, <4>1
    <3> QED
      BY <1>1, <1>4, <1>8, <2>2, <3>1, <3>2 DEF Copied, IsLayout
  <2>11. FrameKnown'
    <3>1. syPending' = {} /\ HasFrame'
      BY <1>1, <2>1 DEF HasFrame
    <3> QED
      BY <2>10, <3>1 DEF FrameKnown
  <2> QED
    BY <1>5, <1>6, <2>8, <2>11 DEF CopyInv
<1> QED
  BY <1>7, <1>8

(* What is left of an inbox after its first event.                         *)
LEMMA RestOfInbox ==
    ASSUME syInbox \in Seq(Events), syInbox # <<>>, syInbox' = Tail(syInbox)
    PROVE  /\ \A i \in DOMAIN syInbox' : \E j \in DOMAIN syInbox :
                 /\ i \in Nat /\ j = i + 1 /\ syInbox'[i] = syInbox[j]
           /\ \A j \in DOMAIN syInbox : j \in Nat /\ j >= 1
                /\ (j # 1 => j - 1 \in DOMAIN syInbox' /\ syInbox'[j - 1] = syInbox[j])
<1>1. /\ \A i \in DOMAIN syInbox' : i \in Nat /\ i >= 1 /\ i + 1 \in DOMAIN syInbox /\ syInbox'[i] = syInbox[i + 1]
      /\ \A i \in DOMAIN syInbox : i \in Nat /\ i >= 1 /\ (i # 1 => i - 1 \in DOMAIN syInbox')
  BY FirstEvent
<1>2. \A j \in DOMAIN syInbox : j # 1 => syInbox'[j - 1] = syInbox[j]
  <2> TAKE j \in DOMAIN syInbox
  <2>1. CASE j # 1
    <3>1. PICK i \in Nat : i = j - 1 /\ i \in DOMAIN syInbox' /\ j = i + 1
      BY <1>1, <2>1
    <3> QED
      BY <1>1, <3>1
  <2> QED
    BY <2>1
<1> QED
  BY <1>1, <1>2

(* The first event, which is about the layout, is looked at: of the frame  *)
(* nothing else is known than before.                                      *)
LEMMA LayoutEventStep ==
    ASSUME CopyInv, syInbox # <<>>, syInbox' = Tail(syInbox), syInbox[1].kind \in LayoutEvents,
           syClient' = [syClient EXCEPT !.outputs = Relearned(syInbox[1])],
           UNCHANGED <<syCall, syScreen, syCounts, syPending, syMemory>>
    PROVE  CopyInv'
<1>0. syInbox \in Seq(Events) /\ ClientShaped(syClient) /\ ClientTyped(syClient)
  BY DEF CopyInv, CopyTyped
<1>1. syInbox' \in Seq(Events)
  BY <1>0, FirstEvent
<1>2. /\ \A i \in DOMAIN syInbox' : \E j \in DOMAIN syInbox :
            /\ i \in Nat /\ j = i + 1 /\ syInbox'[i] = syInbox[j]
      /\ \A j \in DOMAIN syInbox : j \in Nat /\ j >= 1
           /\ (j # 1 => j - 1 \in DOMAIN syInbox' /\ syInbox'[j - 1] = syInbox[j])
  BY <1>0, RestOfInbox
<1> DEFINE outputs == Relearned(syInbox[1])
<1>3. DOMAIN outputs \subseteq Outputs
  BY <1>0 DEF Relearned, ClientTyped, LayoutEvents
<1> HIDE DEF outputs
<1>4. syClient' = [syClient EXCEPT !.outputs = outputs]
  BY DEF outputs
<1>5. /\ ClientShaped(syClient') /\ ClientTyped(syClient') /\ syClient'.frame = syClient.frame
      /\ syClient'.output = syClient.output /\ syClient'.wait = syClient.wait
      /\ syClient'.done = syClient.done /\ syClient'.failed = syClient.failed
      /\ syClient'.inverted = syClient.inverted /\ syClient'.version = syClient.version
  BY <1>0, <1>3, <1>4 DEF ClientShaped, ClientTyped
<1>6. CopyTyped'
  <2>1. ClientShaped(syClient)' /\ ClientTyped(syClient)'
    BY <1>5 DEF ClientShaped, ClientTyped
  <2> QED
    BY <1>1, <2>1, SameTypes DEF CopyInv, CopyTyped
<1>7. CallOfFrame' /\ ShotTrue' /\ OneEach'
  BY <1>5 DEF CopyInv, CallOfFrame, ShotTrue, OneEach
<1>8. Quiet => Quiet'
  BY <1>2 DEF Quiet, IsLayout
<1>9. Refused => Refused'
  BY <1>2, <1>5 DEF Refused, IsLayout
<1>10. Copied => Copied'
  <2> SUFFICES ASSUME Copied PROVE Copied'
    OBVIOUS
  <2>1. ASSUME NEW i \in DOMAIN syInbox'
        PROVE  /\ \/ syInbox'[i].kind \in LayoutEvents \/ syInbox'[i].kind = "Ready"
                  \/ syInbox'[i].kind = "Flags" /\ syInbox'[i].inverted = syMemory'.inverted
               /\ syInbox'[i].kind = "Ready" =>
                    \/ syClient'.inverted = syMemory'.inverted
                    \/ \E j \in DOMAIN syInbox' : j < i /\ syInbox'[j].kind = "Flags"
    <3>1. PICK j \in DOMAIN syInbox : i \in Nat /\ j = i + 1 /\ syInbox'[i] = syInbox[j]
      BY <1>2
    <3>2. ASSUME NEW k \in DOMAIN syInbox, k < j, syInbox[k].kind = "Flags"
          PROVE  \E m \in DOMAIN syInbox' : m < i /\ syInbox'[m].kind = "Flags"
      <4>1. k # 1
        BY <3>2 DEF LayoutEvents
      <4>2. k - 1 \in DOMAIN syInbox' /\ syInbox'[k - 1] = syInbox[k] /\ k - 1 < i
        BY <1>2, <3>1, <3>2, <4>1
      <4> QED
        BY <3>2, <4>2
    <3> QED
      BY <1>5, <3>1, <3>2 DEF Copied, IsLayout
  <2> QED
    BY <1>5, <2>1 DEF Copied, IsLayout
<1>11. ASSUME NEW f, Asked(f)
       PROVE  Asked(f)'
  <2>1. ASSUME NEW i \in DOMAIN syInbox'
        PROVE  /\ syInbox'[i].kind \in LayoutEvents \/ syInbox'[i].kind \in {"Buffer", "BufferDone"}
               /\ syInbox'[i].kind = "BufferDone" \/ (syInbox'[i].kind = "Buffer" /\ syClient'.version < 3) =>
                    \A j \in DOMAIN syInbox' : j > i => syInbox'[j].kind \in LayoutEvents
    <3>1. PICK j \in DOMAIN syInbox : i \in Nat /\ j = i + 1 /\ syInbox'[i] = syInbox[j]
      BY <1>2
    <3>2. ASSUME syInbox[j].kind = "BufferDone" \/ (syInbox[j].kind = "Buffer" /\ syClient.version < 3),
                 NEW k \in DOMAIN syInbox', k > i
          PROVE  syInbox'[k].kind \in LayoutEvents
      <4>1. PICK m \in DOMAIN syInbox : k \in Nat /\ m = k + 1 /\ syInbox'[k] = syInbox[m]
        BY <1>2
      <4>2. m > j
        BY <3>1, <3>2, <4>1
      <4> QED
        BY <1>11, <3>2, <4>1, <4>2 DEF Asked, IsLayout
    <3> QED
      BY <1>5, <1>11, <3>1, <3>2 DEF Asked, IsLayout
  <2> QED
    BY <1>5, <1>8, <1>11, <2>1 DEF Asked, IsLayout
<1>12. FrameKnown'
  <2>1. HasFrame' = HasFrame
    BY <1>5 DEF HasFrame
  <2>2. CASE HasFrame
    <3>1. CASE \E f \in syPending : f.id = syClient.frame /\ Asked(f)
      <4>1. PICK f \in syPending : f.id = syClient.frame /\ Asked(f)
        BY <3>1
      <4>2. f \in syPending' /\ f.id = syClient'.frame /\ Asked(f)'
        BY <1>5, <1>11, <4>1
      <4> QED
        BY <2>1, <2>2, <4>2 DEF FrameKnown
    <3>2. CASE syPending = {} /\ (Refused \/ Copied)
      <4>1. syPending' = {} /\ (Refused' \/ Copied')
        BY <1>9, <1>10, <3>2
      <4> QED
        BY <2>1, <2>2, <4>1 DEF FrameKnown
    <3>3. (\E f \in syPending : f.id = syClient.frame /\ Asked(f)) \/ (syPending = {} /\ (Refused \/ Copied))
      BY <2>2 DEF CopyInv, FrameKnown
    <3> QED
      BY <3>1, <3>2, <3>3
  <2>3. CASE ~HasFrame
    BY <1>8, <2>1, <2>3 DEF CopyInv, FrameKnown
  <2> QED
    BY <2>2, <2>3
<1> QED
  BY <1>6, <1>7, <1>12 DEF CopyInv

(* What an event of a frame leaves of the client, whichever event it is.   *)
LEMMA EventFields ==
    ASSUME ClientShaped(syClient), ClientTyped(syClient), NEW event \in Events,
           event.kind \notin LayoutEvents, syClient' = FrameEvent(event)
    PROVE  /\ ClientShaped(syClient') /\ ClientTyped(syClient')
           /\ syClient'.frame = syClient.frame /\ syClient'.output = syClient.output
           /\ syClient'.wait = syClient.wait /\ syClient'.version = syClient.version
           /\ event.kind = "Flags" =>
                /\ syClient'.inverted = event.inverted /\ syClient'.done = syClient.done
                /\ syClient'.failed = syClient.failed /\ syClient'.buffer = syClient.buffer
           /\ event.kind = "Ready" =>
                /\ syClient'.inverted = syClient.inverted /\ syClient'.failed = syClient.failed
                /\ syClient'.buffer = syClient.buffer
           /\ event.kind \in {"Buffer", "BufferDone", "Failed"} =>
                ((syClient.done => syClient.failed) => (syClient'.done => syClient'.failed))
<1>1. event.kind \in {"Buffer", "BufferDone", "Flags", "Ready", "Failed"}
  BY EventKinds
<1>2. CASE event.kind = "Flags"
  <2>1. event.inverted \in BOOLEAN /\ syClient' = [syClient EXCEPT !.inverted = event.inverted]
    BY <1>2, EventKinds DEF FrameEvent
  <2> QED
    BY <1>2, <2>1 DEF ClientShaped, ClientTyped
<1>3. CASE event.kind = "Ready"
  <2>1. syClient' = [syClient EXCEPT !.done = TRUE]
    BY <1>3 DEF FrameEvent
  <2> QED
    BY <1>3, <2>1 DEF ClientShaped, ClientTyped
<1> DEFINE down == [syClient EXCEPT !.failed = TRUE]
           fallen == [down EXCEPT !.done = TRUE]
<1>4. fallen = [syClient EXCEPT !.failed = TRUE, !.done = TRUE]
  BY DEF ClientShaped
<1>5. /\ ClientShaped(fallen) /\ ClientTyped(fallen) /\ fallen.failed
      /\ fallen.frame = syClient.frame /\ fallen.output = syClient.output
      /\ fallen.wait = syClient.wait /\ fallen.version = syClient.version
  <2>1. /\ ClientShaped(down) /\ ClientTyped(down) /\ down.failed
        /\ down.frame = syClient.frame /\ down.output = syClient.output
        /\ down.wait = syClient.wait /\ down.version = syClient.version
    BY DEF ClientShaped, ClientTyped
  <2> HIDE DEF down
  <2> QED
    BY <2>1 DEF ClientShaped, ClientTyped
<1> HIDE DEF fallen
<1>6. CASE event.kind = "Failed"
  <2>1. syClient' = fallen
    BY <1>4, <1>6 DEF FrameEvent
  <2> QED
    BY <1>5, <1>6, <2>1
<1>7. CASE event.kind = "BufferDone"
  <2>1. syClient' = syClient \/ syClient' = fallen
    BY <1>4, <1>7 DEF FrameEvent, OnBufferDone, SubmitCopy
  <2> QED
    BY <1>5, <1>7, <2>1
<1>8. CASE event.kind = "Buffer"
  <2> DEFINE awaited == [syClient EXCEPT !.ready = TRUE]
  <2>1. CASE event.format = "other"
    <3>1. syClient' = fallen
      BY <1>4, <1>8, <2>1 DEF FrameEvent, OnBuffer
    <3> QED
      BY <1>5, <1>8, <3>1
  <2>2. CASE event.format # "other"
    <3>1. event.format \in Formats /\ syClient' = [awaited EXCEPT !.buffer = event.format]
      BY <1>8, <2>2, EventKinds DEF FrameEvent, OnBuffer, ClientShaped
    <3>2. /\ ClientShaped(awaited) /\ ClientTyped(awaited)
          /\ awaited.frame = syClient.frame /\ awaited.output = syClient.output
          /\ awaited.wait = syClient.wait /\ awaited.version = syClient.version
          /\ awaited.done = syClient.done /\ awaited.failed = syClient.failed
      BY DEF ClientShaped, ClientTyped
    <3> HIDE DEF awaited
    <3>3. /\ ClientShaped(syClient') /\ ClientTyped(syClient')
          /\ syClient'.frame = syClient.frame /\ syClient'.output = syClient.output
          /\ syClient'.wait = syClient.wait /\ syClient'.version = syClient.version
          /\ syClient'.done = syClient.done /\ syClient'.failed = syClient.failed
      BY <3>1, <3>2 DEF ClientShaped, ClientTyped
    <3> QED
      BY <1>8, <3>3
  <2> QED
    BY <2>1, <2>2
<1> QED
  BY <1>1, <1>2, <1>3, <1>6, <1>7, <1>8

(* The copy asked for.                                                     *)
Asking(f) == [f EXCEPT !.stage = IF f.id = syClient.frame THEN "copy" ELSE @,
                       !.damage = IF f.id = syClient.frame THEN syClient.wait /\ syClient.version >= 2 ELSE @]

LEMMA AskingFields ==
    ASSUME NEW f, FrameTyped(f)
    PROVE  /\ FrameTyped(Asking(f)) /\ Asking(f).id = f.id /\ Asking(f).output = f.output
           /\ Asking(f).x = f.x
<1> DEFINE stage == IF f.id = syClient.frame THEN "copy" ELSE f.stage
           damage == IF f.id = syClient.frame THEN syClient.wait /\ syClient.version >= 2 ELSE f.damage
           g == [f EXCEPT !.stage = stage]
<1>1. Asking(f) = [g EXCEPT !.damage = damage]
  BY DEF Asking, FrameTyped
<1>2. stage \in {"buffer", "offered", "copy"}
  BY DEF FrameTyped
<1> HIDE DEF stage, damage
<1>3. FrameTyped(g) /\ g.id = f.id /\ g.output = f.output /\ g.x = f.x
  BY <1>2 DEF FrameTyped
<1> HIDE DEF g
<1> QED
  BY <1>1, <1>3 DEF FrameTyped

(* The first event, which is about the frame, is looked at.                *)
LEMMA FrameEventStep ==
    ASSUME CopyInv, syInbox # <<>>, syInbox' = Tail(syInbox), syInbox[1].kind \notin LayoutEvents,
           syClient' = FrameEvent(syInbox[1]),
           syMemory' = IF syClient'.buffer = syClient.buffer THEN syMemory ELSE Blank,
           syPending' = IF AsksCopy(syInbox[1], syClient')
                        THEN {Asking(f) : f \in syPending} ELSE syPending,
           UNCHANGED <<syCall, syScreen, syCounts>>
    PROVE  CopyInv'
<1> PICK event : event = syInbox[1]
  OBVIOUS
<1>0. /\ syInbox \in Seq(Events) /\ ClientShaped(syClient) /\ ClientTyped(syClient)
      /\ \A f \in syPending : FrameTyped(f) /\ f.id <= syCounts.frames
  BY DEF CopyInv, CopyTyped
<1>1. syInbox' \in Seq(Events) /\ event \in Events /\ 1 \in DOMAIN syInbox
  BY <1>0, FirstEvent
<1>2. \A i \in DOMAIN syInbox' : \E j \in DOMAIN syInbox :
         i \in Nat /\ i >= 1 /\ j \in Nat /\ j = i + 1 /\ syInbox'[i] = syInbox[j]
  <2>1. \A i \in DOMAIN syInbox' : i \in Nat /\ i >= 1
    BY <1>0, FirstEvent
  <2> QED
    BY <1>0, <2>1, RestOfInbox
<1>3. /\ ClientShaped(syClient') /\ ClientTyped(syClient')
      /\ syClient'.frame = syClient.frame /\ syClient'.output = syClient.output
      /\ syClient'.wait = syClient.wait /\ syClient'.version = syClient.version
      /\ event.kind = "Flags" =>
           /\ syClient'.inverted = event.inverted /\ syClient'.done = syClient.done
           /\ syClient'.failed = syClient.failed /\ syClient'.buffer = syClient.buffer
      /\ event.kind = "Ready" =>
           /\ syClient'.inverted = syClient.inverted /\ syClient'.failed = syClient.failed
           /\ syClient'.buffer = syClient.buffer
      /\ event.kind \in {"Buffer", "BufferDone", "Failed"} =>
           ((syClient.done => syClient.failed) => (syClient'.done => syClient'.failed))
  BY <1>0, <1>1, EventFields
<1>4. \A g \in syPending' : \E f \in syPending :
         /\ FrameTyped(g) /\ g.id = f.id /\ g.output = f.output /\ g.x = f.x
         /\ g = IF AsksCopy(event, syClient') THEN Asking(f) ELSE f
  <2>1. CASE AsksCopy(event, syClient')
    BY <1>0, <2>1, AskingFields
  <2>2. CASE ~AsksCopy(event, syClient')
    BY <1>0, <2>2
  <2> QED
    BY <2>1, <2>2
<1>5. PictureTyped(syMemory')
  <2>1. PictureTyped(syMemory) /\ PictureTyped(Blank)
    BY DEF CopyInv, CopyTyped, PictureTyped, Blank
  <2> QED
    BY <2>1
<1>6. CopyTyped'
  <2>1. /\ (ClientShaped(syClient) /\ ClientTyped(syClient))' /\ PictureTyped(syMemory)'
    BY <1>3, <1>5 DEF ClientShaped, ClientTyped, PictureTyped
  <2>2. \A f \in syPending' : FrameTyped(f) /\ f.id <= syCounts'.frames
    BY <1>0, <1>4
  <2>3. (\A f \in syPending : FrameTyped(f) /\ f.id <= syCounts.frames)'
    BY <2>2 DEF FrameTyped
  <2> QED
    BY <1>1, <2>1, <2>3, SameTypes DEF CopyInv, CopyTyped
<1>7. CallOfFrame' /\ ShotTrue'
  BY <1>3 DEF CopyInv, CallOfFrame, ShotTrue
<1>8. OneEach'
  <2>1. ASSUME NEW f \in syPending', NEW g \in syPending', f.id = g.id
        PROVE  f = g
    <3>1. PICK p \in syPending : f.id = p.id /\ f = IF AsksCopy(event, syClient') THEN Asking(p) ELSE p
      BY <1>4
    <3>2. PICK q \in syPending : g.id = q.id /\ g = IF AsksCopy(event, syClient') THEN Asking(q) ELSE q
      BY <1>4
    <3>3. p = q
      BY <2>1, <3>1, <3>2 DEF CopyInv, OneEach
    <3> QED
      BY <3>1, <3>2, <3>3
  <2> QED
    BY <2>1 DEF OneEach
<1>9. ~Quiet /\ HasFrame /\ HasFrame'
  <2>1. ~Quiet
    BY <1>1 DEF Quiet, IsLayout
  <2>2. HasFrame
    BY <2>1 DEF CopyInv, FrameKnown
  <2> QED
    BY <1>3, <2>1, <2>2 DEF HasFrame
<1>10. CASE syPending = {} /\ Refused
  <2>1. event.kind \in {"BufferDone", "Failed"} /\ (syClient.done => syClient.failed)
    BY <1>1, <1>10 DEF Refused, IsLayout
  <2>2. Refused'
    BY <1>2, <1>3, <1>10, <2>1 DEF Refused, IsLayout
  <2>3. syPending' = {}
    BY <1>4, <1>10
  <2> QED
    BY <1>6, <1>7, <1>8, <1>9, <2>2, <2>3 DEF CopyInv, FrameKnown
<1>11. CASE syPending = {} /\ Copied
  <2>1. \/ event.kind = "Ready"
        \/ event.kind = "Flags" /\ event.inverted = syMemory.inverted
    BY <1>1, <1>11 DEF Copied, IsLayout
  <2>2. ASSUME event.kind = "Ready" PROVE syClient.inverted = syMemory.inverted
    <3>1. \A j \in DOMAIN syInbox : ~(j < 1)
      BY <1>0, RestOfInbox
    <3> QED
      BY <1>1, <1>11, <2>2, <3>1 DEF Copied
  <2>3. syMemory' = syMemory /\ syClient'.inverted = syMemory.inverted /\ ~syClient'.failed
    BY <1>3, <1>11, <2>1, <2>2 DEF Copied
  <2>4. \A i \in DOMAIN syInbox' :
           \/ syInbox'[i].kind \in LayoutEvents \/ syInbox'[i].kind = "Ready"
           \/ syInbox'[i].kind = "Flags" /\ syInbox'[i].inverted = syMemory'.inverted
    BY <1>2, <1>11, <2>3 DEF Copied, IsLayout
  <2>5. Copied'
    BY <1>3, <1>11, <2>3, <2>4 DEF Copied, IsLayout
  <2>6. syPending' = {}
    BY <1>4, <1>11
  <2> QED
    BY <1>6, <1>7, <1>8, <1>9, <2>5, <2>6 DEF CopyInv, FrameKnown
<1>12. CASE \E f \in syPending : f.id = syClient.frame /\ Asked(f)
  <2>1. PICK f \in syPending : f.id = syClient.frame /\ Asked(f)
    BY <1>12
  <2>2. event.kind \in {"Buffer", "BufferDone"} /\ FrameTyped(f) /\ f.stage = "offered"
        /\ (syClient.done => syClient.failed)
    BY <1>0, <1>1, <1>9, <2>1 DEF Asked, IsLayout, FrameTyped
  <2>3. syClient'.done => syClient'.failed
    BY <1>3, <2>2
  <2>4. \A i \in DOMAIN syInbox' :
           /\ syInbox'[i].kind \in LayoutEvents \/ syInbox'[i].kind \in {"Buffer", "BufferDone"}
           /\ syInbox'[i].kind = "BufferDone" \/ (syInbox'[i].kind = "Buffer" /\ syClient'.version < 3) =>
                \A j \in DOMAIN syInbox' : j > i => syInbox'[j].kind \in LayoutEvents
    <3> TAKE i \in DOMAIN syInbox'
    <3>1. PICK j \in DOMAIN syInbox : i \in Nat /\ j = i + 1 /\ syInbox'[i] = syInbox[j]
      BY <1>2
    <3>2. ASSUME syInbox[j].kind = "BufferDone" \/ (syInbox[j].kind = "Buffer" /\ syClient.version < 3),
                 NEW k \in DOMAIN syInbox', k > i
          PROVE  syInbox'[k].kind \in LayoutEvents
      <4>1. PICK m \in DOMAIN syInbox : k \in Nat /\ m = k + 1 /\ syInbox'[k] = syInbox[m]
        BY <1>2
      <4>2. m > j
        BY <3>1, <3>2, <4>1
      <4> QED
        BY <2>1, <3>2, <4>1, <4>2 DEF Asked, IsLayout
    <3> QED
      BY <1>3, <2>1, <3>1, <3>2 DEF Asked, IsLayout
  <2>5. f.output = syClient'.output /\ (syCall'.steady => syScreen'.places[f.output].x + f.x = Selected.x)
    BY <1>3, <2>1 DEF Asked
  <2>6. CASE AsksCopy(event, syClient')
    <3>1. PICK g : g = Asking(f)
      OBVIOUS
    <3>2. g \in syPending' /\ g.id = f.id /\ g.output = f.output /\ g.x = f.x
      BY <2>1, <2>2, <2>6, <3>1, AskingFields
    <3>3. ~syClient'.failed
      BY <2>6 DEF AsksCopy
    <3>4. Quiet'
      <4>1. event.kind = "BufferDone" \/ (event.kind = "Buffer" /\ syClient.version < 3)
        BY <1>3, <2>6 DEF AsksCopy
      <4>2. \A j \in DOMAIN syInbox : j > 1 => syInbox[j].kind \in LayoutEvents
        BY <1>1, <2>1, <4>1 DEF Asked, IsLayout
      <4>3. \A i \in DOMAIN syInbox' : syInbox'[i].kind \in LayoutEvents
        BY <1>2, <4>2
      <4> QED
        BY <4>3 DEF Quiet, IsLayout
    <3>5. Asked(g)'
      BY <2>3, <2>4, <2>5, <3>2, <3>3, <3>4 DEF Asked, IsLayout
    <3>6. FrameKnown'
      BY <1>3, <1>9, <2>1, <3>2, <3>5 DEF FrameKnown
    <3> QED
      BY <1>6, <1>7, <1>8, <3>6 DEF CopyInv
  <2>7. CASE ~AsksCopy(event, syClient')
    <3>1. Asked(f)'
      BY <2>2, <2>3, <2>4, <2>5 DEF Asked, IsLayout
    <3>2. f \in syPending' /\ f.id = syClient'.frame
      BY <1>3, <2>1, <2>7
    <3>3. FrameKnown'
      BY <1>9, <3>1, <3>2 DEF FrameKnown
    <3> QED
      BY <1>6, <1>7, <1>8, <3>3 DEF CopyInv
  <2> QED
    BY <2>6, <2>7
<1> QED
  BY <1>9, <1>10, <1>11, <1>12 DEF CopyInv, FrameKnown

LEMMA DispatchStep ==
    ASSUME CopyInv, DispatchEvents
    PROVE  CopyInv'
<1>1. syInbox # <<>> /\ syInbox' = Tail(syInbox) /\ UNCHANGED <<syCall, syScreen, syCounts>>
      /\ Head(syInbox) = syInbox[1]
  BY FirstEvent DEF DispatchEvents, CopyInv, CopyTyped
<1>2. CASE /\ syInbox[1].kind \in LayoutEvents
           /\ syClient' = [syClient EXCEPT !.outputs = Relearned(syInbox[1])]
           /\ UNCHANGED <<syPending, syMemory>>
  BY <1>1, <1>2, LayoutEventStep
<1>3. CASE /\ syInbox[1].kind \notin LayoutEvents
           /\ syClient' = FrameEvent(syInbox[1])
           /\ syMemory' = IF syClient'.buffer = syClient.buffer THEN syMemory ELSE Blank
           /\ syPending' = IF AsksCopy(syInbox[1], syClient')
                           THEN {Asking(f) : f \in syPending} ELSE syPending
  BY <1>1, <1>3, FrameEventStep
<1> QED
  BY <1>1, <1>2, <1>3 DEF DispatchEvents, Asking

LEMMA CopyStart ==
    ASSUME ScreenCopyInit
    PROVE  CopyInv
<1>1. PICK version \in 1 .. 3, globals \in SUBSET {"shm", "screencopy", "xdg"} : syClient = CaptureState(version, globals)
  BY DEF ScreenCopyInit
<1>2. PICK places \in [Outputs -> Layouts] : syScreen = [places |-> places, shows |-> 0, copied |-> 0]
  BY DEF ScreenCopyInit
<1>3. /\ syMemory = Blank /\ syCall = CallOver("registry", "none") /\ syInbox = <<>> /\ syPending = {}
      /\ syCounts = [frames |-> 0, changes |-> 0]
  BY DEF ScreenCopyInit
<1>4. /\ ClientShaped(syClient) /\ ClientTyped(syClient) /\ syClient.frame = NoFrame /\ ~syClient.wait
  <2>1. ClientShaped(syClient) /\ syClient.frame = NoFrame /\ ~syClient.wait
    BY <1>1 DEF CaptureState, ClientShaped
  <2>2. ClientTyped(syClient)
    BY <1>1 DEF CaptureState, ClientTyped, NoFrame
  <2> QED
    BY <2>1, <2>2
<1>5. CallTyped(syCall) /\ syCall.phase = "registry" /\ syCall.outcome = "none"
  BY <1>3 DEF CallOver, CallTyped
<1>6. PictureTyped(syMemory)
  BY <1>3 DEF Blank, PictureTyped
<1>7. ScreenTyped(syScreen)
  BY <1>2 DEF ScreenTyped
<1>8. CopyTyped
  BY <1>3, <1>4, <1>5, <1>6, <1>7 DEF CopyTyped
<1>9. CallOfFrame /\ ShotTrue
  BY <1>4, <1>5 DEF CallOfFrame, ShotTrue
<1>10. FrameKnown /\ OneEach
  BY <1>3, <1>4 DEF FrameKnown, HasFrame, Quiet, OneEach
<1> QED
  BY <1>8, <1>9, <1>10 DEF CopyInv

LEMMA CopySteps ==
    ASSUME CopyInv, [ScreenCopyNext]_syVars
    PROVE  CopyInv'
<1>1. ASSUME NEW f \in syPending, OffersBuffer(f) \/ OffersNone(f) \/ FailsFrame(f) \/ Copies(f) \/ Forgets(f)
      PROVE  CopyInv'
  BY <1>1, OffersBufferStep, RefusingSteps, CopiesStep, ForgetsStep
<1>2. CASE UNCHANGED syVars
  <2>1. FrameKnown'
    BY <1>2, NothingMoved DEF CopyInv, syVars
  <2>2. CopyTyped'
    BY <1>2, SameTypes DEF CopyInv, CopyTyped, syVars
  <2>3. CallOfFrame' /\ ShotTrue' /\ OneEach'
    BY <1>2 DEF CopyInv, CallOfFrame, ShotTrue, OneEach, syVars
  <2> QED
    BY <2>1, <2>2, <2>3 DEF CopyInv
<1>3. CASE ScreenCopyNext
  BY <1>1, <1>3, OpeningSteps, LearnOutputsStep, BeginSteps, FrameDoneStep, DispatchStep, PageChangesStep,
     GivesUpStep, OutputChangesStep DEF ScreenCopyNext
<1> QED
  BY <1>2, <1>3

LEMMA CopyMeans ==
    ASSUME CopyInv
    PROVE  ScreenCopyTypeOK /\ FrameTrue
<1>1. FrameTrue
  BY DEF CopyInv, CopyTyped, CallOfFrame, ShotTrue, FrameTrue
<1>2. syClient.frame \in 0 .. syCounts.frames
  <2>1. syCall.phase \in {"registry", "geometry", "idle", "first", "heartbeat", "over"}
    BY DEF CopyInv, CopyTyped, CallTyped
  <2>2. syClient.frame = 0 \/ syClient.frame = syCounts.frames
    BY <2>1 DEF CopyInv, CallOfFrame, NoFrame
  <2>3. syCounts.frames \in Nat
    BY DEF CopyInv, CopyTyped
  <2> QED
    BY <2>2, <2>3
<1>3. \A f \in syPending : f.stage \in {"buffer", "offered", "copy"} /\ f.id \in 1 .. syCounts.frames
  <2>1. \A f \in syPending : FrameTyped(f) /\ f.id <= syCounts.frames
    BY DEF CopyInv, CopyTyped
  <2>2. syCounts.frames \in Nat
    BY DEF CopyInv, CopyTyped
  <2> QED
    BY <2>1, <2>2 DEF FrameTyped, NoFrame
<1> QED
  BY <1>1, <1>2, <1>3 DEF CopyInv, CopyTyped, ClientTyped, CallTyped, ScreenCopyTypeOK

(* A frame that is handed out is of the output asked for, as the layout    *)
(* is, and whole (screencopy.rs).                                          *)
THEOREM ScreenCopyTrue == ScreenCopySpec => [](ScreenCopyTypeOK /\ FrameTrue)
<1>1. ScreenCopyInit => CopyInv
  BY CopyStart
<1>2. CopyInv /\ [ScreenCopyNext]_syVars => CopyInv'
  BY CopySteps
<1>3. CopyInv => ScreenCopyTypeOK /\ FrameTrue
  BY CopyMeans
<1> QED
  BY <1>1, <1>2, <1>3, PTL DEF ScreenCopySpec
===============================================================================
