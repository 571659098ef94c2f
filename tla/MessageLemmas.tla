--------------------------- MODULE MessageLemmas ----------------------------
(***************************************************************************)
(* Facts about sequences, and about sequences of messages: what the        *)
(* recursive operators of Messages compute, and that the one message       *)
(* resolveKeyGroup returns does what the whole group does.  Induction over *)
(* the naturals is used in the form of a lemma about sets.                 *)
(***************************************************************************)
EXTENDS Messages, SequencesExt, FiniteSetTheorems, SequenceTheorems,
        WellFoundedInduction, TLAPS

(* A non-empty set of naturals has a least element. *)
LEMMA LeastNat ==
  ASSUME NEW T, T \subseteq Nat, T # {}
  PROVE  \E x \in T : \A y \in T : x <= y
<1>1. PICK x \in T : \A y \in T : ~(<<y, x>> \in OpToRel(<, Nat))
  BY WFMin, NatLessThanWellFounded
<1>2. \A y \in T : ~(y < x)
  BY <1>1 DEF OpToRel
<1>3. QED
  BY <1>2, SMT

(* Induction: a set that has 0 and, with n, n+1 has every natural. *)
LEMMA InductionOnNat ==
  ASSUME NEW S, 0 \in S, \A n \in Nat : n \in S => n + 1 \in S
  PROVE  Nat \subseteq S
<1> DEFINE T == {n \in Nat : n \notin S}
<1>1. SUFFICES ASSUME T # {} PROVE FALSE
  OBVIOUS
<1>2. PICK x \in T : \A y \in T : x <= y
  BY <1>1, LeastNat, T \subseteq Nat
<1>3. x # 0
  BY <1>2
<1>4. x - 1 \in Nat /\ x - 1 \notin T
  BY <1>2, <1>3, SMT
<1>5. QED
  BY <1>2, <1>4, SMT

(***************************************************************************)
(* Definition by recursion: there is a sequence of values that starts with *)
(* a and whose i-th element is g of i and the element before it.           *)
(***************************************************************************)
LEMMA RecursionExists ==
  ASSUME NEW S, NEW a \in S, NEW n \in Nat, NEW g \in [1..n -> [S -> S]]
  PROVE  \E c \in [0..n -> S] :
           /\ c[0] = a
           /\ \A i \in 1..n : c[i] = g[i][c[i-1]]
<1> DEFINE IsRun(c, m) == /\ c \in [0..m -> S]
                          /\ c[0] = a
                          /\ \A i \in 1..m : c[i] = g[i][c[i-1]]
           T == {m \in Nat : m <= n => \E c : IsRun(c, m)}
<1>1. 0 \in T
  <2> DEFINE d == [i \in 0..0 |-> a]
  <2>1. d \in [0..0 -> S] /\ d[0] = a /\ 1..0 = {}
    BY SMT
  <2>2. IsRun(d, 0)
    BY <2>1, Zenon
  <2>3. QED
    BY <2>2
<1>2. ASSUME NEW m \in Nat, m \in T PROVE m + 1 \in T
  <2>1. SUFFICES ASSUME m + 1 <= n PROVE \E c : IsRun(c, m + 1)
    OBVIOUS
  <2>2. PICK c : IsRun(c, m)
    BY <1>2, <2>1, SMT
  <2> DEFINE d == [i \in 0..m+1 |-> IF i = m + 1 THEN g[m + 1][c[m]] ELSE c[i]]
  <2>3. m + 1 \in 1..n /\ c[m] \in S
    BY <2>1, <2>2, SMT
  <2>4. d \in [0..m+1 -> S]
    BY <2>2, <2>3, SMT
  <2>5. d[0] = a /\ \A i \in 1..m+1 : d[i] = g[i][d[i-1]]
    <3>1. d[0] = a
      BY <2>2, SMT
    <3>2. d[m + 1] = g[m + 1][d[m]]
      BY <2>2, SMT
    <3>3. \A i \in 1..m : d[i] = c[i] /\ d[i-1] = c[i-1]
      BY SMT
    <3>4. \A i \in 1..m+1 : i = m + 1 \/ i \in 1..m
      BY SMT
    <3> HIDE DEF d
    <3>5. QED
      BY <2>2, <3>1, <3>2, <3>3, <3>4
  <2> HIDE DEF d
  <2>6. QED
    BY <2>4, <2>5
<1> HIDE DEF T, IsRun
<1>3. n \in T
  BY <1>1, <1>2, InductionOnNat
<1>4. PICK c : IsRun(c, n)
  BY <1>3 DEF T
<1>5. QED
  BY <1>4 DEF IsRun

(* The iterates of a function. *)
LEMMA IterationExists ==
  ASSUME NEW S, NEW a \in S, NEW n \in Nat, NEW up \in [S -> S]
  PROVE  \E c \in [0..n -> S] : c[0] = a /\ \A i \in 1..n : c[i] = up[c[i-1]]
<1> DEFINE g == [i \in 1..n |-> up]
<1>1. g \in [1..n -> [S -> S]]
  OBVIOUS
<1>2. \A i \in 1..n : g[i] = up
  OBVIOUS
<1> HIDE DEF g
<1>3. \E c \in [0..n -> S] : c[0] = a /\ \A i \in 1..n : c[i] = g[i][c[i-1]]
  BY <1>1, RecursionExists
<1> QED
  BY <1>2, <1>3

(* The nodes D are on the levels 0 to R, and step computes an element of S *)
(* for a node from those of the nodes on lower levels.                     *)
LevelStep(D, lev, R, S, step) ==
  /\ lev \in [D -> Nat] /\ \A a \in D : lev[a] <= R
  /\ step \in [D -> [[D -> S] -> S]]
  /\ \A a \in D : \A F, G \in [D -> S] :
       (\A b \in D : lev[b] < lev[a] => F[b] = G[b]) => step[a][F] = step[a][G]

(* Definition by recursion over the levels of a tree. *)
LEMMA LevelRecursion ==
  ASSUME NEW D, NEW lev, NEW R \in Nat, NEW S, NEW s \in S, NEW step,
         LevelStep(D, lev, R, S, step)
  PROVE  \E f \in [D -> S] : \A a \in D : f[a] = step[a][f]
<1>0. /\ lev \in [D -> Nat] /\ \A a \in D : lev[a] <= R
      /\ step \in [D -> [[D -> S] -> S]]
      /\ \A a \in D : \A F, G \in [D -> S] :
           (\A b \in D : lev[b] < lev[a] => F[b] = G[b]) => step[a][F] = step[a][G]
  BY DEF LevelStep
<1> DEFINE W == [D -> S]
           n == R + 1
           up == [F \in W |-> [a \in D |-> step[a][F]]]
           z == [a \in D |-> s]
<1>1. n \in Nat /\ z \in W
  OBVIOUS
<1>2. \A F \in W : \A a \in D : step[a][F] \in S
  BY <1>0
<1>3. up \in [W -> W]
  BY <1>2
<1>4. \A F \in W, a \in D : up[F][a] = step[a][F]
  OBVIOUS
<1> HIDE DEF up, z, n, W
<1>5. \E c \in [0..n -> W] : c[0] = z /\ \A i \in 1..n : c[i] = up[c[i-1]]
  BY ONLY <1>1, <1>3, IterationExists, SMTT(20)
<1>6. PICK c \in [0..n -> W] : c[0] = z /\ \A i \in 1..n : c[i] = up[c[i-1]]
  BY <1>5
<1>7. \A i \in 1..n : i - 1 \in 0..n /\ c[i] = up[c[i-1]] /\ c[i-1] \in W
  BY <1>1, <1>6
<1>8. \A i \in 1..n, a \in D : c[i][a] = step[a][c[i-1]]
  BY <1>4, <1>7
<1> DEFINE T == {j \in Nat : j <= R => \A a \in D : lev[a] < j => c[j+1][a] = c[j][a]}
<1>9. 0 \in T
  <2>1. \A a \in D : ~(lev[a] < 0)
    BY <1>0
  <2> QED
    BY <2>1
<1>10. ASSUME NEW j \in Nat, j \in T PROVE j + 1 \in T
  <2> SUFFICES ASSUME j + 1 <= R, NEW a \in D, lev[a] < j + 1
               PROVE  c[(j + 1) + 1][a] = c[j + 1][a]
    OBVIOUS
  <2>1. /\ (j + 1) + 1 \in 1..n /\ ((j + 1) + 1) - 1 = j + 1
        /\ j + 1 \in 1..n /\ (j + 1) - 1 = j /\ j <= R
    BY DEF n
  <2>2. c[(j + 1) + 1][a] = step[a][c[j + 1]] /\ c[j + 1][a] = step[a][c[j]]
    BY <1>8, <2>1
  <2>3. c[j + 1] \in W /\ c[j] \in W
    BY <1>7, <2>1
  <2>4. \A b \in D : lev[b] < lev[a] => c[j + 1][b] = c[j][b]
    <3> SUFFICES ASSUME NEW b \in D, lev[b] < lev[a] PROVE c[j + 1][b] = c[j][b]
      OBVIOUS
    <3>1. lev[b] \in Nat /\ lev[a] \in Nat
      BY <1>0
    <3>2. lev[b] < j
      BY <3>1
    <3> QED
      BY <1>10, <2>1, <3>2
  <2> QED
    BY <1>0, <2>2, <2>3, <2>4 DEF W
<1>11. R \in T
  <2> HIDE DEF T
  <2>1. Nat \subseteq T
    BY <1>9, <1>10, InductionOnNat
  <2> QED
    BY <2>1
<1> DEFINE f == c[n]
<1>12. n \in 1..n /\ n - 1 = R /\ R + 1 = n /\ R <= R /\ n \in 0..n
  BY DEF n
<1>13. f \in W /\ c[R] \in W
  BY <1>6, <1>7, <1>12
<1>14. \A a \in D : f[a] = step[a][c[R]]
  BY <1>8, <1>12
<1>15. \A b \in D : lev[b] < R => f[b] = c[R][b]
  BY <1>11, <1>12
<1> HIDE DEF f
<1>16. ASSUME NEW a \in D PROVE step[a][f] = step[a][c[R]]
  <2>1. \A b \in D : lev[b] < lev[a] => f[b] = c[R][b]
    <3> SUFFICES ASSUME NEW b \in D, lev[b] < lev[a] PROVE f[b] = c[R][b]
      OBVIOUS
    <3>1. lev[b] \in Nat /\ lev[a] \in Nat /\ lev[a] <= R
      BY <1>0
    <3> QED
      BY <1>15, <3>1
  <2> QED
    BY <1>0, <1>13, <2>1 DEF W
<1>17. \A a \in D : f[a] = step[a][f]
  BY <1>14, <1>16
<1> QED
  BY <1>13, <1>17 DEF W

(* A non-empty finite sequence of naturals has a first largest element. *)
LEMMA FirstMaximum ==
  ASSUME NEW n \in Nat, NEW f \in [1..n+1 -> Nat]
  PROVE  \E i \in 1..n+1 : \A j \in 1..n+1 :
           IF j < i THEN f[j] < f[i] ELSE f[j] <= f[i]
<1> DEFINE First(m, i) == \A j \in 1..m+1 :
                            IF j < i THEN f[j] < f[i] ELSE f[j] <= f[i]
           T == {m \in Nat : m <= n => \E i \in 1..m+1 : First(m, i)}
<1>1. 0 \in T
  <2>1. 1 \in 1..0+1 /\ First(0, 1)
    BY SMT
  <2> HIDE DEF First
  <2>2. QED
    BY <2>1
<1>2. ASSUME NEW m \in Nat, m \in T PROVE m + 1 \in T
  <2>1. SUFFICES ASSUME m + 1 <= n
                 PROVE  \E i \in 1..(m+1)+1 : First(m + 1, i)
    OBVIOUS
  <2>2. PICK i \in 1..m+1 : First(m, i)
    BY <1>2, <2>1, SMT
  <2>3. CASE f[m + 2] > f[i]
    <3>1. m + 2 \in 1..(m+1)+1
      BY SMT
    <3>2. First(m + 1, m + 2)
      BY <2>1, <2>2, <2>3, SMT
    <3> HIDE DEF First
    <3>3. QED
      BY <3>1, <3>2
  <2>4. CASE ~(f[m + 2] > f[i])
    <3>1. i \in 1..(m+1)+1
      BY SMT
    <3>2. First(m + 1, i)
      BY <2>1, <2>2, <2>4, SMT
    <3> HIDE DEF First
    <3>3. QED
      BY <3>1, <3>2
  <2>5. QED
    BY <2>3, <2>4
<1>3. n \in T
  <2> HIDE DEF T
  <2>1. QED
    BY <1>1, <1>2, InductionOnNat
<1>4. QED
  BY <1>3

(* A finite set of naturals has an element with exactly m smaller ones. *)
LEMMA RankExists ==
  ASSUME NEW S, S \subseteq Nat, IsFiniteSet(S), NEW m \in Nat,
         m < Cardinality(S)
  PROVE  \E p \in S : Cardinality({k \in S : k < p}) = m
<1> DEFINE Below(p) == {k \in S : k < p}
           T == {i \in Nat : i < Cardinality(S) =>
                               \E p \in S : Cardinality(Below(p)) = i}
<1>0. \A x \in S : x \in Nat
  OBVIOUS
<1>1. \A p : IsFiniteSet(Below(p)) /\ Cardinality(Below(p)) \in Nat
  BY FS_Subset, FS_CardinalityType
<1>2. Cardinality(S) \in Nat
  BY FS_CardinalityType
<1>3. 0 \in T
  <2>1. SUFFICES ASSUME 0 < Cardinality(S)
                 PROVE  \E p \in S : Cardinality(Below(p)) = 0
    OBVIOUS
  <2>2. S # {}
    BY <2>1, <1>2, FS_EmptySet
  <2>3. PICK p \in S : \A k \in S : p <= k
    BY <2>2, LeastNat
  <2>4. Below(p) = {}
    BY ONLY <1>0, <2>3
  <2>5. QED
    BY <2>4, FS_EmptySet
<1>4. ASSUME NEW i \in Nat, i \in T PROVE i + 1 \in T
  <2>1. SUFFICES ASSUME i + 1 < Cardinality(S)
                 PROVE  \E p \in S : Cardinality(Below(p)) = i + 1
    OBVIOUS
  <2>2. PICK p \in S : Cardinality(Below(p)) = i
    BY <1>2, <1>4, <2>1
  <2> DEFINE upTo == Below(p) \cup {p}
             above == {k \in S : p < k}
  <2>3. IsFiniteSet(upTo) /\ Cardinality(upTo) = i + 1
    <3>1. p \notin Below(p)
      OBVIOUS
    <3> HIDE DEF Below
    <3>2. QED
      BY <1>1, <2>2, <3>1, FS_AddElement
  <2>4. above # {}
    <3>1. S = Below(p) \cup {p} \cup above
      BY ONLY <1>0, <2>2
    <3>2. S # upTo
      <4> HIDE DEF upTo
      <4>1. QED
        BY <1>2, <2>1, <2>3
    <3>3. QED
      BY <3>1, <3>2
  <2>5. PICK q \in above : \A k \in above : q <= k
    BY <2>4, LeastNat
  <2>6. Below(q) = upTo
    BY ONLY <1>0, <2>2, <2>5
  <2>7. QED
    BY <2>3, <2>5, <2>6
<1>5. m \in T
  <2> HIDE DEF T
  <2>1. QED
    BY <1>3, <1>4, InductionOnNat
<1>6. QED
  BY <1>5

(* Short sequences. *)
LEMMA ShortSeqs ==
  ASSUME NEW S, NEW a \in S, NEW b \in S
  PROVE  <<>> \in Seq(S) /\ <<a>> \in Seq(S) /\ <<a, b>> \in Seq(S)
  OBVIOUS

(* Inserting an element into a sequence. *)
LEMMA InsertAtProperties ==
  ASSUME NEW S, NEW s \in Seq(S), NEW e \in S, NEW i \in 1..Len(s)+1
  PROVE  /\ InsertAt(s, i, e) \in Seq(S)
         /\ Len(InsertAt(s, i, e)) = Len(s) + 1
         /\ \A j \in 1..Len(s)+1 :
              InsertAt(s, i, e)[j] =
                IF j < i THEN s[j] ELSE IF j = i THEN e ELSE s[j-1]
<1>1. Len(s) \in Nat /\ \A j \in 1..Len(s) : s[j] \in S
  BY LenProperties, ElementOfSeq
<1> DEFINE a == SubSeq(s, 1, i-1)
           b == SubSeq(s, i, Len(s))
<1>2. /\ a \in Seq(S) /\ Len(a) = i - 1
      /\ \A j \in 1..i-1 : a[j] = s[j]
  BY <1>1, SMT
<1>3. /\ b \in Seq(S) /\ Len(b) = Len(s) - i + 1
      /\ \A j \in 1..Len(s)-i+1 : b[j] = s[i+j-1]
  BY <1>1, SMT
<1> HIDE DEF a, b
<1>4. InsertAt(s, i, e) = (a \o <<e>>) \o b
  BY DEF InsertAt, a, b
<1> DEFINE h == a \o <<e>>
<1>5. <<e>> \in Seq(S) /\ Len(<<e>>) = 1 /\ <<e>>[1] = e
  OBVIOUS
<1>6. /\ h \in Seq(S) /\ Len(h) = i
      /\ \A j \in 1..i : h[j] = IF j < i THEN s[j] ELSE e
  BY <1>1, <1>2, <1>5, ConcatProperties
<1> HIDE DEF h
<1>7. /\ h \o b \in Seq(S) /\ Len(h \o b) = Len(s) + 1
      /\ \A j \in 1..Len(s)+1 :
           (h \o b)[j] = IF j <= i THEN h[j] ELSE b[j-i]
  <2>1. Len(h) + Len(b) = Len(s) + 1
    BY <1>1, <1>3, <1>6
  <2>2. /\ h \o b \in Seq(S) /\ Len(h \o b) = Len(h) + Len(b)
        /\ \A j \in 1..Len(h) + Len(b) :
             (h \o b)[j] = IF j <= Len(h) THEN h[j] ELSE b[j-Len(h)]
    BY ONLY <1>3, <1>6, ConcatProperties
  <2>3. QED
    BY <1>6, <2>1, <2>2
<1>8. \A j \in 1..Len(s)+1 : j > i => b[j-i] = s[j-1]
  BY <1>1, <1>3, SMT
<1>9. \A j \in 1..Len(s)+1 :
        (h \o b)[j] = IF j < i THEN s[j] ELSE IF j = i THEN e ELSE s[j-1]
  <2> DEFINE n == Len(s)
             t == h \o b
  <2>1. /\ n \in Nat /\ i \in 1..n+1
        /\ \A j \in 1..i : h[j] = IF j < i THEN s[j] ELSE e
        /\ \A j \in 1..n+1 : t[j] = IF j <= i THEN h[j] ELSE b[j-i]
        /\ \A j \in 1..n+1 : j > i => b[j-i] = s[j-1]
    BY <1>1, <1>6, <1>7, <1>8
  <2> HIDE DEF n, t
  <2>2. \A j \in 1..n+1 : t[j] = IF j < i THEN s[j] ELSE IF j = i THEN e ELSE s[j-1]
    BY ONLY <2>1
  <2> QED
    BY <2>2 DEF n, t
<1>10. QED
  BY <1>4, <1>7, <1>9 DEF h

-----------------------------------------------------------------------------
(* Binary search *)

(***************************************************************************)
(* One step of a search among the positions 1..n that has come down to the *)
(* ones after lo up to hi: the middle one is a hit, or the search goes on  *)
(* to its right, or to its left.                                           *)
(***************************************************************************)
Halved(n, Hit, Right, hit, miss, f) ==
  [part \in (0..n) \X (0..n) |->
     LET lo == part[1]
         hi == part[2]
         mid == lo + (hi - lo) \div 2
     IN  IF lo >= hi THEN miss[lo]
         ELSE IF mid + 1 \in Hit THEN hit[mid + 1]
         ELSE IF mid + 1 \in Right THEN f[<<mid + 1, hi>>]
                                   ELSE f[<<lo, mid>>]]

(* The middle is in the lower of two parts that are both shorter. *)
LEMMA MiddleBetween ==
  ASSUME NEW lo \in Nat, NEW hi \in Nat, lo < hi,
         NEW mid, mid = lo + (hi - lo) \div 2
  PROVE  mid \in Nat /\ lo <= mid /\ mid < hi
<1> DEFINE d == hi - lo
<1>1. d \in Nat /\ d >= 1 /\ hi = lo + d
  OBVIOUS
<1> HIDE DEF d
<1>2. d \div 2 \in Nat /\ d \div 2 < d
  BY <1>1
<1>3. mid = lo + d \div 2
  BY DEF d
<1> QED
  BY <1>1, <1>2, <1>3

(* What one step of the search returns. *)
LEMMA HalvedAt ==
  ASSUME NEW n \in Nat, NEW Hit, NEW Right, NEW hit, NEW miss, NEW f,
         NEW lo \in 0..n, NEW hi \in 0..n, NEW mid, mid = lo + (hi - lo) \div 2
  PROVE  Halved(n, Hit, Right, hit, miss, f)[<<lo, hi>>] =
           IF lo >= hi THEN miss[lo]
           ELSE IF mid + 1 \in Hit THEN hit[mid + 1]
           ELSE IF mid + 1 \in Right THEN f[<<mid + 1, hi>>]
                                     ELSE f[<<lo, mid>>]
<1>1. <<lo, hi>> \in (0..n) \X (0..n) /\ <<lo, hi>>[1] = lo /\ <<lo, hi>>[2] = hi
  OBVIOUS
<1> QED
  BY <1>1, Zenon DEF Halved

(* The recursion of a binary search defines a function. *)
LEMMA HalvedDefined ==
  ASSUME NEW n \in Nat, NEW Hit, NEW Right, NEW S,
         NEW hit \in [1..n -> S], NEW miss \in [0..n -> S]
  PROVE  \E f : f = Halved(n, Hit, Right, hit, miss, f)
<1> DEFINE D == (0..n) \X (0..n)
           lev == [a \in D |-> IF a[1] >= a[2] THEN 0 ELSE a[2] - a[1]]
           H(f) == Halved(n, Hit, Right, hit, miss, f)
           step == [a \in D |-> [f \in [D -> S] |-> H(f)[a]]]
<1>1. \A a \in D : a[1] \in 0..n /\ a[2] \in 0..n /\ a = <<a[1], a[2]>>
  OBVIOUS
<1>2. \A x, y \in 0..n : <<x, y>> \in D /\ <<x, y>>[1] = x /\ <<x, y>>[2] = y
  OBVIOUS
<1> HIDE DEF D
<1>3. \A a \in D : lev[a] = IF a[1] >= a[2] THEN 0 ELSE a[2] - a[1]
  OBVIOUS
<1>4. lev \in [D -> Nat] /\ \A a \in D : lev[a] <= n
  BY <1>1
<1> HIDE DEF lev
<1>5. ASSUME NEW a \in D, NEW f \in [D -> S], NEW g \in [D -> S],
             \A b \in D : lev[b] < lev[a] => f[b] = g[b]
      PROVE  H(f)[a] \in S /\ H(f)[a] = H(g)[a]
  <2> DEFINE lo == a[1]
             hi == a[2]
             mid == lo + (hi - lo) \div 2
  <2>1. lo \in 0..n /\ hi \in 0..n /\ a = <<lo, hi>>
    BY <1>1
  <2>2. lev[a] = IF lo >= hi THEN 0 ELSE hi - lo
    BY <1>3
  <2>3. mid = lo + (hi - lo) \div 2
    OBVIOUS
  <2> HIDE DEF lo, hi, mid
  <2>4. \A h : H(h)[a] = IF lo >= hi THEN miss[lo]
                         ELSE IF mid + 1 \in Hit THEN hit[mid + 1]
                         ELSE IF mid + 1 \in Right THEN h[<<mid + 1, hi>>]
                                                   ELSE h[<<lo, mid>>]
    BY <2>1, <2>3, HalvedAt
  <2> HIDE DEF H
  <2>5. CASE lo >= hi
    <3>1. miss[lo] \in S
      BY <2>1
    <3> QED
      BY <2>4, <2>5, <3>1
  <2>6. CASE lo < hi
    <3>1. mid \in Nat /\ lo <= mid /\ mid < hi
      BY <2>1, <2>3, <2>6, MiddleBetween
    <3>2. mid + 1 \in 1..n /\ mid + 1 \in 0..n /\ mid \in 0..n /\ ~(lo >= hi)
      BY <2>1, <2>6, <3>1
    <3>3. hit[mid + 1] \in S
      BY <3>2
    <3> DEFINE b == <<mid + 1, hi>>
               c == <<lo, mid>>
    <3>4. b \in D /\ b[1] = mid + 1 /\ b[2] = hi /\ c \in D /\ c[1] = lo /\ c[2] = mid
      BY <1>2, <2>1, <3>2
    <3> HIDE DEF b, c
    <3>5. lev[b] < lev[a] /\ lev[c] < lev[a]
      <4>1. lev[a] = hi - lo
        BY <2>2, <3>2
      <4>2. lev[b] = IF mid + 1 >= hi THEN 0 ELSE hi - (mid + 1)
        BY <1>3, <3>4
      <4>3. lev[c] = IF lo >= mid THEN 0 ELSE mid - lo
        BY <1>3, <3>4
      <4> QED
        BY <2>1, <2>6, <3>1, <4>1, <4>2, <4>3
    <3>6. f[b] = g[b] /\ f[c] = g[c] /\ f[b] \in S /\ f[c] \in S
      BY <1>5, <3>4, <3>5
    <3>7. \A h : H(h)[a] = IF mid + 1 \in Hit THEN hit[mid + 1]
                           ELSE IF mid + 1 \in Right THEN h[b] ELSE h[c]
      BY <2>4, <3>2 DEF b, c
    <3> QED
      BY <3>3, <3>6, <3>7
  <2> QED
    BY <2>1, <2>5, <2>6
<1> HIDE DEF H
<1>6. \A a \in D, f \in [D -> S] : step[a][f] = H(f)[a] /\ H(f)[a] \in S
  BY <1>5
<1>7. step \in [D -> [[D -> S] -> S]]
  BY <1>6
<1> HIDE DEF step
<1>8. LevelStep(D, lev, n, S, step)
  <2>1. \A a \in D : \A f, g \in [D -> S] :
          (\A b \in D : lev[b] < lev[a] => f[b] = g[b]) => step[a][f] = step[a][g]
    BY <1>5, <1>6
  <2> QED
    BY <1>4, <1>7, <2>1 DEF LevelStep
<1>9. 0 \in 0..n /\ miss[0] \in S
  OBVIOUS
<1> DEFINE s == miss[0]
<1>10. s \in S
  BY <1>9
<1> HIDE DEF s
<1>11. \E f \in [D -> S] : \A a \in D : f[a] = step[a][f]
  BY ONLY <1>8, <1>10, n \in Nat, LevelRecursion
<1>12. PICK f \in [D -> S] : \A a \in D : f[a] = H(f)[a]
  BY <1>6, <1>11
<1>13. f = H(f)
  <2>1. H(f) = [a \in D |-> H(f)[a]]
    BY DEF H, Halved, D
  <2>2. f = [a \in D |-> f[a]]
    BY <1>12
  <2> QED
    BY <1>12, <2>1, <2>2
<1> QED
  BY <1>13 DEF H

(* The search, for which the positions to whose right it goes come first,  *)
(* then the only hit, if any.                                              *)
Bisected(n, Hit, Right, hit, miss) ==
  CHOOSE f : f = Halved(n, Hit, Right, hit, miss, f)

Divided(n, Hit, Right) ==
  /\ \A i, j \in 1..n : i < j => /\ j \in Right => i \in Right /\ i \notin Hit
                                 /\ j \in Hit => i \in Right /\ i \notin Hit
  /\ \A i \in 1..n : i \in Hit => i \notin Right

(* x is the hit, or the boundary. *)
FoundOrMissed(n, Hit, Right, hit, miss, x) ==
  \/ \E i \in 1..n : i \in Hit /\ x = hit[i]
  \/ \E i \in 0..n : /\ x = miss[i]
                     /\ \A j \in 1..i : j \in Right /\ j \notin Hit
                     /\ \A j \in i+1..n : j \notin Right /\ j \notin Hit

(* A binary search finds the hit, or the boundary. *)
LEMMA Bisection ==
  ASSUME NEW n \in Nat, NEW Hit, NEW Right, NEW S, NEW hit, NEW miss,
         hit \in [1..n -> S], miss \in [0..n -> S], Divided(n, Hit, Right)
  PROVE  FoundOrMissed(n, Hit, Right, hit, miss,
                       Bisected(n, Hit, Right, hit, miss)[<<0, n>>])
<1> DEFINE r == Bisected(n, Hit, Right, hit, miss)
           Found(x) == \/ \E i \in 1..n : i \in Hit /\ x = hit[i]
                       \/ \E i \in 0..n :
                            /\ x = miss[i]
                            /\ \A j \in 1..i : j \in Right /\ j \notin Hit
                            /\ \A j \in i+1..n : j \notin Right /\ j \notin Hit
           Fits(lo, hi) == /\ \A j \in 1..lo : j \in Right /\ j \notin Hit
                           /\ \A j \in hi+1..n : j \notin Right /\ j \notin Hit
           T == {d \in Nat : \A lo, hi \in 0..n :
                   lo <= hi /\ hi - lo <= d /\ Fits(lo, hi) => Found(r[<<lo, hi>>])}
<1>0. /\ \A i, j \in 1..n : i < j => /\ j \in Right => i \in Right /\ i \notin Hit
                                     /\ j \in Hit => i \in Right /\ i \notin Hit
      /\ \A i \in 1..n : i \in Hit => i \notin Right
  BY DEF Divided
<1>1. r = Halved(n, Hit, Right, hit, miss, r)
  BY HalvedDefined DEF Bisected
<1> HIDE DEF r
<1>2. ASSUME NEW lo \in 0..n, NEW hi \in 0..n, NEW mid, mid = lo + (hi - lo) \div 2
      PROVE  r[<<lo, hi>>] = IF lo >= hi THEN miss[lo]
                             ELSE IF mid + 1 \in Hit THEN hit[mid + 1]
                             ELSE IF mid + 1 \in Right THEN r[<<mid + 1, hi>>]
                                                       ELSE r[<<lo, mid>>]
  <2>1. Halved(n, Hit, Right, hit, miss, r)[<<lo, hi>>] =
          IF lo >= hi THEN miss[lo]
          ELSE IF mid + 1 \in Hit THEN hit[mid + 1]
          ELSE IF mid + 1 \in Right THEN r[<<mid + 1, hi>>]
                                    ELSE r[<<lo, mid>>]
    <3>1. <<lo, hi>> \in (0..n) \X (0..n) /\ <<lo, hi>>[1] = lo /\ <<lo, hi>>[2] = hi
      OBVIOUS
    <3> QED
      BY <1>2, <3>1, Zenon DEF Halved
  <2> QED
    BY ONLY <1>1, <2>1
<1> HIDE DEF Found, Fits
<1>3. ASSUME NEW lo \in 0..n, Fits(lo, lo) PROVE Found(r[<<lo, lo>>])
  <2> DEFINE mid == lo + (lo - lo) \div 2
  <2>1. mid = lo + (lo - lo) \div 2 /\ lo >= lo
    OBVIOUS
  <2> HIDE DEF mid
  <2>2. r[<<lo, lo>>] = miss[lo]
    BY ONLY <1>2, <2>1, lo \in 0..n
  <2>3. /\ \A j \in 1..lo : j \in Right /\ j \notin Hit
        /\ \A j \in lo+1..n : j \notin Right /\ j \notin Hit
    BY ONLY <1>3, Zenon DEF Fits
  <2>4. \E i \in 0..n : /\ r[<<lo, lo>>] = miss[i]
                        /\ \A j \in 1..i : j \in Right /\ j \notin Hit
                        /\ \A j \in i+1..n : j \notin Right /\ j \notin Hit
    BY ONLY lo \in 0..n, <2>2, <2>3, Zenon
  <2> QED
    BY <2>4 DEF Found
<1>4. 0 \in T
  <2> SUFFICES ASSUME NEW lo \in 0..n, NEW hi \in 0..n, lo <= hi, hi - lo <= 0, Fits(lo, hi)
               PROVE  Found(r[<<lo, hi>>])
    OBVIOUS
  <2>1. lo = hi
    OBVIOUS
  <2>2. Fits(lo, lo)
    BY <2>1
  <2>3. Found(r[<<lo, lo>>])
    BY <1>3, <2>2
  <2> QED
    BY <2>1, <2>3
<1>5. ASSUME NEW d \in Nat, d \in T PROVE d + 1 \in T
  <2> SUFFICES ASSUME NEW lo \in 0..n, NEW hi \in 0..n, lo <= hi, hi - lo <= d + 1,
                      Fits(lo, hi)
               PROVE  Found(r[<<lo, hi>>])
    <3>1. d + 1 \in Nat
      OBVIOUS
    <3> QED
      BY <3>1, Zenon
  <2>1. CASE lo = hi
    BY ONLY <1>3, <2>1, lo \in 0..n, Fits(lo, hi)
  <2>2. CASE lo < hi
    <3> DEFINE mid == lo + (hi - lo) \div 2
    <3>1. mid = lo + (hi - lo) \div 2
      OBVIOUS
    <3> HIDE DEF mid
    <3>2. mid \in Nat /\ lo <= mid /\ mid < hi
      <4>1. lo \in Nat /\ hi \in Nat
        OBVIOUS
      <4> QED
        BY ONLY <2>2, <3>1, <4>1, MiddleBetween
    <3>3. /\ mid + 1 \in 1..n /\ mid + 1 \in 0..n /\ mid \in 0..n /\ ~(lo >= hi)
          /\ mid + 1 <= hi /\ hi - (mid + 1) <= d /\ mid - lo <= d
      BY <2>2, <3>2
    <3>4. r[<<lo, hi>>] = IF mid + 1 \in Hit THEN hit[mid + 1]
                          ELSE IF mid + 1 \in Right THEN r[<<mid + 1, hi>>]
                                                    ELSE r[<<lo, mid>>]
      BY ONLY <1>2, <3>1, <3>3, lo \in 0..n, hi \in 0..n
    <3>5. CASE mid + 1 \in Hit
      BY <3>3, <3>4, <3>5 DEF Found
    <3>6. CASE mid + 1 \notin Hit /\ mid + 1 \in Right
      <4>1. \A j \in 1..mid+1 : j \in Right /\ j \notin Hit
        <5> SUFFICES ASSUME NEW j \in 1..mid+1 PROVE j \in Right /\ j \notin Hit
          OBVIOUS
        <5>1. j = mid + 1 \/ (j \in 1..n /\ j < mid + 1)
          BY <3>2, <3>3
        <5> QED
          BY <1>0, <3>3, <3>6, <5>1
      <4>2. Fits(mid + 1, hi)
        BY <4>1 DEF Fits
      <4>3. Found(r[<<mid + 1, hi>>])
        BY <1>5, <3>3, <4>2
      <4> QED
        BY <3>4, <3>6, <4>3
    <3>7. CASE mid + 1 \notin Hit /\ mid + 1 \notin Right
      <4>1. \A j \in mid+1..n : j \notin Right /\ j \notin Hit
        <5> SUFFICES ASSUME NEW j \in mid+1..n PROVE j \notin Right /\ j \notin Hit
          OBVIOUS
        <5>1. j = mid + 1 \/ (j \in 1..n /\ mid + 1 < j)
          BY <3>2, <3>3
        <5> QED
          BY <1>0, <3>3, <3>7, <5>1
      <4>2. Fits(lo, mid)
        BY <4>1 DEF Fits
      <4>3. Found(r[<<lo, mid>>])
        BY <1>5, <3>2, <3>3, <4>2
      <4> QED
        BY <3>4, <3>7, <4>3
    <3> QED
      BY <3>5, <3>6, <3>7
  <2> QED
    BY <2>1, <2>2
<1>6. n \in T
  <2> HIDE DEF T
  <2>1. Nat \subseteq T
    BY <1>4, <1>5, InductionOnNat
  <2> QED
    BY <2>1
<1>7. 0 \in 0..n /\ n \in 0..n /\ 0 <= n /\ n - 0 <= n /\ Fits(0, n)
  BY DEF Fits
<1>8. Found(r[<<0, n>>])
  BY <1>6, <1>7
<1> QED
  BY <1>8 DEF Found, FoundOrMissed, r

-----------------------------------------------------------------------------
(* Messages *)

(* The messages resolveKeyGroup returns: an upsert may be a composition. *)
FoldedMsg ==
  [kind : {"put"}, val : Value, counted : BOOLEAN]
    \cup [kind : {"del"}] \cup [kind : {"ups"}, fn : [Opt -> Value]]

(***************************************************************************)
(* Every message may stand for a group of one.                             *)
(***************************************************************************)
LEMMA MsgIsFolded == Msg \subseteq FoldedMsg
  BY MessagesAssumption DEF Msg, FoldedMsg

(* A message turns a value into a value, and only a delete into Absent. *)
LEMMA ApplyType ==
  ASSUME NEW m \in FoldedMsg, NEW o \in Opt
  PROVE  Apply(m, o) \in Opt
<1>1. CASE m \in [kind : {"put"}, val : Value, counted : BOOLEAN]
  BY <1>1 DEF Apply, Opt
<1>2. CASE m \in [kind : {"del"}]
  BY <1>2 DEF Apply, Opt
<1>3. CASE m \in [kind : {"ups"}, fn : [Opt -> Value]]
  BY <1>3 DEF Apply, Opt
<1>4. QED
  BY <1>1, <1>2, <1>3 DEF FoldedMsg

(* Run is the sequence of values its recursion describes. *)
LEMMA RunProperties ==
  ASSUME NEW msgs \in Seq(Msg), NEW o \in Opt
  PROVE  /\ Run(msgs, o) \in [0..Len(msgs) -> Opt]
         /\ Run(msgs, o)[0] = o
         /\ \A i \in 1..Len(msgs) :
              Run(msgs, o)[i] = Apply(msgs[i], Run(msgs, o)[i-1])
<1> DEFINE n == Len(msgs)
           E(r) == [i \in 0..n |-> IF i = 0 THEN o ELSE Apply(msgs[i], r[i-1])]
           g == [i \in 1..n |-> [x \in Opt |-> Apply(msgs[i], x)]]
<1>1. n \in Nat
  BY LenProperties
<1>2. \A i \in 1..n, x \in Opt : Apply(msgs[i], x) \in Opt
  BY ElementOfSeq, MsgIsFolded, ApplyType
<1>3. g \in [1..n -> [Opt -> Opt]]
  BY <1>2
<1> HIDE DEF n, g
<1>4. PICK c \in [0..n -> Opt] :
        c[0] = o /\ \A i \in 1..n : c[i] = g[i][c[i-1]]
  BY <1>1, <1>3, RecursionExists, SMTT(20)
<1>5. \A i \in 1..n : i - 1 \in 0..n /\ i \in 0..n
  BY <1>1
<1>6. \A i \in 1..n : c[i] = Apply(msgs[i], c[i-1])
  BY <1>4, <1>5 DEF g
<1>7. c = E(c)
  BY <1>1, <1>4, <1>6, SMT
<1>8. Run(msgs, o) = CHOOSE r : r = E(r)
  BY DEF Run, n
<1>9. Run(msgs, o) = E(Run(msgs, o))
  BY <1>7, <1>8
<1> DEFINE r == Run(msgs, o)
<1>10. r = E(r)
  BY <1>9
<1> HIDE DEF r
<1>11. r[0] = o /\ \A i \in 1..n : r[i] = Apply(msgs[i], r[i-1])
  BY <1>1, <1>10, SMT
<1> DEFINE T == {i \in Nat : i <= n => r[i] = c[i]}
<1>12. 0 \in T
  BY <1>4, <1>11
<1>13. \A i \in Nat : i \in T => i + 1 \in T
  BY <1>1, <1>6, <1>11, SMT
<1>14. Nat \subseteq T
  BY <1>12, <1>13, InductionOnNat
<1>15. \A i \in 0..n : r[i] \in Opt
  BY <1>1, <1>4, <1>14, SMT
<1>16. r \in [0..n -> Opt]
  BY <1>10, <1>15
<1>17. QED
  BY <1>11, <1>16 DEF r, n

(***************************************************************************)
(* Applying messages to a value, or to none, gives a value or none.        *)
(***************************************************************************)
LEMMA AfterType ==
  ASSUME NEW msgs \in Seq(Msg), NEW o \in Opt
  PROVE  After(msgs, o) \in Opt
<1>1. Len(msgs) \in 0..Len(msgs)
  BY LenProperties, SMT
<1>2. QED
  BY <1>1, RunProperties DEF After

(* What resolveKeyGroup makes of one message more. *)
FoldStep(m, prev) ==
  IF m.kind # "ups" THEN m
  ELSE CASE prev.kind = "put" -> [prev EXCEPT !.val = m.fn[@]]
         [] prev.kind = "del" -> MsgPut(m.fn[Absent], FALSE)
         [] prev.kind = "ups" -> MsgUpsert(Compose(prev.fn, m.fn))

(* resolveKeyGroup folds a non-empty group of messages into one message. *)
LEMMA ResolveKeyGroupFold ==
  ASSUME NEW group \in Seq(Msg), group # <<>>
  PROVE  \E f \in [1..Len(group) -> FoldedMsg] :
           /\ resolveKeyGroup(group) = f[Len(group)]
           /\ \A i \in 1..Len(group) :
                f[i] = IF i = 1 THEN group[1] ELSE FoldStep(group[i], f[i-1])
<1> DEFINE n == Len(group)
           Step(m, prev) == FoldStep(m, prev)
           E(f) == [i \in 1..n |-> IF i = 1 \/ group[i].kind # "ups" THEN group[i]
                      ELSE CASE f[i-1].kind = "put" ->
                                  [f[i-1] EXCEPT !.val = group[i].fn[@]]
                             [] f[i-1].kind = "del" ->
                                  MsgPut(group[i].fn[Absent], FALSE)
                             [] f[i-1].kind = "ups" ->
                                  MsgUpsert(Compose(f[i-1].fn, group[i].fn))]
           g == [i \in 1..n |-> [x \in FoldedMsg |->
                   IF i = 1 THEN group[1] ELSE Step(group[i], x)]]
<1>1. n \in Nat /\ n >= 1
  BY LenProperties, EmptySeq, SMT
<1>2. \A i \in 1..n : group[i] \in Msg /\ group[i] \in FoldedMsg
  BY ElementOfSeq, MsgIsFolded
<1>3. ASSUME NEW m \in Msg, NEW x \in FoldedMsg
      PROVE  Step(m, x) \in FoldedMsg
  <2>1. m.kind # "ups" \/ m.fn \in [Opt -> Value]
    BY MessagesAssumption DEF Msg
  <2>2. CASE m.kind # "ups"
    BY <2>2, MsgIsFolded DEF FoldStep
  <2>3. CASE m.kind = "ups" /\ x \in [kind : {"put"}, val : Value, counted : BOOLEAN]
    BY <2>1, <2>3 DEF FoldStep, FoldedMsg, Opt
  <2>4. CASE m.kind = "ups" /\ x \in [kind : {"del"}]
    BY <2>1, <2>4 DEF FoldStep, FoldedMsg, Opt, MsgPut
  <2>5. CASE m.kind = "ups" /\ x \in [kind : {"ups"}, fn : [Opt -> Value]]
    <3>1. Compose(x.fn, m.fn) \in [Opt -> Value]
      BY <2>1, <2>5 DEF Compose, Opt
    <3>2. QED
      BY <2>5, <3>1 DEF FoldStep, FoldedMsg, MsgUpsert
  <2>6. QED
    BY <2>2, <2>3, <2>4, <2>5 DEF FoldedMsg
<1>4. g \in [1..n -> [FoldedMsg -> FoldedMsg]]
  <2>1. \A i \in 1..n, x \in FoldedMsg :
          (IF i = 1 THEN group[1] ELSE Step(group[i], x)) \in FoldedMsg
    <3> HIDE DEF Step
    <3>1. QED
      BY <1>2, <1>3
  <2> HIDE DEF Step
  <2>2. QED
    BY <2>1
<1>5. PICK c \in [0..n -> FoldedMsg] :
        c[0] = group[1] /\ \A i \in 1..n : c[i] = g[i][c[i-1]]
  <2> HIDE DEF n, g, E, Step
  <2>1. 1 \in 1..n
    BY <1>1
  <2> DEFINE a == group[1]
  <2>2. n \in Nat /\ a \in FoldedMsg
    BY <1>1, <1>2, <2>1
  <2> HIDE DEF a
  <2>3. \E c \in [0..n -> FoldedMsg] :
          c[0] = a /\ \A i \in 1..n : c[i] = g[i][c[i-1]]
    BY ONLY <1>4, <2>2, RecursionExists
  <2>4. QED
    BY <2>3 DEF a
<1> DEFINE d == [i \in 1..n |-> c[i]]
<1>6. \A i \in 1..n : c[i] = IF i = 1 THEN group[1] ELSE Step(group[i], c[i-1])
  <2> HIDE DEF Step, n
  <2>1. \A i \in 1..n : c[i-1] \in FoldedMsg
    BY <1>1, <1>5
  <2>2. QED
    BY <1>5, <2>1
<1>7. d = E(d)
  <2>1. \A i \in 1..n : i # 1 => d[i-1] = c[i-1]
    BY <1>1
  <2>2. \A i \in 1..n : d[i] = E(d)[i]
    BY <1>6, <2>1 DEF FoldStep
  <2> HIDE DEF n
  <2>3. QED
    BY <2>2
<1> DEFINE f == CHOOSE x : x = E(x)
<1>8. resolveKeyGroup(group) = f[n]
  BY DEF resolveKeyGroup
<1>9. f = E(f)
  <2> HIDE DEF d, E
  <2>1. QED
    BY <1>7
<1> HIDE DEF f
<1>10. \A i \in 1..n : f[i] = IF i = 1 THEN group[1] ELSE Step(group[i], f[i-1])
  BY <1>9 DEF FoldStep
<1> DEFINE T == {i \in Nat : 1 <= i /\ i <= n => f[i] = c[i]}
<1>11. 0 \in T
  BY SMT
<1>12. ASSUME NEW i \in Nat, i \in T PROVE i + 1 \in T
  <2> HIDE DEF Step
  <2>1. CASE i = 0
    <3>1. 1 \in 1..n
      BY <1>1
    <3>2. QED
      BY <2>1, <3>1, <1>6, <1>10
  <2>2. CASE i # 0 /\ i + 1 <= n
    <3>1. i + 1 \in 1..n /\ i + 1 # 1 /\ i + 1 - 1 = i /\ f[i] = c[i]
      BY <1>1, <1>12, <2>2
    <3>2. QED
      BY <3>1, <1>6, <1>10
  <2>3. QED
    BY <2>1, <2>2
<1>13. Nat \subseteq T
  <2> HIDE DEF T
  <2>1. QED
    BY <1>11, <1>12, InductionOnNat
<1>14. \A i \in 1..n : f[i] \in FoldedMsg
  BY <1>1, <1>5, <1>13
<1>15. f \in [1..n -> FoldedMsg]
  <2>1. f = [i \in 1..n |-> f[i]]
    BY <1>9
  <2>2. QED
    BY <1>14, <2>1
<1>16. QED
  BY <1>8, <1>10, <1>15

(***************************************************************************)
(* A group folds into one message (iterator.go, flush.go), a put, a delete *)
(* or an upsert chain.                                                     *)
(***************************************************************************)
LEMMA ResolveKeyGroupType ==
  ASSUME NEW group \in Seq(Msg), group # <<>>
  PROVE  resolveKeyGroup(group) \in FoldedMsg
<1>1. Len(group) \in 1..Len(group)
  BY LenProperties, EmptySeq, SMT
<1>2. QED
  BY <1>1, ResolveKeyGroupFold

(* Run is the only sequence with its recursion. *)
LEMMA RunIs ==
  ASSUME NEW msgs \in Seq(Msg), NEW o \in Opt, NEW c, c[0] = o,
         \A i \in 1..Len(msgs) : c[i] = Apply(msgs[i], c[i-1])
  PROVE  \A i \in 0..Len(msgs) : Run(msgs, o)[i] = c[i]
<1> DEFINE n == Len(msgs)
           run == Run(msgs, o)
           T == {i \in Nat : i <= n => run[i] = c[i]}
<1>1. n \in Nat
  BY LenProperties
<1>2. run[0] = o /\ \A i \in 1..n : run[i] = Apply(msgs[i], run[i-1])
  BY RunProperties
<1>3. \A i \in 1..n : c[i] = Apply(msgs[i], c[i-1])
  OBVIOUS
<1> HIDE DEF n, run
<1>4. 0 \in T
  BY <1>2
<1>5. ASSUME NEW i \in Nat, i \in T PROVE i + 1 \in T
  <2> SUFFICES ASSUME i + 1 <= n PROVE run[i + 1] = c[i + 1]
    OBVIOUS
  <2>1. i + 1 \in 1..n /\ (i + 1) - 1 = i /\ run[i] = c[i]
    BY <1>1, <1>5
  <2> QED
    BY <1>2, <1>3, <2>1
<1>6. Nat \subseteq T
  <2> HIDE DEF T
  <2> QED
    BY <1>4, <1>5, InductionOnNat
<1> QED
  BY <1>1, <1>6 DEF n, run

(* No messages change nothing. *)
LEMMA AfterNone ==
  ASSUME NEW o \in Opt
  PROVE  After(<<>>, o) = o
<1>1. <<>> \in Seq(Msg) /\ Len(<<>>) = 0
  OBVIOUS
<1>2. Run(<<>>, o)[0] = o
  BY <1>1, RunProperties
<1> QED
  BY <1>1, <1>2 DEF After

(* Older messages, then newer ones. *)
LEMMA RunConcat ==
  ASSUME NEW s \in Seq(Msg), NEW t \in Seq(Msg), NEW o \in Opt
  PROVE  /\ \A i \in 0..Len(s) : Run(s \o t, o)[i] = Run(s, o)[i]
         /\ \A i \in 0..Len(t) :
              Run(s \o t, o)[Len(s) + i] = Run(t, After(s, o))[i]
         /\ After(s \o t, o) = After(t, After(s, o))
<1> DEFINE m == Len(s)
           n == Len(t)
           u == s \o t
           x == After(s, o)
           all == Run(u, o)
           d == [i \in 0..n |-> all[m + i]]
<1>1. m \in Nat /\ n \in Nat
  BY LenProperties
<1>2. /\ u \in Seq(Msg) /\ Len(u) = m + n
      /\ \A i \in 1..m+n : u[i] = IF i <= m THEN s[i] ELSE t[i - m]
  BY ConcatProperties
<1>3. x \in Opt
  BY AfterType
<1> HIDE DEF u
<1>4. all[0] = o /\ \A i \in 1..m+n : all[i] = Apply(u[i], all[i-1])
  BY <1>2, RunProperties
<1> HIDE DEF all
<1>5. \A i \in 0..m : Run(s, o)[i] = all[i]
  <2>1. \A i \in 1..m : all[i] = Apply(s[i], all[i-1])
    BY <1>1, <1>2, <1>4
  <2> QED
    BY ONLY <1>4, <2>1, RunIs, s \in Seq(Msg), o \in Opt DEF m
<1>6. all[m] = x
  <2>1. m \in 0..m
    BY <1>1
  <2> QED
    BY <1>5, <2>1 DEF After
<1> HIDE DEF x
<1>7. d[0] = x /\ \A i \in 1..n : d[i] = Apply(t[i], d[i-1])
  <2> HIDE DEF m, n
  <2>1. d[0] = x
    BY <1>1, <1>6
  <2>2. ASSUME NEW i \in 1..n PROVE d[i] = Apply(t[i], d[i-1])
    <3>1. /\ m + i \in 1..m+n /\ ~(m + i <= m) /\ (m + i) - m = i
          /\ i \in 0..n /\ i - 1 \in 0..n /\ (m + i) - 1 = m + (i - 1)
      BY <1>1
    <3>2. u[m + i] = t[i]
      BY <1>2, <3>1
    <3>3. all[m + i] = Apply(t[i], all[m + (i - 1)])
      BY <1>4, <3>1, <3>2
    <3> QED
      BY <3>1, <3>3
  <2> QED
    BY <2>1, <2>2
<1>8. \A i \in 0..n : d[i] = all[m + i]
  OBVIOUS
<1> HIDE DEF d
<1>9. \A i \in 0..n : Run(t, x)[i] = d[i]
  BY ONLY <1>3, <1>7, RunIs, t \in Seq(Msg) DEF n
<1>10. After(u, o) = After(t, x)
  <2>1. n \in 0..n
    BY <1>1
  <2>2. Run(t, x)[n] = all[m + n]
    BY <1>8, <1>9, <2>1
  <2> QED
    BY <1>2, <2>2 DEF After, all, n
<1> QED
  BY <1>5, <1>8, <1>9, <1>10 DEF m, n, u, x, all

(* One message more. *)
LEMMA AfterAppend ==
  ASSUME NEW s \in Seq(Msg), NEW m \in Msg, NEW o \in Opt
  PROVE  /\ Append(s, m) \in Seq(Msg)
         /\ After(Append(s, m), o) = Apply(m, After(s, o))
         /\ \A i \in 0..Len(s) : Run(Append(s, m), o)[i] = Run(s, o)[i]
<1> DEFINE t == <<m>>
           x == After(s, o)
<1>1. t \in Seq(Msg) /\ Len(t) = 1 /\ t[1] = m
  OBVIOUS
<1>2. x \in Opt
  BY AfterType
<1>3. Append(s, m) = s \o t
  BY AppendIsConcat
<1> HIDE DEF t, x
<1>4. /\ \A i \in 0..Len(s) : Run(s \o t, o)[i] = Run(s, o)[i]
      /\ After(s \o t, o) = After(t, x)
  BY <1>1, RunConcat DEF x
<1>5. After(t, x) = Apply(m, x)
  <2>1. Run(t, x)[0] = x /\ \A i \in 1..Len(t) : Run(t, x)[i] = Apply(t[i], Run(t, x)[i-1])
    BY ONLY <1>1, <1>2, RunProperties
  <2>2. 1 \in 1..Len(t) /\ 1 - 1 = 0
    BY <1>1
  <2>3. Run(t, x)[1] = Apply(m, Run(t, x)[0])
    BY <1>1, <2>1, <2>2
  <2> QED
    BY <1>1, <2>1, <2>3 DEF After
<1>6. Append(s, m) \in Seq(Msg)
  BY AppendProperties
<1> QED
  BY <1>3, <1>4, <1>5, <1>6 DEF x

(* A put or a delete forgets what was there before. *)
LEMMA ApplyForgets ==
  ASSUME NEW m \in Msg, m.kind # "ups", NEW x, NEW y
  PROVE  Apply(m, x) = Apply(m, y)
<1>1. CASE m.kind = "put"
  BY <1>1 DEF Apply
<1>2. CASE m.kind = "del"
  BY <1>2 DEF Apply
<1>3. m.kind = "put" \/ m.kind = "del"
  BY DEF Msg
<1> QED
  BY <1>1, <1>2, <1>3

(* Folding a message into another one does what both do. *)
LEMMA FoldStepApplies ==
  ASSUME NEW m \in Msg, NEW prev \in FoldedMsg, NEW o \in Opt
  PROVE  Apply(FoldStep(m, prev), o) = Apply(m, Apply(prev, o))
<1>1. CASE m.kind # "ups"
  <2>1. FoldStep(m, prev) = m
    BY <1>1 DEF FoldStep
  <2> QED
    BY <1>1, <2>1, ApplyForgets
<1>2. CASE m.kind = "ups"
  <2>1. m.fn \in [Opt -> Value]
    BY <1>2, MessagesAssumption DEF Msg
  <2>2. \A x : Apply(m, x) = m.fn[x]
    BY <1>2 DEF Apply
  <2>3. CASE prev \in [kind : {"put"}, val : Value, counted : BOOLEAN]
    <3>1. FoldStep(m, prev) = [prev EXCEPT !.val = m.fn[prev.val]]
      BY <1>2, <2>3 DEF FoldStep
    <3>2. FoldStep(m, prev).kind = "put" /\ FoldStep(m, prev).val = m.fn[prev.val]
      BY <2>3, <3>1
    <3>3. Apply(FoldStep(m, prev), o) = m.fn[prev.val] /\ Apply(prev, o) = prev.val
      BY <2>3, <3>2 DEF Apply
    <3> QED
      BY <2>2, <3>3
  <2>4. CASE prev \in [kind : {"del"}]
    <3>1. FoldStep(m, prev) = MsgPut(m.fn[Absent], FALSE)
      BY <1>2, <2>4 DEF FoldStep
    <3>2. Apply(FoldStep(m, prev), o) = m.fn[Absent] /\ Apply(prev, o) = Absent
      BY <2>4, <3>1 DEF Apply, MsgPut
    <3> QED
      BY <2>2, <3>2
  <2>5. CASE prev \in [kind : {"ups"}, fn : [Opt -> Value]]
    <3>1. FoldStep(m, prev) = MsgUpsert(Compose(prev.fn, m.fn))
      BY <1>2, <2>5 DEF FoldStep
    <3>2. Compose(prev.fn, m.fn)[o] = m.fn[prev.fn[o]]
      BY DEF Compose
    <3>3. Apply(FoldStep(m, prev), o) = Compose(prev.fn, m.fn)[o]
      <4> DEFINE g == Compose(prev.fn, m.fn)
      <4> HIDE DEF g
      <4>1. MsgUpsert(g).kind = "ups" /\ MsgUpsert(g).fn = g
        BY DEF MsgUpsert
      <4>2. Apply(MsgUpsert(g), o) = g[o]
        BY <4>1 DEF Apply
      <4> QED
        BY <3>1, <4>2 DEF g
    <3>4. Apply(prev, o) = prev.fn[o]
      BY <2>5 DEF Apply
    <3> QED
      BY <2>2, <3>2, <3>3, <3>4
  <2> QED
    BY <2>3, <2>4, <2>5 DEF FoldedMsg
<1> QED
  BY <1>1, <1>2

(* The one message resolveKeyGroup returns does what the group does. *)
LEMMA ResolveKeyGroupApplies ==
  ASSUME NEW group \in Seq(Msg), group # <<>>, NEW o \in Opt
  PROVE  Apply(resolveKeyGroup(group), o) = After(group, o)
<1> DEFINE n == Len(group)
           run == Run(group, o)
<1>1. n \in Nat /\ n >= 1 /\ \A i \in 1..n : group[i] \in Msg
  BY LenProperties, EmptySeq, ElementOfSeq
<1>2. PICK f \in [1..n -> FoldedMsg] :
        /\ resolveKeyGroup(group) = f[n]
        /\ \A i \in 1..n : f[i] = IF i = 1 THEN group[1] ELSE FoldStep(group[i], f[i-1])
  BY ResolveKeyGroupFold
<1>3. run[0] = o /\ \A i \in 1..n : run[i] = Apply(group[i], run[i-1])
  BY RunProperties
<1>4. After(group, o) = run[n]
  BY DEF After
<1> HIDE DEF n, run
<1> DEFINE T == {i \in Nat : i + 1 <= n => Apply(f[i + 1], o) = run[i + 1]}
<1>5. 0 \in T
  <2>1. 0 + 1 = 1 /\ 1 \in 1..n /\ 1 - 1 = 0
    BY <1>1
  <2>2. f[1] = group[1] /\ run[1] = Apply(group[1], o)
    BY <1>2, <1>3, <2>1
  <2> QED
    BY <2>1, <2>2
<1>6. ASSUME NEW i \in Nat, i \in T PROVE i + 1 \in T
  <2> SUFFICES ASSUME (i + 1) + 1 <= n
               PROVE  Apply(f[(i + 1) + 1], o) = run[(i + 1) + 1]
    OBVIOUS
  <2> DEFINE j == (i + 1) + 1
  <2>1. j \in 1..n /\ j # 1 /\ j - 1 = i + 1 /\ i + 1 \in 1..n /\ i + 1 <= n
    BY <1>1
  <2> HIDE DEF j
  <2>2. f[j] = FoldStep(group[j], f[i + 1]) /\ run[j] = Apply(group[j], run[i + 1])
    BY <1>2, <1>3, <2>1
  <2>3. group[j] \in Msg /\ f[i + 1] \in FoldedMsg
    BY <1>1, <1>2, <2>1
  <2>4. Apply(f[i + 1], o) = run[i + 1]
    BY <1>6, <2>1
  <2>5. Apply(f[j], o) = run[j]
    BY <2>2, <2>3, <2>4, FoldStepApplies
  <2> QED
    BY <2>5 DEF j
<1>7. n - 1 \in T
  <2> HIDE DEF T
  <2>1. Nat \subseteq T
    BY <1>5, <1>6, InductionOnNat
  <2> QED
    BY <1>1, <2>1
<1>8. (n - 1) + 1 = n
  BY <1>1
<1> QED
  BY <1>2, <1>4, <1>7, <1>8
=============================================================================
