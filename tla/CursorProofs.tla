---------------------------- MODULE CursorProofs ----------------------------
(***************************************************************************)
(* Proofs about Cursor, for every snapshot and all keys sought: a cursor   *)
(* that says it is valid is on an entry (StaysOnEntry), and its moves are  *)
(* those of a walk over a set of keys (Walks).                             *)
(***************************************************************************)
EXTENDS Cursor, TLAPS, NaturalsInduction, FiniteSetTheorems

-----------------------------------------------------------------------------
(* Binary search, of a sequence b of Booleans, the true ones first, for    *)
(* the first that is false.                                                *)

(* A non-empty set of naturals has a least element. *)
LEMMA LeastNatural ==
  ASSUME NEW S \in SUBSET Nat, S # {}
  PROVE  \E n \in S : \A m \in S : n <= m
<1>1. PICK n \in S : \A m \in S : ~(<<m, n>> \in OpToRel(<, Nat))
  BY NatLessThanWellFounded, WFMin
<1>2. \A m \in S : ~(m < n)
  BY <1>1 DEF OpToRel
<1> QED
  BY <1>2

(* Induction: a set that has 0 and, with n, n+1 has every natural. *)
LEMMA InductionOnNaturals ==
  ASSUME NEW S, 0 \in S, \A n \in Nat : n \in S => n + 1 \in S
  PROVE  Nat \subseteq S
<1> DEFINE T == {n \in Nat : n \notin S}
<1>1. SUFFICES ASSUME T # {} PROVE FALSE
  OBVIOUS
<1>2. PICK x \in T : \A y \in T : x <= y
  BY <1>1, LeastNatural, T \subseteq Nat
<1>3. x # 0
  BY <1>2
<1>4. x - 1 \in Nat /\ x - 1 \notin T
  BY <1>2, <1>3
<1> QED
  BY <1>2, <1>4

Falling(b, n) ==
  b \in [1..n -> BOOLEAN] /\ \A i, j \in 1..n : i < j /\ b[j] => b[i]

(* From lo to hi, i of b's elements are passed over. *)
Boundary(b, lo, hi, i) ==
  /\ i \in lo..hi
  /\ \A j \in lo+1..i : b[j]
  /\ \A j \in i+1..hi : ~b[j]

Middle(lo, hi) == lo + (hi - lo) \div 2

Halving(b, n, r) ==
  [part \in (0..n) \X (0..n) |->
     IF part[1] >= part[2] THEN part[1]
     ELSE IF b[Middle(part[1], part[2]) + 1]
          THEN r[<<Middle(part[1], part[2]) + 1, part[2]>>]
          ELSE r[<<part[1], Middle(part[1], part[2])>>]]

(* The middle is in the lower of two parts that are both shorter. *)
LEMMA MiddleBetween ==
  ASSUME NEW lo \in Nat, NEW hi \in Nat, lo < hi
  PROVE  /\ Middle(lo, hi) \in Nat
         /\ lo <= Middle(lo, hi) /\ Middle(lo, hi) < hi
BY DEF Middle

(* There is one boundary. *)
LEMMA BoundaryExists ==
  ASSUME NEW n \in Nat, NEW b, Falling(b, n), NEW lo \in 0..n, NEW hi \in 0..n, lo <= hi
  PROVE  \E i : Boundary(b, lo, hi, i)
<1> DEFINE S == {i \in Nat : lo <= i /\ i <= hi /\ (i < hi => ~b[i + 1])}
<1>1. hi \in S
  OBVIOUS
<1>2. PICK i \in S : \A j \in S : i <= j
  <2>1. S \in SUBSET Nat /\ S # {}
    BY <1>1
  <2> HIDE DEF S
  <2> QED
    BY <2>1, LeastNatural
<1>3. \A j \in lo+1..i : b[j]
  <2> SUFFICES ASSUME NEW j \in lo+1..i, ~b[j] PROVE FALSE
    OBVIOUS
  <2>1. j - 1 \in S
    BY <1>2
  <2> QED
    BY <1>2, <2>1
<1>4. \A j \in i+1..hi : ~b[j]
  <2> SUFFICES ASSUME NEW j \in i+1..hi, b[j] PROVE FALSE
    OBVIOUS
  <2>1. i + 1 \in 1..n /\ j \in 1..n /\ i < hi /\ ~b[i + 1]
    BY <1>2
  <2> QED
    BY <2>1 DEF Falling
<1>5. i \in lo..hi
  BY <1>2
<1> QED
  BY ONLY <1>3, <1>4, <1>5 DEF Boundary

(* A boundary is the only one. *)
LEMMA BoundaryUnique ==
  ASSUME NEW n \in Nat, NEW b, NEW lo \in 0..n, NEW hi \in 0..n,
         NEW i, NEW j, Boundary(b, lo, hi, i), Boundary(b, lo, hi, j)
  PROVE  i = j
<1>1. i \in Nat /\ j \in Nat /\ lo <= i /\ i <= hi /\ lo <= j /\ j <= hi
  BY DEF Boundary
<1>2. CASE i < j
  <2>1. i + 1 \in lo+1..j /\ i + 1 \in i+1..hi
    BY <1>1, <1>2
  <2> QED
    BY <2>1 DEF Boundary
<1>3. CASE j < i
  <2>1. j + 1 \in lo+1..i /\ j + 1 \in j+1..hi
    BY <1>1, <1>3
  <2> QED
    BY <2>1 DEF Boundary
<1> QED
  BY <1>1, <1>2, <1>3

(* The boundary of the half that the search goes on with is that of both. *)
LEMMA BoundaryOfHalf ==
  ASSUME NEW n \in Nat, NEW b, Falling(b, n), NEW lo \in 0..n, NEW hi \in 0..n, lo < hi,
         NEW i, NEW mid, mid = Middle(lo, hi),
         IF b[mid + 1] THEN Boundary(b, mid + 1, hi, i) ELSE Boundary(b, lo, mid, i)
  PROVE  Boundary(b, lo, hi, i)
<1>1. mid \in Nat /\ lo <= mid /\ mid < hi /\ mid + 1 \in 1..n
  BY MiddleBetween
<1>2. CASE b[mid + 1]
  <2>1. i \in mid+1..hi /\ (\A j \in mid+2..i : b[j]) /\ \A j \in i+1..hi : ~b[j]
    BY <1>1, <1>2 DEF Boundary
  <2>2. \A j \in lo+1..mid+1 : b[j]
    BY <1>1, <1>2 DEF Falling
  <2>3. \A j \in lo+1..i : j \in lo+1..mid+1 \/ j \in mid+2..i
    BY <1>1, <2>1
  <2> QED
    BY <1>1, <2>1, <2>2, <2>3 DEF Boundary
<1>3. CASE ~b[mid + 1]
  <2>1. i \in lo..mid /\ (\A j \in lo+1..i : b[j]) /\ \A j \in i+1..mid : ~b[j]
    BY <1>1, <1>3 DEF Boundary
  <2>2. \A j \in mid+1..hi : ~b[j]
    BY <1>1, <1>3 DEF Falling
  <2>3. \A j \in i+1..hi : j \in i+1..mid \/ j \in mid+1..hi
    BY <1>1, <2>1
  <2> QED
    BY <1>1, <2>1, <2>2, <2>3 DEF Boundary
<1> QED
  BY <1>2, <1>3

(* What one step of the search goes on with. *)
LEMMA HalvingAt ==
  ASSUME NEW n \in Nat, NEW b, NEW f, NEW x \in 0..n, NEW y \in 0..n
  PROVE  Halving(b, n, f)[<<x, y>>] =
           IF x >= y THEN x
           ELSE IF b[Middle(x, y) + 1] THEN f[<<Middle(x, y) + 1, y>>]
                                       ELSE f[<<x, Middle(x, y)>>]
<1>1. <<x, y>> \in (0..n) \X (0..n) /\ <<x, y>>[1] = x /\ <<x, y>>[2] = y
  OBVIOUS
<1> QED
  BY <1>1, Zenon DEF Halving

(* The recursion of the search defines a function. *)
LEMMA SearchDefined ==
  ASSUME NEW n \in Nat, NEW b, Falling(b, n)
  PROVE  \E f : f = Halving(b, n, f)
<1> DEFINE point(x, y) == CHOOSE i : Boundary(b, x, y, i)
           g == [part \in (0..n) \X (0..n) |->
                   IF part[1] >= part[2] THEN part[1] ELSE point(part[1], part[2])]
<1>1. ASSUME NEW x \in 0..n, NEW y \in 0..n, x <= y
      PROVE  Boundary(b, x, y, g[<<x, y>>])
  <2>1. CASE x = y
    <3>1. g[<<x, y>>] = x
      BY <2>1
    <3> QED
      BY <2>1, <3>1 DEF Boundary
  <2>2. CASE x < y
    <3>1. g[<<x, y>>] = point(x, y)
      BY <2>2
    <3>2. \E i : Boundary(b, x, y, i)
      BY <1>1, BoundaryExists
    <3> QED
      BY <3>1, <3>2
  <2> QED
    BY <1>1, <2>1, <2>2
<1>2. ASSUME NEW x \in 0..n, NEW y \in 0..n
      PROVE  g[<<x, y>>] = IF x >= y THEN x
                           ELSE IF b[Middle(x, y) + 1] THEN g[<<Middle(x, y) + 1, y>>]
                                                       ELSE g[<<x, Middle(x, y)>>]
  <2>1. CASE x >= y
    BY <2>1
  <2>2. CASE x < y
    <3> DEFINE mid == Middle(x, y)
               i == IF b[mid + 1] THEN g[<<mid + 1, y>>] ELSE g[<<x, mid>>]
    <3>1. mid \in 0..n /\ mid + 1 \in 0..n /\ x <= mid /\ mid + 1 <= y
      BY <2>2, MiddleBetween
    <3>2. Boundary(b, x, y, g[<<x, y>>])
      <4>1. x <= y
        BY <2>2
      <4> HIDE DEF g
      <4> QED
        BY <1>1, <4>1
    <3>3. IF b[mid + 1] THEN Boundary(b, mid + 1, y, i) ELSE Boundary(b, x, mid, i)
      <4> HIDE DEF mid, g
      <4> QED
        BY <1>1, <3>1
    <3>4. Boundary(b, x, y, i)
      <4> HIDE DEF i
      <4> QED
        BY <2>2, <3>3, BoundaryOfHalf
    <3>5. g[<<x, y>>] = i
      <4> HIDE DEF i, g
      <4> QED
        BY <3>2, <3>4, BoundaryUnique
    <3> QED
      BY <2>2, <3>5
  <2> QED
    BY <2>1, <2>2
<1>3. g = Halving(b, n, g)
  <2>1. \A part \in (0..n) \X (0..n) :
          part = <<part[1], part[2]>> /\ part[1] \in 0..n /\ part[2] \in 0..n
    OBVIOUS
  <2>2. ASSUME NEW part \in (0..n) \X (0..n) PROVE g[part] = Halving(b, n, g)[part]
    <3> HIDE DEF g
    <3>1. PICK x \in 0..n, y \in 0..n : part = <<x, y>>
      BY <2>1
    <3> QED
      <4> DEFINE h == Halving(b, n, g)
                 v == IF x >= y THEN x
                      ELSE IF b[Middle(x, y) + 1] THEN g[<<Middle(x, y) + 1, y>>]
                                                  ELSE g[<<x, Middle(x, y)>>]
      <4>1. h[<<x, y>>] = v
        BY HalvingAt
      <4>2. g[<<x, y>>] = v
        BY <1>2
      <4> HIDE DEF h, v
      <4>3. g[part] = h[part]
        BY <3>1, <4>1, <4>2
      <4> QED
        BY <4>3 DEF h
  <2> QED
    BY <2>2 DEF Halving
<1> QED
  <2> HIDE DEF g
  <2> QED
    BY <1>3

(* The search returns the boundary. *)
LEMMA SearchFindsBoundary ==
  ASSUME NEW n \in Nat, NEW b, Falling(b, n), NEW r, r = Halving(b, n, r),
         NEW lo \in 0..n, NEW hi \in 0..n, lo <= hi
  PROVE  Boundary(b, lo, hi, r[<<lo, hi>>])
<1>1. ASSUME NEW x \in 0..n, NEW y \in 0..n
      PROVE  r[<<x, y>>] = IF x >= y THEN x
                           ELSE IF b[Middle(x, y) + 1] THEN r[<<Middle(x, y) + 1, y>>]
                                                       ELSE r[<<x, Middle(x, y)>>]
  <2> DEFINE h == Halving(b, n, r)
             v == IF x >= y THEN x
                  ELSE IF b[Middle(x, y) + 1] THEN r[<<Middle(x, y) + 1, y>>]
                                              ELSE r[<<x, Middle(x, y)>>]
  <2>1. h[<<x, y>>] = v
    BY ONLY HalvingAt, n \in Nat, x \in 0..n, y \in 0..n
  <2>2. h = r
    OBVIOUS
  <2> HIDE DEF h, v
  <2>3. r[<<x, y>>] = v
    BY ONLY <2>1, <2>2
  <2> QED
    BY ONLY <2>3 DEF v
<1> DEFINE T == {w \in Nat : \A x, y \in 0..n :
                   x <= y /\ y - x <= w => Boundary(b, x, y, r[<<x, y>>])}
<1>2. ASSUME NEW x \in 0..n PROVE Boundary(b, x, x, r[<<x, x>>])
  <2>1. r[<<x, x>>] = x
    <3>1. x >= x
      OBVIOUS
    <3> QED
      BY ONLY <1>1, <3>1, x \in 0..n
  <2> QED
    BY <2>1 DEF Boundary
<1>3. 0 \in T
  <2>1. \A x, y \in 0..n : x <= y /\ y - x <= 0 => x = y
    OBVIOUS
  <2> QED
    BY <1>2, <2>1
<1>4. ASSUME NEW w \in Nat, w \in T PROVE w + 1 \in T
  <2> SUFFICES ASSUME NEW x \in 0..n, NEW y \in 0..n, x <= y, y - x <= w + 1
               PROVE  Boundary(b, x, y, r[<<x, y>>])
    OBVIOUS
  <2>1. CASE x = y
    BY <1>2, <2>1
  <2>2. CASE x < y
    <3> DEFINE mid == Middle(x, y)
               i == r[<<x, y>>]
    <3>1. mid \in 0..n /\ mid + 1 \in 0..n /\ x <= mid /\ mid + 1 <= y
      BY <2>2, MiddleBetween
    <3>2. i = IF b[mid + 1] THEN r[<<mid + 1, y>>] ELSE r[<<x, mid>>]
      BY <1>1, <2>2
    <3> HIDE DEF mid, i
    <3>3. IF b[mid + 1] THEN Boundary(b, mid + 1, y, i) ELSE Boundary(b, x, mid, i)
      <4>1. CASE b[mid + 1]
        <5>1. y - (mid + 1) <= w /\ i = r[<<mid + 1, y>>]
          BY <3>1, <3>2, <4>1
        <5> QED
          BY <1>4, <3>1, <4>1, <5>1
      <4>2. CASE ~b[mid + 1]
        <5>1. mid - x <= w /\ i = r[<<x, mid>>]
          BY <3>1, <3>2, <4>2
        <5> QED
          BY <1>4, <3>1, <4>2, <5>1
      <4> QED
        BY <4>1, <4>2
    <3>4. Boundary(b, x, y, i)
      BY <2>2, <3>3, BoundaryOfHalf DEF mid
    <3> QED
      BY <3>4 DEF i
  <2> QED
    BY <2>1, <2>2
<1>5. Nat \subseteq T
  <2> HIDE DEF T
  <2> QED
    BY <1>3, <1>4, InductionOnNaturals
<1>6. hi - lo \in Nat
  OBVIOUS
<1> QED
  BY <1>5, <1>6

-----------------------------------------------------------------------------
(* Seek. *)

(* The keys of the snapshot ascend; a valid cursor is on one of them. *)
IInv ==
  /\ pairs \in Seq(Int) /\ Ascending(pairs)
  /\ pos \in Int
  /\ valid => 0 <= pos /\ pos < Len(pairs)

(* The binary search of Seek returns the number of keys below the one sought. *)
LEMMA LowestIs ==
  ASSUME IInv, NEW key \in Int
  PROVE  /\ Lowest(key) \in 0..Len(pairs)
         /\ \A i \in 1..Len(pairs) : pairs[i] < key <=> i <= Lowest(key)
<1> DEFINE n == Len(pairs)
           b == [i \in 1..n |-> pairs[i] < key]
<1>1. n \in Nat /\ DOMAIN pairs = 1..n /\ \A i \in 1..n : pairs[i] \in Int
  BY DEF IInv
<1>2. \A i \in 1..n : b[i] = (pairs[i] < key)
  OBVIOUS
<1>3. Falling(b, n)
  <2>1. b \in [1..n -> BOOLEAN]
    OBVIOUS
  <2>2. ASSUME NEW i \in 1..n, NEW j \in 1..n, i < j, b[j] PROVE b[i]
    <3> HIDE DEF n
    <3>1. pairs[i] < pairs[j]
      BY <1>1, <2>2 DEF IInv, Ascending
    <3>2. pairs[j] < key /\ pairs[i] \in Int /\ pairs[j] \in Int
      BY <1>1, <2>2
    <3>3. pairs[i] < key
      BY <3>1, <3>2
    <3> QED
      BY <3>3
  <2> QED
    BY <2>1, <2>2 DEF Falling
<1> DEFINE E(f) ==
             [part \in (0..n) \X (0..n) |->
                LET lo == part[1]
                    hi == part[2]
                    mid == lo + (hi - lo) \div 2
                IN  IF lo >= hi THEN lo
                    ELSE IF Below(pairs[mid + 1], key) THEN f[<<mid + 1, hi>>]
                                                       ELSE f[<<lo, mid>>]]
           r == CHOOSE f : f = E(f)
<1>4. ASSUME NEW f PROVE Halving(b, n, f) = E(f)
  <2>1. ASSUME NEW lo \in 0..n, NEW hi \in 0..n, lo < hi
        PROVE  b[Middle(lo, hi) + 1] <=> Below(pairs[Middle(lo, hi) + 1], key)
    <3>1. Middle(lo, hi) + 1 \in 1..n
      BY <1>1, <2>1, MiddleBetween, SMTT(20)
    <3> QED
      BY <3>1 DEF Below
  <2>2. ASSUME NEW part \in (0..n) \X (0..n) PROVE Halving(b, n, f)[part] = E(f)[part]
    <3>1. part[1] \in 0..n /\ part[2] \in 0..n
      OBVIOUS
    <3> HIDE DEF b, n
    <3>2. part[1] >= part[2] \/ part[1] < part[2]
      BY <1>1, <3>1
    <3>3. Halving(b, n, f)[part] = IF part[1] >= part[2] THEN part[1]
               ELSE IF b[Middle(part[1], part[2]) + 1]
                    THEN f[<<Middle(part[1], part[2]) + 1, part[2]>>]
                    ELSE f[<<part[1], Middle(part[1], part[2])>>]
      BY DEF Halving
    <3>4. E(f)[part] = IF part[1] >= part[2] THEN part[1]
               ELSE IF Below(pairs[Middle(part[1], part[2]) + 1], key)
                    THEN f[<<Middle(part[1], part[2]) + 1, part[2]>>]
                    ELSE f[<<part[1], Middle(part[1], part[2])>>]
      BY DEF Middle
    <3> HIDE DEF E
    <3>5. CASE part[1] >= part[2]
      BY <3>3, <3>4, <3>5
    <3>6. CASE part[1] < part[2]
      <4>1. ~(part[1] >= part[2])
        BY <1>1, <3>1, <3>6
      <4>2. b[Middle(part[1], part[2]) + 1]
              <=> Below(pairs[Middle(part[1], part[2]) + 1], key)
        BY <2>1, <3>1, <3>6
      <4> QED
        BY <3>3, <3>4, <4>1, <4>2, Zenon
    <3> QED
      BY <3>2, <3>5, <3>6
  <2> HIDE DEF b, n
  <2> QED
    BY <2>2 DEF Halving
<1>5. Lowest(key) = r[<<0, n>>]
  BY DEF Lowest
<1>6. r = Halving(b, n, r)
  <2> HIDE DEF b, n, E
  <2>1. \E f : f = E(f)
    BY <1>1, <1>3, <1>4, SearchDefined
  <2>2. r = E(r)
    BY <2>1
  <2> QED
    BY <1>4, <2>2
<1>7. Boundary(b, 0, n, r[<<0, n>>])
  <2>1. 0 \in 0..n /\ n \in 0..n /\ 0 <= n
    BY <1>1
  <2> HIDE DEF b, n, r
  <2> QED
    BY ONLY <1>1, <1>3, <1>6, <2>1, SearchFindsBoundary
<1>8. Boundary(b, 0, n, Lowest(key))
  BY <1>5, <1>7
<1> HIDE DEF b, n, r, E
<1> DEFINE L == Lowest(key)
<1>9. L \in 0..n /\ (\A j \in 0+1..L : b[j]) /\ \A j \in L+1..n : ~b[j]
  BY ONLY <1>8 DEF Boundary, L
<1> HIDE DEF L
<1>10. ASSUME NEW i \in 1..n PROVE pairs[i] < key <=> i <= L
  <2>1. CASE i <= L
    <3>1. i \in 0+1..L
      BY <1>1, <1>9, <2>1
    <3> QED
      BY <1>2, <1>9, <2>1, <3>1, Zenon
  <2>2. CASE ~(i <= L)
    <3>1. i \in L+1..n
      BY <1>1, <1>9, <2>2
    <3> QED
      BY <1>2, <1>9, <2>2, <3>1, Zenon
  <2> QED
    BY <2>1, <2>2
<1> QED
  BY <1>9, <1>10 DEF n, L

-----------------------------------------------------------------------------
(* The invariant. *)

(* A snapshot ascends. *)
LEMMA InitIInv == Init => IInv
<1> SUFFICES ASSUME Init PROVE IInv
  OBVIOUS
<1>1. pairs \in UNION {[1..m -> Key] : m \in 0..Cardinality(Key)} /\ Ascending(pairs)
  BY DEF Init, SeqOf
<1>2. PICK m \in 0..Cardinality(Key) : pairs \in [1..m -> Key]
  BY <1>1
<1>3. m \in Nat
  BY <1>2, CursorAssumption, FS_CardinalityType
<1>4. pairs \in [1..m -> Int]
  BY <1>2, CursorAssumption
<1>5. pairs \in Seq(Int)
  BY <1>3, <1>4
<1>6. pos = 0 /\ valid = FALSE
  BY DEF Init
<1>7. 0 \in Int
  OBVIOUS
<1> QED
  BY <1>1, <1>5, <1>6, <1>7, Zenon DEF IInv

(* A move to an entry, or to none. *)
LEMMA MoveKeeps ==
  ASSUME IInv, pairs' = pairs, pos' \in Int,
         valid' => 0 <= pos' /\ pos' < Len(pairs)
  PROVE  IInv'
BY DEF IInv, Ascending

(* A start at an entry, if there is any. *)
LEMMA StartKeeps ==
  ASSUME IInv, NEW i \in Int, StartAt(i), pairs # <<>> => 0 <= i /\ i < Len(pairs)
  PROVE  IInv'
<1>1. CASE pairs = <<>>
  BY <1>1, MoveKeeps DEF StartAt, vars, IInv
<1>2. CASE pairs # <<>>
  BY <1>2, MoveKeeps DEF StartAt
<1> QED
  BY <1>1, <1>2

(* Every move keeps a valid cursor on an entry. *)
LEMMA NextIInv == IInv /\ [Next]_vars => IInv'
<1> SUFFICES ASSUME IInv, [Next]_vars PROVE IInv'
  OBVIOUS
<1>1. Len(pairs) \in Nat /\ (pairs # <<>> => Len(pairs) > 0)
  BY DEF IInv
<1>2. CASE Advance
  <2>1. CASE StartAt(0)
    <3>1. 0 \in Int /\ (pairs # <<>> => 0 <= 0 /\ 0 < Len(pairs))
      BY <1>1
    <3> QED
      BY <2>1, <3>1, StartKeeps
  <2>2. CASE valid /\ pos' = pos + 1 /\ valid' = (pos' < Len(pairs)) /\ UNCHANGED pairs
    <3>1. pos' \in Int /\ (valid => 0 <= pos /\ pos < Len(pairs)) /\ pos \in Int
      BY <2>2 DEF IInv
    <3>2. valid' => pos' < Len(pairs)
      BY <2>2, Zenon
    <3>3. valid' => 0 <= pos' /\ pos' < Len(pairs)
      BY <1>1, <2>2, <3>1, <3>2
    <3> QED
      BY <2>2, <3>1, <3>3, MoveKeeps
  <2> QED
    BY <1>2, <2>1, <2>2 DEF Advance
<1>3. CASE Prev
  <2>1. CASE StartAt(Len(pairs) - 1)
    <3>1. Len(pairs) - 1 \in Int
          /\ (pairs # <<>> => 0 <= Len(pairs) - 1 /\ Len(pairs) - 1 < Len(pairs))
      BY <1>1
    <3> QED
      BY <2>1, <3>1, StartKeeps
  <2>2. CASE valid /\ pos' = pos - 1 /\ valid' = (pos' >= 0) /\ UNCHANGED pairs
    <3>1. pos' \in Int /\ (valid => 0 <= pos /\ pos < Len(pairs)) /\ pos \in Int
      BY <2>2 DEF IInv
    <3>2. valid' => pos' >= 0
      BY <2>2, Zenon
    <3>3. valid' => 0 <= pos' /\ pos' < Len(pairs)
      BY <1>1, <2>2, <3>1, <3>2
    <3> QED
      BY <2>2, <3>1, <3>3, MoveKeeps
  <2> QED
    BY <1>3, <2>1, <2>2 DEF Prev
<1>4. ASSUME NEW key \in Sought, Seek(key) PROVE IInv'
  <2>1. key \in Int
    BY CursorAssumption
  <2>2. Lowest(key) \in 0..Len(pairs)
    BY <2>1, LowestIs
  <2>3. pairs' = pairs /\ valid' = (Lowest(key) < Len(pairs))
        /\ pos' = IF valid' THEN Lowest(key) ELSE pos
    BY <1>4 DEF Seek
  <2>4. valid' => Lowest(key) < Len(pairs) /\ pos' = Lowest(key)
    BY <2>3, Zenon
  <2>5. ~valid' => pos' = pos
    BY <2>3, Zenon
  <2>6. pos' \in Int /\ (valid' => 0 <= pos' /\ pos' < Len(pairs))
    BY <1>1, <2>2, <2>4, <2>5 DEF IInv
  <2> QED
    BY <2>3, <2>6, MoveKeeps
<1>5. CASE Close
  BY <1>5 DEF IInv, Ascending, Close
<1>6. CASE UNCHANGED vars
  BY <1>6 DEF IInv, Ascending, vars
<1> QED
  BY <1>2, <1>3, <1>4, <1>5, <1>6 DEF Next

(***************************************************************************)
(* Whatever the snapshot and whatever is sought, and after any mix of      *)
(* moves, restarts, failed seeks and Close: a cursor that says it is valid *)
(* is on an entry, so that Key and Value do not panic (cursor.go:76-84).   *)
(***************************************************************************)
THEOREM StaysOnEntry == Spec => []OnEntry
<1>1. IInv => OnEntry
  BY DEF IInv, OnEntry
<1> QED
  BY <1>1, InitIInv, NextIInv, PTL DEF Spec

-----------------------------------------------------------------------------
(* Moves are those of a walk over a set of keys. *)

(* The keys of a snapshot, by their index. *)
LEMMA SnapshotKeys ==
  ASSUME IInv
  PROVE  /\ Len(pairs) \in Nat
         /\ Keys = {pairs[j] : j \in 1..Len(pairs)}
         /\ \A j \in 1..Len(pairs) : pairs[j] \in Int
         /\ \A i, j \in 1..Len(pairs) : pairs[i] < pairs[j] <=> i < j
<1>1. /\ Len(pairs) \in Nat /\ DOMAIN pairs = 1..Len(pairs)
      /\ \A j \in 1..Len(pairs) : pairs[j] \in Int
  BY DEF IInv
<1>2. \A i, j \in 1..Len(pairs) : i < j => pairs[i] < pairs[j]
  BY <1>1 DEF IInv, Ascending
<1>3. ASSUME NEW i \in 1..Len(pairs), NEW j \in 1..Len(pairs), pairs[i] < pairs[j]
      PROVE  i < j
  <2>1. pairs[i] \in Int /\ pairs[j] \in Int /\ (j < i => pairs[j] < pairs[i])
    BY <1>1, <1>2
  <2> QED
    BY <1>3, <2>1
<1> QED
  BY <1>1, <1>2, <1>3 DEF Keys, ToSet

(* The least of the keys from the i-th on. *)
LEMMA LeastFrom ==
  ASSUME IInv, NEW i \in Nat, i > 0
  PROVE  LeastOf({pairs[j] : j \in i..Len(pairs)}) =
           IF i <= Len(pairs) THEN {pairs[i]} ELSE {}
<1> DEFINE n == Len(pairs)
           ks == {pairs[j] : j \in i..n}
<1>1. n \in Nat /\ \A j \in i..n : j \in 1..n
  BY SnapshotKeys
<1>2. \A k \in ks : \E j \in i..n : k = pairs[j]
  OBVIOUS
<1>3. \A l, j \in i..n : (pairs[l] <= pairs[j] <=> l <= j) /\ pairs[j] \in Int
  BY <1>1, SnapshotKeys
<1> HIDE DEF n
<1>4. CASE i <= n
  <2>1. i \in i..n /\ pairs[i] \in ks
    BY <1>1, <1>4
  <2>2. pairs[i] \in LeastOf(ks)
    <3>1. ASSUME NEW k \in ks PROVE pairs[i] <= k
      <4>1. PICK j \in i..n : k = pairs[j]
        BY <1>2
      <4> QED
        BY <1>3, <2>1, <4>1
    <3> QED
      BY <2>1, <3>1 DEF LeastOf
  <2>3. ASSUME NEW k \in LeastOf(ks) PROVE k = pairs[i]
    <3>1. k \in ks /\ k <= pairs[i]
      BY <2>1 DEF LeastOf
    <3>2. PICK j \in i..n : k = pairs[j]
      BY <1>2, <3>1
    <3>3. j <= i
      BY <1>3, <2>1, <3>1, <3>2
    <3>4. j = i
      BY <1>1, <3>2, <3>3
    <3> QED
      BY <3>2, <3>4
  <2> HIDE DEF ks
  <2>4. LeastOf(ks) = {pairs[i]}
    BY <2>2, <2>3
  <2> QED
    BY <1>4, <2>4 DEF ks, n
<1>5. CASE ~(i <= n)
  <2>1. ks = {}
    BY <1>1, <1>5
  <2>2. LeastOf(ks) = {}
    BY <2>1 DEF LeastOf
  <2> QED
    BY <1>5, <2>2 DEF n
<1> QED
  BY <1>4, <1>5

(* The greatest of the first i keys. *)
LEMMA GreatestTo ==
  ASSUME IInv, NEW i \in 0..Len(pairs)
  PROVE  GreatestOf({pairs[j] : j \in 1..i}) = IF i > 0 THEN {pairs[i]} ELSE {}
<1> DEFINE n == Len(pairs)
           ks == {pairs[j] : j \in 1..i}
<1>1. n \in Nat /\ i \in Nat /\ \A j \in 1..i : j \in 1..n
  BY SnapshotKeys
<1>2. \A k \in ks : \E j \in 1..i : k = pairs[j]
  OBVIOUS
<1>3. \A l, j \in 1..i : (pairs[l] >= pairs[j] <=> l >= j) /\ pairs[j] \in Int
  BY <1>1, SnapshotKeys
<1> HIDE DEF n
<1>4. CASE i > 0
  <2>1. i \in 1..i /\ pairs[i] \in ks
    BY <1>1, <1>4
  <2>2. pairs[i] \in GreatestOf(ks)
    <3>1. ASSUME NEW k \in ks PROVE pairs[i] >= k
      <4>1. PICK j \in 1..i : k = pairs[j]
        BY <1>2
      <4> QED
        BY <1>1, <1>3, <2>1, <4>1
    <3> QED
      BY <2>1, <3>1 DEF GreatestOf
  <2>3. ASSUME NEW k \in GreatestOf(ks) PROVE k = pairs[i]
    <3>1. k \in ks /\ k >= pairs[i]
      BY <2>1 DEF GreatestOf
    <3>2. PICK j \in 1..i : k = pairs[j]
      BY <1>2, <3>1
    <3>3. j >= i
      BY <1>3, <2>1, <3>1, <3>2
    <3>4. j = i
      BY <1>1, <3>2, <3>3
    <3> QED
      BY <3>2, <3>4
  <2> HIDE DEF ks
  <2>4. GreatestOf(ks) = {pairs[i]}
    BY <2>2, <2>3
  <2> QED
    BY <1>4, <2>4 DEF ks
<1>5. CASE ~(i > 0)
  <2>1. ks = {}
    BY <1>1, <1>5
  <2>2. GreatestOf(ks) = {}
    BY <2>1 DEF GreatestOf
  <2> QED
    BY <1>5, <2>2
<1> QED
  BY <1>4, <1>5

(* Next goes to the key after the current one. *)
LEMMA AdvanceWalks ==
  ASSUME IInv, Advance
  PROVE  At' = LeastOf({k \in Keys : \A n \in At : n < k})
<1> DEFINE ks == {k \in Keys : \A n \in At : n < k}
<1>1. CASE StartAt(0)
  <2>1. ~valid /\ At = {}
    BY <1>1 DEF StartAt, At
  <2>2. ks = {pairs[j] : j \in 1..Len(pairs)}
    BY <2>1, SnapshotKeys
  <2>3. LeastOf(ks) = IF 1 <= Len(pairs) THEN {pairs[1]} ELSE {}
    <3>1. 1 \in Nat /\ 1 > 0
      OBVIOUS
    <3>2. LeastOf({pairs[j] : j \in 1..Len(pairs)}) =
            IF 1 <= Len(pairs) THEN {pairs[1]} ELSE {}
      BY <3>1, LeastFrom
    <3> QED
      BY <3>2, <2>2
  <2>4. CASE pairs = <<>>
    <3>1. ~valid'
      BY <1>1, <2>1, <2>4, Zenon DEF StartAt, vars
    <3>2. At' = {} /\ ~(1 <= Len(pairs))
      BY <2>4, <3>1 DEF At
    <3> QED
      BY <2>3, <3>2
  <2>5. CASE pairs # <<>>
    <3>1. pos' = 0 /\ valid' /\ pairs' = pairs
      BY <1>1, <2>5, Zenon DEF StartAt
    <3>2. At' = {pairs[1]} /\ 1 <= Len(pairs)
      BY <2>5, <3>1 DEF At, CurrentKey, IInv
    <3> QED
      BY <2>3, <3>2
  <2> QED
    BY <2>4, <2>5
<1>2. CASE valid /\ pos' = pos + 1 /\ valid' = (pos' < Len(pairs)) /\ UNCHANGED pairs
  <2>1. pos \in Int /\ 0 <= pos /\ pos < Len(pairs) /\ At = {pairs[pos + 1]}
    BY <1>2 DEF IInv, At, CurrentKey
  <2>2. pos + 1 \in 1..Len(pairs) /\ Len(pairs) \in Nat
    BY <2>1, SnapshotKeys
  <2>3. ks = {pairs[j] : j \in pos + 2..Len(pairs)}
    <3>1. \A j \in 1..Len(pairs) : pairs[pos + 1] < pairs[j] <=> j \in pos + 2..Len(pairs)
      BY <2>1, <2>2, SnapshotKeys
    <3>2. \A j \in pos + 2..Len(pairs) : j \in 1..Len(pairs)
      BY <2>1, <2>2
    <3> QED
      BY <2>1, <3>1, <3>2, SnapshotKeys
  <2>4. LeastOf(ks) = IF pos + 2 <= Len(pairs) THEN {pairs[pos + 2]} ELSE {}
    <3>1. pos + 2 \in Nat /\ pos + 2 > 0
      BY <2>1
    <3>2. LeastOf({pairs[j] : j \in pos + 2..Len(pairs)}) =
            IF pos + 2 <= Len(pairs) THEN {pairs[pos + 2]} ELSE {}
      BY <3>1, LeastFrom
    <3> QED
      BY <3>2, <2>3
  <2>5. (valid' <=> pos' < Len(pairs)) /\ pairs' = pairs /\ pos' = pos + 1
    BY <1>2, Zenon
  <2>6. (pos' < Len(pairs) <=> pos + 2 <= Len(pairs)) /\ pos' + 1 = pos + 2
    BY <2>1, <2>2, <2>5
  <2>7. At' = IF pos + 2 <= Len(pairs) THEN {pairs[pos + 2]} ELSE {}
    BY <2>5, <2>6, Zenon DEF At, CurrentKey
  <2> QED
    BY <2>4, <2>7
<1> QED
  BY <1>1, <1>2 DEF Advance

(* Prev goes to the key before the current one. *)
LEMMA PrevWalks ==
  ASSUME IInv, Prev
  PROVE  At' = GreatestOf({k \in Keys : \A n \in At : k < n})
<1> DEFINE ks == {k \in Keys : \A n \in At : k < n}
<1>1. CASE StartAt(Len(pairs) - 1)
  <2>1. ~valid /\ At = {} /\ Len(pairs) \in 0..Len(pairs)
    BY <1>1, SnapshotKeys DEF StartAt, At
  <2>2. ks = {pairs[j] : j \in 1..Len(pairs)}
    BY <2>1, SnapshotKeys
  <2>3. GreatestOf(ks) = IF Len(pairs) > 0 THEN {pairs[Len(pairs)]} ELSE {}
    BY <2>1, <2>2, GreatestTo
  <2>4. CASE pairs = <<>>
    <3>1. ~valid'
      BY <1>1, <2>1, <2>4, Zenon DEF StartAt, vars
    <3>2. At' = {} /\ ~(Len(pairs) > 0)
      BY <2>4, <3>1 DEF At
    <3> QED
      BY <2>3, <3>2
  <2>5. CASE pairs # <<>>
    <3>1. pos' = Len(pairs) - 1 /\ valid' /\ pairs' = pairs
      BY <1>1, <2>5, Zenon DEF StartAt
    <3>2. At' = {pairs[Len(pairs)]} /\ Len(pairs) > 0
      BY <2>5, <3>1 DEF At, CurrentKey, IInv
    <3> QED
      BY <2>3, <3>2
  <2> QED
    BY <2>4, <2>5
<1>2. CASE valid /\ pos' = pos - 1 /\ valid' = (pos' >= 0) /\ UNCHANGED pairs
  <2>1. pos \in Int /\ 0 <= pos /\ pos < Len(pairs) /\ At = {pairs[pos + 1]}
    BY <1>2 DEF IInv, At, CurrentKey
  <2>2. pos + 1 \in 1..Len(pairs) /\ pos \in 0..Len(pairs)
    BY <2>1, SnapshotKeys
  <2>3. ks = {pairs[j] : j \in 1..pos}
    <3>1. \A j \in 1..Len(pairs) : pairs[j] < pairs[pos + 1] <=> j \in 1..pos
      BY <2>1, <2>2, SnapshotKeys
    <3>2. \A j \in 1..pos : j \in 1..Len(pairs)
      BY <2>1, <2>2
    <3> QED
      BY <2>1, <3>1, <3>2, SnapshotKeys
  <2>4. GreatestOf(ks) = IF pos > 0 THEN {pairs[pos]} ELSE {}
    BY <2>2, <2>3, GreatestTo
  <2>5. (valid' <=> pos' >= 0) /\ pairs' = pairs /\ pos' = pos - 1
    BY <1>2, Zenon
  <2>6. (pos' >= 0 <=> pos > 0) /\ pos' + 1 = pos
    BY <2>1, <2>5
  <2>7. At' = IF pos > 0 THEN {pairs[pos]} ELSE {}
    BY <2>5, <2>6, Zenon DEF At, CurrentKey
  <2> QED
    BY <2>4, <2>7
<1> QED
  BY <1>1, <1>2 DEF Prev

(* Seek goes to the first key that is not below the one sought. *)
LEMMA SeekWalks ==
  ASSUME IInv, NEW key \in Sought, Seek(key)
  PROVE  At' = LeastOf({k \in Keys : key <= k})
<1> DEFINE ks == {k \in Keys : key <= k}
           L == Lowest(key)
<1>1. key \in Int
  BY CursorAssumption
<1>2. L \in 0..Len(pairs) /\ \A i \in 1..Len(pairs) : pairs[i] < key <=> i <= L
  BY <1>1, LowestIs
<1>3. (valid' <=> L < Len(pairs)) /\ pairs' = pairs /\ (valid' => pos' = L)
  BY Zenon DEF Seek
<1> HIDE DEF L
<1>4. ks = {pairs[j] : j \in L + 1..Len(pairs)}
  <2>1. \A j \in 1..Len(pairs) : key <= pairs[j] <=> j \in L + 1..Len(pairs)
    BY <1>1, <1>2, SnapshotKeys
  <2>2. \A j \in L + 1..Len(pairs) : j \in 1..Len(pairs)
    BY <1>2
  <2> QED
    BY <2>1, <2>2, SnapshotKeys
<1>5. LeastOf(ks) = IF L + 1 <= Len(pairs) THEN {pairs[L + 1]} ELSE {}
  <2>1. L + 1 \in Nat /\ L + 1 > 0
    BY <1>2
  <2>2. LeastOf({pairs[j] : j \in L + 1..Len(pairs)}) =
          IF L + 1 <= Len(pairs) THEN {pairs[L + 1]} ELSE {}
    BY <2>1, LeastFrom
  <2> QED
    BY <2>2, <1>4
<1>6. L < Len(pairs) <=> L + 1 <= Len(pairs)
  BY <1>2, SnapshotKeys
<1>7. At' = IF L + 1 <= Len(pairs) THEN {pairs[L + 1]} ELSE {}
  BY <1>3, <1>6, Zenon DEF At, CurrentKey
<1> QED
  BY <1>5, <1>7

(***************************************************************************)
(* For every snapshot, and wherever the cursor is: Next goes to the least  *)
(* key above the current one, Prev to the greatest below it, both to the   *)
(* end they start from when there is no current one, and Seek, by its      *)
(* binary search, to the least key that is not below the one sought        *)
(* (cursor.go:13-72).                                                      *)
(***************************************************************************)
THEOREM Walks == Spec => WalksKeys
<1> DEFINE W ==
      /\ Advance => At' = LeastOf({k \in Keys : \A n \in At : n < k})
      /\ Prev => At' = GreatestOf({k \in Keys : \A n \in At : k < n})
      /\ \A key \in Sought : Seek(key) => At' = LeastOf({k \in Keys : key <= k})
<1>1. IInv => W
  BY AdvanceWalks, PrevWalks, SeekWalks
<1>2. IInv /\ [Next]_vars => [W]_vars
  BY <1>1
<1>3. WalksKeys <=> [][W]_vars
  BY DEF WalksKeys
<1> HIDE DEF W
<1> QED
  BY <1>2, <1>3, InitIInv, NextIInv, PTL DEF Spec
=============================================================================
