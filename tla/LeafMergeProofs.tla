-------------------------- MODULE LeafMergeProofs ---------------------------
(***************************************************************************)
(* applyToLeaf on the arrays of a leaf, for every set of keys, values and  *)
(* upsert functions, every batch and every leaf: the in-place loops lose   *)
(* nothing (NothingIsLost), and the leaf is sorted and is what the batch   *)
(* makes of it when they are done (LeafIsCorrect).                         *)
(***************************************************************************)
EXTENDS LeafMerge, MessageLemmas

-----------------------------------------------------------------------------
(* The inductive invariant. *)

(* The messages that a merge works on: no upsert is left. *)
Ground == [kind : {"put"}, val : Value, counted : BOOLEAN] \cup [kind : {"del"}]

(* The cells from..to of arrays hold keys and values, and the keys ascend. *)
Table(ks, vs, from, to) ==
  /\ \A i \in from..to : ks[i] \in Key /\ vs[i] \in Value
  /\ \A i, j \in from..to : i < j => ks[i] < ks[j]

Entries(ks, vs, from, to) == {<<ks[i], vs[i]>> : i \in from..to}

With(pairs, k, v) == Except(pairs, {k}) \cup {<<k, v>>}

(* So do the cells of the leaf. *)
Written(from, to) == Table(keys, values, from, to)

(* The messages from..to are for ascending keys; they are puts. *)
Ordered(from, to) == \A i, j \in from..to : i < j => msgs[i][1] < msgs[j][1]
AllPuts(from, to) == \A i \in from..to : msgs[i][2].kind = "put"

(* The entries of a leaf that holds m. *)
Pairs(m) == {<<k, m[k]>> : k \in {x \in Key : m[x] # Absent}}

(* What the first n messages of the batch make of the leaf. *)
SoFar(n) == [k \in Key |-> After(Groups(batch, k)[n], before[k])]

Applying ==
  pc = "small" =>
    /\ mi \in 1..Len(batch) + 1
    /\ Written(1, Len(keys))
    /\ Cells(1, Len(keys)) = Pairs(SoFar(mi - 1))

Called ==
  pc = "batch" =>
    /\ li = 1 /\ mi = 1 /\ w = 0 /\ numNew = 0
    /\ Written(1, Len(keys))
    /\ Cells(1, Len(keys)) = Pairs(before)

Adding ==
  pc \in {"append", "grow"} =>
    /\ Written(1, Len(keys))
    /\ Ordered(1, Len(msgs)) /\ AllPuts(1, Len(msgs))
    /\ pc = "append" =>
         \A i \in 1..Len(keys), j \in 1..Len(msgs) : keys[i] < msgs[j][1]

(* What is written is below what is read next; so are the keys set aside,  *)
(* none of which the leaf has.                                             *)
Compacting ==
  pc = "compact" =>
    /\ li \in 1..Len(keys) + 1 /\ mi \in 1..Len(msgs) + 1
    /\ w < li /\ numNew < mi
    /\ Written(1, w) /\ Written(li, Len(keys))
    /\ Ordered(1, numNew) /\ AllPuts(1, numNew) /\ Ordered(mi, Len(msgs))
    /\ \A i \in 1..w :
         /\ \A j \in li..Len(keys) : keys[i] < keys[j]
         /\ \A j \in mi..Len(msgs) : keys[i] < msgs[j][1]
         /\ \A j \in 1..numNew : keys[i] # msgs[j][1]
    /\ \A i \in 1..numNew :
         /\ \A j \in li..Len(keys) : msgs[i][1] < keys[j]
         /\ \A j \in mi..Len(msgs) : msgs[i][1] < msgs[j][1]

(* Between what is to be read, 1..r, and what is written, from w + 1 on,   *)
(* there is room for the p puts that are left.                             *)
Merging ==
  pc = "merge" =>
    /\ w = r + p + overwrites /\ w <= Len(keys) /\ p <= Len(msgs)
    /\ Written(1, r) /\ Written(w + 1, Len(keys))
    /\ Ordered(1, p) /\ AllPuts(1, p)
    /\ \A j \in w + 1..Len(keys) :
         /\ \A i \in 1..r : keys[i] < keys[j]
         /\ \A i \in 1..p : msgs[i][1] < keys[j]

Labels == {"small", "batch", "append", "grow", "compact", "merge", "done"}

IInv ==
  /\ TypeOK
  /\ pc \in Labels
  /\ msgs \in Seq(Key \X Ground)
  /\ Applying /\ Called /\ Adding /\ Compacting /\ Merging
  /\ pc = "done" => Written(1, Len(keys))
  /\ NothingLost

-----------------------------------------------------------------------------
(* The operators. *)

(* A finite set of naturals can be put in ascending order. *)
LEMMA InOrderIs ==
  ASSUME NEW S, S \subseteq Nat, IsFiniteSet(S)
  PROVE  /\ Cardinality(S) \in Nat
         /\ InOrder(S) \in [1..Cardinality(S) -> S]
         /\ Ascending(InOrder(S))
         /\ \A x \in S : \E i \in 1..Cardinality(S) : InOrder(S)[i] = x
<1> DEFINE n == Cardinality(S)
           Below(x) == {y \in S : y < x}
           s == [i \in 1..n |-> CHOOSE x \in S : Cardinality(Below(x)) = i - 1]
<1>1. n \in Nat
  BY FS_CardinalityType
<1>2. \A i \in 1..n : \E x \in S : Cardinality(Below(x)) = i - 1
  <2> SUFFICES ASSUME NEW i \in 1..n PROVE \E x \in S : Cardinality(Below(x)) = i - 1
    OBVIOUS
  <2>1. i - 1 \in Nat /\ i - 1 < Cardinality(S)
    BY <1>1
  <2> QED
    BY <2>1, RankExists
<1>3. \A i \in 1..n : s[i] \in S /\ Cardinality(Below(s[i])) = i - 1
  BY <1>2
<1> HIDE DEF n
<1>4. s \in [1..n -> S]
  BY <1>3
<1> HIDE DEF s
<1>5. Ascending(s)
  <2> SUFFICES ASSUME NEW i \in 1..n, NEW j \in 1..n, i < j PROVE s[i] < s[j]
    BY <1>4 DEF Ascending
  <2>1. s[i] \in Nat /\ s[j] \in Nat
    BY <1>3
  <2>2. ASSUME s[j] <= s[i] PROVE FALSE
    <3>1. Below(s[j]) \subseteq Below(s[i])
      <4> SUFFICES ASSUME NEW y \in S, y < s[j] PROVE y < s[i]
        OBVIOUS
      <4>1. y \in Nat
        OBVIOUS
      <4> QED
        BY <2>1, <2>2, <4>1
    <3>2. IsFiniteSet(Below(s[i]))
      BY FS_Subset
    <3>3. Cardinality(Below(s[j])) <= Cardinality(Below(s[i]))
      BY <3>1, <3>2, FS_Subset
    <3> QED
      BY <1>1, <1>3, <3>3
  <2> QED
    BY <2>1, <2>2
<1> DEFINE t == InOrder(S)
<1>6. t \in [1..n -> S] /\ Ascending(t)
  BY <1>4, <1>5 DEF InOrder, n
<1> HIDE DEF t
<1>7. \A i, j \in 1..n : t[i] = t[j] => i = j
  <2> SUFFICES ASSUME NEW i \in 1..n, NEW j \in 1..n, i # j PROVE t[i] # t[j]
    OBVIOUS
  <2>1. i < j \/ j < i
    BY <1>1
  <2>2. t[i] \in Nat /\ t[j] \in Nat
    BY <1>6
  <2> QED
    BY <1>6, <2>1, <2>2 DEF Ascending
<1>8. t \in Injection(1..n, S)
  BY <1>6, <1>7 DEF Injection, IsInjective
<1>9. Cardinality(1..n) = n
  BY <1>1, FS_Interval
<1>10. t \in Surjection(1..n, S)
  BY <1>8, <1>9, FS_Injection DEF n
<1> QED
  BY <1>1, <1>6, <1>10 DEF Surjection, t, n

(* What a batch may be. *)
LEMMA BatchType ==
  ASSUME NEW b \in Batches
  PROVE  /\ Len(b) \in Nat /\ Len(b) >= 1 /\ DOMAIN b = 1..Len(b)
         /\ \A i \in 1..Len(b) : b[i][1] \in Key /\ b[i][2] \in Msg
<1>1. PICK n \in 1..MaxBatch : b \in [1..n -> Key \X Sent]
  BY DEF Batches
<1>2. n \in Nat /\ n >= 1
  BY <1>1, LeafMergeAssumption
<1>3. Len(b) = n
  BY <1>1, <1>2
<1>4. \A i \in 1..n : b[i] \in Key \X Sent
  BY <1>1
<1>5. \A e \in Key \X Sent : e[1] \in Key /\ e[2] \in Sent
  OBVIOUS
<1> QED
  BY <1>1, <1>2, <1>3, <1>4, <1>5, LeafMergeAssumption

(* The messages for a key, in the order in which they came. *)
LEMMA GroupsAre ==
  ASSUME NEW b \in Batches, NEW k
  PROVE  /\ Groups(b, k)[0] = <<>>
         /\ \A i \in 0..Len(b) : Groups(b, k)[i] \in Seq(Msg)
         /\ \A i \in 1..Len(b) :
              Groups(b, k)[i] = IF b[i][1] = k THEN Append(Groups(b, k)[i-1], b[i][2])
                                               ELSE Groups(b, k)[i-1]
<1> DEFINE n == Len(b)
           E(f) == [i \in 0..n |-> IF i = 0 THEN <<>>
                                   ELSE IF b[i][1] = k THEN Append(f[i-1], b[i][2])
                                                       ELSE f[i-1]]
           g == [i \in 1..n |-> [s \in Seq(Msg) |->
                   IF b[i][1] = k THEN Append(s, b[i][2]) ELSE s]]
<1>1. n \in Nat /\ \A i \in 1..n : b[i][2] \in Msg
  BY BatchType
<1> HIDE DEF n
<1>2. \A i \in 1..n, s \in Seq(Msg) :
        (IF b[i][1] = k THEN Append(s, b[i][2]) ELSE s) \in Seq(Msg)
  BY <1>1, AppendProperties
<1>3. g \in [1..n -> [Seq(Msg) -> Seq(Msg)]]
  BY <1>2
<1>4. \A i \in 1..n, s \in Seq(Msg) :
        g[i][s] = IF b[i][1] = k THEN Append(s, b[i][2]) ELSE s
  OBVIOUS
<1> HIDE DEF g
<1>5. <<>> \in Seq(Msg)
  OBVIOUS
<1>6. PICK c \in [0..n -> Seq(Msg)] :
        c[0] = <<>> /\ \A i \in 1..n : c[i] = g[i][c[i-1]]
  <2> DEFINE Q == Seq(Msg)
  <2>1. <<>> \in Q /\ g \in [1..n -> [Q -> Q]] /\ n \in Nat
    BY <1>1, <1>3, <1>5
  <2> HIDE DEF Q
  <2>2. \E c \in [0..n -> Q] : c[0] = <<>> /\ \A i \in 1..n : c[i] = g[i][c[i-1]]
    BY ONLY <2>1, RecursionExists
  <2> QED
    BY <2>2 DEF Q
<1>7. \A i \in 1..n : i - 1 \in 0..n /\ i \in 0..n /\ i # 0
  BY <1>1
<1>8. \A i \in 1..n : c[i] = IF b[i][1] = k THEN Append(c[i-1], b[i][2]) ELSE c[i-1]
  BY <1>4, <1>6, <1>7
<1>9. c = E(c)
  <2>1. \A i \in 0..n : i = 0 \/ i \in 1..n
    BY <1>1
  <2>2. \A i \in 0..n : c[i] = E(c)[i]
    BY <1>6, <1>7, <1>8, <2>1
  <2> QED
    BY <1>6, <2>2
<1>10. Groups(b, k) = CHOOSE f : f = E(f)
  BY DEF Groups, n
<1> DEFINE f == Groups(b, k)
<1>11. f = E(f)
  BY <1>9, <1>10
<1> HIDE DEF f
<1>12. 0 \in 0..n /\ f[0] = <<>>
  BY <1>1, <1>11
<1>13. \A i \in 1..n : f[i] = IF b[i][1] = k THEN Append(f[i-1], b[i][2]) ELSE f[i-1]
  BY <1>7, <1>11
<1> DEFINE T == {i \in Nat : i <= n => f[i] \in Seq(Msg)}
<1>14. 0 \in T
  BY <1>5, <1>12
<1>15. \A i \in Nat : i \in T => i + 1 \in T
  <2> SUFFICES ASSUME NEW i \in Nat, i \in T, i + 1 <= n PROVE f[i + 1] \in Seq(Msg)
    OBVIOUS
  <2>1. i <= n /\ i + 1 \in 1..n /\ (i + 1) - 1 = i
    BY <1>1
  <2>2. f[i] \in Seq(Msg)
    BY <2>1
  <2> QED
    BY <1>2, <1>13, <2>1, <2>2
<1>16. \A i \in 0..n : f[i] \in Seq(Msg)
  <2> HIDE DEF T
  <2>1. Nat \subseteq T
    BY ONLY <1>14, <1>15, InductionOnNat
  <2> QED
    BY <1>1, <2>1 DEF T
<1> QED
  BY <1>12, <1>13, <1>16 DEF f, n

(* Where a binary search of ascending keys ends. *)
Ends(ks, k, s) ==
  \/ s.found /\ \E i \in 1..Len(ks) : ks[i] = k /\ s.idx = i - 1
  \/ /\ ~s.found
     /\ s.idx \in 0..Len(ks)
     /\ \A j \in 1..s.idx : ks[j] < k
     /\ \A j \in s.idx+1..Len(ks) : k < ks[j]

(* The binary search of a leaf finds the key, or where it belongs. *)
LEMMA SearchFinds ==
  ASSUME NEW ks \in Seq(Key), Ascending(ks), NEW k \in Key
  PROVE  Ends(ks, k, leafSearch(ks, k))
<1> DEFINE n == Len(ks)
           Hit == {i \in 1..n : ks[i] = k}
           Right == {i \in 1..n : ks[i] < k}
           S == [idx : Nat, found : BOOLEAN]
           hit == [i \in 1..n |-> [idx |-> i - 1, found |-> TRUE]]
           miss == [i \in 0..n |-> [idx |-> i, found |-> FALSE]]
           E(f) == [part \in (0..n) \X (0..n) |->
                      LET lo == part[1]
                          hi == part[2]
                          mid == lo + (hi - lo) \div 2
                      IN  IF lo >= hi THEN [idx |-> lo, found |-> FALSE]
                          ELSE IF ks[mid + 1] = k THEN [idx |-> mid, found |-> TRUE]
                          ELSE IF ks[mid + 1] < k THEN f[<<mid + 1, hi>>]
                                                  ELSE f[<<lo, mid>>]]
           res == CHOOSE f : f = E(f)
<1>1. n \in Nat /\ DOMAIN ks = 1..n
  BY LenProperties
<1>2. k \in Nat /\ \A i \in 1..n : ks[i] \in Nat
  <2>1. \A x \in Key : x \in Nat
    BY LeafMergeAssumption
  <2> QED
    BY <2>1, ElementOfSeq
<1>3. hit \in [1..n -> S] /\ miss \in [0..n -> S]
  BY <1>1
<1>4. \A i, j \in 1..n : i < j => ks[i] < ks[j]
  BY <1>1 DEF Ascending
<1>5. \A f : E(f) = Halved(n, Hit, Right, hit, miss, f)
  <2> SUFFICES ASSUME NEW f, NEW part \in (0..n) \X (0..n)
               PROVE  E(f)[part] = Halved(n, Hit, Right, hit, miss, f)[part]
    <3> DEFINE H(f) == Halved(n, Hit, Right, hit, miss, f)
               D == (0..n) \X (0..n)
    <3>1. \A f : E(f) = [part \in D |-> E(f)[part]]
      OBVIOUS
    <3>2. \A f : H(f) = [part \in D |-> H(f)[part]]
      BY DEF Halved
    <3>3. \A f : \A part \in D : E(f)[part] = H(f)[part]
      BY Zenon
    <3> HIDE DEF H, E, D
    <3>4. \A f : E(f) = H(f)
      BY <3>1, <3>2, <3>3
    <3> QED
      BY <3>4 DEF H
  <2> DEFINE lo == part[1]
             hi == part[2]
             mid == lo + (hi - lo) \div 2
  <2>1. lo \in 0..n /\ hi \in 0..n /\ part = <<lo, hi>>
    OBVIOUS
  <2>2. mid = lo + (hi - lo) \div 2
    OBVIOUS
  <2>3. E(f)[part] =
          IF lo >= hi THEN [idx |-> lo, found |-> FALSE]
          ELSE IF ks[mid + 1] = k THEN [idx |-> mid, found |-> TRUE]
          ELSE IF ks[mid + 1] < k THEN f[<<mid + 1, hi>>] ELSE f[<<lo, mid>>]
    BY Zenon
  <2>4. Halved(n, Hit, Right, hit, miss, f)[part] =
          IF lo >= hi THEN miss[lo]
          ELSE IF mid + 1 \in Hit THEN hit[mid + 1]
          ELSE IF mid + 1 \in Right THEN f[<<mid + 1, hi>>] ELSE f[<<lo, mid>>]
    <3> HIDE DEF hit, miss, Hit, Right, n
    <3> QED
      BY Zenon DEF Halved
  <2> HIDE DEF lo, hi, mid, E, n, Hit, Right, hit, miss
  <2>5. CASE lo >= hi
    <3>1. miss[lo] = [idx |-> lo, found |-> FALSE]
      BY <2>1 DEF miss
    <3> QED
      BY <2>3, <2>4, <2>5, <3>1
  <2>6. CASE lo < hi
    <3>1. mid \in Nat /\ lo <= mid /\ mid < hi
      BY <1>1, <2>1, <2>2, <2>6, MiddleBetween
    <3>2. mid + 1 \in 1..n /\ ~(lo >= hi)
      BY <1>1, <2>1, <2>6, <3>1
    <3>3. hit[mid + 1] = [idx |-> mid, found |-> TRUE]
      BY <3>1, <3>2 DEF hit
    <3>4. /\ mid + 1 \in Hit <=> ks[mid + 1] = k
          /\ mid + 1 \in Right <=> ks[mid + 1] < k
      BY <3>2 DEF Hit, Right
    <3> QED
      BY <2>3, <2>4, <3>2, <3>3, <3>4
  <2> QED
    BY <1>1, <2>1, <2>5, <2>6
<1>6. res = Bisected(n, Hit, Right, hit, miss)
  <2> HIDE DEF E
  <2> QED
    BY <1>5 DEF Bisected
<1>7. leafSearch(ks, k) = res[<<0, n>>]
  BY Zenon DEF leafSearch
<1>8. /\ \A i, j \in 1..n : i < j => /\ j \in Right => i \in Right /\ i \notin Hit
                                     /\ j \in Hit => i \in Right /\ i \notin Hit
      /\ \A i \in 1..n : i \in Hit => i \notin Right
  <2>1. /\ \A i \in 1..n : i \in Hit <=> ks[i] = k
        /\ \A i \in 1..n : i \in Right <=> ks[i] < k
    OBVIOUS
  <2> HIDE DEF Hit, Right
  <2> QED
    BY <1>1, <1>2, <1>4, <2>1
<1>9. FoundOrMissed(n, Hit, Right, hit, miss, res[<<0, n>>])
  <2>1. Divided(n, Hit, Right)
    BY <1>8 DEF Divided
  <2> HIDE DEF res, E, S, hit, miss, Hit, Right, n
  <2> QED
    BY ONLY <1>1, <1>3, <1>6, <2>1, Bisection
<1> HIDE DEF res, E, S, hit, miss, Hit, Right, n
<1>10. CASE \E i \in 1..n : i \in Hit /\ res[<<0, n>>] = hit[i]
  <2>1. PICK i \in 1..n : i \in Hit /\ res[<<0, n>>] = hit[i]
    BY <1>10
  <2>2. hit[i].found /\ hit[i].idx = i - 1 /\ ks[i] = k
    BY <2>1 DEF hit, Hit
  <2> QED
    BY <1>7, <2>1, <2>2 DEF Ends, n
<1>11. ASSUME NEW i \in 0..n, res[<<0, n>>] = miss[i],
              \A j \in 1..i : j \in Right /\ j \notin Hit,
              \A j \in i+1..n : j \notin Right /\ j \notin Hit
       PROVE  Ends(ks, k, leafSearch(ks, k))
  <2>1. ~miss[i].found /\ miss[i].idx = i
    BY DEF miss
  <2>2. \A j \in 1..i : ks[j] < k
    BY <1>11 DEF Right
  <2>3. \A j \in i+1..n : k < ks[j]
    <3> SUFFICES ASSUME NEW j \in i+1..n PROVE k < ks[j]
      OBVIOUS
    <3>1. j \in 1..n
      BY <1>1
    <3>2. ~(ks[j] < k) /\ ks[j] # k
      BY <1>11, <3>1 DEF Right, Hit
    <3> QED
      BY <1>2, <3>1, <3>2
  <2> QED
    BY <1>7, <1>11, <2>1, <2>2, <2>3 DEF Ends, n
<1> QED
  BY <1>9, <1>10, <1>11 DEF FoundOrMissed

(* A whole table is two sequences of the same length. *)
LEMMA TableIs ==
  ASSUME NEW ks \in Seq(Key \cup {Junk}), NEW vs \in Seq(Value \cup {Junk}),
         Len(ks) = Len(vs)
  PROVE  /\ Len(ks) \in Nat /\ DOMAIN ks = 1..Len(ks) /\ DOMAIN vs = 1..Len(ks)
         /\ Table(ks, vs, 1, Len(ks)) =>
              ks \in Seq(Key) /\ vs \in Seq(Value) /\ Ascending(ks)
<1> DEFINE n == Len(ks)
<1>1. n \in Nat /\ DOMAIN ks = 1..n /\ DOMAIN vs = 1..n
  BY LenProperties
<1> SUFFICES ASSUME Table(ks, vs, 1, n)
             PROVE  ks \in Seq(Key) /\ vs \in Seq(Value) /\ Ascending(ks)
  BY <1>1
<1>2. ks = [i \in 1..n |-> ks[i]] /\ vs = [i \in 1..n |-> vs[i]]
  BY <1>1
<1>3. ks \in [1..n -> Key] /\ vs \in [1..n -> Value]
  <2> HIDE DEF n
  <2> QED
    BY <1>2 DEF Table
<1>4. ks \in Seq(Key) /\ vs \in Seq(Value)
  BY <1>1, <1>3
<1>5. Ascending(ks)
  BY <1>1 DEF Table, Ascending
<1> QED
  BY <1>4, <1>5

(* The keys of a table are comparable. *)
LEMMA KeysAreNat == \A k \in Key : k \in Nat
BY LeafMergeAssumption

(* A new key goes in where the search ended. *)
LEMMA InsertedEntry ==
  ASSUME NEW ks \in Seq(Key), NEW vs \in Seq(Value), Len(ks) = Len(vs),
         Table(ks, vs, 1, Len(ks)), NEW k \in Key, NEW v \in Value,
         NEW at \in 0..Len(ks), \A j \in 1..at : ks[j] < k,
         \A j \in at+1..Len(ks) : k < ks[j],
         NEW pos, pos = at + 1
  PROVE  /\ InsertAt(ks, pos, k) \in Seq(Key)
         /\ InsertAt(vs, pos, v) \in Seq(Value)
         /\ Len(InsertAt(ks, pos, k)) = Len(ks) + 1
         /\ Len(InsertAt(vs, pos, v)) = Len(ks) + 1
         /\ Table(InsertAt(ks, pos, k), InsertAt(vs, pos, v), 1, Len(ks) + 1)
         /\ Entries(InsertAt(ks, pos, k), InsertAt(vs, pos, v), 1, Len(ks) + 1) =
              With(Entries(ks, vs, 1, Len(ks)), k, v)
<1> DEFINE n == Len(ks)
           ks2 == InsertAt(ks, pos, k)
           vs2 == InsertAt(vs, pos, v)
<1>1. n \in Nat /\ at \in Nat /\ pos = at + 1 /\ pos \in 1..n+1 /\ Len(vs) = n
  BY LenProperties
<1>2. /\ ks2 \in Seq(Key) /\ Len(ks2) = n + 1
      /\ \A j \in 1..n+1 :
           ks2[j] = IF j < at + 1 THEN ks[j] ELSE IF j = at + 1 THEN k ELSE ks[j-1]
  <2>1. /\ ks2 \in Seq(Key) /\ Len(ks2) = n + 1
        /\ \A j \in 1..n+1 :
             ks2[j] = IF j < pos THEN ks[j] ELSE IF j = pos THEN k ELSE ks[j-1]
    BY <1>1, InsertAtProperties
  <2> QED
    BY <1>1, <2>1
<1>3. /\ vs2 \in Seq(Value) /\ Len(vs2) = n + 1
      /\ \A j \in 1..n+1 :
           vs2[j] = IF j < at + 1 THEN vs[j] ELSE IF j = at + 1 THEN v ELSE vs[j-1]
  <2>1. pos \in 1..Len(vs)+1 /\ Len(vs) \in Nat /\ pos \in Nat
    BY <1>1
  <2>2. /\ vs2 \in Seq(Value) /\ Len(vs2) = Len(vs) + 1
        /\ \A j \in 1..Len(vs)+1 :
             vs2[j] = IF j < pos THEN vs[j] ELSE IF j = pos THEN v ELSE vs[j-1]
    <3>1. vs2 \in Seq(Value)
      BY <2>1, InsertAtProperties
    <3>2. Len(vs2) = Len(vs) + 1
      BY <2>1, InsertAtProperties
    <3>3. ASSUME NEW j \in 1..Len(vs)+1
          PROVE  vs2[j] = IF j < pos THEN vs[j] ELSE IF j = pos THEN v ELSE vs[j-1]
      <4>1. vs \in Seq(Value) /\ v \in Value
        OBVIOUS
      <4> QED
        BY ONLY <2>1, <3>3, <4>1, InsertAtProperties
    <3> QED
      BY <3>1, <3>2, <3>3, Zenon
  <2> QED
    BY <1>1, <2>2
<1>4. /\ \A i \in 1..n : ks[i] \in Key /\ vs[i] \in Value
      /\ \A i, j \in 1..n : i < j => ks[i] < ks[j]
  BY DEF Table
<1>5. \A j \in 1..at : ks[j] < k
  OBVIOUS
<1>6. \A j \in at+1..n : k < ks[j]
  OBVIOUS
<1> HIDE DEF n, ks2, vs2
<1>7. k \in Nat /\ \A i \in 1..n : ks[i] \in Nat
  BY <1>4, KeysAreNat
<1>8. \A j \in 1..n+1 : ks2[j] \in Key /\ vs2[j] \in Value
  <2> SUFFICES ASSUME NEW j \in 1..n+1 PROVE ks2[j] \in Key /\ vs2[j] \in Value
    OBVIOUS
  <2>1. CASE j < at + 1
    <3>1. j \in 1..n
      BY <1>1, <2>1
    <3> QED
      BY <1>2, <1>3, <1>4, <2>1, <3>1
  <2>2. CASE j = at + 1
    BY <1>1, <1>2, <1>3, <2>2
  <2>3. CASE j > at + 1
    <3>1. j - 1 \in 1..n /\ ~(j < at + 1) /\ j # at + 1
      BY <1>1, <2>3
    <3> QED
      BY <1>2, <1>3, <1>4, <3>1
  <2> QED
    BY <1>1, <2>1, <2>2, <2>3
<1>9. \A i, j \in 1..n+1 : i < j => ks2[i] < ks2[j]
  <2> SUFFICES ASSUME NEW i \in 1..n+1, NEW j \in 1..n+1, i < j
               PROVE  ks2[i] < ks2[j]
    OBVIOUS
  <2>1. CASE j < at + 1
    BY <1>1, <1>2, <1>4, <2>1
  <2>2. CASE j = at + 1
    BY <1>1, <1>2, <1>5, <2>2
  <2>3. CASE j > at + 1
    <3>1. j - 1 \in 1..n /\ ks2[j] = ks[j-1]
      BY <1>1, <1>2, <2>3
    <3>2. CASE i < at + 1
      <4>1. ks2[i] = ks[i] /\ i \in 1..n /\ i < j - 1
        BY <1>1, <1>2, <2>3, <3>2
      <4> QED
        BY <1>4, <3>1, <4>1
    <3>3. CASE i = at + 1
      BY <1>1, <1>2, <1>6, <2>3, <3>1, <3>3
    <3>4. CASE i > at + 1
      <4>1. ks2[i] = ks[i-1] /\ i - 1 \in 1..n /\ i - 1 < j - 1
        BY <1>1, <1>2, <3>4
      <4> QED
        BY <1>4, <3>1, <4>1
    <3> QED
      BY <1>1, <3>2, <3>3, <3>4
  <2> QED
    BY <1>1, <2>1, <2>2, <2>3
<1>10. \A i \in 1..n : ks[i] # k
  <2> SUFFICES ASSUME NEW i \in 1..n PROVE ks[i] # k
    OBVIOUS
  <2>1. i \in 1..at \/ i \in at+1..n
    BY <1>1
  <2> QED
    BY <1>5, <1>6, <1>7, <2>1
<1> DEFINE old == Entries(ks, vs, 1, n)
           new == Entries(ks2, vs2, 1, n + 1)
<1>11. ASSUME NEW e \in new PROVE e \in Except(old, {k}) \cup {<<k, v>>}
  <2>1. PICK j \in 1..n+1 : e = <<ks2[j], vs2[j]>>
    BY <1>11 DEF Entries
  <2>2. CASE j = at + 1
    BY <1>1, <1>2, <1>3, <2>1, <2>2
  <2>3. CASE j # at + 1
    <3>1. PICK i \in 1..n : ks2[j] = ks[i] /\ vs2[j] = vs[i]
      <4>1. CASE j < at + 1
        <5>1. j \in 1..n
          BY <1>1, <4>1
        <5> QED
          BY <1>2, <1>3, <4>1, <5>1
      <4>2. CASE j > at + 1
        <5>1. j - 1 \in 1..n /\ ~(j < at + 1)
          BY <1>1, <4>2
        <5> QED
          BY <1>2, <1>3, <2>3, <5>1
      <4> QED
        BY <1>1, <2>3, <4>1, <4>2
    <3> QED
      BY <1>10, <2>1, <3>1 DEF Entries, Except
  <2> QED
    BY <2>2, <2>3
<1>12. ASSUME NEW e \in old PROVE e \in new
  <2>1. PICK i \in 1..n : e = <<ks[i], vs[i]>>
    BY <1>12 DEF Entries
  <2>2. \E j \in 1..n+1 : ks2[j] = ks[i] /\ vs2[j] = vs[i]
    <3>1. CASE i < at + 1
      <4>1. i \in 1..n+1
        BY <1>1
      <4> QED
        BY <1>2, <1>3, <3>1, <4>1
    <3>2. CASE i >= at + 1
      <4>1. i + 1 \in 1..n+1 /\ (i + 1) - 1 = i /\ ~(i + 1 < at + 1) /\ i + 1 # at + 1
        BY <1>1, <3>2
      <4> QED
        BY <1>2, <1>3, <4>1
    <3> QED
      BY <1>1, <3>1, <3>2
  <2> QED
    BY <2>1, <2>2 DEF Entries
<1>13. <<k, v>> \in new
  <2>1. at + 1 \in 1..n+1 /\ ~(at + 1 < at + 1)
    BY <1>1
  <2> QED
    BY <1>2, <1>3, <2>1 DEF Entries
<1>14. new = Except(old, {k}) \cup {<<k, v>>}
  <2> HIDE DEF new, old
  <2>1. Except(old, {k}) \subseteq new
    BY <1>12 DEF Except
  <2> QED
    BY <1>11, <1>13, <2>1
<1>15. Table(ks2, vs2, 1, n + 1)
  BY <1>8, <1>9 DEF Table
<1> QED
  BY <1>2, <1>3, <1>14, <1>15 DEF n, ks2, vs2, With

(* The cells a..b are found d cells further up. *)
Moved(ks, vs, ks2, vs2, a, b, d) ==
  \A i \in a..b : ks2[i + d] = ks[i] /\ vs2[i + d] = vs[i]

(* Cells that have moved by d. *)
LEMMA TableMove ==
  ASSUME NEW ks, NEW vs, NEW ks2, NEW vs2, NEW a \in Int, NEW b \in Int, NEW d \in Int,
         NEW a2, a2 = a + d, NEW b2, b2 = b + d, Moved(ks, vs, ks2, vs2, a, b, d)
  PROVE  /\ Entries(ks2, vs2, a2, b2) = Entries(ks, vs, a, b)
         /\ Table(ks2, vs2, a2, b2) <=> Table(ks, vs, a, b)
<1> USE DEF Moved
<1>1. \A j \in a2..b2 : /\ j - d \in a..b /\ (j - d) + d = j
                        /\ ks2[j] = ks[j - d] /\ vs2[j] = vs[j - d]
  <2> SUFFICES ASSUME NEW j \in a2..b2
               PROVE  /\ j - d \in a..b /\ (j - d) + d = j
                      /\ ks2[j] = ks[j - d] /\ vs2[j] = vs[j - d]
    OBVIOUS
  <2>1. j - d \in a..b /\ (j - d) + d = j
    OBVIOUS
  <2>2. ks2[(j - d) + d] = ks[j - d] /\ vs2[(j - d) + d] = vs[j - d]
    BY <2>1
  <2> QED
    BY <2>1, <2>2
<1>2. \A i \in a..b : i + d \in a2..b2
  OBVIOUS
<1>3. Entries(ks2, vs2, a2, b2) = Entries(ks, vs, a, b)
  <2>1. ASSUME NEW e \in Entries(ks2, vs2, a2, b2) PROVE e \in Entries(ks, vs, a, b)
    <3>1. PICK j \in a2..b2 : e = <<ks2[j], vs2[j]>>
      BY <2>1 DEF Entries
    <3> QED
      BY <1>1, <3>1 DEF Entries
  <2>2. ASSUME NEW e \in Entries(ks, vs, a, b) PROVE e \in Entries(ks2, vs2, a2, b2)
    <3>1. PICK i \in a..b : e = <<ks[i], vs[i]>>
      BY <2>2 DEF Entries
    <3>2. ks2[i + d] = ks[i] /\ vs2[i + d] = vs[i]
      OBVIOUS
    <3> QED
      BY <1>2, <3>1, <3>2 DEF Entries
  <2> QED
    BY <2>1, <2>2
<1>4. ASSUME Table(ks, vs, a, b) PROVE Table(ks2, vs2, a2, b2)
  <2>1. \A j \in a2..b2 : ks2[j] \in Key /\ vs2[j] \in Value
    BY <1>1, <1>4 DEF Table
  <2>2. ASSUME NEW i \in a2..b2, NEW j \in a2..b2, i < j PROVE ks2[i] < ks2[j]
    <3>1. i - d < j - d
      BY <2>2
    <3>2. ks[i - d] < ks[j - d]
      BY <1>1, <1>4, <3>1 DEF Table
    <3> QED
      BY <1>1, <3>2
  <2> QED
    BY <2>1, <2>2 DEF Table
<1>5. ASSUME Table(ks2, vs2, a2, b2) PROVE Table(ks, vs, a, b)
  <2>1. \A i \in a..b : ks[i] \in Key /\ vs[i] \in Value
    BY <1>2, <1>5 DEF Table
  <2>2. ASSUME NEW i \in a..b, NEW j \in a..b, i < j PROVE ks[i] < ks[j]
    <3>1. i + d < j + d
      BY <2>2
    <3>2. ks2[i + d] < ks2[j + d]
      BY <1>2, <1>5, <3>1 DEF Table
    <3> QED
      BY <3>2
  <2> QED
    BY <2>1, <2>2 DEF Table
<1> QED
  BY <1>3, <1>4, <1>5

(* Two tables, one after the other. *)
LEMMA TableJoin ==
  ASSUME NEW ks, NEW vs, NEW a \in Int, NEW m \in Int, NEW b \in Int,
         a <= m + 1, m <= b, NEW m1, m1 = m + 1
  PROVE  /\ Entries(ks, vs, a, b) = Entries(ks, vs, a, m) \cup Entries(ks, vs, m1, b)
         /\ Table(ks, vs, a, b) <=>
              /\ Table(ks, vs, a, m) /\ Table(ks, vs, m1, b)
              /\ \A i \in a..m, j \in m1..b : ks[i] < ks[j]
<1>1. \A i : i \in a..b <=> i \in a..m \/ i \in m1..b
  OBVIOUS
<1>2. \A i \in a..m, j \in m1..b : i < j
  OBVIOUS
<1>3. Entries(ks, vs, a, b) = Entries(ks, vs, a, m) \cup Entries(ks, vs, m1, b)
  BY <1>1, Zenon DEF Entries
<1>4. ASSUME Table(ks, vs, a, b)
      PROVE  /\ Table(ks, vs, a, m) /\ Table(ks, vs, m1, b)
             /\ \A i \in a..m, j \in m1..b : ks[i] < ks[j]
  BY <1>1, <1>2, <1>4, Zenon DEF Table
<1>5. ASSUME Table(ks, vs, a, m), Table(ks, vs, m1, b),
             \A i \in a..m, j \in m1..b : ks[i] < ks[j]
      PROVE  Table(ks, vs, a, b)
  <2>1. \A i \in a..b : ks[i] \in Key /\ vs[i] \in Value
    BY <1>1, <1>5, Zenon DEF Table
  <2>2. ASSUME NEW i \in a..b, NEW j \in a..b, i < j PROVE ks[i] < ks[j]
    <3>1. ~(i \in m1..b /\ j \in a..m)
      BY <2>2
    <3> QED
      BY <1>1, <1>5, <2>2, <3>1, Zenon DEF Table
  <2> QED
    BY <2>1, <2>2 DEF Table
<1> QED
  BY <1>3, <1>4, <1>5

(* The same for cells from the first one on. *)
LEMMA TableMoveFirst ==
  ASSUME NEW ks, NEW vs, NEW ks2, NEW vs2, NEW b \in Int, NEW d \in Int,
         NEW a2, a2 = 1 + d, NEW b2, b2 = b + d,
         \A i \in 1..b : ks2[i + d] = ks[i] /\ vs2[i + d] = vs[i]
  PROVE  /\ Entries(ks2, vs2, a2, b2) = Entries(ks, vs, 1, b)
         /\ Table(ks2, vs2, a2, b2) <=> Table(ks, vs, 1, b)
<1> DEFINE a == 1
<1>1. /\ a \in Int /\ a2 = a + d /\ b2 = b + d
      /\ Moved(ks, vs, ks2, vs2, a, b, d)
  BY DEF Moved
<1> HIDE DEF a
<1>2. /\ Entries(ks2, vs2, a2, b2) = Entries(ks, vs, a, b)
      /\ Table(ks2, vs2, a2, b2) <=> Table(ks, vs, a, b)
  BY <1>1, TableMove
<1> QED
  BY <1>2 DEF a

(* And for a table from the first cell on. *)
LEMMA TableJoinFirst ==
  ASSUME NEW ks, NEW vs, NEW m \in Int, NEW b \in Int, 0 <= m, m <= b, NEW m1, m1 = m + 1
  PROVE  /\ Entries(ks, vs, 1, b) = Entries(ks, vs, 1, m) \cup Entries(ks, vs, m1, b)
         /\ Table(ks, vs, 1, b) <=>
              /\ Table(ks, vs, 1, m) /\ Table(ks, vs, m1, b)
              /\ \A i \in 1..m, j \in m1..b : ks[i] < ks[j]
<1> DEFINE a == 1
<1>1. a \in Int /\ a <= m + 1 /\ m <= b /\ m1 = m + 1
  OBVIOUS
<1> HIDE DEF a
<1>2. /\ Entries(ks, vs, a, b) = Entries(ks, vs, a, m) \cup Entries(ks, vs, m1, b)
      /\ Table(ks, vs, a, b) <=>
           /\ Table(ks, vs, a, m) /\ Table(ks, vs, m1, b)
           /\ \A i \in a..m, j \in m1..b : ks[i] < ks[j]
  BY <1>1, TableJoin
<1> QED
  BY <1>2 DEF a

(* The cells of a table are distinct entries. *)
LEMMA TableEntry ==
  ASSUME NEW ks, NEW vs, NEW a \in Int, NEW b \in Int, Table(ks, vs, a, b),
         NEW i \in a..b, NEW j \in a..b, ks[i] = ks[j]
  PROVE  i = j
<1>1. ks[i] \in Nat /\ ks[j] \in Nat
  BY KeysAreNat DEF Table
<1>2. i < j \/ i = j \/ j < i
  OBVIOUS
<1>3. ~(ks[i] < ks[j]) /\ ~(ks[j] < ks[i])
  BY <1>1
<1> QED
  BY <1>2, <1>3 DEF Table

(* A sequence without its i-th element. *)
LEMMA RemoveAtProperties ==
  ASSUME NEW S, NEW s \in Seq(S), NEW i \in 1..Len(s)
  PROVE  /\ RemoveAt(s, i) \in Seq(S)
         /\ Len(RemoveAt(s, i)) = Len(s) - 1
         /\ \A j \in 1..Len(s)-1 :
              RemoveAt(s, i)[j] = IF j < i THEN s[j] ELSE s[j + 1]
<1> DEFINE n == Len(s)
           a == SubSeq(s, 1, i - 1)
           b == SubSeq(s, i + 1, n)
<1>1. n \in Nat /\ \A j \in 1..n : s[j] \in S
  BY LenProperties, ElementOfSeq
<1>2. a \in Seq(S) /\ Len(a) = i - 1 /\ \A j \in 1..i-1 : a[j] = s[j]
  BY <1>1, SMT
<1>3. b \in Seq(S) /\ Len(b) = n - i /\ \A j \in 1..n-i : b[j] = s[i + j]
  BY <1>1, SMT
<1>4. RemoveAt(s, i) = a \o b
  BY DEF RemoveAt
<1> HIDE DEF a, b, n
<1>5. /\ a \o b \in Seq(S) /\ Len(a \o b) = Len(a) + Len(b)
      /\ \A j \in 1..Len(a) + Len(b) :
           (a \o b)[j] = IF j <= Len(a) THEN a[j] ELSE b[j-Len(a)]
  BY ONLY <1>2, <1>3, ConcatProperties
<1>6. Len(a) + Len(b) = n - 1 /\ Len(a) = i - 1 /\ i \in 1..n
  BY <1>1, <1>2, <1>3 DEF n
<1>7. \A j \in 1..n-1 : (a \o b)[j] = IF j < i THEN s[j] ELSE s[j + 1]
  <2> SUFFICES ASSUME NEW j \in 1..n-1
               PROVE  (a \o b)[j] = IF j < i THEN s[j] ELSE s[j + 1]
    OBVIOUS
  <2>1. (a \o b)[j] = IF j <= i - 1 THEN a[j] ELSE b[j-(i - 1)]
    BY <1>5, <1>6
  <2>2. CASE j < i
    <3>1. j \in 1..i-1 /\ j <= i - 1
      BY <1>1, <1>6, <2>2
    <3> QED
      BY <1>2, <2>1, <2>2, <3>1
  <2>3. CASE j >= i
    <3>1. j - (i - 1) \in 1..n-i /\ ~(j <= i - 1) /\ ~(j < i) /\ i + (j - (i - 1)) = j + 1
      BY <1>1, <1>6, <2>3
    <3> QED
      BY <1>3, <2>1, <3>1
  <2> QED
    BY <1>1, <1>6, <2>2, <2>3
<1> QED
  BY <1>4, <1>5, <1>6, <1>7 DEF n

(* An entry is taken out where the search found it. *)
LEMMA RemovedEntry ==
  ASSUME NEW ks \in Seq(Key), NEW vs \in Seq(Value), Len(ks) = Len(vs),
         Table(ks, vs, 1, Len(ks)), NEW i \in 1..Len(ks)
  PROVE  /\ RemoveAt(ks, i) \in Seq(Key)
         /\ RemoveAt(vs, i) \in Seq(Value)
         /\ Len(RemoveAt(ks, i)) = Len(ks) - 1
         /\ Len(RemoveAt(vs, i)) = Len(ks) - 1
         /\ Table(RemoveAt(ks, i), RemoveAt(vs, i), 1, Len(ks) - 1)
         /\ Entries(RemoveAt(ks, i), RemoveAt(vs, i), 1, Len(ks) - 1) =
              Except(Entries(ks, vs, 1, Len(ks)), {ks[i]})
<1> DEFINE n == Len(ks)
           ks2 == RemoveAt(ks, i)
           vs2 == RemoveAt(vs, i)
           up == i + 1
           last == n - 1
<1>1. /\ n \in Nat /\ i \in Int /\ 1 <= i /\ i <= n
      /\ up \in Int /\ up = i + 1 /\ last \in Int /\ last = n - 1
  BY LenProperties
<1>2. /\ ks2 \in Seq(Key) /\ Len(ks2) = n - 1
      /\ \A j \in 1..n-1 : ks2[j] = IF j < i THEN ks[j] ELSE ks[j + 1]
  BY RemoveAtProperties
<1>3. /\ vs2 \in Seq(Value) /\ Len(vs2) = n - 1
      /\ \A j \in 1..n-1 : vs2[j] = IF j < i THEN vs[j] ELSE vs[j + 1]
  BY RemoveAtProperties
<1>4. Table(ks, vs, 1, n)
  OBVIOUS
<1> HIDE DEF n, ks2, vs2, up, last
<1>5. /\ Entries(ks2, vs2, 1, i - 1) = Entries(ks, vs, 1, i - 1)
      /\ Table(ks, vs, 1, i - 1) => Table(ks2, vs2, 1, i - 1)
  <2>1. \A j \in 1..i-1 : ks2[j] = ks[j] /\ vs2[j] = vs[j]
    <3> SUFFICES ASSUME NEW j \in 1..i-1 PROVE ks2[j] = ks[j] /\ vs2[j] = vs[j]
      OBVIOUS
    <3>1. j \in 1..n-1 /\ j < i
      BY <1>1
    <3> QED
      BY <1>2, <1>3, <3>1
  <2> QED
    BY <2>1 DEF Entries, Table
<1>6. /\ Entries(ks, vs, up, n) = Entries(ks2, vs2, i, last)
      /\ Table(ks, vs, up, n) <=> Table(ks2, vs2, i, last)
  <2>1. \A j \in i..last : ks[j + 1] = ks2[j] /\ vs[j + 1] = vs2[j]
    BY <1>1, <1>2, <1>3
  <2> DEFINE d == 1
  <2>2. /\ i \in Int /\ last \in Int /\ d \in Int /\ n = last + d /\ up = i + d
        /\ Moved(ks2, vs2, ks, vs, i, last, d)
    BY <1>1, <2>1 DEF Moved
  <2> HIDE DEF d
  <2>3. Entries(ks, vs, up, n) = Entries(ks2, vs2, i, last)
    BY ONLY <2>2, TableMove
  <2>4. Table(ks, vs, up, n) <=> Table(ks2, vs2, i, last)
    BY ONLY <2>2, TableMove
  <2> QED
    BY ONLY <2>3, <2>4
<1>7. /\ Entries(ks, vs, 1, n) = Entries(ks, vs, 1, i) \cup Entries(ks, vs, up, n)
      /\ Table(ks, vs, 1, i) /\ Table(ks, vs, up, n)
      /\ \A x \in 1..i, y \in up..n : ks[x] < ks[y]
  <2>1. 1 \in Int /\ i \in Int /\ n \in Int /\ 1 <= i + 1 /\ i <= n /\ up = i + 1
    BY <1>1
  <2> QED
    BY ONLY <1>4, <2>1, TableJoin
<1>8. /\ Entries(ks, vs, 1, i) = Entries(ks, vs, 1, i - 1) \cup Entries(ks, vs, i, i)
      /\ Table(ks, vs, 1, i - 1)
  <2>1. i - 1 \in Int /\ (i - 1) + 1 = i /\ 1 <= (i - 1) + 1 /\ i - 1 <= i
    BY <1>1
  <2> QED
    BY <1>7, <2>1, TableJoin
<1>9. Table(ks2, vs2, 1, last) /\
      Entries(ks2, vs2, 1, last) = Entries(ks, vs, 1, i - 1) \cup Entries(ks, vs, up, n)
  <2>1. i - 1 \in Int /\ last \in Int /\ (i - 1) + 1 = i /\ 1 <= (i - 1) + 1 /\ i - 1 <= last
    BY <1>1
  <2>2. \A x \in 1..i-1, y \in i..last : ks2[x] < ks2[y]
    <3> SUFFICES ASSUME NEW x \in 1..i-1, NEW y \in i..last PROVE ks2[x] < ks2[y]
      OBVIOUS
    <3>1. /\ x \in 1..n-1 /\ x < i /\ x \in 1..i
          /\ y \in 1..n-1 /\ ~(y < i) /\ y + 1 \in up..n
      BY <1>1
    <3>2. ks2[x] = ks[x] /\ ks2[y] = ks[y + 1]
      BY <1>2, <3>1
    <3> QED
      BY <1>7, <3>1, <3>2
  <2> QED
    BY <1>5, <1>6, <1>7, <1>8, <2>1, <2>2, TableJoin
<1>10. Entries(ks, vs, i, i) = {<<ks[i], vs[i]>>}
  <2>1. \A x : x \in i..i <=> x = i
    BY <1>1
  <2> QED
    BY <2>1 DEF Entries
<1>11. \A j \in 1..n : j # i => ks[j] # ks[i]
  <2>1. i \in 1..n
    BY <1>1
  <2> QED
    BY <1>1, <1>4, <2>1, TableEntry
<1>12. \A e \in Entries(ks, vs, 1, i - 1) \cup Entries(ks, vs, up, n) : e[1] # ks[i]
  <2> SUFFICES ASSUME NEW e \in Entries(ks, vs, 1, i - 1) \cup Entries(ks, vs, up, n)
               PROVE  e[1] # ks[i]
    OBVIOUS
  <2>1. PICK j \in (1..i-1) \cup (up..n) : e = <<ks[j], vs[j]>>
    BY DEF Entries
  <2>2. j \in 1..n /\ j # i
    BY <1>1, <2>1
  <2> QED
    BY <1>11, <2>1, <2>2
<1>13. Entries(ks2, vs2, 1, last) = Except(Entries(ks, vs, 1, n), {ks[i]})
  <2>1. <<ks[i], vs[i]>>[1] = ks[i]
    OBVIOUS
  <2> QED
    BY <1>7, <1>8, <1>9, <1>10, <1>12, <2>1 DEF Except
<1> QED
  BY <1>2, <1>3, <1>9, <1>13 DEF n, ks2, vs2, last

(* An entry is overwritten where the search found it. *)
LEMMA OverwrittenEntry ==
  ASSUME NEW ks \in Seq(Key), NEW vs \in Seq(Value), Len(ks) = Len(vs),
         Table(ks, vs, 1, Len(ks)), NEW i \in 1..Len(ks), NEW v \in Value
  PROVE  /\ [vs EXCEPT ![i] = v] \in Seq(Value)
         /\ Len([vs EXCEPT ![i] = v]) = Len(ks)
         /\ Table(ks, [vs EXCEPT ![i] = v], 1, Len(ks))
         /\ Entries(ks, [vs EXCEPT ![i] = v], 1, Len(ks)) =
              With(Entries(ks, vs, 1, Len(ks)), ks[i], v)
<1> DEFINE n == Len(ks)
           vs2 == [vs EXCEPT ![i] = v]
<1>1. n \in Nat /\ i \in 1..n /\ vs \in [1..n -> Value]
  BY LenProperties
<1>2. vs2 \in [1..n -> Value] /\ \A j \in 1..n : vs2[j] = IF j = i THEN v ELSE vs[j]
  BY <1>1
<1>3. vs2 \in Seq(Value) /\ Len(vs2) = n
  BY <1>1, <1>2
<1>4. Table(ks, vs, 1, n)
  OBVIOUS
<1> HIDE DEF n, vs2
<1>5. Table(ks, vs2, 1, n)
  BY <1>2, <1>4 DEF Table
<1>6. \A j \in 1..n : j # i => ks[j] # ks[i]
  BY <1>1, <1>4, TableEntry
<1>7. ASSUME NEW e \in Entries(ks, vs2, 1, n)
      PROVE  e \in Except(Entries(ks, vs, 1, n), {ks[i]}) \cup {<<ks[i], v>>}
  <2>1. PICK j \in 1..n : e = <<ks[j], vs2[j]>>
    BY <1>7 DEF Entries
  <2>2. CASE j = i
    BY <1>2, <2>1, <2>2
  <2>3. CASE j # i
    BY <1>2, <1>6, <2>1, <2>3 DEF Entries, Except
  <2> QED
    BY <2>2, <2>3
<1>8. ASSUME NEW e \in Except(Entries(ks, vs, 1, n), {ks[i]}) PROVE e \in Entries(ks, vs2, 1, n)
  <2>1. PICK j \in 1..n : e = <<ks[j], vs[j]>> /\ e[1] # ks[i]
    BY <1>8 DEF Entries, Except
  <2>2. j # i
    BY <2>1
  <2> QED
    BY <1>2, <2>1, <2>2 DEF Entries
<1>9. <<ks[i], v>> \in Entries(ks, vs2, 1, n)
  BY <1>1, <1>2 DEF Entries
<1> QED
  BY <1>3, <1>5, <1>7, <1>8, <1>9 DEF n, vs2, With

(* One key more, or one key less, in what a leaf holds. *)
LEMMA PairsUpdate ==
  ASSUME NEW m \in [Key -> Opt], NEW k \in Key, NEW o \in Opt
  PROVE  Pairs([m EXCEPT ![k] = o]) =
           Except(Pairs(m), {k}) \cup (IF o = Absent THEN {} ELSE {<<k, o>>})
<1> DEFINE m2 == [m EXCEPT ![k] = o]
<1>1. \A x \in Key : m2[x] = IF x = k THEN o ELSE m[x]
  OBVIOUS
<1> HIDE DEF m2
<1>2. ASSUME NEW e \in Pairs(m2)
      PROVE  e \in Except(Pairs(m), {k}) \cup (IF o = Absent THEN {} ELSE {<<k, o>>})
  <2>1. PICK x \in Key : m2[x] # Absent /\ e = <<x, m2[x]>>
    BY <1>2 DEF Pairs
  <2>2. e[1] = x
    BY <2>1
  <2> QED
    BY <1>1, <2>1, <2>2 DEF Pairs, Except
<1>3. ASSUME NEW e \in Except(Pairs(m), {k}) PROVE e \in Pairs(m2)
  <2>1. PICK x \in Key : m[x] # Absent /\ e = <<x, m[x]>>
    BY <1>3 DEF Pairs, Except
  <2>2. x # k
    BY <1>3, <2>1 DEF Except
  <2> QED
    BY <1>1, <2>1, <2>2 DEF Pairs
<1>4. o # Absent => <<k, o>> \in Pairs(m2)
  BY <1>1 DEF Pairs
<1> QED
  BY <1>2, <1>3, <1>4 DEF m2

(* What a search of the leaf returns when the leaf holds m. *)
LEMMA LookupIs ==
  ASSUME TypeOK, Written(1, Len(keys)), NEW m \in [Key -> Opt],
         Cells(1, Len(keys)) = Pairs(m), NEW k \in Key
  PROVE  /\ Ends(keys, k, leafSearch(keys, k))
         /\ Lookup(k) = m[k]
<1> DEFINE n == Len(keys)
           s == leafSearch(keys, k)
<1>1. /\ n \in Nat /\ keys \in Seq(Key) /\ Ascending(keys)
  BY TableIs DEF TypeOK, Written
<1>2. Ends(keys, k, s)
  BY <1>1, SearchFinds
<1>3. Lookup(k) = IF s.found THEN values[s.idx + 1] ELSE Absent
  BY DEF Lookup
<1>4. /\ \A i \in 1..n : keys[i] \in Key
      /\ \A i \in 1..n : <<keys[i], values[i]>> \in Pairs(m)
  BY DEF Written, Table, Cells
<1>5. \A e \in Pairs(m) : \E i \in 1..n : e = <<keys[i], values[i]>>
  BY DEF Cells
<1> HIDE DEF s, n
<1>6. CASE s.found
  <2>1. PICK i \in 1..n : keys[i] = k /\ s.idx = i - 1
    BY <1>2, <1>6 DEF Ends, n
  <2>2. s.idx + 1 = i
    BY <1>1, <2>1
  <2>3. <<k, values[i]>> \in Pairs(m)
    BY <1>4, <2>1
  <2>4. values[i] = m[k]
    BY <2>3 DEF Pairs
  <2> QED
    BY <1>2, <1>3, <1>6, <2>2, <2>4 DEF s
<1>7. CASE ~s.found
  <2>1. /\ s.idx \in 0..n /\ \A j \in 1..s.idx : keys[j] < k
        /\ \A j \in s.idx+1..n : k < keys[j]
    BY <1>2, <1>7 DEF Ends, n
  <2>2. ASSUME NEW i \in 1..n PROVE keys[i] # k
    <3>1. keys[i] \in Nat /\ k \in Nat
      BY <1>4, KeysAreNat
    <3>2. i \in 1..s.idx \/ i \in s.idx+1..n
      BY <1>1, <2>1
    <3> QED
      BY <2>1, <3>1, <3>2
  <2>3. m[k] = Absent
    <3>1. ASSUME m[k] # Absent PROVE FALSE
      <4>1. <<k, m[k]>> \in Pairs(m)
        BY <3>1 DEF Pairs
      <4>2. PICK i \in 1..n : <<k, m[k]>> = <<keys[i], values[i]>>
        BY <1>5, <4>1
      <4> QED
        BY <2>2, <4>2
    <3> QED
      BY <3>1
  <2> QED
    BY <1>2, <1>3, <1>7, <2>3 DEF s
<1> QED
  BY <1>6, <1>7

(* One message more of the batch. *)
LEMMA SoFarIs ==
  ASSUME batch \in Batches, before \in [Key -> Opt]
  PROVE  /\ SoFar(0) = before
         /\ SoFar(Len(batch)) = Expected
         /\ \A i \in 0..Len(batch) : SoFar(i) \in [Key -> Opt]
         /\ \A i \in 1..Len(batch) :
              SoFar(i) = [SoFar(i-1) EXCEPT ![batch[i][1]] =
                            Apply(batch[i][2], SoFar(i-1)[batch[i][1]])]
<1> DEFINE n == Len(batch)
<1>1. n \in Nat /\ \A i \in 1..n : batch[i][1] \in Key /\ batch[i][2] \in Msg
  BY BatchType
<1>2. ASSUME NEW k \in Key
      PROVE  /\ Groups(batch, k)[0] = <<>>
             /\ \A i \in 0..n : Groups(batch, k)[i] \in Seq(Msg)
             /\ \A i \in 1..n : Groups(batch, k)[i] =
                  IF batch[i][1] = k THEN Append(Groups(batch, k)[i-1], batch[i][2])
                                     ELSE Groups(batch, k)[i-1]
  BY GroupsAre
<1> HIDE DEF n
<1>3. \A i : \A k \in Key : SoFar(i)[k] = After(Groups(batch, k)[i], before[k])
  BY DEF SoFar
<1>4. \A i \in 0..n : SoFar(i) \in [Key -> Opt]
  <2> SUFFICES ASSUME NEW i \in 0..n, NEW k \in Key
               PROVE  After(Groups(batch, k)[i], before[k]) \in Opt
    BY DEF SoFar
  <2>1. Groups(batch, k)[i] \in Seq(Msg) /\ before[k] \in Opt
    BY <1>2
  <2> QED
    BY <2>1, AfterType
<1>5. SoFar(0) = before
  <2>1. \A k \in Key : SoFar(0)[k] = before[k]
    BY <1>2, <1>3, AfterNone
  <2>2. SoFar(0) \in [Key -> Opt]
    BY <1>1, <1>4
  <2> QED
    BY <2>1, <2>2
<1>6. SoFar(n) = Expected
  BY DEF SoFar, Expected, GroupOf, n
<1>7. ASSUME NEW i \in 1..n
      PROVE  SoFar(i) = [SoFar(i-1) EXCEPT ![batch[i][1]] =
                           Apply(batch[i][2], SoFar(i-1)[batch[i][1]])]
  <2> DEFINE x == batch[i][1]
             msg == batch[i][2]
             new == Apply(msg, SoFar(i-1)[x])
  <2>1. x \in Key /\ msg \in Msg /\ i - 1 \in 0..n /\ i \in 0..n
    BY <1>1
  <2>2. SoFar(i) \in [Key -> Opt] /\ SoFar(i-1) \in [Key -> Opt]
    BY <1>4, <2>1
  <2>3. ASSUME NEW k \in Key
        PROVE  SoFar(i)[k] = IF k = x THEN new ELSE SoFar(i-1)[k]
    <3> DEFINE g == Groups(batch, k)[i-1]
    <3>1. g \in Seq(Msg) /\ before[k] \in Opt
      BY <1>2, <2>1
    <3>2. Groups(batch, k)[i] = IF x = k THEN Append(g, msg) ELSE g
      BY <1>2
    <3>3. SoFar(i-1)[k] = After(g, before[k])
      BY <1>3
    <3>4. SoFar(i)[k] = After(Groups(batch, k)[i], before[k])
      BY <1>3
    <3> HIDE DEF g, msg, x
    <3>5. After(Append(g, msg), before[k]) = Apply(msg, After(g, before[k]))
      BY <2>1, <3>1, AfterAppend
    <3> QED
      BY <3>2, <3>3, <3>4, <3>5
  <2> HIDE DEF x, new
  <2>4. SoFar(i) = [SoFar(i-1) EXCEPT ![x] = new]
    BY <2>2, <2>3
  <2> QED
    BY <2>4 DEF x, new
<1> QED
  BY <1>4, <1>5, <1>6, <1>7 DEF n

-----------------------------------------------------------------------------
(* One message at a time. *)

(* Arrays of keys and values have no unwritten cell. *)
LEMMA NoJunk ==
  ASSUME NEW ks \in Seq(Key), NEW vs \in Seq(Value), Len(ks) = Len(vs)
  PROVE  /\ ks \in Seq(Key \cup {Junk}) /\ vs \in Seq(Value \cup {Junk})
         /\ \A i \in DOMAIN ks : ks[i] = Junk <=> vs[i] = Junk
<1>1. ks \in Seq(Key \cup {Junk}) /\ vs \in Seq(Value \cup {Junk})
  OBVIOUS
<1>2. \A i \in DOMAIN ks : ks[i] \in Key /\ vs[i] \in Value
  BY ElementOfSeq, LenProperties
<1>3. Junk \notin Key /\ Junk \notin Value
  BY LeafMergeAssumption DEF Opt
<1> QED
  BY <1>1, <1>2, <1>3

(* A message is applied to the leaf as the batch says. *)
LEMMA AppliedToLeaf ==
  ASSUME TypeOK, Written(1, Len(keys)), NEW m \in [Key -> Opt],
         Cells(1, Len(keys)) = Pairs(m), NEW k \in Key, NEW msg \in Msg,
         \/ msg.kind = "del" /\ leafDelete(k)
         \/ msg.kind # "del" /\ leafInsert(k, Apply(msg, Lookup(k)))
  PROVE  /\ keys' \in Seq(Key) /\ values' \in Seq(Value) /\ Len(keys') = Len(values')
         /\ Written(1, Len(keys))'
         /\ Cells(1, Len(keys))' = Pairs([m EXCEPT ![k] = Apply(msg, m[k])])
<1> DEFINE n == Len(keys)
           s == leafSearch(keys, k)
           o == Apply(msg, m[k])
           old == Entries(keys, values, 1, n)
<1>1. /\ n \in Nat /\ keys \in Seq(Key) /\ values \in Seq(Value)
      /\ Len(values) = n /\ Table(keys, values, 1, n)
  BY TableIs DEF TypeOK, Written
<1>2. Ends(keys, k, s) /\ Lookup(k) = m[k]
  BY LookupIs
<1>3. Cells(1, n) = old /\ old = Pairs(m)
  BY DEF Cells, Entries
<1>4. m[k] \in Opt
  OBVIOUS
<1>5. /\ msg.kind = "del" => o = Absent
      /\ msg.kind # "del" => o \in Value
      /\ o \in Opt
  <2>1. CASE msg.kind = "del"
    BY <2>1 DEF Apply, Opt
  <2>2. CASE msg.kind = "put"
    BY <2>2 DEF Apply, Opt, Msg
  <2>3. CASE msg.kind = "ups"
    <3>1. msg.fn \in [Opt -> Value]
      BY <2>3, MessagesAssumption DEF Msg
    <3>2. o = msg.fn[m[k]]
      BY <2>3 DEF Apply
    <3> QED
      BY <1>4, <2>3, <3>1, <3>2 DEF Opt
  <2> QED
    BY <2>1, <2>2, <2>3 DEF Msg
<1>6. /\ Pairs([m EXCEPT ![k] = o]) =
           Except(old, {k}) \cup (IF o = Absent THEN {} ELSE {<<k, o>>})
  <2>1. m \in [Key -> Opt] /\ k \in Key /\ o \in Opt
    BY <1>5
  <2> HIDE DEF o
  <2>2. Pairs([m EXCEPT ![k] = o]) =
          Except(Pairs(m), {k}) \cup (IF o = Absent THEN {} ELSE {<<k, o>>})
    BY ONLY <2>1, PairsUpdate
  <2> QED
    BY ONLY <1>3, <2>2
<1>7. /\ Written(1, Len(keys))' <=> Table(keys', values', 1, Len(keys'))
      /\ Cells(1, Len(keys))' = Entries(keys', values', 1, Len(keys'))
  BY DEF Written, Table, Cells, Entries
<1> HIDE DEF s, o, n, old
<1>8. \/ msg.kind = "del" /\ leafDelete(k)
      \/ msg.kind # "del" /\ leafInsert(k, o)
  BY <1>2 DEF o
<1>9. CASE s.found
  <2>1. PICK i \in 1..n : keys[i] = k /\ s.idx = i - 1
    BY <1>2, <1>9 DEF Ends, n
  <2>2. s.idx + 1 = i
    BY <1>1, <2>1
  <2>3. CASE msg.kind = "del" /\ leafDelete(k)
    <3>1. keys' = RemoveAt(keys, i) /\ values' = RemoveAt(values, i)
      BY <1>9, <2>2, <2>3 DEF leafDelete, s
    <3>2. /\ keys' \in Seq(Key) /\ values' \in Seq(Value)
          /\ Len(keys') = n - 1 /\ Len(values') = n - 1
          /\ Table(keys', values', 1, n - 1)
          /\ Entries(keys', values', 1, n - 1) = Except(old, {k})
      BY <1>1, <2>1, <3>1, RemovedEntry DEF n, old
    <3> QED
      BY <1>5, <1>6, <1>7, <2>3, <3>2 DEF o
  <2>4. CASE msg.kind # "del" /\ leafInsert(k, o)
    <3>1. keys' = keys /\ values' = [values EXCEPT ![i] = o]
      BY <1>9, <2>2, <2>4 DEF leafInsert, s
    <3>2. o \in Value
      BY <1>5, <2>4
    <3>3. /\ values' \in Seq(Value) /\ Len(values') = n
          /\ Table(keys', values', 1, n)
          /\ Entries(keys', values', 1, n) = Except(old, {k}) \cup {<<k, o>>}
      <4>1. /\ keys \in Seq(Key) /\ values \in Seq(Value) /\ Len(keys) = Len(values)
            /\ Table(keys, values, 1, Len(keys)) /\ i \in 1..Len(keys) /\ o \in Value
        BY <1>1, <2>1, <3>2 DEF n
      <4> DEFINE vs2 == [values EXCEPT ![i] = o]
      <4>2. /\ vs2 \in Seq(Value) /\ Len(vs2) = Len(keys)
            /\ Table(keys, vs2, 1, Len(keys))
            /\ Entries(keys, vs2, 1, Len(keys)) =
                 With(Entries(keys, values, 1, Len(keys)), keys[i], o)
        <5>1. vs2 \in Seq(Value) /\ Len(vs2) = Len(keys)
          BY <4>1, OverwrittenEntry
        <5>2. Table(keys, vs2, 1, Len(keys))
          BY <4>1, OverwrittenEntry
        <5>3. Entries(keys, vs2, 1, Len(keys)) =
                With(Entries(keys, values, 1, Len(keys)), keys[i], o)
          BY <4>1, OverwrittenEntry
        <5> QED
          BY <5>1, <5>2, <5>3
      <4> HIDE DEF vs2
      <4>3. values' = vs2
        BY <3>1 DEF vs2
      <4> QED
        BY <2>1, <3>1, <4>2, <4>3 DEF n, old, With
    <3>4. o # Absent
      BY <3>2, MessagesAssumption
    <3>5. Len(keys') = n /\ keys' \in Seq(Key)
      BY <1>1, <3>1 DEF n
    <3> QED
      BY <1>6, <1>7, <3>3, <3>4, <3>5 DEF o
  <2> QED
    BY <1>8, <2>3, <2>4
<1>10. CASE ~s.found
  <2>1. /\ s.idx \in 0..n /\ \A j \in 1..s.idx : keys[j] < k
        /\ \A j \in s.idx+1..n : k < keys[j]
    BY <1>2, <1>10 DEF Ends, n
  <2>2. CASE msg.kind = "del" /\ leafDelete(k)
    <3>1. keys' = keys /\ values' = values
      BY <1>10, <2>2 DEF leafDelete, s, leaf
    <3>2. m[k] = Absent
      BY <1>2, <1>10 DEF Lookup, s
    <3>3. Except(old, {k}) = old
      <4>1. \A e \in Pairs(m) : e[1] # k
        BY <3>2 DEF Pairs
      <4> QED
        BY <1>3, <4>1 DEF Except
    <3> QED
      BY <1>1, <1>5, <1>6, <1>7, <2>2, <3>1, <3>3 DEF o, n, old
  <2>3. CASE msg.kind # "del" /\ leafInsert(k, o)
    <3>1. keys' = InsertAt(keys, s.idx + 1, k) /\ values' = InsertAt(values, s.idx + 1, o)
      BY <1>10, <2>3 DEF leafInsert, s
    <3>2. o \in Value
      BY <1>5, <2>3
    <3>3. /\ keys' \in Seq(Key) /\ values' \in Seq(Value)
          /\ Len(keys') = n + 1 /\ Len(values') = n + 1
          /\ Table(keys', values', 1, n + 1)
          /\ Entries(keys', values', 1, n + 1) = Except(old, {k}) \cup {<<k, o>>}
      <4> DEFINE at == s.idx
                 pos == at + 1
                 ks2 == InsertAt(keys, pos, k)
                 vs2 == InsertAt(values, pos, o)
      <4>1. /\ keys \in Seq(Key) /\ values \in Seq(Value) /\ Len(keys) = Len(values)
            /\ Table(keys, values, 1, Len(keys)) /\ k \in Key /\ o \in Value
            /\ at \in 0..Len(keys) /\ \A j \in 1..at : keys[j] < k
            /\ \A j \in at+1..Len(keys) : k < keys[j]
            /\ pos = at + 1
        BY <1>1, <2>1, <3>2 DEF n
      <4>2. keys' = ks2 /\ values' = vs2
        BY <3>1
      <4> HIDE DEF at, pos
      <4>3. /\ ks2 \in Seq(Key) /\ vs2 \in Seq(Value)
            /\ Len(ks2) = Len(keys) + 1 /\ Len(vs2) = Len(keys) + 1
            /\ Table(ks2, vs2, 1, Len(keys) + 1)
            /\ Entries(ks2, vs2, 1, Len(keys) + 1) =
                 With(Entries(keys, values, 1, Len(keys)), k, o)
        BY <4>1, InsertedEntry
      <4> HIDE DEF ks2, vs2
      <4> QED
        BY <4>2, <4>3 DEF n, old, With
    <3>4. o # Absent
      BY <3>2, MessagesAssumption
    <3> QED
      BY <1>6, <1>7, <3>3, <3>4 DEF o
  <2> QED
    BY <1>8, <2>2, <2>3
<1> QED
  BY <1>9, <1>10

(* applyToLeafSmall, one message: the leaf holds what the batch so far     *)
(* makes of it.                                                            *)
LEMMA ApplyOneKeeps ==
  ASSUME IInv, ApplyOne
  PROVE  IInv'
<1> DEFINE k == batch[mi][1]
           msg == batch[mi][2]
           i == mi - 1
<1>1. /\ pc = "small" /\ mi <= Len(batch) /\ mi' = mi + 1
      /\ \/ msg.kind = "del" /\ leafDelete(k)
         \/ msg.kind # "del" /\ leafInsert(k, Apply(msg, Lookup(k)))
      /\ UNCHANGED <<before, batch, msgs, pc, li, w, numNew, r, p, overwrites>>
  BY DEF ApplyOne
<1>2. /\ TypeOK /\ batch \in Batches /\ before \in [Key -> Opt]
      /\ mi \in 1..Len(batch) + 1 /\ Written(1, Len(keys))
      /\ Cells(1, Len(keys)) = Pairs(SoFar(i))
  BY <1>1 DEF IInv, TypeOK, Applying
<1>3. /\ Len(batch) \in Nat /\ mi \in 1..Len(batch) /\ i \in 0..Len(batch)
      /\ k \in Key /\ msg \in Msg
  <2>1. Len(batch) \in Nat /\ \A x \in 1..Len(batch) : batch[x][1] \in Key /\ batch[x][2] \in Msg
    BY <1>2, BatchType
  <2> QED
    BY <1>1, <1>2, <2>1
<1>4. /\ SoFar(i) \in [Key -> Opt]
      /\ SoFar(mi) = [SoFar(i) EXCEPT ![k] = Apply(msg, SoFar(i)[k])]
  BY <1>2, <1>3, SoFarIs
<1> HIDE DEF k, msg, i
<1>5. /\ keys' \in Seq(Key) /\ values' \in Seq(Value) /\ Len(keys') = Len(values')
      /\ Written(1, Len(keys))'
      /\ Cells(1, Len(keys))' = Pairs(SoFar(mi))
  <2> DEFINE m == SoFar(i)
  <2>1. /\ m \in [Key -> Opt] /\ Cells(1, Len(keys)) = Pairs(m)
        /\ SoFar(mi) = [m EXCEPT ![k] = Apply(msg, m[k])]
    BY <1>2, <1>4
  <2> HIDE DEF m
  <2>2. TypeOK /\ Written(1, Len(keys)) /\ k \in Key /\ msg \in Msg
    BY <1>2, <1>3
  <2>3. \/ msg.kind = "del" /\ leafDelete(k)
        \/ msg.kind # "del" /\ leafInsert(k, Apply(msg, Lookup(k)))
    BY <1>1
  <2>4. /\ keys' \in Seq(Key) /\ values' \in Seq(Value) /\ Len(keys') = Len(values')
        /\ Written(1, Len(keys))'
        /\ Cells(1, Len(keys))' = Pairs([m EXCEPT ![k] = Apply(msg, m[k])])
    BY ONLY <2>1, <2>2, <2>3, AppliedToLeaf
  <2> QED
    BY ONLY <2>1, <2>4
<1>6. TypeOK'
  <2>1. mi' \in Nat
    BY <1>1, <1>3
  <2> QED
    BY <1>1, <1>2, <1>5, <2>1, NoJunk DEF TypeOK
<1>7. Applying'
  <2>1. mi' \in 1..Len(batch') + 1 /\ mi' - 1 = mi
    BY <1>1, <1>3
  <2>2. SoFar(mi)' = SoFar(mi')
    BY <1>1 DEF SoFar
  <2>3. Pairs(SoFar(mi - 1))' = Pairs(SoFar(mi))
    BY <1>1, <2>1 DEF SoFar, Pairs
  <2> QED
    BY <1>5, <2>1, <2>3 DEF Applying
<1> QED
  BY <1>1, <1>6, <1>7 DEF IInv, Called, Adding, Compacting, Merging, NothingLost

(* The leaf that applyToLeaf is called with. *)
LEMMA InitKeeps ==
  ASSUME Init
  PROVE  IInv
<1> DEFINE P == {k \in Key : before[k] # Absent}
           n == Cardinality(P)
<1>1. /\ before \in [Key -> Opt] /\ batch \in Batches /\ keys = InOrder(P)
      /\ values = [i \in DOMAIN keys |-> before[keys[i]]] /\ msgs = <<>>
      /\ pc = IF Len(batch) <= smallBatch THEN "small" ELSE "batch"
      /\ li = 1 /\ mi = 1 /\ w = 0 /\ numNew = 0 /\ r = 0 /\ p = 0 /\ overwrites = 0
  BY DEF Init
<1>2. P \subseteq Nat /\ IsFiniteSet(P) /\ P \subseteq Key
  <2>1. P \subseteq Key /\ Key \subseteq Nat /\ IsFiniteSet(Key)
    BY LeafMergeAssumption
  <2> QED
    BY <2>1, FS_Subset
<1>3. \A x \in P : x \in Key /\ before[x] \in Value
  BY <1>1 DEF Opt
<1>4. \A k \in Key : before[k] # Absent => k \in P
  OBVIOUS
<1>5. \A x \in P : before[x] # Absent
  OBVIOUS
<1> HIDE DEF P, n
<1>6. /\ n \in Nat /\ keys \in [1..n -> P] /\ Ascending(keys)
      /\ \A x \in P : \E i \in 1..n : keys[i] = x
  BY <1>1, <1>2, InOrderIs DEF n
<1>7. DOMAIN keys = 1..n /\ \A i \in 1..n : keys[i] \in P
  BY <1>6
<1>8. \A i \in 1..n : keys[i] \in Key /\ values[i] = before[keys[i]] /\ values[i] \in Value
  BY <1>1, <1>3, <1>7
<1>9. keys \in [1..n -> Key] /\ values \in [1..n -> Value]
  BY <1>1, <1>3, <1>6, <1>7
<1>10. keys \in Seq(Key) /\ values \in Seq(Value) /\ Len(keys) = n /\ Len(values) = n
  BY <1>6, <1>9
<1>11. TypeOK
  <2>1. {li, mi, w, numNew, r, p, overwrites} \subseteq Nat
    BY <1>1
  <2>2. Len(keys) = Len(values)
    BY <1>10
  <2> QED
    BY <1>1, <1>10, <2>1, <2>2, NoJunk DEF TypeOK
<1>12. Written(1, Len(keys))
  BY <1>7, <1>8, <1>6, <1>10 DEF Written, Table, Ascending
<1>13. Cells(1, Len(keys)) = Pairs(before)
  <2>1. ASSUME NEW e \in Cells(1, Len(keys)) PROVE e \in Pairs(before)
    <3>1. PICK i \in 1..n : e = <<keys[i], values[i]>>
      BY <1>10, <2>1 DEF Cells
    <3> QED
      BY <1>5, <1>7, <1>8, <3>1 DEF Pairs
  <2>2. ASSUME NEW e \in Pairs(before) PROVE e \in Cells(1, Len(keys))
    <3>1. PICK k \in Key : before[k] # Absent /\ e = <<k, before[k]>>
      BY <2>2 DEF Pairs
    <3>2. PICK i \in 1..n : keys[i] = k
      BY <1>4, <1>6, <3>1
    <3> QED
      BY <1>8, <1>10, <3>1, <3>2 DEF Cells
  <2> QED
    BY <2>1, <2>2
<1>14. Len(batch) \in Nat /\ Len(batch) >= 1
  BY <1>1, BatchType
<1>15. Applying
  <2>1. mi - 1 = 0 /\ mi \in 1..Len(batch) + 1
    BY <1>1, <1>14
  <2>2. SoFar(0) = before
    BY <1>1, SoFarIs
  <2> QED
    BY <1>12, <1>13, <2>1, <2>2 DEF Applying
<1>16. Called
  BY <1>1, <1>12, <1>13 DEF Called
<1>17. pc \in {"small", "batch"}
  BY <1>1
<1>18. msgs \in Seq(Key \X Ground)
  BY <1>1
<1> QED
  BY <1>11, <1>15, <1>16, <1>17, <1>18
  DEF IInv, Labels, Adding, Compacting, Merging, NothingLost

(* The whole batch has been applied: the leaf is what it should be. *)
LEMMA FinishKeeps ==
  ASSUME IInv, Finish
  PROVE  IInv'
<1>1. /\ pc = "small" /\ mi > Len(batch) /\ pc' = "done"
      /\ UNCHANGED <<before, batch, keys, values, msgs, li, mi, w, numNew, r, p, overwrites>>
  BY DEF Finish, leaf, loop
<1>2. /\ TypeOK /\ batch \in Batches /\ before \in [Key -> Opt]
      /\ mi \in 1..Len(batch) + 1 /\ Written(1, Len(keys))
      /\ Cells(1, Len(keys)) = Pairs(SoFar(mi - 1))
  BY <1>1 DEF IInv, TypeOK, Applying
<1>3. mi - 1 = Len(batch)
  <2>1. Len(batch) \in Nat
    BY <1>2, BatchType
  <2> QED
    BY <1>1, <1>2, <2>1
<1>4. SoFar(mi - 1) = Expected
  BY <1>2, <1>3, SoFarIs
<1>5. NothingLost'
  <2>1. Outcome' = Cells(1, Len(keys))'
    BY <1>1 DEF Outcome
  <2>2. Cells(1, Len(keys))' = Cells(1, Len(keys)) /\ Expected' = Expected
    BY <1>1 DEF Cells, Expected
  <2>3. Outcome' = Pairs(Expected)
    BY <1>2, <1>4, <2>1, <2>2
  <2> QED
    BY <2>2, <2>3 DEF NothingLost, Pairs
<1>6. TypeOK' /\ Written(1, Len(keys))'
  BY <1>1, <1>2 DEF TypeOK, Written, Table
<1> QED
  BY <1>1, <1>5, <1>6 DEF IInv, Labels, Applying, Called, Adding, Compacting, Merging

-----------------------------------------------------------------------------
(* Resolving a batch. *)

(* The group of a key has the messages of the batch for the key, if any. *)
LEMMA GroupHas ==
  ASSUME NEW b \in Batches, NEW k
  PROVE  /\ GroupOf(b, k) \in Seq(Msg)
         /\ GroupOf(b, k) = <<>> <=> \A j \in 1..Len(b) : b[j][1] # k
         /\ \A x \in 1..Len(GroupOf(b, k)) :
              \E j \in 1..Len(b) : GroupOf(b, k)[x] = b[j][2]
<1> DEFINE n == Len(b)
           g(i) == Groups(b, k)[i]
           Has(i) == /\ g(i) = <<>> <=> \A j \in 1..i : b[j][1] # k
                     /\ \A x \in 1..Len(g(i)) : \E j \in 1..n : g(i)[x] = b[j][2]
           T == {i \in Nat : i <= n => Has(i)}
<1>1. n \in Nat /\ \A i \in 1..n : b[i][2] \in Msg
  BY BatchType
<1>2. /\ g(0) = <<>> /\ \A i \in 0..n : g(i) \in Seq(Msg)
      /\ \A i \in 1..n : g(i) = IF b[i][1] = k THEN Append(g(i-1), b[i][2]) ELSE g(i-1)
  BY GroupsAre
<1> HIDE DEF n, g
<1>3. 0 \in T
  BY <1>2
<1>4. ASSUME NEW i \in Nat, i \in T PROVE i + 1 \in T
  <2> SUFFICES ASSUME i + 1 <= n PROVE Has(i + 1)
    BY <1>4
  <2>1. /\ i + 1 \in 1..n /\ (i + 1) - 1 = i /\ i \in 0..n /\ i <= n
        /\ \A j : j \in 1..i+1 <=> j \in 1..i \/ j = i + 1
    BY <1>1, <1>4
  <2>2. Has(i)
    BY <1>4, <2>1
  <2>3. g(i) \in Seq(Msg) /\ Len(g(i)) \in Nat /\ b[i + 1][2] \in Msg
    BY <1>1, <1>2, <2>1, LenProperties
  <2>4. CASE b[i + 1][1] = k
    <3> DEFINE t == Append(g(i), b[i + 1][2])
    <3>1. g(i + 1) = t
      BY <1>2, <2>1, <2>4
    <3>2. /\ Len(t) = Len(g(i)) + 1 /\ t # <<>>
          /\ \A x \in 1..Len(g(i)) : t[x] = g(i)[x]
          /\ t[Len(g(i)) + 1] = b[i + 1][2]
      BY <2>3, AppendProperties
    <3>3. \A x : x \in 1..Len(g(i)) + 1 <=> x \in 1..Len(g(i)) \/ x = Len(g(i)) + 1
      BY <2>3
    <3> HIDE DEF t
    <3>4. \A x \in 1..Len(t) : \E j \in 1..n : t[x] = b[j][2]
      BY <2>1, <2>2, <3>2, <3>3
    <3> QED
      BY <2>1, <2>4, <3>1, <3>2, <3>4
  <2>5. CASE b[i + 1][1] # k
    <3>1. g(i + 1) = g(i)
      BY <1>2, <2>1, <2>5
    <3> QED
      BY <2>1, <2>2, <2>5, <3>1
  <2> QED
    BY <2>4, <2>5
<1>5. n \in T
  <2> HIDE DEF T
  <2> QED
    BY <1>1, <1>3, <1>4, InductionOnNat
<1>6. Has(n) /\ g(n) \in Seq(Msg)
  BY <1>1, <1>2, <1>5
<1> QED
  BY <1>6 DEF g, n, GroupOf

(* Without a delete, a key has a value after its messages. *)
LEMMA AfterNoDelete ==
  ASSUME NEW group \in Seq(Msg), group # <<>>, NEW o \in Opt,
         \A x \in 1..Len(group) : group[x].kind # "del"
  PROVE  After(group, o) \in Value
<1> DEFINE n == Len(group)
           x == Run(group, o)[n-1]
           m == group[n]
<1>1. n \in Nat /\ n >= 1 /\ n \in 1..n /\ n - 1 \in 0..n
  BY LenProperties, EmptySeq
<1>2. m \in Msg /\ m.kind # "del"
  BY <1>1, ElementOfSeq
<1>3. x \in Opt /\ After(group, o) = Apply(m, x)
  BY <1>1, RunProperties DEF After
<1> HIDE DEF x, m
<1>4. CASE m.kind = "put"
  BY <1>2, <1>3, <1>4 DEF Apply, Msg
<1>5. CASE m.kind = "ups"
  <2>1. m.fn \in [Opt -> Value] /\ Apply(m, x) = m.fn[x]
    BY <1>2, <1>5, MessagesAssumption DEF Msg, Apply
  <2> QED
    BY <1>3, <2>1
<1>6. m.kind \in {"put", "del", "ups"}
  BY <1>2 DEF Msg
<1> QED
  BY <1>2, <1>4, <1>5, <1>6

(* What a folded message is once it has been applied to the leaf. *)
GroundOf(g, o) == IF g.kind = "ups" THEN MsgPut(g.fn[o], FALSE) ELSE g

(* It is a put of what the folded message makes of the key, or a delete. *)
LEMMA GroundedIs ==
  ASSUME NEW g \in FoldedMsg, NEW o \in Opt
  PROVE  /\ GroundOf(g, o) \in Ground /\ GroundOf(g, o).kind \in {"put", "del"}
         /\ GroundOf(g, o).kind = "put" =>
              GroundOf(g, o).val = Apply(g, o) /\ Apply(g, o) \in Value
         /\ GroundOf(g, o).kind = "del" => Apply(g, o) = Absent
<1> DEFINE h == GroundOf(g, o)
           x == Apply(g, o)
<1>0. h = IF g.kind = "ups" THEN MsgPut(g.fn[o], FALSE) ELSE g
  BY DEF GroundOf
<1> HIDE DEF h
<1>1. CASE g.kind = "ups"
  <2>1. g.fn \in [Opt -> Value] /\ x = g.fn[o]
    BY <1>1 DEF FoldedMsg, Apply
  <2>2. x \in Value /\ h = [kind |-> "put", val |-> x, counted |-> FALSE]
    BY <1>0, <1>1, <2>1 DEF MsgPut
  <2> HIDE DEF x
  <2>3. h.kind = "put" /\ h.val = x
    BY ONLY <2>2
  <2>4. h \in [kind : {"put"}, val : Value, counted : BOOLEAN]
    BY ONLY <2>2
  <2> QED
    BY <2>2, <2>3, <2>4 DEF h, x, Ground
<1>2. CASE g.kind = "put"
  BY <1>0, <1>2 DEF h, FoldedMsg, Apply, Ground
<1>3. CASE g.kind = "del"
  BY <1>0, <1>3 DEF h, FoldedMsg, Apply, Ground
<1> QED
  BY <1>1, <1>2, <1>3 DEF FoldedMsg

(* resolveMessages and what follows it in applyToLeaf: one message per key *)
(* of the batch, in order, that gives the key the value it should have.    *)
LEMMA ResolvedIs ==
  ASSUME TypeOK, Called, pc = "batch",
         NEW ms, ms = Grounded(resolveMessages(batch))
  PROVE  /\ ms \in Seq(Key \X Ground) /\ Len(ms) \in Nat /\ Len(ms) >= 1
         /\ \A i, j \in 1..Len(ms) : i < j => ms[i][1] < ms[j][1]
         /\ \A i \in 1..Len(ms) :
              /\ ms[i][1] \in Key /\ ms[i][2].kind \in {"put", "del"}
              /\ ms[i][2].kind = "put" =>
                   ms[i][2].val = Expected[ms[i][1]] /\ ms[i][2].val \in Value
              /\ ms[i][2].kind = "del" => Expected[ms[i][1]] = Absent
         /\ ~HasDelete => \A i \in 1..Len(ms) : ms[i][2].kind = "put"
         /\ \A k \in Key : \/ \E i \in 1..Len(ms) : ms[i][1] = k
                           \/ Expected[k] = before[k]
<1> DEFINE b == batch
           D == {b[i][1] : i \in DOMAIN b}
           n == Cardinality(D)
           ks == InOrder(D)
           g(k) == resolveKeyGroup(GroupOf(b, k))
           h(k) == IF g(k).kind = "ups" THEN MsgPut(g(k).fn[Lookup(k)], FALSE) ELSE g(k)
<1>1. /\ b \in Batches /\ before \in [Key -> Opt] /\ Written(1, Len(keys))
      /\ Cells(1, Len(keys)) = Pairs(before)
  BY DEF TypeOK, Called
<1>2. /\ Len(b) \in Nat /\ Len(b) >= 1 /\ DOMAIN b = 1..Len(b)
      /\ \A i \in 1..Len(b) : b[i][1] \in Key /\ b[i][2] \in Msg
  BY <1>1, BatchType
<1>3. D \subseteq Key /\ D # {} /\ D \subseteq Nat
  BY <1>2, KeysAreNat
<1>4. IsFiniteSet(D)
  BY <1>3, FS_Subset, LeafMergeAssumption
<1>5. \A k \in D : \E i \in 1..Len(b) : b[i][1] = k
  BY <1>2
<1>6. \A k \in Key : k \in D \/ \A i \in 1..Len(b) : b[i][1] # k
  BY <1>2
<1>7. ms = [i \in DOMAIN ks |-> <<ks[i], h(ks[i])>>]
  <2> DEFINE rm == resolveMessages(b)
  <2>1. rm = [i \in DOMAIN ks |-> <<ks[i], g(ks[i])>>]
    BY DEF resolveMessages
  <2> HIDE DEF rm, ks, g
  <2>2. /\ DOMAIN rm = DOMAIN ks
        /\ \A i \in DOMAIN ks : rm[i][1] = ks[i] /\ rm[i][2] = g(ks[i]) /\
                                rm[i] = <<ks[i], g(ks[i])>>
    BY ONLY <2>1
  <2>3. ms = [i \in DOMAIN rm |->
                IF rm[i][2].kind = "ups"
                THEN <<rm[i][1], MsgPut(rm[i][2].fn[Lookup(rm[i][1])], FALSE)>>
                ELSE rm[i]]
    BY DEF Grounded, rm
  <2> QED
    BY <2>2, <2>3
<1> HIDE DEF D, n, ks
<1>8. /\ n \in Nat /\ ks \in [1..n -> D] /\ Ascending(ks)
      /\ \A k \in D : \E i \in 1..n : ks[i] = k
  BY <1>3, <1>4, InOrderIs DEF n, ks
<1>9. n >= 1
  <2>1. PICK k \in D : TRUE
    BY <1>3
  <2>2. PICK i \in 1..n : ks[i] = k
    BY <1>8
  <2> QED
    BY <1>8
<1>10. DOMAIN ks = 1..n /\ \A i \in 1..n : ks[i] \in D /\ ks[i] \in Key
  BY <1>3, <1>8
<1>11. ASSUME NEW k \in D
       PROVE  /\ h(k) \in Ground /\ h(k).kind \in {"put", "del"}
              /\ h(k).kind = "put" => h(k).val = Expected[k] /\ Expected[k] \in Value
              /\ h(k).kind = "del" => Expected[k] = Absent
              /\ ~HasDelete => h(k).kind = "put"
  <2> DEFINE group == GroupOf(b, k)
             x == Expected[k]
             f == resolveKeyGroup(group)
             hk == h(k)
  <2>1. k \in Key /\ before[k] \in Opt
    BY <1>1, <1>3
  <2>2. group \in Seq(Msg) /\ group # <<>>
    BY <1>1, <1>5, GroupHas
  <2>3. x = After(group, before[k])
    BY <2>1 DEF Expected
  <2>4. Lookup(k) = before[k]
    BY <1>1, <2>1, LookupIs
  <2>5. f \in FoldedMsg /\ Apply(f, before[k]) = x
    BY <2>1, <2>2, <2>3, ResolveKeyGroupType, ResolveKeyGroupApplies
  <2>6. hk = IF f.kind = "ups" THEN MsgPut(f.fn[before[k]], FALSE) ELSE f
    BY <2>4
  <2> DEFINE o == before[k]
  <2> HIDE DEF x, f, hk
  <2>7. /\ hk \in Ground /\ hk.kind \in {"put", "del"}
        /\ hk.kind = "put" => hk.val = x /\ x \in Value
        /\ hk.kind = "del" => x = Absent
    <3>1. /\ f \in FoldedMsg /\ o \in Opt /\ Apply(f, o) = x
          /\ hk = GroundOf(f, o)
      BY <2>1, <2>5, <2>6 DEF GroundOf
    <3> HIDE DEF o
    <3> QED
      BY ONLY <3>1, GroundedIs
  <2>8. ASSUME ~HasDelete PROVE hk.kind = "put"
    <3>1. \A i \in 1..Len(b) : b[i][2].kind # "del"
      BY <1>2, <2>8 DEF HasDelete
    <3>2. \A y \in 1..Len(group) : group[y].kind # "del"
      <4>1. \A y \in 1..Len(group) : \E j \in 1..Len(b) : group[y] = b[j][2]
        BY <1>1, GroupHas
      <4> QED
        BY <3>1, <4>1
    <3>3. x \in Value
      BY <2>1, <2>2, <2>3, <3>2, AfterNoDelete
    <3> QED
      BY <2>7, <3>3, MessagesAssumption
  <2> QED
    BY <2>7, <2>8 DEF hk, x
<1> HIDE DEF h, b
<1>12. \A i \in 1..n : /\ ms[i] = <<ks[i], h(ks[i])>> /\ ms[i][1] = ks[i]
                       /\ ms[i][2] = h(ks[i]) /\ ms[i] \in Key \X Ground
  BY <1>7, <1>10, <1>11
<1>13. ms \in [1..n -> Key \X Ground]
  BY <1>7, <1>10, <1>12
<1>14. ms \in Seq(Key \X Ground) /\ Len(ms) = n
  BY <1>8, <1>13
<1>15. \A i, j \in 1..n : i < j => ms[i][1] < ms[j][1]
  BY <1>8, <1>10, <1>12 DEF Ascending
<1>16. \A k \in Key : (\E i \in 1..n : ms[i][1] = k) \/ Expected[k] = before[k]
  <2> SUFFICES ASSUME NEW k \in Key
               PROVE  (\E i \in 1..n : ms[i][1] = k) \/ Expected[k] = before[k]
    OBVIOUS
  <2>1. CASE k \in D
    BY <1>8, <1>12, <2>1
  <2>2. CASE \A i \in 1..Len(b) : b[i][1] # k
    <3>1. GroupOf(batch, k) = <<>>
      BY <1>1, <2>2, GroupHas DEF b
    <3>2. Expected[k] = After(<<>>, before[k]) /\ before[k] \in Opt
      BY <1>1, <3>1 DEF Expected
    <3> QED
      BY <3>2, AfterNone
  <2> QED
    BY <1>6, <2>1, <2>2
<1>17. \A i \in 1..n :
         /\ ms[i][1] \in Key /\ ms[i][2].kind \in {"put", "del"}
         /\ ms[i][2].kind = "put" =>
              ms[i][2].val = Expected[ms[i][1]] /\ ms[i][2].val \in Value
         /\ ms[i][2].kind = "del" => Expected[ms[i][1]] = Absent
  BY <1>10, <1>11, <1>12
<1>18. ~HasDelete => \A i \in 1..n : ms[i][2].kind = "put"
  BY <1>10, <1>11, <1>12
<1> QED
  BY <1>8, <1>9, <1>14, <1>15, <1>16, <1>17, <1>18

(* The puts among messages, and the keys of messages. *)
PutsOf(ms, from, to) ==
  {<<ms[i][1], ms[i][2].val>> : i \in {x \in from..to : ms[x][2].kind = "put"}}
KeysOf(ms, from, to) == {ms[i][1] : i \in from..to}

(* The keys that are put, when all messages are puts. *)
LEMMA KeysOfPuts ==
  ASSUME NEW ms, NEW a, NEW b, \A i \in a..b : ms[i][2].kind = "put"
  PROVE  KeysIn(PutsOf(ms, a, b)) = KeysOf(ms, a, b)
<1>1. ASSUME NEW e \in PutsOf(ms, a, b) PROVE e[1] \in KeysOf(ms, a, b)
  BY <1>1 DEF PutsOf, KeysOf
<1>2. ASSUME NEW k \in KeysOf(ms, a, b) PROVE \E e \in PutsOf(ms, a, b) : e[1] = k
  <2>1. PICK i \in a..b : k = ms[i][1]
    BY <1>2 DEF KeysOf
  <2>2. <<ms[i][1], ms[i][2].val>> \in PutsOf(ms, a, b)
    BY DEF PutsOf
  <2> QED
    BY <2>1, <2>2
<1> QED
  BY <1>1, <1>2 DEF KeysIn

(* The resolved messages make of the leaf what the batch makes of it. *)
LEMMA ResolvedOutcome ==
  ASSUME NEW ms, NEW n, before \in [Key -> Opt],
         \A i \in 1..n :
           /\ ms[i][1] \in Key /\ ms[i][2].kind \in {"put", "del"}
           /\ ms[i][2].kind = "put" =>
                ms[i][2].val = Expected[ms[i][1]] /\ ms[i][2].val \in Value
           /\ ms[i][2].kind = "del" => Expected[ms[i][1]] = Absent,
         \A k \in Key : (\E i \in 1..n : ms[i][1] = k) \/ Expected[k] = before[k]
  PROVE  PutsOf(ms, 1, n) \cup Except(Pairs(before), KeysOf(ms, 1, n)) = Pairs(Expected)
<1> DEFINE new == PutsOf(ms, 1, n) \cup Except(Pairs(before), KeysOf(ms, 1, n))
<1>1. ASSUME NEW e \in PutsOf(ms, 1, n) PROVE e \in Pairs(Expected)
  <2>1. PICK i \in 1..n : ms[i][2].kind = "put" /\ e = <<ms[i][1], ms[i][2].val>>
    BY <1>1 DEF PutsOf
  <2>2. /\ ms[i][1] \in Key /\ e = <<ms[i][1], Expected[ms[i][1]]>>
        /\ Expected[ms[i][1]] # Absent
    BY <2>1, MessagesAssumption
  <2> QED
    BY <2>2 DEF Pairs
<1>2. ASSUME NEW e \in Except(Pairs(before), KeysOf(ms, 1, n)) PROVE e \in Pairs(Expected)
  <2>1. PICK k \in Key : before[k] # Absent /\ e = <<k, before[k]>>
    BY <1>2 DEF Pairs, Except
  <2>2. k \notin KeysOf(ms, 1, n)
    BY <1>2, <2>1 DEF Except
  <2>3. Expected[k] = before[k]
    BY <2>2 DEF KeysOf
  <2> QED
    BY <2>1, <2>3 DEF Pairs
<1>3. ASSUME NEW e \in Pairs(Expected) PROVE e \in new
  <2>1. PICK k \in Key : Expected[k] # Absent /\ e = <<k, Expected[k]>>
    BY <1>3 DEF Pairs
  <2>2. CASE k \in KeysOf(ms, 1, n)
    <3>1. PICK i \in 1..n : ms[i][1] = k
      BY <2>2 DEF KeysOf
    <3>2. ms[i][2].kind = "put" /\ ms[i][2].val = Expected[k]
      BY <2>1, <3>1
    <3>3. e \in PutsOf(ms, 1, n)
      BY <2>1, <3>1, <3>2 DEF PutsOf
    <3> QED
      BY <3>3
  <2>3. CASE k \notin KeysOf(ms, 1, n)
    <3>1. Expected[k] = before[k]
      BY <2>3 DEF KeysOf
    <3>2. e \in Pairs(before)
      BY <2>1, <3>1 DEF Pairs
    <3>3. e[1] = k
      BY <2>1
    <3> QED
      BY <2>3, <3>2, <3>3 DEF Except
  <2> QED
    BY <2>2, <2>3
<1> QED
  BY <1>1, <1>2, <1>3

(* applyToLeaf up to the choice of a merge: the messages are ready. *)
LEMMA ResolveKeeps ==
  ASSUME IInv, Resolve
  PROVE  IInv'
<1> DEFINE n == Len(msgs')
           L == Len(keys)
<1>1. /\ pc = "batch" /\ msgs' = Grounded(resolveMessages(batch))
      /\ \/ ~HasDelete /\ AllAbove(msgs'[1][1]) /\ pc' = "append"
         \/ ~HasDelete /\ ~AllAbove(msgs'[1][1]) /\ pc' = "grow"
         \/ HasDelete /\ pc' = "compact"
      /\ UNCHANGED <<before, batch, keys, values, li, mi, w, numNew, r, p, overwrites>>
  BY DEF Resolve, leaf, loop
<1>2. /\ TypeOK /\ Called /\ before \in [Key -> Opt] /\ Written(1, L)
      /\ Cells(1, L) = Pairs(before) /\ li = 1 /\ mi = 1 /\ w = 0 /\ numNew = 0
  BY <1>1 DEF IInv, TypeOK, Called
<1>3. /\ msgs' \in Seq(Key \X Ground) /\ n \in Nat /\ n >= 1
      /\ \A i, j \in 1..n : i < j => msgs'[i][1] < msgs'[j][1]
      /\ \A i \in 1..n :
           /\ msgs'[i][1] \in Key /\ msgs'[i][2].kind \in {"put", "del"}
           /\ msgs'[i][2].kind = "put" =>
                msgs'[i][2].val = Expected[msgs'[i][1]] /\ msgs'[i][2].val \in Value
           /\ msgs'[i][2].kind = "del" => Expected[msgs'[i][1]] = Absent
      /\ ~HasDelete => \A i \in 1..n : msgs'[i][2].kind = "put"
      /\ \A k \in Key : (\E i \in 1..n : msgs'[i][1] = k) \/ Expected[k] = before[k]
  BY <1>1, <1>2, ResolvedIs
<1>4. L \in Nat /\ keys \in Seq(Key) /\ \A i \in 1..L : keys[i] \in Nat
  <2>1. L \in Nat /\ keys \in Seq(Key)
    BY <1>2, TableIs DEF TypeOK, Written
  <2> QED
    BY <2>1, KeysAreNat, ElementOfSeq
<1>5. PutsOf(msgs', 1, n) \cup Except(Cells(1, L), KeysOf(msgs', 1, n)) = Pairs(Expected)
  <2> HIDE DEF n
  <2> QED
    BY <1>2, <1>3, ResolvedOutcome
<1>6. TypeOK'
  BY <1>1, <1>2 DEF TypeOK
<1>7. Written(1, Len(keys))' /\ Cells(1, Len(keys))' = Cells(1, L) /\ Expected' = Expected
  BY <1>1, <1>2 DEF Written, Table, Cells, Expected
<1>8. Ordered(1, Len(msgs))'
  BY <1>3 DEF Ordered
<1>9. PutsIn(1, Len(msgs))' = PutsOf(msgs', 1, n)
  BY DEF PutsIn, PutsOf
<1>10. CASE ~HasDelete /\ pc' \in {"append", "grow"} /\ (pc' = "append" => AllAbove(msgs'[1][1]))
  <2>1. \A i \in 1..n : msgs'[i][2].kind = "put"
    BY <1>3, <1>10
  <2>2. AllPuts(1, Len(msgs))'
    BY <2>1 DEF AllPuts
  <2>3. ASSUME pc' = "append", NEW i \in 1..L, NEW j \in 1..n PROVE keys[i] < msgs'[j][1]
    <3>1. keys # <<>> /\ msgs'[1][1] > Last(keys)
      BY <1>10, <2>3 DEF AllAbove
    <3>2. Last(keys) = keys[L] /\ L \in 1..L
      BY <1>4, <2>3 DEF Last
    <3>3. keys[i] <= keys[L]
      BY <1>2, <1>4, <3>2 DEF Written, Table
    <3>4. 1 \in 1..n /\ msgs'[1][1] \in Nat /\ msgs'[j][1] \in Nat
      BY <1>3, KeysAreNat
    <3>5. msgs'[1][1] <= msgs'[j][1]
      BY <1>3, <3>4
    <3> QED
      BY <1>4, <3>1, <3>2, <3>3, <3>4, <3>5
  <2>4. Adding'
    BY <1>1, <1>7, <1>8, <2>2, <2>3 DEF Adding
  <2>5. NothingLost'
    <3>1. Outcome' = PutsIn(1, Len(msgs))' \cup
                       Except(Cells(1, Len(keys))', KeysIn(PutsIn(1, Len(msgs))'))
      BY <1>10 DEF Outcome, Except, KeysIn
    <3>2. KeysIn(PutsOf(msgs', 1, n)) = KeysOf(msgs', 1, n)
      BY <2>1, KeysOfPuts
    <3>3. Outcome' = Pairs(Expected)
      BY <1>5, <1>7, <1>9, <3>1, <3>2
    <3> QED
      BY <1>7, <3>3 DEF NothingLost, Pairs
  <2> QED
    BY <1>3, <1>6, <1>10, <2>4, <2>5
    DEF IInv, Labels, Applying, Called, Compacting, Merging
<1>11. CASE HasDelete /\ pc' = "compact"
  <2>1. li' = 1 /\ mi' = 1 /\ w' = 0 /\ numNew' = 0
    BY <1>1, <1>2
  <2>2. 1..0 = {}
    OBVIOUS
  <2>3. Written(1, w)' /\ Ordered(1, numNew)' /\ AllPuts(1, numNew)'
    BY <2>1, <2>2 DEF Written, Table, Ordered, AllPuts
  <2>4. Compacting'
    <3>1. li' \in 1..Len(keys') + 1 /\ mi' \in 1..n + 1 /\ w' < li' /\ numNew' < mi'
      BY <1>1, <1>3, <1>4, <2>1
    <3>2. Written(li, Len(keys))' /\ Ordered(mi, Len(msgs))'
      BY <1>7, <1>8, <2>1 DEF Written, Table, Ordered
    <3> QED
      BY <2>1, <2>2, <2>3, <3>1, <3>2 DEF Compacting
  <2>5. NothingLost'
    <3>1. Outcome' = Cells(1, w)' \cup PutsIn(1, numNew)' \cup PutsIn(mi, Len(msgs))' \cup
            Except(Cells(li, Len(keys))', KeysOf(msgs', mi', n))
      BY <1>11 DEF Outcome, Except, KeysOf
    <3>2. Cells(1, w)' = {} /\ PutsIn(1, numNew)' = {}
      BY <2>1, <2>2 DEF Cells, PutsIn
    <3>3. Cells(li, Len(keys))' = Cells(1, L) /\ PutsIn(mi, Len(msgs))' = PutsOf(msgs', 1, n)
      BY <1>1, <2>1 DEF Cells, PutsIn, PutsOf
    <3>4. Outcome' = Pairs(Expected)
      BY <1>5, <2>1, <3>1, <3>2, <3>3
    <3> QED
      BY <1>7, <3>4 DEF NothingLost, Pairs
  <2> QED
    BY <1>3, <1>6, <1>11, <2>4, <2>5
    DEF IInv, Labels, Applying, Called, Adding, Merging
<1> QED
  BY <1>1, <1>10, <1>11

-----------------------------------------------------------------------------
(* New keys above the leaf's, and the room for a merge. *)

(* What the messages of a merge are. *)
LEMMA MsgsAre ==
  ASSUME NEW ms \in Seq(Key \X Ground)
  PROVE  /\ Len(ms) \in Nat /\ DOMAIN ms = 1..Len(ms)
         /\ \A i \in 1..Len(ms) :
              /\ ms[i][1] \in Key /\ ms[i][1] \in Nat
              /\ ms[i][2].kind \in {"put", "del"}
              /\ ms[i][2].kind = "put" => ms[i][2].val \in Value
<1>1. Len(ms) \in Nat /\ DOMAIN ms = 1..Len(ms) /\ \A i \in 1..Len(ms) : ms[i] \in Key \X Ground
  BY LenProperties, ElementOfSeq
<1>2. \A e \in Key \X Ground : /\ e[1] \in Key /\ e[1] \in Nat /\ e[2].kind \in {"put", "del"}
                               /\ e[2].kind = "put" => e[2].val \in Value
  <2> SUFFICES ASSUME NEW k \in Key, NEW g \in Ground
               PROVE  /\ k \in Nat /\ g.kind \in {"put", "del"}
                      /\ g.kind = "put" => g.val \in Value
    OBVIOUS
  <2> QED
    BY KeysAreNat DEF Ground
<1> QED
  BY <1>1, <1>2

(* The elements of two sequences, one after the other. *)
LEMMA ConcatIs ==
  ASSUME NEW S, NEW s \in Seq(S), NEW t \in Seq(S)
  PROVE  /\ s \o t \in Seq(S) /\ Len(s \o t) = Len(s) + Len(t)
         /\ \A i \in 1..Len(s) : (s \o t)[i] = s[i]
         /\ \A i \in 1..Len(t) : (s \o t)[i + Len(s)] = t[i]
<1> DEFINE m == Len(s)
           n == Len(t)
<1>1. m \in Nat /\ n \in Nat
  BY LenProperties
<1>2. /\ s \o t \in Seq(S) /\ Len(s \o t) = m + n
      /\ \A i \in 1..m+n : (s \o t)[i] = IF i <= m THEN s[i] ELSE t[i - m]
  BY ConcatProperties
<1> HIDE DEF m, n
<1>3. \A i \in 1..m : (s \o t)[i] = s[i]
  BY <1>1, <1>2
<1>4. \A i \in 1..n : (s \o t)[i + m] = t[i]
  <2> SUFFICES ASSUME NEW i \in 1..n PROVE (s \o t)[i + m] = t[i]
    OBVIOUS
  <2>1. i + m \in 1..m+n /\ ~(i + m <= m) /\ (i + m) - m = i
    BY <1>1
  <2> QED
    BY <1>2, <2>1
<1> QED
  BY <1>2, <1>3, <1>4 DEF m, n

(* appendToLeaf: the puts follow the leaf's entries. *)
LEMMA AppendKeeps ==
  ASSUME IInv, appendToLeaf
  PROVE  IInv'
<1> DEFINE L == Len(keys)
           n == Len(msgs)
           mk == [i \in DOMAIN msgs |-> msgs[i][1]]
           mv == [i \in DOMAIN msgs |-> msgs[i][2].val]
           up == L + 1
           all == L + n
<1>1. /\ pc = "append" /\ keys' = keys \o mk /\ values' = values \o mv /\ pc' = "done"
      /\ UNCHANGED <<before, batch, msgs, li, mi, w, numNew, r, p, overwrites>>
  BY DEF appendToLeaf, loop
<1>2. /\ TypeOK /\ msgs \in Seq(Key \X Ground) /\ Written(1, L) /\ NothingLost
      /\ \A i, j \in 1..n : i < j => msgs[i][1] < msgs[j][1]
      /\ \A i \in 1..n : msgs[i][2].kind = "put"
      /\ \A i \in 1..L, j \in 1..n : keys[i] < msgs[j][1]
  BY <1>1 DEF IInv, Adding, Ordered, AllPuts
<1>3. /\ L \in Nat /\ keys \in Seq(Key) /\ values \in Seq(Value) /\ Len(values) = L
      /\ Table(keys, values, 1, L)
  BY <1>2, TableIs DEF TypeOK, Written
<1>4. /\ n \in Nat /\ DOMAIN msgs = 1..n
      /\ \A i \in 1..n : msgs[i][1] \in Key /\ msgs[i][2].val \in Value
  BY <1>2, MsgsAre
<1>5. mk \in [1..n -> Key] /\ mv \in [1..n -> Value]
  BY <1>4
<1>6. \A i \in 1..n : mk[i] = msgs[i][1] /\ mv[i] = msgs[i][2].val
  BY <1>4
<1>7. mk \in Seq(Key) /\ mv \in Seq(Value) /\ Len(mk) = n /\ Len(mv) = n
  BY <1>4, <1>5
<1> HIDE DEF mk, mv, n, L
<1>8. /\ keys' \in Seq(Key) /\ Len(keys') = L + n
      /\ \A i \in 1..L : keys'[i] = keys[i]
      /\ \A i \in 1..n : keys'[i + L] = mk[i]
  <2>1. /\ keys \o mk \in Seq(Key) /\ Len(keys \o mk) = Len(keys) + Len(mk)
        /\ \A i \in 1..Len(keys) : (keys \o mk)[i] = keys[i]
        /\ \A i \in 1..Len(mk) : (keys \o mk)[i + Len(keys)] = mk[i]
    BY <1>3, <1>7, ConcatIs
  <2> QED
    BY <1>1, <1>7, <2>1 DEF L
<1>9. /\ values' \in Seq(Value) /\ Len(values') = L + n
      /\ \A i \in 1..L : values'[i] = values[i]
      /\ \A i \in 1..n : values'[i + L] = mv[i]
  <2>1. /\ values \o mv \in Seq(Value) /\ Len(values \o mv) = Len(values) + Len(mv)
        /\ \A i \in 1..Len(values) : (values \o mv)[i] = values[i]
        /\ \A i \in 1..Len(mv) : (values \o mv)[i + Len(values)] = mv[i]
    <3>1. values \in Seq(Value) /\ mv \in Seq(Value)
      BY <1>3, <1>7
    <3> QED
      BY ONLY <3>1, ConcatIs
  <2> QED
    BY <1>1, <1>3, <1>7, <2>1
<1>10. Entries(keys', values', 1, L) = Entries(keys, values, 1, L) /\ Table(keys', values', 1, L)
  BY <1>3, <1>8, <1>9 DEF Entries, Table
<1>11. Table(mk, mv, 1, n)
  BY <1>2, <1>4, <1>6 DEF Table, n
<1>12. /\ up \in Int /\ all \in Int /\ up = L + 1 /\ all = L + n /\ L <= all /\ 1 <= L + 1
       /\ up = 1 + L /\ all = n + L
  BY <1>3, <1>4
<1> HIDE DEF up, all
<1>13. Entries(keys', values', up, all) = Entries(mk, mv, 1, n) /\ Table(keys', values', up, all)
  <2>1. \A i \in 1..n : keys'[i + L] = mk[i] /\ values'[i + L] = mv[i]
    BY <1>8, <1>9
  <2>2. /\ Entries(keys', values', up, all) = Entries(mk, mv, 1, n)
        /\ Table(keys', values', up, all) <=> Table(mk, mv, 1, n)
    <3>1. n \in Int /\ L \in Int /\ up = 1 + L /\ all = n + L
      BY <1>3, <1>4, <1>12
    <3> QED
      BY ONLY <2>1, <3>1, TableMoveFirst
  <2> QED
    BY <1>11, <2>2
<1>14. \A i \in 1..L, j \in up..all : keys'[i] < keys'[j]
  <2> SUFFICES ASSUME NEW i \in 1..L, NEW j \in up..all PROVE keys'[i] < keys'[j]
    OBVIOUS
  <2>1. j - L \in 1..n /\ (j - L) + L = j
    BY <1>3, <1>4, <1>12
  <2>2. keys'[j] = msgs[j - L][1] /\ keys'[i] = keys[i]
    BY <1>6, <1>8, <2>1
  <2> QED
    BY <1>2, <2>1, <2>2 DEF L, n
<1>15. /\ Table(keys', values', 1, all)
       /\ Entries(keys', values', 1, all) =
            Entries(keys, values, 1, L) \cup Entries(mk, mv, 1, n)
  <2>1. /\ Entries(keys', values', 1, all) =
             Entries(keys', values', 1, L) \cup Entries(keys', values', up, all)
        /\ Table(keys', values', 1, all) <=>
             /\ Table(keys', values', 1, L) /\ Table(keys', values', up, all)
             /\ \A i \in 1..L, j \in up..all : keys'[i] < keys'[j]
    <3>1. L \in Int /\ all \in Int /\ 0 <= L /\ L <= all /\ up = L + 1
      BY <1>3, <1>12
    <3>2. Entries(keys', values', 1, all) =
            Entries(keys', values', 1, L) \cup Entries(keys', values', up, all)
      BY ONLY <3>1, TableJoinFirst
    <3>3. Table(keys', values', 1, all) <=>
            /\ Table(keys', values', 1, L) /\ Table(keys', values', up, all)
            /\ \A i \in 1..L, j \in up..all : keys'[i] < keys'[j]
      BY ONLY <3>1, TableJoinFirst
    <3> QED
      BY ONLY <3>2, <3>3
  <2> QED
    BY <1>10, <1>13, <1>14, <2>1
<1>16. Len(keys') = all
  BY <1>8, <1>12
<1>17. TypeOK' /\ Written(1, Len(keys))'
  <2>1. TypeOK'
    BY <1>1, <1>2, <1>8, <1>9, NoJunk, ZenonT(30) DEF TypeOK
  <2>2. Written(1, Len(keys))'
    BY <1>15, <1>16 DEF Written
  <2> QED
    BY <2>1, <2>2
<1>18. NothingLost'
  <2>1. PutsIn(1, n) = Entries(mk, mv, 1, n)
    BY <1>2, <1>6 DEF PutsIn, Entries, n
  <2>2. Outcome = PutsIn(1, n) \cup Except(Cells(1, L), KeysIn(PutsIn(1, n)))
    BY <1>1 DEF Outcome, n, L
  <2>3. Except(Cells(1, L), KeysIn(PutsIn(1, n))) = Cells(1, L)
    <3> SUFFICES ASSUME NEW e \in Cells(1, L), NEW f \in PutsIn(1, n) PROVE e[1] # f[1]
      BY DEF Except, KeysIn
    <3>1. PICK i \in 1..L : e = <<keys[i], values[i]>>
      BY DEF Cells
    <3>2. PICK j \in 1..n : f = <<msgs[j][1], msgs[j][2].val>>
      BY DEF PutsIn
    <3>3. keys[i] < msgs[j][1] /\ keys[i] \in Nat
      BY <1>2, <1>3, KeysAreNat DEF L, n, Table
    <3>4. e[1] = keys[i] /\ f[1] = msgs[j][1]
      BY <3>1, <3>2
    <3> QED
      BY <3>3, <3>4
  <2>4. Outcome' = Entries(keys', values', 1, all)
    BY <1>1, <1>16 DEF Outcome, Cells, Entries
  <2>5. Cells(1, L) = Entries(keys, values, 1, L)
    BY DEF Cells, Entries
  <2>6. Outcome' = Outcome
    BY <1>15, <2>1, <2>2, <2>3, <2>4, <2>5
  <2>7. Expected' = Expected
    BY <1>1 DEF Expected
  <2> QED
    BY <1>1, <1>2, <2>6, <2>7 DEF NothingLost
<1> QED
  BY <1>1, <1>2, <1>17, <1>18 DEF IInv, Labels, Applying, Called, Adding, Compacting, Merging

(* slices.Grow: the room for the puts lies behind the leaf's entries. *)
LEMMA GrowKeeps ==
  ASSUME IInv, GrowLeaf
  PROVE  IInv'
<1> DEFINE L == Len(keys)
           n == Len(msgs)
           more == [i \in DOMAIN msgs |-> Junk]
<1>1. /\ pc = "grow" /\ keys' = keys \o more /\ values' = values \o more
      /\ w' = L + n /\ r' = L /\ p' = n /\ overwrites' = 0 /\ pc' = "merge"
      /\ UNCHANGED <<before, batch, msgs, li, mi, numNew>>
  BY DEF GrowLeaf
<1>2. /\ TypeOK /\ msgs \in Seq(Key \X Ground) /\ Written(1, L) /\ NothingLost
      /\ Ordered(1, n) /\ AllPuts(1, n)
  BY <1>1 DEF IInv, Adding
<1>3. /\ L \in Nat /\ keys \in Seq(Key \cup {Junk}) /\ values \in Seq(Value \cup {Junk})
      /\ Len(values) = L /\ DOMAIN keys = 1..L
      /\ \A i \in DOMAIN keys : keys[i] = Junk <=> values[i] = Junk
  BY <1>2, LenProperties DEF TypeOK
<1>4. n \in Nat /\ DOMAIN msgs = 1..n
  BY <1>2, MsgsAre
<1>5. more \in [1..n -> {Junk}]
  BY <1>4
<1>6. /\ more \in Seq(Key \cup {Junk}) /\ more \in Seq(Value \cup {Junk}) /\ Len(more) = n
      /\ \A i \in 1..n : more[i] = Junk
  BY <1>4, <1>5
<1> HIDE DEF more, n, L
<1>7. /\ keys' \in Seq(Key \cup {Junk}) /\ Len(keys') = L + n
      /\ \A i \in 1..L+n : keys'[i] = IF i <= L THEN keys[i] ELSE more[i - L]
  BY <1>1, <1>3, <1>6, ConcatProperties, ZenonT(30) DEF L
<1>8. /\ values' \in Seq(Value \cup {Junk}) /\ Len(values') = L + n
      /\ \A i \in 1..L+n : values'[i] = IF i <= L THEN values[i] ELSE more[i - L]
  BY <1>1, <1>3, <1>6, ConcatProperties
<1>9. \A i \in 1..L : keys'[i] = keys[i] /\ values'[i] = values[i]
  BY <1>3, <1>4, <1>7, <1>8
<1>10. TypeOK'
  <2>1. ASSUME NEW i \in DOMAIN keys' PROVE keys'[i] = Junk <=> values'[i] = Junk
    <3>1. i \in 1..L+n
      BY <1>7
    <3>2. CASE i <= L
      <4>1. i \in DOMAIN keys
        BY <1>3, <1>4, <3>1, <3>2
      <4> QED
        BY <1>3, <1>7, <1>8, <3>1, <3>2, <4>1
    <3>3. CASE ~(i <= L)
      BY <1>7, <1>8, <3>1, <3>3
    <3> QED
      BY <3>2, <3>3
  <2>2. {li, mi, w, numNew, r, p, overwrites}' \subseteq Nat
    BY <1>1, <1>2, <1>3, <1>4 DEF TypeOK
  <2> QED
    BY <1>1, <1>2, <1>7, <1>8, <2>1, <2>2 DEF TypeOK
<1>11. w' + 1..Len(keys') = {}
  BY <1>1, <1>3, <1>4, <1>7
<1>12. Merging'
  <2>1. /\ w' = r' + p' + overwrites' /\ w' <= Len(keys') /\ p' <= Len(msgs')
    BY <1>1, <1>3, <1>4, <1>7 DEF n
  <2>2. Written(1, r)' /\ Written(w + 1, Len(keys))'
    BY <1>1, <1>2, <1>9, <1>11 DEF Written, Table
  <2>3. Ordered(1, p)' /\ AllPuts(1, p)'
    BY <1>1, <1>2 DEF Ordered, AllPuts
  <2> QED
    BY <1>11, <2>1, <2>2, <2>3 DEF Merging
<1>13. NothingLost'
  <2>1. Outcome = PutsIn(1, n) \cup Except(Cells(1, L), KeysIn(PutsIn(1, n)))
    BY <1>1 DEF Outcome, n, L
  <2>2. Outcome' = Cells(w + 1, Len(keys))' \cup PutsIn(1, p)' \cup
                     Except(Cells(1, r)', KeysIn(PutsIn(1, p)'))
    BY <1>1 DEF Outcome, Except, KeysIn
  <2>3. /\ Cells(w + 1, Len(keys))' = {} /\ PutsIn(1, p)' = PutsIn(1, n)
        /\ Cells(1, r)' = Cells(1, L)
    BY <1>1, <1>9, <1>11 DEF Cells, PutsIn
  <2>4. Outcome' = Outcome /\ Expected' = Expected
    BY <1>1, <2>1, <2>2, <2>3 DEF Expected
  <2> QED
    BY <1>1, <1>2, <2>4 DEF NothingLost
<1> QED
  BY <1>1, <1>2, <1>10, <1>12, <1>13 DEF IInv, Labels, Applying, Called, Adding, Compacting

-----------------------------------------------------------------------------
(* mergeLeafPuts. *)

(* slices.BinarySearchFunc finds the first key that is not below k. *)
LEMMA PositionIs ==
  ASSUME NEW n \in Nat, NEW k \in Nat, \A i \in 1..n : keys[i] \in Nat
  PROVE  /\ Position(n, k) \in 1..n+1
         /\ \A j \in 1..Position(n, k)-1 : keys[j] < k
         /\ Position(n, k) <= n => keys[Position(n, k)] >= k
<1> DEFINE T == {i \in 1..n+1 : i = n + 1 \/ keys[i] >= k}
<1>1. n + 1 \in T /\ T \subseteq Nat
  OBVIOUS
<1>2. PICK i \in T : \A j \in T : i <= j
  BY <1>1, LeastNat
<1>3. i \in 1..n+1 /\ (i <= n => keys[i] >= k)
  BY <1>2
<1>4. \A j \in 1..i-1 : keys[j] < k
  <2> SUFFICES ASSUME NEW j \in 1..i-1 PROVE keys[j] < k
    OBVIOUS
  <2>1. j \in 1..n /\ j \in 1..n+1 /\ ~(i <= j)
    BY <1>3
  <2>2. j \notin T
    BY <1>2, <2>1
  <2> QED
    BY <2>1, <2>2
<1>5. \E x \in 1..n+1 : (\A j \in 1..x-1 : keys[j] < k) /\ (x <= n => keys[x] >= k)
  BY <1>3, <1>4
<1>6. Position(n, k) = CHOOSE x \in 1..n+1 : /\ \A j \in 1..x-1 : keys[j] < k
                                             /\ x <= n => keys[x] >= k
  BY DEF Position
<1> QED
  BY <1>5, <1>6

(* Array s2 is s with e in cell c and the cells up to w0 moved up from r0. *)
IsShifted(s, s2, c, w0, r0, end, e) ==
  \A j \in 1..end : s2[j] = IF j = c THEN e
                            ELSE IF c < j /\ j <= w0 THEN s[j - w0 + r0] ELSE s[j]

(* The keys of the cells a..b are below those of the cells c..d; k is. *)
AreBelow(ks, a, b, c, d) == \A i \in a..b, j \in c..d : ks[i] < ks[j]
IsBelow(k, ks, a, b) == \A j \in a..b : k < ks[j]

(* What the leaf's arrays are after that. *)
TableShifted(ks, vs, ks2, vs2, from, r0, w1, end, c, k, v) ==
  /\ Table(ks2, vs2, c, end)
  /\ Entries(ks2, vs2, c, end) =
       {<<k, v>>} \cup Entries(ks, vs, from, r0) \cup Entries(ks, vs, w1, end)
  /\ \A j \in 1..c-1 : ks2[j] = ks[j] /\ vs2[j] = vs[j]

ArrayShifted(S, s, from, e, c) ==
  /\ Shifted(s, from, e) \in Seq(S) /\ Len(Shifted(s, from, e)) = Len(s)
  /\ IsShifted(s, Shifted(s, from, e), c, w, r, Len(s), e)

(***************************************************************************)
(* Cells from..r0 move up to end at w0, with a new entry before them: with *)
(* what was written already they are a table that starts with the entry.   *)
(***************************************************************************)
LEMMA ShiftedCells ==
  ASSUME NEW ks, NEW vs, NEW ks2, NEW vs2, NEW from \in Int, NEW r0 \in Int,
         NEW w0 \in Int, NEW end \in Int, NEW c \in Int, NEW k \in Key, NEW v \in Value,
         1 <= from, from <= r0 + 1, r0 < w0, w0 <= end, c = w0 - (r0 - from + 1),
         IsShifted(ks, ks2, c, w0, r0, end, k), IsShifted(vs, vs2, c, w0, r0, end, v),
         NEW w1, w1 = w0 + 1, Table(ks, vs, from, r0), Table(ks, vs, w1, end),
         AreBelow(ks, from, r0, w1, end), IsBelow(k, ks, from, r0), IsBelow(k, ks, w1, end)
  PROVE  TableShifted(ks, vs, ks2, vs2, from, r0, w1, end, c, k, v)
<1> DEFINE d == w0 - r0
           c1 == c + 1
<1> USE DEF IsShifted, AreBelow, IsBelow
<1>1. /\ d \in Int /\ c1 \in Int /\ c1 = from + d /\ w0 = r0 + d /\ c1 = c + 1 /\ w1 = w0 + 1
      /\ c >= from /\ c <= w0 /\ c <= end /\ c1 <= w0 + 1 /\ w0 <= end /\ w1 \in Int
  OBVIOUS
<1> HIDE DEF d, c1
<1>2. \A j \in from..r0 : ks2[j + d] = ks[j] /\ vs2[j + d] = vs[j]
  <2> SUFFICES ASSUME NEW j \in from..r0 PROVE ks2[j + d] = ks[j] /\ vs2[j + d] = vs[j]
    OBVIOUS
  <2>1. /\ j + d \in 1..end /\ j + d # c /\ c < j + d /\ j + d <= w0
        /\ (j + d) - w0 + r0 = j
    BY <1>1
  <2> QED
    BY <2>1
<1>3. Entries(ks2, vs2, c1, w0) = Entries(ks, vs, from, r0) /\ Table(ks2, vs2, c1, w0)
  <2>1. /\ Entries(ks2, vs2, c1, w0) = Entries(ks, vs, from, r0)
        /\ Table(ks2, vs2, c1, w0) <=> Table(ks, vs, from, r0)
    <3>0. Moved(ks, vs, ks2, vs2, from, r0, d)
      BY <1>2 DEF Moved
    <3>1. from \in Int /\ r0 \in Int /\ d \in Int /\ c1 = from + d /\ w0 = r0 + d
      BY <1>1
    <3>2. Entries(ks2, vs2, c1, w0) = Entries(ks, vs, from, r0)
      BY ONLY <3>0, <3>1, TableMove
    <3>3. Table(ks2, vs2, c1, w0) <=> Table(ks, vs, from, r0)
      BY ONLY <3>0, <3>1, TableMove
    <3> QED
      BY ONLY <3>2, <3>3
  <2> QED
    BY <2>1
<1>4. \A j \in w1..end : ks2[j] = ks[j] /\ vs2[j] = vs[j]
  <2> SUFFICES ASSUME NEW j \in w1..end PROVE ks2[j] = ks[j] /\ vs2[j] = vs[j]
    OBVIOUS
  <2>1. j \in 1..end /\ j # c /\ ~(j <= w0)
    BY <1>1
  <2> QED
    BY <2>1
<1>5. Entries(ks2, vs2, w1, end) = Entries(ks, vs, w1, end) /\ Table(ks2, vs2, w1, end)
  BY <1>4 DEF Entries, Table
<1>6. \A i \in c1..w0 : \E x \in from..r0 : ks2[i] = ks[x]
  <2> SUFFICES ASSUME NEW i \in c1..w0 PROVE \E x \in from..r0 : ks2[i] = ks[x]
    OBVIOUS
  <2>1. i - d \in from..r0 /\ (i - d) + d = i
    BY <1>1
  <2>2. ks2[(i - d) + d] = ks[i - d]
    BY <1>2, <2>1
  <2> QED
    BY <2>1, <2>2
<1>7. \A i \in c1..w0, j \in w1..end : ks2[i] < ks2[j]
  BY <1>4, <1>6
<1>8. /\ Entries(ks2, vs2, c1, end) = Entries(ks, vs, from, r0) \cup Entries(ks, vs, w1, end)
      /\ Table(ks2, vs2, c1, end)
  <2>0. c1 \in Int /\ w0 \in Int /\ end \in Int /\ c1 <= w0 + 1 /\ w0 <= end /\ w1 = w0 + 1
    BY <1>1
  <2>1. Entries(ks2, vs2, c1, end) = Entries(ks2, vs2, c1, w0) \cup Entries(ks2, vs2, w1, end)
    BY <2>0, TableJoin
  <2>2. Table(ks2, vs2, c1, end) <=>
          /\ Table(ks2, vs2, c1, w0) /\ Table(ks2, vs2, w1, end)
          /\ \A i \in c1..w0, j \in w1..end : ks2[i] < ks2[j]
    BY <2>0, TableJoin
  <2> QED
    BY <1>3, <1>5, <1>7, <2>1, <2>2
<1>9. c \in 1..end /\ ks2[c] = k /\ vs2[c] = v /\ \A i : i \in c..c <=> i = c
  BY <1>1
<1>10. Entries(ks2, vs2, c, c) = {<<k, v>>} /\ Table(ks2, vs2, c, c)
  BY <1>9 DEF Entries, Table
<1>11. \A j \in c1..end : k < ks2[j]
  <2> SUFFICES ASSUME NEW j \in c1..end PROVE k < ks2[j]
    OBVIOUS
  <2>1. j \in c1..w0 \/ j \in w1..end
    BY <1>1
  <2> QED
    BY <1>4, <1>6, <2>1
<1>12. /\ Entries(ks2, vs2, c, end) = Entries(ks2, vs2, c, c) \cup Entries(ks2, vs2, c1, end)
       /\ Table(ks2, vs2, c, end)
  <2>1. c \in Int /\ end \in Int /\ c <= c + 1 /\ c <= end /\ c1 = c + 1
    BY <1>1
  <2>2. Entries(ks2, vs2, c, end) = Entries(ks2, vs2, c, c) \cup Entries(ks2, vs2, c1, end)
    BY <2>1, TableJoin
  <2>3. Table(ks2, vs2, c, end) <=>
          /\ Table(ks2, vs2, c, c) /\ Table(ks2, vs2, c1, end)
          /\ \A i \in c..c, j \in c1..end : ks2[i] < ks2[j]
    BY <2>1, TableJoin
  <2>4. \A i \in c..c, j \in c1..end : ks2[i] < ks2[j]
    BY <1>9, <1>11
  <2> QED
    BY <1>8, <1>10, <2>2, <2>3, <2>4
<1>13. \A j \in 1..c-1 : ks2[j] = ks[j] /\ vs2[j] = vs[j]
  <2> SUFFICES ASSUME NEW j \in 1..c-1 PROVE ks2[j] = ks[j] /\ vs2[j] = vs[j]
    OBVIOUS
  <2>1. j \in 1..end /\ j # c /\ ~(c < j)
    BY <1>1
  <2> QED
    BY <2>1
<1> QED
  BY <1>8, <1>10, <1>12, <1>13 DEF TableShifted

(* Array s shifted: its cells hold what cells of s held, or e. *)
LEMMA ShiftedIs ==
  ASSUME NEW S, NEW s \in Seq(S), NEW e \in S, NEW from \in Nat, NEW c \in Nat,
         r \in Nat, w \in Nat, 1 <= from, from <= r + 1, r <= w, w <= Len(s),
         c = w - (r - from + 1)
  PROVE  ArrayShifted(S, s, from, e, c)
<1> DEFINE F(j) == IF j = c THEN e ELSE IF c < j /\ j <= w THEN s[j - w + r] ELSE s[j]
<1>1. Len(s) \in Nat /\ DOMAIN s = 1..Len(s) /\ \A j \in 1..Len(s) : s[j] \in S
  BY LenProperties, ElementOfSeq
<1>2. Shifted(s, from, e) = [j \in 1..Len(s) |-> F(j)]
  BY <1>1 DEF Shifted
<1>3. ASSUME NEW j \in 1..Len(s) PROVE F(j) \in S
  <2>1. CASE c < j /\ j <= w
    <3>1. j - w + r \in 1..Len(s)
      BY <1>1, <2>1
    <3> QED
      BY <1>1, <2>1, <3>1
  <2> QED
    BY <1>1, <2>1
<1>4. [j \in 1..Len(s) |-> F(j)] \in [1..Len(s) -> S]
  BY <1>3
<1>5. IsShifted(s, Shifted(s, from, e), c, w, r, Len(s), e)
  BY <1>2 DEF IsShifted
<1>6. ASSUME NEW x, x \in [1..Len(s) -> S] PROVE x \in Seq(S) /\ Len(x) = Len(s)
  BY <1>1, <1>6
<1> QED
  BY <1>2, <1>4, <1>5, <1>6 DEF ArrayShifted

(* A put that the leaf has no room for yet: what is above it moves. *)
LEMMA ChunkIs ==
  ASSUME r \in Nat, NEW k \in Key, NEW pos, pos = Position(r, k), Written(1, r),
         NEW from, from = chunkStart(pos, pos <= r /\ keys[pos] = k)
  PROVE  /\ pos \in 1..r+1 /\ from \in Nat /\ pos <= from /\ from <= r + 1
         /\ \A j \in 1..pos-1 : keys[j] < k
         /\ IsBelow(k, keys, from, r)
         /\ \/ from = pos + 1 /\ pos <= r /\ keys[pos] = k
            \/ from = pos /\ ~(pos <= r /\ keys[pos] = k)
<1>1. k \in Nat /\ \A i \in 1..r : keys[i] \in Nat
  BY KeysAreNat DEF Written, Table
<1>2. /\ pos \in 1..r+1 /\ \A j \in 1..pos-1 : keys[j] < k
      /\ pos <= r => keys[pos] >= k
  BY <1>1, PositionIs
<1>3. \A i, j \in 1..r : i < j => keys[i] < keys[j]
  BY DEF Written, Table
<1>4. CASE pos <= r /\ keys[pos] = k
  <2>1. from = pos + 1 /\ keys[pos] = k /\ pos \in 1..r
    BY <1>2, <1>4 DEF chunkStart
  <2>2. ASSUME NEW j \in from..r PROVE k < keys[j]
    <3>1. j \in 1..r /\ pos < j
      BY <2>1
    <3> QED
      BY <1>3, <2>1, <3>1
  <2> QED
    BY <1>2, <1>4, <2>1, <2>2 DEF IsBelow
<1>5. CASE ~(pos <= r /\ keys[pos] = k)
  <2>1. from = pos
    BY <1>5 DEF chunkStart
  <2>2. ASSUME NEW j \in from..r PROVE k < keys[j]
    <3>1. j \in 1..r /\ pos \in 1..r /\ pos <= j
      BY <1>2, <2>1
    <3>2. k < keys[pos]
      BY <1>1, <1>2, <1>5, <3>1
    <3>3. pos = j \/ keys[pos] < keys[j]
      BY <1>3, <3>1
    <3> QED
      BY <1>1, <3>1, <3>2, <3>3
  <2> QED
    BY <1>2, <1>5, <2>1, <2>2 DEF IsBelow
<1> QED
  BY <1>4, <1>5

(* The next put, from the largest down, is put before what lies above it. *)
LEMMA MergePutKeeps ==
  ASSUME IInv, MergePut
  PROVE  IInv'
<1> DEFINE k == msgs[p][1]
           v == msgs[p][2].val
           pos == Position(r, k)
           found == pos <= r /\ keys[pos] = k
           from == chunkStart(pos, found)
           L == Len(keys)
           c == w - (r - from + 1)
           w1 == w + 1
           ks2 == Shifted(keys, from, k)
           vs2 == Shifted(values, from, v)
           P == PutsIn(1, p - 1)
           A == Entries(keys, values, 1, pos - 1)
           B == Entries(keys, values, from, r)
           C == Entries(keys, values, w1, L)
<1>1. /\ pc = "merge" /\ p >= 1 /\ keys' = ks2 /\ values' = vs2
      /\ w' = w - (r - from + 1) - 1 /\ r' = pos - 1 /\ p' = p - 1
      /\ overwrites' = IF found THEN overwrites + 1 ELSE overwrites
      /\ UNCHANGED <<before, batch, msgs, pc, li, mi, numNew>>
  BY DEF MergePut
<1>2. /\ TypeOK /\ msgs \in Seq(Key \X Ground) /\ NothingLost
      /\ w = r + p + overwrites /\ w <= L /\ p <= Len(msgs)
      /\ Written(1, r) /\ Written(w1, L)
      /\ Ordered(1, p) /\ AllPuts(1, p)
      /\ \A j \in w1..L : /\ \A i \in 1..r : keys[i] < keys[j]
                          /\ \A i \in 1..p : msgs[i][1] < keys[j]
  BY <1>1 DEF IInv, Merging
<1>3. /\ L \in Nat /\ keys \in Seq(Key \cup {Junk}) /\ values \in Seq(Value \cup {Junk})
      /\ Len(values) = L /\ DOMAIN keys = 1..L
      /\ \A i \in 1..L : keys[i] = Junk <=> values[i] = Junk
      /\ li \in Nat /\ mi \in Nat /\ numNew \in Nat
      /\ r \in Nat /\ w \in Nat /\ p \in Nat /\ overwrites \in Nat
  BY <1>2, LenProperties DEF TypeOK
<1>4. /\ k \in Key /\ k \in Nat /\ v \in Value /\ msgs[p][2].kind = "put"
      /\ \A i \in 1..p : msgs[i][1] \in Nat
      /\ \A i \in 1..p-1 : msgs[i][1] < k
  <2>1. p \in 1..Len(msgs) /\ p \in 1..p /\ \A i \in 1..p : i \in 1..Len(msgs)
    BY <1>1, <1>2, <1>3, MsgsAre
  <2>2. msgs[p][2].kind = "put"
    BY <1>2, <2>1 DEF AllPuts
  <2>3. \A i \in 1..p-1 : i \in 1..p /\ i < p
    BY <1>3
  <2>4. \A i \in 1..p-1 : msgs[i][1] < k
    BY <1>2, <2>1, <2>3 DEF Ordered
  <2> QED
    BY <1>2, <2>1, <2>2, <2>4, MsgsAre
<1>5. /\ pos = Position(r, k)
      /\ from = chunkStart(pos, pos <= r /\ keys[pos] = k)
      /\ c = w - (r - from + 1) /\ w1 = w + 1
      /\ keys' = Shifted(keys, from, k) /\ values' = Shifted(values, from, v)
      /\ ks2 = Shifted(keys, from, k) /\ vs2 = Shifted(values, from, v)
  BY <1>1
<1> HIDE DEF k, v, pos, from, L, c, w1, ks2, vs2
<1>a. /\ pos \in 1..r+1 /\ from \in Nat /\ pos <= from /\ from <= r + 1
      /\ \A j \in 1..pos-1 : keys[j] < k
      /\ IsBelow(k, keys, from, r)
      /\ \/ from = pos + 1 /\ pos <= r /\ keys[pos] = k
         \/ from = pos /\ ~(pos <= r /\ keys[pos] = k)
  BY ONLY <1>2, <1>3, <1>4, <1>5, ChunkIs
<1>n. pos \in Nat /\ 1 <= pos /\ 1 <= from /\ from \in Nat /\ from <= r + 1 /\ pos <= from
  BY ONLY <1>3, <1>a
<1>m. overwrites' = from - pos + overwrites
  BY <1>1, <1>3, <1>a, <1>n
<1>6. /\ c \in Nat /\ w1 \in Nat /\ r < w
      /\ pos <= c /\ c <= L /\ w' = c - 1 /\ w' + 1 = c
      /\ w' = r' + p' + overwrites' /\ w' <= L
  <2>1. w' = w - (r - from + 1) - 1 /\ r' = pos - 1 /\ p' = p - 1 /\ p >= 1
    BY <1>1
  <2>2. w = r + p + overwrites /\ w <= L /\ L \in Nat
    BY <1>2, <1>3
  <2>3. r \in Nat /\ w \in Nat /\ p \in Nat /\ overwrites \in Nat
    BY <1>3
  <2>4. c = w - (r - from + 1) /\ w1 = w + 1
    BY <1>5
  <2> QED
    BY ONLY <1>m, <1>n, <2>1, <2>2, <2>3, <2>4
<1>7. /\ Table(keys, values, from, r) /\ Table(keys, values, w1, L)
      /\ AreBelow(keys, from, r, w1, L) /\ IsBelow(k, keys, w1, L)
  <2>1. \A j \in from..r : j \in 1..r
    BY <1>3, <1>n
  <2>2. p \in 1..p
    BY <1>1, <1>3
  <2>3. Table(keys, values, from, r) /\ Table(keys, values, w1, L)
    BY <1>2, <2>1 DEF Written, Table
  <2> QED
    BY <1>2, <2>1, <2>2, <2>3 DEF AreBelow, IsBelow, k
<1>8. /\ ks2 \in Seq(Key \cup {Junk}) /\ Len(ks2) = L
      /\ IsShifted(keys, ks2, c, w, r, L, k)
  <2>1. k \in Key \cup {Junk} /\ r <= w /\ r \in Nat /\ w \in Nat /\ w <= Len(keys)
    BY <1>2, <1>3, <1>4, <1>6 DEF L
  <2>2. keys \in Seq(Key \cup {Junk}) /\ c \in Nat /\ c = w - (r - from + 1)
    BY <1>3, <1>5, <1>6
  <2>3. ArrayShifted(Key \cup {Junk}, keys, from, k, c)
    BY ONLY <1>n, <2>1, <2>2, ShiftedIs
  <2> QED
    BY ONLY <1>5, <2>3 DEF L, ArrayShifted
<1>9. /\ vs2 \in Seq(Value \cup {Junk}) /\ Len(vs2) = L
      /\ IsShifted(values, vs2, c, w, r, L, v)
  <2>1. /\ v \in Value \cup {Junk} /\ r <= w /\ r \in Nat /\ w \in Nat
        /\ w <= Len(values)
    BY <1>2, <1>3, <1>4, <1>6
  <2>2. values \in Seq(Value \cup {Junk}) /\ c \in Nat /\ c = w - (r - from + 1)
    BY <1>3, <1>5, <1>6
  <2>3. ArrayShifted(Value \cup {Junk}, values, from, v, c)
    BY ONLY <1>n, <2>1, <2>2, ShiftedIs
  <2> QED
    BY ONLY <1>3, <1>5, <2>3 DEF ArrayShifted
<1>10. /\ Table(ks2, vs2, c, L)
       /\ Entries(ks2, vs2, c, L) = {<<k, v>>} \cup B \cup C
       /\ \A j \in 1..c-1 : ks2[j] = keys[j] /\ vs2[j] = values[j]
  <2>1. /\ from \in Int /\ r \in Int /\ w \in Int /\ L \in Int /\ c \in Int
        /\ 1 <= from /\ from <= r + 1 /\ r < w /\ w <= L /\ c = w - (r - from + 1)
        /\ w1 = w + 1
    BY <1>2, <1>3, <1>5, <1>6, <1>n
  <2> HIDE DEF found, B, C
  <2>2. TableShifted(keys, values, ks2, vs2, from, r, w1, L, c, k, v)
    BY ONLY <1>4, <1>a, <1>7, <1>8, <1>9, <2>1, ShiftedCells
  <2> QED
    BY ONLY <2>2 DEF B, C, TableShifted
<1>11. TypeOK'
  <2>1. ASSUME NEW i \in 1..L PROVE ks2[i] = Junk <=> vs2[i] = Junk
    <3>1. Junk \notin Key /\ Junk \notin Value
      BY LeafMergeAssumption DEF Opt
    <3>2. /\ ks2[i] = IF i = c THEN k ELSE IF c < i /\ i <= w THEN keys[i - w + r] ELSE keys[i]
          /\ vs2[i] = IF i = c THEN v ELSE IF c < i /\ i <= w THEN values[i - w + r] ELSE values[i]
      BY <1>8, <1>9 DEF IsShifted
    <3>3. CASE c < i /\ i <= w
      <4>1. i - w + r \in 1..L
        <5>1. c = w - (r - from + 1) /\ from \in Nat /\ 1 <= from
          BY <1>5, <1>n
        <5>2. w \in Nat /\ r \in Nat /\ L \in Nat /\ w <= L /\ r < w
          BY <1>2, <1>3, <1>6
        <5> QED
          BY ONLY <3>3, <5>1, <5>2
      <4>2. i # c
        BY <1>6, <3>3
      <4> QED
        BY <1>3, <3>2, <3>3, <4>1, <4>2
    <3> QED
      BY <1>3, <1>4, <3>1, <3>2, <3>3
  <2>2. DOMAIN keys' = 1..L
    BY <1>1, <1>3, <1>8
  <2>3. {li, mi, w, numNew, r, p, overwrites}' \subseteq Nat
    <3>1. w' \in Nat /\ r' \in Nat /\ p' \in Nat /\ overwrites' \in Nat
      BY <1>1, <1>3, <1>6, <1>m, <1>n
    <3> QED
      BY <1>1, <1>3, <3>1
  <2>4. /\ before' \in [Key -> Opt] /\ batch' \in Batches
        /\ keys' \in Seq(Key \cup {Junk}) /\ values' \in Seq(Value \cup {Junk})
        /\ Len(keys') = Len(values')
    BY <1>1, <1>2, <1>8, <1>9 DEF TypeOK
  <2>5. \A i \in DOMAIN keys' : keys'[i] = Junk <=> values'[i] = Junk
    BY <1>1, <2>1, <2>2
  <2> QED
    BY <2>3, <2>4, <2>5 DEF TypeOK, Batches
<1>12. Len(keys') = L /\ \A j \in 1..pos-1 : keys'[j] = keys[j] /\ values'[j] = values[j]
  BY <1>1, <1>3, <1>6, <1>8, <1>n, <1>10
<1>13. \A j \in c..L : k <= keys'[j]
  <2> SUFFICES ASSUME NEW j \in c..L PROVE k <= ks2[j]
    BY <1>1
  <2>1. <<ks2[j], vs2[j]>> \in Entries(ks2, vs2, c, L)
    BY DEF Entries
  <2>2. CASE <<ks2[j], vs2[j]>> = <<k, v>>
    BY <1>4, <2>2
  <2>3. CASE <<ks2[j], vs2[j]>> \in B
    <3>1. PICK x \in from..r : <<ks2[j], vs2[j]>> = <<keys[x], values[x]>>
      BY <2>3 DEF Entries
    <3>2. ks2[j] = keys[x] /\ k < keys[x] /\ keys[x] \in Key
      BY <1>a, <1>7, <3>1 DEF IsBelow, Table
    <3>3. k \in Nat /\ keys[x] \in Nat
      BY <1>4, <3>2, KeysAreNat
    <3> QED
      BY ONLY <3>2, <3>3
  <2>4. CASE <<ks2[j], vs2[j]>> \in C
    <3>1. PICK x \in w1..L : <<ks2[j], vs2[j]>> = <<keys[x], values[x]>>
      BY <2>4 DEF Entries
    <3>2. ks2[j] = keys[x] /\ k < keys[x] /\ keys[x] \in Key
      BY <1>7, <3>1 DEF IsBelow, Table
    <3>3. k \in Nat /\ keys[x] \in Nat
      BY <1>4, <3>2, KeysAreNat
    <3> QED
      BY ONLY <3>2, <3>3
  <2> QED
    BY <1>10, <2>1, <2>2, <2>3, <2>4
<1>14. Merging'
  <2>1. w' + 1..Len(keys') = c..L /\ 1..r' = 1..pos-1 /\ 1..p' = 1..p-1
    BY <1>1, <1>6, <1>12
  <2>2. \A j \in 1..pos-1 : j \in 1..r
    BY <1>3, <1>a
  <2>3. \A j \in 1..p-1 : j \in 1..p
    BY <1>3
  <2>4. Written(1, r)'
    BY <1>2, <1>12, <2>1, <2>2 DEF Written, Table
  <2>5. Written(w + 1, Len(keys))'
    BY <1>1, <1>10, <2>1 DEF Written, Table
  <2>6. Ordered(1, p)' /\ AllPuts(1, p)'
    BY <1>1, <1>2, <2>1, <2>3 DEF Ordered, AllPuts
  <2>7. ASSUME NEW j \in c..L
        PROVE  /\ \A i \in 1..pos-1 : keys'[i] < keys'[j]
               /\ \A i \in 1..p-1 : msgs'[i][1] < keys'[j]
    <3>1. keys'[j] \in Nat /\ k <= keys'[j]
      BY <1>1, <1>10, <1>13, KeysAreNat DEF Table
    <3>2. \A i \in 1..pos-1 : keys'[i] \in Nat /\ keys'[i] < k
      BY <1>2, <1>a, <1>12, <2>2, KeysAreNat DEF Written, Table
    <3>3. \A i \in 1..p-1 : msgs'[i][1] \in Nat /\ msgs'[i][1] < k
      BY <1>1, <1>4, <2>3
    <3> QED
      BY <1>4, <3>1, <3>2, <3>3
  <2>8. w' = r' + p' + overwrites' /\ w' <= Len(keys') /\ p' <= Len(msgs')
    <3>1. Len(msgs) \in Nat /\ p <= Len(msgs)
      BY <1>2, MsgsAre
    <3> QED
      BY <1>1, <1>3, <1>6, <1>12, <3>1
  <2> QED
    BY <2>1, <2>4, <2>5, <2>6, <2>7, <2>8 DEF Merging
<1>15. PutsIn(1, p) = P \cup {<<k, v>>}
  <2>1. \A i : i \in 1..p <=> i \in 1..p-1 \/ i = p
    BY <1>1, <1>3
  <2> QED
    BY <1>4, <2>1 DEF PutsIn, k, v
<1>16. Cells(1, r) = A \cup B \cup {e \in Cells(1, r) : e[1] = k}
  <2>1. ASSUME NEW e \in Cells(1, r) PROVE e \in A \/ e \in B \/ e[1] = k
    <3>1. PICK i \in 1..r : e = <<keys[i], values[i]>>
      BY <2>1 DEF Cells
    <3>2. i \in 1..pos-1 \/ i \in from..r \/ (i = pos /\ from = pos + 1)
      BY <1>3, <1>n, <1>a
    <3> QED
      BY <1>a, <3>1, <3>2 DEF Entries
  <2>2. \A i : i \in 1..pos-1 \/ i \in from..r => i \in 1..r
    BY <1>3, <1>n, <1>a
  <2>3. A \subseteq Cells(1, r) /\ B \subseteq Cells(1, r)
    BY <2>2 DEF Entries, Cells
  <2> QED
    BY <2>1, <2>3
<1>17. /\ \A e \in A : e[1] # k
       /\ \A e \in B : e[1] # k /\ e[1] \notin KeysIn(P)
  <2>1. ASSUME NEW e \in A PROVE e[1] # k
    <3>1. PICK i \in 1..pos-1 : e = <<keys[i], values[i]>>
      BY <2>1 DEF Entries
    <3>2. i \in 1..r /\ e[1] = keys[i]
      BY <1>3, <1>a, <3>1
    <3>3. keys[i] \in Nat /\ keys[i] < k
      BY <1>2, <1>a, <3>2, KeysAreNat DEF Written, Table
    <3> QED
      BY <1>4, <3>2, <3>3
  <2>2. ASSUME NEW e \in B PROVE e[1] # k /\ e[1] \notin KeysIn(P)
    <3>1. PICK i \in from..r : e = <<keys[i], values[i]>>
      BY <2>2 DEF Entries
    <3>2. e[1] = keys[i] /\ keys[i] \in Nat /\ k < keys[i]
      BY <1>a, <1>7, <3>1, KeysAreNat DEF IsBelow, Table
    <3>3. ASSUME NEW f \in P PROVE f[1] # keys[i]
      <4>1. PICK j \in 1..p-1 : f = <<msgs[j][1], msgs[j][2].val>>
        BY <3>3 DEF PutsIn
      <4>2. j \in 1..p /\ f[1] = msgs[j][1]
        BY <1>3, <4>1
      <4> QED
        BY <1>4, <3>2, <4>2
    <3> QED
      BY <1>4, <3>2, <3>3 DEF KeysIn
  <2> QED
    BY <2>1, <2>2
<1>18. NothingLost'
  <2>1. Outcome = C \cup PutsIn(1, p) \cup Except(Cells(1, r), KeysIn(PutsIn(1, p)))
    BY <1>1 DEF Outcome, Cells, Entries, w1, L
  <2>2. Outcome' = Cells(w + 1, Len(keys))' \cup PutsIn(1, p)' \cup
                     Except(Cells(1, r)', KeysIn(PutsIn(1, p)'))
    BY <1>1 DEF Outcome, Except, KeysIn
  <2>3. /\ Cells(w + 1, Len(keys))' = Entries(ks2, vs2, c, L)
        /\ PutsIn(1, p)' = P /\ Cells(1, r)' = A
    <3>1. w' + 1..Len(keys') = c..L /\ 1..r' = 1..pos-1 /\ 1..p' = 1..p-1
      BY <1>1, <1>6, <1>12
    <3>2. Cells(w + 1, Len(keys))' = Entries(ks2, vs2, c, L)
      BY <1>1, <3>1 DEF Cells, Entries
    <3>3. PutsIn(1, p)' = P
      BY <1>1, <3>1 DEF PutsIn
    <3>4. Cells(1, r)' = A
      BY <1>12, <3>1 DEF Cells, Entries
    <3> QED
      BY <3>2, <3>3, <3>4
  <2> HIDE DEF A, B, C, P
  <2>4. KeysIn(PutsIn(1, p)) = KeysIn(P) \cup {k}
    <3>1. <<k, v>>[1] = k
      OBVIOUS
    <3>2. \A x : x \in KeysIn(PutsIn(1, p)) <=> x \in KeysIn(P) \/ x = k
      BY <1>15, <3>1, Zenon DEF KeysIn
    <3> QED
      BY <3>2
  <2>5. Except(Cells(1, r), KeysIn(P) \cup {k}) = Except(A, KeysIn(P)) \cup B
    BY <1>16, <1>17, Zenon DEF Except
  <2>6. Outcome' = ({<<k, v>>} \cup B \cup C) \cup P \cup Except(A, KeysIn(P))
    BY ONLY <1>10, <2>2, <2>3
  <2>7. Outcome' = Outcome
    BY <1>15, <2>1, <2>4, <2>5, <2>6
  <2>8. Expected' = Expected
    BY <1>1 DEF Expected
  <2> QED
    BY <1>1, <1>2, <2>7, <2>8 DEF NothingLost
<1> QED
  BY <1>1, <1>2, <1>11, <1>14, <1>18 DEF IInv, Labels, Applying, Called, Adding, Compacting

(* Array s once the gap is closed. *)
ArrayClosed(S, s) ==
  /\ Closed(s) \in Seq(S) /\ Len(Closed(s)) = Len(s) - overwrites
  /\ \A j \in 1..r : Closed(s)[j] = s[j]
  /\ \A j \in r+1..Len(s) - overwrites : s[j + overwrites] = Closed(s)[j]

(* What closing the gap makes of an array. *)
LEMMA ClosedIs ==
  ASSUME NEW S, NEW s \in Seq(S), r \in Nat, w \in Nat, overwrites \in Nat,
         w = r + overwrites, w <= Len(s)
  PROVE  ArrayClosed(S, s)
<1> DEFINE n == Len(s) - overwrites
           F(j) == IF j > r /\ j - r + w <= Len(s) THEN s[j - r + w] ELSE s[j]
           moved == [j \in 1..Len(s) |-> F(j)]
<1>1. Len(s) \in Nat /\ DOMAIN s = 1..Len(s) /\ \A j \in 1..Len(s) : s[j] \in S
  BY LenProperties, ElementOfSeq
<1>2. n \in Nat /\ n <= Len(s) /\ r <= n
  BY <1>1
<1>3. CASE overwrites = 0
  <2>1. Closed(s) = s /\ n = Len(s) /\ \A j \in r+1..n : j + overwrites = j
    BY <1>1, <1>3 DEF Closed
  <2> QED
    BY <1>3, <2>1 DEF ArrayClosed
<1>4. CASE overwrites # 0
  <2>1. Closed(s) = SubSeq(moved, 1, n)
    BY <1>1, <1>4 DEF Closed
  <2>2. ASSUME NEW j \in 1..Len(s) PROVE F(j) \in S
    <3>1. CASE j > r /\ j - r + w <= Len(s)
      <4>1. j - r + w \in 1..Len(s)
        BY <1>1, <3>1
      <4> QED
        BY <1>1, <3>1, <4>1
    <3> QED
      BY <1>1, <3>1
  <2>3. moved \in [1..Len(s) -> S]
    BY <2>2
  <2>4. moved \in Seq(S) /\ Len(moved) = Len(s) /\ \A j \in 1..Len(s) : moved[j] = F(j)
    BY <1>1, <2>3
  <2> HIDE DEF moved
  <2>5. SubSeq(moved, 1, n) = [i \in 1..n |-> moved[i]]
    BY <1>2, <2>4, SubSeqProperties
  <2>6. [i \in 1..n |-> moved[i]] \in [1..n -> S]
    BY <1>1, <1>2, <2>3
  <2>7. ASSUME NEW x \in [1..n -> S] PROVE x \in Seq(S) /\ Len(x) = n
    BY <1>2
  <2>8. Closed(s) \in Seq(S) /\ Len(Closed(s)) = n
    BY <2>1, <2>5, <2>6, <2>7
  <2>9. \A i \in 1..n : Closed(s)[i] = F(i)
    BY <1>1, <1>2, <2>1, <2>4, <2>5
  <2>10. \A j \in 1..r : j \in 1..n /\ F(j) = s[j]
    BY <1>2
  <2>11. ASSUME NEW j \in r+1..n PROVE j \in 1..n /\ F(j) = s[j + overwrites]
    <3>1. j > r /\ j - r + w <= Len(s) /\ j - r + w = j + overwrites /\ j \in 1..n
      BY <1>1
    <3> QED
      BY <3>1
  <2> HIDE DEF F
  <2> QED
    BY <2>8, <2>9, <2>10, <2>11 DEF ArrayClosed
<1> QED
  BY <1>3, <1>4

(* The gap is closed: the two tables become one. *)
LEMMA CloseGapKeeps ==
  ASSUME IInv, CloseGap
  PROVE  IInv'
<1> DEFINE L == Len(keys)
           L2 == L - overwrites
           w1 == w + 1
           r1 == r + 1
           ov == overwrites
           ks2 == Closed(keys)
           vs2 == Closed(values)
<1>1. /\ pc = "merge" /\ p = 0 /\ keys' = ks2 /\ values' = vs2 /\ pc' = "done"
      /\ UNCHANGED <<before, batch, msgs, loop>>
  BY DEF CloseGap
<1>2. /\ TypeOK /\ msgs \in Seq(Key \X Ground) /\ NothingLost
      /\ w = r + p + overwrites /\ w <= L /\ Written(1, r) /\ Written(w1, L)
      /\ \A j \in w1..L, i \in 1..r : keys[i] < keys[j]
  BY <1>1 DEF IInv, Merging
<1>3. /\ L \in Nat /\ keys \in Seq(Key \cup {Junk}) /\ values \in Seq(Value \cup {Junk})
      /\ Len(values) = L
      /\ r \in Nat /\ w \in Nat /\ p \in Nat /\ overwrites \in Nat
  BY <1>2, LenProperties DEF TypeOK
<1>4. ArrayClosed(Key \cup {Junk}, keys) /\ ArrayClosed(Value \cup {Junk}, values)
  <2>1. w = r + overwrites /\ w <= Len(keys) /\ w <= Len(values)
    BY <1>1, <1>2, <1>3
  <2> QED
    BY <1>3, <2>1, ClosedIs
<1>5. /\ r1 = r + 1 /\ w1 = w + 1 /\ r \in Int /\ L2 \in Int /\ ov \in Int /\ r1 \in Int
      /\ 0 <= r /\ r <= L2 /\ w1 = r1 + ov /\ L = L2 + ov /\ L2 \in Nat
  BY <1>1, <1>2, <1>3
<1>6. /\ ks2 \in Seq(Key \cup {Junk}) /\ Len(ks2) = L2
      /\ vs2 \in Seq(Value \cup {Junk}) /\ Len(vs2) = L2
      /\ \A j \in 1..r : ks2[j] = keys[j] /\ vs2[j] = values[j]
      /\ Moved(ks2, vs2, keys, values, r1, L2, ov)
  BY <1>3, <1>4 DEF ArrayClosed, Moved
<1> HIDE DEF L, L2, w1, r1, ov, ks2, vs2
<1>7. Entries(keys, values, w1, L) = Entries(ks2, vs2, r1, L2)
  BY ONLY <1>5, <1>6, TableMove
<1>8. Table(keys, values, w1, L) <=> Table(ks2, vs2, r1, L2)
  BY ONLY <1>5, <1>6, TableMove
<1>9. Table(ks2, vs2, 1, r) /\ Entries(ks2, vs2, 1, r) = Entries(keys, values, 1, r)
  BY <1>2, <1>6 DEF Written, Table, Entries
<1>10. \A i \in 1..r, j \in r1..L2 : ks2[i] < ks2[j]
  <2> SUFFICES ASSUME NEW i \in 1..r, NEW j \in r1..L2 PROVE ks2[i] < ks2[j]
    OBVIOUS
  <2>1. j + ov \in w1..L
    BY <1>5
  <2>2. ks2[i] = keys[i] /\ ks2[j] = keys[j + ov]
    BY <1>6 DEF Moved
  <2> QED
    BY <1>2, <2>1, <2>2
<1>11. /\ Entries(ks2, vs2, 1, L2) = Entries(ks2, vs2, 1, r) \cup Entries(ks2, vs2, r1, L2)
       /\ Table(ks2, vs2, 1, L2)
  <2>1. Entries(ks2, vs2, 1, L2) = Entries(ks2, vs2, 1, r) \cup Entries(ks2, vs2, r1, L2)
    BY ONLY <1>5, TableJoinFirst
  <2>2. Table(ks2, vs2, 1, L2) <=>
          /\ Table(ks2, vs2, 1, r) /\ Table(ks2, vs2, r1, L2)
          /\ \A i \in 1..r, j \in r1..L2 : ks2[i] < ks2[j]
    BY ONLY <1>5, TableJoinFirst
  <2>3. Table(ks2, vs2, r1, L2)
    BY <1>2, <1>8 DEF Written
  <2> QED
    BY <1>9, <1>10, <2>1, <2>2, <2>3
<1>12. TypeOK'
  <2>1. DOMAIN ks2 = 1..L2
    BY <1>6
  <2>2. \A i \in DOMAIN ks2 : ks2[i] = Junk <=> vs2[i] = Junk
    BY <1>11, <2>1, LeafMergeAssumption DEF Table, Opt
  <2> QED
    BY <1>1, <1>2, <1>6, <2>2 DEF TypeOK, Batches, loop
<1>13. Written(1, Len(keys))'
  BY <1>1, <1>6, <1>11 DEF Written
<1>14. NothingLost'
  <2>1. 1..p = {}
    BY <1>1
  <2>2. PutsIn(1, p) = {}
    BY <2>1 DEF PutsIn
  <2>3. Outcome = Cells(w + 1, Len(keys)) \cup PutsIn(1, p) \cup
                    Except(Cells(1, r), KeysIn(PutsIn(1, p)))
    BY <1>1 DEF Outcome
  <2>4. Except(Cells(1, r), KeysIn({})) = Cells(1, r)
    BY DEF Except, KeysIn
  <2>5. /\ Cells(w + 1, Len(keys)) = Entries(keys, values, w1, L)
        /\ Cells(1, r) = Entries(keys, values, 1, r)
    BY DEF Cells, Entries, w1, L
  <2>6. Outcome' = Entries(ks2, vs2, 1, L2)
    BY <1>1, <1>6 DEF Outcome, Cells, Entries
  <2>7. Outcome' = Outcome
    BY <1>7, <1>9, <1>11, <2>2, <2>3, <2>4, <2>5, <2>6
  <2>8. Expected' = Expected
    BY <1>1 DEF Expected
  <2> QED
    BY <1>1, <1>2, <2>7, <2>8 DEF NothingLost
<1> QED
  BY <1>1, <1>2, <1>12, <1>13, <1>14 DEF IInv, Labels, Applying, Called, Adding, Compacting, Merging

-----------------------------------------------------------------------------
(* mergeLeafWithDeletes. *)

(* What the loop knows of the numbers, the arrays and the messages. *)
LEMMA CompactingIs ==
  ASSUME IInv, pc = "compact"
  PROVE  /\ li \in Nat /\ mi \in Nat /\ w \in Nat /\ numNew \in Nat
         /\ r \in Nat /\ p \in Nat /\ overwrites \in Nat
         /\ Len(keys) \in Nat /\ Len(msgs) \in Nat /\ Len(values) = Len(keys)
         /\ 1 <= li /\ li <= Len(keys) + 1 /\ 1 <= mi /\ mi <= Len(msgs) + 1
         /\ w < li /\ numNew < mi
         /\ keys \in Seq(Key \cup {Junk}) /\ values \in Seq(Value \cup {Junk})
         /\ DOMAIN keys = 1..Len(keys) /\ DOMAIN values = 1..Len(keys)
         /\ DOMAIN msgs = 1..Len(msgs) /\ msgs \in Seq(Key \X Ground)
<1>1. TypeOK /\ msgs \in Seq(Key \X Ground)
  BY DEF IInv
<1>2. li \in 1..Len(keys) + 1 /\ mi \in 1..Len(msgs) + 1 /\ w < li /\ numNew < mi
  BY DEF IInv, Compacting
<1>3. Len(msgs) \in Nat /\ DOMAIN msgs = 1..Len(msgs)
  BY <1>1, MsgsAre
<1>4. /\ keys \in Seq(Key \cup {Junk}) /\ values \in Seq(Value \cup {Junk})
      /\ Len(values) = Len(keys)
  BY <1>1 DEF TypeOK
<1>5. Len(keys) \in Nat /\ DOMAIN keys = 1..Len(keys) /\ DOMAIN values = 1..Len(keys)
  BY <1>4, LenProperties
<1>6. /\ li \in Nat /\ mi \in Nat /\ w \in Nat /\ numNew \in Nat
      /\ r \in Nat /\ p \in Nat /\ overwrites \in Nat
  BY <1>1 DEF TypeOK
<1> QED
  BY <1>1, <1>2, <1>3, <1>4, <1>5, <1>6

(* Cell w + 1 is overwritten with the key of entry li and a value. *)
CellWritten(ks2, vs2, v) ==
  /\ ks2 \in Seq(Key \cup {Junk}) /\ vs2 \in Seq(Value \cup {Junk})
  /\ Len(ks2) = Len(keys) /\ Len(vs2) = Len(keys)
  /\ \A i \in 1..Len(keys) : ks2[i] = Junk <=> vs2[i] = Junk
  /\ \A i \in 1..w : ks2[i] = keys[i] /\ vs2[i] = values[i]
  /\ ks2[w + 1] = keys[li] /\ vs2[w + 1] = v
  /\ \A i \in li+1..Len(keys) : ks2[i] = keys[i] /\ vs2[i] = values[i]

(* Nothing that is still to be read is overwritten. *)
LEMMA WriteCell ==
  ASSUME IInv, pc = "compact", LeafLeft, NEW v \in Value
  PROVE  CellWritten([keys EXCEPT ![w + 1] = keys[li]], [values EXCEPT ![w + 1] = v], v)
<1> DEFINE L == Len(keys)
           ks2 == [keys EXCEPT ![w + 1] = keys[li]]
           vs2 == [values EXCEPT ![w + 1] = v]
<1>1. /\ li \in 1..L /\ w + 1 \in 1..L /\ L \in Nat /\ w < li /\ w \in Nat
      /\ keys \in Seq(Key \cup {Junk}) /\ values \in Seq(Value \cup {Junk})
      /\ Len(values) = L /\ DOMAIN keys = 1..L /\ DOMAIN values = 1..L
  BY CompactingIs DEF LeafLeft
<1>2. keys[li] \in Key
  <2>1. Table(keys, values, li, L) /\ li \in li..L
    BY <1>1 DEF IInv, Compacting, Written
  <2> QED
    BY <2>1 DEF Table
<1>3. /\ \A i \in 1..L : ks2[i] = IF i = w + 1 THEN keys[li] ELSE keys[i]
      /\ \A i \in 1..L : vs2[i] = IF i = w + 1 THEN v ELSE values[i]
  BY <1>1
<1>4. /\ ks2 \in Seq(Key \cup {Junk}) /\ Len(ks2) = L
      /\ vs2 \in Seq(Value \cup {Junk}) /\ Len(vs2) = L
  <2>1. keys[li] \in Key \cup {Junk} /\ v \in Value \cup {Junk}
    BY <1>2
  <2>2. /\ ks2 \in Seq(Key \cup {Junk}) /\ Len(ks2) = L
    BY <1>1, <2>1, ExceptSeq
  <2>3. /\ vs2 \in Seq(Value \cup {Junk}) /\ Len(vs2) = L
    BY <1>1, <2>1, ExceptSeq
  <2> QED
    BY <2>2, <2>3
<1> HIDE DEF ks2, vs2
<1>5. ASSUME NEW i \in 1..L PROVE ks2[i] = Junk <=> vs2[i] = Junk
  <2>1. keys[i] = Junk <=> values[i] = Junk
    BY <1>1 DEF IInv, TypeOK
  <2>2. Junk \notin Key /\ Junk \notin Value
    BY LeafMergeAssumption DEF Opt
  <2> QED
    BY <1>2, <1>3, <2>1, <2>2
<1>6. \A i \in 1..w : ks2[i] = keys[i] /\ vs2[i] = values[i]
  <2>1. \A i \in 1..w : i \in 1..L /\ i # w + 1
    BY <1>1
  <2> QED
    BY <1>3, <2>1
<1>7. \A i \in li+1..L : ks2[i] = keys[i] /\ vs2[i] = values[i]
  <2>1. \A i \in li+1..L : i \in 1..L /\ i # w + 1
    BY <1>1
  <2> QED
    BY <1>3, <2>1
<1> QED
  BY <1>1, <1>3, <1>4, <1>5, <1>6, <1>7 DEF CellWritten, ks2, vs2

(* The next entry to read is above what is written and below the rest. *)
LEMMA NextEntry ==
  ASSUME IInv, pc = "compact", LeafLeft
  PROVE  /\ keys[li] \in Key /\ keys[li] \in Nat /\ values[li] \in Value
         /\ \A j \in li..Len(keys) : keys[j] \in Nat
         /\ \A j \in li+1..Len(keys) : j \in li..Len(keys) /\ keys[li] < keys[j]
         /\ \A i \in 1..w : keys[i] < keys[li]
         /\ \A i \in 1..numNew : msgs[i][1] < keys[li]
         /\ Cells(li, Len(keys)) = {<<keys[li], values[li]>>} \cup Cells(li + 1, Len(keys))
<1> DEFINE L == Len(keys)
<1>1. li \in Nat /\ L \in Nat /\ li <= L
  BY CompactingIs DEF LeafLeft
<1>2. /\ li \in li..L /\ \A j \in li+1..L : j \in li..L /\ li < j
      /\ \A j : j \in li..L <=> j = li \/ j \in li+1..L
  BY <1>1
<1>3. /\ Table(keys, values, li, L)
      /\ \A i \in 1..w, j \in li..L : keys[i] < keys[j]
      /\ \A i \in 1..numNew, j \in li..L : msgs[i][1] < keys[j]
  BY DEF IInv, Compacting, Written
<1>4. \A j \in li..L : keys[j] \in Key /\ keys[j] \in Nat /\ values[j] \in Value
  BY <1>3, KeysAreNat DEF Table
<1>5. \A j \in li+1..L : keys[li] < keys[j]
  BY <1>2, <1>3 DEF Table
<1>6. Cells(li, L) = {<<keys[li], values[li]>>} \cup Cells(li + 1, L)
  BY <1>2, Zenon DEF Cells
<1> QED
  BY <1>2, <1>3, <1>4, <1>5, <1>6

(* So is the next message. *)
LEMMA NextMsg ==
  ASSUME IInv, pc = "compact", MsgsLeft
  PROVE  /\ msgs[mi][1] \in Key /\ msgs[mi][1] \in Nat /\ mi \in 1..Len(msgs)
         /\ msgs[mi][2].kind \in {"put", "del"}
         /\ msgs[mi][2].kind = "put" => msgs[mi][2].val \in Value
         /\ \A j \in mi..Len(msgs) : msgs[j][1] \in Nat
         /\ \A j \in mi+1..Len(msgs) : j \in mi..Len(msgs) /\ msgs[mi][1] < msgs[j][1]
         /\ \A i \in 1..w : keys[i] < msgs[mi][1]
         /\ \A i \in 1..numNew : msgs[i][1] < msgs[mi][1]
         /\ KeysOf(msgs, mi, Len(msgs)) = {msgs[mi][1]} \cup KeysOf(msgs, mi + 1, Len(msgs))
         /\ msgs[mi][2].kind = "put" =>
              PutsIn(mi, Len(msgs)) =
                {<<msgs[mi][1], msgs[mi][2].val>>} \cup PutsIn(mi + 1, Len(msgs))
         /\ msgs[mi][2].kind = "del" => PutsIn(mi, Len(msgs)) = PutsIn(mi + 1, Len(msgs))
<1> DEFINE n == Len(msgs)
<1>1. mi \in Nat /\ n \in Nat /\ mi <= n /\ 1 <= mi /\ msgs \in Seq(Key \X Ground)
  BY CompactingIs DEF MsgsLeft
<1>2. /\ mi \in mi..n /\ \A j \in mi+1..n : j \in mi..n /\ mi < j
      /\ \A j : j \in mi..n <=> j = mi \/ j \in mi+1..n
      /\ \A j \in mi..n : j \in 1..n
  BY <1>1
<1>3. /\ Ordered(mi, n)
      /\ \A i \in 1..w, j \in mi..n : keys[i] < msgs[j][1]
      /\ \A i \in 1..numNew, j \in mi..n : msgs[i][1] < msgs[j][1]
  BY DEF IInv, Compacting
<1>4. \A j \in mi..n : /\ msgs[j][1] \in Key /\ msgs[j][1] \in Nat
                       /\ msgs[j][2].kind \in {"put", "del"}
                       /\ msgs[j][2].kind = "put" => msgs[j][2].val \in Value
  BY <1>1, <1>2, MsgsAre
<1>5. \A j \in mi+1..n : msgs[mi][1] < msgs[j][1]
  BY <1>2, <1>3 DEF Ordered
<1>6. KeysOf(msgs, mi, n) = {msgs[mi][1]} \cup KeysOf(msgs, mi + 1, n)
  BY <1>2, Zenon DEF KeysOf
<1>7. msgs[mi][2].kind = "put" =>
        PutsIn(mi, n) = {<<msgs[mi][1], msgs[mi][2].val>>} \cup PutsIn(mi + 1, n)
  BY <1>2 DEF PutsIn
<1>8. msgs[mi][2].kind = "del" => PutsIn(mi, n) = PutsIn(mi + 1, n)
  <2>1. ASSUME msgs[mi][2].kind = "del"
        PROVE  {x \in mi..n : msgs[x][2].kind = "put"} = {x \in mi+1..n : msgs[x][2].kind = "put"}
    BY <1>2, <2>1
  <2> QED
    BY <2>1 DEF PutsIn
<1> QED
  BY <1>2, <1>3, <1>4, <1>5, <1>6, <1>7, <1>8

(* An entry is added to what is written. *)
LEMMA CellAdded ==
  ASSUME IInv, pc = "compact", LeafLeft, NEW v \in Value, CellWritten(keys', values', v),
         li' = li + 1, w' = w + 1
  PROVE  /\ Written(1, w)' /\ Written(li, Len(keys))'
         /\ \A i \in 1..w' : (i \in 1..w /\ keys'[i] = keys[i]) \/ keys'[i] = keys[li]
         /\ \A j \in li'..Len(keys') : j \in li+1..Len(keys) /\ keys'[j] = keys[j]
         /\ Cells(1, w)' = Cells(1, w) \cup {<<keys[li], v>>}
         /\ Cells(li, Len(keys))' = Cells(li + 1, Len(keys))
<1> DEFINE L == Len(keys)
           u == w + 1
<1>1. li \in Nat /\ L \in Nat /\ li <= L /\ w \in Nat
  BY CompactingIs DEF LeafLeft
<1>2. /\ u \in 1..u /\ w' = u /\ \A i : i \in 1..u <=> i \in 1..w \/ i = u
      /\ \A i \in 1..w : i < u
  BY <1>1
<1>3. /\ Len(keys') = L
      /\ \A i \in 1..w : keys'[i] = keys[i] /\ values'[i] = values[i]
      /\ keys'[u] = keys[li] /\ values'[u] = v
      /\ \A i \in li+1..L : keys'[i] = keys[i] /\ values'[i] = values[i]
  BY DEF CellWritten
<1>4. Table(keys, values, 1, w) /\ Table(keys, values, li, L)
  BY DEF IInv, Compacting, Written
<1> HIDE DEF u
<1>5. Table(keys', values', 1, u)
  <2>1. \A i \in 1..u : keys'[i] \in Key /\ values'[i] \in Value
    BY <1>2, <1>3, <1>4, NextEntry DEF Table
  <2>2. ASSUME NEW i \in 1..u, NEW j \in 1..u, i < j PROVE keys'[i] < keys'[j]
    <3>1. i \in 1..w
      BY <1>1, <2>2 DEF u
    <3>2. CASE j \in 1..w
      BY <1>3, <1>4, <2>2, <3>1, <3>2 DEF Table
    <3>3. CASE j = u
      BY <1>3, <3>1, <3>3, NextEntry
    <3> QED
      BY <1>2, <3>2, <3>3
  <2> QED
    BY <2>1, <2>2 DEF Table
<1>6. Table(keys', values', li + 1, L)
  <2>1. \A j \in li+1..L : j \in li..L
    BY <1>1
  <2> QED
    BY <1>3, <1>4, <2>1 DEF Table
<1>7. Cells(1, w)' = Cells(1, w) \cup {<<keys[li], v>>}
  BY <1>2, <1>3 DEF Cells
<1>8. Cells(li, L)' = Cells(li + 1, L)
  BY <1>3 DEF Cells
<1> QED
  BY <1>2, <1>3, <1>5, <1>6, <1>7, <1>8 DEF Written

(* What is left to do, in the compacting loop. *)
LEMMA CompactOutcome ==
  ASSUME pc = "compact"
  PROVE  Outcome = Cells(1, w) \cup PutsIn(1, numNew) \cup PutsIn(mi, Len(msgs)) \cup
                     Except(Cells(li, Len(keys)), KeysOf(msgs, mi, Len(msgs)))
BY DEF Outcome, KeysOf

(* An entry that no message is for is kept. *)
LEMMA KeepEntryKeeps ==
  ASSUME IInv, KeepEntry
  PROVE  IInv'
<1> DEFINE L == Len(keys)
           n == Len(msgs)
           e0 == <<keys[li], values[li]>>
           K == KeysOf(msgs, mi, n)
<1>1. /\ pc = "compact" /\ LeafLeft /\ (MsgsLeft => keys[li] < msgs[mi][1])
      /\ keys' = [keys EXCEPT ![w + 1] = keys[li]]
      /\ values' = [values EXCEPT ![w + 1] = values[li]]
      /\ w' = w + 1 /\ li' = li + 1
      /\ UNCHANGED <<before, batch, msgs, pc, mi, numNew, r, p, overwrites>>
  BY DEF KeepEntry
<1>2. /\ TypeOK /\ NothingLost /\ Compacting
  BY DEF IInv
<1>3. /\ li \in Nat /\ mi \in Nat /\ w \in Nat /\ numNew \in Nat /\ L \in Nat /\ n \in Nat
      /\ r \in Nat /\ p \in Nat /\ overwrites \in Nat
      /\ 1 <= li /\ li <= L /\ 1 <= mi /\ mi <= n + 1 /\ w < li /\ numNew < mi
  BY <1>1, CompactingIs DEF LeafLeft
<1>4. /\ keys[li] \in Nat /\ values[li] \in Value
      /\ \A j \in li+1..L : keys[li] < keys[j] /\ j \in li..L
      /\ \A i \in 1..numNew : msgs[i][1] < keys[li] /\ msgs[i][1] \in Nat
      /\ Cells(li, L) = {e0} \cup Cells(li + 1, L)
  <2>1. msgs \in Seq(Key \X Ground) /\ \A i \in 1..numNew : i \in 1..n
    BY <1>1, <1>3, CompactingIs
  <2> QED
    BY <1>1, <2>1, NextEntry, MsgsAre
<1>5. CellWritten(keys', values', values[li])
  <2>1. CellWritten([keys EXCEPT ![w + 1] = keys[li]],
                    [values EXCEPT ![w + 1] = values[li]], values[li])
    BY <1>1, <1>4, WriteCell
  <2> QED
    BY <1>1, <2>1
<1>6. /\ Written(1, w)' /\ Written(li, Len(keys))'
      /\ \A i \in 1..w' : (i \in 1..w /\ keys'[i] = keys[i]) \/ keys'[i] = keys[li]
      /\ \A j \in li'..Len(keys') : j \in li+1..L /\ keys'[j] = keys[j]
      /\ Cells(1, w)' = Cells(1, w) \cup {e0}
      /\ Cells(li, Len(keys))' = Cells(li + 1, L)
  BY <1>1, <1>4, <1>5, CellAdded
<1>7. \A j \in mi..n : keys[li] < msgs[j][1]
  <2> SUFFICES ASSUME NEW j \in mi..n PROVE keys[li] < msgs[j][1]
    OBVIOUS
  <2>1. MsgsLeft
    BY <1>3 DEF MsgsLeft
  <2>2. /\ keys[li] < msgs[mi][1] /\ msgs[mi][1] \in Nat /\ msgs[j][1] \in Nat
        /\ \A x \in mi+1..n : msgs[mi][1] < msgs[x][1]
    BY <1>1, <2>1, NextMsg
  <2>3. j = mi \/ j \in mi+1..n
    BY <1>3
  <2> QED
    BY <1>4, <2>2, <2>3
<1>8. TypeOK'
  <2>1. /\ keys' \in Seq(Key \cup {Junk}) /\ values' \in Seq(Value \cup {Junk})
        /\ Len(keys') = Len(values') /\ DOMAIN keys' = 1..L
        /\ \A i \in 1..L : keys'[i] = Junk <=> values'[i] = Junk
    BY <1>5 DEF CellWritten
  <2>2. {li, mi, w, numNew, r, p, overwrites}' \subseteq Nat
    BY <1>1, <1>3
  <2>3. before' \in [Key -> Opt] /\ batch' \in Batches
    BY <1>1, <1>2 DEF TypeOK
  <2> QED
    BY <2>1, <2>2, <2>3 DEF TypeOK, Batches
<1>9. Compacting'
  <2>1. /\ li' \in 1..Len(keys') + 1 /\ mi' \in 1..Len(msgs') + 1 /\ w' < li' /\ numNew' < mi'
    <3>1. Len(keys') = L
      BY <1>5 DEF CellWritten
    <3>2. /\ w' = w + 1 /\ li' = li + 1 /\ mi' = mi /\ numNew' = numNew
          /\ Len(msgs') = n
      BY <1>1
    <3> QED
      BY ONLY <1>3, <3>1, <3>2
  <2>2. Ordered(1, numNew)' /\ AllPuts(1, numNew)' /\ Ordered(mi, Len(msgs))'
    BY <1>1, <1>2 DEF Compacting, Ordered, AllPuts
  <2>3. ASSUME NEW i \in 1..w'
        PROVE  /\ \A j \in li'..Len(keys') : keys'[i] < keys'[j]
               /\ \A j \in mi'..Len(msgs') : keys'[i] < msgs'[j][1]
               /\ \A j \in 1..numNew' : keys'[i] # msgs'[j][1]
    <3>1. CASE i \in 1..w /\ keys'[i] = keys[i]
      BY <1>1, <1>2, <1>4, <1>6, <3>1 DEF Compacting
    <3>2. CASE keys'[i] = keys[li]
      BY <1>1, <1>4, <1>6, <1>7, <3>2
    <3> QED
      BY <1>6, <2>3, <3>1, <3>2
  <2>4. ASSUME NEW i \in 1..numNew'
        PROVE  /\ \A j \in li'..Len(keys') : msgs'[i][1] < keys'[j]
               /\ \A j \in mi'..Len(msgs') : msgs'[i][1] < msgs'[j][1]
    BY <1>1, <1>2, <1>4, <1>6, <2>4 DEF Compacting
  <2> QED
    BY <1>6, <2>1, <2>2, <2>3, <2>4 DEF Compacting
<1>10. NothingLost'
  <2>1. Outcome = Cells(1, w) \cup PutsIn(1, numNew) \cup PutsIn(mi, n) \cup
                    Except(Cells(li, L), K)
    BY <1>1, CompactOutcome
  <2>2. Outcome' = Cells(1, w)' \cup PutsIn(1, numNew) \cup PutsIn(mi, n) \cup
                     Except(Cells(li, Len(keys))', K)
    BY <1>1 DEF Outcome, PutsIn, KeysOf, Except
  <2>3. keys[li] \notin K
    <3> SUFFICES ASSUME NEW j \in mi..n PROVE keys[li] # msgs[j][1]
      BY DEF KeysOf
    <3> QED
      BY <1>4, <1>7
  <2>4. e0[1] = keys[li]
    OBVIOUS
  <2> HIDE DEF e0, K
  <2>5. Except({e0} \cup Cells(li + 1, L), K) = {e0} \cup Except(Cells(li + 1, L), K)
    BY <2>3, <2>4 DEF Except
  <2>6. Outcome' = Outcome
    BY <1>4, <1>6, <2>1, <2>2, <2>5
  <2>7. Expected' = Expected
    BY <1>1 DEF Expected
  <2> QED
    BY <1>1, <1>2, <2>6, <2>7 DEF NothingLost
<1>11. msgs' \in Seq(Key \X Ground) /\ pc' = "compact"
  BY <1>1, CompactingIs
<1> QED
  BY <1>8, <1>9, <1>10, <1>11 DEF IInv, Labels, Applying, Called, Adding, Merging

(* A message for an entry: the entry is overwritten, or dropped. *)
LEMMA ApplyMatchKeeps ==
  ASSUME IInv, ApplyMatch
  PROVE  IInv'
<1> DEFINE L == Len(keys)
           n == Len(msgs)
           k == msgs[mi][1]
           v == msgs[mi][2].val
           e0 == <<keys[li], values[li]>>
           rest == Cells(li + 1, L)
           later == PutsIn(mi + 1, n)
           K == KeysOf(msgs, mi + 1, n)
<1>1. /\ pc = "compact" /\ LeafLeft /\ MsgsLeft /\ keys[li] = k
      /\ \/ /\ msgs[mi][2].kind = "put"
            /\ keys' = [keys EXCEPT ![w + 1] = k]
            /\ values' = [values EXCEPT ![w + 1] = v]
            /\ w' = w + 1
         \/ msgs[mi][2].kind = "del" /\ UNCHANGED <<leaf, w>>
      /\ li' = li + 1 /\ mi' = mi + 1
      /\ UNCHANGED <<before, batch, msgs, pc, numNew, r, p, overwrites>>
  BY DEF ApplyMatch
<1>2. /\ TypeOK /\ NothingLost /\ Compacting
  BY DEF IInv
<1>3. /\ li \in Nat /\ mi \in Nat /\ w \in Nat /\ numNew \in Nat /\ L \in Nat /\ n \in Nat
      /\ r \in Nat /\ p \in Nat /\ overwrites \in Nat
      /\ 1 <= li /\ li <= L /\ 1 <= mi /\ mi <= n /\ w < li /\ numNew < mi
  BY <1>1, CompactingIs DEF LeafLeft, MsgsLeft
<1>4. /\ keys[li] \in Key /\ keys[li] \in Nat
      /\ \A j \in li+1..L : keys[li] < keys[j] /\ j \in li..L /\ keys[j] \in Nat
      /\ Cells(li, L) = {e0} \cup rest
  BY <1>1, NextEntry
<1>5. /\ k \in Key /\ k \in Nat
      /\ msgs[mi][2].kind \in {"put", "del"}
      /\ msgs[mi][2].kind = "put" => v \in Value
      /\ \A j \in mi+1..n : j \in mi..n /\ k < msgs[j][1]
      /\ \A i \in 1..numNew : msgs[i][1] < k
      /\ KeysOf(msgs, mi, n) = {k} \cup K
      /\ msgs[mi][2].kind = "put" => PutsIn(mi, n) = {<<k, v>>} \cup later
      /\ msgs[mi][2].kind = "del" => PutsIn(mi, n) = later
  BY <1>1, NextMsg
<1>6. \A i \in 1..numNew : msgs[i][1] \in Nat
  <2>1. msgs \in Seq(Key \X Ground) /\ \A i \in 1..numNew : i \in 1..n
    BY <1>1, <1>3, CompactingIs
  <2> QED
    BY <2>1, MsgsAre
<1>7. Except(Cells(li, L), KeysOf(msgs, mi, n)) = Except(rest, K)
  <2>1. e0[1] = k
    BY <1>1
  <2>2. ASSUME NEW e \in rest PROVE e[1] # k
    <3>1. PICK j \in li+1..L : e = <<keys[j], values[j]>>
      BY <2>2 DEF Cells
    <3>2. e[1] = keys[j]
      BY <3>1
    <3> QED
      BY <1>1, <1>4, <3>2
  <2> HIDE DEF e0, rest, K, k
  <2>3. Except({e0} \cup rest, {k} \cup K) = Except(rest, K)
    BY <2>1, <2>2 DEF Except
  <2> QED
    BY <1>4, <1>5, <2>3
<1>8. Outcome = Cells(1, w) \cup PutsIn(1, numNew) \cup PutsIn(mi, n) \cup Except(rest, K)
  BY <1>1, <1>7, CompactOutcome
<1>9. Outcome' = Cells(1, w)' \cup PutsIn(1, numNew) \cup later \cup
                   Except(Cells(li, Len(keys))', K)
  BY <1>1 DEF Outcome, PutsIn, KeysOf, Except
<1>10. Expected' = Expected /\ msgs' \in Seq(Key \X Ground) /\ pc' = "compact"
  BY <1>1, CompactingIs DEF Expected
<1>11. Ordered(1, numNew)' /\ AllPuts(1, numNew)' /\ Ordered(mi, Len(msgs))'
  BY <1>1, <1>2, <1>5 DEF Compacting, Ordered, AllPuts
<1>12. li' <= L + 1 /\ 1 <= li' /\ mi' \in 1..Len(msgs') + 1 /\ numNew' < mi' /\ numNew' = numNew
  BY <1>1, <1>3
<1>13. CASE msgs[mi][2].kind = "put"
  <2>1. /\ v \in Value /\ keys' = [keys EXCEPT ![w + 1] = keys[li]] /\ w' = w + 1
        /\ values' = [values EXCEPT ![w + 1] = v]
    BY <1>1, <1>5, <1>13
  <2>2. CellWritten(keys', values', v)
    <3>1. CellWritten([keys EXCEPT ![w + 1] = keys[li]], [values EXCEPT ![w + 1] = v], v)
      BY <1>1, <2>1, WriteCell
    <3> QED
      BY <2>1, <3>1
  <2>3. /\ Written(1, w)' /\ Written(li, Len(keys))'
        /\ \A i \in 1..w' : (i \in 1..w /\ keys'[i] = keys[i]) \/ keys'[i] = k
        /\ \A j \in li'..Len(keys') : j \in li+1..L /\ keys'[j] = keys[j]
        /\ Cells(1, w)' = Cells(1, w) \cup {<<k, v>>}
        /\ Cells(li, Len(keys))' = rest
    BY <1>1, <2>1, <2>2, CellAdded
  <2>4. TypeOK'
    <3>1. /\ keys' \in Seq(Key \cup {Junk}) /\ values' \in Seq(Value \cup {Junk})
          /\ Len(keys') = Len(values') /\ DOMAIN keys' = 1..L
          /\ \A i \in 1..L : keys'[i] = Junk <=> values'[i] = Junk
      BY <2>2 DEF CellWritten
    <3>2. {li, mi, w, numNew, r, p, overwrites}' \subseteq Nat
      <4>1. /\ li' = li + 1 /\ mi' = mi + 1 /\ w' = w + 1
            /\ numNew' = numNew /\ r' = r /\ p' = p /\ overwrites' = overwrites
        BY <1>1, <2>1
      <4>2. li' \in Nat /\ mi' \in Nat /\ w' \in Nat
        BY ONLY <1>3, <4>1
      <4> QED
        BY <1>3, <4>1, <4>2, Zenon
    <3>3. before' \in [Key -> Opt] /\ batch' \in Batches
      BY <1>1, <1>2 DEF TypeOK
    <3> QED
      BY <3>1, <3>2, <3>3 DEF TypeOK, Batches
  <2>5. Compacting'
    <3>1. li' \in 1..Len(keys') + 1 /\ w' < li'
      <4>1. Len(keys') = L
        BY <2>2 DEF CellWritten
      <4>2. w' = w + 1 /\ li' = li + 1
        BY <1>1, <2>1
      <4> QED
        BY ONLY <1>3, <4>1, <4>2
    <3>2. ASSUME NEW i \in 1..w'
          PROVE  /\ \A j \in li'..Len(keys') : keys'[i] < keys'[j]
                 /\ \A j \in mi'..Len(msgs') : keys'[i] < msgs'[j][1]
                 /\ \A j \in 1..numNew' : keys'[i] # msgs'[j][1]
      <4>1. CASE i \in 1..w /\ keys'[i] = keys[i]
        BY <1>1, <1>2, <1>4, <1>5, <2>3, <4>1 DEF Compacting
      <4>2. CASE keys'[i] = k
        <5>1. \A j \in li'..Len(keys') : k < keys'[j]
          BY <1>1, <1>4, <2>3
        <5>2. \A j \in mi'..Len(msgs') : k < msgs'[j][1]
          BY <1>1, <1>5
        <5>3. \A j \in 1..numNew' : k # msgs'[j][1]
          BY <1>1, <1>5, <1>6
        <5> QED
          BY <4>2, <5>1, <5>2, <5>3
      <4> QED
        BY <2>3, <3>2, <4>1, <4>2
    <3>3. ASSUME NEW i \in 1..numNew'
          PROVE  /\ \A j \in li'..Len(keys') : msgs'[i][1] < keys'[j]
                 /\ \A j \in mi'..Len(msgs') : msgs'[i][1] < msgs'[j][1]
      BY <1>1, <1>2, <1>4, <1>5, <2>3, <3>3 DEF Compacting
    <3> QED
      BY <1>11, <1>12, <2>3, <3>1, <3>2, <3>3 DEF Compacting
  <2>6. NothingLost'
    <3>1. PutsIn(mi, n) = {<<k, v>>} \cup later
      BY <1>5, <1>13
    <3> HIDE DEF rest, later, K, k, v
    <3>2. Outcome' = Outcome
      BY <1>8, <1>9, <2>3, <3>1
    <3> QED
      BY <1>1, <1>2, <1>10, <3>2 DEF NothingLost
  <2> QED
    BY <1>10, <2>4, <2>5, <2>6 DEF IInv, Labels, Applying, Called, Adding, Merging
<1>14. CASE msgs[mi][2].kind = "del"
  <2>1. keys' = keys /\ values' = values /\ w' = w
    BY <1>1, <1>14 DEF leaf
  <2>2. TypeOK'
    BY <1>1, <1>2, <1>3, <2>1 DEF TypeOK, Batches
  <2>3. /\ li'..Len(keys') = li+1..L /\ mi'..Len(msgs') = mi+1..n
        /\ 1..w' = 1..w /\ 1..numNew' = 1..numNew
    BY <1>1, <2>1
  <2>4. Compacting'
    <3>1. li' \in 1..Len(keys') + 1 /\ w' < li'
      BY <1>1, <1>3, <1>12, <2>1
    <3>2. Written(1, w)' /\ Written(li, Len(keys))'
      BY <1>1, <1>2, <1>4, <2>1, <2>3 DEF Compacting, Written, Table
    <3>3. ASSUME NEW i \in 1..w'
          PROVE  /\ \A j \in li'..Len(keys') : keys'[i] < keys'[j]
                 /\ \A j \in mi'..Len(msgs') : keys'[i] < msgs'[j][1]
                 /\ \A j \in 1..numNew' : keys'[i] # msgs'[j][1]
      BY <1>1, <1>2, <1>4, <1>5, <2>1, <2>3, <3>3 DEF Compacting
    <3>4. ASSUME NEW i \in 1..numNew'
          PROVE  /\ \A j \in li'..Len(keys') : msgs'[i][1] < keys'[j]
                 /\ \A j \in mi'..Len(msgs') : msgs'[i][1] < msgs'[j][1]
      BY <1>1, <1>2, <1>4, <1>5, <2>1, <2>3, <3>4 DEF Compacting
    <3> QED
      BY <1>11, <1>12, <3>1, <3>2, <3>3, <3>4 DEF Compacting
  <2>5. NothingLost'
    <3>1. PutsIn(mi, n) = later
      BY <1>5, <1>14
    <3>2. Cells(1, w)' = Cells(1, w) /\ Cells(li, Len(keys))' = rest
      BY <2>1, <2>3 DEF Cells
    <3>3. Outcome' = Outcome
      BY <1>8, <1>9, <3>1, <3>2
    <3> QED
      BY <1>1, <1>2, <1>10, <3>3 DEF NothingLost
  <2> QED
    BY <1>10, <2>2, <2>4, <2>5 DEF IInv, Labels, Applying, Called, Adding, Merging
<1> QED
  BY <1>5, <1>13, <1>14

(* A message for a key the leaf does not have: a put is set aside. *)
LEMMA CollectNewKeeps ==
  ASSUME IInv, CollectNew
  PROVE  IInv'
<1> DEFINE L == Len(keys)
           n == Len(msgs)
           k == msgs[mi][1]
           v == msgs[mi][2].val
           u == numNew + 1
           left == Cells(li, L)
           later == PutsIn(mi + 1, n)
           K == KeysOf(msgs, mi + 1, n)
<1>1. /\ pc = "compact" /\ MsgsLeft /\ (LeafLeft => keys[li] > k)
      /\ \/ /\ msgs[mi][2].kind = "put"
            /\ msgs' = [msgs EXCEPT ![u] = msgs[mi]]
            /\ numNew' = u
         \/ msgs[mi][2].kind = "del" /\ UNCHANGED <<msgs, numNew>>
      /\ mi' = mi + 1
      /\ UNCHANGED <<before, batch, leaf, pc, li, w, r, p, overwrites>>
  BY DEF CollectNew
<1>2. /\ TypeOK /\ NothingLost /\ Compacting
  BY DEF IInv
<1>3. /\ li \in Nat /\ mi \in Nat /\ w \in Nat /\ numNew \in Nat /\ L \in Nat /\ n \in Nat
      /\ 1 <= li /\ li <= L + 1 /\ 1 <= mi /\ mi <= n /\ w < li /\ numNew < mi
      /\ DOMAIN msgs = 1..n /\ msgs \in Seq(Key \X Ground)
  BY <1>1, CompactingIs DEF MsgsLeft
<1>4. /\ keys' = keys /\ values' = values
  BY <1>1 DEF leaf
<1>5. /\ k \in Key /\ k \in Nat
      /\ msgs[mi][2].kind \in {"put", "del"}
      /\ \A j \in mi+1..n : j \in mi..n /\ k < msgs[j][1]
      /\ \A i \in 1..w : keys[i] < k
      /\ \A i \in 1..numNew : msgs[i][1] < k
      /\ KeysOf(msgs, mi, n) = {k} \cup K
      /\ msgs[mi][2].kind = "put" => PutsIn(mi, n) = {<<k, v>>} \cup later
      /\ msgs[mi][2].kind = "del" => PutsIn(mi, n) = later
  BY <1>1, NextMsg
<1>6. \A j \in li..L : k < keys[j] /\ keys[j] \in Nat
  <2> SUFFICES ASSUME NEW j \in li..L PROVE k < keys[j] /\ keys[j] \in Nat
    OBVIOUS
  <2>1. LeafLeft
    BY <1>3 DEF LeafLeft
  <2>2. /\ k < keys[li] /\ keys[li] \in Nat /\ keys[j] \in Nat
        /\ \A x \in li+1..L : keys[li] < keys[x]
    BY <1>1, <1>5, <2>1, NextEntry
  <2>3. j = li \/ j \in li+1..L
    BY <1>3
  <2> QED
    BY <1>5, <2>2, <2>3
<1>7. Except(left, KeysOf(msgs, mi, n)) = Except(left, K)
  <2>1. ASSUME NEW e \in left PROVE e[1] # k
    <3>1. PICK j \in li..L : e = <<keys[j], values[j]>>
      BY <2>1 DEF Cells
    <3>2. e[1] = keys[j]
      BY <3>1
    <3> QED
      BY <1>5, <1>6, <3>2
  <2> HIDE DEF left, K, k
  <2>2. Except(left, {k} \cup K) = Except(left, K)
    BY <2>1 DEF Except
  <2> QED
    BY <1>5, <2>2
<1>8. Outcome = Cells(1, w) \cup PutsIn(1, numNew) \cup PutsIn(mi, n) \cup Except(left, K)
  BY <1>1, <1>7, CompactOutcome
<1>9. TypeOK'
  <2>1. numNew' \in Nat /\ mi' \in Nat
    BY <1>1, <1>3
  <2> QED
    BY <1>1, <1>2, <1>4, <2>1 DEF TypeOK, Batches
<1>10. Expected' = Expected /\ pc' = "compact"
  BY <1>1 DEF Expected
<1>11. Written(1, w)' /\ Written(li, Len(keys))' /\ Cells(1, w)' = Cells(1, w)
       /\ Cells(li, Len(keys))' = left
  BY <1>1, <1>2, <1>4 DEF Compacting, Written, Cells
<1>12. Outcome' = Cells(1, w) \cup PutsIn(1, numNew)' \cup PutsIn(mi, Len(msgs))' \cup
                    Except(left, KeysOf(msgs', mi', Len(msgs')))
  BY <1>10, <1>11 DEF Outcome, KeysOf, Except
<1>13. CASE msgs[mi][2].kind = "put"
  <2>1. msgs' = [msgs EXCEPT ![u] = msgs[mi]] /\ numNew' = u /\ mi' = mi + 1
    BY <1>1, <1>13
  <2>2. /\ u \in 1..n /\ mi \in 1..n
    BY <1>3
  <2>3. msgs' \in Seq(Key \X Ground) /\ Len(msgs') = n
    <3>1. msgs[mi] \in Key \X Ground
      BY <1>3, <2>2, ElementOfSeq
    <3> QED
      BY <1>3, <2>1, <2>2, <3>1, ExceptSeq
  <2>4. \A j \in 1..n : msgs'[j] = IF j = u THEN msgs[mi] ELSE msgs[j]
    BY <1>3, <2>1
  <2>5. /\ \A j \in 1..numNew : msgs'[j] = msgs[j]
        /\ msgs'[u] = msgs[mi]
        /\ \A j \in mi+1..n : msgs'[j] = msgs[j]
    <3>1. /\ \A j \in 1..numNew : j \in 1..n /\ j # u
          /\ \A j \in mi+1..n : j \in 1..n /\ j # u
      BY <1>3
    <3> QED
      BY <2>2, <2>4, <3>1
  <2>6. \A i : i \in 1..u <=> i \in 1..numNew \/ i = u
    BY <1>3
  <2> HIDE DEF u
  <2>7. Ordered(1, numNew)' /\ AllPuts(1, numNew)'
    <3>1. Ordered(1, numNew) /\ AllPuts(1, numNew)
      BY <1>1, <1>2 DEF Compacting
    <3>2. ASSUME NEW i \in 1..u, NEW j \in 1..u, i < j PROVE msgs'[i][1] < msgs'[j][1]
      <4>1. i \in 1..numNew
        BY <1>3, <3>2 DEF u
      <4>2. CASE j \in 1..numNew
        BY <2>5, <3>1, <3>2, <4>1, <4>2 DEF Ordered
      <4>3. CASE j = u
        BY <1>5, <2>5, <4>1, <4>3
      <4> QED
        BY <2>6, <4>2, <4>3
    <3>3. \A i \in 1..u : msgs'[i][2].kind = "put"
      BY <1>13, <2>5, <2>6, <3>1 DEF AllPuts
    <3> QED
      BY <2>1, <3>2, <3>3 DEF Ordered, AllPuts
  <2>8. Ordered(mi, Len(msgs))'
    BY <1>1, <1>2, <1>5, <2>1, <2>3, <2>5 DEF Compacting, Ordered
  <2>9. Compacting'
    <3>1. /\ li' \in 1..Len(keys') + 1 /\ mi' \in 1..Len(msgs') + 1
          /\ w' < li' /\ numNew' < mi'
      BY <1>1, <1>3, <1>4, <2>1, <2>3 DEF u
    <3>2. ASSUME NEW i \in 1..w'
          PROVE  /\ \A j \in li'..Len(keys') : keys'[i] < keys'[j]
                 /\ \A j \in mi'..Len(msgs') : keys'[i] < msgs'[j][1]
                 /\ \A j \in 1..numNew' : keys'[i] # msgs'[j][1]
      <4>1. \A j \in li'..Len(keys') : keys'[i] < keys'[j]
        BY <1>1, <1>2, <1>4 DEF Compacting
      <4>2. \A j \in mi'..Len(msgs') : keys'[i] < msgs'[j][1]
        BY <1>1, <1>2, <1>4, <1>5, <2>1, <2>3, <2>5 DEF Compacting
      <4>3. keys[i] \in Nat /\ keys[i] < k
        BY <1>1, <1>2, <1>5, KeysAreNat DEF Compacting, Written, Table
      <4>4. \A j \in 1..numNew : keys[i] # msgs[j][1]
        BY <1>1, <1>2 DEF Compacting
      <4>5. ASSUME NEW j \in 1..numNew' PROVE keys'[i] # msgs'[j][1]
        <5>1. CASE j \in 1..numNew
          BY <1>4, <2>5, <4>4, <5>1
        <5>2. CASE j = u
          BY <1>4, <1>5, <2>5, <4>3, <5>2
        <5> QED
          BY <2>1, <2>6, <5>1, <5>2
      <4> QED
        BY <4>1, <4>2, <4>5
    <3>3. ASSUME NEW i \in 1..numNew'
          PROVE  /\ \A j \in li'..Len(keys') : msgs'[i][1] < keys'[j]
                 /\ \A j \in mi'..Len(msgs') : msgs'[i][1] < msgs'[j][1]
      <4>1. CASE i \in 1..numNew
        BY <1>1, <1>2, <1>4, <1>5, <2>1, <2>3, <2>5, <4>1 DEF Compacting
      <4>2. CASE i = u
        BY <1>1, <1>4, <1>5, <1>6, <2>1, <2>3, <2>5, <4>2
      <4> QED
        BY <2>1, <2>6, <4>1, <4>2
    <3> QED
      BY <1>11, <2>7, <2>8, <3>1, <3>2, <3>3 DEF Compacting
  <2>10. NothingLost'
    <3>1. PutsIn(mi, n) = {<<k, v>>} \cup later
      BY <1>5, <1>13
    <3>2. PutsIn(mi, Len(msgs))' = later /\ KeysOf(msgs', mi', Len(msgs')) = K
      BY <2>1, <2>3, <2>5 DEF PutsIn, KeysOf
    <3>3. PutsIn(1, numNew)' = PutsIn(1, numNew) \cup {<<k, v>>}
      <4>1. PutsIn(1, numNew)' =
              {<<msgs'[i][1], msgs'[i][2].val>> : i \in {x \in 1..u : msgs'[x][2].kind = "put"}}
        BY <2>1 DEF PutsIn
      <4> QED
        BY <1>13, <2>5, <2>6, <4>1 DEF PutsIn
    <3> HIDE DEF left, later, K, k, v
    <3>4. Outcome' = Outcome
      BY <1>8, <1>12, <3>1, <3>2, <3>3
    <3> QED
      BY <1>1, <1>2, <1>10, <3>4 DEF NothingLost
  <2> QED
    BY <1>9, <1>10, <2>3, <2>9, <2>10 DEF IInv, Labels, Applying, Called, Adding, Merging
<1>14. CASE msgs[mi][2].kind = "del"
  <2>1. msgs' = msgs /\ numNew' = numNew /\ mi' = mi + 1 /\ li' = li /\ w' = w
    BY <1>1, <1>14
  <2>2. Compacting'
    <3>1. /\ li' \in 1..Len(keys') + 1 /\ mi' \in 1..Len(msgs') + 1
          /\ w' < li' /\ numNew' < mi'
      BY <1>3, <1>4, <2>1
    <3>2. Ordered(1, numNew)' /\ AllPuts(1, numNew)' /\ Ordered(mi, Len(msgs))'
      BY <1>1, <1>2, <1>5, <2>1 DEF Compacting, Ordered, AllPuts
    <3>3. ASSUME NEW i \in 1..w'
          PROVE  /\ \A j \in li'..Len(keys') : keys'[i] < keys'[j]
                 /\ \A j \in mi'..Len(msgs') : keys'[i] < msgs'[j][1]
                 /\ \A j \in 1..numNew' : keys'[i] # msgs'[j][1]
      BY <1>1, <1>2, <1>4, <1>5, <2>1, <3>3 DEF Compacting
    <3>4. ASSUME NEW i \in 1..numNew'
          PROVE  /\ \A j \in li'..Len(keys') : msgs'[i][1] < keys'[j]
                 /\ \A j \in mi'..Len(msgs') : msgs'[i][1] < msgs'[j][1]
      BY <1>1, <1>2, <1>4, <1>5, <2>1, <3>4 DEF Compacting
    <3> QED
      BY <1>11, <3>1, <3>2, <3>3, <3>4 DEF Compacting
  <2>3. NothingLost'
    <3>1. /\ PutsIn(mi, Len(msgs))' = PutsIn(mi, n) /\ PutsIn(1, numNew)' = PutsIn(1, numNew)
          /\ KeysOf(msgs', mi', Len(msgs')) = K
      BY <1>5, <1>14, <2>1 DEF PutsIn, KeysOf
    <3>2. Outcome' = Outcome
      BY <1>8, <1>12, <3>1
    <3> QED
      BY <1>1, <1>2, <1>10, <3>2 DEF NothingLost
  <2> QED
    BY <1>3, <1>9, <1>10, <2>1, <2>2, <2>3 DEF IInv, Labels, Applying, Called, Adding, Merging
<1> QED
  BY <1>5, <1>13, <1>14

(* The first m elements of a sequence. *)
LEMMA PrefixIs ==
  ASSUME NEW S, NEW s, NEW m \in Nat, \A i \in 1..m : s[i] \in S
  PROVE  /\ SubSeq(s, 1, m) \in Seq(S) /\ Len(SubSeq(s, 1, m)) = m
         /\ \A i \in 1..m : SubSeq(s, 1, m)[i] = s[i]
<1>1. /\ SubSeq(s, 1, m) \in Seq(S) /\ Len(SubSeq(s, 1, m)) = IF 1 <= m THEN m - 1 + 1 ELSE 0
      /\ \A i \in 1..m-1+1 : SubSeq(s, 1, m)[i] = s[1 + i - 1]
  BY SubSeqProperties
<1>2. \A i \in 1..m : i \in 1..m-1+1 /\ 1 + i - 1 = i
  OBVIOUS
<1> QED
  BY <1>1, <1>2

(* The leaf is cut; what was set aside is merged next, if there is any. *)
LEMMA TruncateKeeps ==
  ASSUME IInv, Truncate
  PROVE  IInv'
<1> DEFINE L == Len(keys)
           n == Len(msgs)
           N == PutsIn(1, numNew)
<1>1. /\ pc = "compact" /\ ~LeafLeft /\ ~MsgsLeft
      /\ keys' = SubSeq(keys, 1, w) /\ values' = SubSeq(values, 1, w)
      /\ msgs' = SubSeq(msgs, 1, numNew)
      /\ pc' = IF numNew > 0 THEN "grow" ELSE "done"
      /\ before' = before /\ batch' = batch
      /\ UNCHANGED <<li, mi, w, numNew, r, p, overwrites>>
  BY DEF Truncate, loop
<1>2. /\ TypeOK /\ NothingLost /\ Compacting
  BY DEF IInv
<1>3. /\ li \in Nat /\ mi \in Nat /\ w \in Nat /\ numNew \in Nat /\ L \in Nat /\ n \in Nat
      /\ li = L + 1 /\ mi = n + 1 /\ w <= L /\ numNew <= n
      /\ msgs \in Seq(Key \X Ground)
  <2>1. /\ li \in Nat /\ mi \in Nat /\ w \in Nat /\ numNew \in Nat /\ L \in Nat /\ n \in Nat
        /\ li <= L + 1 /\ mi <= n + 1 /\ w < li /\ numNew < mi
        /\ msgs \in Seq(Key \X Ground)
    BY <1>1, CompactingIs, ZenonT(20)
  <2>2. ~(li <= L) /\ ~(mi <= n)
    BY <1>1 DEF LeafLeft, MsgsLeft
  <2> HIDE DEF L, n
  <2> QED
    BY ONLY <2>1, <2>2
<1>4. /\ Table(keys, values, 1, w) /\ Ordered(1, numNew) /\ AllPuts(1, numNew)
      /\ \A i \in 1..w, j \in 1..numNew : keys[i] # msgs[j][1]
  BY <1>1, <1>2 DEF Compacting, Written
<1>5. /\ keys' \in Seq(Key) /\ Len(keys') = w /\ \A i \in 1..w : keys'[i] = keys[i]
      /\ values' \in Seq(Value) /\ Len(values') = w /\ \A i \in 1..w : values'[i] = values[i]
  <2>1. \A i \in 1..w : keys[i] \in Key /\ values[i] \in Value
    BY <1>4 DEF Table
  <2>2. w \in Nat
    BY <1>3
  <2>3. /\ SubSeq(keys, 1, w) \in Seq(Key) /\ Len(SubSeq(keys, 1, w)) = w
        /\ \A i \in 1..w : SubSeq(keys, 1, w)[i] = keys[i]
    BY ONLY <2>1, <2>2, PrefixIs
  <2>4. /\ SubSeq(values, 1, w) \in Seq(Value) /\ Len(SubSeq(values, 1, w)) = w
        /\ \A i \in 1..w : SubSeq(values, 1, w)[i] = values[i]
    BY ONLY <2>1, <2>2, PrefixIs
  <2> QED
    BY <1>1, <2>3, <2>4
<1>6. /\ msgs' \in Seq(Key \X Ground) /\ Len(msgs') = numNew
      /\ \A i \in 1..numNew : msgs'[i] = msgs[i]
  <2>1. \A i \in 1..numNew : msgs[i] \in Key \X Ground
    BY <1>3, ElementOfSeq
  <2> QED
    BY <1>1, <1>3, <2>1, PrefixIs
<1>7. TypeOK'
  <2>1. {li, mi, w, numNew, r, p, overwrites}' \subseteq Nat
    BY <1>1, <1>2, Zenon DEF TypeOK
  <2>2. before' \in [Key -> Opt] /\ batch' \in Batches'
    BY <1>1, <1>2 DEF TypeOK, Batches
  <2>3. /\ keys' \in Seq(Key \cup {Junk}) /\ values' \in Seq(Value \cup {Junk})
        /\ Len(keys') = Len(values')
        /\ \A i \in DOMAIN keys' : keys'[i] = Junk <=> values'[i] = Junk
    BY <1>5, NoJunk, ZenonT(30)
  <2> QED
    BY <2>1, <2>2, <2>3 DEF TypeOK
<1>8. Written(1, Len(keys))'
  BY <1>4, <1>5 DEF Written, Table
<1>9. Ordered(1, Len(msgs))' /\ AllPuts(1, Len(msgs))'
  BY <1>4, <1>6 DEF Ordered, AllPuts
<1>10. Cells(1, Len(keys))' = Cells(1, w) /\ PutsIn(1, Len(msgs))' = N
  <2>1. Cells(1, Len(keys))' = Cells(1, w)
    BY <1>5 DEF Cells
  <2>2. PutsIn(1, Len(msgs))' = N
    BY <1>6 DEF PutsIn
  <2> QED
    BY <2>1, <2>2
<1>11. Outcome = Cells(1, w) \cup N
  <2>1. mi..n = {} /\ li..L = {}
    BY <1>3
  <2>2. PutsIn(mi, n) = {} /\ Cells(li, L) = {}
    BY <2>1 DEF PutsIn, Cells
  <2>3. Except({}, KeysOf(msgs, mi, n)) = {}
    BY DEF Except
  <2> QED
    BY <1>1, <2>2, <2>3, CompactOutcome
<1>12. Except(Cells(1, w), KeysIn(N)) = Cells(1, w)
  <2> SUFFICES ASSUME NEW e \in Cells(1, w), NEW f \in N PROVE e[1] # f[1]
    BY DEF Except, KeysIn
  <2>1. PICK i \in 1..w : e = <<keys[i], values[i]>>
    BY DEF Cells
  <2>2. PICK j \in 1..numNew : f = <<msgs[j][1], msgs[j][2].val>>
    BY DEF PutsIn
  <2>3. e[1] = keys[i] /\ f[1] = msgs[j][1]
    BY <2>1, <2>2
  <2> QED
    BY <1>4, <2>3
<1>13. Outcome' = Outcome
  <2>1. CASE numNew > 0
    <3>1. pc' = "grow"
      BY <1>1, <2>1
    <3>2. Outcome' = PutsIn(1, Len(msgs))' \cup
                       Except(Cells(1, Len(keys))', KeysIn(PutsIn(1, Len(msgs))'))
      BY <3>1 DEF Outcome, Except, KeysIn
    <3> HIDE DEF N
    <3> QED
      BY <1>10, <1>11, <1>12, <3>2
  <2>2. CASE ~(numNew > 0)
    <3>1. pc' = "done" /\ 1..numNew = {}
      BY <1>1, <1>3, <2>2
    <3>2. N = {}
      BY <3>1 DEF PutsIn
    <3>3. Outcome' = Cells(1, Len(keys))'
      BY <3>1 DEF Outcome
    <3> QED
      BY <1>10, <1>11, <3>2, <3>3
  <2> QED
    BY <2>1, <2>2
<1>14. NothingLost'
  <2>1. Expected' = Expected
    BY <1>1 DEF Expected
  <2> QED
    BY <1>1, <1>2, <1>13, <2>1 DEF NothingLost
<1>15. pc' \in {"grow", "done"}
  BY <1>1
<1> QED
  BY <1>6, <1>7, <1>8, <1>9, <1>14, <1>15
     DEF IInv, Labels, Applying, Called, Adding, Compacting, Merging

-----------------------------------------------------------------------------
(* The theorems. *)

(* Every step of applyToLeaf keeps the invariant. *)
LEMMA NextKeeps ==
  ASSUME IInv, [Next]_vars
  PROVE  IInv'
<1>1. CASE ApplyOne
  BY <1>1, ApplyOneKeeps
<1>2. CASE Finish
  BY <1>2, FinishKeeps
<1>3. CASE Resolve
  BY <1>3, ResolveKeeps
<1>4. CASE appendToLeaf
  BY <1>4, AppendKeeps
<1>5. CASE GrowLeaf
  BY <1>5, GrowKeeps
<1>6. CASE MergePut
  BY <1>6, MergePutKeeps
<1>7. CASE CloseGap
  BY <1>7, CloseGapKeeps
<1>8. CASE KeepEntry
  BY <1>8, KeepEntryKeeps
<1>9. CASE CollectNew
  BY <1>9, CollectNewKeeps
<1>10. CASE ApplyMatch
  BY <1>10, ApplyMatchKeeps
<1>11. CASE Truncate
  BY <1>11, TruncateKeeps
<1>12. CASE UNCHANGED vars
  <2>1. UNCHANGED <<before, batch, keys, values, msgs, pc, li, mi, w, numNew, r, p, overwrites>>
    BY <1>12 DEF vars, loop
  <2>2. TypeOK' /\ msgs' \in Seq(Key \X Ground) /\ pc' \in Labels
    BY <2>1 DEF IInv, TypeOK, Batches, Labels
  <2>3. Applying' /\ Called' /\ (pc' = "done" => Written(1, Len(keys))')
    <3>1. /\ Written(1, Len(keys))' <=> Written(1, Len(keys))
          /\ Cells(1, Len(keys))' = Cells(1, Len(keys)) /\ Pairs(before)' = Pairs(before)
      BY <2>1 DEF Written, Table, Cells, Pairs
    <3>2. SoFar(mi - 1)' = SoFar(mi - 1)
      BY <2>1 DEF SoFar
    <3>3. Pairs(SoFar(mi - 1))' = Pairs(SoFar(mi - 1))
      BY <3>2 DEF Pairs
    <3> QED
      BY <2>1, <3>1, <3>3 DEF IInv, Applying, Called
  <2>4. Adding' /\ Compacting' /\ Merging'
    BY <2>1 DEF IInv, Adding, Compacting, Merging, Written, Table, Ordered, AllPuts
  <2>5. Outcome' = Outcome /\ Expected' = Expected
    BY <2>1 DEF Outcome, Expected, Cells, PutsIn, KeysIn, Except
  <2>6. NothingLost'
    BY <2>1, <2>5 DEF IInv, NothingLost
  <2> QED
    BY <2>2, <2>3, <2>4, <2>6 DEF IInv
<1> QED
  BY <1>1, <1>2, <1>3, <1>4, <1>5, <1>6, <1>7, <1>8, <1>9, <1>10, <1>11, <1>12 DEF Next

(* The invariant holds in every state of a call of applyToLeaf. *)
THEOREM LeafInvariant == Spec => []IInv
<1>1. Init => IInv
  BY InitKeeps
<1>2. IInv /\ [Next]_vars => IInv'
  BY NextKeeps
<1> QED
  BY <1>1, <1>2, PTL DEF Spec

(* The leaf's arrays stay parallel, and typed, in every step of the loops. *)
THEOREM LeafTypes == Spec => []TypeOK
<1>1. IInv => TypeOK
  BY DEF IInv
<1> QED
  BY <1>1, LeafInvariant, PTL

(***************************************************************************)
(* "writes never overtake reads" (flush.go:301): the in-place merges never *)
(* overwrite an entry or a message that they still have to read.           *)
(***************************************************************************)
THEOREM NothingIsLost == Spec => []NothingLost
<1>1. IInv => NothingLost
  BY DEF IInv
<1> QED
  BY <1>1, LeafInvariant, PTL

(***************************************************************************)
(* When applyToLeaf returns, by either path, the leaf's keys ascend and it *)
(* holds what the messages of the batch, applied in the order in which     *)
(* they came, make of it: flush.go:77-355.                                 *)
(***************************************************************************)
THEOREM LeafIsCorrect == Spec => []LeafCorrect
<1>1. ASSUME IInv, pc = "done"
      PROVE  /\ Ascending(keys)
             /\ [k \in Key |-> Lookup(k)] = Expected
             /\ ToSet(keys) = {k \in Key : Expected[k] # Absent}
  <2>1. /\ TypeOK /\ Written(1, Len(keys)) /\ batch \in Batches /\ before \in [Key -> Opt]
    BY <1>1 DEF IInv, TypeOK
  <2>2. /\ Len(keys) \in Nat /\ DOMAIN keys = 1..Len(keys) /\ Ascending(keys)
    BY <2>1, TableIs DEF TypeOK, Written
  <2>3. Expected \in [Key -> Opt]
    <3>1. SoFar(Len(batch)) = Expected /\ \A i \in 0..Len(batch) : SoFar(i) \in [Key -> Opt]
      BY <2>1, SoFarIs
    <3>2. Len(batch) \in 0..Len(batch)
      BY <2>1, BatchType
    <3> QED
      BY <3>1, <3>2
  <2>4. Cells(1, Len(keys)) = Pairs(Expected)
    BY <1>1 DEF IInv, NothingLost, Outcome, Pairs
  <2>5. \A k \in Key : Lookup(k) = Expected[k]
    BY <2>1, <2>3, <2>4, LookupIs
  <2>6. Expected = [k \in Key |-> Expected[k]]
    BY <2>3
  <2>7. ToSet(keys) = {keys[i] : i \in 1..Len(keys)}
    BY <2>2 DEF ToSet
  <2>8. ASSUME NEW i \in 1..Len(keys)
        PROVE  keys[i] \in Key /\ Expected[keys[i]] # Absent
    <3>1. <<keys[i], values[i]>> \in Pairs(Expected)
      BY <2>4 DEF Cells
    <3>2. PICK k \in Key : Expected[k] # Absent /\ <<keys[i], values[i]>> = <<k, Expected[k]>>
      BY <3>1 DEF Pairs
    <3> QED
      BY <3>2
  <2>9. ASSUME NEW k \in Key, Expected[k] # Absent
        PROVE  \E i \in 1..Len(keys) : keys[i] = k
    <3>1. <<k, Expected[k]>> \in Cells(1, Len(keys))
      BY <2>4, <2>9 DEF Pairs
    <3>2. PICK i \in 1..Len(keys) : <<k, Expected[k]>> = <<keys[i], values[i]>>
      BY <3>1 DEF Cells
    <3> QED
      BY <3>2
  <2>10. ToSet(keys) = {k \in Key : Expected[k] # Absent}
    BY <2>7, <2>8, <2>9
  <2>11. [k \in Key |-> Lookup(k)] = [k \in Key |-> Expected[k]]
    BY <2>5
  <2> QED
    BY <2>2, <2>6, <2>10, <2>11
<1>2. IInv => LeafCorrect
  BY <1>1 DEF LeafCorrect
<1> QED
  BY <1>2, LeafInvariant, PTL
=============================================================================
