-------------------------- MODULE NodeBufferProofs --------------------------
(***************************************************************************)
(* The buffer of an internal node as an array, for every set of keys and   *)
(* messages, every fanout and every buffer: both ways of reading it return *)
(* the messages that are there (ReadsAreExact), and the array does what    *)
(* BETree says of the messages of each key (BufferMatchesTree).            *)
(***************************************************************************)
EXTENDS NodeBuffer, MessageLemmas

-----------------------------------------------------------------------------
(* The inductive invariant. *)

(* The pivots ascend. *)
Rising == \A i, j \in 1..Len(pivots) : i < j => pivots[i] < pivots[j]

(* An array is sorted by key. *)
SortedByKey(s) == \A i, j \in 1..Len(s) : i < j => s[i][1] <= s[j][1]

(* bufferSorted tells the truth; a split never meets it. *)
Inv ==
  /\ TypeOK
  /\ Rising
  /\ bufferSorted => SortedByKey(buffer)
  /\ ~Settled => ~bufferSorted

-----------------------------------------------------------------------------
(* Sequences. *)

(* Keys are naturals. *)
LEMMA KeysAreNat == \A k \in Key : k \in Nat
BY NodeBufferAssumption

(* Induction over sequences. *)
LEMMA InductionOnSeq ==
  ASSUME NEW S, NEW T, <<>> \in T, \A t \in Seq(S), e \in S : t \in T => Append(t, e) \in T
  PROVE  Seq(S) \subseteq T
<1> DEFINE N == {n \in Nat : \A s \in Seq(S) : Len(s) = n => s \in T}
<1>1. 0 \in N
  BY EmptySeq
<1>2. ASSUME NEW n \in Nat, n \in N PROVE n + 1 \in N
  <2> SUFFICES ASSUME NEW s \in Seq(S), Len(s) = n + 1 PROVE s \in T
    OBVIOUS
  <2> DEFINE t == [i \in 1..n |-> s[i]]
             e == s[n + 1]
  <2>1. \A i \in 1..n+1 : s[i] \in S
    BY ElementOfSeq
  <2>2. t \in [1..n -> S] /\ e \in S
    BY <2>1
  <2>3. t \in Seq(S) /\ Len(t) = n
    BY <2>2
  <2>4. t \in T
    BY <1>2, <2>3
  <2>5. Append(t, e) = s
    <3>1. \A i \in 1..n : t[i] = s[i]
      OBVIOUS
    <3> HIDE DEF t
    <3>2. /\ Append(t, e) \in Seq(S) /\ Len(Append(t, e)) = n + 1
          /\ \A i \in 1..n : Append(t, e)[i] = t[i]
          /\ Append(t, e)[n + 1] = e
      BY <2>2, <2>3, AppendProperties
    <3>3. \A i \in 1..n+1 : Append(t, e)[i] = s[i]
      BY <3>1, <3>2
    <3> HIDE DEF e
    <3> QED
      BY <3>2, <3>3, SeqEqual
  <2> HIDE DEF t, e
  <2> QED
    BY <2>2, <2>3, <2>4, <2>5
<1>3. Nat \subseteq N
  <2> HIDE DEF N
  <2> QED
    BY ONLY <1>1, <1>2, InductionOnNat
<1> QED
  BY <1>3, LenProperties

(* The cells in low come first among len, and e is where they end. *)
ComeFirst(len, low) == \A i, j \in 1..len : i < j /\ j \in low => i \in low

EndAt(len, low, e) ==
  /\ e \in 1..len+1
  /\ \A j \in 1..e-1 : j \in low
  /\ \A j \in e..len : j \notin low

(* A binary search ends where the cells that come first end. *)
LEMMA SearchEndIs ==
  ASSUME NEW len \in Nat, NEW low, ComeFirst(len, low)
  PROVE  EndAt(len, low, SearchEnd(len, low))
<1> DEFINE Hit == {}
           S == Nat
           hit == [i \in 1..len |-> 0]
           miss == [i \in 0..len |-> i + 1]
           E(f) == [part \in (0..len) \X (0..len) |->
                      LET lo == part[1]
                          hi == part[2]
                          mid == lo + (hi - lo) \div 2
                      IN  IF lo >= hi THEN lo + 1
                          ELSE IF mid + 1 \in low THEN f[<<mid + 1, hi>>]
                                                  ELSE f[<<lo, mid>>]]
           res == CHOOSE f : f = E(f)
<1>1. len \in Nat /\ hit \in [1..len -> S] /\ miss \in [0..len -> S] /\ \A i : i \notin Hit
  OBVIOUS
<1>2. \A f : E(f) = Halved(len, Hit, low, hit, miss, f)
  <2> DEFINE H(f) == Halved(len, Hit, low, hit, miss, f)
             D == (0..len) \X (0..len)
  <2>1. \A f : E(f) = [part \in D |-> E(f)[part]]
    OBVIOUS
  <2>2. \A f : H(f) = [part \in D |-> H(f)[part]]
    BY DEF Halved
  <2>3. ASSUME NEW f, NEW part \in D PROVE E(f)[part] = H(f)[part]
    <3> DEFINE lo == part[1]
               hi == part[2]
               mid == lo + (hi - lo) \div 2
    <3>1. lo \in 0..len /\ hi \in 0..len
      OBVIOUS
    <3>2. E(f)[part] = IF lo >= hi THEN lo + 1
                       ELSE IF mid + 1 \in low THEN f[<<mid + 1, hi>>] ELSE f[<<lo, mid>>]
      BY Zenon
    <3>3. H(f)[part] =
            IF lo >= hi THEN miss[lo]
            ELSE IF mid + 1 \in Hit THEN hit[mid + 1]
            ELSE IF mid + 1 \in low THEN f[<<mid + 1, hi>>] ELSE f[<<lo, mid>>]
      <4> HIDE DEF hit, miss, Hit
      <4> QED
        BY Zenon DEF Halved
    <3>4. miss[lo] = lo + 1
      BY <3>1
    <3> HIDE DEF E, H, lo, hi, mid, Hit, hit, miss
    <3> QED
      BY <1>1, <3>2, <3>3, <3>4
  <2> HIDE DEF H, E, D
  <2>4. \A f : E(f) = H(f)
    BY <2>1, <2>2, <2>3
  <2> QED
    BY <2>4 DEF H
<1>3. res = Bisected(len, Hit, low, hit, miss)
  <2> HIDE DEF E
  <2> QED
    BY <1>2 DEF Bisected
<1>4. SearchEnd(len, low) = res[<<0, len>>]
  BY Zenon DEF SearchEnd
<1>5. Divided(len, Hit, low)
  BY DEF Divided, ComeFirst
<1> HIDE DEF res, E, S, hit, miss, Hit
<1>6. FoundOrMissed(len, Hit, low, hit, miss, res[<<0, len>>])
  BY ONLY <1>1, <1>3, <1>5, Bisection
<1>7. PICK i \in 0..len : /\ res[<<0, len>>] = miss[i]
                          /\ \A j \in 1..i : j \in low
                          /\ \A j \in i+1..len : j \notin low
  BY <1>1, <1>6 DEF FoundOrMissed
<1>8. miss[i] = i + 1
  BY DEF miss
<1> QED
  BY <1>4, <1>7, <1>8 DEF EndAt

(* The recursion of Only. *)
OnlyUpTo(s, ks) ==
  CHOOSE f : f = [i \in 0..Len(s) |-> IF i = 0 THEN <<>>
                                      ELSE IF s[i][1] \in ks THEN Append(f[i-1], s[i])
                                                             ELSE f[i-1]]

(* What a scan has found after i messages. *)
LEMMA OnlyUpToIs ==
  ASSUME NEW Elt, NEW s \in Seq(Elt), NEW ks
  PROVE  /\ OnlyUpTo(s, ks)[0] = <<>>
         /\ \A i \in 0..Len(s) : OnlyUpTo(s, ks)[i] \in Seq(Elt)
         /\ \A i \in 1..Len(s) :
              OnlyUpTo(s, ks)[i] = IF s[i][1] \in ks THEN Append(OnlyUpTo(s, ks)[i-1], s[i])
                                                     ELSE OnlyUpTo(s, ks)[i-1]
<1> DEFINE n == Len(s)
           Q == Seq(Elt)
           E(f) == [i \in 0..n |-> IF i = 0 THEN <<>>
                                   ELSE IF s[i][1] \in ks THEN Append(f[i-1], s[i])
                                                          ELSE f[i-1]]
           g == [i \in 1..n |-> [t \in Q |->
                   IF s[i][1] \in ks THEN Append(t, s[i]) ELSE t]]
<1>1. n \in Nat /\ \A i \in 1..n : s[i] \in Elt
  BY LenProperties, ElementOfSeq
<1> HIDE DEF n
<1>2. \A i \in 1..n, t \in Q : (IF s[i][1] \in ks THEN Append(t, s[i]) ELSE t) \in Q
  BY <1>1, AppendProperties
<1>3. g \in [1..n -> [Q -> Q]]
  BY <1>2
<1>4. \A i \in 1..n, t \in Q : g[i][t] = IF s[i][1] \in ks THEN Append(t, s[i]) ELSE t
  OBVIOUS
<1>5. <<>> \in Q
  OBVIOUS
<1> HIDE DEF g, Q
<1>6. PICK c \in [0..n -> Q] : c[0] = <<>> /\ \A i \in 1..n : c[i] = g[i][c[i-1]]
  <2> DEFINE none == <<>>
  <2>1. none \in Q /\ g \in [1..n -> [Q -> Q]] /\ n \in Nat
    BY <1>1, <1>3, <1>5
  <2> HIDE DEF none
  <2>2. \E c \in [0..n -> Q] : c[0] = none /\ \A i \in 1..n : c[i] = g[i][c[i-1]]
    BY ONLY <2>1, RecursionExists
  <2> QED
    BY <2>2 DEF none
<1>7. \A i \in 1..n : i - 1 \in 0..n /\ i \in 0..n /\ i # 0
  BY <1>1
<1>8. \A i \in 1..n : c[i] = IF s[i][1] \in ks THEN Append(c[i-1], s[i]) ELSE c[i-1]
  BY <1>4, <1>6, <1>7
<1>9. c = E(c)
  <2>1. \A i \in 0..n : i = 0 \/ i \in 1..n
    BY <1>1
  <2>2. \A i \in 0..n : c[i] = E(c)[i]
    BY <1>6, <1>7, <1>8, <2>1
  <2> QED
    BY <1>6, <2>2
<1>10. OnlyUpTo(s, ks) = CHOOSE f : f = E(f)
  BY DEF OnlyUpTo, n
<1> DEFINE f == OnlyUpTo(s, ks)
<1>11. f = E(f)
  BY <1>9, <1>10
<1> HIDE DEF f
<1>12. 0 \in 0..n /\ f[0] = <<>>
  BY <1>1, <1>11
<1>13. \A i \in 1..n : f[i] = IF s[i][1] \in ks THEN Append(f[i-1], s[i]) ELSE f[i-1]
  BY <1>7, <1>11
<1> DEFINE T == {i \in Nat : i <= n => f[i] \in Q}
<1>14. 0 \in T
  BY <1>5, <1>12
<1>15. \A i \in Nat : i \in T => i + 1 \in T
  <2> SUFFICES ASSUME NEW i \in Nat, i \in T, i + 1 <= n PROVE f[i + 1] \in Q
    OBVIOUS
  <2>1. i <= n /\ i + 1 \in 1..n /\ (i + 1) - 1 = i
    BY <1>1
  <2>2. f[i] \in Q
    BY <2>1
  <2> QED
    BY <1>2, <1>13, <2>1, <2>2
<1>16. \A i \in 0..n : f[i] \in Q
  <2> HIDE DEF T
  <2>1. Nat \subseteq T
    BY ONLY <1>14, <1>15, InductionOnNat
  <2> QED
    BY <1>1, <2>1 DEF T
<1> QED
  BY <1>12, <1>13, <1>16 DEF f, n, Q

(* A scan of one more message. *)
LEMMA OnlyIs ==
  ASSUME NEW S, NEW ks
  PROVE  /\ Only(<<>>, ks) = <<>>
         /\ \A s \in Seq(S) : Only(s, ks) \in Seq(S)
         /\ \A s \in Seq(S), e \in S :
              Only(Append(s, e), ks) = IF e[1] \in ks THEN Append(Only(s, ks), e)
                                                      ELSE Only(s, ks)
<1>1. \A s : Only(s, ks) = OnlyUpTo(s, ks)[Len(s)]
  BY Zenon DEF Only, OnlyUpTo
<1>2. Only(<<>>, ks) = <<>>
  <2>1. ASSUME NEW s \in Seq(S), Len(s) = 0 PROVE Only(s, ks) = <<>>
    <3>1. OnlyUpTo(s, ks)[0] = <<>>
      BY OnlyUpToIs
    <3> QED
      BY <1>1, <2>1, <3>1
  <2> DEFINE none == <<>>
  <2>2. none \in Seq(S) /\ Len(none) = 0
    OBVIOUS
  <2> HIDE DEF none
  <2>3. Only(none, ks) = <<>>
    BY ONLY <2>1, <2>2
  <2> QED
    BY ONLY <2>3 DEF none
<1>3. ASSUME NEW s \in Seq(S) PROVE Only(s, ks) \in Seq(S)
  <2>1. Len(s) \in 0..Len(s)
    BY LenProperties
  <2> QED
    BY <1>1, <2>1, OnlyUpToIs
<1>4. ASSUME NEW s \in Seq(S), NEW e \in S
      PROVE  Only(Append(s, e), ks) = IF e[1] \in ks THEN Append(Only(s, ks), e)
                                                     ELSE Only(s, ks)
  <2> DEFINE n == Len(s)
             s2 == Append(s, e)
             f == OnlyUpTo(s, ks)
             g == OnlyUpTo(s2, ks)
             T == {i \in Nat : i <= n => g[i] = f[i]}
  <2>1. /\ n \in Nat /\ s2 \in Seq(S) /\ Len(s2) = n + 1
        /\ \A i \in 1..n : s2[i] = s[i]
        /\ s2[n + 1] = e
    BY AppendProperties, LenProperties
  <2> HIDE DEF s2
  <2>2. /\ f[0] = <<>>
        /\ \A i \in 1..n : f[i] = IF s[i][1] \in ks THEN Append(f[i-1], s[i]) ELSE f[i-1]
    BY OnlyUpToIs
  <2>3. /\ g[0] = <<>>
        /\ \A i \in 1..n+1 : g[i] = IF s2[i][1] \in ks THEN Append(g[i-1], s2[i]) ELSE g[i-1]
    BY <2>1, OnlyUpToIs
  <2> HIDE DEF f, g, n
  <2>4. 0 \in T
    BY <2>2, <2>3
  <2>5. \A i \in Nat : i \in T => i + 1 \in T
    <3> SUFFICES ASSUME NEW i \in Nat, i \in T, i + 1 <= n PROVE g[i + 1] = f[i + 1]
      OBVIOUS
    <3>1. i <= n /\ i + 1 \in 1..n /\ i + 1 \in 1..n+1 /\ (i + 1) - 1 = i
      BY <2>1
    <3>2. g[i] = f[i] /\ s2[i + 1] = s[i + 1]
      BY <2>1, <3>1
    <3> QED
      BY <2>2, <2>3, <3>1, <3>2
  <2>6. g[n] = f[n]
    <3> HIDE DEF T
    <3>1. Nat \subseteq T
      BY ONLY <2>4, <2>5, InductionOnNat
    <3> QED
      BY <2>1, <3>1 DEF T
  <2>7. n + 1 \in 1..n+1 /\ (n + 1) - 1 = n
    BY <2>1
  <2>8. g[n + 1] = IF e[1] \in ks THEN Append(g[n], e) ELSE g[n]
    BY <2>1, <2>3, <2>7
  <2>9. Only(s, ks) = f[n] /\ Only(s2, ks) = g[n + 1]
    BY <1>1, <2>1 DEF f, g, n
  <2> QED
    BY <2>6, <2>8, <2>9 DEF s2
<1> QED
  BY <1>2, <1>3, <1>4

-----------------------------------------------------------------------------
(* The messages of a key in an array. *)

Entry == Key \X Msgs

(* What an entry is. *)
LEMMA EntryIs ==
  ASSUME NEW e \in Entry
  PROVE  e[1] \in Key /\ e[2] \in Msgs
BY DEF Entry

(* The messages of an array without their keys. *)
Seconds(t) == [i \in DOMAIN t |-> t[i][2]]

(* Keys are taken off one by one. *)
LEMMA SecondsIs ==
  /\ Seconds(<<>>) = <<>>
  /\ \A t \in Seq(Entry) : Seconds(t) \in Seq(Msgs) /\ Len(Seconds(t)) = Len(t)
  /\ \A t \in Seq(Entry), e \in Entry : Seconds(Append(t, e)) = Append(Seconds(t), e[2])
<1>1. Seconds(<<>>) = <<>>
  BY DEF Seconds
<1>2. ASSUME NEW t \in Seq(Entry)
      PROVE  /\ Seconds(t) \in Seq(Msgs) /\ Len(Seconds(t)) = Len(t)
             /\ \A i \in 1..Len(t) : Seconds(t)[i] = t[i][2]
  <2> DEFINE n == Len(t)
             u == Seconds(t)
  <2>1. n \in Nat /\ DOMAIN t = 1..n /\ \A i \in 1..n : t[i] \in Entry
    BY LenProperties, ElementOfSeq
  <2>2. \A i \in 1..n : t[i][2] \in Msgs
    BY <2>1, EntryIs
  <2> HIDE DEF n
  <2>3. u = [i \in 1..n |-> t[i][2]]
    BY <2>1 DEF Seconds
  <2>4. u \in [1..n -> Msgs] /\ DOMAIN u = 1..n /\ \A i \in 1..n : u[i] = t[i][2]
    BY <2>2, <2>3
  <2> HIDE DEF u
  <2>5. u \in Seq(Msgs) /\ Len(u) = n
    BY <2>1, <2>4
  <2> QED
    BY <2>4, <2>5 DEF u, n
<1>3. ASSUME NEW t \in Seq(Entry), NEW e \in Entry
      PROVE  Seconds(Append(t, e)) = Append(Seconds(t), e[2])
  <2> DEFINE n == Len(t)
             s == Append(t, e)
             u == Seconds(t)
             a == Seconds(s)
             m == e[2]
             b == Append(u, m)
  <2>1. /\ n \in Nat /\ s \in Seq(Entry) /\ Len(s) = n + 1
        /\ (\A i \in 1..n : s[i] = t[i]) /\ s[n + 1] = e
    BY AppendProperties, LenProperties
  <2>2. m \in Msgs
    BY EntryIs
  <2> HIDE DEF s, m
  <2>3. u \in Seq(Msgs) /\ Len(u) = n /\ \A i \in 1..n : u[i] = t[i][2]
    BY <1>2
  <2>4. a \in Seq(Msgs) /\ Len(a) = n + 1 /\ \A i \in 1..n+1 : a[i] = s[i][2]
    BY <1>2, <2>1
  <2> HIDE DEF u, a, n
  <2>5. /\ b \in Seq(Msgs) /\ Len(b) = n + 1
        /\ (\A i \in 1..n : b[i] = u[i]) /\ b[n + 1] = m
    BY <2>2, <2>3, AppendProperties
  <2> HIDE DEF b
  <2>6. \A i \in 1..n+1 : a[i] = b[i]
    <3> SUFFICES ASSUME NEW i \in 1..n+1 PROVE a[i] = b[i]
      OBVIOUS
    <3>1. i \in 1..n \/ i = n + 1
      BY <2>1
    <3>2. CASE i \in 1..n
      <4>1. a[i] = s[i][2] /\ s[i] = t[i]
        BY <2>1, <2>4, <3>2
      <4>2. b[i] = t[i][2]
        BY <2>3, <2>5, <3>2
      <4> QED
        BY <4>1, <4>2
    <3>3. CASE i = n + 1
      <4>1. n + 1 \in 1..n+1
        BY <2>1
      <4>2. a[n + 1] = e[2]
        BY <2>1, <2>4, <4>1
      <4> QED
        BY <2>5, <3>3, <4>2 DEF m
    <3> QED
      BY <3>1, <3>2, <3>3
  <2>7. a = b
    BY <2>4, <2>5, <2>6, SeqEqual
  <2> QED
    BY <2>7 DEF a, b, s, u, m
<1> QED
  BY <1>1, <1>2, <1>3

(* The messages of a key are found one by one. *)
LEMMA KeyedIs ==
  ASSUME NEW k \in Key
  PROVE  /\ Keyed(<<>>)[k] = <<>>
         /\ \A s \in Seq(Entry) : Keyed(s)[k] \in Seq(Msgs)
         /\ \A s \in Seq(Entry), e \in Entry :
              Keyed(Append(s, e))[k] = IF e[1] = k THEN Append(Keyed(s)[k], e[2])
                                                   ELSE Keyed(s)[k]
<1> DEFINE ks == {k}
<1>1. \A s : Keyed(s)[k] = Seconds(Only(s, ks))
  BY DEF Keyed, Seconds
<1> HIDE DEF ks
<1>2. /\ Only(<<>>, ks) = <<>>
      /\ \A s \in Seq(Entry) : Only(s, ks) \in Seq(Entry)
      /\ \A s \in Seq(Entry), e \in Entry :
           Only(Append(s, e), ks) = IF e[1] \in ks THEN Append(Only(s, ks), e)
                                                   ELSE Only(s, ks)
  BY OnlyIs
<1>3. \A e \in Entry : e[1] \in ks <=> e[1] = k
  BY DEF ks
<1>4. Keyed(<<>>)[k] = <<>>
  BY <1>1, <1>2, SecondsIs
<1>5. ASSUME NEW s \in Seq(Entry) PROVE Keyed(s)[k] \in Seq(Msgs)
  BY <1>1, <1>2, SecondsIs
<1>6. ASSUME NEW s \in Seq(Entry), NEW e \in Entry
      PROVE  Keyed(Append(s, e))[k] = IF e[1] = k THEN Append(Keyed(s)[k], e[2])
                                                  ELSE Keyed(s)[k]
  <2>1. CASE e[1] = k
    <3>1. Only(Append(s, e), ks) = Append(Only(s, ks), e) /\ Only(s, ks) \in Seq(Entry)
      BY <1>2, <1>3, <2>1
    <3>2. Seconds(Append(Only(s, ks), e)) = Append(Seconds(Only(s, ks)), e[2])
      BY <3>1, SecondsIs
    <3> QED
      BY <1>1, <2>1, <3>1, <3>2
  <2>2. CASE e[1] # k
    <3>1. Only(Append(s, e), ks) = Only(s, ks)
      BY <1>2, <1>3, <2>2
    <3> QED
      BY <1>1, <2>2, <3>1
  <2> QED
    BY <2>1, <2>2
<1> QED
  BY <1>4, <1>5, <1>6

(* Appending to the second of two sequences. *)
LEMMA ConcatAppend ==
  ASSUME NEW S, NEW s \in Seq(S), NEW t \in Seq(S), NEW e \in S
  PROVE  s \o Append(t, e) = Append(s \o t, e)
<1> DEFINE one == <<e>>
           st == s \o t
<1>1. one \in Seq(S)
  OBVIOUS
<1>2. st \in Seq(S)
  BY ConcatProperties
<1>3. Append(t, e) = t \o one
  BY AppendIsConcat
<1> HIDE DEF st
<1>4. Append(st, e) = st \o one
  BY <1>2, AppendIsConcat
<1> HIDE DEF one
<1>5. (s \o t) \o one = s \o (t \o one)
  BY <1>1, ConcatAssociative
<1> QED
  BY <1>3, <1>4, <1>5 DEF st

(* The messages of two arrays. *)
LEMMA KeyedConcat ==
  ASSUME NEW k \in Key, NEW s \in Seq(Entry), NEW t \in Seq(Entry)
  PROVE  Keyed(s \o t)[k] = Keyed(s)[k] \o Keyed(t)[k]
<1> DEFINE T == {u \in Seq(Entry) : Keyed(s \o u)[k] = Keyed(s)[k] \o Keyed(u)[k]}
<1>1. Keyed(s)[k] \in Seq(Msgs)
  BY KeyedIs
<1>2. <<>> \in T
  <2>1. s \o <<>> = s /\ Keyed(s)[k] \o <<>> = Keyed(s)[k]
    BY <1>1, ConcatEmptySeq
  <2>2. Keyed(<<>>)[k] = <<>> /\ <<>> \in Seq(Entry)
    BY KeyedIs
  <2> QED
    BY <2>1, <2>2
<1>3. ASSUME NEW u \in Seq(Entry), NEW e \in Entry, u \in T PROVE Append(u, e) \in T
  <2> DEFINE v == s \o u
  <2>1. Append(u, e) \in Seq(Entry) /\ v \in Seq(Entry)
    BY AppendProperties, ConcatProperties
  <2>2. s \o Append(u, e) = Append(v, e)
    BY ConcatAppend
  <2>3. Keyed(v)[k] = Keyed(s)[k] \o Keyed(u)[k] /\ Keyed(u)[k] \in Seq(Msgs) /\ e[2] \in Msgs
    BY <1>3, KeyedIs, EntryIs
  <2> HIDE DEF v
  <2>4. /\ Keyed(Append(v, e))[k] = IF e[1] = k THEN Append(Keyed(v)[k], e[2]) ELSE Keyed(v)[k]
        /\ Keyed(Append(u, e))[k] = IF e[1] = k THEN Append(Keyed(u)[k], e[2]) ELSE Keyed(u)[k]
    BY <2>1, KeyedIs
  <2>5. Append(Keyed(s)[k] \o Keyed(u)[k], e[2]) = Keyed(s)[k] \o Append(Keyed(u)[k], e[2])
    <3> DEFINE x == Keyed(s)[k]
               y == Keyed(u)[k]
               m == e[2]
    <3>1. x \in Seq(Msgs) /\ y \in Seq(Msgs) /\ m \in Msgs
      BY <1>1, <2>3
    <3> HIDE DEF x, y, m
    <3>2. x \o Append(y, m) = Append(x \o y, m)
      BY ONLY <3>1, ConcatAppend
    <3> QED
      BY ONLY <3>2 DEF x, y, m
  <2>6. Keyed(Append(v, e))[k] = Keyed(s)[k] \o Keyed(Append(u, e))[k]
    BY <2>3, <2>4, <2>5
  <2> QED
    BY <2>1, <2>2, <2>6
<1> QED
  <2> HIDE DEF T
  <2>1. Seq(Entry) \subseteq T
    BY ONLY <1>2, <1>3, InductionOnSeq
  <2> QED
    BY <2>1 DEF T

(* A scan keeps the messages of the keys it is for, and drops the others. *)
LEMMA KeyedOnly ==
  ASSUME NEW k \in Key, NEW ks, NEW s \in Seq(Entry)
  PROVE  Keyed(Only(s, ks))[k] = IF k \in ks THEN Keyed(s)[k] ELSE <<>>
<1> DEFINE T == {u \in Seq(Entry) :
                   Keyed(Only(u, ks))[k] = IF k \in ks THEN Keyed(u)[k] ELSE <<>>}
<1>0. /\ Only(<<>>, ks) = <<>>
      /\ \A u \in Seq(Entry) : Only(u, ks) \in Seq(Entry)
      /\ \A u \in Seq(Entry), e \in Entry :
           Only(Append(u, e), ks) = IF e[1] \in ks THEN Append(Only(u, ks), e)
                                                   ELSE Only(u, ks)
  BY OnlyIs
<1>1. <<>> \in T
  <2>1. Only(<<>>, ks) = <<>>
    BY <1>0
  <2>2. Keyed(<<>>)[k] = <<>> /\ <<>> \in Seq(Entry)
    BY KeyedIs
  <2> QED
    BY <2>1, <2>2
<1>2. ASSUME NEW u \in Seq(Entry), NEW e \in Entry, u \in T PROVE Append(u, e) \in T
  <2> DEFINE v == Only(u, ks)
  <2>1. Append(u, e) \in Seq(Entry) /\ v \in Seq(Entry)
    BY <1>0, AppendProperties
  <2>2. Only(Append(u, e), ks) = IF e[1] \in ks THEN Append(v, e) ELSE v
    BY <1>0
  <2>3. Keyed(v)[k] = IF k \in ks THEN Keyed(u)[k] ELSE <<>>
    BY <1>2
  <2> HIDE DEF v
  <2>4. /\ Keyed(Append(v, e))[k] = IF e[1] = k THEN Append(Keyed(v)[k], e[2]) ELSE Keyed(v)[k]
        /\ Keyed(Append(u, e))[k] = IF e[1] = k THEN Append(Keyed(u)[k], e[2]) ELSE Keyed(u)[k]
    BY <2>1, KeyedIs
  <2>5. Keyed(Only(Append(u, e), ks))[k] =
          IF k \in ks THEN Keyed(Append(u, e))[k] ELSE <<>>
    BY <2>2, <2>3, <2>4
  <2> QED
    BY <2>1, <2>5
<1> QED
  <2> HIDE DEF T
  <2>1. Seq(Entry) \subseteq T
    BY ONLY <1>1, <1>2, InductionOnSeq
  <2> QED
    BY <2>1 DEF T

(* It returns messages for these keys only. *)
LEMMA OnlyIn ==
  ASSUME NEW A, NEW ks, NEW s \in Seq(A \X Msgs)
  PROVE  Only(s, ks) \in Seq((A \cap ks) \X Msgs)
<1> DEFINE E == A \X Msgs
           F == (A \cap ks) \X Msgs
           T == {u \in Seq(E) : Only(u, ks) \in Seq(F)}
<1>1. \A e \in E : e[1] \in ks => e \in F
  OBVIOUS
<1> HIDE DEF E, F
<1>0. /\ Only(<<>>, ks) = <<>>
      /\ \A u \in Seq(E) : Only(u, ks) \in Seq(E)
      /\ \A u \in Seq(E), e \in E :
           Only(Append(u, e), ks) = IF e[1] \in ks THEN Append(Only(u, ks), e)
                                                   ELSE Only(u, ks)
  BY OnlyIs
<1>2. <<>> \in T
  <2>1. <<>> \in Seq(E) /\ <<>> \in Seq(F)
    OBVIOUS
  <2> QED
    BY <1>0, <2>1
<1>3. ASSUME NEW u \in Seq(E), NEW e \in E, u \in T PROVE Append(u, e) \in T
  <2>1. Append(u, e) \in Seq(E) /\ Only(u, ks) \in Seq(F)
    BY <1>3, AppendProperties
  <2>2. Only(Append(u, e), ks) = IF e[1] \in ks THEN Append(Only(u, ks), e) ELSE Only(u, ks)
    BY <1>0
  <2>3. Only(Append(u, e), ks) \in Seq(F)
    <3>1. CASE e[1] \in ks
      BY <1>1, <2>1, <2>2, <3>1, AppendProperties
    <3>2. CASE e[1] \notin ks
      BY <2>1, <2>2, <3>2
    <3> QED
      BY <3>1, <3>2
  <2> QED
    BY <2>1, <2>3
<1> QED
  <2> HIDE DEF T
  <2>1. Seq(E) \subseteq T
    BY ONLY <1>2, <1>3, InductionOnSeq
  <2> QED
    BY <2>1 DEF T, E, F

(* There are no messages for other keys than those of an array. *)
LEMMA KeyedNone ==
  ASSUME NEW k \in Key, NEW A, A \subseteq Key, k \notin A, NEW s \in Seq(A \X Msgs)
  PROVE  Keyed(s)[k] = <<>>
<1> DEFINE E == A \X Msgs
           T == {u \in Seq(E) : Keyed(u)[k] = <<>>}
<1>1. E \subseteq Entry /\ \A e \in E : e[1] # k
  BY DEF Entry
<1> HIDE DEF E
<1>2. <<>> \in T
  BY KeyedIs
<1>3. ASSUME NEW u \in Seq(E), NEW e \in E, u \in T PROVE Append(u, e) \in T
  <2>1. Append(u, e) \in Seq(E)
    BY AppendProperties
  <2>2. u \in Seq(Entry) /\ e \in Entry
    BY <1>1, SeqMonotonic
  <2>3. Keyed(Append(u, e))[k] = Keyed(u)[k]
    BY <1>1, <2>2, KeyedIs
  <2> QED
    BY <1>3, <2>1, <2>3
<1> QED
  <2> HIDE DEF T
  <2>1. Seq(E) \subseteq T
    BY ONLY <1>2, <1>3, InductionOnSeq
  <2> QED
    BY <2>1 DEF T, E

(* The instance of BETree counts as this module does. *)
LEMMA SameCardinality == \A S : Tree!Cardinality(S) = Cardinality(S)
BY Zenon DEF Tree!Cardinality, Cardinality

(* As many messages as the array has entries. *)
LEMMA LoadIs ==
  ASSUME NEW s \in Seq(Entry)
  PROVE  Tree!NumMsgs(Keyed(s)) = Len(s)
<1> DEFINE Sl(u) == Tree!Slots(Keyed(u))
           Q == {u \in Seq(Entry) : IsFiniteSet(Sl(u)) /\ Cardinality(Sl(u)) = Len(u)}
<1>0. \A u, x : x \in Sl(u) <=> \E k \in Key : \E i \in DOMAIN Keyed(u)[k] : x = <<k, i>>
  BY DEF Tree!Slots
<1> HIDE DEF Sl
<1>1. <<>> \in Q
  <2>1. \A k \in Key : Keyed(<<>>)[k] = <<>>
    BY KeyedIs
  <2>2. \A k \in Key : DOMAIN Keyed(<<>>)[k] = {}
    BY <2>1
  <2>3. Sl(<<>>) = {}
    BY <1>0, <2>2
  <2>4. <<>> \in Seq(Entry) /\ Len(<<>>) = 0
    OBVIOUS
  <2> QED
    BY <2>3, <2>4, FS_EmptySet
<1>2. ASSUME NEW u \in Seq(Entry), NEW e \in Entry, u \in Q PROVE Append(u, e) \in Q
  <2> DEFINE v == Append(u, e)
             q == e[1]
             n == Len(Keyed(u)[q])
             x == <<q, n + 1>>
  <2>1. v \in Seq(Entry) /\ Len(v) = Len(u) + 1
    BY AppendProperties
  <2>2. q \in Key /\ e[2] \in Msgs
    BY EntryIs
  <2>3. \A k \in Key : Keyed(u)[k] \in Seq(Msgs)
    BY KeyedIs
  <2>4. n \in Nat /\ DOMAIN Keyed(u)[q] = 1..n
    BY <2>2, <2>3, LenProperties
  <2>5. Keyed(v)[q] = Append(Keyed(u)[q], e[2])
    BY <2>2, KeyedIs
  <2>6. \A k \in Key : k # q => Keyed(v)[k] = Keyed(u)[k]
    BY KeyedIs
  <2> HIDE DEF v, n
  <2>7. DOMAIN Keyed(v)[q] = (1..n) \cup {n + 1}
    <3> DEFINE a == Keyed(u)[q]
               m == e[2]
    <3>1. a \in Seq(Msgs) /\ m \in Msgs /\ Len(a) = n
      BY <2>2, <2>3 DEF n
    <3> HIDE DEF a, m
    <3>2. Append(a, m) \in Seq(Msgs) /\ Len(Append(a, m)) = n + 1
      BY <3>1, AppendProperties
    <3>3. DOMAIN Append(a, m) = 1..n+1
      BY <3>2, LenProperties
    <3>4. 1..n+1 = (1..n) \cup {n + 1}
      BY <2>4
    <3> QED
      BY <2>5, <3>3, <3>4 DEF a, m
  <2> HIDE DEF q
  <2>8. Sl(v) = Sl(u) \cup {x}
    <3>1. ASSUME NEW y \in Sl(v) PROVE y \in Sl(u) \cup {x}
      <4>1. PICK k \in Key : \E i \in DOMAIN Keyed(v)[k] : y = <<k, i>>
        BY <1>0, <3>1
      <4>2. PICK i \in DOMAIN Keyed(v)[k] : y = <<k, i>>
        BY <4>1
      <4>3. CASE k = q
        BY <1>0, <2>2, <2>4, <2>7, <4>2, <4>3
      <4>4. CASE k # q
        BY <1>0, <2>6, <4>2, <4>4
      <4> QED
        BY <4>3, <4>4
    <3>2. ASSUME NEW y \in Sl(u) PROVE y \in Sl(v)
      <4>1. PICK k \in Key : \E i \in DOMAIN Keyed(u)[k] : y = <<k, i>>
        BY <1>0, <3>2
      <4>2. PICK i \in DOMAIN Keyed(u)[k] : y = <<k, i>>
        BY <4>1
      <4>3. i \in DOMAIN Keyed(v)[k]
        BY <2>4, <2>6, <2>7
      <4> QED
        BY <1>0, <4>2, <4>3
    <3>3. x \in Sl(v)
      BY <1>0, <2>2, <2>7
    <3> QED
      BY <3>1, <3>2, <3>3
  <2>9. x \notin Sl(u)
    <3> SUFFICES ASSUME x \in Sl(u) PROVE FALSE
      OBVIOUS
    <3>1. PICK k \in Key : \E i \in DOMAIN Keyed(u)[k] : x = <<k, i>>
      BY <1>0
    <3>2. PICK i \in DOMAIN Keyed(u)[k] : x = <<k, i>>
      BY <3>1
    <3>3. k = q /\ i = n + 1
      BY <3>2
    <3> QED
      BY <2>4, <3>2, <3>3
  <2>10. IsFiniteSet(Sl(u)) /\ Cardinality(Sl(u)) = Len(u) /\ Len(u) \in Nat
    BY <1>2, LenProperties
  <2> HIDE DEF x
  <2>11. IsFiniteSet(Sl(v)) /\ Cardinality(Sl(v)) = Len(u) + 1
    <3> DEFINE A == Sl(u)
    <3>1. IsFiniteSet(A) /\ Cardinality(A) = Len(u) /\ x \notin A
      BY <2>9, <2>10
    <3> HIDE DEF A
    <3>2. IsFiniteSet(A \cup {x}) /\ Cardinality(A \cup {x}) = Cardinality(A) + 1
      BY ONLY <3>1, FS_AddElement
    <3> QED
      BY ONLY <2>8, <3>1, <3>2 DEF A
  <2> QED
    BY <2>1, <2>11 DEF v
<1>3. s \in Q
  <2> HIDE DEF Q
  <2>1. Seq(Entry) \subseteq Q
    BY ONLY <1>1, <1>2, InductionOnSeq
  <2> QED
    BY <2>1
<1> QED
  <2>1. Cardinality(Sl(s)) = Len(s)
    BY <1>3
  <2>2. Tree!NumMsgs(Keyed(s)) = Tree!Cardinality(Sl(s))
    BY DEF Tree!NumMsgs, Sl
  <2> HIDE DEF Sl
  <2> QED
    BY <2>1, <2>2, SameCardinality

-----------------------------------------------------------------------------
(* Routing. *)

(* What BETree sees of the node. *)
LEMMA NodeIs ==
  /\ Node.pivots = pivots
  /\ Node.children = [i \in 1..numChildren |-> <<0, i>>]
  /\ Node.buffer = Keyed(buffer)
BY DEF Node, Tree!Internal

(* i is the child k is routed to. *)
Routes(k, i) ==
  /\ i \in 1..numChildren
  /\ \A j \in 1..i-1 : pivots[j] <= k
  /\ \A j \in i..Len(pivots) : k < pivots[j]

(* The child a key is routed to. *)
LEMMA RouteIs ==
  ASSUME pivots \in Seq(Nat), Rising, NEW k \in Nat
  PROVE  /\ Routes(k, findChildIndex(k))
         /\ Tree!findChildIndex(Node, k) = findChildIndex(k)
<1> DEFINE n == Len(pivots)
           low == {i \in DOMAIN pivots : pivots[i] <= k}
           e == findChildIndex(k)
<1>1. n \in Nat /\ DOMAIN pivots = 1..n /\ \A i \in 1..n : pivots[i] \in Nat
  BY LenProperties, ElementOfSeq
<1>2. \A i \in 1..n : i \in low <=> pivots[i] <= k
  BY <1>1
<1>3. \A i, j \in 1..n : i < j => pivots[i] < pivots[j]
  BY DEF Rising
<1>4. e = SearchEnd(n, low)
  BY DEF findChildIndex
<1> HIDE DEF n, low, e
<1>5. ComeFirst(n, low)
  BY <1>1, <1>2, <1>3 DEF ComeFirst
<1>6. EndAt(n, low, e)
  BY ONLY <1>1, <1>4, <1>5, SearchEndIs
<1>7. /\ e \in 1..n+1
      /\ \A j \in 1..e-1 : j \in 1..n /\ j \in low
      /\ \A j \in e..n : j \in 1..n /\ j \notin low
  BY <1>1, <1>6 DEF EndAt
<1>8. /\ \A j \in 1..e-1 : pivots[j] <= k
      /\ \A j \in e..n : k < pivots[j]
  BY <1>1, <1>2, <1>7
<1>9. Routes(k, e)
  BY <1>7, <1>8 DEF Routes, n, numChildren
<1>10. Tree!findChildIndex(Node, k) = e
  <2> DEFINE P(i) == /\ \A j \in 1..i-1 : pivots[j] <= k
                     /\ i <= n => k < pivots[i]
  <2>1. Tree!findChildIndex(Node, k) = CHOOSE i \in 1..n+1 : P(i)
    BY NodeIs DEF Tree!findChildIndex, n
  <2>2. P(e)
    BY <1>1, <1>7, <1>8
  <2>3. \A i \in 1..n+1 : P(i) => i = e
    <3> SUFFICES ASSUME NEW i \in 1..n+1, P(i), i # e PROVE FALSE
      OBVIOUS
    <3>1. CASE i < e
      <4>1. i \in 1..e-1 /\ i <= n /\ i \in 1..n
        BY <1>1, <1>7, <3>1
      <4> QED
        BY <1>1, <1>8, <4>1
    <3>2. CASE e < i
      <4>1. e \in 1..i-1 /\ e \in e..n /\ e \in 1..n
        BY <1>1, <1>7, <3>2
      <4> QED
        BY <1>1, <1>8, <4>1
    <3> QED
      BY <1>1, <1>7, <3>1, <3>2
  <2> HIDE DEF P
  <2> QED
    BY <1>7, <2>1, <2>2, <2>3
<1> QED
  BY <1>9, <1>10 DEF e

-----------------------------------------------------------------------------
(* Buckets. *)

(* The recursion of heaviest. *)
BestUpTo(buckets, n) ==
  CHOOSE f : f = [i \in 0..n |-> IF i = 0 THEN 1
                                 ELSE IF Len(buckets[i]) > Len(buckets[f[i-1]])
                                      THEN i ELSE f[i-1]]

(* What it computes step by step. *)
LEMMA BestUpToIs ==
  ASSUME NEW n \in Nat, n >= 1, NEW buckets
  PROVE  /\ BestUpTo(buckets, n)[0] = 1
         /\ \A i \in 0..n : BestUpTo(buckets, n)[i] \in 1..n
         /\ \A i \in 1..n :
              BestUpTo(buckets, n)[i] =
                IF Len(buckets[i]) > Len(buckets[BestUpTo(buckets, n)[i-1]])
                THEN i ELSE BestUpTo(buckets, n)[i-1]
<1> DEFINE S == 1..n
           E(f) == [i \in 0..n |-> IF i = 0 THEN 1
                                   ELSE IF Len(buckets[i]) > Len(buckets[f[i-1]])
                                        THEN i ELSE f[i-1]]
           g == [i \in 1..n |-> [b \in S |->
                   IF Len(buckets[i]) > Len(buckets[b]) THEN i ELSE b]]
<1>1. g \in [1..n -> [S -> S]]
  OBVIOUS
<1>2. \A i \in 1..n, b \in S :
        g[i][b] = IF Len(buckets[i]) > Len(buckets[b]) THEN i ELSE b
  OBVIOUS
<1>3. 1 \in S
  OBVIOUS
<1>4. \A i \in 1..n, b \in S : g[i][b] \in S
  BY <1>1
<1> HIDE DEF g, S
<1>5. PICK c \in [0..n -> S] : c[0] = 1 /\ \A i \in 1..n : c[i] = g[i][c[i-1]]
  <2> DEFINE one == 1
  <2>1. one \in S /\ g \in [1..n -> [S -> S]] /\ n \in Nat
    BY <1>1, <1>3
  <2> HIDE DEF one
  <2>2. \E c \in [0..n -> S] : c[0] = one /\ \A i \in 1..n : c[i] = g[i][c[i-1]]
    BY ONLY <2>1, RecursionExists
  <2> QED
    BY <2>2 DEF one
<1>6. \A i \in 1..n : i - 1 \in 0..n /\ i \in 0..n /\ i # 0
  OBVIOUS
<1>7. \A i \in 1..n : c[i] = IF Len(buckets[i]) > Len(buckets[c[i-1]]) THEN i ELSE c[i-1]
  BY <1>2, <1>5, <1>6
<1>8. c = E(c)
  <2>1. \A i \in 0..n : i = 0 \/ i \in 1..n
    OBVIOUS
  <2>2. \A i \in 0..n : c[i] = E(c)[i]
    BY <1>5, <1>6, <1>7, <2>1
  <2> QED
    BY <1>5, <2>2
<1> DEFINE f == BestUpTo(buckets, n)
<1>9. f = CHOOSE x : x = E(x)
  BY DEF BestUpTo
<1>10. f = E(f)
  BY <1>8, <1>9
<1> HIDE DEF f
<1>11. 0 \in 0..n /\ f[0] = 1
  BY <1>10
<1>12. \A i \in 1..n : f[i] = IF Len(buckets[i]) > Len(buckets[f[i-1]]) THEN i ELSE f[i-1]
  BY <1>6, <1>10
<1> DEFINE T0 == {i \in Nat : i <= n => f[i] \in S}
<1>13. 0 \in T0
  BY <1>3, <1>11
<1>14. \A i \in Nat : i \in T0 => i + 1 \in T0
  <2> SUFFICES ASSUME NEW i \in Nat, i \in T0, i + 1 <= n PROVE f[i + 1] \in S
    OBVIOUS
  <2>1. i <= n /\ i + 1 \in 1..n /\ (i + 1) - 1 = i
    OBVIOUS
  <2>2. f[i] \in S /\ i + 1 \in S
    BY <2>1 DEF S
  <2> QED
    BY <1>12, <2>1, <2>2
<1>15. \A i \in 0..n : f[i] \in S
  <2> HIDE DEF T0
  <2>1. Nat \subseteq T0
    BY ONLY <1>13, <1>14, InductionOnNat
  <2> QED
    BY <2>1 DEF T0
<1> QED
  BY <1>11, <1>12, <1>15 DEF f, S

(* h is the first of the longest among the first n buckets. *)
FirstLongest(buckets, n, h) ==
  /\ h \in 1..n
  /\ \A j \in 1..n : IF j < h THEN Len(buckets[j]) < Len(buckets[h])
                              ELSE Len(buckets[j]) <= Len(buckets[h])

(* The heaviest bucket. *)
LEMMA HeaviestIs ==
  ASSUME NEW n \in Nat, n >= 1, NEW buckets, \A i \in 1..n : Len(buckets[i]) \in Nat
  PROVE  FirstLongest(buckets, n, heaviest(buckets, n))
<1> DEFINE f == BestUpTo(buckets, n)
           L(i) == Len(buckets[i])
           First(m, h) == \A j \in 1..m : IF j < h THEN L(j) < L(h) ELSE L(j) <= L(h)
           Q == {i \in Nat : i <= n => First(i, f[i])}
<1>1. heaviest(buckets, n) = f[n]
  BY Zenon DEF heaviest, BestUpTo
<1>2. /\ f[0] = 1
      /\ \A i \in 0..n : f[i] \in 1..n
      /\ \A i \in 1..n : f[i] = IF L(i) > L(f[i-1]) THEN i ELSE f[i-1]
  BY BestUpToIs
<1>3. \A i \in 1..n : L(i) \in Nat
  OBVIOUS
<1> HIDE DEF f, L
<1>4. 0 \in Q
  OBVIOUS
<1>5. \A i \in 1..n : f[i] <= i
  <2> DEFINE R == {i \in Nat : i <= n /\ i >= 1 => f[i] <= i}
  <2>1. 0 \in R
    OBVIOUS
  <2>2. \A i \in Nat : i \in R => i + 1 \in R
    <3> SUFFICES ASSUME NEW i \in Nat, i \in R, i + 1 <= n PROVE f[i + 1] <= i + 1
      OBVIOUS
    <3>1. i + 1 \in 1..n /\ (i + 1) - 1 = i /\ i \in 0..n
      OBVIOUS
    <3>2. f[i + 1] = i + 1 \/ f[i + 1] = f[i]
      BY <1>2, <3>1
    <3>3. f[i] \in 1..n /\ f[i] <= i + 1
      BY <1>2, <3>1
    <3> QED
      BY <3>2, <3>3
  <2> HIDE DEF R
  <2>3. Nat \subseteq R
    BY ONLY <2>1, <2>2, InductionOnNat
  <2> QED
    BY <2>3 DEF R
<1>6. \A i \in Nat : i \in Q => i + 1 \in Q
  <2> SUFFICES ASSUME NEW i \in Nat, i \in Q, i + 1 <= n PROVE First(i + 1, f[i + 1])
    OBVIOUS
  <2> DEFINE b == f[i]
  <2>1. i + 1 \in 1..n /\ (i + 1) - 1 = i /\ i \in 0..n /\ i <= n
    OBVIOUS
  <2>2. b \in 1..n /\ First(i, b)
    BY <1>2, <2>1
  <2>3. f[i + 1] = IF L(i + 1) > L(b) THEN i + 1 ELSE b
    BY <1>2, <2>1
  <2>4. b <= i + 1
    <3>1. CASE i = 0
      BY <1>2, <3>1
    <3>2. CASE i # 0
      <4>1. i \in 1..n
        BY <2>1, <3>2
      <4> QED
        BY <1>5, <2>2, <4>1
    <3> QED
      BY <3>1, <3>2
  <2> HIDE DEF b
  <2>5. L(i + 1) \in Nat /\ L(b) \in Nat /\ \A j \in 1..i : j \in 1..n /\ L(j) \in Nat
    BY <1>3, <2>1, <2>2
  <2>6. \A j \in 1..i : L(j) <= L(b) /\ (j < b => L(j) < L(b))
    BY <2>2, <2>5
  <2>7. \A j \in 1..i+1 : j = i + 1 \/ j \in 1..i
    OBVIOUS
  <2>8. CASE L(i + 1) > L(b)
    <3>1. f[i + 1] = i + 1
      BY <2>3, <2>8
    <3>2. First(i + 1, i + 1)
      BY <2>5, <2>6, <2>7, <2>8
    <3> QED
      BY <3>1, <3>2
  <2>9. CASE ~(L(i + 1) > L(b))
    <3>1. f[i + 1] = b
      BY <2>3, <2>9
    <3>2. First(i + 1, b)
      BY <2>2, <2>4, <2>5, <2>6, <2>7, <2>9
    <3> QED
      BY <3>1, <3>2
  <2> QED
    BY <2>8, <2>9
<1>7. First(n, f[n]) /\ f[n] \in 1..n
  <2>1. Nat \subseteq Q
    <3> HIDE DEF Q
    <3> QED
      BY ONLY <1>4, <1>6, InductionOnNat
  <2>2. n \in 0..n /\ n <= n
    OBVIOUS
  <2> HIDE DEF First
  <2> QED
    BY <1>2, <2>1, <2>2
<1> QED
  BY <1>1, <1>7 DEF FirstLongest, L

(* The recursion of Compacted. *)
KeptUpTo(buckets, n, h) ==
  CHOOSE f : f = [i \in 0..n |-> IF i = 0 THEN <<>>
                                 ELSE IF i = h THEN f[i-1] ELSE f[i-1] \o buckets[i]]

(* What it computes step by step. *)
LEMMA KeptUpToIs ==
  ASSUME NEW Elt, NEW n \in Nat, NEW buckets, \A i \in 1..n : buckets[i] \in Seq(Elt), NEW h
  PROVE  /\ KeptUpTo(buckets, n, h)[0] = <<>>
         /\ \A i \in 0..n : KeptUpTo(buckets, n, h)[i] \in Seq(Elt)
         /\ \A i \in 1..n :
              KeptUpTo(buckets, n, h)[i] =
                IF i = h THEN KeptUpTo(buckets, n, h)[i-1]
                         ELSE KeptUpTo(buckets, n, h)[i-1] \o buckets[i]
<1> DEFINE S == Seq(Elt)
           E(f) == [i \in 0..n |-> IF i = 0 THEN <<>>
                                   ELSE IF i = h THEN f[i-1] ELSE f[i-1] \o buckets[i]]
           g == [i \in 1..n |-> [t \in S |-> IF i = h THEN t ELSE t \o buckets[i]]]
<1>1. \A i \in 1..n, t \in S : (IF i = h THEN t ELSE t \o buckets[i]) \in S
  BY ConcatProperties
<1>2. g \in [1..n -> [S -> S]]
  BY <1>1
<1>3. \A i \in 1..n, t \in S : g[i][t] = IF i = h THEN t ELSE t \o buckets[i]
  OBVIOUS
<1>4. <<>> \in S
  OBVIOUS
<1> HIDE DEF g, S
<1>5. PICK c \in [0..n -> S] : c[0] = <<>> /\ \A i \in 1..n : c[i] = g[i][c[i-1]]
  <2> DEFINE none == <<>>
  <2>1. none \in S /\ g \in [1..n -> [S -> S]] /\ n \in Nat
    BY <1>2, <1>4
  <2> HIDE DEF none
  <2>2. \E c \in [0..n -> S] : c[0] = none /\ \A i \in 1..n : c[i] = g[i][c[i-1]]
    BY ONLY <2>1, RecursionExists
  <2> QED
    BY <2>2 DEF none
<1>6. \A i \in 1..n : i - 1 \in 0..n /\ i \in 0..n /\ i # 0
  OBVIOUS
<1>7. \A i \in 1..n : c[i] = IF i = h THEN c[i-1] ELSE c[i-1] \o buckets[i]
  BY <1>3, <1>5, <1>6
<1>8. c = E(c)
  <2>1. \A i \in 0..n : i = 0 \/ i \in 1..n
    OBVIOUS
  <2>2. \A i \in 0..n : c[i] = E(c)[i]
    BY <1>5, <1>6, <1>7, <2>1
  <2> QED
    BY <1>5, <2>2
<1> DEFINE f == KeptUpTo(buckets, n, h)
<1>9. f = CHOOSE x : x = E(x)
  BY DEF KeptUpTo
<1>10. f = E(f)
  BY <1>8, <1>9
<1> HIDE DEF f
<1>11. 0 \in 0..n /\ f[0] = <<>>
  BY <1>10
<1>12. \A i \in 1..n : f[i] = IF i = h THEN f[i-1] ELSE f[i-1] \o buckets[i]
  BY <1>6, <1>10
<1> DEFINE T0 == {i \in Nat : i <= n => f[i] \in S}
<1>13. 0 \in T0
  BY <1>4, <1>11
<1>14. \A i \in Nat : i \in T0 => i + 1 \in T0
  <2> SUFFICES ASSUME NEW i \in Nat, i \in T0, i + 1 <= n PROVE f[i + 1] \in S
    OBVIOUS
  <2>1. i <= n /\ i + 1 \in 1..n /\ (i + 1) - 1 = i
    OBVIOUS
  <2>2. f[i] \in S
    BY <2>1
  <2> QED
    BY <1>1, <1>12, <2>1, <2>2
<1>15. \A i \in 0..n : f[i] \in S
  <2> HIDE DEF T0
  <2>1. Nat \subseteq T0
    BY ONLY <1>13, <1>14, InductionOnNat
  <2> QED
    BY <2>1 DEF T0
<1> QED
  BY <1>11, <1>12, <1>15 DEF f, S

(* The type of what is kept. *)
LEMMA CompactedType ==
  ASSUME NEW Elt, NEW n \in Nat, NEW buckets, \A i \in 1..n : buckets[i] \in Seq(Elt), NEW h
  PROVE  Compacted(buckets, n, h) \in Seq(Elt)
<1>1. Compacted(buckets, n, h) = KeptUpTo(buckets, n, h)[n]
  BY Zenon DEF Compacted, KeptUpTo
<1>2. \A i \in 0..n : KeptUpTo(buckets, n, h)[i] \in Seq(Elt)
  BY KeptUpToIs
<1>3. n \in 0..n
  OBVIOUS
<1> QED
  BY <1>1, <1>2, <1>3

(* The messages of a key whose messages are all in bucket c. *)
LEMMA CompactedKeyed ==
  ASSUME NEW n \in Nat, NEW buckets, \A i \in 1..n : buckets[i] \in Seq(Entry), NEW h,
         NEW k \in Key, NEW c \in 1..n,
         \A i \in 1..n : i # c => Keyed(buckets[i])[k] = <<>>
  PROVE  Keyed(Compacted(buckets, n, h))[k] = IF c = h THEN <<>> ELSE Keyed(buckets[c])[k]
<1> DEFINE f == KeptUpTo(buckets, n, h)
           mine == Keyed(buckets[c])[k]
           Q == {i \in Nat : i <= n => Keyed(f[i])[k] = IF c <= i /\ c # h THEN mine ELSE <<>>}
<1>1. Compacted(buckets, n, h) = f[n]
  BY Zenon DEF Compacted, KeptUpTo
<1>2. /\ f[0] = <<>>
      /\ \A i \in 0..n : f[i] \in Seq(Entry)
      /\ \A i \in 1..n : f[i] = IF i = h THEN f[i-1] ELSE f[i-1] \o buckets[i]
  <2> HIDE DEF f
  <2> QED
    BY KeptUpToIs DEF f
<1>3. mine \in Seq(Msgs) /\ Keyed(<<>>)[k] = <<>>
  BY KeyedIs
<1> HIDE DEF f, mine
<1>4. 0 \in Q
  BY <1>2, <1>3
<1>5. \A i \in Nat : i \in Q => i + 1 \in Q
  <2> SUFFICES ASSUME NEW i \in Nat, i \in Q, i + 1 <= n
               PROVE  Keyed(f[i + 1])[k] = IF c <= i + 1 /\ c # h THEN mine ELSE <<>>
    OBVIOUS
  <2>1. i <= n /\ i + 1 \in 1..n /\ (i + 1) - 1 = i /\ i \in 0..n
    OBVIOUS
  <2>2. Keyed(f[i])[k] = IF c <= i /\ c # h THEN mine ELSE <<>>
    BY <2>1
  <2>3. f[i + 1] = IF i + 1 = h THEN f[i] ELSE f[i] \o buckets[i + 1]
    BY <1>2, <2>1
  <2>4. CASE i + 1 = h
    <3>1. c <= i + 1 /\ c # h <=> c <= i /\ c # h
      BY <2>4
    <3> QED
      BY <2>2, <2>3, <2>4, <3>1
  <2>5. CASE i + 1 # h
    <3> DEFINE a == f[i]
               b == buckets[i + 1]
    <3>1. a \in Seq(Entry) /\ b \in Seq(Entry)
      BY <1>2, <2>1
    <3>2. Keyed(a \o b)[k] = Keyed(a)[k] \o Keyed(b)[k]
      BY <3>1, KeyedConcat
    <3>3. f[i + 1] = a \o b
      BY <2>3, <2>5
    <3>4. CASE c = i + 1
      <4>1. Keyed(a)[k] = <<>> /\ Keyed(b)[k] = mine
        BY <2>2, <3>4 DEF mine
      <4>2. <<>> \o mine = mine
        BY <1>3, ConcatEmptySeq
      <4>3. c <= i + 1 /\ c # h
        BY <2>5, <3>4
      <4> QED
        BY <3>2, <3>3, <4>1, <4>2, <4>3
    <3>5. CASE c # i + 1
      <4>1. Keyed(b)[k] = <<>>
        BY <2>1, <3>5
      <4>2. Keyed(a)[k] \in Seq(Msgs)
        BY <3>1, KeyedIs
      <4>3. Keyed(a)[k] \o <<>> = Keyed(a)[k]
        BY <4>2, ConcatEmptySeq
      <4>4. c <= i + 1 /\ c # h <=> c <= i /\ c # h
        BY <3>5
      <4> QED
        BY <2>2, <3>2, <3>3, <4>1, <4>3, <4>4
    <3> QED
      BY <3>4, <3>5
  <2> QED
    BY <2>4, <2>5
<1>6. n \in Q
  <2> HIDE DEF Q
  <2>1. Nat \subseteq Q
    BY ONLY <1>4, <1>5, InductionOnNat
  <2> QED
    BY <2>1
<1> QED
  BY <1>1, <1>6 DEF mine

(* The new buckets: each child's messages are in its bucket. *)
LEMMA PartitionIs ==
  ASSUME pivots \in Seq(Nat), buffer \in Seq(Entry), flushBuckets \in Seq(Seq(Entry))
  PROVE  /\ Partition \in Seq(Seq(Entry))
         /\ \A i \in 1..numChildren : Partition[i] = Only(buffer, RoutedTo(i))
<1> DEFINE n == numChildren
           m == Len(flushBuckets)
           size == IF n > m THEN n ELSE m
           old(i) == IF i <= m THEN flushBuckets[i] ELSE <<>>
           mine(i) == Only(buffer, RoutedTo(i))
           new(i) == IF i > n THEN old(i) ELSE Emptied(old(i)) \o mine(i)
<1>1. n \in Nat /\ m \in Nat /\ size \in Nat /\ n <= size
  BY LenProperties DEF numChildren
<1>2. Partition = [i \in 1..size |-> new(i)]
  BY DEF Partition
<1>3. \A i : mine(i) \in Seq(Entry)
  BY OnlyIs
<1>4. \A i : Emptied(old(i)) \o mine(i) = mine(i)
  <2> SUFFICES ASSUME NEW i PROVE Emptied(old(i)) \o mine(i) = mine(i)
    OBVIOUS
  <2>1. Emptied(old(i)) = <<>>
    BY DEF Emptied
  <2>2. mine(i) \in Seq(Entry)
    BY <1>3
  <2> HIDE DEF mine
  <2>3. <<>> \o mine(i) = mine(i)
    BY <2>2, ConcatEmptySeq
  <2> QED
    BY <2>1, <2>3
<1>5. \A i \in 1..m : flushBuckets[i] \in Seq(Entry)
  BY ElementOfSeq
<1> HIDE DEF n, m, size, mine
<1>6. \A i \in 1..n : new(i) = mine(i)
  BY <1>1, <1>4
<1>7. \A i \in 1..size : new(i) \in Seq(Entry)
  <2> SUFFICES ASSUME NEW i \in 1..size PROVE new(i) \in Seq(Entry)
    OBVIOUS
  <2>1. CASE i <= n
    <3>1. i \in 1..n
      BY <1>1, <2>1
    <3> HIDE DEF new
    <3> QED
      BY <1>3, <1>6, <3>1
  <2>2. CASE i > n
    <3>1. i \in 1..m
      BY <1>1, <2>2 DEF size
    <3>2. new(i) = flushBuckets[i]
      BY <1>1, <2>2, <3>1
    <3> HIDE DEF new
    <3> QED
      BY <1>5, <3>1, <3>2
  <2> QED
    BY <1>1, <2>1, <2>2
<1> HIDE DEF new
<1>8. Partition \in [1..size -> Seq(Entry)]
  BY <1>2, <1>7
<1>9. \A i \in 1..n : i \in 1..size /\ Partition[i] = mine(i)
  BY <1>1, <1>2, <1>6
<1>10. Partition \in Seq(Seq(Entry))
  <2> DEFINE Q == Seq(Entry)
  <2> HIDE DEF Q
  <2>1. Partition \in [1..size -> Q]
    BY <1>8 DEF Q
  <2>2. Partition \in Seq(Q)
    BY ONLY <1>1, <2>1
  <2> QED
    BY <2>2 DEF Q
<1> QED
  BY <1>9, <1>10 DEF mine, n

-----------------------------------------------------------------------------
(* Reading a sorted buffer. *)

(* The entries of a buffer. *)
LEMMA BufferIs ==
  ASSUME buffer \in Seq(Entry)
  PROVE  /\ Len(buffer) \in Nat /\ DOMAIN buffer = 1..Len(buffer)
         /\ \A i \in 1..Len(buffer) : buffer[i] \in Entry /\ buffer[i][1] \in Key
                                        /\ buffer[i][1] \in Nat
<1>1. Len(buffer) \in Nat /\ DOMAIN buffer = 1..Len(buffer)
  BY LenProperties
<1>2. \A i \in 1..Len(buffer) : buffer[i] \in Entry
  BY ElementOfSeq
<1> QED
  BY <1>1, <1>2, EntryIs, KeysAreNat

(* e is where the keys from k on start; e is where those after k start. *)
StartsAt(k, e) ==
  /\ e \in 1..Len(buffer)+1
  /\ \A j \in 1..e-1 : buffer[j][1] < k
  /\ \A j \in e..Len(buffer) : k <= buffer[j][1]

EndsAt(k, e) ==
  /\ e \in 1..Len(buffer)+1
  /\ \A j \in 1..e-1 : buffer[j][1] <= k
  /\ \A j \in e..Len(buffer) : k < buffer[j][1]

(* The search of a sorted buffer. *)
LEMMA BinarySearchIs ==
  ASSUME buffer \in Seq(Entry), SortedByKey(buffer), NEW k \in Nat
  PROVE  StartsAt(k, BinarySearchFunc(k))
<1> DEFINE n == Len(buffer)
           low == {i \in DOMAIN buffer : buffer[i][1] < k}
           e == BinarySearchFunc(k)
           K(i) == buffer[i][1]
<1>1. n \in Nat /\ DOMAIN buffer = 1..n /\ \A i \in 1..n : K(i) \in Nat
  BY BufferIs
<1>2. \A i \in 1..n : i \in low <=> K(i) < k
  BY <1>1
<1>3. \A i, j \in 1..n : i < j => K(i) <= K(j)
  BY DEF SortedByKey
<1>4. e = SearchEnd(n, low)
  BY DEF BinarySearchFunc
<1> HIDE DEF n, low, e, K
<1>5. ComeFirst(n, low)
  <2> SUFFICES ASSUME NEW i \in 1..n, NEW j \in 1..n, i < j, j \in low PROVE i \in low
    BY DEF ComeFirst
  <2>1. K(i) <= K(j) /\ K(j) < k /\ K(i) \in Nat /\ K(j) \in Nat
    BY <1>1, <1>2, <1>3
  <2>2. K(i) < k
    BY ONLY <2>1, k \in Nat
  <2> QED
    BY <1>2, <2>2
<1>6. EndAt(n, low, e)
  BY ONLY <1>1, <1>4, <1>5, SearchEndIs
<1>7. /\ e \in 1..n+1
      /\ \A j \in 1..e-1 : j \in 1..n /\ j \in low
      /\ \A j \in e..n : j \in 1..n /\ j \notin low
  BY <1>1, <1>6 DEF EndAt
<1>8. \A j \in 1..e-1 : K(j) < k
  BY <1>2, <1>7
<1>9. \A j \in e..n : k <= K(j)
  <2> SUFFICES ASSUME NEW j \in e..n PROVE k <= K(j)
    OBVIOUS
  <2>1. j \in 1..n /\ j \notin low
    BY <1>7
  <2>2. ~(K(j) < k) /\ K(j) \in Nat
    BY <1>1, <1>2, <2>1
  <2> QED
    BY ONLY <2>2, k \in Nat
<1> QED
  BY <1>7, <1>8, <1>9 DEF StartsAt, n, e, K

(* j is the first position from i on whose message is not for k. *)
SkipsTo(i, k, j) ==
  /\ j \in i..Len(buffer)+1
  /\ \A x \in i..j-1 : buffer[x][1] = k
  /\ j <= Len(buffer) => buffer[j][1] # k

(* There is such a position. *)
LEMMA SkipIs ==
  ASSUME buffer \in Seq(Entry), NEW i \in 1..Len(buffer)+1, NEW k
  PROVE  SkipsTo(i, k, SkipKey(i, k))
<1> DEFINE n == Len(buffer)
           C == {j \in i..n+1 : j <= n => buffer[j][1] # k}
<1>1. n \in Nat
  BY LenProperties
<1>2. C \subseteq Nat /\ n + 1 \in C
  BY <1>1
<1>3. PICK j \in C : \A y \in C : j <= y
  <2> HIDE DEF C
  <2>1. C # {}
    BY <1>2
  <2> QED
    BY <1>2, <2>1, LeastNat
<1>4. \A x \in i..j-1 : buffer[x][1] = k
  <2> SUFFICES ASSUME NEW x \in i..j-1, buffer[x][1] # k PROVE FALSE
    OBVIOUS
  <2>1. x \in C /\ j \in Nat
    BY <1>1, <1>2, <1>3
  <2>2. j <= x
    BY <1>3, <2>1
  <2> QED
    BY <2>1, <2>2
<1>5. SkipsTo(i, k, j)
  BY <1>3, <1>4 DEF SkipsTo
<1>6. SkipKey(i, k) = CHOOSE x \in i..n+1 : SkipsTo(i, k, x)
  BY Zenon DEF SkipKey, SkipsTo
<1>7. j \in i..n+1
  BY <1>3
<1> QED
  BY <1>5, <1>6, <1>7

(* The search, and a skip of the key that was searched for. *)
LEMMA SkipEndsAt ==
  ASSUME buffer \in Seq(Entry), SortedByKey(buffer), NEW k \in Nat
  PROVE  EndsAt(k, SkipKey(BinarySearchFunc(k), k))
<1> DEFINE n == Len(buffer)
           e == BinarySearchFunc(k)
           s == SkipKey(e, k)
           K(i) == buffer[i][1]
<1>1. n \in Nat /\ \A i \in 1..n : K(i) \in Nat
  BY BufferIs
<1>2. StartsAt(k, e)
  BY BinarySearchIs
<1>3. e \in 1..n+1
  BY <1>2 DEF StartsAt
<1> HIDE DEF e
<1>4. SkipsTo(e, k, s)
  BY <1>3, SkipIs
<1> HIDE DEF s
<1>5. /\ \A j \in 1..e-1 : K(j) < k
      /\ \A j \in e..n : k <= K(j)
      /\ s \in e..n+1
      /\ \A j \in e..s-1 : K(j) = k
      /\ s <= n => K(s) # k
  BY <1>2, <1>4 DEF StartsAt, SkipsTo
<1>6. \A i, j \in 1..n : i < j => K(i) <= K(j)
  BY DEF SortedByKey
<1> HIDE DEF n, K
<1>7. s \in 1..n+1
  BY <1>1, <1>3, <1>5
<1>8. \A j \in 1..s-1 : K(j) <= k
  <2> SUFFICES ASSUME NEW j \in 1..s-1 PROVE K(j) <= k
    OBVIOUS
  <2>1. j \in 1..n /\ K(j) \in Nat
    BY <1>1, <1>7
  <2>2. CASE j < e
    <3>1. j \in 1..e-1
      BY <1>3, <2>2
    <3>2. K(j) < k
      BY <1>5, <3>1
    <3> QED
      BY ONLY <2>1, <3>2, k \in Nat
  <2>3. CASE j >= e
    <3>1. j \in e..s-1
      BY <1>3, <2>3
    <3>2. K(j) = k
      BY <1>5, <3>1
    <3> QED
      BY ONLY <3>2, k \in Nat
  <2> QED
    BY <1>3, <2>2, <2>3
<1>9. \A j \in s..n : k < K(j)
  <2> SUFFICES ASSUME NEW j \in s..n PROVE k < K(j)
    OBVIOUS
  <2>1. s \in 1..n /\ s \in e..n /\ s <= n /\ j \in 1..n
    BY <1>1, <1>3, <1>5, <1>7
  <2>2. K(s) \in Nat /\ K(j) \in Nat /\ k <= K(s) /\ K(s) # k
    BY <1>1, <1>5, <2>1
  <2>3. K(s) <= K(j)
    BY <1>6, <2>1, <2>2
  <2> QED
    BY ONLY <2>2, <2>3, k \in Nat
<1> QED
  BY <1>7, <1>8, <1>9 DEF EndsAt, n, K, s, e

(* A part of an array, and the messages of a key that is only there, or    *)
(* only elsewhere.                                                         *)
LEMMA SliceKeyed ==
  ASSUME NEW s \in Seq(Entry), NEW a \in 1..Len(s)+1, NEW b \in a-1..Len(s), NEW k \in Key
  PROVE  /\ (/\ \A x \in 1..a-1 : s[x][1] # k
             /\ \A x \in b+1..Len(s) : s[x][1] # k)
            => Keyed(SubSeq(s, a, b))[k] = Keyed(s)[k]
         /\ (\A x \in a..b : s[x][1] # k) => Keyed(SubSeq(s, a, b))[k] = <<>>
<1> DEFINE n == Len(s)
           A == Key \ {k}
           X == A \X Msgs
<1>1. n \in Nat /\ \A i \in 1..n : s[i] \in Entry
  BY LenProperties, ElementOfSeq
<1> HIDE DEF n
<1>2. a \in 1..n+1 /\ b \in a-1..n
  BY DEF n
<1>3. \A i \in 1..n : s[i][1] # k => s[i] \in X
  BY <1>1 DEF Entry
<1>4. X \subseteq Entry
  BY DEF Entry
<1>5. ASSUME NEW i \in Int, NEW j \in Int, \A x \in i..j : x \in 1..n /\ s[x][1] # k
      PROVE  Keyed(SubSeq(s, i, j))[k] = <<>>
  <2>1. \A x \in i..j : s[x] \in X
    BY <1>3, <1>5
  <2> HIDE DEF X
  <2>2. SubSeq(s, i, j) \in Seq(X)
    BY ONLY <2>1, i \in Int, j \in Int, SubSeqProperties
  <2> DEFINE t == SubSeq(s, i, j)
  <2>3. t \in Seq(A \X Msgs)
    BY <2>2 DEF X
  <2>4. A \subseteq Key /\ k \notin A
    OBVIOUS
  <2> HIDE DEF t, A
  <2>5. Keyed(t)[k] = <<>>
    BY <2>3, <2>4, KeyedNone
  <2> QED
    BY <2>5 DEF t
<1>6. ASSUME \A x \in a..b : s[x][1] # k PROVE Keyed(SubSeq(s, a, b))[k] = <<>>
  <2>1. a \in Int /\ b \in Int /\ \A x \in a..b : x \in 1..n /\ s[x][1] # k
    BY <1>1, <1>2, <1>6
  <2> QED
    BY <1>5, <2>1
<1>7. ASSUME \A x \in 1..a-1 : s[x][1] # k, \A x \in b+1..n : s[x][1] # k
      PROVE  Keyed(SubSeq(s, a, b))[k] = Keyed(s)[k]
  <2> DEFINE x1 == SubSeq(s, 1, a-1)
             x2 == SubSeq(s, a, b)
             x3 == SubSeq(s, b+1, n)
             x12 == SubSeq(s, 1, b)
  <2>1. Keyed(x1)[k] = <<>>
    <3>1. 1 \in Int /\ a-1 \in Int /\ \A x \in 1..a-1 : x \in 1..n /\ s[x][1] # k
      BY <1>1, <1>2, <1>7
    <3> QED
      BY <1>5, <3>1
  <2>2. Keyed(x3)[k] = <<>>
    <3>1. b+1 \in Int /\ n \in Int /\ \A x \in b+1..n : x \in 1..n /\ s[x][1] # k
      BY <1>1, <1>2, <1>7
    <3> QED
      BY <1>5, <3>1
  <2>3. x1 \in Seq(Entry) /\ x2 \in Seq(Entry) /\ x3 \in Seq(Entry) /\ x12 \in Seq(Entry)
    <3>1. /\ \A x \in 1..a-1 : s[x] \in Entry
          /\ \A x \in a..b : s[x] \in Entry
          /\ \A x \in b+1..n : s[x] \in Entry
          /\ \A x \in 1..b : s[x] \in Entry
      BY <1>1, <1>2
    <3>2. 1 \in Int /\ a-1 \in Int /\ a \in Int /\ b \in Int /\ b+1 \in Int /\ n \in Int
      BY <1>1, <1>2
    <3> QED
      BY <3>1, <3>2, SubSeqProperties
  <2>4. x12 = x1 \o x2
    <3> DEFINE c == a-1
               o == 1
    <3>1. /\ o \in 1..Len(s)+1 /\ c \in o-1..Len(s) /\ b \in c..Len(s)
          /\ c+1 = a /\ a-1 = c
      BY <1>1, <1>2 DEF n
    <3> HIDE DEF c, o
    <3>2. SubSeq(s, o, c) \o SubSeq(s, c+1, b) = SubSeq(s, o, b)
      BY <3>1, ConcatAdjacentSubSeq
    <3> QED
      BY <3>1, <3>2 DEF o
  <2>5. s = x12 \o x3
    <3> DEFINE o == 1
    <3>1. o \in 1..Len(s)+1 /\ b \in o-1..Len(s) /\ n \in b..Len(s)
      BY <1>1, <1>2 DEF n
    <3> HIDE DEF o
    <3>2. SubSeq(s, o, b) \o SubSeq(s, b+1, n) = SubSeq(s, o, n)
      BY <3>1, ConcatAdjacentSubSeq
    <3>3. SubSeq(s, 1, n) = s
      BY SubSeqFull DEF n
    <3> QED
      BY <3>2, <3>3 DEF o
  <2> HIDE DEF x1, x2, x3, x12
  <2>6. Keyed(x12)[k] = Keyed(x1)[k] \o Keyed(x2)[k]
    BY <2>3, <2>4, KeyedConcat
  <2>7. Keyed(s)[k] = Keyed(x12)[k] \o Keyed(x3)[k]
    BY <2>3, <2>5, KeyedConcat
  <2>8. Keyed(x2)[k] \in Seq(Msgs) /\ Keyed(x12)[k] \in Seq(Msgs)
    BY <2>3, KeyedIs
  <2>9. Keyed(x12)[k] = Keyed(x2)[k]
    BY <2>1, <2>6, <2>8, ConcatEmptySeq
  <2>10. Keyed(s)[k] = Keyed(x12)[k]
    BY <2>2, <2>7, <2>8, ConcatEmptySeq
  <2> QED
    BY <2>9, <2>10 DEF x2
<1> QED
  BY <1>6, <1>7 DEF n

(* What the invariant says of the arrays. *)
LEMMA Arrays ==
  ASSUME Inv
  PROVE  /\ pivots \in Seq(Nat) /\ Rising
         /\ buffer \in Seq(Entry) /\ flushBuckets \in Seq(Seq(Entry))
         /\ bufferSorted => SortedByKey(buffer)
<1>1. /\ territory \subseteq Key /\ pivots \in Seq(territory)
      /\ buffer \in Seq(territory \X Msgs) /\ flushBuckets \in Seq(Seq(Key \X Msgs))
  BY DEF Inv, TypeOK
<1>2. territory \subseteq Nat
  BY <1>1, KeysAreNat
<1>3. pivots \in Seq(Nat)
  BY <1>1, <1>2, SeqMonotonic
<1>4. territory \X Msgs \subseteq Entry
  BY <1>1 DEF Entry
<1>5. buffer \in Seq(Entry)
  <2> DEFINE E == territory \X Msgs
  <2>1. buffer \in Seq(E) /\ E \subseteq Entry
    BY <1>1, <1>4
  <2> HIDE DEF E
  <2> QED
    BY ONLY <2>1, SeqMonotonic
<1>6. flushBuckets \in Seq(Seq(Entry))
  BY <1>1 DEF Entry
<1> QED
  BY <1>3, <1>5, <1>6 DEF Inv

(* Both ways of reading the messages of a key. *)
LEMMA KeyReads ==
  ASSUME Inv, NEW k \in Key
  PROVE  /\ \A i \in DOMAIN bufferMessagesForKey(k) : bufferMessagesForKey(k)[i][1] = k
         /\ Keyed(bufferMessagesForKey(k))[k] = Keyed(buffer)[k]
<1>1. bufferSorted => SortedByKey(buffer)
  BY Arrays
<1>2. k \in Nat /\ buffer \in Seq(Entry)
  BY KeysAreNat, Arrays
<1>3. CASE bufferSorted
  <2> DEFINE n == Len(buffer)
             i == BinarySearchFunc(k)
             j == SkipKey(i, k)
             t == SubSeq(buffer, i, j-1)
  <2>1. SortedByKey(buffer)
    BY <1>1, <1>2, <1>3
  <2>2. StartsAt(k, i)
    BY <1>2, <2>1, BinarySearchIs
  <2>3. i \in 1..n+1
    BY <2>2 DEF StartsAt
  <2>4. SkipsTo(i, k, j)
    <3> HIDE DEF i
    <3> QED
      BY <1>2, <2>3, SkipIs
  <2>5. EndsAt(k, j)
    BY <1>2, <2>1, SkipEndsAt
  <2>6. bufferMessagesForKey(k) = t
    BY <1>3 DEF bufferMessagesForKey
  <2>7. n \in Nat /\ \A x \in 1..n : buffer[x] \in Entry /\ buffer[x][1] \in Nat
    BY <1>2, BufferIs
  <2> HIDE DEF i, j, n
  <2>8. /\ \A x \in 1..i-1 : buffer[x][1] < k
        /\ \A x \in j..n : k < buffer[x][1]
        /\ j \in i..n+1
        /\ \A x \in i..j-1 : buffer[x][1] = k
    BY <2>2, <2>4, <2>5 DEF StartsAt, SkipsTo, EndsAt, n
  <2>9. i \in Int /\ j-1 \in Int /\ j-1 \in i-1..n /\ (j-1)+1 = j
    BY <2>3, <2>7, <2>8
  <2>10. /\ \A x \in 1..i-1 : x \in 1..n
         /\ \A x \in j..n : x \in 1..n
         /\ \A x \in i..j-1 : x \in 1..n
    BY <2>3, <2>7, <2>8
  <2>11. /\ \A x \in 1..i-1 : buffer[x][1] # k
         /\ \A x \in (j-1)+1..n : buffer[x][1] # k
    BY <1>2, <2>7, <2>8, <2>9, <2>10
  <2>12. Keyed(t)[k] = Keyed(buffer)[k]
    <3> DEFINE b == j-1
    <3>1. /\ i \in 1..Len(buffer)+1 /\ b \in i-1..Len(buffer)
          /\ \A x \in 1..i-1 : buffer[x][1] # k
          /\ \A x \in b+1..Len(buffer) : buffer[x][1] # k
      BY <2>3, <2>9, <2>11 DEF n
    <3> HIDE DEF b
    <3>2. Keyed(SubSeq(buffer, i, b))[k] = Keyed(buffer)[k]
      BY <1>2, <3>1, SliceKeyed
    <3> QED
      BY <3>2 DEF b
  <2>13. \A x \in DOMAIN t : t[x][1] = k
    <3> DEFINE b == j-1
    <3>1. \A x \in i..b : buffer[x] \in Entry
      BY <2>7, <2>10
    <3>2. i \in Int /\ b \in Int
      BY <2>9
    <3> HIDE DEF b
    <3>3. /\ SubSeq(buffer, i, b) \in Seq(Entry)
          /\ Len(SubSeq(buffer, i, b)) = IF i <= b THEN b-i+1 ELSE 0
          /\ \A x \in 1..b-i+1 : SubSeq(buffer, i, b)[x] = buffer[i+x-1]
      BY <3>1, <3>2, SubSeqProperties
    <3>4. t = SubSeq(buffer, i, b)
      BY DEF b
    <3> HIDE DEF t
    <3>5. DOMAIN t = 1..Len(t)
      BY <3>3, <3>4, LenProperties
    <3> SUFFICES ASSUME NEW x \in DOMAIN t PROVE t[x][1] = k
      OBVIOUS
    <3>6. x \in 1..b-i+1 /\ i+x-1 \in i..b
      BY <3>2, <3>3, <3>4, <3>5
    <3>7. t[x] = buffer[i+x-1]
      BY <3>3, <3>4, <3>6
    <3>8. buffer[i+x-1][1] = k
      BY <2>8, <3>6 DEF b
    <3> QED
      BY <3>7, <3>8
  <2> QED
    BY <2>6, <2>12, <2>13
<1>4. CASE ~bufferSorted
  <2> DEFINE ks == {k}
             t == Only(buffer, ks)
  <2>1. bufferMessagesForKey(k) = t
    BY <1>4 DEF bufferMessagesForKey
  <2>2. k \in ks
    OBVIOUS
  <2>3. \A e \in (Key \cap ks) \X Msgs : e[1] = k
    OBVIOUS
  <2> HIDE DEF ks
  <2>4. Keyed(t)[k] = Keyed(buffer)[k]
    BY <1>2, <2>2, KeyedOnly
  <2>5. t \in Seq((Key \cap ks) \X Msgs)
    BY <1>2, OnlyIn DEF Entry
  <2> HIDE DEF t
  <2>6. \A x \in DOMAIN t : t[x][1] = k
    <3> DEFINE F == (Key \cap ks) \X Msgs
    <3>1. t \in Seq(F) /\ \A e \in F : e[1] = k
      BY <2>3, <2>5
    <3> HIDE DEF F
    <3>2. DOMAIN t = 1..Len(t) /\ \A x \in 1..Len(t) : t[x] \in F
      BY <3>1, LenProperties, ElementOfSeq
    <3> QED
      BY <3>1, <3>2
  <2> QED
    BY <2>1, <2>4, <2>6
<1> QED
  BY <1>3, <1>4

(* Where the slice for a range starts, and where it ends. *)
SliceStart(lo, loInc) ==
  IF loInc THEN BinarySearchFunc(lo) ELSE SkipKey(BinarySearchFunc(lo), lo)
SliceEnd(hi, hiInc) ==
  IF hiInc THEN SkipKey(BinarySearchFunc(hi), hi) ELSE BinarySearchFunc(hi)

(* Above the lower bound, and below the upper one. *)
AboveLo(k, lo, loInc) == lo < k \/ (loInc /\ lo = k)
BelowHi(k, hi, hiInc) == k < hi \/ (hiInc /\ k = hi)

(* The slice starts with the first message above the lower bound. *)
LEMMA SliceStartIs ==
  ASSUME buffer \in Seq(Entry), SortedByKey(buffer), NEW lo \in Nat, NEW loInc \in BOOLEAN
  PROVE  /\ SliceStart(lo, loInc) \in 1..Len(buffer)+1
         /\ \A j \in 1..SliceStart(lo, loInc)-1 : ~AboveLo(buffer[j][1], lo, loInc)
         /\ \A j \in SliceStart(lo, loInc)..Len(buffer) : AboveLo(buffer[j][1], lo, loInc)
<1> DEFINE n == Len(buffer)
           K(j) == buffer[j][1]
<1>1. n \in Nat /\ \A j \in 1..n : K(j) \in Nat
  BY BufferIs
<1>2. CASE loInc
  <2> DEFINE e == BinarySearchFunc(lo)
  <2>1. SliceStart(lo, loInc) = e
    BY <1>2 DEF SliceStart
  <2>2. StartsAt(lo, e)
    BY BinarySearchIs
  <2> HIDE DEF e
  <2>3. e \in 1..n+1 /\ (\A j \in 1..e-1 : K(j) < lo) /\ (\A j \in e..n : lo <= K(j))
    BY <2>2 DEF StartsAt
  <2> HIDE DEF n, K
  <2>4. (\A j \in 1..e-1 : j \in 1..n) /\ (\A j \in e..n : j \in 1..n)
    BY <1>1, <2>3
  <2>5. /\ \A j \in 1..e-1 : ~(lo < K(j) \/ lo = K(j))
        /\ \A j \in e..n : lo < K(j) \/ lo = K(j)
    BY <1>1, <2>3, <2>4
  <2> QED
    BY <1>2, <2>1, <2>3, <2>5 DEF n, K, AboveLo
<1>3. CASE ~loInc
  <2> DEFINE e == SkipKey(BinarySearchFunc(lo), lo)
  <2>1. SliceStart(lo, loInc) = e
    BY <1>3 DEF SliceStart
  <2>2. EndsAt(lo, e)
    BY SkipEndsAt
  <2> HIDE DEF e
  <2>3. e \in 1..n+1 /\ (\A j \in 1..e-1 : K(j) <= lo) /\ (\A j \in e..n : lo < K(j))
    BY <2>2 DEF EndsAt
  <2> HIDE DEF n, K
  <2>4. \A j \in 1..e-1 : j \in 1..n
    BY <1>1, <2>3
  <2>5. \A j \in 1..e-1 : ~(lo < K(j))
    BY <1>1, <2>3, <2>4
  <2> QED
    BY <1>3, <2>1, <2>3, <2>5 DEF n, K, AboveLo
<1> QED
  BY <1>2, <1>3

(* It ends with the last message below the upper bound. *)
LEMMA SliceEndIs ==
  ASSUME buffer \in Seq(Entry), SortedByKey(buffer), NEW hi \in Nat, NEW hiInc \in BOOLEAN
  PROVE  /\ SliceEnd(hi, hiInc) \in 1..Len(buffer)+1
         /\ \A j \in 1..SliceEnd(hi, hiInc)-1 : BelowHi(buffer[j][1], hi, hiInc)
         /\ \A j \in SliceEnd(hi, hiInc)..Len(buffer) : ~BelowHi(buffer[j][1], hi, hiInc)
<1> DEFINE n == Len(buffer)
           K(j) == buffer[j][1]
<1>1. n \in Nat /\ \A j \in 1..n : K(j) \in Nat
  BY BufferIs
<1>2. CASE ~hiInc
  <2> DEFINE e == BinarySearchFunc(hi)
  <2>1. SliceEnd(hi, hiInc) = e
    BY <1>2 DEF SliceEnd
  <2>2. StartsAt(hi, e)
    BY BinarySearchIs
  <2> HIDE DEF e
  <2>3. e \in 1..n+1 /\ (\A j \in 1..e-1 : K(j) < hi) /\ (\A j \in e..n : hi <= K(j))
    BY <2>2 DEF StartsAt
  <2> HIDE DEF n, K
  <2>4. \A j \in e..n : j \in 1..n
    BY <1>1, <2>3
  <2>5. \A j \in e..n : ~(K(j) < hi)
    BY <1>1, <2>3, <2>4
  <2> QED
    BY <1>2, <2>1, <2>3, <2>5 DEF n, K, BelowHi
<1>3. CASE hiInc
  <2> DEFINE e == SkipKey(BinarySearchFunc(hi), hi)
  <2>1. SliceEnd(hi, hiInc) = e
    BY <1>3 DEF SliceEnd
  <2>2. EndsAt(hi, e)
    BY SkipEndsAt
  <2> HIDE DEF e
  <2>3. e \in 1..n+1 /\ (\A j \in 1..e-1 : K(j) <= hi) /\ (\A j \in e..n : hi < K(j))
    BY <2>2 DEF EndsAt
  <2> HIDE DEF n, K
  <2>4. (\A j \in 1..e-1 : j \in 1..n) /\ (\A j \in e..n : j \in 1..n)
    BY <1>1, <2>3
  <2>5. /\ \A j \in 1..e-1 : K(j) < hi \/ K(j) = hi
        /\ \A j \in e..n : ~(K(j) < hi \/ K(j) = hi)
    BY <1>1, <2>3, <2>4
  <2> QED
    BY <1>3, <2>1, <2>3, <2>5 DEF n, K, BelowHi
<1> QED
  BY <1>2, <1>3

(* Both ways of reading the messages in a range. *)
LEMMA RangeReads ==
  ASSUME Inv, NEW lo \in Key, NEW hi \in Key, NEW loInc \in BOOLEAN, NEW hiInc \in BOOLEAN,
         lo < hi
  PROVE  Keyed(bufferSlice(lo, hi, loInc, hiInc)) =
           [k \in Key |-> IF InBounds(k, lo, hi, loInc, hiInc)
                          THEN Keyed(buffer)[k] ELSE <<>>]
<1> DEFINE In(k) == InBounds(k, lo, hi, loInc, hiInc)
           r == bufferSlice(lo, hi, loInc, hiInc)
<1>1. buffer \in Seq(Entry)
  BY Arrays
<1>2. lo \in Nat /\ hi \in Nat
  BY KeysAreNat
<1>3. ASSUME NEW k \in Key PROVE Keyed(r)[k] = IF In(k) THEN Keyed(buffer)[k] ELSE <<>>
  <2>1. CASE ~bufferSorted
    <3> DEFINE ks == {x \in Key : In(x)}
    <3>1. r = Only(buffer, ks)
      BY <2>1 DEF bufferSlice
    <3>2. k \in ks <=> In(k)
      OBVIOUS
    <3> HIDE DEF ks, r, In
    <3> QED
      BY <1>1, <3>1, <3>2, KeyedOnly
  <2>2. CASE bufferSorted
    <3> DEFINE a == SliceStart(lo, loInc)
               e == SliceEnd(hi, hiInc)
               b == e - 1
               n == Len(buffer)
               Lo(x) == AboveLo(x, lo, loInc)
               Hi(x) == BelowHi(x, hi, hiInc)
               K(j) == buffer[j][1]
    <3>1. SortedByKey(buffer)
      BY <2>2, Arrays
    <3>2. r = SubSeq(buffer, a, b)
      BY <2>2 DEF bufferSlice, SortedSlice, SliceStart, SliceEnd
    <3>3. /\ a \in 1..n+1
          /\ \A j \in 1..a-1 : ~Lo(K(j))
          /\ \A j \in a..n : Lo(K(j))
      BY <1>1, <1>2, <3>1, SliceStartIs
    <3>4. /\ e \in 1..n+1
          /\ \A j \in 1..e-1 : Hi(K(j))
          /\ \A j \in e..n : ~Hi(K(j))
      BY <1>1, <1>2, <3>1, SliceEndIs
    <3>5. n \in Nat /\ \A j \in 1..n : K(j) \in Nat
      BY <1>1, BufferIs
    <3>6. \A x \in Nat : Lo(x) \/ Hi(x)
      BY <1>2 DEF AboveLo, BelowHi
    <3>7. \A x \in Nat : InBounds(x, lo, hi, loInc, hiInc) <=> Lo(x) /\ Hi(x)
      BY DEF InBounds, AboveLo, BelowHi
    <3> HIDE DEF a, e, n, K, Lo, Hi, r
    <3>8. a <= e
      <4> SUFFICES ASSUME e < a PROVE FALSE
        BY <3>3, <3>4, <3>5
      <4>1. e \in 1..a-1 /\ e \in e..n /\ e \in 1..n
        BY <3>3, <3>4, <3>5
      <4> QED
        BY <3>3, <3>4, <3>5, <3>6, <4>1
    <3>9. k \in Nat
      BY KeysAreNat
    <3>10. b \in a-1..n /\ b+1 = e
      BY <3>3, <3>4, <3>5, <3>8
    <3>11. /\ \A x \in a..b : x \in a..n /\ x \in 1..e-1
           /\ \A x \in b+1..n : x \in e..n
      BY <3>3, <3>4, <3>5, <3>10
    <3> HIDE DEF b
    <3>12. /\ (/\ \A x \in 1..a-1 : K(x) # k
               /\ \A x \in b+1..n : K(x) # k)
              => Keyed(SubSeq(buffer, a, b))[k] = Keyed(buffer)[k]
           /\ (\A x \in a..b : K(x) # k) => Keyed(SubSeq(buffer, a, b))[k] = <<>>
      <4>1. a \in 1..Len(buffer)+1 /\ b \in a-1..Len(buffer)
        BY <3>3, <3>10 DEF n
      <4> QED
        BY <1>1, <4>1, SliceKeyed DEF n, K
    <3>13. CASE Lo(k) /\ Hi(k)
      <4>1. \A x \in 1..a-1 : K(x) # k
        BY <3>3, <3>13
      <4>2. \A x \in b+1..n : K(x) # k
        BY <3>4, <3>11, <3>13
      <4> QED
        BY <3>2, <3>7, <3>9, <3>12, <3>13, <4>1, <4>2
    <3>14. CASE ~(Lo(k) /\ Hi(k))
      <4>1. \A x \in a..b : K(x) # k
        BY <3>3, <3>4, <3>11, <3>14
      <4> QED
        BY <3>2, <3>7, <3>9, <3>12, <3>14, <4>1
    <3> QED
      BY <3>13, <3>14
  <2> QED
    BY <2>1, <2>2
<1>4. Keyed(r) = [k \in Key |-> Keyed(r)[k]]
  BY DEF Keyed
<1> HIDE DEF r
<1>5. Keyed(r) = [k \in Key |-> IF In(k) THEN Keyed(buffer)[k] ELSE <<>>]
  BY <1>3, <1>4
<1> QED
  BY <1>5 DEF r

(* Reads are exact where the invariant holds. *)
LEMMA ReadsAreExactAt ==
  ASSUME Inv
  PROVE  ReadsExact
BY KeyReads, RangeReads DEF ReadsExact

-----------------------------------------------------------------------------
(* The invariant holds. *)

(* A sequence without two positions is in any order. *)
LEMMA ShortIsSorted ==
  ASSUME NEW s, Len(s) \in Nat, Len(s) <= 1
  PROVE  SortedByKey(s)
BY DEF SortedByKey

(* A new root. *)
LEMMA InitInv == Init => Inv
<1> SUFFICES ASSUME Init PROVE Inv
  OBVIOUS
<1>1. PICK p \in Key : pivots = <<p>>
  BY DEF Init
<1>2. pivots \in Seq(Key) /\ Len(pivots) = 1
  BY <1>1
<1>3. numChildren <= fanout + 1
  BY <1>2, NodeBufferAssumption DEF numChildren
<1>4. territory = Key /\ isRoot = TRUE /\ bufferSorted = FALSE
  BY DEF Init
<1>5. buffer \in Seq(territory \X Msgs)
  BY DEF Init
<1>6. flushBuckets \in Seq(Seq(Key \X Msgs))
  BY DEF Init
<1>7. TypeOK
  BY <1>2, <1>3, <1>4, <1>5, <1>6 DEF TypeOK
<1>8. Rising
  BY <1>2 DEF Rising
<1> QED
  BY <1>4, <1>7, <1>8 DEF Inv

(* A message is appended. *)
LEMMA AppendInv ==
  ASSUME Inv, NEW k \in territory, NEW m \in Msgs, appendToBuffer(k, m)
  PROVE  Inv'
<1> DEFINE E == territory \X Msgs
           e == <<k, m>>
<1>1. buffer \in Seq(E) /\ e \in E
  BY DEF Inv, TypeOK
<1>2. /\ Settled /\ buffer' = Append(buffer, e) /\ bufferSorted' = (Len(buffer) + 1 <= 1)
      /\ UNCHANGED <<isRoot, territory, pivots, flushBuckets>>
  BY DEF appendToBuffer, SortedAfterAppend
<1> HIDE DEF E, e
<1>3. /\ Append(buffer, e) \in Seq(E) /\ Len(Append(buffer, e)) = Len(buffer) + 1
      /\ Len(buffer) \in Nat
  BY <1>1, AppendProperties, LenProperties
<1>4. TypeOK'
  <2>1. E' = E
    BY <1>2 DEF E
  <2>2. buffer' \in Seq(territory' \X Msgs)
    BY <1>2, <1>3, <2>1 DEF E
  <2>3. numChildren' = numChildren
    BY <1>2 DEF numChildren
  <2> QED
    BY <1>2, <2>2, <2>3 DEF TypeOK, Inv
<1>5. Rising'
  BY <1>2 DEF Inv, Rising
<1>6. bufferSorted' => SortedByKey(buffer)'
  <2> SUFFICES ASSUME bufferSorted' PROVE SortedByKey(buffer')
    BY DEF SortedByKey
  <2>1. Len(buffer) + 1 <= 1
    BY ONLY <1>2, bufferSorted', Zenon
  <2>2. Len(buffer') = Len(buffer) + 1
    BY <1>2, <1>3
  <2>3. Len(buffer') \in Nat /\ Len(buffer') <= 1
    BY ONLY <1>3, <2>1, <2>2
  <2> QED
    BY <2>3, ShortIsSorted
<1>7. Settled'
  BY <1>2 DEF Settled, numChildren
<1> QED
  BY <1>4, <1>5, <1>6, <1>7 DEF Inv

(* A batch is received. *)
LEMMA ReceiveInv ==
  ASSUME Inv, NEW batch \in Batches, Receive(batch)
  PROVE  Inv'
<1> DEFINE E == territory \X Msgs
<1>1. buffer \in Seq(E)
  BY DEF Inv, TypeOK
<1>2. PICK n \in 1..MaxMsgs : batch \in [1..n -> E]
  BY DEF Batches
<1> HIDE DEF E
<1>3. batch \in Seq(E)
  BY <1>2
<1>4. /\ Settled /\ buffer' = buffer \o batch /\ bufferSorted' = FALSE
      /\ UNCHANGED <<isRoot, territory, pivots, flushBuckets>>
  BY DEF Receive
<1>5. buffer' \in Seq(E)
  BY <1>1, <1>3, <1>4, ConcatProperties
<1>6. TypeOK'
  <2>1. buffer' \in Seq(territory' \X Msgs)
    BY <1>4, <1>5 DEF E
  <2>2. numChildren' = numChildren
    BY <1>4 DEF numChildren
  <2> QED
    BY <1>4, <2>1, <2>2 DEF TypeOK, Inv
<1>7. Rising'
  BY <1>4 DEF Inv, Rising
<1> QED
  BY <1>4, <1>6, <1>7 DEF Inv

(* The batches a node is sent. *)
LEMMA BatchIs ==
  ASSUME Inv, NEW batch \in Batches
  PROVE  batch \in Seq(Entry)
<1>1. PICK n \in 1..MaxMsgs : batch \in [1..n -> territory \X Msgs]
  BY DEF Batches
<1>2. territory \subseteq Key
  BY DEF Inv, TypeOK
<1>3. batch \in [1..n -> Entry]
  BY <1>1, <1>2 DEF Entry
<1> QED
  BY <1>3

(* What a flush does, as far as the buffer goes. *)
LEMMA FlushIs ==
  ASSUME Inv, flushNode
  PROVE  LET h == heaviest(Partition, numChildren)
         IN  /\ numChildren \in Nat /\ numChildren >= 1 /\ numChildren <= fanout
             /\ flushBuckets' = Partition
             /\ Partition \in Seq(Seq(Entry))
             /\ \A i \in 1..numChildren : Partition[i] = Only(buffer, RoutedTo(i))
             /\ \A i \in 1..numChildren : Partition[i] \in Seq(Entry)
             /\ \A i \in 1..numChildren : Partition[i] \in Seq(territory \X Msgs)
             /\ FirstLongest(Partition, numChildren, h)
             /\ buffer' = Compacted(Partition, numChildren, h)
             /\ bufferSorted' = FALSE /\ territory' = territory /\ isRoot' = isRoot
             /\ \/ pivots' = pivots
                \/ \E p \in Promotable(h) : pivots' = InsertAt(pivots, h, p)
<1> DEFINE n == numChildren
           h == heaviest(Partition, n)
           B == Partition
<1>1. /\ pivots \in Seq(Nat) /\ buffer \in Seq(Entry) /\ flushBuckets \in Seq(Seq(Entry))
      /\ buffer \in Seq(territory \X Msgs)
  BY Arrays DEF Inv, TypeOK
<1>2. n \in Nat /\ n >= 1
  BY <1>1, LenProperties DEF numChildren
<1>3. /\ n <= fanout
      /\ flushBuckets' = B /\ buffer' = Compacted(B, n, h)
      /\ bufferSorted' = FALSE /\ territory' = territory /\ isRoot' = isRoot
      /\ \/ pivots' = pivots
         \/ \E p \in Promotable(h) : pivots' = InsertAt(pivots, h, p)
  BY DEF flushNode, Settled
<1>4. B \in Seq(Seq(Entry)) /\ \A i \in 1..n : B[i] = Only(buffer, RoutedTo(i))
  BY <1>1, PartitionIs
<1>5. \A i : Only(buffer, RoutedTo(i)) \in Seq(Entry)
  BY <1>1, OnlyIs
<1>6. \A i : Only(buffer, RoutedTo(i)) \in Seq(territory \X Msgs)
  <2> DEFINE E == territory \X Msgs
  <2>1. buffer \in Seq(E)
    BY <1>1
  <2> HIDE DEF E
  <2>2. \A i : Only(buffer, RoutedTo(i)) \in Seq(E)
    BY <2>1, OnlyIs
  <2> QED
    BY <2>2 DEF E
<1> HIDE DEF B, n
<1>7. \A i \in 1..n : B[i] \in Seq(Entry) /\ Len(B[i]) \in Nat
  BY <1>4, <1>5, LenProperties
<1>8. FirstLongest(B, n, heaviest(B, n))
  BY ONLY <1>2, <1>7, HeaviestIs
<1>9. \A i \in 1..n : B[i] \in Seq(territory \X Msgs)
  BY <1>4, <1>6
<1> QED
  BY <1>2, <1>3, <1>4, <1>7, <1>8, <1>9 DEF B, n

(* A pivot is promoted from child h. *)
LEMMA PromoteInv ==
  ASSUME Inv, NEW h \in 1..numChildren, NEW p \in Promotable(h),
         pivots' = InsertAt(pivots, h, p), territory' = territory
  PROVE  pivots' \in Seq(territory') /\ numChildren' = numChildren + 1 /\ Rising'
<1> DEFINE n == Len(pivots)
           q == InsertAt(pivots, h, p)
<1>1. pivots \in Seq(territory) /\ territory \subseteq Key /\ pivots \in Seq(Nat) /\ Rising
  BY Arrays DEF Inv, TypeOK
<1>2. n \in Nat /\ \A i \in 1..n : pivots[i] \in Nat
  BY <1>1, LenProperties, ElementOfSeq
<1>3. PICK l \in ChildKeys(h) : l < p
  BY DEF Promotable
<1>4. p \in territory /\ p \in Nat /\ l \in Nat /\ findChildIndex(p) = h /\ findChildIndex(l) = h
  BY KeysAreNat DEF Promotable, ChildKeys, RoutedTo
<1>5. Routes(p, h) /\ Routes(l, h)
  BY <1>1, <1>4, RouteIs
<1>6. h \in 1..n+1
  BY DEF numChildren
<1>7. /\ \A j \in 1..h-1 : pivots[j] <= l
      /\ \A j \in h..n : p < pivots[j]
  BY <1>5 DEF Routes
<1>8. /\ q \in Seq(territory) /\ Len(q) = n + 1
      /\ \A j \in 1..n+1 : q[j] = IF j < h THEN pivots[j] ELSE IF j = h THEN p ELSE pivots[j-1]
  <2> DEFINE S == territory
             t == pivots
  <2>1. t \in Seq(S) /\ p \in S /\ h \in 1..Len(t)+1
    BY <1>1, <1>4, <1>6
  <2> HIDE DEF S, t
  <2>2. InsertAt(t, h, p) \in Seq(S) /\ Len(InsertAt(t, h, p)) = Len(t) + 1
    BY ONLY <2>1, InsertAtProperties
  <2>3. \A j \in 1..Len(t)+1 : InsertAt(t, h, p)[j] =
          IF j < h THEN t[j] ELSE IF j = h THEN p ELSE t[j-1]
    <3> SUFFICES ASSUME NEW j \in 1..Len(t)+1
                 PROVE  InsertAt(t, h, p)[j] =
                          IF j < h THEN t[j] ELSE IF j = h THEN p ELSE t[j-1]
      OBVIOUS
    <3> QED
      BY <2>1, InsertAtProperties
  <2> QED
    BY <2>2, <2>3 DEF S, t
<1>9. \A i, j \in 1..n : i < j => pivots[i] < pivots[j]
  BY <1>1 DEF Rising
<1> HIDE DEF q, n
<1>10. \A j \in 1..h-1 : j \in 1..n /\ pivots[j] < p
  <2> SUFFICES ASSUME NEW j \in 1..h-1 PROVE j \in 1..n /\ pivots[j] < p
    OBVIOUS
  <2>1. j \in 1..n
    BY <1>2, <1>6
  <2>2. pivots[j] \in Nat /\ pivots[j] <= l
    BY <1>2, <1>7, <2>1
  <2> QED
    BY ONLY <1>3, <1>4, <2>1, <2>2
<1>11. \A i, j \in 1..n+1 : i < j => q[i] < q[j]
  <2> SUFFICES ASSUME NEW i \in 1..n+1, NEW j \in 1..n+1, i < j PROVE q[i] < q[j]
    OBVIOUS
  <2>1. CASE j < h
    <3>1. i \in 1..n /\ j \in 1..n /\ i < h
      BY <1>2, <1>6, <2>1
    <3> QED
      BY <1>8, <1>9, <2>1, <3>1
  <2>2. CASE j = h
    <3>1. i \in 1..h-1 /\ i < h /\ ~(j < h)
      BY <1>2, <1>6, <2>2
    <3> QED
      BY <1>8, <1>10, <2>2, <3>1
  <2>3. CASE j > h
    <3>1. j-1 \in h..n /\ j-1 \in 1..n /\ ~(j < h) /\ j # h
      BY <1>2, <1>6, <2>3
    <3>2. q[j] = pivots[j-1]
      BY <1>8, <3>1
    <3>3. CASE i < h
      <4>1. i \in 1..h-1 /\ i \in 1..n /\ i < j-1
        BY <1>2, <1>6, <2>3, <3>3
      <4> QED
        BY <1>8, <1>9, <3>1, <3>2, <3>3, <4>1
    <3>4. CASE i = h
      <4>1. q[i] = p
        BY <1>8, <3>4
      <4> QED
        BY <1>7, <3>1, <3>2, <4>1
    <3>5. CASE i > h
      <4>1. i-1 \in 1..n /\ i-1 < j-1 /\ ~(i < h) /\ i # h
        BY <1>2, <1>6, <3>5
      <4>2. q[i] = pivots[i-1]
        BY <1>8, <4>1
      <4> QED
        BY <1>9, <3>1, <3>2, <4>1, <4>2
    <3> QED
      BY <1>2, <1>6, <3>3, <3>4, <3>5
  <2> QED
    BY <1>2, <1>6, <2>1, <2>2, <2>3
<1>12. pivots' = q
  BY DEF q
<1>13. Rising'
  BY <1>8, <1>11, <1>12 DEF Rising
<1>14. numChildren' = numChildren + 1
  BY <1>2, <1>8, <1>12 DEF numChildren, n
<1> QED
  BY <1>8, <1>12, <1>13, <1>14

(* The buffer is flushed. *)
LEMMA FlushInv ==
  ASSUME Inv, flushNode
  PROVE  Inv'
<1> DEFINE h == heaviest(Partition, numChildren)
           E == territory \X Msgs
<1>1. /\ numChildren \in Nat /\ numChildren >= 1 /\ numChildren <= fanout
      /\ flushBuckets' = Partition /\ Partition \in Seq(Seq(Entry))
      /\ \A i \in 1..numChildren : Partition[i] \in Seq(E)
      /\ FirstLongest(Partition, numChildren, h)
      /\ buffer' = Compacted(Partition, numChildren, h)
      /\ bufferSorted' = FALSE /\ territory' = territory /\ isRoot' = isRoot
      /\ \/ pivots' = pivots
         \/ \E p \in Promotable(h) : pivots' = InsertAt(pivots, h, p)
  BY FlushIs
<1>2. h \in 1..numChildren
  BY <1>1 DEF FirstLongest
<1> HIDE DEF h, E
<1>3. buffer' \in Seq(E)
  <2> DEFINE B == Partition
             n == numChildren
  <2>1. n \in Nat /\ \A i \in 1..n : B[i] \in Seq(E)
    BY <1>1
  <2> HIDE DEF B, n
  <2>2. Compacted(B, n, h) \in Seq(E)
    BY ONLY <2>1, CompactedType
  <2> QED
    BY <1>1, <2>2 DEF B, n
<1>4. pivots' \in Seq(territory') /\ numChildren' <= fanout + 1 /\ Rising'
  <2>1. CASE pivots' = pivots
    <3>1. numChildren' = numChildren
      BY <2>1 DEF numChildren
    <3>2. numChildren' <= fanout + 1
      BY <1>1, <3>1, NodeBufferAssumption
    <3> QED
      BY <1>1, <2>1, <3>2 DEF Inv, TypeOK, Rising
  <2>2. CASE \E p \in Promotable(h) : pivots' = InsertAt(pivots, h, p)
    <3>1. PICK p \in Promotable(h) : pivots' = InsertAt(pivots, h, p)
      BY <2>2
    <3>2. pivots' \in Seq(territory') /\ numChildren' = numChildren + 1 /\ Rising'
      BY <1>1, <1>2, <3>1, PromoteInv
    <3>3. numChildren' <= fanout + 1
      BY <1>1, <3>2, NodeBufferAssumption
    <3> QED
      BY <3>2, <3>3
  <2> QED
    BY <1>1, <2>1, <2>2
<1>5. buffer' \in Seq(territory' \X Msgs)
  BY <1>1, <1>3 DEF E
<1>6. flushBuckets' \in Seq(Seq(Key \X Msgs))
  BY <1>1 DEF Entry
<1>7. isRoot' \in BOOLEAN /\ territory' \subseteq Key /\ bufferSorted' \in BOOLEAN
  BY <1>1 DEF Inv, TypeOK
<1>8. TypeOK'
  BY <1>4, <1>5, <1>6, <1>7 DEF TypeOK
<1> QED
  BY <1>1, <1>4, <1>8 DEF Inv

(* What a split starts from. *)
LEMMA SplitIs ==
  ASSUME Inv, splitInternalChild
  PROVE  LET mid == Len(pivots) \div 2
         IN  /\ Len(pivots) \in Nat /\ Len(pivots) <= fanout
             /\ mid \in Nat /\ mid + 1 \in 1..Len(pivots)
             /\ pivots[mid + 1] \in territory /\ pivots[mid + 1] \in Nat
             /\ bufferSorted' = FALSE /\ isRoot' = FALSE
<1> DEFINE n == Len(pivots)
           mid == n \div 2
<1>1. pivots \in Seq(territory) /\ territory \subseteq Key /\ numChildren <= fanout + 1
  BY DEF Inv, TypeOK
<1>2. n \in Nat /\ \A i \in 1..n : pivots[i] \in territory
  BY <1>1, LenProperties, ElementOfSeq
<1>3. n <= fanout /\ n >= 2
  BY <1>1, <1>2, NodeBufferAssumption DEF splitInternalChild, Settled, numChildren
<1>4. mid \in Nat /\ mid + 1 \in 1..n
  BY ONLY <1>2, <1>3
<1>5. pivots[mid + 1] \in territory
  BY <1>2, <1>4
<1>6. pivots[mid + 1] \in Nat
  BY <1>1, <1>5, KeysAreNat
<1>7. bufferSorted = FALSE
  BY DEF Inv, TypeOK, splitInternalChild
<1>8. bufferSorted' = FALSE /\ isRoot' = FALSE
  BY <1>7 DEF splitInternalChild
<1> QED
  BY <1>2, <1>3, <1>4, <1>5, <1>6, <1>8

(* A half is made of the pivots from a to b and the keys in K. *)
HalfOf(a, b, K) ==
  /\ a \in Nat /\ a >= 1 /\ b \in Nat /\ b <= Len(pivots)
  /\ K \subseteq Key /\ \A i \in a..b : pivots[i] \in K
  /\ territory' = territory \cap K
  /\ pivots' = SubSeq(pivots, a, b)
  /\ buffer' = Only(buffer, K)

(* What the invariant says of a half. *)
HalfOK ==
  /\ territory' \subseteq Key /\ pivots' \in Seq(territory') /\ Rising'
  /\ numChildren' <= fanout + 1
  /\ buffer' \in Seq(territory' \X Msgs)

(* A half is a node. *)
LEMMA HalfInv ==
  ASSUME Inv, NEW a, NEW b, NEW K, HalfOf(a, b, K)
  PROVE  HalfOK
<1> DEFINE n == Len(pivots)
           q == SubSeq(pivots, a, b)
           L == territory \cap K
<1>0. /\ a \in Nat /\ a >= 1 /\ b \in Nat /\ b <= n
      /\ K \subseteq Key /\ \A i \in a..b : pivots[i] \in K
      /\ territory' = L /\ pivots' = q /\ buffer' = Only(buffer, K)
  BY DEF HalfOf
<1>1. /\ pivots \in Seq(territory) /\ territory \subseteq Key /\ numChildren <= fanout + 1
      /\ buffer \in Seq(territory \X Msgs) /\ Rising
  BY DEF Inv, TypeOK
<1>2. n \in Nat /\ \A i \in 1..n : pivots[i] \in territory
  BY <1>1, LenProperties, ElementOfSeq
<1>3. \A i \in a..b : i \in 1..n
  BY <1>0, <1>2
<1>4. \A i \in a..b : pivots[i] \in L
  BY <1>0, <1>2, <1>3
<1>5. /\ q \in Seq(L) /\ Len(q) = IF a <= b THEN b-a+1 ELSE 0
      /\ \A i \in 1..b-a+1 : q[i] = pivots[a+i-1]
  <2>1. a \in Int /\ b \in Int
    BY <1>0
  <2> HIDE DEF L
  <2> QED
    BY <1>4, <2>1, SubSeqProperties
<1>6. \A i, j \in 1..n : i < j => pivots[i] < pivots[j]
  BY <1>1 DEF Rising
<1>7. n <= fanout /\ fanout \in Nat
  BY <1>1, <1>2, NodeBufferAssumption DEF numChildren
<1> HIDE DEF q, n
<1>8. Len(q) \in Nat /\ Len(q) <= n /\ \A i \in 1..Len(q) : i \in 1..b-a+1 /\ a+i-1 \in 1..n
  BY <1>0, <1>2, <1>5
<1>9. \A i, j \in 1..Len(q) : i < j => q[i] < q[j]
  <2> SUFFICES ASSUME NEW i \in 1..Len(q), NEW j \in 1..Len(q), i < j PROVE q[i] < q[j]
    OBVIOUS
  <2>1. q[i] = pivots[a+i-1] /\ q[j] = pivots[a+j-1]
    BY <1>5, <1>8
  <2>2. a+i-1 \in 1..n /\ a+j-1 \in 1..n /\ a+i-1 < a+j-1
    BY <1>0, <1>8
  <2> QED
    BY <1>6, <2>1, <2>2
<1>10. pivots' = q
  BY <1>0
<1>11. Rising'
  BY <1>9, <1>10 DEF Rising
<1>12. numChildren' <= fanout + 1
  BY <1>2, <1>7, <1>8, <1>10 DEF numChildren
<1>13. Only(buffer, K) \in Seq((territory \cap K) \X Msgs)
  BY <1>1, OnlyIn
<1> QED
  BY <1>0, <1>1, <1>5, <1>10, <1>11, <1>12, <1>13 DEF HalfOK

(* The node is split. *)
LEMMA SplitInv ==
  ASSUME Inv, splitInternalChild
  PROVE  Inv'
<1> DEFINE n == Len(pivots)
           mid == n \div 2
           p == pivots[mid + 1]
           Lf == {k \in Key : k < p}
           Rt == {k \in Key : k >= p}
<1>1. /\ n \in Nat /\ n <= fanout /\ mid \in Nat /\ mid + 1 \in 1..n
      /\ p \in territory /\ p \in Nat /\ bufferSorted' = FALSE /\ isRoot' = FALSE
  BY SplitIs
<1>2. \/ /\ territory' = {k \in territory : k < p} /\ pivots' = SubSeq(pivots, 1, mid)
         /\ buffer' = Only(buffer, {k \in Key : GoesLeft(k, p)}) /\ flushBuckets' = flushBuckets
      \/ /\ territory' = {k \in territory : k >= p} /\ pivots' = SubSeq(pivots, mid + 2, n)
         /\ buffer' = Only(buffer, {k \in Key : ~GoesLeft(k, p)}) /\ flushBuckets' = <<>>
  BY DEF splitInternalChild
<1>3. territory \subseteq Key /\ pivots \in Seq(territory) /\ pivots \in Seq(Nat) /\ Rising
  BY Arrays DEF Inv, TypeOK
<1>4. \A i \in 1..n : pivots[i] \in Key /\ pivots[i] \in Nat
  BY <1>3, ElementOfSeq
<1>5. \A i, j \in 1..n : i < j => pivots[i] < pivots[j]
  BY <1>3 DEF Rising
<1>6. \A k \in Key : k \in Nat
  BY KeysAreNat
<1>7. /\ {k \in territory : k < p} = territory \cap Lf
      /\ {k \in territory : k >= p} = territory \cap Rt
  BY <1>3
<1> HIDE DEF p, mid, n
<1>8. /\ {k \in Key : GoesLeft(k, p)} = Lf
      /\ {k \in Key : ~GoesLeft(k, p)} = Rt
  BY <1>1, <1>6 DEF GoesLeft
<1>9. p = pivots[mid + 1]
  BY DEF p
<1>10. \A i \in 1..mid : pivots[i] \in Lf
  <2> SUFFICES ASSUME NEW i \in 1..mid PROVE pivots[i] \in Lf
    OBVIOUS
  <2>1. i \in 1..n /\ i < mid + 1
    BY <1>1
  <2> QED
    BY <1>1, <1>4, <1>5, <1>9, <2>1
<1>11. \A i \in mid+2..n : pivots[i] \in Rt
  <2> SUFFICES ASSUME NEW i \in mid+2..n PROVE pivots[i] \in Rt
    OBVIOUS
  <2>1. i \in 1..n /\ mid + 1 < i
    BY <1>1
  <2>2. p < pivots[i] /\ pivots[i] \in Nat /\ pivots[i] \in Key
    BY <1>1, <1>4, <1>5, <1>9, <2>1
  <2>3. pivots[i] >= p
    BY ONLY <1>1, <2>2
  <2> QED
    BY <2>2, <2>3
<1>12. Lf \subseteq Key /\ Rt \subseteq Key
  OBVIOUS
<1> HIDE DEF Lf, Rt
<1>13. ASSUME territory' = territory \cap Lf, pivots' = SubSeq(pivots, 1, mid),
              buffer' = Only(buffer, Lf)
       PROVE  HalfOK
  <2>1. 1 \in Nat /\ 1 >= 1 /\ mid \in Nat /\ mid <= Len(pivots)
    BY <1>1 DEF n
  <2>2. HalfOf(1, mid, Lf)
    BY <1>10, <1>12, <1>13, <2>1 DEF HalfOf
  <2> QED
    BY <2>2, HalfInv
<1>14. ASSUME territory' = territory \cap Rt, pivots' = SubSeq(pivots, mid + 2, n),
              buffer' = Only(buffer, Rt)
       PROVE  HalfOK
  <2>1. mid + 2 \in Nat /\ mid + 2 >= 1 /\ n \in Nat /\ n <= Len(pivots)
    BY <1>1 DEF n
  <2>2. HalfOf(mid + 2, n, Rt)
    BY <1>11, <1>12, <1>14, <2>1 DEF HalfOf
  <2> QED
    BY <2>2, HalfInv
<1>15. HalfOK
  BY <1>2, <1>7, <1>8, <1>13, <1>14
<1>16. flushBuckets' \in Seq(Seq(Key \X Msgs))
  <2>1. flushBuckets \in Seq(Seq(Key \X Msgs)) /\ <<>> \in Seq(Seq(Key \X Msgs))
    BY DEF Inv, TypeOK
  <2> QED
    BY <1>2, <2>1
<1>17. TypeOK'
  BY <1>1, <1>15, <1>16 DEF TypeOK, HalfOK
<1> QED
  BY <1>1, <1>15, <1>17 DEF Inv, HalfOK

(* Every step keeps the invariant. *)
LEMMA NextInv == Inv /\ [Next]_vars => Inv'
<1> SUFFICES ASSUME Inv, [Next]_vars PROVE Inv'
  OBVIOUS
<1>1. ASSUME NEW k \in territory, NEW m \in Msgs, appendToBuffer(k, m) PROVE Inv'
  BY <1>1, AppendInv
<1>2. ASSUME NEW batch \in Batches, Receive(batch) PROVE Inv'
  BY <1>2, ReceiveInv
<1>3. CASE flushNode
  BY <1>3, FlushInv
<1>4. CASE splitInternalChild
  BY <1>4, SplitInv
<1>5. CASE UNCHANGED vars
  BY <1>5 DEF vars, Inv, TypeOK, Rising, SortedByKey, Settled, numChildren
<1> QED
  BY <1>1, <1>2, <1>3, <1>4, <1>5 DEF Next

(* The invariant, and with it what TypeOK says (node.go:24-34). *)
THEOREM BufferInvariant == Spec => []Inv
BY InitInv, NextInv, PTL DEF Spec

(***************************************************************************)
(* The arrays keep their types and the node its limit of children, and all *)
(* pivots and messages are for keys that are routed to the node            *)
(* (flush.go:16-45, 384-436).                                              *)
(***************************************************************************)
THEOREM BufferTypes == Spec => []TypeOK
<1>1. Inv => TypeOK
  BY DEF Inv
<1> QED
  BY <1>1, BufferInvariant, PTL

(***************************************************************************)
(* bufferMessagesForKey and bufferSlice return the messages that are there *)
(* for the key or in the range, and no others, whichever path bufferSorted *)
(* selects (node.go:36-107).                                               *)
(***************************************************************************)
THEOREM ReadsAreExact == Spec => []ReadsExact
<1>1. Inv => ReadsExact
  BY ReadsAreExactAt
<1> QED
  BY <1>1, BufferInvariant, PTL

-----------------------------------------------------------------------------
(* The array does what BETree says. *)

(* The messages by key are a function, and of the keys only. *)
LEMMA KeyedEqual ==
  ASSUME NEW s, NEW f, f = [k \in Key |-> f[k]], \A k \in Key : Keyed(s)[k] = f[k]
  PROVE  Keyed(s) = f
<1>1. Keyed(s) = [k \in Key |-> Keyed(s)[k]]
  BY DEF Keyed
<1> QED
  BY <1>1

(* The record of a node with one more message. *)
Appended(n, k, m) == [n EXCEPT !.buffer = [n.buffer EXCEPT ![k] = Append(@, m)]]

(* The record of a node with another buffer. *)
LEMMA WithBuffer ==
  ASSUME NEW p, NEW c, NEW b, NEW v, NEW d, NEW B, b \in B, d \in B, NEW n, NEW l,
         n = [leaf |-> FALSE, pivots |-> p, children |-> c, buffer |-> b, kv |-> v],
         l = [leaf |-> FALSE, pivots |-> p, children |-> c, buffer |-> d, kv |-> v]
  PROVE  l = [n EXCEPT !.buffer = d]
<1> DEFINE R == [leaf : {FALSE}, pivots : {p}, children : {c}, buffer : B, kv : {v}]
           r == [n EXCEPT !.buffer = d]
<1>1. n \in R /\ l \in R
  OBVIOUS
<1>2. r \in R
  BY <1>1
<1>3. r.leaf = FALSE /\ r.pivots = p /\ r.children = c /\ r.buffer = d /\ r.kv = v
  BY <1>1
<1>4. r = [leaf |-> r.leaf, pivots |-> r.pivots, children |-> r.children,
           buffer |-> r.buffer, kv |-> r.kv]
  <2> HIDE DEF r
  <2> QED
    BY <1>2
<1> HIDE DEF r
<1>5. l = r
  BY <1>3, <1>4
<1> QED
  BY <1>5 DEF r

(* An append. *)
LEMMA AppendMatches ==
  ASSUME Inv, NEW k \in territory, NEW m \in Msgs, appendToBuffer(k, m)
  PROVE  Node' = Tree!appendToBuffer(Node, k, m)
<1> DEFINE e == <<k, m>>
           C == [i \in 1..numChildren |-> <<0, i>>]
           old == Keyed(buffer)
           new == Keyed(buffer')
<1>1. buffer \in Seq(Entry) /\ k \in Key /\ e \in Entry /\ e[1] = k /\ e[2] = m
  BY Arrays DEF Inv, TypeOK, Entry
<1>2. buffer' = Append(buffer, e) /\ pivots' = pivots
  BY DEF appendToBuffer
<1>3. numChildren' = numChildren
  BY <1>2 DEF numChildren
<1> HIDE DEF e
<1>4. \A x \in Key : new[x] = IF x = k THEN Append(old[x], m) ELSE old[x]
  BY <1>1, <1>2, KeyedIs
<1>5. old = [x \in Key |-> old[x]] /\ new = [x \in Key |-> new[x]]
  BY DEF Keyed
<1>6. Node = [leaf |-> FALSE, pivots |-> pivots, children |-> C, buffer |-> old,
              kv |-> Tree!NoKeys]
  BY DEF Node, Tree!Internal
<1>7. Node' = [leaf |-> FALSE, pivots |-> pivots, children |-> C, buffer |-> new,
               kv |-> Tree!NoKeys]
  BY <1>2, <1>3 DEF Node, Tree!Internal, Tree!NoKeys
<1> HIDE DEF old, new, C
<1>8. new = [old EXCEPT ![k] = Append(@, m)]
  BY <1>1, <1>4, <1>5
<1>9. old \in [Key -> Seq(Msgs)]
  BY <1>1, <1>5, KeyedIs DEF old
<1>10. Tree!appendToBuffer(Node, k, m) = Appended(Node, k, m)
  <2> DEFINE P == {pivots}
             Cs == {C}
             V == {Tree!NoKeys}
  <2>1. pivots \in P /\ C \in Cs /\ Tree!NoKeys \in V
    OBVIOUS
  <2> HIDE DEF P, Cs, V
  <2>2. Node \in [leaf : {FALSE}, pivots : P, children : Cs, buffer : [Key -> Seq(Msgs)],
                 kv : V]
    BY <1>6, <1>9, <2>1
  <2> DEFINE n == Node
  <2>3. n \in [leaf : {FALSE}, pivots : P, children : Cs, buffer : [Key -> Seq(Msgs)],
              kv : V]
    BY <2>2
  <2> HIDE DEF n
  <2>4. n.buffer \in [Key -> Seq(Msgs)]
    BY <2>3
  <2>5. Append(n.buffer[k], m) \in Seq(Msgs)
    BY <1>1, <2>4, AppendProperties
  <2>6. Tree!appendToBuffer(n, k, m) = Appended(n, k, m)
    BY ONLY <1>1, <2>3, <2>4, <2>5 DEF Tree!appendToBuffer, Appended
  <2> QED
    BY <2>6 DEF n
<1>11. Node' = [Node EXCEPT !.buffer = new]
  <2> DEFINE B == {old, new}
  <2>1. old \in B /\ new \in B
    OBVIOUS
  <2> HIDE DEF B
  <2> QED
    BY ONLY <1>6, <1>7, <2>1, WithBuffer
<1> QED
  BY <1>6, <1>8, <1>10, <1>11 DEF Appended

(* A batch. *)
LEMMA ReceiveMatches ==
  ASSUME Inv, NEW batch \in Batches, Receive(batch)
  PROVE  Keyed(buffer') = Tree!Received(Keyed(buffer), Keyed(batch))
<1> DEFINE f == [k \in Key |-> Keyed(buffer)[k] \o Keyed(batch)[k]]
<1>1. buffer \in Seq(Entry) /\ batch \in Seq(Entry)
  BY Arrays, BatchIs
<1>2. buffer' = buffer \o batch
  BY DEF Receive
<1>3. \A k \in Key : Keyed(buffer')[k] = Keyed(buffer)[k] \o Keyed(batch)[k]
  BY <1>1, <1>2, KeyedConcat
<1>4. f = [k \in Key |-> f[k]] /\ \A k \in Key : Keyed(buffer')[k] = f[k]
  BY <1>3
<1>5. Tree!Received(Keyed(buffer), Keyed(batch)) = f
  BY DEF Tree!Received
<1> HIDE DEF f
<1>6. Keyed(buffer') = f
  BY <1>4, KeyedEqual
<1> QED
  BY <1>5, <1>6

(* The bucket of a child holds the messages BETree sends it. *)
LEMMA BucketIs ==
  ASSUME Inv, NEW i
  PROVE  Keyed(Only(buffer, RoutedTo(i))) = Tree!Bucket(Node, i)
<1> DEFINE f == [k \in Key |-> IF findChildIndex(k) = i THEN Keyed(buffer)[k] ELSE <<>>]
           t == Only(buffer, RoutedTo(i))
<1>1. buffer \in Seq(Entry) /\ pivots \in Seq(Nat) /\ Rising
  BY Arrays
<1>2. \A k \in Key : Tree!findChildIndex(Node, k) = findChildIndex(k)
  BY <1>1, KeysAreNat, RouteIs
<1>3. Tree!Bucket(Node, i) = f
  BY <1>2, NodeIs DEF Tree!Bucket
<1>4. \A k \in Key : k \in RoutedTo(i) <=> findChildIndex(k) = i
  BY DEF RoutedTo
<1>5. \A k \in Key : Keyed(t)[k] = IF k \in RoutedTo(i) THEN Keyed(buffer)[k] ELSE <<>>
  BY <1>1, KeyedOnly
<1>6. f = [k \in Key |-> f[k]] /\ \A k \in Key : Keyed(t)[k] = f[k]
  BY <1>4, <1>5
<1> HIDE DEF f, t
<1>7. Keyed(t) = f
  BY <1>6, KeyedEqual
<1> QED
  BY <1>3, <1>7 DEF t

(* The child BETree chooses is the first with the longest bucket. *)
LEMMA HeaviestMatches ==
  ASSUME Inv, NEW B, NEW h, numChildren \in Nat,
         \A i \in 1..numChildren : B[i] = Only(buffer, RoutedTo(i)),
         FirstLongest(B, numChildren, h)
  PROVE  Tree!heaviest(Node) = h
<1> DEFINE n == numChildren
           L(i) == Len(B[i])
           P(i) == \A j \in 1..n : IF j < i THEN L(j) < L(i) ELSE L(j) <= L(i)
<1>1. buffer \in Seq(Entry)
  BY Arrays
<1>2. \A i : Only(buffer, RoutedTo(i)) \in Seq(Entry)
  BY <1>1, OnlyIs
<1>3. \A i \in 1..n : Tree!Load(Node, i) = L(i) /\ L(i) \in Nat
  <2> SUFFICES ASSUME NEW i \in 1..n PROVE Tree!Load(Node, i) = L(i) /\ L(i) \in Nat
    OBVIOUS
  <2> DEFINE t == Only(buffer, RoutedTo(i))
  <2>1. t \in Seq(Entry) /\ B[i] = t
    BY <1>2
  <2>2. Tree!Bucket(Node, i) = Keyed(t)
    BY BucketIs
  <2>3. Tree!Load(Node, i) = Tree!NumMsgs(Keyed(t))
    BY <2>2 DEF Tree!Load
  <2> HIDE DEF t
  <2>4. Tree!NumMsgs(Keyed(t)) = Len(t) /\ Len(t) \in Nat
    BY <2>1, LoadIs, LenProperties
  <2> QED
    BY <2>1, <2>3, <2>4
<1>4. DOMAIN Node.children = 1..n
  BY NodeIs
<1>5. h \in 1..n /\ P(h)
  BY DEF FirstLongest
<1> DEFINE R(i) == \A j \in 1..n : IF j < i THEN Tree!Load(Node, j) < Tree!Load(Node, i)
                                            ELSE Tree!Load(Node, j) <= Tree!Load(Node, i)
<1>6. Tree!heaviest(Node) = CHOOSE i \in 1..n : R(i)
  BY <1>4 DEF Tree!heaviest
<1>7. \A i \in 1..n : R(i) <=> P(i)
  BY <1>3
<1> HIDE DEF L, n
<1>8. \A i \in 1..n : P(i) => i = h
  <2> SUFFICES ASSUME NEW i \in 1..n, P(i), i # h PROVE FALSE
    OBVIOUS
  <2>1. L(i) \in Nat /\ L(h) \in Nat
    BY <1>3, <1>5
  <2>2. i < h \/ h < i
    BY <1>5
  <2>3. CASE i < h
    <3>1. L(i) < L(h)
      BY <1>5, <2>3
    <3>2. L(h) <= L(i)
      BY <1>5, <2>3
    <3> QED
      BY <2>1, <3>1, <3>2
  <2>4. CASE h < i
    <3>1. L(h) < L(i)
      BY <1>5, <2>4
    <3>2. L(i) <= L(h)
      BY <1>5, <2>4
    <3> QED
      BY <2>1, <3>1, <3>2
  <2> QED
    BY <2>2, <2>3, <2>4
<1> HIDE DEF P, R
<1> QED
  BY <1>5, <1>6, <1>7, <1>8

(* A flush. *)
LEMMA FlushMatches ==
  ASSUME Inv, flushNode
  PROVE  LET i == Tree!heaviest(Node)
         IN  /\ Keyed(buffer') = Tree!Unflushed(Node, i)
             /\ Keyed(flushBuckets'[i]) = Tree!Bucket(Node, i)
<1> DEFINE n == numChildren
           B == Partition
           h == heaviest(B, n)
           f == [k \in Key |-> IF findChildIndex(k) = h THEN <<>> ELSE Keyed(buffer)[k]]
<1>1. /\ n \in Nat /\ flushBuckets' = B
      /\ \A i \in 1..n : B[i] = Only(buffer, RoutedTo(i))
      /\ \A i \in 1..n : B[i] \in Seq(Entry)
      /\ FirstLongest(B, n, h) /\ buffer' = Compacted(B, n, h)
  BY FlushIs
<1>2. /\ buffer \in Seq(Entry) /\ pivots \in Seq(Nat) /\ Rising
  BY Arrays
<1>3. Tree!heaviest(Node) = h
  <2> HIDE DEF B, h
  <2> QED
    BY <1>1, HeaviestMatches
<1>4. h \in 1..n
  BY <1>1 DEF FirstLongest
<1>5. Keyed(flushBuckets'[h]) = Tree!Bucket(Node, h)
  <2>1. flushBuckets'[h] = Only(buffer, RoutedTo(h))
    BY <1>1, <1>4
  <2> HIDE DEF h
  <2> QED
    BY <2>1, BucketIs
<1>6. \A k \in Key : /\ Tree!findChildIndex(Node, k) = findChildIndex(k)
                     /\ findChildIndex(k) \in 1..n
  BY <1>2, KeysAreNat, RouteIs DEF Routes
<1>7. Tree!Unflushed(Node, h) = f
  <2> HIDE DEF h
  <2> QED
    BY <1>6, NodeIs DEF Tree!Unflushed
<1> HIDE DEF h, B, n
<1>8. ASSUME NEW k \in Key PROVE Keyed(buffer')[k] = f[k]
  <2> DEFINE c == findChildIndex(k)
  <2>1. c \in 1..n
    BY <1>6
  <2>2. \A i : k \in RoutedTo(i) <=> i = c
    BY DEF RoutedTo
  <2>3. \A i \in 1..n : Keyed(B[i])[k] = IF i = c THEN Keyed(buffer)[k] ELSE <<>>
    <3> SUFFICES ASSUME NEW i \in 1..n
                 PROVE  Keyed(B[i])[k] = IF i = c THEN Keyed(buffer)[k] ELSE <<>>
      OBVIOUS
    <3> DEFINE ks == RoutedTo(i)
    <3>1. B[i] = Only(buffer, ks) /\ (k \in ks <=> i = c)
      BY <1>1, <2>2
    <3> HIDE DEF ks, c
    <3>2. Keyed(Only(buffer, ks))[k] = IF k \in ks THEN Keyed(buffer)[k] ELSE <<>>
      BY <1>2, KeyedOnly
    <3> QED
      BY <3>1, <3>2
  <2>4. f[k] = IF c = h THEN <<>> ELSE Keyed(buffer)[k]
    OBVIOUS
  <2> HIDE DEF c, f
  <2>5. \A i \in 1..n : i # c => Keyed(B[i])[k] = <<>>
    BY <2>3
  <2>6. Keyed(Compacted(B, n, h))[k] = IF c = h THEN <<>> ELSE Keyed(B[c])[k]
    BY <1>1, <2>1, <2>5, CompactedKeyed
  <2>7. Keyed(B[c])[k] = Keyed(buffer)[k]
    BY <2>1, <2>3
  <2> QED
    BY <1>1, <2>4, <2>6, <2>7
<1>9. f = [k \in Key |-> f[k]]
  OBVIOUS
<1> HIDE DEF f
<1>10. Keyed(buffer') = f
  BY <1>8, <1>9, KeyedEqual
<1> QED
  BY <1>3, <1>5, <1>7, <1>10

(* The children of the node and of its halves are counted alike. *)
LEMMA ChildCounts ==
  ASSUME NEW n \in Nat, NEW mid \in Nat, mid + 1 \in 1..n,
         NEW C, C = [i \in 1..n+1 |-> <<0, i>>]
  PROVE  /\ Len(C) = n + 1
         /\ Len(SubSeq(C, 1, mid + 1)) = mid + 1
         /\ Len(SubSeq(C, mid + 2, n + 1)) = n - mid
<1> DEFINE S == {<<0, i>> : i \in 1..n+1}
<1>1. C \in [1..n+1 -> S]
  OBVIOUS
<1>2. \A i \in 1..n+1 : C[i] \in S
  BY <1>1
<1> HIDE DEF S
<1>3. C \in Seq(S) /\ Len(C) = n + 1
  BY ONLY <1>1, n \in Nat
<1>4. /\ 1 \in Int /\ mid + 1 \in Int /\ mid + 2 \in Int /\ n + 1 \in Int
      /\ 1 <= mid + 1 /\ mid + 2 <= n + 1
      /\ (mid + 1) - 1 + 1 = mid + 1 /\ (n + 1) - (mid + 2) + 1 = n - mid
  OBVIOUS
<1>5. (\A i \in 1..mid+1 : C[i] \in S) /\ (\A i \in mid+2..n+1 : C[i] \in S)
  BY <1>2
<1>6. Len(SubSeq(C, 1, mid + 1)) = mid + 1
  <2> DEFINE a == 1
             b == mid + 1
  <2>1. a \in Int /\ b \in Int /\ (\A i \in a..b : C[i] \in S) /\ a <= b /\ b-a+1 = mid + 1
    BY <1>4, <1>5
  <2> HIDE DEF a, b
  <2>2. Len(SubSeq(C, a, b)) = IF a <= b THEN b-a+1 ELSE 0
    BY ONLY <2>1, SubSeqProperties
  <2> QED
    BY <2>1, <2>2 DEF a, b
<1>7. Len(SubSeq(C, mid + 2, n + 1)) = n - mid
  <2> DEFINE a == mid + 2
             b == n + 1
  <2>1. a \in Int /\ b \in Int /\ (\A i \in a..b : C[i] \in S) /\ a <= b /\ b-a+1 = n - mid
    BY <1>4, <1>5
  <2> HIDE DEF a, b
  <2>2. Len(SubSeq(C, a, b)) = IF a <= b THEN b-a+1 ELSE 0
    BY ONLY <2>1, SubSeqProperties
  <2> QED
    BY <2>1, <2>2 DEF a, b
<1> QED
  BY <1>3, <1>6, <1>7

(* A split. *)
LEMMA SplitMatches ==
  ASSUME Inv, splitInternalChild
  PROVE  \E half \in {Tree!splitInternal(Node).left, Tree!splitInternal(Node).right} :
           /\ Node'.pivots = half.pivots
           /\ Node'.buffer = half.buffer
           /\ numChildren' = Len(half.children)
<1> DEFINE n == Len(pivots)
           mid == n \div 2
           p == pivots[mid + 1]
           C == [i \in 1..numChildren |-> <<0, i>>]
           lf == Tree!splitInternal(Node).left
           rt == Tree!splitInternal(Node).right
           Lf == {k \in Key : GoesLeft(k, p)}
           Rt == {k \in Key : ~GoesLeft(k, p)}
<1>1. n \in Nat /\ mid \in Nat /\ mid + 1 \in 1..n
  BY SplitIs
<1>2. \/ pivots' = SubSeq(pivots, 1, mid) /\ buffer' = Only(buffer, Lf)
      \/ pivots' = SubSeq(pivots, mid + 2, n) /\ buffer' = Only(buffer, Rt)
  BY DEF splitInternalChild
<1>3. /\ lf.pivots = SubSeq(pivots, 1, mid)
      /\ lf.children = SubSeq(C, 1, mid + 1)
      /\ lf.buffer = [k \in Key |-> IF (k < p) = TRUE THEN Keyed(buffer)[k] ELSE <<>>]
      /\ rt.pivots = SubSeq(pivots, mid + 2, n)
      /\ rt.children = SubSeq(C, mid + 2, Len(C))
      /\ rt.buffer = [k \in Key |-> IF (k < p) = FALSE THEN Keyed(buffer)[k] ELSE <<>>]
  BY NodeIs DEF Tree!splitInternal, Tree!Internal, Tree!leftChildren
<1>4. buffer \in Seq(Entry) /\ pivots \in Seq(Nat)
  BY Arrays
<1>5. Node'.pivots = pivots' /\ Node'.buffer = Keyed(buffer')
  BY DEF Node, Tree!Internal
<1>6. \A k \in Key : (k \in Lf <=> k < p) /\ (k \in Rt <=> ~(k < p))
  BY DEF GoesLeft
<1>7. numChildren = n + 1 /\ numChildren' = Len(pivots') + 1
  BY DEF numChildren
<1>8. \A i \in 1..n : pivots[i] \in Nat
  BY <1>4, ElementOfSeq
<1>9. Len(C) = n + 1 /\ Len(SubSeq(C, 1, mid + 1)) = mid + 1
        /\ Len(SubSeq(C, mid + 2, n + 1)) = n - mid
  <2>1. C = [i \in 1..n+1 |-> <<0, i>>]
    BY <1>7
  <2> HIDE DEF C, mid, n
  <2> QED
    BY <1>1, <2>1, ChildCounts
<1> HIDE DEF lf, rt, C, p, mid, n
<1>10. Len(SubSeq(pivots, 1, mid)) = mid
  <2> DEFINE a == 1
  <2>1. /\ a \in Int /\ mid \in Int /\ (\A i \in a..mid : pivots[i] \in Nat)
        /\ (IF a <= mid THEN mid-a+1 ELSE 0) = mid
    BY <1>1, <1>8
  <2> HIDE DEF a
  <2>2. Len(SubSeq(pivots, a, mid)) = IF a <= mid THEN mid-a+1 ELSE 0
    BY <2>1, SubSeqProperties
  <2> QED
    BY <2>1, <2>2 DEF a
<1>11. Len(SubSeq(pivots, mid + 2, n)) = n - mid - 1
  <2> DEFINE a == mid + 2
  <2>1. /\ a \in Int /\ n \in Int /\ (\A i \in a..n : pivots[i] \in Nat)
        /\ (IF a <= n THEN n-a+1 ELSE 0) = n - mid - 1
    BY <1>1, <1>8
  <2> HIDE DEF a
  <2>2. Len(SubSeq(pivots, a, n)) = IF a <= n THEN n-a+1 ELSE 0
    BY <2>1, SubSeqProperties
  <2> QED
    BY <2>1, <2>2 DEF a
<1>12. ASSUME pivots' = SubSeq(pivots, 1, mid), buffer' = Only(buffer, Lf)
       PROVE  Node'.pivots = lf.pivots /\ Node'.buffer = lf.buffer
                /\ numChildren' = Len(lf.children)
  <2> DEFINE f == lf.buffer
  <2>1. f = [k \in Key |-> f[k]] /\ \A k \in Key : f[k] = IF k < p THEN Keyed(buffer)[k] ELSE <<>>
    BY <1>3
  <2>2. \A k \in Key : Keyed(Only(buffer, Lf))[k] = IF k \in Lf THEN Keyed(buffer)[k] ELSE <<>>
    BY <1>4, KeyedOnly
  <2> HIDE DEF f, Lf
  <2>3. \A k \in Key : Keyed(buffer')[k] = f[k]
    BY <1>6, <1>12, <2>1, <2>2
  <2>4. Keyed(buffer') = f
    BY <2>1, <2>3, KeyedEqual
  <2>5. numChildren' = Len(lf.children)
    BY <1>1, <1>3, <1>7, <1>9, <1>10, <1>12
  <2> QED
    BY <1>3, <1>5, <1>12, <2>4, <2>5 DEF f
<1>13. ASSUME pivots' = SubSeq(pivots, mid + 2, n), buffer' = Only(buffer, Rt)
       PROVE  Node'.pivots = rt.pivots /\ Node'.buffer = rt.buffer
                /\ numChildren' = Len(rt.children)
  <2> DEFINE f == rt.buffer
  <2>1. f = [k \in Key |-> f[k]] /\ \A k \in Key : f[k] = IF k < p THEN <<>> ELSE Keyed(buffer)[k]
    BY <1>3
  <2>2. \A k \in Key : Keyed(Only(buffer, Rt))[k] = IF k \in Rt THEN Keyed(buffer)[k] ELSE <<>>
    BY <1>4, KeyedOnly
  <2> HIDE DEF f, Rt
  <2>3. \A k \in Key : Keyed(buffer')[k] = f[k]
    BY <1>6, <1>13, <2>1, <2>2
  <2>4. Keyed(buffer') = f
    BY <2>1, <2>3, KeyedEqual
  <2>5. numChildren' = Len(rt.children)
    BY <1>1, <1>3, <1>7, <1>9, <1>11, <1>13
  <2> QED
    BY <1>3, <1>5, <1>13, <2>4, <2>5 DEF f
<1> HIDE DEF Lf, Rt
<1> QED
  BY <1>2, <1>12, <1>13 DEF lf, rt

(* Every step of the array is one BETree would take. *)
LEMMA StepMatches == Inv /\ [Next]_vars => StepMatchesTree
<1> SUFFICES ASSUME Inv PROVE StepMatchesTree
  OBVIOUS
<1>1. ASSUME NEW k \in territory, NEW m \in Msgs, appendToBuffer(k, m)
      PROVE  Node' = Tree!appendToBuffer(Node, k, m)
  BY <1>1, AppendMatches
<1>2. ASSUME NEW batch \in Batches, Receive(batch)
      PROVE  Keyed(buffer') = Tree!Received(Keyed(buffer), Keyed(batch))
  BY <1>2, ReceiveMatches
<1>3. ASSUME flushNode
      PROVE  LET i == Tree!heaviest(Node)
             IN  /\ Keyed(buffer') = Tree!Unflushed(Node, i)
                 /\ Keyed(flushBuckets'[i]) = Tree!Bucket(Node, i)
  BY <1>3, FlushMatches
<1>4. ASSUME splitInternalChild
      PROVE  \E half \in {Tree!splitInternal(Node).left, Tree!splitInternal(Node).right} :
               /\ Node'.pivots = half.pivots
               /\ Node'.buffer = half.buffer
               /\ numChildren' = Len(half.children)
  BY <1>4, SplitMatches
<1> QED
  BY <1>1, <1>2, <1>3, <1>4, Zenon DEF StepMatchesTree

(***************************************************************************)
(* No append, flush or split of the array loses, repeats or reorders the   *)
(* messages of a key, and the child a flush chooses is handed its messages *)
(* and no others (flush.go:16-45, 410-436): what BETree, and with it every *)
(* theorem about the tree, takes the buffer of a node to be.               *)
(***************************************************************************)
THEOREM BufferMatchesTree == Spec => StepsMatchTree
<1>1. Inv /\ [Next]_vars => [StepMatchesTree]_vars
  BY StepMatches
<1> QED
  BY <1>1, BufferInvariant, PTL DEF Spec, StepsMatchTree
=============================================================================
