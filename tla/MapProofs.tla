------------------------------ MODULE MapProofs ------------------------------
(***************************************************************************)
(* What readers see, for every value of the constants: Get and the scans   *)
(* agree, and the tree implements OrderedMap.  The value of a key is what  *)
(* its leaf holds, changed by the messages of the one node on every level  *)
(* that owns the key, from the bottom up.                                  *)
(***************************************************************************)
EXTENDS BETreeProofs

-----------------------------------------------------------------------------
(* Sequences of messages. *)

(* The largest of finitely many naturals. *)
LEMMA MaxIn ==
  ASSUME NEW n \in Nat, NEW T, T \subseteq 0..n, T # {}
  PROVE  Max(T) \in T
<1> DEFINE U == {n - x : x \in T}
<1>1. \A x \in T : x \in Nat /\ n - x \in Nat
  OBVIOUS
<1>2. U \subseteq Nat /\ U # {}
  BY <1>1
<1>3. PICK y \in U : \A z \in U : y <= z
  <2> HIDE DEF U
  <2> QED
    BY <1>2, LeastNat
<1>4. PICK x \in T : y = n - x
  BY <1>3
<1>5. \A z \in T : x >= z
  <2> SUFFICES ASSUME NEW z \in T PROVE x >= z
    OBVIOUS
  <2>1. n - x <= n - z
    BY <1>3, <1>4
  <2> QED
    BY <1>1, <2>1
<1> QED
  BY <1>4, <1>5 DEF Max

(* Where getWithUpserts stops: at a put or a delete, or not at all. *)
LEMMA StopsAt ==
  ASSUME NEW msgs \in Seq(Msg)
  PROVE  LET stop == Max({0} \cup {i \in DOMAIN msgs : msgs[i].kind # "ups"})
         IN  stop \in 0..Len(msgs) /\ (stop # 0 => msgs[stop].kind # "ups")
<1> DEFINE n == Len(msgs)
           U == {i \in DOMAIN msgs : msgs[i].kind # "ups"}
           T == {0} \cup U
<1>1. n \in Nat /\ DOMAIN msgs = 1..n
  BY LenProperties
<1> HIDE DEF n
<1>2. U \subseteq 1..n /\ \A i \in U : msgs[i].kind # "ups"
  BY <1>1
<1> HIDE DEF U
<1>3. T \subseteq 0..n /\ T # {}
  BY <1>1, <1>2
<1>4. \A i \in T : i = 0 \/ i \in U
  OBVIOUS
<1> HIDE DEF T
<1>5. Max(T) \in T
  BY ONLY <1>1, <1>3, MaxIn
<1>6. Max(T) \in 0..n /\ (Max(T) # 0 => msgs[Max(T)].kind # "ups")
  BY <1>2, <1>3, <1>4, <1>5
<1> QED
  BY <1>6 DEF T, U, n

(***************************************************************************)
(* getWithUpserts reads a node's messages from the newest back to the      *)
(* first that is not an upsert; that gives what all of them would.         *)
(***************************************************************************)
LEMMA NewestFirst ==
  ASSUME NEW msgs \in Seq(Msg), NEW o \in Opt,
         NEW stop \in 0..Len(msgs), stop # 0 => msgs[stop].kind # "ups"
  PROVE  /\ SubSeq(msgs, stop + 1, Len(msgs)) \in Seq(Msg)
         /\ stop # 0 => Apply(msgs[stop], Absent) \in Opt
         /\ After(SubSeq(msgs, stop + 1, Len(msgs)),
                  IF stop = 0 THEN o ELSE Apply(msgs[stop], Absent)) = After(msgs, o)
<1> DEFINE n == Len(msgs)
           older == SubSeq(msgs, 1, stop)
           newer == SubSeq(msgs, stop + 1, n)
           x == IF stop = 0 THEN o ELSE Apply(msgs[stop], Absent)
<1>1. n \in Nat /\ \A i \in 1..n : msgs[i] \in Msg
  BY LenProperties, ElementOfSeq
<1> HIDE DEF n
<1>2. stop \in 0..n /\ (stop # 0 => stop \in 1..n /\ msgs[stop] \in Msg)
  BY <1>1 DEF n
<1>3. stop # 0 => Apply(msgs[stop], Absent) \in Opt
  BY <1>2, MsgIsFolded, ApplyType DEF Opt
<1>4. /\ older \in Seq(Msg) /\ Len(older) = stop
      /\ \A i \in 1..stop : older[i] = msgs[i]
  <2>1. 1 \in Int /\ stop \in Int /\ \A i \in 1..stop : msgs[i] \in Msg
    BY <1>1, <1>2
  <2>2. /\ older \in Seq(Msg)
        /\ Len(older) = IF 1 <= stop THEN stop - 1 + 1 ELSE 0
        /\ \A i \in 1..stop-1+1 : older[i] = msgs[1 + i - 1]
    BY ONLY <2>1, SubSeqProperties
  <2> HIDE DEF older
  <2> QED
    BY <1>1, <1>2, <2>2
<1>5. newer \in Seq(Msg)
  <2> DEFINE a == stop + 1
  <2>1. a \in Int /\ n \in Int /\ \A i \in a..n : msgs[i] \in Msg
    BY <1>1, <1>2
  <2> HIDE DEF a
  <2>2. SubSeq(msgs, a, n) \in Seq(Msg)
    BY ONLY <2>1, SubSeqProperties
  <2> QED
    BY <2>2 DEF a
<1>6. msgs = older \o newer
  <2>1. 1 \in 1..n+1 /\ stop \in 1-1..n /\ n \in stop..n
    BY <1>1, <1>2
  <2>2. older \o newer = SubSeq(msgs, 1, n)
    BY <2>1, ConcatAdjacentSubSeq DEF n
  <2>3. SubSeq(msgs, 1, n) = msgs
    BY SubSeqFull DEF n
  <2> QED
    BY <2>2, <2>3
<1> HIDE DEF older, newer
<1>7. After(older, o) = x
  <2>1. CASE stop = 0
    <3>1. older = <<>>
      BY <1>4, <2>1, EmptySeq
    <3> QED
      BY <2>1, <3>1, AfterNone
  <2>2. CASE stop # 0
    <3>1. stop \in 1..Len(older) /\ older[stop] = msgs[stop]
      BY <1>2, <1>4, <2>2
    <3>2. After(older, o) = Apply(older[stop], Run(older, o)[stop - 1])
      BY <1>4, <3>1, RunProperties DEF After
    <3> QED
      BY <1>2, <2>2, <3>1, <3>2, ApplyForgets
  <2> QED
    BY <2>1, <2>2
<1>8. After(older \o newer, o) = After(newer, After(older, o))
  BY <1>4, <1>5, RunConcat
<1> QED
  BY <1>3, <1>5, <1>6, <1>7, <1>8 DEF newer, n

(* Both paths of applyToLeaf leave what the messages make of each entry. *)
LEMMA LeafAfter ==
  ASSUME NEW kv \in [Key -> Opt], NEW msgs \in [Key -> Seq(Msg)], NEW k \in Key
  PROVE  applyToLeaf(kv, msgs).kv[k] = After(msgs[k], kv[k])
<1>1. kv[k] \in Opt /\ msgs[k] \in Seq(Msg)
  OBVIOUS
<1>2. applyToLeafSmall(kv, msgs).kv[k] = After(msgs[k], kv[k])
  BY DEF applyToLeafSmall
<1>3. applyToLeafBatch(kv, msgs).kv[k] = After(msgs[k], kv[k])
  <2>1. CASE msgs[k] = <<>>
    BY <1>1, <2>1, AfterNone DEF applyToLeafBatch
  <2>2. CASE msgs[k] # <<>>
    <3>1. applyToLeafBatch(kv, msgs).kv[k] = Apply(resolveKeyGroup(msgs[k]), kv[k])
      BY <2>2 DEF applyToLeafBatch
    <3> QED
      BY <1>1, <2>2, <3>1, ResolveKeyGroupApplies
  <2> QED
    BY <2>1, <2>2
<1> QED
  BY <1>2, <1>3 DEF applyToLeaf

-----------------------------------------------------------------------------
(* The node that owns a key on a level. *)

Owner(h, k, l) == CHOOSE a \in DOMAIN h : a[1] = l /\ k \in TerritoryIn(h, a)

(* Two nodes of a level have no key in common. *)
LEMMA OneOwner ==
  ASSUME NEW h, NEW r, ShapeIn(h, r), NEW a \in DOMAIN h, NEW b \in DOMAIN h,
         a[1] = b[1], NEW k, k \in TerritoryIn(h, a), k \in TerritoryIn(h, b)
  PROVE  a = b
<1>1. a \in Addr /\ b \in Addr
  BY DEF ShapeIn, HeapOK
<1>2. a[2] \in Nat /\ b[2] \in Nat /\ k \in Nat
  BY <1>1, ConstantsAssumption DEF Addr, TerritoryIn
<1>3. ~(a[2] < b[2])
  BY <1>2 DEF TerritoryIn
<1>4. ~(b[2] < a[2])
  BY <1>2 DEF TerritoryIn
<1>5. a[2] = b[2]
  BY <1>2, <1>3, <1>4
<1> QED
  BY <1>1, <1>5, SameAddress

(* Every level has an owner, and findChildIndex leads from one to the next. *)
LEMMA Owners ==
  ASSUME NEW h, NEW r, ShapeIn(h, r), NEW k \in Key
  PROVE  /\ r[1] \in Nat /\ r \in DOMAIN h
         /\ Owner(h, k, r[1]) = r
         /\ \A l \in 0..r[1] :
              /\ Owner(h, k, l) \in DOMAIN h
              /\ Owner(h, k, l)[1] = l
              /\ k \in TerritoryIn(h, Owner(h, k, l))
              /\ h[Owner(h, k, l)].leaf <=> l = 0
              /\ \A a \in DOMAIN h :
                   a[1] = l /\ k \in TerritoryIn(h, a) => a = Owner(h, k, l)
         /\ \A l \in 1..r[1] :
              ChildFor(h[Owner(h, k, l)], k) = Owner(h, k, l - 1)
<1>1. r \in DOMAIN h /\ r \in Addr
  BY DEF ShapeIn, LevelsIn, HeapOK
<1>2. r[1] \in Nat
  BY <1>1 DEF Addr
<1>3. k \in TerritoryIn(h, r)
  BY <1>1, RootTerritory DEF ShapeIn
<1> DEFINE R == r[1]
           Owns(a, l) == a[1] = l /\ k \in TerritoryIn(h, a)
           T == {j \in Nat : j <= R => \E a \in DOMAIN h : Owns(a, R - j)}
<1>4. ASSUME NEW p \in DOMAIN h, ~h[p].leaf, k \in TerritoryIn(h, p)
      PROVE  /\ p[1] \in Nat /\ ChildFor(h[p], k) \in DOMAIN h
             /\ ChildFor(h[p], k)[1] = p[1] - 1
             /\ k \in TerritoryIn(h, ChildFor(h[p], k))
  <2>1. /\ findChildIndex(h[p], k) \in 1..Len(h[p].pivots)+1
        /\ k \in TerritoryIn(h, ChildFor(h[p], k))
    BY <1>4, ChildTerritory
  <2> DEFINE i == findChildIndex(h[p], k)
  <2> HIDE DEF i
  <2>2. /\ h[p].children[i] = <<p[1] - 1, LowIn(h, p, i)>>
        /\ h[p].children[i] \in DOMAIN h /\ p[1] \in Nat
    BY <1>4, <2>1, NodeShape DEF i
  <2> QED
    BY <2>1, <2>2 DEF ChildFor, i
<1>5. 0 \in T
  BY <1>1, <1>2, <1>3
<1>6. ASSUME NEW j \in Nat, j \in T PROVE j + 1 \in T
  <2> SUFFICES ASSUME j + 1 <= R PROVE \E a \in DOMAIN h : Owns(a, R - (j + 1))
    OBVIOUS
  <2>1. PICK p \in DOMAIN h : p[1] = R - j /\ k \in TerritoryIn(h, p)
    BY <1>2, <1>6
  <2>2. ~h[p].leaf
    BY <1>2, <2>1 DEF ShapeIn, LevelsIn
  <2>3. (R - j) - 1 = R - (j + 1)
    BY <1>2
  <2> QED
    BY <1>4, <2>1, <2>2, <2>3
<1>7. Nat \subseteq T
  <2> HIDE DEF T
  <2> QED
    BY <1>5, <1>6, InductionOnNat
<1>8. ASSUME NEW l \in 0..R PROVE \E a \in DOMAIN h : Owns(a, l)
  <2>1. R - l \in Nat /\ R - l <= R /\ R - (R - l) = l
    BY <1>2
  <2>2. R - l \in T
    BY <1>7, <2>1
  <2> QED
    BY <2>1, <2>2
<1>9. \A l \in 0..R : /\ Owner(h, k, l) \in DOMAIN h
                      /\ Owner(h, k, l)[1] = l
                      /\ k \in TerritoryIn(h, Owner(h, k, l))
  BY <1>8 DEF Owner
<1>10. \A l \in 0..R : \A a \in DOMAIN h :
         a[1] = l /\ k \in TerritoryIn(h, a) => a = Owner(h, k, l)
  <2> SUFFICES ASSUME NEW l \in 0..R, NEW a \in DOMAIN h,
                      a[1] = l, k \in TerritoryIn(h, a)
               PROVE  a = Owner(h, k, l)
    OBVIOUS
  <2> DEFINE b == Owner(h, k, l)
  <2>1. b \in DOMAIN h /\ a[1] = b[1] /\ k \in TerritoryIn(h, b)
    BY <1>9
  <2> HIDE DEF b
  <2>2. a = b
    BY <2>1, OneOwner
  <2> QED
    BY <2>2 DEF b
<1>11. R \in 0..R
  BY <1>2
<1>12. Owner(h, k, R) = r
  BY <1>1, <1>3, <1>10, <1>11
<1>13. \A l \in 0..R : h[Owner(h, k, l)].leaf <=> l = 0
  BY <1>9 DEF ShapeIn, LevelsIn
<1>14. ASSUME NEW l \in 1..R
       PROVE  ChildFor(h[Owner(h, k, l)], k) = Owner(h, k, l - 1)
  <2> DEFINE p == Owner(h, k, l)
             c == ChildFor(h[p], k)
  <2>1. l \in 0..R /\ l # 0 /\ l - 1 \in 0..R
    BY <1>2
  <2>2. p \in DOMAIN h /\ ~h[p].leaf /\ k \in TerritoryIn(h, p) /\ p[1] = l
    BY <1>9, <1>13, <2>1
  <2> HIDE DEF p
  <2>3. c \in DOMAIN h /\ c[1] = l - 1 /\ k \in TerritoryIn(h, c)
    BY <1>4, <2>2
  <2> HIDE DEF c
  <2>4. c = Owner(h, k, l - 1)
    BY <1>10, <2>1, <2>3
  <2> QED
    BY <2>4 DEF c, p
<1> QED
  BY <1>1, <1>2, <1>9, <1>10, <1>12, <1>13, <1>14

-----------------------------------------------------------------------------
(* The value of a key on a level. *)

EntryOf(h, k) == h[Owner(h, k, 0)].kv[k]
MsgsAt(h, k, l) == h[Owner(h, k, l)].buffer[k]

Vals(h, r, k) ==
  LET v[l \in 0..r[1]] ==
        IF l = 0 THEN EntryOf(h, k) ELSE After(MsgsAt(h, k, l), v[l-1])
  IN  v

(* What a level holds of a key. *)
LEMMA PileTypes ==
  ASSUME NEW h, NEW r, ShapeIn(h, r), NEW k \in Key
  PROVE  /\ EntryOf(h, k) \in Opt
         /\ \A l \in 1..r[1] : MsgsAt(h, k, l) \in Seq(Msg)
<1>1. \A a \in DOMAIN h : h[a] \in LeafNode \cup InternalNode
  BY DEF ShapeIn, HeapOK
<1>2. r[1] \in Nat /\ \A l \in 0..r[1] : /\ Owner(h, k, l) \in DOMAIN h
                                         /\ h[Owner(h, k, l)].leaf <=> l = 0
  BY Owners
<1>3. EntryOf(h, k) \in Opt
  <2> DEFINE a == Owner(h, k, 0)
  <2>1. 0 \in 0..r[1]
    BY <1>2
  <2>2. a \in DOMAIN h /\ h[a].leaf
    BY <1>2, <2>1
  <2> HIDE DEF a
  <2>3. h[a] \in LeafNode
    BY <1>1, <2>2, NodeKinds
  <2> QED
    BY <2>3 DEF LeafNode, EntryOf, a
<1>4. ASSUME NEW l \in 1..r[1] PROVE MsgsAt(h, k, l) \in Seq(Msg)
  <2> DEFINE a == Owner(h, k, l)
  <2>1. l \in 0..r[1] /\ l # 0
    BY <1>2
  <2>2. a \in DOMAIN h /\ ~h[a].leaf
    BY <1>2, <2>1
  <2> HIDE DEF a
  <2>3. h[a] \in InternalNode
    BY <1>1, <2>2, NodeKinds
  <2> QED
    BY <2>3 DEF InternalNode, MsgsAt, a
<1> QED
  BY <1>3, <1>4

(* Vals is the sequence of values its recursion describes, and no other. *)
LEMMA ValsProperties ==
  ASSUME NEW h, NEW r, ShapeIn(h, r), NEW k \in Key
  PROVE  /\ Vals(h, r, k) \in [0..r[1] -> Opt]
         /\ Vals(h, r, k)[0] = EntryOf(h, k)
         /\ \A l \in 1..r[1] :
              Vals(h, r, k)[l] = After(MsgsAt(h, k, l), Vals(h, r, k)[l-1])
<1> DEFINE R == r[1]
           e == EntryOf(h, k)
           m(l) == MsgsAt(h, k, l)
           E(x) == [l \in 0..R |-> IF l = 0 THEN e ELSE After(m(l), x[l-1])]
           g == [l \in 1..R |-> [x \in Opt |-> After(m(l), x)]]
           v == Vals(h, r, k)
<1>1. R \in Nat
  BY Owners
<1>2. e \in Opt /\ \A l \in 1..R : m(l) \in Seq(Msg)
  BY PileTypes
<1>3. v = CHOOSE x : x = E(x)
  BY DEF Vals
<1> HIDE DEF R, e, m, v
<1>4. \A l \in 1..R, x \in Opt : After(m(l), x) \in Opt
  BY <1>2, AfterType
<1>5. g \in [1..R -> [Opt -> Opt]]
  BY <1>4
<1>6. PICK c \in [0..R -> Opt] : c[0] = e /\ \A l \in 1..R : c[l] = g[l][c[l-1]]
  <2> HIDE DEF g
  <2> QED
    BY ONLY <1>1, <1>2, <1>5, RecursionExists
<1>7. \A l \in 1..R : l - 1 \in 0..R /\ l \in 0..R
  BY <1>1
<1>8. \A l \in 1..R : c[l] = After(m(l), c[l-1])
  BY <1>6, <1>7
<1>9. c = E(c)
  BY <1>1, <1>6, <1>8, SMT
<1>10. v = E(v)
  <2> HIDE DEF E
  <2> QED
    BY <1>3, <1>9
<1>11. v[0] = e /\ \A l \in 1..R : v[l] = After(m(l), v[l-1])
  BY <1>1, <1>10, SMT
<1> DEFINE T == {l \in Nat : l <= R => v[l] = c[l]}
<1>12. 0 \in T
  BY <1>6, <1>11
<1>13. ASSUME NEW l \in Nat, l \in T PROVE l + 1 \in T
  <2> SUFFICES ASSUME l + 1 <= R PROVE v[l + 1] = c[l + 1]
    OBVIOUS
  <2>1. l + 1 \in 1..R /\ (l + 1) - 1 = l /\ v[l] = c[l]
    BY <1>1, <1>13
  <2> QED
    BY <1>8, <1>11, <2>1
<1>14. Nat \subseteq T
  <2> HIDE DEF T
  <2> QED
    BY <1>12, <1>13, InductionOnNat
<1>15. \A l \in 0..R : v[l] \in Opt
  BY <1>1, <1>6, <1>14, SMT
<1>16. v \in [0..R -> Opt]
  BY <1>10, <1>15
<1> QED
  BY <1>11, <1>16 DEF v, R, e, m

-----------------------------------------------------------------------------
(* Get. *)

Stop(msgs) == Max({0} \cup {i \in DOMAIN msgs : msgs[i].kind # "ups"})

(* What getWithUpserts makes of a node's messages if the child returns x. *)
ReadBack(msgs, x) ==
  applyUpsertChain(SubSeq(msgs, Stop(msgs) + 1, Len(msgs)),
                   IF Stop(msgs) = 0 THEN x ELSE Apply(msgs[Stop(msgs)], Absent))

(* getFromNode in a heap h with root r. *)
GetIn(h, r, k) ==
  LET get[n \in DOMAIN h] ==
        IF h[n].leaf THEN h[n].kv[k]
        ELSE ReadBack(h[n].buffer[k], get[ChildFor(h[n], k)])
  IN  get[r]

(***************************************************************************)
(* GetIn says of any heap what getFromNode says of the heap of the tree.   *)
(***************************************************************************)
LEMMA GetOfHeap == \A k : getFromNode(k) = GetIn(heap, root, k)
  BY DEF getFromNode, GetIn, ReadBack, Stop

(* Both directions give the same value. *)
LEMMA ReadBackIsAfter ==
  ASSUME NEW msgs \in Seq(Msg), NEW x \in Opt
  PROVE  ReadBack(msgs, x) = After(msgs, x)
<1> DEFINE stop == Stop(msgs)
<1>1. stop \in 0..Len(msgs) /\ (stop # 0 => msgs[stop].kind # "ups")
  BY StopsAt DEF Stop
<1> HIDE DEF stop
<1>2. After(SubSeq(msgs, stop + 1, Len(msgs)),
            IF stop = 0 THEN x ELSE Apply(msgs[stop], Absent)) = After(msgs, x)
  BY <1>1, NewestFirst
<1>3. (IF stop = 0 THEN x ELSE Apply(msgs[stop], Absent)) \in Opt
  <2>1. stop # 0 => stop \in 1..Len(msgs)
    BY <1>1
  <2>2. stop # 0 => msgs[stop] \in FoldedMsg
    BY <2>1, ElementOfSeq, MsgIsFolded
  <2> QED
    BY <2>2, ApplyType DEF Opt
<1> QED
  BY <1>2, <1>3, AfterNone DEF ReadBack, applyUpsertChain, stop

(* The child a key is routed to is a node of the level below, whether the  *)
(* key is one of the node's or not.                                        *)
LEMMA ChildBelow ==
  ASSUME NEW h, NEW r, ShapeIn(h, r), NEW a \in DOMAIN h, ~h[a].leaf, NEW k \in Key
  PROVE  /\ ChildFor(h[a], k) \in DOMAIN h
         /\ ChildFor(h[a], k)[1] = a[1] - 1
<1> DEFINE i == findChildIndex(h[a], k)
<1>1. h[a].pivots \in Seq(Key)
  BY NodeShape
<1>2. i \in 1..Len(h[a].pivots)+1
  BY <1>1, ChildIndex
<1> HIDE DEF i
<1>3. h[a].children[i] = <<a[1] - 1, LowIn(h, a, i)>> /\ h[a].children[i] \in DOMAIN h
  BY <1>2, NodeShape
<1> QED
  BY <1>3 DEF ChildFor, i

(* Get returns the value on the root's level. *)
LEMMA GetIsVal ==
  ASSUME NEW h, NEW r, ShapeIn(h, r), NEW k \in Key
  PROVE  GetIn(h, r, k) = Vals(h, r, k)[r[1]]
<1> DEFINE D == DOMAIN h
           R == r[1]
           child(n) == ChildFor(h[n], k)
           msgs(n) == h[n].buffer[k]
           E(x) == [n \in D |-> IF h[n].leaf THEN h[n].kv[k]
                                ELSE ReadBack(msgs(n), x[child(n)])]
           lev == [a \in D |-> a[1]]
           step == [n \in D |-> [F \in [D -> Opt] |->
                     IF h[n].leaf THEN h[n].kv[k] ELSE After(msgs(n), F[child(n)])]]
           get == CHOOSE x : x = E(x)
           v == Vals(h, r, k)
<1>1. GetIn(h, r, k) = get[r]
  BY DEF GetIn
<1>2. R \in Nat /\ lev \in [D -> Nat] /\ \A a \in D : lev[a] = a[1] /\ lev[a] <= R
  <2>1. \A a \in D : a \in Addr /\ a[1] <= R
    BY DEF ShapeIn, HeapOK, LevelsIn
  <2>2. \A a \in D : a[1] \in Nat
    BY <2>1 DEF Addr
  <2>3. R \in Nat
    BY Owners
  <2> QED
    BY <2>1, <2>2, <2>3
<1>3. \A n \in D : h[n].leaf => h[n].kv[k] \in Opt
  <2>1. \A n \in D : h[n].leaf => h[n] \in LeafNode
    BY NodeKinds DEF ShapeIn, HeapOK
  <2> QED
    BY <2>1 DEF LeafNode
<1>4. \A n \in D : ~h[n].leaf => msgs(n) \in Seq(Msg)
  <2>1. \A n \in D : ~h[n].leaf => h[n] \in InternalNode
    BY NodeShape
  <2> QED
    BY <2>1 DEF InternalNode
<1>5. \A n \in D : ~h[n].leaf => child(n) \in D /\ child(n)[1] = n[1] - 1
  BY ChildBelow
<1> HIDE DEF lev, v, get, child, msgs
<1>6. step \in [D -> [[D -> Opt] -> Opt]]
  <2> SUFFICES ASSUME NEW n \in D, NEW F \in [D -> Opt]
               PROVE (IF h[n].leaf THEN h[n].kv[k] ELSE After(msgs(n), F[child(n)])) \in Opt
    OBVIOUS
  <2>1. CASE h[n].leaf
    BY <1>3, <2>1
  <2>2. CASE ~h[n].leaf
    <3>1. msgs(n) \in Seq(Msg) /\ F[child(n)] \in Opt
      BY <1>4, <1>5, <2>2
    <3> QED
      BY <2>2, <3>1, AfterType
  <2> QED
    BY <2>1, <2>2
<1>7. \A n \in D, F \in [D -> Opt] :
        step[n][F] = IF h[n].leaf THEN h[n].kv[k] ELSE After(msgs(n), F[child(n)])
  OBVIOUS
<1> HIDE DEF step
<1>8. \A a \in D : \A F, G \in [D -> Opt] :
        (\A b \in D : lev[b] < lev[a] => F[b] = G[b]) => step[a][F] = step[a][G]
  <2> SUFFICES ASSUME NEW a \in D, NEW F \in [D -> Opt], NEW G \in [D -> Opt],
                      \A b \in D : lev[b] < lev[a] => F[b] = G[b]
               PROVE  step[a][F] = step[a][G]
    OBVIOUS
  <2>1. ~h[a].leaf => child(a) \in D /\ lev[child(a)] < lev[a]
    BY <1>2, <1>5
  <2> QED
    BY <1>7, <2>1
<1>9. Absent \in Opt
  BY DEF Opt
<1>10. \E f \in [D -> Opt] : \A a \in D : f[a] = step[a][f]
  <2> HIDE DEF R, D
  <2>1. LevelStep(D, lev, R, Opt, step)
    BY <1>2, <1>6, <1>8 DEF LevelStep
  <2> QED
    BY <1>2, <1>9, <2>1, LevelRecursion
<1>11. PICK f \in [D -> Opt] : \A a \in D : f[a] = step[a][f]
  BY <1>10
<1>12. f = E(f)
  <2>1. \A n \in D : f[n] = IF h[n].leaf THEN h[n].kv[k] ELSE After(msgs(n), f[child(n)])
    BY <1>7, <1>11
  <2>2. \A n \in D : ~h[n].leaf => ReadBack(msgs(n), f[child(n)]) = After(msgs(n), f[child(n)])
    BY <1>4, <1>5, ReadBackIsAfter
  <2> QED
    BY <2>1, <2>2
<1>13. get = E(get)
  <2> HIDE DEF E
  <2> QED
    BY <1>12 DEF get
<1>14. \A n \in D : get[n] = IF h[n].leaf THEN h[n].kv[k]
                            ELSE ReadBack(msgs(n), get[child(n)])
  BY <1>13
<1>15. /\ v \in [0..R -> Opt] /\ v[0] = EntryOf(h, k)
       /\ \A l \in 1..R : v[l] = After(MsgsAt(h, k, l), v[l-1])
  BY ValsProperties DEF v
<1> DEFINE T == {l \in Nat : l <= R => get[Owner(h, k, l)] = v[l]}
<1>16. 0 \in T
  <2> DEFINE a == Owner(h, k, 0)
  <2>1. a \in D /\ h[a].leaf
    BY <1>2, Owners
  <2>2. EntryOf(h, k) = h[a].kv[k]
    BY DEF EntryOf
  <2> HIDE DEF a
  <2>3. get[a] = v[0]
    BY <1>14, <1>15, <2>1, <2>2
  <2> QED
    BY <2>3 DEF a
<1>17. ASSUME NEW l \in Nat, l \in T PROVE l + 1 \in T
  <2> SUFFICES ASSUME l + 1 <= R PROVE get[Owner(h, k, l + 1)] = v[l + 1]
    OBVIOUS
  <2> DEFINE j == l + 1
             a == Owner(h, k, j)
             b == Owner(h, k, l)
  <2>1. j \in 1..R /\ j \in 0..R /\ j # 0 /\ j - 1 = l /\ l <= R /\ l \in 0..R
    BY <1>2
  <2>2. a \in D /\ ~h[a].leaf /\ ChildFor(h[a], k) = b
    <3> HIDE DEF j
    <3> QED
      BY <2>1, Owners
  <2>3. MsgsAt(h, k, j) = msgs(a)
    BY DEF MsgsAt, msgs
  <2>4. get[b] = v[l] /\ v[l] \in Opt
    BY <1>15, <1>17, <2>1
  <2>5. v[j] = After(MsgsAt(h, k, j), v[l])
    BY <1>15, <2>1
  <2> HIDE DEF a, b, j
  <2>6. child(a) = b
    BY <2>2 DEF child
  <2>7. get[a] = ReadBack(msgs(a), v[l])
    BY <1>14, <2>2, <2>4, <2>6
  <2>8. msgs(a) \in Seq(Msg)
    BY <1>4, <2>2
  <2>9. get[a] = After(msgs(a), v[l])
    BY <2>4, <2>7, <2>8, ReadBackIsAfter
  <2>10. get[a] = v[j]
    BY <2>3, <2>5, <2>9
  <2> QED
    BY <2>10 DEF a, j
<1>18. R \in T
  <2> HIDE DEF T
  <2>1. Nat \subseteq T
    BY <1>16, <1>17, InductionOnNat
  <2> QED
    BY <1>2, <2>1
<1>19. Owner(h, k, R) = r
  BY Owners
<1> QED
  BY <1>1, <1>2, <1>18, <1>19 DEF v

-----------------------------------------------------------------------------
(* Scans. *)

(* resolveKeyEntries in a heap h. *)
ResolveIn(h, visited, k, top) ==
  LET holds(l) == {n \in visited : n[1] = l /\
                     (h[n].kv[k] # Absent \/ h[n].buffer[k] # <<>>)}
      up[l \in -1..top] ==
        IF l = -1 THEN Absent
        ELSE IF holds(l) = {} THEN up[l-1]
        ELSE LET n == CHOOSE x \in holds(l) : TRUE
             IN  IF h[n].leaf THEN h[n].kv[k]
                 ELSE After(h[n].buffer[k], up[l-1])
  IN  up[top]

(***************************************************************************)
(* ResolveIn says of any heap what resolveKeyEntries says of the heap of   *)
(* the tree.                                                               *)
(***************************************************************************)
LEMMA ResolveOfHeap ==
  \A visited, k, top :
    resolveKeyEntries(visited, k, top) = ResolveIn(heap, visited, k, top)
  BY DEF resolveKeyEntries, ResolveIn

(***************************************************************************)
(* A scan that visits the owners of a key folds its entries, from the      *)
(* deepest to the shallowest, to the value on the level it stops at.       *)
(***************************************************************************)
LEMMA ResolveIsVal ==
  ASSUME NEW h, NEW r, ShapeIn(h, r), NEW k \in Key, NEW top \in 0..r[1],
         NEW visited, visited \subseteq DOMAIN h,
         \A l \in 0..r[1] : Owner(h, k, l) \in visited
  PROVE  ResolveIn(h, visited, k, top) = Vals(h, r, k)[top]
<1> DEFINE R == r[1]
           holds(l) == {n \in visited : n[1] = l /\
                          (h[n].kv[k] # Absent \/ h[n].buffer[k] # <<>>)}
           pick(l) == CHOOSE x \in holds(l) : TRUE
           own(l) == Owner(h, k, l)
           E(x) == [l \in -1..top |->
                      IF l = -1 THEN Absent
                      ELSE IF holds(l) = {} THEN x[l-1]
                      ELSE IF h[pick(l)].leaf THEN h[pick(l)].kv[k]
                      ELSE After(h[pick(l)].buffer[k], x[l-1])]
           up == CHOOSE x : x = E(x)
           v == Vals(h, r, k)
           c == [l \in -1..top |-> IF l = -1 THEN Absent ELSE v[l]]
<1>1. ResolveIn(h, visited, k, top) = up[top]
  BY DEF ResolveIn
<1>2. R \in Nat /\ top \in Nat /\ top <= R
  BY Owners
<1>3. \A l \in 0..R :
        /\ own(l) \in DOMAIN h /\ own(l) \in visited /\ own(l)[1] = l
        /\ h[own(l)].leaf <=> l = 0
        /\ \A a \in DOMAIN h : a[1] = l /\ k \in TerritoryIn(h, a) => a = own(l)
  BY Owners
<1>4. /\ v \in [0..R -> Opt] /\ v[0] = h[own(0)].kv[k]
      /\ \A l \in 1..R : v[l] = After(h[own(l)].buffer[k], v[l-1])
  BY ValsProperties DEF EntryOf, MsgsAt
<1>5. \A a \in DOMAIN h : h[a].kv[k] # Absent \/ h[a].buffer[k] # <<>>
                           => k \in TerritoryIn(h, a)
  BY DEF ShapeIn, RoutedIn
<1> HIDE DEF own, v, R
<1>6. \A l \in 0..R : \A n \in holds(l) : n = own(l)
  <2> SUFFICES ASSUME NEW l \in 0..R, NEW n \in holds(l) PROVE n = own(l)
    OBVIOUS
  <2>1. n \in DOMAIN h /\ n[1] = l /\ k \in TerritoryIn(h, n)
    BY <1>5
  <2> QED
    BY <1>3, <2>1
<1>7. \A l \in 0..R : holds(l) = {} => h[own(l)].kv[k] = Absent /\ h[own(l)].buffer[k] = <<>>
  BY <1>3
<1> HIDE DEF holds
<1>8. \A l \in 0..R : holds(l) # {} => pick(l) = own(l)
  BY <1>6
<1> HIDE DEF pick
<1>9. \A x : \A l \in 0..top :
        E(x)[l] = IF l = 0 THEN IF holds(0) = {} THEN x[-1] ELSE v[0]
                  ELSE IF holds(l) = {} THEN x[l-1]
                  ELSE After(h[own(l)].buffer[k], x[l-1])
  <2> SUFFICES ASSUME NEW x, NEW l \in 0..top
               PROVE  E(x)[l] = IF l = 0 THEN IF holds(0) = {} THEN x[-1] ELSE v[0]
                                ELSE IF holds(l) = {} THEN x[l-1]
                                ELSE After(h[own(l)].buffer[k], x[l-1])
    OBVIOUS
  <2>1. l \in 0..R /\ l \in -1..top /\ l # -1 /\ 0 - 1 = -1
    BY <1>2
  <2>2. E(x)[l] = IF holds(l) = {} THEN x[l-1]
                  ELSE IF h[pick(l)].leaf THEN h[pick(l)].kv[k]
                  ELSE After(h[pick(l)].buffer[k], x[l-1])
    BY <2>1
  <2> HIDE DEF E
  <2>3. CASE holds(l) = {}
    BY <2>1, <2>2, <2>3
  <2>4. CASE holds(l) # {}
    <3>1. pick(l) = own(l) /\ (h[own(l)].leaf <=> l = 0)
      BY <1>3, <1>8, <2>1, <2>4
    <3> QED
      BY <1>4, <2>2, <2>4, <3>1
  <2> QED
    BY <2>3, <2>4
<1>10. \A x : E(x)[-1] = Absent /\ DOMAIN E(x) = -1..top
  BY <1>2
<1>11. \A l \in 0..top : l \in 0..R /\ v[l] \in Opt /\ (l # 0 => l \in 1..R /\ l - 1 \in 0..R)
  BY <1>2, <1>4
<1>12. holds(0) = {} => v[0] = Absent
  <2>1. 0 \in 0..R
    BY <1>2
  <2> QED
    BY <1>4, <1>7, <2>1
<1>13. \A l \in 1..top : holds(l) = {} => v[l] = v[l-1]
  <2> SUFFICES ASSUME NEW l \in 1..top, holds(l) = {} PROVE v[l] = v[l-1]
    OBVIOUS
  <2>1. l \in 1..R /\ l \in 0..R /\ l - 1 \in 0..R
    BY <1>2
  <2>2. v[l-1] \in Opt /\ v[l] = After(<<>>, v[l-1])
    BY <1>4, <1>7, <2>1
  <2> QED
    BY <2>2, AfterNone
<1>14. \A l \in 1..top : v[l] = After(h[own(l)].buffer[k], v[l-1])
  BY <1>2, <1>4
<1>15. c = E(c)
  <2>1. DOMAIN c = -1..top /\ c[-1] = Absent /\ \A l \in 0..top : c[l] = v[l]
    BY <1>2
  <2>2. c = [l \in -1..top |-> c[l]]
    OBVIOUS
  <2> HIDE DEF c
  <2>3. ASSUME NEW l \in 0..top PROVE E(c)[l] = v[l]
    <3>1. CASE l = 0
      BY <1>9, <1>12, <2>1, <3>1
    <3>2. CASE l # 0
      <4>1. l \in 1..top /\ l - 1 \in 0..top
        BY <1>2, <3>2
      <4>2. c[l-1] = v[l-1]
        BY <2>1, <4>1
      <4>3. E(c)[l] = IF holds(l) = {} THEN c[l-1]
                      ELSE After(h[own(l)].buffer[k], c[l-1])
        <5> HIDE DEF E
        <5> QED
          BY <1>9, <3>2
      <4> HIDE DEF E
      <4>4. E(c)[l] = IF holds(l) = {} THEN v[l-1]
                      ELSE After(h[own(l)].buffer[k], v[l-1])
        BY <4>2, <4>3
      <4> QED
        BY <1>13, <1>14, <4>1, <4>4
    <3> QED
      BY <3>1, <3>2
  <2>4. \A l \in -1..top : l = -1 \/ l \in 0..top
    BY <1>2
  <2>5. \A l \in -1..top : E(c)[l] = c[l]
    BY <1>10, <2>1, <2>3, <2>4
  <2>6. E(c) = [l \in -1..top |-> E(c)[l]]
    OBVIOUS
  <2> HIDE DEF E
  <2> QED
    BY <2>2, <2>5, <2>6
<1>16. up = E(up)
  <2> HIDE DEF E, c
  <2> QED
    BY <1>15
<1> HIDE DEF up
<1>17. up[-1] = Absent /\ \A l \in 0..top :
        up[l] = IF l = 0 THEN IF holds(0) = {} THEN up[-1] ELSE v[0]
                ELSE IF holds(l) = {} THEN up[l-1]
                ELSE After(h[own(l)].buffer[k], up[l-1])
  <2> HIDE DEF E
  <2> QED
    BY <1>9, <1>10, <1>16
<1> DEFINE T == {l \in Nat : l <= top => up[l] = v[l]}
<1>18. 0 \in T
  <2>1. 0 \in 0..top
    BY <1>2
  <2> QED
    BY <1>12, <1>17, <2>1
<1>19. ASSUME NEW l \in Nat, l \in T PROVE l + 1 \in T
  <2> SUFFICES ASSUME l + 1 <= top PROVE up[l + 1] = v[l + 1]
    OBVIOUS
  <2>1. l + 1 \in 1..top /\ l + 1 \in 0..top /\ l + 1 # 0 /\ (l + 1) - 1 = l /\ up[l] = v[l]
    BY <1>2, <1>19
  <2> QED
    BY <1>13, <1>14, <1>17, <2>1
<1>20. top \in T
  <2> HIDE DEF T
  <2>1. Nat \subseteq T
    BY <1>18, <1>19, InductionOnNat
  <2> QED
    BY <1>2, <2>1
<1> QED
  BY <1>1, <1>2, <1>20 DEF v

(* A greater key is not routed further to the left. *)
LEMMA ChildIndexMonotonic ==
  ASSUME NEW n, n.pivots \in Seq(Key), NEW x \in Nat, NEW y \in Nat, x <= y
  PROVE  findChildIndex(n, x) <= findChildIndex(n, y)
<1> DEFINE i == findChildIndex(n, x)
           j == findChildIndex(n, y)
           m == Len(n.pivots)
<1>1. m \in Nat /\ \A l \in 1..m : n.pivots[l] \in Nat
  BY LenProperties, ElementOfSeq, ConstantsAssumption
<1>2. i \in 1..m+1 /\ \A l \in 1..i-1 : n.pivots[l] <= x
  BY BoundIndex
<1>3. j \in 1..m+1 /\ (j <= m => y < n.pivots[j])
  BY BoundIndex
<1> HIDE DEF i, j, m
<1>4. ~(j < i)
  <2> SUFFICES ASSUME j < i PROVE FALSE
    OBVIOUS
  <2>1. j \in 1..i-1 /\ j \in 1..m /\ j <= m
    BY <1>1, <1>2, <1>3
  <2>2. n.pivots[j] <= x /\ y < n.pivots[j] /\ n.pivots[j] \in Nat
    BY <1>1, <1>2, <1>3, <2>1
  <2> QED
    BY <2>2
<1>5. i <= j
  BY <1>1, <1>2, <1>3, <1>4
<1> QED
  BY <1>5 DEF i, j

(* collectRange in a heap h with root r. *)
CollectIn(h, r, lo, hi) ==
  LET visit[n \in DOMAIN h] ==
        IF h[n].leaf THEN {n}
        ELSE {n} \cup UNION {visit[h[n].children[i]] : i \in childrenIn(h[n], lo, hi)}
  IN  visit[r]

(***************************************************************************)
(* CollectIn says of any heap what collectRange says of the heap of the    *)
(* tree.                                                                   *)
(***************************************************************************)
LEMMA CollectOfHeap == \A lo, hi : collectRange(lo, hi) = CollectIn(heap, root, lo, hi)
  BY DEF collectRange, CollectIn

(* collectRange visits nodes of the tree, and all owners of the keys from  *)
(* lo to hi.                                                               *)
LEMMA RangeVisitsOwners ==
  ASSUME NEW h, NEW r, ShapeIn(h, r), NEW lo \in Nat, NEW hi \in Nat, lo <= hi
  PROVE  /\ CollectIn(h, r, lo, hi) \subseteq DOMAIN h
         /\ \A k \in Key : lo <= k /\ k <= hi =>
              \A l \in 0..r[1] : Owner(h, k, l) \in CollectIn(h, r, lo, hi)
<1> DEFINE D == DOMAIN h
           S == SUBSET D
           R == r[1]
           in(n) == childrenIn(h[n], lo, hi)
           ch(n, i) == h[n].children[i]
           E(x) == [n \in D |-> IF h[n].leaf THEN {n}
                                ELSE {n} \cup UNION {x[ch(n, i)] : i \in in(n)}]
           lev == [a \in D |-> a[1]]
           step == [n \in D |-> [F \in [D -> S] |->
                      IF h[n].leaf THEN {n}
                      ELSE {n} \cup UNION {F[ch(n, i)] : i \in in(n)}]]
           visit == CHOOSE x : x = E(x)
<1>1. CollectIn(h, r, lo, hi) = visit[r]
  BY DEF CollectIn
<1>2. R \in Nat /\ r \in D
  <2>1. r \in D /\ r \in Addr
    BY DEF ShapeIn, HeapOK, LevelsIn
  <2> QED
    BY <2>1 DEF Addr
<1>3. lev \in [D -> Nat] /\ \A a \in D : lev[a] = a[1] /\ lev[a] <= R /\ a[1] \in Nat
  <2>1. \A a \in D : a \in Addr /\ a[1] <= R
    BY DEF ShapeIn, HeapOK, LevelsIn
  <2>2. \A a \in D : a[1] \in Nat
    BY <2>1 DEF Addr
  <2> QED
    BY <2>1, <2>2
<1>4. ASSUME NEW n \in D, ~h[n].leaf
      PROVE  \A i \in in(n) : ch(n, i) \in D /\ ch(n, i)[1] = n[1] - 1
  <2> DEFINE m == Len(h[n].pivots)
             a == findChildIndex(h[n], lo)
             b == findChildIndex(h[n], hi)
  <2>1. h[n].pivots \in Seq(Key) /\ m \in Nat
    BY <1>4, NodeShape
  <2>2. a \in 1..m+1 /\ b \in 1..m+1 /\ in(n) = a..b
    BY <2>1, BoundIndex DEF childrenIn
  <2> HIDE DEF a, b
  <2>3. \A i \in in(n) : i \in 1..m+1
    BY <2>1, <2>2
  <2>4. \A i \in 1..m+1 : h[n].children[i] = <<n[1] - 1, LowIn(h, n, i)>>
                          /\ h[n].children[i] \in D
    BY <1>4, NodeShape
  <2> QED
    BY <2>3, <2>4
<1>5. ASSUME NEW n \in D, ~h[n].leaf, NEW k \in Key, lo <= k, k <= hi
      PROVE  findChildIndex(h[n], k) \in in(n)
  <2>1. h[n].pivots \in Seq(Key) /\ Len(h[n].pivots) \in Nat /\ k \in Nat
    BY <1>5, NodeShape, ConstantsAssumption
  <2>2. /\ findChildIndex(h[n], lo) <= findChildIndex(h[n], k)
        /\ findChildIndex(h[n], k) <= findChildIndex(h[n], hi)
    BY <1>5, <2>1, ChildIndexMonotonic
  <2>3. /\ findChildIndex(h[n], lo) \in 1..Len(h[n].pivots)+1
        /\ findChildIndex(h[n], k) \in 1..Len(h[n].pivots)+1
        /\ findChildIndex(h[n], hi) \in 1..Len(h[n].pivots)+1
    BY <2>1, BoundIndex
  <2> QED
    BY <2>1, <2>2, <2>3 DEF childrenIn
<1>6. \A n, k : ChildFor(h[n], k) = ch(n, findChildIndex(h[n], k))
  BY DEF ChildFor
<1> HIDE DEF lev, in, ch
<1>7. \A n \in D, F \in [D -> S] :
        step[n][F] = IF h[n].leaf THEN {n}
                     ELSE {n} \cup UNION {F[ch(n, i)] : i \in in(n)}
  OBVIOUS
<1>8. step \in [D -> [[D -> S] -> S]]
  <2> SUFFICES ASSUME NEW n \in D, NEW F \in [D -> S]
               PROVE (IF h[n].leaf THEN {n}
                      ELSE {n} \cup UNION {F[ch(n, i)] : i \in in(n)}) \in S
    OBVIOUS
  <2>1. CASE h[n].leaf
    BY <2>1
  <2>2. CASE ~h[n].leaf
    <3>1. \A i \in in(n) : F[ch(n, i)] \subseteq D
      BY <1>4, <2>2
    <3> QED
      BY <2>2, <3>1
  <2> QED
    BY <2>1, <2>2
<1> HIDE DEF step
<1>9. \A a \in D : \A F, G \in [D -> S] :
        (\A b \in D : lev[b] < lev[a] => F[b] = G[b]) => step[a][F] = step[a][G]
  <2> SUFFICES ASSUME NEW a \in D, NEW F \in [D -> S], NEW G \in [D -> S],
                      \A b \in D : lev[b] < lev[a] => F[b] = G[b]
               PROVE  step[a][F] = step[a][G]
    OBVIOUS
  <2>1. CASE h[a].leaf
    BY <1>7, <2>1
  <2>2. CASE ~h[a].leaf
    <3>1. \A i \in in(a) : ch(a, i) \in D /\ lev[ch(a, i)] < lev[a]
      BY <1>3, <1>4, <2>2
    <3>2. \A i \in in(a) : F[ch(a, i)] = G[ch(a, i)]
      BY <3>1
    <3>3. UNION {F[ch(a, i)] : i \in in(a)} = UNION {G[ch(a, i)] : i \in in(a)}
      BY <3>2
    <3> QED
      BY <1>7, <2>2, <3>3
  <2> QED
    BY <2>1, <2>2
<1>10. LevelStep(D, lev, R, S, step)
  BY <1>3, <1>8, <1>9 DEF LevelStep
<1>11. D \in S
  OBVIOUS
<1> HIDE DEF D, S
<1>12. PICK f \in [D -> S] : \A a \in D : f[a] = step[a][f]
  <2> HIDE DEF R
  <2> QED
    BY <1>2, <1>10, <1>11, LevelRecursion
<1>13. \A n \in D : f[n] = IF h[n].leaf THEN {n}
                           ELSE {n} \cup UNION {f[ch(n, i)] : i \in in(n)}
  BY <1>7, <1>12
<1>14. f = E(f)
  BY <1>13
<1>15. visit = E(visit)
  <2> HIDE DEF E
  <2> QED
    BY <1>14
<1> HIDE DEF visit
<1>16. \A n \in D : visit[n] = IF h[n].leaf THEN {n}
                              ELSE {n} \cup UNION {visit[ch(n, i)] : i \in in(n)}
  BY <1>15
<1> HIDE DEF E
<1> DEFINE T == {j \in Nat : \A n \in D : n[1] = j => visit[n] = f[n]}
<1>17. 0 \in T
  <2>1. \A n \in D : n[1] = 0 => h[n].leaf
    BY DEF ShapeIn, LevelsIn, D
  <2> QED
    BY <1>13, <1>16, <2>1
<1>18. ASSUME NEW j \in Nat, j \in T PROVE j + 1 \in T
  <2> SUFFICES ASSUME NEW n \in D, n[1] = j + 1 PROVE visit[n] = f[n]
    OBVIOUS
  <2>1. ~h[n].leaf
    BY DEF ShapeIn, LevelsIn, D
  <2>2. \A i \in in(n) : ch(n, i) \in D /\ ch(n, i)[1] = j
    BY <1>4, <2>1
  <2>3. \A i \in in(n) : visit[ch(n, i)] = f[ch(n, i)]
    BY <1>18, <2>2
  <2>4. UNION {visit[ch(n, i)] : i \in in(n)} = UNION {f[ch(n, i)] : i \in in(n)}
    BY <2>3
  <2> QED
    BY <1>13, <1>16, <2>1, <2>4
<1>19. Nat \subseteq T
  <2> HIDE DEF T
  <2> QED
    BY <1>17, <1>18, InductionOnNat
<1>20. \A n \in D : visit[n] = f[n]
  BY <1>3, <1>19
<1>21. visit[r] \subseteq D
  BY <1>2, <1>20 DEF S
<1> HIDE DEF T
<1>22. ASSUME NEW k \in Key, lo <= k, k <= hi, NEW l \in 0..R
       PROVE  Owner(h, k, l) \in visit[r]
  <2> DEFINE own(j) == Owner(h, k, j)
             U == {j \in Nat : j <= R => visit[own(R - j)] \subseteq visit[r]}
  <2>1. /\ own(R) = r
        /\ \A j \in 0..R : own(j) \in D /\ (h[own(j)].leaf <=> j = 0)
        /\ \A j \in 1..R : ChildFor(h[own(j)], k) = own(j - 1)
    BY Owners DEF D
  <2> HIDE DEF own
  <2>2. 0 \in U
    <3>1. R - 0 = R
      BY <1>2
    <3> QED
      BY <2>1, <3>1
  <2>3. ASSUME NEW j \in Nat, j \in U PROVE j + 1 \in U
    <3> SUFFICES ASSUME j + 1 <= R PROVE visit[own(R - (j + 1))] \subseteq visit[r]
      OBVIOUS
    <3> DEFINE i == R - j
               n == own(i)
               x == findChildIndex(h[n], k)
    <3>1. i \in 1..R /\ i \in 0..R /\ i # 0 /\ i - 1 = R - (j + 1) /\ j <= R
      BY <1>2
    <3>2. n \in D /\ ~h[n].leaf /\ ChildFor(h[n], k) = own(i - 1)
      <4> HIDE DEF i
      <4> QED
        BY <2>1, <3>1
    <3>3. visit[n] \subseteq visit[r]
      BY <2>3, <3>1
    <3> HIDE DEF n, i
    <3>4. x \in in(n) /\ ch(n, x) = own(i - 1)
      BY <1>5, <1>6, <1>22, <3>2
    <3> HIDE DEF x
    <3>5. visit[own(i - 1)] \subseteq visit[n]
      <4>1. visit[ch(n, x)] \in {visit[ch(n, y)] : y \in in(n)}
        BY <3>4
      <4> QED
        BY <1>16, <3>2, <3>4, <4>1
    <3> QED
      BY <3>1, <3>3, <3>5
  <2>4. Nat \subseteq U
    <3> HIDE DEF U
    <3> QED
      BY <2>2, <2>3, InductionOnNat
  <2>5. R - l \in Nat /\ R - l <= R /\ R - (R - l) = l
    BY <1>2
  <2>6. visit[own(l)] \subseteq visit[r]
    BY <2>4, <2>5
  <2>7. own(l) \in visit[own(l)]
    BY <1>16, <2>1
  <2> QED
    BY <2>6, <2>7 DEF own
<1> QED
  BY <1>1, <1>21, <1>22 DEF D

(* The value Get finds, on the level of the root. *)
LEMMA GetFound ==
  ASSUME Shape, NEW k \in Key
  PROVE  getFromNode(k) = Vals(heap, root, k)[root[1]] /\ getFromNode(k) \in Opt
<1>1. getFromNode(k) = Vals(heap, root, k)[root[1]]
  BY GetOfHeap, GetIsVal DEF Shape
<1>2. root[1] \in Nat
  BY Owners DEF Shape
<1>3. Vals(heap, root, k)[root[1]] \in Opt
  BY <1>2, ValsProperties DEF Shape
<1> QED
  BY <1>1, <1>3

(* The pairs that Get finds for the keys ks. *)
PairsOf(ks) == [k \in {x \in ks : getFromNode(x) # Absent} |-> getFromNode(k)]

(* resolveEntries yields them if all owners of the keys are visited. *)
LEMMA EntriesMatch ==
  ASSUME Shape, NEW visited, visited \subseteq DOMAIN heap, NEW ks, ks \subseteq Key,
         \A k \in ks : \A l \in 0..root[1] : Owner(heap, k, l) \in visited
  PROVE  resolveEntries(visited, ks) = PairsOf(ks)
<1> DEFINE val == [k \in ks |-> resolveKeyEntries(visited, k, root[1])]
<1>1. root[1] \in Nat
  <2>1. root \in Addr
    BY DEF Shape, ShapeIn, HeapOK, LevelsIn
  <2> QED
    BY <2>1 DEF Addr
<1>2. ASSUME NEW k \in ks PROVE val[k] = getFromNode(k)
  <2> DEFINE top == root[1]
  <2>1. top \in 0..root[1] /\ k \in Key /\ \A l \in 0..root[1] : Owner(heap, k, l) \in visited
    BY <1>1
  <2> HIDE DEF top
  <2>2. ResolveIn(heap, visited, k, top) = Vals(heap, root, k)[top]
    BY <2>1, ResolveIsVal DEF Shape
  <2> QED
    BY <2>1, <2>2, ResolveOfHeap, GetFound DEF top
<1>3. resolveEntries(visited, ks) = [k \in {x \in ks : val[x] # Absent} |-> val[k]]
  BY DEF resolveEntries
<1> HIDE DEF val
<1>4. {x \in ks : val[x] # Absent} = {x \in ks : getFromNode(x) # Absent}
  BY <1>2
<1> QED
  BY <1>2, <1>3, <1>4 DEF PairsOf

(* A full scan. *)
LEMMA ScanAll ==
  ASSUME Shape
  PROVE  materializeAll = PairsOf(Key)
<1>1. \A k \in Key : \A l \in 0..root[1] : Owner(heap, k, l) \in DOMAIN heap
  BY Owners DEF Shape
<1> DEFINE D == DOMAIN heap
           ks == Key
<1>2. D \subseteq DOMAIN heap /\ ks \subseteq Key
      /\ \A k \in ks : \A l \in 0..root[1] : Owner(heap, k, l) \in D
  BY <1>1
<1> HIDE DEF D, ks
<1>3. resolveEntries(D, ks) = PairsOf(ks)
  BY <1>2, EntriesMatch
<1> QED
  BY <1>3 DEF materializeAll, collectAll, D, ks

(* A range scan of keys from lo to hi, whichever ends it includes. *)
LEMMA ScanRange ==
  ASSUME Shape, NEW lo \in Nat, NEW hi \in Nat, lo < hi,
         NEW ks, ks \subseteq Key, \A k \in ks : lo <= k /\ k <= hi
  PROVE  resolveEntries(collectRange(lo, hi), ks) = PairsOf(ks)
<1> DEFINE visited == collectRange(lo, hi)
<1>1. visited = CollectIn(heap, root, lo, hi)
  BY CollectOfHeap
<1>2. lo <= hi
  OBVIOUS
<1>3. /\ visited \subseteq DOMAIN heap
      /\ \A k \in Key : lo <= k /\ k <= hi =>
           \A l \in 0..root[1] : Owner(heap, k, l) \in visited
  BY <1>1, <1>2, RangeVisitsOwners DEF Shape
<1> HIDE DEF visited
<1>4. \A k \in ks : \A l \in 0..root[1] : Owner(heap, k, l) \in visited
  BY <1>3
<1>5. resolveEntries(visited, ks) = PairsOf(ks)
  BY <1>3, <1>4, EntriesMatch
<1> QED
  BY <1>5 DEF visited

(* Range and DescendRange. *)
LEMMA RangeMatches ==
  ASSUME Shape, NEW lo \in Nat, NEW hi \in Nat
  PROVE  /\ materializeRange(lo, hi) =
              IF lo < hi THEN PairsOf({k \in Key : lo <= k /\ k < hi}) ELSE <<>>
         /\ materializeDescendRange(hi, lo) =
              IF lo < hi THEN PairsOf({k \in Key : lo < k /\ k <= hi}) ELSE <<>>
<1>1. CASE lo < hi
  <2> DEFINE up == {k \in Key : lo <= k /\ k < hi}
             down == {k \in Key : lo < k /\ k <= hi}
  <2>1. \A k \in Key : k \in Nat
    BY ConstantsAssumption
  <2>2. up \subseteq Key /\ \A k \in up : lo <= k /\ k <= hi
    BY <2>1
  <2>3. down \subseteq Key /\ \A k \in down : lo <= k /\ k <= hi
    BY <2>1
  <2>4. /\ materializeRange(lo, hi) = resolveEntries(collectRange(lo, hi), up)
        /\ materializeDescendRange(hi, lo) = resolveEntries(collectRange(lo, hi), down)
    BY <1>1 DEF materializeRange, materializeDescendRange
  <2> HIDE DEF up, down
  <2>5. resolveEntries(collectRange(lo, hi), up) = PairsOf(up)
    BY <1>1, <2>2, ScanRange
  <2>6. resolveEntries(collectRange(lo, hi), down) = PairsOf(down)
    BY <1>1, <2>3, ScanRange
  <2> QED
    BY <1>1, <2>4, <2>5, <2>6 DEF up, down
<1>2. CASE ~(lo < hi)
  BY <1>2 DEF materializeRange, materializeDescendRange
<1> QED
  BY <1>1, <1>2

(***************************************************************************)
(* In every state of every instance a scan or a range scan                 *)
(* (iterator.go:94-257) yields exactly the keys of its bounds that Get     *)
(* finds (tree.go:177-231), with the same values, also while a cascade of  *)
(* flushes and splits is under way.                                        *)
(***************************************************************************)
THEOREM ScansAgree == Spec => []ScansMatchGet
<1>1. Init => IInv /\ Shape
  BY InitIInv, SingleLeafShape DEF Init, Shape
<1>2. IInv /\ Shape /\ [Next]_vars => (IInv /\ Shape)'
  BY NextIInv, NextShape DEF Shape
<1>3. Shape => ScansMatchGet
  <2> SUFFICES ASSUME Shape PROVE ScansMatchGet
    OBVIOUS
  <2> DEFINE pairs(ks) == [k \in {x \in ks : map[x] # Absent} |-> map[k]]
  <2>1. \A k \in Key : map[k] = getFromNode(k)
    BY DEF map
  <2>2. ASSUME NEW ks, ks \subseteq Key PROVE pairs(ks) = PairsOf(ks)
    <3>1. \A k \in ks : map[k] = getFromNode(k)
      BY <2>1, <2>2
    <3>2. {x \in ks : map[x] # Absent} = {x \in ks : getFromNode(x) # Absent}
      BY <3>1
    <3> QED
      BY <3>1, <3>2 DEF PairsOf
  <2> HIDE DEF pairs
  <2>3. materializeAll = pairs(Key)
    BY <2>2, ScanAll
  <2>4. ASSUME NEW lo \in Key \cup {0}, NEW hi \in Key \cup {0}, lo < hi
        PROVE  /\ materializeRange(lo, hi) = pairs({k \in Key : lo <= k /\ k < hi})
               /\ materializeDescendRange(hi, lo) = pairs({k \in Key : lo < k /\ k <= hi})
    <3>1. lo \in Nat /\ hi \in Nat
      BY ConstantsAssumption
    <3> DEFINE up == {k \in Key : lo <= k /\ k < hi}
               down == {k \in Key : lo < k /\ k <= hi}
    <3>2. up \subseteq Key /\ down \subseteq Key
      OBVIOUS
    <3>3. materializeRange(lo, hi) = PairsOf(up) /\ materializeDescendRange(hi, lo) = PairsOf(down)
      BY <2>4, <3>1, RangeMatches
    <3> HIDE DEF up, down
    <3>4. materializeRange(lo, hi) = pairs(up) /\ materializeDescendRange(hi, lo) = pairs(down)
      BY <2>2, <3>2, <3>3
    <3> QED
      BY <3>4 DEF up, down
  <2> QED
    BY <2>3, <2>4 DEF ScansMatchGet, pairs
<1> QED
  BY <1>1, <1>2, <1>3, PTL DEF Spec

-----------------------------------------------------------------------------
(* What a step does to the messages of a key. *)

(* Heap g with root s holds the same for key k as h with root r, on as     *)
(* many levels or more.                                                    *)
SamePile(g, s, h, r, k) ==
  /\ s[1] \in Nat /\ r[1] <= s[1]
  /\ EntryOf(g, k) = EntryOf(h, k)
  /\ \A l \in 1..r[1] : MsgsAt(g, k, l) = MsgsAt(h, k, l)
  /\ \A l \in r[1]+1..s[1] : MsgsAt(g, k, l) = <<>>

(* In g, the messages of level L have moved to the next level below. *)
Moved(g, h, r, k, L) ==
  /\ L \in 1..r[1] /\ MsgsAt(g, k, L) = <<>>
  /\ \A l \in 1..r[1] : l # L /\ l # L - 1 => MsgsAt(g, k, l) = MsgsAt(h, k, l)
  /\ L = 1 => EntryOf(g, k) = After(MsgsAt(h, k, L), EntryOf(h, k))
  /\ L # 1 => /\ EntryOf(g, k) = EntryOf(h, k)
              /\ MsgsAt(g, k, L - 1) = MsgsAt(h, k, L - 1) \o MsgsAt(h, k, L)

(* Owners do not depend on what nodes hold. *)
LEMMA SameOwners ==
  ASSUME NEW g, NEW h, DOMAIN g = DOMAIN h
  PROVE  \A k, l : Owner(g, k, l) = Owner(h, k, l)
  BY DEF Owner, TerritoryIn

(* If no node holds anything else for the key, it is the same pile. *)
LEMMA SameHoldings ==
  ASSUME NEW h, NEW r, ShapeIn(h, r), NEW g, DOMAIN g = DOMAIN h, NEW k \in Key,
         \A a \in DOMAIN h : g[a].kv[k] = h[a].kv[k] /\ g[a].buffer[k] = h[a].buffer[k]
  PROVE  SamePile(g, r, h, r, k)
<1>1. r[1] \in Nat /\ \A l \in 0..r[1] : Owner(h, k, l) \in DOMAIN h
  BY Owners
<1>2. \A l : Owner(g, k, l) = Owner(h, k, l)
  BY SameOwners
<1>3. EntryOf(g, k) = EntryOf(h, k)
  BY <1>1, <1>2 DEF EntryOf
<1>4. \A l \in 1..r[1] : MsgsAt(g, k, l) = MsgsAt(h, k, l)
  BY <1>1, <1>2 DEF MsgsAt
<1>5. r[1]+1..r[1] = {} /\ r[1] <= r[1]
  BY <1>1
<1> QED
  BY <1>1, <1>3, <1>4, <1>5 DEF SamePile

(* The messages that the next flush sends down. *)
FlushBatch ==
  Bucket(heap[Head(todo).node], heaviest(heap[Head(todo).node]))

(* A flush moves the messages of a key down one level, or leaves them.     *)
LEMMA FlushMoves ==
  ASSUME IInv, Shape, FlushToLeaf \/ FlushToBuffer, NEW k \in Key
  PROVE  \/ SamePile(heap', root', heap, root, k) /\ FlushBatch[k] = <<>>
         \/ \E L : /\ Moved(heap', heap, root, k, L)
                   /\ MsgsAt(heap, k, L) = FlushBatch[k]
                   /\ FlushToLeaf => L = 1
                   /\ FlushToBuffer => L # 1
<1> DEFINE p == Head(todo).node
           i == heaviest(heap[p])
           c == heap[p].children[i]
           batch == Bucket(heap[p], i)
<1>1. Top("flushNode")
  BY DEF FlushToLeaf, FlushToBuffer
<1>2. p = Head(todo).node /\ i = heaviest(heap[p]) /\ c = heap[p].children[i]
  OBVIOUS
<1> HIDE DEF p, i, c
<1>3. p \in DOMAIN heap /\ heap[p] \in InternalNode /\ c \in DOMAIN heap /\ c # p
  BY ONLY <1>1, <1>2, IInv, FlushPair
<1>4. ~heap[p].leaf /\ batch \in [Key -> Seq(Msg)] /\ p[1] \in Nat /\ p[1] >= 1
  <2>1. ~heap[p].leaf
    BY <1>3 DEF InternalNode
  <2> QED
    BY <1>3, <2>1, BucketTypes, NodeShape DEF Shape
<1>5. /\ DOMAIN heap' = DOMAIN heap /\ root' = root
      /\ heap'[p].kv = heap[p].kv /\ heap'[p].buffer = Unflushed(heap[p], i)
      /\ \A a \in DOMAIN heap \ {p, c} : heap'[a] = heap[a]
  <2>1. CASE FlushToLeaf
    <3>1. LeafGotBatch(p, i, c)
      BY ONLY <1>2, <2>1, IInv, FlushToLeafEffect
    <3> QED
      BY ONLY <3>1 DEF LeafGotBatch, SameNodes
  <2>2. CASE FlushToBuffer
    <3>1. BufferGotBatch(p, i, c)
      BY ONLY <1>2, <2>2, IInv, FlushToBufferEffect
    <3> QED
      BY ONLY <3>1 DEF BufferGotBatch, SameNodes
  <2> QED
    BY <2>1, <2>2
<1>6. FlushToLeaf => /\ heap'[c].kv = applyToLeaf(heap[c].kv, batch).kv
                     /\ heap'[c].buffer = heap[c].buffer
                     /\ heap[c].kv \in [Key -> Opt] /\ heap[c].leaf
  <2> SUFFICES ASSUME FlushToLeaf
               PROVE  /\ heap'[c].kv = applyToLeaf(heap[c].kv, batch).kv
                      /\ heap'[c].buffer = heap[c].buffer
                      /\ heap[c].kv \in [Key -> Opt] /\ heap[c].leaf
    OBVIOUS
  <2>1. heap[c].leaf
    BY DEF FlushToLeaf, c, i, p
  <2>2. /\ heap'[c].kv = applyToLeaf(heap[c].kv, Bucket(heap[p], i)).kv
        /\ heap'[c].buffer = heap[c].buffer
        /\ heap[c].kv \in [Key -> Opt]
    <3>1. LeafGotBatch(p, i, c)
      BY ONLY <1>2, IInv, FlushToLeaf, FlushToLeafEffect
    <3> QED
      BY ONLY <3>1 DEF LeafGotBatch
  <2> QED
    BY ONLY <2>1, <2>2 DEF batch
<1>7. FlushToBuffer => /\ heap'[c].buffer = Received(heap[c].buffer, batch)
                       /\ heap'[c].kv = heap[c].kv
                       /\ heap[c].buffer \in [Key -> Seq(Msg)] /\ ~heap[c].leaf
  <2> SUFFICES ASSUME FlushToBuffer
               PROVE  /\ heap'[c].buffer = Received(heap[c].buffer, batch)
                      /\ heap'[c].kv = heap[c].kv
                      /\ heap[c].buffer \in [Key -> Seq(Msg)] /\ ~heap[c].leaf
    OBVIOUS
  <2>1. ~heap[c].leaf
    BY DEF FlushToBuffer, c, i, p
  <2>2. BufferGotBatch(p, i, c)
    BY ONLY <1>2, IInv, FlushToBuffer, FlushToBufferEffect
  <2> QED
    BY ONLY <2>1, <2>2 DEF BufferGotBatch, batch
<1>8. FlushToLeaf => heap'[c].kv[k] = After(batch[k], heap[c].kv[k])
  <2> SUFFICES ASSUME FlushToLeaf
               PROVE  heap'[c].kv[k] = After(batch[k], heap[c].kv[k])
    OBVIOUS
  <2> DEFINE kv == heap[c].kv
  <2>1. heap'[c].kv = applyToLeaf(kv, batch).kv /\ kv \in [Key -> Opt]
    BY <1>6
  <2>2. batch \in [Key -> Seq(Msg)] /\ k \in Key
    BY <1>4
  <2> HIDE DEF batch, kv
  <2>3. applyToLeaf(kv, batch).kv[k] = After(batch[k], kv[k])
    BY ONLY <2>1, <2>2, LeafAfter
  <2> QED
    BY ONLY <2>1, <2>3 DEF kv
<1>9. FlushToBuffer => heap'[c].buffer[k] = heap[c].buffer[k] \o batch[k]
  BY <1>7 DEF Received
<1>13. FlushBatch[k] = batch[k]
  BY DEF FlushBatch, batch, i, p
<1>14. ~(FlushToLeaf /\ FlushToBuffer)
  BY <1>6, <1>7
<1>10. batch[k] = <<>> \/ (findChildIndex(heap[p], k) = i /\ batch[k] = heap[p].buffer[k])
  BY DEF Bucket
<1>11. CASE batch[k] = <<>>
  <2>1. heap'[p].buffer[k] = heap[p].buffer[k]
    BY <1>5, <1>11 DEF Unflushed, Bucket
  <2>2. heap'[c].kv[k] = heap[c].kv[k] /\ heap'[c].buffer[k] = heap[c].buffer[k]
    <3>1. CASE FlushToLeaf
      <4>1. heap[c].kv[k] \in Opt
        BY <1>6, <3>1
      <4> QED
        BY <1>6, <1>8, <1>11, <3>1, <4>1, AfterNone
    <3>2. CASE FlushToBuffer
      <4>1. heap[c].buffer[k] \in Seq(Msg)
        BY <1>7, <3>2
      <4>2. heap[c].buffer[k] \o <<>> = heap[c].buffer[k]
        BY <4>1, ConcatEmptySeq
      <4> QED
        BY <1>7, <1>9, <1>11, <3>2, <4>2
    <3> QED
      BY <3>1, <3>2
  <2>3. \A a \in DOMAIN heap : /\ heap'[a].kv[k] = heap[a].kv[k]
                              /\ heap'[a].buffer[k] = heap[a].buffer[k]
    BY <1>5, <2>1, <2>2
  <2>4. SamePile(heap', root, heap, root, k)
    BY <1>5, <2>3, SameHoldings DEF Shape
  <2> QED
    BY <1>5, <1>11, <1>13, <2>4
<1>12. CASE batch[k] # <<>>
  <2> DEFINE L == p[1]
             own(l) == Owner(heap, k, l)
  <2>1. findChildIndex(heap[p], k) = i /\ batch[k] = heap[p].buffer[k]
        /\ heap[p].buffer[k] # <<>> /\ heap'[p].buffer[k] = <<>>
    BY <1>5, <1>10, <1>12 DEF Unflushed
  <2>2. k \in TerritoryIn(heap, p) /\ L <= root[1]
    BY <1>3, <2>1 DEF Shape, ShapeIn, RoutedIn, LevelsIn
  <2>3. /\ root[1] \in Nat
        /\ \A l \in 0..root[1] : own(l) \in DOMAIN heap /\ own(l)[1] = l
        /\ \A l \in 0..root[1] : \A a \in DOMAIN heap :
             a[1] = l /\ k \in TerritoryIn(heap, a) => a = own(l)
        /\ \A l \in 1..root[1] : ChildFor(heap[own(l)], k) = own(l - 1)
    BY Owners DEF Shape
  <2> HIDE DEF own
  <2>4. L \in 1..root[1] /\ L \in 0..root[1] /\ L - 1 \in 0..root[1]
    BY <1>4, <2>2, <2>3
  <2>5. own(L) = p
    BY <1>3, <2>2, <2>3, <2>4
  <2>6. own(L - 1) = c
    <3>1. ChildFor(heap[p], k) = c
      BY <1>2, <2>1 DEF ChildFor
    <3> QED
      BY <2>3, <2>4, <2>5, <3>1
  <2>7. \A l : Owner(heap', k, l) = own(l)
    <3>1. \A l : Owner(heap', k, l) = Owner(heap, k, l)
      BY <1>5, SameOwners
    <3> QED
      BY <3>1 DEF own
  <2> HIDE DEF L
  <2>8. /\ \A l : MsgsAt(heap', k, l) = heap'[own(l)].buffer[k]
        /\ \A l : MsgsAt(heap, k, l) = heap[own(l)].buffer[k]
        /\ EntryOf(heap', k) = heap'[own(0)].kv[k]
        /\ EntryOf(heap, k) = heap[own(0)].kv[k]
    BY <2>7 DEF MsgsAt, EntryOf, own
  <2>9. MsgsAt(heap', k, L) = <<>> /\ MsgsAt(heap, k, L) = batch[k]
    BY <2>1, <2>5, <2>8
  <2>10. \A l \in 0..root[1] : l # L /\ l # L - 1 => heap'[own(l)] = heap[own(l)]
    <3> SUFFICES ASSUME NEW l \in 0..root[1], l # L, l # L - 1
                 PROVE  heap'[own(l)] = heap[own(l)]
      OBVIOUS
    <3>1. own(l) # p /\ own(l) # c
      BY <2>3, <2>4, <2>5, <2>6
    <3> QED
      BY <1>5, <2>3, <3>1
  <2>11. \A l \in 1..root[1] : l # L /\ l # L - 1 => MsgsAt(heap', k, l) = MsgsAt(heap, k, l)
    <3>1. \A l \in 1..root[1] : l \in 0..root[1]
      BY <2>3
    <3> QED
      BY <2>8, <2>10, <3>1
  <2>12. heap[c].leaf <=> L = 1
    <3>1. heap[own(L - 1)].leaf <=> L - 1 = 0
      BY <2>3, <2>4 DEF Shape, ShapeIn, LevelsIn
    <3> QED
      BY <2>4, <2>6, <3>1
  <2>13. CASE FlushToLeaf
    <3>1. L = 1
      BY <1>6, <2>12, <2>13
    <3>2. own(0) = c
      <4>1. 1 - 1 = 0
        OBVIOUS
      <4> QED
        BY <2>6, <3>1, <4>1
    <3>3. EntryOf(heap', k) = After(MsgsAt(heap, k, L), EntryOf(heap, k))
      BY <1>8, <2>8, <2>9, <2>13, <3>2
    <3>4. Moved(heap', heap, root, k, L)
      BY <2>4, <2>9, <2>11, <3>1, <3>3 DEF Moved
    <3> QED
      BY <1>13, <1>14, <2>9, <2>13, <3>1, <3>4
  <2>14. CASE FlushToBuffer
    <3>1. L # 1
      BY <1>7, <2>12, <2>14
    <3>2. MsgsAt(heap', k, L - 1) = MsgsAt(heap, k, L - 1) \o MsgsAt(heap, k, L)
      BY <1>9, <2>6, <2>8, <2>9, <2>14
    <3>3. EntryOf(heap', k) = EntryOf(heap, k)
      <4>1. 0 \in 0..root[1] /\ 0 # L /\ 0 # L - 1
        BY <2>3, <2>4, <3>1
      <4> QED
        BY <2>8, <2>10, <4>1
    <3>4. Moved(heap', heap, root, k, L)
      BY <2>4, <2>9, <2>11, <3>1, <3>2, <3>3 DEF Moved
    <3> QED
      BY <1>13, <1>14, <2>9, <2>14, <3>1, <3>4
  <2> QED
    BY <2>13, <2>14
<1> QED
  BY <1>11, <1>12

(* A split gives every key's messages to the half that owns it. *)
LEMMA SplitPile ==
  ASSUME NEW h, NEW rt, ShapeIn(h, rt), NEW p \in DOMAIN h, ~h[p].leaf,
         NEW i \in 1..Len(h[p].children), Overfull(h[h[p].children[i]]), NEW k \in Key
  PROVE  SamePile(splitChild(h, p, i), rt, h, rt, k)
<1> DEFINE g == splitChild(h, p, i)
           R == rt[1]
<1>1. ShapeIn(g, rt)
  BY SplitShape
<1>2. \E q, c, r : SplitAt(g, h, p, i, q, c, r)
  BY SplitEffect
<1> HIDE DEF g
<1>3. PICK q, c, r : SplitAt(g, h, p, i, q, c, r)
  BY <1>2
<1>4. /\ c \in DOMAIN h /\ q \in Nat /\ r[1] = c[1] /\ r \notin DOMAIN h /\ p # c /\ c # r
  BY <1>3, SplitNodes
<1>5. /\ DOMAIN g = DOMAIN h \cup {r}
      /\ g[p].kv = h[p].kv /\ g[p].buffer = h[p].buffer
      /\ g[c].kv[k] = IF k < q THEN h[c].kv[k] ELSE Absent
      /\ g[r].kv[k] = IF k < q THEN Absent ELSE h[c].kv[k]
      /\ g[c].buffer[k] = IF k < q THEN h[c].buffer[k] ELSE <<>>
      /\ g[r].buffer[k] = IF k < q THEN <<>> ELSE h[c].buffer[k]
      /\ \A a \in DOMAIN h \ {p, c} : g[a] = h[a]
  BY <1>3 DEF SplitAt
<1>6. /\ k \in TerritoryIn(g, c) <=> k \in TerritoryIn(h, c) /\ k < q
      /\ k \in TerritoryIn(g, r) <=> k \in TerritoryIn(h, c) /\ q <= k
      /\ \A a \in DOMAIN h \ {c} : TerritoryIn(g, a) = TerritoryIn(h, a)
  BY <1>3, SplitTerritory
<1>7. R \in Nat /\ \A l \in 0..R : /\ Owner(h, k, l) \in DOMAIN h
                                   /\ Owner(h, k, l)[1] = l
                                   /\ k \in TerritoryIn(h, Owner(h, k, l))
  BY Owners
<1>8. \A l \in 0..R : \A a \in DOMAIN g :
        a[1] = l /\ k \in TerritoryIn(g, a) => a = Owner(g, k, l)
  BY <1>1, Owners
<1>9. k \in Nat
  BY ConstantsAssumption
<1>10. ASSUME NEW l \in 0..R
       PROVE  /\ g[Owner(g, k, l)].kv[k] = h[Owner(h, k, l)].kv[k]
              /\ g[Owner(g, k, l)].buffer[k] = h[Owner(h, k, l)].buffer[k]
  <2> DEFINE a == Owner(h, k, l)
             b == Owner(g, k, l)
  <2>1. a \in DOMAIN h /\ a[1] = l /\ k \in TerritoryIn(h, a)
    BY <1>7
  <2>2. \A x \in DOMAIN g : x[1] = l /\ k \in TerritoryIn(g, x) => x = b
    BY <1>8
  <2> HIDE DEF a, b
  <2>3. CASE a # c
    <3>1. b = a
      BY <1>5, <1>6, <2>1, <2>2, <2>3
    <3> QED
      BY <1>5, <2>1, <2>3, <3>1 DEF a, b
  <2>4. CASE a = c /\ k < q
    <3>1. b = c
      BY <1>4, <1>5, <1>6, <2>1, <2>2, <2>4
    <3> QED
      BY <1>5, <2>4, <3>1 DEF a, b
  <2>5. CASE a = c /\ ~(k < q)
    <3>1. b = r
      BY <1>4, <1>5, <1>6, <1>9, <2>1, <2>2, <2>5
    <3> QED
      BY <1>5, <2>5, <3>1 DEF a, b
  <2> QED
    BY <2>3, <2>4, <2>5
<1>11. EntryOf(g, k) = EntryOf(h, k)
  BY <1>7, <1>10 DEF EntryOf
<1>12. \A l \in 1..R : MsgsAt(g, k, l) = MsgsAt(h, k, l)
  BY <1>7, <1>10 DEF MsgsAt
<1>13. R+1..R = {} /\ R <= R
  BY <1>7
<1> QED
  BY <1>7, <1>11, <1>12, <1>13 DEF SamePile, g

(* A new root has no messages. *)
LEMMA GrownPile ==
  ASSUME NEW h, NEW rt, ShapeIn(h, rt), NEW k \in Key,
         NEW r \in Addr, r[1] = rt[1] + 1, r[2] = 0, NEW g, g = Grown(h, rt, r)
  PROVE  SamePile(g, r, h, rt, k)
<1>1. /\ ShapeIn(g, r) /\ g[r].buffer = NoMsgs
      /\ DOMAIN g = DOMAIN h \cup {r} /\ r \notin DOMAIN h
      /\ \A a \in DOMAIN h : g[a] = h[a]
  BY GrownShape
<1>2. /\ rt[1] \in Nat
      /\ \A l \in 0..rt[1] : /\ Owner(h, k, l) \in DOMAIN h
                             /\ Owner(h, k, l)[1] = l
                             /\ k \in TerritoryIn(h, Owner(h, k, l))
  BY Owners
<1>3. Owner(g, k, r[1]) = r
  BY <1>1, Owners
<1>4. \A l \in 0..r[1] : \A a \in DOMAIN g :
        a[1] = l /\ k \in TerritoryIn(g, a) => a = Owner(g, k, l)
  BY <1>1, Owners
<1>5. \A a \in DOMAIN h : TerritoryIn(g, a) = TerritoryIn(h, a)
  <2>1. \A a \in DOMAIN h : a[1] <= rt[1] /\ a \in Addr
    BY DEF ShapeIn, LevelsIn, HeapOK
  <2>2. \A a \in DOMAIN h : r[1] # a[1]
    BY <1>2, <2>1 DEF Addr
  <2> QED
    BY <1>1, <2>2 DEF TerritoryIn
<1>6. \A l \in 0..rt[1] : Owner(g, k, l) = Owner(h, k, l)
  <2> SUFFICES ASSUME NEW l \in 0..rt[1] PROVE Owner(g, k, l) = Owner(h, k, l)
    OBVIOUS
  <2> DEFINE a == Owner(h, k, l)
  <2>1. a \in DOMAIN h /\ a[1] = l /\ k \in TerritoryIn(h, a) /\ l \in 0..r[1]
    BY <1>2
  <2> HIDE DEF a
  <2>2. a = Owner(g, k, l)
    BY <1>1, <1>4, <1>5, <2>1
  <2> QED
    BY <2>2 DEF a
<1>7. EntryOf(g, k) = EntryOf(h, k)
  BY <1>1, <1>2, <1>6 DEF EntryOf
<1>8. \A l \in 1..rt[1] : MsgsAt(g, k, l) = MsgsAt(h, k, l)
  BY <1>1, <1>2, <1>6 DEF MsgsAt
<1>9. MsgsAt(g, k, r[1]) = <<>>
  BY <1>1, <1>3 DEF MsgsAt, NoMsgs
<1>10. r[1] \in Nat /\ rt[1] <= r[1] /\ \A l \in rt[1]+1..r[1] : l = r[1]
  BY <1>2
<1> QED
  BY <1>7, <1>8, <1>9, <1>10 DEF SamePile

(* Piles stay the same over several steps. *)
LEMMA SamePileTransitive ==
  ASSUME NEW g, NEW s, NEW f, NEW t, NEW h, NEW r, NEW k, r[1] \in Nat,
         SamePile(g, s, f, t, k), SamePile(f, t, h, r, k)
  PROVE  SamePile(g, s, h, r, k)
<1>1. s[1] \in Nat /\ t[1] \in Nat /\ r[1] <= t[1] /\ t[1] <= s[1]
  BY DEF SamePile
<1>2. EntryOf(g, k) = EntryOf(h, k)
  BY DEF SamePile
<1>3. ASSUME NEW l \in 1..r[1] PROVE MsgsAt(g, k, l) = MsgsAt(h, k, l)
  <2>1. l \in 1..t[1]
    BY <1>1
  <2> QED
    BY <2>1 DEF SamePile
<1>4. ASSUME NEW l \in r[1]+1..s[1] PROVE MsgsAt(g, k, l) = <<>>
  <2>1. CASE l <= t[1]
    <3>1. l \in 1..t[1] /\ l \in r[1]+1..t[1]
      BY <1>1, <2>1
    <3> QED
      BY <3>1 DEF SamePile
  <2>2. CASE ~(l <= t[1])
    <3>1. l \in t[1]+1..s[1]
      BY <1>1, <2>2
    <3> QED
      BY <3>1 DEF SamePile
  <2> QED
    BY <2>1, <2>2
<1>5. r[1] <= s[1]
  BY <1>1
<1> QED
  BY <1>1, <1>2, <1>3, <1>4, <1>5 DEF SamePile

(* Splits leave every key its messages. *)
LEMMA SplitKeepsPiles ==
  ASSUME IInv, Shape, SplitChild \/ SplitRoot, NEW k \in Key
  PROVE  SamePile(heap', root', heap, root, k)
<1>0. CASE UNCHANGED <<heap, root>>
  <2>1. SamePile(heap, root, heap, root, k)
    BY SameHoldings DEF Shape
  <2> QED
    BY <1>0, <2>1
<1>1. CASE SplitChild /\ ~UNCHANGED <<heap, root>>
  <2> DEFINE p == Head(todo).node
             i == Head(todo).idx
  <2>1. /\ root' = root /\ p \in DOMAIN heap /\ ~heap[p].leaf
        /\ i \in 1..Len(heap[p].children)
        /\ Overfull(heap[heap[p].children[i]])
        /\ heap' = splitChild(heap, p, i)
    BY <1>1, SplitChildSteps
  <2> HIDE DEF p, i
  <2>2. SamePile(splitChild(heap, p, i), root, heap, root, k)
    BY <2>1, SplitPile DEF Shape
  <2> QED
    BY <2>1, <2>2
<1>2. CASE SplitRoot /\ ~UNCHANGED <<heap, root>>
  <2> DEFINE r == <<root[1] + 1, 0>>
             g == Grown(heap, root, r)
             first == 1
  <2>1. Overfull(heap[root]) /\ root' = r /\ heap' = splitChild(g, r, first)
    BY <1>2 DEF SplitRoot, Grown
  <2>2. /\ r \in Addr /\ r[1] = root[1] + 1 /\ r[2] = 0 /\ g = Grown(heap, root, r)
    <3>1. root \in Addr
      BY DEF IInv, TypeOK
    <3> QED
      BY <3>1 DEF Addr
  <2>8. root[1] \in Nat
    BY DEF IInv, TypeOK, Addr
  <2>9. ShapeIn(heap, root)
    BY DEF Shape
  <2> HIDE DEF r, g
  <2>3. /\ ShapeIn(g, r) /\ r \in DOMAIN g /\ ~g[r].leaf
        /\ Len(g[r].children) = 1 /\ g[r].children[1] = root
        /\ \A a \in DOMAIN heap : g[a] = heap[a]
    <3>1. /\ ShapeIn(g, r) /\ r \in DOMAIN g /\ ~g[r].leaf /\ g[r].buffer = NoMsgs
          /\ Len(g[r].children) = 1 /\ g[r].children[1] = root
          /\ DOMAIN g = DOMAIN heap \cup {r} /\ r \notin DOMAIN heap
          /\ \A a \in DOMAIN heap : g[a] = heap[a]
      BY ONLY <2>2, <2>9, GrownShape
    <3> QED
      BY <3>1
  <2>4. first \in 1..Len(g[r].children) /\ Overfull(g[g[r].children[first]])
    BY <2>1, <2>3 DEF Shape, ShapeIn, LevelsIn
  <2> HIDE DEF first
  <2>5. SamePile(splitChild(g, r, first), r, g, r, k)
    BY <2>3, <2>4, SplitPile
  <2>6. SamePile(g, r, heap, root, k)
    BY ONLY <2>2, <2>9, k \in Key, GrownPile
  <2>7. SamePile(splitChild(g, r, first), r, heap, root, k)
    BY <2>8, <2>5, <2>6, SamePileTransitive
  <2> QED
    BY <2>1, <2>7
<1> QED
  BY <1>0, <1>1, <1>2

-----------------------------------------------------------------------------
(* What that does to the values of a key. *)

(* Two piles that agree on a value and on the messages above it. *)
LEMMA ValsFrom ==
  ASSUME NEW h, NEW r, ShapeIn(h, r), NEW g, NEW s, ShapeIn(g, s), NEW k \in Key,
         NEW b \in Nat, NEW n \in Nat, b <= n, n <= r[1], n <= s[1],
         Vals(g, s, k)[b] = Vals(h, r, k)[b],
         \A l \in b+1..n : MsgsAt(g, k, l) = MsgsAt(h, k, l)
  PROVE  \A l \in b..n : Vals(g, s, k)[l] = Vals(h, r, k)[l]
<1> DEFINE v == Vals(h, r, k)
           w == Vals(g, s, k)
           T == {l \in Nat : b <= l /\ l <= n => w[l] = v[l]}
<1>1. r[1] \in Nat /\ s[1] \in Nat
  BY Owners
<1>2. \A l \in 1..r[1] : v[l] = After(MsgsAt(h, k, l), v[l-1])
  BY ValsProperties
<1>3. \A l \in 1..s[1] : w[l] = After(MsgsAt(g, k, l), w[l-1])
  BY ValsProperties
<1> HIDE DEF v, w
<1>4. w[b] = v[b]
  BY DEF v, w
<1>5. 0 \in T
  BY <1>4
<1>6. ASSUME NEW l \in Nat, l \in T PROVE l + 1 \in T
  <2> SUFFICES ASSUME b <= l + 1, l + 1 <= n PROVE w[l + 1] = v[l + 1]
    OBVIOUS
  <2>1. CASE b = l + 1
    BY <1>4, <2>1
  <2>2. CASE b # l + 1
    <3>1. /\ l + 1 \in b+1..n /\ l + 1 \in 1..r[1] /\ l + 1 \in 1..s[1]
          /\ (l + 1) - 1 = l /\ w[l] = v[l]
      BY <1>1, <1>6, <2>2
    <3> QED
      BY <1>2, <1>3, <3>1
  <2> QED
    BY <2>1, <2>2
<1>7. Nat \subseteq T
  <2> HIDE DEF T
  <2> QED
    BY <1>5, <1>6, InductionOnNat
<1> QED
  BY <1>7 DEF v, w

(* The same pile has the same values, and on new levels the top one. *)
LEMMA SamePileVals ==
  ASSUME NEW h, NEW r, ShapeIn(h, r), NEW g, NEW s, ShapeIn(g, s), NEW k \in Key,
         SamePile(g, s, h, r, k)
  PROVE  /\ \A l \in 0..r[1] : Vals(g, s, k)[l] = Vals(h, r, k)[l]
         /\ Vals(g, s, k)[s[1]] = Vals(h, r, k)[r[1]]
<1> DEFINE v == Vals(h, r, k)
           w == Vals(g, s, k)
           b == 0
           R == r[1]
           S == s[1]
           T == {l \in Nat : R <= l /\ l <= S => w[l] = v[R]}
<1>1. R \in Nat /\ S \in Nat /\ R <= S
  BY Owners DEF SamePile
<1>2. /\ v[0] = EntryOf(h, k) /\ v \in [0..R -> Opt]
  BY ValsProperties
<1>3. /\ w[0] = EntryOf(g, k) /\ w \in [0..S -> Opt]
      /\ \A l \in 1..S : w[l] = After(MsgsAt(g, k, l), w[l-1])
  BY ValsProperties
<1>4. /\ b \in Nat /\ b <= R /\ R <= r[1] /\ R <= s[1]
      /\ Vals(g, s, k)[b] = Vals(h, r, k)[b]
      /\ \A l \in b+1..R : MsgsAt(g, k, l) = MsgsAt(h, k, l)
  BY <1>1, <1>2, <1>3 DEF SamePile
<1>5. \A l \in R+1..S : MsgsAt(g, k, l) = <<>>
  BY DEF SamePile
<1> HIDE DEF v, w, b, R, S
<1>6. \A l \in b..R : Vals(g, s, k)[l] = Vals(h, r, k)[l]
  BY <1>1, <1>4, ValsFrom
<1>7. \A l \in 0..R : w[l] = v[l]
  BY <1>6 DEF b, v, w
<1>8. 0 \in T
  BY <1>1, <1>7
<1>9. ASSUME NEW l \in Nat, l \in T PROVE l + 1 \in T
  <2> SUFFICES ASSUME R <= l + 1, l + 1 <= S PROVE w[l + 1] = v[R]
    OBVIOUS
  <2>1. CASE R = l + 1
    <3>1. l + 1 \in 0..R
      BY <1>1, <2>1
    <3> QED
      BY <1>7, <2>1, <3>1
  <2>2. CASE R # l + 1
    <3>1. /\ l + 1 \in R+1..S /\ l + 1 \in 1..S /\ (l + 1) - 1 = l
          /\ l \in 0..S /\ w[l] = v[R]
      BY <1>1, <1>9, <2>2
    <3>2. w[l + 1] = After(<<>>, w[l]) /\ w[l] \in Opt
      BY <1>3, <1>5, <3>1
    <3> QED
      BY <3>1, <3>2, AfterNone
  <2> QED
    BY <2>1, <2>2
<1>10. Nat \subseteq T
  <2> HIDE DEF T
  <2> QED
    BY <1>8, <1>9, InductionOnNat
<1>11. w[S] = v[R]
  BY <1>1, <1>10
<1> QED
  BY <1>7, <1>11 DEF v, w, R, S

(* A flush changes the value of the level that it flushes to only: it      *)
(* becomes what it was one level above.                                    *)
LEMMA MovedVals ==
  ASSUME NEW h, NEW r, ShapeIn(h, r), NEW g, ShapeIn(g, r), NEW k \in Key,
         NEW L, Moved(g, h, r, k, L)
  PROVE  /\ \A l \in 0..r[1] : l # L - 1 => Vals(g, r, k)[l] = Vals(h, r, k)[l]
         /\ Vals(g, r, k)[L - 1] = Vals(h, r, k)[L]
<1> DEFINE v == Vals(h, r, k)
           w == Vals(g, r, k)
           R == r[1]
<1>1. R \in Nat /\ L \in 1..R /\ L \in Nat /\ L - 1 \in Nat
  <2>1. R \in Nat
    BY Owners
  <2> QED
    BY <2>1 DEF Moved
<1>2. /\ v[0] = EntryOf(h, k) /\ v \in [0..R -> Opt]
      /\ \A l \in 1..R : v[l] = After(MsgsAt(h, k, l), v[l-1])
  BY ValsProperties
<1>3. /\ w[0] = EntryOf(g, k) /\ w \in [0..R -> Opt]
      /\ \A l \in 1..R : w[l] = After(MsgsAt(g, k, l), w[l-1])
  BY ValsProperties
<1>4. \A l \in 1..R : MsgsAt(h, k, l) \in Seq(Msg)
  BY PileTypes
<1> HIDE DEF v, w, R
<1>5. \A l \in 0..L-2 : w[l] = v[l]
  <2>1. CASE L = 1
    <3>1. 0..L-2 = {}
      BY <2>1
    <3> QED
      BY <3>1
  <2>2. CASE L # 1
    <3> DEFINE b == 0
               n == L - 2
    <3>1. /\ b \in Nat /\ n \in Nat /\ b <= n /\ n <= r[1]
          /\ \A l \in b+1..n : MsgsAt(g, k, l) = MsgsAt(h, k, l)
      BY <1>1, <2>2 DEF Moved, R
    <3>2. Vals(g, r, k)[b] = Vals(h, r, k)[b]
      BY <1>2, <1>3, <2>2 DEF Moved, v, w
    <3> HIDE DEF b, n
    <3>3. \A l \in b..n : Vals(g, r, k)[l] = Vals(h, r, k)[l]
      BY <3>1, <3>2, ValsFrom
    <3> QED
      BY <3>3 DEF b, n, v, w
  <2> QED
    BY <2>1, <2>2
<1>6. w[L - 1] = v[L]
  <2>1. CASE L = 1
    <3>1. L - 1 = 0 /\ 1 - 1 = 0 /\ 1 \in 1..R
      BY <1>1, <2>1
    <3> QED
      BY <1>2, <1>3, <2>1, <3>1 DEF Moved
  <2>2. CASE L # 1
    <3> DEFINE a == MsgsAt(h, k, L - 1)
               m == MsgsAt(h, k, L)
               x == v[L - 2]
    <3>1. /\ L - 1 \in 1..R /\ (L - 1) - 1 = L - 2 /\ L - 2 \in 0..R
          /\ L - 2 \in 0..L-2
      BY <1>1, <2>2
    <3>2. w[L - 1] = After(a \o m, x)
      BY <1>3, <1>5, <2>2, <3>1 DEF Moved
    <3>3. v[L - 1] = After(a, x) /\ v[L] = After(m, v[L - 1])
      BY <1>1, <1>2, <3>1
    <3>4. a \in Seq(Msg) /\ m \in Seq(Msg) /\ x \in Opt
      BY <1>1, <1>2, <1>4, <3>1
    <3> HIDE DEF a, m, x
    <3>5. After(a \o m, x) = After(m, After(a, x))
      BY <3>4, RunConcat
    <3> QED
      BY <3>2, <3>3, <3>5
  <2> QED
    BY <2>1, <2>2
<1>7. w[L] = v[L]
  <2>1. L - 1 \in 0..R /\ w[L - 1] \in Opt
    BY <1>1, <1>3
  <2>2. w[L] = After(<<>>, w[L - 1])
    BY <1>1, <1>3 DEF Moved
  <2> QED
    BY <1>6, <2>1, <2>2, AfterNone
<1>8. \A l \in L..R : w[l] = v[l]
  <2>1. /\ L <= R /\ R <= r[1]
        /\ \A l \in L+1..R : MsgsAt(g, k, l) = MsgsAt(h, k, l)
    BY <1>1 DEF Moved, R
  <2>2. Vals(g, r, k)[L] = Vals(h, r, k)[L]
    BY <1>7 DEF v, w
  <2> QED
    BY <1>1, <2>1, <2>2, ValsFrom DEF v, w
<1>9. \A l \in 0..R : l # L - 1 => l \in 0..L-2 \/ l \in L..R
  BY <1>1
<1> QED
  BY <1>5, <1>6, <1>8, <1>9 DEF v, w, R

(* Flushes and splits change what no key maps to. *)
LEMMA RestructureKeepsGet ==
  ASSUME IInv, Shape, ShapeIn(heap', root'), NEW k \in Key,
         FlushToLeaf \/ FlushToBuffer \/ SplitChild \/ SplitRoot
  PROVE  GetIn(heap', root', k) = GetIn(heap, root, k)
<1>1. ShapeIn(heap, root)
  BY DEF Shape
<1>2. /\ GetIn(heap', root', k) = Vals(heap', root', k)[root'[1]]
      /\ GetIn(heap, root, k) = Vals(heap, root, k)[root[1]]
  BY <1>1, GetIsVal
<1>3. CASE SamePile(heap', root', heap, root, k)
  <2>1. Vals(heap', root', k)[root'[1]] = Vals(heap, root, k)[root[1]]
    BY <1>1, <1>3, SamePileVals
  <2> QED
    BY <1>2, <2>1
<1>4. ASSUME NEW L, Moved(heap', heap, root, k, L), root' = root
      PROVE  GetIn(heap', root', k) = GetIn(heap, root, k)
  <2>1. \A l \in 0..root[1] : l # L - 1 => Vals(heap', root, k)[l] = Vals(heap, root, k)[l]
    BY <1>1, <1>4, MovedVals
  <2>2. root[1] \in Nat
    BY <1>1, Owners
  <2>3. root[1] \in 0..root[1] /\ root[1] # L - 1
    BY <1>4, <2>2 DEF Moved
  <2> QED
    BY <1>2, <1>4, <2>1, <2>3
<1>5. CASE FlushToLeaf \/ FlushToBuffer
  <2>1. root' = root
    BY <1>5 DEF FlushToLeaf, FlushToBuffer
  <2>2. \/ SamePile(heap', root', heap, root, k)
        \/ \E L : Moved(heap', heap, root, k, L)
    BY <1>5, FlushMoves
  <2> QED
    BY <1>3, <1>4, <2>1, <2>2
<1>6. CASE SplitChild \/ SplitRoot
  BY <1>3, <1>6, SplitKeepsPiles
<1> QED
  BY <1>5, <1>6

-----------------------------------------------------------------------------
(* Writes. *)

(* What Get finds, now and after a step. *)
LEMMA MapIs ==
  /\ \A k \in Key : map[k] = GetIn(heap, root, k)
  /\ \A k \in Key : map'[k] = GetIn(heap', root', k)
<1>1. \A k : getFromNode(k)' = GetIn(heap', root', k)
  BY DEF getFromNode, GetIn, ReadBack, Stop
<1> QED
  BY <1>1, GetOfHeap DEF map

(* A write leaves the levels below the root alone. *)
LEMMA RootPile ==
  ASSUME NEW h, NEW r, ShapeIn(h, r), NEW g, ShapeIn(g, r), DOMAIN g = DOMAIN h,
         \A a \in DOMAIN h \ {r} : g[a] = h[a], NEW k \in Key
  PROVE  /\ MsgsAt(g, k, r[1]) = g[r].buffer[k] /\ MsgsAt(h, k, r[1]) = h[r].buffer[k]
         /\ \A l \in 1..r[1]-1 : MsgsAt(g, k, l) = MsgsAt(h, k, l)
         /\ r[1] # 0 => /\ EntryOf(g, k) = EntryOf(h, k)
                        /\ \A l \in 0..r[1]-1 : Vals(g, r, k)[l] = Vals(h, r, k)[l]
         /\ r[1] = 0 => EntryOf(g, k) = g[r].kv[k] /\ EntryOf(h, k) = h[r].kv[k]
<1>1. /\ r[1] \in Nat /\ Owner(h, k, r[1]) = r
      /\ \A l \in 0..r[1] : Owner(h, k, l) \in DOMAIN h /\ Owner(h, k, l)[1] = l
  BY Owners
<1>2. \A l : Owner(g, k, l) = Owner(h, k, l)
  BY SameOwners
<1>3. \A l \in 0..r[1]-1 : g[Owner(h, k, l)] = h[Owner(h, k, l)]
  <2> SUFFICES ASSUME NEW l \in 0..r[1]-1 PROVE g[Owner(h, k, l)] = h[Owner(h, k, l)]
    OBVIOUS
  <2>1. l \in 0..r[1] /\ l # r[1]
    BY <1>1
  <2> QED
    BY <1>1, <2>1
<1>4. \A l \in 1..r[1]-1 : MsgsAt(g, k, l) = MsgsAt(h, k, l)
  <2>1. \A l \in 1..r[1]-1 : l \in 0..r[1]-1
    BY <1>1
  <2> QED
    BY <1>2, <1>3, <2>1 DEF MsgsAt
<1>5. MsgsAt(g, k, r[1]) = g[r].buffer[k] /\ MsgsAt(h, k, r[1]) = h[r].buffer[k]
  BY <1>1, <1>2 DEF MsgsAt
<1>6. r[1] = 0 => EntryOf(g, k) = g[r].kv[k] /\ EntryOf(h, k) = h[r].kv[k]
  BY <1>1, <1>2 DEF EntryOf
<1>7. ASSUME r[1] # 0
      PROVE  /\ EntryOf(g, k) = EntryOf(h, k)
             /\ \A l \in 0..r[1]-1 : Vals(g, r, k)[l] = Vals(h, r, k)[l]
  <2> DEFINE b == 0
             n == r[1] - 1
  <2>1. 0 \in 0..r[1]-1
    BY <1>1, <1>7
  <2>2. EntryOf(g, k) = EntryOf(h, k)
    BY <1>2, <1>3, <2>1 DEF EntryOf
  <2>3. Vals(g, r, k)[b] = Vals(h, r, k)[b]
    BY <2>2, ValsProperties
  <2>4. /\ b \in Nat /\ n \in Nat /\ b <= n /\ n <= r[1]
        /\ \A l \in b+1..n : MsgsAt(g, k, l) = MsgsAt(h, k, l)
    BY <1>1, <1>4, <1>7
  <2> HIDE DEF b, n
  <2>5. \A l \in b..n : Vals(g, r, k)[l] = Vals(h, r, k)[l]
    BY <2>3, <2>4, ValsFrom
  <2> QED
    BY <2>2, <2>5 DEF b, n
<1> QED
  BY <1>4, <1>5, <1>6, <1>7

(* What a write of the root means for the value of a key. *)
LEMMA KeyWritten ==
  ASSUME Shape, RootWritten, NEW k \in Key
  PROVE  /\ heap[root].leaf =>
              map[k] = heap[root].kv[k] /\ map'[k] = heap'[root].kv[k]
         /\ heap'[root].kv[k] = heap[root].kv[k] /\
            heap'[root].buffer[k] = heap[root].buffer[k] => map'[k] = map[k]
         /\ \A m \in Msg :
              ~heap[root].leaf /\ heap'[root].buffer[k] = Append(heap[root].buffer[k], m)
                => map'[k] = Apply(m, map[k])
<1> DEFINE R == root[1]
           v == Vals(heap, root, k)
           w == Vals(heap', root, k)
<1>1. ShapeIn(heap, root) /\ ShapeIn(heap', root) /\ root' = root
  BY WritesShape DEF Shape, RootWritten
<1>2. DOMAIN heap' = DOMAIN heap /\ \A a \in DOMAIN heap \ {root} : heap'[a] = heap[a]
  BY DEF RootWritten, SameNodes
<1>3. R \in Nat /\ root \in DOMAIN heap /\ (heap[root].leaf <=> R = 0)
  BY <1>1, Owners DEF ShapeIn, LevelsIn
<1>4. map[k] = v[R] /\ map'[k] = w[R]
  BY <1>1, MapIs, GetIsVal
<1>5. /\ v[0] = EntryOf(heap, k) /\ v \in [0..R -> Opt]
      /\ \A l \in 1..R : v[l] = After(MsgsAt(heap, k, l), v[l-1])
  BY <1>1, ValsProperties
<1>6. /\ w[0] = EntryOf(heap', k) /\ w \in [0..R -> Opt]
      /\ \A l \in 1..R : w[l] = After(MsgsAt(heap', k, l), w[l-1])
  BY <1>1, ValsProperties
<1>7. /\ MsgsAt(heap', k, R) = heap'[root].buffer[k] /\ MsgsAt(heap, k, R) = heap[root].buffer[k]
      /\ R # 0 => \A l \in 0..R-1 : w[l] = v[l]
      /\ R = 0 => EntryOf(heap', k) = heap'[root].kv[k] /\ EntryOf(heap, k) = heap[root].kv[k]
  BY <1>1, <1>2, RootPile
<1> HIDE DEF v, w, R
<1>8. CASE R = 0
  <2>1. map[k] = heap[root].kv[k] /\ map'[k] = heap'[root].kv[k]
    BY <1>4, <1>5, <1>6, <1>7, <1>8
  <2> QED
    BY <1>3, <1>8, <2>1
<1>9. CASE R # 0
  <2> DEFINE x == v[R - 1]
             s == heap[root].buffer[k]
             t == heap'[root].buffer[k]
  <2>1. R \in 1..R /\ R - 1 \in 0..R-1 /\ R - 1 \in 0..R
    BY <1>3, <1>9
  <2>2. map[k] = After(s, x) /\ map'[k] = After(t, x) /\ x \in Opt
    BY <1>4, <1>5, <1>6, <1>7, <1>9, <2>1
  <2>3. s \in Seq(Msg)
    <3>1. heap[root] \in LeafNode \cup InternalNode
      BY <1>1, <1>3 DEF ShapeIn, HeapOK
    <3>2. heap[root].buffer \in [Key -> Seq(Msg)]
      BY <3>1, NodeKinds
    <3> QED
      BY <3>2
  <2> HIDE DEF x
  <2>4. ASSUME NEW m \in Msg, t = Append(s, m) PROVE map'[k] = Apply(m, map[k])
    <3> HIDE DEF s, t
    <3>1. After(Append(s, m), x) = Apply(m, After(s, x))
      BY <2>2, <2>3, AfterAppend
    <3> QED
      BY <2>2, <2>4, <3>1
  <2> QED
    BY <1>3, <1>9, <2>2, <2>4
<1> QED
  BY <1>8, <1>9

(* A write of the root as n, in terms of the map. *)
LEMMA MapWritten ==
  ASSUME IInv, IInv', Shape, NEW n, NEW x, NEW y, NEW z, NEW w, Write(n, x, y, z, w),
         n.leaf = heap[root].leaf, n.pivots = heap[root].pivots,
         n.children = heap[root].children,
         NEW f, f = [k \in Key |-> f[k]],
         \A k \in Key :
           \/ n.leaf /\ f[k] = n.kv[k]
           \/ /\ n.kv[k] = heap[root].kv[k] /\ n.buffer[k] = heap[root].buffer[k]
              /\ f[k] = map[k]
           \/ /\ ~n.leaf
              /\ \E m \in Msg : /\ n.buffer[k] = Append(heap[root].buffer[k], m)
                                /\ f[k] = Apply(m, map[k])
  PROVE  Abstract!Write(f, z)
<1>1. RootWritten
  BY WriteRoot
<1>2. /\ ~locked /\ locked' = TRUE /\ result' = z
      /\ heap' = [heap EXCEPT ![root] = n] /\ root \in DOMAIN heap
  BY DEF Write, IInv, TypeOK
<1>3. heap'[root] = n
  BY <1>2
<1>4. ASSUME NEW k \in Key PROVE map'[k] = f[k]
  <2>1. /\ heap[root].leaf => map'[k] = n.kv[k]
        /\ n.kv[k] = heap[root].kv[k] /\ n.buffer[k] = heap[root].buffer[k] => map'[k] = map[k]
        /\ \A m \in Msg :
             ~heap[root].leaf /\ n.buffer[k] = Append(heap[root].buffer[k], m)
                => map'[k] = Apply(m, map[k])
    BY <1>1, <1>3, KeyWritten
  <2> QED
    BY <2>1
<1>5. map' = [k \in Key |-> map'[k]]
  BY DEF map
<1>6. map' = f
  BY <1>4, <1>5
<1> QED
  BY <1>2, <1>6 DEF Abstract!Write

-----------------------------------------------------------------------------
(* The writes, by what they do to the root. *)

(* A buffer with one more message m for each of the keys K. *)
Appended(buf, K, m) ==
  [k \in Key |-> IF k \in K THEN Append(buf[k], m) ELSE buf[k]]

(* The root is a leaf and gets new entries. *)
LeafWrite(kv, d, z) ==
  /\ heap[root].leaf /\ kv \in [Key -> Opt]
  /\ \E w : Write([heap[root] EXCEPT !.kv = kv], d, 0, z, w)

(* The root is not a leaf and buffers a message for each of the keys K. *)
BufferWrite(K, m, d, y, z) ==
  /\ ~heap[root].leaf /\ K \subseteq Key /\ m \in Msg
  /\ \E w : Write([heap[root] EXCEPT !.buffer = Appended(heap[root].buffer, K, m)],
                  d, y, z, w)

(* An append is one of these. *)
LEMMA OneAppended ==
  ASSUME NEW n \in InternalNode, NEW k \in Key, NEW m \in Msg
  PROVE  appendToBuffer(n, k, m) = [n EXCEPT !.buffer = Appended(n.buffer, {k}, m)]
<1>1. appendToBuffer(n, k, m) = [n EXCEPT !.buffer = [n.buffer EXCEPT ![k] = Append(@, m)]]
  BY AppendUpdate
<1>2. n.buffer \in [Key -> Seq(Msg)]
  BY DEF InternalNode
<1>3. [n.buffer EXCEPT ![k] = Append(@, m)] = Appended(n.buffer, {k}, m)
  BY <1>2 DEF Appended
<1> QED
  BY <1>1, <1>3

(* Put and PutIfAbsent. *)
LEMMA PutForm ==
  ASSUME IInv, NEW k \in Key, NEW v \in Value, NEW b \in BOOLEAN, NEW z,
         putLocked(k, v, b, z)
  PROVE  \/ LeafWrite([heap[root].kv EXCEPT ![k] = v], One(heap[root].kv[k] = Absent), z)
         \/ BufferWrite({k}, MsgPut(v, b \/ isNew(k)), One(b \/ isNew(k)), 0, z)
<1> DEFINE n == heap[root]
           new == b \/ isNew(k)
           m == MsgPut(v, new)
           d == One(n.kv[k] = Absent)
           e == One(new)
<1>1. n \in LeafNode \cup InternalNode
  BY DEF IInv, TypeOK
<1>2. m \in Msg
  <2>1. new \in BOOLEAN
    OBVIOUS
  <2> HIDE DEF new
  <2> QED
    BY <2>1, MsgTypes
<1>3. \/ n.leaf /\ \E w : Write(leafInsert(n, k, v), d, 0, z, w)
      \/ ~n.leaf /\ \E w : Write(appendToBuffer(n, k, m), e, 0, z, w)
  BY Zenon DEF putLocked, Buffer
<1> HIDE DEF n, m, d, e
<1>4. CASE n.leaf /\ \E w : Write(leafInsert(n, k, v), d, 0, z, w)
  <2>1. n \in LeafNode /\ v \in Opt
    BY <1>1, <1>4, NodeKinds DEF Opt
  <2>2. /\ leafInsert(n, k, v) = [n EXCEPT !.kv = [n.kv EXCEPT ![k] = v]]
        /\ [n.kv EXCEPT ![k] = v] \in [Key -> Opt]
    BY <2>1, EntryUpdate DEF leafInsert
  <2>3. LeafWrite([n.kv EXCEPT ![k] = v], d, z)
    BY <1>4, <2>2 DEF LeafWrite, n
  <2> QED
    BY <2>3 DEF n, d
<1>5. CASE ~n.leaf /\ \E w : Write(appendToBuffer(n, k, m), e, 0, z, w)
  <2>1. n \in InternalNode
    BY <1>1, <1>5, NodeKinds
  <2>2. appendToBuffer(n, k, m) = [n EXCEPT !.buffer = Appended(n.buffer, {k}, m)]
    BY <1>2, <2>1, OneAppended
  <2>3. {k} \subseteq Key
    OBVIOUS
  <2>4. BufferWrite({k}, m, e, 0, z)
    BY <1>2, <1>5, <2>2, <2>3 DEF BufferWrite, n
  <2> QED
    BY <2>4 DEF m, e
<1> QED
  BY <1>3, <1>4, <1>5

(* Delete. *)
LEMMA DeleteForm ==
  ASSUME IInv, NEW k \in Key, Delete(k)
  PROVE  \/ map[k] = Absent /\ NoWrite(0)
         \/ /\ map[k] # Absent
            /\ \/ LeafWrite([heap[root].kv EXCEPT ![k] = Absent], -1, 1)
               \/ BufferWrite({k}, MsgDelete, -1, 1, 1)
<1> DEFINE n == heap[root]
           d == -1
<1>1. n \in LeafNode \cup InternalNode
  BY DEF IInv, TypeOK
<1>2. map[k] = getFromNode(k)
  BY DEF map
<1>3. \/ map[k] = Absent /\ NoWrite(0)
      \/ map[k] # Absent /\ n.leaf /\ \E w : Write(leafDelete(n, k), d, 0, 1, w)
      \/ map[k] # Absent /\ ~n.leaf /\ \E w : Write(appendToBuffer(n, k, MsgDelete), d, 1, 1, w)
  BY <1>2, Zenon DEF Delete, deleteLocked, found, Buffer
<1> HIDE DEF n, d
<1>4. ASSUME n.leaf, \E w : Write(leafDelete(n, k), d, 0, 1, w)
      PROVE  LeafWrite([n.kv EXCEPT ![k] = Absent], d, 1)
  <2>1. n \in LeafNode /\ Absent \in Opt
    BY <1>1, <1>4, NodeKinds DEF Opt
  <2>2. /\ leafDelete(n, k) = [n EXCEPT !.kv = [n.kv EXCEPT ![k] = Absent]]
        /\ [n.kv EXCEPT ![k] = Absent] \in [Key -> Opt]
    BY <2>1, EntryUpdate DEF leafDelete
  <2> QED
    BY <1>4, <2>2 DEF LeafWrite, n
<1>5. ASSUME ~n.leaf, \E w : Write(appendToBuffer(n, k, MsgDelete), d, 1, 1, w)
      PROVE  BufferWrite({k}, MsgDelete, d, 1, 1)
  <2>1. n \in InternalNode
    BY <1>1, <1>5, NodeKinds
  <2>2. MsgDelete \in Msg /\ {k} \subseteq Key
    BY MsgTypes
  <2>3. appendToBuffer(n, k, MsgDelete) = [n EXCEPT !.buffer = Appended(n.buffer, {k}, MsgDelete)]
    BY <2>1, <2>2, OneAppended
  <2> QED
    BY <1>5, <2>2, <2>3 DEF BufferWrite, n
<1>6. \/ map[k] = Absent /\ NoWrite(0)
      \/ /\ map[k] # Absent
         /\ \/ LeafWrite([n.kv EXCEPT ![k] = Absent], d, 1)
            \/ BufferWrite({k}, MsgDelete, d, 1, 1)
  BY <1>3, <1>4, <1>5
<1> QED
  BY <1>6 DEF n, d

(* Upsert. *)
LEMMA UpsertForm ==
  ASSUME IInv, NEW k \in Key, NEW f \in Fns, Upsert(k, f)
  PROVE  \/ LeafWrite([heap[root].kv EXCEPT ![k] = f[heap[root].kv[k]]],
                      One(heap[root].kv[k] = Absent), 0)
         \/ BufferWrite({k}, MsgUpsert(f), 0, 0, 0)
<1> DEFINE n == heap[root]
           v == f[n.kv[k]]
           m == MsgUpsert(f)
           d == One(n.kv[k] = Absent)
<1>1. n \in LeafNode \cup InternalNode
  BY DEF IInv, TypeOK
<1>2. m \in Msg
  BY MsgTypes
<1>3. \/ n.leaf /\ \E w : Write(leafInsert(n, k, v), d, 0, 0, w)
      \/ ~n.leaf /\ \E w : Write(appendToBuffer(n, k, m), 0, 0, 0, w)
  BY Zenon DEF Upsert, Buffer
<1>4. v \in Opt
  <2>1. n.kv[k] \in Opt
    BY <1>1, NodeKinds
  <2> QED
    BY <2>1, MessagesAssumption DEF Opt
<1> HIDE DEF n, m, d, v
<1>5. CASE n.leaf /\ \E w : Write(leafInsert(n, k, v), d, 0, 0, w)
  <2>1. n \in LeafNode
    BY <1>1, <1>5, NodeKinds
  <2>2. /\ leafInsert(n, k, v) = [n EXCEPT !.kv = [n.kv EXCEPT ![k] = v]]
        /\ [n.kv EXCEPT ![k] = v] \in [Key -> Opt]
    BY <1>4, <2>1, EntryUpdate DEF leafInsert
  <2>3. LeafWrite([n.kv EXCEPT ![k] = v], d, 0)
    BY <1>5, <2>2 DEF LeafWrite, n
  <2> QED
    BY <2>3 DEF n, d, v
<1>6. CASE ~n.leaf /\ \E w : Write(appendToBuffer(n, k, m), 0, 0, 0, w)
  <2>1. n \in InternalNode
    BY <1>1, <1>6, NodeKinds
  <2>2. appendToBuffer(n, k, m) = [n EXCEPT !.buffer = Appended(n.buffer, {k}, m)]
    BY <1>2, <2>1, OneAppended
  <2>3. {k} \subseteq Key
    OBVIOUS
  <2>4. BufferWrite({k}, m, 0, 0, 0)
    BY <1>2, <1>6, <2>2, <2>3 DEF BufferWrite, n
  <2> QED
    BY <2>4 DEF m
<1> QED
  BY <1>3, <1>5, <1>6

(* The keys a DeleteRange removes, and how. *)
LEMMA DeleteRangeForm ==
  ASSUME IInv, Shape, NEW lo \in Nat, NEW hi \in Nat, DeleteRange(lo, hi),
         NEW live, live = {k \in Key : map[k] # Absent /\ lo <= k /\ k < hi}
  PROVE  \/ live = {} /\ NoWrite(0)
         \/ LeafWrite([k \in Key |-> IF k \in live THEN Absent ELSE heap[root].kv[k]],
                      -Cardinality(live), Cardinality(live))
         \/ BufferWrite(live, MsgDelete, -Cardinality(live), Cardinality(live),
                        Cardinality(live))
<1> DEFINE n == heap[root]
           D == DOMAIN materializeRange(lo, hi)
           c == Cardinality(live)
           d == -c
           kv == [k \in Key |-> IF k \in live THEN Absent ELSE n.kv[k]]
<1>1. n \in LeafNode \cup InternalNode
  BY DEF IInv, TypeOK
<1>2. D = live
  <2>1. \A k \in Key : k \in Nat /\ map[k] = getFromNode(k)
    BY ConstantsAssumption DEF map
  <2>2. CASE lo < hi
    <3> DEFINE ks == {k \in Key : lo <= k /\ k < hi}
    <3>1. materializeRange(lo, hi) = PairsOf(ks)
      BY <2>2, RangeMatches
    <3>2. DOMAIN PairsOf(ks) = {x \in ks : getFromNode(x) # Absent}
      BY DEF PairsOf
    <3>3. {x \in ks : getFromNode(x) # Absent} = live
      BY <2>1
    <3> QED
      BY <3>1, <3>2, <3>3
  <2>3. CASE ~(lo < hi)
    <3>1. materializeRange(lo, hi) = <<>>
      BY <2>3, RangeMatches
    <3>2. DOMAIN <<>> = {}
      OBVIOUS
    <3>3. live = {}
      BY <2>1, <2>3
    <3> QED
      BY <3>1, <3>2, <3>3
  <2> QED
    BY <2>2, <2>3
<1>3. \/ live = {} /\ NoWrite(0)
      \/ n.leaf /\ \E w : Write([n EXCEPT !.kv = kv], d, 0, c, w)
      \/ ~n.leaf /\ \E w : Write([n EXCEPT !.buffer = Appended(n.buffer, live, MsgDelete)],
                                 d, c, c, w)
  <2>1. \/ D = {} /\ NoWrite(0)
        \/ n.leaf /\ \E w : Write([n EXCEPT !.kv = [k \in Key |-> IF k \in D THEN Absent ELSE n.kv[k]]],
                                  -Cardinality(D), 0, Cardinality(D), w)
        \/ ~n.leaf /\ \E w : Write([n EXCEPT !.buffer = Appended(n.buffer, D, MsgDelete)],
                                   -Cardinality(D), Cardinality(D), Cardinality(D), w)
    BY Zenon DEF DeleteRange, Buffer, Appended
  <2> HIDE DEF D
  <2> QED
    BY <1>2, <2>1
<1>4. kv \in [Key -> Opt]
  <2>1. n.kv \in [Key -> Opt]
    BY <1>1, NodeKinds
  <2> QED
    BY <2>1 DEF Opt
<1>5. live \subseteq Key /\ MsgDelete \in Msg
  BY MsgTypes
<1> HIDE DEF c, d, kv
<1>6. \/ live = {} /\ NoWrite(0)
      \/ LeafWrite(kv, d, c)
      \/ BufferWrite(live, MsgDelete, d, c, c)
  BY <1>3, <1>4, <1>5 DEF LeafWrite, BufferWrite, n
<1> QED
  BY <1>6 DEF n, c, d, kv

-----------------------------------------------------------------------------
(* The tree is an ordered map. *)

(* What the writes do to the map. *)
LEMMA LeafWriteMap ==
  ASSUME IInv, IInv', Shape, NEW kv, NEW d, NEW z, LeafWrite(kv, d, z)
  PROVE  /\ Abstract!Write(kv, z)
         /\ \A k \in Key : map[k] = heap[root].kv[k]
<1> DEFINE n == [heap[root] EXCEPT !.kv = kv]
           y == 0
<1>1. heap[root] \in LeafNode \cup InternalNode
  BY DEF IInv, TypeOK
<1>2. heap[root].leaf /\ kv \in [Key -> Opt]
  BY DEF LeafWrite
<1>3. PICK w : Write(n, d, y, z, w)
  BY DEF LeafWrite
<1>4. /\ n.leaf = heap[root].leaf /\ n.pivots = heap[root].pivots
      /\ n.children = heap[root].children /\ n.kv = kv
  BY <1>1, NodeParts
<1>5. kv = [k \in Key |-> kv[k]]
  BY <1>2
<1> HIDE DEF n, y
<1>6. \A k \in Key : n.leaf /\ kv[k] = n.kv[k]
  BY <1>2, <1>4
<1>7. Abstract!Write(kv, z)
  BY <1>3, <1>4, <1>5, <1>6, MapWritten
<1>8. RootWritten
  BY <1>3, <1>4, WriteRoot
<1> QED
  BY <1>2, <1>7, <1>8, KeyWritten

(***************************************************************************)
(* A write that buffers a message for some keys applies it to these keys   *)
(* of the map.                                                             *)
(***************************************************************************)
LEMMA BufferWriteMap ==
  ASSUME IInv, IInv', Shape, NEW K, NEW m, NEW d, NEW y, NEW z, BufferWrite(K, m, d, y, z)
  PROVE  Abstract!Write([k \in Key |-> IF k \in K THEN Apply(m, map[k]) ELSE map[k]], z)
<1> DEFINE buf == Appended(heap[root].buffer, K, m)
           n == [heap[root] EXCEPT !.buffer = buf]
           f == [k \in Key |-> IF k \in K THEN Apply(m, map[k]) ELSE map[k]]
<1>1. heap[root] \in LeafNode \cup InternalNode
  BY DEF IInv, TypeOK
<1>2. ~heap[root].leaf /\ m \in Msg
  BY DEF BufferWrite
<1>3. PICK w : Write(n, d, y, z, w)
  BY DEF BufferWrite
<1>4. /\ n.leaf = heap[root].leaf /\ n.pivots = heap[root].pivots
      /\ n.children = heap[root].children /\ n.kv = heap[root].kv /\ n.buffer = buf
  BY <1>1, NodeParts
<1>5. \A k \in Key : buf[k] = IF k \in K THEN Append(heap[root].buffer[k], m)
                                          ELSE heap[root].buffer[k]
  BY DEF Appended
<1>6. f = [k \in Key |-> f[k]] /\ \A k \in Key : f[k] = IF k \in K THEN Apply(m, map[k]) ELSE map[k]
  OBVIOUS
<1> HIDE DEF n, buf, f
<1>7. \A k \in Key :
        \/ n.leaf /\ f[k] = n.kv[k]
        \/ /\ n.kv[k] = heap[root].kv[k] /\ n.buffer[k] = heap[root].buffer[k]
           /\ f[k] = map[k]
        \/ /\ ~n.leaf
           /\ \E e \in Msg : /\ n.buffer[k] = Append(heap[root].buffer[k], e)
                             /\ f[k] = Apply(e, map[k])
  BY <1>2, <1>4, <1>5, <1>6
<1>8. Abstract!Write(f, z)
  BY <1>3, <1>4, <1>6, <1>7, MapWritten
<1> QED
  BY <1>8 DEF f

(***************************************************************************)
(* A write that finds nothing to do leaves the map as it is.               *)
(***************************************************************************)
LEMMA NoWriteMap ==
  ASSUME IInv, IInv', Shape, NEW z, NoWrite(z)
  PROVE  Abstract!Write(map, z)
<1> DEFINE n == heap[root]
           x == 0
           w == <<>>
<1>1. Write(n, x, x, z, w)
  BY DEF NoWrite
<1>2. map = [k \in Key |-> map[k]]
  BY DEF map
<1>3. /\ n.leaf = heap[root].leaf /\ n.pivots = heap[root].pivots
      /\ n.children = heap[root].children
      /\ \A k \in Key : n.kv[k] = heap[root].kv[k] /\ n.buffer[k] = heap[root].buffer[k]
  OBVIOUS
<1> HIDE DEF n, x, w
<1> QED
  BY <1>1, <1>2, <1>3, MapWritten

(* A tree that is one new leaf maps nothing. *)
LEMMA NewLeafMapsNothing ==
  ASSUME NEW k \in Key
  PROVE  GetIn([a \in {<<0, 0>>} |-> newLeaf], <<0, 0>>, k) = Absent
<1> DEFINE z == <<0, 0>>
           h == [a \in {z} |-> newLeaf]
<1>1. ShapeIn(h, z) /\ z[1] = 0 /\ h[z] = newLeaf /\ DOMAIN h = {z}
  BY SingleLeafShape
<1> HIDE DEF h, z
<1>2. GetIn(h, z, k) = Vals(h, z, k)[0]
  BY <1>1, GetIsVal
<1>3. Vals(h, z, k)[0] = EntryOf(h, k) /\ Owner(h, k, 0) = z
  BY <1>1, ValsProperties, Owners
<1>4. EntryOf(h, k) = Absent
  BY <1>1, <1>3 DEF EntryOf, newLeaf, NoKeys
<1> QED
  BY <1>2, <1>3, <1>4 DEF h, z

(* Every write is the write of the map with the same name and answer. *)
LEMMA WriteImplements ==
  ASSUME IInv, IInv', Shape
  PROVE  /\ \A k \in Key, v \in Puts : Put(k, v) => Abstract!Put(k, v)
         /\ \A k \in Key, v \in Puts : PutIfAbsent(k, v) => Abstract!PutIfAbsent(k, v)
         /\ \A k \in Key : Delete(k) => Abstract!Delete(k)
         /\ \A k \in Key, f \in Fns : Upsert(k, f) => Abstract!Upsert(k, f)
<1>0. DOMAIN map = Key /\ map = [k \in Key |-> map[k]] /\ DOMAIN heap[root].kv = Key
      /\ heap[root].kv \in [Key -> Opt]
  <2>1. heap[root].kv \in [Key -> Opt]
    BY NodeKinds DEF IInv, TypeOK
  <2> QED
    BY <2>1 DEF map
<1>1. ASSUME NEW k \in Key, NEW v \in Puts, NEW b \in BOOLEAN, NEW z, putLocked(k, v, b, z)
      PROVE  Abstract!Write([map EXCEPT ![k] = v], z)
  <2> DEFINE kv == [heap[root].kv EXCEPT ![k] = v]
             d == One(heap[root].kv[k] = Absent)
             new == b \/ isNew(k)
             m == MsgPut(v, new)
             K == {k}
             e == One(new)
  <2>1. v \in Value
    BY ConstantsAssumption
  <2>2. LeafWrite(kv, d, z) \/ BufferWrite(K, m, e, 0, z)
    BY <1>1, <2>1, PutForm
  <2>3. m.kind = "put" /\ m.val = v
    BY DEF MsgPut
  <2> HIDE DEF d, m, e
  <2>4. CASE LeafWrite(kv, d, z)
    <3> HIDE DEF kv
    <3>1. Abstract!Write(kv, z) /\ \A j \in Key : map[j] = heap[root].kv[j]
      BY <2>4, LeafWriteMap
    <3>2. kv = [map EXCEPT ![k] = v]
      BY <1>0, <3>1 DEF kv
    <3> QED
      BY <3>1, <3>2
  <2>5. CASE BufferWrite(K, m, e, 0, z)
    <3> DEFINE y == 0
    <3>0. BufferWrite(K, m, e, y, z)
      BY <2>5
    <3> HIDE DEF K, y
    <3>1. Abstract!Write([j \in Key |-> IF j \in K THEN Apply(m, map[j]) ELSE map[j]], z)
      BY <3>0, BufferWriteMap
    <3>2. \A o : Apply(m, o) = v
      BY <2>3 DEF Apply
    <3>3. [j \in Key |-> IF j \in K THEN Apply(m, map[j]) ELSE map[j]] = [map EXCEPT ![k] = v]
      BY <1>0, <3>2 DEF K
    <3> QED
      BY <3>1, <3>3
  <2> QED
    BY <2>2, <2>4, <2>5
<1>2. ASSUME NEW k \in Key, NEW v \in Puts, Put(k, v) PROVE Abstract!Put(k, v)
  BY <1>1, <1>2 DEF Put, Abstract!Put
<1>3. ASSUME NEW k \in Key, NEW v \in Puts, PutIfAbsent(k, v) PROVE Abstract!PutIfAbsent(k, v)
  <2>1. map[k] = getFromNode(k)
    BY DEF map
  <2>2. \/ map[k] # Absent /\ NoWrite(0)
        \/ map[k] = Absent /\ putLocked(k, v, TRUE, 1)
    BY <1>3, <2>1 DEF PutIfAbsent
  <2>3. NoWrite(0) => Abstract!Write(map, 0)
    BY NoWriteMap
  <2>4. putLocked(k, v, TRUE, 1) => Abstract!Write([map EXCEPT ![k] = v], 1)
    BY <1>1
  <2> QED
    BY <2>2, <2>3, <2>4 DEF Abstract!PutIfAbsent
<1>4. ASSUME NEW k \in Key, Delete(k) PROVE Abstract!Delete(k)
  <2> DEFINE kv == [heap[root].kv EXCEPT ![k] = Absent]
             d == -1
             one == 1
             K == {k}
             m == MsgDelete
  <2>1. \/ map[k] = Absent /\ NoWrite(0)
        \/ map[k] # Absent /\ (LeafWrite(kv, d, one) \/ BufferWrite(K, m, d, one, one))
    BY <1>4, DeleteForm
  <2> HIDE DEF d, one, m
  <2>2. CASE map[k] = Absent /\ NoWrite(0)
    <3>1. Abstract!Write(map, 0)
      BY <2>2, NoWriteMap
    <3>2. map = [map EXCEPT ![k] = Absent]
      BY <1>0, <2>2
    <3> QED
      BY <2>2, <3>1, <3>2 DEF Abstract!Delete
  <2>3. CASE map[k] # Absent /\ LeafWrite(kv, d, one)
    <3> HIDE DEF kv
    <3>1. Abstract!Write(kv, one) /\ \A j \in Key : map[j] = heap[root].kv[j]
      BY <2>3, LeafWriteMap
    <3>2. kv = [map EXCEPT ![k] = Absent]
      BY <1>0, <3>1 DEF kv
    <3> QED
      BY <2>3, <3>1, <3>2 DEF Abstract!Delete, one
  <2>4. CASE map[k] # Absent /\ BufferWrite(K, m, d, one, one)
    <3> HIDE DEF K
    <3>1. Abstract!Write([j \in Key |-> IF j \in K THEN Apply(m, map[j]) ELSE map[j]], one)
      BY <2>4, BufferWriteMap
    <3>2. \A o : Apply(m, o) = Absent
      BY DEF Apply, m, MsgDelete
    <3>3. [j \in Key |-> IF j \in K THEN Apply(m, map[j]) ELSE map[j]] = [map EXCEPT ![k] = Absent]
      BY <1>0, <3>2 DEF K
    <3> QED
      BY <2>4, <3>1, <3>3 DEF Abstract!Delete, one
  <2> QED
    BY <2>1, <2>2, <2>3, <2>4
<1>5. ASSUME NEW k \in Key, NEW f \in Fns, Upsert(k, f) PROVE Abstract!Upsert(k, f)
  <2> DEFINE kv == [heap[root].kv EXCEPT ![k] = f[heap[root].kv[k]]]
             d == One(heap[root].kv[k] = Absent)
             K == {k}
             m == MsgUpsert(f)
             x == 0
  <2>1. LeafWrite(kv, d, x) \/ BufferWrite(K, m, x, x, x)
    BY <1>5, UpsertForm
  <2>2. \A o : Apply(m, o) = f[o]
    BY DEF Apply, MsgUpsert
  <2> HIDE DEF d, m, x
  <2>3. CASE LeafWrite(kv, d, x)
    <3> HIDE DEF kv
    <3>1. Abstract!Write(kv, x) /\ \A j \in Key : map[j] = heap[root].kv[j]
      BY <2>3, LeafWriteMap
    <3>2. kv = [map EXCEPT ![k] = f[map[k]]]
      BY <1>0, <3>1 DEF kv
    <3> QED
      BY <3>1, <3>2 DEF Abstract!Upsert, x
  <2>4. CASE BufferWrite(K, m, x, x, x)
    <3> HIDE DEF K
    <3>1. Abstract!Write([j \in Key |-> IF j \in K THEN Apply(m, map[j]) ELSE map[j]], x)
      BY <2>4, BufferWriteMap
    <3>2. [j \in Key |-> IF j \in K THEN Apply(m, map[j]) ELSE map[j]]
            = [map EXCEPT ![k] = f[map[k]]]
      BY <1>0, <2>2 DEF K
    <3> QED
      BY <3>1, <3>2 DEF Abstract!Upsert, x
  <2> QED
    BY <2>1, <2>3, <2>4
<1> QED
  BY <1>2, <1>3, <1>4, <1>5

(* So is DeleteRange. *)
LEMMA DeleteRangeImplements ==
  ASSUME IInv, IInv', Shape, NEW lo \in Nat, NEW hi \in Nat, DeleteRange(lo, hi)
  PROVE  Abstract!DeleteRange(lo, hi)
<1> DEFINE live == {k \in Key : map[k] # Absent /\ lo <= k /\ k < hi}
           c == Cardinality(live)
           d == -c
           kv == [k \in Key |-> IF k \in live THEN Absent ELSE heap[root].kv[k]]
           m == MsgDelete
           f == [k \in Key |-> IF k \in live THEN Absent ELSE map[k]]
<1>1. \/ live = {} /\ NoWrite(0)
      \/ LeafWrite(kv, d, c)
      \/ BufferWrite(live, m, d, c, c)
  <2> DEFINE S == live
  <2>1. S = {k \in Key : map[k] # Absent /\ lo <= k /\ k < hi}
    OBVIOUS
  <2> HIDE DEF S
  <2>2. \/ S = {} /\ NoWrite(0)
        \/ LeafWrite([k \in Key |-> IF k \in S THEN Absent ELSE heap[root].kv[k]],
                     -Cardinality(S), Cardinality(S))
        \/ BufferWrite(S, MsgDelete, -Cardinality(S), Cardinality(S), Cardinality(S))
    BY <2>1, DeleteRangeForm
  <2> QED
    BY ONLY <2>2, Zenon DEF S, kv, d, c, m, live
<1>2. live = {} => c = 0
  BY FS_EmptySet
<1>3. map = [k \in Key |-> map[k]]
  BY DEF map
<1>4. {k \in {x \in Key : map[x] # Absent} : lo <= k /\ k < hi} = live
  OBVIOUS
<1> HIDE DEF live, c, d, m
<1>5. Abstract!Write(f, c)
  <2>1. CASE live = {} /\ NoWrite(0)
    <3>1. Abstract!Write(map, 0)
      BY <2>1, NoWriteMap
    <3>2. map = f
      BY <1>3, <2>1
    <3> QED
      BY <1>2, <2>1, <3>1, <3>2
  <2>2. CASE LeafWrite(kv, d, c)
    <3> HIDE DEF kv, f
    <3>1. Abstract!Write(kv, c) /\ \A j \in Key : map[j] = heap[root].kv[j]
      BY <2>2, LeafWriteMap
    <3>2. kv = f
      BY <3>1 DEF kv, f
    <3> QED
      BY <3>1, <3>2
  <2>3. CASE BufferWrite(live, m, d, c, c)
    <3>1. Abstract!Write([j \in Key |-> IF j \in live THEN Apply(m, map[j]) ELSE map[j]], c)
      BY <2>3, BufferWriteMap
    <3>2. \A o : Apply(m, o) = Absent
      BY DEF Apply, m, MsgDelete
    <3>3. [j \in Key |-> IF j \in live THEN Apply(m, map[j]) ELSE map[j]] = f
      BY <3>2
    <3> QED
      BY <3>1, <3>3
  <2> QED
    BY <1>1, <2>1, <2>2, <2>3
<1>6. Abstract!Write([k \in Key |-> IF k \in live THEN Absent ELSE map[k]], Cardinality(live))
  BY <1>5 DEF c
<1>7. {k \in Abstract!Live : lo <= k /\ k < hi} = live
  BY <1>4 DEF Abstract!Live
<1> QED
  BY ONLY <1>6, <1>7 DEF Abstract!DeleteRange, Cardinality, Abstract!Cardinality

(* While the lock is free there is nothing to report. *)
AtRest == locked = FALSE => result = 0

(***************************************************************************)
(* The tree implements OrderedMap, whatever the capacities: each of Put,   *)
(* PutIfAbsent, Delete, DeleteRange, Upsert and Clear (tree.go:101-400)    *)
(* changes what Get returns as the operation of a map does and reports the *)
(* same result, and no flush and no split (flush.go) changes what any key  *)
(* maps to.                                                                *)
(***************************************************************************)
THEOREM TreeRefinesOrderedMap == Spec => ImplementsOrderedMap
<1> DEFINE J == IInv /\ Shape /\ AtRest
<1>1. Init => J
  BY InitIInv, SingleLeafShape DEF Init, Shape, AtRest
<1>2. J /\ [Next]_vars => J'
  <2> SUFFICES ASSUME IInv, Shape, AtRest, [Next]_vars PROVE (IInv /\ Shape /\ AtRest)'
    OBVIOUS
  <2>1. (IInv /\ Shape)'
    BY NextIInv, NextShape DEF Shape
  <2>2. AtRest'
    <3>1. UNCHANGED vars => AtRest'
      BY DEF vars, AtRest
    <3>2. ASSUME locked' = TRUE PROVE AtRest'
      BY <3>2 DEF AtRest
    <3>3. ASSUME UNCHANGED <<locked, result>> PROVE AtRest'
      BY <3>3 DEF AtRest
    <3>4. Next => \/ locked' = TRUE \/ UNCHANGED <<locked, result>> \/ result' = 0
      BY Zenon DEF Next, Put, PutIfAbsent, putLocked, Delete, deleteLocked, DeleteRange, Upsert,
             NoWrite, Buffer, Write, Clear, Continue, FlushToLeaf, FlushToBuffer,
             SplitChild, SplitRoot, Unlock
    <3>5. result' = 0 => AtRest'
      BY DEF AtRest
    <3> QED
      BY <3>1, <3>2, <3>3, <3>4, <3>5
  <2> QED
    BY <2>1, <2>2
<1>3. Init => Abstract!Init
  <2> SUFFICES ASSUME Init PROVE Abstract!Init
    OBVIOUS
  <2>1. \A k \in Key : map[k] = Absent
    BY MapIs, NewLeafMapsNothing DEF Init
  <2>2. map = [k \in Key |-> map[k]]
    BY DEF map
  <2> QED
    BY <2>1, <2>2 DEF Init, Abstract!Init
<1>4. J /\ J' /\ [Next]_vars => [Abstract!Next]_(Abstract!vars)
  <2> SUFFICES ASSUME IInv, Shape, AtRest, IInv', Shape', [Next]_vars
               PROVE  [Abstract!Next]_(Abstract!vars)
    OBVIOUS
  <2>0. map = [k \in Key |-> map[k]] /\ map' = [k \in Key |-> map'[k]]
    BY DEF map
  <2>1. ASSUME NEW k \in Key, NEW v \in Puts, Put(k, v) \/ PutIfAbsent(k, v)
        PROVE  Abstract!Next
    BY <2>1, WriteImplements DEF Abstract!Next
  <2>2. ASSUME NEW k \in Key, Delete(k) PROVE Abstract!Next
    BY <2>2, WriteImplements DEF Abstract!Next
  <2>3. ASSUME NEW r \in Ranges, DeleteRange(r[1], r[2]) PROVE Abstract!Next
    <3>1. r[1] \in Nat /\ r[2] \in Nat
      BY ConstantsAssumption
    <3>2. Abstract!DeleteRange(r[1], r[2])
      BY <2>3, <3>1, DeleteRangeImplements
    <3> QED
      BY <3>2 DEF Abstract!Next
  <2>4. ASSUME NEW k \in Key, NEW f \in Fns, Upsert(k, f) PROVE Abstract!Next
    BY <2>4, WriteImplements DEF Abstract!Next
  <2>5. ASSUME Clear PROVE Abstract!Next
    <3>1. /\ ~locked /\ locked' = TRUE /\ result' = result /\ result = 0
          /\ heap' = [a \in {<<0, 0>>} |-> newLeaf] /\ root' = <<0, 0>>
      BY <2>5 DEF Clear, AtRest, IInv, TypeOK
    <3>2. \A k \in Key : map'[k] = Absent
      BY <3>1, MapIs, NewLeafMapsNothing
    <3>3. map' = [k \in Key |-> Absent]
      BY <2>0, <3>2
    <3>4. Abstract!Clear
      BY <3>1, <3>3 DEF Abstract!Clear, Abstract!Write
    <3> QED
      BY <3>4 DEF Abstract!Next
  <2>6. ASSUME FlushToLeaf \/ FlushToBuffer \/ SplitChild \/ SplitRoot
        PROVE  UNCHANGED Abstract!vars
    <3>1. \A k \in Key : map'[k] = map[k]
      BY <2>6, RestructureKeepsGet, MapIs DEF Shape
    <3>2. map' = map
      BY <2>0, <3>1
    <3>3. UNCHANGED <<locked, result>>
      BY <2>6 DEF FlushToLeaf, FlushToBuffer, SplitChild, SplitRoot
    <3> QED
      BY <3>2, <3>3 DEF Abstract!vars
  <2>7. ASSUME Unlock PROVE Abstract!Next
    <3>1. locked /\ locked' = FALSE /\ result' = 0 /\ heap' = heap /\ root' = root
      BY <2>7 DEF Unlock, tree
    <3>2. \A k \in Key : map'[k] = map[k]
      BY <3>1, MapIs
    <3>3. map' = map
      BY <2>0, <3>2
    <3>4. Abstract!Return
      BY <3>1, <3>3 DEF Abstract!Return
    <3> QED
      BY <3>4 DEF Abstract!Next
  <2>8. ASSUME UNCHANGED vars PROVE UNCHANGED Abstract!vars
    <3>1. heap' = heap /\ root' = root /\ locked' = locked /\ result' = result
      BY <2>8 DEF vars
    <3>2. \A k \in Key : map'[k] = map[k]
      BY <3>1, MapIs
    <3>3. map' = map
      BY <2>0, <3>2
    <3> QED
      BY <3>1, <3>3 DEF Abstract!vars
  <2> QED
    BY <2>1, <2>2, <2>3, <2>4, <2>5, <2>6, <2>7, <2>8 DEF Next, Continue
<1> QED
  <2> HIDE DEF J
  <2> QED
    BY <1>1, <1>2, <1>3, <1>4, PTL DEF Spec, ImplementsOrderedMap, Abstract!Spec
=============================================================================
