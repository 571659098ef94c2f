---------------------------- MODULE BETreeProofs ----------------------------
(***************************************************************************)
(* What holds of BETree for every key set, value set and every fanout,     *)
(* bufferCap and leafCap that the options allow: its types (TypeCorrect),  *)
(* the calls of a cascade (CallsSound), the search tree (SearchTreeKept)   *)
(* and the number of children (FanoutKept).                                *)
(***************************************************************************)
EXTENDS BETree, MessageLemmas

-----------------------------------------------------------------------------
(* The operators. *)

(* The messages of a buffer are finitely many. *)
LEMMA SlotsFinite ==
  ASSUME NEW buf \in [Key -> Seq(Msg)]
  PROVE  /\ IsFiniteSet(Slots(buf))
         /\ NumMsgs(buf) \in Nat
<1> DEFINE slots(k) == {k} \X DOMAIN buf[k]
           U == {slots(k) : k \in Key}
<1>1. ASSUME NEW k \in Key PROVE IsFiniteSet(slots(k))
  <2>1. buf[k] \in Seq(Msg)
    OBVIOUS
  <2>2. DOMAIN buf[k] = 1..Len(buf[k]) /\ Len(buf[k]) \in Int
    BY <2>1, LenProperties, SMT
  <2>3. IsFiniteSet(DOMAIN buf[k])
    BY <2>2, FS_Interval
  <2>4. QED
    BY <2>3, FS_Singleton, FS_Product
<1>2. IsFiniteSet(U)
  <2>1. IsFiniteSet(Key)
    BY ConstantsAssumption
  <2> DEFINE f == [k \in Key |-> slots(k)]
  <2>2. f \in Surjection(Key, U)
    BY DEF Surjection
  <2> HIDE DEF f, U
  <2>3. QED
    BY <2>1, <2>2, FS_Surjection
<1>3. IsFiniteSet(UNION U)
  <2>1. \A t \in U : IsFiniteSet(t)
    BY <1>1
  <2> HIDE DEF U
  <2>2. QED
    BY <1>2, <2>1, FS_UNION
<1>4. Slots(buf) = UNION U
  BY DEF Slots
<1>5. QED
  BY <1>3, <1>4, FS_CardinalityType DEF NumMsgs

(* The child flushNode picks is one of the node's children. *)
LEMMA HeaviestIsChild ==
  ASSUME NEW n, n.buffer \in [Key -> Seq(Msg)],
         NEW A, n.children \in Seq(A), Len(n.children) >= 1
  PROVE  heaviest(n) \in 1..Len(n.children)
<1> DEFINE m == Len(n.children)
           f == [i \in 1..m |-> Load(n, i)]
           Best(i) == \A j \in 1..m :
                        IF j < i THEN Load(n, j) < Load(n, i)
                                 ELSE Load(n, j) <= Load(n, i)
<1>1. m \in Nat /\ m >= 1 /\ DOMAIN n.children = 1..m
  BY LenProperties
<1>2. \A i : Load(n, i) \in Nat
  <2>1. \A i : Bucket(n, i) \in [Key -> Seq(Msg)]
    BY EmptySeq DEF Bucket
  <2>2. QED
    BY <2>1, SlotsFinite DEF Load
<1> HIDE DEF m
<1>3. f \in [1..(m-1)+1 -> Nat] /\ m - 1 \in Nat /\ (m-1)+1 = m
  BY <1>1, <1>2, SMT
<1>4. \E i \in 1..m : \A j \in 1..m : IF j < i THEN f[j] < f[i] ELSE f[j] <= f[i]
  <2> HIDE DEF f
  <2>1. \E i \in 1..(m-1)+1 : \A j \in 1..(m-1)+1 :
          IF j < i THEN f[j] < f[i] ELSE f[j] <= f[i]
    BY ONLY <1>3, FirstMaximum
  <2>2. QED
    BY <1>3, <2>1
<1>5. \E i \in 1..m : Best(i)
  BY <1>4
<1>6. heaviest(n) = CHOOSE i \in 1..m : Best(i)
  BY <1>1 DEF heaviest
<1> HIDE DEF Best
<1>7. QED
  BY <1>5, <1>6 DEF m

(* The pivot of a leaf with at least two entries is one of its keys, and   *)
(* not the first.                                                          *)
LEMMA MiddleKey ==
  ASSUME NEW S, S \subseteq Key, Cardinality(S) >= 2
  PROVE  LET mid == CHOOSE p \in S : Cardinality({k \in S : k < p}) =
                                       Cardinality(S) \div 2
         IN  mid \in S /\ \E k \in S : k < mid
<1>1. IsFiniteSet(S) /\ S \subseteq Nat
  BY ConstantsAssumption, FS_Subset
<1> DEFINE c == Cardinality(S)
<1>2. c \in Nat /\ c >= 2
  BY <1>1, FS_CardinalityType
<1> HIDE DEF c
<1>3. c \div 2 \in Nat /\ c \div 2 < c /\ c \div 2 >= 1
  BY <1>2, SMT
<1>4. \E p \in S : Cardinality({k \in S : k < p}) = c \div 2
  BY <1>1, <1>3, RankExists DEF c
<1>5. PICK mid \in S : /\ mid = CHOOSE p \in S : Cardinality({k \in S : k < p}) = c \div 2
                       /\ Cardinality({k \in S : k < mid}) = c \div 2
  BY <1>4
<1>6. {k \in S : k < mid} # {}
  BY <1>3, <1>5, FS_EmptySet
<1>7. QED
  BY <1>5, <1>6 DEF c

-----------------------------------------------------------------------------
(* The inductive invariant. *)

(* The children of a node exist and are one level below it. *)
Closed ==
  \A a \in DOMAIN heap : \A i \in 1..Len(heap[a].children) :
    /\ heap[a].children[i] \in DOMAIN heap
    /\ heap[a].children[i][1] = a[1] - 1

(***************************************************************************)
(* The inductive invariant behind TypeOK.  A split keeps a node's shape    *)
(* only if the index it was given is that of an existing child, hence      *)
(* CallsValid; and the index survives the calls in between only because    *)
(* they change nodes of lower levels, hence Closed.                        *)
(***************************************************************************)
IInv == TypeOK /\ CallsValid /\ Closed

-----------------------------------------------------------------------------
(* Nodes *)

(***************************************************************************)
(* The flag leaf tells which of the two kinds a node is of, and its fields *)
(* have their types either way.                                            *)
(***************************************************************************)
LEMMA NodeKinds ==
  ASSUME NEW n \in LeafNode \cup InternalNode
  PROVE  /\ n.leaf => n \in LeafNode
         /\ ~n.leaf => n \in InternalNode
         /\ n.leaf \in BOOLEAN
         /\ n.buffer \in [Key -> Seq(Msg)]
         /\ n.kv \in [Key -> Opt]
         /\ n.pivots \in Seq(Key)
         /\ n.children \in Seq(Addr)
<1>1. NoMsgs \in [Key -> Seq(Msg)] /\ NoKeys \in [Key -> Opt]
  BY EmptySeq DEF NoMsgs, NoKeys, Opt
<1>2. <<>> \in Seq(Key) /\ <<>> \in Seq(Addr)
  BY EmptySeq
<1>3. CASE n \in LeafNode
  BY <1>1, <1>2, <1>3 DEF LeafNode
<1>4. CASE n \in InternalNode
  BY <1>1, <1>4 DEF InternalNode
<1>5. QED
  BY <1>3, <1>4

(* Changing the entries of a leaf, or the buffer of an internal node. *)
LEMMA LeafWithEntries ==
  ASSUME NEW n \in LeafNode, NEW kv \in [Key -> Opt]
  PROVE  /\ [n EXCEPT !.kv = kv] \in LeafNode
         /\ [n EXCEPT !.kv = kv].leaf
         /\ [n EXCEPT !.kv = kv].children = n.children
         /\ [n EXCEPT !.kv = kv].pivots = n.pivots
  BY DEF LeafNode

(***************************************************************************)
(* A new buffer changes nothing else of an internal node.                  *)
(***************************************************************************)
LEMMA NodeWithBuffer ==
  ASSUME NEW n \in InternalNode, NEW buf \in [Key -> Seq(Msg)]
  PROVE  /\ [n EXCEPT !.buffer = buf] \in InternalNode
         /\ ~[n EXCEPT !.buffer = buf].leaf
         /\ [n EXCEPT !.buffer = buf].children = n.children
         /\ [n EXCEPT !.buffer = buf].pivots = n.pivots
         /\ [n EXCEPT !.buffer = buf].buffer = buf
  BY DEF InternalNode

(***************************************************************************)
(* A node made by Internal is one, with the fields it was given.           *)
(***************************************************************************)
LEMMA InternalType ==
  ASSUME NEW pivots \in Seq(Key), NEW children \in Seq(Addr),
         NEW buf \in [Key -> Seq(Msg)]
  PROVE  /\ Internal(pivots, children, buf) \in InternalNode
         /\ Internal(pivots, children, buf).children = children
         /\ Internal(pivots, children, buf).pivots = pivots
         /\ ~Internal(pivots, children, buf).leaf
  BY DEF Internal, InternalNode

(***************************************************************************)
(* The leaf that New and Clear make is a leaf.                             *)
(***************************************************************************)
LEMMA NewLeafType == newLeaf \in LeafNode
<1>1. NoKeys \in [Key -> Opt]
  BY DEF NoKeys, Opt
<1>2. QED
  BY <1>1 DEF newLeaf, LeafNode

(***************************************************************************)
(* The calls that a cascade can leave to be made are frames.               *)
(***************************************************************************)
LEMMA FrameTypes ==
  ASSUME NEW n \in Addr, NEW i \in Nat
  PROVE  /\ FlushNode(n) \in Frame
         /\ CheckChild(n, i) \in Frame
         /\ CheckRoot \in Frame
  BY DEF FlushNode, CheckChild, CheckRoot, Frame, Addr

-----------------------------------------------------------------------------
(* The first step of a write *)

(***************************************************************************)
(* A new tree satisfies the invariant.                                     *)
(***************************************************************************)
LEMMA InitIInv == Init => IInv
<1>1. SUFFICES ASSUME Init PROVE IInv
  OBVIOUS
<1>2. DOMAIN heap = {<<0, 0>>} /\ heap[<<0, 0>>] = newLeaf /\ <<0, 0>> \in Addr
  BY <1>1 DEF Init, Addr
<1>3. newLeaf.leaf /\ newLeaf.children = <<>> /\ Len(<<>>) = 0
  BY DEF newLeaf
<1>4. TypeOK
  <2>1. root \in DOMAIN heap /\ size \in Int /\ pendingDeletes \in Int
    BY <1>1, <1>2 DEF Init
  <2>2. locked \in BOOLEAN /\ result \in Nat /\ todo \in Seq(Frame)
    BY <1>1, EmptySeq DEF Init
  <2>3. \A a \in DOMAIN heap : a = <<0, 0>>
    BY <1>2
  <2>4. QED
    BY <1>2, <1>3, <2>1, <2>2, <2>3, NewLeafType DEF TypeOK
<1>5. Closed
  BY <1>2, <1>3 DEF Closed
<1>6. CallsValid
  BY <1>1, <1>3 DEF CallsValid, Init
<1>7. QED
  BY <1>4, <1>5, <1>6 DEF IInv

(* What a write may leave to be done. *)
Work(n, work) ==
  \/ work = <<>>
  \/ work = <<CheckRoot>>
  \/ /\ work = <<FlushNode(root), CheckRoot>>
     /\ ~n.leaf /\ NumMsgs(n.buffer) > bufferCap

(***************************************************************************)
(* A write that changes the entries or the buffer of the root, and nothing *)
(* of its shape, keeps the invariant.                                      *)
(***************************************************************************)
LEMMA WriteIInv ==
  ASSUME IInv,
         NEW n \in LeafNode \cup InternalNode, n.leaf = heap[root].leaf,
         n.pivots = heap[root].pivots, n.children = heap[root].children,
         NEW dSize \in Int, NEW dDeletes \in Int, NEW answer \in Nat,
         NEW work, Work(n, work),
         Write(n, dSize, dDeletes, answer, work)
  PROVE  IInv'
<1>1. /\ heap' = [heap EXCEPT ![root] = n]
      /\ size' = size + dSize /\ pendingDeletes' = pendingDeletes + dDeletes
      /\ locked' = TRUE /\ result' = answer /\ todo' = work /\ root' = root
  BY DEF Write
<1>2. root \in DOMAIN heap /\ root \in Addr
  BY DEF IInv, TypeOK
<1>3. DOMAIN heap' = DOMAIN heap
  BY <1>1
<1>4. heap'[root] = n /\ \A a \in DOMAIN heap : a # root => heap'[a] = heap[a]
  BY <1>1, <1>2
<1>5. \A a \in DOMAIN heap :
        /\ heap'[a].leaf = heap[a].leaf
        /\ heap'[a].children = heap[a].children
        /\ heap'[a].pivots = heap[a].pivots
        /\ heap'[a] \in LeafNode \cup InternalNode
  BY <1>4 DEF IInv, TypeOK
<1>6. work \in Seq(Frame)
  <2>1. CheckRoot \in Frame /\ FlushNode(root) \in Frame
    BY <1>2, FrameTypes
  <2>2. /\ <<>> \in Seq(Frame) /\ <<CheckRoot>> \in Seq(Frame)
        /\ <<FlushNode(root), CheckRoot>> \in Seq(Frame)
    BY <2>1, ShortSeqs
  <2>3. QED
    BY <2>2 DEF Work
<1>7. TypeOK'
  <2>1. size' \in Int /\ pendingDeletes' \in Int /\ locked' \in BOOLEAN
    BY <1>1 DEF IInv, TypeOK
  <2>2. root' \in DOMAIN heap' /\ result' \in Nat /\ todo' \in Seq(Frame)
    BY <1>1, <1>2, <1>3, <1>6
  <2>3. ASSUME NEW a \in DOMAIN heap'
        PROVE  /\ a \in Addr
               /\ heap'[a] \in LeafNode \cup InternalNode
               /\ ~heap'[a].leaf =>
                    Len(heap'[a].children) = Len(heap'[a].pivots) + 1
    BY <1>3, <1>5 DEF IInv, TypeOK
  <2>4. QED
    BY <2>1, <2>2, <2>3 DEF TypeOK
<1>8. Closed'
  <2>1. SUFFICES ASSUME NEW a \in DOMAIN heap',
                        NEW i \in 1..Len(heap'[a].children)
                 PROVE  /\ heap'[a].children[i] \in DOMAIN heap'
                        /\ heap'[a].children[i][1] = a[1] - 1
    BY DEF Closed
  <2>2. QED
    BY <1>3, <1>5 DEF IInv, Closed
<1>9. CallsValid'
  <2>1. CheckRoot.do = "checkRoot"
    BY DEF CheckRoot
  <2>2. FlushNode(root).do = "flushNode" /\ FlushNode(root).node = root
    BY DEF FlushNode
  <2>3. CASE work = <<>>
    BY <1>1, <2>3 DEF CallsValid
  <2>4. CASE work = <<CheckRoot>>
    <3>1. Len(todo') = 1 /\ todo'[1] = CheckRoot
      BY <1>1, <2>4
    <3>2. QED
      BY <1>1, <2>1, <3>1 DEF CallsValid
  <2>5. CASE /\ work = <<FlushNode(root), CheckRoot>>
             /\ ~n.leaf /\ NumMsgs(n.buffer) > bufferCap
    <3>1. Len(todo') = 2 /\ todo'[1] = FlushNode(root) /\ todo'[2] = CheckRoot
      BY <1>1, <2>5
    <3>2. \A t \in 1..2 : t = 1 \/ t = 2
      OBVIOUS
    <3>3. QED
      BY <1>1, <1>2, <1>3, <1>4, <2>1, <2>2, <2>5, <3>1, <3>2 DEF CallsValid
  <2>6. QED
    BY <2>3, <2>4, <2>5 DEF Work
<1>10. QED
  BY <1>7, <1>8, <1>9 DEF IInv

(* A write that finds nothing to do. *)
LEMMA NoWriteIInv ==
  ASSUME IInv, NEW answer \in Nat, NoWrite(answer)
  PROVE  IInv'
<1>1. heap[root] \in LeafNode \cup InternalNode
  BY DEF IInv, TypeOK
<1>2. Work(heap[root], <<>>)
  BY DEF Work
<1>3. Write(heap[root], 0, 0, answer, <<>>)
  BY DEF NoWrite
<1>4. QED
  BY <1>1, <1>2, <1>3, WriteIInv

(* A write to a root that is a leaf. *)
LEMMA WriteLeafIInv ==
  ASSUME IInv, heap[root].leaf, NEW kv \in [Key -> Opt],
         NEW dSize \in Int, NEW answer \in Nat,
         NEW work, work = <<>> \/ work = <<CheckRoot>>,
         Write([heap[root] EXCEPT !.kv = kv], dSize, 0, answer, work)
  PROVE  IInv'
<1> DEFINE n == [heap[root] EXCEPT !.kv = kv]
<1>1. heap[root] \in LeafNode
  BY NodeKinds DEF IInv, TypeOK
<1>2. /\ n \in LeafNode \cup InternalNode /\ n.leaf = heap[root].leaf
      /\ n.pivots = heap[root].pivots /\ n.children = heap[root].children
  <2>1. n \in LeafNode /\ n.leaf /\ n.children = heap[root].children
        /\ n.pivots = heap[root].pivots
    BY <1>1, LeafWithEntries
  <2>2. heap[root].leaf = TRUE /\ n.leaf = TRUE
    BY <1>1, <2>1 DEF LeafNode
  <2>3. QED
    BY <2>1, <2>2
<1>3. Work(n, work)
  BY DEF Work
<1> HIDE DEF n
<1>4. Write(n, dSize, 0, answer, work)
  BY DEF n
<1>5. IInv /\ dSize \in Int /\ 0 \in Int /\ answer \in Nat
  OBVIOUS
<1>6. QED
  BY ONLY <1>2, <1>3, <1>4, <1>5, WriteIInv

(* A write to the buffer of an internal root. *)
LEMMA BufferIInv ==
  ASSUME IInv, ~heap[root].leaf, NEW buf \in [Key -> Seq(Msg)],
         NEW dSize \in Int, NEW dDeletes \in Int, NEW answer \in Nat,
         Buffer([heap[root] EXCEPT !.buffer = buf], dSize, dDeletes, answer)
  PROVE  IInv'
<1> DEFINE n == [heap[root] EXCEPT !.buffer = buf]
<1>1. heap[root] \in InternalNode
  BY NodeKinds DEF IInv, TypeOK
<1>2. /\ n \in LeafNode \cup InternalNode /\ n.leaf = heap[root].leaf
      /\ n.pivots = heap[root].pivots /\ n.children = heap[root].children
      /\ ~n.leaf
  <2>1. /\ n \in InternalNode /\ n.children = heap[root].children
        /\ n.pivots = heap[root].pivots
    BY <1>1, NodeWithBuffer
  <2>2. heap[root].leaf = FALSE /\ n.leaf = FALSE
    BY <1>1, <2>1 DEF InternalNode
  <2>3. QED
    BY <2>1, <2>2
<1> HIDE DEF n
<1>3. Work(n, IfOverfull(n))
  BY <1>2 DEF Work, IfOverfull
<1>4. Write(n, dSize, dDeletes, answer, IfOverfull(n))
  BY DEF Buffer, n
<1>5. QED
  BY <1>2, <1>3, <1>4, WriteIInv

(* What leafInsert, leafDelete and appendToBuffer make of a node. *)
LEMMA EntryUpdate ==
  ASSUME NEW n \in LeafNode, NEW k \in Key, NEW o \in Opt
  PROVE  /\ [n.kv EXCEPT ![k] = o] \in [Key -> Opt]
         /\ [n EXCEPT !.kv[k] = o] = [n EXCEPT !.kv = [n.kv EXCEPT ![k] = o]]
  BY DEF LeafNode

(***************************************************************************)
(* appendToBuffer adds a message at the end of the sequence of its key.    *)
(***************************************************************************)
LEMMA AppendUpdate ==
  ASSUME NEW n \in InternalNode, NEW k \in Key, NEW m \in Msg
  PROVE  /\ [n.buffer EXCEPT ![k] = Append(@, m)] \in [Key -> Seq(Msg)]
         /\ appendToBuffer(n, k, m) =
              [n EXCEPT !.buffer = [n.buffer EXCEPT ![k] = Append(@, m)]]
<1>1. n.buffer \in [Key -> Seq(Msg)]
  BY DEF InternalNode
<1>2. Append(n.buffer[k], m) \in Seq(Msg)
  BY <1>1, AppendProperties
<1>3. QED
  BY <1>1, <1>2 DEF appendToBuffer

(***************************************************************************)
(* A Go bool that counts is an integer.                                    *)
(***************************************************************************)
LEMMA OneType == ASSUME NEW c PROVE One(c) \in Int
  BY DEF One

(***************************************************************************)
(* What the operations of the tree append to buffers are messages.         *)
(***************************************************************************)
LEMMA MsgTypes ==
  /\ \A v \in Value, c \in BOOLEAN : MsgPut(v, c) \in Msg
  /\ MsgDelete \in Msg
  /\ \A f \in Fns : MsgUpsert(f) \in Msg
  BY DEF MsgPut, MsgDelete, MsgUpsert, Msg

(***************************************************************************)
(* A put keeps the invariant, into a leaf or into a buffer.                *)
(***************************************************************************)
LEMMA PutLockedIInv ==
  ASSUME IInv, NEW k \in Key, NEW v \in Value, NEW knownNew \in BOOLEAN,
         NEW answer \in Nat, putLocked(k, v, knownNew, answer)
  PROVE  IInv'
<1> DEFINE n == heap[root]
           new == knownNew \/ isNew(k)
<1>0. n \in LeafNode \cup InternalNode
  BY DEF IInv, TypeOK
<1>1. CASE /\ n.leaf
           /\ Write(leafInsert(n, k, v), One(n.kv[k] = Absent), 0, answer,
                    <<CheckRoot>>)
  <2>1. n \in LeafNode /\ v \in Opt
    BY <1>0, <1>1, NodeKinds DEF Opt
  <2>2. leafInsert(n, k, v) = [n EXCEPT !.kv = [n.kv EXCEPT ![k] = v]]
    BY <2>1, EntryUpdate DEF leafInsert
  <2>3. [n.kv EXCEPT ![k] = v] \in [Key -> Opt]
    BY <2>1, EntryUpdate
  <2> DEFINE kv == [n.kv EXCEPT ![k] = v]
             d == One(n.kv[k] = Absent)
             work == <<CheckRoot>>
  <2>4. /\ kv \in [Key -> Opt] /\ d \in Int /\ (work = <<>> \/ work = <<CheckRoot>>)
        /\ Write([n EXCEPT !.kv = kv], d, 0, answer, work)
    BY <1>1, <2>2, <2>3, OneType
  <2> HIDE DEF kv, d, work
  <2>5. IInv /\ n.leaf /\ answer \in Nat
    BY <1>1
  <2>6. QED
    BY ONLY <2>4, <2>5, WriteLeafIInv
<1>2. CASE /\ ~n.leaf
           /\ Buffer(appendToBuffer(n, k, MsgPut(v, new)), One(new), 0, answer)
  <2>1. n \in InternalNode
    BY <1>0, <1>2, NodeKinds
  <2>2. new \in BOOLEAN
    OBVIOUS
  <2> DEFINE m == MsgPut(v, new)
             buf == [n.buffer EXCEPT ![k] = Append(@, m)]
  <2>3. m \in Msg
    BY <2>2, MsgTypes
  <2> HIDE DEF m
  <2>4. appendToBuffer(n, k, m) = [n EXCEPT !.buffer = buf] /\
        buf \in [Key -> Seq(Msg)]
    BY <2>1, <2>3, AppendUpdate
  <2> HIDE DEF buf
  <2>5. Buffer([n EXCEPT !.buffer = buf], One(new), 0, answer)
    BY <1>2, <2>4 DEF m
  <2> DEFINE d == One(new)
  <2>6. IInv /\ ~n.leaf /\ d \in Int /\ 0 \in Int /\ answer \in Nat
    BY <1>2, OneType
  <2>7. Buffer([n EXCEPT !.buffer = buf], d, 0, answer)
    BY <2>5
  <2> HIDE DEF d
  <2>8. QED
    BY ONLY <2>4, <2>6, <2>7, BufferIInv
<1>3. QED
  BY <1>1, <1>2 DEF putLocked

(***************************************************************************)
(* A delete keeps the invariant: key absent, in a root leaf, or behind a   *)
(* buffer.                                                                 *)
(***************************************************************************)
LEMMA DeleteIInv ==
  ASSUME IInv, NEW k \in Key, Delete(k)
  PROVE  IInv'
<1> DEFINE n == heap[root]
<1>0. n \in LeafNode \cup InternalNode /\ Absent \in Opt
  BY DEF IInv, TypeOK, Opt
<1>1. CASE NoWrite(0)
  BY <1>1, NoWriteIInv
<1>2. CASE n.leaf /\ Write(leafDelete(n, k), -1, 0, 1, <<>>)
  <2>1. n \in LeafNode
    BY <1>0, <1>2, NodeKinds
  <2> DEFINE kv == [n.kv EXCEPT ![k] = Absent]
             d == -1
             a == 1
             work == <<>>
  <2>2. leafDelete(n, k) = [n EXCEPT !.kv = kv] /\ kv \in [Key -> Opt]
    BY <1>0, <2>1, EntryUpdate DEF leafDelete
  <2>3. /\ d \in Int /\ a \in Nat /\ (work = <<>> \/ work = <<CheckRoot>>)
        /\ Write([n EXCEPT !.kv = kv], d, 0, a, work)
    BY <1>2, <2>2
  <2> HIDE DEF kv, d, a, work
  <2>4. IInv /\ n.leaf
    BY <1>2
  <2>5. QED
    BY ONLY <2>2, <2>3, <2>4, WriteLeafIInv
<1>3. CASE ~n.leaf /\ Buffer(appendToBuffer(n, k, MsgDelete), -1, 1, 1)
  <2>1. n \in InternalNode
    BY <1>0, <1>3, NodeKinds
  <2> DEFINE buf == [n.buffer EXCEPT ![k] = Append(@, MsgDelete)]
             d == -1
             one == 1
  <2>2. appendToBuffer(n, k, MsgDelete) = [n EXCEPT !.buffer = buf] /\
        buf \in [Key -> Seq(Msg)]
    BY <2>1, MsgTypes, AppendUpdate
  <2> HIDE DEF buf
  <2>3. /\ d \in Int /\ one \in Int /\ one \in Nat
        /\ Buffer([n EXCEPT !.buffer = buf], d, one, one)
    BY <1>3, <2>2
  <2> HIDE DEF d, one
  <2>4. IInv /\ ~n.leaf
    BY <1>3
  <2>5. QED
    BY ONLY <2>2, <2>3, <2>4, BufferIInv
<1>4. QED
  BY <1>1, <1>2, <1>3 DEF Delete, deleteLocked

(***************************************************************************)
(* An upsert keeps the invariant, applied to a root leaf or buffered.      *)
(***************************************************************************)
LEMMA UpsertIInv ==
  ASSUME IInv, NEW k \in Key, NEW f \in Fns, Upsert(k, f)
  PROVE  IInv'
<1> DEFINE n == heap[root]
<1>0. n \in LeafNode \cup InternalNode
  BY DEF IInv, TypeOK
<1>1. CASE /\ n.leaf
           /\ Write(leafInsert(n, k, f[n.kv[k]]), One(n.kv[k] = Absent), 0, 0,
                    <<CheckRoot>>)
  <2>1. n \in LeafNode /\ n.kv[k] \in Opt
    BY <1>0, <1>1, NodeKinds
  <2>2. f[n.kv[k]] \in Opt
    BY <2>1, MessagesAssumption DEF Opt
  <2> DEFINE v == f[n.kv[k]]
             kv == [n.kv EXCEPT ![k] = v]
             d == One(n.kv[k] = Absent)
             a == 0
             work == <<CheckRoot>>
  <2>3. leafInsert(n, k, v) = [n EXCEPT !.kv = kv] /\ kv \in [Key -> Opt]
    <3> HIDE DEF v
    <3>1. v \in Opt
      BY <2>2 DEF v
    <3>2. QED
      BY <2>1, <3>1, EntryUpdate DEF leafInsert
  <2>4. /\ d \in Int /\ a \in Nat /\ (work = <<>> \/ work = <<CheckRoot>>)
        /\ Write([n EXCEPT !.kv = kv], d, 0, a, work)
    BY <1>1, <2>3, OneType
  <2> HIDE DEF kv, d, a, work
  <2>5. IInv /\ n.leaf
    BY <1>1
  <2>6. QED
    BY ONLY <2>3, <2>4, <2>5, WriteLeafIInv
<1>2. CASE ~n.leaf /\ Buffer(appendToBuffer(n, k, MsgUpsert(f)), 0, 0, 0)
  <2>1. n \in InternalNode
    BY <1>0, <1>2, NodeKinds
  <2> DEFINE m == MsgUpsert(f)
             buf == [n.buffer EXCEPT ![k] = Append(@, m)]
             zero == 0
  <2>2. m \in Msg
    BY MsgTypes
  <2> HIDE DEF m
  <2>3. appendToBuffer(n, k, m) = [n EXCEPT !.buffer = buf] /\
        buf \in [Key -> Seq(Msg)]
    BY <2>1, <2>2, AppendUpdate
  <2> HIDE DEF buf
  <2>4. /\ zero \in Int /\ zero \in Nat
        /\ Buffer([n EXCEPT !.buffer = buf], zero, zero, zero)
    BY <1>2, <2>3 DEF m
  <2> HIDE DEF zero
  <2>5. IInv /\ ~n.leaf
    BY <1>2
  <2>6. QED
    BY ONLY <2>3, <2>4, <2>5, BufferIInv
<1>3. QED
  BY <1>1, <1>2 DEF Upsert

(* The keys a range scan returns are keys. *)
LEMMA RangeKeys ==
  ASSUME NEW lo \in Nat, NEW hi \in Nat
  PROVE  DOMAIN materializeRange(lo, hi) \subseteq Key
<1>1. DOMAIN <<>> \subseteq Key
  OBVIOUS
<1>2. \A visited, ks : DOMAIN resolveEntries(visited, ks) \subseteq ks
  BY DEF resolveEntries
<1>3. QED
  BY <1>1, <1>2 DEF materializeRange

(***************************************************************************)
(* A range delete keeps the invariant: it may overfill the buffer by any   *)
(* number of messages.                                                     *)
(***************************************************************************)
LEMMA DeleteRangeIInv ==
  ASSUME IInv, NEW lo \in Nat, NEW hi \in Nat, DeleteRange(lo, hi)
  PROVE  IInv'
<1> DEFINE n == heap[root]
           live == DOMAIN materializeRange(lo, hi)
           count == Cardinality(live)
           d == -count
           buf == [k \in Key |->
                     IF k \in live THEN Append(n.buffer[k], MsgDelete)
                                    ELSE n.buffer[k]]
           kv == [k \in Key |-> IF k \in live THEN Absent ELSE n.kv[k]]
<1>0. n \in LeafNode \cup InternalNode
  BY DEF IInv, TypeOK
<1>1. count \in Nat
  BY RangeKeys, ConstantsAssumption, FS_Subset, FS_CardinalityType
<1>2. d \in Int /\ count \in Int
  <2> HIDE DEF count
  <2>1. QED
    BY <1>1
<1>3. kv \in [Key -> Opt]
  BY <1>0, NodeKinds DEF Opt
<1>4. buf \in [Key -> Seq(Msg)]
  BY <1>0, NodeKinds, MsgTypes, AppendProperties
<1>5. \/ NoWrite(0)
      \/ n.leaf /\ Write([n EXCEPT !.kv = kv], d, 0, count, <<>>)
      \/ ~n.leaf /\ Buffer([n EXCEPT !.buffer = buf], d, count, count)
  BY DEF DeleteRange
<1> HIDE DEF live, count, d, buf, kv
<1>6. CASE NoWrite(0)
  BY <1>6, NoWriteIInv
<1>7. CASE n.leaf /\ Write([n EXCEPT !.kv = kv], d, 0, count, <<>>)
  <2> DEFINE work == <<>>
  <2>1. /\ IInv /\ n.leaf /\ (work = <<>> \/ work = <<CheckRoot>>)
        /\ Write([n EXCEPT !.kv = kv], d, 0, count, work)
    BY <1>7
  <2> HIDE DEF work
  <2>2. QED
    BY ONLY <1>1, <1>2, <1>3, <2>1, WriteLeafIInv
<1>8. CASE ~n.leaf /\ Buffer([n EXCEPT !.buffer = buf], d, count, count)
  <2>1. IInv /\ ~n.leaf
    BY <1>8
  <2>2. QED
    BY ONLY <1>1, <1>2, <1>4, <1>8, <2>1, BufferIInv
<1>9. QED
  BY <1>5, <1>6, <1>7, <1>8

(***************************************************************************)
(* Clear keeps the invariant: nothing refers to the nodes it drops.        *)
(***************************************************************************)
LEMMA ClearIInv ==
  ASSUME IInv, Clear
  PROVE  IInv'
<1>1. /\ DOMAIN heap' = {<<0, 0>>} /\ heap'[<<0, 0>>] = newLeaf
      /\ <<0, 0>> \in Addr /\ root' = <<0, 0>>
  BY DEF Clear, Addr
<1>2. newLeaf.leaf /\ newLeaf.children = <<>> /\ Len(<<>>) = 0
  BY DEF newLeaf
<1>3. todo' = <<>> /\ result' = result /\ locked' = TRUE
  BY DEF Clear, IInv, CallsValid
<1>4. TypeOK'
  <2>1. root' \in DOMAIN heap' /\ size' \in Int /\ pendingDeletes' \in Int
    BY <1>1 DEF Clear
  <2>2. locked' \in BOOLEAN /\ result' \in Nat /\ todo' \in Seq(Frame)
    BY <1>3, EmptySeq DEF IInv, TypeOK
  <2>3. \A a \in DOMAIN heap' : a = <<0, 0>>
    BY <1>1
  <2>4. QED
    BY <1>1, <1>2, <2>1, <2>2, <2>3, NewLeafType DEF TypeOK
<1>5. Closed'
  <2>1. \A a \in DOMAIN heap' : a = <<0, 0>>
    BY <1>1
  <2>2. QED
    BY <1>1, <1>2, <2>1 DEF Closed
<1>6. CallsValid'
  BY <1>2, <1>3 DEF CallsValid
<1>7. QED
  BY <1>4, <1>5, <1>6 DEF IInv

-----------------------------------------------------------------------------
(* Flushing *)

(* A step that keeps what kind of node each one is, and its children. *)
SameShape ==
  /\ DOMAIN heap' = DOMAIN heap
  /\ \A a \in DOMAIN heap :
       /\ heap'[a] \in LeafNode \cup InternalNode
       /\ heap'[a].leaf = heap[a].leaf
       /\ heap'[a].pivots = heap[a].pivots
       /\ heap'[a].children = heap[a].children

(***************************************************************************)
(* A step that changes entries and buffers only keeps the types of nodes   *)
(* and the references between them.                                        *)
(***************************************************************************)
LEMMA SameShapeIInv ==
  ASSUME IInv, SameShape, UNCHANGED <<root, locked, result>>,
         size' \in Int, pendingDeletes' \in Int, todo' \in Seq(Frame)
  PROVE  TypeOK' /\ Closed'
<1>1. TypeOK'
  <2>1. root' \in DOMAIN heap' /\ locked' \in BOOLEAN /\ result' \in Nat
    BY DEF IInv, TypeOK, SameShape
  <2>2. ASSUME NEW a \in DOMAIN heap'
        PROVE  /\ a \in Addr
               /\ heap'[a] \in LeafNode \cup InternalNode
               /\ ~heap'[a].leaf =>
                    Len(heap'[a].children) = Len(heap'[a].pivots) + 1
    BY DEF IInv, TypeOK, SameShape
  <2>3. QED
    BY <2>1, <2>2 DEF TypeOK
<1>2. Closed'
  <2>1. SUFFICES ASSUME NEW a \in DOMAIN heap',
                        NEW i \in 1..Len(heap'[a].children)
                 PROVE  /\ heap'[a].children[i] \in DOMAIN heap'
                        /\ heap'[a].children[i][1] = a[1] - 1
    BY DEF Closed
  <2>2. QED
    BY DEF IInv, Closed, SameShape
<1>3. QED
  BY <1>1, <1>2

(* The node that is flushed, and the child it is flushed to. *)
LEMMA FlushPair ==
  ASSUME IInv, Top("flushNode"),
         NEW p, p = Head(todo).node, NEW i, i = heaviest(heap[p]),
         NEW c, c = heap[p].children[i]
  PROVE  /\ p \in DOMAIN heap /\ p \in Addr /\ heap[p] \in InternalNode
         /\ i \in 1..Len(heap[p].children) /\ i \in Nat
         /\ c \in DOMAIN heap /\ c \in Addr /\ c # p
         /\ Len(todo) >= 1 /\ todo[1].do = "flushNode" /\ p = todo[1].node
<1>1. todo \in Seq(Frame) /\ todo # <<>>
  BY DEF IInv, TypeOK, Top
<1>2. Len(todo) \in Nat /\ Len(todo) >= 1 /\ Head(todo) = todo[1]
  BY <1>1, EmptySeq, LenProperties, SMT
<1>3. todo[1].do = "flushNode" /\ p = todo[1].node
  BY <1>2 DEF Top
<1>4. p \in DOMAIN heap /\ ~heap[p].leaf
  <2>1. 1 \in 1..Len(todo)
    BY <1>2
  <2>2. QED
    BY <1>3, <2>1 DEF IInv, CallsValid
<1>5. /\ p \in Addr /\ heap[p] \in LeafNode \cup InternalNode
      /\ Len(heap[p].children) = Len(heap[p].pivots) + 1
  BY <1>4 DEF IInv, TypeOK
<1>6. /\ heap[p] \in InternalNode /\ heap[p].children \in Seq(Addr)
      /\ heap[p].pivots \in Seq(Key) /\ heap[p].buffer \in [Key -> Seq(Msg)]
  BY <1>4, <1>5, NodeKinds
<1>7. Len(heap[p].children) >= 1 /\ Len(heap[p].children) \in Nat
  BY <1>5, <1>6, LenProperties
<1>8. i \in 1..Len(heap[p].children)
  BY <1>6, <1>7, HeaviestIsChild
<1>9. i \in Nat
  BY <1>7, <1>8
<1>10. c \in DOMAIN heap /\ c[1] = p[1] - 1
  BY <1>4, <1>8 DEF IInv, Closed
<1>11. c \in Addr /\ c # p
  <2>1. c \in Addr
    BY <1>10 DEF IInv, TypeOK
  <2>2. p[1] \in Nat
    BY <1>5 DEF Addr
  <2>3. p[1] # p[1] - 1
    BY <2>2
  <2>4. QED
    BY <1>10, <2>1, <2>3
<1>12. QED
  BY <1>2, <1>3, <1>4, <1>5, <1>6, <1>8, <1>9, <1>10, <1>11

(* The buckets of a buffer are buffers. *)
LEMMA BucketTypes ==
  ASSUME NEW n \in InternalNode, NEW i
  PROVE  /\ Bucket(n, i) \in [Key -> Seq(Msg)]
         /\ Unflushed(n, i) \in [Key -> Seq(Msg)]
<1>1. n.buffer \in [Key -> Seq(Msg)]
  BY DEF InternalNode
<1>2. QED
  BY <1>1, EmptySeq DEF Bucket, Unflushed

(* Sets of a buffer's messages are finite. *)
LEMMA MessageSets ==
  ASSUME NEW buf \in [Key -> Seq(Msg)], NEW T, T \subseteq Slots(buf)
  PROVE  IsFiniteSet(T) /\ Cardinality(T) \in Nat
  BY SlotsFinite, FS_Subset, FS_CardinalityType

(***************************************************************************)
(* Both paths of applyToLeaf return entries and a change of size.          *)
(***************************************************************************)
LEMMA ApplyToLeafType ==
  ASSUME NEW kv \in [Key -> Opt], NEW msgs \in [Key -> Seq(Msg)]
  PROVE  /\ applyToLeaf(kv, msgs).kv \in [Key -> Opt]
         /\ applyToLeaf(kv, msgs).sizeChange \in Int
<1>1. /\ applyToLeafSmall(kv, msgs).kv \in [Key -> Opt]
      /\ applyToLeafSmall(kv, msgs).sizeChange \in Int
  <2>1. \A k \in Key : After(msgs[k], kv[k]) \in Opt
    BY AfterType
  <2>2. /\ Cardinality(Missed(kv, msgs)) \in Nat
        /\ Cardinality(CountedTwice(kv, msgs)) \in Nat
    <3>1. /\ Missed(kv, msgs) \subseteq Slots(msgs)
          /\ CountedTwice(kv, msgs) \subseteq Slots(msgs)
      BY DEF Missed, CountedTwice, Counted
    <3>2. QED
      BY <3>1, MessageSets
  <2>3. QED
    BY <2>1, <2>2 DEF applyToLeafSmall
<1>2. /\ applyToLeafBatch(kv, msgs).kv \in [Key -> Opt]
      /\ applyToLeafBatch(kv, msgs).sizeChange \in Int
  <2> DEFINE merged == [k \in Key |->
                          IF msgs[k] = <<>> THEN kv[k]
                          ELSE Apply(resolveKeyGroup(msgs[k]), kv[k])]
             count(f) == Cardinality({k \in Key : f[k] # Absent})
  <2>1. \A k \in Key : msgs[k] # <<>> =>
                          Apply(resolveKeyGroup(msgs[k]), kv[k]) \in Opt
    BY ResolveKeyGroupType, ApplyType
  <2>2. merged \in [Key -> Opt]
    BY <2>1
  <2>3. \A f : count(f) \in Nat
    BY ConstantsAssumption, FS_Subset, FS_CardinalityType
  <2>4. Tallied(msgs) \in Int
    <3>1. Counted(msgs) \subseteq Slots(msgs) /\ Deletes(msgs) \subseteq Slots(msgs)
      BY DEF Counted, Deletes
    <3>2. Cardinality(Counted(msgs)) \in Nat /\ Cardinality(Deletes(msgs)) \in Nat
      BY <3>1, MessageSets
    <3>3. QED
      BY <3>2 DEF Tallied
  <2>5. /\ applyToLeafBatch(kv, msgs).kv = merged
        /\ applyToLeafBatch(kv, msgs).sizeChange =
             count(merged) - count(kv) - Tallied(msgs)
    BY DEF applyToLeafBatch
  <2> HIDE DEF count, merged
  <2>6. QED
    BY <2>2, <2>3, <2>4, <2>5
<1>3. QED
  BY <1>1, <1>2 DEF applyToLeaf

(* What follows the topmost call stays sound when its node's shape does. *)
LEMMA CallsBelow ==
  ASSUME IInv, SameShape, root' = root, NEW t \in 2..Len(todo)
  PROVE  LET f == todo[t]
         IN  /\ f.do \in {"checkChild", "checkRoot"}
             /\ f.do = "checkRoot" <=> t = Len(todo)
             /\ f.do = "checkChild" =>
                  /\ f.node \in DOMAIN heap' /\ ~heap'[f.node].leaf
                  /\ f.idx \in 1..Len(heap'[f.node].children)
                  /\ heap'[f.node].children[f.idx] = todo[t-1].node
             /\ t = Len(todo) - 1 => f.node = root'
<1>1. todo \in Seq(Frame) /\ Len(todo) \in Nat
  BY LenProperties DEF IInv, TypeOK
<1>2. t \in 1..Len(todo) /\ t # 1 /\ t > 1
  BY <1>1
<1>3. todo[t] \in Frame
  BY <1>1, <1>2, ElementOfSeq
<1>4. todo[t].do \in {"flushNode", "checkChild", "checkRoot"}
  BY <1>3 DEF Frame
<1>5. /\ todo[t].do = "checkRoot" <=> t = Len(todo)
      /\ todo[t].do # "flushNode"
      /\ todo[t].do = "checkChild" =>
           /\ todo[t].node \in DOMAIN heap /\ ~heap[todo[t].node].leaf
           /\ todo[t].idx \in 1..Len(heap[todo[t].node].children)
           /\ heap[todo[t].node].children[todo[t].idx] = todo[t-1].node
      /\ t = Len(todo) - 1 => todo[t].node = root
  BY <1>2 DEF IInv, CallsValid
<1>6. QED
  BY <1>4, <1>5 DEF SameShape

(* A flush returns to the check of the child it flushed to. *)
LEMMA ReturnToCheck ==
  ASSUME IInv, SameShape, UNCHANGED <<root, locked>>,
         todo # <<>>, todo[1].do = "flushNode",
         NEW p, p = todo[1].node, p \in DOMAIN heap, ~heap[p].leaf,
         NEW i \in 1..Len(heap[p].children), p \in Addr, i \in Nat,
         todo' = <<CheckChild(p, i)>> \o Tail(todo)
  PROVE  todo' \in Seq(Frame) /\ CallsValid'
<1>1. todo \in Seq(Frame) /\ Len(todo) \in Nat /\ Len(todo) >= 1
  BY LenProperties, EmptySeq DEF IInv, TypeOK
<1> DEFINE first == CheckChild(p, i)
<1>2. first \in Frame /\ first.do = "checkChild" /\ first.node = p /\ first.idx = i
  BY FrameTypes DEF CheckChild
<1> HIDE DEF first
<1>3. /\ todo' \in Seq(Frame) /\ Len(todo') = Len(todo)
      /\ todo'[1] = first /\ \A t \in 2..Len(todo) : todo'[t] = todo[t]
  <2>1. todo' = <<first>> \o Tail(todo)
    BY DEF first
  <2>2. /\ Tail(todo) \in Seq(Frame) /\ Len(Tail(todo)) = Len(todo) - 1
        /\ \A t \in 1..Len(todo)-1 : Tail(todo)[t] = todo[t+1]
    BY <1>1, HeadTailProperties
  <2>3. <<first>> \in Seq(Frame) /\ Len(<<first>>) = 1 /\ <<first>>[1] = first
    BY <1>2
  <2>4. /\ todo' \in Seq(Frame) /\ Len(todo') = 1 + (Len(todo) - 1)
        /\ \A t \in 1..1 + (Len(todo) - 1) :
             todo'[t] = IF t <= 1 THEN <<first>>[t] ELSE Tail(todo)[t-1]
    BY <2>1, <2>2, <2>3, ConcatProperties
  <2>5. \A t \in 2..Len(todo) : t - 1 \in 1..Len(todo)-1 /\ (t-1)+1 = t
    BY <1>1
  <2>6. QED
    BY <1>1, <2>2, <2>3, <2>4, <2>5
<1>4. locked
  BY DEF IInv, CallsValid
<1>5. 1 # Len(todo)
  <2>1. 1 \in 1..Len(todo)
    BY <1>1
  <2>2. QED
    BY <2>1 DEF IInv, CallsValid
<1>6. 1 = Len(todo) - 1 => p = root
  <2>1. 1 \in 1..Len(todo)
    BY <1>1
  <2>2. QED
    BY <2>1 DEF IInv, CallsValid
<1>7. p \in DOMAIN heap' /\ ~heap'[p].leaf /\ i \in 1..Len(heap'[p].children)
  BY DEF SameShape
<1>8. ASSUME NEW t \in 2..Len(todo)
      PROVE  todo'[t-1].node = todo[t-1].node
  <2>1. CASE t = 2
    BY <1>2, <1>3, <2>1
  <2>2. CASE t # 2
    <3>1. t - 1 \in 2..Len(todo)
      BY <1>1, <2>2
    <3>2. QED
      BY <1>3, <3>1
  <2>3. QED
    BY <2>1, <2>2
<1>9. ASSUME NEW t \in 1..Len(todo')
      PROVE  LET f == todo'[t]
             IN  /\ f.do = "checkRoot" <=> t = Len(todo')
                 /\ f.do # "checkRoot" =>
                      f.node \in DOMAIN heap' /\ ~heap'[f.node].leaf
                 /\ f.do # "flushNode"
                 /\ f.do = "checkChild" =>
                      /\ f.idx \in 1..Len(heap'[f.node].children)
                      /\ t > 1 => heap'[f.node].children[f.idx] = todo'[t-1].node
                 /\ t = Len(todo') - 1 => f.node = root'
  <2>1. CASE t = 1
    BY <1>2, <1>3, <1>5, <1>6, <1>7, <2>1
  <2>2. CASE t # 1
    <3>1. t \in 2..Len(todo)
      BY <1>1, <1>3, <2>2
    <3>2. todo'[t] = todo[t] /\ todo'[t-1].node = todo[t-1].node
      BY <1>3, <1>8, <3>1
    <3>3. QED
      BY <1>3, <3>1, <3>2, CallsBelow
  <2>3. QED
    BY <2>1, <2>2
<1>10. QED
  BY <1>3, <1>4, <1>9 DEF CallsValid

(***************************************************************************)
(* A flush into a leaf keeps the invariant: the calls that are left are    *)
(* about the levels above.                                                 *)
(***************************************************************************)
LEMMA FlushToLeafIInv ==
  ASSUME IInv, FlushToLeaf
  PROVE  IInv'
<1> DEFINE p == Head(todo).node
           i == heaviest(heap[p])
           c == heap[p].children[i]
           batch == Bucket(heap[p], i)
           new == applyToLeaf(heap[c].kv, batch)
<1>1. /\ Top("flushNode") /\ heap[c].leaf
      /\ heap' = [heap EXCEPT ![p].buffer = Unflushed(heap[p], i),
                              ![c].kv = new.kv]
      /\ size' = size + new.sizeChange
      /\ pendingDeletes' = pendingDeletes - NumDeletes(batch)
      /\ todo' = <<CheckChild(p, i)>> \o Tail(todo)
      /\ UNCHANGED <<root, locked, result>>
  BY DEF FlushToLeaf
<1> HIDE DEF p, i, c
<1>2. /\ p \in DOMAIN heap /\ p \in Addr /\ heap[p] \in InternalNode
      /\ i \in 1..Len(heap[p].children) /\ i \in Nat
      /\ c \in DOMAIN heap /\ c \in Addr /\ c # p
      /\ Len(todo) >= 1 /\ todo[1].do = "flushNode" /\ p = todo[1].node
  <2>1. p = Head(todo).node /\ i = heaviest(heap[p]) /\ c = heap[p].children[i]
    BY DEF p, i, c
  <2>2. QED
    BY ONLY <1>1, <2>1, IInv, FlushPair
<1>3. heap[c] \in LeafNode
  BY <1>1, <1>2, NodeKinds DEF IInv, TypeOK
<1>4. Unflushed(heap[p], i) \in [Key -> Seq(Msg)] /\ batch \in [Key -> Seq(Msg)]
  BY <1>2, BucketTypes
<1>5. new.kv \in [Key -> Opt] /\ new.sizeChange \in Int
  BY <1>3, <1>4, ApplyToLeafType DEF LeafNode
<1>6. NumDeletes(batch) \in Nat
  BY <1>4, MessageSets DEF NumDeletes, Deletes
<1> HIDE DEF batch, new
<1>7. SameShape
  <2>1. /\ DOMAIN heap' = DOMAIN heap
        /\ heap'[p] = [heap[p] EXCEPT !.buffer = Unflushed(heap[p], i)]
        /\ heap'[c] = [heap[c] EXCEPT !.kv = new.kv]
        /\ \A a \in DOMAIN heap : a # p /\ a # c => heap'[a] = heap[a]
    BY <1>1, <1>2
  <2>2. /\ heap'[p] \in InternalNode /\ heap'[p].children = heap[p].children
        /\ heap'[p].pivots = heap[p].pivots /\ heap'[p].leaf = heap[p].leaf
    BY <1>2, <1>4, <2>1, NodeWithBuffer DEF InternalNode
  <2>3. /\ heap'[c] \in LeafNode /\ heap'[c].children = heap[c].children
        /\ heap'[c].pivots = heap[c].pivots /\ heap'[c].leaf = heap[c].leaf
    BY <1>3, <1>5, <2>1, LeafWithEntries DEF LeafNode
  <2>4. \A a \in DOMAIN heap : heap[a] \in LeafNode \cup InternalNode
    BY DEF IInv, TypeOK
  <2>5. QED
    BY <2>1, <2>2, <2>3, <2>4 DEF SameShape
<1>8. size' \in Int /\ pendingDeletes' \in Int
  BY <1>1, <1>5, <1>6 DEF IInv, TypeOK
<1>9. todo' \in Seq(Frame) /\ CallsValid'
  <2>1. todo # <<>> /\ ~heap[p].leaf
    BY <1>1, <1>2 DEF Top, InternalNode
  <2>2. QED
    BY ONLY IInv, <1>1, <1>2, <1>7, <2>1, ReturnToCheck
<1>10. QED
  BY <1>1, <1>7, <1>8, <1>9, SameShapeIInv DEF IInv

(* A flush that goes on one level deeper before the check. *)
LEMMA FlushDeeper ==
  ASSUME IInv, SameShape, UNCHANGED <<root, locked>>,
         todo # <<>>, todo[1].do = "flushNode",
         NEW p, p = todo[1].node, p \in DOMAIN heap, ~heap[p].leaf, p \in Addr,
         NEW i \in 1..Len(heap[p].children), i \in Nat,
         NEW c, c = heap[p].children[i], c \in DOMAIN heap, c \in Addr,
         ~heap[c].leaf, NumMsgs(heap'[c].buffer) > bufferCap,
         todo' = <<FlushNode(c), CheckChild(p, i)>> \o Tail(todo)
  PROVE  todo' \in Seq(Frame) /\ CallsValid'
<1>1. todo \in Seq(Frame) /\ Len(todo) \in Nat /\ Len(todo) >= 1
  BY LenProperties, EmptySeq DEF IInv, TypeOK
<1> DEFINE first == FlushNode(c)
           second == CheckChild(p, i)
<1>2. /\ first \in Frame /\ first.do = "flushNode" /\ first.node = c
      /\ second \in Frame /\ second.do = "checkChild" /\ second.node = p
      /\ second.idx = i
  BY FrameTypes DEF CheckChild, FlushNode
<1>3. todo' = <<first, second>> \o Tail(todo)
  OBVIOUS
<1> HIDE DEF first, second
<1>4. /\ todo' \in Seq(Frame) /\ Len(todo') = Len(todo) + 1
      /\ todo'[1] = first /\ todo'[2] = second
      /\ \A t \in 3..Len(todo)+1 : todo'[t] = todo[t-1]
  <2>2. /\ Tail(todo) \in Seq(Frame) /\ Len(Tail(todo)) = Len(todo) - 1
        /\ \A t \in 1..Len(todo)-1 : Tail(todo)[t] = todo[t+1]
    BY <1>1, HeadTailProperties
  <2> DEFINE two == <<first, second>>
  <2>3. two \in Seq(Frame) /\ Len(two) = 2 /\ two[1] = first /\ two[2] = second
    BY <1>2
  <2> HIDE DEF two
  <2>4. /\ todo' \in Seq(Frame) /\ Len(todo') = 2 + (Len(todo) - 1)
        /\ \A t \in 1..2 + (Len(todo) - 1) :
             todo'[t] = IF t <= 2 THEN two[t] ELSE Tail(todo)[t-2]
    BY <1>3, <2>2, <2>3, ConcatProperties DEF two
  <2>5. \A t \in 3..Len(todo)+1 : t - 2 \in 1..Len(todo)-1 /\ (t-2)+1 = t-1
    BY <1>1
  <2>6. QED
    BY <1>1, <2>2, <2>3, <2>4, <2>5
<1>5. locked
  BY DEF IInv, CallsValid
<1>6. 1 # Len(todo) /\ (1 = Len(todo) - 1 => p = root)
  <2>1. 1 \in 1..Len(todo)
    BY <1>1
  <2>2. QED
    BY <2>1 DEF IInv, CallsValid
<1>7. /\ p \in DOMAIN heap' /\ ~heap'[p].leaf /\ i \in 1..Len(heap'[p].children)
      /\ heap'[p].children[i] = c /\ c \in DOMAIN heap' /\ ~heap'[c].leaf
  BY DEF SameShape
<1>8. ASSUME NEW t \in 1..Len(todo')
      PROVE  LET f == todo'[t]
             IN  /\ f.do = "checkRoot" <=> t = Len(todo')
                 /\ f.do # "checkRoot" =>
                      f.node \in DOMAIN heap' /\ ~heap'[f.node].leaf
                 /\ f.do = "flushNode" => f = first /\ t = 1
                 /\ f.do = "checkChild" =>
                      /\ f.idx \in 1..Len(heap'[f.node].children)
                      /\ t > 1 => heap'[f.node].children[f.idx] = todo'[t-1].node
                 /\ t = Len(todo') - 1 => f.node = root'
  <2>1. CASE t = 1
    <3>1. todo'[t] = first
      BY <1>4, <2>1
    <3>2. t # Len(todo') /\ t # Len(todo') - 1 /\ ~(t > 1)
      BY <1>1, <1>4, <1>6, <2>1
    <3>3. QED
      BY <1>2, <1>7, <2>1, <3>1, <3>2
  <2>2. CASE t = 2
    <3>1. todo'[t] = second /\ todo'[t-1] = first
      BY <1>4, <2>2
    <3>2. t # Len(todo') /\ (t = Len(todo') - 1 => p = root')
      <4>1. Len(todo') = Len(todo) + 1 /\ root' = root
        BY <1>4
      <4> DEFINE n == Len(todo)
      <4>n. n \in Nat /\ n # 1
        BY <1>1, <1>6
      <4> HIDE DEF n
      <4>2. t # n + 1
        BY ONLY <2>2, <4>n
      <4>3. t = (Len(todo) + 1) - 1 => 1 = Len(todo) - 1
        BY ONLY <1>1, <2>2
      <4>4. QED
        BY <1>6, <4>1, <4>2, <4>3, Zenon DEF n
    <3>3. QED
      BY <1>2, <1>7, <3>1, <3>2
  <2>3. CASE t \in 3..Len(todo)+1
    <3>1. t - 1 \in 2..Len(todo)
      BY <1>1, <2>3
    <3>2. todo'[t] = todo[t-1] /\ todo'[t-1].node = todo[(t-1)-1].node
      <4>1. CASE t = 3
        BY <1>2, <1>4, <2>3, <4>1
      <4>2. CASE t # 3
        <5>1. t - 1 \in 3..Len(todo)+1
          BY <1>1, <2>3, <4>2
        <5>2. QED
          BY <1>4, <2>3, <5>1
      <4>3. QED
        BY <4>1, <4>2
    <3>3. t - 1 = Len(todo) <=> t = Len(todo')
      BY <1>1, <1>4, <2>3
    <3>4. t = Len(todo') - 1 => t - 1 = Len(todo) - 1
      BY <1>1, <1>4, <2>3
    <3>5. QED
      BY <3>1, <3>2, <3>3, <3>4, CallsBelow, ZenonT(30)
  <2>4. t \in 3..Len(todo)+1 \/ t = 1 \/ t = 2
    BY <1>1, <1>4
  <2>5. QED
    BY <2>1, <2>2, <2>3, <2>4
<1>9. NumMsgs(heap'[first.node].buffer) > bufferCap /\ locked'
  BY <1>2, <1>5
<1>10. QED
  BY ONLY <1>4, <1>8, <1>9 DEF CallsValid

(***************************************************************************)
(* A flush into a buffer keeps the invariant: the recursive call is about  *)
(* a child whose buffer is over capacity.                                  *)
(***************************************************************************)
LEMMA FlushToBufferIInv ==
  ASSUME IInv, FlushToBuffer
  PROVE  IInv'
<1> DEFINE p == Head(todo).node
           i == heaviest(heap[p])
           c == heap[p].children[i]
           batch == Bucket(heap[p], i)
           buf == Received(heap[c].buffer, batch)
<1>1. /\ Top("flushNode") /\ ~heap[c].leaf
      /\ heap' = [heap EXCEPT ![p].buffer = Unflushed(heap[p], i),
                              ![c].buffer = buf]
      /\ todo' = Calls(p, i, c, buf) \o Tail(todo)
      /\ UNCHANGED <<root, size, pendingDeletes, locked, result>>
  BY DEF FlushToBuffer
<1> HIDE DEF p, i, c
<1>2. /\ p \in DOMAIN heap /\ p \in Addr /\ heap[p] \in InternalNode
      /\ i \in 1..Len(heap[p].children) /\ i \in Nat
      /\ c \in DOMAIN heap /\ c \in Addr /\ c # p
      /\ Len(todo) >= 1 /\ todo[1].do = "flushNode" /\ p = todo[1].node
  <2>1. p = Head(todo).node /\ i = heaviest(heap[p]) /\ c = heap[p].children[i]
    BY DEF p, i, c
  <2>2. QED
    BY ONLY <1>1, <2>1, IInv, FlushPair
<1>3. heap[c] \in InternalNode /\ heap[c].buffer \in [Key -> Seq(Msg)]
  BY <1>1, <1>2, NodeKinds DEF IInv, TypeOK
<1>4. Unflushed(heap[p], i) \in [Key -> Seq(Msg)] /\ batch \in [Key -> Seq(Msg)]
  BY <1>2, BucketTypes
<1> HIDE DEF batch
<1>5. buf \in [Key -> Seq(Msg)]
  BY <1>3, <1>4, ConcatProperties DEF Received
<1> HIDE DEF buf
<1>6. SameShape /\ heap'[c].buffer = buf
  <2>1. /\ DOMAIN heap' = DOMAIN heap
        /\ heap'[p] = [heap[p] EXCEPT !.buffer = Unflushed(heap[p], i)]
        /\ heap'[c] = [heap[c] EXCEPT !.buffer = buf]
        /\ \A a \in DOMAIN heap : a # p /\ a # c => heap'[a] = heap[a]
    BY <1>1, <1>2
  <2>2. /\ heap'[p] \in InternalNode /\ heap'[p].children = heap[p].children
        /\ heap'[p].pivots = heap[p].pivots /\ heap'[p].leaf = heap[p].leaf
    BY <1>2, <1>4, <2>1, NodeWithBuffer DEF InternalNode
  <2>3. /\ heap'[c] \in InternalNode /\ heap'[c].children = heap[c].children
        /\ heap'[c].pivots = heap[c].pivots /\ heap'[c].leaf = heap[c].leaf
        /\ heap'[c].buffer = buf
    BY <1>3, <1>5, <2>1, NodeWithBuffer, ZenonT(60) DEF InternalNode
  <2>4. \A a \in DOMAIN heap : heap[a] \in LeafNode \cup InternalNode
    BY DEF IInv, TypeOK
  <2>5. QED
    BY <2>1, <2>2, <2>3, <2>4 DEF SameShape
<1>7. size' \in Int /\ pendingDeletes' \in Int
  BY <1>1 DEF IInv, TypeOK
<1>8. todo # <<>> /\ ~heap[p].leaf
  BY <1>1, <1>2 DEF Top, InternalNode
<1>9. todo' \in Seq(Frame) /\ CallsValid'
  <2>1. CASE NumMsgs(buf) > bufferCap
    <3>1. todo' = <<FlushNode(c), CheckChild(p, i)>> \o Tail(todo)
      BY <1>1, <2>1 DEF Calls
    <3>2. NumMsgs(heap'[c].buffer) > bufferCap /\ c = heap[p].children[i]
      BY <1>6, <2>1 DEF c
    <3>3. QED
      BY ONLY IInv, <1>1, <1>2, <1>6, <1>8, <3>1, <3>2, FlushDeeper
  <2>2. CASE ~(NumMsgs(buf) > bufferCap)
    <3>1. todo' = <<CheckChild(p, i)>> \o Tail(todo)
      BY <1>1, <2>2 DEF Calls
    <3>2. QED
      BY ONLY IInv, <1>1, <1>2, <1>6, <1>8, <3>1, ReturnToCheck
  <2>3. QED
    BY <2>1, <2>2
<1>10. QED
  BY <1>1, <1>6, <1>7, <1>9, SameShapeIInv DEF IInv

-----------------------------------------------------------------------------
(* Splitting *)

(* What TypeOK and Closed say of the nodes, for any heap. *)
HeapOK(h) ==
  \A a \in DOMAIN h :
    /\ a \in Addr
    /\ h[a] \in LeafNode \cup InternalNode
    /\ ~h[a].leaf => Len(h[a].children) = Len(h[a].pivots) + 1
    /\ \A i \in 1..Len(h[a].children) :
         h[a].children[i] \in DOMAIN h /\ h[a].children[i][1] = a[1] - 1

(* A half h of node n: its shape is right and its children are n's. *)
HalfOf(h, n) ==
  /\ h \in LeafNode \cup InternalNode
  /\ ~h.leaf => Len(h.children) = Len(h.pivots) + 1
  /\ \A j \in 1..Len(h.children) :
       \E i \in 1..Len(n.children) : h.children[j] = n.children[i]

(* The halves of a leaf: the entries below the pivot, and the others. *)
LEMMA LeafSplit ==
  ASSUME NEW n \in LeafNode, Overfull(n), n.leaf
  PROVE  LET s == splitLeaf(n)
         IN  /\ s.pivot \in KeysOf(n)
             /\ \E k \in KeysOf(n) : k < s.pivot
             /\ s.left \in LeafNode /\ s.right \in LeafNode
             /\ \A k \in Key :
                  /\ s.left.kv[k] = IF k < s.pivot THEN n.kv[k] ELSE Absent
                  /\ s.right.kv[k] = IF k < s.pivot THEN Absent ELSE n.kv[k]
<1> DEFINE keys == KeysOf(n)
           pivot == CHOOSE p \in keys :
                      Cardinality({k \in keys : k < p}) = Cardinality(keys) \div 2
<1>1. keys \subseteq Key /\ IsFiniteSet(keys)
  BY ConstantsAssumption, FS_Subset DEF KeysOf
<1>2. Cardinality(keys) >= 2
  <2>1. Cardinality(keys) > leafCap /\ Cardinality(keys) \in Nat
    BY <1>1, FS_CardinalityType DEF Overfull
  <2>2. QED
    BY <2>1, ConstantsAssumption
<1>3. pivot \in keys /\ \E k \in keys : k < pivot
  BY <1>1, <1>2, MiddleKey
<1> DEFINE low == [k \in Key |-> IF k < pivot THEN n.kv[k] ELSE Absent]
           high == [k \in Key |-> IF k < pivot THEN Absent ELSE n.kv[k]]
<1>4. /\ splitLeaf(n).pivot = pivot
      /\ splitLeaf(n).left = [n EXCEPT !.kv = low]
      /\ splitLeaf(n).right = [n EXCEPT !.kv = high]
  BY DEF splitLeaf, LeafNode
<1>5. low \in [Key -> Opt] /\ high \in [Key -> Opt]
  BY DEF LeafNode, Opt
<1>6. \A k \in Key : /\ low[k] = IF k < pivot THEN n.kv[k] ELSE Absent
                     /\ high[k] = IF k < pivot THEN Absent ELSE n.kv[k]
  OBVIOUS
<1> HIDE DEF low, high, pivot, keys
<1>7. ASSUME NEW kv \in [Key -> Opt]
      PROVE  [n EXCEPT !.kv = kv] \in LeafNode /\ [n EXCEPT !.kv = kv].kv = kv
  BY DEF LeafNode
<1>8. QED
  BY <1>3, <1>4, <1>5, <1>6, <1>7 DEF keys

(***************************************************************************)
(* A leaf that is split has a key to split at, and its halves are leaves.  *)
(***************************************************************************)
LEMMA LeafHalves ==
  ASSUME NEW n \in LeafNode, Overfull(n), n.leaf
  PROVE  /\ splitLeaf(n).pivot \in Key
         /\ HalfOf(splitLeaf(n).left, n)
         /\ HalfOf(splitLeaf(n).right, n)
<1>1. \A x \in LeafNode : HalfOf(x, n)
  <2>1. SUFFICES ASSUME NEW x \in LeafNode PROVE HalfOf(x, n)
    OBVIOUS
  <2>2. x.leaf /\ x.children = <<>> /\ Len(<<>>) = 0
    BY DEF LeafNode
  <2>3. QED
    BY <2>2 DEF HalfOf
<1>2. QED
  BY <1>1, LeafSplit DEF KeysOf

(* The halves of the pivots and children of n, without pivot mid + 1. *)
LowerHalf(x, n, mid) ==
  /\ Len(x.pivots) = mid /\ Len(x.children) = mid + 1
  /\ \A j \in 1..mid : x.pivots[j] = n.pivots[j]
  /\ \A j \in 1..mid+1 : x.children[j] = n.children[j]

UpperHalf(x, n, mid) ==
  /\ Len(x.pivots) = Len(n.pivots) - mid - 1
  /\ Len(x.children) = Len(n.pivots) - mid
  /\ \A j \in 1..Len(n.pivots)-mid-1 : x.pivots[j] = n.pivots[mid+1+j]
  /\ \A j \in 1..Len(n.pivots)-mid : x.children[j] = n.children[mid+1+j]

(* The halves of an internal node, also of its buffer. *)
LEMMA InternalSplit ==
  ASSUME NEW n \in InternalNode, Overfull(n), ~n.leaf,
         Len(n.children) = Len(n.pivots) + 1
  PROVE  LET s == splitInternal(n)
         IN  /\ s.pivot \in Key
             /\ s.left \in InternalNode /\ s.right \in InternalNode
             /\ \A k \in Key :
                  /\ s.left.buffer[k] = IF k < s.pivot THEN n.buffer[k] ELSE <<>>
                  /\ s.right.buffer[k] = IF k < s.pivot THEN <<>> ELSE n.buffer[k]
             /\ \E mid \in Nat :
                  /\ mid >= 1 /\ mid + 1 <= Len(n.pivots)
                  /\ s.pivot = n.pivots[mid + 1]
                  /\ LowerHalf(s.left, n, mid) /\ UpperHalf(s.right, n, mid)
<1>1. /\ n.pivots \in Seq(Key) /\ n.children \in Seq(Addr)
      /\ n.buffer \in [Key -> Seq(Msg)]
  BY DEF InternalNode
<1> DEFINE np == Len(n.pivots)
           mid == np \div 2
<1>2. np \in Nat /\ Len(n.children) = np + 1 /\ np >= 2
  <2>1. Len(n.children) > fanout
    BY DEF Overfull
  <2>2. QED
    BY <1>1, <2>1, LenProperties, ConstantsAssumption
<1> HIDE DEF np
<1>3. mid \in Nat /\ mid >= 1 /\ mid + 1 <= np
  BY <1>2, SMT
<1> DEFINE pivot == n.pivots[mid + 1]
           side(low) == [k \in Key |-> IF (k < pivot) = low THEN n.buffer[k]
                                                           ELSE <<>>]
           sl == side(TRUE)
           sr == side(FALSE)
           lp == SubSeq(n.pivots, 1, mid)
           lc == SubSeq(n.children, 1, mid + 1)
           rp == SubSeq(n.pivots, mid + 2, np)
           rc == SubSeq(n.children, mid + 2, np + 1)
<1>4. /\ splitInternal(n).pivot = pivot
      /\ splitInternal(n).left = Internal(lp, lc, sl)
      /\ splitInternal(n).right = Internal(rp, rc, sr)
  BY <1>2 DEF splitInternal, leftChildren, np
<1> HIDE DEF mid
<1>5. /\ sl \in [Key -> Seq(Msg)] /\ sr \in [Key -> Seq(Msg)]
      /\ \A k \in Key : /\ sl[k] = IF k < pivot THEN n.buffer[k] ELSE <<>>
                        /\ sr[k] = IF k < pivot THEN <<>> ELSE n.buffer[k]
  BY <1>1, EmptySeq
<1>6. pivot \in Key
  <2>1. mid + 1 \in 1..Len(n.pivots)
    BY <1>2, <1>3 DEF np
  <2>2. QED
    BY <1>1, <2>1, ElementOfSeq
<1>7. /\ lp \in Seq(Key) /\ Len(lp) = mid
      /\ \A j \in 1..mid : lp[j] = n.pivots[j]
  <2>1. \A j \in 1..mid : n.pivots[j] \in Key
    BY <1>1, <1>2, <1>3, ElementOfSeq DEF np
  <2>2. /\ lp \in Seq(Key) /\ Len(lp) = IF 1 <= mid THEN mid-1+1 ELSE 0
        /\ \A j \in 1..mid-1+1 : lp[j] = n.pivots[1+j-1]
    BY <1>3, <2>1, SubSeqProperties
  <2>3. QED
    BY <1>3, <2>2
<1>8. /\ rp \in Seq(Key) /\ Len(rp) = np - mid - 1
      /\ \A j \in 1..np-mid-1 : rp[j] = n.pivots[mid+1+j]
  <2>1. \A j \in mid+2..np : n.pivots[j] \in Key
    BY <1>1, <1>2, <1>3, ElementOfSeq DEF np
  <2>2. /\ rp \in Seq(Key) /\ Len(rp) = IF mid+2 <= np THEN np-(mid+2)+1 ELSE 0
        /\ \A j \in 1..np-(mid+2)+1 : rp[j] = n.pivots[(mid+2)+j-1]
    BY <1>2, <1>3, <2>1, SubSeqProperties
  <2>3. np-(mid+2)+1 = np-mid-1
    BY <1>2, <1>3
  <2>4. \A j \in 1..np-mid-1 : (mid+2)+j-1 = mid+1+j
    BY <1>2, <1>3
  <2>5. Len(rp) = np - mid - 1
    BY <1>2, <1>3, <2>2
  <2> HIDE DEF rp
  <2>6. QED
    BY <2>2, <2>3, <2>4, <2>5
<1>9. \A j \in 1..np+1 : n.children[j] \in Addr
  BY <1>1, <1>2, ElementOfSeq
<1>10. /\ lc \in Seq(Addr) /\ Len(lc) = mid + 1
       /\ \A j \in 1..mid+1 : lc[j] = n.children[j]
  <2>1. \A j \in 1..mid+1 : n.children[j] \in Addr
    BY <1>2, <1>3, <1>9
  <2>2. /\ lc \in Seq(Addr)
        /\ Len(lc) = IF 1 <= mid+1 THEN (mid+1)-1+1 ELSE 0
        /\ \A j \in 1..(mid+1)-1+1 : lc[j] = n.children[1+j-1]
    BY <1>3, <2>1, SubSeqProperties
  <2>3. QED
    BY <1>3, <2>2
<1>11. /\ rc \in Seq(Addr) /\ Len(rc) = np - mid
       /\ \A j \in 1..np-mid : rc[j] = n.children[mid+1+j]
  <2>1. \A j \in mid+2..np+1 : n.children[j] \in Addr
    BY <1>2, <1>3, <1>9
  <2>2. /\ rc \in Seq(Addr)
        /\ Len(rc) = IF mid+2 <= np+1 THEN (np+1)-(mid+2)+1 ELSE 0
        /\ \A j \in 1..(np+1)-(mid+2)+1 : rc[j] = n.children[(mid+2)+j-1]
    BY <1>2, <1>3, <2>1, SubSeqProperties
  <2>3. (np+1)-(mid+2)+1 = np - mid /\ mid+2 <= np+1
    BY <1>2, <1>3
  <2>4. \A j \in 1..np-mid : (mid+2)+j-1 = mid+1+j
    BY <1>2, <1>3
  <2>5. QED
    BY <2>2, <2>3, <2>4
<1> HIDE DEF side, sl, sr, lp, lc, rp, rc, pivot
<1>12. /\ Internal(lp, lc, sl) \in InternalNode
       /\ Internal(lp, lc, sl).buffer = sl
       /\ LowerHalf(Internal(lp, lc, sl), n, mid)
  <2> DEFINE h == Internal(lp, lc, sl)
  <2>1. h \in InternalNode /\ h.children = lc /\ h.pivots = lp /\ h.buffer = sl
    BY <1>5, <1>7, <1>10, InternalType DEF Internal
  <2> HIDE DEF h
  <2>2. LowerHalf(h, n, mid)
    BY <1>7, <1>10, <2>1 DEF LowerHalf
  <2>3. QED
    BY <2>1, <2>2 DEF h
<1>13. /\ Internal(rp, rc, sr) \in InternalNode
       /\ Internal(rp, rc, sr).buffer = sr
       /\ UpperHalf(Internal(rp, rc, sr), n, mid)
  <2> DEFINE h == Internal(rp, rc, sr)
  <2>1. h \in InternalNode /\ h.children = rc /\ h.pivots = rp /\ h.buffer = sr
    BY <1>5, <1>8, <1>11, InternalType DEF Internal
  <2> HIDE DEF h
  <2>2. UpperHalf(h, n, mid)
    BY <1>8, <1>11, <2>1 DEF UpperHalf, np
  <2>3. QED
    BY <2>1, <2>2 DEF h
<1>14. /\ mid \in Nat /\ mid >= 1 /\ mid + 1 <= Len(n.pivots)
       /\ splitInternal(n).pivot = n.pivots[mid + 1]
  BY <1>3, <1>4 DEF np, pivot
<1>15. \A k \in Key :
         /\ splitInternal(n).left.buffer[k] =
              IF k < splitInternal(n).pivot THEN n.buffer[k] ELSE <<>>
         /\ splitInternal(n).right.buffer[k] =
              IF k < splitInternal(n).pivot THEN <<>> ELSE n.buffer[k]
  BY <1>4, <1>5, <1>12, <1>13
<1> HIDE DEF mid
<1>16. QED
  BY <1>4, <1>6, <1>12, <1>13, <1>14, <1>15

(***************************************************************************)
(* An internal node that is split has a pivot to split at, and its halves  *)
(* have one child more than pivots.                                        *)
(***************************************************************************)
LEMMA InternalHalves ==
  ASSUME NEW n \in InternalNode, Overfull(n), ~n.leaf,
         Len(n.children) = Len(n.pivots) + 1
  PROVE  /\ splitInternal(n).pivot \in Key
         /\ HalfOf(splitInternal(n).left, n)
         /\ HalfOf(splitInternal(n).right, n)
<1> DEFINE l == splitInternal(n).left
           r == splitInternal(n).right
           np == Len(n.pivots)
<1>1. /\ splitInternal(n).pivot \in Key
      /\ l \in InternalNode /\ r \in InternalNode
      /\ \E mid \in Nat : /\ mid >= 1 /\ mid + 1 <= np
                          /\ LowerHalf(l, n, mid) /\ UpperHalf(r, n, mid)
  BY InternalSplit
<1>2. np \in Nat
  BY LenProperties DEF InternalNode
<1> HIDE DEF l, r, np
<1>3. PICK mid \in Nat : /\ mid >= 1 /\ mid + 1 <= np
                         /\ LowerHalf(l, n, mid) /\ UpperHalf(r, n, mid)
  BY <1>1
<1>4. HalfOf(l, n)
  <2>1. Len(l.pivots) = mid /\ Len(l.children) = mid + 1
    BY <1>3 DEF LowerHalf
  <2>2. \A j \in 1..mid+1 : j \in 1..np+1 /\ l.children[j] = n.children[j]
    BY <1>2, <1>3 DEF LowerHalf
  <2>3. QED
    BY <1>1, <2>1, <2>2 DEF HalfOf, np
<1>5. HalfOf(r, n)
  <2>1. Len(r.pivots) = np - mid - 1 /\ Len(r.children) = np - mid
    BY <1>3 DEF UpperHalf, np
  <2>2. \A j \in 1..np-mid :
          mid+1+j \in 1..np+1 /\ r.children[j] = n.children[mid+1+j]
    <3>1. \A j \in 1..np-mid : r.children[j] = n.children[mid+1+j]
      BY <1>3 DEF UpperHalf, np
    <3>2. QED
      BY <1>2, <1>3, <3>1
  <2>3. Len(r.children) = Len(r.pivots) + 1
    BY <1>2, <1>3, <2>1
  <2>4. QED
    BY <1>1, <2>1, <2>2, <2>3 DEF HalfOf, np
<1>6. QED
  BY <1>1, <1>4, <1>5 DEF l, r

(* Splitting child i of p touches p and nodes one level below it. *)
LEMMA SplitHeap ==
  ASSUME NEW h, HeapOK(h), NEW p \in DOMAIN h, ~h[p].leaf,
         NEW i \in 1..Len(h[p].children), Overfull(h[h[p].children[i]])
  PROVE  /\ HeapOK(splitChild(h, p, i))
         /\ DOMAIN h \subseteq DOMAIN splitChild(h, p, i)
         /\ \A a \in DOMAIN h : a[1] > p[1] => splitChild(h, p, i)[a] = h[a]
<1> DEFINE c == h[p].children[i]
           s == IF h[c].leaf THEN splitLeaf(h[c]) ELSE splitInternal(h[c])
           r == <<c[1], s.pivot>>
           pivots == InsertAt(h[p].pivots, i, s.pivot)
           children == InsertAt(h[p].children, i + 1, r)
           parent == Internal(pivots, children, h[p].buffer)
           new == splitChild(h, p, i)
<1>1. /\ DOMAIN new = DOMAIN h \cup {r}
      /\ \A a \in DOMAIN h \cup {r} :
           new[a] = CASE a = p -> parent [] a = c -> s.left
                      [] a = r -> s.right [] OTHER -> h[a]
  BY DEF splitChild
<1>2. /\ p \in Addr /\ h[p] \in InternalNode /\ p[1] \in Nat
      /\ h[p].pivots \in Seq(Key) /\ h[p].children \in Seq(Addr)
      /\ h[p].buffer \in [Key -> Seq(Msg)]
      /\ Len(h[p].children) = Len(h[p].pivots) + 1
      /\ Len(h[p].pivots) \in Nat
  <2>1. /\ p \in Addr /\ h[p] \in LeafNode \cup InternalNode
        /\ Len(h[p].children) = Len(h[p].pivots) + 1
    BY DEF HeapOK
  <2>2. h[p] \in InternalNode /\ p[1] \in Nat
    BY <2>1, NodeKinds DEF Addr
  <2>3. QED
    BY <2>1, <2>2, LenProperties DEF InternalNode
<1>3. c \in DOMAIN h /\ c[1] = p[1] - 1
  BY DEF HeapOK
<1> HIDE DEF c
<1>4. c \in Addr /\ h[c] \in LeafNode \cup InternalNode /\ c[1] \in Nat
      /\ (~h[c].leaf => Len(h[c].children) = Len(h[c].pivots) + 1)
  BY <1>3 DEF HeapOK, Addr
<1>5. s.pivot \in Key /\ HalfOf(s.left, h[c]) /\ HalfOf(s.right, h[c])
  <2>1. Overfull(h[c])
    BY DEF c
  <2>2. CASE h[c].leaf
    BY <1>4, <2>1, <2>2, NodeKinds, LeafHalves
  <2>3. CASE ~h[c].leaf
    BY <1>4, <2>1, <2>3, NodeKinds, InternalHalves
  <2>4. QED
    BY <2>2, <2>3
<1> HIDE DEF s
<1>6. r \in Addr /\ r[1] = p[1] - 1
  <2>1. s.pivot \in Nat
    BY <1>5, ConstantsAssumption
  <2>2. QED
    BY <1>3, <1>4, <2>1 DEF Addr
<1> HIDE DEF r
<1>7. pivots \in Seq(Key) /\ Len(pivots) = Len(h[p].pivots) + 1
  <2> DEFINE q == h[p].pivots
             e == s.pivot
  <2>1. q \in Seq(Key) /\ e \in Key /\ i \in 1..Len(q)+1
    BY <1>2, <1>5
  <2>2. pivots = InsertAt(q, i, e)
    OBVIOUS
  <2> HIDE DEF q, e, pivots
  <2>3. pivots \in Seq(Key) /\ Len(pivots) = Len(q) + 1
    BY ONLY <2>1, <2>2, InsertAtProperties
  <2>4. QED
    BY <2>3 DEF q
<1>8. /\ children \in Seq(Addr) /\ Len(children) = Len(h[p].children) + 1
      /\ \A j \in 1..Len(children) :
           \/ children[j] = r
           \/ \E m \in 1..Len(h[p].children) : children[j] = h[p].children[m]
  <2> DEFINE q == h[p].children
             d == i + 1
  <2>1. q \in Seq(Addr) /\ r \in Addr /\ d \in 1..Len(q)+1 /\ Len(q) \in Nat
    BY <1>2, <1>6
  <2>2. children = InsertAt(q, d, r)
    OBVIOUS
  <2> HIDE DEF q, d, children
  <2>3. /\ children \in Seq(Addr) /\ Len(children) = Len(q) + 1
        /\ \A j \in 1..Len(q)+1 :
             children[j] = IF j < d THEN q[j] ELSE IF j = d THEN r ELSE q[j-1]
    <3>1. /\ InsertAt(q, d, r) \in Seq(Addr)
          /\ Len(InsertAt(q, d, r)) = Len(q) + 1
          /\ \A j \in 1..Len(q)+1 :
               InsertAt(q, d, r)[j] =
                 IF j < d THEN q[j] ELSE IF j = d THEN r ELSE q[j-1]
      BY ONLY <2>1, InsertAtProperties
    <3>2. QED
      BY ONLY <2>2, <3>1, Zenon
  <2>4. ASSUME NEW j \in 1..Len(children)
        PROVE  children[j] = r \/ \E m \in 1..Len(q) : children[j] = q[m]
    <3>1. CASE j < d
      <4>1. j \in 1..Len(q) /\ children[j] = q[j]
        BY <2>1, <2>3, <3>1
      <4>2. QED
        BY <4>1
    <3>2. CASE j = d
      BY <2>3, <3>2
    <3>3. CASE j > d
      <4>1. j - 1 \in 1..Len(q) /\ children[j] = q[j-1]
        BY <2>1, <2>3, <3>3
      <4>2. QED
        BY <4>1
    <3>4. QED
      BY <2>1, <3>1, <3>2, <3>3
  <2>5. QED
    BY <2>3, <2>4 DEF q
<1> HIDE DEF pivots, children
<1>9. /\ parent \in InternalNode /\ ~parent.leaf
      /\ parent.children = children /\ parent.pivots = pivots
  <2> DEFINE b == h[p].buffer
  <2>1. b \in [Key -> Seq(Msg)] /\ parent = Internal(pivots, children, b)
    BY <1>2
  <2> HIDE DEF b, parent
  <2>2. QED
    BY ONLY <1>7, <1>8, <2>1, InternalType
<1> HIDE DEF parent, new
<1>p. p # c /\ p # r
  BY <1>2, <1>3, <1>6
<1>10. ASSUME NEW a \in DOMAIN new
       PROVE  /\ a \in Addr
              /\ new[a] \in LeafNode \cup InternalNode
              /\ ~new[a].leaf => Len(new[a].children) = Len(new[a].pivots) + 1
              /\ \A j \in 1..Len(new[a].children) :
                   /\ new[a].children[j] \in DOMAIN new
                   /\ new[a].children[j][1] = a[1] - 1
  <2>1. a \in DOMAIN h \cup {r} /\ a \in Addr
    BY <1>1, <1>6 DEF HeapOK
  <2>2. CASE a = p
    <3>1. new[a] = parent
      BY <1>1, <1>p, <2>1, <2>2
    <3>2. ASSUME NEW j \in 1..Len(children)
          PROVE  children[j] \in DOMAIN new /\ children[j][1] = a[1] - 1
      <4>1. CASE children[j] = r
        BY <1>1, <1>6, <2>2, <4>1
      <4>2. CASE \E m \in 1..Len(h[p].children) : children[j] = h[p].children[m]
        BY <1>1, <2>2, <4>2 DEF HeapOK
      <4>3. QED
        BY <1>8, <4>1, <4>2
    <3>3. Len(children) = Len(pivots) + 1
      BY <1>2, <1>7, <1>8
    <3>4. QED
      BY <1>9, <2>1, <3>1, <3>2, <3>3
  <2>3. ASSUME NEW x, HalfOf(x, h[c]), new[a] = x, a[1] = c[1]
        PROVE  /\ new[a] \in LeafNode \cup InternalNode
               /\ ~new[a].leaf => Len(new[a].children) = Len(new[a].pivots) + 1
               /\ \A j \in 1..Len(new[a].children) :
                    /\ new[a].children[j] \in DOMAIN new
                    /\ new[a].children[j][1] = a[1] - 1
    <3>1. ASSUME NEW j \in 1..Len(x.children)
          PROVE  x.children[j] \in DOMAIN new /\ x.children[j][1] = a[1] - 1
      <4>1. PICK m \in 1..Len(h[c].children) : x.children[j] = h[c].children[m]
        BY <2>3 DEF HalfOf
      <4>2. QED
        BY <1>1, <1>3, <2>3, <4>1 DEF HeapOK
    <3>2. QED
      BY <2>3, <3>1 DEF HalfOf
  <2>4. CASE a # p /\ (a = c \/ a = r)
    <3>1. new[a] = s.left \/ new[a] = s.right
      BY <1>1, <2>1, <2>4
    <3>2. a[1] = c[1]
      BY <1>3, <1>6, <2>4
    <3>3. QED
      BY <1>5, <2>1, <2>3, <3>1, <3>2
  <2>6. CASE a # p /\ a # c /\ a # r
    <3>1. a \in DOMAIN h /\ new[a] = h[a]
      BY <1>1, <2>1, <2>6
    <3>2. QED
      BY <1>1, <2>1, <3>1 DEF HeapOK
  <2>7. QED
    BY <2>2, <2>4, <2>6
<1>11. ASSUME NEW a \in DOMAIN h, a[1] > p[1]
       PROVE  new[a] = h[a]
  <2>1. a # p /\ a # c /\ a # r
    BY <1>2, <1>3, <1>6, <1>11
  <2>2. QED
    BY <1>1, <2>1
<1>12. HeapOK(new)
  BY <1>10 DEF HeapOK
<1>13. QED
  BY <1>1, <1>11, <1>12 DEF new

(***************************************************************************)
(* HeapOK says of any heap what TypeOK and Closed say of the heap of the   *)
(* tree.                                                                   *)
(***************************************************************************)
LEMMA HeapTypes == HeapOK(heap) <=> /\ \A a \in DOMAIN heap :
                                         /\ a \in Addr
                                         /\ heap[a] \in LeafNode \cup InternalNode
                                         /\ ~heap[a].leaf =>
                                              Len(heap[a].children) =
                                                Len(heap[a].pivots) + 1
                                    /\ Closed
  BY DEF HeapOK, Closed

(* The callers of the call on top are at work on nodes of higher levels. *)
LEMMA StackLevels ==
  ASSUME IInv, NEW t \in Nat, t >= 2, t < Len(todo), todo[1].node \in DOMAIN heap
  PROVE  /\ todo[t].do = "checkChild"
         /\ todo[t].node \in DOMAIN heap
         /\ todo[t].node[1] > todo[1].node[1]
<1>1. todo \in Seq(Frame) /\ Len(todo) \in Nat
  BY LenProperties DEF IInv, TypeOK
<1>2. \A a \in DOMAIN heap : a[1] \in Nat
  BY DEF IInv, TypeOK, Addr
<1>3. ASSUME NEW u \in Nat, u >= 2, u < Len(todo)
      PROVE  /\ todo[u].do = "checkChild" /\ todo[u].node \in DOMAIN heap
             /\ todo[u].node[1] = todo[u-1].node[1] + 1
  <2>1. u \in 1..Len(todo) /\ u > 1 /\ u # 1 /\ u # Len(todo)
    BY <1>1, <1>3
  <2>2. todo[u].do \in {"flushNode", "checkChild", "checkRoot"}
    <3>1. todo[u] \in Frame
      BY <1>1, <2>1, ElementOfSeq
    <3>2. QED
      BY <3>1 DEF Frame
  <2>3. /\ todo[u].do = "checkChild" /\ todo[u].node \in DOMAIN heap
        /\ todo[u].idx \in 1..Len(heap[todo[u].node].children)
        /\ heap[todo[u].node].children[todo[u].idx] = todo[u-1].node
    BY <2>1, <2>2 DEF IInv, CallsValid
  <2>4. todo[u-1].node[1] = todo[u].node[1] - 1
    BY <2>3 DEF IInv, Closed
  <2>5. QED
    BY <1>2, <2>3, <2>4
<1> DEFINE T == {n \in Nat : n + 2 < Len(todo) =>
                               todo[n + 2].node[1] > todo[1].node[1]}
<1>4. 0 \in T
  <2>1. SUFFICES ASSUME 2 < Len(todo)
                 PROVE  todo[2].node[1] > todo[1].node[1]
    OBVIOUS
  <2>2. todo[2].node[1] = todo[1].node[1] + 1
    <3> DEFINE u == 2
    <3>1. u \in Nat /\ u >= 2 /\ u < Len(todo) /\ u - 1 = 1
      BY <2>1
    <3> HIDE DEF u
    <3>2. todo[u].node[1] = todo[u-1].node[1] + 1
      BY <1>3, <3>1
    <3>3. QED
      BY <3>1, <3>2 DEF u
  <2>3. QED
    BY <1>2, <2>2
<1>5. ASSUME NEW n \in Nat, n \in T PROVE n + 1 \in T
  <2>1. SUFFICES ASSUME (n + 1) + 2 < Len(todo)
                 PROVE  todo[(n + 1) + 2].node[1] > todo[1].node[1]
    OBVIOUS
  <2>2. n + 2 < Len(todo) /\ ((n + 1) + 2) - 1 = n + 2 /\ (n + 1) + 2 >= 2
    BY <1>1, <2>1
  <2>3. todo[n + 2].node[1] > todo[1].node[1]
    BY <1>5, <2>2
  <2>4. /\ todo[(n + 1) + 2].node[1] = todo[n + 2].node[1] + 1
        /\ todo[(n + 1) + 2].node \in DOMAIN heap
    BY <1>3, <2>1, <2>2
  <2>5. n + 2 \in Nat /\ n + 2 >= 2 /\ todo[n + 2].node \in DOMAIN heap
    BY <1>3, <2>2
  <2>6. QED
    BY <1>2, <2>3, <2>4, <2>5
<1> HIDE DEF T
<1>6. Nat \subseteq T
  BY <1>4, <1>5, InductionOnNat
<1>7. t - 2 \in T /\ (t - 2) + 2 = t
  BY <1>6
<1>8. QED
  BY <1>3, <1>7 DEF T

(***************************************************************************)
(* splitChild and the check before it keep the invariant.                  *)
(***************************************************************************)
LEMMA SplitChildIInv ==
  ASSUME IInv, SplitChild
  PROVE  IInv'
<1> DEFINE p == todo[1].node
           i == todo[1].idx
           c == heap[p].children[i]
<1>1. /\ todo \in Seq(Frame) /\ todo # <<>> /\ Len(todo) \in Nat
      /\ Len(todo) >= 1 /\ Head(todo) = todo[1]
  BY EmptySeq, LenProperties, SMT DEF IInv, TypeOK, SplitChild, Top
<1>2. /\ todo[1].do = "checkChild"
      /\ heap' = IF Overfull(heap[c]) THEN splitChild(heap, p, i) ELSE heap
      /\ todo' = Tail(todo)
      /\ UNCHANGED <<root, size, pendingDeletes, locked, result>>
  BY <1>1 DEF SplitChild, Top
<1>3. /\ p \in DOMAIN heap /\ ~heap[p].leaf
      /\ i \in 1..Len(heap[p].children)
  <2>1. 1 \in 1..Len(todo)
    BY <1>1
  <2>2. QED
    BY <1>2, <2>1 DEF IInv, CallsValid
<1>4. HeapOK(heap)
  BY HeapTypes DEF IInv, TypeOK
<1> HIDE DEF p, i
<1>5. /\ HeapOK(heap') /\ DOMAIN heap \subseteq DOMAIN heap'
      /\ \A a \in DOMAIN heap : a[1] > p[1] => heap'[a] = heap[a]
  <2>1. CASE Overfull(heap[c])
    <3>1. heap' = splitChild(heap, p, i)
      BY <1>2, <2>1
    <3>2. /\ HeapOK(splitChild(heap, p, i))
          /\ DOMAIN heap \subseteq DOMAIN splitChild(heap, p, i)
          /\ \A a \in DOMAIN heap :
               a[1] > p[1] => splitChild(heap, p, i)[a] = heap[a]
      BY ONLY <1>3, <1>4, <2>1, SplitHeap DEF c
    <3>3. QED
      BY <3>1, <3>2
  <2>2. CASE ~Overfull(heap[c])
    BY <1>2, <1>4, <2>2
  <2>3. QED
    BY <2>1, <2>2
<1>6. /\ todo' \in Seq(Frame) /\ Len(todo') = Len(todo) - 1
      /\ \A t \in 1..Len(todo)-1 : todo'[t] = todo[t+1]
  BY <1>1, <1>2, HeadTailProperties
<1>7. locked /\ locked'
  BY <1>1, <1>2 DEF IInv, CallsValid
<1>8. ASSUME NEW t \in 1..Len(todo')
      PROVE  LET f == todo'[t]
             IN  /\ f.do = "checkRoot" <=> t = Len(todo')
                 /\ f.do # "checkRoot" =>
                      f.node \in DOMAIN heap' /\ ~heap'[f.node].leaf
                 /\ f.do # "flushNode"
                 /\ f.do = "checkChild" =>
                      /\ f.idx \in 1..Len(heap'[f.node].children)
                      /\ t > 1 => heap'[f.node].children[f.idx] = todo'[t-1].node
                 /\ t = Len(todo') - 1 => f.node = root'
  <2> DEFINE u == t + 1
  <2>1. /\ u \in 1..Len(todo) /\ u > 1 /\ u # 1 /\ u \in Nat /\ u >= 2
        /\ todo'[t] = todo[u]
        /\ u = Len(todo) <=> t = Len(todo')
        /\ u = Len(todo) - 1 <=> t = Len(todo') - 1
    BY <1>1, <1>6
  <2>2. t > 1 => todo'[t-1] = todo[u-1]
    <3>1. t > 1 => t - 1 \in 1..Len(todo)-1 /\ (t-1)+1 = u - 1
      BY <1>1, <1>6
    <3>2. QED
      BY <1>6, <3>1
  <2> HIDE DEF u
  <2>3. /\ todo[u].do = "checkRoot" <=> u = Len(todo)
        /\ todo[u].do # "flushNode"
        /\ todo[u].do # "checkRoot" =>
             todo[u].node \in DOMAIN heap /\ ~heap[todo[u].node].leaf
        /\ todo[u].do = "checkChild" =>
             /\ todo[u].idx \in 1..Len(heap[todo[u].node].children)
             /\ heap[todo[u].node].children[todo[u].idx] = todo[u-1].node
        /\ u = Len(todo) - 1 => todo[u].node = root
    BY <2>1 DEF IInv, CallsValid
  <2>4. todo[u].do # "checkRoot" =>
          heap'[todo[u].node] = heap[todo[u].node] /\ todo[u].node \in DOMAIN heap'
    <3>1. SUFFICES ASSUME u # Len(todo)
                   PROVE  /\ heap'[todo[u].node] = heap[todo[u].node]
                          /\ todo[u].node \in DOMAIN heap'
      BY <2>3
    <3>2. u < Len(todo)
      BY <1>1, <2>1, <3>1
    <3>3. todo[u].node \in DOMAIN heap /\ todo[u].node[1] > todo[1].node[1]
      BY <1>3, <2>1, <3>2, StackLevels DEF p
    <3>4. QED
      BY <1>5, <3>3 DEF p
  <2>5. root' = root
    BY <1>2
  <2>6. QED
    BY <2>1, <2>2, <2>3, <2>4, <2>5, SMTT(20)
<1>9. CallsValid'
  BY ONLY <1>7, <1>8 DEF CallsValid
<1>10. TypeOK' /\ Closed'
  <2>1. root' \in DOMAIN heap' /\ size' \in Int /\ pendingDeletes' \in Int
    BY <1>2, <1>5 DEF IInv, TypeOK
  <2>2. locked' \in BOOLEAN /\ result' \in Nat
    BY <1>2 DEF IInv, TypeOK
  <2>3. QED
    BY <1>5, <1>6, <2>1, <2>2 DEF HeapOK, TypeOK, Closed
<1>11. QED
  BY <1>9, <1>10 DEF IInv

(***************************************************************************)
(* splitRoot and the check before it keep the invariant.                   *)
(***************************************************************************)
LEMMA SplitRootIInv ==
  ASSUME IInv, SplitRoot
  PROVE  IInv'
<1> DEFINE r == <<root[1] + 1, 0>>
           grown == [a \in DOMAIN heap \cup {r} |->
                       IF a = r THEN Internal(<<>>, <<root>>, NoMsgs)
                                ELSE heap[a]]
<1>1. /\ todo \in Seq(Frame) /\ todo # <<>> /\ Len(todo) \in Nat
      /\ Len(todo) >= 1 /\ Head(todo) = todo[1]
  BY EmptySeq, LenProperties, SMT DEF IInv, TypeOK, SplitRoot, Top
<1>2. /\ todo[1].do = "checkRoot"
      /\ todo' = Tail(todo)
      /\ UNCHANGED <<size, pendingDeletes, locked, result>>
      /\ \/ /\ Overfull(heap[root])
            /\ root' = r
            /\ heap' = splitChild(grown, r, 1)
         \/ UNCHANGED <<heap, root>>
  BY <1>1 DEF SplitRoot, Top
<1>3. todo' = <<>>
  <2>1. 1 \in 1..Len(todo)
    BY <1>1
  <2>2. Len(todo) = 1
    BY <1>2, <2>1 DEF IInv, CallsValid
  <2>3. Len(Tail(todo)) = 0 /\ Tail(todo) \in Seq(Frame)
    BY <1>1, <2>2, HeadTailProperties
  <2>4. QED
    BY <1>2, <2>3, EmptySeq
<1>4. HeapOK(heap) /\ root \in DOMAIN heap /\ root \in Addr
  BY HeapTypes DEF IInv, TypeOK
<1>5. r \in Addr /\ root # r /\ root[1] = r[1] - 1
  BY <1>4 DEF Addr
<1> HIDE DEF r
<1> DEFINE top == Internal(<<>>, <<root>>, NoMsgs)
<1>6. /\ top \in InternalNode /\ ~top.leaf
      /\ top.children = <<root>> /\ top.pivots = <<>>
  <2> DEFINE none == <<>>
             only == <<root>>
  <2>1. none \in Seq(Key) /\ only \in Seq(Addr)
    BY <1>4
  <2>2. NoMsgs \in [Key -> Seq(Msg)]
    BY EmptySeq DEF NoMsgs
  <2>3. top = Internal(none, only, NoMsgs)
    OBVIOUS
  <2> HIDE DEF none, only, top
  <2>4. top \in InternalNode /\ ~top.leaf /\ top.children = only /\ top.pivots = none
    BY ONLY <2>1, <2>2, <2>3, InternalType
  <2>5. QED
    BY <2>4 DEF none, only
<1>7. /\ DOMAIN grown = DOMAIN heap \cup {r} /\ grown[r] = top
      /\ \A a \in DOMAIN heap : a # r => grown[a] = heap[a]
  OBVIOUS
<1> HIDE DEF grown, top
<1>8. Len(<<root>>) = 1 /\ <<root>>[1] = root /\ Len(<<>>) = 0
  OBVIOUS
<1>9. HeapOK(grown)
  <2>1. SUFFICES ASSUME NEW a \in DOMAIN grown
                 PROVE  /\ a \in Addr
                        /\ grown[a] \in LeafNode \cup InternalNode
                        /\ ~grown[a].leaf => Len(grown[a].children) =
                                               Len(grown[a].pivots) + 1
                        /\ \A i \in 1..Len(grown[a].children) :
                             /\ grown[a].children[i] \in DOMAIN grown
                             /\ grown[a].children[i][1] = a[1] - 1
    BY DEF HeapOK
  <2>2. CASE a = r
    <3>1. \A i \in 1..Len(top.children) : top.children[i] = root
      BY <1>6, <1>8
    <3>2. Len(top.children) = Len(top.pivots) + 1
      BY <1>6, <1>8
    <3>3. QED
      BY <1>4, <1>5, <1>6, <1>7, <2>2, <3>1, <3>2
  <2>3. CASE a # r
    <3>1. a \in DOMAIN heap /\ grown[a] = heap[a]
      BY <1>7, <2>3
    <3>2. QED
      BY <1>4, <1>7, <3>1 DEF HeapOK
  <2>4. QED
    BY <2>2, <2>3
<1>10. HeapOK(heap') /\ root' \in DOMAIN heap'
  <2>1. CASE UNCHANGED <<heap, root>>
    BY <1>4, <2>1
  <2>2. CASE /\ Overfull(heap[root]) /\ root' = r
             /\ heap' = splitChild(grown, r, 1)
    <3> DEFINE first == 1
    <3>1. /\ r \in DOMAIN grown /\ ~grown[r].leaf
          /\ first \in 1..Len(grown[r].children)
          /\ grown[r].children[first] = root
      BY <1>6, <1>7, <1>8
    <3>2. Overfull(grown[grown[r].children[first]])
      <4>1. grown[root] = heap[root]
        BY <1>4, <1>5, <1>7
      <4>2. QED
        BY <2>2, <3>1, <4>1
    <3>3. heap' = splitChild(grown, r, first)
      BY <2>2
    <3> HIDE DEF first
    <3>4. /\ HeapOK(splitChild(grown, r, first))
          /\ DOMAIN grown \subseteq DOMAIN splitChild(grown, r, first)
      BY ONLY <1>9, <3>1, <3>2, SplitHeap
    <3>5. QED
      BY <2>2, <3>1, <3>3, <3>4
  <2>3. QED
    BY <1>2, <2>1, <2>2
<1>11. CallsValid'
  BY <1>3, <1>8 DEF CallsValid
<1>12. TypeOK' /\ Closed'
  <2>1. size' \in Int /\ pendingDeletes' \in Int
    BY <1>2 DEF IInv, TypeOK
  <2>2. locked' \in BOOLEAN /\ result' \in Nat /\ todo' \in Seq(Frame)
    BY <1>2, <1>3, EmptySeq DEF IInv, TypeOK
  <2>3. QED
    BY <1>10, <2>1, <2>2 DEF HeapOK, TypeOK, Closed
<1>13. QED
  BY <1>11, <1>12 DEF IInv

-----------------------------------------------------------------------------
(* The whole system *)

(***************************************************************************)
(* A step that changes the lock or the result only keeps the invariant.    *)
(***************************************************************************)
LEMMA SameIInv ==
  ASSUME IInv, UNCHANGED <<heap, root, size, pendingDeletes, todo>>,
         locked' \in BOOLEAN, result' \in Nat, todo # <<>> => locked'
  PROVE  IInv'
<1>1. Len(<<>>) = 0
  OBVIOUS
<1>2. TypeOK' /\ Closed'
  BY DEF IInv, TypeOK, Closed
<1>3. CallsValid'
  BY <1>1 DEF IInv, CallsValid
<1>4. QED
  BY <1>2, <1>3 DEF IInv

(***************************************************************************)
(* Every step keeps the invariant.                                         *)
(***************************************************************************)
LEMMA NextIInv == IInv /\ [Next]_vars => IInv'
<1>1. SUFFICES ASSUME IInv, [Next]_vars PROVE IInv'
  OBVIOUS
<1>2. ASSUME NEW k \in Key, NEW v \in Value, NEW new \in BOOLEAN,
             NEW n \in Nat, putLocked(k, v, new, n)
      PROVE  IInv'
  BY ONLY <1>1, <1>2, PutLockedIInv
<1>3. ASSUME NEW k \in Key, NEW v \in Puts, Put(k, v) \/ PutIfAbsent(k, v)
      PROVE  IInv'
  <2> DEFINE no == FALSE
             yes == TRUE
             n0 == 0
             n1 == 1
  <2>1. /\ v \in Value /\ no \in BOOLEAN /\ yes \in BOOLEAN
        /\ n0 \in Nat /\ n1 \in Nat
    BY ConstantsAssumption
  <2>2. putLocked(k, v, no, n0) \/ putLocked(k, v, yes, n1) \/ NoWrite(n0)
    BY <1>3 DEF Put, PutIfAbsent
  <2> HIDE DEF no, yes, n0, n1
  <2>3. NoWrite(n0) => IInv'
    BY ONLY <1>1, <2>1, NoWriteIInv
  <2>4. QED
    BY <1>2, <2>1, <2>2, <2>3
<1>4. ASSUME NEW k \in Key, Delete(k) PROVE IInv'
  BY <1>1, <1>4, DeleteIInv
<1>5. ASSUME NEW r \in Ranges, DeleteRange(r[1], r[2]) PROVE IInv'
  <2> DEFINE lo == r[1]
             hi == r[2]
  <2>1. lo \in Nat /\ hi \in Nat
    BY ConstantsAssumption
  <2>2. DeleteRange(lo, hi)
    BY <1>5
  <2> HIDE DEF lo, hi
  <2>3. QED
    BY ONLY <1>1, <2>1, <2>2, DeleteRangeIInv
<1>6. ASSUME NEW k \in Key, NEW f \in Fns, Upsert(k, f) PROVE IInv'
  BY <1>1, <1>6, UpsertIInv
<1>7. ASSUME Unlock PROVE IInv'
  <2>1. /\ UNCHANGED <<heap, root, size, pendingDeletes, todo>>
        /\ locked' \in BOOLEAN /\ result' \in Nat /\ todo = <<>>
    BY <1>7 DEF Unlock, tree
  <2>2. QED
    BY <1>1, <2>1, SameIInv
<1>8. ASSUME UNCHANGED vars PROVE IInv'
  <2>1. /\ UNCHANGED <<heap, root, size, pendingDeletes, todo>>
        /\ locked' = locked /\ result' = result
    BY <1>8 DEF vars
  <2>2. locked' \in BOOLEAN /\ result' \in Nat /\ (todo # <<>> => locked')
    BY <1>1, <2>1 DEF IInv, TypeOK, CallsValid
  <2>3. QED
    BY <1>1, <2>1, <2>2, SameIInv
<1>9. QED
  BY <1>1, <1>3, <1>4, <1>5, <1>6, <1>7, <1>8, ClearIInv,
     FlushToLeafIInv, FlushToBufferIInv, SplitChildIInv, SplitRootIInv
     DEF Next, Continue

(***************************************************************************)
(* In every state of every instance a leaf has no pivots, children or      *)
(* messages, an internal node has no entries and one child more than it    *)
(* has pivots (node.go:9-19): no sequence of writes, flushes and splits    *)
(* (flush.go:8-64, 363-442) leaves a node of another shape.                *)
(***************************************************************************)
THEOREM TypeCorrect == Spec => []TypeOK
<1>1. IInv => TypeOK
  BY DEF IInv
<1>2. QED
  BY InitIInv, NextIInv, <1>1, PTL DEF Spec

(***************************************************************************)
(* In every state of every instance the calls of a cascade that have not   *)
(* returned refer to nodes that exist: flushNode's early return is never   *)
(* taken, and the child index it keeps across the recursive flush is still *)
(* that child's when it splits it (flush.go:48-62).                        *)
(***************************************************************************)
THEOREM CallsSound == Spec => []CallsValid
<1>1. IInv => CallsValid
  BY DEF IInv
<1>2. QED
  BY InitIInv, NextIInv, <1>1, PTL DEF Spec

-----------------------------------------------------------------------------
(* SearchTree, of a heap h with root r: a split passes through a heap that *)
(* is in no state, when it grows a new root.                               *)

TerritoryIn(h, a) ==
  {k \in Key : /\ a[2] <= k
               /\ \A b \in DOMAIN h : b[1] = a[1] /\ a[2] < b[2] => k < b[2]}

LowIn(h, a, i) == IF i = 1 THEN a[2] ELSE h[a].pivots[i-1]

LevelsIn(h, r) ==
  /\ r \in DOMAIN h /\ r[2] = 0
  /\ \A a \in DOMAIN h :
       /\ a[1] <= r[1]
       /\ a[1] = r[1] => a = r
       /\ h[a].leaf <=> a[1] = 0

PivotsIn(h) ==
  \A a \in DOMAIN h :
    /\ \A i \in 1..Len(h[a].pivots) :
         h[a].pivots[i] \in TerritoryIn(h, a) /\ LowIn(h, a, i) < h[a].pivots[i]
    /\ \A i \in 1..Len(h[a].children) :
         h[a].children[i] = <<a[1] - 1, LowIn(h, a, i)>> /\ h[a].children[i] \in DOMAIN h

ReachableIn(h, r) ==
  \A a \in DOMAIN h \ {r} :
    \E p \in DOMAIN h : \E i \in 1..Len(h[p].children) : h[p].children[i] = a

RoutedIn(h) ==
  \A a \in DOMAIN h, k \in Key :
    h[a].kv[k] # Absent \/ h[a].buffer[k] # <<>> => k \in TerritoryIn(h, a)

ShapeIn(h, r) ==
  HeapOK(h) /\ LevelsIn(h, r) /\ PivotsIn(h) /\ ReachableIn(h, r) /\ RoutedIn(h)

(* In a state, this is SearchTree. *)
LEMMA ShapeOfHeap ==
  ASSUME IInv
  PROVE  SearchTree <=> ShapeIn(heap, root)
<1>1. HeapOK(heap)
  BY HeapTypes DEF IInv, TypeOK
<1>2. \A a : Territory(a) = TerritoryIn(heap, a)
  BY DEF Territory, TerritoryIn
<1>3. \A a, i : LowOf(a, i) = LowIn(heap, a, i)
  BY DEF LowOf, LowIn
<1>4. Levels <=> LevelsIn(heap, root)
  BY DEF Levels, LevelsIn, IInv, TypeOK
<1>5. Pivots <=> PivotsIn(heap)
  BY <1>2, <1>3 DEF Pivots, PivotsIn
<1>6. Reachable <=> ReachableIn(heap, root)
  BY DEF Reachable, ReachableIn
<1>7. Routed <=> RoutedIn(heap)
  BY <1>2 DEF Routed, RoutedIn
<1> QED
  BY <1>1, <1>4, <1>5, <1>6, <1>7 DEF SearchTree, ShapeIn

-----------------------------------------------------------------------------
(* Pivots and territories. *)

(* A sequence of naturals in which each element exceeds the one before it  *)
(* ascends.                                                                *)
LEMMA Ascends ==
  ASSUME NEW n \in Nat, NEW f, \A i \in 1..n : f[i] \in Nat,
         \A i \in 1..n-1 : f[i] < f[i+1]
  PROVE  \A i, j \in 1..n : i < j => f[i] < f[j]
<1> DEFINE T == {d \in Nat : \A i \in 1..n : i + d + 1 <= n => f[i] < f[i + d + 1]}
<1>1. 0 \in T
  OBVIOUS
<1>2. ASSUME NEW d \in Nat, d \in T PROVE d + 1 \in T
  <2> SUFFICES ASSUME NEW i \in 1..n, i + (d + 1) + 1 <= n
               PROVE  f[i] < f[i + (d + 1) + 1]
    OBVIOUS
  <2>1. i + d + 1 \in 1..n-1 /\ (i + d + 1) + 1 = i + (d + 1) + 1
    OBVIOUS
  <2>2. f[i] < f[i + d + 1]
    BY <1>2, <2>1
  <2>3. f[i + d + 1] < f[i + (d + 1) + 1]
    <3>1. f[i + d + 1] < f[(i + d + 1) + 1]
      BY <2>1
    <3> QED
      BY <2>1, <3>1
  <2>4. i + (d + 1) + 1 \in 1..n /\ i + d + 1 \in 1..n
    BY <2>1
  <2> QED
    BY <2>2, <2>3, <2>4
<1>3. Nat \subseteq T
  <2> HIDE DEF T
  <2> QED
    BY <1>1, <1>2, InductionOnNat
<1> SUFFICES ASSUME NEW i \in 1..n, NEW j \in 1..n, i < j PROVE f[i] < f[j]
  OBVIOUS
<1>4. j - i - 1 \in Nat /\ i + (j - i - 1) + 1 = j
  OBVIOUS
<1>5. j - i - 1 \in T
  BY <1>3, <1>4
<1> QED
  BY <1>4, <1>5

(* findChildIndex finds what it looks for, also for a bound of a range     *)
(* that is not a key.                                                      *)
LEMMA BoundIndex ==
  ASSUME NEW n, n.pivots \in Seq(Key), NEW k \in Nat
  PROVE  LET i == findChildIndex(n, k)
         IN  /\ i \in 1..Len(n.pivots) + 1
             /\ \A j \in 1..i-1 : n.pivots[j] <= k
             /\ i <= Len(n.pivots) => k < n.pivots[i]
<1> DEFINE m == Len(n.pivots)
           Right(i) == /\ \A j \in 1..i-1 : n.pivots[j] <= k
                       /\ i <= m => k < n.pivots[i]
           T == {j \in 1..m+1 : j <= m => k < n.pivots[j]}
<1>1. m \in Nat /\ k \in Nat /\ \A j \in 1..m : n.pivots[j] \in Nat
  BY LenProperties, ElementOfSeq, ConstantsAssumption
<1> HIDE DEF m
<1>2. T \subseteq Nat /\ m + 1 \in T
  BY <1>1
<1>3. PICK i \in T : \A j \in T : i <= j
  <2> HIDE DEF T
  <2> QED
    BY <1>2, LeastNat
<1>4. i \in 1..m+1 /\ Right(i)
  <2>1. ASSUME NEW j \in 1..i-1 PROVE n.pivots[j] <= k
    <3>1. j \in 1..m /\ j \notin T
      BY <1>1, <1>3
    <3> QED
      BY <1>1, <3>1
  <2> QED
    BY <1>3, <2>1
<1>5. findChildIndex(n, k) = CHOOSE j \in 1..m+1 : Right(j)
  BY DEF findChildIndex, m
<1> HIDE DEF Right
<1>6. findChildIndex(n, k) \in 1..m+1 /\ Right(findChildIndex(n, k))
  BY <1>4, <1>5
<1> QED
  BY <1>6 DEF Right, m

(***************************************************************************)
(* findChildIndex returns the child between whose pivots the key lies.     *)
(***************************************************************************)
LEMMA ChildIndex ==
  ASSUME NEW n, n.pivots \in Seq(Key), NEW k \in Key
  PROVE  LET i == findChildIndex(n, k)
         IN  /\ i \in 1..Len(n.pivots) + 1
             /\ \A j \in 1..i-1 : n.pivots[j] <= k
             /\ i <= Len(n.pivots) => k < n.pivots[i]
<1>1. k \in Nat
  BY ConstantsAssumption
<1> QED
  BY <1>1, BoundIndex

(* What ShapeIn says of one internal node. *)
LEMMA NodeShape ==
  ASSUME NEW h, NEW r, ShapeIn(h, r), NEW a \in DOMAIN h, ~h[a].leaf
  PROVE  /\ a \in Addr /\ a[1] \in Nat /\ a[2] \in Nat /\ a[1] > 0
         /\ h[a] \in InternalNode
         /\ h[a].pivots \in Seq(Key) /\ h[a].children \in Seq(Addr)
         /\ Len(h[a].pivots) \in Nat
         /\ Len(h[a].children) = Len(h[a].pivots) + 1
         /\ \A i \in 1..Len(h[a].pivots) : h[a].pivots[i] \in Nat
         /\ \A i \in 1..Len(h[a].pivots)+1 :
              /\ LowIn(h, a, i) \in Nat
              /\ a[2] <= LowIn(h, a, i)
              /\ h[a].children[i] = <<a[1] - 1, LowIn(h, a, i)>>
              /\ h[a].children[i] \in DOMAIN h
         /\ \A i, j \in 1..Len(h[a].pivots)+1 :
              i < j => LowIn(h, a, i) < LowIn(h, a, j)
<1> DEFINE n == Len(h[a].pivots)
           low == [i \in 1..n+1 |-> LowIn(h, a, i)]
<1>1. /\ a \in Addr /\ h[a] \in LeafNode \cup InternalNode
      /\ Len(h[a].children) = n + 1
  BY DEF ShapeIn, HeapOK
<1>2. /\ h[a] \in InternalNode /\ h[a].pivots \in Seq(Key) /\ h[a].children \in Seq(Addr)
  BY <1>1, NodeKinds
<1>3. a[1] \in Nat /\ a[2] \in Nat
  BY <1>1 DEF Addr
<1>4. a[1] > 0
  BY <1>3 DEF ShapeIn, LevelsIn
<1>5. n \in Nat /\ \A i \in 1..n : h[a].pivots[i] \in Nat
  BY <1>2, LenProperties, ElementOfSeq, ConstantsAssumption
<1> HIDE DEF n
<1>6. \A i \in 1..n+1 : LowIn(h, a, i) \in Nat
  BY <1>3, <1>5 DEF LowIn
<1>7. \A i \in 1..n : LowIn(h, a, i) < h[a].pivots[i] /\ a[2] <= h[a].pivots[i]
  BY DEF ShapeIn, PivotsIn, TerritoryIn, n
<1>8. \A i \in 1..n+1 : a[2] <= LowIn(h, a, i)
  BY <1>3, <1>5, <1>7 DEF LowIn
<1>9. \A i \in 1..n+1 : low[i] = LowIn(h, a, i)
  OBVIOUS
<1>10. \A i \in 1..n : LowIn(h, a, i) < LowIn(h, a, i + 1)
  BY <1>5, <1>7 DEF LowIn
<1>11. \A i, j \in 1..n+1 : i < j => low[i] < low[j]
  <2>1. \A i \in 1..(n+1) : low[i] \in Nat
    BY <1>6, <1>9
  <2>2. \A i \in 1..(n+1)-1 : low[i] < low[i+1]
    BY <1>5, <1>9, <1>10
  <2> HIDE DEF low
  <2>3. n + 1 \in Nat
    BY <1>5
  <2> QED
    BY <2>1, <2>2, <2>3, Ascends
<1>12. \A i \in 1..n+1 : /\ h[a].children[i] = <<a[1] - 1, LowIn(h, a, i)>>
                        /\ h[a].children[i] \in DOMAIN h
  BY <1>1 DEF ShapeIn, PivotsIn
<1> QED
  BY <1>1, <1>2, <1>3, <1>4, <1>5, <1>6, <1>8, <1>9, <1>11, <1>12 DEF n

(* A node that is not the root is a child of a node one level above it. *)
LEMMA ParentOf ==
  ASSUME NEW h, NEW r, ShapeIn(h, r), NEW b \in DOMAIN h, b # r
  PROVE  \E q \in DOMAIN h :
           /\ ~h[q].leaf /\ q[1] = b[1] + 1
           /\ \E j \in 1..Len(h[q].pivots)+1 :
                b = h[q].children[j] /\ b[2] = LowIn(h, q, j)
<1>0. PICK q \in DOMAIN h : \E j \in 1..Len(h[q].children) : h[q].children[j] = b
  BY DEF ShapeIn, ReachableIn
<1>1. PICK j \in 1..Len(h[q].children) : h[q].children[j] = b
  BY <1>0
<1>2. ~h[q].leaf
  <2>1. h[q] \in LeafNode \cup InternalNode
    BY DEF ShapeIn, HeapOK
  <2>2. h[q] \in LeafNode => h[q].children = <<>>
    BY DEF LeafNode
  <2>3. h[q].leaf => Len(h[q].children) = 0
    BY <2>1, <2>2, NodeKinds
  <2> QED
    BY <1>1, <2>3
<1>3. j \in 1..Len(h[q].pivots)+1 /\ q[1] \in Nat /\ LowIn(h, q, j) \in Nat
      /\ b = <<q[1] - 1, LowIn(h, q, j)>>
  BY <1>1, <1>2, NodeShape
<1>4. b[1] = q[1] - 1 /\ b[2] = LowIn(h, q, j)
  BY <1>3
<1>5. q[1] = b[1] + 1
  BY <1>3, <1>4
<1> QED
  BY <1>1, <1>2, <1>3, <1>4, <1>5

(* Addresses are pairs. *)
LEMMA SameAddress ==
  ASSUME NEW a \in Addr, NEW b \in Addr, a[1] = b[1], a[2] = b[2]
  PROVE  a = b
BY DEF Addr

(* A child's keys are its parent's. *)
LEMMA ChildWithin ==
  ASSUME NEW h, NEW r, ShapeIn(h, r), NEW p \in DOMAIN h, ~h[p].leaf,
         NEW i \in 1..Len(h[p].pivots)+1
  PROVE  TerritoryIn(h, h[p].children[i]) \subseteq TerritoryIn(h, p)
<1> DEFINE c == h[p].children[i]
<1>1. /\ p[1] \in Nat /\ p[2] \in Nat /\ p[1] > 0
      /\ c = <<p[1] - 1, LowIn(h, p, i)>> /\ p[2] <= LowIn(h, p, i)
      /\ LowIn(h, p, i) \in Nat /\ Len(h[p].pivots) \in Nat
  BY NodeShape
<1>2. c[1] = p[1] - 1 /\ c[2] = LowIn(h, p, i)
  BY <1>1
<1> HIDE DEF c
<1> SUFFICES ASSUME NEW k \in TerritoryIn(h, c) PROVE k \in TerritoryIn(h, p)
  BY DEF c
<1>3. k \in Key /\ k \in Nat /\ c[2] <= k
  BY ConstantsAssumption DEF TerritoryIn
<1>4. p[2] <= k
  BY <1>1, <1>2, <1>3
<1>5. ASSUME NEW b \in DOMAIN h, b[1] = p[1], p[2] < b[2] PROVE k < b[2]
  <2>1. ~h[b].leaf
    BY <1>1, <1>5 DEF ShapeIn, LevelsIn
  <2>2. /\ b[2] \in Nat /\ Len(h[b].pivots) \in Nat
        /\ h[b].children[1] = <<b[1] - 1, LowIn(h, b, 1)>>
        /\ h[b].children[1] \in DOMAIN h
    BY <2>1, NodeShape
  <2> DEFINE d == h[b].children[1]
  <2>3. d \in DOMAIN h /\ d[1] = c[1] /\ d[2] = b[2]
    BY <1>2, <1>5, <2>2 DEF LowIn
  <2>4. c[2] < b[2]
    <3>1. CASE i = 1
      BY <1>2, <1>5, <3>1 DEF LowIn
    <3>2. CASE i # 1
      <4>1. i - 1 \in 1..Len(h[p].pivots) /\ c[2] = h[p].pivots[i-1]
        BY <1>1, <1>2, <3>2 DEF LowIn
      <4>2. h[p].pivots[i-1] \in TerritoryIn(h, p)
        BY <4>1 DEF ShapeIn, PivotsIn
      <4> QED
        BY <1>5, <4>1, <4>2 DEF TerritoryIn
    <3> QED
      BY <3>1, <3>2
  <2> QED
    BY <2>3, <2>4 DEF TerritoryIn
<1> QED
  BY <1>3, <1>4, <1>5 DEF TerritoryIn

(* A key of a node is one of the child that findChildIndex names. *)
LEMMA ChildTerritory ==
  ASSUME NEW h, NEW r, ShapeIn(h, r), NEW p \in DOMAIN h, ~h[p].leaf,
         NEW k \in TerritoryIn(h, p)
  PROVE  /\ findChildIndex(h[p], k) \in 1..Len(h[p].pivots)+1
         /\ k \in TerritoryIn(h, ChildFor(h[p], k))
<1> DEFINE i == findChildIndex(h[p], k)
           c == h[p].children[i]
           n == Len(h[p].pivots)
<1>1. k \in Key /\ k \in Nat /\ p[2] <= k
  BY ConstantsAssumption DEF TerritoryIn
<1>2. h[p].pivots \in Seq(Key) /\ n \in Nat
  BY NodeShape
<1>3. /\ i \in 1..n+1
      /\ \A j \in 1..i-1 : h[p].pivots[j] <= k
      /\ i <= n => k < h[p].pivots[i]
  BY <1>1, <1>2, ChildIndex
<1> HIDE DEF i
<1>4. /\ p \in Addr /\ p[1] \in Nat /\ p[2] \in Nat
      /\ LowIn(h, p, i) \in Nat /\ c = <<p[1] - 1, LowIn(h, p, i)>>
      /\ p[2] <= LowIn(h, p, i)
      /\ \A j \in 1..n+1 : LowIn(h, p, j) \in Nat
      /\ \A j, m \in 1..n+1 : j < m => LowIn(h, p, j) < LowIn(h, p, m)
  BY <1>3, NodeShape
<1>5. c[1] = p[1] - 1 /\ c[2] = LowIn(h, p, i)
  BY <1>4
<1> HIDE DEF c
<1>6. c[2] <= k
  BY <1>1, <1>2, <1>3, <1>5 DEF LowIn
<1>7. ASSUME NEW b \in DOMAIN h, b[1] = c[1], c[2] < b[2] PROVE k < b[2]
  <2>1. b # r
    <3>1. p[1] <= r[1] /\ r \in Addr
      BY DEF ShapeIn, LevelsIn, HeapOK
    <3>2. r[1] \in Nat
      BY <3>1 DEF Addr
    <3> QED
      BY <1>4, <1>5, <1>7, <3>1, <3>2
  <2>2. PICK q \in DOMAIN h :
          /\ ~h[q].leaf /\ q[1] = b[1] + 1
          /\ \E j \in 1..Len(h[q].pivots)+1 :
               b = h[q].children[j] /\ b[2] = LowIn(h, q, j)
    BY <2>1, ParentOf
  <2>3. PICK j \in 1..Len(h[q].pivots)+1 : b[2] = LowIn(h, q, j)
    BY <2>2
  <2>4. /\ q \in Addr /\ q[1] = p[1] /\ q[2] \in Nat /\ q[2] <= b[2] /\ b[2] \in Nat
        /\ Len(h[q].pivots) \in Nat
    BY <1>4, <1>5, <1>7, <2>2, <2>3, NodeShape, SMTT(20)
  <2>5. CASE q = p
    <3>1. j \in 1..n+1 /\ b[2] = LowIn(h, p, j)
      BY <2>3, <2>5
    <3>2. i < j
      <4>1. j < i => LowIn(h, p, j) < LowIn(h, p, i)
        BY <1>3, <1>4, <3>1
      <4>2. LowIn(h, p, i) < LowIn(h, p, j)
        BY <1>5, <1>7, <3>1
      <4>3. i \in Nat /\ j \in Nat /\ LowIn(h, p, i) \in Nat /\ LowIn(h, p, j) \in Nat
        BY <1>2, <1>3, <1>4, <3>1
      <4>4. j # i
        BY <4>2, <4>3
      <4> QED
        BY <4>1, <4>2, <4>3, <4>4
    <3>3. i <= n /\ k < h[p].pivots[i] /\ h[p].pivots[i] = LowIn(h, p, i + 1)
      BY <1>2, <1>3, <3>1, <3>2 DEF LowIn
    <3>4. LowIn(h, p, i + 1) <= LowIn(h, p, j)
      <4>1. i + 1 \in 1..n+1 /\ (i + 1 = j \/ i + 1 < j)
        BY <1>2, <1>3, <3>1, <3>2
      <4> QED
        BY <1>4, <3>1, <4>1
    <3>5. LowIn(h, p, i + 1) \in Nat /\ LowIn(h, p, j) \in Nat
      BY <1>2, <1>3, <1>4, <3>1, <3>3
    <3> QED
      BY <1>1, <3>1, <3>3, <3>4, <3>5
  <2>6. CASE p[2] < q[2]
    <3>1. k < q[2]
      BY <2>4, <2>6 DEF TerritoryIn
    <3> QED
      BY <1>1, <2>4, <3>1
  <2>7. CASE q[2] < p[2]
    <3>1. CASE j = 1
      <4>1. b[2] = q[2]
        BY <2>3, <3>1 DEF LowIn
      <4> QED
        BY <1>4, <1>5, <1>7, <2>4, <2>7, <4>1
    <3>2. CASE j # 1
      <4>1. j - 1 \in 1..Len(h[q].pivots) /\ b[2] = h[q].pivots[j-1]
        BY <2>3, <2>4, <3>2 DEF LowIn
      <4>2. b[2] \in TerritoryIn(h, q)
        BY <4>1 DEF ShapeIn, PivotsIn
      <4>3. b[2] < p[2]
        BY <2>4, <2>7, <4>2 DEF TerritoryIn
      <4> QED
        BY <1>4, <1>5, <1>7, <2>4, <4>3
    <3> QED
      BY <3>1, <3>2
  <2> QED
    BY <1>4, <2>4, <2>5, <2>6, <2>7, SameAddress
<1>8. k \in TerritoryIn(h, c)
  BY <1>1, <1>6, <1>7 DEF TerritoryIn
<1> QED
  BY <1>3, <1>8 DEF ChildFor, c, i

-----------------------------------------------------------------------------
(* Steps that change entries and buffers only. *)

(* All keys are the root's. *)
LEMMA RootTerritory ==
  ASSUME NEW h, NEW r, LevelsIn(h, r), r \in Addr
  PROVE  TerritoryIn(h, r) = Key
<1>1. \A b \in DOMAIN h : b[1] = r[1] => b[2] = 0
  BY DEF LevelsIn
<1>2. \A k \in Key : r[2] <= k
  BY ConstantsAssumption DEF LevelsIn
<1> QED
  BY <1>1, <1>2 DEF TerritoryIn, LevelsIn

(* Heap g has the nodes of h, with other entries and messages. *)
SameNodes(g, h) ==
  /\ DOMAIN g = DOMAIN h
  /\ \A a \in DOMAIN h :
       /\ g[a] \in LeafNode \cup InternalNode
       /\ g[a].leaf = h[a].leaf
       /\ g[a].pivots = h[a].pivots
       /\ g[a].children = h[a].children

(* The shape stays if what is in the nodes is where it belongs. *)
LEMMA SameNodesShape ==
  ASSUME NEW h, NEW r, ShapeIn(h, r), NEW g, SameNodes(g, h),
         \A a \in DOMAIN h, k \in Key :
           g[a].kv[k] # Absent \/ g[a].buffer[k] # <<>> => k \in TerritoryIn(h, a)
  PROVE  ShapeIn(g, r)
<1>1. \A a : TerritoryIn(g, a) = TerritoryIn(h, a)
  BY DEF TerritoryIn, SameNodes
<1>2. \A a \in DOMAIN h : \A i : LowIn(g, a, i) = LowIn(h, a, i)
  BY DEF LowIn, SameNodes
<1>3. HeapOK(g)
  BY DEF ShapeIn, HeapOK, SameNodes
<1>4. LevelsIn(g, r)
  BY DEF ShapeIn, LevelsIn, SameNodes
<1>5. PivotsIn(g)
  BY <1>1, <1>2 DEF ShapeIn, PivotsIn, SameNodes
<1>6. ReachableIn(g, r)
  BY DEF ShapeIn, ReachableIn, SameNodes
<1>7. RoutedIn(g)
  BY <1>1 DEF RoutedIn, SameNodes
<1> QED
  BY <1>3, <1>4, <1>5, <1>6, <1>7 DEF ShapeIn

(* A write starts with a change of the root's entries or messages. *)
RootWritten ==
  /\ ~locked /\ root' = root
  /\ SameNodes(heap', heap)
  /\ \A a \in DOMAIN heap \ {root} : heap'[a] = heap[a]

(***************************************************************************)
(* A write that keeps the shape of the root changes no other node.         *)
(***************************************************************************)
LEMMA WriteRoot ==
  ASSUME IInv, IInv', NEW n, NEW x, NEW y, NEW z, NEW w, Write(n, x, y, z, w),
         n.leaf = heap[root].leaf, n.pivots = heap[root].pivots,
         n.children = heap[root].children
  PROVE  RootWritten
<1>1. ~locked /\ root' = root /\ heap' = [heap EXCEPT ![root] = n] /\ root \in DOMAIN heap
  BY DEF Write, IInv, TypeOK
<1>2. DOMAIN heap' = DOMAIN heap /\ heap'[root] = n
      /\ \A a \in DOMAIN heap \ {root} : heap'[a] = heap[a]
  BY <1>1
<1>3. \A a \in DOMAIN heap : heap'[a] \in LeafNode \cup InternalNode
  BY <1>2 DEF IInv, TypeOK
<1>4. \A a \in DOMAIN heap : /\ heap'[a].leaf = heap[a].leaf
                            /\ heap'[a].pivots = heap[a].pivots
                            /\ heap'[a].children = heap[a].children
  BY <1>2
<1> QED
  BY <1>1, <1>2, <1>3, <1>4 DEF RootWritten, SameNodes

(* Such a change keeps what else there is in the node. *)
LEMMA NodeParts ==
  ASSUME NEW n \in LeafNode \cup InternalNode, NEW x
  PROVE  /\ [n EXCEPT !.kv = x].leaf = n.leaf
         /\ [n EXCEPT !.kv = x].pivots = n.pivots
         /\ [n EXCEPT !.kv = x].children = n.children
         /\ [n EXCEPT !.kv = x].buffer = n.buffer
         /\ [n EXCEPT !.kv = x].kv = x
         /\ [n EXCEPT !.buffer = x].leaf = n.leaf
         /\ [n EXCEPT !.buffer = x].pivots = n.pivots
         /\ [n EXCEPT !.buffer = x].children = n.children
         /\ [n EXCEPT !.buffer = x].kv = n.kv
         /\ [n EXCEPT !.buffer = x].buffer = x
<1>1. CASE n \in LeafNode
  BY <1>1 DEF LeafNode
<1>2. CASE n \in InternalNode
  BY <1>2 DEF InternalNode
<1> QED
  BY <1>1, <1>2

(* Put, PutIfAbsent, Delete, DeleteRange and Upsert begin that way. *)
LEMMA WritesRoot ==
  ASSUME IInv, IInv',
         \/ \E k \in Key, v \in Puts : Put(k, v) \/ PutIfAbsent(k, v)
         \/ \E k \in Key : Delete(k)
         \/ \E r \in Ranges : DeleteRange(r[1], r[2])
         \/ \E k \in Key, f \in Fns : Upsert(k, f)
  PROVE  RootWritten
<1> DEFINE n == heap[root]
<1>0. n \in LeafNode \cup InternalNode
  BY DEF IInv, TypeOK
<1>1. ASSUME NEW z, NoWrite(z) PROVE RootWritten
  BY <1>1, WriteRoot DEF NoWrite
<1>2. ASSUME NEW e, NEW x, NEW y, NEW z, NEW w, Write([n EXCEPT !.kv = e], x, y, z, w)
      PROVE  RootWritten
  BY <1>0, <1>2, NodeParts, WriteRoot
<1>3. ASSUME NEW e, NEW x, NEW y, NEW z, Buffer([n EXCEPT !.buffer = e], x, y, z)
      PROVE  RootWritten
  <2> DEFINE m == [n EXCEPT !.buffer = e]
             w == IfOverfull(m)
  <2>1. /\ m.leaf = heap[root].leaf /\ m.pivots = heap[root].pivots
        /\ m.children = heap[root].children
    BY <1>0, NodeParts
  <2>2. Write(m, x, y, z, w)
    BY <1>3 DEF Buffer
  <2> HIDE DEF m, w
  <2> QED
    BY <2>1, <2>2, WriteRoot
<1>4. \A k, v : /\ leafInsert(n, k, v) = [n EXCEPT !.kv = [n.kv EXCEPT ![k] = v]]
                /\ leafDelete(n, k) = [n EXCEPT !.kv = [n.kv EXCEPT ![k] = Absent]]
                /\ appendToBuffer(n, k, v) =
                     [n EXCEPT !.buffer = [n.buffer EXCEPT ![k] = Append(@, v)]]
  BY <1>0 DEF leafInsert, leafDelete, appendToBuffer, LeafNode, InternalNode
<1> HIDE DEF n
<1>5. ASSUME NEW k, NEW v, NEW x, NEW y, NEW z, NEW w,
             \/ Write(leafInsert(n, k, v), x, y, z, w)
             \/ Write(leafDelete(n, k), x, y, z, w)
             \/ Buffer(appendToBuffer(n, k, v), x, y, z)
      PROVE  RootWritten
  <2> DEFINE e1 == [n.kv EXCEPT ![k] = v]
             e2 == [n.kv EXCEPT ![k] = Absent]
             e3 == [n.buffer EXCEPT ![k] = Append(@, v)]
  <2>1. \/ Write([n EXCEPT !.kv = e1], x, y, z, w)
        \/ Write([n EXCEPT !.kv = e2], x, y, z, w)
        \/ Buffer([n EXCEPT !.buffer = e3], x, y, z)
    <3>1. /\ leafInsert(n, k, v) = [n EXCEPT !.kv = e1]
          /\ leafDelete(n, k) = [n EXCEPT !.kv = e2]
          /\ appendToBuffer(n, k, v) = [n EXCEPT !.buffer = e3]
      BY ONLY <1>4 DEF e1, e2, e3
    <3> HIDE DEF e1, e2, e3
    <3> QED
      BY ONLY <1>5, <3>1, Zenon
  <2> HIDE DEF e1, e2, e3
  <2> QED
    BY ONLY <1>2, <1>3, <2>1, Zenon
<1>6. ASSUME NEW k, NEW v, NEW b, NEW z, putLocked(k, v, b, z) PROVE RootWritten
  <2>1. \/ \E x, w : Write(leafInsert(n, k, v), x, 0, z, w)
        \/ \E x, m : Buffer(appendToBuffer(n, k, m), x, 0, z)
    BY <1>6, Zenon DEF putLocked, n
  <2> QED
    BY ONLY <1>5, <2>1, Zenon
<1>7. ASSUME NEW k, NEW v, Put(k, v) \/ PutIfAbsent(k, v) PROVE RootWritten
  <2>1. \/ putLocked(k, v, FALSE, 0)
        \/ NoWrite(0)
        \/ putLocked(k, v, TRUE, 1)
    BY <1>7, Zenon DEF Put, PutIfAbsent
  <2> QED
    BY ONLY <1>1, <1>6, <2>1, Zenon
<1>8. ASSUME NEW k, Delete(k) PROVE RootWritten
  <2>1. \/ NoWrite(0)
        \/ \E x, y, z, w : Write(leafDelete(n, k), x, y, z, w)
        \/ \E x, y, z : Buffer(appendToBuffer(n, k, MsgDelete), x, y, z)
    BY <1>8, Zenon DEF Delete, deleteLocked, n
  <2> QED
    BY ONLY <1>1, <1>5, <2>1, Zenon
<1>9. ASSUME NEW lo, NEW hi, DeleteRange(lo, hi) PROVE RootWritten
  <2>1. \/ NoWrite(0)
        \/ \E e, x, y, z, w : Write([n EXCEPT !.kv = e], x, y, z, w)
        \/ \E e, x, y, z : Buffer([n EXCEPT !.buffer = e], x, y, z)
    BY <1>9, Zenon DEF DeleteRange, n
  <2> QED
    BY ONLY <1>1, <1>2, <1>3, <2>1, Zenon
<1>10. ASSUME NEW k, NEW f, Upsert(k, f) PROVE RootWritten
  <2>1. \/ \E x, y, z, v, w : Write(leafInsert(n, k, v), x, y, z, w)
        \/ \E x, y, z, m : Buffer(appendToBuffer(n, k, m), x, y, z)
    BY <1>10, Zenon DEF Upsert, n
  <2> QED
    BY ONLY <1>5, <2>1, Zenon
<1> QED
  BY <1>7, <1>8, <1>9, <1>10

(* Writes begin with the right shape: all keys belong to the root. *)
LEMMA WritesShape ==
  ASSUME ShapeIn(heap, root), RootWritten
  PROVE  ShapeIn(heap', root')
<1>1. TerritoryIn(heap, root) = Key
  BY RootTerritory DEF ShapeIn, HeapOK, LevelsIn
<1>2. \A a \in DOMAIN heap, k \in Key :
        heap'[a].kv[k] # Absent \/ heap'[a].buffer[k] # <<>> => k \in TerritoryIn(heap, a)
  BY <1>1 DEF ShapeIn, RoutedIn, RootWritten
<1>3. SameNodes(heap', heap) /\ root' = root
  BY DEF RootWritten
<1> QED
  BY <1>2, <1>3, SameNodesShape

(* The new tree, and the cleared one, is a leaf. *)
LEMMA SingleLeafShape ==
  ShapeIn([a \in {<<0, 0>>} |-> newLeaf], <<0, 0>>)
<1> DEFINE z == <<0, 0>>
           h == [a \in {z} |-> newLeaf]
<1>1. z \in Addr /\ z[1] = 0 /\ z[2] = 0
  BY DEF Addr
<1>2. /\ newLeaf \in LeafNode /\ newLeaf.leaf /\ Len(newLeaf.pivots) = 0
      /\ Len(newLeaf.children) = 0
      /\ \A k \in Key : newLeaf.kv[k] = Absent /\ newLeaf.buffer[k] = <<>>
  BY NewLeafType DEF newLeaf, NoMsgs, NoKeys
<1>3. DOMAIN h = {z} /\ h[z] = newLeaf
  OBVIOUS
<1> HIDE DEF z, h
<1>4. HeapOK(h)
  BY <1>1, <1>2, <1>3 DEF HeapOK
<1>5. LevelsIn(h, z)
  BY <1>1, <1>2, <1>3 DEF LevelsIn
<1>6. PivotsIn(h)
  BY <1>2, <1>3 DEF PivotsIn
<1>7. ReachableIn(h, z)
  BY <1>3 DEF ReachableIn
<1>8. RoutedIn(h)
  BY <1>2, <1>3 DEF RoutedIn
<1> QED
  BY <1>4, <1>5, <1>6, <1>7, <1>8 DEF ShapeIn, z, h

-----------------------------------------------------------------------------
(* Flushes. *)

(* A node with another buffer, and a leaf with other entries. *)
LEMMA BufferChanged ==
  ASSUME NEW n \in InternalNode, NEW buf \in [Key -> Seq(Msg)],
         NEW m, m = [n EXCEPT !.buffer = buf]
  PROVE  /\ m \in InternalNode /\ m.children = n.children /\ m.pivots = n.pivots
         /\ m.leaf = n.leaf /\ m.kv = n.kv /\ m.buffer = buf
<1>1. m \in InternalNode
  BY NodeWithBuffer
<1> QED
  BY <1>1, NodeParts

(***************************************************************************)
(* New entries change nothing else of a leaf.                              *)
(***************************************************************************)
LEMMA EntriesChanged ==
  ASSUME NEW n \in LeafNode, NEW kv \in [Key -> Opt],
         NEW m, m = [n EXCEPT !.kv = kv]
  PROVE  /\ m \in LeafNode /\ m.children = n.children /\ m.pivots = n.pivots
         /\ m.leaf = n.leaf /\ m.buffer = n.buffer /\ m.kv = kv
<1>1. m \in LeafNode
  BY LeafWithEntries
<1> QED
  BY <1>1, NodeParts

(* What flushNode(p) does when the child c, of index i, is a leaf. *)
LeafGotBatch(p, i, c) ==
  /\ SameNodes(heap', heap) /\ root' = root
  /\ heap'[p].kv = heap[p].kv /\ heap'[p].buffer = Unflushed(heap[p], i)
  /\ heap'[c].kv = applyToLeaf(heap[c].kv, Bucket(heap[p], i)).kv
  /\ heap'[c].buffer = heap[c].buffer
  /\ heap[c].kv \in [Key -> Opt]
  /\ \A a \in DOMAIN heap \ {p, c} : heap'[a] = heap[a]

(* What flushNode(p) does when the child c, of index i, has a buffer. *)
BufferGotBatch(p, i, c) ==
  /\ SameNodes(heap', heap) /\ root' = root
  /\ heap'[p].kv = heap[p].kv /\ heap'[p].buffer = Unflushed(heap[p], i)
  /\ heap'[c].buffer = Received(heap[c].buffer, Bucket(heap[p], i))
  /\ heap'[c].kv = heap[c].kv
  /\ heap[c].buffer \in [Key -> Seq(Msg)]
  /\ \A a \in DOMAIN heap \ {p, c} : heap'[a] = heap[a]

(* flushNode(p), of child c with index i, changes what p and c hold. *)
LEMMA FlushToLeafEffect ==
  ASSUME IInv, FlushToLeaf,
         NEW p, p = Head(todo).node, NEW i, i = heaviest(heap[p]),
         NEW c, c = heap[p].children[i]
  PROVE  LeafGotBatch(p, i, c)
<1> DEFINE new == applyToLeaf(heap[c].kv, Bucket(heap[p], i))
           rest == Unflushed(heap[p], i)
<1>1. /\ Top("flushNode") /\ heap[c].leaf
      /\ heap' = [heap EXCEPT ![p].buffer = rest, ![c].kv = new.kv]
      /\ root' = root
  BY DEF FlushToLeaf
<1>2. /\ p \in DOMAIN heap /\ heap[p] \in InternalNode /\ c \in DOMAIN heap /\ c # p
  BY ONLY <1>1, IInv, FlushPair, p = Head(todo).node, i = heaviest(heap[p]),
          c = heap[p].children[i]
<1>3. heap[c] \in LeafNode
  BY <1>1, <1>2, NodeKinds DEF IInv, TypeOK
<1>4. rest \in [Key -> Seq(Msg)] /\ Bucket(heap[p], i) \in [Key -> Seq(Msg)]
  BY <1>2, BucketTypes
<1>5. new.kv \in [Key -> Opt] /\ heap[c].kv \in [Key -> Opt]
  BY <1>3, <1>4, ApplyToLeafType DEF LeafNode
<1> HIDE DEF new, rest
<1>6. /\ DOMAIN heap' = DOMAIN heap
      /\ heap'[p] = [heap[p] EXCEPT !.buffer = rest]
      /\ heap'[c] = [heap[c] EXCEPT !.kv = new.kv]
      /\ \A a \in DOMAIN heap \ {p, c} : heap'[a] = heap[a]
  BY <1>1, <1>2
<1>7. /\ heap'[p] \in InternalNode /\ heap'[p].children = heap[p].children
      /\ heap'[p].pivots = heap[p].pivots /\ heap'[p].leaf = heap[p].leaf
      /\ heap'[p].kv = heap[p].kv /\ heap'[p].buffer = rest
  BY ONLY <1>2, <1>4, <1>6, BufferChanged
<1>8. /\ heap'[c] \in LeafNode /\ heap'[c].children = heap[c].children
      /\ heap'[c].pivots = heap[c].pivots /\ heap'[c].leaf = heap[c].leaf
      /\ heap'[c].kv = new.kv /\ heap'[c].buffer = heap[c].buffer
  <2> DEFINE kv == new.kv
  <2>1. kv \in [Key -> Opt] /\ heap'[c] = [heap[c] EXCEPT !.kv = kv]
    BY <1>5, <1>6
  <2> HIDE DEF kv
  <2>2. /\ heap'[c] \in LeafNode /\ heap'[c].children = heap[c].children
        /\ heap'[c].pivots = heap[c].pivots /\ heap'[c].leaf = heap[c].leaf
        /\ heap'[c].kv = kv /\ heap'[c].buffer = heap[c].buffer
    BY ONLY <1>3, <2>1, EntriesChanged
  <2> QED
    BY <2>2 DEF kv
<1>9. \A a \in DOMAIN heap : heap[a] \in LeafNode \cup InternalNode
  BY DEF IInv, TypeOK
<1>10. SameNodes(heap', heap)
  <2> SUFFICES ASSUME NEW a \in DOMAIN heap
               PROVE  /\ heap'[a] \in LeafNode \cup InternalNode
                      /\ heap'[a].leaf = heap[a].leaf
                      /\ heap'[a].pivots = heap[a].pivots
                      /\ heap'[a].children = heap[a].children
    BY <1>6 DEF SameNodes
  <2>1. CASE a = p
    BY <1>7, <2>1
  <2>2. CASE a = c
    BY <1>8, <2>2
  <2>3. CASE a # p /\ a # c
    BY <1>6, <1>9, <2>3
  <2> QED
    BY <2>1, <2>2, <2>3
<1> QED
  BY <1>1, <1>5, <1>6, <1>7, <1>8, <1>10 DEF new, rest, LeafGotBatch

(***************************************************************************)
(* What a flush into a buffer leaves behind: one bucket has moved from a   *)
(* node to its child.                                                      *)
(***************************************************************************)
LEMMA FlushToBufferEffect ==
  ASSUME IInv, FlushToBuffer,
         NEW p, p = Head(todo).node, NEW i, i = heaviest(heap[p]),
         NEW c, c = heap[p].children[i]
  PROVE  BufferGotBatch(p, i, c)
<1> DEFINE buf == Received(heap[c].buffer, Bucket(heap[p], i))
           rest == Unflushed(heap[p], i)
<1>1. /\ Top("flushNode") /\ ~heap[c].leaf
      /\ heap' = [heap EXCEPT ![p].buffer = rest, ![c].buffer = buf]
      /\ root' = root
  BY DEF FlushToBuffer
<1>2. /\ p \in DOMAIN heap /\ heap[p] \in InternalNode /\ c \in DOMAIN heap /\ c # p
  BY ONLY <1>1, IInv, FlushPair, p = Head(todo).node, i = heaviest(heap[p]),
          c = heap[p].children[i]
<1>3. heap[c] \in InternalNode /\ heap[c].buffer \in [Key -> Seq(Msg)]
  BY <1>1, <1>2, NodeKinds DEF IInv, TypeOK
<1>4. rest \in [Key -> Seq(Msg)] /\ Bucket(heap[p], i) \in [Key -> Seq(Msg)]
  BY <1>2, BucketTypes
<1>5. buf \in [Key -> Seq(Msg)]
  <2> DEFINE b == Bucket(heap[p], i)
  <2>1. b \in [Key -> Seq(Msg)]
    BY <1>4
  <2> HIDE DEF b
  <2>2. Received(heap[c].buffer, b) \in [Key -> Seq(Msg)]
    BY <1>3, <2>1, ConcatProperties DEF Received
  <2> QED
    BY <2>2 DEF b
<1> HIDE DEF buf, rest
<1>6. /\ DOMAIN heap' = DOMAIN heap
      /\ heap'[p] = [heap[p] EXCEPT !.buffer = rest]
      /\ heap'[c] = [heap[c] EXCEPT !.buffer = buf]
      /\ \A a \in DOMAIN heap \ {p, c} : heap'[a] = heap[a]
  BY <1>1, <1>2
<1>7. /\ heap'[p] \in InternalNode /\ heap'[p].children = heap[p].children
      /\ heap'[p].pivots = heap[p].pivots /\ heap'[p].leaf = heap[p].leaf
      /\ heap'[p].kv = heap[p].kv /\ heap'[p].buffer = rest
  BY ONLY <1>2, <1>4, <1>6, BufferChanged
<1>8. /\ heap'[c] \in InternalNode /\ heap'[c].children = heap[c].children
      /\ heap'[c].pivots = heap[c].pivots /\ heap'[c].leaf = heap[c].leaf
      /\ heap'[c].kv = heap[c].kv /\ heap'[c].buffer = buf
  <2> DEFINE n == heap[c]
  <2>1. n \in InternalNode /\ heap'[c] = [n EXCEPT !.buffer = buf]
    BY <1>3, <1>6
  <2> HIDE DEF n
  <2>2. /\ heap'[c] \in InternalNode /\ heap'[c].children = n.children
        /\ heap'[c].pivots = n.pivots /\ heap'[c].leaf = n.leaf
        /\ heap'[c].kv = n.kv /\ heap'[c].buffer = buf
    BY ONLY <1>5, <2>1, BufferChanged
  <2> QED
    BY <2>2 DEF n
<1>9. \A a \in DOMAIN heap : heap[a] \in LeafNode \cup InternalNode
  BY DEF IInv, TypeOK
<1>10. SameNodes(heap', heap)
  <2> SUFFICES ASSUME NEW a \in DOMAIN heap
               PROVE  /\ heap'[a] \in LeafNode \cup InternalNode
                      /\ heap'[a].leaf = heap[a].leaf
                      /\ heap'[a].pivots = heap[a].pivots
                      /\ heap'[a].children = heap[a].children
    BY <1>6 DEF SameNodes
  <2>1. CASE a = p
    BY <1>7, <2>1
  <2>2. CASE a = c
    BY <1>8, <2>2
  <2>3. CASE a # p /\ a # c
    BY <1>6, <1>9, <2>3
  <2> QED
    BY <2>1, <2>2, <2>3
<1> QED
  BY <1>1, <1>3, <1>6, <1>7, <1>8, <1>10 DEF buf, rest, BufferGotBatch

(* A key without messages in a batch keeps its entry. *)
LEMMA UntouchedEntry ==
  ASSUME NEW kv \in [Key -> Opt], NEW msgs \in [Key -> Seq(Msg)],
         NEW k \in Key, msgs[k] = <<>>
  PROVE  applyToLeaf(kv, msgs).kv[k] = kv[k]
<1>1. After(msgs[k], kv[k]) = kv[k]
  <2>1. msgs[k] \in Seq(Msg) /\ kv[k] \in Opt /\ Len(msgs[k]) = 0
    OBVIOUS
  <2> QED
    BY <2>1, RunProperties DEF After
<1>2. applyToLeafSmall(kv, msgs).kv[k] = kv[k]
  BY <1>1 DEF applyToLeafSmall
<1>3. applyToLeafBatch(kv, msgs).kv[k] = kv[k]
  BY DEF applyToLeafBatch
<1> QED
  BY <1>2, <1>3 DEF applyToLeaf

(* What a flush sends to a child belongs there. *)
LEMMA BatchWithin ==
  ASSUME NEW h, NEW r, ShapeIn(h, r), NEW p \in DOMAIN h, ~h[p].leaf,
         NEW i, NEW k \in Key, Bucket(h[p], i)[k] # <<>>
  PROVE  k \in TerritoryIn(h, h[p].children[i])
<1>1. findChildIndex(h[p], k) = i /\ h[p].buffer[k] # <<>>
  BY DEF Bucket
<1>2. k \in TerritoryIn(h, p)
  BY <1>1 DEF ShapeIn, RoutedIn
<1> QED
  BY <1>1, <1>2, ChildTerritory DEF ChildFor

(***************************************************************************)
(* A flush keeps the search tree.                                          *)
(***************************************************************************)
LEMMA FlushShape ==
  ASSUME IInv, ShapeIn(heap, root), FlushToLeaf \/ FlushToBuffer
  PROVE  ShapeIn(heap', root')
<1> DEFINE p == Head(todo).node
           i == heaviest(heap[p])
           c == heap[p].children[i]
           batch == Bucket(heap[p], i)
<1>1. Top("flushNode")
  BY DEF FlushToLeaf, FlushToBuffer
<1>2. p = Head(todo).node /\ i = heaviest(heap[p]) /\ c = heap[p].children[i]
  OBVIOUS
<1> HIDE DEF p, i, c
<1>3. p \in DOMAIN heap /\ heap[p] \in InternalNode /\ c \in DOMAIN heap /\ c # p
  BY ONLY <1>1, <1>2, IInv, FlushPair
<1>4. ~heap[p].leaf /\ batch \in [Key -> Seq(Msg)]
  BY <1>3, BucketTypes DEF InternalNode
<1>5. \A k \in Key : batch[k] # <<>> => k \in TerritoryIn(heap, c)
  BY <1>2, <1>3, <1>4, BatchWithin
<1>6. \A k \in Key : Unflushed(heap[p], i)[k] # <<>> => heap[p].buffer[k] # <<>>
  BY DEF Unflushed
<1>7. CASE FlushToLeaf
  <2>1. /\ SameNodes(heap', heap) /\ root' = root
        /\ heap'[p].kv = heap[p].kv /\ heap'[p].buffer = Unflushed(heap[p], i)
        /\ heap'[c].kv = applyToLeaf(heap[c].kv, batch).kv
        /\ heap'[c].buffer = heap[c].buffer
        /\ heap[c].kv \in [Key -> Opt]
        /\ \A a \in DOMAIN heap \ {p, c} : heap'[a] = heap[a]
    <3>1. LeafGotBatch(p, i, c)
      BY ONLY <1>2, <1>7, IInv, FlushToLeafEffect
    <3> QED
      BY ONLY <3>1 DEF LeafGotBatch, batch
  <2>2. \A k \in Key : batch[k] = <<>> => heap'[c].kv[k] = heap[c].kv[k]
    <3> DEFINE kv == heap[c].kv
    <3>1. /\ heap'[c].kv = applyToLeaf(kv, batch).kv /\ kv \in [Key -> Opt]
          /\ batch \in [Key -> Seq(Msg)]
      BY <1>4, <2>1
    <3> HIDE DEF batch, kv
    <3>2. \A k \in Key : batch[k] = <<>> => applyToLeaf(kv, batch).kv[k] = kv[k]
      BY ONLY <3>1, UntouchedEntry
    <3> QED
      BY ONLY <3>1, <3>2 DEF kv
  <2> HIDE DEF batch
  <2>3. \A a \in DOMAIN heap, k \in Key :
          heap'[a].kv[k] # Absent \/ heap'[a].buffer[k] # <<>>
            => k \in TerritoryIn(heap, a)
    BY <1>5, <1>6, <2>1, <2>2 DEF ShapeIn, RoutedIn
  <2> QED
    BY <2>1, <2>3, SameNodesShape
<1>8. CASE FlushToBuffer
  <2>1. /\ SameNodes(heap', heap) /\ root' = root
        /\ heap'[p].kv = heap[p].kv /\ heap'[p].buffer = Unflushed(heap[p], i)
        /\ heap'[c].buffer = Received(heap[c].buffer, batch)
        /\ heap'[c].kv = heap[c].kv
        /\ heap[c].buffer \in [Key -> Seq(Msg)]
        /\ \A a \in DOMAIN heap \ {p, c} : heap'[a] = heap[a]
    <3>1. BufferGotBatch(p, i, c)
      BY ONLY <1>2, <1>8, IInv, FlushToBufferEffect
    <3> QED
      BY ONLY <3>1 DEF BufferGotBatch, batch
  <2> HIDE DEF batch
  <2>2. \A k \in Key : batch[k] = <<>> => heap'[c].buffer[k] = heap[c].buffer[k]
    <3> SUFFICES ASSUME NEW k \in Key, batch[k] = <<>>
                 PROVE  heap'[c].buffer[k] = heap[c].buffer[k]
      OBVIOUS
    <3>1. heap[c].buffer[k] \in Seq(Msg)
      BY <2>1
    <3>2. heap[c].buffer[k] \o <<>> = heap[c].buffer[k]
      BY <3>1, ConcatEmptySeq
    <3>3. heap'[c].buffer[k] = heap[c].buffer[k] \o batch[k]
      BY <2>1 DEF Received
    <3> QED
      BY <3>2, <3>3
  <2>3. \A a \in DOMAIN heap, k \in Key :
          heap'[a].kv[k] # Absent \/ heap'[a].buffer[k] # <<>>
            => k \in TerritoryIn(heap, a)
    BY <1>5, <1>6, <2>1, <2>2 DEF ShapeIn, RoutedIn
  <2> QED
    BY <2>1, <2>3, SameNodesShape
<1> QED
  BY <1>7, <1>8

-----------------------------------------------------------------------------
(* Splits. *)

(* Heap g is h after child i of p has been split at key q. *)
SplitAt(g, h, p, i, q, c, r) ==
  /\ c = h[p].children[i] /\ r = <<c[1], q>>
  /\ q \in TerritoryIn(h, c) /\ c[2] < q
  /\ DOMAIN g = DOMAIN h \cup {r}
  /\ ~g[p].leaf /\ g[p].kv = h[p].kv /\ g[p].buffer = h[p].buffer
  /\ Len(g[p].pivots) = Len(h[p].pivots) + 1
  /\ Len(g[p].children) = Len(h[p].children) + 1
  /\ \A j \in 1..Len(h[p].pivots)+1 :
       g[p].pivots[j] = IF j < i THEN h[p].pivots[j]
                        ELSE IF j = i THEN q ELSE h[p].pivots[j-1]
  /\ \A j \in 1..Len(h[p].children)+1 :
       g[p].children[j] = IF j < i + 1 THEN h[p].children[j]
                          ELSE IF j = i + 1 THEN r ELSE h[p].children[j-1]
  /\ g[c].leaf = h[c].leaf /\ g[r].leaf = h[c].leaf
  /\ \A k \in Key :
       /\ g[c].kv[k] = IF k < q THEN h[c].kv[k] ELSE Absent
       /\ g[r].kv[k] = IF k < q THEN Absent ELSE h[c].kv[k]
       /\ g[c].buffer[k] = IF k < q THEN h[c].buffer[k] ELSE <<>>
       /\ g[r].buffer[k] = IF k < q THEN <<>> ELSE h[c].buffer[k]
  /\ h[c].leaf => /\ Len(g[c].pivots) = 0 /\ Len(g[c].children) = 0
                  /\ Len(g[r].pivots) = 0 /\ Len(g[r].children) = 0
  /\ ~h[c].leaf => \E mid \in Nat :
       /\ mid >= 1 /\ mid + 1 <= Len(h[c].pivots) /\ q = h[c].pivots[mid + 1]
       /\ LowerHalf(g[c], h[c], mid) /\ UpperHalf(g[r], h[c], mid)
  /\ \A a \in DOMAIN h \ {p, c} : g[a] = h[a]

(* The pivot is a key of the node that is split, and not its lowest. *)
LEMMA PivotWithin ==
  ASSUME NEW h, NEW rt, ShapeIn(h, rt), NEW c \in DOMAIN h, Overfull(h[c]),
         NEW s, s = IF h[c].leaf THEN splitLeaf(h[c]) ELSE splitInternal(h[c])
  PROVE  s.pivot \in TerritoryIn(h, c) /\ c[2] < s.pivot
<1>1. /\ h[c] \in LeafNode \cup InternalNode /\ c \in Addr
      /\ ~h[c].leaf => Len(h[c].children) = Len(h[c].pivots) + 1
  BY DEF ShapeIn, HeapOK
<1>2. CASE h[c].leaf
  <2>1. h[c] \in LeafNode /\ s = splitLeaf(h[c])
    BY <1>1, <1>2, NodeKinds
  <2>2. s.pivot \in KeysOf(h[c]) /\ \E k \in KeysOf(h[c]) : k < s.pivot
    BY <1>2, <2>1, LeafSplit
  <2>3. KeysOf(h[c]) \subseteq TerritoryIn(h, c)
    BY DEF KeysOf, ShapeIn, RoutedIn
  <2>4. PICK k \in TerritoryIn(h, c) : k < s.pivot
    BY <2>2, <2>3
  <2>5. k \in Nat /\ s.pivot \in Nat /\ c[2] \in Nat /\ c[2] <= k
    BY <1>1, <2>2, <2>4, ConstantsAssumption DEF TerritoryIn, KeysOf, Addr
  <2> QED
    BY <2>2, <2>3, <2>4, <2>5
<1>3. CASE ~h[c].leaf
  <2>1. h[c] \in InternalNode /\ s = splitInternal(h[c])
    BY <1>1, <1>3, NodeKinds
  <2>2. PICK mid \in Nat : /\ mid >= 1 /\ mid + 1 <= Len(h[c].pivots)
                           /\ s.pivot = h[c].pivots[mid + 1]
    BY <1>1, <1>3, <2>1, InternalSplit
  <2>3. Len(h[c].pivots) \in Nat /\ mid + 1 \in 1..Len(h[c].pivots)
    BY <1>3, <2>2, NodeShape
  <2>4. s.pivot \in TerritoryIn(h, c) /\ LowIn(h, c, mid + 1) < s.pivot
    BY <2>2, <2>3 DEF ShapeIn, PivotsIn
  <2>5. c[2] <= LowIn(h, c, mid + 1) /\ LowIn(h, c, mid + 1) \in Nat /\ c[2] \in Nat
    BY <1>3, <2>3, NodeShape
  <2>6. s.pivot \in Nat
    BY <2>4, ConstantsAssumption DEF TerritoryIn
  <2> QED
    BY <2>4, <2>5, <2>6
<1> QED
  BY <1>2, <1>3

(* splitChild splits so. *)
LEMMA SplitEffect ==
  ASSUME NEW h, NEW rt, ShapeIn(h, rt), NEW p \in DOMAIN h, ~h[p].leaf,
         NEW i \in 1..Len(h[p].children), Overfull(h[h[p].children[i]])
  PROVE  \E q, c, r : SplitAt(splitChild(h, p, i), h, p, i, q, c, r)
<1> DEFINE c == h[p].children[i]
           s == IF h[c].leaf THEN splitLeaf(h[c]) ELSE splitInternal(h[c])
           q == s.pivot
           r == <<c[1], q>>
           pivots == InsertAt(h[p].pivots, i, q)
           children == InsertAt(h[p].children, i + 1, r)
           parent == Internal(pivots, children, h[p].buffer)
           g == splitChild(h, p, i)
<1>1. /\ DOMAIN g = DOMAIN h \cup {r}
      /\ \A a \in DOMAIN h \cup {r} :
           g[a] = CASE a = p -> parent [] a = c -> s.left
                    [] a = r -> s.right [] OTHER -> h[a]
  BY DEF splitChild
<1>2. /\ p \in Addr /\ p[1] \in Nat /\ h[p] \in InternalNode
      /\ h[p].pivots \in Seq(Key) /\ h[p].children \in Seq(Addr)
      /\ Len(h[p].pivots) \in Nat /\ Len(h[p].children) = Len(h[p].pivots) + 1
      /\ h[p].buffer \in [Key -> Seq(Msg)] /\ h[p].kv = NoKeys
  BY NodeShape DEF InternalNode
<1>3. c \in DOMAIN h /\ c[1] = p[1] - 1
  BY DEF ShapeIn, HeapOK
<1>o. Overfull(h[c])
  OBVIOUS
<1> HIDE DEF c
<1>4. /\ c \in Addr /\ c[1] \in Nat /\ c[2] \in Nat
      /\ h[c] \in LeafNode \cup InternalNode
      /\ ~h[c].leaf => Len(h[c].children) = Len(h[c].pivots) + 1
  BY <1>3 DEF ShapeIn, HeapOK, Addr
<1>5. q \in TerritoryIn(h, c) /\ c[2] < q
  <2>1. s = IF h[c].leaf THEN splitLeaf(h[c]) ELSE splitInternal(h[c])
    OBVIOUS
  <2> HIDE DEF s
  <2> QED
    BY <1>3, <1>o, <2>1, PivotWithin
<1>6. q \in Key /\ q \in Nat
  <2> HIDE DEF q
  <2> QED
    BY <1>5, ConstantsAssumption DEF TerritoryIn
<1>7. /\ h[c].leaf => s.left \in LeafNode /\ s.right \in LeafNode
      /\ ~h[c].leaf => s.left \in InternalNode /\ s.right \in InternalNode
      /\ \A k \in Key :
           /\ s.left.kv[k] = IF k < q THEN h[c].kv[k] ELSE Absent
           /\ s.right.kv[k] = IF k < q THEN Absent ELSE h[c].kv[k]
           /\ s.left.buffer[k] = IF k < q THEN h[c].buffer[k] ELSE <<>>
           /\ s.right.buffer[k] = IF k < q THEN <<>> ELSE h[c].buffer[k]
      /\ ~h[c].leaf => \E mid \in Nat :
           /\ mid >= 1 /\ mid + 1 <= Len(h[c].pivots) /\ q = h[c].pivots[mid + 1]
           /\ LowerHalf(s.left, h[c], mid) /\ UpperHalf(s.right, h[c], mid)
  <2>1. CASE h[c].leaf
    <3>1. h[c] \in LeafNode /\ s = splitLeaf(h[c])
      BY <1>4, <2>1, NodeKinds
    <3>2. /\ s.left \in LeafNode /\ s.right \in LeafNode
          /\ \A k \in Key :
               /\ s.left.kv[k] = IF k < q THEN h[c].kv[k] ELSE Absent
               /\ s.right.kv[k] = IF k < q THEN Absent ELSE h[c].kv[k]
      BY <1>o, <2>1, <3>1, LeafSplit
    <3>3. \A n \in LeafNode : \A k \in Key : n.buffer[k] = <<>>
      BY DEF LeafNode, NoMsgs
    <3> HIDE DEF s, q
    <3> QED
      BY <2>1, <3>1, <3>2, <3>3
  <2>2. CASE ~h[c].leaf
    <3>1. h[c] \in InternalNode /\ s = splitInternal(h[c])
      BY <1>4, <2>2, NodeKinds
    <3>2. /\ s.left \in InternalNode /\ s.right \in InternalNode
          /\ \A k \in Key :
               /\ s.left.buffer[k] = IF k < q THEN h[c].buffer[k] ELSE <<>>
               /\ s.right.buffer[k] = IF k < q THEN <<>> ELSE h[c].buffer[k]
          /\ \E mid \in Nat :
               /\ mid >= 1 /\ mid + 1 <= Len(h[c].pivots) /\ q = h[c].pivots[mid + 1]
               /\ LowerHalf(s.left, h[c], mid) /\ UpperHalf(s.right, h[c], mid)
      BY <1>4, <1>o, <2>2, <3>1, InternalSplit
    <3>3. \A n \in InternalNode : \A k \in Key : n.kv[k] = Absent
      BY DEF InternalNode, NoKeys
    <3> HIDE DEF s, q
    <3> QED
      BY <2>2, <3>1, <3>2, <3>3
  <2> QED
    BY <2>1, <2>2
<1> HIDE DEF s, q
<1>8. r \in Addr /\ r[1] = p[1] - 1 /\ r[1] = c[1] /\ r[2] = q
  BY <1>3, <1>4, <1>6 DEF Addr
<1>9. /\ pivots \in Seq(Key) /\ Len(pivots) = Len(h[p].pivots) + 1
      /\ \A j \in 1..Len(h[p].pivots)+1 :
           pivots[j] = IF j < i THEN h[p].pivots[j]
                       ELSE IF j = i THEN q ELSE h[p].pivots[j-1]
  <2> DEFINE u == h[p].pivots
  <2>1. u \in Seq(Key) /\ i \in 1..Len(u)+1
    BY <1>2
  <2> HIDE DEF u
  <2>2. /\ InsertAt(u, i, q) \in Seq(Key)
        /\ Len(InsertAt(u, i, q)) = Len(u) + 1
        /\ \A j \in 1..Len(u)+1 :
             InsertAt(u, i, q)[j] =
               IF j < i THEN u[j] ELSE IF j = i THEN q ELSE u[j-1]
    BY ONLY <1>6, <2>1, InsertAtProperties
  <2> QED
    BY <2>2, Zenon DEF u
<1>10. /\ children \in Seq(Addr) /\ Len(children) = Len(h[p].children) + 1
       /\ \A j \in 1..Len(h[p].children)+1 :
            children[j] = IF j < i + 1 THEN h[p].children[j]
                          ELSE IF j = i + 1 THEN r ELSE h[p].children[j-1]
  <2> DEFINE u == h[p].children
             d == i + 1
  <2>1. u \in Seq(Addr) /\ d \in 1..Len(u)+1
    BY <1>2
  <2> HIDE DEF u, d, r
  <2>2. /\ InsertAt(u, d, r) \in Seq(Addr)
        /\ Len(InsertAt(u, d, r)) = Len(u) + 1
        /\ \A j \in 1..Len(u)+1 :
             InsertAt(u, d, r)[j] =
               IF j < d THEN u[j] ELSE IF j = d THEN r ELSE u[j-1]
    BY ONLY <1>8, <2>1, InsertAtProperties
  <2> QED
    BY <2>2, Zenon DEF u, d
<1> HIDE DEF pivots, children, r
<1>11. /\ ~parent.leaf /\ parent.kv = h[p].kv /\ parent.buffer = h[p].buffer
       /\ parent.pivots = pivots /\ parent.children = children
  BY <1>2 DEF Internal
<1>12. p # c /\ p # r /\ c # r
  BY <1>2, <1>3, <1>4, <1>5, <1>6, <1>8
<1> HIDE DEF parent, g
<1>13. /\ g[p] = parent /\ g[c] = s.left /\ g[r] = s.right
       /\ \A a \in DOMAIN h \ {p, c, r} : g[a] = h[a]
  BY <1>1, <1>3, <1>12
<1>14. r \notin DOMAIN h
  <2> SUFFICES ASSUME r \in DOMAIN h PROVE FALSE
    OBVIOUS
  <2>1. q < q
    BY <1>5, <1>8 DEF TerritoryIn
  <2> QED
    BY <1>6, <2>1
<1>15. /\ \A n \in LeafNode : n.leaf = TRUE /\ Len(n.pivots) = 0 /\ Len(n.children) = 0
       /\ \A n \in InternalNode : n.leaf = FALSE
  BY DEF LeafNode, InternalNode
<1>16. h[c].leaf = TRUE \/ h[c].leaf = FALSE
  BY <1>4, NodeKinds
<1>17. g[c].leaf = h[c].leaf /\ g[r].leaf = h[c].leaf
  BY <1>7, <1>13, <1>15, <1>16
<1>18. h[c].leaf => /\ Len(g[c].pivots) = 0 /\ Len(g[c].children) = 0
                    /\ Len(g[r].pivots) = 0 /\ Len(g[r].children) = 0
  BY <1>7, <1>13, <1>15
<1>19. \A a \in DOMAIN h \ {p, c} : g[a] = h[a]
  BY <1>13, <1>14
<1>20. c = h[p].children[i] /\ r = <<c[1], q>>
  BY DEF c, r
<1>21. SplitAt(g, h, p, i, q, c, r)
  <2>1. /\ ~g[p].leaf /\ g[p].kv = h[p].kv /\ g[p].buffer = h[p].buffer
        /\ g[p].pivots = pivots /\ g[p].children = children
    BY <1>11, <1>13
  <2>2. /\ \A k \in Key :
            /\ g[c].kv[k] = IF k < q THEN h[c].kv[k] ELSE Absent
            /\ g[r].kv[k] = IF k < q THEN Absent ELSE h[c].kv[k]
            /\ g[c].buffer[k] = IF k < q THEN h[c].buffer[k] ELSE <<>>
            /\ g[r].buffer[k] = IF k < q THEN <<>> ELSE h[c].buffer[k]
        /\ ~h[c].leaf => \E mid \in Nat :
             /\ mid >= 1 /\ mid + 1 <= Len(h[c].pivots) /\ q = h[c].pivots[mid + 1]
             /\ LowerHalf(g[c], h[c], mid) /\ UpperHalf(g[r], h[c], mid)
    BY ONLY <1>7, <1>13
  <2> QED
    BY ONLY <1>1, <1>5, <1>9, <1>10, <1>17, <1>18, <1>19, <1>20, <2>1, <2>2, Zenon
       DEF SplitAt
<1> QED
  BY <1>21 DEF g

(* The nodes of a split: the parent p, its child c, the new node r. *)
LEMMA SplitNodes ==
  ASSUME NEW h, NEW rt, ShapeIn(h, rt), NEW p \in DOMAIN h, ~h[p].leaf,
         NEW i \in 1..Len(h[p].children),
         NEW g, NEW q, NEW c, NEW r, SplitAt(g, h, p, i, q, c, r)
  PROVE  /\ p \in Addr /\ p[1] \in Nat /\ p[2] \in Nat
         /\ c \in DOMAIN h /\ c \in Addr /\ c[1] \in Nat /\ c[2] \in Nat
         /\ c[1] = p[1] - 1 /\ c[2] = LowIn(h, p, i)
         /\ q \in Nat /\ q \in Key /\ c[2] < q
         /\ r \in Addr /\ r[1] = c[1] /\ r[2] = q
         /\ p # c /\ p # r /\ c # r /\ r \notin DOMAIN h
<1>1. i \in 1..Len(h[p].pivots)+1 /\ c = h[p].children[i]
  <2>1. c = h[p].children[i]
    BY ONLY SplitAt(g, h, p, i, q, c, r) DEF SplitAt
  <2>2. i \in 1..Len(h[p].pivots)+1
    BY ONLY ShapeIn(h, rt), p \in DOMAIN h, ~h[p].leaf,
            i \in 1..Len(h[p].children), NodeShape
  <2> QED
    BY ONLY <2>1, <2>2
<1>2. /\ p \in Addr /\ p[1] \in Nat /\ p[2] \in Nat
      /\ c = <<p[1] - 1, LowIn(h, p, i)>> /\ c \in DOMAIN h
  BY <1>1, NodeShape
<1>3. c \in Addr /\ c[1] = p[1] - 1 /\ c[2] = LowIn(h, p, i)
  BY <1>2 DEF ShapeIn, HeapOK
<1>4. c[1] \in Nat /\ c[2] \in Nat
  BY <1>3 DEF Addr
<1>5. q \in TerritoryIn(h, c) /\ c[2] < q /\ r = <<c[1], q>>
  BY DEF SplitAt
<1>6. q \in Key /\ q \in Nat
  BY <1>5, ConstantsAssumption DEF TerritoryIn
<1>7. r \in Addr /\ r[1] = c[1] /\ r[2] = q
  BY <1>4, <1>5, <1>6 DEF Addr
<1>8. p # c /\ p # r /\ c # r
  BY <1>2, <1>3, <1>4, <1>5, <1>6, <1>7
<1>9. r \notin DOMAIN h
  <2> SUFFICES ASSUME r \in DOMAIN h PROVE FALSE
    OBVIOUS
  <2>1. q < q
    BY <1>5, <1>7 DEF TerritoryIn
  <2> QED
    BY <1>6, <2>1
<1> QED
  BY <1>2, <1>3, <1>4, <1>5, <1>6, <1>7, <1>8, <1>9

(* The pivot cuts the keys of c in two; no other node's keys change. *)
LEMMA SplitTerritory ==
  ASSUME NEW h, NEW rt, ShapeIn(h, rt), NEW p \in DOMAIN h, ~h[p].leaf,
         NEW i \in 1..Len(h[p].children),
         NEW g, NEW q, NEW c, NEW r, SplitAt(g, h, p, i, q, c, r)
  PROVE  /\ \A k : k \in TerritoryIn(g, c) <=> k \in TerritoryIn(h, c) /\ k < q
         /\ \A k : k \in TerritoryIn(g, r) <=> k \in TerritoryIn(h, c) /\ q <= k
         /\ \A a \in DOMAIN h \ {c} : TerritoryIn(g, a) = TerritoryIn(h, a)
<1>1. /\ c \in DOMAIN h /\ c \in Addr /\ c[1] \in Nat /\ c[2] \in Nat
      /\ q \in Nat /\ q \in Key /\ c[2] < q
      /\ r \in Addr /\ r[1] = c[1] /\ r[2] = q
  BY SplitNodes
<1>2. DOMAIN g = DOMAIN h \cup {r} /\ q \in TerritoryIn(h, c)
  BY DEF SplitAt
<1>3. \A k \in Key : k \in Nat
  BY ConstantsAssumption
<1>4. \A b \in DOMAIN h : b \in Addr /\ b[1] \in Nat /\ b[2] \in Nat
  BY DEF ShapeIn, HeapOK, Addr
<1>5. \A b \in DOMAIN h : b[1] = c[1] /\ c[2] < b[2] => q < b[2]
  BY <1>2 DEF TerritoryIn
<1>6. ASSUME NEW k PROVE k \in TerritoryIn(g, c) <=> k \in TerritoryIn(h, c) /\ k < q
  BY <1>1, <1>2 DEF TerritoryIn
<1>7. ASSUME NEW k PROVE k \in TerritoryIn(g, r) <=> k \in TerritoryIn(h, c) /\ q <= k
  <2>1. CASE k \notin Key
    BY <2>1 DEF TerritoryIn
  <2>2. CASE k \in Key
    <3>1. ASSUME k \in TerritoryIn(g, r) PROVE k \in TerritoryIn(h, c) /\ q <= k
      <4>1. q <= k /\ k \in Nat
        BY <1>1, <1>3, <2>2, <3>1 DEF TerritoryIn
      <4>2. ASSUME NEW b \in DOMAIN h, b[1] = c[1], c[2] < b[2] PROVE k < b[2]
        BY <1>1, <1>2, <1>5, <3>1, <4>2 DEF TerritoryIn
      <4> QED
        BY <1>1, <2>2, <4>1, <4>2 DEF TerritoryIn
    <3>2. ASSUME k \in TerritoryIn(h, c), q <= k PROVE k \in TerritoryIn(g, r)
      <4>1. ASSUME NEW b \in DOMAIN g, b[1] = r[1], r[2] < b[2] PROVE k < b[2]
        <5>1. b # r
          BY <1>1, <4>1
        <5>2. b \in DOMAIN h /\ b[1] = c[1] /\ c[2] < b[2]
          BY <1>1, <1>2, <1>4, <4>1, <5>1
        <5> QED
          BY <3>2, <5>2 DEF TerritoryIn
      <4> QED
        BY <1>1, <2>2, <3>2, <4>1 DEF TerritoryIn
    <3> QED
      BY <3>1, <3>2
  <2> QED
    BY <2>1, <2>2
<1>8. ASSUME NEW a \in DOMAIN h, a # c PROVE TerritoryIn(g, a) = TerritoryIn(h, a)
  <2>1. ASSUME NEW k \in TerritoryIn(h, a), r[1] = a[1], a[2] < r[2] PROVE k < r[2]
    <3>1. a[1] \in Nat /\ a[2] \in Nat /\ a[1] = c[1] /\ a[2] < q
      BY <1>1, <1>4, <2>1
    <3>2. a[2] # c[2]
      BY <1>1, <1>4, <1>8, <3>1, SameAddress
    <3>3. ~(c[2] < a[2])
      BY <1>1, <1>5, <3>1
    <3>4. a[2] < c[2]
      BY <1>1, <3>1, <3>2, <3>3
    <3>5. k < c[2] /\ k \in Nat
      BY <1>1, <1>3, <3>1, <3>4 DEF TerritoryIn
    <3> QED
      BY <1>1, <3>5
  <2> QED
    BY <1>2, <2>1 DEF TerritoryIn
<1> QED
  BY <1>6, <1>7, <1>8

(* The lowest keys of the children after a split. *)
LEMMA SplitLows ==
  ASSUME NEW h, NEW rt, ShapeIn(h, rt), NEW p \in DOMAIN h, ~h[p].leaf,
         NEW i \in 1..Len(h[p].children),
         NEW g, NEW q, NEW c, NEW r, SplitAt(g, h, p, i, q, c, r)
  PROVE  /\ \A j \in 1..Len(h[p].pivots)+2 :
              LowIn(g, p, j) = IF j < i + 1 THEN LowIn(h, p, j)
                               ELSE IF j = i + 1 THEN q ELSE LowIn(h, p, j - 1)
         /\ \A a \in DOMAIN h \ {p, c} : \A j : LowIn(g, a, j) = LowIn(h, a, j)
<1>1. \A a \in DOMAIN h \ {p, c} : \A j : LowIn(g, a, j) = LowIn(h, a, j)
  BY DEF SplitAt, LowIn
<1> DEFINE n == Len(h[p].pivots)
<1>2. n \in Nat /\ i \in 1..n+1
  BY NodeShape
<1>3. \A j \in 1..n+1 : g[p].pivots[j] = IF j < i THEN h[p].pivots[j]
                                        ELSE IF j = i THEN q ELSE h[p].pivots[j-1]
  BY DEF SplitAt
<1> HIDE DEF n
<1>4. ASSUME NEW j \in 1..n+2
      PROVE  LowIn(g, p, j) = IF j < i + 1 THEN LowIn(h, p, j)
                              ELSE IF j = i + 1 THEN q ELSE LowIn(h, p, j - 1)
  <2>1. CASE j = 1
    BY <1>2, <2>1 DEF LowIn
  <2>2. CASE j # 1
    <3>1. j - 1 \in 1..n+1 /\ LowIn(g, p, j) = g[p].pivots[j-1]
      BY <1>2, <2>2 DEF LowIn
    <3>2. CASE j < i + 1
      BY <1>2, <1>3, <2>2, <3>1, <3>2 DEF LowIn
    <3>3. CASE j = i + 1
      BY <1>2, <1>3, <3>1, <3>3
    <3>4. CASE j > i + 1
      <4>1. g[p].pivots[j-1] = h[p].pivots[(j-1)-1]
        BY <1>2, <1>3, <3>1, <3>4
      <4>2. LowIn(h, p, j - 1) = h[p].pivots[(j-1)-1]
        BY <1>2, <3>4 DEF LowIn
      <4> QED
        BY <1>2, <3>1, <3>4, <4>1, <4>2
    <3> QED
      BY <1>2, <3>2, <3>3, <3>4
  <2> QED
    BY <2>1, <2>2
<1> QED
  BY <1>1, <1>4 DEF n

(* What PivotsIn says of one node. *)
PivotsOf(h, a) ==
  /\ \A j \in 1..Len(h[a].pivots) :
       h[a].pivots[j] \in TerritoryIn(h, a) /\ LowIn(h, a, j) < h[a].pivots[j]
  /\ \A j \in 1..Len(h[a].children) :
       h[a].children[j] = <<a[1] - 1, LowIn(h, a, j)>> /\ h[a].children[j] \in DOMAIN h

(* The parent's pivots ascend with the new one among them. *)
LEMMA SplitParent ==
  ASSUME NEW h, NEW rt, ShapeIn(h, rt), NEW p \in DOMAIN h, ~h[p].leaf,
         NEW i \in 1..Len(h[p].children),
         NEW g, NEW q, NEW c, NEW r, SplitAt(g, h, p, i, q, c, r)
  PROVE  PivotsOf(g, p)
<1> DEFINE n == Len(h[p].pivots)
<1>1. /\ p \in Addr /\ p[1] \in Nat /\ p[2] \in Nat
      /\ c \in DOMAIN h /\ c[1] = p[1] - 1 /\ c[2] = LowIn(h, p, i) /\ c[2] \in Nat
      /\ q \in Nat /\ c[2] < q /\ r = <<c[1], q>> /\ p # c
  <2>1. r = <<c[1], q>>
    BY DEF SplitAt
  <2> QED
    BY <2>1, SplitNodes
<1>2. /\ n \in Nat /\ i \in 1..n+1 /\ Len(h[p].children) = n + 1
      /\ \A j \in 1..n : h[p].pivots[j] \in Nat
      /\ \A j \in 1..n+1 : /\ LowIn(h, p, j) \in Nat
                           /\ h[p].children[j] = <<p[1] - 1, LowIn(h, p, j)>>
                           /\ h[p].children[j] \in DOMAIN h
  BY NodeShape
<1>3. \A j \in 1..n : h[p].pivots[j] \in TerritoryIn(h, p) /\ LowIn(h, p, j) < h[p].pivots[j]
  BY DEF ShapeIn, PivotsIn
<1>4. /\ Len(g[p].pivots) = n + 1 /\ Len(g[p].children) = n + 2
      /\ DOMAIN g = DOMAIN h \cup {r}
      /\ \A j \in 1..n+1 :
           g[p].pivots[j] = IF j < i THEN h[p].pivots[j]
                            ELSE IF j = i THEN q ELSE h[p].pivots[j-1]
      /\ \A j \in 1..n+2 :
           g[p].children[j] = IF j < i + 1 THEN h[p].children[j]
                              ELSE IF j = i + 1 THEN r ELSE h[p].children[j-1]
  <2>1. Len(h[p].children) + 1 = n + 2
    BY <1>2
  <2> QED
    BY <2>1 DEF SplitAt
<1>5. \A j \in 1..n+2 :
        LowIn(g, p, j) = IF j < i + 1 THEN LowIn(h, p, j)
                         ELSE IF j = i + 1 THEN q ELSE LowIn(h, p, j - 1)
  BY SplitLows
<1>6. TerritoryIn(g, p) = TerritoryIn(h, p)
  BY <1>1, SplitTerritory
<1>7. q \in TerritoryIn(h, p)
  <2>1. q \in TerritoryIn(h, h[p].children[i])
    BY DEF SplitAt
  <2>2. i \in 1..Len(h[p].pivots)+1
    BY <1>2
  <2> QED
    BY <2>1, <2>2, ChildWithin
<1>8. i <= n => q < h[p].pivots[i]
  <2> SUFFICES ASSUME i <= n PROVE q < h[p].pivots[i]
    OBVIOUS
  <2> DEFINE b == h[p].children[i+1]
  <2>1. i + 1 \in 1..n+1 /\ i \in 1..n /\ i + 1 # 1 /\ (i + 1) - 1 = i
    BY <1>2
  <2>2. b = <<p[1] - 1, h[p].pivots[i]>> /\ b \in DOMAIN h
    BY <1>2, <2>1 DEF LowIn
  <2>3. b[1] = c[1] /\ b[2] = h[p].pivots[i]
    BY <1>1, <2>2
  <2>4. c[2] < b[2]
    BY <1>1, <1>3, <2>1, <2>3
  <2>5. q \in TerritoryIn(h, c)
    BY DEF SplitAt
  <2> QED
    BY <2>2, <2>3, <2>4, <2>5 DEF TerritoryIn
<1> HIDE DEF n
<1>9. ASSUME NEW j \in 1..n+1
      PROVE  g[p].pivots[j] \in TerritoryIn(g, p) /\ LowIn(g, p, j) < g[p].pivots[j]
  <2>0. j \in 1..n+2
    BY <1>2
  <2>1. CASE j < i
    <3>1. j \in 1..n /\ g[p].pivots[j] = h[p].pivots[j] /\ LowIn(g, p, j) = LowIn(h, p, j)
      BY <1>2, <1>4, <1>5, <2>0, <2>1
    <3> QED
      BY <1>3, <1>6, <3>1
  <2>2. CASE j = i
    <3>1. g[p].pivots[j] = q /\ LowIn(g, p, j) = LowIn(h, p, i)
      BY <1>2, <1>4, <1>5, <2>0, <2>2
    <3> QED
      BY <1>1, <1>6, <1>7, <3>1
  <2>3. CASE j = i + 1
    <3>1. g[p].pivots[j] = h[p].pivots[i] /\ LowIn(g, p, j) = q /\ i \in 1..n
      BY <1>2, <1>4, <1>5, <2>0, <2>3
    <3> QED
      BY <1>2, <1>3, <1>6, <1>8, <3>1
  <2>4. CASE j > i + 1
    <3>1. /\ g[p].pivots[j] = h[p].pivots[j-1] /\ LowIn(g, p, j) = LowIn(h, p, j - 1)
          /\ j - 1 \in 1..n
      BY <1>2, <1>4, <1>5, <2>0, <2>4
    <3> QED
      BY <1>3, <1>6, <3>1
  <2> QED
    BY <1>2, <2>1, <2>2, <2>3, <2>4
<1>10. ASSUME NEW j \in 1..n+2
       PROVE  /\ g[p].children[j] = <<p[1] - 1, LowIn(g, p, j)>>
              /\ g[p].children[j] \in DOMAIN g
  <2>1. CASE j < i + 1
    <3>1. /\ j \in 1..n+1 /\ g[p].children[j] = h[p].children[j]
          /\ LowIn(g, p, j) = LowIn(h, p, j)
      BY <1>2, <1>4, <1>5, <2>1
    <3> QED
      BY <1>2, <1>4, <3>1
  <2>2. CASE j = i + 1
    <3>1. g[p].children[j] = r /\ LowIn(g, p, j) = q
      BY <1>2, <1>4, <1>5, <2>2
    <3> QED
      BY <1>1, <1>4, <3>1
  <2>3. CASE j > i + 1
    <3>1. /\ j - 1 \in 1..n+1 /\ g[p].children[j] = h[p].children[j-1]
          /\ LowIn(g, p, j) = LowIn(h, p, j - 1)
      BY <1>2, <1>4, <1>5, <2>3
    <3> QED
      BY <1>2, <1>4, <3>1
  <2> QED
    BY <1>2, <2>1, <2>2, <2>3
<1> QED
  BY <1>4, <1>9, <1>10 DEF PivotsOf

(* The halves keep their share of the pivots. *)
LEMMA SplitHalves ==
  ASSUME NEW h, NEW rt, ShapeIn(h, rt), NEW p \in DOMAIN h, ~h[p].leaf,
         NEW i \in 1..Len(h[p].children),
         NEW g, NEW q, NEW c, NEW r, SplitAt(g, h, p, i, q, c, r)
  PROVE  PivotsOf(g, c) /\ PivotsOf(g, r)
<1> DEFINE n == Len(h[c].pivots)
<1>1. /\ c \in DOMAIN h /\ c \in Addr /\ c[1] \in Nat /\ c[2] \in Nat
      /\ q \in Nat /\ c[2] < q /\ r[1] = c[1] /\ r[2] = q
  BY SplitNodes
<1>2. CASE h[c].leaf
  <2>1. /\ Len(g[c].pivots) = 0 /\ Len(g[c].children) = 0
        /\ Len(g[r].pivots) = 0 /\ Len(g[r].children) = 0
    BY <1>2 DEF SplitAt
  <2> QED
    BY <2>1 DEF PivotsOf
<1>3. CASE ~h[c].leaf
  <2>1. PICK mid \in Nat :
          /\ mid >= 1 /\ mid + 1 <= n /\ q = h[c].pivots[mid + 1]
          /\ LowerHalf(g[c], h[c], mid) /\ UpperHalf(g[r], h[c], mid)
    BY <1>3 DEF SplitAt
  <2>2. /\ n \in Nat /\ Len(h[c].children) = n + 1
        /\ \A j \in 1..n : h[c].pivots[j] \in Nat
        /\ \A j \in 1..n+1 : /\ LowIn(h, c, j) \in Nat
                             /\ h[c].children[j] = <<c[1] - 1, LowIn(h, c, j)>>
                             /\ h[c].children[j] \in DOMAIN h
        /\ \A j, m \in 1..n+1 : j < m => LowIn(h, c, j) < LowIn(h, c, m)
    BY <1>1, <1>3, NodeShape
  <2>3. \A j \in 1..n : /\ h[c].pivots[j] \in TerritoryIn(h, c)
                        /\ LowIn(h, c, j) < h[c].pivots[j]
    BY <1>1 DEF ShapeIn, PivotsIn
  <2>4. /\ \A k : k \in TerritoryIn(g, c) <=> k \in TerritoryIn(h, c) /\ k < q
        /\ \A k : k \in TerritoryIn(g, r) <=> k \in TerritoryIn(h, c) /\ q <= k
    BY SplitTerritory
  <2>5. DOMAIN g = DOMAIN h \cup {r}
    BY DEF SplitAt
  <2>6. /\ Len(g[c].pivots) = mid /\ Len(g[c].children) = mid + 1
        /\ \A j \in 1..mid : g[c].pivots[j] = h[c].pivots[j]
        /\ \A j \in 1..mid+1 : g[c].children[j] = h[c].children[j]
    BY <2>1 DEF LowerHalf
  <2>7. /\ Len(g[r].pivots) = n - mid - 1 /\ Len(g[r].children) = n - mid
        /\ \A j \in 1..n-mid-1 : g[r].pivots[j] = h[c].pivots[mid+1+j]
        /\ \A j \in 1..n-mid : g[r].children[j] = h[c].children[mid+1+j]
    BY <2>1 DEF UpperHalf
  <2> HIDE DEF n
  <2>8. \A j \in 1..mid+1 : LowIn(g, c, j) = LowIn(h, c, j)
    <3> SUFFICES ASSUME NEW j \in 1..mid+1 PROVE LowIn(g, c, j) = LowIn(h, c, j)
      OBVIOUS
    <3>1. j # 1 => j - 1 \in 1..mid
      BY <2>1
    <3> QED
      BY <2>6, <3>1 DEF LowIn
  <2>9. ASSUME NEW j \in 1..n-mid PROVE LowIn(g, r, j) = LowIn(h, c, mid+1+j)
    <3>1. CASE j = 1
      BY <1>1, <2>1, <3>1 DEF LowIn
    <3>2. CASE j # 1
      <4>1. j - 1 \in 1..n-mid-1 /\ mid+1+j # 1 /\ (mid+1+j)-1 = mid+1+(j-1)
        BY <2>1, <2>2, <3>2
      <4>2. LowIn(g, r, j) = g[r].pivots[j-1] /\ LowIn(h, c, mid+1+j) = h[c].pivots[(mid+1+j)-1]
        BY <3>2, <4>1 DEF LowIn
      <4> QED
        BY <2>7, <4>1, <4>2
    <3> QED
      BY <3>1, <3>2
  <2>10. \A j \in 1..n : h[c].pivots[j] = LowIn(h, c, j + 1)
    BY <2>2 DEF LowIn
  <2>11. PivotsOf(g, c)
    <3>1. ASSUME NEW j \in 1..mid
          PROVE  g[c].pivots[j] \in TerritoryIn(g, c) /\ LowIn(g, c, j) < g[c].pivots[j]
      <4>1. j \in 1..n /\ j \in 1..mid+1 /\ mid + 1 \in 1..n /\ j + 1 \in 1..n+1
            /\ mid + 2 \in 1..n+1 /\ j + 1 < mid + 2 /\ (mid + 1) + 1 = mid + 2
        BY <2>1, <2>2
      <4>2. h[c].pivots[j] < q
        BY <2>1, <2>2, <2>10, <4>1
      <4> QED
        BY <2>3, <2>4, <2>6, <2>8, <4>1, <4>2
    <3>2. ASSUME NEW j \in 1..mid+1
          PROVE  /\ g[c].children[j] = <<c[1] - 1, LowIn(g, c, j)>>
                 /\ g[c].children[j] \in DOMAIN g
      <4>1. j \in 1..n+1
        BY <2>1, <2>2
      <4> QED
        BY <2>2, <2>5, <2>6, <2>8, <4>1
    <3> QED
      BY <2>6, <3>1, <3>2 DEF PivotsOf
  <2>12. PivotsOf(g, r)
    <3>1. ASSUME NEW j \in 1..n-mid-1
          PROVE  g[r].pivots[j] \in TerritoryIn(g, r) /\ LowIn(g, r, j) < g[r].pivots[j]
      <4>1. /\ mid+1+j \in 1..n /\ j \in 1..n-mid /\ mid + 1 \in 1..n
            /\ mid + 2 \in 1..n+1 /\ (mid+1+j)+1 \in 1..n+1
            /\ mid + 2 < (mid+1+j)+1 /\ (mid + 1) + 1 = mid + 2
        <5>1. n \in Nat /\ mid \in Nat /\ mid >= 1 /\ mid + 1 <= n
          BY <2>1, <2>2
        <5> QED
          BY ONLY <5>1, j \in 1..n-mid-1
      <4>2. q < h[c].pivots[mid+1+j] /\ h[c].pivots[mid+1+j] \in Nat
        BY <2>1, <2>2, <2>10, <4>1
      <4>3. q <= h[c].pivots[mid+1+j]
        BY <1>1, <4>2
      <4> QED
        BY <2>3, <2>4, <2>7, <2>9, <4>1, <4>3
    <3>2. ASSUME NEW j \in 1..n-mid
          PROVE  /\ g[r].children[j] = <<r[1] - 1, LowIn(g, r, j)>>
                 /\ g[r].children[j] \in DOMAIN g
      <4>1. mid+1+j \in 1..n+1
        BY <2>1, <2>2
      <4> QED
        BY <1>1, <2>2, <2>5, <2>7, <2>9, <4>1
    <3> QED
      BY <2>7, <3>1, <3>2 DEF PivotsOf
  <2> QED
    BY <2>11, <2>12
<1> QED
  BY <1>2, <1>3

(* No node is lost in a split. *)
LEMMA SplitReachable ==
  ASSUME NEW h, NEW rt, ShapeIn(h, rt), NEW p \in DOMAIN h, ~h[p].leaf,
         NEW i \in 1..Len(h[p].children),
         NEW g, NEW q, NEW c, NEW r, SplitAt(g, h, p, i, q, c, r)
  PROVE  ReachableIn(g, rt)
<1> DEFINE n == Len(h[p].children)
<1>1. c \in DOMAIN h /\ p # c /\ r \notin DOMAIN h /\ n \in Nat
  BY SplitNodes, NodeShape
<1>2. /\ DOMAIN g = DOMAIN h \cup {r} /\ Len(g[p].children) = n + 1
      /\ \A j \in 1..n+1 :
           g[p].children[j] = IF j < i + 1 THEN h[p].children[j]
                              ELSE IF j = i + 1 THEN r ELSE h[p].children[j-1]
      /\ \A a \in DOMAIN h \ {p, c} : g[a] = h[a]
  BY DEF SplitAt
<1> SUFFICES ASSUME NEW a \in DOMAIN g, a # rt
             PROVE  \E b \in DOMAIN g : \E j \in 1..Len(g[b].children) :
                      g[b].children[j] = a
  BY DEF ReachableIn
<1>3. CASE a = r
  <2>1. i + 1 \in 1..n+1 /\ g[p].children[i+1] = r
    BY <1>1, <1>2
  <2> QED
    BY <1>2, <1>3, <2>1
<1>4. CASE a \in DOMAIN h
  <2>0. PICK b \in DOMAIN h : \E j \in 1..Len(h[b].children) : h[b].children[j] = a
    BY <1>4 DEF ShapeIn, ReachableIn
  <2>1. PICK j \in 1..Len(h[b].children) : h[b].children[j] = a
    BY <2>0
  <2>2. CASE b = p
    <3>1. CASE j < i + 1
      <4>1. j \in 1..n+1 /\ g[p].children[j] = a
        BY <1>1, <1>2, <2>1, <2>2, <3>1
      <4> QED
        BY <1>2, <4>1
    <3>2. CASE ~(j < i + 1)
      <4>1. j + 1 \in 1..n+1 /\ g[p].children[j+1] = a
        BY <1>1, <1>2, <2>1, <2>2, <3>2
      <4> QED
        BY <1>2, <4>1
    <3> QED
      BY <3>1, <3>2
  <2>3. CASE b = c
    <3>0. ~h[c].leaf
      <4>1. h[c].leaf => h[c].children = <<>>
        BY <1>1, NodeKinds DEF ShapeIn, HeapOK, LeafNode
      <4> QED
        BY <2>1, <2>3, <4>1
    <3> DEFINE m == Len(h[c].pivots)
    <3>1. m \in Nat /\ Len(h[c].children) = m + 1
      BY <1>1, <3>0, NodeShape
    <3>2. PICK mid \in Nat :
            /\ mid >= 1 /\ mid + 1 <= m
            /\ LowerHalf(g[c], h[c], mid) /\ UpperHalf(g[r], h[c], mid)
      BY <3>0 DEF SplitAt
    <3>3. CASE j <= mid + 1
      <4>1. j \in 1..Len(g[c].children) /\ g[c].children[j] = a
        BY <2>1, <2>3, <3>1, <3>2, <3>3 DEF LowerHalf
      <4> QED
        BY <1>1, <1>2, <4>1
    <3>4. CASE j > mid + 1
      <4>1. j-mid-1 \in 1..m-mid /\ mid+1+(j-mid-1) = j
        BY <2>1, <2>3, <3>1, <3>2, <3>4
      <4>2. j-mid-1 \in 1..Len(g[r].children) /\ g[r].children[j-mid-1] = a
        BY <2>1, <2>3, <3>2, <4>1 DEF UpperHalf
      <4> QED
        BY <1>2, <4>2
    <3> QED
      BY <3>1, <3>2, <2>1, <2>3, <3>3, <3>4
  <2>4. CASE b # p /\ b # c
    BY <1>2, <2>1, <2>4
  <2> QED
    BY <2>2, <2>3, <2>4
<1> QED
  BY <1>2, <1>3, <1>4

(* Splitting a child keeps the shape. *)
LEMMA SplitShape ==
  ASSUME NEW h, NEW rt, ShapeIn(h, rt), NEW p \in DOMAIN h, ~h[p].leaf,
         NEW i \in 1..Len(h[p].children), Overfull(h[h[p].children[i]])
  PROVE  ShapeIn(splitChild(h, p, i), rt)
<1> DEFINE g == splitChild(h, p, i)
<1>1. HeapOK(g)
  BY SplitHeap DEF ShapeIn
<1>2. \E q, c, r : SplitAt(g, h, p, i, q, c, r)
  BY SplitEffect
<1> HIDE DEF g
<1>3. PICK q, c, r : SplitAt(g, h, p, i, q, c, r)
  BY <1>2
<1>4. /\ p \in Addr /\ p[1] \in Nat
      /\ c \in DOMAIN h /\ c \in Addr /\ c[1] \in Nat /\ c[1] = p[1] - 1
      /\ q \in Nat /\ r \in Addr /\ r[1] = c[1] /\ r \notin DOMAIN h /\ p # c /\ c # r
  BY <1>3, SplitNodes
<1>5. /\ DOMAIN g = DOMAIN h \cup {r} /\ ~g[p].leaf
      /\ g[p].kv = h[p].kv /\ g[p].buffer = h[p].buffer
      /\ g[c].leaf = h[c].leaf /\ g[r].leaf = h[c].leaf
      /\ \A k \in Key :
           /\ g[c].kv[k] = IF k < q THEN h[c].kv[k] ELSE Absent
           /\ g[r].kv[k] = IF k < q THEN Absent ELSE h[c].kv[k]
           /\ g[c].buffer[k] = IF k < q THEN h[c].buffer[k] ELSE <<>>
           /\ g[r].buffer[k] = IF k < q THEN <<>> ELSE h[c].buffer[k]
      /\ \A a \in DOMAIN h \ {p, c} : g[a] = h[a]
  BY <1>3 DEF SplitAt
<1>6. LevelsIn(g, rt)
  <2>1. /\ rt \in DOMAIN h /\ rt[2] = 0 /\ p[1] <= rt[1] /\ c[1] <= rt[1]
        /\ h[c].leaf <=> c[1] = 0
        /\ \A a \in DOMAIN h : /\ a[1] <= rt[1]
                               /\ a[1] = rt[1] => a = rt
                               /\ h[a].leaf <=> a[1] = 0
    BY <1>4 DEF ShapeIn, LevelsIn
  <2>2. rt[1] \in Nat
    BY <2>1 DEF ShapeIn, HeapOK, Addr
  <2>3. \A a \in DOMAIN h : g[a].leaf <=> a[1] = 0
    BY <1>5, <2>1
  <2>4. r[1] # rt[1] /\ r[1] <= rt[1] /\ (g[r].leaf <=> r[1] = 0)
    BY <1>4, <1>5, <2>1, <2>2
  <2> QED
    BY <1>5, <2>1, <2>3, <2>4 DEF LevelsIn
<1>7. PivotsIn(g)
  <2>1. PivotsOf(g, p) /\ PivotsOf(g, c) /\ PivotsOf(g, r)
    BY <1>3, SplitParent, SplitHalves
  <2>2. ASSUME NEW a \in DOMAIN h \ {p, c} PROVE PivotsOf(g, a)
    <3>1. PivotsOf(h, a)
      BY DEF ShapeIn, PivotsIn, PivotsOf
    <3>2. TerritoryIn(g, a) = TerritoryIn(h, a)
      BY <1>3, SplitTerritory
    <3>3. \A j : LowIn(g, a, j) = LowIn(h, a, j)
      BY <1>3, SplitLows
    <3> QED
      BY <1>5, <3>1, <3>2, <3>3 DEF PivotsOf
  <2>3. \A a \in DOMAIN g : PivotsOf(g, a)
    BY <1>5, <2>1, <2>2
  <2> QED
    BY <2>3 DEF PivotsIn, PivotsOf
<1>8. ReachableIn(g, rt)
  BY <1>3, SplitReachable
<1>9. RoutedIn(g)
  <2>1. /\ \A k : k \in TerritoryIn(g, c) <=> k \in TerritoryIn(h, c) /\ k < q
        /\ \A k : k \in TerritoryIn(g, r) <=> k \in TerritoryIn(h, c) /\ q <= k
        /\ \A a \in DOMAIN h \ {c} : TerritoryIn(g, a) = TerritoryIn(h, a)
    BY <1>3, SplitTerritory
  <2>2. \A k \in Key : k \in Nat
    BY ConstantsAssumption
  <2> SUFFICES ASSUME NEW a \in DOMAIN g, NEW k \in Key,
                      g[a].kv[k] # Absent \/ g[a].buffer[k] # <<>>
               PROVE  k \in TerritoryIn(g, a)
    BY DEF RoutedIn
  <2>3. \A b \in DOMAIN h : h[b].kv[k] # Absent \/ h[b].buffer[k] # <<>>
                             => k \in TerritoryIn(h, b)
    BY DEF ShapeIn, RoutedIn
  <2>4. CASE a = c
    BY <1>4, <1>5, <2>1, <2>3, <2>4
  <2>5. CASE a = r
    BY <1>4, <1>5, <2>1, <2>2, <2>3, <2>5
  <2>6. CASE a = p
    BY <1>4, <1>5, <2>1, <2>3, <2>6
  <2>7. CASE a # c /\ a # r /\ a # p
    BY <1>5, <2>1, <2>3, <2>7
  <2> QED
    BY <2>4, <2>5, <2>6, <2>7
<1> QED
  BY <1>1, <1>6, <1>7, <1>8, <1>9 DEF ShapeIn, g

(* A root that is split first gets a parent: the new root. *)
Grown(h, rt, r) ==
  [a \in DOMAIN h \cup {r} |->
     IF a = r THEN Internal(<<>>, <<rt>>, NoMsgs) ELSE h[a]]

(***************************************************************************)
(* A new root over the old one, with no pivot yet, makes a search tree     *)
(* that is one level higher.                                               *)
(***************************************************************************)
LEMMA GrownShape ==
  ASSUME NEW h, NEW rt, ShapeIn(h, rt),
         NEW r \in Addr, r[1] = rt[1] + 1, r[2] = 0, NEW g, g = Grown(h, rt, r)
  PROVE  /\ ShapeIn(g, r) /\ r \in DOMAIN g /\ ~g[r].leaf /\ g[r].buffer = NoMsgs
         /\ Len(g[r].children) = 1 /\ g[r].children[1] = rt
         /\ DOMAIN g = DOMAIN h \cup {r} /\ r \notin DOMAIN h
         /\ \A a \in DOMAIN h : g[a] = h[a]
<1> DEFINE top == Internal(<<>>, <<rt>>, NoMsgs)
<1>1. rt \in DOMAIN h /\ rt \in Addr /\ rt[1] \in Nat /\ rt[2] = 0
  BY DEF ShapeIn, LevelsIn, HeapOK, Addr
<1>2. r \in Addr /\ r[1] = rt[1] + 1 /\ r[2] = 0
  OBVIOUS
<1>3. r \notin DOMAIN h
  BY <1>1, <1>2 DEF ShapeIn, LevelsIn
<1>4. /\ top \in InternalNode /\ top.leaf = FALSE /\ top.children = <<rt>>
      /\ top.pivots = <<>> /\ top.buffer = NoMsgs /\ top.kv = NoKeys
  <2>1. NoMsgs \in [Key -> Seq(Msg)] /\ <<>> \in Seq(Key) /\ <<rt>> \in Seq(Addr)
    BY <1>1, EmptySeq DEF NoMsgs
  <2> QED
    BY <2>1 DEF Internal, InternalNode
<1>5. Len(<<rt>>) = 1 /\ <<rt>>[1] = rt /\ Len(<<>>) = 0
  OBVIOUS
<1>6. /\ DOMAIN g = DOMAIN h \cup {r} /\ g[r] = top
      /\ \A a \in DOMAIN h : g[a] = h[a]
  BY <1>3 DEF Grown
<1> HIDE DEF top
<1>7. /\ Len(g[r].children) = 1 /\ g[r].children[1] = rt /\ Len(g[r].pivots) = 0
      /\ g[r] \in InternalNode /\ g[r].leaf = FALSE
  BY <1>4, <1>5, <1>6
<1>8. \A a \in DOMAIN h : a \in Addr /\ a[1] \in Nat /\ a[2] \in Nat /\ a[1] <= rt[1]
  BY DEF ShapeIn, LevelsIn, HeapOK, Addr
<1>9. \A a \in DOMAIN h : TerritoryIn(g, a) = TerritoryIn(h, a)
  <2>1. \A a \in DOMAIN h : r[1] # a[1]
    BY <1>1, <1>2, <1>8
  <2> QED
    BY <1>6, <2>1 DEF TerritoryIn
<1>10. \A a \in DOMAIN h : \A i : LowIn(g, a, i) = LowIn(h, a, i)
  BY <1>6 DEF LowIn
<1>11. HeapOK(g)
  <2> SUFFICES ASSUME NEW a \in DOMAIN g
               PROVE  /\ a \in Addr
                      /\ g[a] \in LeafNode \cup InternalNode
                      /\ ~g[a].leaf => Len(g[a].children) = Len(g[a].pivots) + 1
                      /\ \A i \in 1..Len(g[a].children) :
                           g[a].children[i] \in DOMAIN g /\ g[a].children[i][1] = a[1] - 1
    BY DEF HeapOK
  <2>1. CASE a = r
    <3>1. \A i \in 1..Len(g[r].children) : g[r].children[i] = rt
      <4>1. 1..1 = {1}
        OBVIOUS
      <4> QED
        BY ONLY <1>7, <4>1
    <3>2. rt[1] = r[1] - 1 /\ rt \in DOMAIN g
      BY <1>1, <1>2, <1>6
    <3>3. Len(g[r].children) = Len(g[r].pivots) + 1
      BY <1>7
    <3> QED
      BY <1>2, <1>7, <2>1, <3>1, <3>2, <3>3
  <2>2. CASE a \in DOMAIN h
    BY <1>6, <2>2 DEF ShapeIn, HeapOK
  <2> QED
    BY <1>6, <2>1, <2>2
<1>12. LevelsIn(g, r)
  <2>1. \A a \in DOMAIN h : a[1] <= r[1] /\ a[1] # r[1]
    BY <1>1, <1>2, <1>8
  <2>2. \A a \in DOMAIN h : g[a].leaf <=> a[1] = 0
    BY <1>6 DEF ShapeIn, LevelsIn
  <2>3. r[1] # 0 /\ r[1] <= r[1]
    BY <1>1, <1>2
  <2> QED
    BY <1>2, <1>6, <1>7, <2>1, <2>2, <2>3 DEF LevelsIn
<1>13. PivotsIn(g)
  <2>1. PivotsOf(g, r)
    <3>1. rt = <<r[1] - 1, 0>>
      BY <1>1, <1>2 DEF Addr
    <3>2. LowIn(g, r, 1) = 0
      BY <1>2 DEF LowIn
    <3> QED
      BY <1>1, <1>6, <1>7, <3>1, <3>2 DEF PivotsOf
  <2>2. \A a \in DOMAIN h : PivotsOf(h, a)
    BY DEF ShapeIn, PivotsIn, PivotsOf
  <2>3. \A a \in DOMAIN h : PivotsOf(g, a)
    BY <1>6, <1>9, <1>10, <2>2 DEF PivotsOf
  <2>4. \A a \in DOMAIN g : PivotsOf(g, a)
    BY <1>6, <2>1, <2>3
  <2> QED
    BY <2>4 DEF PivotsIn, PivotsOf
<1>14. ReachableIn(g, r)
  <2> SUFFICES ASSUME NEW a \in DOMAIN h
               PROVE  \E b \in DOMAIN g : \E i \in 1..Len(g[b].children) :
                        g[b].children[i] = a
    BY <1>6 DEF ReachableIn
  <2>1. CASE a = rt
    BY <1>6, <1>7, <2>1
  <2>2. CASE a # rt
    BY <1>6, <2>2 DEF ShapeIn, ReachableIn
  <2> QED
    BY <2>1, <2>2
<1>15. RoutedIn(g)
  <2>1. \A k \in Key : g[r].kv[k] = Absent /\ g[r].buffer[k] = <<>>
    BY <1>4, <1>6 DEF NoKeys, NoMsgs
  <2> QED
    BY <1>6, <1>9, <2>1 DEF ShapeIn, RoutedIn
<1>16. ShapeIn(g, r)
  BY <1>11, <1>12, <1>13, <1>14, <1>15 DEF ShapeIn
<1> QED
  BY <1>3, <1>4, <1>6, <1>7, <1>16

-----------------------------------------------------------------------------
(* The whole system. *)

(* SplitChild and SplitRoot either leave the heap alone or split a child. *)
LEMMA SplitChildSteps ==
  ASSUME IInv, SplitChild
  PROVE  \/ UNCHANGED <<heap, root>>
         \/ LET p == Head(todo).node
                i == Head(todo).idx
            IN  /\ root' = root /\ p \in DOMAIN heap /\ ~heap[p].leaf
                /\ i \in 1..Len(heap[p].children)
                /\ Overfull(heap[heap[p].children[i]])
                /\ heap' = splitChild(heap, p, i)
<1>1. /\ todo # <<>> /\ Head(todo).do = "checkChild" /\ root' = root
  BY DEF SplitChild, Top
<1>2. Len(todo) \in Nat /\ 1 \in 1..Len(todo) /\ Head(todo) = todo[1]
  BY <1>1, EmptySeq, LenProperties, SMT DEF IInv, TypeOK
<1>3. /\ todo[1].node \in DOMAIN heap /\ ~heap[todo[1].node].leaf
      /\ todo[1].idx \in 1..Len(heap[todo[1].node].children)
  BY <1>1, <1>2 DEF IInv, CallsValid
<1> QED
  BY <1>1, <1>2, <1>3 DEF SplitChild

(***************************************************************************)
(* A check on the way back, with or without a split, keeps the search      *)
(* tree.                                                                   *)
(***************************************************************************)
LEMMA SplitStepShape ==
  ASSUME IInv, ShapeIn(heap, root), SplitChild \/ SplitRoot
  PROVE  ShapeIn(heap', root')
<1>0. CASE UNCHANGED <<heap, root>>
  BY <1>0
<1>1. CASE SplitChild /\ ~UNCHANGED <<heap, root>>
  <2> DEFINE p == Head(todo).node
             i == Head(todo).idx
  <2>1. /\ root' = root /\ p \in DOMAIN heap /\ ~heap[p].leaf
        /\ i \in 1..Len(heap[p].children)
        /\ Overfull(heap[heap[p].children[i]])
        /\ heap' = splitChild(heap, p, i)
    BY <1>1, SplitChildSteps
  <2> HIDE DEF p, i
  <2>2. ShapeIn(splitChild(heap, p, i), root)
    BY ONLY ShapeIn(heap, root), <2>1, SplitShape
  <2> QED
    BY <2>1, <2>2
<1>2. CASE SplitRoot /\ ~UNCHANGED <<heap, root>>
  <2> DEFINE r == <<root[1] + 1, 0>>
             g == Grown(heap, root, r)
             first == 1
  <2>1. Overfull(heap[root]) /\ root' = r /\ heap' = splitChild(g, r, first)
    BY <1>2 DEF SplitRoot, Grown
  <2>2. r \in Addr /\ r[1] = root[1] + 1 /\ r[2] = 0 /\ g = Grown(heap, root, r)
    <3>1. root \in Addr
      BY DEF IInv, TypeOK
    <3> QED
      BY <3>1 DEF Addr
  <2> HIDE DEF r, g
  <2>3. /\ ShapeIn(g, r) /\ r \in DOMAIN g /\ ~g[r].leaf
        /\ Len(g[r].children) = 1 /\ g[r].children[1] = root
        /\ \A a \in DOMAIN heap : g[a] = heap[a]
    <3>1. /\ ShapeIn(g, r) /\ r \in DOMAIN g /\ ~g[r].leaf /\ g[r].buffer = NoMsgs
          /\ Len(g[r].children) = 1 /\ g[r].children[1] = root
          /\ DOMAIN g = DOMAIN heap \cup {r} /\ r \notin DOMAIN heap
          /\ \A a \in DOMAIN heap : g[a] = heap[a]
      BY ONLY ShapeIn(heap, root), <2>2, GrownShape
    <3> QED
      BY <3>1
  <2>4. first \in 1..Len(g[r].children) /\ Overfull(g[g[r].children[first]])
    BY <2>1, <2>3 DEF ShapeIn, LevelsIn
  <2> HIDE DEF first
  <2>5. ShapeIn(splitChild(g, r, first), r)
    BY ONLY <2>3, <2>4, SplitShape
  <2> QED
    BY <2>1, <2>5
<1> QED
  BY <1>0, <1>1, <1>2

(* With IInv, the inductive invariant. *)
Shape == ShapeIn(heap, root)

(* Every step keeps the shape. *)
LEMMA NextShape ==
  ASSUME IInv, IInv', ShapeIn(heap, root), [Next]_vars
  PROVE  ShapeIn(heap', root')
<1>1. CASE \/ \E k \in Key, v \in Puts : Put(k, v) \/ PutIfAbsent(k, v)
           \/ \E k \in Key : Delete(k)
           \/ \E r \in Ranges : DeleteRange(r[1], r[2])
           \/ \E k \in Key, f \in Fns : Upsert(k, f)
  <2>1. RootWritten
    BY ONLY <1>1, IInv, IInv', WritesRoot
  <2> QED
    BY <2>1, WritesShape
<1>2. CASE Clear
  <2>1. heap' = [a \in {<<0, 0>>} |-> newLeaf] /\ root' = <<0, 0>>
    BY <1>2 DEF Clear
  <2> QED
    BY <2>1, SingleLeafShape
<1>3. CASE FlushToLeaf \/ FlushToBuffer
  BY ONLY <1>3, IInv, ShapeIn(heap, root), FlushShape
<1>4. CASE SplitChild \/ SplitRoot
  BY ONLY <1>4, IInv, ShapeIn(heap, root), SplitStepShape
<1>5. CASE Unlock \/ UNCHANGED vars
  <2>1. UNCHANGED <<heap, root>>
    BY <1>5 DEF Unlock, tree, vars
  <2> QED
    BY <2>1
<1> QED
  BY <1>1, <1>2, <1>3, <1>4, <1>5, Zenon DEF Next, Continue

(***************************************************************************)
(* In every state of every instance every entry and every buffered message *)
(* is on the path that findChildIndex takes for its key, all leaves are    *)
(* equally deep, and no node is lost or shared: flushes and splits         *)
(* (flush.go:24-62, 370-442) keep the search tree, also between the steps  *)
(* of a cascade.                                                           *)
(***************************************************************************)
THEOREM SearchTreeKept == Spec => []SearchTree
<1>1. Init => IInv /\ Shape
  BY InitIInv, SingleLeafShape DEF Init, Shape
<1>2. IInv /\ Shape /\ [Next]_vars => (IInv /\ Shape)'
  BY NextIInv, NextShape DEF Shape
<1>3. IInv /\ Shape => SearchTree
  BY ShapeOfHeap DEF Shape
<1> QED
  BY <1>1, <1>2, <1>3, PTL DEF Spec

-----------------------------------------------------------------------------
(* The number of children. *)

(* The one node that may have a child too many is the one that is to be    *)
(* looked at next: the child the call on top names, or the root.           *)
NextToSplit(a) ==
  /\ todo # <<>>
  /\ \/ todo[1].do = "checkRoot" /\ a = root
     \/ todo[1].do = "checkChild" /\ a = heap[todo[1].node].children[todo[1].idx]

FanoutInv ==
  \A a \in DOMAIN heap :
    \/ Len(heap[a].children) <= fanout
    \/ Len(heap[a].children) = fanout + 1 /\ NextToSplit(a)

(* When nothing is to be looked at, all nodes are within the fanout. *)
LEMMA FanoutAtRest ==
  ASSUME FanoutInv, todo = <<>> \/ todo[1].do = "flushNode"
  PROVE  \A a \in DOMAIN heap : Len(heap[a].children) <= fanout
BY DEF FanoutInv, NextToSplit

(* Children are counted by natural numbers. *)
LEMMA ChildCount ==
  ASSUME NEW h, NEW r, ShapeIn(h, r), NEW a \in DOMAIN h
  PROVE  Len(h[a].children) \in Nat /\ (h[a].leaf => Len(h[a].children) = 0)
<1>1. h[a] \in LeafNode \cup InternalNode
  BY DEF ShapeIn, HeapOK
<1>2. h[a].children \in Seq(Addr) /\ (h[a].leaf => h[a] \in LeafNode)
  BY <1>1, NodeKinds
<1>3. h[a] \in LeafNode => Len(h[a].children) = 0
  BY DEF LeafNode
<1> QED
  BY <1>2, <1>3, LenProperties

(* A split gives its parent one child more, and halves the one it splits. *)
LEMMA SplitCounts ==
  ASSUME NEW h, NEW rt, ShapeIn(h, rt), NEW p \in DOMAIN h, ~h[p].leaf,
         NEW i \in 1..Len(h[p].children), NEW c, c = h[p].children[i],
         Overfull(h[c]), NEW g, g = splitChild(h, p, i),
         Len(h[c].children) <= fanout + 1
  PROVE  /\ p \in DOMAIN g /\ Len(g[p].children) = Len(h[p].children) + 1
         /\ \A a \in DOMAIN g \ {p} :
              \/ Len(g[a].children) <= fanout
              \/ a \in DOMAIN h /\ a # c /\ Len(g[a].children) = Len(h[a].children)
<1>1. \E q, x, r : SplitAt(g, h, p, i, q, x, r)
  BY SplitEffect
<1>2. PICK q, x, r : SplitAt(g, h, p, i, q, x, r)
  BY <1>1
<1>3. /\ x = c /\ DOMAIN g = DOMAIN h \cup {r}
      /\ Len(g[p].children) = Len(h[p].children) + 1
      /\ \A a \in DOMAIN h \ {p, c} : g[a] = h[a]
      /\ h[c].leaf => Len(g[c].children) = 0 /\ Len(g[r].children) = 0
      /\ ~h[c].leaf => \E mid \in Nat :
           /\ mid >= 1 /\ mid + 1 <= Len(h[c].pivots)
           /\ LowerHalf(g[c], h[c], mid) /\ UpperHalf(g[r], h[c], mid)
  BY <1>2 DEF SplitAt
<1>4. c \in DOMAIN h
  BY <1>2, <1>3, SplitNodes
<1>5. Len(g[c].children) <= fanout /\ Len(g[r].children) <= fanout
  <2>1. CASE h[c].leaf
    BY <1>3, <2>1, ConstantsAssumption
  <2>2. CASE ~h[c].leaf
    <3> DEFINE n == Len(h[c].pivots)
    <3>1. n \in Nat /\ n + 1 <= fanout + 1
      BY <1>4, <2>2, NodeShape
    <3>2. PICK mid \in Nat :
            /\ mid >= 1 /\ mid + 1 <= n
            /\ LowerHalf(g[c], h[c], mid) /\ UpperHalf(g[r], h[c], mid)
      BY <1>3, <2>2
    <3>3. Len(g[c].children) = mid + 1 /\ Len(g[r].children) = n - mid
      BY <3>2 DEF LowerHalf, UpperHalf
    <3> HIDE DEF n
    <3> QED
      BY <3>1, <3>2, <3>3, ConstantsAssumption
  <2> QED
    BY <2>1, <2>2
<1> QED
  BY <1>3, <1>5

(***************************************************************************)
(* After the check of a child only its parent can have too many children,  *)
(* and that is checked next.                                               *)
(***************************************************************************)
LEMMA SplitChildFanout ==
  ASSUME IInv, IInv', Shape, FanoutInv, SplitChild
  PROVE  FanoutInv'
<1> DEFINE p == todo[1].node
           i == todo[1].idx
           c == heap[p].children[i]
<1>1. /\ todo \in Seq(Frame) /\ Len(todo) \in Nat /\ Len(todo) >= 1 /\ Head(todo) = todo[1]
  <2>1. todo \in Seq(Frame)
    BY ONLY IInv DEF IInv, TypeOK
  <2>2. todo # <<>>
    BY ONLY SplitChild DEF SplitChild, Top
  <2> QED
    BY ONLY <2>1, <2>2, EmptySeq, LenProperties, SMT
<1>2. /\ todo[1].do = "checkChild" /\ todo' = Tail(todo) /\ root' = root
      /\ heap' = IF Overfull(heap[c]) THEN splitChild(heap, p, i) ELSE heap
  BY <1>1 DEF SplitChild, Top
<1>3. /\ p \in DOMAIN heap /\ ~heap[p].leaf /\ i \in 1..Len(heap[p].children)
      /\ Len(todo) # 1
  <2>1. CallsValid
    BY ONLY IInv DEF IInv
  <2>2. 1 \in 1..Len(todo) /\ todo[1].do = "checkChild"
    BY ONLY <1>1, <1>2
  <2> QED
    BY ONLY <2>1, <2>2 DEF CallsValid
<1>4. /\ p \in Addr /\ p[1] \in Nat /\ c \in DOMAIN heap /\ c[1] = p[1] - 1
  BY <1>3 DEF Shape, ShapeIn, HeapOK, Addr
<1>5. c # p
  BY <1>4
<1>6. \A a \in DOMAIN heap : a # c => Len(heap[a].children) <= fanout
  BY <1>2 DEF FanoutInv, NextToSplit
<1>7. Len(heap[c].children) \in Nat /\ Len(heap[c].children) <= fanout + 1
      /\ (heap[c].leaf => Len(heap[c].children) = 0)
  <2>1. Len(heap[c].children) \in Nat /\ (heap[c].leaf => Len(heap[c].children) = 0)
    BY <1>4, ChildCount DEF Shape
  <2>2. Len(heap[c].children) <= fanout \/ Len(heap[c].children) = fanout + 1
    BY <1>4 DEF FanoutInv
  <2> DEFINE n == Len(heap[c].children)
  <2>3. n \in Nat /\ fanout \in Nat /\ (n <= fanout \/ n = fanout + 1)
    BY <2>1, <2>2, ConstantsAssumption
  <2> HIDE DEF n
  <2>4. n <= fanout + 1
    BY ONLY <2>3
  <2> QED
    BY <2>1, <2>4 DEF n
<1>l. Len(todo) >= 2
  <2> DEFINE n == Len(todo)
  <2>1. n \in Nat /\ n >= 1 /\ n # 1
    BY <1>1, <1>3
  <2> HIDE DEF n
  <2>2. n >= 2
    BY ONLY <2>1
  <2> QED
    BY <2>2 DEF n
<1>8. /\ todo' # <<>> /\ todo'[1] = todo[2]
  <2>1. todo # <<>>
    BY <1>1, EmptySeq
  <2>2. /\ Tail(todo) \in Seq(Frame) /\ Len(Tail(todo)) = Len(todo) - 1
        /\ \A j \in 1..Len(Tail(todo)) : Tail(todo)[j] = todo[j+1]
    BY <1>1, <2>1, HeadTailProperties
  <2>3. 1 \in 1..Len(Tail(todo)) /\ 1 + 1 = 2
    <3> DEFINE n == Len(todo)
               m == Len(Tail(todo))
    <3>1. n \in Nat /\ n >= 2 /\ m = n - 1
      BY <1>1, <1>l, <2>2
    <3> HIDE DEF n, m
    <3>2. 1 \in 1..m
      BY <3>1
    <3> QED
      BY <3>2 DEF m
  <2>4. Tail(todo)[1] = todo[2]
    BY <2>2, <2>3
  <2>5. Tail(todo) # <<>>
    <3>1. Len(<<>>) = 0 /\ 1 \notin 1..0
      OBVIOUS
    <3> QED
      BY <2>3, <3>1
  <2> QED
    BY <1>2, <2>4, <2>5
<1> HIDE DEF p, i, c
<1>9. CASE ~Overfull(heap[c])
  <2>1. heap' = heap
    BY <1>2, <1>9
  <2>2. Len(heap[c].children) <= fanout
    BY <1>7, <1>9, ConstantsAssumption DEF Overfull
  <2> QED
    BY <1>6, <2>1, <2>2 DEF FanoutInv
<1>10. CASE Overfull(heap[c])
  <2>1. heap' = splitChild(heap, p, i) /\ c = heap[p].children[i] /\ ShapeIn(heap, root)
    BY <1>2, <1>10 DEF c, Shape
  <2>2. /\ p \in DOMAIN heap' /\ Len(heap'[p].children) = Len(heap[p].children) + 1
        /\ \A a \in DOMAIN heap' \ {p} :
             \/ Len(heap'[a].children) <= fanout
             \/ a \in DOMAIN heap /\ a # c /\ Len(heap'[a].children) = Len(heap[a].children)
    BY ONLY <1>3, <1>7, <1>10, <2>1, SplitCounts
  <2>3. \A a \in DOMAIN heap' \ {p} : Len(heap'[a].children) <= fanout
    BY <1>6, <2>2
  <2>4. Len(heap'[p].children) <= fanout \/ Len(heap'[p].children) = fanout + 1
    <3>1. Len(heap[p].children) \in Nat
      BY <1>3, ChildCount DEF Shape
    <3> QED
      BY <1>3, <1>5, <1>6, <2>2, <3>1, ConstantsAssumption
  <2>5. /\ todo' # <<>>
        /\ \/ todo'[1].do = "checkRoot" /\ p = root'
           \/ todo'[1].do = "checkChild" /\ p = heap'[todo'[1].node].children[todo'[1].idx]
    <3>1. 2 \in 1..Len(todo) /\ 2 \in Nat
      BY <1>1, <1>l
    <3>2. CASE Len(todo) = 2
      <4>1. todo[2].do = "checkRoot" /\ p = root
        BY <3>1, <3>2 DEF IInv, CallsValid, p
      <4>2. todo'[1].do = "checkRoot" /\ p = root'
        BY <1>2, <1>8, <4>1
      <4> QED
        BY <1>8, <4>2
    <3>3. CASE Len(todo) # 2
      <4> DEFINE t == todo[2].node
                 j == todo[2].idx
                 two == 2
      <4>1. two \in Nat /\ two >= 2 /\ two < Len(todo) /\ todo[1].node \in DOMAIN heap
        <5>1. 2 < Len(todo)
          <6> DEFINE n == Len(todo)
          <6>1. n \in Nat /\ n >= 2 /\ n # 2
            BY <1>1, <1>l, <3>3
          <6> HIDE DEF n
          <6>2. 2 < n
            BY ONLY <6>1
          <6> QED
            BY <6>2 DEF n
        <5> QED
          BY <1>3, <5>1 DEF p
      <4>2. /\ todo[2].do = "checkChild" /\ t \in DOMAIN heap /\ t[1] > p[1]
        <5> HIDE DEF two
        <5>1. /\ todo[two].do = "checkChild" /\ todo[two].node \in DOMAIN heap
              /\ todo[two].node[1] > todo[1].node[1]
          BY ONLY IInv, <4>1, StackLevels
        <5> QED
          BY <5>1 DEF two, p
      <4>3. heap[t].children[j] = p
        BY <3>1, <4>2 DEF IInv, CallsValid, p
      <4>4. heap'[t] = heap[t]
        <5>1. HeapOK(heap) /\ Overfull(heap[heap[p].children[i]])
          BY <1>10, <2>1 DEF Shape, ShapeIn
        <5>2. \A a \in DOMAIN heap : a[1] > p[1] => splitChild(heap, p, i)[a] = heap[a]
          BY ONLY <1>3, <5>1, SplitHeap
        <5> QED
          BY <2>1, <4>2, <5>2
      <4>5. heap'[t].children[j] = p /\ todo'[1].do = "checkChild"
            /\ t = todo'[1].node /\ j = todo'[1].idx
        BY <1>8, <4>2, <4>3, <4>4
      <4> QED
        BY <1>8, <4>5
    <3> QED
      BY <3>2, <3>3
  <2> QED
    BY <2>3, <2>4, <2>5 DEF FanoutInv, NextToSplit
<1> QED
  BY <1>9, <1>10

(***************************************************************************)
(* After the check of the root no node has too many children.              *)
(***************************************************************************)
LEMMA SplitRootFanout ==
  ASSUME IInv, IInv', Shape, FanoutInv, SplitRoot
  PROVE  FanoutInv'
<1> DEFINE r == <<root[1] + 1, 0>>
           g == Grown(heap, root, r)
           first == 1
<1>1. /\ todo \in Seq(Frame) /\ Len(todo) \in Nat /\ Len(todo) >= 1 /\ Head(todo) = todo[1]
  BY EmptySeq, LenProperties, SMT DEF IInv, TypeOK, SplitRoot, Top
<1>2. /\ todo[1].do = "checkRoot"
      /\ \/ /\ Overfull(heap[root])
            /\ root' = r
            /\ heap' = splitChild(g, r, first)
         \/ ~Overfull(heap[root]) /\ UNCHANGED <<heap, root>>
  BY <1>1 DEF SplitRoot, Top, Grown
<1>3. \A a \in DOMAIN heap : a # root => Len(heap[a].children) <= fanout
  BY <1>2 DEF FanoutInv, NextToSplit
<1>4. /\ root \in DOMAIN heap /\ Len(heap[root].children) \in Nat
      /\ (heap[root].leaf => Len(heap[root].children) = 0)
      /\ Len(heap[root].children) <= fanout + 1
  <2>1. root \in DOMAIN heap
    BY DEF IInv, TypeOK
  <2>2. Len(heap[root].children) \in Nat /\ (heap[root].leaf => Len(heap[root].children) = 0)
    BY <2>1, ChildCount DEF Shape
  <2>3. Len(heap[root].children) <= fanout \/ Len(heap[root].children) = fanout + 1
    BY <2>1 DEF FanoutInv
  <2> QED
    BY <2>1, <2>2, <2>3, ConstantsAssumption
<1>5. CASE ~Overfull(heap[root]) /\ UNCHANGED <<heap, root>>
  <2>1. Len(heap[root].children) <= fanout
    BY <1>4, <1>5, ConstantsAssumption DEF Overfull
  <2> QED
    BY <1>3, <1>5, <2>1 DEF FanoutInv
<1>6. CASE /\ Overfull(heap[root])
           /\ root' = r
           /\ heap' = splitChild(g, r, first)
  <2>2. r \in Addr /\ r[1] = root[1] + 1 /\ r[2] = 0 /\ g = Grown(heap, root, r)
    <3>1. root \in Addr
      BY DEF IInv, TypeOK
    <3> QED
      BY <3>1 DEF Addr
  <2> HIDE DEF r, g
  <2>3. /\ ShapeIn(g, r) /\ r \in DOMAIN g /\ ~g[r].leaf /\ g[r].buffer = NoMsgs
        /\ Len(g[r].children) = 1 /\ g[r].children[1] = root
        /\ DOMAIN g = DOMAIN heap \cup {r} /\ r \notin DOMAIN heap
        /\ \A a \in DOMAIN heap : g[a] = heap[a]
    <3>1. ShapeIn(heap, root)
      BY DEF Shape
    <3> QED
      BY ONLY <2>2, <3>1, GrownShape
  <2>4. /\ first \in 1..Len(g[r].children) /\ root = g[r].children[first]
        /\ Overfull(g[root]) /\ Len(g[root].children) <= fanout + 1
    BY <1>4, <1>6, <2>3
  <2> HIDE DEF first
  <2>5. /\ r \in DOMAIN heap' /\ Len(heap'[r].children) = Len(g[r].children) + 1
        /\ \A a \in DOMAIN heap' \ {r} :
             \/ Len(heap'[a].children) <= fanout
             \/ a \in DOMAIN g /\ a # root /\ Len(heap'[a].children) = Len(g[a].children)
    <3> DEFINE h == heap'
               c == root
    <3>1. /\ h = splitChild(g, r, first) /\ ShapeIn(g, r) /\ r \in DOMAIN g /\ ~g[r].leaf
          /\ first \in 1..Len(g[r].children) /\ c = g[r].children[first]
          /\ Overfull(g[c]) /\ Len(g[c].children) <= fanout + 1
      BY <1>6, <2>3, <2>4
    <3> HIDE DEF h, c
    <3>2. /\ r \in DOMAIN h /\ Len(h[r].children) = Len(g[r].children) + 1
          /\ \A a \in DOMAIN h \ {r} :
               \/ Len(h[a].children) <= fanout
               \/ a \in DOMAIN g /\ a # c /\ Len(h[a].children) = Len(g[a].children)
      BY ONLY <3>1, SplitCounts
    <3> QED
      BY <3>2 DEF h, c
  <2>6. Len(heap'[r].children) <= fanout
    BY <2>3, <2>5, ConstantsAssumption
  <2>7. \A a \in DOMAIN heap' : Len(heap'[a].children) <= fanout
    BY <1>3, <2>3, <2>5, <2>6
  <2> QED
    BY <2>7 DEF FanoutInv
<1> QED
  BY <1>2, <1>5, <1>6

(* Every step keeps the bound. *)
LEMMA NextFanout ==
  ASSUME IInv, IInv', Shape, FanoutInv, [Next]_vars
  PROVE  FanoutInv'
<1>1. CASE \/ \E k \in Key, v \in Puts : Put(k, v) \/ PutIfAbsent(k, v)
           \/ \E k \in Key : Delete(k)
           \/ \E r \in Ranges : DeleteRange(r[1], r[2])
           \/ \E k \in Key, f \in Fns : Upsert(k, f)
  <2>1. RootWritten
    BY ONLY <1>1, IInv, IInv', WritesRoot
  <2>2. todo = <<>>
    BY <2>1 DEF RootWritten, IInv, CallsValid
  <2>3. \A a \in DOMAIN heap : Len(heap[a].children) <= fanout
    BY <2>2, FanoutAtRest
  <2> QED
    BY <2>1, <2>3 DEF FanoutInv, RootWritten, SameNodes
<1>2. CASE Clear
  <2>1. \A a \in DOMAIN heap' : Len(heap'[a].children) = 0
    BY <1>2 DEF Clear, newLeaf
  <2> QED
    BY <2>1, ConstantsAssumption DEF FanoutInv
<1>3. CASE FlushToLeaf \/ FlushToBuffer
  <2> DEFINE p == Head(todo).node
             i == heaviest(heap[p])
             c == heap[p].children[i]
  <2>0. Top("flushNode")
    BY <1>3 DEF FlushToLeaf, FlushToBuffer
  <2>1. p = Head(todo).node /\ i = heaviest(heap[p]) /\ c = heap[p].children[i]
    OBVIOUS
  <2> HIDE DEF p, i, c
  <2>2. todo[1].do = "flushNode"
    BY ONLY IInv, <2>0, <2>1, FlushPair
  <2>3. \A a \in DOMAIN heap : Len(heap[a].children) <= fanout
    BY <2>2, FanoutAtRest
  <2>4. SameNodes(heap', heap)
    <3>1. LeafGotBatch(p, i, c) \/ BufferGotBatch(p, i, c)
      BY ONLY IInv, <1>3, <2>1, FlushToLeafEffect, FlushToBufferEffect
    <3> QED
      BY ONLY <3>1 DEF LeafGotBatch, BufferGotBatch
  <2> QED
    BY <2>3, <2>4 DEF FanoutInv, SameNodes
<1>4. CASE SplitChild
  BY <1>4, SplitChildFanout
<1>5. CASE SplitRoot
  BY <1>5, SplitRootFanout
<1>6. CASE Unlock
  <2>1. todo = <<>> /\ heap' = heap
    BY <1>6 DEF Unlock, tree
  <2> QED
    BY <2>1, FanoutAtRest DEF FanoutInv
<1>7. CASE UNCHANGED vars
  BY <1>7 DEF vars, FanoutInv, NextToSplit
<1> QED
  BY <1>1, <1>2, <1>3, <1>4, <1>5, <1>6, <1>7, Zenon DEF Next, Continue

(***************************************************************************)
(* In every state of every instance in which no write is running, no node  *)
(* has more than fanout children (options.go:68): a flush can split a      *)
(* child at every level, and each time the parent is looked at right after *)
(* it, before anything else can add to it (flush.go:55-62).                *)
(***************************************************************************)
THEOREM FanoutKept == Spec => []FanoutBound
<1>1. Init => IInv /\ Shape /\ FanoutInv
  <2>1. Init => FanoutInv
    BY ConstantsAssumption DEF Init, FanoutInv, newLeaf
  <2> QED
    BY <2>1, InitIInv, SingleLeafShape DEF Init, Shape
<1>2. IInv /\ Shape /\ FanoutInv /\ [Next]_vars => (IInv /\ Shape /\ FanoutInv)'
  <2>1. IInv /\ Shape /\ [Next]_vars => (IInv /\ Shape)'
    BY NextIInv, NextShape DEF Shape
  <2> QED
    BY <2>1, NextFanout
<1>3. IInv /\ FanoutInv => FanoutBound
  BY FanoutAtRest DEF FanoutBound, IInv, CallsValid
<1> QED
  BY <1>1, <1>2, <1>3, PTL DEF Spec
=============================================================================
