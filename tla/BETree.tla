------------------------------- MODULE BETree -------------------------------
(***************************************************************************)
(* The in-memory B-epsilon-tree: tree.go, node.go, flush.go.               *)
(*                                                                         *)
(* A write runs under the tree's write lock.  Its first step does what the *)
(* operation does before flushing; when that leaves work behind (a flush,  *)
(* a split that must be looked at on the way back up), the rest of the     *)
(* call tree is in todo, innermost call first, and is executed one step    *)
(* per flushNode or split.  Until todo is empty and the lock is released   *)
(* nothing else is enabled, so the cascade is part of the operation.       *)
(*                                                                         *)
(* Data abstraction.  Keys are positive integers in comparator order.  A   *)
(* leaf's parallel arrays keys/values are the function kv; a buffer is     *)
(* kept as one message sequence per key, oldest first, since no operation  *)
(* of the tree tells two orders of messages of different keys apart.       *)
(* bufferSorted and flushBuckets only make reading and partitioning a      *)
(* buffer cheaper and are left out.  Go pointers are the addresses         *)
(* <<level, lowest key>>, with leaves on level 0: a node keeps its address *)
(* for life and the address of a new node is not in use.                   *)
(***************************************************************************)
EXTENDS Messages, FiniteSets, SequencesExt

CONSTANTS
  Key,       \* the keys
  Puts,      \* the values Put and PutIfAbsent are called with
  Ranges,    \* the pairs <<lo, hi>> DeleteRange is called with
  fanout,    \* treeParams.fanout: children of an internal node
  bufferCap, \* treeParams.bufferCap: messages in a buffer
  leafCap,   \* treeParams.leafCap: entries of a leaf
  smallBatch \* applyToLeaf's threshold, 3 in the code

ASSUME ConstantsAssumption ==
  /\ Key \subseteq Nat \ {0} /\ IsFiniteSet(Key)
  /\ Puts \subseteq Value
  /\ Ranges \subseteq Nat \X Nat
  /\ fanout \in Nat /\ fanout >= 2
  /\ bufferCap \in Nat /\ bufferCap >= 1
  /\ leafCap \in Nat /\ leafCap >= 2
  /\ smallBatch \in Nat

VARIABLES
  heap,           \* the nodes, by address
  root,           \* t.root
  size,           \* t.size, what Len returns
  pendingDeletes, \* t.pendingDeletes
  locked,         \* TRUE while a writer holds t.mu
  result,         \* what the running operation will report
  todo            \* the calls the writer has yet to make, next one first

tree == <<heap, root, size, pendingDeletes>>
vars == <<heap, root, size, pendingDeletes, locked, result, todo>>

-----------------------------------------------------------------------------
(* Nodes. *)

NoMsgs == [k \in Key |-> <<>>]
NoKeys == [k \in Key |-> Absent]

newLeaf ==
  [leaf |-> TRUE, pivots |-> <<>>, children |-> <<>>,
   buffer |-> NoMsgs, kv |-> NoKeys]

Internal(pivots, children, buffer) ==
  [leaf |-> FALSE, pivots |-> pivots, children |-> children,
   buffer |-> buffer, kv |-> NoKeys]

(* What a node holds: a leaf's keys, a buffer's messages by key and index. *)
KeysOf(n) == {k \in Key : n.kv[k] # Absent}
Slots(buf) == UNION {{k} \X DOMAIN buf[k] : k \in Key}
At(buf, s) == buf[s[1]][s[2]]
NumMsgs(buf) == Cardinality(Slots(buf))
Deletes(buf) == {s \in Slots(buf) : At(buf, s).kind = "del"}
Upserts(buf) == {s \in Slots(buf) : At(buf, s).kind = "ups"}
Counted(buf) ==
  {s \in Slots(buf) : At(buf, s).kind = "put" /\ At(buf, s).counted}

(* The child a key is routed to: the first whose upper pivot exceeds it. *)
findChildIndex_PivotGoesLeft(n, k) ==
  CHOOSE i \in 1..Len(n.pivots) + 1 :
    /\ \A j \in 1..i-1 : n.pivots[j] < k
    /\ i <= Len(n.pivots) => k <= n.pivots[i]

findChildIndex(n, k) ==
  CHOOSE i \in 1..Len(n.pivots) + 1 :
    /\ \A j \in 1..i-1 : n.pivots[j] <= k
    /\ i <= Len(n.pivots) => k < n.pivots[i]

ChildFor(n, k) == n.children[findChildIndex(n, k)]

-----------------------------------------------------------------------------
(* Reads. *)

(***************************************************************************)
(* getFromNode / getWithUpserts: from the root down, and in a node from    *)
(* the newest message back to the first that is not an upsert; that one,   *)
(* the child or the leaf decides the value.  applyUpsertChain applies the  *)
(* upserts passed on the way, oldest first: those of the nodes below, then *)
(* this node's.                                                            *)
(***************************************************************************)
applyUpsertChain(ups, base) == IF ups = <<>> THEN base ELSE After(ups, base)

getFromNode(k) ==
  LET get[n \in DOMAIN heap] ==
        LET msgs == heap[n].buffer[k]
            stop == Max({0} \cup {i \in DOMAIN msgs : msgs[i].kind # "ups"})
        IN  IF heap[n].leaf THEN heap[n].kv[k]
            ELSE applyUpsertChain(SubSeq(msgs, stop + 1, Len(msgs)),
                                  IF stop = 0 THEN get[ChildFor(heap[n], k)]
                                  ELSE Apply(msgs[stop], Absent))
  IN  get[root]

(* existsInLeaf: only the leaf is asked, no buffer. *)
existsInLeaf(k) ==
  LET exists[n \in DOMAIN heap] ==
        IF heap[n].leaf THEN heap[n].kv[k] # Absent
                        ELSE exists[ChildFor(heap[n], k)]
  IN  exists[root]

(* collectAll and collectRange: the nodes they visit. *)
collectAll == DOMAIN heap

childrenIn_HiExcluded(n, lo, hi) ==
  findChildIndex(n, lo)..findChildIndex(n, hi) - 1

childrenIn(n, lo, hi) == findChildIndex(n, lo)..findChildIndex(n, hi)

collectRange(lo, hi) ==
  LET visit[n \in DOMAIN heap] ==
        IF heap[n].leaf THEN {n}
        ELSE {n} \cup UNION {visit[heap[n].children[i]] :
                               i \in childrenIn(heap[n], lo, hi)}
  IN  visit[root]

(***************************************************************************)
(* resolveKeyEntries: a key's entries in the visited nodes up to level     *)
(* top, from the deepest to the shallowest and oldest first on a level.    *)
(* SearchTree below says that one node of a level at most has entries for  *)
(* the key, and that its level is its distance from the leaves.            *)
(***************************************************************************)
resolveKeyEntries(visited, k, top) ==
  LET holds(l) == {n \in visited : n[1] = l /\
                     (heap[n].kv[k] # Absent \/ heap[n].buffer[k] # <<>>)}
      up[l \in -1..top] ==
        IF l = -1 THEN Absent
        ELSE IF holds(l) = {} THEN up[l-1]
        ELSE LET n == CHOOSE x \in holds(l) : TRUE
             IN  IF heap[n].leaf THEN heap[n].kv[k]
                 ELSE After(heap[n].buffer[k], up[l-1])
  IN  up[top]

(* resolveEntries: the live keys among ks, with their values. *)
resolveEntries(visited, ks) ==
  LET val == [k \in ks |-> resolveKeyEntries(visited, k, root[1])]
  IN  [k \in {x \in ks : val[x] # Absent} |-> val[k]]

materializeAll == resolveEntries(collectAll, Key)

materializeRange(lo, hi) ==
  IF lo >= hi THEN <<>>
  ELSE resolveEntries(collectRange(lo, hi), {k \in Key : lo <= k /\ k < hi})

materializeDescendRange(hi, lo) ==
  IF lo >= hi THEN <<>>
  ELSE resolveEntries(collectRange(lo, hi), {k \in Key : lo < k /\ k <= hi})

-----------------------------------------------------------------------------
(* Writes, up to the point where they start to flush or split. *)

leafInsert(n, k, v) == [n EXCEPT !.kv[k] = v]
leafDelete(n, k) == [n EXCEPT !.kv[k] = Absent]
appendToBuffer(n, k, m) == [n EXCEPT !.buffer[k] = Append(@, m)]

One(cond) == IF cond THEN 1 ELSE 0

(* Calls still to be made. *)
FlushNode(n) == [do |-> "flushNode", node |-> n, idx |-> 0]
CheckChild(n, i) == [do |-> "checkChild", node |-> n, idx |-> i]
CheckRoot == [do |-> "checkRoot", node |-> <<0, 0>>, idx |-> 0]

(* What follows a write that left the root as n. *)
IfOverfull(n) ==
  IF NumMsgs(n.buffer) > bufferCap THEN <<FlushNode(root), CheckRoot>> ELSE <<>>

(* A write takes the lock, changes the root node and the counters. *)
Write(newRoot, sizeChange, deletes, answer, work) ==
  /\ ~locked
  /\ locked' = TRUE
  /\ heap' = [heap EXCEPT ![root] = newRoot]
  /\ size' = size + sizeChange
  /\ pendingDeletes' = pendingDeletes + deletes
  /\ result' = answer
  /\ todo' = work
  /\ UNCHANGED root

Buffer(newRoot, sizeChange, deletes, answer) ==
  Write(newRoot, sizeChange, deletes, answer, IfOverfull(newRoot))

NoWrite(answer) == Write(heap[root], 0, 0, answer, <<>>)

(* putLocked's guess whether a buffered put adds a key. *)
isNew_NoSlowPath(k) == ~existsInLeaf(k)

isNew(k) ==
  IF pendingDeletes > 0 THEN getFromNode(k) = Absent ELSE ~existsInLeaf(k)

putLocked(k, v, knownNew, answer) ==
  LET n == heap[root]
      new == knownNew \/ isNew(k)
  IN  \/ /\ n.leaf
         /\ Write(leafInsert(n, k, v), One(n.kv[k] = Absent), 0, answer,
                  <<CheckRoot>>)
      \/ /\ ~n.leaf
         /\ Buffer(appendToBuffer(n, k, MsgPut(v, new)), One(new), 0, answer)

Put(k, v) == putLocked(k, v, FALSE, 0)

PutIfAbsent(k, v) ==
  \/ getFromNode(k) # Absent /\ NoWrite(0)
  \/ getFromNode(k) = Absent /\ putLocked(k, v, TRUE, 1)

(* deleteLocked's test that there is something to delete. *)
found_OnlyInLeaf(k) == existsInLeaf(k)

found(k) == getFromNode(k) # Absent

deleteLocked(k) ==
  LET n == heap[root]
  IN  \/ ~found(k) /\ NoWrite(0)
      \/ /\ found(k) /\ n.leaf
         /\ Write(leafDelete(n, k), -1, 0, 1, <<>>)
      \/ /\ found(k) /\ ~n.leaf
         /\ Buffer(appendToBuffer(n, k, MsgDelete), -1, 1, 1)

Delete(k) == deleteLocked(k)

(* DeleteRange: one MsgDelete for every live key of [lo, hi). *)
DeleteRange(lo, hi) ==
  LET n == heap[root]
      live == DOMAIN materializeRange(lo, hi)
      count == Cardinality(live)
      buf == [k \in Key |->
                IF k \in live THEN Append(n.buffer[k], MsgDelete)
                               ELSE n.buffer[k]]
      kv == [k \in Key |-> IF k \in live THEN Absent ELSE n.kv[k]]
  IN  \/ live = {} /\ NoWrite(0)
      \/ /\ live # {} /\ n.leaf
         /\ Write([n EXCEPT !.kv = kv], -count, 0, count, <<>>)
      \/ /\ live # {} /\ ~n.leaf
         /\ Buffer([n EXCEPT !.buffer = buf], -count, count, count)

Upsert(k, f) ==
  LET n == heap[root]
  IN  \/ /\ n.leaf
         /\ Write(leafInsert(n, k, f[n.kv[k]]), One(n.kv[k] = Absent), 0, 0,
                  <<CheckRoot>>)
      \/ /\ ~n.leaf
         /\ Buffer(appendToBuffer(n, k, MsgUpsert(f)), 0, 0, 0)

Clear ==
  /\ ~locked
  /\ locked' = TRUE
  /\ heap' = [a \in {<<0, 0>>} |-> newLeaf]
  /\ root' = <<0, 0>>
  /\ size' = 0
  /\ pendingDeletes' = 0
  /\ UNCHANGED <<result, todo>>

-----------------------------------------------------------------------------
(* Applying a batch of messages to a leaf. *)

(***************************************************************************)
(* applyToLeafSmall: the messages one by one.  A counted put of a key that *)
(* is there takes back its +1, an uncounted put or an upsert of a key that *)
(* is not there adds the missing one.                                      *)
(***************************************************************************)
Fresh(kv, msgs, s) == Run(msgs[s[1]], kv[s[1]])[s[2] - 1] = Absent

Missed(kv, msgs) ==
  {s \in Slots(msgs) \ Deletes(msgs) :
     s \notin Counted(msgs) /\ Fresh(kv, msgs, s)}

CountedTwice_Ignored(kv, msgs) == {}

CountedTwice(kv, msgs) == {s \in Counted(msgs) : ~Fresh(kv, msgs, s)}

applyToLeafSmall(kv, msgs) ==
  [kv |-> [k \in Key |-> After(msgs[k], kv[k])],
   sizeChange |-> Cardinality(Missed(kv, msgs))
                    - Cardinality(CountedTwice(kv, msgs))]

(***************************************************************************)
(* The batch path of applyToLeaf: one message per key is merged into the   *)
(* leaf, and size is corrected by the leaf's real growth minus what the    *)
(* puts and deletes of the batch had already added.                        *)
(***************************************************************************)
Tallied_NoDeletes(msgs) == Cardinality(Counted(msgs))

Tallied(msgs) == Cardinality(Counted(msgs)) - Cardinality(Deletes(msgs))

applyToLeafBatch(kv, msgs) ==
  LET merged == [k \in Key |->
                   IF msgs[k] = <<>> THEN kv[k]
                   ELSE Apply(resolveKeyGroup(msgs[k]), kv[k])]
      count(f) == Cardinality({k \in Key : f[k] # Absent})
  IN  [kv |-> merged,
       sizeChange |-> count(merged) - count(kv) - Tallied(msgs)]

applyToLeaf(kv, msgs) ==
  IF NumMsgs(msgs) <= smallBatch THEN applyToLeafSmall(kv, msgs)
                                 ELSE applyToLeafBatch(kv, msgs)

-----------------------------------------------------------------------------
(* flushNode: everything the heaviest child is sent goes down one level. *)

(* The messages of a buffer that are routed to child i, and the others. *)
Bucket(n, i) ==
  [k \in Key |-> IF findChildIndex(n, k) = i THEN n.buffer[k] ELSE <<>>]
Unflushed(n, i) ==
  [k \in Key |-> IF findChildIndex(n, k) = i THEN <<>> ELSE n.buffer[k]]

Load(n, i) == NumMsgs(Bucket(n, i))

(* The first of the children with the largest bucket. *)
heaviest(n) ==
  CHOOSE i \in DOMAIN n.children :
    \A j \in DOMAIN n.children :
      IF j < i THEN Load(n, j) < Load(n, i) ELSE Load(n, j) <= Load(n, i)

(* What reaches a leaf is no longer pending. *)
NumDeletes_PerKey(msgs) == Cardinality({s[1] : s \in Deletes(msgs)})

NumDeletes(msgs) == Cardinality(Deletes(msgs))

(* A child's buffer once it has received a batch: its own is older. *)
Received_BatchFirst(buf, batch) == [k \in Key |-> batch[k] \o buf[k]]

Received(buf, batch) == [k \in Key |-> buf[k] \o batch[k]]

Top(do) == todo # <<>> /\ Head(todo).do = do

FlushToLeaf ==
  /\ Top("flushNode")
  /\ LET p == Head(todo).node
         i == heaviest(heap[p])
         c == heap[p].children[i]
         batch == Bucket(heap[p], i)
         new == applyToLeaf(heap[c].kv, batch)
     IN  /\ heap[c].leaf
         /\ heap' = [heap EXCEPT ![p].buffer = Unflushed(heap[p], i),
                                 ![c].kv = new.kv]
         /\ size' = size + new.sizeChange
         /\ pendingDeletes' = pendingDeletes - NumDeletes(batch)
         /\ todo' = <<CheckChild(p, i)>> \o Tail(todo)
  /\ UNCHANGED <<root, locked, result>>

(* The calls made from flushNode(p) after child i, now c, got its batch. *)
Calls_SplitFirst(p, i, c, buf) ==
  <<CheckChild(p, i)>> \o IF NumMsgs(buf) > bufferCap THEN <<FlushNode(c)>> ELSE <<>>

Calls(p, i, c, buf) ==
  IF NumMsgs(buf) > bufferCap THEN <<FlushNode(c), CheckChild(p, i)>>
                              ELSE <<CheckChild(p, i)>>

FlushToBuffer ==
  /\ Top("flushNode")
  /\ LET p == Head(todo).node
         i == heaviest(heap[p])
         c == heap[p].children[i]
         batch == Bucket(heap[p], i)
         buf == Received(heap[c].buffer, batch)
     IN  /\ ~heap[c].leaf
         /\ heap' = [heap EXCEPT ![p].buffer = Unflushed(heap[p], i),
                                 ![c].buffer = buf]
         /\ todo' = Calls(p, i, c, buf) \o Tail(todo)
  /\ UNCHANGED <<root, size, pendingDeletes, locked, result>>

-----------------------------------------------------------------------------
(* Splits. *)

Overfull_OneLate(n) ==
  IF n.leaf THEN Cardinality(KeysOf(n)) > leafCap
            ELSE Len(n.children) > fanout + 1

Overfull(n) ==
  IF n.leaf THEN Cardinality(KeysOf(n)) > leafCap
            ELSE Len(n.children) > fanout

(* splitLeafChild: the key in the middle is the pivot and goes right. *)
splitLeaf(n) ==
  LET mid == Cardinality(KeysOf(n)) \div 2
      pivot == CHOOSE p \in KeysOf(n) :
                 Cardinality({k \in KeysOf(n) : k < p}) = mid
  IN  [pivot |-> pivot,
       left  |-> [n EXCEPT !.kv = [k \in Key |->
                                     IF k < pivot THEN @[k] ELSE Absent]],
       right |-> [n EXCEPT !.kv = [k \in Key |->
                                     IF k < pivot THEN Absent ELSE @[k]]]]

(* The children of the left half: one more than its pivots. *)
leftChildren_OneShort(n, mid) == SubSeq(n.children, 1, mid)

leftChildren(n, mid) == SubSeq(n.children, 1, mid + 1)

(* splitInternalChild: the pivot in the middle moves up to the parent. *)
splitInternal(n) ==
  LET mid == Len(n.pivots) \div 2
      pivot == n.pivots[mid + 1]
      side(low) == [k \in Key |-> IF (k < pivot) = low THEN n.buffer[k]
                                                       ELSE <<>>]
  IN  [pivot |-> pivot,
       left  |-> Internal(SubSeq(n.pivots, 1, mid),
                          leftChildren(n, mid), side(TRUE)),
       right |-> Internal(SubSeq(n.pivots, mid + 2, Len(n.pivots)),
                          SubSeq(n.children, mid + 2, Len(n.children)),
                          side(FALSE))]

(* splitChild: the heap h after child i of node p has been split. *)
splitChild(h, p, i) ==
  LET c == h[p].children[i]
      s == IF h[c].leaf THEN splitLeaf(h[c]) ELSE splitInternal(h[c])
      r == <<c[1], s.pivot>>
      parent == Internal(InsertAt(h[p].pivots, i, s.pivot),
                         InsertAt(h[p].children, i + 1, r), h[p].buffer)
  IN  [a \in DOMAIN h \cup {r} |->
         CASE a = p -> parent
           [] a = c -> s.left
           [] a = r -> s.right
           [] OTHER -> h[a]]

(* Back in flushNode(p): the child just flushed to may have to be split. *)
SplitChild ==
  /\ Top("checkChild")
  /\ LET p == Head(todo).node
         i == Head(todo).idx
     IN  heap' = IF Overfull(heap[heap[p].children[i]])
                 THEN splitChild(heap, p, i) ELSE heap
  /\ todo' = Tail(todo)
  /\ UNCHANGED <<root, size, pendingDeletes, locked, result>>

(* Back in the operation: so may the root, under a new root. *)
SplitRoot ==
  /\ Top("checkRoot")
  /\ LET r == <<root[1] + 1, 0>>
         grown == [a \in DOMAIN heap \cup {r} |->
                     IF a = r THEN Internal(<<>>, <<root>>, NoMsgs)
                              ELSE heap[a]]
     IN  \/ /\ Overfull(heap[root])
            /\ root' = r
            /\ heap' = splitChild(grown, r, 1)
         \/ /\ ~Overfull(heap[root])
            /\ UNCHANGED <<heap, root>>
  /\ todo' = Tail(todo)
  /\ UNCHANGED <<size, pendingDeletes, locked, result>>

(* The early returns of PutIfAbsent and Delete forget to unlock. *)
Unlock_OnlyOnSuccess ==
  /\ locked /\ todo = <<>>
  /\ locked' = (result = 0)
  /\ result' = 0
  /\ UNCHANGED <<tree, todo>>

Unlock ==
  /\ locked /\ todo = <<>>
  /\ locked' = FALSE
  /\ result' = 0
  /\ UNCHANGED <<tree, todo>>

-----------------------------------------------------------------------------

Init ==
  /\ heap = [a \in {<<0, 0>>} |-> newLeaf]
  /\ root = <<0, 0>>
  /\ size = 0
  /\ pendingDeletes = 0
  /\ locked = FALSE
  /\ result = 0
  /\ todo = <<>>

(* The rest of an operation, once it holds the lock. *)
Continue == FlushToLeaf \/ FlushToBuffer \/ SplitChild \/ SplitRoot \/ Unlock

Next ==
  \/ \E k \in Key, v \in Puts : Put(k, v) \/ PutIfAbsent(k, v)
  \/ \E k \in Key : Delete(k)
  \/ \E r \in Ranges : DeleteRange(r[1], r[2])
  \/ \E k \in Key, f \in Fns : Upsert(k, f)
  \/ Clear
  \/ Continue

Spec == Init /\ [][Next]_vars

(* A goroutine that holds the lock keeps running: the code never blocks. *)
FairSpec == Spec /\ WF_vars(Continue)
-----------------------------------------------------------------------------
(* Types. *)

Addr == Nat \X Nat

LeafNode == [leaf : {TRUE}, pivots : {<<>>}, children : {<<>>},
             buffer : {NoMsgs}, kv : [Key -> Opt]]

InternalNode == [leaf : {FALSE}, pivots : Seq(Key), children : Seq(Addr),
                 buffer : [Key -> Seq(Msg)], kv : {NoKeys}]

Frame == [do : {"flushNode", "checkChild", "checkRoot"},
          node : Addr, idx : Nat]

(***************************************************************************)
(* Types, and the shape of a node (node.go:9): a leaf has no pivots,       *)
(* children or messages; an internal node has no entries and one child     *)
(* more than it has pivots, whatever flushes and splits have done to it.   *)
(***************************************************************************)
TypeOK ==
  /\ root \in DOMAIN heap
  /\ \A a \in DOMAIN heap :
       /\ a \in Addr
       /\ heap[a] \in LeafNode \cup InternalNode
       /\ ~heap[a].leaf => Len(heap[a].children) = Len(heap[a].pivots) + 1
  /\ size \in Int
  /\ pendingDeletes \in Int
  /\ locked \in BOOLEAN
  /\ result \in Nat
  /\ todo \in Seq(Frame)

-----------------------------------------------------------------------------
(* The shape of the tree. *)

(* The keys of node a: from its lowest key to the next node of its level. *)
Territory(a) ==
  {k \in Key : /\ a[2] <= k
               /\ \A b \in DOMAIN heap : b[1] = a[1] /\ a[2] < b[2] => k < b[2]}

(* The lowest key of the i-th child of node a. *)
LowOf(a, i) == IF i = 1 THEN a[2] ELSE heap[a].pivots[i-1]

(* The root is alone on the top level; all leaves are on level 0. *)
Levels ==
  /\ root[2] = 0
  /\ \A a \in DOMAIN heap :
       /\ a[1] <= root[1]
       /\ a[1] = root[1] => a = root
       /\ heap[a].leaf <=> a[1] = 0

(* A node's pivots ascend, and cut its keys into those of its children. *)
Pivots ==
  \A a \in DOMAIN heap :
    LET n == heap[a]
    IN  /\ \A i \in 1..Len(n.pivots) :
             /\ n.pivots[i] \in Territory(a)
             /\ LowOf(a, i) < n.pivots[i]
        /\ \A i \in 1..Len(n.children) :
             n.children[i] = <<a[1] - 1, LowOf(a, i)>> /\
             n.children[i] \in DOMAIN heap

(* No node is lost: every one but the root is a child. *)
Reachable ==
  \A a \in DOMAIN heap \ {root} :
    \E p \in DOMAIN heap : \E i \in 1..Len(heap[p].children) :
      heap[p].children[i] = a

(* An entry or a message is only where a reader looks for its key. *)
Routed ==
  \A a \in DOMAIN heap, k \in Key :
    heap[a].kv[k] # Absent \/ heap[a].buffer[k] # <<>> => k \in Territory(a)

(***************************************************************************)
(* Every entry and every buffered message lies on the path from the root   *)
(* that findChildIndex takes for its key, and all leaves are equally deep, *)
(* also between the steps of a cascade of flushes and splits               *)
(* (flush.go:24-62, 370-442).  The depth order that iterator.go:201-206    *)
(* takes for age, and existsInLeaf's single path, rest on it.              *)
(***************************************************************************)
SearchTree == Levels /\ Pivots /\ Reachable /\ Routed

(***************************************************************************)
(* The calls still to return are sound: a flushNode was called on an       *)
(* internal node whose buffer is over capacity, so its early return        *)
(* (flush.go:9) is never taken; and the index heaviest, chosen before the  *)
(* recursive flush and used after it to split (flush.go:48-62), still      *)
(* names the child that was flushed to.                                    *)
(***************************************************************************)
CallsValid ==
  /\ ~locked => todo = <<>>
  /\ \A t \in 1..Len(todo) :
       LET f == todo[t]
       IN  /\ f.do = "checkRoot" <=> t = Len(todo)
           /\ f.do # "checkRoot" =>
                f.node \in DOMAIN heap /\ ~heap[f.node].leaf
           /\ f.do = "flushNode" =>
                t = 1 /\ NumMsgs(heap[f.node].buffer) > bufferCap
           /\ f.do = "checkChild" =>
                /\ f.idx \in 1..Len(heap[f.node].children)
                /\ t > 1 => heap[f.node].children[f.idx] = todo[t-1].node
           /\ t = Len(todo) - 1 => f.node = root

-----------------------------------------------------------------------------
(* What readers see. *)

map == [k \in Key |-> getFromNode(k)]
Live == {k \in Key : getFromNode(k) # Absent}

(***************************************************************************)
(* The two read paths agree: a scan or range scan (iterator.go:94-257)     *)
(* yields exactly the keys of its bounds that Get finds (tree.go:177-231), *)
(* with the same values, although one walks down newest first and stops    *)
(* early, and the other collects subtrees and folds them by depth.         *)
(***************************************************************************)
ScansMatchGet ==
  LET get == map
      pairs(ks) == [k \in {x \in ks : get[x] # Absent} |-> get[k]]
  IN  /\ materializeAll = pairs(Key)
      /\ \A lo, hi \in Key \cup {0} : lo < hi =>
           /\ materializeRange(lo, hi) =
                pairs({k \in Key : lo <= k /\ k < hi})
           /\ materializeDescendRange(hi, lo) =
                pairs({k \in Key : lo < k /\ k <= hi})

(***************************************************************************)
(* A buffered MsgDelete always finds its key when it gets to the leaf:     *)
(* deleteLocked and DeleteRange only buffer one for a key that was there   *)
(* (tree.go:244-249, 324-338), and nothing that is flushed ahead of it may *)
(* remove the key.  applyToLeafSmall relies on it: it ignores what         *)
(* leafDelete returns and corrects no size (flush.go:151-153).             *)
(***************************************************************************)
DeletesHit ==
  \A a \in DOMAIN heap : \A s \in Deletes(heap[a].buffer) :
    LET k == s[1]
        below == resolveKeyEntries(DOMAIN heap, k, a[1] - 1)
    IN  Run(heap[a].buffer[k], below)[s[2] - 1] # Absent

-----------------------------------------------------------------------------
(* The counters. *)

InLeaves == UNION {{a} \X KeysOf(heap[a]) : a \in DOMAIN heap}
Buffered(Kind(_)) == UNION {{a} \X Kind(heap[a].buffer) : a \in DOMAIN heap}

(***************************************************************************)
(* pendingDeletes is the number of MsgDeletes in all buffers: what         *)
(* putLocked takes it for when it chooses between existsInLeaf and         *)
(* getFromNode (tree.go:130-139).                                          *)
(***************************************************************************)
PendingDeletesExact == pendingDeletes = Cardinality(Buffered(Deletes))

(***************************************************************************)
(* size is the number of entries in leaves, plus the puts that were        *)
(* counted when they were buffered, minus the buffered deletes: the sum    *)
(* that applyToLeaf's corrections must keep (flush.go:133-137, 145-161).   *)
(***************************************************************************)
SizeAccounting ==
  size = Cardinality(InLeaves) + Cardinality(Buffered(Counted))
           - Cardinality(Buffered(Deletes))

(***************************************************************************)
(* How wrong Len can be (tree.go:271): it misses at most the upserts still *)
(* in buffers and adds at most the counted puts still in buffers.  Hence   *)
(* it is exact whenever the buffers hold neither.                          *)
(***************************************************************************)
LenWithinBuffered ==
  /\ Cardinality(Live) - Cardinality(Buffered(Upserts)) <= size
  /\ size <= Cardinality(Live) + Cardinality(Buffered(Counted))

(***************************************************************************)
(* When no write is running, no internal node has more than fanout         *)
(* children (options.go:68), although a flush may split one more child at  *)
(* every level on its way.                                                 *)
(***************************************************************************)
FanoutBound ==
  ~locked => \A a \in DOMAIN heap : Len(heap[a].children) <= fanout

(***************************************************************************)
(* The tree is an ordered map: every operation changes what Get returns    *)
(* as the abstract operation does and reports the same result, and no      *)
(* flush or split changes what any key maps to (OrderedMap).               *)
(***************************************************************************)
Abstract == INSTANCE OrderedMap WITH busy <- locked
ImplementsOrderedMap == Abstract!Spec

(***************************************************************************)
(* A write that has taken the lock releases it: the recursion of flushNode *)
(* ends (flush.go:8-64).                                                   *)
(***************************************************************************)
LockReleased == locked ~> ~locked

-----------------------------------------------------------------------------
(* What the documentation says and the code does not do. *)

(***************************************************************************)
(* "Len returns the number of key-value pairs in the tree" (tree.go:271)   *)
(* and "must return an accurate count" (docs/ADR.md:123), which the fuzz   *)
(* test asserts (fuzz_test.go:61): a second put of a key that is still     *)
(* buffered is counted again, a buffered upsert is not counted at all.     *)
(***************************************************************************)
LenExact == ~locked => size = Cardinality(Live)

(***************************************************************************)
(* "Tree should be in a consistent state (no panics, Len >= 0)"            *)
(* (stress_test.go:176): an upsert of a new key is not counted when it is  *)
(* buffered, the delete that follows it is.                                *)
(***************************************************************************)
LenNonNegative == ~locked => size >= 0

(***************************************************************************)
(* "max messages per node buffer" (options.go:69): flushNode empties one   *)
(* bucket of the buffer and its callers call it once, so a buffer that     *)
(* received many messages at a time stays above bufferCap.                 *)
(***************************************************************************)
BufferBound ==
  ~locked => \A a \in DOMAIN heap : NumMsgs(heap[a].buffer) <= bufferCap

(***************************************************************************)
(* "max entries per leaf node" (options.go:70): a leaf is split once after *)
(* a batch, however many entries the batch added.                          *)
(***************************************************************************)
LeafBound ==
  ~locked => \A a \in DOMAIN heap : Cardinality(KeysOf(heap[a])) <= leafCap
=============================================================================
