----------------------------- MODULE NodeBuffer -----------------------------
(***************************************************************************)
(* The buffer of one internal node as the array it is: node.go:24-107,     *)
(* and what flush.go does to it.                                           *)
(*                                                                         *)
(* BETree keeps one message sequence per key; the code keeps one array of  *)
(* all messages, a flag that says whether the array is known to be sorted, *)
(* and a set of buckets that is reused from flush to flush.  The node      *)
(* starts as a new root, takes writes, is flushed, splits when it has too  *)
(* many children, and goes on as either half, now filled by its parent.    *)
(* Children are only counted.  Nothing here looks into a message.          *)
(***************************************************************************)
EXTENDS Messages, FiniteSets, SequencesExt

CONSTANTS
  Key,       \* the keys
  Msgs,      \* the messages it is sent
  fanout,    \* children of an internal node
  bufferCap, \* messages in a buffer before it is flushed
  MaxMsgs    \* bound on the messages in the buffer

ASSUME NodeBufferAssumption ==
  /\ Key \subseteq Nat \ {0} /\ IsFiniteSet(Key)
  /\ Msgs \subseteq Msg
  /\ fanout \in Nat /\ fanout >= 2
  /\ bufferCap \in Nat /\ bufferCap >= 1
  /\ MaxMsgs \in Nat /\ MaxMsgs > bufferCap

VARIABLES
  isRoot,       \* TRUE until the node is split as the root
  territory,    \* the keys that are routed to the node
  pivots,       \* its pivots
  buffer,       \* the messages, <<key, message>>
  bufferSorted, \* claims that buffer is sorted by key
  flushBuckets  \* the buckets of the last flush, one for each child it had

vars == <<isRoot, territory, pivots, buffer, bufferSorted, flushBuckets>>

numChildren == Len(pivots) + 1

-----------------------------------------------------------------------------
(* Searches. *)

(* A binary search of n cells, those in low first: where the others start. *)
SearchEnd(n, low) ==
  LET search[part \in (0..n) \X (0..n)] ==
        LET lo == part[1]
            hi == part[2]
            mid == lo + (hi - lo) \div 2
        IN  IF lo >= hi THEN lo + 1
            ELSE IF mid + 1 \in low THEN search[<<mid + 1, hi>>]
                                    ELSE search[<<lo, mid>>]
  IN  search[<<0, n>>]

(* How many pivots are at or below k, plus one. *)
findChildIndex(k) ==
  SearchEnd(Len(pivots), {i \in DOMAIN pivots : pivots[i] <= k})

(* slices.BinarySearchFunc on the buffer: where k is or would be, from 1. *)
BinarySearchFunc(k) ==
  SearchEnd(Len(buffer), {i \in DOMAIN buffer : buffer[i][1] < k})

(* A scan: the messages of an array that are for a key in ks. *)
Only(msgs, ks) ==
  LET only[i \in 0..Len(msgs)] ==
        IF i = 0 THEN <<>>
        ELSE IF msgs[i][1] \in ks THEN Append(only[i-1], msgs[i])
                                  ELSE only[i-1]
  IN  only[Len(msgs)]

(* The first position from i on whose message is not for k. *)
SkipKey(i, k) ==
  CHOOSE j \in i..Len(buffer) + 1 :
    /\ \A x \in i..j-1 : buffer[x][1] = k
    /\ j <= Len(buffer) => buffer[j][1] # k

bufferMessagesForKey(k) ==
  LET i == BinarySearchFunc(k)
  IN  IF bufferSorted
      THEN SubSeq(buffer, i, SkipKey(i, k) - 1)
      ELSE Only(buffer, {k})

InBounds(k, lo, hi, loInc, hiInc) ==
  /\ lo < k \/ (loInc /\ lo = k)
  /\ k < hi \/ (hiInc /\ k = hi)

(* The sorted path: from where lo is to where hi is, bounds adjusted. *)
SortedSlice(lo, hi, loInc, hiInc) ==
  LET start == IF loInc THEN BinarySearchFunc(lo)
                        ELSE SkipKey(BinarySearchFunc(lo), lo)
      end == IF hiInc THEN SkipKey(BinarySearchFunc(hi), hi)
                      ELSE BinarySearchFunc(hi)
  IN  SubSeq(buffer, start, end - 1)

bufferSlice(lo, hi, loInc, hiInc) ==
  IF bufferSorted
  THEN SortedSlice(lo, hi, loInc, hiInc)
  ELSE Only(buffer, {k \in Key : InBounds(k, lo, hi, loInc, hiInc)})

-----------------------------------------------------------------------------
(* A node that is not about to be split takes messages. *)

Settled == numChildren <= fanout

(* Whether an array of n messages is known to be sorted after an append. *)
SortedAfterAppend_Kept(n) == bufferSorted \/ n <= 1

SortedAfterAppend(n) == n <= 1

(* A write to the root. *)
appendToBuffer(k, m) ==
  /\ isRoot /\ Settled
  /\ Len(buffer) < MaxMsgs
  /\ buffer' = Append(buffer, <<k, m>>)
  /\ bufferSorted' = SortedAfterAppend(Len(buffer) + 1)
  /\ UNCHANGED <<isRoot, territory, pivots, flushBuckets>>

(* The parent is flushed to this node. *)
Receive(batch) ==
  /\ ~isRoot /\ Settled
  /\ Len(buffer) + Len(batch) <= MaxMsgs
  /\ buffer' = buffer \o batch
  /\ bufferSorted' = FALSE
  /\ UNCHANGED <<isRoot, territory, pivots, flushBuckets>>

-----------------------------------------------------------------------------
(* flushNode, up to what it does to the child. *)

(* A bucket of an earlier flush is emptied before it is used again. *)
Emptied_KeepsOld(bucket) == bucket

Emptied(bucket) == <<>>

(* The keys that are routed to child i. *)
RoutedTo(i) == {k \in Key : findChildIndex(k) = i}

(* The buckets once every message is in that of the child it is routed to. *)
Partition ==
  LET old(i) == IF i <= Len(flushBuckets) THEN flushBuckets[i] ELSE <<>>
      size == IF numChildren > Len(flushBuckets) THEN numChildren
                                                 ELSE Len(flushBuckets)
  IN  [i \in 1..size |->
         IF i > numChildren THEN old(i)
                           ELSE Emptied(old(i)) \o Only(buffer, RoutedTo(i))]

(* The first of the longest among the first n buckets. *)
heaviest(buckets, n) ==
  LET best[i \in 0..n] ==
        IF i = 0 THEN 1
        ELSE IF Len(buckets[i]) > Len(buckets[best[i-1]]) THEN i ELSE best[i-1]
  IN  best[n]

(* What the compaction leaves: the other buckets, one after the other. *)
Compacted(buckets, n, h) ==
  LET kept[i \in 0..n] ==
        IF i = 0 THEN <<>>
        ELSE IF i = h THEN kept[i-1] ELSE kept[i-1] \o buckets[i]
  IN  kept[n]

(* The keys of child i, and the pivots that a split of it can promote. *)
ChildKeys(i) == territory \cap RoutedTo(i)
Promotable(i) == {k \in ChildKeys(i) : \E l \in ChildKeys(i) : l < k}

(* The child that has been flushed to may be split. *)
flushNode ==
  /\ Settled
  /\ Len(buffer) > bufferCap
  /\ LET buckets == Partition
         h == heaviest(buckets, numChildren)
     IN  /\ flushBuckets' = buckets
         /\ buffer' = Compacted(buckets, numChildren, h)
         /\ \/ pivots' = pivots
            \/ \E p \in Promotable(h) : pivots' = InsertAt(pivots, h, p)
  /\ bufferSorted' = FALSE
  /\ UNCHANGED <<isRoot, territory>>

(* The half of a split that a buffered message goes to. *)
GoesLeft_PivotToo(k, pivot) == k <= pivot

GoesLeft(k, pivot) == k < pivot

(***************************************************************************)
(* splitInternalChild: this node goes on as the left half, which keeps the *)
(* buckets, or as the right half, which is new.                            *)
(***************************************************************************)
splitInternalChild ==
  /\ ~Settled
  /\ LET mid == Len(pivots) \div 2
         pivot == pivots[mid + 1]
     IN  \/ /\ territory' = {k \in territory : k < pivot}
            /\ pivots' = SubSeq(pivots, 1, mid)
            /\ buffer' = Only(buffer, {k \in Key : GoesLeft(k, pivot)})
            /\ UNCHANGED flushBuckets
         \/ /\ territory' = {k \in territory : k >= pivot}
            /\ pivots' = SubSeq(pivots, mid + 2, Len(pivots))
            /\ buffer' = Only(buffer, {k \in Key : ~GoesLeft(k, pivot)})
            /\ flushBuckets' = <<>>
  /\ isRoot' = FALSE
  /\ UNCHANGED bufferSorted

-----------------------------------------------------------------------------

(* splitRoot: a new root has one pivot and no messages. *)
Init ==
  /\ isRoot = TRUE
  /\ territory = Key
  /\ \E p \in Key : (\E k \in Key : k < p) /\ pivots = <<p>>
  /\ buffer = <<>>
  /\ bufferSorted = FALSE
  /\ flushBuckets = <<>>

Batches == UNION {[1..n -> territory \X Msgs] : n \in 1..MaxMsgs}

Next ==
  \/ \E k \in territory, m \in Msgs : appendToBuffer(k, m)
  \/ \E batch \in Batches : Receive(batch)
  \/ flushNode
  \/ splitInternalChild

Spec == Init /\ [][Next]_vars

-----------------------------------------------------------------------------

(* Types of the arrays; the node's pivots and messages are for its keys. *)
TypeOK ==
  /\ isRoot \in BOOLEAN
  /\ territory \subseteq Key
  /\ pivots \in Seq(territory)
  /\ numChildren <= fanout + 1
  /\ buffer \in Seq(territory \X Msgs)
  /\ bufferSorted \in BOOLEAN
  /\ flushBuckets \in Seq(Seq(Key \X Msgs))

(* What BETree keeps of an array of messages, and of this node. *)
Keyed(msgs) ==
  [k \in Key |-> LET mine == Only(msgs, {k})
                 IN  [i \in DOMAIN mine |-> mine[i][2]]]

Tree == INSTANCE BETree WITH
       Puts <- {}, Ranges <- {}, leafCap <- 2, smallBatch <- 3,
       heap <- <<>>, root <- <<0, 0>>, size <- 0, pendingDeletes <- 0,
       locked <- FALSE, result <- 0, todo <- <<>>

Node == Tree!Internal(pivots, [i \in 1..numChildren |-> <<0, i>>], Keyed(buffer))

(***************************************************************************)
(* What readers get from the buffer (node.go:36-107): all messages of a    *)
(* key and nothing else, oldest first, and for a range those of the keys   *)
(* inside its bounds, whichever of the two paths bufferSorted selects.     *)
(***************************************************************************)
ReadsExact ==
  /\ \A k \in Key :
       LET mine == bufferMessagesForKey(k)
       IN  /\ \A i \in DOMAIN mine : mine[i][1] = k
           /\ Keyed(mine)[k] = Keyed(buffer)[k]
  /\ \A lo, hi \in Key, loInc, hiInc \in BOOLEAN : lo < hi =>
       Keyed(bufferSlice(lo, hi, loInc, hiInc)) =
         [k \in Key |-> IF InBounds(k, lo, hi, loInc, hiInc)
                        THEN Keyed(buffer)[k] ELSE <<>>]

(* What a step does to the array is what BETree does to the sequences. *)
StepMatchesTree ==
  /\ \A k \in territory, m \in Msgs :
       appendToBuffer(k, m) => Node' = Tree!appendToBuffer(Node, k, m)
  /\ \A batch \in Batches :
       Receive(batch) => Keyed(buffer') = Tree!Received(Keyed(buffer), Keyed(batch))
  /\ flushNode =>
       LET i == Tree!heaviest(Node)
       IN  /\ Keyed(buffer') = Tree!Unflushed(Node, i)
           /\ Keyed(flushBuckets'[i]) = Tree!Bucket(Node, i)
  /\ splitInternalChild =>
       \E half \in {Tree!splitInternal(Node).left, Tree!splitInternal(Node).right} :
         /\ Node'.pivots = half.pivots
         /\ Node'.buffer = half.buffer
         /\ numChildren' = Len(half.children)

(***************************************************************************)
(* The array does what BETree says of the messages of each key: no append, *)
(* flush or split loses, repeats or reorders the messages of a key, the    *)
(* same child is chosen, and it is handed its messages and no others,      *)
(* although the buckets still hold those of an earlier flush               *)
(* (flush.go:16-45, 410-436).                                              *)
(***************************************************************************)
StepsMatchTree == [][StepMatchesTree]_vars
=============================================================================
