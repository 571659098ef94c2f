----------------------------- MODULE LeafMerge ------------------------------
(***************************************************************************)
(* applyToLeaf on the arrays of a leaf: node.go:139-181, flush.go:77-355.  *)
(*                                                                         *)
(* BETree says what a batch of messages makes of a leaf; this module says  *)
(* how the code gets there, in place: one message at a time for a small    *)
(* batch, otherwise by folding the batch to one message per key and        *)
(* merging it into the parallel arrays keys and values, each iteration of  *)
(* a loop being one step.  The run of the code starts when applyToLeaf is  *)
(* called and stops at pc = "done".  Positions count from 1; a cell that   *)
(* slices.Grow has added and nothing has been written to is Junk.          *)
(***************************************************************************)
EXTENDS Messages, FiniteSets, SequencesExt

CONSTANTS
  Key,        \* the keys
  Sent,       \* the messages a batch may hold
  MaxBatch,   \* bound on the length of a batch
  smallBatch, \* applyToLeaf's threshold, 3 in the code
  Junk        \* an unwritten cell

ASSUME LeafMergeAssumption ==
  /\ Key \subseteq Nat \ {0} /\ IsFiniteSet(Key)
  /\ Sent \subseteq Msg
  /\ MaxBatch \in Nat /\ smallBatch \in Nat
  /\ Junk \notin Key \cup Opt

VARIABLES
  before,     \* what the leaf held when applyToLeaf was called
  batch,      \* the messages it was called with, <<key, message>>
  keys, values, \* the leaf's arrays
  msgs,       \* the messages that are being merged
  pc,         \* the loop that is being executed
  li, mi, w,  \* next leaf entry and message to read, last cell written
  numNew,     \* puts of new keys collected by mergeLeafWithDeletes
  r, p,       \* last leaf entry and message mergeLeafPuts has not read
  overwrites  \* puts of keys the leaf had, in mergeLeafPuts

leaf == <<keys, values>>
loop == <<li, mi, w, numNew, r, p, overwrites>>
vars == <<before, batch, keys, values, msgs, pc, loop>>

-----------------------------------------------------------------------------
(* One message at a time. *)

(* The binary search: the index before which k belongs, from 0. *)
leafSearch(ks, k) ==
  LET n == Len(ks)
      search[part \in (0..n) \X (0..n)] ==
        LET lo == part[1]
            hi == part[2]
            mid == lo + (hi - lo) \div 2
        IN  IF lo >= hi THEN [idx |-> lo, found |-> FALSE]
            ELSE IF ks[mid + 1] = k THEN [idx |-> mid, found |-> TRUE]
            ELSE IF ks[mid + 1] < k THEN search[<<mid + 1, hi>>]
                                    ELSE search[<<lo, mid>>]
  IN  search[<<0, n>>]

(* The leaf's value of k. *)
Lookup(k) ==
  LET s == leafSearch(keys, k)
  IN  IF s.found THEN values[s.idx + 1] ELSE Absent

leafInsert(k, v) ==
  LET s == leafSearch(keys, k)
  IN  IF s.found
      THEN /\ values' = [values EXCEPT ![s.idx + 1] = v]
           /\ keys' = keys
      ELSE /\ keys' = InsertAt(keys, s.idx + 1, k)
           /\ values' = InsertAt(values, s.idx + 1, v)

leafDelete_ValueKept(k) ==
  LET s == leafSearch(keys, k)
  IN  IF s.found
      THEN keys' = RemoveAt(keys, s.idx + 1) /\ values' = values
      ELSE UNCHANGED leaf

leafDelete(k) ==
  LET s == leafSearch(keys, k)
  IN  IF s.found
      THEN /\ keys' = RemoveAt(keys, s.idx + 1)
           /\ values' = RemoveAt(values, s.idx + 1)
      ELSE UNCHANGED leaf

(* applyToLeafSmall: the next message. *)
ApplyOne ==
  /\ pc = "small" /\ mi <= Len(batch)
  /\ LET k == batch[mi][1]
         m == batch[mi][2]
     IN  \/ m.kind = "del" /\ leafDelete(k)
         \/ m.kind # "del" /\ leafInsert(k, Apply(m, Lookup(k)))
  /\ mi' = mi + 1
  /\ UNCHANGED <<before, batch, msgs, pc, li, w, numNew, r, p, overwrites>>

-----------------------------------------------------------------------------
(* A larger batch: one message per key, in the order of the keys. *)

(* The messages for k among the first i of b, in their order. *)
Groups(b, k) ==
  LET group[i \in 0..Len(b)] ==
        IF i = 0 THEN <<>>
        ELSE IF b[i][1] = k THEN Append(group[i-1], b[i][2])
                            ELSE group[i-1]
  IN  group

GroupOf(b, k) == Groups(b, k)[Len(b)]

(* The elements of a set of keys in ascending order. *)
Ascending(s) == \A i, j \in DOMAIN s : i < j => s[i] < s[j]
InOrder(ks) == CHOOSE s \in [1..Cardinality(ks) -> ks] : Ascending(s)

(* resolveMessages: a stable sort, then one message per key. *)
resolveMessages(b) ==
  LET ks == InOrder({b[i][1] : i \in DOMAIN b})
  IN  [i \in DOMAIN ks |-> <<ks[i], resolveKeyGroup(GroupOf(b, ks[i]))>>]

(* The upserts that are left are applied to what the leaf has. *)
Grounded(b) ==
  [i \in DOMAIN b |->
     IF b[i][2].kind = "ups"
     THEN <<b[i][1], MsgPut(b[i][2].fn[Lookup(b[i][1])], FALSE)>>
     ELSE b[i]]

HasDelete == \E i \in DOMAIN batch : batch[i][2].kind = "del"

(* k, the smallest key of the batch, is above all of a non-empty leaf. *)
AllAbove(k) == IF keys = <<>> THEN FALSE ELSE k > Last(keys)

(* applyToLeaf, up to the choice of a merge. *)
Resolve ==
  /\ pc = "batch"
  /\ msgs' = Grounded(resolveMessages(batch))
  /\ \/ /\ ~HasDelete /\ AllAbove(msgs'[1][1])
        /\ pc' = "append"
     \/ /\ ~HasDelete /\ ~AllAbove(msgs'[1][1])
        /\ pc' = "grow"
     \/ /\ HasDelete
        /\ pc' = "compact"
  /\ UNCHANGED <<before, batch, leaf, loop>>

appendToLeaf ==
  /\ pc = "append"
  /\ keys' = keys \o [i \in DOMAIN msgs |-> msgs[i][1]]
  /\ values' = values \o [i \in DOMAIN msgs |-> msgs[i][2].val]
  /\ pc' = "done"
  /\ UNCHANGED <<before, batch, msgs, loop>>

-----------------------------------------------------------------------------
(* mergeLeafPuts: from the largest key down, into the grown tail. *)

GrowLeaf ==
  LET more == [i \in DOMAIN msgs |-> Junk]
  IN  /\ pc = "grow"
      /\ keys' = keys \o more
      /\ values' = values \o more
      /\ w' = Len(keys) + Len(msgs)
      /\ r' = Len(keys)
      /\ p' = Len(msgs)
      /\ overwrites' = 0
      /\ pc' = "merge"
      /\ UNCHANGED <<before, batch, msgs, li, mi, numNew>>

(* slices.BinarySearchFunc: the first of the first n keys that is not below k. *)
Position(n, k) ==
  CHOOSE i \in 1..n + 1 :
    /\ \A j \in 1..i-1 : keys[j] < k
    /\ i <= n => keys[i] >= k

(* The first leaf entry that stays right of a put found, or not, at pos. *)
chunkStart_KeepsOld(pos, found) == pos

chunkStart(pos, found) == IF found THEN pos + 1 ELSE pos

(* Array s once cells from..r have moved up to end at w, with e before them. *)
Shifted(s, from, e) ==
  LET chunk == r - from + 1
  IN  [j \in DOMAIN s |->
         IF j = w - chunk THEN e
         ELSE IF w - chunk < j /\ j <= w THEN s[j - w + r] ELSE s[j]]

MergePut ==
  /\ pc = "merge" /\ p >= 1
  /\ LET k == msgs[p][1]
         pos == Position(r, k)
         found == pos <= r /\ keys[pos] = k
         from == chunkStart(pos, found)
     IN  /\ keys' = Shifted(keys, from, k)
         /\ values' = Shifted(values, from, msgs[p][2].val)
         /\ w' = w - (r - from + 1) - 1
         /\ r' = pos - 1
         /\ overwrites' = IF found THEN overwrites + 1 ELSE overwrites
  /\ p' = p - 1
  /\ UNCHANGED <<before, batch, msgs, pc, li, mi, numNew>>

(* The gap that overwritten entries have left is closed. *)
Closed_Never(s) == s

Closed(s) ==
  LET moved == [j \in DOMAIN s |->
                  IF j > r /\ j - r + w <= Len(s) THEN s[j - r + w] ELSE s[j]]
  IN  IF overwrites = 0 THEN s ELSE SubSeq(moved, 1, Len(s) - overwrites)

CloseGap ==
  /\ pc = "merge" /\ p = 0
  /\ keys' = Closed(keys)
  /\ values' = Closed(values)
  /\ pc' = "done"
  /\ UNCHANGED <<before, batch, msgs, loop>>

-----------------------------------------------------------------------------
(* mergeLeafWithDeletes: the leaf is compacted, new keys are collected. *)

LeafLeft == li <= Len(keys)
MsgsLeft == mi <= Len(msgs)

(* A leaf entry no message is for: it moves down. *)
KeepEntry ==
  /\ pc = "compact"
  /\ LeafLeft /\ (MsgsLeft => keys[li] < msgs[mi][1])
  /\ keys' = [keys EXCEPT ![w + 1] = keys[li]]
  /\ values' = [values EXCEPT ![w + 1] = values[li]]
  /\ w' = w + 1
  /\ li' = li + 1
  /\ UNCHANGED <<before, batch, msgs, pc, mi, numNew, r, p, overwrites>>

(* A message for a key the leaf does not have: a put is set aside. *)
CollectNew_StaysOnDelete ==
  /\ pc = "compact"
  /\ MsgsLeft /\ (LeafLeft => keys[li] > msgs[mi][1])
  /\ \/ /\ msgs[mi][2].kind = "put"
        /\ msgs' = [msgs EXCEPT ![numNew + 1] = msgs[mi]]
        /\ numNew' = numNew + 1
        /\ mi' = mi + 1
     \/ /\ msgs[mi][2].kind = "del"
        /\ UNCHANGED <<msgs, numNew, mi>>
  /\ UNCHANGED <<before, batch, leaf, pc, li, w, r, p, overwrites>>

CollectNew ==
  /\ pc = "compact"
  /\ MsgsLeft /\ (LeafLeft => keys[li] > msgs[mi][1])
  /\ \/ /\ msgs[mi][2].kind = "put"
        /\ msgs' = [msgs EXCEPT ![numNew + 1] = msgs[mi]]
        /\ numNew' = numNew + 1
     \/ /\ msgs[mi][2].kind = "del"
        /\ UNCHANGED <<msgs, numNew>>
  /\ mi' = mi + 1
  /\ UNCHANGED <<before, batch, leaf, pc, li, w, r, p, overwrites>>

(* A message for a leaf entry: it is overwritten or dropped. *)
ApplyMatch ==
  /\ pc = "compact"
  /\ LeafLeft /\ MsgsLeft /\ keys[li] = msgs[mi][1]
  /\ \/ /\ msgs[mi][2].kind = "put"
        /\ keys' = [keys EXCEPT ![w + 1] = msgs[mi][1]]
        /\ values' = [values EXCEPT ![w + 1] = msgs[mi][2].val]
        /\ w' = w + 1
     \/ /\ msgs[mi][2].kind = "del"
        /\ UNCHANGED <<leaf, w>>
  /\ li' = li + 1
  /\ mi' = mi + 1
  /\ UNCHANGED <<before, batch, msgs, pc, numNew, r, p, overwrites>>

(* The leaf is cut; the new keys are merged as puts. *)
Truncate ==
  /\ pc = "compact" /\ ~LeafLeft /\ ~MsgsLeft
  /\ keys' = SubSeq(keys, 1, w)
  /\ values' = SubSeq(values, 1, w)
  /\ msgs' = SubSeq(msgs, 1, numNew)
  /\ pc' = IF numNew > 0 THEN "grow" ELSE "done"
  /\ UNCHANGED <<before, batch, loop>>

-----------------------------------------------------------------------------

Batches == UNION {[1..n -> Key \X Sent] : n \in 1..MaxBatch}

Init ==
  /\ before \in [Key -> Opt]
  /\ batch \in Batches
  /\ keys = InOrder({k \in Key : before[k] # Absent})
  /\ values = [i \in DOMAIN keys |-> before[keys[i]]]
  /\ msgs = <<>>
  /\ pc = IF Len(batch) <= smallBatch THEN "small" ELSE "batch"
  /\ li = 1 /\ mi = 1 /\ w = 0 /\ numNew = 0
  /\ r = 0 /\ p = 0 /\ overwrites = 0

Finish ==
  /\ pc = "small" /\ mi > Len(batch)
  /\ pc' = "done"
  /\ UNCHANGED <<before, batch, leaf, msgs, loop>>

Next ==
  \/ ApplyOne \/ Finish \/ Resolve \/ appendToLeaf
  \/ GrowLeaf \/ MergePut \/ CloseGap
  \/ KeepEntry \/ CollectNew \/ ApplyMatch \/ Truncate

Spec == Init /\ [][Next]_vars /\ WF_vars(Next)

-----------------------------------------------------------------------------

(* Types of the arrays; keys and values stay parallel. *)
TypeOK ==
  /\ before \in [Key -> Opt]
  /\ batch \in Batches
  /\ keys \in Seq(Key \cup {Junk})
  /\ values \in Seq(Value \cup {Junk})
  /\ Len(keys) = Len(values)
  /\ \A i \in DOMAIN keys : keys[i] = Junk <=> values[i] = Junk
  /\ {li, mi, w, numNew, r, p, overwrites} \subseteq Nat

(* What the batch should make of the leaf. *)
Expected == [k \in Key |-> After(GroupOf(batch, k), before[k])]

(* The cells from..to of the leaf as a set of <<key, value>>. *)
Cells(from, to) == {<<keys[i], values[i]>> : i \in from..to}

(* The puts from..to of the batch, likewise. *)
PutsIn(from, to) ==
  {<<msgs[i][1], msgs[i][2].val>> : i \in {x \in from..to : msgs[x][2].kind = "put"}}

KeysIn(pairs) == {e[1] : e \in pairs}
Except(pairs, ks) == {e \in pairs : e[1] \notin ks}

(***************************************************************************)
(* What the leaf will hold if every loop does what is left to it: what has *)
(* been written, what is still to be inserted, and the entries not yet     *)
(* read, unless a message that has not been read either is for their key.  *)
(***************************************************************************)
Outcome ==
  CASE pc \in {"append", "grow"} ->
         PutsIn(1, Len(msgs)) \cup
           Except(Cells(1, Len(keys)), KeysIn(PutsIn(1, Len(msgs))))
    [] pc = "compact" ->
         Cells(1, w) \cup PutsIn(1, numNew) \cup PutsIn(mi, Len(msgs)) \cup
           Except(Cells(li, Len(keys)), {msgs[i][1] : i \in mi..Len(msgs)})
    [] pc = "merge"   ->
         Cells(w + 1, Len(keys)) \cup PutsIn(1, p) \cup
           Except(Cells(1, r), KeysIn(PutsIn(1, p)))
    [] pc = "done"    -> Cells(1, Len(keys))

(***************************************************************************)
(* "writes never overtake reads" (flush.go:301): at every iteration of the *)
(* in-place loops the arrays still hold everything that the rest of the    *)
(* loops needs to give each key the value its messages give it, applied    *)
(* in the order in which they came (flush.go:166-355).                     *)
(***************************************************************************)
NothingLost ==
  pc \notin {"small", "batch"} =>
    Outcome = {<<k, Expected[k]>> : k \in {x \in Key : Expected[x] # Absent}}

(***************************************************************************)
(* When applyToLeaf returns, the keys of the leaf ascend strictly, as the  *)
(* binary searches need (node.go:141), no cell is left unwritten, and the  *)
(* leaf is what the batch should make of it, by either path.               *)
(***************************************************************************)
LeafCorrect ==
  pc = "done" =>
    /\ Ascending(keys)
    /\ [k \in Key |-> Lookup(k)] = Expected
    /\ ToSet(keys) = {k \in Key : Expected[k] # Absent}

(* The loops of applyToLeaf end (flush.go:77-355). *)
Terminates == <>(pc = "done")
=============================================================================
