--------------------------- MODULE LockingProofs ----------------------------
(***************************************************************************)
(* Proofs about Goroutines and DiskTree.  However many goroutines make     *)
(* whatever calls, the mutex keeps readers and writers apart (TypeCorrect),*)
(* a read returns a snapshot (Snapshots), and writes take effect one after *)
(* the other (RefinesOrderedMap).  The same holds of goroutines that share *)
(* a DiskBETree (DiskTypeCorrect, DiskSnapshots, DiskRefinesOrderedMap),   *)
(* and whoever closes it, how often, and whatever the flusher does, it is  *)
(* closed in order (ClosesInOrder).                                        *)
(***************************************************************************)
EXTENDS DiskTree, FiniteSetTheorems, TLAPS

-----------------------------------------------------------------------------
(* The inductive invariant. *)

Readers == {"rlock", "wait", "read"}
Writers == {"lock", "drain", "look", "write"}

(* A goroutine is in a call that takes the lock it is about to take or     *)
(* holds.                                                                  *)
InCall ==
  \A p \in Proc :
    /\ pc[p] \in Readers \cup Writers => call[p] \in Methods
    /\ pc[p] \in Readers => call[p].op \in Reads
    /\ pc[p] \in Writers => call[p].op \notin Reads

(* A reader has found what was committed for the keys it has been at, and  *)
(* has nothing for the others.                                             *)
Collected ==
  \A p \in Proc : pc[p] \in Readers =>
    /\ left[p] \subseteq call[p].keys
    /\ pc[p] # "read" => left[p] = call[p].keys
    /\ found[p] = [k \in Key |-> IF k \in call[p].keys \ left[p]
                                 THEN committed[k] ELSE Absent]

(* Nobody reads while a writer is at work. *)
Excluded == (\E p \in Proc : pc[p] \in {"look", "write"}) => readers = {}

(* The tree differs from what was committed only by what the writer has    *)
(* done since.                                                             *)
Unwritten == (\A p \in Proc : pc[p] # "write") => map = committed

(* What the write of call c finds and has done, with the keys of rest still *)
(* to do.                                                                  *)
LookedUp(c) == [k \in Key |-> IF k \in c.keys THEN committed[k] ELSE Absent]

Written(c, rest) ==
  [k \in Key |-> IF k \in Affected(c, committed) \ rest
                 THEN NewValue(c, committed[k]) ELSE committed[k]]

Reported(c) ==
  IF c.op \in {"putIfAbsent", "delete"} THEN Cardinality(Affected(c, committed)) ELSE 0

HalfWritten ==
  \A p \in Proc : pc[p] = "write" =>
    /\ left[p] \subseteq Affected(call[p], committed)
    /\ found[p] = LookedUp(call[p])
    /\ map = Written(call[p], left[p])
    /\ answer[p] = Reported(call[p])

(* Between calls nothing is left of the last one. *)
Rested == \A p \in Proc : pc[p] = "idle" => found[p] = Empty

IInv ==
  /\ TypeOK /\ InCall /\ Excluded
  /\ Collected /\ Unwritten /\ HalfWritten /\ Rested

-----------------------------------------------------------------------------
(* Calls. *)

(* A call is a record with keys of the tree, of a known method, and with   *)
(* the argument that the method takes.                                     *)
LEMMA MethodTypes ==
  ASSUME NEW c \in Methods
  PROVE  /\ c.op \in Reads \cup Writes
         /\ c.keys \subseteq Key
         /\ c.op \in {"put", "putIfAbsent"} => c.arg \in Value
         /\ c.op = "upsert" => c.arg \in Fns
<1>1. CASE c \in {Put(k, v) : k \in Key, v \in Value}
  BY <1>1 DEF Put, Reads, Writes
<1>2. CASE c \in {PutIfAbsent(k, v) : k \in Key, v \in Value}
  BY <1>2 DEF PutIfAbsent, Reads, Writes
<1>3. CASE c \in {Upsert(k, f) : k \in Key, f \in Fns}
  BY <1>3 DEF Upsert, Reads, Writes
<1>4. CASE c \in {Delete(k) : k \in Key}
  BY <1>4 DEF Delete, Reads, Writes
<1>5. CASE c \in {DeleteRange(r[1], r[2]) : r \in Bounds}
  BY <1>5 DEF DeleteRange, Between, Reads, Writes
<1>6. CASE c \in {Clear, Close}
  BY <1>6 DEF Clear, Close, Reads, Writes
<1>7. CASE c \in [op : Reads, keys : SUBSET Key, arg : {Absent}]
  BY <1>7 DEF Reads, Loops
<1> QED
  BY <1>1, <1>2, <1>3, <1>4, <1>5, <1>6, <1>7 DEF Methods

(* A write changes keys of its call only. *)
LEMMA AffectedKeys ==
  ASSUME NEW c, NEW f
  PROVE  Affected(c, f) \subseteq c.keys
BY DEF Affected

(* What a write puts in place of a value or of none is one or the other. *)
LEMMA NewValueType ==
  ASSUME NEW c \in Methods, NEW o \in Opt
  PROVE  NewValue(c, o) \in Opt
<1>1. CASE c.op \in {"put", "putIfAbsent"}
  BY <1>1, MethodTypes DEF NewValue, Opt
<1>2. CASE c.op = "upsert"
  BY <1>2, MethodTypes, GoroutinesAssumption DEF NewValue, Opt
<1>3. CASE c.op \notin {"put", "putIfAbsent", "upsert"}
  BY <1>3 DEF NewValue, Opt
<1> QED
  BY <1>1, <1>2, <1>3

-----------------------------------------------------------------------------
(* The invariant holds at first, and every step preserves it. *)

(* At first nobody is in a call and the tree is empty. *)
LEMMA InitIInv == Init => IInv
<1> SUFFICES ASSUME Init PROVE IInv
  OBVIOUS
<1>1. TypeOK
  BY GoroutinesAssumption DEF Init, TypeOK, Empty, Opt, Labels
<1>2. InCall /\ Excluded /\ Collected /\ Unwritten /\ HalfWritten /\ Rested
  BY DEF Init, InCall, Excluded, Collected, Unwritten, HalfWritten, Rested, Empty,
         Readers, Writers
<1> QED
  BY <1>1, <1>2 DEF IInv

(* Start: the call begins with nothing found and, if it reads, with all of *)
(* its keys to read.                                                       *)
LEMMA StartIInv ==
  ASSUME NEW p \in Proc, NEW c \in Methods, IInv, Start(p, c)
  PROVE  IInv'
<1>1. c.op \in Reads \cup Writes /\ c.keys \subseteq Key
  BY MethodTypes
<1>2. /\ pc[p] = "idle" /\ pc' = [pc EXCEPT ![p] = Locks(c)]
      /\ call' = [call EXCEPT ![p] = c]
      /\ left' = [left EXCEPT ![p] = IF c.op \in Reads THEN c.keys ELSE {}]
      /\ UNCHANGED <<map, closed, committed, owner, readers, blocked, found, answer>>
  BY DEF Start, Goto, mutex
<1>3. Locks(c) = IF c.op \in Reads THEN "rlock" ELSE "lock"
  BY DEF Locks
<1>4. TypeOK'
  BY <1>1, <1>2, <1>3 DEF IInv, TypeOK, Labels
<1>5. InCall'
  BY <1>1, <1>2, <1>3 DEF IInv, TypeOK, InCall, Readers, Writers
<1>6. Collected'
  BY <1>1, <1>2, <1>3 DEF IInv, TypeOK, Collected, Rested, Empty, Readers
<1>7. Excluded' /\ Unwritten' /\ Rested'
  BY <1>2, <1>3 DEF IInv, TypeOK, Excluded, Unwritten, Rested
<1>8. HalfWritten'
  BY <1>2, <1>3 DEF IInv, TypeOK, HalfWritten, Written, LookedUp, Reported
<1> QED
  BY <1>4, <1>5, <1>6, <1>7, <1>8 DEF IInv

(* RLock: a reader joins, or waits for the writer. *)
LEMMA RLockIInv ==
  ASSUME NEW p \in Proc, IInv, RLock(p)
  PROVE  IInv'
<1>1. /\ pc[p] = "rlock"
      /\ UNCHANGED <<map, closed, committed, owner, call, left, found, answer>>
  BY DEF RLock, local
<1>2. CASE /\ owner = Nobody /\ readers' = readers \cup {p}
           /\ pc' = [pc EXCEPT ![p] = "read"] /\ UNCHANGED blocked
  <2>1. TypeOK'
    BY <1>1, <1>2 DEF IInv, TypeOK, Labels
  <2>2. \A q \in Proc : pc[q] \notin {"drain", "look", "write"}
    BY <1>2 DEF IInv, TypeOK
  <2>3. InCall' /\ Excluded' /\ Unwritten' /\ Rested'
    BY <1>1, <1>2, <2>2
    DEF IInv, TypeOK, InCall, Readers, Writers, Excluded, Unwritten, Rested
  <2>4. Collected' /\ HalfWritten'
    BY <1>1, <1>2, <2>2 DEF IInv, TypeOK, Collected, Readers, HalfWritten
  <2> QED
    BY <2>1, <2>3, <2>4 DEF IInv
<1>3. CASE /\ owner # Nobody /\ blocked' = blocked \cup {p}
           /\ pc' = [pc EXCEPT ![p] = "wait"] /\ UNCHANGED readers
  <2>1. TypeOK'
    BY <1>1, <1>3 DEF IInv, TypeOK, Labels
  <2>2. InCall' /\ Excluded' /\ Unwritten' /\ Rested'
    BY <1>1, <1>3
    DEF IInv, TypeOK, InCall, Readers, Writers, Excluded, Unwritten, Rested
  <2>3. Collected'
    BY <1>1, <1>3 DEF IInv, TypeOK, Collected, Readers
  <2>4. HalfWritten'
    BY <1>1, <1>3 DEF IInv, TypeOK, HalfWritten, Written, LookedUp, Reported
  <2> QED
    BY <2>1, <2>2, <2>3, <2>4 DEF IInv
<1> QED
  BY <1>2, <1>3 DEF RLock, Goto

(* ReadKey: nobody writes, so that the tree holds what was committed. *)
LEMMA ReadKeyIInv ==
  ASSUME NEW p \in Proc, IInv, ReadKey(p)
  PROVE  IInv'
<1>1. /\ pc[p] = "read"
      /\ UNCHANGED <<map, closed, committed, owner, readers, blocked, pc, call, answer>>
  BY DEF ReadKey, mutex
<1>2. \A q \in Proc : pc[q] \notin {"look", "write"}
  BY <1>1 DEF IInv, TypeOK, Excluded
<1>3. map = committed
  BY <1>2 DEF IInv, Unwritten
<1>4. ~ Writing
  BY <1>2 DEF Writing
<1>5. PICK k \in left[p] :
        /\ found' = [found EXCEPT ![p][k] = committed[k]]
        /\ left' = [left EXCEPT ![p] = @ \ {k}]
  BY <1>3, <1>4 DEF ReadKey
<1>6. k \in Key /\ committed[k] \in Opt
  BY <1>5 DEF IInv, TypeOK
<1>7. TypeOK'
  BY <1>1, <1>5, <1>6 DEF IInv, TypeOK
<1>8. InCall' /\ Excluded' /\ Unwritten' /\ Rested'
  BY <1>1, <1>5 DEF IInv, TypeOK, InCall, Excluded, Unwritten, Rested
<1>9. HalfWritten'
  BY <1>1, <1>2 DEF HalfWritten
<1>10. Collected'
  <2> SUFFICES ASSUME NEW q \in Proc, pc[q] \in Readers
               PROVE  /\ left'[q] \subseteq call[q].keys
                      /\ pc[q] # "read" => left'[q] = call[q].keys
                      /\ found'[q] = [l \in Key |-> IF l \in call[q].keys \ left'[q]
                                                    THEN committed[l] ELSE Absent]
    BY <1>1 DEF Collected
  <2>1. CASE q = p
    <3>1. left'[p] = left[p] \ {k}
      BY <1>5 DEF IInv, TypeOK
    <3>2. found'[p] = [found[p] EXCEPT ![k] = committed[k]]
      BY <1>5 DEF IInv, TypeOK
    <3>3. /\ left[p] \subseteq call[p].keys
          /\ found[p] = [l \in Key |-> IF l \in call[p].keys \ left[p]
                                       THEN committed[l] ELSE Absent]
      BY <2>1 DEF IInv, Collected
    <3> QED
      BY <1>1, <1>5, <1>6, <2>1, <3>1, <3>2, <3>3
  <2>2. CASE q # p
    BY <1>1, <1>5, <2>2 DEF IInv, TypeOK, Collected
  <2> QED
    BY <2>1, <2>2
<1> QED
  BY <1>7, <1>8, <1>9, <1>10 DEF IInv

(* RUnlock: the reader leaves. *)
LEMMA RUnlockIInv ==
  ASSUME NEW p \in Proc, IInv, RUnlock(p)
  PROVE  IInv'
<1>1. /\ pc[p] = "read" /\ readers' = readers \ {p}
      /\ pc' = [pc EXCEPT ![p] = "idle"]
      /\ call' = [call EXCEPT ![p] = Nobody]
      /\ left' = [left EXCEPT ![p] = {}]
      /\ found' = [found EXCEPT ![p] = Empty]
      /\ answer' = [answer EXCEPT ![p] = 0]
      /\ UNCHANGED <<map, closed, committed, owner, blocked>>
  BY DEF RUnlock, Goto, Returned
<1>2. Empty \in [Key -> Opt]
  BY DEF Empty, Opt
<1>3. TypeOK'
  BY <1>1, <1>2 DEF IInv, TypeOK, Labels
<1>4. InCall' /\ Excluded' /\ Unwritten' /\ Rested'
  BY <1>1 DEF IInv, TypeOK, InCall, Readers, Writers, Excluded, Unwritten, Rested
<1>5. Collected'
  BY <1>1 DEF IInv, TypeOK, Collected, Readers
<1>6. HalfWritten'
  BY <1>1 DEF IInv, TypeOK, HalfWritten, Written, LookedUp, Reported
<1> QED
  BY <1>3, <1>4, <1>5, <1>6 DEF IInv

(* Announce: a writer, the only one, waits for the readers to leave. *)
LEMMA AnnounceIInv ==
  ASSUME NEW p \in Proc, IInv, Announce(p)
  PROVE  IInv'
<1>1. /\ pc[p] = "lock" /\ owner = Nobody /\ owner' = p
      /\ pc' = [pc EXCEPT ![p] = "drain"]
      /\ UNCHANGED <<map, closed, committed, readers, blocked, call, left, found, answer>>
  BY DEF Announce, Goto, local
<1>2. TypeOK'
  BY <1>1, GoroutinesAssumption DEF IInv, TypeOK, Labels
<1>3. InCall' /\ Excluded' /\ Unwritten' /\ Rested'
  BY <1>1 DEF IInv, TypeOK, InCall, Readers, Writers, Excluded, Unwritten, Rested
<1>4. Collected'
  BY <1>1 DEF IInv, TypeOK, Collected, Readers
<1>5. HalfWritten'
  BY <1>1 DEF IInv, TypeOK, HalfWritten, Written, LookedUp, Reported
<1> QED
  BY <1>2, <1>3, <1>4, <1>5 DEF IInv

(* Acquire: the readers have left, and new ones wait. *)
LEMMA AcquireIInv ==
  ASSUME NEW p \in Proc, IInv, Acquire(p)
  PROVE  IInv'
<1>1. /\ pc[p] = "drain" /\ readers = {}
      /\ pc' = [pc EXCEPT ![p] = "look"]
      /\ UNCHANGED <<map, closed, committed, owner, readers, blocked>>
      /\ UNCHANGED <<call, left, found, answer>>
  BY DEF Acquire, Goto, local, mutex
<1>2. TypeOK'
  BY <1>1, GoroutinesAssumption DEF IInv, TypeOK, Labels
<1>3. InCall' /\ Excluded' /\ Unwritten' /\ Rested'
  BY <1>1 DEF IInv, TypeOK, InCall, Readers, Writers, Excluded, Unwritten, Rested
<1>4. Collected'
  BY <1>1 DEF IInv, TypeOK, Collected, Readers
<1>5. HalfWritten'
  BY <1>1 DEF IInv, TypeOK, HalfWritten, Written, LookedUp, Reported
<1> QED
  BY <1>2, <1>3, <1>4, <1>5 DEF IInv

(* A goroutine that holds the write lock is the only one there is. *)
LEMMA OneWriter ==
  ASSUME NEW p \in Proc, TypeOK, pc[p] \in {"drain", "look", "write"}
  PROVE  /\ owner = p
         /\ \A q \in Proc \ {p} : pc[q] \notin {"drain", "look", "write"}
BY DEF TypeOK

(* Finitely many keys are counted with a natural number. *)
LEMMA CountOfKeys ==
  ASSUME NEW S, S \subseteq Key
  PROVE  IsFiniteSet(S) /\ Cardinality(S) \in Nat
BY GoroutinesAssumption, FS_Subset, FS_CardinalityType

(* Look: the writer looks at a tree that is as it was committed. *)
LEMMA LookIInv ==
  ASSUME NEW p \in Proc, IInv, Look(p)
  PROVE  IInv'
<1> DEFINE c == call[p]
           keys == Affected(c, committed)
<1>1. pc[p] = "look" /\ pc' = [pc EXCEPT ![p] = "write"]
  BY DEF Look, Goto
<1>2. UNCHANGED <<map, closed, committed, owner, readers, blocked, call>>
  BY DEF Look, mutex
<1>3. \A q \in Proc \ {p} : pc[q] \notin {"drain", "look", "write"}
  BY <1>1, OneWriter DEF IInv
<1>4. map = committed
  BY <1>1, <1>3 DEF IInv, Unwritten
<1>5. /\ left' = [left EXCEPT ![p] = keys]
      /\ answer' = [answer EXCEPT ![p] = Reported(c)]
      /\ found' = [found EXCEPT ![p] = LookedUp(c)]
  BY <1>4 DEF Look, Reported, LookedUp
<1>6. c \in Methods /\ keys \subseteq c.keys /\ c.keys \subseteq Key
  BY <1>1, MethodTypes, AffectedKeys DEF IInv, InCall, Writers
<1>7. Reported(c) \in Nat /\ LookedUp(c) \in [Key -> Opt]
  BY <1>6, CountOfKeys DEF Reported, LookedUp, IInv, TypeOK, Opt
<1>8. Written(c, keys) = committed
  BY DEF Written, IInv, TypeOK
<1> HIDE DEF keys
<1>9. TypeOK'
  BY <1>1, <1>2, <1>5, <1>6, <1>7, GoroutinesAssumption DEF IInv, TypeOK, Labels
<1>10. InCall' /\ Excluded' /\ Unwritten' /\ Rested'
  BY <1>1, <1>2, <1>5
  DEF IInv, TypeOK, InCall, Readers, Writers, Excluded, Unwritten, Rested
<1>11. Collected'
  BY <1>1, <1>2, <1>5 DEF IInv, TypeOK, Collected, Readers
<1>12. HalfWritten'
  <2> SUFFICES ASSUME NEW q \in Proc, pc'[q] = "write"
               PROVE  /\ left'[q] \subseteq Affected(call[q], committed)
                      /\ found'[q] = LookedUp(call[q])
                      /\ map = Written(call[q], left'[q])
                      /\ answer'[q] = Reported(call[q])
    BY <1>2 DEF HalfWritten, LookedUp, Written, Reported
  <2>1. q = p
    BY <1>1, <1>3 DEF IInv, TypeOK
  <2> QED
    BY <1>4, <1>5, <1>8, <2>1 DEF IInv, TypeOK, keys
<1> QED
  BY <1>9, <1>10, <1>11, <1>12 DEF IInv

(* WriteKeys: the writer changes some of the keys that it has left, to     *)
(* what follows from what was committed.                                   *)
LEMMA WriteKeysStep ==
  ASSUME NEW p \in Proc, IInv, WriteKeys(p)
  PROVE  \E ks \in SUBSET left[p] :
           /\ map' = Written(call[p], left[p] \ ks)
           /\ left' = [left EXCEPT ![p] = @ \ ks]
           /\ call[p].op = "clear" => ks = left[p]
<1> DEFINE c == call[p]
           keys == Affected(c, committed)
<1>1. PICK ks \in NextKeys(p) :
        /\ map' = [k \in Key |-> IF k \in ks THEN NewValue(c, found[p][k]) ELSE map[k]]
        /\ left' = [left EXCEPT ![p] = @ \ ks]
  BY DEF WriteKeys
<1>2. ks \subseteq left[p] /\ (c.op = "clear" => ks = left[p])
  BY <1>1 DEF NextKeys
<1>3. /\ left[p] \subseteq keys /\ found[p] = LookedUp(c)
      /\ map = Written(c, left[p])
  BY DEF WriteKeys, IInv, HalfWritten
<1>4. keys \subseteq c.keys
  BY AffectedKeys
<1>5. \A k \in Key : k \in ks => found[p][k] = committed[k]
  BY <1>2, <1>3, <1>4 DEF LookedUp
<1>6. \A k \in Key : map[k] = IF k \in keys \ left[p]
                              THEN NewValue(c, committed[k]) ELSE committed[k]
  BY <1>3 DEF Written
<1> HIDE DEF keys
<1>7. map' = [k \in Key |-> IF k \in keys \ (left[p] \ ks)
                            THEN NewValue(c, committed[k]) ELSE committed[k]]
  BY <1>1, <1>2, <1>3, <1>5, <1>6
<1> QED
  BY <1>1, <1>2, <1>7 DEF Written, keys

(* WriteKeys keeps the invariant. *)
LEMMA WriteKeysIInv ==
  ASSUME NEW p \in Proc, IInv, WriteKeys(p)
  PROVE  IInv'
<1> DEFINE c == call[p]
<1>1. PICK ks \in SUBSET left[p] :
        /\ map' = Written(c, left[p] \ ks)
        /\ left' = [left EXCEPT ![p] = @ \ ks]
  BY WriteKeysStep
<1>2. /\ pc[p] = "write"
      /\ UNCHANGED <<closed, committed, owner, readers, blocked, pc, call, found, answer>>
  BY DEF WriteKeys, mutex
<1>3. \A q \in Proc \ {p} : pc[q] \notin {"drain", "look", "write"}
  BY <1>2, OneWriter DEF IInv
<1>4. c \in Methods
  BY <1>2 DEF IInv, InCall, Writers
<1>5. Written(c, left[p] \ ks) \in [Key -> Opt]
  BY <1>4, NewValueType DEF Written, IInv, TypeOK
<1>6. TypeOK'
  BY <1>1, <1>2, <1>5 DEF IInv, TypeOK
<1>7. InCall' /\ Excluded' /\ Unwritten' /\ Rested'
  BY <1>1, <1>2 DEF IInv, InCall, Excluded, Unwritten, Rested
<1>8. Collected'
  BY <1>1, <1>2 DEF IInv, TypeOK, Collected, Readers
<1>9. HalfWritten'
  <2> SUFFICES ASSUME NEW q \in Proc, pc[q] = "write"
               PROVE  /\ left'[q] \subseteq Affected(call[q], committed)
                      /\ found[q] = LookedUp(call[q])
                      /\ map' = Written(call[q], left'[q])
                      /\ answer[q] = Reported(call[q])
    BY <1>2 DEF HalfWritten, LookedUp, Written, Reported
  <2>1. q = p
    BY <1>3
  <2> QED
    BY <1>1, <2>1 DEF IInv, TypeOK, HalfWritten
<1> QED
  BY <1>6, <1>7, <1>8, <1>9 DEF IInv

(* Unlock: what the writer has done is committed, and those that waited    *)
(* begin to read it.                                                       *)
LEMMA UnlockIInv ==
  ASSUME NEW p \in Proc, IInv, Unlock(p)
  PROVE  IInv'
<1>1. /\ pc[p] = "write" /\ committed' = map /\ closed' \in BOOLEAN
      /\ owner' = Nobody /\ readers' = readers \cup blocked /\ blocked' = {}
      /\ pc' = [q \in Proc |-> IF q = p THEN "idle"
                               ELSE IF q \in blocked THEN "read" ELSE pc[q]]
      /\ UNCHANGED map
  BY DEF Unlock, Done, IInv, TypeOK
<1>2. /\ call' = [call EXCEPT ![p] = Nobody]
      /\ left' = [left EXCEPT ![p] = {}]
      /\ found' = [found EXCEPT ![p] = Empty]
      /\ answer' = [answer EXCEPT ![p] = 0]
  BY DEF Unlock, Returned
<1>3. \A q \in Proc \ {p} : pc[q] \notin {"drain", "look", "write"}
  BY <1>1, OneWriter DEF IInv
<1>4. \A q \in Proc : pc[q] # "read"
  BY <1>1 DEF IInv, TypeOK, Excluded
<1>5. Empty \in [Key -> Opt]
  BY DEF Empty, Opt
<1>6. TypeOK'
  <2>1. pc' \in [Proc -> Labels]
    BY <1>1 DEF IInv, TypeOK, Labels
  <2>2. \A q \in Proc : pc'[q] \notin {"drain", "look", "write", "wait"}
    BY <1>1, <1>3 DEF IInv, TypeOK
  <2>3. readers' = {q \in Proc : pc'[q] = "read"}
    BY <1>1, <1>4 DEF IInv, TypeOK
  <2> QED
    BY <1>1, <1>2, <1>5, <2>1, <2>2, <2>3 DEF IInv, TypeOK
<1>7. InCall'
  BY <1>1, <1>2 DEF IInv, TypeOK, InCall, Readers, Writers
<1>8. Excluded' /\ Unwritten' /\ HalfWritten'
  BY <1>1, <1>3 DEF Excluded, Unwritten, HalfWritten, IInv, TypeOK
<1>9. Rested'
  BY <1>1, <1>2 DEF IInv, TypeOK, Rested
<1>10. Collected'
  <2> SUFFICES ASSUME NEW q \in Proc, pc'[q] \in Readers
               PROVE  /\ left'[q] = call'[q].keys
                      /\ found'[q] = [k \in Key |-> IF k \in call'[q].keys \ left'[q]
                                                    THEN committed'[k] ELSE Absent]
    BY DEF Collected
  <2>1. q # p /\ pc[q] \in Readers /\ pc[q] # "read"
    BY <1>1, <1>4 DEF IInv, TypeOK, Readers
  <2>2. left[q] = call[q].keys /\ found[q] = [k \in Key |-> Absent]
    BY <2>1 DEF IInv, Collected
  <2> QED
    BY <1>2, <2>1, <2>2 DEF IInv, TypeOK
<1> QED
  BY <1>6, <1>7, <1>8, <1>9, <1>10 DEF IInv

(* What leaves the lock, the tree and the calls alone keeps the invariant. *)
LEMMA SameIInv ==
  ASSUME IInv, UNCHANGED <<map, closed, committed, mutex, pc, local>>
  PROVE  IInv'
BY DEF IInv, TypeOK, InCall, Excluded, Collected, Unwritten, HalfWritten, Rested,
       Written, LookedUp, Reported, mutex, local

(* Every step of a goroutine keeps the invariant. *)
LEMMA NextIInv == IInv /\ [Next]_vars => IInv'
<1> SUFFICES ASSUME IInv, [Next]_vars PROVE IInv'
  OBVIOUS
<1>1. ASSUME NEW p \in Proc, NEW c \in Calls[p], Start(p, c) PROVE IInv'
  BY <1>1, StartIInv, GoroutinesAssumption
<1>2. ASSUME NEW p \in Proc, Proceed(p) PROVE IInv'
  BY <1>2, RLockIInv, ReadKeyIInv, RUnlockIInv, AnnounceIInv, AcquireIInv, LookIInv,
     WriteKeysIInv, UnlockIInv DEF Proceed
<1>3. ASSUME NEW p \in Proc, Visit(p) PROVE IInv'
  BY <1>3, SameIInv DEF Visit
<1>4. CASE UNCHANGED vars
  BY <1>4, SameIInv DEF vars
<1> QED
  BY <1>1, <1>2, <1>3, <1>4 DEF Next

-----------------------------------------------------------------------------

(***************************************************************************)
(* The invariant holds of every behaviour.                                 *)
(***************************************************************************)
THEOREM Invariance == Spec => []IInv
BY InitIInv, NextIInv, PTL DEF Spec

(***************************************************************************)
(* However many goroutines there are and whatever they call, those that    *)
(* read hold the read lock, and at most one, the mutex's owner, holds the  *)
(* write lock or waits for readers to leave (tree.go, iterator.go).        *)
(***************************************************************************)
THEOREM TypeCorrect == Spec => []TypeOK
<1>1. IInv => TypeOK
  BY DEF IInv
<1> QED
  BY Invariance, <1>1, PTL

(***************************************************************************)
(* What Get, an iterator or a cursor has collected when it releases the    *)
(* lock is what the tree holds at that instant, for any number of          *)
(* goroutines, keys and values (iterator.go:25-27, tree.go:395-397).       *)
(***************************************************************************)
THEOREM Snapshots == Spec => []SnapshotOfOneInstant
<1>1. IInv => SnapshotOfOneInstant
  BY DEF IInv, Collected, Readers, SnapshotOfOneInstant
<1> QED
  BY Invariance, <1>1, PTL

-----------------------------------------------------------------------------
(* The refinement: a write of the ordered map is the step that completes   *)
(* a write of the tree, by changing the last key or by finding that there  *)
(* is none to change.                                                      *)

(* A step that completes the write of call c, seen as one of the map. *)
Completes(c) ==
  /\ c \in Methods /\ c.op \notin Reads
  /\ committed \in [Key -> Opt]
  /\ Finished = {} /\ Finished' # {}
  /\ Contents' = Written(c, {})
  /\ Report' = Reported(c)

(* A step that changes the map and reports a number is a write of it. *)
LEMMA MapWrite ==
  ASSUME Finished = {}, Finished' # {}, NEW m, NEW n, Contents' = m, Report' = n
  PROVE  Abstract!Write(m, n)
BY DEF Abstract!Write

(* A step that completes a put. *)
LEMMA CompletesPut ==
  ASSUME NEW k \in Key, NEW v \in Value, Completes(Put(k, v))
  PROVE  Abstract!Put(k, v)
<1> DEFINE c == Put(k, v)
<1>1. Contents = committed
  BY DEF Completes, Contents
<1>2. /\ c.op = "put" /\ c.keys = {k} /\ c.arg = v
  BY DEF Put
<1>3. /\ Contents' = [l \in Key |-> IF l \in {k} THEN v ELSE committed[l]]
      /\ Report' = 0
  BY <1>2 DEF Completes, Written, Affected, NewValue, Reported
<1>4. Contents' = [Contents EXCEPT ![k] = v]
  BY <1>1, <1>3 DEF Completes
<1> QED
  BY <1>3, <1>4, MapWrite DEF Abstract!Put, Completes

(* A step that completes a put of a key that may be there. *)
LEMMA CompletesPutIfAbsent ==
  ASSUME NEW k \in Key, NEW v \in Value, Completes(PutIfAbsent(k, v))
  PROVE  Abstract!PutIfAbsent(k, v)
<1> DEFINE c == PutIfAbsent(k, v)
           keys == Affected(c, committed)
<1>1. Contents = committed
  BY DEF Completes, Contents
<1>2. c.op = "putIfAbsent" /\ c.keys = {k} /\ c.arg = v
  BY DEF PutIfAbsent
<1>3. keys = {l \in {k} : committed[l] = Absent}
  BY <1>2 DEF Affected
<1>4. /\ Contents' = [l \in Key |-> IF l \in keys THEN v ELSE committed[l]]
      /\ Report' = Cardinality(keys)
  BY <1>2 DEF Completes, Written, NewValue, Reported
<1> HIDE DEF keys
<1>5. CASE committed[k] = Absent
  <2>1. keys = {k} /\ Report' = 1
    BY <1>3, <1>4, <1>5, FS_Singleton
  <2>2. Contents' = [Contents EXCEPT ![k] = v]
    BY <1>1, <1>4, <2>1 DEF Completes
  <2> QED
    BY <1>1, <1>5, <2>1, <2>2, MapWrite DEF Abstract!PutIfAbsent, Completes
<1>6. CASE committed[k] # Absent
  <2>1. keys = {} /\ Report' = 0
    BY <1>3, <1>4, <1>6, FS_EmptySet
  <2>2. Contents' = Contents
    BY <1>1, <1>4, <2>1 DEF Completes
  <2> QED
    BY <1>1, <1>6, <2>1, <2>2, MapWrite DEF Abstract!PutIfAbsent, Completes
<1> QED
  BY <1>5, <1>6

(* A step that completes an upsert. *)
LEMMA CompletesUpsert ==
  ASSUME NEW k \in Key, NEW f \in Fns, Completes(Upsert(k, f))
  PROVE  Abstract!Upsert(k, f)
<1> DEFINE c == Upsert(k, f)
<1>1. Contents = committed
  BY DEF Completes, Contents
<1>2. c.op = "upsert" /\ c.keys = {k} /\ c.arg = f
  BY DEF Upsert
<1>3. /\ Contents' = [l \in Key |-> IF l \in {k} THEN f[committed[l]] ELSE committed[l]]
      /\ Report' = 0
  BY <1>2 DEF Completes, Written, Affected, NewValue, Reported
<1>4. Contents' = [Contents EXCEPT ![k] = f[Contents[k]]]
  BY <1>1, <1>3 DEF Completes
<1> QED
  BY <1>3, <1>4, MapWrite DEF Abstract!Upsert, Completes

(* Whatever deletes keys and reports how many there were. *)
LEMMA CompletesDeletion ==
  ASSUME NEW c, c.op = "delete", Completes(c)
  PROVE  LET keys == {k \in c.keys : committed[k] # Absent}
         IN  /\ Contents = committed
             /\ Contents' = [k \in Key |-> IF k \in keys THEN Absent ELSE committed[k]]
             /\ Report' = Cardinality(keys)
<1>1. Affected(c, committed) = {k \in c.keys : committed[k] # Absent}
  BY DEF Affected
<1> QED
  BY <1>1 DEF Completes, Contents, Written, NewValue, Reported

(* A step that completes a deletion of a key. *)
LEMMA CompletesDelete ==
  ASSUME NEW k \in Key, Completes(Delete(k))
  PROVE  Abstract!Delete(k)
<1> DEFINE keys == {l \in {k} : committed[l] # Absent}
<1>1. Delete(k).op = "delete" /\ Delete(k).keys = {k}
  BY DEF Delete
<1>2. /\ Contents = committed
      /\ Contents' = [l \in Key |-> IF l \in keys THEN Absent ELSE committed[l]]
      /\ Report' = Cardinality(keys)
  BY <1>1, CompletesDeletion
<1>3. keys = IF committed[k] = Absent THEN {} ELSE {k}
  OBVIOUS
<1>4. Report' = IF Contents[k] = Absent THEN 0 ELSE 1
  BY <1>2, <1>3, FS_EmptySet, FS_Singleton
<1>5. Contents' = [Contents EXCEPT ![k] = Absent]
  BY <1>2, <1>3 DEF Completes
<1> QED
  BY <1>4, <1>5, MapWrite DEF Abstract!Delete, Completes

(* A step that completes a deletion of the keys in a range. *)
LEMMA CompletesDeleteRange ==
  ASSUME NEW lo, NEW hi, Completes(DeleteRange(lo, hi))
  PROVE  Abstract!DeleteRange(lo, hi)
<1> DEFINE c == DeleteRange(lo, hi)
           doomed == {k \in Abstract!Live : lo <= k /\ k < hi}
<1>1. c.op = "delete" /\ c.keys = Between(lo, hi)
  BY DEF DeleteRange
<1>2. Contents = committed
  BY <1>1, CompletesDeletion
<1>3. {k \in c.keys : committed[k] # Absent} = doomed
  BY <1>1, <1>2 DEF Between, Abstract!Live
<1>4. /\ Contents' = [k \in Key |-> IF k \in doomed THEN Absent ELSE Contents[k]]
      /\ Report' = Cardinality(doomed)
  BY <1>1, <1>2, <1>3, CompletesDeletion
<1>5. Finished = {} /\ Finished' # {}
  BY DEF Completes
<1> HIDE DEF doomed
<1>6. Abstract!Write([k \in Key |-> IF k \in doomed THEN Absent ELSE Contents[k]],
                     Cardinality(doomed))
  BY <1>4, <1>5, MapWrite
<1> QED
  BY <1>6 DEF Abstract!DeleteRange, doomed, Cardinality, Abstract!Cardinality

(* A step that completes a clear. *)
LEMMA CompletesClear ==
  ASSUME Completes(Clear)
  PROVE  Abstract!Clear
<1>1. Clear.op = "clear" /\ Clear.keys = Key
  BY DEF Clear
<1>2. Affected(Clear, committed) = {k \in Key : committed[k] # Absent}
  BY <1>1 DEF Affected
<1>3. Contents' = [k \in Key |-> Absent] /\ Report' = 0
  BY <1>1, <1>2 DEF Completes, Written, NewValue, Reported
<1> QED
  BY <1>3, MapWrite DEF Abstract!Clear, Completes

(* A step that completes a close changes nothing, as does a put of what is *)
(* there, a deletion of what is not, or a clear if there are no keys.      *)
LEMMA CompletesClose ==
  ASSUME Completes(Close)
  PROVE  Abstract!Next
<1>1. Close.op = "close" /\ Close.keys = {}
  BY DEF Close
<1>2. Affected(Close, committed) = {}
  BY <1>1, AffectedKeys
<1>3. Contents = committed /\ Contents' = committed /\ Report' = 0
  BY <1>1, <1>2 DEF Completes, Contents, Written, Reported
<1>4. CASE Key = {}
  <2>1. Contents' = [k \in Key |-> Absent]
    BY <1>3, <1>4 DEF Completes
  <2>2. Abstract!Clear
    BY <1>3, <2>1, MapWrite DEF Abstract!Clear, Completes
  <2> QED
    BY <2>2 DEF Abstract!Next
<1>5. ASSUME NEW k \in Key, committed[k] = Absent PROVE Abstract!Next
  <2>1. Contents' = [Contents EXCEPT ![k] = Absent]
    BY <1>3, <1>5 DEF Completes
  <2>2. Abstract!Delete(k)
    BY <1>3, <1>5, <2>1, MapWrite DEF Abstract!Delete, Completes
  <2> QED
    BY <2>2 DEF Abstract!Next
<1>6. ASSUME NEW k \in Key, committed[k] # Absent PROVE Abstract!Next
  <2>1. committed[k] \in Value
    BY <1>6 DEF Completes, Opt
  <2>2. Contents' = [Contents EXCEPT ![k] = committed[k]]
    BY <1>3, <1>6 DEF Completes
  <2>3. Abstract!Put(k, committed[k])
    BY <1>3, <2>2, MapWrite DEF Abstract!Put, Completes
  <2> QED
    BY <2>1, <2>3 DEF Abstract!Next
<1> QED
  BY <1>4, <1>5, <1>6

(* A step that completes a write is a step of the ordered map. *)
LEMMA CompletesWrite ==
  ASSUME NEW c, Completes(c)
  PROVE  Abstract!Next
<1>1. CASE c \in {Put(k, v) : k \in Key, v \in Value}
  BY <1>1, CompletesPut DEF Abstract!Next
<1>2. CASE c \in {PutIfAbsent(k, v) : k \in Key, v \in Value}
  BY <1>2, CompletesPutIfAbsent DEF Abstract!Next
<1>3. CASE c \in {Upsert(k, f) : k \in Key, f \in Fns}
  BY <1>3, CompletesUpsert DEF Abstract!Next
<1>4. CASE c \in {Delete(k) : k \in Key}
  BY <1>4, CompletesDelete DEF Abstract!Next
<1>5. CASE c \in {DeleteRange(r[1], r[2]) : r \in Bounds}
  <2>1. PICK r \in Bounds : c = DeleteRange(r[1], r[2])
    BY <1>5
  <2>2. Abstract!DeleteRange(r[1], r[2])
    BY <2>1, CompletesDeleteRange
  <2> QED
    BY <2>2 DEF Abstract!Next
<1>6. CASE c \in {Clear, Close}
  BY <1>6, CompletesClear, CompletesClose DEF Abstract!Next
<1>7. c \notin [op : Reads, keys : SUBSET Key, arg : {Absent}]
  BY DEF Completes
<1> QED
  BY <1>1, <1>2, <1>3, <1>4, <1>5, <1>6, <1>7 DEF Methods, Completes

(* Only the mutex's owner can have completed its write. *)
LEMMA OneFinished ==
  ASSUME NEW p \in Proc, TypeOK, pc[p] \in {"drain", "look", "write"}
  PROVE  Finished = IF Done(p) THEN {p} ELSE {}
BY OneWriter DEF Finished, Done

(* A step that leaves the tree and finished writes alone is none of the    *)
(* map.                                                                    *)
LEMMA Unnoticed ==
  ASSUME UNCHANGED <<map, committed>>, Finished' = Finished,
         \A q \in Finished : answer'[q] = answer[q]
  PROVE  UNCHANGED Abstract!vars
<1>1. Contents' = Contents
  BY DEF Contents
<1>2. Report' = Report
  BY DEF Report
<1> QED
  BY <1>1, <1>2 DEF Abstract!vars

(* A goroutine that is not at the end of a write, and goes to where it is  *)
(* not, changes nothing of what others have finished.                      *)
LEMMA ElsewhereUnnoticed ==
  ASSUME IInv, NEW p \in Proc, UNCHANGED <<map, committed>>,
         pc[p] # "write", pc'[p] # "write",
         \A q \in Proc \ {p} :
           pc'[q] = pc[q] /\ left'[q] = left[q] /\ answer'[q] = answer[q]
  PROVE  UNCHANGED Abstract!vars
<1>1. Finished' = Finished /\ p \notin Finished
  BY DEF Finished, Done
<1>2. \A q \in Finished : answer'[q] = answer[q]
  BY <1>1 DEF Finished
<1> QED
  BY <1>1, <1>2, Unnoticed

(* Look completes a write that has no keys to change. *)
LEMMA LookRefines ==
  ASSUME NEW p \in Proc, IInv, IInv', Look(p)
  PROVE  [Abstract!Next]_(Abstract!vars)
<1>1. /\ pc[p] = "look" /\ pc'[p] = "write"
      /\ UNCHANGED <<map, committed, call>>
  BY DEF Look, Goto, IInv, TypeOK
<1>2. Finished = {}
  BY <1>1, OneFinished DEF IInv, Done
<1>3. \A q \in Proc \ {p} : pc[q] \notin {"drain", "look", "write"}
  BY <1>1, OneWriter DEF IInv
<1>4. \A q \in Proc \ {p} : pc'[q] = pc[q]
  BY DEF Look, Goto, IInv, TypeOK
<1>5. Finished' = IF left'[p] = {} THEN {p} ELSE {}
  BY <1>1, <1>3, <1>4 DEF Finished, Done
<1>6. CASE left'[p] # {}
  BY <1>1, <1>2, <1>5, <1>6, Unnoticed
<1>7. CASE left'[p] = {}
  <2>1. /\ map = Written(call[p], {}) /\ answer'[p] = Reported(call[p])
    BY <1>1, <1>7 DEF IInv, HalfWritten, Written, Reported
  <2>2. Contents' = map /\ Report' = answer'[p]
    BY <1>1, <1>5, <1>7 DEF Contents, Report
  <2>3. Completes(call[p])
    BY <1>1, <1>2, <1>5, <1>7, <2>1, <2>2
    DEF Completes, IInv, TypeOK, InCall, Writers
  <2> QED
    BY <2>3, CompletesWrite
<1> QED
  BY <1>6, <1>7

(* WriteKeys completes a write when it changes the last key. *)
LEMMA WriteKeysRefines ==
  ASSUME NEW p \in Proc, IInv, IInv', WriteKeys(p)
  PROVE  [Abstract!Next]_(Abstract!vars)
<1>1. /\ pc[p] = "write" /\ UNCHANGED <<pc, committed, call, answer>>
  BY DEF WriteKeys
<1>2. left[p] # {}
  BY DEF WriteKeys, NextKeys
<1>3. Finished = {}
  BY <1>1, <1>2, OneFinished DEF IInv, Done
<1>4. \A q \in Proc \ {p} : pc[q] \notin {"drain", "look", "write"}
  BY <1>1, OneWriter DEF IInv
<1>5. Finished' = IF left'[p] = {} THEN {p} ELSE {}
  BY <1>1, <1>4 DEF Finished, Done
<1>6. CASE left'[p] # {}
  <2>1. Finished' = {} /\ Contents' = Contents /\ Report' = Report
    BY <1>1, <1>3, <1>5, <1>6 DEF Contents, Report
  <2> QED
    BY <1>3, <2>1 DEF Abstract!vars
<1>7. CASE left'[p] = {}
  <2>1. /\ map' = Written(call[p], {}) /\ answer'[p] = Reported(call[p])
    BY <1>1, <1>7 DEF IInv, HalfWritten, Written, Reported
  <2>2. Contents' = map' /\ Report' = answer'[p]
    BY <1>1, <1>5, <1>7 DEF Contents, Report
  <2>3. Completes(call[p])
    BY <1>1, <1>3, <1>5, <1>7, <2>1, <2>2
    DEF Completes, IInv, TypeOK, InCall, Writers
  <2> QED
    BY <2>3, CompletesWrite
<1> QED
  BY <1>6, <1>7

(* Unlock is the map's Return. *)
LEMMA UnlockRefines ==
  ASSUME NEW p \in Proc, IInv, Unlock(p)
  PROVE  Abstract!Next
<1>1. Done(p) /\ committed' = map /\ UNCHANGED map
  BY DEF Unlock
<1>2. Finished = {p}
  BY <1>1, OneFinished DEF IInv, Done
<1>3. \A q \in Proc : pc'[q] # "write"
  BY <1>1, OneWriter DEF Unlock, Done, IInv, TypeOK
<1>4. Finished' = {}
  BY <1>3 DEF Finished, Done
<1>5. Contents' = Contents /\ Report' = 0
  BY <1>1, <1>2, <1>4 DEF Contents, Report
<1> QED
  BY <1>2, <1>4, <1>5 DEF Abstract!Next, Abstract!Return

(* Every step of the goroutines is one of the ordered map, or none. *)
LEMMA StepRefines ==
  ASSUME IInv, IInv',
         \/ \E p \in Proc, c \in Methods : Start(p, c)
         \/ \E p \in Proc : Proceed(p) \/ Visit(p)
         \/ UNCHANGED vars
  PROVE  [Abstract!Next]_(Abstract!vars)
<1> USE DEF Goto
<1>1. ASSUME NEW p \in Proc, NEW c \in Methods, Start(p, c)
      PROVE  UNCHANGED Abstract!vars
  BY <1>1, ElsewhereUnnoticed DEF Start, Locks, IInv, TypeOK
<1>2. ASSUME NEW p \in Proc, RLock(p) PROVE UNCHANGED Abstract!vars
  BY <1>2, ElsewhereUnnoticed DEF RLock, local, IInv, TypeOK
<1>3. ASSUME NEW p \in Proc, ReadKey(p) PROVE UNCHANGED Abstract!vars
  BY <1>3, ElsewhereUnnoticed DEF ReadKey, IInv, TypeOK
<1>4. ASSUME NEW p \in Proc, RUnlock(p) PROVE UNCHANGED Abstract!vars
  BY <1>4, ElsewhereUnnoticed DEF RUnlock, Returned, IInv, TypeOK
<1>5. ASSUME NEW p \in Proc, Announce(p) PROVE UNCHANGED Abstract!vars
  BY <1>5, ElsewhereUnnoticed DEF Announce, local, IInv, TypeOK
<1>6. ASSUME NEW p \in Proc, Acquire(p) PROVE UNCHANGED Abstract!vars
  BY <1>6, ElsewhereUnnoticed DEF Acquire, local, IInv, TypeOK
<1>7. ASSUME NEW p \in Proc, Visit(p) PROVE UNCHANGED Abstract!vars
  BY <1>7, Unnoticed DEF Visit, local, Finished, Done
<1>8. CASE UNCHANGED vars
  BY <1>8, Unnoticed DEF vars, local, Finished, Done
<1> QED
  BY <1>1, <1>2, <1>3, <1>4, <1>5, <1>6, <1>7, <1>8, LookRefines, WriteKeysRefines,
     UnlockRefines DEF Proceed

(* At first the tree is the empty map. *)
LEMMA InitRefines == Init => Abstract!Init
<1> SUFFICES ASSUME Init PROVE Abstract!Init
  OBVIOUS
<1>1. Finished = {}
  BY DEF Init, Finished, Done
<1> QED
  BY <1>1 DEF Init, Abstract!Init, Contents, Report, Empty

(***************************************************************************)
(* Concurrent writes are those of one ordered map, one after the other,    *)
(* for any number of goroutines, keys and values: what a write has looked  *)
(* at is still true when it changes its keys, nobody sees it half done,    *)
(* and it reports what it did (tree.go:100-401).                           *)
(***************************************************************************)
THEOREM RefinesOrderedMap == Spec => ImplementsOrderedMap
<1>1. IInv /\ IInv' /\ [Next]_vars => [Abstract!Next]_(Abstract!vars)
  BY StepRefines, GoroutinesAssumption DEF Next
<1> QED
  BY <1>1, InitRefines, Invariance, PTL DEF Spec, ImplementsOrderedMap, Abstract!Spec

-----------------------------------------------------------------------------
(* The inductive invariant. *)

(* Close gets to the flusher's Close only after a Sync that succeeded, and *)
(* to that of the tree only after the flusher's.                           *)
Stages ==
  /\ closing \in [Proc -> {"no", "sync", "release", "tree"}]
  /\ synced \in BOOLEAN /\ released \in BOOLEAN
  /\ \A p \in Proc :
       /\ closing[p] = "release" => synced
       /\ pc[p] # "idle" /\ call[p].op = "close" => released

DiskInv == IInv /\ Stages /\ ClosedInOrder

-----------------------------------------------------------------------------

(* The only call that closes a tree is Close. *)
LEMMA OnlyClose ==
  ASSUME NEW c \in Methods, c.op = "close"
  PROVE  c = Close
BY DEF Methods, Put, PutIfAbsent, Upsert, Delete, DeleteRange, Clear, Close, Reads, Loops

(* A step of the disk tree is one of the goroutines that share its tree,   *)
(* or leaves the tree alone.                                               *)
LEMMA DiskStep ==
  ASSUME [DiskNext]_allVars
  PROVE  \/ \E p \in Proc, c \in Methods : Start(p, c)
         \/ \E p \in Proc : Proceed(p) \/ Visit(p)
         \/ UNCHANGED vars
<1>1. ASSUME NEW nilCompare \in BOOLEAN, NEW opts \in OptionLists,
             NewDiskWithCompare(nilCompare, opts)
      PROVE  UNCHANGED vars
  BY <1>1 DEF NewDiskWithCompare
<1>2. ASSUME NEW p \in Proc, NEW c \in Calls[p], Delegate(p, c)
      PROVE  c \in Methods /\ Start(p, c)
  BY <1>2, GoroutinesAssumption DEF Delegate
<1>3. ASSUME NEW p \in Proc, StartClose(p) \/ Sync(p) PROVE UNCHANGED vars
  BY <1>3 DEF StartClose, Sync
<1>4. ASSUME NEW p \in Proc, Release(p) PROVE Start(p, Close) \/ UNCHANGED vars
  BY <1>4 DEF Release
<1>5. Close \in Methods
  BY DEF Methods
<1> QED
  BY <1>1, <1>2, <1>3, <1>4, <1>5 DEF DiskNext, DiskProceed, DiskVisit, allVars

(* The mutex of the tree and the calls in it are as Goroutines says. *)
LEMMA DiskIInv == IInv /\ [DiskNext]_allVars => IInv'
<1> SUFFICES ASSUME IInv, [DiskNext]_allVars PROVE IInv'
  OBVIOUS
<1>1. ASSUME NEW p \in Proc, NEW c \in Methods, Start(p, c) PROVE IInv'
  BY <1>1, StartIInv
<1>2. ASSUME NEW p \in Proc, Proceed(p) PROVE IInv'
  BY <1>2, RLockIInv, ReadKeyIInv, RUnlockIInv, AnnounceIInv, AcquireIInv, LookIInv,
     WriteKeysIInv, UnlockIInv DEF Proceed
<1>3. ASSUME NEW p \in Proc, Visit(p) PROVE IInv'
  BY <1>3, SameIInv DEF Visit
<1>4. CASE UNCHANGED vars
  BY <1>4, SameIInv DEF vars
<1> QED
  BY <1>1, <1>2, <1>3, <1>4, DiskStep

(* At first nothing is closing. *)
LEMMA DiskInitInv == DiskInit => DiskInv
<1> SUFFICES ASSUME DiskInit PROVE DiskInv
  OBVIOUS
<1>1. IInv
  BY InitIInv DEF DiskInit
<1>2. Stages /\ ClosedInOrder
  BY DEF DiskInit, Init, Stages, ClosedInOrder
<1> QED
  BY <1>1, <1>2 DEF DiskInv

(* Delegate starts a call that does not close the tree. *)
LEMMA DelegateStages ==
  ASSUME NEW p \in Proc, NEW c \in Calls[p], DiskInv, Delegate(p, c)
  PROVE  Stages' /\ ClosedInOrder'
<1>1. c \in Methods /\ c.op # "close"
  BY OnlyClose, GoroutinesAssumption, DiskAssumption
<1>2. /\ call' = [call EXCEPT ![p] = c] /\ pc' = [pc EXCEPT ![p] = Locks(c)]
      /\ UNCHANGED <<closed, closing, synced, released>>
  BY DEF Delegate, Start, Goto, diskVars
<1>3. \A q \in Proc \ {p} : pc'[q] = pc[q] /\ call'[q] = call[q]
  BY <1>2 DEF DiskInv, IInv, TypeOK
<1>4. call'[p] = c
  BY <1>2 DEF DiskInv, IInv, TypeOK
<1> QED
  BY <1>1, <1>2, <1>3, <1>4 DEF DiskInv, Stages, ClosedInOrder

(* The steps of a call leave the calls of others alone, and only the end   *)
(* of a Close of the tree closes it.                                       *)
LEMMA ProceedCalls ==
  ASSUME NEW p \in Proc, IInv, Proceed(p)
  PROVE  /\ \A q \in Proc : pc'[q] # "idle" => pc[q] # "idle" /\ call'[q] = call[q]
         /\ closed' => closed \/ (pc[p] # "idle" /\ call[p].op = "close")
<1>1. CASE RLock(p)
  BY <1>1 DEF RLock, Goto, local, IInv, TypeOK
<1>2. CASE ReadKey(p)
  BY <1>2 DEF ReadKey, IInv, TypeOK
<1>3. CASE RUnlock(p)
  BY <1>3 DEF RUnlock, Goto, Returned, IInv, TypeOK
<1>4. CASE Announce(p)
  BY <1>4 DEF Announce, Goto, local, IInv, TypeOK
<1>5. CASE Acquire(p)
  BY <1>5 DEF Acquire, Goto, local, IInv, TypeOK
<1>6. CASE Look(p)
  BY <1>6 DEF Look, Goto, IInv, TypeOK
<1>7. CASE WriteKeys(p)
  BY <1>7 DEF WriteKeys, IInv, TypeOK
<1>8. CASE Unlock(p)
  BY <1>8 DEF Unlock, Done, Returned, IInv, TypeOK
<1> QED
  BY <1>1, <1>2, <1>3, <1>4, <1>5, <1>6, <1>7, <1>8 DEF Proceed

(* DiskProceed closes the tree only if the flusher has been closed. *)
LEMMA DiskProceedStages ==
  ASSUME NEW p \in Proc, DiskInv, DiskProceed(p)
  PROVE  Stages' /\ ClosedInOrder'
<1>1. /\ \A q \in Proc : pc'[q] # "idle" => pc[q] # "idle" /\ call'[q] = call[q]
      /\ closed' => closed \/ (pc[p] # "idle" /\ call[p].op = "close")
  BY ProceedCalls DEF DiskInv, DiskProceed
<1>2. /\ UNCHANGED <<synced, released>>
      /\ closing' = [closing EXCEPT ![p] = "no"] \/ UNCHANGED closing
  BY DEF DiskProceed
<1>3. Stages'
  BY <1>1, <1>2 DEF DiskInv, Stages
<1>4. ClosedInOrder'
  BY <1>1, <1>2 DEF DiskInv, Stages, ClosedInOrder
<1> QED
  BY <1>3, <1>4

(* The steps of Close itself. *)
LEMMA CloseStages ==
  ASSUME NEW p \in Proc, DiskInv, StartClose(p) \/ Sync(p) \/ Release(p)
  PROVE  Stages' /\ ClosedInOrder'
<1>1. CASE StartClose(p)
  BY <1>1 DEF StartClose, vars, local, DiskInv, Stages, ClosedInOrder
<1>2. CASE Sync(p)
  BY <1>2 DEF Sync, vars, local, DiskInv, Stages, ClosedInOrder
<1>3. CASE Release(p) /\ UNCHANGED vars
  BY <1>3 DEF Release, Start, vars, local, DiskInv, Stages, ClosedInOrder
<1>4. CASE /\ Release(p) /\ Start(p, Close)
           /\ released' = TRUE /\ closing' = [closing EXCEPT ![p] = "tree"]
  <2>1. UNCHANGED <<synced, closed>> /\ synced = TRUE
    BY <1>4 DEF Release, Start, DiskInv, Stages
  <2>2. closing' \in [Proc -> {"no", "sync", "release", "tree"}]
    BY <1>4 DEF DiskInv, Stages
  <2> QED
    BY <1>4, <2>1, <2>2, Zenon DEF Stages, ClosedInOrder
<1>5. Release(p) =>
        \/ Release(p) /\ UNCHANGED vars
        \/ /\ Release(p) /\ Start(p, Close)
           /\ released' = TRUE /\ closing' = [closing EXCEPT ![p] = "tree"]
  BY Zenon DEF Release
<1> QED
  BY <1>1, <1>2, <1>3, <1>4, <1>5

(* Every step of the disk tree keeps the invariant. *)
LEMMA DiskNextInv == DiskInv /\ [DiskNext]_allVars => DiskInv'
<1> SUFFICES ASSUME DiskInv, [DiskNext]_allVars PROVE DiskInv'
  OBVIOUS
<1>1. IInv'
  BY DiskIInv DEF DiskInv
<1>2. UNCHANGED <<closed, pc, call, closing, synced, released>> =>
        Stages' /\ ClosedInOrder'
  BY DEF DiskInv, Stages, ClosedInOrder
<1>3. CASE UNCHANGED allVars
  <2>1. UNCHANGED <<closed, pc, call, closing, synced, released>>
    BY <1>3 DEF allVars, vars, local, diskVars
  <2> QED
    BY <1>1, <1>2, <2>1 DEF DiskInv
<1>4. ASSUME NEW nilCompare \in BOOLEAN, NEW opts \in OptionLists,
             NewDiskWithCompare(nilCompare, opts)
      PROVE  Stages' /\ ClosedInOrder'
  <2>1. UNCHANGED <<closed, pc, call, closing, synced, released>>
    BY <1>4 DEF NewDiskWithCompare, vars, local
  <2> QED
    BY <1>2, <2>1
<1>5. ASSUME NEW p \in Proc, DiskVisit(p) PROVE Stages' /\ ClosedInOrder'
  <2>1. UNCHANGED <<closed, pc, call, closing, synced, released>>
    BY <1>5 DEF DiskVisit, Visit, local, diskVars
  <2> QED
    BY <1>2, <2>1
<1>6. ASSUME NEW p \in Proc, NEW c \in Calls[p], Delegate(p, c)
      PROVE  Stages' /\ ClosedInOrder'
  BY <1>6, DelegateStages
<1>7. ASSUME NEW p \in Proc, DiskProceed(p) PROVE Stages' /\ ClosedInOrder'
  BY <1>7, DiskProceedStages
<1>8. ASSUME NEW p \in Proc, StartClose(p) \/ Sync(p) \/ Release(p)
      PROVE  Stages' /\ ClosedInOrder'
  BY <1>8, CloseStages
<1>9. CASE DiskNext
  <2>1. Stages' /\ ClosedInOrder'
    BY <1>4, <1>5, <1>6, <1>7, <1>8, <1>9, Zenon DEF DiskNext
  <2> QED
    BY <1>1, <2>1 DEF DiskInv
<1> QED
  BY <1>3, <1>9

(* The invariant holds of every behaviour. *)
LEMMA DiskInvariance == DiskSpec => []DiskInv
BY DiskInitInv, DiskNextInv, PTL DEF DiskSpec

(***************************************************************************)
(* Whoever calls Close, how often, and whatever fails on the way: the      *)
(* flusher is closed only after a Sync that succeeded, and the tree only   *)
(* after the flusher, for any number of goroutines that close the tree or  *)
(* use it (disktree.go:160-169).                                           *)
(***************************************************************************)
THEOREM ClosesInOrder == DiskSpec => []ClosedInOrder
<1>1. DiskInv => ClosedInOrder
  BY DEF DiskInv
<1> QED
  BY DiskInvariance, <1>1, PTL

(***************************************************************************)
(* The lock of the tree, snapshots and writes are no different when        *)
(* goroutines use it through a DiskBETree and close it meanwhile           *)
(* (disktree.go:111-169).                                                  *)
(***************************************************************************)
THEOREM DiskTypeCorrect == DiskSpec => []TypeOK
<1>1. DiskInv => TypeOK
  BY DEF DiskInv, IInv
<1> QED
  BY DiskInvariance, <1>1, PTL

(***************************************************************************)
(* What a read of a DiskBETree returns is what it holds at one instant.    *)
(***************************************************************************)
THEOREM DiskSnapshots == DiskSpec => []SnapshotOfOneInstant
<1>1. DiskInv => SnapshotOfOneInstant
  BY DEF DiskInv, IInv, Collected, Readers, SnapshotOfOneInstant
<1> QED
  BY DiskInvariance, <1>1, PTL

(***************************************************************************)
(* Writes through a DiskBETree, its Close included, are those of one       *)
(* ordered map, one after the other.                                       *)
(***************************************************************************)
THEOREM DiskRefinesOrderedMap == DiskSpec => ImplementsOrderedMap
<1>1. DiskInit => Abstract!Init
  BY InitRefines DEF DiskInit
<1>2. DiskInv /\ DiskInv' /\ [DiskNext]_allVars => [Abstract!Next]_(Abstract!vars)
  BY DiskStep, StepRefines DEF DiskInv
<1> QED
  BY <1>1, <1>2, DiskInvariance, PTL DEF DiskSpec, ImplementsOrderedMap, Abstract!Spec
=============================================================================
