----------------------------- MODULE Goroutines -----------------------------
(***************************************************************************)
(* Goroutines that share a tree: who holds t.mu when (tree.go and          *)
(* iterator.go), and what runs after it has been released.                 *)
(*                                                                         *)
(* A call takes the lock, does its work in several steps and releases the  *)
(* lock.  The tree itself is the map that BETree implements; a write first *)
(* looks at its keys and then changes them one at a time, a read collects  *)
(* its keys one at a time.  Reading while a writer is at work is a data    *)
(* race, which may find anything.                                          *)
(*                                                                         *)
(* An iterator keeps the pairs it has collected.  The body of a loop over  *)
(* it may call the tree: between two pairs the goroutine is free to make   *)
(* any call but a further loop.  What a cursor does with its pairs is in   *)
(* Cursor.                                                                 *)
(***************************************************************************)
EXTENDS Integers, FiniteSets, SequencesExt

CONSTANTS
  Proc,    \* the goroutines
  Key,     \* the keys
  Value,   \* the values
  Fns,     \* the upsert functions, each in [Opt -> Value]
  Absent,  \* not a value: the key is not there
  Calls,   \* the calls each goroutine makes
  Nobody   \* no goroutine, no call

Opt == Value \cup {Absent}
Empty == [k \in Key |-> Absent]

(* Calls: the method, the keys it is about, and its argument.  Scans of a   *)
(* range differ from All and Descend in their keys only, and Contains and  *)
(* Len from Get in their answer.                                           *)
Between(lo, hi) == {k \in Key : lo <= k /\ k < hi}

Put(k, v) == [op |-> "put", keys |-> {k}, arg |-> v]
PutIfAbsent(k, v) == [op |-> "putIfAbsent", keys |-> {k}, arg |-> v]
Upsert(k, f) == [op |-> "upsert", keys |-> {k}, arg |-> f]
Delete(k) == [op |-> "delete", keys |-> {k}, arg |-> Absent]
DeleteRange(lo, hi) == [op |-> "delete", keys |-> Between(lo, hi), arg |-> Absent]
Clear == [op |-> "clear", keys |-> Key, arg |-> Absent]
Close == [op |-> "close", keys |-> {}, arg |-> Absent]
Get(k) == [op |-> "get", keys |-> {k}, arg |-> Absent]
All == [op |-> "ascend", keys |-> Key, arg |-> Absent]
Descend == [op |-> "descend", keys |-> Key, arg |-> Absent]
Cursor == [op |-> "cursor", keys |-> Key, arg |-> Absent]

Writes == {"put", "putIfAbsent", "upsert", "delete", "clear", "close"}
Loops == {"ascend", "descend"}
Reads == {"get", "cursor"} \cup Loops

(* The bounds of a DeleteRange: the keys between any others, if there are  *)
(* any, are those between two of these.                                    *)
Bounds == Key \X {k + 1 : k \in Key}

Methods ==
  {Put(k, v) : k \in Key, v \in Value} \cup
  {PutIfAbsent(k, v) : k \in Key, v \in Value} \cup
  {Upsert(k, f) : k \in Key, f \in Fns} \cup
  {Delete(k) : k \in Key} \cup {DeleteRange(r[1], r[2]) : r \in Bounds} \cup
  {Clear, Close} \cup [op : Reads, keys : SUBSET Key, arg : {Absent}]

ASSUME GoroutinesAssumption ==
  /\ Key \subseteq Nat \ {0} /\ IsFiniteSet(Key)
  /\ Absent \notin Value
  /\ Fns \subseteq [Opt -> Value]
  /\ Nobody \notin Proc
  /\ Calls \in [Proc -> SUBSET Methods]

VARIABLES
  map,       \* what the tree holds
  closed,    \* whether Close has been called, which nothing depends on
  committed, \* what it held when a writer last released the lock
  owner,     \* the writer that holds t.mu, or waits for readers to leave
  readers,   \* the readers that hold t.mu
  blocked,   \* the readers that wait for owner
  pc,        \* where each goroutine is
  call,      \* the call it is in
  left,      \* the keys the call has still to read or write
  found,     \* what it has found for its keys
  answer,    \* what a write will report
  iter       \* the pairs its loop has still to visit

mutex == <<owner, readers, blocked>>
local == <<call, left, found, answer>>
vars == <<map, closed, committed, mutex, pc, local, iter>>

Goto(p, label) == pc' = [pc EXCEPT ![p] = label]

-----------------------------------------------------------------------------
(* A goroutine calls a method. *)

(* The lock a method takes first, and what it goes on to without one. *)
Locks_ScanForgets(c) ==
  CASE c.op \in Loops -> "read"
    [] c.op \in Reads \ Loops -> "rlock"
    [] OTHER -> "lock"

Locks_UpsertForgets(c) ==
  CASE c.op \in Reads -> "rlock"
    [] c.op = "upsert" -> "look"
    [] OTHER -> "lock"

Locks(c) == IF c.op \in Reads THEN "rlock" ELSE "lock"

Start(p, c) ==
  /\ pc[p] = "idle"
  /\ c.op \in Loops => iter[p] = <<>>
  /\ Goto(p, Locks(c))
  /\ call' = [call EXCEPT ![p] = c]
  /\ left' = [left EXCEPT ![p] = IF c.op \in Reads THEN c.keys ELSE {}]
  /\ UNCHANGED <<map, closed, committed, mutex, found, answer, iter>>

-----------------------------------------------------------------------------
(* Reads. *)

(* sync.RWMutex.RLock: a writer that waits comes first. *)
RLock(p) ==
  /\ pc[p] = "rlock"
  /\ \/ /\ owner = Nobody
        /\ readers' = readers \cup {p}
        /\ Goto(p, "read")
        /\ UNCHANGED blocked
     \/ /\ owner # Nobody
        /\ blocked' = blocked \cup {p}
        /\ Goto(p, "wait")
        /\ UNCHANGED readers
  /\ UNCHANGED <<map, closed, committed, owner, local, iter>>

Writing == \E q \in Proc : pc[q] = "write" /\ left[q] # {}

(* The tree is walked in key order. *)
ReadKey(p) ==
  /\ pc[p] = "read"
  /\ \E k \in left[p] :
       /\ \A l \in left[p] : k <= l
       /\ \E o \in (IF Writing THEN Opt ELSE {map[k]}) :
            found' = [found EXCEPT ![p][k] = o]
       /\ left' = [left EXCEPT ![p] = @ \ {k}]
  /\ UNCHANGED <<map, closed, committed, mutex, pc, call, answer, iter>>

(* The live pairs that were found, in ascending order. *)
Pairs(f) ==
  LET ks == SetToSortSeq({k \in Key : f[k] # Absent}, <)
  IN  [i \in DOMAIN ks |-> <<ks[i], f[ks[i]]>>]

(* What a read leaves with its caller. *)
Handed(p) ==
  iter' = [iter EXCEPT ![p] =
             CASE call[p].op = "ascend"  -> Pairs(found[p])
               [] call[p].op = "descend" -> Reverse(Pairs(found[p]))
               [] OTHER                  -> @]

Returned(p) ==
  /\ call' = [call EXCEPT ![p] = Nobody]
  /\ left' = [left EXCEPT ![p] = {}]
  /\ found' = [found EXCEPT ![p] = Empty]
  /\ answer' = [answer EXCEPT ![p] = 0]

RUnlock_NotByLoops(p) ==
  /\ pc[p] = "read" /\ left[p] = {}
  /\ readers' = IF call[p].op \in Loops THEN readers ELSE readers \ {p}
  /\ Goto(p, "idle")
  /\ Handed(p)
  /\ Returned(p)
  /\ UNCHANGED <<map, closed, committed, owner, blocked>>

RUnlock(p) ==
  /\ pc[p] = "read" /\ left[p] = {}
  /\ readers' = readers \ {p}
  /\ Goto(p, "idle")
  /\ Handed(p)
  /\ Returned(p)
  /\ UNCHANGED <<map, closed, committed, owner, blocked>>

-----------------------------------------------------------------------------
(* Writes. *)

(* sync.RWMutex.Lock: one writer at a time waits for the readers to leave. *)
Announce(p) ==
  /\ pc[p] = "lock" /\ owner = Nobody
  /\ owner' = p
  /\ Goto(p, "drain")
  /\ UNCHANGED <<map, closed, committed, readers, blocked, local, iter>>

Acquire(p) ==
  /\ pc[p] = "drain" /\ readers = {}
  /\ Goto(p, "look")
  /\ UNCHANGED <<map, closed, committed, mutex, local, iter>>

(* The keys that a write changes, from what it has found. *)
Affected(c, f) ==
  CASE c.op \in {"put", "upsert"} -> c.keys
    [] c.op = "putIfAbsent"       -> {k \in c.keys : f[k] = Absent}
    [] OTHER                      -> {k \in c.keys : f[k] # Absent}

(* The keys are looked up first: what is there decides what to do. *)
Look(p) ==
  /\ pc[p] = "look"
  /\ LET keys == Affected(call[p], map)
     IN  /\ left' = [left EXCEPT ![p] = keys]
         /\ answer' = [answer EXCEPT ![p] =
              IF call[p].op \in {"putIfAbsent", "delete"} THEN Cardinality(keys)
                                                          ELSE 0]
  /\ found' = [found EXCEPT ![p] = [k \in Key |-> IF k \in call[p].keys
                                                  THEN map[k] ELSE Absent]]
  /\ Goto(p, "write")
  /\ UNCHANGED <<map, closed, committed, mutex, call, iter>>

NewValue(c, o) ==
  CASE c.op \in {"put", "putIfAbsent"} -> c.arg
    [] c.op = "upsert"                 -> c.arg[o]
    [] OTHER                           -> Absent

(* Clear replaces the root and with it all keys, other writes go by key. *)
NextKeys(p) ==
  IF call[p].op = "clear" THEN {left[p]} \ {{}} ELSE {{k} : k \in left[p]}

WriteKeys(p) ==
  /\ pc[p] = "write"
  /\ \E ks \in NextKeys(p) :
       /\ map' = [k \in Key |-> IF k \in ks THEN NewValue(call[p], found[p][k])
                                            ELSE map[k]]
       /\ left' = [left EXCEPT ![p] = @ \ ks]
  /\ UNCHANGED <<closed, committed, mutex, pc, call, found, answer, iter>>

Done(p) == pc[p] = "write" /\ left[p] = {}

(* sync.RWMutex.Unlock: all readers that waited go ahead. *)
Unlock(p) ==
  /\ Done(p)
  /\ committed' = map
  /\ closed' = (closed \/ call[p].op = "close")
  /\ owner' = Nobody
  /\ readers' = readers \cup blocked
  /\ blocked' = {}
  /\ pc' = [q \in Proc |-> IF q = p THEN "idle"
                           ELSE IF q \in blocked THEN "read" ELSE pc[q]]
  /\ Returned(p)
  /\ UNCHANGED <<map, iter>>

-----------------------------------------------------------------------------
(* What a goroutine does without the lock. *)

(* The loop goes on to its next pair, or is left with a break. *)
Visit(p) ==
  /\ pc[p] = "idle" /\ iter[p] # <<>>
  /\ \/ iter' = [iter EXCEPT ![p] = Tail(@)]
     \/ iter' = [iter EXCEPT ![p] = <<>>]
  /\ UNCHANGED <<map, closed, committed, mutex, pc, local>>

-----------------------------------------------------------------------------

Init ==
  /\ map = Empty /\ closed = FALSE /\ committed = Empty
  /\ owner = Nobody /\ readers = {} /\ blocked = {}
  /\ pc = [p \in Proc |-> "idle"]
  /\ call = [p \in Proc |-> Nobody]
  /\ left = [p \in Proc |-> {}]
  /\ found = [p \in Proc |-> Empty]
  /\ answer = [p \in Proc |-> 0]
  /\ iter = [p \in Proc |-> <<>>]

(* The steps of a call once it has been made. *)
Proceed(p) ==
  \/ RLock(p) \/ ReadKey(p) \/ RUnlock(p)
  \/ Announce(p) \/ Acquire(p) \/ Look(p) \/ WriteKeys(p) \/ Unlock(p)

Next ==
  \E p \in Proc :
    \/ \E c \in Calls[p] : Start(p, c)
    \/ Proceed(p)
    \/ Visit(p)

Spec == Init /\ [][Next]_vars

(***************************************************************************)
(* A goroutine in a call keeps running unless the mutex makes it wait, and *)
(* sync.Mutex, which writers queue at, hands over to one that has waited.  *)
(* Nothing is assumed of the callers.                                      *)
(***************************************************************************)
FairSpec ==
  Spec /\ \A p \in Proc : WF_vars(Proceed(p)) /\ SF_vars(Announce(p))

-----------------------------------------------------------------------------

Labels == {"idle", "rlock", "wait", "read", "lock", "drain", "look", "write"}

(* Types, and that each goroutine is where the mutex takes it to be. *)
TypeOK ==
  /\ map \in [Key -> Opt] /\ committed \in [Key -> Opt] /\ closed \in BOOLEAN
  /\ pc \in [Proc -> Labels]
  /\ call \in [Proc -> Methods \cup {Nobody}]
  /\ left \in [Proc -> SUBSET Key]
  /\ found \in [Proc -> [Key -> Opt]]
  /\ answer \in [Proc -> Nat]
  /\ readers = {p \in Proc : pc[p] = "read"}
  /\ blocked = {p \in Proc : pc[p] = "wait"}
  /\ {p \in Proc : pc[p] \in {"drain", "look", "write"}} = {owner} \ {Nobody}

(***************************************************************************)
(* What Get, an iterator or a cursor has collected when it releases the    *)
(* lock is all that the tree holds at that instant (iterator.go:25-27,     *)
(* tree.go:395-397): no half-done DeleteRange, and no write missing that   *)
(* had returned.                                                           *)
(***************************************************************************)
SnapshotOfOneInstant ==
  \A p \in Proc : pc[p] = "read" /\ left[p] = {} =>
    found[p] = [k \in Key |-> IF k \in call[p].keys THEN committed[k] ELSE Absent]

(***************************************************************************)
(* Concurrent writes are those of one ordered map, one after the other:    *)
(* what a write has looked at is still true when it changes its keys, and  *)
(* it reports what it did (tree.go:100-401).                               *)
(***************************************************************************)
Finished == {p \in Proc : Done(p)}
Contents == IF Finished = {} THEN committed ELSE map
Report == IF Finished = {} THEN 0 ELSE answer[CHOOSE p \in Finished : TRUE]
Abstract ==
  INSTANCE OrderedMap WITH
    Puts <- Value, Ranges <- Bounds,
    map <- Contents, busy <- Finished # {}, result <- Report
ImplementsOrderedMap == Abstract!Spec

(***************************************************************************)
(* Every call returns: readers do not keep a writer out for ever, nor      *)
(* writers a reader, and a loop body may write to the tree it iterates     *)
(* over, since iterators have released the lock (iterator.go:28-38).       *)
(***************************************************************************)
CallsReturn == \A p \in Proc : pc[p] # "idle" ~> pc[p] = "idle"
=============================================================================
