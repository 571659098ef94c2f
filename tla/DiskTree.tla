------------------------------ MODULE DiskTree ------------------------------
(***************************************************************************)
(* A DiskBETree (disktree.go): its construction, the operations that it    *)
(* hands on to its tree, and Close, which several goroutines may call, and *)
(* call again, while others use the tree.  The Flusher is the user's: each *)
(* of its calls may fail, and may not return.  WriteNode and ReadNode are  *)
(* never called, and codecs are stored and never used.                     *)
(***************************************************************************)
EXTENDS Goroutines, Options

CONSTANTS
  OptionLists,  \* the lists of options a DiskBETree is made with
  NoTree        \* there is no DiskBETree yet

(* A DiskBETree has a Close of its own: its tree's is not for its callers. *)
ASSUME DiskAssumption == \A p \in Proc : Close \notin Calls[p]

VARIABLES
  disk,     \* the parameters of the tree, once it has been made
  err,      \* the error of the last constructor, "nil" if none
  closing,  \* where each goroutine is in DiskBETree.Close
  synced,   \* the flusher's Sync has succeeded
  released  \* the flusher's Close has succeeded

diskVars == <<disk, err, closing, synced, released>>
allVars == <<vars, diskVars>>

DiskInit ==
  /\ Init
  /\ disk = NoTree /\ err = "nil"
  /\ closing = [p \in Proc |-> "no"]
  /\ synced = FALSE
  /\ released = FALSE

(* The comparator is looked at first, then the options; then the tree is   *)
(* made.  After an error the caller may try again.                         *)
NewDiskWithCompare(nilCompare, opts) ==
  LET o == resolveOptions(opts)
      errors == IF nilCompare THEN {"ErrNilCompare"} ELSE validateOptions(o)
  IN  /\ disk = NoTree
      /\ \/ errors # {} /\ err' \in errors /\ UNCHANGED disk
         \/ errors = {} /\ err' = "nil" /\ disk' \in deriveParams(o)
      /\ UNCHANGED <<vars, closing, synced, released>>

Made == disk # NoTree

(* Any other operation is the tree's. *)
Delegate(p, c) ==
  /\ Made /\ closing[p] = "no"
  /\ Start(p, c)
  /\ UNCHANGED diskVars

-----------------------------------------------------------------------------
(* DiskBETree.Close, without a lock until its last step. *)

StartClose_Locked(p) ==
  /\ Made /\ closing[p] = "no" /\ pc[p] = "idle"
  /\ owner = Nobody /\ owner' = p
  /\ closing' = [closing EXCEPT ![p] = "sync"]
  /\ UNCHANGED <<map, closed, committed, readers, blocked, pc, local, iter>>
  /\ UNCHANGED <<disk, err, synced, released>>

StartClose(p) ==
  /\ Made /\ closing[p] = "no" /\ pc[p] = "idle"
  /\ closing' = [closing EXCEPT ![p] = "sync"]
  /\ UNCHANGED <<vars, disk, err, synced, released>>

Sync_ErrorIgnored(p) ==
  /\ closing[p] = "sync"
  /\ \E ok \in BOOLEAN :
       /\ synced' = (synced \/ ok)
       /\ closing' = [closing EXCEPT ![p] = "release"]
  /\ UNCHANGED <<vars, disk, err, released>>

Sync(p) ==
  /\ closing[p] = "sync"
  /\ \E ok \in BOOLEAN :
       /\ synced' = (synced \/ ok)
       /\ closing' = [closing EXCEPT ![p] = IF ok THEN "release" ELSE "no"]
  /\ UNCHANGED <<vars, disk, err, released>>

(* The flusher's Close, and the call of the tree's Close after it. *)
Release(p) ==
  /\ closing[p] = "release"
  /\ \/ /\ released' = TRUE
        /\ closing' = [closing EXCEPT ![p] = "tree"]
        /\ Start(p, Close)
     \/ /\ closing' = [closing EXCEPT ![p] = "no"]
        /\ UNCHANGED <<vars, released>>
  /\ UNCHANGED <<disk, err, synced>>

(* The steps of a call in the tree.  DiskBETree.Close returns with it. *)
DiskProceed(p) ==
  /\ Proceed(p)
  /\ closing' = IF pc'[p] = "idle" THEN [closing EXCEPT ![p] = "no"] ELSE closing
  /\ UNCHANGED <<disk, err, synced, released>>


DiskVisit(p) == closing[p] = "no" /\ Visit(p) /\ UNCHANGED diskVars

DiskNext ==
  \/ \E nilCompare \in BOOLEAN, opts \in OptionLists : NewDiskWithCompare(nilCompare, opts)
  \/ \E p \in Proc :
       \/ \E c \in Calls[p] : Delegate(p, c)
       \/ DiskProceed(p) \/ DiskVisit(p)
       \/ StartClose(p) \/ Sync(p) \/ Release(p)

(* As in Goroutines: nothing is assumed of the flusher. *)
DiskSpec ==
  /\ DiskInit /\ [][DiskNext]_allVars
  /\ \A p \in Proc :
       /\ WF_allVars(DiskProceed(p))
       /\ SF_allVars(DiskProceed(p) /\ Announce(p))

-----------------------------------------------------------------------------


(***************************************************************************)
(* Whoever calls Close, how often, and whatever fails on the way: the      *)
(* flusher is closed only after a Sync that succeeded, and the tree only   *)
(* after the flusher (disktree.go:160-169).                                *)
(***************************************************************************)
ClosedInOrder == (closed => released) /\ (released => synced)

(***************************************************************************)
(* Operations that have been called return even if the flusher never       *)
(* does: Close holds no lock while it syncs (disktree.go:161-167).         *)
(***************************************************************************)
FlusherBlocksNobody == \A p \in Proc : pc[p] # "idle" ~> pc[p] = "idle"

(***************************************************************************)
(* Close returns, with an error or without, if the flusher's calls do:     *)
(* whatever the others do with the tree, its last step gets the lock       *)
(* (disktree.go:161-169, tree.go:290-295).                                 *)
(***************************************************************************)
FlusherReturns == \A p \in Proc : WF_allVars(Sync(p)) /\ WF_allVars(Release(p))
CloseReturns == FlusherReturns => \A p \in Proc : closing[p] # "no" ~> closing[p] = "no"
=============================================================================
