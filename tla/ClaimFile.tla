----------------------------- MODULE ClaimFile -----------------------------
(***************************************************************************)
(* The claim file of one lease and the operations of the CLI on it: the    *)
(* two-level claim lock (a mutex inside each process, then a polled file   *)
(* lock, shared or exclusive), the unlocked snapshot reads, the guarded    *)
(* transactions that run a provider action under the lock, the staged      *)
(* write that is renamed into place and followed by a directory sync, and  *)
(* the removals.  Processes die and the machine crashes between any two    *)
(* steps; every file-system call can fail.                                 *)
(*                                                                         *)
(* A claim is its revision: the guards compare whole claims, and two       *)
(* publications differ in their random revision whatever else they carry.  *)
(* That a transformation refuses (a foreign repository, an incomplete      *)
(* endpoint) is one of the ways an action ends the operation.              *)
(***************************************************************************)
EXTENDS Integers, FiniteSets

CONSTANTS
    Op,             \* claim operations, each run once
    Process,        \* CLI processes
    ProcessOf,      \* the process that runs an operation
    OpKinds,        \* the kinds of operation an instance runs
    NoClaim,        \* the claim file does not exist
    NoOp,           \* nobody
    MaxRevision,    \* bound on repeated publications by one operation
    MaxCrashes      \* bound on process and machine crashes

AllKinds ==
    {"claim", "claimIfUnchanged", "update", "replace", "persist", "fence",
     "command", "cancel", "resolve", "finalize", "remove"}

ASSUME ConstantsAssumption ==
    /\ ProcessOf \in [Op -> Process]
    /\ OpKinds \subseteq AllKinds
    /\ NoOp \notin Op
    /\ MaxRevision \in Nat
    /\ MaxCrashes \in Nat

Claim == Nat

ASSUME NoClaimAssumption == NoClaim \notin Claim

VARIABLES
    claim,      \* the claim a reader of the path sees
    durable,    \* the claims a machine crash may leave at the path
    issued,     \* revisions drawn so far
    mutex,      \* the holder of each process's claim mutex
    writer,     \* the exclusive holder of the file lock
    readers,    \* the shared holders of the file lock
    pc, kind,   \* where each operation is, and what it is
    expected,   \* the snapshot an operation was called with, or else read
    seen,       \* the claim the operation believes is at the path
    draft,      \* the claim it publishes
    failures,   \* file-system failures it met
    result,     \* what it returned
    crashes,
    authored    \* history: who published which claim

locks == <<mutex, writer, readers>>
files == <<claim, durable, authored>>
vars == <<claim, durable, issued, mutex, writer, readers, pc, kind, expected,
          seen, draft, failures, result, crashes, authored>>

Values == Claim \cup {NoClaim}

SharedKinds == {"command", "cancel"}
GuardedKinds ==
    {"claimIfUnchanged", "update", "replace", "fence", "command", "cancel",
     "resolve", "finalize"}
AbsentOkKinds == {"claimIfUnchanged", "finalize"}
FenceKinds == {"fence", "command", "cancel"}
DurableKinds == {"claimIfUnchanged", "replace", "persist", "resolve"}

Waiting == {"mutex", "flock"}
Locked == {"locked", "action", "stage", "sync", "unlink", "syncUnlink",
           "tombstone", "syncTombstone"}
Ended == {"done", "dead"}

Init ==
    /\ claim \in {NoClaim, 0}
    /\ durable = {claim}
    /\ issued = 0
    /\ mutex = [p \in Process |-> NoOp]
    /\ writer = NoOp
    /\ readers = {}
    /\ pc = [o \in Op |-> "idle"]
    /\ kind = [o \in Op |-> "remove"]
    /\ expected = [o \in Op |-> NoClaim]
    /\ seen = [o \in Op |-> NoClaim]
    /\ draft = [o \in Op |-> NoClaim]
    /\ failures = [o \in Op |-> 0]
    /\ result = [o \in Op |-> "none"]
    /\ crashes = 0
    /\ authored = {<<NoOp, claim>>}

Goto(o, to) == pc' = [pc EXCEPT ![o] = to]

Fails(o) == failures' = [failures EXCEPT ![o] = @ + 1]

(* The operation returns and its deferred unlocks run. *)
Return(o, outcome) ==
    /\ Goto(o, "done")
    /\ result' = [result EXCEPT ![o] = outcome]
    /\ mutex' = [p \in Process |-> IF mutex[p] = o THEN NoOp ELSE mutex[p]]
    /\ writer' = IF writer = o THEN NoOp ELSE writer
    /\ readers' = readers \ {o}

-----------------------------------------------------------------------------
(* Locking *)

Running(o) == pc[o] = "action" /\ kind[o] = "command"

(* The caller reads the claim without a lock and calls the operation with  *)
(* that snapshot.  A cancellation is issued for a command that is running. *)
Begin(o) ==
    /\ pc[o] = "idle"
    /\ \E k \in OpKinds :
          /\ k = "cancel" => \E c \in Op : Running(c)
          /\ kind' = [kind EXCEPT ![o] = k]
          /\ Goto(o, IF k \in SharedKinds THEN "flock" ELSE "mutex")
    /\ expected' = [expected EXCEPT ![o] = claim]
    /\ seen' = [seen EXCEPT ![o] = claim]
    /\ UNCHANGED <<files, locks, issued, draft, failures, result, crashes>>

(* Writers of one process first take its mutex. *)
LockMutex(o) ==
    /\ pc[o] = "mutex"
    /\ mutex[ProcessOf[o]] = NoOp
    /\ mutex' = [mutex EXCEPT ![ProcessOf[o]] = o]
    /\ Goto(o, "flock")
    /\ UNCHANGED <<files, writer, readers, issued, kind, expected, seen,
                   draft, failures, result, crashes>>

(* Mutant: a queued writer keeps new readers out, as sync.RWMutex would. *)
SharedLockFreeWriterFirst(o) ==
    writer = NoOp /\ \A q \in Op : pc[q] = "flock" => kind[q] \in SharedKinds

(* Mutant: the writer does not wait for shared fences. *)
ExclusiveLockFreeIgnoringReaders(o) == writer = NoOp

(* One successful nonblocking try of the file lock. *)
SharedLockFree(o) == writer = NoOp

ExclusiveLockFree(o) == writer = NoOp /\ readers = {}

LockFile(o) ==
    /\ pc[o] = "flock"
    /\ \/ /\ kind[o] \in SharedKinds
          /\ SharedLockFree(o)
          /\ readers' = readers \cup {o}
          /\ UNCHANGED writer
       \/ /\ kind[o] \notin SharedKinds
          /\ ExclusiveLockFree(o)
          /\ writer' = o
          /\ UNCHANGED readers
    /\ Goto(o, "locked")
    /\ UNCHANGED <<files, mutex, issued, kind, expected, seen, draft,
                   failures, result, crashes>>

(* The caller's context ends while the operation waits or has just locked, *)
(* or the claim cannot be read: nothing has happened yet.                  *)
GiveUp(o) ==
    /\ pc[o] \in Waiting \cup {"locked"}
    /\ Return(o, "error")
    /\ UNCHANGED <<files, issued, kind, expected, seen, draft, failures,
                   crashes>>

(* Mutant: the guard compares only the presence of the claim. *)
GuardPresenceOnly(o) ==
    kind[o] \in GuardedKinds =>
        /\ (claim = NoClaim) <=> (expected[o] = NoClaim)
        /\ claim = NoClaim => kind[o] \in AbsentOkKinds

(* The guard an operation evaluates on the claim it reads under the lock. *)
Guard(o) ==
    kind[o] \in GuardedKinds =>
        /\ claim = expected[o]
        /\ claim = NoClaim => kind[o] \in AbsentOkKinds

(* Under the lock: read the claim again and evaluate the guard. *)
ReadUnderLock(o) ==
    /\ pc[o] = "locked"
    /\ \/ /\ Guard(o)
          /\ Goto(o, IF kind[o] = "remove" THEN "unlink" ELSE "action")
          /\ seen' = [seen EXCEPT ![o] = claim]
          /\ expected' = [expected EXCEPT
                ![o] = IF kind[o] \in GuardedKinds THEN @ ELSE claim]
          /\ UNCHANGED <<locks, result>>
       \/ /\ ~Guard(o)
          /\ Return(o, "refused")
          /\ UNCHANGED <<seen, expected>>
    /\ UNCHANGED <<files, issued, kind, draft, failures, crashes>>

-----------------------------------------------------------------------------
(* The action under the lock and what follows it *)

(* Mutant: a replaced claim keeps the revision it has. *)
KeepRevision(o) == IF claim = NoClaim THEN issued + 1 ELSE claim

(* A revision is drawn from 16 random bytes: it is a new one. *)
RefreshRevision(o) == issued + 1

(* The action succeeded, the claim is transformed and a revision drawn. *)
PreparePublication(o) ==
    /\ pc[o] = "action"
    /\ kind[o] \notin FenceKinds \cup {"finalize", "remove"}
    /\ kind[o] = "persist" => issued < MaxRevision
    /\ draft' = [draft EXCEPT ![o] = RefreshRevision(o)]
    /\ issued' = issued + 1
    /\ Goto(o, "stage")
    /\ UNCHANGED <<files, locks, kind, expected, seen, failures, result,
                   crashes>>

(* The action ends the operation: it failed, it decided to keep the        *)
(* claim, the transformation refused, or the fence has nothing to publish. *)
(* A running command ends when it is cancelled.                            *)
Cancelled(o) ==
    kind[o] = "command" =>
        \E c \in Op : kind[c] = "cancel" /\ pc[c] = "done" /\ result[c] = "ok"

EndAction(o) ==
    /\ pc[o] = "action"
    /\ Cancelled(o)
    /\ Return(o, IF kind[o] \in FenceKinds \/ draft[o] # NoClaim
                   THEN "ok" ELSE "kept")
    /\ UNCHANGED <<files, issued, kind, expected, seen, draft, failures,
                   crashes>>

(* Provider cleanup finished: the claim goes away. *)
ActionAllowsRemoval(o) ==
    /\ pc[o] = "action"
    /\ kind[o] = "finalize"
    /\ Goto(o, "unlink")
    /\ UNCHANGED <<files, locks, issued, kind, expected, seen, draft,
                   failures, result, crashes>>

-----------------------------------------------------------------------------
(* The file system *)

Written(o) ==
    /\ claim' = draft[o]
    /\ seen' = [seen EXCEPT ![o] = draft[o]]
    /\ durable' = durable \cup {draft[o]}
    /\ authored' = authored \cup {<<o, draft[o]>>}

(* A definitive create conflict removes the claim, whether or not its      *)
(* non-destructive form could be published first; a durable transaction    *)
(* goes on with its action; every other operation returns.                 *)
AfterPublication(o, failed) ==
    \/ /\ kind[o] = "resolve"
       /\ Goto(o, "unlink")
       /\ UNCHANGED <<locks, result>>
    \/ /\ kind[o] = "persist" /\ ~failed
       /\ Goto(o, "action")
       /\ UNCHANGED <<locks, result>>
    \/ /\ kind[o] # "resolve"
       /\ kind[o] = "persist" => failed
       /\ Return(o, IF failed THEN "error" ELSE "ok")

(* The staged file cannot be written, synced or renamed. *)
StageFails(o) ==
    /\ pc[o] = "stage"
    /\ Fails(o)
    /\ AfterPublication(o, TRUE)
    /\ UNCHANGED <<files, issued, kind, expected, seen, draft, crashes>>

(* The staged file, complete and synced, is renamed over the claim. *)
Rename(o) ==
    /\ pc[o] = "stage"
    /\ Written(o)
    /\ Goto(o, "sync")
    /\ UNCHANGED <<locks, issued, kind, expected, draft, failures, result,
                   crashes>>

(* The directory is synced.  Only durable writes report a failure of it,   *)
(* and they report it although the rename has happened.                    *)
SyncDirectory(o) ==
    /\ pc[o] = "sync"
    /\ \/ /\ durable' = {claim}
          /\ AfterPublication(o, FALSE)
          /\ UNCHANGED failures
       \/ /\ Fails(o)
          /\ AfterPublication(o, kind[o] \in DurableKinds)
          /\ UNCHANGED durable
    /\ UNCHANGED <<claim, authored, issued, kind, expected, seen, draft,
                   crashes>>

(* Mutant: the unlink is taken to be on disk at once. *)
UnlinkForgotten(o) ==
    /\ pc[o] = "unlink"
    /\ claim' = NoClaim
    /\ seen' = [seen EXCEPT ![o] = NoClaim]
    /\ Goto(o, "syncUnlink")
    /\ UNCHANGED <<durable, locks, result, authored, issued, kind, expected,
                   draft, failures, crashes>>

(* The claim is unlinked.  Removing an absent claim is no error where the  *)
(* operation admits an absent claim; the unconditional removal neither     *)
(* syncs nor reports.                                                      *)
Unlink(o) ==
    /\ pc[o] = "unlink"
    /\ claim' = NoClaim
    /\ durable' = durable \cup {NoClaim}
    /\ seen' = [seen EXCEPT ![o] = NoClaim]
    /\ IF kind[o] = "remove"
         THEN Return(o, "kept")
         ELSE Goto(o, "syncUnlink") /\ UNCHANGED <<locks, result>>
    /\ UNCHANGED <<authored, issued, kind, expected, draft, failures, crashes>>

UnlinkFails(o) ==
    /\ pc[o] = "unlink"
    /\ claim # NoClaim
    /\ Fails(o)
    /\ Return(o, IF kind[o] = "remove" THEN "kept" ELSE "error")
    /\ UNCHANGED <<files, issued, kind, expected, seen, draft, crashes>>

SyncUnlink(o) ==
    /\ pc[o] = "syncUnlink"
    /\ durable' = {claim}
    /\ Return(o, "ok")
    /\ UNCHANGED <<claim, authored, issued, kind, expected, seen, draft,
                   failures, crashes>>

(* Mutant: the failed sync of a removal is ignored. *)
SyncUnlinkIgnored(o) ==
    /\ pc[o] = "syncUnlink"
    /\ Fails(o)
    /\ Return(o, "ok")
    /\ UNCHANGED <<files, issued, kind, expected, seen, draft, crashes>>

(* Mutant: no tombstone is written when the removal is not durable. *)
SyncUnlinkNoTombstone(o) ==
    /\ pc[o] = "syncUnlink"
    /\ Fails(o)
    /\ Return(o, IF kind[o] = "resolve" THEN "unsynced" ELSE "error")
    /\ UNCHANGED <<files, issued, kind, expected, seen, draft, crashes>>

(* The removal may not be durable: a definitive conflict puts the          *)
(* non-destructive claim back so that a crash cannot revive the original.  *)
SyncUnlinkFails(o) ==
    /\ pc[o] = "syncUnlink"
    /\ Fails(o)
    /\ IF kind[o] = "resolve"
         THEN Goto(o, "tombstone") /\ UNCHANGED <<locks, result>>
         ELSE Return(o, "error")
    /\ UNCHANGED <<files, issued, kind, expected, seen, draft, crashes>>

TombstoneRename(o) ==
    /\ pc[o] = "tombstone"
    /\ Written(o)
    /\ Goto(o, "syncTombstone")
    /\ UNCHANGED <<locks, issued, kind, expected, draft, failures, result,
                   crashes>>

TombstoneSync(o) ==
    /\ pc[o] = "syncTombstone"
    /\ durable' = {claim}
    /\ Return(o, "unsynced")
    /\ UNCHANGED <<claim, authored, issued, kind, expected, seen, draft,
                   failures, crashes>>

TombstoneFails(o) ==
    /\ pc[o] \in {"tombstone", "syncTombstone"}
    /\ Fails(o)
    /\ Return(o, "unsynced")
    /\ UNCHANGED <<files, issued, kind, expected, seen, draft, crashes>>

-----------------------------------------------------------------------------
(* Faults *)

Dead(ops) ==
    pc' = [o \in Op |-> IF o \in ops /\ pc[o] \notin {"idle"} \cup Ended
                          THEN "dead" ELSE pc[o]]

(* A process dies: the kernel drops its locks, the path is unaffected. *)
ProcessCrash(p) ==
    LET ops == {o \in Op : ProcessOf[o] = p}
    IN  /\ crashes < MaxCrashes
        /\ crashes' = crashes + 1
        /\ Dead(ops)
        /\ mutex' = [mutex EXCEPT ![p] = NoOp]
        /\ writer' = IF writer \in ops THEN NoOp ELSE writer
        /\ readers' = readers \ ops
        /\ UNCHANGED <<files, issued, kind, expected, seen, draft, failures,
                       result>>

(* The machine stops and the file system comes back. *)
MachineCrash ==
    /\ crashes < MaxCrashes
    /\ crashes' = crashes + 1
    /\ Dead(Op)
    /\ claim' \in durable
    /\ durable' = {claim'}
    /\ mutex' = [p \in Process |-> NoOp]
    /\ writer' = NoOp
    /\ readers' = {}
    /\ UNCHANGED <<authored, issued, kind, expected, seen, draft, failures,
                   result>>

-----------------------------------------------------------------------------

Step(o) ==
    \/ LockMutex(o) \/ LockFile(o) \/ ReadUnderLock(o)
    \/ PreparePublication(o) \/ EndAction(o) \/ ActionAllowsRemoval(o)
    \/ StageFails(o) \/ Rename(o) \/ SyncDirectory(o)
    \/ Unlink(o) \/ UnlinkFails(o) \/ SyncUnlink(o) \/ SyncUnlinkFails(o)
    \/ TombstoneRename(o) \/ TombstoneSync(o) \/ TombstoneFails(o)

Next ==
    \/ \E o \in Op : Begin(o) \/ Step(o) \/ GiveUp(o)
    \/ \E p \in Process : ProcessCrash(p)
    \/ MachineCrash

Spec == Init /\ [][Next]_vars

-----------------------------------------------------------------------------
(* Properties *)

(* The shape of the state; what a reader of the path sees is one of the    *)
(* values a crash may leave (writeLeaseClaimAtomic, removeControllerFile). *)
TypeOK ==
    /\ claim \in Values
    /\ durable \subseteq Values
    /\ claim \in durable
    /\ issued \in Nat
    /\ mutex \in [Process -> Op \cup {NoOp}]
    /\ writer \in Op \cup {NoOp}
    /\ readers \subseteq Op
    /\ pc \in [Op -> {"idle"} \cup Waiting \cup Locked \cup Ended]
    /\ kind \in [Op -> AllKinds]
    /\ expected \in [Op -> Values]
    /\ seen \in [Op -> Values]
    /\ draft \in [Op -> Values]
    /\ failures \in [Op -> Nat]
    /\ result \in [Op -> {"none", "ok", "unsynced", "kept", "refused", "error"}]
    /\ crashes \in Nat
    /\ authored \subseteq (Op \cup {NoOp}) \X Values

(* The provider action of a guarded operation runs only while the claim at *)
(* the path is the snapshot the caller decided on, from its first instant  *)
(* to its last; and the action of an operation that can publish or remove  *)
(* runs while no other operation acts, only shared fences overlapping      *)
(* (transactLeaseClaim, withLeaseClaimUnchangedContext).                   *)
Fenced ==
    \A o \in Op :
        pc[o] = "action" =>
            /\ (kind[o] \in GuardedKinds => claim = expected[o])
            /\ \A q \in Op \ {o} :
                  pc[q] \in Locked =>
                      kind[o] \in SharedKinds /\ kind[q] \in SharedKinds

(* An operation that reports a durable publication or a removal leaves no  *)
(* trace of the claim it superseded: no crash, then or later, brings it    *)
(* back (writeLeaseClaimAtomicDurable, finalizeLeaseClaimIfUnchanged).     *)
SupersededIsGone ==
    \A o \in Op :
        /\ result[o] = "ok"
        /\ kind[o] \in DurableKinds \cup {"finalize"}
        /\ expected[o] # NoClaim
        => expected[o] \notin durable

(* A definitive create conflict never leaves the destructive claim behind, *)
(* at the path or for a crash to revive, after fewer than two file-system  *)
(* failures; and once the claim was unlinked it takes three, because the   *)
(* non-destructive tombstone is written again                              *)
(* (ResolveLeaseClaimAfterActionIfUnchanged).                              *)
ConflictDisowned ==
    \A o \in Op :
        /\ kind[o] = "resolve"
        /\ pc[o] = "done"
        /\ draft[o] # NoClaim
        /\ expected[o] \in durable
        => failures[o] >= (IF result[o] = "unsynced" THEN 3 ELSE 2)

(* The claim file implements the register of ClaimRegister: every          *)
(* publication and removal overwrites exactly the claim its operation was  *)
(* called with or read under the lock, whatever other processes did in     *)
(* between, and no two operations publish the same claim.                  *)
Register ==
    INSTANCE ClaimRegister WITH
        Client <- Op,
        Nobody <- NoOp,
        value <- claim,
        bound <- {o \in Op : pc[o] # "idle" /\ kind[o] \in GuardedKinds}

RegisterSpec == Register!Spec

(* Every operation that started ends, also the writers that poll behind a  *)
(* running command: a cancellation always joins the command's shared       *)
(* fence.  The exception is a command that nobody is cancelling.           *)
Cancelling == \E c \in Op : kind[c] = "cancel" /\ pc[c] \in Waiting \cup Locked

OperationsEnd ==
    \A o \in Op :
        pc[o] \in Waiting \cup Locked
            ~> \/ pc[o] \in Ended
               \/ \E c \in Op : Running(c) /\ ~Cancelled(c) /\ ~Cancelling

Fairness == \A o \in Op : WF_vars(Step(o))

FairSpec == Spec /\ Fairness
=============================================================================
