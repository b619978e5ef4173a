-------------------------- MODULE ClaimFileProofs --------------------------
(***************************************************************************)
(* Proofs about ClaimFile, for any operations, processes and crashes.      *)
(***************************************************************************)
EXTENDS ClaimFile, TLAPS

-----------------------------------------------------------------------------
(***************************************************************************)
(* The inductive invariant.                                                *)
(***************************************************************************)
\* An operation that evaluated its guard and still holds the lock.
Acting == Locked \ {"locked"}

\* One that has something of its own to write, or to remove.
Mutating == Acting \ {"action"}

PublishKinds == {"claim", "claimIfUnchanged", "update", "replace", "persist", "resolve"}

\* Which kinds of operation are where, and what a result says of it.
PhaseInv ==
    \A o \in Op :
        /\ pc[o] \in {"stage", "sync"} => kind[o] \in PublishKinds
        /\ pc[o] = "unlink" => kind[o] \in {"finalize", "resolve", "remove"}
        /\ pc[o] = "syncUnlink" => kind[o] \in {"finalize", "resolve"}
        /\ pc[o] \in {"tombstone", "syncTombstone"} => kind[o] = "resolve"
        /\ pc[o] = "action" /\ draft[o] # NoClaim => kind[o] = "persist"
        /\ pc[o] # "done" => result[o] = "none"

\* The file lock: many shared holders or one exclusive one.
LockInv ==
    /\ \A o \in Op : pc[o] \in Locked =>
          IF kind[o] \in SharedKinds THEN o \in readers ELSE writer = o
    /\ readers # {} => writer = NoOp

\* Revisions are drawn in order: no value is of a revision not drawn yet.
Known(v) == v = NoClaim \/ v \in 0 .. issued

KnownInv ==
    /\ \A v \in durable : Known(v)
    /\ \A o \in Op : Known(expected[o]) /\ Known(seen[o]) /\ Known(draft[o])
    /\ \A pair \in authored : Known(pair[2])

\* A draft is its operation's own.
DraftInv ==
    /\ \A o \in Op :
          /\ pc[o] \in {"stage", "sync", "tombstone", "syncTombstone"} => draft[o] # NoClaim
          /\ pc[o] \in {"idle", "locked"} \cup Waiting => draft[o] = NoClaim
          /\ draft[o] # NoClaim =>
               /\ draft[o] # expected[o]
               /\ \A pair \in authored : pair[2] = draft[o] => pair[1] = o
               /\ \A q \in Op : draft[q] = draft[o] => q = o

\* What an operation believes of the path.
SeenInv ==
    \A o \in Op :
        /\ pc[o] \in Waiting \cup {"locked"} => seen[o] = expected[o]
        /\ pc[o] \in Acting => claim = seen[o]
        /\ pc[o] = "action" /\ kind[o] \in GuardedKinds => claim = expected[o]
        /\ pc[o] \in {"sync", "syncTombstone"} => claim = draft[o]
        /\ pc[o] \in {"syncUnlink", "tombstone"} => claim = NoClaim

\* No draft under way can bring back a claim that somebody acted on.
ActedOn(o) == pc[o] \in Acting \/ result[o] = "ok" \/ draft[o] # NoClaim

SupersededInv ==
    /\ SupersededIsGone
    /\ \A o, q \in Op :
          /\ o # q /\ ActedOn(o) /\ pc[q] \in Mutating
          => draft[q] = NoClaim \/ draft[q] # expected[o]
    /\ \A o \in Op :
          kind[o] = "persist" /\ pc[o] = "action" /\ draft[o] # NoClaim
          => durable = {draft[o]}

\* How many failures it takes for a destructive claim to linger.
ConflictInv ==
    /\ ConflictDisowned
    /\ \A o \in Op : kind[o] = "resolve" =>
          /\ pc[o] \in Acting \/ draft[o] # NoClaim => expected[o] # NoClaim
          /\ pc[o] \in Mutating => draft[o] # NoClaim
          /\ pc[o] \in {"unlink", "syncUnlink"} /\ expected[o] \in durable => failures[o] >= 1
          /\ pc[o] \in {"tombstone", "syncTombstone"} /\ expected[o] \in durable
             => failures[o] >= 2

IInv ==
    /\ TypeOK /\ PhaseInv /\ LockInv /\ KnownInv /\ DraftInv /\ SeenInv
    /\ SupersededInv /\ ConflictInv
-----------------------------------------------------------------------------
(***************************************************************************)
(* Facts about the operators.                                              *)
(***************************************************************************)
\* Returning keeps the types: the locks are given back, the rest is a label.
LEMMA ReturnType ==
    ASSUME NEW o \in Op, NEW outcome \in {"none", "ok", "unsynced", "kept", "refused", "error"},
           TypeOK, Return(o, outcome)
    PROVE  /\ pc' \in [Op -> {"idle"} \cup Waiting \cup Locked \cup Ended]
           /\ result' \in [Op -> {"none", "ok", "unsynced", "kept", "refused", "error"}]
           /\ mutex' \in [Process -> Op \cup {NoOp}]
           /\ writer' \in Op \cup {NoOp}
           /\ readers' \subseteq Op
  BY DEF TypeOK, Return, Goto, Ended

\* So does whatever follows a publication.
LEMMA AfterPublicationType ==
    ASSUME NEW o \in Op, NEW failed, TypeOK, AfterPublication(o, failed)
    PROVE  /\ pc' \in [Op -> {"idle"} \cup Waiting \cup Locked \cup Ended]
           /\ result' \in [Op -> {"none", "ok", "unsynced", "kept", "refused", "error"}]
           /\ mutex' \in [Process -> Op \cup {NoOp}]
           /\ writer' \in Op \cup {NoOp}
           /\ readers' \subseteq Op
<1>1. CASE Return(o, IF failed THEN "error" ELSE "ok")
  BY <1>1, ReturnType
<1>2. CASE Goto(o, "unlink") /\ UNCHANGED <<locks, result>>
  BY <1>2 DEF TypeOK, Goto, locks, Locked
<1>3. CASE Goto(o, "action") /\ UNCHANGED <<locks, result>>
  BY <1>3 DEF TypeOK, Goto, locks, Locked
<1>4. QED
  BY <1>1, <1>2, <1>3 DEF AfterPublication

\* A written claim is the operation's draft.
LEMMA WrittenType ==
    ASSUME NEW o \in Op, IInv, Written(o)
    PROVE  /\ claim' \in Values /\ durable' \subseteq Values /\ claim' \in durable'
           /\ seen' \in [Op -> Values]
           /\ authored' \subseteq (Op \cup {NoOp}) \X Values
<1>1. draft[o] \in Values
  BY DEF IInv, TypeOK
<1>2. <<o, draft[o]>> \in (Op \cup {NoOp}) \X Values
  BY <1>1
<1>3. authored' \subseteq (Op \cup {NoOp}) \X Values
  BY <1>2 DEF IInv, TypeOK, Written
<1>4. QED
  BY <1>1, <1>3 DEF IInv, TypeOK, Written

\* Who knows which revision concerns only the values that are held somewhere.
LEMMA KnownFrame ==
    ASSUME KnownInv, UNCHANGED <<durable, issued, expected, seen, draft, authored>>
    PROVE  KnownInv'
  BY DEF KnownInv, Known

-----------------------------------------------------------------------------
(***************************************************************************)
(* The invariant holds at the start and every action keeps it.             *)
(***************************************************************************)
\* Nothing has been drawn, published or locked yet.
LEMMA InitInv == Init => IInv
<1>1. SUFFICES ASSUME Init PROVE IInv
  OBVIOUS
<1>2. TypeOK
  BY <1>1, ConstantsAssumption DEF Init, TypeOK, Values, Claim, Waiting, Locked, Ended, AllKinds
<1>3. PhaseInv /\ LockInv /\ DraftInv /\ SeenInv
  BY <1>1 DEF Init, PhaseInv, LockInv, DraftInv, SeenInv, Waiting, Locked, Acting
<1>4. KnownInv
  BY <1>1 DEF Init, KnownInv, Known
<1>5. SupersededInv
  BY <1>1 DEF Init, SupersededInv, SupersededIsGone, ActedOn, Acting, Mutating, Locked
<1>6. ConflictInv
  BY <1>1 DEF Init, ConflictInv, ConflictDisowned, Acting, Mutating, Locked
<1>7. QED
  BY <1>2, <1>3, <1>4, <1>5, <1>6 DEF IInv

\* An operation that starts knows what is at the path and holds nothing.
LEMMA BeginStep ==
    ASSUME NEW o \in Op, IInv, Begin(o) PROVE IInv'
<1>1. TypeOK'
  BY ConstantsAssumption, NoClaimAssumption DEF IInv, Begin, Goto, TypeOK, SharedKinds,
     files, locks, Waiting
<1>2. PhaseInv'
  BY DEF IInv, Begin, Goto, PhaseInv, SharedKinds, files, locks, PublishKinds, TypeOK
<1>3. LockInv'
  BY DEF IInv, Begin, Goto, LockInv, SharedKinds, files, locks, Locked, TypeOK
<1>4. KnownInv'
  BY DEF IInv, Begin, Goto, KnownInv, SharedKinds, files, locks, Known, TypeOK
<1>5. DraftInv'
  BY DEF IInv, Begin, Goto, DraftInv, SharedKinds, files, locks, Waiting, TypeOK
<1>6. SeenInv'
  BY DEF IInv, Begin, Goto, SeenInv, SharedKinds, files, locks, Waiting, Acting,
     GuardedKinds, Locked, TypeOK
<1>7. SupersededInv'
  BY ConstantsAssumption, NoClaimAssumption DEF IInv, Begin, Goto, SupersededInv,
     TypeOK, SeenInv, DraftInv, LockInv, KnownInv, PhaseInv, SharedKinds, files,
     ActedOn, SupersededIsGone, Waiting, Locked, Values, Acting
<1>8. ConflictInv'
  BY NoClaimAssumption DEF IInv, Begin, Goto, ConflictInv, TypeOK, SeenInv, DraftInv,
     LockInv, KnownInv, PhaseInv, SharedKinds, files, locks, Acting, Mutating,
     ConflictDisowned, Waiting, Locked
<1>9. QED
  BY <1>1, <1>2, <1>3, <1>4, <1>5, <1>6, <1>7, <1>8 DEF IInv

\* The mutex of a process is one of the process's own.
LEMMA LockMutexStep ==
    ASSUME NEW o \in Op, IInv, LockMutex(o) PROVE IInv'
<1>1. TypeOK'
  <2>1. ProcessOf[o] \in Process
    BY ConstantsAssumption
  <2>2. mutex' \in [Process -> Op \cup {NoOp}]
    BY <2>1 DEF IInv, TypeOK, LockMutex
  <2>3. pc' \in [Op -> {"idle"} \cup Waiting \cup Locked \cup Ended]
    BY DEF IInv, TypeOK, LockMutex, Goto, Waiting
  <2>4. QED
    BY <2>2, <2>3 DEF IInv, TypeOK, LockMutex, files
<1>2. PhaseInv'
  BY DEF IInv, LockMutex, Goto, PhaseInv, files, PublishKinds, TypeOK
<1>3. LockInv'
  BY DEF IInv, LockMutex, Goto, LockInv, files, Locked, SharedKinds, TypeOK
<1>4. KnownInv'
  BY KnownFrame DEF IInv, LockMutex, files
<1>5. DraftInv'
  BY DEF IInv, LockMutex, Goto, DraftInv, files, Waiting, TypeOK
<1>6. SeenInv'
  BY DEF IInv, LockMutex, Goto, SeenInv, files, Waiting, Acting, GuardedKinds, Locked,
     TypeOK
<1>7. SupersededInv'
  BY DEF IInv, LockMutex, Goto, SupersededInv, files, Mutating, ActedOn,
     SupersededIsGone, Acting, DurableKinds, Locked, TypeOK
<1>8. ConflictInv'
  BY DEF IInv, LockMutex, Goto, ConflictInv, files, Acting, Mutating, ConflictDisowned,
     Locked, TypeOK
<1>9. QED
  BY <1>1, <1>2, <1>3, <1>4, <1>5, <1>6, <1>7, <1>8 DEF IInv

\* The file lock is taken when nobody holds it in a conflicting way.
LEMMA LockFileStep ==
    ASSUME NEW o \in Op, IInv, LockFile(o) PROVE IInv'
<1>1. TypeOK'
  BY DEF IInv, LockFile, Goto, SharedLockFree, ExclusiveLockFree, TypeOK, SharedKinds,
     files, Waiting, Locked
<1>2. PhaseInv'
  BY DEF IInv, LockFile, Goto, SharedLockFree, ExclusiveLockFree, PhaseInv, SharedKinds,
     files, PublishKinds, TypeOK
<1>3. LockInv'
  BY ConstantsAssumption, NoClaimAssumption DEF IInv, LockFile, Goto, SharedLockFree,
     ExclusiveLockFree, LockInv
<1>4. KnownInv'
  BY KnownFrame DEF IInv, LockFile, files
<1>5. DraftInv'
  BY DEF IInv, LockFile, Goto, SharedLockFree, ExclusiveLockFree, DraftInv, SharedKinds,
     files, Waiting, TypeOK
<1>6. SeenInv'
  BY DEF IInv, LockFile, Goto, SharedLockFree, ExclusiveLockFree, SeenInv, SharedKinds,
     files, Waiting, Acting, GuardedKinds, Locked, TypeOK
<1>7. SupersededInv'
  BY DEF IInv, LockFile, Goto, SharedLockFree, ExclusiveLockFree, SupersededInv,
     SharedKinds, files, Mutating, ActedOn, SupersededIsGone, Acting, DurableKinds
<1>8. ConflictInv'
  BY DEF IInv, LockFile, Goto, SharedLockFree, ExclusiveLockFree, ConflictInv,
     SharedKinds, files, Acting, Mutating, ConflictDisowned, Locked, TypeOK
<1>9. QED
  BY <1>1, <1>2, <1>3, <1>4, <1>5, <1>6, <1>7, <1>8 DEF IInv

\* Giving up before the guard gives back the locks.
LEMMA GiveUpStep ==
    ASSUME NEW o \in Op, IInv, GiveUp(o) PROVE IInv'
<1>1. TypeOK'
  BY DEF IInv, GiveUp, Return, Goto, TypeOK, Waiting, files, Locked, Ended, AllKinds,
     Values, Claim
<1>2. PhaseInv'
  BY DEF IInv, GiveUp, Return, Goto, PhaseInv, Waiting, files, PublishKinds, TypeOK
<1>3. LockInv'
  BY DEF IInv, GiveUp, Return, Goto, LockInv, Waiting, files, Locked, SharedKinds,
     TypeOK
<1>4. KnownInv'
  BY KnownFrame DEF IInv, GiveUp, files
<1>5. DraftInv'
  BY DEF IInv, GiveUp, Return, Goto, DraftInv, Waiting, files, TypeOK
<1>6. SeenInv'
  BY DEF IInv, GiveUp, Return, Goto, SeenInv, Waiting, files, Acting, GuardedKinds,
     Locked, TypeOK
<1>7. SupersededInv'
  BY DEF IInv, GiveUp, Return, Goto, SupersededInv, Waiting, files, Mutating, ActedOn,
     SupersededIsGone, Acting, DurableKinds, Locked, TypeOK
<1>8. ConflictInv'
  BY NoClaimAssumption DEF IInv, GiveUp, Return, Goto, ConflictInv, TypeOK, SeenInv,
     DraftInv, LockInv, KnownInv, files, Acting, Mutating, ConflictDisowned, Locked,
     Ended
<1>9. QED
  BY <1>1, <1>2, <1>3, <1>4, <1>5, <1>6, <1>7, <1>8 DEF IInv

\* The guard makes the snapshot the claim.
LEMMA ReadUnderLockStep ==
    ASSUME NEW o \in Op, IInv, ReadUnderLock(o) PROVE IInv'
<1>1. TypeOK'
  BY DEF IInv, ReadUnderLock, Return, Goto, Guard, TypeOK, GuardedKinds, files, locks,
     AbsentOkKinds, Waiting, Locked, Ended, AllKinds
<1>2. PhaseInv'
  BY DEF IInv, ReadUnderLock, Return, Goto, Guard, PhaseInv, TypeOK, DraftInv,
     GuardedKinds
<1>3. LockInv'
  BY DEF IInv, ReadUnderLock, Return, Goto, Guard, LockInv, GuardedKinds, files, locks,
     AbsentOkKinds, Locked, SharedKinds, TypeOK
<1>4. KnownInv'
  BY DEF IInv, ReadUnderLock, Return, Goto, Guard, KnownInv, GuardedKinds, files, locks,
     AbsentOkKinds, Known, TypeOK
<1>5. DraftInv'
  BY DEF IInv, ReadUnderLock, Return, Goto, Guard, DraftInv, GuardedKinds, files, locks,
     AbsentOkKinds, Waiting, TypeOK
<1>6. SeenInv'
  BY DEF IInv, ReadUnderLock, Return, Goto, Guard, SeenInv, GuardedKinds, files,
     Waiting, Acting, Locked, TypeOK
<1>7. SupersededInv'
  BY ConstantsAssumption, NoClaimAssumption DEF IInv, ReadUnderLock, Return, Goto,
     Guard, SupersededInv, TypeOK, SeenInv, DraftInv, LockInv, KnownInv, PhaseInv,
     GuardedKinds, files, locks, AbsentOkKinds, Mutating, ActedOn, SupersededIsGone,
     Waiting, Locked, Ended, AllKinds, Values, Acting, SharedKinds, Known, PublishKinds
<1>8. ConflictInv'
  BY ConstantsAssumption, NoClaimAssumption DEF IInv, ReadUnderLock, Return, Goto,
     Guard, ConflictInv, TypeOK, SeenInv, DraftInv, LockInv, KnownInv, PhaseInv,
     GuardedKinds, files, locks, AbsentOkKinds, Acting, Mutating, ConflictDisowned,
     Waiting, Locked
<1>9. QED
  BY <1>1, <1>2, <1>3, <1>4, <1>5, <1>6, <1>7, <1>8 DEF IInv

\* The drawn revision is in use nowhere.
LEMMA PreparePublicationStep ==
    ASSUME NEW o \in Op, IInv, PreparePublication(o) PROVE IInv'
<1>1. TypeOK'
  BY DEF IInv, PreparePublication, Goto, RefreshRevision, TypeOK, FenceKinds, files,
     locks, Waiting, Locked, Values, Claim
<1>2. PhaseInv'
  BY DEF IInv, PreparePublication, Goto, RefreshRevision, PhaseInv, TypeOK, FenceKinds,
     files, locks, PublishKinds, Ended, AllKinds
<1>3. LockInv'
  BY DEF IInv, PreparePublication, Goto, RefreshRevision, LockInv, FenceKinds, files,
     locks, Locked, SharedKinds, TypeOK
<1>4. KnownInv'
  BY DEF IInv, PreparePublication, Goto, RefreshRevision, KnownInv, FenceKinds, files,
     locks, Known, TypeOK
<1>5. DraftInv'
  BY ConstantsAssumption, NoClaimAssumption DEF IInv, PreparePublication, Goto,
     RefreshRevision, DraftInv, TypeOK, KnownInv, PhaseInv, FenceKinds, files, locks,
     Waiting, Locked, Values, Known, PublishKinds, Claim
<1>6. SeenInv'
  BY DEF IInv, PreparePublication, Goto, RefreshRevision, SeenInv, FenceKinds, files,
     locks, Waiting, Acting, GuardedKinds, Locked, TypeOK
<1>7. SupersededInv'
  BY ConstantsAssumption, NoClaimAssumption DEF IInv, PreparePublication, Goto,
     RefreshRevision, SupersededInv, TypeOK, SeenInv, DraftInv, LockInv, KnownInv,
     PhaseInv, FenceKinds, files, locks, Mutating, ActedOn, SupersededIsGone, Waiting,
     Locked, Values, Acting, Known, PublishKinds
<1>8. ConflictInv'
  BY ConstantsAssumption, NoClaimAssumption DEF IInv, PreparePublication, Goto,
     RefreshRevision, ConflictInv, TypeOK, SeenInv, files, locks, Acting, Mutating,
     ConflictDisowned, Waiting, Locked, PublishKinds, Claim
<1>9. QED
  BY <1>1, <1>2, <1>3, <1>4, <1>5, <1>6, <1>7, <1>8 DEF IInv

\* Only a durable transaction ends its action with something published.
LEMMA EndActionStep ==
    ASSUME NEW o \in Op, IInv, EndAction(o) PROVE IInv'
<1>1. TypeOK'
  BY DEF IInv, EndAction, Return, Goto, TypeOK, FenceKinds, files, Waiting, Locked,
     Ended, AllKinds, Values, Claim
<1>2. PhaseInv'
  BY DEF IInv, EndAction, Return, Goto, PhaseInv, FenceKinds, files, PublishKinds,
     TypeOK
<1>3. LockInv'
  BY DEF IInv, EndAction, Return, Goto, LockInv, FenceKinds, files, Locked, SharedKinds,
     TypeOK
<1>4. KnownInv'
  BY KnownFrame DEF IInv, EndAction, files
<1>5. DraftInv'
  BY DEF IInv, EndAction, Return, Goto, DraftInv, FenceKinds, files, Waiting, TypeOK
<1>6. SeenInv'
  BY DEF IInv, EndAction, Return, Goto, SeenInv, FenceKinds, files, Waiting, Acting,
     GuardedKinds, Locked, TypeOK
<1>7. SupersededInv' /\ ConflictInv'
  <2>1. UNCHANGED <<durable, kind, expected, draft, failures>>
    BY DEF EndAction, files
  <2>2. pc[o] = "action" /\ pc' = [pc EXCEPT ![o] = "done"]
    BY DEF EndAction, Return, Goto
  <2>3. result' = [result EXCEPT ![o] = IF kind[o] \in FenceKinds \/ draft[o] # NoClaim
                                          THEN "ok" ELSE "kept"]
    BY DEF EndAction, Return
  <2>4. draft[o] # NoClaim => kind[o] = "persist" /\ durable = {draft[o]} /\ draft[o] # expected[o]
    BY <2>2 DEF IInv, PhaseInv, SupersededInv, DraftInv
  <2>5. SupersededIsGone'
    <3>1. ASSUME NEW q \in Op, result'[q] = "ok", kind[q] \in DurableKinds \cup {"finalize"},
                 expected[q] # NoClaim
          PROVE  expected[q] \notin durable
      <4>1. CASE q = o
        BY <2>3, <2>4, <3>1, <4>1 DEF IInv, TypeOK, DurableKinds, FenceKinds
      <4>2. CASE q # o
        BY <2>3, <3>1, <4>2 DEF IInv, TypeOK, SupersededInv, SupersededIsGone
      <4>3. QED
        BY <4>1, <4>2
    <3>2. QED
      BY <2>1, <3>1 DEF SupersededIsGone
  <2>6. SupersededInv'
    BY <2>1, <2>2, <2>3, <2>5 DEF IInv, TypeOK, SupersededInv, ActedOn, Acting, Mutating, Locked
  <2>7. ConflictDisowned'
    BY <2>1, <2>2, <2>3, <2>4 DEF IInv, TypeOK, ConflictInv, ConflictDisowned
  <2>8. ConflictInv'
    BY <2>1, <2>2, <2>7 DEF IInv, TypeOK, ConflictInv, Acting, Mutating, Locked
  <2>9. QED
    BY <2>6, <2>8
<1>8. QED
  BY <1>1, <1>2, <1>3, <1>4, <1>5, <1>6, <1>7 DEF IInv

\* A removal has no draft.
LEMMA ActionAllowsRemovalStep ==
    ASSUME NEW o \in Op, IInv, ActionAllowsRemoval(o) PROVE IInv'
<1>1. TypeOK'
  BY DEF IInv, ActionAllowsRemoval, Goto, TypeOK, files, locks, Waiting, Locked, Ended,
     AllKinds, Values, Claim
<1>2. PhaseInv'
  BY DEF IInv, ActionAllowsRemoval, Goto, PhaseInv, files, locks, PublishKinds, TypeOK
<1>3. LockInv'
  BY DEF IInv, ActionAllowsRemoval, Goto, LockInv, files, locks, Locked, SharedKinds,
     TypeOK
<1>4. KnownInv'
  BY KnownFrame DEF IInv, ActionAllowsRemoval, files
<1>5. DraftInv'
  BY DEF IInv, ActionAllowsRemoval, Goto, DraftInv, files, locks, Waiting, TypeOK
<1>6. SeenInv'
  BY DEF IInv, ActionAllowsRemoval, Goto, SeenInv, files, locks, Waiting, Acting,
     GuardedKinds, Locked, TypeOK
<1>7. SupersededInv'
  <2>1. UNCHANGED <<durable, kind, expected, draft, result>>
    BY DEF ActionAllowsRemoval, files
  <2>2. pc' = [pc EXCEPT ![o] = "unlink"] /\ pc[o] = "action" /\ draft[o] = NoClaim
    BY DEF ActionAllowsRemoval, Goto, IInv, PhaseInv
  <2>3. SupersededIsGone'
    BY <2>1 DEF IInv, SupersededInv, SupersededIsGone
  <2>4. QED
    BY <2>1, <2>2, <2>3 DEF IInv, TypeOK, SupersededInv, ActedOn, Acting, Mutating, Locked
<1>8. ConflictInv'
  BY DEF IInv, ActionAllowsRemoval, Goto, ConflictInv, files, locks, Acting, Mutating,
     ConflictDisowned, Locked, TypeOK
<1>9. QED
  BY <1>1, <1>2, <1>3, <1>4, <1>5, <1>6, <1>7, <1>8 DEF IInv

\* A publication that failed before the rename changed nothing.
LEMMA StageFailsStep ==
    ASSUME NEW o \in Op, IInv, StageFails(o) PROVE IInv'
<1>1. TypeOK'
  BY DEF IInv, StageFails, Fails, AfterPublication, Return, Goto, TypeOK, files, locks,
     Waiting, Locked, Ended, AllKinds
<1>2. PhaseInv'
  BY DEF IInv, StageFails, Fails, AfterPublication, Return, Goto, PhaseInv, files,
     locks, PublishKinds, TypeOK
<1>3. LockInv'
  BY DEF IInv, StageFails, Fails, AfterPublication, Return, Goto, LockInv, files, locks,
     Locked, SharedKinds, TypeOK
<1>4. KnownInv'
  BY KnownFrame DEF IInv, StageFails, files
<1>5. DraftInv'
  BY DEF IInv, StageFails, Fails, AfterPublication, Return, Goto, DraftInv, files,
     locks, Waiting, TypeOK
<1>6. SeenInv'
  BY DEF IInv, StageFails, Fails, AfterPublication, Return, Goto, SeenInv, files, locks,
     Waiting, Acting, GuardedKinds, Locked, TypeOK
<1>7. SupersededInv'
  BY DEF IInv, StageFails, Fails, AfterPublication, Return, Goto, SupersededInv, files,
     locks, Mutating, ActedOn, SupersededIsGone, Acting, DurableKinds, Locked, TypeOK
<1>8. ConflictInv'
  BY DEF IInv, StageFails, Fails, AfterPublication, Return, Goto, ConflictInv, files,
     locks, Acting, Mutating, ConflictDisowned, Locked, TypeOK
<1>9. QED
  BY <1>1, <1>2, <1>3, <1>4, <1>5, <1>6, <1>7, <1>8 DEF IInv

\* The renamed claim is the operation's own, and nobody else acts.
LEMMA RenameStep ==
    ASSUME NEW o \in Op, IInv, Rename(o) PROVE IInv'
<1>1. TypeOK'
  <2>1. pc' \in [Op -> {"idle"} \cup Waiting \cup Locked \cup Ended]
    BY DEF IInv, TypeOK, Rename, Goto, Locked
  <2>2. QED
    BY <2>1, WrittenType DEF IInv, TypeOK, Rename, locks
<1>2. PhaseInv'
  BY DEF IInv, Rename, Written, Goto, PhaseInv, locks, PublishKinds, TypeOK
<1>3. LockInv'
  BY DEF IInv, Rename, Written, Goto, LockInv, locks, Locked, SharedKinds, TypeOK
<1>4. KnownInv'
  BY DEF IInv, Rename, Written, Goto, KnownInv, locks, Known, TypeOK
<1>5. DraftInv'
  BY DEF IInv, Rename, Written, Goto, DraftInv, locks, Waiting, TypeOK
<1>6. SeenInv'
  BY ConstantsAssumption, NoClaimAssumption DEF IInv, Rename, Written, Goto, SeenInv,
     TypeOK, LockInv, PhaseInv, DraftInv, locks, Waiting, Acting, GuardedKinds, Locked,
     Values, SharedKinds, PublishKinds, Claim
<1>7. SupersededInv'
  BY ConstantsAssumption, NoClaimAssumption DEF IInv, Rename, Written, Goto,
     SupersededInv, TypeOK, SeenInv, DraftInv, LockInv, KnownInv, PhaseInv, locks,
     Mutating, ActedOn, SupersededIsGone, Waiting, Locked, Values, Acting, GuardedKinds,
     SharedKinds
<1>8. ConflictInv'
  BY ConstantsAssumption, NoClaimAssumption DEF IInv, Rename, Written, Goto,
     ConflictInv, TypeOK, PhaseInv, LockInv, KnownInv, DraftInv, SeenInv, SupersededInv,
     Waiting, Locked, Ended, Acting, Mutating, locks, Known, ActedOn, SupersededIsGone,
     ConflictDisowned
<1>9. QED
  BY <1>1, <1>2, <1>3, <1>4, <1>5, <1>6, <1>7, <1>8 DEF IInv

\* A synced directory forgets the superseded claim; a failure counts.
LEMMA SyncDirectoryStep ==
    ASSUME NEW o \in Op, IInv, SyncDirectory(o) PROVE IInv'
<1>1. TypeOK'
  <2>1. TypeOK
    BY DEF IInv
  <2>2. /\ pc' \in [Op -> {"idle"} \cup Waiting \cup Locked \cup Ended]
        /\ result' \in [Op -> {"none", "ok", "unsynced", "kept", "refused", "error"}]
        /\ mutex' \in [Process -> Op \cup {NoOp}]
        /\ writer' \in Op \cup {NoOp}
        /\ readers' \subseteq Op
    <3>1. CASE AfterPublication(o, FALSE)
      BY <2>1, <3>1, AfterPublicationType
    <3>2. CASE AfterPublication(o, kind[o] \in DurableKinds)
      BY <2>1, <3>2, AfterPublicationType
    <3>3. QED
      BY <3>1, <3>2, Zenon DEF SyncDirectory
  <2>3. durable' \subseteq Values /\ claim' \in durable'
    BY <2>1 DEF TypeOK, SyncDirectory
  <2>4. failures' \in [Op -> Nat]
    <3>1. failures' = failures \/ Fails(o)
      BY Zenon DEF SyncDirectory
    <3>2. QED
      BY <2>1, <3>1 DEF TypeOK, Fails
  <2>5. UNCHANGED <<claim, authored, issued, kind, expected, seen, draft, crashes>>
    BY Zenon DEF SyncDirectory
  <2>6. QED
    BY <2>1, <2>2, <2>3, <2>4, <2>5 DEF TypeOK
<1>2. PhaseInv'
  BY DEF IInv, SyncDirectory, Fails, AfterPublication, Return, Goto, PhaseInv,
     DurableKinds, locks, PublishKinds, TypeOK
<1>3. LockInv'
  BY DEF IInv, SyncDirectory, Fails, AfterPublication, Return, Goto, LockInv,
     DurableKinds, locks, Locked, SharedKinds, TypeOK
<1>4. KnownInv'
  <2>1. durable' \subseteq durable
    BY DEF IInv, TypeOK, SyncDirectory
  <2>2. UNCHANGED <<issued, expected, seen, draft, authored>>
    BY DEF SyncDirectory
  <2>3. QED
    BY <2>1, <2>2 DEF IInv, KnownInv, Known
<1>5. DraftInv'
  BY DEF IInv, SyncDirectory, Fails, AfterPublication, Return, Goto, DraftInv,
     DurableKinds, locks, Waiting, TypeOK
<1>6. SeenInv'
  BY DEF IInv, SyncDirectory, Fails, AfterPublication, Return, Goto, SeenInv,
     DurableKinds, locks, Waiting, Acting, GuardedKinds, Locked, TypeOK
<1>7. SupersededInv'
  BY ConstantsAssumption, NoClaimAssumption DEF IInv, SyncDirectory, Fails,
     AfterPublication, Return, Goto, SupersededInv, TypeOK, SeenInv, DraftInv, LockInv,
     KnownInv, PhaseInv, DurableKinds, locks, Mutating, ActedOn, SupersededIsGone,
     Waiting, Locked, Ended, Acting, GuardedKinds, PublishKinds, Claim
<1>8. ConflictInv'
  BY ConstantsAssumption, NoClaimAssumption DEF IInv, SyncDirectory, Fails,
     AfterPublication, Return, Goto, ConflictInv, TypeOK, SeenInv, DraftInv, Mutating,
     ConflictDisowned
<1>9. QED
  BY <1>1, <1>2, <1>3, <1>4, <1>5, <1>6, <1>7, <1>8 DEF IInv

\* The claim is gone from the path, not yet from the disk.
LEMMA UnlinkStep ==
    ASSUME NEW o \in Op, IInv, Unlink(o) PROVE IInv'
<1>1. TypeOK'
  <2>1. TypeOK
    BY DEF IInv
  <2>2. /\ pc' \in [Op -> {"idle"} \cup Waiting \cup Locked \cup Ended]
        /\ result' \in [Op -> {"none", "ok", "unsynced", "kept", "refused", "error"}]
        /\ mutex' \in [Process -> Op \cup {NoOp}]
        /\ writer' \in Op \cup {NoOp}
        /\ readers' \subseteq Op
    <3>1. CASE kind[o] = "remove"
      <4>1. Return(o, "kept")
        BY <3>1 DEF Unlink
      <4>2. QED
        BY <2>1, <4>1, ReturnType
    <3>2. CASE kind[o] # "remove"
      BY <2>1, <3>2 DEF Unlink, TypeOK, Goto, locks, Locked
    <3>3. QED
      BY <3>1, <3>2
  <2>3. durable' \subseteq Values /\ claim' \in durable' /\ claim' \in Values
        /\ seen' \in [Op -> Values]
    BY <2>1 DEF TypeOK, Unlink, Values
  <2>4. QED
    BY <2>1, <2>2, <2>3 DEF TypeOK, Unlink
<1>2. PhaseInv'
  BY DEF IInv, Unlink, Return, Goto, PhaseInv, locks, PublishKinds, TypeOK
<1>3. LockInv'
  BY DEF IInv, Unlink, Return, Goto, LockInv, locks, Locked, SharedKinds, TypeOK
<1>4. KnownInv'
  BY DEF IInv, Unlink, Return, Goto, KnownInv, locks, Known, TypeOK
<1>5. DraftInv'
  BY DEF IInv, Unlink, Return, Goto, DraftInv, locks, Waiting, TypeOK
<1>6. SeenInv'
  BY ConstantsAssumption, NoClaimAssumption DEF IInv, Unlink, Return, Goto, SeenInv,
     TypeOK, LockInv, PhaseInv, DraftInv, locks, Waiting, Acting, GuardedKinds, Locked,
     Values, SharedKinds
<1>7. SupersededInv'
  BY ConstantsAssumption, NoClaimAssumption DEF IInv, Unlink, Return, Goto,
     SupersededInv, TypeOK, SeenInv, DraftInv, LockInv, KnownInv, PhaseInv, locks,
     Mutating, ActedOn, SupersededIsGone, Waiting, Locked, Values, Acting, GuardedKinds,
     SharedKinds
<1>8. ConflictInv'
  BY DEF IInv, Unlink, Return, Goto, ConflictInv, locks, Acting, Mutating,
     ConflictDisowned, Locked, TypeOK
<1>9. QED
  BY <1>1, <1>2, <1>3, <1>4, <1>5, <1>6, <1>7, <1>8 DEF IInv

\* A removal that fails counts as a failure.
LEMMA UnlinkFailsStep ==
    ASSUME NEW o \in Op, IInv, UnlinkFails(o) PROVE IInv'
<1>1. TypeOK'
  BY DEF IInv, UnlinkFails, Fails, Return, Goto, TypeOK, files, Waiting, Locked, Ended,
     AllKinds, Values, Claim
<1>2. PhaseInv'
  BY DEF IInv, UnlinkFails, Fails, Return, Goto, PhaseInv, files, PublishKinds, TypeOK
<1>3. LockInv'
  BY DEF IInv, UnlinkFails, Fails, Return, Goto, LockInv, files, Locked, SharedKinds,
     TypeOK
<1>4. KnownInv'
  BY KnownFrame DEF IInv, UnlinkFails, files
<1>5. DraftInv'
  BY DEF IInv, UnlinkFails, Fails, Return, Goto, DraftInv, files, Waiting, TypeOK
<1>6. SeenInv'
  BY DEF IInv, UnlinkFails, Fails, Return, Goto, SeenInv, files, Waiting, Acting,
     GuardedKinds, Locked, TypeOK
<1>7. SupersededInv'
  BY DEF IInv, UnlinkFails, Fails, Return, Goto, SupersededInv, files, Mutating,
     ActedOn, SupersededIsGone, Acting, DurableKinds, Locked, TypeOK
<1>8. ConflictInv'
  BY DEF IInv, UnlinkFails, Fails, Return, Goto, ConflictInv, files, Acting, Mutating,
     ConflictDisowned, Locked, TypeOK
<1>9. QED
  BY <1>1, <1>2, <1>3, <1>4, <1>5, <1>6, <1>7, <1>8 DEF IInv

\* A synced removal forgets the claim.
LEMMA SyncUnlinkStep ==
    ASSUME NEW o \in Op, IInv, SyncUnlink(o) PROVE IInv'
<1>1. TypeOK'
  BY DEF IInv, SyncUnlink, Return, Goto, TypeOK, Waiting, Locked, Ended, AllKinds,
     Values, Claim
<1>2. PhaseInv'
  BY DEF IInv, SyncUnlink, Return, Goto, PhaseInv, PublishKinds, TypeOK
<1>3. LockInv'
  BY DEF IInv, SyncUnlink, Return, Goto, LockInv, Locked, SharedKinds, TypeOK
<1>4. KnownInv'
  BY DEF IInv, SyncUnlink, Return, Goto, KnownInv, Known, TypeOK
<1>5. DraftInv'
  BY DEF IInv, SyncUnlink, Return, Goto, DraftInv, Waiting, TypeOK
<1>6. SeenInv'
  BY DEF IInv, SyncUnlink, Return, Goto, SeenInv, Waiting, Acting, GuardedKinds, Locked,
     TypeOK
<1>7. SupersededInv'
  BY DEF IInv, SyncUnlink, Return, Goto, SupersededInv, TypeOK, SeenInv, DraftInv,
     LockInv, KnownInv, PhaseInv, Mutating, ActedOn, SupersededIsGone, Waiting, Locked,
     Ended, Acting, GuardedKinds
<1>8. ConflictInv'
  BY ConstantsAssumption, NoClaimAssumption DEF IInv, SyncUnlink, Return, Goto,
     ConflictInv, TypeOK, SeenInv, DraftInv, LockInv, Acting, Mutating,
     ConflictDisowned, Waiting, Locked, Ended
<1>9. QED
  BY <1>1, <1>2, <1>3, <1>4, <1>5, <1>6, <1>7, <1>8 DEF IInv

\* A removal that is not synced counts as a failure.
LEMMA SyncUnlinkFailsStep ==
    ASSUME NEW o \in Op, IInv, SyncUnlinkFails(o) PROVE IInv'
<1>1. TypeOK'
  BY DEF IInv, SyncUnlinkFails, Fails, Return, Goto, TypeOK, files, locks, Waiting,
     Locked, Ended, AllKinds
<1>2. PhaseInv'
  BY DEF IInv, SyncUnlinkFails, Fails, Return, Goto, PhaseInv, files, locks,
     PublishKinds, TypeOK
<1>3. LockInv'
  BY DEF IInv, SyncUnlinkFails, Fails, Return, Goto, LockInv, files, locks, Locked,
     SharedKinds, TypeOK
<1>4. KnownInv'
  BY KnownFrame DEF IInv, SyncUnlinkFails, files
<1>5. DraftInv'
  BY ConstantsAssumption, NoClaimAssumption DEF IInv, SyncUnlinkFails, Fails, Return,
     Goto, DraftInv, TypeOK, PhaseInv, LockInv, KnownInv, SeenInv, SupersededInv,
     ConflictInv, Waiting, Locked, Ended, Acting, Mutating, PublishKinds, Claim, files
<1>6. SeenInv'
  BY DEF IInv, SyncUnlinkFails, Fails, Return, Goto, SeenInv, files, locks, Waiting,
     Acting, GuardedKinds, Locked, TypeOK
<1>7. SupersededInv'
  BY DEF IInv, SyncUnlinkFails, Fails, Return, Goto, SupersededInv, files, locks,
     Mutating, ActedOn, SupersededIsGone, Acting, DurableKinds, Locked, TypeOK
<1>8. ConflictInv'
  BY DEF IInv, SyncUnlinkFails, Fails, Return, Goto, ConflictInv, files, locks, Acting,
     Mutating, ConflictDisowned, Locked, TypeOK
<1>9. QED
  BY <1>1, <1>2, <1>3, <1>4, <1>5, <1>6, <1>7, <1>8 DEF IInv

\* The tombstone is the operation's own draft.
LEMMA TombstoneRenameStep ==
    ASSUME NEW o \in Op, IInv, TombstoneRename(o) PROVE IInv'
<1>1. TypeOK'
  <2>1. pc' \in [Op -> {"idle"} \cup Waiting \cup Locked \cup Ended]
    BY DEF IInv, TypeOK, TombstoneRename, Goto, Locked
  <2>2. QED
    BY <2>1, WrittenType DEF IInv, TypeOK, TombstoneRename, locks
<1>2. PhaseInv'
  BY DEF IInv, TombstoneRename, Written, Goto, PhaseInv, locks, PublishKinds, TypeOK
<1>3. LockInv'
  BY DEF IInv, TombstoneRename, Written, Goto, LockInv, locks, Locked, SharedKinds,
     TypeOK
<1>4. KnownInv'
  BY DEF IInv, TombstoneRename, Written, Goto, KnownInv, locks, Known, TypeOK
<1>5. DraftInv'
  BY DEF IInv, TombstoneRename, Written, Goto, DraftInv, locks, Waiting, TypeOK
<1>6. SeenInv'
  BY ConstantsAssumption, NoClaimAssumption DEF IInv, TombstoneRename, Written, Goto,
     SeenInv, TypeOK, LockInv, PhaseInv, DraftInv, locks, Waiting, Acting, GuardedKinds,
     Locked, Values, SharedKinds
<1>7. SupersededInv'
  BY ConstantsAssumption, NoClaimAssumption DEF IInv, TombstoneRename, Written, Goto,
     SupersededInv, TypeOK, SeenInv, DraftInv, LockInv, KnownInv, PhaseInv, locks,
     Mutating, ActedOn, SupersededIsGone, Waiting, Locked, Ended, Acting, GuardedKinds
<1>8. ConflictInv'
  BY ConstantsAssumption, NoClaimAssumption DEF IInv, TombstoneRename, Written, Goto,
     ConflictInv, TypeOK, PhaseInv, LockInv, KnownInv, DraftInv, SeenInv, SupersededInv,
     Waiting, Locked, Ended, Acting, Mutating, locks, Known, ActedOn, SupersededIsGone,
     ConflictDisowned
<1>9. QED
  BY <1>1, <1>2, <1>3, <1>4, <1>5, <1>6, <1>7, <1>8 DEF IInv

\* A synced tombstone forgets the claim.
LEMMA TombstoneSyncStep ==
    ASSUME NEW o \in Op, IInv, TombstoneSync(o) PROVE IInv'
<1>1. TypeOK'
  BY DEF IInv, TombstoneSync, Return, Goto, TypeOK, Waiting, Locked, Ended, AllKinds,
     Values, Claim
<1>2. PhaseInv'
  BY DEF IInv, TombstoneSync, Return, Goto, PhaseInv, PublishKinds, TypeOK
<1>3. LockInv'
  BY DEF IInv, TombstoneSync, Return, Goto, LockInv, Locked, SharedKinds, TypeOK
<1>4. KnownInv'
  BY DEF IInv, TombstoneSync, Return, Goto, KnownInv, Known, TypeOK
<1>5. DraftInv'
  BY DEF IInv, TombstoneSync, Return, Goto, DraftInv, Waiting, TypeOK
<1>6. SeenInv'
  BY DEF IInv, TombstoneSync, Return, Goto, SeenInv, Waiting, Acting, GuardedKinds,
     Locked, TypeOK
<1>7. SupersededInv'
  BY DEF IInv, TombstoneSync, Return, Goto, SupersededInv, Mutating, ActedOn,
     SupersededIsGone, Acting, DurableKinds, Locked, TypeOK
<1>8. ConflictInv'
  BY ConstantsAssumption, NoClaimAssumption DEF IInv, TombstoneSync, Return, Goto,
     ConflictInv, TypeOK, SeenInv, DraftInv, Mutating, ConflictDisowned
<1>9. QED
  BY <1>1, <1>2, <1>3, <1>4, <1>5, <1>6, <1>7, <1>8 DEF IInv

\* A tombstone that fails counts as a failure.
LEMMA TombstoneFailsStep ==
    ASSUME NEW o \in Op, IInv, TombstoneFails(o) PROVE IInv'
<1>1. TypeOK'
  BY DEF IInv, TombstoneFails, Fails, Return, Goto, TypeOK, files, Waiting, Locked,
     Ended, AllKinds, Values, Claim
<1>2. PhaseInv'
  BY DEF IInv, TombstoneFails, Fails, Return, Goto, PhaseInv, files, PublishKinds,
     TypeOK
<1>3. LockInv'
  BY DEF IInv, TombstoneFails, Fails, Return, Goto, LockInv, files, Locked, SharedKinds,
     TypeOK
<1>4. KnownInv'
  BY KnownFrame DEF IInv, TombstoneFails, files
<1>5. DraftInv'
  BY DEF IInv, TombstoneFails, Fails, Return, Goto, DraftInv, files, Waiting, TypeOK
<1>6. SeenInv'
  BY DEF IInv, TombstoneFails, Fails, Return, Goto, SeenInv, files, Waiting, Acting,
     GuardedKinds, Locked, TypeOK
<1>7. SupersededInv'
  BY DEF IInv, TombstoneFails, Fails, Return, Goto, SupersededInv, files, Mutating,
     ActedOn, SupersededIsGone, Acting, DurableKinds, Locked, TypeOK
<1>8. ConflictInv'
  BY DEF IInv, TombstoneFails, Fails, Return, Goto, ConflictInv, files, Acting,
     Mutating, ConflictDisowned, Locked, TypeOK
<1>9. QED
  BY <1>1, <1>2, <1>3, <1>4, <1>5, <1>6, <1>7, <1>8 DEF IInv

\* A dead process holds no lock and acts no more.
LEMMA ProcessCrashStep ==
    ASSUME NEW p \in Process, IInv, ProcessCrash(p) PROVE IInv'
<1>1. TypeOK'
  BY DEF IInv, ProcessCrash, Dead, TypeOK, files, Ended, Waiting, Locked, AllKinds,
     Values, Claim
<1>2. PhaseInv'
  BY DEF IInv, ProcessCrash, Dead, PhaseInv, files, Ended, PublishKinds, TypeOK
<1>3. LockInv'
  BY DEF IInv, ProcessCrash, Dead, LockInv, files, Ended, Locked, SharedKinds, TypeOK
<1>4. KnownInv'
  BY KnownFrame DEF IInv, ProcessCrash, files
<1>5. DraftInv'
  BY DEF IInv, ProcessCrash, Dead, DraftInv, files, Ended, Waiting, TypeOK
<1>6. SeenInv'
  BY DEF IInv, ProcessCrash, Dead, SeenInv, files, Ended, Waiting, Acting, GuardedKinds,
     Locked, TypeOK
<1>7. SupersededInv'
  BY DEF IInv, ProcessCrash, Dead, SupersededInv, files, Ended, Mutating, ActedOn,
     SupersededIsGone, Acting, DurableKinds, Locked, TypeOK
<1>8. ConflictInv'
  BY DEF IInv, ProcessCrash, Dead, ConflictInv, files, Ended, Acting, Mutating,
     ConflictDisowned, Locked, TypeOK
<1>9. QED
  BY <1>1, <1>2, <1>3, <1>4, <1>5, <1>6, <1>7, <1>8 DEF IInv

\* The claim a crash leaves is one of the durable ones.
LEMMA MachineCrashStep ==
    ASSUME IInv, MachineCrash PROVE IInv'
<1>1. TypeOK'
  BY DEF IInv, MachineCrash, Dead, TypeOK, Ended, Waiting, Locked, AllKinds, Values,
     Claim
<1>2. PhaseInv'
  BY DEF IInv, MachineCrash, Dead, PhaseInv, Ended, PublishKinds, TypeOK
<1>3. LockInv'
  BY DEF IInv, MachineCrash, Dead, LockInv, Ended, Locked, SharedKinds, TypeOK
<1>4. KnownInv'
  BY DEF IInv, MachineCrash, Dead, KnownInv, Ended, Known, TypeOK
<1>5. DraftInv'
  BY DEF IInv, MachineCrash, Dead, DraftInv, Ended, Waiting, TypeOK
<1>6. SeenInv'
  BY DEF IInv, MachineCrash, Dead, SeenInv, Ended, Waiting, Acting, GuardedKinds,
     Locked, TypeOK
<1>7. SupersededInv'
  BY DEF IInv, MachineCrash, Dead, SupersededInv, Ended, Mutating, ActedOn,
     SupersededIsGone, Acting, DurableKinds, Locked, TypeOK
<1>8. ConflictInv'
  BY DEF IInv, MachineCrash, Dead, ConflictInv, Ended, Acting, Mutating,
     ConflictDisowned, Locked, TypeOK
<1>9. QED
  BY <1>1, <1>2, <1>3, <1>4, <1>5, <1>6, <1>7, <1>8 DEF IInv

\* Every step keeps the invariant.
LEMMA NextInv == IInv /\ [Next]_vars => IInv'
<1>1. SUFFICES ASSUME IInv, [Next]_vars PROVE IInv'
  OBVIOUS
<1>2. CASE UNCHANGED vars
  BY <1>1, <1>2 DEF vars, IInv, TypeOK, PhaseInv, LockInv, KnownInv, Known, DraftInv, SeenInv,
     SupersededInv, SupersededIsGone, ActedOn, ConflictInv, ConflictDisowned
<1>3. ASSUME NEW o \in Op, Begin(o) \/ Step(o) \/ GiveUp(o) PROVE IInv'
  BY <1>1, <1>3, BeginStep, LockMutexStep, LockFileStep, GiveUpStep, ReadUnderLockStep,
     PreparePublicationStep, EndActionStep, ActionAllowsRemovalStep, StageFailsStep,
     RenameStep, SyncDirectoryStep, UnlinkStep, UnlinkFailsStep, SyncUnlinkStep,
     SyncUnlinkFailsStep, TombstoneRenameStep, TombstoneSyncStep, TombstoneFailsStep DEF
     Step
<1>4. ASSUME NEW p \in Process, ProcessCrash(p) PROVE IInv'
  BY <1>1, <1>4, ProcessCrashStep
<1>5. CASE MachineCrash
  BY <1>1, <1>5, MachineCrashStep
<1>6. QED
  BY <1>1, <1>2, <1>3, <1>4, <1>5 DEF Next

-----------------------------------------------------------------------------
(***************************************************************************)
(* Safety.                                                                 *)
(***************************************************************************)
\* The action of a guarded operation is fenced.
LEMMA FencedFollows == IInv => Fenced
<1>1. SUFFICES ASSUME IInv, NEW o \in Op, pc[o] = "action"
      PROVE  /\ kind[o] \in GuardedKinds => claim = expected[o]
             /\ \A q \in Op \ {o} : pc[q] \in Locked =>
                   kind[o] \in SharedKinds /\ kind[q] \in SharedKinds
  BY DEF Fenced
<1>2. kind[o] \in GuardedKinds => claim = expected[o]
  BY <1>1 DEF IInv, SeenInv
<1>3. ASSUME NEW q \in Op, q # o, pc[q] \in Locked
      PROVE  kind[o] \in SharedKinds /\ kind[q] \in SharedKinds
  BY <1>1, <1>3, ConstantsAssumption DEF IInv, LockInv, Locked
<1>4. QED
  BY <1>2, <1>3

\* The invariant holds in every reachable state of the claim file, whatever the
\* operations, their processes and the crashes.
THEOREM ClaimFileInvariant == Spec => []IInv
<1>1. QED
  BY InitInv, NextInv, PTL DEF Spec

\* Type correctness.
THEOREM ClaimTypeCorrect == Spec => []TypeOK
<1>1. IInv => TypeOK
  BY DEF IInv
<1>2. QED
  BY <1>1, ClaimFileInvariant, PTL

\* The provider action of a guarded operation runs only while the claim is the
\* snapshot its caller decided on, and a writer's action runs alone
\* (transactLeaseClaim, withLeaseClaimUnchangedContext).
THEOREM AlwaysFenced == Spec => []Fenced
<1>1. QED
  BY FencedFollows, ClaimFileInvariant, PTL

\* A claim whose durable replacement or removal was reported never comes back
\* (writeLeaseClaimAtomicDurable, finalizeLeaseClaimIfUnchangedAfterContext).
THEOREM SupersededNeverReturns == Spec => []SupersededIsGone
<1>1. IInv => SupersededIsGone
  BY DEF IInv, SupersededInv
<1>2. QED
  BY <1>1, ClaimFileInvariant, PTL

\* A destructive claim outlives a definitive create conflict only after several
\* file-system failures (ResolveLeaseClaimAfterActionIfUnchanged).
THEOREM ConflictAlwaysDisowned == Spec => []ConflictDisowned
<1>1. IInv => ConflictDisowned
  BY DEF IInv, ConflictInv
<1>2. QED
  BY <1>1, ClaimFileInvariant, PTL

-----------------------------------------------------------------------------
(***************************************************************************)
(* Refinement: each action is an action of the register or a stutter.      *)
(***************************************************************************)
\* No step but Begin changes which operations are bound to their snapshot.
LEMMA BoundKept ==
    ASSUME IInv, NEW o \in Op, Step(o) \/ GiveUp(o)
    PROVE  UNCHANGED {q \in Op : pc[q] # "idle" /\ kind[q] \in GuardedKinds}
<1>1. kind' = kind /\ \A q \in Op : pc'[q] = "idle" <=> pc[q] = "idle"
  BY DEF IInv, TypeOK, Step, GiveUp, LockMutex, LockFile, ReadUnderLock, PreparePublication,
     EndAction, ActionAllowsRemoval, StageFails, Rename, SyncDirectory, Unlink, UnlinkFails,
     SyncUnlink, SyncUnlinkFails, TombstoneRename, TombstoneSync, TombstoneFails,
     AfterPublication, Return, Goto, Waiting
<1>2. QED
  BY <1>1

\* A publication overwrites what its operation believes in, with a claim of
\* its own.
LEMMA PublishRefines ==
    ASSUME IInv, NEW o \in Op, Rename(o) \/ TombstoneRename(o)
    PROVE  Register!Publish(o)
<1>1. UNCHANGED {q \in Op : pc[q] # "idle" /\ kind[q] \in GuardedKinds}
  BY BoundKept DEF Step
<1>2. claim = seen[o] /\ draft[o] \in Claim /\ claim' = draft[o]
  BY DEF IInv, SeenInv, DraftInv, TypeOK, Rename, TombstoneRename, Written, Acting, Locked, Values
<1>3. \A pair \in authored : pair[2] = claim' => pair[1] = o
  BY <1>2, NoClaimAssumption DEF IInv, DraftInv
<1>4. /\ seen' = [seen EXCEPT ![o] = claim'] /\ durable' = durable \cup {claim'}
      /\ authored' = authored \cup {<<o, claim'>>}
  BY DEF Rename, TombstoneRename, Written
<1>5. QED
  BY <1>1, <1>2, <1>3, <1>4 DEF Register!Publish

\* A removal removes what its operation believes in.
LEMMA RemoveRefines ==
    ASSUME IInv, NEW o \in Op, Unlink(o)
    PROVE  Register!Remove(o)
<1>1. UNCHANGED {q \in Op : pc[q] # "idle" /\ kind[q] \in GuardedKinds}
  BY BoundKept DEF Step
<1>2. claim = seen[o]
  BY DEF IInv, SeenInv, Unlink, Acting, Locked
<1>3. QED
  BY <1>1, <1>2 DEF Register!Remove, Unlink

\* A snapshot is taken by an operation that is not bound yet.
LEMMA SnapshotRefines ==
    ASSUME IInv, NEW o \in Op, Begin(o)
    PROVE  Register!Snapshot(o)
<1>1. PICK k \in OpKinds : kind' = [kind EXCEPT ![o] = k]
  BY DEF Begin
<1>2. pc[o] = "idle" /\ pc'[o] # "idle" /\ \A q \in Op \ {o} : pc'[q] = pc[q]
  BY DEF Begin, Goto, IInv, TypeOK
<1>3. kind'[o] = k /\ \A q \in Op \ {o} : kind'[q] = kind[q]
  BY <1>1 DEF IInv, TypeOK
<1>4. {q \in Op : pc[q] # "idle" /\ kind[q] \in GuardedKinds}' =
        IF k \in GuardedKinds
          THEN {q \in Op : pc[q] # "idle" /\ kind[q] \in GuardedKinds} \cup {o}
          ELSE {q \in Op : pc[q] # "idle" /\ kind[q] \in GuardedKinds}
  BY <1>2, <1>3
<1>5. QED
  BY <1>2, <1>4 DEF Register!Snapshot, Begin, files

\* Reading again under the lock is a new snapshot of an operation that is not
\* bound, and nothing new to one that is.
LEMMA ReadRefines ==
    ASSUME IInv, NEW o \in Op, ReadUnderLock(o)
    PROVE  Register!Snapshot(o) \/ UNCHANGED Register!vars
<1>1. UNCHANGED {q \in Op : pc[q] # "idle" /\ kind[q] \in GuardedKinds}
  BY BoundKept DEF Step
<1>2. UNCHANGED <<claim, durable, authored>>
  BY DEF ReadUnderLock, files
<1>3. CASE kind[o] \notin GuardedKinds /\ Guard(o)
  BY <1>1, <1>2, <1>3 DEF ReadUnderLock, Register!Snapshot
<1>4. CASE kind[o] \in GuardedKinds /\ Guard(o)
  <2>1. seen[o] = claim
    BY <1>4 DEF ReadUnderLock, Guard, IInv, SeenInv, Waiting
  <2>2. seen' = seen
    BY <1>4, <2>1 DEF ReadUnderLock, IInv, TypeOK
  <2>3. QED
    BY <1>1, <1>2, <2>2 DEF Register!vars
<1>5. CASE ~Guard(o)
  BY <1>1, <1>2, <1>5 DEF ReadUnderLock, Register!vars
<1>6. QED
  BY <1>3, <1>4, <1>5

\* Every other step of an operation flushes the directory or does nothing to
\* the register.
LEMMA OtherRefines ==
    ASSUME IInv, NEW o \in Op,
           \/ LockMutex(o) \/ LockFile(o) \/ GiveUp(o) \/ PreparePublication(o) \/ EndAction(o)
           \/ ActionAllowsRemoval(o) \/ StageFails(o) \/ SyncDirectory(o) \/ UnlinkFails(o)
           \/ SyncUnlink(o) \/ SyncUnlinkFails(o) \/ TombstoneSync(o) \/ TombstoneFails(o)
    PROVE  Register!Flush \/ UNCHANGED Register!vars
<1>1. UNCHANGED {q \in Op : pc[q] # "idle" /\ kind[q] \in GuardedKinds}
  BY BoundKept DEF Step
<1>2. /\ UNCHANGED <<claim, seen, authored>>
      /\ durable' \in {durable, {claim}}
  BY DEF LockMutex, LockFile, GiveUp, PreparePublication, EndAction, ActionAllowsRemoval, StageFails,
     SyncDirectory, UnlinkFails, SyncUnlink, SyncUnlinkFails, TombstoneSync, TombstoneFails, files
<1>3. QED
  BY <1>1, <1>2 DEF Register!Flush, Register!vars

\* A crash of a process is nothing to the register, a crash of the machine is
\* the register's.
LEMMA CrashRefines ==
    ASSUME IInv, MachineCrash \/ \E p \in Process : ProcessCrash(p)
    PROVE  Register!Crash \/ UNCHANGED Register!vars
<1>1. kind' = kind /\ \A q \in Op : pc'[q] = "idle" <=> pc[q] = "idle"
  BY DEF MachineCrash, ProcessCrash, Dead, Ended
<1>2. UNCHANGED {q \in Op : pc[q] # "idle" /\ kind[q] \in GuardedKinds}
  BY <1>1
<1>3. CASE MachineCrash
  BY <1>2, <1>3 DEF MachineCrash, Register!Crash
<1>4. CASE \E p \in Process : ProcessCrash(p)
  BY <1>2, <1>4 DEF ProcessCrash, files, Register!vars
<1>5. QED
  BY <1>3, <1>4

\* Every step is a step of the register or leaves it alone.
LEMMA RegisterStep ==
    ASSUME IInv, [Next]_vars
    PROVE  [Register!Next]_(Register!vars)
<1>1. CASE UNCHANGED vars
  BY <1>1 DEF vars, Register!vars
<1>2. ASSUME NEW o \in Op, Begin(o) \/ Step(o) \/ GiveUp(o)
      PROVE  [Register!Next]_(Register!vars)
  BY <1>2, SnapshotRefines, ReadRefines, PublishRefines, RemoveRefines, OtherRefines
     DEF Step, Register!Next
<1>3. CASE MachineCrash \/ \E p \in Process : ProcessCrash(p)
  BY <1>3, CrashRefines DEF Register!Next
<1>4. QED
  BY <1>1, <1>2, <1>3 DEF Next

\* The claim file starts as a register.
LEMMA RegisterInit == Init => Register!Init
  BY DEF Init, Register!Init, Register!Values, Claim

\* The claim file is a register that is only overwritten by an operation that
\* knows what it overwrites (ClaimRegister).
THEOREM ImplementsRegister == Spec => RegisterSpec
<1>1. QED
  BY RegisterInit, RegisterStep, ClaimFileInvariant, PTL DEF Spec, RegisterSpec, Register!Spec
=============================================================================
