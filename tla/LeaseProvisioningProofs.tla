---------------------- MODULE LeaseProvisioningProofs ----------------------
(***************************************************************************)
(* Safety of LeaseProvisioning, for any number of leases, scopes and       *)
(* callers and any bounds.                                                 *)
(***************************************************************************)
EXTENDS LeaseProvisioningTypes

-----------------------------------------------------------------------------
(* What the transactions do to an operation, field by field *)

\* The fields of a rechecked operation: only cancellation may change.
LEMMA RecheckIs ==
    ASSUME TypeOK, NEW l \in Leases, NEW t
    PROVE  LET o == Recheck(l, t)
           IN  /\ o.phase = op[l].phase /\ o.key = op[l].key
               /\ o.delivery = op[l].delivery /\ o.attempt = op[l].attempt
               /\ o.revision = op[l].revision /\ o.claim = op[l].claim
               /\ o.retain = op[l].retain
               /\ o.canceled = IsCanceled(l, t)
<1>1. op[l] \in Operations
  BY DEF TypeOK
<1> QED BY <1>1, CanceledType DEF Recheck, Operations

\* The fields of an operation deferred for its scope's lock: a later wake.
LEMMA DeferredIs ==
    ASSUME TypeOK, NEW l \in Leases, NEW t
    PROVE  LET o == Deferred(l, t)
           IN  /\ o.phase = op[l].phase /\ o.key = op[l].key
               /\ o.delivery = op[l].delivery /\ o.attempt = op[l].attempt
               /\ o.revision = op[l].revision /\ o.claim = op[l].claim
               /\ o.retain = op[l].retain
               /\ o.canceled = IsCanceled(l, t)
<1>1. Recheck(l, t) \in Operations
  BY RecheckType
<1> QED BY <1>1, RecheckIs DEF Deferred, Operations

\* The fields of a published operation: terminal, one revision on.
LEMMA PublishedIs ==
    ASSUME TypeOK, NEW l \in Leases
    PROVE  LET o == Published(l)
           IN  /\ o.phase = "terminal" /\ o.key = op[l].key
               /\ o.attempt = op[l].attempt
               /\ o.revision = op[l].revision + 1 /\ o.claim = op[l].claim
               /\ o.retain = op[l].retain /\ o.canceled = op[l].canceled
<1>1. op[l] \in Operations
  BY DEF TypeOK
<1> QED BY <1>1 DEF Published, Operations

\* The fields of a claimed operation: one revision on, owned until it expires.
LEMMA ClaimedIs ==
    ASSUME TypeOK, NEW l \in Leases, NEW k, NEW t
    PROVE  LET o == Claimed(l, k, t)
           IN  /\ o.phase = op[l].phase /\ o.key = op[l].key
               /\ o.attempt = op[l].attempt
               /\ o.revision = op[l].revision + 1 /\ o.claim = k
               /\ o.retain = op[l].retain
               /\ o.canceled = IsCanceled(l, t)
<1>1. Recheck(l, t) \in Operations
  BY RecheckType
<1> QED BY <1>1, RecheckIs DEF Claimed, Operations

\* The fields of an operation with a result committed: the result's step, unclaimed.
LEMMA CommittedIs ==
    ASSUME TypeOK, NEW l \in Leases, NEW r \in Outcomes
    PROVE  LET o == Committed(l, r)
           IN  /\ o.phase = CommittedPhase(l, r) /\ o.key = r.key
               /\ o.attempt = r.attempt
               /\ o.revision = op[l].revision + 1 /\ o.claim = NoOne
               /\ o.retain = op[l].retain
               /\ o.canceled = IsCanceled(l, now)
<1>1. op[l] \in Operations
  BY DEF TypeOK
<1> QED BY <1>1, CanceledType DEF Committed, Operations

\* The cancellation transaction, with what it stores and whether it retains.
Canceling(l, b, o) ==
    /\ b => lease[l].deletes # "yes"
    /\ op[l].phase \notin {"none", "terminal"}
    /\ PutReference(l, o)
    /\ RetireMaterial(l, o)
    /\ lease' = [lease EXCEPT ![l] = ReleasedLease(l, b)]
    /\ o = CanceledOperation(l, b)
    /\ o.phase = (IF op[l].phase = "retained" /\ ~b THEN "settling" ELSE op[l].phase)
    /\ o.attempt = op[l].attempt
    /\ o.key = op[l].key /\ o.delivery = op[l].delivery
    /\ o.revision = op[l].revision /\ o.claim = op[l].claim
    /\ o.retain = b /\ o.canceled = TRUE

\* The fields of a canceled operation: its step and its claim stay.
LEMMA CancelIs ==
    ASSUME TypeOK, NEW l \in Leases, NEW d \in BOOLEAN, CancelOperation(l, d)
    PROVE  \E b \in BOOLEAN, o \in Operations : Canceling(l, b, o)
<1> DEFINE b == Retains(l, d)
           o == CanceledOperation(l, b)
<1>1. b \in BOOLEAN
  BY RetainsType
<1>2. b => lease[l].deletes # "yes"
  BY Zenon DEF Retains
<1>3. /\ op[l].phase \notin {"none", "terminal"}
      /\ PutReference(l, o)
      /\ RetireMaterial(l, o)
      /\ lease' = [lease EXCEPT ![l] = ReleasedLease(l, b)]
  BY DEF CancelOperation
<1> HIDE DEF b
<1>4. o \in Operations
  BY <1>1, CanceledOperationType
<1>5. op[l] \in Operations
  BY DEF TypeOK
<1>6. /\ o.phase = (IF op[l].phase = "retained" /\ ~b THEN "settling" ELSE op[l].phase)
      /\ o.attempt = op[l].attempt
      /\ o.key = op[l].key /\ o.delivery = op[l].delivery
      /\ o.revision = op[l].revision /\ o.claim = op[l].claim
      /\ o.retain = b /\ o.canceled = TRUE
  BY <1>1, <1>5 DEF CanceledOperation, Operations
<1> HIDE DEF o
<1>7. o = CanceledOperation(l, b)
  BY DEF o
<1> QED BY <1>1, <1>2, <1>3, <1>4, <1>6, <1>7, Zenon DEF Canceling

-----------------------------------------------------------------------------
(* The steps, by what they write *)

\* Requests, abandoned results and the environment leave the journal records
\* alone, and take no call into its provider call.
Quiet ==
    /\ UNCHANGED <<lease, op, journal, material, due, lock, quarantine>>
    /\ \A l \in Leases, k \in Callers :
         call'[l][k].pc = "calling" => call'[l][k] = call[l][k]

\* Cancellation by release or by cancelCreate.
Cancel(l, d) == CancelOperation(l, d) /\ UNCHANGED <<lock, quarantine, call>>

\* Every other step is one of the journal's transactions, or the tick.
LEMMA Steps ==
    ASSUME TypeOK, [Next]_vars
    PROVE  \/ Quiet
           \/ Tick
           \/ \E l \in Leases :
                \/ Admit(l) \/ ForeignWrite(l) \/ Redeploy(l)
                \/ \E d \in BOOLEAN : Cancel(l, d)
           \/ \E l \in Leases, k \in Callers :
                \/ SkipAdvance(l, k) \/ DeferForLock(l, k)
                \/ Publish(l, k) \/ Claim(l, k)
                \/ \E r \in Progress(call[l][k].snap) \cup Stall(call[l][k].snap) :
                     CommitResult(l, k, r)
<1> DEFINE Goal == Quiet \/ Tick
           \/ (\E l \in Leases :
                \/ Admit(l) \/ ForeignWrite(l) \/ Redeploy(l)
                \/ \E d \in BOOLEAN : Cancel(l, d))
           \/ (\E l \in Leases, k \in Callers :
                \/ SkipAdvance(l, k) \/ DeferForLock(l, k)
                \/ Publish(l, k) \/ Claim(l, k)
                \/ \E r \in Progress(call[l][k].snap) \cup Stall(call[l][k].snap) :
                     CommitResult(l, k, r))
<1>0. Idle.pc = "idle" /\ Started.pc = "started"
  BY DEF Idle, Started
<1>1. ASSUME NEW l \in Leases, Requests(l) PROVE Goal
  <2>1. CASE RegisterAttempt(l) \/ CancelCreateRead(l) \/ CancelCreateWrite(l)
    <3>1. Quiet
      BY <2>1 DEF Quiet, RegisterAttempt, CancelCreateRead, CancelCreateWrite
    <3> QED BY <3>1
  <2>2. CASE FacadeAdvance(l)
    <3>1. Quiet
      BY <2>2, <1>0 DEF Quiet, FacadeAdvance, TypeOK, Callers
    <3> QED BY <3>1
  <2>3. CASE Admit(l)
    BY <2>3
  <2>4. ASSUME NEW d \in DeleteOptions, Release(l, d) PROVE Goal
    <3>1. Cancel(l, d)
      BY <2>4 DEF Cancel, Release
    <3> QED BY <3>1, LeaseAssumption
  <2>5. CASE CancelCreate(l)
    <3>1. Cancel(l, TRUE)
      BY <2>5 DEF Cancel, CancelCreate
    <3> QED BY <3>1
  <2> QED BY <1>1, <2>1, <2>2, <2>3, <2>4, <2>5 DEF Requests
<1>2. ASSUME NEW l \in Leases, NEW k \in Callers, Advance(l, k) PROVE Goal
  <2>1. CASE DiscardResult(l, k)
    <3>1. Quiet
      BY <2>1, <1>0 DEF Quiet, DiscardResult, TypeOK
    <3> QED BY <3>1
  <2>2. CASE CommitProgress(l, k) \/ CommitStall(l, k)
    BY <2>2 DEF CommitProgress, CommitStall
  <2> QED BY <1>2, <2>1, <2>2 DEF Advance
<1>3. CASE Environment
  <2>1. CASE Clock
    <3>1. Quiet
      BY <2>1 DEF Quiet, Clock
    <3> QED BY <3>1
  <2>2. CASE Restart
    <3>1. Quiet
      BY <2>2, <1>0 DEF Quiet, Restart
    <3> QED BY <3>1
  <2> QED BY <1>3, <2>1, <2>2 DEF Environment
<1>4. CASE UNCHANGED vars
  <2>1. Quiet
    BY <1>4 DEF Quiet, vars
  <2> QED BY <2>1
<1> QED BY <1>1, <1>2, <1>3, <1>4 DEF Next

\* A commit stores an outcome.
LEMMA CommitOutcome ==
    ASSUME TypeOK, NEW l \in Leases, NEW k \in Callers,
           NEW r \in Progress(call[l][k].snap) \cup Stall(call[l][k].snap)
    PROVE  /\ r \in Outcomes
           /\ r.phase \in {"terminal", "retained", "ready-to-publish"} => ~r.key
BY OutcomeType, CallsType

-----------------------------------------------------------------------------
(* The due index and the journal *)

\* Storing an operation replaces its one entry.
LEMMA PutDue ==
    ASSUME TypeOK, DueExact, NEW l \in Leases, NEW o \in Operations,
           PutRecord(l, o), quarantine' = quarantine
    PROVE  DueExact'
<1>1. /\ op' = [op EXCEPT ![l] = o]
      /\ due' = (due \ {<<op[l].nextWake, l>>}) \cup DueEntries(l, o)
  BY DEF PutRecord
<1>2. \A m \in Leases : op'[m] = IF m = l THEN o ELSE op[m]
  BY <1>1 DEF TypeOK
<1>3. ASSUME NEW e \in due'
      PROVE  op'[e[2]].phase \notin Parked /\ e[1] = op'[e[2]].nextWake
  <2>1. CASE e \in DueEntries(l, o)
    BY <1>2, <2>1 DEF DueEntries
  <2>2. CASE e \in due /\ e # <<op[l].nextWake, l>>
    <3>1. e \in Time \X Leases
      BY <2>2 DEF TypeOK
    <3>2. e[2] \in Leases /\ e = <<e[1], e[2]>>
      BY <3>1
    <3>3. e[2] # l
      BY <2>2, <3>2 DEF DueExact
    <3> QED BY <1>2, <2>2, <3>2, <3>3 DEF DueExact
  <2> QED BY <1>1, <1>3, <2>1, <2>2
<1>4. ASSUME NEW m \in Leases \ quarantine', op'[m].phase \notin Parked
      PROVE  <<op'[m].nextWake, m>> \in due'
  BY <1>1, <1>2, <1>4 DEF DueExact, DueEntries
<1> QED BY <1>3, <1>4 DEF DueExact

\* The due index is exact in every reachable state: no admitted operation is
\* stranded off the queue, and no finished one is still on it.
THEOREM DueIndexExact == Spec => []DueExact
<1>1. Init => DueExact
  BY DEF Init, DueExact, NoOperation, Parked
<1>2. TypeOK /\ DueExact /\ [Next]_vars => DueExact'
  <2> SUFFICES ASSUME TypeOK, DueExact, [Next]_vars PROVE DueExact'
    OBVIOUS
  <2>1. CASE Quiet
    BY <2>1 DEF Quiet, DueExact
  <2>2. CASE Tick
    <3>1. PICK p \in SUBSET due :
            /\ due' = due \ ({e \in p : op[e[2]].phase # "none" /\ ~op[e[2]].valid}
                 \cup {e \in p \ {e \in p : op[e[2]].phase # "none" /\ ~op[e[2]].valid} :
                         e \notin DueEntries(e[2], op[e[2]])})
            /\ quarantine' = quarantine \cup
                 {e[2] : e \in {e \in p : op[e[2]].phase # "none" /\ ~op[e[2]].valid}}
      BY <2>2 DEF Tick
    <3>2. \A e \in due : e = <<e[1], e[2]>>
      BY DEF TypeOK
    <3>3. \A e \in due : e \in DueEntries(e[2], op[e[2]])
      BY <3>2 DEF DueExact, DueEntries
    <3>4. \A e \in due \ due' : e[2] \in quarantine'
      BY <3>1, <3>3
    <3>5. due' \subseteq due /\ quarantine \subseteq quarantine' /\ op' = op
      BY <2>2, <3>1 DEF Tick
    <3>6. \A m \in Leases : <<op[m].nextWake, m>>[2] = m
      OBVIOUS
    <3> QED BY <3>4, <3>5, <3>6 DEF DueExact
  <2>3. ASSUME NEW l \in Leases, Admit(l) PROVE DueExact'
    <3>1. PICK o \in Operations : PutRecord(l, o)
      BY <2>3, AdmitIs DEF PutState
    <3> QED BY <2>3, <3>1, PutDue DEF Admit
  <2>4. ASSUME NEW l \in Leases, ForeignWrite(l) \/ Redeploy(l) PROVE DueExact'
    <3>1. /\ due' = due /\ quarantine' = quarantine
          /\ \E b \in BOOLEAN : op' = [op EXCEPT ![l] = [op[l] EXCEPT !.valid = b]]
      BY <2>4, Zenon DEF ForeignWrite, Redeploy
    <3>2. \A o \in Operations, b \in BOOLEAN :
            /\ [o EXCEPT !.valid = b].phase = o.phase
            /\ [o EXCEPT !.valid = b].nextWake = o.nextWake
      BY DEF Operations
    <3>3. \A m \in Leases : op'[m].phase = op[m].phase /\ op'[m].nextWake = op[m].nextWake
      BY <3>1, <3>2 DEF TypeOK
    <3>4. \A e \in due : e[2] \in Leases
      BY DEF TypeOK
    <3> QED BY <3>1, <3>3, <3>4 DEF DueExact
  <2>5. ASSUME NEW l \in Leases, NEW d \in BOOLEAN, Cancel(l, d) PROVE DueExact'
    <3>1. CanceledOperation(l, Retains(l, d)) \in Operations
      BY CanceledOperationType, RetainsType
    <3>2. PutRecord(l, CanceledOperation(l, Retains(l, d))) /\ quarantine' = quarantine
      BY <2>5 DEF Cancel, CancelOperation, PutReference
    <3> QED BY <3>1, <3>2, PutDue
  <2>6. ASSUME NEW l \in Leases, NEW k \in Callers, SkipAdvance(l, k) PROVE DueExact'
    <3>1. /\ op' = op
          /\ \/ due' = due /\ quarantine' = quarantine
             \/ due' = due \ {<<op[l].nextWake, l>>} /\ quarantine' = quarantine \cup {l}
      BY <2>6 DEF SkipAdvance
    <3> QED BY <3>1 DEF DueExact
  <2>7. ASSUME NEW l \in Leases, NEW o \in Operations,
               PutRecord(l, o), quarantine' = quarantine
        PROVE  DueExact'
    BY <2>7, PutDue
  <2>8. ASSUME NEW l \in Leases, NEW k \in Callers,
               DeferForLock(l, k) \/ Publish(l, k) \/ Claim(l, k)
        PROVE  DueExact'
    <3> DEFINE t == call[l][k].now
    <3>1. t \in Time
      BY CallsType
    <3>2. /\ Deferred(l, t) \in Operations /\ Published(l) \in Operations
          /\ Claimed(l, k, t) \in Operations
      BY <3>1, DeferredType, PublishedType, ClaimedType
    <3> QED BY <2>7, <2>8, <3>2 DEF DeferForLock, Publish, Claim, PutState
  <2>9. ASSUME NEW l \in Leases, NEW k \in Callers,
               NEW r \in Progress(call[l][k].snap) \cup Stall(call[l][k].snap),
               CommitResult(l, k, r)
        PROVE  DueExact'
    <3>1. Committed(l, r) \in Operations
      BY CommitOutcome, CommittedType
    <3> QED BY <2>7, <2>9, <3>1 DEF CommitResult, PutState
  <2> QED BY <2>1, <2>2, <2>3, <2>4, <2>5, <2>6, <2>8, <2>9, Steps
<1> QED BY <1>1, <1>2, TypeCorrect, PTL DEF Spec
\* Rewriting a record in another schema and back leaves its other fields.
LEMMA ForeignIs ==
    ASSUME TypeOK, NEW l \in Leases, ForeignWrite(l) \/ Redeploy(l)
    PROVE  /\ UNCHANGED <<lease, journal, material, due, lock, quarantine, call>>
           /\ \A m \in Leases :
                /\ op'[m].phase = op[m].phase /\ op'[m].attempt = op[m].attempt
                /\ op'[m].key = op[m].key /\ op'[m].delivery = op[m].delivery
                /\ op'[m].revision = op[m].revision /\ op'[m].claim = op[m].claim
                /\ op'[m].retain = op[m].retain /\ op'[m].canceled = op[m].canceled
                /\ op'[m].nextWake = op[m].nextWake
<1>1. /\ UNCHANGED <<lease, journal, material, due, lock, quarantine, call>>
      /\ \E b \in BOOLEAN : op' = [op EXCEPT ![l] = [op[l] EXCEPT !.valid = b]]
  BY Zenon DEF ForeignWrite, Redeploy
<1>2. PICK b \in BOOLEAN : op' = [op EXCEPT ![l] = [op[l] EXCEPT !.valid = b]]
  BY <1>1
<1>3. op \in [Leases -> Operations]
  BY DEF TypeOK
<1> QED BY <1>1, <1>2, <1>3 DEF Operations

\* The operation is o now, and the journal of its attempt holds state s; no
\* other operation or journal has changed.
Stored(l, o, s) ==
    /\ PutRecord(l, o)
    /\ op' = [op EXCEPT ![l] = o]
    /\ \A m \in Leases, a \in Attempts :
         journal'[m][a] = IF m = l /\ a = o.attempt
                          THEN [revision |-> o.revision, stage |-> s.stage,
                                rejected |-> s.rejected]
                          ELSE journal[m][a]

\* Both branches of putProvisioningOperation store that way, the reference with
\* the state that was there.
LEMMA PutStores ==
    ASSUME TypeOK, NEW l \in Leases, NEW o \in Operations
    PROVE  /\ \A s : PutState(l, o, s) => Stored(l, o, s)
           /\ PutReference(l, o) /\ o.attempt = op[l].attempt =>
                Stored(l, o, JournalOf(l)) /\ JournalMatches(l)
<1>0. o.attempt \in Attempts
  BY DEF Operations
<1>1. ASSUME NEW s, PutState(l, o, s) PROVE Stored(l, o, s)
  <2>1. \A m \in Leases, a \in Attempts :
          journal'[m][a] = IF m = l /\ a = o.attempt
                           THEN [revision |-> o.revision, stage |-> s.stage,
                                 rejected |-> s.rejected]
                           ELSE journal[m][a]
    BY <1>0, <1>1 DEF TypeOK, PutState
  <2> QED BY <1>1, <2>1 DEF PutState, PutRecord, Stored
<1>2. ASSUME PutReference(l, o), o.attempt = op[l].attempt
      PROVE  Stored(l, o, JournalOf(l)) /\ JournalMatches(l)
  <2>1. \A m \in Leases, a \in Attempts :
          journal'[m][a] = IF m = l /\ a = o.attempt
                           THEN [journal[l][o.attempt] EXCEPT !.revision = o.revision]
                           ELSE journal[m][a]
    BY <1>0, <1>2 DEF TypeOK, PutReference
  <2>2. [JournalOf(l) EXCEPT !.revision = o.revision] =
          [revision |-> o.revision, stage |-> JournalOf(l).stage,
           rejected |-> JournalOf(l).rejected]
    BY JournalType DEF Journals
  <2>3. journal[l][o.attempt] = JournalOf(l)
    BY <1>2 DEF JournalOf
  <2> QED BY <1>2, <2>1, <2>2, <2>3 DEF PutReference, PutRecord, Stored
<1> QED BY <1>1, <1>2

\* The operations and the attempts they are at are left alone.
Unwritten ==
    /\ journal' = journal
    /\ \A l \in Leases : /\ op'[l].phase = op[l].phase
                          /\ op'[l].attempt = op[l].attempt
                          /\ op'[l].revision = op[l].revision

\* A journal is begun at admission, rewritten with the state it held by every
\* transaction that settles nothing, and given a result by the commit.
Rewritten(l, o) ==
    \/ op[l].phase = "none" /\ o.attempt = 0 /\ Stored(l, o, Fresh)
    \/ JournalMatches(l) /\ o.attempt = op[l].attempt /\ Stored(l, o, JournalOf(l))
    \/ \E k \in Callers : \E r \in Progress(call[l][k].snap) \cup Stall(call[l][k].snap) :
         /\ call[l][k].pc = "calling" /\ Fenced(l, k)
         /\ o.attempt = r.attempt /\ Stored(l, o, r)

\* Every step leaves the journals alone or rewrites one.
LEMMA JournalSteps ==
    ASSUME TypeOK, [Next]_vars
    PROVE  \/ Unwritten
           \/ \E l \in Leases, o \in Operations : o.phase # "none" /\ Rewritten(l, o)
<1> DEFINE Goal == \/ Unwritten
                   \/ \E l \in Leases, o \in Operations :
                        o.phase # "none" /\ Rewritten(l, o)
<1>1. CASE Quiet \/ Tick \/ \E l \in Leases, k \in Callers : SkipAdvance(l, k)
  BY <1>1 DEF Unwritten, Quiet, Tick, SkipAdvance
<1>2. ASSUME NEW l \in Leases, ForeignWrite(l) \/ Redeploy(l) PROVE Goal
  BY <1>2, ForeignIs DEF Unwritten
<1>3. ASSUME NEW l \in Leases, Admit(l) PROVE Goal
  <2>1. PICK o \in Operations :
          PutState(l, o, Fresh) /\ o.attempt = 0 /\ o.phase = "prepared"
    BY <1>3, AdmitIs
  <2>2. op[l].phase = "none"
    BY <1>3 DEF Admit
  <2>3. Rewritten(l, o)
    BY <2>1, <2>2, PutStores DEF Rewritten
  <2> QED BY <2>1, <2>3
<1>4. ASSUME NEW l \in Leases, NEW d \in BOOLEAN, Cancel(l, d) PROVE Goal
  <2>1. PICK b \in BOOLEAN, o \in Operations : Canceling(l, b, o)
    BY <1>4, CancelIs DEF Cancel
  <2>2. PutReference(l, o) /\ o.attempt = op[l].attempt /\ o.phase # "none"
    BY <2>1 DEF Canceling
  <2>3. Rewritten(l, o)
    BY <2>2, PutStores DEF Rewritten
  <2> QED BY <2>2, <2>3
<1>5. ASSUME NEW l \in Leases, NEW k \in Callers,
             DeferForLock(l, k) \/ Publish(l, k) \/ Claim(l, k)
      PROVE  Goal
  <2> DEFINE t == call[l][k].now
  <2>1. PICK o \in {Deferred(l, t), Published(l), Claimed(l, k, t)} :
          PutState(l, o, JournalOf(l)) /\ JournalMatches(l) /\ op[l].phase \notin Parked
    BY <1>5 DEF DeferForLock, Publish, Claim, Claimable
  <2>2. t \in Time
    BY CallsType
  <2> HIDE DEF t
  <2>3. o \in Operations
    BY <2>1, <2>2, DeferredType, PublishedType, ClaimedType
  <2>4. o.attempt = op[l].attempt /\ o.phase # "none"
    BY <2>1, DeferredIs, PublishedIs, ClaimedIs DEF Parked
  <2>5. Rewritten(l, o)
    BY <2>1, <2>3, <2>4, PutStores DEF Rewritten
  <2> QED BY <2>3, <2>4, <2>5
<1>6. ASSUME NEW l \in Leases, NEW k \in Callers,
             NEW r \in Progress(call[l][k].snap) \cup Stall(call[l][k].snap),
             CommitResult(l, k, r)
      PROVE  Goal
  <2>0. r \in Outcomes
    BY CommitOutcome
  <2>1. /\ PutState(l, Committed(l, r), r)
        /\ call[l][k].pc = "calling" /\ Fenced(l, k)
    BY <1>6 DEF CommitResult
  <2>2. /\ Committed(l, r) \in Operations
        /\ Committed(l, r).attempt = r.attempt /\ Committed(l, r).phase # "none"
    BY <2>0, CommittedIs, CommittedType, CommittedPhaseType
  <2>3. Rewritten(l, Committed(l, r))
    BY <2>1, <2>2, PutStores DEF Rewritten
  <2> QED BY <2>2, <2>3
<1> QED BY <1>1, <1>2, <1>3, <1>4, <1>5, <1>6, Steps

\* The step's journal carries the operation's revision, and attempts not yet
\* begun have none: the quarantine branch of advance() and the failure branch
\* of cancellation are never taken on records this version wrote.
JournalInv ==
    \A l \in Leases :
      /\ op[l].phase # "none" => JournalMatches(l)
      /\ op[l].phase = "none" => op[l].attempt = 0
      /\ \A a \in Attempts : op[l].phase = "none" \/ a > op[l].attempt =>
           journal[l][a] = NoJournal

\* An outcome keeps what its snapshot knew of the attempt, or begins the next.
LEMMA OutcomeKeeps ==
    ASSUME NEW s \in Snapshots, NEW r \in Progress(s) \cup Stall(s)
    PROVE  \/ /\ r.attempt = s.attempt
              /\ s.stage = "owned" => r.stage = "owned"
              /\ s.rejected => r.rejected
           \/ r.attempt = s.attempt + 1
<1> DEFINE Keeps == /\ r.attempt = s.attempt
                    /\ s.stage = "owned" => r.stage = "owned"
                    /\ s.rejected => r.rejected
<1>1. ASSUME NEW p, NEW g \in {s.stage, "owned"}, NEW b \in BOOLEAN, NEW d,
             s.rejected => b, r = Output(s, p, g, b, d)
      PROVE  Keeps
  BY <1>1 DEF Output
<1>2. ASSUME r = Thrown(s) PROVE Keeps
  BY <1>2 DEF Thrown
<1>3. ASSUME r = NextCandidate(s) PROVE r.attempt = s.attempt + 1
  BY <1>3 DEF NextCandidate
<1>4. s.rejected \in BOOLEAN
  BY DEF Snapshots
<1>5. CASE r \in Progress(s)
  BY <1>1, <1>3, <1>4, <1>5 DEF Progress, CleansUp
<1>6. CASE r \in Stall(s)
  BY <1>1, <1>2, <1>4, <1>6 DEF Stall
<1> QED BY <1>5, <1>6

\* A result that passes the fence is of the operation's attempt or the next.
LEMMA FencedAttempt ==
    ASSUME TypeOK, NEW l \in Leases, NEW k \in Callers, Fenced(l, k),
           NEW r \in Progress(call[l][k].snap) \cup Stall(call[l][k].snap)
    PROVE  r.attempt \in {op[l].attempt, op[l].attempt + 1}
BY OutcomeKeeps, CallsType DEF Fenced

\* Every step keeps the journals in step with the operations.
LEMMA JournalStep == TypeOK /\ JournalInv /\ [Next]_vars => JournalInv'
<1> SUFFICES ASSUME TypeOK, JournalInv, [Next]_vars PROVE JournalInv'
  OBVIOUS
<1>1. CASE Unwritten
  BY <1>1 DEF Unwritten, JournalInv, JournalMatches, JournalOf
<1>2. ASSUME NEW l \in Leases, NEW o \in Operations, o.phase # "none", Rewritten(l, o)
      PROVE  JournalInv'
  <2>1. PICK s : /\ Stored(l, o, s) /\ s.stage # "none"
                 /\ op[l].phase = "none" \/ o.attempt \in {op[l].attempt, op[l].attempt + 1}
    <3>1. CASE op[l].phase = "none" /\ o.attempt = 0 /\ Stored(l, o, Fresh)
      <4>1. Fresh.stage # "none"
        BY DEF Fresh
      <4> QED BY <3>1, <4>1
    <3>2. CASE JournalMatches(l) /\ o.attempt = op[l].attempt /\ Stored(l, o, JournalOf(l))
      BY <3>2 DEF JournalMatches
    <3>3. ASSUME NEW k \in Callers,
                 NEW r \in Progress(call[l][k].snap) \cup Stall(call[l][k].snap),
                 Fenced(l, k), o.attempt = r.attempt, Stored(l, o, r)
          PROVE  /\ Stored(l, o, r) /\ r.stage # "none"
                 /\ o.attempt \in {op[l].attempt, op[l].attempt + 1}
      <4>1. r.stage # "none"
        BY CommitOutcome DEF Outcomes
      <4> QED BY <3>3, <4>1, FencedAttempt
    <3> QED BY <1>2, <3>1, <3>2, <3>3 DEF Rewritten
  <2>2. \A m \in Leases : op'[m] = IF m = l THEN o ELSE op[m]
    BY <2>1 DEF TypeOK, Stored
  <2>3. \A m \in Leases, a \in Attempts :
          journal'[m][a] = IF m = l /\ a = o.attempt
                           THEN [revision |-> o.revision, stage |-> s.stage,
                                 rejected |-> s.rejected]
                           ELSE journal[m][a]
    BY <2>1 DEF Stored
  <2>4. o.attempt \in Attempts /\ \A m \in Leases : op[m].attempt \in Attempts
    BY DEF TypeOK, Operations
  <2>5. journal'[l][o.attempt].stage # "none"
        /\ journal'[l][o.attempt].revision = o.revision
    BY <2>1, <2>3, <2>4
  <2>6. \A m \in Leases : m # l => JournalOf(m)' = JournalOf(m)
    BY <2>2, <2>3, <2>4 DEF JournalOf
  <2>7. \A m \in Leases : op'[m].phase # "none" => JournalMatches(m)'
    BY <2>2, <2>5, <2>6 DEF JournalInv, JournalMatches, JournalOf
  <2>8. \A m \in Leases : op'[m].phase = "none" => op'[m].attempt = 0
    BY <1>2, <2>2 DEF JournalInv
  <2>9. ASSUME NEW m \in Leases, NEW a \in Attempts,
               op'[m].phase = "none" \/ a > op'[m].attempt
        PROVE  journal'[m][a] = NoJournal
    <3>1. CASE m # l
      BY <2>2, <2>3, <2>9, <3>1 DEF JournalInv
    <3>2. CASE m = l
      <4>1. a > o.attempt
        BY <1>2, <2>2, <2>9, <3>2
      <4>2. op[l].phase = "none" \/ a > op[l].attempt
        BY <2>1, <2>4, <4>1 DEF Attempts
      <4>3. a # o.attempt
        BY <2>4, <4>1 DEF Attempts
      <4> QED BY <2>3, <3>2, <4>2, <4>3 DEF JournalInv
    <3> QED BY <3>1, <3>2
  <2> QED BY <2>7, <2>8, <2>9 DEF JournalInv
<1> QED BY <1>1, <1>2, JournalSteps

\* They are in step in every reachable state.
LEMMA JournalInvariant == Spec => []JournalInv
<1>1. Init => JournalInv
  <2> SUFFICES ASSUME Init PROVE JournalInv
    OBVIOUS
  <2>1. \A l \in Leases : op[l] = NoOperation /\ \A a \in Attempts : journal[l][a] = NoJournal
    BY DEF Init
  <2> QED BY <2>1 DEF JournalInv, NoOperation
<1> QED BY <1>1, JournalStep, TypeCorrect, PTL DEF Spec

-----------------------------------------------------------------------------
(* Scope locks *)

\* A step ready for publication needs no lock.
ReadyNoKey == \A l \in Leases : op[l].phase = "ready-to-publish" => ~op[l].key

LockInv == ScopeExclusive /\ LockNotLeaked /\ ReadyNoKey

\* A transaction that keeps the key, and takes the lock if the key is there,
\* keeps the locks in order.
LEMMA TakeLockInv ==
    ASSUME TypeOK, LockInv, NEW l \in Leases, NEW o,
           op' = [op EXCEPT ![l] = o],
           o.key = op[l].key,
           ~LockedOut(l),
           TakeLock(l),
           o.phase = op[l].phase /\ op[l].phase \notin Parked
    PROVE  LockInv'
<1>1. \A m \in Leases : op'[m] = IF m = l THEN o ELSE op[m]
  BY DEF TypeOK
<1>2. \A m \in Leases : op'[m].key = op[m].key /\ op'[m].phase = op[m].phase
  BY <1>1
<1>3. lock' = IF op[l].key THEN [lock EXCEPT ![ScopeOf[l]] = l] ELSE lock
  BY DEF TakeLock
<1>4. op[l].key => lock[ScopeOf[l]] \in {NoOne, l}
  BY DEF LockedOut
<1>5. ScopeOf \in [Leases -> Scopes] /\ lock \in [Scopes -> Leases \cup {NoOne}]
  BY LeaseAssumption DEF TypeOK
<1>6. ScopeExclusive'
  <2> SUFFICES ASSUME NEW m \in Leases, op'[m].claim # NoOne, op'[m].key
               PROVE  lock'[ScopeOf[m]] = m
    BY DEF ScopeExclusive
  <2>1. CASE m = l
    BY <1>2, <1>3, <1>5, <2>1
  <2>2. CASE m # l
    <3>1. lock[ScopeOf[m]] = m
      BY <1>1, <2>2 DEF LockInv, ScopeExclusive
    <3>2. m # NoOne
      BY NoOneAssumption
    <3> QED BY <1>3, <1>4, <1>5, <2>2, <3>1, <3>2
  <2> QED BY <2>1, <2>2
<1>7. LockNotLeaked'
  <2> SUFFICES ASSUME NEW s \in Scopes, lock'[s] # NoOne
               PROVE  LET m == lock'[s]
                      IN  ScopeOf[m] = s /\ op'[m].key /\ op'[m].phase \notin Parked
    BY DEF LockNotLeaked
  <2>1. CASE lock'[s] = lock[s]
    <3>1. lock[s] \in Leases
      BY <1>5, <2>1
    <3> QED BY <1>2, <2>1, <3>1 DEF LockInv, LockNotLeaked
  <2>2. CASE lock'[s] # lock[s]
    BY <1>2, <1>3, <1>5, <2>2
  <2> QED BY <2>1, <2>2
<1>8. ReadyNoKey'
  BY <1>2 DEF LockInv, ReadyNoKey
<1> QED BY <1>6, <1>7, <1>8 DEF LockInv

\* A transaction that leaves the locks alone keeps them in order when it keeps
\* the key and the claim, and parks no operation that holds one.
LEMMA SameLockInv ==
    ASSUME TypeOK, LockInv, lock' = lock,
           \A m \in Leases :
             /\ op'[m].claim # NoOne => op'[m].claim = op[m].claim
             /\ op'[m].claim # NoOne \/ op[m].key => op'[m].key = op[m].key
             /\ op[m].key /\ op[m].phase \notin Parked => op'[m].phase \notin Parked
             /\ op'[m].phase = "ready-to-publish" =>
                  op[m].phase = "ready-to-publish" /\ op'[m].key = op[m].key
    PROVE  LockInv'
<1>1. ScopeOf \in [Leases -> Scopes] /\ lock \in [Scopes -> Leases \cup {NoOne}]
  BY LeaseAssumption DEF TypeOK
<1>2. ScopeExclusive'
  BY DEF LockInv, ScopeExclusive
<1>3. LockNotLeaked'
  BY <1>1 DEF LockInv, LockNotLeaked
<1>4. ReadyNoKey'
  BY DEF LockInv, ReadyNoKey
<1> QED BY <1>2, <1>3, <1>4 DEF LockInv

\* Settling a step gives up its lock exactly when the result drops the key.
LEMMA CommitLockInv ==
    ASSUME TypeOK, LockInv, NEW l \in Leases, NEW k \in Callers,
           NEW r \in Progress(call[l][k].snap) \cup Stall(call[l][k].snap),
           CommitResult(l, k, r)
    PROVE  LockInv'
<1> DEFINE o == Committed(l, r)
<1>0. /\ r \in Outcomes
      /\ r.phase \in {"terminal", "retained", "ready-to-publish"} => ~r.key
  BY CommitOutcome
<1>1. o.key = r.key /\ o.claim = NoOne /\ o.phase = CommittedPhase(l, r)
  BY <1>0, CommittedIs
<1>2. /\ o.phase \in {"terminal", "retained", "ready-to-publish"} => ~o.key
      /\ o.phase # "none"
  BY <1>0, <1>1 DEF CommittedPhase, Outcomes
<1>3. op' = [op EXCEPT ![l] = o]
  BY DEF CommitResult, PutState, PutRecord
<1>4. /\ op[l].claim = k
      /\ lock' = IF op[l].key /\ ~o.key /\ lock[ScopeOf[l]] = l
                 THEN [lock EXCEPT ![ScopeOf[l]] = NoOne] ELSE lock
  BY <1>1 DEF CommitResult, ReleaseLock, Fenced
<1> HIDE DEF o
<1>5. \A m \in Leases : op'[m] = IF m = l THEN o ELSE op[m]
  BY <1>3 DEF TypeOK
<1>6. ScopeOf \in [Leases -> Scopes] /\ lock \in [Scopes -> Leases \cup {NoOne}]
  BY LeaseAssumption DEF TypeOK
<1>7. ScopeExclusive'
  <2> SUFFICES ASSUME NEW m \in Leases, op'[m].claim # NoOne, op'[m].key
               PROVE  lock'[ScopeOf[m]] = m
    BY DEF ScopeExclusive
  <2>1. m # l
    BY <1>1, <1>5
  <2>2. lock[ScopeOf[m]] = m
    BY <1>5, <2>1 DEF LockInv, ScopeExclusive
  <2> QED BY <1>4, <1>6, <2>1, <2>2
<1>8. LockNotLeaked'
  <2> SUFFICES ASSUME NEW s \in Scopes, lock'[s] # NoOne
               PROVE  LET m == lock'[s]
                      IN  ScopeOf[m] = s /\ op'[m].key /\ op'[m].phase \notin Parked
    BY DEF LockNotLeaked
  <2>1. lock'[s] = lock[s] /\ lock[s] \in Leases
    BY <1>4, <1>6
  <2>2. ScopeOf[lock[s]] = s /\ op[lock[s]].key /\ op[lock[s]].phase \notin Parked
    BY <2>1, NoOneAssumption DEF LockInv, LockNotLeaked
  <2>3. CASE lock[s] = l
    <3>1. o.key
      BY <1>4, <1>6, <2>1, <2>2, <2>3, NoOneAssumption
    <3> QED BY <1>2, <1>5, <2>1, <2>2, <2>3, <3>1 DEF Parked
  <2>4. CASE lock[s] # l
    BY <1>5, <2>1, <2>2, <2>4
  <2> QED BY <2>3, <2>4
<1>9. ReadyNoKey'
  BY <1>2, <1>5 DEF LockInv, ReadyNoKey
<1> QED BY <1>7, <1>8, <1>9 DEF LockInv

\* Every step keeps the locks in order.
LEMMA LockStep == TypeOK /\ LockInv /\ [Next]_vars => LockInv'
<1> SUFFICES ASSUME TypeOK, LockInv, [Next]_vars PROVE LockInv'
  OBVIOUS
<1>0. \A l \in Leases : \A o : op' = [op EXCEPT ![l] = o] =>
        \A m \in Leases : op'[m] = IF m = l THEN o ELSE op[m]
  BY DEF TypeOK
<1>1. CASE UNCHANGED <<op, lock>>
  BY <1>1, SameLockInv
<1>2. ASSUME NEW l \in Leases, ForeignWrite(l) \/ Redeploy(l) PROVE LockInv'
  BY <1>2, ForeignIs, SameLockInv
<1>3. ASSUME NEW l \in Leases, Admit(l) PROVE LockInv'
  <2>1. lock' = lock /\ op[l].phase \in Parked
    BY <1>3 DEF Admit, Parked
  <2>2. PICK o \in Operations : /\ PutRecord(l, o) /\ o.phase = "prepared"
                                /\ o.key = TRUE /\ o.claim = NoOne
    BY <1>3, AdmitIs DEF PutState
  <2>3. op[l].key \in BOOLEAN
    BY DEF TypeOK, Operations
  <2>4. op[l].key => o.key = op[l].key
    BY <2>2, <2>3
  <2>5. \A m \in Leases : op'[m] = IF m = l THEN o ELSE op[m]
    BY <1>0, <2>2 DEF PutRecord
  <2> QED BY <2>1, <2>2, <2>4, <2>5, SameLockInv
<1>4. ASSUME NEW l \in Leases, NEW d \in BOOLEAN, Cancel(l, d) PROVE LockInv'
  <2>1. PICK b \in BOOLEAN, o \in Operations : Canceling(l, b, o)
    BY <1>4, CancelIs DEF Cancel
  <2>2. /\ op' = [op EXCEPT ![l] = o] /\ lock' = lock
        /\ o.key = op[l].key /\ o.claim = op[l].claim
        /\ o.phase \in {op[l].phase, "settling"}
    BY <1>4, <2>1 DEF Canceling, Cancel, PutReference, PutRecord
  <2> QED BY <1>0, <2>1, <2>2, SameLockInv DEF Parked
<1>5. ASSUME NEW l \in Leases, NEW k \in Callers, DeferForLock(l, k) PROVE LockInv'
  <2> DEFINE o == Deferred(l, call[l][k].now)
  <2>1. op' = [op EXCEPT ![l] = o] /\ lock' = lock
    BY <1>5 DEF DeferForLock, PutState, PutRecord
  <2>2. o.key = op[l].key /\ o.claim = op[l].claim /\ o.phase = op[l].phase
    BY DeferredIs
  <2> HIDE DEF o
  <2> QED BY <1>0, <2>1, <2>2, SameLockInv
<1>6. ASSUME NEW l \in Leases, NEW k \in Callers, Publish(l, k) PROVE LockInv'
  <2>1. ~op[l].key
    BY <1>6 DEF Publish, MayPublish, LockInv, ReadyNoKey
  <2>2. op' = [op EXCEPT ![l] = Published(l)] /\ lock' = lock
    BY <1>6, <2>1 DEF Publish, PutState, PutRecord, TakeLock
  <2>3. /\ Published(l).key = op[l].key /\ Published(l).claim = op[l].claim
        /\ Published(l).phase = "terminal"
    BY PublishedIs
  <2> QED BY <1>0, <2>1, <2>2, <2>3, SameLockInv
<1>7. ASSUME NEW l \in Leases, NEW k \in Callers, Claim(l, k) PROVE LockInv'
  <2> DEFINE o == Claimed(l, k, call[l][k].now)
  <2>1. /\ op' = [op EXCEPT ![l] = o] /\ TakeLock(l) /\ ~LockedOut(l)
        /\ op[l].phase \notin Parked
    BY <1>7 DEF Claim, PutState, PutRecord, Claimable
  <2>2. o.key = op[l].key /\ o.phase = op[l].phase
    BY ClaimedIs
  <2> HIDE DEF o
  <2> QED BY <2>1, <2>2, TakeLockInv
<1>8. ASSUME NEW l \in Leases, NEW k \in Callers,
             NEW r \in Progress(call[l][k].snap) \cup Stall(call[l][k].snap),
             CommitResult(l, k, r)
      PROVE  LockInv'
  BY <1>8, CommitLockInv
<1>9. CASE Quiet \/ Tick \/ \E l \in Leases, k \in Callers : SkipAdvance(l, k)
  BY <1>1, <1>9 DEF Quiet, Tick, SkipAdvance
<1> QED BY <1>2, <1>3, <1>4, <1>5, <1>6, <1>7, <1>8, <1>9, Steps

\* The locks are in order in every reachable state.
LEMMA LockInvariant == Spec => []LockInv
<1>1. Init => LockInv
  <2> SUFFICES ASSUME Init PROVE LockInv
    OBVIOUS
  <2>1. /\ \A l \in Leases : op[l] = NoOperation
        /\ \A s \in Scopes : lock[s] = NoOne
    BY DEF Init
  <2> QED BY <2>1 DEF LockInv, ScopeExclusive, LockNotLeaked, ReadyNoKey, NoOperation
<1> QED BY <1>1, LockStep, TypeCorrect, PTL DEF Spec

\* Claimed work on shared infrastructure of a scope always holds the scope's
\* lock, so no two leases are ever claimed there at once.
THEOREM SharedScopeExclusive == Spec => []ScopeExclusive
BY LockInvariant, PTL DEF LockInv

\* A scope lock is always owned by an unfinished operation that still names it.
THEOREM ScopeLockNotLeaked == Spec => []LockNotLeaked
BY LockInvariant, PTL DEF LockInv

-----------------------------------------------------------------------------
(* Claims and the commit fence *)

\* A claim is on unfinished work, and work ready for publication is claimed
\* only to be undone.
ClaimInv ==
    \A l \in Leases : op[l].claim # NoOne =>
      /\ op[l].phase \notin Parked
      /\ op[l].phase = "ready-to-publish" => op[l].canceled

\* The claimed step as a call knows it.
SameStep(o, j, s) ==
    /\ o.phase = s.phase /\ j.stage = s.stage /\ j.rejected = s.rejected
    /\ o.key = s.key /\ o.delivery = s.delivery

\* A call in progress works on an admitted operation; until the revision moves
\* on, the operation and its journal still hold the step the call was given.
FenceInv ==
    \A l \in Leases, k \in Callers : call[l][k].pc = "calling" =>
      /\ op[l].phase # "none"
      /\ call[l][k].snap.revision <= op[l].revision
      /\ call[l][k].snap.revision = op[l].revision /\ op[l].claim = k =>
           SameStep(op[l], JournalOf(l), call[l][k].snap)

\* Every step keeps claims on unfinished work.
LEMMA ClaimStep == TypeOK /\ ClaimInv /\ [Next]_vars => ClaimInv'
<1> SUFFICES ASSUME TypeOK, ClaimInv, [Next]_vars PROVE ClaimInv'
  OBVIOUS
<1>0. ASSUME NEW l \in Leases, NEW o, PutRecord(l, o),
             o.claim # NoOne =>
               /\ o.phase \notin Parked
               /\ o.phase = "ready-to-publish" => o.canceled
      PROVE  ClaimInv'
  <2>1. \A m \in Leases : op'[m] = IF m = l THEN o ELSE op[m]
    BY <1>0 DEF TypeOK, PutRecord
  <2> QED BY <1>0, <2>1 DEF ClaimInv
<1>1. CASE UNCHANGED op
  BY <1>1 DEF ClaimInv
<1>2. ASSUME NEW l \in Leases, ForeignWrite(l) \/ Redeploy(l) PROVE ClaimInv'
  BY <1>2, ForeignIs DEF ClaimInv
<1>3. ASSUME NEW l \in Leases, Admit(l) PROVE ClaimInv'
  <2>1. PICK o \in Operations : PutRecord(l, o) /\ o.claim = NoOne
    BY <1>3, AdmitIs DEF PutState
  <2> QED BY <1>0, <2>1
<1>4. ASSUME NEW l \in Leases, NEW d \in BOOLEAN, Cancel(l, d) PROVE ClaimInv'
  <2>1. PICK b \in BOOLEAN, o \in Operations : Canceling(l, b, o)
    BY <1>4, CancelIs DEF Cancel
  <2>2. /\ PutRecord(l, o) /\ o.claim = op[l].claim /\ o.canceled = TRUE
        /\ o.phase \in {op[l].phase, "settling"}
    BY <2>1 DEF Canceling, PutReference
  <2> QED BY <1>0, <2>1, <2>2 DEF ClaimInv, Parked
<1>5. ASSUME NEW l \in Leases, NEW k \in Callers, DeferForLock(l, k) PROVE ClaimInv'
  <2> DEFINE o == Deferred(l, call[l][k].now)
  <2>1. PutRecord(l, o)
    BY <1>5 DEF DeferForLock, PutState
  <2>2. /\ o.claim = op[l].claim /\ o.phase = op[l].phase
        /\ o.canceled = IsCanceled(l, call[l][k].now)
    BY DeferredIs
  <2>3. op[l].canceled => o.canceled
    BY <2>2 DEF IsCanceled
  <2> HIDE DEF o
  <2> QED BY <1>0, <2>1, <2>2, <2>3 DEF ClaimInv
<1>6. ASSUME NEW l \in Leases, NEW k \in Callers, Publish(l, k) PROVE ClaimInv'
  <2>1. op[l].claim = NoOne
    BY <1>6 DEF Publish, MayPublish, IsCanceled, ClaimInv
  <2>2. PutRecord(l, Published(l)) /\ Published(l).claim = NoOne
    BY <1>6, <2>1, PublishedIs DEF Publish, PutState
  <2> QED BY <1>0, <2>2
<1>7. ASSUME NEW l \in Leases, NEW k \in Callers, Claim(l, k) PROVE ClaimInv'
  <2> DEFINE t == call[l][k].now
             o == Claimed(l, k, t)
  <2>1. PutRecord(l, o) /\ op[l].phase \notin Parked /\ ~MayPublish(l, t)
    BY <1>7 DEF Claim, Claimable, PutState
  <2>2. o.phase = op[l].phase /\ o.canceled = IsCanceled(l, t)
    BY ClaimedIs
  <2>3. o.phase = "ready-to-publish" => o.canceled
    BY <2>1, <2>2 DEF MayPublish
  <2> HIDE DEF o
  <2> QED BY <1>0, <2>1, <2>2, <2>3
<1>8. ASSUME NEW l \in Leases, NEW k \in Callers,
             NEW r \in Progress(call[l][k].snap) \cup Stall(call[l][k].snap),
             CommitResult(l, k, r)
      PROVE  ClaimInv'
  <2>1. PutRecord(l, Committed(l, r)) /\ Committed(l, r).claim = NoOne
    BY <1>8, CommitOutcome, CommittedIs DEF CommitResult, PutState
  <2> QED BY <1>0, <2>1
<1>9. CASE Quiet \/ Tick \/ \E l \in Leases, k \in Callers : SkipAdvance(l, k)
  BY <1>1, <1>9 DEF Quiet, Tick, SkipAdvance
<1> QED BY <1>2, <1>3, <1>4, <1>5, <1>6, <1>7, <1>8, <1>9, Steps

\* Claims are on unfinished work in every reachable state.
LEMMA ClaimInvariant == Spec => []ClaimInv
<1>1. Init => ClaimInv
  BY DEF Init, ClaimInv, NoOperation
<1> QED BY <1>1, ClaimStep, TypeCorrect, PTL DEF Spec

\* Storing an operation keeps the fence when it raises the revision, or keeps
\* revision, claim and (under a claim) the step; calls end, or begin with it.
LEMMA FenceKeep ==
    ASSUME TypeOK, FenceInv, NEW l \in Leases, NEW o \in Operations, NEW s,
           Stored(l, o, s), o.phase # "none",
           \/ o.revision = op[l].revision + 1
           \/ /\ o.revision = op[l].revision /\ o.claim = op[l].claim
              /\ o.claim # NoOne =>
                   /\ o.phase = op[l].phase /\ o.key = op[l].key
                   /\ o.delivery = op[l].delivery /\ s = JournalOf(l),
           \A m \in Leases, k \in Callers : call'[m][k].pc = "calling" =>
             \/ call'[m][k] = call[m][k]
             \/ m = l /\ call'[m][k].snap = Snapshot(o, s)
    PROVE  FenceInv'
<1>0. o.attempt \in Attempts /\ \A m \in Leases : op[m].attempt \in Attempts
  BY DEF TypeOK, Operations
<1>1. \A m \in Leases : op'[m] = IF m = l THEN o ELSE op[m]
  BY DEF TypeOK, Stored
<1>2. /\ JournalOf(l)' = [revision |-> o.revision, stage |-> s.stage,
                           rejected |-> s.rejected]
      /\ \A m \in Leases : m # l => JournalOf(m)' = JournalOf(m)
  BY <1>0, <1>1 DEF Stored, JournalOf
<1>3. Snapshot(o, s).revision = o.revision /\ SameStep(o, s, Snapshot(o, s))
  BY DEF Snapshot, SameStep
<1>4. \A x : SameStep(o, s, x) <=> SameStep(o, JournalOf(l)', x)
  BY <1>2 DEF SameStep
<1>5. o.revision \in Nat /\ op[l].revision \in Nat
  BY DEF TypeOK, Operations
<1> SUFFICES ASSUME NEW m \in Leases, NEW k \in Callers, call'[m][k].pc = "calling"
             PROVE  /\ op'[m].phase # "none"
                    /\ call'[m][k].snap.revision <= op'[m].revision
                    /\ call'[m][k].snap.revision = op'[m].revision /\ op'[m].claim = k =>
                         SameStep(op'[m], JournalOf(m)', call'[m][k].snap)
  BY DEF FenceInv
<1>6. CASE m = l /\ call'[m][k].snap = Snapshot(o, s)
  BY <1>1, <1>3, <1>4, <1>5, <1>6
<1>7. CASE call'[m][k] = call[m][k]
  <2>1. /\ op[m].phase # "none"
        /\ call[m][k].snap.revision <= op[m].revision
        /\ call[m][k].snap.revision = op[m].revision /\ op[m].claim = k =>
             SameStep(op[m], JournalOf(m), call[m][k].snap)
    BY <1>7 DEF FenceInv
  <2>2. call[m][k].snap.revision \in Nat
    BY CallsType DEF Snapshots
  <2>3. k # NoOne
    BY NoOneAssumption DEF Callers
  <2>4. CASE m # l
    BY <1>1, <1>2, <1>7, <2>1, <2>4
  <2>5. CASE m = l /\ o.revision = op[l].revision + 1
    BY <1>1, <1>5, <1>7, <2>1, <2>2, <2>5
  <2>6. CASE /\ m = l /\ o.revision = op[l].revision /\ o.claim = op[l].claim
             /\ o.claim # NoOne =>
                  /\ o.phase = op[l].phase /\ o.key = op[l].key
                  /\ o.delivery = op[l].delivery /\ s = JournalOf(l)
    <3>1. o.claim = k /\ call[l][k].snap.revision = o.revision =>
            SameStep(o, s, call[l][k].snap)
      BY <2>1, <2>3, <2>6 DEF SameStep
    <3> QED BY <1>1, <1>4, <1>7, <2>1, <2>6, <3>1
  <2> QED BY <2>4, <2>5, <2>6
<1> QED BY <1>6, <1>7

\* Every step keeps snapshots and operations in agreement at equal revisions.
LEMMA FenceStep == TypeOK /\ ClaimInv /\ FenceInv /\ [Next]_vars => FenceInv'
<1> SUFFICES ASSUME TypeOK, ClaimInv, FenceInv, [Next]_vars PROVE FenceInv'
  OBVIOUS
<1>0. Idle.pc = "idle" /\ Started.pc = "started"
  BY DEF Idle, Started
<1>a. ASSUME NEW l \in Leases, NEW k \in Callers, call' = [call EXCEPT ![l][k] = Idle]
      PROVE  \A m \in Leases, j \in Callers :
               call'[m][j].pc = "calling" => call'[m][j] = call[m][j]
  BY <1>0, <1>a DEF TypeOK
<1>1. ASSUME UNCHANGED <<op, journal>>,
             \A m \in Leases, j \in Callers :
               call'[m][j].pc = "calling" => call'[m][j] = call[m][j]
      PROVE  FenceInv'
  BY <1>1 DEF FenceInv, JournalOf
<1>2. ASSUME NEW l \in Leases, ForeignWrite(l) \/ Redeploy(l) PROVE FenceInv'
  BY <1>2, ForeignIs DEF FenceInv, SameStep, JournalOf
<1>3. ASSUME NEW l \in Leases, Admit(l) PROVE FenceInv'
  <2>1. op[l].phase = "none" /\ call' = call
    BY <1>3 DEF Admit
  <2>2. \A k \in Callers : call[l][k].pc # "calling"
    BY <2>1 DEF FenceInv
  <2>3. PICK o \in Operations : Stored(l, o, Fresh)
    BY <1>3, AdmitIs, PutStores
  <2>4. \A m \in Leases : op[m].attempt \in Attempts
    BY DEF TypeOK, Operations
  <2>5. \A m \in Leases : m # l => op'[m] = op[m] /\ JournalOf(m)' = JournalOf(m)
    BY <2>3, <2>4 DEF TypeOK, Stored, JournalOf
  <2> QED BY <2>1, <2>2, <2>5 DEF FenceInv
<1>4. ASSUME NEW l \in Leases, NEW d \in BOOLEAN, Cancel(l, d) PROVE FenceInv'
  <2>1. PICK b \in BOOLEAN, o \in Operations : Canceling(l, b, o)
    BY <1>4, CancelIs DEF Cancel
  <2>2. /\ PutReference(l, o) /\ o.attempt = op[l].attempt
        /\ call' = call /\ o.phase # "none"
        /\ o.revision = op[l].revision /\ o.claim = op[l].claim
        /\ o.key = op[l].key /\ o.delivery = op[l].delivery
    BY <1>4, <2>1 DEF Canceling, Cancel
  <2>3. o.claim # NoOne => o.phase = op[l].phase
    BY <2>1 DEF Canceling, ClaimInv, Parked
  <2>4. Stored(l, o, JournalOf(l))
    BY <2>2, PutStores
  <2> QED BY <2>2, <2>3, <2>4, FenceKeep
<1>5. ASSUME NEW l \in Leases, NEW k \in Callers, DeferForLock(l, k) PROVE FenceInv'
  <2> DEFINE o == Deferred(l, call[l][k].now)
  <2>1. /\ PutState(l, o, JournalOf(l)) /\ call' = [call EXCEPT ![l][k] = Idle]
        /\ op[l].phase # "none"
    BY <1>5 DEF DeferForLock, Claimable, Parked
  <2>2. /\ o \in Operations /\ o.phase = op[l].phase
        /\ o.revision = op[l].revision /\ o.claim = op[l].claim
        /\ o.key = op[l].key /\ o.delivery = op[l].delivery
    BY DeferredIs, DeferredType, CallsType
  <2> HIDE DEF o
  <2>3. Stored(l, o, JournalOf(l))
    BY <2>1, <2>2, PutStores
  <2>4. \A m \in Leases, j \in Callers :
          call'[m][j].pc = "calling" => call'[m][j] = call[m][j]
    BY <1>a, <2>1
  <2> QED BY <2>1, <2>2, <2>3, <2>4, FenceKeep
<1>6. ASSUME NEW l \in Leases, NEW k \in Callers, Publish(l, k) PROVE FenceInv'
  <2>1. /\ PutState(l, Published(l), JournalOf(l))
        /\ call' = [call EXCEPT ![l][k] = Idle]
    BY <1>6 DEF Publish
  <2>2. /\ Published(l) \in Operations /\ Published(l).phase # "none"
        /\ Published(l).revision = op[l].revision + 1
    BY PublishedIs, PublishedType
  <2>3. Stored(l, Published(l), JournalOf(l))
    BY <2>1, <2>2, PutStores
  <2>4. \A m \in Leases, j \in Callers :
          call'[m][j].pc = "calling" => call'[m][j] = call[m][j]
    BY <1>a, <2>1
  <2> QED BY <2>1, <2>2, <2>3, <2>4, FenceKeep
<1>7. ASSUME NEW l \in Leases, NEW k \in Callers, Claim(l, k) PROVE FenceInv'
  <2> DEFINE o == Claimed(l, k, call[l][k].now)
             s == Snapshot(o, JournalOf(l))
  <2>1. /\ PutState(l, o, JournalOf(l)) /\ op[l].phase # "none"
        /\ call' = [call EXCEPT ![l][k].pc = "calling", ![l][k].snap = s]
    BY <1>7 DEF Claim, Claimable, Parked
  <2>2. o \in Operations /\ o.phase # "none" /\ o.revision = op[l].revision + 1
    BY <2>1, ClaimedIs, ClaimedType, CallsType
  <2>3. s = Snapshot(o, JournalOf(l))
    OBVIOUS
  <2> HIDE DEF o, s
  <2>4. call[l][k] \in Calls
    BY CallsType
  <2>5. \A m \in Leases, j \in Callers :
          call'[m][j] = IF m = l /\ j = k
                        THEN [call[l][k] EXCEPT !.pc = "calling", !.snap = s]
                        ELSE call[m][j]
    BY <2>1 DEF TypeOK
  <2>6. call'[l][k].snap = s
    BY <2>4, <2>5 DEF Calls
  <2>7. \A m \in Leases, j \in Callers :
          call'[m][j] = call[m][j] \/ (m = l /\ call'[m][j].snap = s)
    BY <2>5, <2>6
  <2>8. Stored(l, o, JournalOf(l))
    BY <2>1, <2>2, PutStores
  <2> QED BY <2>2, <2>3, <2>7, <2>8, FenceKeep
<1>8. ASSUME NEW l \in Leases, NEW k \in Callers,
             NEW r \in Progress(call[l][k].snap) \cup Stall(call[l][k].snap),
             CommitResult(l, k, r)
      PROVE  FenceInv'
  <2> DEFINE o == Committed(l, r)
  <2>0. r \in Outcomes
    BY CommitOutcome
  <2>1. PutState(l, o, r) /\ call' = [call EXCEPT ![l][k] = Idle]
    BY <1>8 DEF CommitResult
  <2>2. o \in Operations /\ o.phase # "none" /\ o.revision = op[l].revision + 1
    BY <2>0, CommittedIs, CommittedType, CommittedPhaseType
  <2> HIDE DEF o
  <2>3. Stored(l, o, r)
    BY <2>1, <2>2, PutStores
  <2>4. \A m \in Leases, j \in Callers :
          call'[m][j].pc = "calling" => call'[m][j] = call[m][j]
    BY <1>a, <2>1
  <2> QED BY <2>1, <2>2, <2>3, <2>4, FenceKeep
<1>9. CASE Tick
  <2>1. \A l \in Leases, k \in Callers : call'[l][k] \in {call[l][k], Started}
    BY <1>9 DEF TypeOK, Tick
  <2> QED BY <1>0, <1>1, <1>9, <2>1 DEF Tick
<1>10. CASE Quiet \/ \E l \in Leases, k \in Callers : SkipAdvance(l, k)
  BY <1>a, <1>1, <1>10 DEF Quiet, SkipAdvance
<1> QED BY <1>2, <1>3, <1>4, <1>5, <1>6, <1>7, <1>8, <1>9, <1>10, Steps

\* They agree in every reachable state.
LEMMA FenceInvariant == Spec => []FenceInv
<1>1. Init => FenceInv
  BY DEF Init, FenceInv, Idle
<1> QED BY <1>1, FenceStep, ClaimInvariant, TypeCorrect, PTL DEF Spec

\* A result that reaches the journal is applied to the very step it was
\* computed from, whatever expired, was retried or was canceled in between.
THEOREM LateResultsFenced == Spec => []LateResultFenced
<1>1. FenceInv => LateResultFenced
  BY DEF FenceInv, LateResultFenced, Fenced, SameStep
<1> QED BY <1>1, FenceInvariant, PTL

\* What EvidenceKept asks of a step.
EvidenceStays ==
    \A l \in Leases, a \in Attempts :
      /\ journal[l][a].stage = "owned" => journal'[l][a].stage = "owned"
      /\ journal[l][a].rejected => journal'[l][a].rejected
      /\ a < op[l].attempt => journal'[l][a] = journal[l][a]

\* A journal is overwritten only while blank, with what it held, or with a
\* result computed from what it held.
LEMMA EvidenceStep == TypeOK /\ JournalInv /\ FenceInv /\ [Next]_vars => EvidenceStays
<1> SUFFICES ASSUME TypeOK, JournalInv, FenceInv, [Next]_vars PROVE EvidenceStays
  OBVIOUS
<1>1. CASE Unwritten
  BY <1>1 DEF Unwritten, EvidenceStays
<1>2. ASSUME NEW l \in Leases, NEW o \in Operations, NEW s, Stored(l, o, s),
             ~(o.attempt < op[l].attempt),
             journal[l][o.attempt].stage = "owned" => s.stage = "owned",
             journal[l][o.attempt].rejected => s.rejected
      PROVE  EvidenceStays
  <2>1. \A m \in Leases, a \in Attempts :
          journal'[m][a] = IF m = l /\ a = o.attempt
                           THEN [revision |-> o.revision, stage |-> s.stage,
                                 rejected |-> s.rejected]
                           ELSE journal[m][a]
    BY <1>2 DEF Stored
  <2>2. o.attempt \in Attempts
    BY DEF Operations
  <2>3. /\ journal'[l][o.attempt].stage = s.stage
        /\ journal'[l][o.attempt].rejected = s.rejected
    BY <2>1, <2>2
  <2> QED BY <1>2, <2>1, <2>3 DEF EvidenceStays
<1>3. ASSUME NEW l \in Leases, NEW o \in Operations, Rewritten(l, o)
      PROVE  EvidenceStays
  <2>0. op[l].attempt \in Attempts /\ o.attempt \in Attempts
    BY DEF TypeOK, Operations
  <2>1. NoJournal.stage # "owned" /\ ~NoJournal.rejected
    BY DEF NoJournal
  <2>2. CASE op[l].phase = "none" /\ o.attempt = 0 /\ Stored(l, o, Fresh)
    <3>1. op[l].attempt = 0 /\ journal[l][o.attempt] = NoJournal
      BY <2>0, <2>2 DEF JournalInv
    <3> QED BY <1>2, <2>1, <2>2, <3>1
  <2>3. CASE o.attempt = op[l].attempt /\ Stored(l, o, JournalOf(l))
    BY <1>2, <2>0, <2>3 DEF JournalOf, Attempts
  <2>4. ASSUME NEW k \in Callers,
               NEW r \in Progress(call[l][k].snap) \cup Stall(call[l][k].snap),
               call[l][k].pc = "calling", Fenced(l, k),
               o.attempt = r.attempt, Stored(l, o, r)
        PROVE  EvidenceStays
    <3> DEFINE s == call[l][k].snap
    <3>1. /\ s.attempt = op[l].attempt
          /\ JournalOf(l).stage = s.stage /\ JournalOf(l).rejected = s.rejected
      BY <2>4 DEF Fenced, FenceInv, SameStep
    <3>2. CASE /\ r.attempt = s.attempt
               /\ s.stage = "owned" => r.stage = "owned"
               /\ s.rejected => r.rejected
      <4>1. journal[l][o.attempt] = JournalOf(l) /\ ~(o.attempt < op[l].attempt)
        BY <2>0, <2>4, <3>1, <3>2 DEF JournalOf, Attempts
      <4> QED BY <1>2, <2>4, <3>1, <3>2, <4>1
    <3>3. CASE r.attempt = s.attempt + 1
      <4>1. o.attempt > op[l].attempt /\ ~(o.attempt < op[l].attempt)
        BY <2>0, <2>4, <3>1, <3>3 DEF Attempts
      <4>2. journal[l][o.attempt] = NoJournal
        BY <2>0, <4>1 DEF JournalInv
      <4> QED BY <1>2, <2>1, <2>4, <4>1, <4>2
    <3> QED BY <3>2, <3>3, OutcomeKeeps, CallsType
  <2> QED BY <1>3, <2>2, <2>3, <2>4 DEF Rewritten
<1> QED BY <1>1, <1>3, JournalSteps

\* Nothing cancellation, retries or late results write makes the coordinator
\* forget what it owns or was refused: the evidence cleanup works from stays.
THEOREM EvidenceNeverForgotten == Spec => EvidenceKept
<1>1. [][EvidenceStays]_vars => EvidenceKept
  BY PTL DEF EvidenceStays, EvidenceKept
<1>2. TypeOK /\ JournalInv /\ FenceInv /\ [Next]_vars => [EvidenceStays]_vars
  BY EvidenceStep
<1> QED BY <1>1, <1>2, TypeCorrect, JournalInvariant, FenceInvariant, PTL DEF Spec
-----------------------------------------------------------------------------
(* Lease records *)

\* What the transactions do to the lease they are about.
LEMMA RecheckLeaseIs ==
    ASSUME TypeOK, NEW l \in Leases, NEW t, RecheckLease(l, t)
    PROVE  /\ \A m \in Leases : m # l => lease'[m] = lease[m]
           /\ \/ lease'[l] = lease[l]
              \/ /\ lease[l].state = "provisioning" /\ IsCanceled(l, t)
                 /\ lease'[l].state = "released" /\ lease'[l].deletes = "yes"
                 /\ lease'[l].mayExist = TRUE
                 /\ op[l].phase # "terminal" => lease'[l].cleanup \in {"running", "failed"}
<1>1. CASE IsCanceled(l, t) /\ lease[l].state = "provisioning"
  <2> DEFINE r == [lease[l] EXCEPT !.state = "released", !.mayExist = TRUE,
                                   !.deletes = "yes"]
  <2>0. lease[l] \in LeaseRecords
    BY DEF TypeOK
  <2>1. r.state = "released" /\ r.deletes = "yes" /\ r.mayExist = TRUE /\ r \in LeaseRecords
    BY <2>0 DEF LeaseRecords
  <2>2. lease' = [lease EXCEPT ![l] = WithCleanup(r, op[l].phase)]
    BY <1>1 DEF RecheckLease
  <2> HIDE DEF r
  <2>3. WithCleanup(r, op[l].phase).state = r.state
        /\ WithCleanup(r, op[l].phase).deletes = r.deletes
        /\ WithCleanup(r, op[l].phase).mayExist = r.mayExist
        /\ (op[l].phase # "terminal" =>
              WithCleanup(r, op[l].phase).cleanup \in {"running", "failed"})
    BY <2>1 DEF WithCleanup, LeaseRecords
  <2> QED BY <1>1, <2>1, <2>2, <2>3 DEF TypeOK
<1>2. CASE ~(IsCanceled(l, t) /\ lease[l].state = "provisioning")
  BY <1>2 DEF RecheckLease
<1> QED BY <1>1, <1>2

\* What a commit leaves in the lease, by the result's phase.
LEMMA CommitLeaseIs ==
    ASSUME TypeOK, NEW l \in Leases, NEW r, CommitLease(l, r)
    PROVE  /\ \A m \in Leases : m # l => lease'[m] = lease[m]
           /\ \/ /\ r.phase = "terminal"
                 /\ lease'[l].state \in {"released", "failed"}
                 /\ lease'[l].mayExist = FALSE /\ lease'[l].cleanup = "done"
              \/ /\ r.phase # "terminal" /\ lease'[l] = lease[l]
                 /\ lease[l].state = "provisioning"
              \/ /\ r.phase # "terminal"
                 /\ lease'[l].state = lease[l].state
                 /\ lease'[l].deletes = lease[l].deletes
                 /\ lease'[l].mayExist = lease[l].mayExist
                 /\ CommittedPhase(l, r) # "terminal" /\ lease[l].deletes = "yes" =>
                      lease'[l].cleanup \in {"running", "failed"}
<1>1. lease[l] \in LeaseRecords /\ lease \in [Leases -> LeaseRecords]
  BY DEF TypeOK
<1>2. CASE r.phase = "terminal"
  BY <1>1, <1>2 DEF CommitLease, LeaseRecords
<1>3. CASE r.phase # "terminal" /\ ~IsCanceled(l, now)
  <2>1. lease' = lease /\ lease[l].state = "provisioning"
    BY <1>3 DEF CommitLease, IsCanceled
  <2> QED BY <1>3, <2>1
<1>4. CASE r.phase # "terminal" /\ IsCanceled(l, now)
  <2> DEFINE p == CommittedPhase(l, r)
  <2>1. lease' = [lease EXCEPT ![l] = WithCleanup(lease[l], p)]
    BY <1>4 DEF CommitLease
  <2> HIDE DEF p
  <2>2. /\ WithCleanup(lease[l], p).state = lease[l].state
        /\ WithCleanup(lease[l], p).deletes = lease[l].deletes
        /\ WithCleanup(lease[l], p).mayExist = lease[l].mayExist
        /\ p # "terminal" /\ lease[l].deletes = "yes" =>
             WithCleanup(lease[l], p).cleanup \in {"running", "failed"}
    BY <1>1 DEF WithCleanup, LeaseRecords
  <2> QED BY <1>1, <1>4, <2>1, <2>2 DEF p
<1> QED BY <1>2, <1>3, <1>4

\* The lease as cancellation writes it.
LEMMA ReleasedIs ==
    ASSUME TypeOK, NEW l \in Leases, NEW b \in BOOLEAN
    PROVE  /\ ReleasedLease(l, b).state = "released"
           /\ ReleasedLease(l, b).mayExist = TRUE
           /\ ReleasedLease(l, b).deletes = IF b THEN "no" ELSE "yes"
           /\ CanceledOperation(l, b).phase # "terminal" /\ ~b =>
                ReleasedLease(l, b).cleanup \in {"running", "failed"}
<1>1. lease[l] \in LeaseRecords
  BY DEF TypeOK
<1> QED BY <1>1 DEF ReleasedLease, WithCleanup, LeaseRecords

\* Retention stays with leases released with their server kept.
RetainInv ==
    \A l \in Leases :
      /\ op[l].retain => lease[l].state # "provisioning"
      /\ op[l].retain /\ op[l].phase # "terminal" => lease[l].deletes = "no"
      /\ op[l].phase = "retained" => op[l].retain

\* A transaction on l that stores o keeps both lease invariants when o and the
\* lease it leaves satisfy them.
LEMMA LeaseKeep ==
    ASSUME TypeOK, RetainInv, DebtVisible, NEW l \in Leases, NEW o,
           op' = [op EXCEPT ![l] = o],
           \A m \in Leases : m # l => lease'[m] = lease[m],
           o.retain => lease'[l].state # "provisioning",
           o.retain /\ o.phase # "terminal" => lease'[l].deletes = "no",
           o.phase = "retained" => o.retain,
           lease'[l].state = "released" =>
             IF o.phase = "terminal"
             THEN ~lease'[l].mayExist /\ lease'[l].cleanup = "done"
             ELSE /\ lease'[l].mayExist
                  /\ lease'[l].deletes = "yes" => lease'[l].cleanup \in {"running", "failed"}
    PROVE  RetainInv' /\ DebtVisible'
<1>1. \A m \in Leases : op'[m] = IF m = l THEN o ELSE op[m]
  BY DEF TypeOK
<1>2. RetainInv'
  BY <1>1 DEF RetainInv
<1>3. DebtVisible'
  BY <1>1 DEF DebtVisible
<1> QED BY <1>2, <1>3

\* Every step keeps lease, operation and snapshots in agreement on retention
\* and cleanup debt.
LEMMA LeaseStep ==
    TypeOK /\ ClaimInv /\ RetainInv /\ DebtVisible /\ [Next]_vars =>
      RetainInv' /\ DebtVisible'
<1> SUFFICES ASSUME TypeOK, ClaimInv, RetainInv, DebtVisible, [Next]_vars
             PROVE  RetainInv' /\ DebtVisible'
  OBVIOUS
<1>1. CASE UNCHANGED <<op, lease>>
  BY <1>1 DEF RetainInv, DebtVisible
<1>2. ASSUME NEW l \in Leases, ForeignWrite(l) \/ Redeploy(l)
      PROVE  RetainInv' /\ DebtVisible'
  BY <1>2, ForeignIs DEF RetainInv, DebtVisible
<1>3. ASSUME NEW l \in Leases, Admit(l) PROVE RetainInv' /\ DebtVisible'
  <2>1. PICK o \in Operations :
          PutRecord(l, o) /\ o.retain = FALSE /\ o.phase = "prepared"
    BY <1>3, AdmitIs DEF PutState
  <2>2. op' = [op EXCEPT ![l] = o]
    BY <2>1 DEF PutRecord
  <2>3. /\ \A m \in Leases : m # l => lease'[m] = lease[m]
        /\ lease'[l].state = "provisioning"
    BY <1>3 DEF Admit, TypeOK, LeaseRecords
  <2> QED BY <2>1, <2>2, <2>3, LeaseKeep
<1>4. ASSUME NEW l \in Leases, NEW d \in BOOLEAN, Cancel(l, d)
      PROVE  RetainInv' /\ DebtVisible'
  <2>1. PICK b \in BOOLEAN, o \in Operations : Canceling(l, b, o)
    BY <1>4, CancelIs DEF Cancel
  <2>2. /\ op' = [op EXCEPT ![l] = o]
        /\ o.retain = b /\ o.phase # "terminal"
        /\ o.phase = "retained" => b
        /\ o.phase = CanceledOperation(l, b).phase
    BY <2>1 DEF Canceling, PutReference, PutRecord
  <2>3. /\ \A m \in Leases : m # l => lease'[m] = lease[m]
        /\ lease'[l] = ReleasedLease(l, b)
    BY <2>1 DEF Canceling, TypeOK
  <2>4. /\ lease'[l].state = "released" /\ lease'[l].mayExist = TRUE
        /\ lease'[l].deletes = IF b THEN "no" ELSE "yes"
        /\ ~b => lease'[l].cleanup \in {"running", "failed"}
    BY <2>2, <2>3, ReleasedIs
  <2>5. lease'[l].deletes = "yes" => lease'[l].cleanup \in {"running", "failed"}
    BY <2>4
  <2> QED BY <2>2, <2>3, <2>4, <2>5, LeaseKeep
<1>5. ASSUME NEW l \in Leases, NEW t, NEW o,
             RecheckLease(l, t), op' = [op EXCEPT ![l] = o], op[l].phase \notin Parked,
             o.phase = op[l].phase, o.retain = op[l].retain
      PROVE  RetainInv' /\ DebtVisible'
  <2>1. /\ op[l].retain => lease[l].state # "provisioning"
        /\ op[l].retain => lease[l].deletes = "no"
        /\ op[l].phase # "terminal" /\ op[l].phase # "retained"
        /\ lease[l].state = "released" =>
             lease[l].mayExist
             /\ (lease[l].deletes = "yes" => lease[l].cleanup \in {"running", "failed"})
    BY <1>5 DEF RetainInv, DebtVisible, Parked
  <2>2. \A m \in Leases : m # l => lease'[m] = lease[m]
    BY <1>5, RecheckLeaseIs
  <2>3. CASE lease'[l] = lease[l]
    BY <1>5, <2>1, <2>2, <2>3, LeaseKeep
  <2>4. CASE /\ lease[l].state = "provisioning"
             /\ lease'[l].state = "released" /\ lease'[l].deletes = "yes"
             /\ lease'[l].mayExist = TRUE
             /\ op[l].phase # "terminal" => lease'[l].cleanup \in {"running", "failed"}
    BY <1>5, <2>1, <2>2, <2>4, LeaseKeep
  <2> QED BY <1>5, <2>3, <2>4, RecheckLeaseIs
<1>6. ASSUME NEW l \in Leases, NEW k \in Callers, DeferForLock(l, k) \/ Claim(l, k)
      PROVE  RetainInv' /\ DebtVisible'
  <2> DEFINE t == call[l][k].now
  <2>1. /\ RecheckLease(l, t) /\ op[l].phase \notin Parked
        /\ \/ op' = [op EXCEPT ![l] = Deferred(l, t)]
           \/ op' = [op EXCEPT ![l] = Claimed(l, k, t)]
    BY <1>6 DEF DeferForLock, Claim, Claimable, PutState, PutRecord
  <2>2. /\ Deferred(l, t).phase = op[l].phase /\ Deferred(l, t).retain = op[l].retain
        /\ Claimed(l, k, t).phase = op[l].phase /\ Claimed(l, k, t).retain = op[l].retain
    BY DeferredIs, ClaimedIs
  <2> HIDE DEF t
  <2> QED BY <1>5, <2>1, <2>2
<1>7. ASSUME NEW l \in Leases, NEW k \in Callers, Publish(l, k)
      PROVE  RetainInv' /\ DebtVisible'
  <2>1. op' = [op EXCEPT ![l] = Published(l)] /\ Published(l).phase = "terminal"
    BY <1>7, PublishedIs DEF Publish, PutState, PutRecord
  <2>2. /\ \A m \in Leases : m # l => lease'[m] = lease[m]
        /\ lease'[l].state = "active"
    BY <1>7 DEF Publish, TypeOK, LeaseRecords
  <2> QED BY <2>1, <2>2, LeaseKeep
<1>8. ASSUME NEW l \in Leases, NEW k \in Callers,
             NEW r \in Progress(call[l][k].snap) \cup Stall(call[l][k].snap),
             CommitResult(l, k, r)
      PROVE  RetainInv' /\ DebtVisible'
  <2> DEFINE o == Committed(l, r)
  <2>0. r \in Outcomes
    BY CommitOutcome
  <2>1. op' = [op EXCEPT ![l] = o] /\ CommitLease(l, r) /\ op[l].claim = k
    BY <1>8 DEF CommitResult, PutState, PutRecord, Fenced
  <2>2. o.phase = CommittedPhase(l, r) /\ o.retain = op[l].retain
    BY <2>0, CommittedIs
  <2>3. /\ CommittedPhase(l, r) = "retained" => op[l].retain
        /\ CommittedPhase(l, r) = "terminal" <=> r.phase = "terminal"
    BY DEF CommittedPhase
  <2>4. op[l].phase # "terminal"
    BY <2>1, NoOneAssumption DEF ClaimInv, Parked, Callers
  <2>5. \A m \in Leases : m # l => lease'[m] = lease[m]
    BY <2>1, CommitLeaseIs
  <2> HIDE DEF o
  <2>6. CASE /\ r.phase = "terminal" /\ lease'[l].state \in {"released", "failed"}
             /\ lease'[l].mayExist = FALSE /\ lease'[l].cleanup = "done"
    BY <2>1, <2>2, <2>3, <2>5, <2>6, LeaseKeep
  <2>7. CASE /\ r.phase # "terminal" /\ lease'[l] = lease[l]
             /\ lease[l].state = "provisioning"
    <3>1. ~op[l].retain
      BY <2>7 DEF RetainInv
    <3> QED BY <2>1, <2>2, <2>3, <2>5, <2>7, <3>1, LeaseKeep
  <2>8. CASE /\ r.phase # "terminal"
             /\ lease'[l].state = lease[l].state
             /\ lease'[l].deletes = lease[l].deletes
             /\ lease'[l].mayExist = lease[l].mayExist
             /\ CommittedPhase(l, r) # "terminal" /\ lease[l].deletes = "yes" =>
                  lease'[l].cleanup \in {"running", "failed"}
    <3>1. /\ op[l].retain => lease[l].state # "provisioning" /\ lease[l].deletes = "no"
          /\ lease[l].state = "released" => lease[l].mayExist
      BY <2>4 DEF RetainInv, DebtVisible
    <3> QED BY <2>1, <2>2, <2>3, <2>5, <2>8, <3>1, LeaseKeep
  <2> QED BY <2>1, <2>6, <2>7, <2>8, CommitLeaseIs
<1>9. CASE Quiet \/ Tick \/ \E l \in Leases, k \in Callers : SkipAdvance(l, k)
  BY <1>1, <1>9 DEF Quiet, Tick, SkipAdvance
<1> QED BY <1>2, <1>3, <1>4, <1>6, <1>7, <1>8, <1>9, Steps

\* They agree in every reachable state.
LEMMA LeaseInvariant == Spec => [](RetainInv /\ DebtVisible)
<1>1. Init => RetainInv /\ DebtVisible
  <2> SUFFICES ASSUME Init PROVE RetainInv /\ DebtVisible
    OBVIOUS
  <2>1. \A l \in Leases : op[l] = NoOperation /\ lease[l] = NoLease
    BY DEF Init
  <2> QED BY <2>1 DEF RetainInv, DebtVisible, NoOperation, NoLease
<1> QED BY <1>1, LeaseStep, ClaimInvariant, TypeCorrect, PTL DEF Spec

\* No later retention request and no late result of a retaining call undoes a
\* requested deletion.
THEOREM DeletionWins == Spec => []DeleteWins
<1>1. RetainInv => DeleteWins
  BY DEF RetainInv, DeleteWins
<1> QED BY <1>1, LeaseInvariant, PTL

\* A released lease shows its cleanup debt until its operation is terminal.
THEOREM CleanupDebtVisible == Spec => []DebtVisible
BY LeaseInvariant, PTL
-----------------------------------------------------------------------------
(* Sealed material *)

\* Storing an operation retires the material that must not outlive it.
LEMMA PutMaterial ==
    ASSUME TypeOK, MaterialRetired, NEW l \in Leases, NEW o,
           PutRecord(l, o), RetireMaterial(l, o), quarantine' = quarantine
    PROVE  MaterialRetired'
<1>1. \A m \in Leases : op'[m] = IF m = l THEN o ELSE op[m]
  BY DEF TypeOK, PutRecord
<1>2. /\ material' \subseteq material /\ material \subseteq Leases
      /\ l \in material' => o.phase # "terminal" /\ (o.canceled => l \in quarantine)
  BY DEF TypeOK, RetireMaterial
<1> QED BY <1>1, <1>2 DEF MaterialRetired

\* Sealed replay inputs never outlive completion, nor cancellation of a record
\* this version could read throughout.
THEOREM MaterialNeverOutlives == Spec => []MaterialRetired
<1>1. Init => MaterialRetired
  BY DEF Init, MaterialRetired
<1>2. TypeOK /\ MaterialRetired /\ [Next]_vars => MaterialRetired'
  <2> SUFFICES ASSUME TypeOK, MaterialRetired, [Next]_vars PROVE MaterialRetired'
    OBVIOUS
  <2>1. CASE UNCHANGED <<op, material>> /\ quarantine \subseteq quarantine'
    BY <2>1 DEF MaterialRetired
  <2>2. ASSUME NEW l \in Leases, ForeignWrite(l) \/ Redeploy(l) PROVE MaterialRetired'
    BY <2>2, ForeignIs DEF TypeOK, MaterialRetired
  <2>3. ASSUME NEW l \in Leases, Admit(l) PROVE MaterialRetired'
    <3>1. PICK o \in Operations :
            PutRecord(l, o) /\ o.phase = "prepared" /\ o.canceled = FALSE
      BY <2>3, AdmitIs DEF PutState
    <3>2. /\ \A m \in Leases : op'[m] = IF m = l THEN o ELSE op[m]
          /\ material' = material \cup {l} /\ quarantine' = quarantine
      BY <2>3, <3>1 DEF TypeOK, Admit, PutRecord
    <3>3. material \subseteq Leases
      BY DEF TypeOK
    <3> QED BY <3>1, <3>2, <3>3 DEF MaterialRetired
  <2>4. ASSUME NEW l \in Leases, NEW d \in BOOLEAN, Cancel(l, d) PROVE MaterialRetired'
    BY <2>4, PutMaterial DEF Cancel, CancelOperation, PutReference
  <2>5. ASSUME NEW l \in Leases, NEW k \in Callers,
               \/ DeferForLock(l, k) \/ Publish(l, k) \/ Claim(l, k)
               \/ \E r : CommitResult(l, k, r)
        PROVE  MaterialRetired'
    BY <2>5, PutMaterial DEF DeferForLock, Publish, Claim, CommitResult, PutState
  <2>6. CASE Quiet \/ Tick \/ \E l \in Leases, k \in Callers : SkipAdvance(l, k)
    BY <2>1, <2>6 DEF Quiet, Tick, SkipAdvance
  <2> QED BY <2>2, <2>3, <2>4, <2>5, <2>6, Steps
<1> QED BY <1>1, <1>2, TypeCorrect, PTL DEF Spec
============================================================================
