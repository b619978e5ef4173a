---------------------- MODULE LeaseProvisioningTypes -----------------------
(***************************************************************************)
(* Type correctness of LeaseProvisioning, for any number of leases, scopes *)
(* and callers and any bounds.                                             *)
(***************************************************************************)
EXTENDS LeaseProvisioning, TLAPS

\* A step the provider may return.
Outcomes ==
    [phase : Phases \ {"none"}, attempt : Attempts,
     stage : {"shared", "owned"}, rejected : BOOLEAN, key : BOOLEAN,
     delivery : 0 .. 2, delay : {0, RetryDelay}]

\* Timers stay within the horizon.
LEMMA LaterType == \A t \in Time, d \in Nat : Later(t, d) \in Time
BY NatAssumption DEF Later, Time

\* The absent operation and the idle call are well-typed.
LEMMA NoOperationType == NoOperation \in Operations
BY NatAssumption DEF NoOperation, Operations, Attempts, Phases, Time, Callers

\* An idle call has its type.
LEMMA IdleType == Idle \in Calls
BY NoOperationType, NatAssumption
   DEF Idle, Calls, Snapshot, Snapshots, Fresh, NoOperation, Operations, Phases, Time

\* The snapshot of an operation has its type.
LEMMA SnapshotType ==
    \A o \in Operations, j \in Journals :
      j.stage # "none" => Snapshot(o, j) \in Snapshots
BY DEF Operations, Journals, Snapshot, Snapshots

\* The journal a step refers to has its type.
LEMMA JournalType ==
    ASSUME TypeOK, NEW l \in Leases PROVE JournalOf(l) \in Journals
BY DEF TypeOK, JournalOf, Operations

\* The outcomes of a call on a claimed operation are steps, and what they say
\* about the lock: finished or publishable work has given up the key.
LEMMA OutcomeType ==
    ASSUME NEW s \in Snapshots, NEW r \in Progress(s) \cup Stall(s)
    PROVE  /\ r \in Outcomes
           /\ r.phase \in {"terminal", "retained", "ready-to-publish"} => ~r.key
<1> USE NatAssumption DEF Outcomes, Phases, Attempts
<1>1. ASSUME NEW p \in Phases \ {"none"}, NEW g \in {"shared", "owned"},
             NEW b \in BOOLEAN, NEW d \in {0, RetryDelay},
             r = Output(s, p, g, b, d),
             p = "ready-to-publish" => g = "owned"
      PROVE  /\ r \in Outcomes
             /\ r.phase \in {"terminal", "retained", "ready-to-publish"} => ~r.key
  <2>1. r.key = (g = "shared" /\ p \notin {"terminal", "retained"})
    BY <1>1 DEF Output
  <2>2. r.key \in BOOLEAN
    BY <2>1, Zenon
  <2>3. r = [phase |-> p, attempt |-> s.attempt, stage |-> g, rejected |-> b,
             key |-> r.key, delivery |-> 0, delay |-> d]
    BY <1>1 DEF Output
  <2>4. r \in Outcomes
    BY <2>2, <2>3 DEF Snapshots
  <2>5. r.phase = p
    BY <2>3
  <2> QED BY <1>1, <2>1, <2>4, <2>5
<1>2. ASSUME r = Thrown(s)
      PROVE  /\ r \in Outcomes
             /\ r.phase \in {"terminal", "retained", "ready-to-publish"} => ~r.key
  BY <1>2 DEF Thrown, Snapshots
<1>3. ASSUME r = NextCandidate(s), ~LastCandidate(s)
      PROVE  /\ r \in Outcomes
             /\ r.phase \in {"terminal", "retained", "ready-to-publish"} => ~r.key
  BY <1>3 DEF NextCandidate, LastCandidate, Snapshots
<1>4. CASE r \in Progress(s)
  BY <1>1, <1>3, <1>4 DEF Progress, Snapshots
<1>5. CASE r \in Stall(s)
  BY <1>1, <1>2, <1>5 DEF Stall, Snapshots
<1> QED BY <1>4, <1>5

-----------------------------------------------------------------------------
(* Types *)

\* Whether work is canceled is a truth value.
LEMMA CanceledType == \A l, t : IsCanceled(l, t) \in BOOLEAN
BY Zenon DEF IsCanceled

\* What the claim transaction makes of the operation before the lock.
LEMMA RecheckType ==
    ASSUME TypeOK, NEW l \in Leases, NEW t
    PROVE  Recheck(l, t) \in Operations
<1>1. \A o \in Operations, c \in BOOLEAN : [o EXCEPT !.canceled = c] \in Operations
  BY DEF Operations
<1>2. op[l] \in Operations
  BY DEF TypeOK
<1> QED BY <1>1, <1>2, CanceledType DEF Recheck

\* What the commit transaction makes of it.
LEMMA CommittedPhaseType ==
    ASSUME NEW l \in Leases, NEW r \in Outcomes
    PROVE  CommittedPhase(l, r) \in Phases \ {"none"}
BY DEF CommittedPhase, Outcomes, Phases

\* Rewriting the fields a commit rewrites keeps an operation's type.
LEMMA CommittedFields ==
    ASSUME NEW o \in Operations, NEW r \in Outcomes, NEW c \in BOOLEAN,
           NEW p \in Phases, NEW t \in Time, NEW v \in Nat
    PROVE  [o EXCEPT !.phase = p, !.attempt = r.attempt, !.key = r.key,
                     !.delivery = r.delivery, !.nextWake = t, !.revision = v, !.claim = NoOne,
                     !.claimExpires = 0, !.canceled = c] \in Operations
<1>1. 0 \in Time /\ NoOne \in Callers \cup {NoOne}
  BY NatAssumption DEF Time
<1> QED BY <1>1 DEF Operations, Outcomes

\* An operation with an outcome committed has its type.
LEMMA CommittedType ==
    ASSUME TypeOK, NEW l \in Leases, NEW r \in Outcomes
    PROVE  Committed(l, r) \in Operations
<1>2. op[l] \in Operations /\ now \in Time
  BY DEF TypeOK
<1>3. CommittedPhase(l, r) \in Phases
  BY CommittedPhaseType
<1>4. Later(now, r.delay) \in Time
  BY <1>2, LaterType, NatAssumption DEF Outcomes
<1>5. (IF r.phase = "retained" /\ ~op[l].retain THEN now ELSE Later(now, r.delay))
        \in Time
  BY <1>2, <1>4
<1>6. op[l].revision + 1 \in Nat
  BY <1>2 DEF Operations
<1> QED BY <1>2, <1>3, <1>5, <1>6, CanceledType, CommittedFields, Zenon DEF Committed

\* Storing a well-typed operation keeps it and its due entry well-typed.
LEMMA RecordType ==
    ASSUME TypeOK, NEW l \in Leases, NEW o \in Operations, PutRecord(l, o)
    PROVE  op' \in [Leases -> Operations] /\ due' \subseteq Time \X Leases
BY DEF TypeOK, PutRecord, DueEntries, Operations

\* So does storing it with a state, or as a reference; the journals too.
LEMMA PutType ==
    ASSUME TypeOK, NEW l \in Leases, NEW o \in Operations,
           \/ PutReference(l, o)
           \/ \E s : /\ PutState(l, o, s)
                    /\ s.stage \in {"none", "shared", "owned"} /\ s.rejected \in BOOLEAN
    PROVE  /\ op' \in [Leases -> Operations]
           /\ journal' \in [Leases -> [Attempts -> Journals]]
           /\ due' \subseteq Time \X Leases
<1>0. o.attempt \in Attempts /\ o.revision \in Nat
  BY DEF Operations
<1>1. CASE PutReference(l, o)
  <2>0. \A j \in Journals, v \in Nat : [j EXCEPT !.revision = v] \in Journals
    BY DEF Journals
  <2>1. [journal[l][o.attempt] EXCEPT !.revision = o.revision] \in Journals
    BY <1>0, <2>0, Zenon DEF TypeOK
  <2>2. journal' = [journal EXCEPT ![l] = [journal[l] EXCEPT ![o.attempt] =
                      [journal[l][o.attempt] EXCEPT !.revision = o.revision]]]
    BY <1>1 DEF PutReference
  <2>3. journal' \in [Leases -> [Attempts -> Journals]]
    BY <1>0, <2>1, <2>2 DEF TypeOK
  <2> QED BY <1>1, <2>3, RecordType DEF PutReference
<1>2. ASSUME NEW s, PutState(l, o, s),
             s.stage \in {"none", "shared", "owned"}, s.rejected \in BOOLEAN
      PROVE  /\ journal' \in [Leases -> [Attempts -> Journals]]
             /\ PutRecord(l, o)
  <2>1. [revision |-> o.revision, stage |-> s.stage, rejected |-> s.rejected] \in Journals
    BY <1>0, <1>2 DEF Journals
  <2>2. journal' = [journal EXCEPT ![l] = [journal[l] EXCEPT ![o.attempt] =
                      [revision |-> o.revision, stage |-> s.stage,
                       rejected |-> s.rejected]]]
    BY <1>2 DEF PutState
  <2>3. journal' \in [Leases -> [Attempts -> Journals]]
    BY <1>0, <2>1, <2>2 DEF TypeOK
  <2> QED BY <1>2, <2>3 DEF PutState
<1> QED BY <1>1, <1>2, RecordType

\* The three states a transaction stores are states: an attempt's first, the
\* journaled one and an outcome's.
LEMMA StateType ==
    ASSUME NEW s, s = Fresh \/ s \in Journals \cup Outcomes
    PROVE  s.stage \in {"none", "shared", "owned"} /\ s.rejected \in BOOLEAN
<1>1. CASE s = Fresh
  BY <1>1 DEF Fresh
<1>2. CASE s \in Journals
  BY <1>2 DEF Journals
<1>3. CASE s \in Outcomes
  BY <1>3 DEF Outcomes
<1> QED BY <1>1, <1>2, <1>3

\* Cleanup metadata keeps the lease's type.
LEMMA CleanupType ==
    ASSUME NEW r \in LeaseRecords, NEW p
    PROVE  WithCleanup(r, p) \in LeaseRecords
BY DEF WithCleanup, LeaseRecords

\* Retiring material adds none.
LEMMA RetireType ==
    ASSUME TypeOK, NEW l, NEW o, RetireMaterial(l, o)
    PROVE  material' \subseteq Leases
BY DEF TypeOK, RetireMaterial

\* Whether a release retains is a Boolean.
LEMMA RetainsType == \A l, d : Retains(l, d) \in BOOLEAN
BY Zenon DEF Retains

\* Rewriting the fields cancellation rewrites keeps an operation's type.
LEMMA CanceledFields ==
    ASSUME NEW o \in Operations, NEW b \in BOOLEAN, NEW t \in Time
    PROVE  [o EXCEPT !.retain = b, !.canceled = TRUE,
                     !.phase = IF @ = "retained" /\ ~b THEN "settling" ELSE @,
                     !.nextWake = t] \in Operations
BY DEF Operations, Phases

\* A canceled operation has its type.
LEMMA CanceledOperationType ==
    ASSUME TypeOK, NEW l \in Leases, NEW b \in BOOLEAN
    PROVE  CanceledOperation(l, b) \in Operations
<1>2. op[l] \in Operations /\ now \in Time
  BY DEF TypeOK
<1>3. (IF op[l].claim # NoOne THEN op[l].claimExpires ELSE now) \in Time
  BY <1>2 DEF Operations
<1> QED BY <1>2, <1>3, CanceledFields, Zenon DEF CanceledOperation
\* What admission stores.
LEMMA AdmitIs ==
    ASSUME TypeOK, NEW l \in Leases, Admit(l)
    PROVE  \E o \in Operations :
             /\ PutState(l, o, Fresh)
             /\ o.attempt = 0 /\ o.phase = "prepared" /\ o.key = TRUE /\ o.claim = NoOne
             /\ o.retain = FALSE /\ o.canceled = FALSE
<1>1. PICK t \in 0 .. now : PutState(l, Admitted(t), Fresh)
  BY DEF Admit
<1>2. t \in Time
  BY NatAssumption DEF TypeOK, Time
<1>3. /\ Admitted(t) \in Operations
      /\ Admitted(t).attempt = 0
      /\ Admitted(t).phase = "prepared" /\ Admitted(t).key = TRUE
      /\ Admitted(t).claim = NoOne
      /\ Admitted(t).retain = FALSE /\ Admitted(t).canceled = FALSE
  BY <1>2, NoOperationType DEF Admitted, Operations, Phases, NoOperation
<1> QED BY <1>1, <1>3

\* What DeferForLock, Publish and Claim store.
LEMMA DeferredType ==
    ASSUME TypeOK, NEW l \in Leases, NEW t \in Time
    PROVE  Deferred(l, t) \in Operations
<1>1. \A o \in Operations, w \in Time : [o EXCEPT !.nextWake = w] \in Operations
  BY DEF Operations
<1>2. Later(t, RetryDelay) \in Time
  BY LaterType, NatAssumption
<1> QED BY <1>1, <1>2, RecheckType, Zenon DEF Deferred

\* A published operation has its type.
LEMMA PublishedType ==
    ASSUME TypeOK, NEW l \in Leases
    PROVE  Published(l) \in Operations
<1>1. \A o \in Operations, v \in Nat :
        [o EXCEPT !.phase = "terminal", !.revision = v] \in Operations
  BY DEF Operations, Phases
<1>2. op[l] \in Operations
  BY DEF TypeOK
<1>3. op[l].revision + 1 \in Nat
  BY <1>2 DEF Operations
<1> QED BY <1>1, <1>2, <1>3, Zenon DEF Published

\* A claimed operation has its type.
LEMMA ClaimedType ==
    ASSUME TypeOK, NEW l \in Leases, NEW k \in Callers, NEW t \in Time
    PROVE  Claimed(l, k, t) \in Operations
<1> DEFINE o == Recheck(l, t)
<1>1. ASSUME NEW x \in Operations, NEW v \in Nat, NEW d \in 0 .. 2, NEW w \in Time
      PROVE  [x EXCEPT !.revision = v, !.delivery = d, !.claim = k,
                       !.claimExpires = w, !.nextWake = w] \in Operations
  BY DEF Operations
<1>2. o \in Operations
  BY RecheckType
<1>3. /\ o.revision + 1 \in Nat
      /\ (IF o.delivery < 2 THEN o.delivery + 1 ELSE 2) \in 0 .. 2
  BY <1>2 DEF Operations
<1>4. Later(t, ClaimDuration) \in Time
  BY LaterType, NatAssumption
<1> QED BY <1>1, <1>2, <1>3, <1>4, Zenon DEF Claimed

\* The calls stay well-typed when one of them starts, ends or gets its claim.
LEMMA CallType ==
    ASSUME TypeOK, NEW l \in Leases, NEW k \in Callers, NEW c \in Calls,
           call' = [call EXCEPT ![l][k] = c]
    PROVE  call' \in [Leases -> [Callers -> Calls]]
BY DEF TypeOK

\* A call that claimed has its type.
LEMMA CallClaimType ==
    ASSUME TypeOK, NEW l \in Leases, NEW k \in Callers, NEW s \in Snapshots,
           call' = [call EXCEPT ![l][k].pc = "calling", ![l][k].snap = s]
    PROVE  call' \in [Leases -> [Callers -> Calls]]
<1>1. \A c \in Calls : [c EXCEPT !.pc = "calling", !.snap = s] \in Calls
  BY DEF Calls
<1> QED BY <1>1 DEF TypeOK

\* A call just started has its type.
LEMMA StartedType == TypeOK => Started \in Calls
BY IdleType DEF TypeOK, Started, Calls

\* Replacing one call keeps the type of all.
LEMMA CallsType ==
    ASSUME TypeOK, NEW l \in Leases, NEW k \in Callers
    PROVE  call[l][k] \in Calls /\ call[l][k].now \in Time /\ call[l][k].snap \in Snapshots
BY DEF TypeOK, Calls

\* The lease records the transactions write.
LEMMA ReleaseFields ==
    ASSUME NEW r \in LeaseRecords, NEW d \in {"no", "yes"}
    PROVE  [r EXCEPT !.state = "released", !.mayExist = TRUE, !.deletes = d]
             \in LeaseRecords
BY DEF LeaseRecords

\* A released lease has its type.
LEMMA ReleasedType ==
    ASSUME TypeOK, NEW l \in Leases, NEW b \in BOOLEAN
    PROVE  ReleasedLease(l, b) \in LeaseRecords
<1>1. lease[l] \in LeaseRecords
  BY DEF TypeOK
<1>2. (IF b THEN "no" ELSE "yes") \in {"no", "yes"}
  OBVIOUS
<1> QED BY <1>1, <1>2, ReleaseFields, CleanupType, Zenon DEF ReleasedLease

\* Rechecking keeps the leases' type.
LEMMA RecheckLeaseType ==
    ASSUME TypeOK, NEW l \in Leases, NEW t, RecheckLease(l, t)
    PROVE  lease' \in [Leases -> LeaseRecords]
<1>1. lease[l] \in LeaseRecords
  BY DEF TypeOK
<1>2. [lease[l] EXCEPT !.state = "released", !.mayExist = TRUE, !.deletes = "yes"]
        \in LeaseRecords
  BY <1>1, ReleaseFields
<1> QED BY <1>2, CleanupType DEF TypeOK, RecheckLease

\* Committing keeps the leases' type.
LEMMA CommitLeaseType ==
    ASSUME TypeOK, NEW l \in Leases, NEW r, CommitLease(l, r)
    PROVE  lease' \in [Leases -> LeaseRecords]
<1>1. lease[l] \in LeaseRecords
  BY DEF TypeOK
<1>2. CASE r.phase = "terminal"
  BY <1>1, <1>2 DEF TypeOK, CommitLease, LeaseRecords
<1>3. CASE r.phase # "terminal"
  <2>1. WithCleanup(lease[l], CommittedPhase(l, r)) \in LeaseRecords
    BY <1>1, CleanupType
  <2> QED BY <1>3, <2>1 DEF TypeOK, CommitLease
<1> QED BY <1>2, <1>3

\* The cancellation transaction, the claim transaction and the commit
\* transaction keep every record they touch well-typed.
LEMMA CancelType ==
    ASSUME TypeOK, NEW l \in Leases, NEW d \in BOOLEAN, CancelOperation(l, d)
    PROVE  /\ op' \in [Leases -> Operations]
           /\ journal' \in [Leases -> [Attempts -> Journals]]
           /\ due' \subseteq Time \X Leases
           /\ material' \subseteq Leases
           /\ lease' \in [Leases -> LeaseRecords]
<1> DEFINE b == Retains(l, d)
<1>1. b \in BOOLEAN
  BY RetainsType
<1>2. CanceledOperation(l, b) \in Operations /\ ReleasedLease(l, b) \in LeaseRecords
  BY <1>1, CanceledOperationType, ReleasedType
<1>3. /\ PutReference(l, CanceledOperation(l, b))
      /\ RetireMaterial(l, CanceledOperation(l, b))
      /\ lease' = [lease EXCEPT ![l] = ReleasedLease(l, b)]
  BY DEF CancelOperation
<1> HIDE DEF b
<1>4. lease' \in [Leases -> LeaseRecords]
  BY <1>2, <1>3 DEF TypeOK
<1> QED BY <1>2, <1>3, <1>4, PutType, RetireType

\* Taking and releasing keep the locks' type.
LEMMA LockType ==
    ASSUME TypeOK, NEW l \in Leases, NEW r, TakeLock(l) \/ ReleaseLock(l, r)
    PROVE  lock' \in [Scopes -> Leases \cup {NoOne}]
BY LeaseAssumption DEF TypeOK, TakeLock, ReleaseLock

\* Every step keeps the variables in their types.
LEMMA TypeStep == TypeOK /\ [Next]_vars => TypeOK'
<1> SUFFICES ASSUME TypeOK, [Next]_vars PROVE TypeOK'
  OBVIOUS
<1>1. ASSUME NEW l \in Leases, Requests(l) PROVE TypeOK'
  <2>1. CASE RegisterAttempt(l)
    <3>1. [state |-> "pending", bound |-> FALSE] \in AttemptRecords
      BY DEF AttemptRecords
    <3> QED BY <2>1, <3>1 DEF TypeOK, RegisterAttempt
  <2>2. CASE Admit(l)
    <3>1. /\ op' \in [Leases -> Operations]
          /\ journal' \in [Leases -> [Attempts -> Journals]]
          /\ due' \subseteq Time \X Leases
      BY <2>2, AdmitIs, PutType, StateType
    <3>2. attempt' \in [Leases -> AttemptRecords]
      <4>1. (l \in Tokens) \in BOOLEAN
        BY SMT
      <4>2. \A a \in AttemptRecords, b \in BOOLEAN :
              [a EXCEPT !.bound = b] \in AttemptRecords
        BY DEF AttemptRecords
      <4>3. [attempt[l] EXCEPT !.bound = l \in Tokens] \in AttemptRecords
        BY <4>1, <4>2, Zenon DEF TypeOK
      <4>4. attempt' = [attempt EXCEPT ![l] = [attempt[l] EXCEPT !.bound = l \in Tokens]]
        BY <2>2, Zenon DEF Admit
      <4> QED BY <4>3, <4>4, Zenon DEF TypeOK
    <3>3. lease' \in [Leases -> LeaseRecords]
      <4>1. \A r \in LeaseRecords : [r EXCEPT !.state = "provisioning"] \in LeaseRecords
        BY DEF LeaseRecords
      <4> QED BY <2>2, <4>1 DEF TypeOK, Admit
    <3> QED BY <2>2, <3>1, <3>2, <3>3 DEF TypeOK, Admit
  <2>3. CASE \E deleteServer \in DeleteOptions : Release(l, deleteServer)
    BY <2>3, CancelType, LeaseAssumption DEF TypeOK, Release
  <2>4. CASE CancelCreate(l)
    <3>1. \A a \in AttemptRecords : [a EXCEPT !.state = "canceled"] \in AttemptRecords
      BY DEF AttemptRecords
    <3>2. attempt' \in [Leases -> AttemptRecords]
      BY <2>4, <3>1 DEF TypeOK, CancelCreate
    <3> QED BY <2>4, <3>2, CancelType DEF TypeOK, CancelCreate
  <2>5. CASE CancelCreateRead(l)
    BY <2>5 DEF TypeOK, CancelCreateRead
  <2>6. CASE CancelCreateWrite(l)
    <3>1. [state |-> "canceled", bound |-> FALSE] \in AttemptRecords
      BY DEF AttemptRecords
    <3> QED BY <2>6, <3>1 DEF TypeOK, CancelCreateWrite
  <2>7. CASE FacadeAdvance(l)
    <3>1. call' \in [Leases -> [Callers -> Calls]]
      BY <2>7, StartedType, CallType DEF FacadeAdvance, Callers
    <3> QED BY <2>7, <3>1 DEF TypeOK, FacadeAdvance
  <2> QED BY <1>1, <2>1, <2>2, <2>3, <2>4, <2>5, <2>6, <2>7 DEF Requests
<1>2. CASE Tick
  <2>1. call' \in [Leases -> [Callers -> Calls]]
    <3>1. \A l \in Leases : [call[l] EXCEPT !["tick"] = Started] \in [Callers -> Calls]
      BY StartedType DEF TypeOK
    <3>2. \A l \in Leases : call[l] \in [Callers -> Calls]
      BY DEF TypeOK
    <3> QED BY <1>2, <3>1, <3>2 DEF Tick
  <2>2. due' \subseteq due /\ quarantine' \subseteq Leases
    BY <1>2 DEF TypeOK, Tick
  <2> QED BY <1>2, <2>1, <2>2 DEF TypeOK, Tick
<1>3. ASSUME NEW l \in Leases, NEW k \in Callers, Advance(l, k) PROVE TypeOK'
  <2> DEFINE t == call[l][k].now
  <2>0. t \in Time
    BY CallsType
  <2> HIDE DEF t
  <2>j. /\ JournalOf(l) \in Journals
        /\ JournalOf(l).stage \in {"none", "shared", "owned"}
        /\ JournalOf(l).rejected \in BOOLEAN
    BY JournalType, StateType
  <2>a. ASSUME call' = [call EXCEPT ![l][k] = Idle]
        PROVE  call' \in [Leases -> [Callers -> Calls]]
    BY <2>a, IdleType, CallType
  <2>1. CASE SkipAdvance(l, k)
    BY <2>1, <2>a DEF TypeOK, SkipAdvance
  <2>2. CASE DeferForLock(l, k)
    <3>1. /\ RecheckLease(l, t)
          /\ PutState(l, Deferred(l, t), JournalOf(l))
          /\ RetireMaterial(l, Deferred(l, t))
          /\ call' = [call EXCEPT ![l][k] = Idle]
      BY <2>2 DEF DeferForLock, t
    <3> QED BY <2>2, <2>0, <2>j, <2>a, <3>1, DeferredType, PutType, RetireType,
               RecheckLeaseType DEF TypeOK, DeferForLock
  <2>3. CASE Publish(l, k)
    <3>1. \A x \in LeaseRecords :
            [x EXCEPT !.state = "active", !.mayExist = FALSE] \in LeaseRecords
      BY DEF LeaseRecords
    <3>2. lease' \in [Leases -> LeaseRecords]
      BY <2>3, <3>1 DEF TypeOK, Publish
    <3>3. /\ TakeLock(l)
          /\ PutState(l, Published(l), JournalOf(l))
          /\ RetireMaterial(l, Published(l))
          /\ call' = [call EXCEPT ![l][k] = Idle]
      BY <2>3 DEF Publish
    <3> QED BY <2>3, <2>j, <2>a, <3>2, <3>3, PublishedType, PutType, RetireType, LockType
            DEF TypeOK, Publish
  <2>4. CASE Claim(l, k)
    <3> DEFINE o == Claimed(l, k, t)
    <3>1. o \in Operations
      BY <2>0, ClaimedType
    <3>2. /\ RecheckLease(l, t)
          /\ TakeLock(l)
          /\ PutState(l, o, JournalOf(l))
          /\ RetireMaterial(l, o)
          /\ JournalOf(l).stage # "none"
          /\ call' = [call EXCEPT ![l][k].pc = "calling", ![l][k].snap = Snapshot(o, JournalOf(l))]
      BY <2>4 DEF Claim, JournalMatches, t
    <3> HIDE DEF o
    <3>3. call' \in [Leases -> [Callers -> Calls]]
      BY <2>j, <3>1, <3>2, SnapshotType, CallClaimType
    <3> QED BY <2>4, <2>j, <3>1, <3>2, <3>3, PutType, RetireType, LockType,
               RecheckLeaseType DEF TypeOK, Claim
  <2>5. ASSUME NEW r \in Outcomes, CommitResult(l, k, r), faults' \in 0 .. MaxFaults
        PROVE  TypeOK'
    <3>1. /\ PutState(l, Committed(l, r), r)
          /\ RetireMaterial(l, Committed(l, r))
          /\ CommitLease(l, r)
          /\ ReleaseLock(l, r)
          /\ call' = [call EXCEPT ![l][k] = Idle]
      BY <2>5 DEF CommitResult
    <3> QED BY <2>5, <2>a, <3>1, CommittedType, PutType, StateType, RetireType, LockType,
               CommitLeaseType DEF TypeOK, CommitResult
  <2>6. CASE CommitProgress(l, k)
    BY <2>5, <2>6, OutcomeType, CallsType DEF TypeOK, CommitProgress
  <2>7. CASE CommitStall(l, k)
    BY <2>5, <2>7, OutcomeType, CallsType, NatAssumption DEF TypeOK, CommitStall
  <2>8. CASE DiscardResult(l, k)
    BY <2>8, <2>a DEF TypeOK, DiscardResult
  <2> QED BY <1>3, <2>1, <2>2, <2>3, <2>4, <2>6, <2>7, <2>8 DEF Advance
<1>4. CASE Environment
  <2>1. CASE Clock
    BY <2>1, NatAssumption DEF TypeOK, Clock, Time
  <2>2. CASE Restart
    BY <2>2, IdleType, NatAssumption DEF TypeOK, Restart
  <2>3. ASSUME NEW l \in Leases, ForeignWrite(l) \/ Redeploy(l) PROVE TypeOK'
    <3>1. \A o \in Operations, b \in BOOLEAN : [o EXCEPT !.valid = b] \in Operations
      BY DEF Operations
    <3>2. [op[l] EXCEPT !.valid = TRUE] \in Operations
          /\ [op[l] EXCEPT !.valid = FALSE] \in Operations
      BY <3>1, Zenon DEF TypeOK
    <3>3. \/ op' = [op EXCEPT ![l] = [op[l] EXCEPT !.valid = TRUE]]
          \/ op' = [op EXCEPT ![l] = [op[l] EXCEPT !.valid = FALSE]]
      BY <2>3, Zenon DEF ForeignWrite, Redeploy
    <3>4. op' \in [Leases -> Operations]
      BY <3>2, <3>3, Zenon DEF TypeOK
    <3> QED BY <2>3, <3>4, NatAssumption DEF TypeOK, ForeignWrite, Redeploy
  <2> QED BY <1>4, <2>1, <2>2, <2>3 DEF Environment
<1>5. CASE UNCHANGED vars
  BY <1>5 DEF TypeOK, vars
<1> QED BY <1>1, <1>2, <1>3, <1>4, <1>5 DEF Next

\* The records, indexes and calls keep their shape in every reachable state.
THEOREM TypeCorrect == Spec => []TypeOK
<1>1. Init => TypeOK
  <2>1. /\ NoLease \in LeaseRecords
        /\ [state |-> "absent", bound |-> FALSE] \in AttemptRecords
        /\ NoJournal \in Journals
    BY DEF NoLease, LeaseRecords, AttemptRecords, NoJournal, Journals
  <2> QED BY <2>1, NoOperationType, IdleType, NatAssumption DEF Init, TypeOK, Time
<1> QED BY <1>1, TypeStep, PTL DEF Spec
============================================================================
