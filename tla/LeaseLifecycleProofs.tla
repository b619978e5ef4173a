----------------------- MODULE LeaseLifecycleProofs ------------------------
(***************************************************************************)
(* LeaseProvisioning implements LeaseLifecycle, for any number of leases,  *)
(* scopes and callers and any bounds.                                      *)
(***************************************************************************)
EXTENDS LeaseProvisioningProofs

-----------------------------------------------------------------------------
(* Lease and operation move together *)

\* A lease and its operation agree on how far they are: the operation of a
\* provisioning lease has work left and nobody has spoken of deletion, and an
\* active or failed lease has a finished one.
Agree(r, phase) ==
    /\ r.state = "none" => phase = "none" /\ r.deletes = "unset"
    /\ r.state = "provisioning" => phase \notin Parked /\ r.deletes = "unset"
    /\ r.state \in {"active", "failed"} => phase = "terminal"
    /\ r.state = "released" => phase # "none"

LifeInv == \A l \in Leases : Agree(lease[l], op[l].phase)

\* A step that stores o and leaves the other leases alone keeps the agreement
\* when the lease it leaves agrees with o.
LEMMA AgreeKeep ==
    ASSUME TypeOK, LifeInv, NEW l \in Leases, NEW o,
           op' = [op EXCEPT ![l] = o],
           \A m \in Leases : m # l => lease'[m] = lease[m],
           Agree(lease'[l], o.phase)
    PROVE  LifeInv'
<1>1. \A m \in Leases : op'[m] = IF m = l THEN o ELSE op[m]
  BY DEF TypeOK
<1> QED BY <1>1 DEF LifeInv

\* What recheck, publication and commit find: unfinished work of a lease that
\* is still provisioning or already released.
LEMMA UnfinishedLease ==
    ASSUME TypeOK, LifeInv, NEW l \in Leases, op[l].phase \notin Parked
    PROVE  \/ lease[l].state = "provisioning" /\ lease[l].deletes = "unset"
           \/ lease[l].state = "released"
<1>1. lease[l].state \in {"none", "provisioning", "active", "released", "failed"}
  BY DEF TypeOK, LeaseRecords
<1> QED BY <1>1 DEF LifeInv, Agree, Parked

\* The lease l is provisioning, with o its operation.
AdmitsLife(l, o) ==
    /\ op' = [op EXCEPT ![l] = o] /\ o.phase = "prepared"
    /\ \A m \in Leases : m # l => lease'[m] = lease[m]
    /\ lease[l].state = "none"
    /\ lease'[l].state = "provisioning" /\ lease'[l].deletes = lease[l].deletes

\* What admission does to the life of its lease.
LEMMA AdmitLife ==
    ASSUME TypeOK, NEW l \in Leases, Admit(l)
    PROVE  \E o \in Operations : AdmitsLife(l, o)
<1>1. PICK o \in Operations : PutRecord(l, o) /\ o.phase = "prepared"
  BY AdmitIs DEF PutState
<1>2. op' = [op EXCEPT ![l] = o]
  BY <1>1 DEF PutRecord
<1>3. /\ \A m \in Leases : m # l => lease'[m] = lease[m]
      /\ lease[l].state = "none"
      /\ lease'[l].state = "provisioning" /\ lease'[l].deletes = lease[l].deletes
  BY DEF Admit, TypeOK, LeaseRecords
<1> QED BY <1>1, <1>2, <1>3 DEF AdmitsLife

\* The lease l is released, with w its wish and o its operation.
CancelsLife(l, o, w) ==
    /\ op' = [op EXCEPT ![l] = o]
    /\ op[l].phase \notin {"none", "terminal"}
    /\ o.phase = IF op[l].phase = "retained" /\ w = "yes" THEN "settling"
                 ELSE op[l].phase
    /\ \A m \in Leases : m # l => lease'[m] = lease[m]
    /\ lease'[l].state = "released" /\ lease'[l].deletes = w
    /\ w = "no" => lease[l].deletes # "yes"

\* What cancellation does to the life of its lease.
LEMMA CancelLife ==
    ASSUME TypeOK, NEW l \in Leases, NEW d \in BOOLEAN, CancelOperation(l, d)
    PROVE  \E o \in Operations, w \in {"yes", "no"} : CancelsLife(l, o, w)
<1>1. PICK b \in BOOLEAN, o \in Operations : Canceling(l, b, o)
  BY CancelIs
<1> DEFINE w == IF b THEN "no" ELSE "yes"
<1>2. /\ \A m \in Leases : m # l => lease'[m] = lease[m]
      /\ lease'[l].state = "released" /\ lease'[l].deletes = w
  BY <1>1, ReleasedIs DEF Canceling, TypeOK
<1>3. CancelsLife(l, o, w)
  BY <1>1, <1>2 DEF Canceling, PutReference, PutRecord, CancelsLife
<1> QED BY <1>3

\* The step of lease l was rechecked: a lease found canceled is released.
ChecksLife(l, o) ==
    /\ op' = [op EXCEPT ![l] = o]
    /\ o.phase = op[l].phase /\ op[l].phase \notin Parked
    /\ \A m \in Leases : m # l => lease'[m] = lease[m]
    /\ \/ lease'[l] = lease[l]
       \/ /\ lease[l].state = "provisioning"
          /\ lease'[l].state = "released" /\ lease'[l].deletes = "yes"

\* What the claim transaction does to the life of its lease.
LEMMA RecheckLife ==
    ASSUME TypeOK, NEW l \in Leases, NEW k \in Callers,
           DeferForLock(l, k) \/ Claim(l, k)
    PROVE  \E o \in Operations : ChecksLife(l, o)
<1> DEFINE t == call[l][k].now
<1>1. /\ RecheckLease(l, t) /\ op[l].phase \notin Parked
      /\ \/ op' = [op EXCEPT ![l] = Deferred(l, t)]
         \/ op' = [op EXCEPT ![l] = Claimed(l, k, t)]
  BY DEF DeferForLock, Claim, Claimable, PutState, PutRecord
<1>2. /\ Deferred(l, t).phase = op[l].phase /\ Deferred(l, t) \in Operations
      /\ Claimed(l, k, t).phase = op[l].phase /\ Claimed(l, k, t) \in Operations
  BY DeferredIs, ClaimedIs, DeferredType, ClaimedType, CallsType DEF Calls
<1> HIDE DEF t
<1>3. PICK o \in Operations : op' = [op EXCEPT ![l] = o] /\ o.phase = op[l].phase
  BY <1>1, <1>2
<1> QED BY <1>1, <1>3, RecheckLeaseIs DEF ChecksLife

\* The lease l is active, with o its finished operation.
PublishesLife(l, o) ==
    /\ op' = [op EXCEPT ![l] = o] /\ o.phase = "terminal"
    /\ \A m \in Leases : m # l => lease'[m] = lease[m]
    /\ lease[l].state = "provisioning" /\ l \notin Revoked
    /\ lease'[l].state = "active" /\ lease'[l].deletes = lease[l].deletes

\* What publication does to the life of its lease.
LEMMA PublishLife ==
    ASSUME TypeOK, NEW l \in Leases, NEW k \in Callers, Publish(l, k)
    PROVE  \E o \in Operations : PublishesLife(l, o)
<1>1. op' = [op EXCEPT ![l] = Published(l)] /\ ~IsCanceled(l, call[l][k].now)
  BY DEF Publish, PutState, PutRecord, MayPublish
<1>2. Published(l) \in Operations /\ Published(l).phase = "terminal"
  BY PublishedIs, PublishedType
<1>3. lease[l].state = "provisioning" /\ l \notin Revoked
  BY <1>1 DEF IsCanceled, AttemptPending, Revoked
<1>4. /\ \A m \in Leases : m # l => lease'[m] = lease[m]
      /\ lease'[l].state = "active" /\ lease'[l].deletes = lease[l].deletes
  BY DEF Publish, TypeOK, LeaseRecords
<1> QED BY <1>1, <1>2, <1>3, <1>4 DEF PublishesLife

\* The lease l is settled or failed, or stays as it is with its operation at o.
CommitsLife(l, o) ==
    /\ op' = [op EXCEPT ![l] = o]
    /\ op[l].phase \notin Parked
    /\ \A m \in Leases : m # l => lease'[m] = lease[m]
    /\ \/ /\ o.phase = "terminal" /\ lease'[l].deletes = "yes"
          /\ \/ lease'[l].state = "released"
             \/ lease'[l].state = "failed" /\ ~IsCanceled(l, now)
       \/ /\ o.phase \notin {"none", "terminal"}
          /\ lease'[l].state = lease[l].state
          /\ lease'[l].deletes = lease[l].deletes
          /\ o.phase = "retained" =>
               lease[l].state = "released" /\ lease[l].deletes = "no"

\* What a commit does to the life of its lease, by the phase it stores.
LEMMA CommitLife ==
    ASSUME TypeOK, ClaimInv, RetainInv, LifeInv,
           NEW l \in Leases, NEW k \in Callers,
           NEW r \in Progress(call[l][k].snap) \cup Stall(call[l][k].snap),
           CommitResult(l, k, r)
    PROVE  \E o \in Operations : CommitsLife(l, o)
<1> DEFINE o == Committed(l, r)
<1>1. r \in Outcomes
  BY CommitOutcome
<1>2. op' = [op EXCEPT ![l] = o] /\ CommitLease(l, r) /\ op[l].claim = k
  BY DEF CommitResult, PutState, PutRecord, Fenced
<1>3. op[l].phase \notin Parked
  BY <1>2, NoOneAssumption DEF ClaimInv, Callers
<1>4. o \in Operations
  BY <1>1, CommittedType
<1>5. o.phase = CommittedPhase(l, r)
  BY <1>1, CommittedIs
<1>6. /\ o.phase = "terminal" <=> r.phase = "terminal"
      /\ o.phase = "retained" => op[l].retain
      /\ o.phase # "none"
  BY <1>1, <1>5 DEF CommittedPhase, Outcomes, Phases
<1> HIDE DEF o
<1>7. \A m \in Leases : m # l => lease'[m] = lease[m]
  BY <1>2, CommitLeaseIs
<1>8. lease \in [Leases -> LeaseRecords] /\ lease[l] \in LeaseRecords
  BY DEF TypeOK
<1>9. CASE r.phase = "terminal"
  <2>1. /\ lease'[l].deletes = "yes"
        /\ \/ lease'[l].state = "released"
           \/ lease'[l].state = "failed" /\ ~IsCanceled(l, now)
    BY <1>2, <1>8, <1>9 DEF CommitLease, LeaseRecords
  <2> QED BY <1>2, <1>3, <1>4, <1>6, <1>7, <1>9, <2>1 DEF CommitsLife
<1>10. CASE r.phase # "terminal"
  <2>1. lease'[l].state = lease[l].state /\ lease'[l].deletes = lease[l].deletes
    BY <1>2, <1>10, CommitLeaseIs
  <2>2. o.phase = "retained" => lease[l].state = "released" /\ lease[l].deletes = "no"
    BY <1>3, <1>6, UnfinishedLease DEF RetainInv, Parked
  <2> QED BY <1>2, <1>3, <1>4, <1>6, <1>7, <1>10, <2>1, <2>2 DEF CommitsLife
<1> QED BY <1>9, <1>10

\* Every step keeps leases and operations in agreement.
LEMMA LifeStep ==
    TypeOK /\ ClaimInv /\ RetainInv /\ LifeInv /\ [Next]_vars => LifeInv'
<1> SUFFICES ASSUME TypeOK, ClaimInv, RetainInv, LifeInv, [Next]_vars PROVE LifeInv'
  OBVIOUS
<1>1. CASE UNCHANGED <<op, lease>>
  BY <1>1 DEF LifeInv
<1>2. ASSUME NEW l \in Leases, ForeignWrite(l) \/ Redeploy(l) PROVE LifeInv'
  BY <1>2, ForeignIs DEF LifeInv
<1>3. ASSUME NEW l \in Leases, Admit(l) PROVE LifeInv'
  <2>1. PICK o \in Operations : AdmitsLife(l, o)
    BY <1>3, AdmitLife
  <2>2. Agree(lease'[l], o.phase)
    BY <2>1 DEF LifeInv, Agree, Parked, AdmitsLife
  <2> QED BY <2>1, <2>2, AgreeKeep DEF AdmitsLife
<1>4. ASSUME NEW l \in Leases, NEW d \in BOOLEAN, CancelOperation(l, d) PROVE LifeInv'
  <2>1. PICK o \in Operations, w \in {"yes", "no"} : CancelsLife(l, o, w)
    BY <1>4, CancelLife
  <2>2. Agree(lease'[l], o.phase)
    BY <2>1 DEF CancelsLife, Agree
  <2> QED BY <2>1, <2>2, AgreeKeep DEF CancelsLife
<1>5. ASSUME NEW l \in Leases, NEW k \in Callers, DeferForLock(l, k) \/ Claim(l, k)
      PROVE  LifeInv'
  <2>1. PICK o \in Operations : ChecksLife(l, o)
    BY <1>5, RecheckLife
  <2>2. Agree(lease'[l], o.phase)
    BY <2>1 DEF LifeInv, Agree, Parked, ChecksLife
  <2> QED BY <2>1, <2>2, AgreeKeep DEF ChecksLife
<1>6. ASSUME NEW l \in Leases, NEW k \in Callers, Publish(l, k) PROVE LifeInv'
  BY <1>6, PublishLife, AgreeKeep DEF Agree, PublishesLife
<1>7. ASSUME NEW l \in Leases, NEW k \in Callers,
             NEW r \in Progress(call[l][k].snap) \cup Stall(call[l][k].snap),
             CommitResult(l, k, r)
      PROVE  LifeInv'
  <2>1. PICK o \in Operations : CommitsLife(l, o)
    BY <1>7, CommitLife
  <2>2. Agree(lease'[l], o.phase)
    BY <2>1, UnfinishedLease DEF CommitsLife, Agree, Parked
  <2> QED BY <2>1, <2>2, AgreeKeep DEF CommitsLife
<1>8. CASE Quiet \/ Tick \/ \E l \in Leases, k \in Callers : SkipAdvance(l, k)
  BY <1>1, <1>8 DEF Quiet, Tick, SkipAdvance
<1> QED BY <1>2, <1>3, <1>4, <1>5, <1>6, <1>7, <1>8, Steps DEF Cancel

\* They agree in every reachable state.
LEMMA LifeInvariant == Spec => []LifeInv
<1>1. Init => LifeInv
  BY DEF Init, LifeInv, Agree, NoLease, NoOperation
<1> QED BY <1>1, LifeStep, ClaimInvariant, LeaseInvariant, TypeCorrect, PTL DEF Spec

-----------------------------------------------------------------------------
(* Every step is a step of the life of one lease *)

\* The lease l moves to what its record and o tell, every other stays.
Moved(l, o) ==
    /\ Stages' = [Stages EXCEPT ![l] = StageOf(lease'[l].state, o.phase)]
    /\ Wishes' = [Wishes EXCEPT ![l] = lease'[l].deletes]
    /\ Stages[l] = StageOf(lease[l].state, op[l].phase)
    /\ Wishes[l] = lease[l].deletes

\* A transaction on one lease moves that lease alone.
LEMMA Moves ==
    ASSUME TypeOK, NEW l \in Leases, NEW o,
           op' = [op EXCEPT ![l] = o],
           \A m \in Leases : m # l => lease'[m] = lease[m]
    PROVE  Moved(l, o)
<1>1. \A m \in Leases : op'[m] = IF m = l THEN o ELSE op[m]
  BY DEF TypeOK
<1>2. \A m \in Leases :
        StageOf(lease'[m].state, op'[m].phase) =
          IF m = l THEN StageOf(lease'[l].state, o.phase)
          ELSE StageOf(lease[m].state, op[m].phase)
  BY <1>1
<1>3. Stages' = [Stages EXCEPT ![l] = StageOf(lease'[l].state, o.phase)]
  BY <1>2 DEF Stages
<1>4. Wishes' = [Wishes EXCEPT ![l] = lease'[l].deletes]
  BY DEF Wishes
<1> QED BY <1>3, <1>4 DEF Stages, Wishes, Moved

\* Nothing is seen of a transaction that leaves the lease and the side of the
\* operation its client can tell.
LEMMA Unseen ==
    ASSUME TypeOK, NEW l \in Leases, NEW o,
           op' = [op EXCEPT ![l] = o],
           \A m \in Leases : m # l => lease'[m] = lease[m],
           lease'[l].state = lease[l].state, lease'[l].deletes = lease[l].deletes,
           StageOf(lease[l].state, o.phase) = StageOf(lease[l].state, op[l].phase),
           Revoked' = Revoked
    PROVE  UNCHANGED Lifecycle!vars
<1>1. Moved(l, o)
  BY Moves
<1>2. /\ Stages' = [Stages EXCEPT ![l] = Stages[l]]
      /\ Wishes' = [Wishes EXCEPT ![l] = Wishes[l]]
  BY <1>1 DEF Moved
<1>3. Stages' = Stages /\ Wishes' = Wishes
  BY <1>2 DEF Stages, Wishes
<1> QED BY <1>3 DEF Lifecycle!vars

\* Admission is a request.
LEMMA AdmitRefines ==
    ASSUME TypeOK, NEW l \in Leases, Admit(l)
    PROVE  Lifecycle!Request(l)
<1>1. PICK o \in Operations : AdmitsLife(l, o)
  BY AdmitLife
<1>2. Moved(l, o)
  BY <1>1, Moves DEF AdmitsLife
<1>3. /\ Stages' = [Stages EXCEPT ![l] = "requested"]
      /\ Wishes' = [Wishes EXCEPT ![l] = Wishes[l]]
      /\ Stages[l] = "none"
  BY <1>2, <1>1 DEF StageOf, Moved, AdmitsLife
<1>4. Wishes' = Wishes
  BY <1>3 DEF Wishes
<1>5. l \notin Revoked
  BY DEF Admit, Revoked
<1>6. Revoked' = Revoked
  <2>1. attempt' = [attempt EXCEPT ![l].bound = l \in Tokens]
    BY DEF Admit
  <2>2. \A m \in Leases : attempt'[m].state = attempt[m].state
    BY <2>1 DEF TypeOK, AttemptRecords
  <2> QED BY <2>2, LeaseAssumption DEF Revoked
<1> QED BY <1>3, <1>4, <1>5, <1>6 DEF Lifecycle!Request

\* Cancellation by a release or by cancelCreate is a withdrawal.
LEMMA CancelRefines ==
    ASSUME TypeOK, LifeInv, NEW l \in Leases, NEW d \in BOOLEAN, CancelOperation(l, d),
           Revoked' \in {Revoked, Revoked \cup {l}}
    PROVE  \E w \in {"yes", "no"} : Lifecycle!Withdraw(l, w)
<1>1. PICK o \in Operations, w \in {"yes", "no"} : CancelsLife(l, o, w)
  BY CancelLife
<1>2. lease[l].state \in {"provisioning", "released"}
  BY <1>1 DEF CancelsLife, LifeInv, Agree, TypeOK, LeaseRecords
<1>3. Moved(l, o)
  BY <1>1, Moves DEF CancelsLife
<1>4. /\ Stages' = [Stages EXCEPT ![l] = StageOf("released", o.phase)]
      /\ Wishes' = [Wishes EXCEPT ![l] = w]
      /\ Stages[l] = StageOf(lease[l].state, op[l].phase)
      /\ Wishes[l] = lease[l].deletes
  BY <1>3, <1>1 DEF CancelsLife, Moved
<1>5. /\ Stages[l] \in {"requested", "withdrawn", "kept"}
      /\ StageOf("released", o.phase) =
           IF Stages[l] = "kept" /\ w = "no" THEN "kept" ELSE "withdrawn"
  BY <1>1, <1>2, <1>4 DEF CancelsLife, StageOf, LifeInv, Agree, Parked
<1>6. w = "no" => Wishes[l] # "yes"
  BY <1>1, <1>4 DEF CancelsLife
<1> QED BY <1>4, <1>5, <1>6 DEF Lifecycle!Withdraw

\* The claim transaction withdraws a lease found canceled or expired.
LEMMA RecheckRefines ==
    ASSUME TypeOK, LifeInv, NEW l \in Leases, NEW k \in Callers,
           DeferForLock(l, k) \/ Claim(l, k)
    PROVE  Lifecycle!Withdraw(l, "yes") \/ UNCHANGED Lifecycle!vars
<1>1. PICK o \in Operations : ChecksLife(l, o)
  BY RecheckLife
<1>2. Revoked' = Revoked
  BY DEF DeferForLock, Claim, Revoked
<1>3. CASE lease'[l] = lease[l]
  BY <1>1, <1>2, <1>3, Unseen DEF ChecksLife
<1>4. CASE /\ lease[l].state = "provisioning"
           /\ lease'[l].state = "released" /\ lease'[l].deletes = "yes"
  <2>1. /\ Stages' = [Stages EXCEPT ![l] = "withdrawn"]
        /\ Wishes' = [Wishes EXCEPT ![l] = "yes"]
        /\ Stages[l] = "requested"
    BY <1>1, <1>4, Moves DEF StageOf, Parked, Moved, ChecksLife
  <2> QED BY <1>2, <2>1 DEF Lifecycle!Withdraw
<1> QED BY <1>1, <1>3, <1>4 DEF ChecksLife

\* Publication activates the lease.
LEMMA PublishRefines ==
    ASSUME TypeOK, LifeInv, NEW l \in Leases, NEW k \in Callers, Publish(l, k)
    PROVE  Lifecycle!Activate(l)
<1>1. PICK o \in Operations : PublishesLife(l, o)
  BY PublishLife
<1>2. lease[l].deletes = "unset"
  BY <1>1 DEF LifeInv, Agree, PublishesLife
<1>3. Moved(l, o)
  BY <1>1, Moves DEF PublishesLife
<1>4. /\ Stages' = [Stages EXCEPT ![l] = "active"]
      /\ Wishes' = [Wishes EXCEPT ![l] = Wishes[l]]
      /\ Stages[l] = "requested" /\ Wishes[l] = "unset"
  BY <1>3, <1>1, <1>2 DEF StageOf, Moved, PublishesLife
<1>5. Wishes' = Wishes
  BY <1>4 DEF Wishes
<1>6. Revoked' = Revoked
  BY DEF Publish, Revoked
<1> QED BY <1>1, <1>4, <1>5, <1>6 DEF Lifecycle!Activate, PublishesLife

\* A commit settles the lease, fails it, keeps its server, or is not seen.
LEMMA CommitRefines ==
    ASSUME TypeOK, ClaimInv, RetainInv, LifeInv,
           NEW l \in Leases, NEW k \in Callers,
           NEW r \in Progress(call[l][k].snap) \cup Stall(call[l][k].snap),
           CommitResult(l, k, r)
    PROVE  \/ Lifecycle!Settle(l) \/ Lifecycle!Fail(l) \/ Lifecycle!Keep(l)
           \/ UNCHANGED Lifecycle!vars
<1>1. PICK o \in Operations : CommitsLife(l, o)
  BY CommitLife
<1>2. Revoked' = Revoked
  BY DEF CommitResult, Revoked
<1>3. Moved(l, o)
  BY <1>1, Moves DEF CommitsLife
<1>4. /\ Stages[l] \in {"requested", "withdrawn"}
      /\ lease[l].state = "provisioning" => Stages[l] = "requested" /\ Wishes[l] = "unset"
      /\ lease[l].state = "released" => Stages[l] = "withdrawn"
  BY <1>1, <1>3, UnfinishedLease DEF CommitsLife, StageOf, Parked, Moved
<1>5. CASE o.phase = "terminal" /\ lease'[l].deletes = "yes" /\ lease'[l].state = "released"
  BY <1>2, <1>3, <1>4, <1>5 DEF Lifecycle!Settle, StageOf, Moved
<1>6. CASE /\ o.phase = "terminal" /\ lease'[l].deletes = "yes"
           /\ lease'[l].state = "failed" /\ ~IsCanceled(l, now)
  <2>1. lease[l].state = "provisioning" /\ l \notin Revoked
    BY <1>6 DEF IsCanceled, AttemptPending, Revoked
  <2> QED BY <1>2, <1>3, <1>4, <1>6, <2>1 DEF Lifecycle!Fail, StageOf, Moved
<1>7. CASE /\ o.phase = "retained" /\ lease[l].state = "released"
           /\ lease'[l].state = "released"
           /\ lease[l].deletes = "no" /\ lease'[l].deletes = "no"
  <2>1. /\ Stages' = [Stages EXCEPT ![l] = "kept"]
        /\ Wishes' = [Wishes EXCEPT ![l] = Wishes[l]]
        /\ Stages[l] = "withdrawn" /\ Wishes[l] = "no"
    BY <1>3, <1>4, <1>7 DEF StageOf, Moved
  <2>2. Wishes' = Wishes
    BY <2>1 DEF Wishes
  <2> QED BY <1>2, <2>1, <2>2 DEF Lifecycle!Keep
<1>8. CASE /\ o.phase \notin {"terminal", "retained"}
           /\ lease'[l].state = lease[l].state
           /\ lease'[l].deletes = lease[l].deletes
  <2>1. StageOf(lease[l].state, o.phase) = StageOf(lease[l].state, op[l].phase)
    BY <1>1, <1>8 DEF CommitsLife, StageOf, Parked
  <2> QED BY <1>1, <1>2, <1>8, <2>1, Unseen DEF CommitsLife
<1> QED BY <1>1, <1>5, <1>6, <1>7, <1>8 DEF CommitsLife

\* Canceling an attempt that is not bound revokes it.
LEMMA AttemptRefines ==
    ASSUME TypeOK, NEW l \in Leases,
           \/ RegisterAttempt(l) \/ CancelCreateRead(l) \/ CancelCreateWrite(l)
    PROVE  Lifecycle!Revoke(l) \/ UNCHANGED Lifecycle!vars
<1>1. Stages' = Stages /\ Wishes' = Wishes
  BY DEF RegisterAttempt, CancelCreateRead, CancelCreateWrite, Stages, Wishes
<1>2. CASE RegisterAttempt(l) \/ CancelCreateRead(l)
  <2>1. \A m \in Tokens : attempt'[m].state = "canceled" <=> attempt[m].state = "canceled"
    <3>1. \A m \in Tokens : attempt'[m] = attempt[m] \/
            (attempt[m].state = "absent" /\ attempt'[m].state = "pending")
      BY <1>2, LeaseAssumption DEF RegisterAttempt, CancelCreateRead, TypeOK
    <3> QED BY <3>1
  <2>2. Revoked' = Revoked
    BY <2>1 DEF Revoked
  <2> QED BY <1>1, <2>2 DEF Lifecycle!vars
<1>3. CASE CancelCreateWrite(l)
  <2>1. \A m \in Tokens : attempt'[m].state =
          IF m = l THEN "canceled" ELSE attempt[m].state
    BY <1>3, LeaseAssumption DEF CancelCreateWrite, TypeOK
  <2>2. Revoked' = Revoked \/ Revoked' = Revoked \cup {l}
    BY <2>1 DEF Revoked
  <2> QED BY <1>1, <2>2 DEF Lifecycle!vars, Lifecycle!Revoke
<1> QED BY <1>2, <1>3

\* Every step of the coordinator is a step in the life of one lease, or none.
LEMMA LifecycleStep ==
    TypeOK /\ ClaimInv /\ RetainInv /\ LifeInv /\ [Next]_vars =>
      [Lifecycle!Next]_(Lifecycle!vars)
<1> SUFFICES ASSUME TypeOK, ClaimInv, RetainInv, LifeInv, [Next]_vars
             PROVE  [Lifecycle!Next]_(Lifecycle!vars)
  OBVIOUS
<1>1. ASSUME UNCHANGED <<lease, op, attempt>> PROVE UNCHANGED Lifecycle!vars
  BY <1>1 DEF Lifecycle!vars, Stages, Wishes, Revoked
<1>2. ASSUME NEW l \in Leases, Requests(l) PROVE [Lifecycle!Next]_(Lifecycle!vars)
  <2>1. CASE RegisterAttempt(l) \/ CancelCreateRead(l) \/ CancelCreateWrite(l)
    BY <2>1, AttemptRefines DEF Lifecycle!Next
  <2>2. CASE Admit(l)
    BY <2>2, AdmitRefines DEF Lifecycle!Next
  <2>3. ASSUME NEW d \in DeleteOptions, Release(l, d)
        PROVE  [Lifecycle!Next]_(Lifecycle!vars)
    <3>1. CancelOperation(l, d) /\ Revoked' = Revoked /\ d \in BOOLEAN
      BY <2>3, LeaseAssumption DEF Release, Revoked
    <3> QED BY <3>1, CancelRefines DEF Lifecycle!Next
  <2>4. CASE CancelCreate(l)
    <3>1. CancelOperation(l, TRUE) /\ attempt' = [attempt EXCEPT ![l].state = "canceled"]
      BY <2>4 DEF CancelCreate
    <3>2. \A m \in Tokens : attempt'[m].state =
            IF m = l THEN "canceled" ELSE attempt[m].state
      BY <3>1, LeaseAssumption DEF TypeOK, AttemptRecords
    <3>3. Revoked' \in {Revoked, Revoked \cup {l}}
      BY <3>2 DEF Revoked
    <3> QED BY <3>1, <3>3, CancelRefines DEF Lifecycle!Next
  <2>5. CASE FacadeAdvance(l)
    BY <1>1, <2>5 DEF FacadeAdvance
  <2> QED BY <1>2, <2>1, <2>2, <2>3, <2>4, <2>5 DEF Requests
<1>3. CASE Tick
  BY <1>1, <1>3 DEF Tick
<1>4. ASSUME NEW l \in Leases, NEW k \in Callers, Advance(l, k)
      PROVE  [Lifecycle!Next]_(Lifecycle!vars)
  <2>1. CASE SkipAdvance(l, k) \/ DiscardResult(l, k)
    BY <1>1, <2>1 DEF SkipAdvance, DiscardResult
  <2>2. CASE DeferForLock(l, k) \/ Claim(l, k)
    BY <2>2, RecheckRefines DEF Lifecycle!Next
  <2>3. CASE Publish(l, k)
    BY <2>3, PublishRefines DEF Lifecycle!Next
  <2>4. CASE CommitProgress(l, k) \/ CommitStall(l, k)
    <3>1. PICK r \in Progress(call[l][k].snap) \cup Stall(call[l][k].snap) :
            CommitResult(l, k, r)
      BY <2>4 DEF CommitProgress, CommitStall
    <3> QED BY <3>1, CommitRefines DEF Lifecycle!Next
  <2> QED BY <1>4, <2>1, <2>2, <2>3, <2>4 DEF Advance
<1>5. CASE Environment
  <2>1. CASE Clock \/ Restart
    BY <1>1, <2>1 DEF Clock, Restart
  <2>2. ASSUME NEW l \in Leases, ForeignWrite(l) \/ Redeploy(l)
        PROVE  UNCHANGED Lifecycle!vars
    <3>1. /\ lease' = lease /\ attempt' = attempt
          /\ \A m \in Leases : op'[m].phase = op[m].phase
      BY <2>2, ForeignIs DEF ForeignWrite, Redeploy
    <3> QED BY <3>1 DEF Lifecycle!vars, Stages, Wishes, Revoked
  <2> QED BY <1>5, <2>1, <2>2 DEF Environment
<1>6. CASE UNCHANGED vars
  BY <1>1, <1>6 DEF vars
<1> QED BY <1>2, <1>3, <1>4, <1>5, <1>6 DEF Next

\* Provisioning starts with no lease requested and no attempt revoked.
LEMMA LifecycleInit == Init => Lifecycle!Init
<1> SUFFICES ASSUME Init PROVE Lifecycle!Init
  OBVIOUS
<1>1. \A l \in Leases : StageOf(lease[l].state, op[l].phase) = "none"
  BY DEF Init, NoLease, StageOf
<1>2. Stages = [l \in Leases |-> "none"]
  BY <1>1 DEF Stages
<1>3. Wishes = [l \in Leases |-> "unset"]
  BY DEF Init, NoLease, Wishes
<1>4. Revoked = {}
  BY LeaseAssumption DEF Init, Revoked
<1> QED BY <1>2, <1>3, <1>4 DEF Lifecycle!Init

\* Durable provisioning implements LeaseLifecycle: whatever claims expire,
\* calls come back late, processes restart and versions alternate, a lease
\* lives the life its client was promised.
THEOREM ImplementsLifecycle == Spec => LifecycleSpec
<1> QED
  BY LifecycleInit, LifecycleStep, ClaimInvariant, LeaseInvariant, LifeInvariant,
     TypeCorrect, PTL
     DEF Spec, LifecycleSpec, Lifecycle!Spec
============================================================================
