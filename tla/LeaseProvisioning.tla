------------------------- MODULE LeaseProvisioning -------------------------
(***************************************************************************)
(* The coordinator's durable lease provisioning: the operation journal,    *)
(* due index, claims and scope locks of worker/src/lease-provisioning.ts,  *)
(* with the admission, cancellation, release and publication transactions  *)
(* of worker/src/fleet.ts that share its records.                          *)
(*                                                                         *)
(* Every commitAndWake callback is one atomic step.  advance() is three:   *)
(* it reads the clock; claims the operation in a transaction; calls the    *)
(* provider outside any transaction and commits what it returned in a      *)
(* second one.  The clock, other calls, cancellation and a process restart *)
(* may come between any two.                                               *)
(*                                                                         *)
(* The lease id stands for the operation id, generation, owner and scope   *)
(* frozen at admission: nothing here rewrites them, so matchesLease is     *)
(* constantly true and its "lease_binding_changed" branch unreachable.     *)
(***************************************************************************)
EXTENDS Integers, FiniteSets

CONSTANTS
    Leases,             \* lease ids
    Tokens,             \* the leases whose create carries an attempt id
    DeleteOptions,      \* the deleteServer values release requests carry
    Facades,            \* callers of advance() besides the tick
    Scopes,             \* coordination keys (one per Azure resource group)
    ScopeOf,            \* the scope frozen in each lease's plan
    NoOne,              \* no claim, no lock owner
    ClaimDuration,      \* claimDuration (45 s), in clock ticks
    RetryDelay,         \* retryDelay and the provider's poll interval (15 s)
    Window,             \* operation.deadline - operation.createdAt (30 min)
    LeaseTTL,           \* lease.expiresAt - lease.createdAt
    Candidates,         \* number of plan candidates (attempts)
    DuePage,            \* due entries read by one tick (4)
    MaxTime,            \* bound: the last instant the model tells apart
    MaxRevision,        \* bound: no operation is claimed beyond this revision
    MaxFaults           \* bound: restarts, foreign writes, fruitless calls

ASSUME LeaseAssumption == /\ Tokens \subseteq Leases
                          /\ ScopeOf \in [Leases -> Scopes]
                          /\ DeleteOptions \subseteq BOOLEAN
ASSUME NoOneAssumption == NoOne \notin Leases /\ NoOne \notin Facades \cup {"tick"}
ASSUME NatAssumption ==
    /\ ClaimDuration \in Nat \ {0}
    /\ RetryDelay \in Nat \ {0}
    /\ Window \in Nat
    /\ LeaseTTL \in Nat
    /\ Candidates \in Nat \ {0}
    /\ DuePage \in Nat \ {0}
    /\ MaxTime \in Nat
    /\ MaxRevision \in Nat
    /\ MaxFaults \in Nat

VARIABLES
    now,        \* Date.now(), in ticks
    attempt,    \* create-attempt:<lease>
    lease,      \* lease:<lease>
    op,         \* lease-provisioning:<lease>, step included
    journal,    \* provisioning-attempt:<operation>:<attempt>, by attempt
    material,   \* leases whose sealed material is still stored
    due,        \* the provisioning due index: <<at, lease>>
    lock,       \* provisioning-lock:<scope>
    quarantine, \* provisioning-quarantine:<lease>
    call,       \* advance(lease) calls in progress, by lease and caller
    canceling,  \* cancelCreate requests between their read and their write
    faults      \* faults so far

vars == <<now, attempt, lease, op, journal, material, due, lock, quarantine,
          call, canceling, faults>>

\* advance(lease) is called by the single-flight tick, and by the synchronous
\* create that admitted the lease: at most one call per lease from each.
Callers == Facades \cup {"tick"}

-----------------------------------------------------------------------------
(* Records *)

Phases == {"none", "prepared", "provisioning", "ready-to-publish", "settling",
           "cleanup", "blocked", "retained", "terminal"}

\* Phases with nothing left to run: no due entry, never claimed.
Parked == {"none", "retained", "terminal"}

Time == 0 .. MaxTime

\* Timers past the horizon are read as due at it.
Later(t, d) == IF t + d <= MaxTime THEN t + d ELSE MaxTime

Attempts == 0 .. Candidates - 1

\* The stored step refers to the journal of its attempt and carries none of the
\* provider's state.  delivery counts claims of one step up to "more than one".
Operations ==
    [phase : Phases, attempt : Attempts, key : BOOLEAN, delivery : 0 .. 2,
     nextWake : Time, revision : Nat, claim : Callers \cup {NoOne},
     claimExpires : Time, canceled : BOOLEAN, retain : BOOLEAN,
     createdAt : Time, valid : BOOLEAN]

NoOperation ==
    [phase |-> "none", attempt |-> 0, key |-> FALSE, delivery |-> 0,
     nextWake |-> 0, revision |-> 0, claim |-> NoOne, claimExpires |-> 0,
     canceled |-> FALSE, retain |-> FALSE, createdAt |-> 0, valid |-> TRUE]

\* What the provider knows of an attempt: "shared" while it is on infrastructure
\* of the whole scope, "owned" once on the lease's own resources; rejected is
\* the provider's definite refusal of the candidate.
Journals == [revision : Nat, stage : {"none", "shared", "owned"}, rejected : BOOLEAN]

NoJournal == [revision |-> 0, stage |-> "none", rejected |-> FALSE]

\* The state an attempt starts from.
Fresh == [stage |-> "shared", rejected |-> FALSE]

\* deletes is releaseDeletesServer; cleanup abstracts the cleanup* fields:
\* "running" = cleanupStartedAt, "failed" = cleanupError, "done" = completedAt.
LeaseRecords ==
    [state : {"none", "provisioning", "active", "released", "failed"},
     deletes : {"unset", "yes", "no"}, mayExist : BOOLEAN,
     cleanup : {"none", "running", "failed", "done"}]

NoLease == [state |-> "none", deletes |-> "unset", mayExist |-> FALSE,
            cleanup |-> "none"]

\* bound: the attempt carries this lease's canonical id and generation.
AttemptRecords == [state : {"absent", "pending", "canceled"}, bound : BOOLEAN]

\* What a call holds on to of the operation its claim transaction returned, the
\* journaled state in place of the reference.
Snapshots ==
    [phase : Phases, attempt : Attempts, stage : {"shared", "owned"},
     rejected : BOOLEAN, key : BOOLEAN, delivery : 0 .. 2, revision : Nat,
     canceled : BOOLEAN, retain : BOOLEAN]

Snapshot(o, state) ==
    [phase |-> o.phase, attempt |-> o.attempt, stage |-> state.stage,
     rejected |-> state.rejected, key |-> o.key, delivery |-> o.delivery,
     revision |-> o.revision, canceled |-> o.canceled, retain |-> o.retain]

Calls == [pc : {"idle", "started", "calling"}, now : Time, snap : Snapshots]

Idle == [pc |-> "idle", now |-> 0, snap |-> Snapshot(NoOperation, Fresh)]

Init ==
    /\ now = 0
    /\ attempt = [l \in Leases |-> [state |-> "absent", bound |-> FALSE]]
    /\ lease = [l \in Leases |-> NoLease]
    /\ op = [l \in Leases |-> NoOperation]
    /\ journal = [l \in Leases |-> [a \in Attempts |-> NoJournal]]
    /\ material = {}
    /\ due = {}
    /\ lock = [s \in Scopes |-> NoOne]
    /\ quarantine = {}
    /\ call = [l \in Leases |-> [k \in Callers |-> Idle]]
    /\ canceling = {}
    /\ faults = 0

-----------------------------------------------------------------------------
(* Transactional writes *)

\* The journal the stored step refers to.
JournalOf(l) == journal[l][op[l].attempt]

\* validJournal: it is there, and of the operation's revision.
JournalMatches(l) ==
    JournalOf(l).stage # "none" /\ JournalOf(l).revision = op[l].revision

\* Variant: blocked operations are not queued for a retry.
DueUnlessBlocked(l, o) ==
    IF o.phase \in Parked \cup {"blocked"} THEN {} ELSE {<<o.nextWake, l>>}

\* The index entry an operation is to have.
DueEntries(l, o) == IF o.phase \in Parked THEN {} ELSE {<<o.nextWake, l>>}

\* Variant: the entry of the previous wake is left behind.
PutLeavingDue(l, o) ==
    /\ op' = [op EXCEPT ![l] = o]
    /\ due' = due \cup DueEntries(l, o)

\* putProvisioningOperation: the operation and its due entry.
PutRecord(l, o) ==
    /\ op' = [op EXCEPT ![l] = o]
    /\ due' = (due \ {<<op[l].nextWake, l>>}) \cup DueEntries(l, o)

\* An operation that carries state: it goes to the journal of its attempt,
\* whatever that held.
PutState(l, o, state) ==
    /\ journal' = [journal EXCEPT ![l][o.attempt] =
                     [revision |-> o.revision, stage |-> state.stage,
                      rejected |-> state.rejected]]
    /\ PutRecord(l, o)

\* Variant: the reference is journaled as if it were the provider's state.
PutReferenceAsState(l, o) == JournalMatches(l) /\ PutState(l, o, Fresh)

\* An operation stored as it was read carries only the reference: the journal
\* must be the one of the record replaced, and keeps its state.
PutReference(l, o) ==
    /\ JournalMatches(l)
    /\ journal' = [journal EXCEPT ![l][o.attempt].revision = o.revision]
    /\ PutRecord(l, o)

\* Variant: only completion retires the material.
RetireOnCompletion(l, o) ==
    material' = IF o.phase = "terminal" THEN material \ {l} ELSE material

\* Sealed replay inputs go with cancellation, unless the record is quarantined,
\* and with completion.
RetireMaterial(l, o) ==
    material' = IF (o.canceled /\ l \notin quarantine) \/ o.phase = "terminal"
                THEN material \ {l} ELSE material

\* Variant: a blocked cleanup drops its record instead of reporting failure.
WithCleanupUnlessBlocked(r, phase) ==
    [r EXCEPT !.cleanup =
       IF phase \in {"terminal", "blocked"} \/ r.deletes = "no" THEN "none"
       ELSE "running"]

\* updateCleanupMetadata.
WithCleanup(r, phase) ==
    [r EXCEPT !.cleanup = IF phase = "terminal" \/ r.deletes = "no" THEN "none"
                          ELSE IF phase = "blocked" THEN "failed"
                          ELSE "running"]

-----------------------------------------------------------------------------
(* Create attempts and admission *)

\* A create request with an attempt id registers it before preparing; like
\* cancelCreate it runs under the lifecycle lock, so not within one.
RegisterAttempt(l) ==
    /\ l \in Tokens \ canceling
    /\ attempt[l].state = "absent"
    /\ lease[l].state = "none"
    /\ attempt' = [attempt EXCEPT ![l] = [state |-> "pending", bound |-> FALSE]]
    /\ UNCHANGED <<now, lease, op, journal, material, due, lock, quarantine,
                   call, canceling, faults>>

Admitted(t) == [NoOperation EXCEPT !.phase = "prepared", !.key = TRUE,
                                   !.nextWake = t, !.createdAt = t]

\* The admission transaction of a durable create whose preparation began at t.
\* A canceled attempt is refused, a bound one replays, and a tokenless create
\* needs a free id.
\* (Bound: creates whose deadline lies beyond the horizon are not modelled.)
Admit(l) ==
    /\ lease[l].state = "none"
    /\ op[l].phase = "none"
    /\ l \in Tokens => attempt[l].state = "pending"
    /\ attempt' = [attempt EXCEPT ![l].bound = l \in Tokens]
    /\ lease' = [lease EXCEPT ![l].state = "provisioning"]
    /\ \E t \in 0 .. now : t + Window <= MaxTime /\ PutState(l, Admitted(t), Fresh)
    /\ material' = material \cup {l}
    /\ UNCHANGED <<now, lock, quarantine, call, canceling, faults>>

-----------------------------------------------------------------------------
(* Cancellation *)

\* Variant: the last request decides.
RetainsAsLastAsked(l, deleteServer) == ~deleteServer

\* Once deletion is requested, a later retention request cannot undo it.
Retains(l, deleteServer) == ~deleteServer /\ lease[l].deletes # "yes"

\* A live claim is kept: the next wake is its expiry, and the call it covers
\* may still commit its evidence.
CanceledOperation(l, retain) ==
    [op[l] EXCEPT
       !.retain = retain,
       !.canceled = TRUE,
       !.phase = IF @ = "retained" /\ ~retain THEN "settling" ELSE @,
       !.nextWake = IF op[l].claim # NoOne THEN op[l].claimExpires ELSE now]

ReleasedLease(l, retain) ==
    WithCleanup([lease[l] EXCEPT !.state = "released", !.mayExist = TRUE,
                                 !.deletes = IF retain THEN "no" ELSE "yes"],
                CanceledOperation(l, retain).phase)

\* cancelProvisioningOperation.
CancelOperation(l, deleteServer) ==
    LET retain == Retains(l, deleteServer)
    IN  /\ op[l].valid
        /\ op[l].phase \notin {"none", "terminal"}
        /\ PutReference(l, CanceledOperation(l, retain))
        /\ RetireMaterial(l, CanceledOperation(l, retain))
        /\ lease' = [lease EXCEPT ![l] = ReleasedLease(l, retain)]

\* releaseResolvedLease while the provisioning operation owns the lease.
Release(l, deleteServer) ==
    /\ CancelOperation(l, deleteServer)
    /\ UNCHANGED <<now, attempt, lock, quarantine, call, canceling,
                   faults>>

\* cancelCreate on an attempt bound to the lease: one transaction.
CancelCreate(l) ==
    /\ attempt[l].bound
    /\ CancelOperation(l, TRUE)
    /\ attempt' = [attempt EXCEPT ![l].state = "canceled"]
    /\ UNCHANGED <<now, lock, quarantine, call, canceling, faults>>

\* cancelCreate on an attempt not yet bound reads it first and writes the
\* cancellation afterwards, outside a transaction: admission may come between.
\* (Canceling a canceled attempt again writes the record that is there.)
CancelCreateRead(l) ==
    /\ l \in Tokens \ canceling
    /\ ~attempt[l].bound
    /\ attempt[l].state # "canceled"
    /\ canceling' = canceling \cup {l}
    /\ UNCHANGED <<now, attempt, lease, op, journal, material, due, lock,
                   quarantine, call, faults>>

CancelCreateWrite(l) ==
    /\ l \in canceling
    /\ attempt' = [attempt EXCEPT ![l] = [state |-> "canceled", bound |-> FALSE]]
    /\ canceling' = canceling \ {l}
    /\ UNCHANGED <<now, lease, op, journal, material, due, lock, quarantine,
                   call, faults>>

-----------------------------------------------------------------------------
(* The tick *)

\* A page of the index, in its order.
Page(p) ==
    /\ p \subseteq due
    /\ Cardinality(p) = IF Cardinality(due) < DuePage THEN Cardinality(due)
                        ELSE DuePage
    /\ \A e \in p, f \in due \ p : e[1] <= f[1]

\* The call reads the clock, then waits for its transaction.
Started == [Idle EXCEPT !.pc = "started", !.now = now]

\* tick(): the runtime wakes at the earliest committed due time, rechecks every
\* entry of the page against its operation, quarantines the unsupported ones,
\* drops the stale ones and calls advance on what has come due, all at once.
\* The next tick waits for those calls.
Tick ==
    /\ \A l \in Leases : call[l]["tick"].pc = "idle"
    /\ \E e \in due : e[1] <= now
    /\ \E p \in SUBSET due :
         LET foreign == {e \in p : op[e[2]].phase # "none" /\ ~op[e[2]].valid}
             stale == {e \in p \ foreign : e \notin DueEntries(e[2], op[e[2]])}
             runnable == {e \in p \ (foreign \cup stale) : e[1] <= now}
         IN  /\ Page(p)
             /\ due' = due \ (foreign \cup stale)
             /\ quarantine' = quarantine \cup {e[2] : e \in foreign}
             /\ call' = [l \in Leases |->
                           IF l \in {e[2] : e \in runnable}
                           THEN [call[l] EXCEPT !["tick"] = Started]
                           ELSE call[l]]
    /\ UNCHANGED <<now, attempt, lease, op, journal, material, lock, canceling,
                   faults>>

\* A synchronous create polls advance() until its deadline.  It stops when it
\* sees the lease leave provisioning, but the first call comes before it looks
\* and every other a second after, so the state is no guard.
FacadeAdvance(l) ==
    \E k \in Facades :
      /\ call[l][k].pc = "idle"
      /\ op[l].phase # "none"
      /\ now < op[l].createdAt + Window
      /\ call' = [call EXCEPT ![l][k] = Started]
      /\ UNCHANGED <<now, attempt, lease, op, journal, material, due, lock,
                     quarantine, canceling, faults>>

-----------------------------------------------------------------------------
(* advance(): the claim transaction *)

AttemptPending(l) == attempt[l] = [state |-> "pending", bound |-> TRUE]

\* Work on the lease is no longer wanted, as of t.
IsCanceled(l, t) ==
    \/ op[l].canceled
    \/ lease[l].state # "provisioning"
    \/ t >= op[l].createdAt + LeaseTTL
    \/ t >= op[l].createdAt + Window
    \/ l \in Tokens /\ ~AttemptPending(l)

\* The early returns: nothing to run, not due, or another call's claim is live.
Claimable(l, t) ==
    /\ op[l].valid
    /\ op[l].phase \notin Parked
    /\ op[l].nextWake <= t
    /\ op[l].claim = NoOne \/ op[l].claimExpires <= t

\* An early return, or a journal of another revision, which is quarantined.
SkipAdvance(l, k) ==
    LET t == call[l][k].now
        broken == Claimable(l, t) /\ ~JournalMatches(l)
    IN  /\ call[l][k].pc = "started"
        /\ ~Claimable(l, t) \/ broken
        /\ due' = IF broken THEN due \ {<<op[l].nextWake, l>>} ELSE due
        /\ quarantine' = IF broken THEN quarantine \cup {l} ELSE quarantine
        /\ call' = [call EXCEPT ![l][k] = Idle]
        /\ UNCHANGED <<now, attempt, lease, op, journal, material, lock,
                       canceling, faults>>

\* What the transaction writes before it looks at the lock: cancellation, and
\* the release of a lease that was still provisioning.
Recheck(l, t) == [op[l] EXCEPT !.canceled = IsCanceled(l, t)]

\* Variant: the lease is left provisioning until cleanup completes.
RecheckWithoutLease(l, t) == lease' = lease

RecheckLease(l, t) ==
    lease' = IF IsCanceled(l, t) /\ lease[l].state = "provisioning"
             THEN [lease EXCEPT ![l] =
                     WithCleanup([@ EXCEPT !.state = "released", !.mayExist = TRUE,
                                           !.deletes = "yes"], op[l].phase)]
             ELSE lease

\* Variant: a lock is taken over whoever owns it.
NeverLockedOut(l) == op[l].key /\ lock[ScopeOf[l]] \notin Leases \cup {NoOne}

LockedOut(l) == op[l].key /\ lock[ScopeOf[l]] \notin {NoOne, l}

TakeLock(l) ==
    lock' = IF op[l].key THEN [lock EXCEPT ![ScopeOf[l]] = l] ELSE lock

Deferred(l, t) == [Recheck(l, t) EXCEPT !.nextWake = Later(t, RetryDelay)]

\* Another operation writes shared infrastructure of the scope: try later.
DeferForLock(l, k) ==
    LET t == call[l][k].now
    IN  /\ call[l][k].pc = "started"
        /\ Claimable(l, t)
        /\ JournalMatches(l)
        /\ LockedOut(l)
        /\ RecheckLease(l, t)
        /\ PutState(l, Deferred(l, t), JournalOf(l))
        /\ RetireMaterial(l, Deferred(l, t))
        /\ call' = [call EXCEPT ![l][k] = Idle]
        /\ UNCHANGED <<now, attempt, lock, quarantine, canceling, faults>>

\* Publication needs a claimable step and no reason to cancel, both as of the
\* transaction that makes the lease active.
MayPublish(l, t) == op[l].phase = "ready-to-publish" /\ ~IsCanceled(l, t)

Published(l) == [op[l] EXCEPT !.phase = "terminal", !.revision = @ + 1]

Publish(l, k) ==
    LET t == call[l][k].now
    IN  /\ call[l][k].pc = "started"
        /\ Claimable(l, t)
        /\ JournalMatches(l)
        /\ ~LockedOut(l)
        /\ MayPublish(l, t)
        /\ TakeLock(l)
        /\ lease' = [lease EXCEPT ![l].state = "active", ![l].mayExist = FALSE]
        /\ PutState(l, Published(l), JournalOf(l))
        /\ RetireMaterial(l, Published(l))
        /\ call' = [call EXCEPT ![l][k] = Idle]
        /\ UNCHANGED <<now, attempt, quarantine, canceling, faults>>

\* The due entry moves to the claim's expiry, so that a call that never comes
\* back is retried.
Claimed(l, k, t) ==
    [Recheck(l, t) EXCEPT
       !.revision = @ + 1,
       !.delivery = IF @ < 2 THEN @ + 1 ELSE 2,
       !.claim = k,
       !.claimExpires = Later(t, ClaimDuration),
       !.nextWake = Later(t, ClaimDuration)]

Claim(l, k) ==
    LET t == call[l][k].now
    IN  /\ call[l][k].pc = "started"
        /\ Claimable(l, t)
        /\ JournalMatches(l)
        /\ ~LockedOut(l)
        /\ ~MayPublish(l, t)
        /\ op[l].revision < MaxRevision
        /\ RecheckLease(l, t)
        /\ TakeLock(l)
        /\ PutState(l, Claimed(l, k, t), JournalOf(l))
        /\ RetireMaterial(l, Claimed(l, k, t))
        /\ call' = [call EXCEPT ![l][k].pc = "calling",
                               ![l][k].snap = Snapshot(Claimed(l, k, t), JournalOf(l))]
        /\ UNCHANGED <<now, attempt, quarantine, canceling, faults>>

-----------------------------------------------------------------------------
(* The provider's side of a step: ProviderResumableProvisioning.advance.    *)
(* Each outcome is a step; the provider sees only the claimed snapshot s.   *)

\* The provider's output(): delivery is left out (so counts from zero again),
\* and the coordination key goes with the shared stages of unfinished work.
Output(s, phase, stage, rejected, delay) ==
    [phase |-> phase, attempt |-> s.attempt, stage |-> stage,
     rejected |-> rejected,
     key |-> stage = "shared" /\ phase \notin {"terminal", "retained"},
     delivery |-> 0, delay |-> delay]

\* The provider takes the cleanup side.
CleansUp(s) == s.canceled \/ s.rejected \/ s.phase \in {"settling", "cleanup"}

\* A call that threw: the step as claimed, blocked; the delivery count stays.
Thrown(s) ==
    [phase |-> "blocked", attempt |-> s.attempt, stage |-> s.stage,
     rejected |-> s.rejected, key |-> s.key, delivery |-> s.delivery,
     delay |-> RetryDelay]

NextCandidate(s) ==
    [phase |-> "prepared", attempt |-> s.attempt + 1, stage |-> "shared",
     rejected |-> FALSE, key |-> TRUE, delivery |-> 0, delay |-> 0]

\* Variant: one candidate too many.
LastCandidateOffByOne(s) == s.attempt + 1 > Candidates

LastCandidate(s) == s.attempt + 1 >= Candidates

\* Outcomes that take the operation further.
Progress(s) ==
    IF ~CleansUp(s)
    THEN {Output(s, "settling", s.stage, TRUE, 0)} \cup
         (IF s.stage = "shared"
          THEN {Output(s, "provisioning", "owned", FALSE, 0)}
          ELSE {Output(s, "ready-to-publish", "owned", FALSE, 0)})
    ELSE (IF s.phase # "cleanup"
          THEN {Output(s, "cleanup", s.stage, s.rejected, 0)} ELSE {})
         \cup
         (IF s.retain THEN {Output(s, "retained", s.stage, s.rejected, 0)}
          ELSE IF s.canceled \/ LastCandidate(s)
          THEN {Output(s, "terminal", s.stage, s.rejected, 0)}
          ELSE {NextCandidate(s)})

\* Outcomes that leave it where it was, to be polled again.
Stall(s) ==
    {Thrown(s)} \cup
    {Output(s, phase, s.stage, s.rejected, RetryDelay) :
       phase \in IF CleansUp(s) THEN {"settling", "cleanup", "blocked"}
                 ELSE {"provisioning", "blocked"}}

-----------------------------------------------------------------------------
(* advance(): the commit transaction *)

\* Variant: results are matched by attempt alone.
FencedByAttempt(l, k) == op[l].valid /\ op[l].attempt = call[l][k].snap.attempt

\* The result still belongs to the operation as it stands.
Fenced(l, k) ==
    /\ op[l].valid
    /\ op[l].revision = call[l][k].snap.revision
    /\ op[l].claim = k
    /\ op[l].attempt = call[l][k].snap.attempt

\* Variant: a retaining call ends the operation whatever was asked meanwhile.
CommittedPhaseRetaining(l, r) ==
    IF r.phase = "ready-to-publish" /\ IsCanceled(l, now) THEN "settling"
    ELSE r.phase

\* The step as committed: cancellation that arrived during the call turns a
\* machine ready for publication into one to be settled, and a deletion asked
\* for during a retaining call reopens the operation.
CommittedPhase(l, r) ==
    IF r.phase = "ready-to-publish" /\ IsCanceled(l, now) THEN "settling"
    ELSE IF r.phase = "retained" /\ ~op[l].retain THEN "settling"
    ELSE r.phase

Committed(l, r) ==
    [op[l] EXCEPT
       !.phase = CommittedPhase(l, r), !.attempt = r.attempt, !.key = r.key,
       !.delivery = r.delivery,
       !.nextWake = IF r.phase = "retained" /\ ~op[l].retain THEN now
                    ELSE Later(now, r.delay),
       !.revision = @ + 1, !.claim = NoOne, !.claimExpires = 0,
       !.canceled = IsCanceled(l, now)]

CommitLease(l, r) ==
    lease' =
      IF r.phase = "terminal"
      THEN [lease EXCEPT ![l].state = IF IsCanceled(l, now) THEN "released"
                                      ELSE "failed",
                         ![l].mayExist = FALSE, ![l].deletes = "yes",
                         ![l].cleanup = "done"]
      ELSE IF IsCanceled(l, now)
      THEN [lease EXCEPT ![l] = WithCleanup(@, CommittedPhase(l, r))]
      ELSE lease

\* Variant: only completion gives the lock back.
ReleaseLockOnCompletion(l, r) ==
    lock' = IF r.phase = "terminal" /\ lock[ScopeOf[l]] = l
            THEN [lock EXCEPT ![ScopeOf[l]] = NoOne] ELSE lock

ReleaseLock(l, r) ==
    lock' = IF op[l].key /\ ~r.key /\ lock[ScopeOf[l]] = l
            THEN [lock EXCEPT ![ScopeOf[l]] = NoOne] ELSE lock

\* The outcome is chosen when it is committed: it depends on the snapshot
\* alone, and a later clock only makes its wake later.
CommitResult(l, k, r) ==
    /\ call[l][k].pc = "calling"
    /\ Fenced(l, k)
    /\ PutState(l, Committed(l, r), r)
    /\ RetireMaterial(l, Committed(l, r))
    /\ CommitLease(l, r)
    /\ ReleaseLock(l, r)
    /\ call' = [call EXCEPT ![l][k] = Idle]
    /\ UNCHANGED <<now, attempt, quarantine, canceling>>

CommitProgress(l, k) ==
    /\ \E r \in Progress(call[l][k].snap) : CommitResult(l, k, r)
    /\ UNCHANGED faults

CommitStall(l, k) ==
    /\ faults < MaxFaults
    /\ \E r \in Stall(call[l][k].snap) : CommitResult(l, k, r)
    /\ faults' = faults + 1

DiscardResult(l, k) ==
    /\ call[l][k].pc = "calling"
    /\ ~Fenced(l, k)
    /\ call' = [call EXCEPT ![l][k] = Idle]
    /\ UNCHANGED <<now, attempt, lease, op, journal, material, due, lock,
                   quarantine, canceling, faults>>

-----------------------------------------------------------------------------
(* The environment *)

Clock ==
    /\ now < MaxTime
    /\ now' = now + 1
    /\ UNCHANGED <<attempt, lease, op, journal, material, due, lock, quarantine,
                   call, canceling, faults>>

\* The process dies: calls and requests in progress are lost, records are not.
Restart ==
    /\ faults < MaxFaults
    /\ canceling # {} \/ \E l \in Leases, k \in Callers : call[l][k] # Idle
    /\ call' = [l \in Leases |-> [k \in Callers |-> Idle]]
    /\ canceling' = {}
    /\ faults' = faults + 1
    /\ UNCHANGED <<now, attempt, lease, op, journal, material, due, lock,
                   quarantine>>

\* A newer coordinator version rewrites an operation in a schema this one does
\* not read, and is rolled back.
ForeignWrite(l) ==
    /\ faults < MaxFaults
    /\ op[l].phase \notin Parked
    /\ op[l].valid
    /\ op' = [op EXCEPT ![l].valid = FALSE]
    /\ faults' = faults + 1
    /\ UNCHANGED <<now, attempt, lease, journal, material, due, lock, quarantine,
                   call, canceling>>

\* The version that reads the record is deployed again.
Redeploy(l) ==
    /\ ~op[l].valid
    /\ op' = [op EXCEPT ![l].valid = TRUE]
    /\ UNCHANGED <<now, attempt, lease, journal, material, due, lock, quarantine,
                   call, canceling, faults>>

-----------------------------------------------------------------------------
(* The specification *)

Requests(l) ==
    \/ RegisterAttempt(l)
    \/ Admit(l)
    \/ \E deleteServer \in DeleteOptions : Release(l, deleteServer)
    \/ CancelCreate(l)
    \/ CancelCreateRead(l)
    \/ CancelCreateWrite(l)
    \/ FacadeAdvance(l)

Advance(l, k) ==
    \/ SkipAdvance(l, k)
    \/ DeferForLock(l, k)
    \/ Publish(l, k)
    \/ Claim(l, k)
    \/ CommitProgress(l, k)
    \/ CommitStall(l, k)
    \/ DiscardResult(l, k)

Environment ==
    \/ Clock
    \/ Restart
    \/ \E l \in Leases : ForeignWrite(l) \/ Redeploy(l)

Next ==
    \/ \E l \in Leases : Requests(l)
    \/ Tick
    \/ \E l \in Leases, k \in Callers : Advance(l, k)
    \/ Environment

Spec == Init /\ [][Next]_vars

\* Time passes; the runtime wakes at the earliest due entry (its alarm or its
\* one-second scan); a started call runs its transactions, and a provider call
\* comes back with a result.
Fairness ==
    /\ WF_vars(Clock)
    /\ WF_vars(Tick)
    /\ \A l \in Leases, k \in Callers : WF_vars(Advance(l, k))

FairSpec == Spec /\ Fairness

-----------------------------------------------------------------------------
(* Properties *)

TypeOK ==
    /\ now \in Time
    /\ attempt \in [Leases -> AttemptRecords]
    /\ lease \in [Leases -> LeaseRecords]
    /\ op \in [Leases -> Operations]
    /\ journal \in [Leases -> [Attempts -> Journals]]
    /\ material \subseteq Leases
    /\ due \subseteq Time \X Leases
    /\ lock \in [Scopes -> Leases \cup {NoOne}]
    /\ quarantine \subseteq Leases
    /\ call \in [Leases -> [Callers -> Calls]]
    /\ canceling \subseteq Leases
    /\ faults \in 0 .. MaxFaults

\* No operation is stranded and none is queued twice: the due index holds one
\* entry, at the operation's next wake, for exactly the operations that have
\* work left, except those quarantined off it.
DueExact ==
    /\ \A e \in due : op[e[2]].phase \notin Parked /\ e[1] = op[e[2]].nextWake
    /\ \A l \in Leases \ quarantine :
         op[l].phase \notin Parked => <<op[l].nextWake, l>> \in due

\* What the provider reported of an attempt is never lost again, for cleanup
\* works from it: no cancellation (which stores the reference), retried claim
\* or late result takes resources once owned, or a candidate once refused, off
\* the attempt's journal, and the journals of earlier attempts stay as they are.
EvidenceKept ==
    [][\A l \in Leases, a \in Attempts :
         /\ journal[l][a].stage = "owned" => journal'[l][a].stage = "owned"
         /\ journal[l][a].rejected => journal'[l][a].rejected
         /\ a < op[l].attempt => journal'[l][a] = journal[l][a]]_vars

\* A result that passes the commit fence is applied to the very step it was
\* computed from: expired claims, retries and cancellation in between never
\* let it overwrite another step.
LateResultFenced ==
    \A l \in Leases, k \in Callers :
      call[l][k].pc = "calling" /\ Fenced(l, k) =>
        LET o == op[l]
            j == JournalOf(l)
            s == call[l][k].snap
        IN  /\ o.phase = s.phase /\ j.stage = s.stage /\ j.rejected = s.rejected
            /\ o.key = s.key /\ o.delivery = s.delivery

\* Two claimed steps on shared infrastructure of one scope never belong to
\* different leases: whoever holds a claim with the key holds the lock.
ScopeExclusive ==
    \A l \in Leases :
      op[l].claim # NoOne /\ op[l].key => lock[ScopeOf[l]] = l

\* The scope lock is never leaked: its owner is an unfinished operation whose
\* step still names the key, so it is released by settling that step.
LockNotLeaked ==
    \A s \in Scopes : lock[s] # NoOne =>
      LET l == lock[s]
      IN  ScopeOf[l] = s /\ op[l].key /\ op[l].phase \notin Parked

\* Once deletion has been asked for, no later retention request and no late
\* result of an earlier retaining call undoes it; and what is retained was
\* released with its server kept.
DeleteWins ==
    \A l \in Leases :
      /\ lease[l].deletes = "yes" /\ op[l].phase # "terminal" =>
           ~op[l].retain /\ op[l].phase # "retained"
      /\ op[l].phase = "retained" => lease[l].deletes = "no"

\* A released lease shows its cleanup debt until the operation is terminal:
\* resources may exist, and deletion is reported as running or failed.
DebtVisible ==
    \A l \in Leases :
      lease[l].state = "released" =>
        IF op[l].phase = "terminal"
        THEN ~lease[l].mayExist /\ lease[l].cleanup = "done"
        ELSE /\ lease[l].mayExist
             /\ lease[l].deletes = "yes" => lease[l].cleanup \in {"running", "failed"}

\* Sealed replay material does not outlive cancellation (of a record this
\* version could read throughout) or completion.
MaterialRetired ==
    \A l \in material :
      /\ op[l].phase # "terminal"
      /\ op[l].canceled => l \in quarantine

\* Where a lease is in its life, as its record and its operation tell.
StageOf(state, phase) ==
    IF state = "provisioning" THEN "requested"
    ELSE IF state # "released" THEN state
    ELSE IF phase = "terminal" THEN "gone"
    ELSE IF phase = "retained" THEN "kept"
    ELSE "withdrawn"

Stages == [l \in Leases |-> StageOf(lease[l].state, op[l].phase)]

Wishes == [l \in Leases |-> lease[l].deletes]

Revoked == {l \in Tokens : attempt[l].state = "canceled"}

Lifecycle ==
    INSTANCE LeaseLifecycle WITH stage <- Stages, wish <- Wishes, revoked <- Revoked

\* Claims, retries, expired calls, restarts and foreign versions only ever take
\* a lease through the life LeaseLifecycle describes: no late result revives a
\* withdrawn lease or fails it, a settled one stays settled, a deletion once
\* asked for is never taken back, and a canceled attempt is never published.
LifecycleSpec == Lifecycle!Spec

\* A canceled operation is eventually settled: everything it made is deleted or
\* deliberately retained.  Only a quarantined record stops that, its own or one
\* that still fences the scope.
CancelSettles ==
    \A l \in Leases :
      op[l].canceled ~> \/ op[l].phase \in {"terminal", "retained"}
                        \/ quarantine \cap {l, lock[ScopeOf[l]]} # {}

\* Every admitted lease leaves "provisioning", even one locked out of its scope
\* or whose provider stalls past the deadline, unless its record is quarantined.
AdmissionResolves ==
    \A l \in Leases :
      lease[l].state = "provisioning" ~>
        lease[l].state # "provisioning" \/ l \in quarantine
============================================================================
