# Verification of crabbox

crabbox rents machines from cloud providers, hands them out as *leases* and takes
them back. The CLI (Go, `internal/cli`) runs on the user's side; the *coordinator*
(TypeScript, `worker/`) owns the leases. It runs as a Cloudflare Durable Object or as
a Node process on PostgreSQL, it can die at any point, and the machines it rents
cost money until they are confirmed deleted. The CLI keeps records of its own beside
them: the claim files of the leases this machine uses, and the signed result of a run
until the coordinator has it. This directory holds TLA+ models of the parts where that
is hard, TLC runs that check them on small instances, and TLAPS proofs of their safety
properties for all instances.

## Inventory

| Component | State it keeps | Operations | What is hard |
|---|---|---|---|
| Durable lease provisioning (`lease-provisioning.ts`, `provider-provisioning.ts`) | operation, attempt journal, sealed material, due index, scope locks, quarantine markers | put, cancel, `tick`, `advance` (claim, call the provider, commit) | calls that outlive their claim, cancellation during a call, crashes between claim and commit, scope contention, records of another version |
| Azure adapter (`azure-provisioning.ts`) | its private step (stage, action journal, resources) in the operation | `prepare`, `advance`, `cleanup` | ambiguous PUTs, late effects, fallback to the next candidate |
| Requests (`fleet.ts`, `lease-admission.ts`) | `create-attempt:`, `lease:` | reserve attempt, admit, synchronous facade, `cancelCreate`, release, publish | read-then-write of an unbound attempt, admission deadline, replay |
| Runtime (`coordinator-runtime.ts`, `node/node-runtime.ts`, `node/postgres-storage.ts`) | alarm, legacy wake, due index, maintenance run | `commitAndWake`, arming by requests, alarm, cron, maintenance, one-second scan | one alarm for several wake sources, wakes consumed before the work is done, single-flight ticks, serializable retries |
| Lease records and indexes (`lease-record-store.ts`, `lease-maintenance-index.ts`) | `lease:`, `lease-maintenance:`, `lease-current:`, scan state | superset-ordered writes, backfill, audit, prune | a scan against concurrent writers, rollback to code without the index |
| Checkpoints (`checkpoints.ts`) | checkpoint records, uses | create, fork, delete | use and deletion race through storage |
| Ready pools (`ready-pool-access.ts`, `aws-pool-access.ts`) | access grants, generations | grant, revoke, rotate | fencing by generation |
| Retained reconciliation (`retained-lease-reconcile.ts`, `*-cleanup*.ts`) | cursor, debts | scan, confirm, delete | provider inventory that lags |
| Lifetime policy (`lease-lifetime.ts`), host reservations | fields of the lease | deadlines, stale reasons | boundary arithmetic |
| CLI claims (`claim.go`, `claim_transaction.go`, `claim_lock.go`) | claim files, locks, revisions | snapshot, guarded transaction, fence, durable lock, resolve, finalize, remove | decisions on a snapshot read without a lock, writers behind running commands, renames and unlinks that a crash undoes |
| CLI run recorder (`run_recorder.go`, `run_output_events.go`, `pending_finish.go`) and run records (`fleet.ts`, `run-receipt.ts`) | run handle, attribution, pending signed finish on disk; run record, events | admit, attach, finish, fail, recover | answers that are lost, requests that arrive after the client gave up, a client that dies |
| CLI fixed-lease engine (`fixed_lease*.go`) and the `fixed.go` of its adapters | intent, journal phase and native attempt in the claim | acquire, replay, resolve, release, reject | a create whose outcome is unknown, resubmission, absence that proves nothing |
| CLI controller, workspace owner | service state | start, stop, adopt | rests on claims |
| Portal, auth, configuration, provider clients, relays, runner | none of interest | | I/O, parsing, rendering |

How they interact: a create request reserves an attempt, prepares a plan with the
adapter and *admits*: one transaction writes lease, operation, journal, material and
due entry. From then on the operation belongs to the controller. The runtime wakes
`tick` when the due index says so; `tick` calls `advance` on what has come due; a
synchronous create calls `advance` on its own lease too. `advance` claims the
operation in a transaction, calls the adapter outside any transaction, and commits
what it returned in a second one, if the claim still stands. Cancellation and
release write to the same records between any two of these. Publication happens in
the claim transaction of an operation that is ready. On the CLI's side every command
that touches a lease goes through its claim file: `exec` holds the claim's lock shared
while the command runs, everything that changes the claim holds it alone, and the
fixed-lease engine is one long transaction on the claim that persists it several
times. `run` records itself at the coordinator next to the lease. The behaviour is described in
`docs/features/lifecycle-cleanup.md`, `docs/features/coordinator.md` and
`docs/operations.md`; the model is taken from the code.

## Modules

| Module | What it is |
|---|---|
| `LeaseLifecycle` | abstract specification: the life of a lease as its clients know it |
| `LeaseProvisioning` | the model: records, requests, tick, advance, provider contract, environment, properties; implements `LeaseLifecycle` |
| `MCLeaseProvisioning` | constants for TLC: one shared scope, symmetry of leases |
| `LeaseProvisioningTypes` | lemmas on the operators, and type correctness |
| `LeaseProvisioningProofs` | the safety proofs |
| `LeaseLifecycleProofs` | the refinement of `LeaseLifecycle` |
| `LeaseIndex` | lease records, one secondary index and its maintenance scans, on either kind of store |
| `LeaseIndexProofs` | type correctness, and repair of missing members on a coalescing store |
| `ClaimRegister` | abstract specification of a claim file: a register only overwritten by those who know what they overwrite |
| `ClaimFile` | the claim file, its two-level lock, the operations, the file system and crashes; implements `ClaimRegister` |
| `MCClaimFile` | constants for TLC: three operations in two processes |
| `ClaimFileProofs` | safety of the claim file, and the refinement |
| `RunHistory` | one run, its client, its record at the coordinator and the network between them |
| `RunHistoryProofs` | safety of the run's history |
| `CoordinatorWake` | the one alarm of the coordinator: what sets it, what consumes it, and the maintenance it starts |
| `CoordinatorWakeProofs` | no wake is lost |
| `FixedLease` | the fixed-lease engine over four providers |
| `FixedLeaseProofs` | one identity, custody and finality of cleanup |

### LeaseProvisioning and the code

Each variable is a key space of the store (`op` is `lease-provisioning:<lease>`,
`due` the due index, `lock` is `provisioning-lock:<scope>`, ...), except `call`, the
`advance` calls in progress with the snapshot each took at its claim, and
`canceling`, the `cancelCreate` requests between their read and their write.

* A `commitAndWake` callback is one atomic action; `advance` is three: `Tick` or
  `FacadeAdvance` reads the clock (`Started`), one of `SkipAdvance`, `DeferForLock`,
  `Publish` and `Claim` is the first transaction, and `CommitProgress`, `CommitStall`
  or `DiscardResult` the second. The clock read at the start is the one the claim
  transaction uses, as in the code, however late the transaction runs; the commit
  reads the clock again.
* `putProvisioningOperation` has two branches. A transaction that put the provider's
  state into the step (`Admit`, the claim transaction, the commit) writes it to the
  journal of its attempt (`PutState`); one that stores the operation as it read it (a
  cancellation) carries the reference only, and the journal it refers to is read again,
  must be of the operation replaced, and keeps its state (`PutReference`; the throw is
  an action that is not taken, as the transaction aborts). Both write the operation and
  its due entry (`PutRecord`). `journal` is by lease and attempt, as its keys are, and
  is the only place of the provider's state. `RetireMaterial` is the trailing deletion
  of material. Every action that writes an operation goes through one of the two and
  `RetireMaterial`.
* `IsCanceled` is the condition both transactions compute: canceled operation, lease
  no longer provisioning, lease expired, deadline passed, or the create attempt no
  longer pending and bound. `matchesLease` compares fields that are frozen at
  admission, so it is constantly true here and `lease_binding_changed` unreachable.
* `RegisterAttempt`, `Admit`, `CancelCreate`, `CancelCreateRead`/`Write`, `Release`
  are the requests. `cancelCreate` on an unbound attempt is two steps, because it is
  not in a transaction in the code and admission can come between.
* The provider is its contract: `Progress` and `Stall` are the phases, attempts and
  coordination keys `AzureResumableProvisioning.advance` can return for a step, with
  its private journal abstracted to *shared or owned infrastructure* and *rejected*.
  `Thrown` is the controller's own answer to an exception.
* `Restart` loses calls and requests in progress. `ForeignWrite` and `Redeploy` are a
  newer version of the coordinator that rewrites a record in a schema this version
  does not read and is rolled back, and later deployed again; `tick` quarantines
  such a record.

Abstractions: time is counted in ticks up to `MaxTime` and timers beyond it are read
as due at it; the delivery count saturates at "more than one"; the facade may call
`advance` whenever its deadline allows, although it stops when it sees the lease
leave provisioning (it looks only after a call, so a call on a settled lease does
occur). The due page of a tick is read, checked and dispatched in one step: entries
are rechecked against their operation by `advance` in its own transaction anyway.

`LeaseLifecycle` says what the clients of a lease rely on, without operations, claims
or time: a lease is requested and becomes active, fails or is withdrawn; what is
withdrawn never comes back, and ends with its server deleted or deliberately kept; the
first request to delete is the last word; a revoked create attempt activates nothing.
The mapping takes `stage` from the lease's state and, once it is released, from the
operation's phase (`StageOf`), `wish` from `releaseDeletesServer` and `revoked` from the
create attempts. `Settle` is also a step from `requested`: a lease can outlive its
deadline while the last step of its cleanup runs.

### LeaseIndex and the code

Maintenance, slug lookup, listings and capacity read `lease-maintenance:` or
`lease-current:` instead of the whole history. `rec` is the lease record reduced to
what the index's predicate says of it, `index` the entries, `stored` the index's state
record, `pass` a run of `maintainLeaseIndex` with its own copy of that state, `write`
the writers between their statements. The two indexes share code but no state, so one
is modelled.

* `WriteAtomic` is `putLeaseRecord` or `deleteLeaseRecord` in a transaction or in the
  write batch of a Durable Object (`Coalescing`). On PostgreSQL a plain write is two
  autocommitted statements: `PublishEntry`, `PublishLease` for a member, `RetractLease`,
  `RetractEntry` otherwise, and `FailWrite` when the second one fails.
* `StartPass`, `ReadPage`, `AddMember`, `EndPage` are the backfill and the audit, which
  differ in `AddMember` only; `ReadEntries`, `VisitEntry`, `RecheckEntry`,
  `EndSweepPage` are `pruneStaleEntries`, with the read before the transaction and the
  transaction as steps of their own. `FailPass` is a pass that throws.
* `Deploy` starts a runtime, of this code or of one from before the index (`OldWrite`);
  its generation is fresh, as `coordinatorGeneration` is a random UUID.

Assumed: writers of one lease do not overlap (they hold the lifecycle lock or own the
record in a transaction); maintenance holds no lock and runs between any two steps.
The deadlines of audit and sweep elapse between passes, since they are compared with
the clock at the start of a pass and lie hours beyond its end.

### ClaimFile and the code

`claim` is what `os.ReadFile` of the path returns, `durable` the set of contents a power
failure may leave: a rename or an unlink adds to it, a directory sync makes it the
current content. `mutex` is `claimMutationMutex` of each process, `writer` and `readers`
the `flock`. An operation has the snapshot it was called with (`expected`), the claim it
publishes (`draft`) and a place in its code (`pc`).

* `Begin` is the unlocked read and the call; `LockMutex`, `LockFile`, `GiveUp` are
  `withLeaseClaimLockContext` with its polling and its context; `ReadUnderLock` is the
  second read and the guard; `PreparePublication` and `EndAction` are the two ways on
  after the provider action; the rest is one action per file-system call, with its
  failure.
* The kinds of operation are the ways the exported functions fill in
  `leaseClaimTransaction`: `claim` (no guard), `claimIfUnchanged` and `replace`
  (guarded, durable), `update` (guarded, the directory sync is best effort), `persist`
  (`WithDurableLeaseClaimLock`, which publishes as often as its action asks), `fence`,
  `command` and `cancel` (`withLeaseClaimUnchangedContext`, the last two shared),
  `resolve`, `finalize` and `remove`. A `resolve` that does not remove is a `replace`.
* A claim is its revision. The guards compare whole claims with `reflect.DeepEqual`;
  every publication draws 16 random bytes, so equal claims are the same publication.
* `ProcessCrash` is a killed CLI: the kernel drops its locks, the path stays.
  `MachineCrash` chooses a content from `durable`. The Windows variant of the file
  operations is not modelled.

`ClaimRegister` says what callers rely on: publish and remove act on exactly the value
the client knows, a client bound to a snapshot cannot look again, no value is published
by two clients. The mapping is `value <- claim`, and `bound` is the set of operations of
a guarded kind that have begun.

### RunHistory and the code

The client's steps are those of `runCommandWithBenchmarkRecord` that concern the
recorder; `Post` sends attempt *n* of an exchange and `Settled` ends the wait with the
answer or with a time-out, whereupon the request stays in `net`, to arrive later or
never. The coordinator's handlers are one action each, except the finish: it reads and
verifies (`ReadForFinish`) before its transaction (`CommitRunFinish`), and other
requests come between. A finish is the lease its receipt is signed for, because that is
what the record is compared with. `byID` and `idempotent` are the two modes that change
the protocol: a lease that exists before the admission, and a coordinator that
deduplicates events by id (one that does not is never sent a second attempt).
`Crash` is the death of the client, `Recover` is `crabbox receipt --recover`.

### FixedLease and the code

One lease ID, one claim: `state`, journal `phase`, native `attempt`, `submission` and
`count` are the fields of the intent, `id` the native identity. The claim's lock is held
from beginning to end of an operation, so one operation (`op`) runs at a time; what
interleaves with it is the provider, which handles requests in its own time, and a
command that read the claim earlier (`seen`). `AcquireFresh` to `CompleteAcquire` are
`AcquireFixedIntent` and `AcquireFixedResource` write by write; `Abandon` is an error
return or a crash at any of these points. `Candidates`, `CanSubmit`, `AbsenceProven` and
`Permits` hold the differences between the adapters, by name of the provider. They are
the policies of four adapters, not all the engine has: a kind that admits a create from
a fresh intent only and never repeats it (`FreshOnly` without `KeyedRetry`, used by tenki
and machine0) is not represented; it permits less than asciibox does.

Abstractions: refusals that happen before anything is written (TTL, fingerprint,
repository, checkpoint) are operations that do not start. The journal's revision and the
last-used time are not part of the modelled claim, so a stale command is refused less
often than in the code. Inventories may miss machines (`listed`), reads of an exact
identity do not. Reclaiming, retained session disks and stopping without deleting are
left out. asciibox forgets a key only after the window it promises and not while a
request is under way (the client's own timeout ends it). Incus is assumed to have
refused a create of a name in use by the time the instance with that name is gone,
unless `LateCreates`; whether a daemon can be that late is not for this repository to
decide, but "absence after this phase is safe to finalize" (`incus/fixed.go:288`) needs
it excluded, as several creates of one name may have been sent.

### CoordinatorWake and the code

The coordinator has one alarm. Its time is the minimum of the legacy wake
(`runtime:legacy-alarm`, set for whatever maintenance scans) and the first entry of the
due index. A *job* is such a record with the next time it needs maintenance, an *op* a
provisioning operation; a name that is both is a lease and its operation, which owns it
until it publishes. `queued` is what the runtime will really deliver: the native alarm,
or on Node the job of the queue, which is told after the commit (`hint`).

* `CommitAndWake` is every transaction of that name: the caller gives the legacy wake
  and the due index it leaves. `AdoptedLegacy` is what an upgraded coordinator makes of
  the alarm it finds, which differs between the runtimes.
* `Request` writes a deadline under the lifecycle mutex, `FinishSection` arms for it
  (`armAlarmNoLaterThan` or the full `scheduleAlarm`); the process can die in between,
  and provisioning, which does not take the mutex, commits in between.
* `Deliver`, `Cron`, `ClearDueWake`, `ClearFails`, `FinishHandler`, `HandlerFails` are
  `provisioningAlarm` commit by commit; its tick is any number of `ProvisioningCommit`.
* `StartRun`, `ClaimOverdue`, `CleanupSucceeds`, `CleanupFails`, `FinalSchedule` and
  `RunFails` are a maintenance run, of whose phases `expireLeases` stands for all: each
  claims due records under the mutex, arms, and calls a provider. `FinalAlarm` is the
  schedule with its backoff. On Cloudflare nothing comes between a run's last commit and
  its end (the storage's input gate); on Node the commit waits for the hint (`ending`).
* `degraded`, `hidden` and `failed` are for the properties: a wake may have gone down
  with a process or with the queue, a record's deadline was left to an operation's wake,
  the last run threw. The next completed run ends all three.

Abstractions: times are small numbers; the clamps to one millisecond from now, the
epsilon of "due" and the wake of the serve relay are left out. Reading the alarm and
setting it are one step, as the mutex orders all who do so. A failing retry wake
(logged only) is not modelled: the cron is what remains then.

## Runs

| Run | Instance | Shows |
|---|---|---|
| `single` | one lease with an attempt, two candidates, tick and facade, both releases, one fault | type correctness, exact due index, late results fenced, deletion wins, visible cleanup debt, retired material, no evidence of an attempt lost; the coordinator implements `LeaseLifecycle` |
| `settle` | one lease, up to four faults, fairness | a canceled operation settles |
| `resolve` | two leases in one scope, one fault, fairness | exclusive use of shared infrastructure, no leaked lock; every admission resolves, every cancellation settles |
| `index_batched` | three leases, two older than the index, pages of one, rollback and redeployment | on a Durable Object no member is missing without a scan ahead of it |
| `index_statements` | two leases on PostgreSQL, one restart or rollback, fairness | missing members are found again, stale entries are removed |
| `index_race` | two leases on PostgreSQL, no failure | **violation**: a sweep takes back an entry between a writer's two statements |
| `claim_file` | three writers in two processes, failing file-system calls, one crash | actions are fenced by their snapshot, superseded claims stay gone, a conflict disowns its claim, the file implements `ClaimRegister` |
| `claim_fence` | commands, cancellations and writers, fairness | the same fence with shared holders; a cancellation always gets through and everybody ends |
| `run_history` | one run, a replaced lease, lost and late requests, death and recovery of the client, fairness | a workload has its record, attribution holds, confirmed means committed, a signed finish survives, can always be committed and is; a run ends once |
| `fixed_lease` | two claims, three attempts, three creates on each of four providers | one identity, custody of every machine, cleanup is final |
| `wake` | a lease and its operation, another lease's operation, either runtime, crashes | no operation's wake is lost or postponed; no record's wake is lost, except behind an operation's |
| `wake_lost` | a record and another lease's operation | **violation**: a deadline hidden behind an operation's earlier wake is lost with it |

**Findings.** `index_race` refutes two comments of the code for PostgreSQL. "Rechecking
inside a retryable transaction prevents a stale page from deleting membership published
by a concurrent lease writer" (`lease-maintenance-index.ts:40`) holds only if the
record is written together with its entry. There the entry comes first: the sweep
lists it, reads the lease as absent or settled, reads the same in its transaction and
deletes the entry; then the writer puts the lease. The lease is live and in no index
until the next daily audit or restart, although nothing failed, contrary to "can leave
a stale index entry but never a missing one" (`lease-record-store.ts:100`). Such a
write is a plain `putLease` outside a transaction, for instance when a settled lease
is registered again (`fleet.ts:8426`). `index_statements` shows that the audit does
find it again.

`wake_lost` concerns "arms the alarm no later than the lease's next deadline, preserving
an already-earlier wakeup" (`docs/features/coordinator.md:647`) and "a concurrent
heartbeat or release cannot lose its wakeup" (`docs/architecture.md:375`).
`armAlarmNoLaterThan` compares with the merged alarm and stores nothing when that is
early enough. When it is early because of an operation of another lease, and that
operation then moves outside the alarm, the alarm goes with it and the deadline has none.
There is a second way, which the same property shows with `Jobs = Ops = {l1}`: "The next
alarm is scheduled for the soonest upcoming expiry or sweep time"
(`docs/features/coordinator.md:718`), but a lease published by the synchronous create or
by Node's scanner gets an expiry and leaves the due index, and nothing sets the legacy
wake; maintenance skipped it as long as the operation owned it. A heartbeat, an alarm for
something else or the 15-minute trigger repairs both. `JobsCovered` excepts these records
(`hidden`) until the next completed run, and `wake` finds no third way.

Bounds and why they suffice. The interesting orders need two callers of one lease
(an expired claim and its successor), or two leases in one scope; never more. Two
candidates give a first, a next and a last one. Claims and retries last one tick,
the window and the lease's life one or two, so a claim can expire before, at and
after a deadline. `MaxRevision` limits how often an operation is claimed in the
safety runs: it is claimed up to revision seven, which takes it through both
candidates to publication or to the end of their cleanup; in the
liveness runs the bound (20, 40) is never reached, because each fruitless call costs
a fault. `Admit` allows every preparation time before the current instant. Deadlock
checking is off: at the horizon with everything settled the system really stops.
For the index, pages of one entry and passes of one or two pages make every scan span
several pages and passes; three leases give one behind, one at and one beyond a cursor;
three runtimes give the sequence new, old, new.
For the claim file, two operations contend for the mutex of one process and a third for
the file lock; every race of the properties is between two operations, and the third is
the one that overwrites what they left. For the run, three admissions, two events and
two finishes leave an earlier attempt under way behind a later one (the code's 4, 3 and
3 pass too, in three minutes). For the fixed lease, two claims follow one another after
a settled rejection, and three creates are one more than any policy but Incus sends.
There too deadlock checking is off because everything may have ended.
For the wakes, one record and two operations: records meet only in the minimum that is
armed and in the batch of a run (two records pass too, on Cloudflare with one
operation), and what races with a record is an operation, its own or another's. Deadlines are now or one tick off, so a record
can become due before, during and after a run; operations choose one tick off, which is
before or after a deadline depending on when they chose. Delays of one tick are the
shortest that let a claim, a retry and a backoff be pending when the clock moves.
Deadlock checking is on: the clock's end stops nothing else.

Fairness (`FairSpec`): the clock advances; `Tick` is taken when an entry is due (the
Durable Object's alarm is set in the committing transaction, and the Node runtime
scans every second and catches a failing tick); a started call runs its transactions
and its provider call returns. The code gives no bound on how often a provider may
answer "not yet", and some answers (an identity conflict, an unidentified dispatch)
are given for ever: liveness is relative to finitely many fruitless calls
(`MaxFaults`). Requests, restarts and redeployment are not fair.
For the index: passes run to their end and are started again (an alarm or the
15-minute trigger), a statement issued is executed, and deadlines elapse. The last is
strong fairness, because the model lets them elapse only between passes while real
deadlines elapse whether or not passes keep coming.
For the claim file (`claim_fence`): an operation goes on when it can. A poll of the lock
every ten milliseconds justifies weak fairness, since the instance's readers are finite
in number and the lock stays free once they are done; a provider action returns; a
running command returns when it is cancelled. Nothing makes a caller cancel, so
`OperationsEnd` excepts a command that nobody is cancelling.
For the run: the client goes on, somebody runs `receipt --recover` as long as the file
is there, and of infinitely many submissions one arrives and one is committed (strong
fairness, as the network and the coordinator lose some but not all).
Nothing is assumed fair of the wakes: that the alarm is delivered and that the trigger
keeps coming is the runtime's affair, and the properties are about what is set.

## Proofs

`LeaseProvisioningProofs` proves every safety property that the runs check, for all
values of the constants: any number of leases, scopes, callers and candidates, any
durations. The callers are arbitrary, so the proofs also cover overlapping ticks. The
assumptions are the three named ones of `LeaseProvisioning` (shapes of the
constants), and TLC evaluates them on every run.

* `TypeCorrect`: `TypeOK` is inductive. Its one interesting conjunct is that the
  attempt stays below the number of candidates, which rests on the adapter moving on
  only when `LastCandidate` is false.
* `DueIndexExact`: inductive with `TypeOK`; the lemma `PutDue` says once what
  `PutRecord` does to the index.
* `SharedScopeExclusive`, `ScopeLockNotLeaked`: together with `ReadyNoKey` (an
  operation ready to publish names no key) they are inductive as `LockInv`. Neither
  is by itself: publication ends an operation without releasing a lock, which is
  harmless only because a step that is ready to publish holds none.
* `LateResultsFenced`: `FenceInv` adds that no snapshot is of a later revision than
  its operation and that a claim at the snapshot's revision means the step is still
  the one that was snapshotted. Cancellation rewrites the operation without raising
  the revision; the proof shows that this leaves what a result overwrites alone.
* `DeletionWins`: `ClaimInv` and `RetainInv` relate the `retain` flag of operation
  and snapshots to the lease's `releaseDeletesServer`.
* `CleanupDebtVisible`, `MaterialNeverOutlives`: inductive with the above.
* `EvidenceNeverForgotten`: an action property. `JournalInv` says that the journal of
  the step is of the operation's revision and that attempts not yet begun have none,
  so neither the quarantine branch of `advance` nor the throw of a cancellation is
  taken on records of this version; `FenceInv` then gives that the snapshot a result
  was computed from knows all that the journal it replaces does (`EvidenceStep`).

`LeaseIndexProofs` proves `IndexTypeCorrect` and `MembersRepaired`: on a coalescing
store `RepairAhead` holds for any leases, page sizes, restarts, rollbacks and failing
passes. It is not inductive: a pass works on its own copy of the state, so `RepairInv`
adds that the *pass* has every missing member before it, in the page it is adding or
beyond its cursor, and that a stored generation is never of a later runtime. The lemma
`PageCovers` says that a page leaves behind its cursor only what it holds. The theorem
assumes `Coalescing`; without it the property fails, as `index_race` shows.

`ClaimFileProofs` proves the four invariants of `claim_file` and `Spec => RegisterSpec`
for any operations, processes, failures and crashes. `IInv` has eight parts. `LockInv`
says who holds the lock; with `SeenInv` (what an operation that passed its guard
believes is what is there) it gives `Fenced`. `KnownInv` and `DraftInv` say that a drawn
revision is in use nowhere else, which is why a claim that compares equal is the same
publication. `SupersededIsGone` is not inductive: `SupersededInv` adds that no draft
under way equals a claim somebody acted on, and that a durable transaction between two
publications has its last one on disk. `ConflictInv` counts the failures at each step of
a conflict. The refinement maps `Begin` and `ReadUnderLock` to `Snapshot`, the renames
to `Publish`, `Unlink` to `Remove`, syncs to `Flush` and `MachineCrash` to `Crash`;
`BoundKept` says that nothing but `Begin` changes who is bound.

`LeaseLifecycleProofs` proves `Spec => LifecycleSpec` under the same assumptions.
`LifeInv` says that lease and operation move together: the operation of a provisioning
lease has work left and nobody has spoken of deletion, that of an active or failed
lease is finished. With `ClaimInv` (a commit finds unfinished work, so it can move only
a requested or withdrawn lease) and `RetainInv` (what a commit retains was released
with its server kept) every transaction is one step in the life of its lease or none
(`AdmitRefines` to `AttemptRefines`). The property says more than `DeleteWins`: it
also excludes that a canceled lease is activated, that a released one is reported
failed, that a settled one is touched again, and that a wish for deletion is withdrawn.

`RunHistoryProofs` proves the six invariants of `run_history` and `EndsOnce`, for any
bounds on the attempts. `TagsAssumption` says that leases differ from the tags that
share fields with them. Hardly any of the invariants is inductive, because what
threatens them is on its way: `NetOK` says what a request under way implies about the
client that sent it (an admission failure in the network means that the client never
was admitted and has ended, a finish that it is signed and retained), `RecordOK` how a
record ended and what that says about the client, and `AttributionOK` that the record's
lease is that of the last binding it accepted. The latter needs `Spent`: before the
lease is replaced, every event about the first one is in the record and any copy still
under way is a duplicate there, or there is no copy because a coordinator without
deduplication is sent one attempt only. `TriesOK`, `AwaitingOK`, `PhaseOK`, `LeaseOK`
and `SignedOK` say where the client stands. `EndsOnce` is an action property that
follows from `RecordOK` and `NetOK` (`OutcomeStep`).

`CoordinatorWakeProofs` proves `TypeOK`, `ProvisioningCovered` and `JobsCovered` for any
finite sets of jobs, operations and delays and any horizon (`BoundsAssumption`,
`SetsAssumption`). `ProvisioningCovered` follows from `QueueOK` and `AlarmOK`: outside
the handler of a delivered alarm the queue holds the stored alarm, which is no later
than any entry of the due index. `JobsCovered` is not inductive, since it speaks of the
queue, and the queued alarm of a record may be an operation's and move with it. What
covers a record is the wake the next commit takes over: `LegacyOK` says that this is in
time for it, or that somebody who is going to arm is under way. `SectionOK` carries the
deadlines that the holder of the mutex has written and not yet armed for. That the
minimum of a set of times exists is proved from the well-foundedness of `<` on the
naturals (`LeastNatural`, `GreatestNatural`), without induction.

`FixedLeaseProofs` proves `OneIdentity` and `CleanupIsFinal` without and `Custody` with
the assumption `~LateCreates`, for any number of claims, attempts and requests. The
invariant relates the journal to the world. A claim without an attempt, with its
submission still pending or with no create counted has nothing sent (`NothingSentOK`);
every request and every machine carries the planned attempt, and there is one identity
(`AllocationOK`); a one-shot policy has at most one request under way and none once a
machine was allocated, and an expired asciibox window has none (`RequestsOK`); on Incus,
without late creates, an instance that is absent after its create was seen leaves nothing
under way (`SeenOK`); and of a released claim nothing is left (`ReleasedOK`). `ClaimOK`
and `OpOK` say which fields go together and where the running operation stands.

In `LeaseProvisioningProofs` the case split over `Next` is made once (lemmas `Steps`
and `Quiet`); in the others every action has a lemma of its own. Every invariant that a
passing run checks, every action property and both refinements are proved. Liveness is
only model-checked, in all modules (`CancelSettles`, `AdmissionResolves`,
`MissingHealed`, `StaleRemoved`, `OperationsEnd`, `RetainedIsCommitted`): it needs
fairness and `ENABLED`, which the prover does not handle.

## Not modelled

The internals of the Azure adapter, the deadline of the admission fence, serializable retries of PostgreSQL
transactions (assumed atomic), sealing of material (cryptography), the non-durable
providers' lifecycle in `fleet.ts`, checkpoints, ready pools, the CLI's controller
service, and everything the inventory marks as I/O, parsing or rendering. The hazards
without a property in `PROJECT.json` name what remains exposed.

Most of the repository is of that last kind: of some 340 000 lines of Go the greater
part are adapters that call a provider's API or shell out to its tool, generated
clients, configuration, SSH and desktop plumbing and output. They keep no shared state
that a model could be about. The modules here cover the transactions on shared records,
which are a small part of the lines.

## Plan

1. `AzureProvisioning`: stages, action journal and a cloud with ambiguous and late
   effects. No second machine for one attempt, nothing left when terminal; a
   refinement of the `Progress`/`Stall` contract of `LeaseProvisioning`.
2. `CoordinatorWake` composed with `LeaseProvisioning`: the fairness assumed of `Tick`
   as a consequence of `ProvisioningCovered`.
3. `AdmissionFence`: the admission deadline against a retried commit.
4. `Checkpoints`, `PoolAccess`, `RetainedReconcile`: their records and races.
