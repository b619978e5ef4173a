--------------------------- MODULE CoordinatorWake ---------------------------
(***************************************************************************)
(* The one alarm of the coordinator and everything that sets it:           *)
(* commitAndWake of both runtimes (worker/src/coordinator-runtime.ts and   *)
(* worker/node/node-runtime.ts), the alarm handler, the single-flight      *)
(* maintenance run and the two ways a request arms the alarm               *)
(* (worker/src/fleet.ts).                                                  *)
(*                                                                         *)
(* The alarm serves two kinds of work: the records that maintenance scans  *)
(* (leases, workspaces, pools: a Job), whose wake is stored under          *)
(* legacyAlarmKey, and the durable provisioning operations (an Op), whose  *)
(* wakes are the due index.  Every commit stores their minimum.            *)
(*                                                                         *)
(* A name in both Jobs and Ops is a lease and its operation: the operation *)
(* owns the lease until it publishes it.                                   *)
(*                                                                         *)
(* A time is a small number and Never, which is later than all of them,    *)
(* stands for null, undefined and a missing entry.                         *)
(***************************************************************************)
EXTENDS Integers, FiniteSets

CONSTANTS
    Jobs,          \* records with a deadline that maintenance looks after
    NoJob,         \* the streak of no job
    Ops,           \* durable provisioning operations
    Runtimes,      \* where it may run: "cloudflare", "node"
    MaxTime,       \* the clock stops here
    Spans,         \* how far off a request may set a deadline
    OpSpans,       \* how far off an operation may set its wake
    ClaimStale,    \* how long a cleanup claim is good for
    Retry,         \* after a failed maintenance run the next is this far off
    MaxBackoff,    \* cap of the backoff of overdue maintenance
    BatchSize      \* cleanups one maintenance run starts at most

ASSUME BoundsAssumption ==
    /\ MaxTime \in Nat
    /\ Spans \subseteq Nat
    /\ OpSpans \subseteq Nat
    /\ IsFiniteSet(Spans \cup OpSpans)
    /\ ClaimStale \in Nat \ {0}
    /\ Retry \in Nat \ {0}
    /\ MaxBackoff \in Nat \ {0}
    /\ BatchSize \in Nat \ {0}

ASSUME SetsAssumption ==
    /\ IsFiniteSet(Jobs)
    /\ IsFiniteSet(Ops)
    /\ NoJob \notin Jobs
    /\ Runtimes \subseteq {"cloudflare", "node"}

VARIABLES
    runtime,    \* where it runs; never changes
    now,        \* Date.now()
    deadline,   \* when each job needs maintenance, as its record says
    due,        \* the due index of provisioning
    legacy,     \* legacyAlarmKey; Unset in the store of an older coordinator
    alarm,      \* the stored alarm time
    queued,     \* when the runtime's queue will deliver an alarm
    hint,       \* Node: a committed alarm time the queue was not told yet
    section,    \* the holder of the lifecycle mutex, between write and arming
    handler,    \* where each activation of provisioningAlarm is
    run,        \* where the maintenance run is
    todo,       \* jobs the run discovered and has not decided on
    inflight,   \* jobs the run claimed and whose provider call is pending
    followup,   \* maintenanceFollowup: run once more
    armed,      \* alarmArmRevision moved since the run under way started
    streak,     \* maintenanceAlarmStreak
    failed,     \* the last run failed
    degraded,   \* a wake went down with a process or with the job queue
    hidden      \* jobs whose deadline was left to an operation's wake

vars == <<runtime, now, deadline, due, legacy, alarm, queued, hint, section,
          handler, run, todo, inflight, followup, armed, streak, failed, degraded,
          hidden>>
------------------------------------------------------------------------------
(* Times *)

Larger(a, b) == IF a >= b THEN a ELSE b
Smaller(a, b) == IF a <= b THEN a ELSE b

\* The last time anything can be scheduled for.
LongestSpan ==
    LET spans == Spans \cup OpSpans \cup {ClaimStale, Retry, MaxBackoff}
    IN  CHOOSE s \in spans : \A r \in spans : r <= s
Horizon == MaxTime + LongestSpan
Never == Horizon + 1
Unset == -1

Earliest(S) ==
    IF S = {} THEN Never ELSE CHOOSE t \in S : \A u \in S : t <= u

Handlers == {"alarm", "cron"}
NoStreak == [job |-> NoJob, delay |-> 0]
FreeMutex == [jobs |-> {}, arms |-> "nothing", at |-> Never]
Free == section = FreeMutex
------------------------------------------------------------------------------
(* commitAndWake *)

\* The first commit of an upgraded coordinator takes over the alarm it finds;
\* on Cloudflare only when there is one.
AdoptedLegacy ==
    CASE legacy # Unset -> legacy
      [] legacy = Unset /\ alarm = Never /\ runtime = "cloudflare" -> Unset
      [] OTHER -> alarm

\* Mutant: an existing legacy wake hides the due index.
LegacyWakeFirst(l, d) ==
    IF l \in {Unset, Never} THEN Earliest({d[o] : o \in Ops}) ELSE l

\* Mutant: null is compared as if it were a time.
MergedWithNull(l, d) == Smaller(l, Earliest({d[o] : o \in Ops}))

\* mergedCoordinatorWake
MergedWake(l, d) ==
    Smaller(IF l = Unset THEN Never ELSE l, Earliest({d[o] : o \in Ops}))

\* A transaction whose callback leaves l under legacyAlarmKey and d as the due
\* index.  Cloudflare sets the native alarm in the transaction, unless the same
\* future alarm is set already; Node tells its job queue afterwards.
CommitAndWake(l, d) ==
    LET wake == MergedWake(l, d)
    IN  /\ legacy' = l
        /\ due' = d
        /\ alarm' = wake
        /\ IF runtime = "node"
             THEN /\ queued' = queued
                  /\ hint' = TRUE
             ELSE /\ queued' = IF wake = Never \/ wake # alarm \/ wake <= now
                                 THEN wake ELSE queued
                  /\ hint' = hint

\* drainWakeHints and sendWakeHint: replace the queued job by one for the
\* alarm time last committed.
SendWakeHint ==
    /\ hint
    /\ hint' = FALSE
    /\ queued' = alarm
    /\ UNCHANGED <<runtime, now, deadline, due, legacy, alarm, section,
                   handler, run, todo, inflight, followup, armed, streak,
                   failed, degraded, hidden>>

\* The queue fails, before or after the old job was deleted; the error is only
\* logged.
WakeHintFails ==
    /\ hint
    /\ hint' = FALSE
    /\ queued' \in {queued, Never}
    /\ degraded' = TRUE
    /\ UNCHANGED <<runtime, now, deadline, due, legacy, alarm, section,
                   handler, run, todo, inflight, followup, armed, streak,
                   failed, hidden>>
------------------------------------------------------------------------------
(* Arming the alarm, under the lifecycle mutex *)

\* armAlarmNoLaterThan.  getAlarm is the merged alarm, not the legacy wake: an
\* earlier alarm that is an operation's wake leaves the deadline unrecorded.
MustArm(at) == at # Never /\ (alarm = Never \/ alarm <= now \/ at < alarm)

\* It stores the earlier of the two, so an alarm that is due is not postponed.
ArmAlarmNoLaterThan(at) ==
    IF MustArm(at)
      THEN CommitAndWake(Smaller(alarm, at), due)
      ELSE UNCHANGED <<legacy, due, alarm, queued, hint>>

\* The legacy wake is not there, or too late, for a deadline at this time.
LeftUnset(at) == AdoptedLegacy = Unset \/ AdoptedLegacy > at

\* provisioningOwnsLease
Owned(j) == j \in Ops /\ due[j] # Never

Waiting == {j \in Jobs : deadline[j] # Never}
Overdue == {j \in Waiting : deadline[j] <= now}
EarliestDeadline(S) == Earliest({deadline[j] : j \in S})

\* scheduleAlarm on the path of a request: the earliest deadline of all.
ScheduleAlarm == CommitAndWake(EarliestDeadline(Waiting), due)

\* A request under the mutex gives a job a new deadline, or none (heartbeat,
\* release, workspace and pool requests).  Arming follows, in a second commit: for
\* the deadline, at once for a released lease that has none, or with a full scan.
Request(j, at, arms) ==
    /\ Free
    /\ j \notin inflight
    /\ ~Owned(j)
    /\ deadline' = [deadline EXCEPT ![j] = at]
    /\ section' = [jobs |-> {j}, arms |-> arms,
                   at |-> CASE arms = "scan" -> Never
                            [] arms = "deadline" /\ at = Never -> now
                            [] OTHER -> at]
    /\ UNCHANGED <<runtime, now, due, legacy, alarm, queued, hint, handler,
                   run, todo, inflight, followup, armed, streak, failed,
                   degraded, hidden>>

\* The holder of the mutex arms the alarm for what it wrote and lets go.
FinishSection ==
    /\ ~Free
    /\ IF section.arms = "deadline"
         THEN /\ ArmAlarmNoLaterThan(section.at)
              /\ armed' = (armed \/ (run # "idle" /\ MustArm(section.at)))
              /\ hidden' = IF ~MustArm(section.at) /\ LeftUnset(section.at)
                             THEN hidden \cup section.jobs
                             ELSE hidden \ section.jobs
         ELSE /\ ScheduleAlarm
              /\ hidden' = {}
              /\ armed' = (run # "idle")
    /\ section' = FreeMutex
    /\ UNCHANGED <<runtime, now, deadline, handler, run, todo, inflight,
                   followup, streak, failed, degraded>>

\* An admission writes the record and, through retainLeaseWake, its wake in one
\* transaction.
AdmitWithWake(j, at) ==
    /\ Free
    /\ deadline[j] = Never
    /\ ~Owned(j)
    /\ deadline' = [deadline EXCEPT ![j] = at]
    /\ CommitAndWake(IF AdoptedLegacy = Unset THEN at ELSE Smaller(AdoptedLegacy, at),
                     due)
    /\ hidden' = hidden \ {j}
    /\ UNCHANGED <<runtime, now, section, handler, run, todo, inflight,
                   followup, armed, streak, failed, degraded>>

\* Any commit of durable provisioning: an admission, a claim, a result, a
\* cancellation; from a request, from the tick or from Node's scanner.  It does
\* not take the mutex.
ProvisioningCommit(o, at) ==
    /\ due[o] # at
    /\ o \in Jobs => deadline[o] = Never
    /\ CommitAndWake(AdoptedLegacy, [due EXCEPT ![o] = at])
    /\ UNCHANGED <<runtime, now, deadline, section, handler, run, todo,
                   inflight, followup, armed, streak, failed, degraded,
                   hidden>>

\* The commit that publishes the lease of an operation: the lease is active and
\* has a deadline, the operation leaves the due index, and the legacy wake stays
\* what it was.
Publish(o, at) ==
    /\ o \in Jobs
    /\ due[o] # Never
    /\ deadline' = [deadline EXCEPT ![o] = at]
    /\ CommitAndWake(AdoptedLegacy, [due EXCEPT ![o] = Never])
    /\ hidden' = IF LeftUnset(at) THEN hidden \cup {o} ELSE hidden
    /\ UNCHANGED <<runtime, now, section, handler, run, todo, inflight,
                   followup, armed, streak, failed, degraded>>
------------------------------------------------------------------------------
(* The alarm handler *)

\* Node runs one activation at a time; Cloudflare's cron is a request of its own.
MayActivate(h) ==
    IF runtime = "node" THEN \A k \in Handlers : handler[k] = "idle"
                        ELSE handler[h] = "idle"

\* The queue delivers the alarm.  The stored time may outlive the delivery.
Deliver ==
    /\ queued <= now
    /\ MayActivate("alarm")
    /\ queued' = Never
    /\ alarm' \in IF runtime = "node" THEN {alarm} ELSE {alarm, Never}
    /\ handler' = [handler EXCEPT !["alarm"] = "clear"]
    /\ UNCHANGED <<runtime, now, deadline, due, legacy, hint, section, run,
                   todo, inflight, followup, armed, streak, failed, degraded,
                   hidden>>

\* The quarter-hourly trigger, and the job Node sends itself when it starts.
Cron ==
    /\ MayActivate("cron")
    /\ handler' = [handler EXCEPT !["cron"] = "clear"]
    /\ UNCHANGED <<runtime, now, deadline, due, legacy, alarm, queued, hint,
                   section, run, todo, inflight, followup, armed, streak,
                   failed, degraded, hidden>>

\* provisioningAlarm, first commit: a legacy wake that is due is consumed.
ClearDueWake(h) ==
    /\ handler[h] = "clear"
    /\ CommitAndWake(IF AdoptedLegacy # Unset /\ AdoptedLegacy <= now
                       THEN Never ELSE AdoptedLegacy, due)
    /\ handler' = [handler EXCEPT ![h] = "tick"]
    /\ UNCHANGED <<runtime, now, deadline, section, run, todo, inflight,
                   followup, armed, streak, failed, degraded, hidden>>

\* The first commit fails: the tick is skipped.
ClearFails(h) ==
    /\ handler[h] = "clear"
    /\ handler' = [handler EXCEPT ![h] = "tick"]
    /\ UNCHANGED <<runtime, now, deadline, due, legacy, alarm, queued, hint,
                   section, run, todo, inflight, followup, armed, streak,
                   failed, degraded, hidden>>

\* Mutant: no alarm asks for another run.
OnlyCronAsks(h) == h = "cron"

\* startMaintenance while a run is under way: only an activation other than
\* Cloudflare's own alarm asks for another run.
AsksForAnother(h) == runtime = "node" \/ h = "cron"

\* A maintenance run starts: the arm revision is read, candidates discovered.
StartRun ==
    /\ run' = "work"
    /\ todo' = Waiting
    /\ inflight' = {}
    /\ armed' = FALSE

\* provisioningAlarm, after the tick: the wake is committed again and
\* maintenance started.
FinishHandler(h) ==
    /\ handler[h] = "tick"
    /\ CommitAndWake(AdoptedLegacy, due)
    /\ handler' = [handler EXCEPT ![h] = "idle"]
    /\ IF run = "idle"
         THEN /\ StartRun
              /\ UNCHANGED followup
         ELSE /\ followup' = (followup \/ AsksForAnother(h))
              /\ UNCHANGED <<run, todo, inflight, armed>>
    /\ UNCHANGED <<runtime, now, deadline, section, streak, failed, degraded,
                   hidden>>

\* The last commit of the handler fails: the runtime delivers the alarm again; a
\* cron trigger is lost.
HandlerFails(h) ==
    /\ handler[h] = "tick"
    /\ handler' = [handler EXCEPT ![h] = IF h = "alarm" THEN "clear" ELSE "idle"]
    /\ degraded' = (degraded \/ h = "cron")
    /\ UNCHANGED <<runtime, now, deadline, due, legacy, alarm, queued, hint,
                   section, run, todo, inflight, followup, armed, streak,
                   failed, hidden>>
------------------------------------------------------------------------------
(* The maintenance run *)

\* expireLeases, under the mutex: an overdue job with nothing to delete is settled
\* in place (a registered lease, one without a machine), of the others at most a
\* batch is claimed.  Arming for the claims' own deadline follows, before any
\* provider call.
ClaimOverdue ==
    /\ run = "work"
    /\ Free
    /\ todo # {}
    /\ todo' = {}
    /\ \E settled \in SUBSET (todo \cap Overdue) :
       \E batch \in SUBSET ((todo \cap Overdue) \ settled) :
         /\ Cardinality(batch)
              = Smaller(BatchSize, Cardinality((todo \cap Overdue) \ settled))
         /\ inflight' = batch
         /\ deadline' = [j \in Jobs |-> CASE j \in settled -> Never
                                         [] j \in batch -> now + ClaimStale
                                         [] OTHER -> deadline[j]]
         /\ section' = IF batch = {} THEN section
                       ELSE [jobs |-> batch, arms |-> "deadline",
                             at |-> now + ClaimStale]
    /\ UNCHANGED <<runtime, now, due, legacy, alarm, queued, hint, handler,
                   run, followup, armed, streak, failed, degraded, hidden>>

\* The provider call of a claimed job returns: the job is done.
CleanupSucceeds(j) ==
    /\ run = "work"
    /\ Free
    /\ j \in inflight
    /\ inflight' = inflight \ {j}
    /\ deadline' = [deadline EXCEPT ![j] = Never]
    /\ UNCHANGED <<runtime, now, due, legacy, alarm, queued, hint, section,
                   handler, run, todo, followup, armed, streak, failed,
                   degraded, hidden>>

\* It fails: a retry is recorded and, in the same section, armed.
CleanupFails(j) ==
    /\ run = "work"
    /\ Free
    /\ j \in inflight
    /\ inflight' = inflight \ {j}
    /\ deadline' = [deadline EXCEPT ![j] = now + Retry]
    /\ section' = [jobs |-> {j}, arms |-> "deadline", at |-> now + Retry]
    /\ UNCHANGED <<runtime, now, due, legacy, alarm, queued, hint, handler,
                   run, todo, followup, armed, streak, failed, degraded,
                   hidden>>

\* What scheduleAlarm's loop may pick as the earliest overdue job.
EarliestOverdue == {j \in Overdue : deadline[j] = EarliestDeadline(Overdue)}

\* The backoff of a job that was the earliest overdue one already last time.
NextDelay(j) ==
    CASE streak.job # j                     -> 0
      [] streak.job = j /\ streak.delay = 0 -> 1
      [] OTHER                              -> Smaller(MaxBackoff, 2 * streak.delay)

\* scheduleAlarm at the end of a run: the wake is the earliest deadline or, for
\* overdue work that makes no progress, a backoff that no other job's deadline
\* waits for.  An arm admitted meanwhile bypasses the backoff.
FinalAlarm ==
    \/ /\ Overdue = {}
       /\ streak' = NoStreak
       /\ CommitAndWake(EarliestDeadline(Waiting), due)
    \/ /\ Overdue # {} /\ armed
       /\ streak' = streak
       /\ CommitAndWake(EarliestDeadline(Waiting), due)
    \/ \E j \in EarliestOverdue :
         /\ ~armed
         /\ streak' = [job |-> j, delay |-> NextDelay(j)]
         /\ CommitAndWake(IF NextDelay(j) = 0
                            THEN deadline[j]
                            ELSE Smaller(now + NextDelay(j),
                                         EarliestDeadline(Waiting \ Overdue)),
                          due)

\* startMaintenance forgets the run and starts the follow-up, if one was asked
\* for.  On Node the last commit waits for the wake hint with the run still
\* registered; on Cloudflare no event comes in between.
EndRun ==
    IF runtime = "node"
      THEN /\ run' = "ending"
           /\ UNCHANGED <<todo, inflight, followup, armed>>
      ELSE /\ run' = IF followup THEN "work" ELSE "idle"
           /\ todo' = IF followup THEN Waiting ELSE {}
           /\ inflight' = {}
           /\ armed' = FALSE
           /\ followup' = FALSE

\* The last step of a run.
FinalSchedule ==
    /\ run = "work"
    /\ Free
    /\ todo = {}
    /\ inflight = {}
    /\ FinalAlarm
    /\ failed' = FALSE
    /\ degraded' = FALSE
    /\ EndRun
    /\ hidden' = {}
    /\ UNCHANGED <<runtime, now, deadline, section, handler>>

\* A phase of the run throws; claims whose result was not stored stay claims.
\* startMaintenance's catch takes the mutex and arms a retry.
RunFails ==
    /\ run = "work"
    /\ Free
    /\ failed' = TRUE
    /\ ArmAlarmNoLaterThan(now + Retry)
    /\ EndRun
    /\ hidden' = IF ~MustArm(now + Retry) /\ LeftUnset(now + Retry)
                   THEN Jobs ELSE hidden
    /\ UNCHANGED <<runtime, now, deadline, section, handler, streak, degraded>>

\* Node: the wake hint was sent or timed out.
FinishRun ==
    /\ run = "ending"
    /\ run' = IF followup THEN "work" ELSE "idle"
    /\ todo' = IF followup THEN Waiting ELSE {}
    /\ inflight' = {}
    /\ armed' = FALSE
    /\ followup' = FALSE
    /\ UNCHANGED <<runtime, now, deadline, due, legacy, alarm, queued, hint,
                   section, handler, streak, failed, degraded, hidden>>
------------------------------------------------------------------------------
(* Time and crashes *)

Clock ==
    /\ now < MaxTime
    /\ now' = now + 1
    /\ UNCHANGED <<runtime, deadline, due, legacy, alarm, queued, hint,
                   section, handler, run, todo, inflight, followup, armed,
                   streak, failed, degraded, hidden>>

\* The process dies and comes back, or the Durable Object is evicted.  Its
\* constructor commits the merged wake; Node leaves the queue as it finds it.
Restart ==
    /\ IF runtime = "node"
         THEN /\ hint' = FALSE
              /\ UNCHANGED <<legacy, due, alarm, queued>>
         ELSE CommitAndWake(AdoptedLegacy, due)
    /\ section' = FreeMutex
    /\ handler' = [h \in Handlers |-> "idle"]
    /\ run' = "idle"
    /\ todo' = {}
    /\ inflight' = {}
    /\ followup' = FALSE
    /\ armed' = FALSE
    /\ streak' = NoStreak
    /\ failed' = FALSE
    /\ degraded' = TRUE
    /\ UNCHANGED <<runtime, now, deadline, hidden>>
------------------------------------------------------------------------------
\* The store of an older coordinator: an alarm for the earliest of its records.
Init ==
    /\ runtime \in Runtimes
    /\ now = 0
    /\ deadline \in [Jobs -> {1, Never}]
    /\ due = [o \in Ops |-> Never]
    /\ legacy = Unset
    /\ alarm = EarliestDeadline(Waiting)
    /\ queued = alarm
    /\ hint = FALSE
    /\ section = FreeMutex
    /\ handler = [h \in Handlers |-> "idle"]
    /\ run = "idle"
    /\ todo = {}
    /\ inflight = {}
    /\ followup = FALSE
    /\ armed = FALSE
    /\ streak = NoStreak
    /\ failed = FALSE
    /\ degraded = FALSE
    /\ hidden = {}

Deadlines == {now + s : s \in Spans}
Wakes == {now + s : s \in OpSpans}

Next ==
    \/ \E j \in Jobs, at \in Deadlines \cup {Never}, arms \in {"deadline", "scan"} :
         Request(j, at, arms)
    \/ FinishSection
    \/ \E j \in Jobs : \E at \in Deadlines : AdmitWithWake(j, at)
    \/ \E o \in Ops : \E at \in Wakes \cup {Never} : ProvisioningCommit(o, at)
    \/ \E o \in Ops : \E at \in Deadlines : Publish(o, at)
    \/ SendWakeHint \/ WakeHintFails
    \/ Deliver \/ Cron
    \/ \E h \in Handlers : ClearDueWake(h) \/ ClearFails(h)
                           \/ FinishHandler(h) \/ HandlerFails(h)
    \/ ClaimOverdue
    \/ \E j \in Jobs : CleanupSucceeds(j) \/ CleanupFails(j)
    \/ FinalSchedule \/ RunFails \/ FinishRun
    \/ Clock \/ Restart

Spec == Init /\ [][Next]_vars
------------------------------------------------------------------------------
(* Properties *)

\* Every variable has its type: times, and the phases of handlers and runs.
TypeOK ==
    /\ runtime \in Runtimes
    /\ now \in 0..MaxTime
    /\ deadline \in [Jobs -> 0..Never]
    /\ due \in [Ops -> 0..Never]
    /\ legacy \in -1..Never
    /\ alarm \in 0..Never
    /\ queued \in 0..Never
    /\ hint \in BOOLEAN
    /\ section \in [jobs : SUBSET Jobs, arms : {"nothing", "deadline", "scan"},
                    at : 0..Never]
    /\ handler \in [Handlers -> {"idle", "clear", "tick"}]
    /\ run \in {"idle", "work", "ending"}
    /\ todo \subseteq Jobs
    /\ inflight \subseteq Jobs
    /\ followup \in BOOLEAN
    /\ armed \in BOOLEAN
    /\ streak \in [job : Jobs \cup {NoJob}, delay : 0..MaxBackoff]
    /\ failed \in BOOLEAN
    /\ degraded \in BOOLEAN
    /\ hidden \subseteq Jobs

\* On Cloudflare nothing that happens to the legacy wake (arming, clearing, a
\* full reschedule, an upgrade, a crash at any point) loses or postpones the wake
\* of an operation in the due index: an alarm is queued for it, or one is being
\* handled.  (Node's scanner reads the index itself.)
ProvisioningCovered ==
    runtime = "cloudflare" =>
      \A o \in Ops :
        due[o] # Never =>
          \/ queued <= Larger(due[o], now)
          \/ handler["alarm"] # "idle"

\* Somebody in this process is still going to arm the alarm for job j: a handler
\* that will start maintenance, the run before its last step, the mutex holder
\* that just wrote the record, or the pending hint.
WillArm(j) ==
    \/ \E h \in Handlers : handler[h] # "idle"
    \/ run = "work"
    \/ followup
    \/ j \in section.jobs
    \/ hint

\* How late the alarm for job j may be: not at all before the deadline, within
\* the backoff when overdue, within the retry delay when the last run failed.
LatestWake(j) ==
    CASE failed                       -> Larger(deadline[j], now + Retry)
      [] ~failed /\ deadline[j] > now -> deadline[j]
      [] OTHER                        -> now + MaxBackoff

\* An alarm is queued in time for job j, or somebody is about to arm it.
Covered(j) == WillArm(j) \/ queued <= LatestWake(j)

\* The wake of every record survives the races of requests, alarms, the cron, the
\* maintenance run (whose handlers consume it) and durable provisioning, on either
\* runtime.  A crash or a failing queue may lose it, and so may an operation whose
\* wake stood in for it, until the next completed run.
JobsCovered == \A j \in Waiting \ hidden : degraded \/ Covered(j)

\* What the documentation says: short of a crash or a failing queue, the alarm is
\* set for the soonest deadline, and an earlier wake-up is all that may come first.
WakeNeverLost == \A j \in Waiting : degraded \/ Covered(j)
==============================================================================
