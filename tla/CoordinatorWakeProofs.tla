------------------------ MODULE CoordinatorWakeProofs ------------------------
(***************************************************************************)
(* Proofs about CoordinatorWake, for any finite sets of jobs, operations   *)
(* and spans and any bounds.                                               *)
(***************************************************************************)
EXTENDS CoordinatorWake, FiniteSetTheorems, WellFoundedInduction, TLAPS

-----------------------------------------------------------------------------
(***************************************************************************)
(* The inductive invariant.                                                *)
(***************************************************************************)
\* The queue and the stored alarm.  Cloudflare keeps them equal except between
\* a delivery and the next commit; on Node they may differ as long as a hint
\* or the handler of a delivery is under way, or after a fault.
QueueOK ==
    /\ runtime = "cloudflare" =>
         /\ ~hint
         /\ queued = alarm \/ (queued = Never /\ alarm <= now)
         /\ handler["alarm"] = "idle" => queued = alarm
    /\ runtime = "node" =>
         degraded \/ hint \/ handler["alarm"] # "idle" \/ queued = alarm

\* The alarm is no later than what it is the minimum of, except while
\* Cloudflare handles the one it delivered.
AlarmOK ==
    \/ runtime = "cloudflare" /\ handler["alarm"] # "idle"
    \/ /\ legacy # Unset => alarm <= legacy
       /\ runtime = "cloudflare" => \A o \in Ops : alarm <= due[o]

\* An operation owns its lease until it publishes it; claimed jobs have a
\* deadline.
OwnershipOK ==
    /\ \A j \in Jobs \cap Ops : deadline[j] = Never \/ due[j] = Never
    /\ \A j \in inflight : deadline[j] # Never
    /\ run = "ending" => runtime = "node"

\* The holder of the mutex arms for the deadlines it wrote.
SectionOK ==
    section.arms = "deadline" =>
        /\ section.at # Never
        /\ \A j \in section.jobs :
             section.at <= IF deadline[j] = Never THEN now ELSE deadline[j]

\* Somebody other than the pending hint is still going to arm for job j.
WillCommit(j) ==
    \/ \E h \in Handlers : handler[h] # "idle"
    \/ run = "work"
    \/ followup
    \/ j \in section.jobs

\* The wake of a record is the legacy wake, not the alarm: the alarm may be
\* that of an operation, and moves with it.
LegacyCovers(j) ==
    \/ degraded
    \/ WillCommit(j)
    \/ AdoptedLegacy # Unset /\ AdoptedLegacy <= LatestWake(j)

LegacyOK == \A j \in Waiting \ hidden : LegacyCovers(j)

IInv == TypeOK /\ QueueOK /\ AlarmOK /\ OwnershipOK /\ SectionOK /\ LegacyOK

-----------------------------------------------------------------------------
(***************************************************************************)
(* Times.                                                                  *)
(***************************************************************************)
\* A set of natural numbers that is not empty has a least element.
LEMMA LeastNatural ==
    ASSUME NEW S \in SUBSET Nat, S # {}
    PROVE  \E t \in S : \A u \in S : t <= u
<1>1. IsWellFoundedOn(OpToRel(<, Nat), Nat)
  BY NatLessThanWellFounded
<1>2. PICK t \in S : \A u \in S : ~ (<<u, t>> \in OpToRel(<, Nat))
  BY <1>1, WFMin
<1>3. \A u \in S : ~ (u < t)
  BY <1>2 DEF OpToRel
<1>4. QED
  BY <1>3

\* A finite one has a greatest element: a smallest counterexample would have
\* one once any of its elements is taken out.
LEMMA GreatestNatural ==
    ASSUME NEW S \in SUBSET Nat, IsFiniteSet(S), S # {}
    PROVE  \E s \in S : \A r \in S : r <= s
<1> DEFINE HasMax(T) == \E s \in T : \A r \in T : r <= s
           Sizes == {n \in Nat : \E T \in SUBSET S :
                                   T # {} /\ Cardinality(T) = n /\ ~HasMax(T)}
<1>1. SUFFICES ASSUME ~HasMax(S) PROVE FALSE
  OBVIOUS
<1>2. Sizes # {}
  <2>1. Cardinality(S) \in Nat
    BY FS_CardinalityType
  <2>2. QED
    BY <1>1, <2>1
<1>3. PICK n \in Sizes : \A k \in Sizes : n <= k
  BY <1>2, LeastNatural
<1>4. PICK T \in SUBSET S : T # {} /\ Cardinality(T) = n /\ ~HasMax(T)
  OBVIOUS
<1>5. PICK x \in T : TRUE
  BY <1>4
<1>6. IsFiniteSet(T)
  BY FS_Subset
<1>7. Cardinality(T \ {x}) = n - 1 /\ IsFiniteSet(T \ {x})
  BY <1>4, <1>6, FS_RemoveElement
<1>8. n - 1 \in Nat
  BY <1>7, FS_CardinalityType
<1>9. T \ {x} # {}
  BY <1>4
<1>10. HasMax(T \ {x})
  BY <1>3, <1>7, <1>8, <1>9
<1>11. HasMax(T)
  BY <1>10
<1>12. QED
  BY <1>4, <1>11

\* Every span fits under the horizon.
LEMMA LongestSpanBounds ==
    /\ LongestSpan \in Nat \ {0}
    /\ \A s \in Spans \cup OpSpans \cup {ClaimStale, Retry, MaxBackoff} : s <= LongestSpan
<1> DEFINE spans == Spans \cup OpSpans \cup {ClaimStale, Retry, MaxBackoff}
<1>1. spans \in SUBSET Nat /\ spans # {} /\ Retry \in spans
  BY BoundsAssumption
<1>2. IsFiniteSet(spans)
  <2>1. IsFiniteSet(Spans \cup OpSpans \cup {ClaimStale})
    BY BoundsAssumption, FS_AddElement
  <2>2. IsFiniteSet(Spans \cup OpSpans \cup {ClaimStale} \cup {Retry})
    BY <2>1, FS_AddElement
  <2>3. IsFiniteSet(Spans \cup OpSpans \cup {ClaimStale} \cup {Retry} \cup {MaxBackoff})
    BY <2>2, FS_AddElement
  <2>4. spans = Spans \cup OpSpans \cup {ClaimStale} \cup {Retry} \cup {MaxBackoff}
    OBVIOUS
  <2>5. QED
    BY <2>3, <2>4
<1>3. \E s \in spans : \A r \in spans : r <= s
  BY <1>1, <1>2, GreatestNatural
<1>4. LongestSpan \in spans /\ \A r \in spans : r <= LongestSpan
  BY <1>3 DEF LongestSpan
<1>5. QED
  BY <1>1, <1>4, BoundsAssumption

\* Never is a number later than any time that can be scheduled.
LEMMA NeverIsLast ==
    ASSUME NEW t \in 0..MaxTime
    PROVE  /\ Never \in Nat /\ Unset = -1 /\ MaxTime < Never /\ 1 < Never
           /\ \A s \in Spans \cup OpSpans \cup {ClaimStale, Retry, MaxBackoff} :
                t + s \in 0..Never /\ t + s # Never /\ t <= t + s /\ s \in Nat
<1>1. MaxTime \in Nat
  BY BoundsAssumption
<1>2. Never = MaxTime + LongestSpan + 1
  BY DEF Never, Horizon
<1>3. \A s \in Spans \cup OpSpans \cup {ClaimStale, Retry, MaxBackoff} : s \in Nat
  BY BoundsAssumption
<1>4. QED
  BY <1>1, <1>2, <1>3, LongestSpanBounds DEF Unset

\* Earliest is the minimum, Never for no times.
LEMMA EarliestIsLeast ==
    ASSUME NEW S \in SUBSET (0..Never), Never \in Nat
    PROVE  /\ Earliest(S) \in 0..Never
           /\ \A t \in S : Earliest(S) <= t
           /\ S # {} => Earliest(S) \in S
<1>1. CASE S = {}
  BY <1>1 DEF Earliest
<1>2. CASE S # {}
  <2>1. \E t \in S : \A u \in S : t <= u
    BY <1>2, LeastNatural
  <2>2. QED
    BY <1>2, <2>1 DEF Earliest
<1>3. QED
  BY <1>1, <1>2

-----------------------------------------------------------------------------
(***************************************************************************)
(* What commits and arming do to the wakes.                                *)
(***************************************************************************)
\* The wake the next commit takes over is a time, Never, or none.
LEMMA AdoptedLegacyType ==
    ASSUME TypeOK
    PROVE  AdoptedLegacy \in -1..Never
<1>1. Never \in Nat /\ Unset = -1
  BY NeverIsLast DEF TypeOK
<1>2. legacy \in -1..Never /\ alarm \in -1..Never
  BY DEF TypeOK
<1>3. QED
  BY <1>1, <1>2 DEF AdoptedLegacy

\* A commit stores an alarm that is no later than the legacy wake and the due
\* index it leaves; Cloudflare's queue has it at once, Node's is told later.
LEMMA CommitStores ==
    ASSUME TypeOK, QueueOK, NEW l \in -1..Never, NEW d \in [Ops -> 0..Never],
           CommitAndWake(l, d)
    PROVE  /\ legacy' = l /\ due' = d
           /\ alarm' \in 0..Never /\ queued' \in 0..Never /\ hint' \in BOOLEAN
           /\ l # Unset => alarm' <= l
           /\ \A o \in Ops : alarm' <= d[o]
           /\ runtime = "cloudflare" => queued' = alarm' /\ ~hint'
           /\ runtime = "node" => hint'
<1>1. Never \in Nat /\ Unset = -1 /\ MaxTime < Never /\ now \in 0..MaxTime /\ MaxTime \in Nat
  BY NeverIsLast, BoundsAssumption DEF TypeOK
<1> DEFINE first == Earliest({d[o] : o \in Ops})
<1>2. first \in 0..Never /\ \A o \in Ops : first <= d[o]
  <2>1. {d[o] : o \in Ops} \in SUBSET (0..Never)
    OBVIOUS
  <2>2. QED
    BY <1>1, <2>1, EarliestIsLeast
<1> HIDE DEF first
<1>3. alarm' = Smaller(IF l = Unset THEN Never ELSE l, first)
  BY DEF CommitAndWake, MergedWake, first
<1>4. /\ alarm' \in 0..Never
      /\ l # Unset => alarm' <= l
      /\ \A o \in Ops : alarm' <= d[o]
  <2>1. alarm' \in 0..Never /\ alarm' <= first /\ (l # Unset => alarm' <= l)
    BY <1>1, <1>2, <1>3 DEF Smaller
  <2>2. QED
    BY <1>1, <1>2, <2>1
<1>5. /\ legacy' = l /\ due' = d
      /\ runtime = "node" => queued' = queued /\ hint' = TRUE
      /\ runtime # "node" =>
           /\ hint' = hint
           /\ queued' = IF alarm' = Never \/ alarm' # alarm \/ alarm' <= now
                          THEN alarm' ELSE queued
  BY DEF CommitAndWake
<1>6. runtime = "cloudflare" => queued' = alarm' /\ ~hint'
  BY <1>5 DEF QueueOK
<1>7. queued' \in 0..Never /\ hint' \in BOOLEAN
  BY <1>4, <1>5 DEF TypeOK
<1>8. QED
  BY <1>4, <1>5, <1>6, <1>7

\* Arming makes the alarm no later than the deadline and than it was; when it
\* commits, the legacy wake is then the alarm or the deadline.
LEMMA ArmStores ==
    ASSUME TypeOK, QueueOK, NEW at \in 0..Never, at # Never, ArmAlarmNoLaterThan(at)
    PROVE  /\ due' = due
           /\ alarm' \in 0..Never /\ queued' \in 0..Never /\ hint' \in BOOLEAN
           /\ legacy' \in -1..Never
           /\ alarm' <= alarm /\ alarm' <= at
           /\ IF MustArm(at)
                THEN /\ legacy' # Unset /\ legacy' <= at /\ legacy' <= alarm
                     /\ alarm' <= legacy'
                     /\ \A o \in Ops : alarm' <= due[o]
                     /\ runtime = "cloudflare" => queued' = alarm' /\ ~hint'
                     /\ runtime = "node" => hint'
                ELSE UNCHANGED <<legacy, alarm, queued, hint>>
<1>1. Never \in Nat /\ Unset = -1
  BY NeverIsLast DEF TypeOK
<1>2. CASE MustArm(at)
  <2>1. /\ Smaller(alarm, at) \in 0..Never
        /\ Smaller(alarm, at) <= alarm /\ Smaller(alarm, at) <= at
    BY DEF TypeOK, Smaller
  <2>2. Smaller(alarm, at) \in -1..Never /\ Smaller(alarm, at) # Unset
    BY <1>1, <2>1
  <2>3. CommitAndWake(Smaller(alarm, at), due) /\ due \in [Ops -> 0..Never]
    BY <1>2 DEF ArmAlarmNoLaterThan, TypeOK
  <2>4. /\ legacy' = Smaller(alarm, at) /\ due' = due
        /\ alarm' \in 0..Never /\ queued' \in 0..Never /\ hint' \in BOOLEAN
        /\ alarm' <= Smaller(alarm, at)
        /\ \A o \in Ops : alarm' <= due[o]
        /\ runtime = "cloudflare" => queued' = alarm' /\ ~hint'
        /\ runtime = "node" => hint'
    BY <2>2, <2>3, CommitStores
  <2>5. alarm' <= alarm /\ alarm' <= at
    BY <2>1, <2>4 DEF TypeOK
  <2>6. QED
    BY <1>2, <2>1, <2>2, <2>4, <2>5
<1>3. CASE ~MustArm(at)
  <2>1. UNCHANGED <<legacy, due, alarm, queued, hint>>
    BY <1>3 DEF ArmAlarmNoLaterThan
  <2>2. alarm <= at
    BY <1>3 DEF MustArm, TypeOK
  <2>3. QED
    BY <1>1, <1>3, <2>1, <2>2 DEF TypeOK
<1>4. QED
  BY <1>2, <1>3

\* After any step the alarm for a job is in time when it is there at the
\* deadline.
LEMMA LatestWakeBounds ==
    ASSUME TypeOK', NEW j \in Jobs
    PROVE  /\ LatestWake(j)' \in Nat
           /\ deadline'[j] <= LatestWake(j)'
           /\ failed' => now' + Retry <= LatestWake(j)'
           /\ ~failed' /\ deadline'[j] <= now' => LatestWake(j)' = now' + MaxBackoff
<1>1. /\ deadline'[j] \in Nat /\ now' \in Nat /\ Retry \in Nat /\ MaxBackoff \in Nat
      /\ failed' \in BOOLEAN
  BY BoundsAssumption DEF TypeOK
<1>2. QED
  BY <1>1 DEF LatestWake, Larger

\* Outside the handler of a Cloudflare alarm the alarm is no later than the
\* wake the next commit takes over.
LEMMA AlarmBeforeAdopted ==
    ASSUME TypeOK, AlarmOK, handler["alarm"] = "idle", AdoptedLegacy # Unset
    PROVE  alarm <= AdoptedLegacy
<1>1. alarm \in Nat
  BY DEF TypeOK
<1>2. QED
  BY <1>1 DEF AlarmOK, AdoptedLegacy

\* A job stays covered when its deadline does not change and the adopted wake
\* moves no later, whatever the clock does.
LEMMA StaysCovered ==
    ASSUME TypeOK, TypeOK', NEW j \in Jobs, LegacyCovers(j),
           degraded => degraded', WillCommit(j) => WillCommit(j)',
           deadline'[j] = deadline[j], failed' = failed, now <= now',
           AdoptedLegacy # Unset => AdoptedLegacy' # Unset /\ AdoptedLegacy' <= AdoptedLegacy
    PROVE  LegacyCovers(j)'
<1>1. /\ deadline[j] \in Nat /\ now \in Nat /\ now' \in Nat /\ Retry \in Nat
      /\ MaxBackoff \in Nat /\ failed \in BOOLEAN
      /\ Never \in Nat /\ Unset = -1
  BY NeverIsLast DEF TypeOK
<1>2. AdoptedLegacy \in -1..Never /\ (AdoptedLegacy \in -1..Never)'
  <2>1. (TypeOK => AdoptedLegacy \in -1..Never)'
    BY AdoptedLegacyType, PTL
  <2>2. QED
    BY <2>1, AdoptedLegacyType
<1>3. LatestWake(j) \in Nat /\ LatestWake(j)' \in Nat /\ LatestWake(j) <= LatestWake(j)'
  BY <1>1 DEF LatestWake, Larger
<1>4. QED
  BY <1>1, <1>2, <1>3 DEF LegacyCovers

\* So any commit leaves the queue, the alarm and what it is the minimum of in
\* order.
LEMMA CommitRestores ==
    ASSUME TypeOK, QueueOK, NEW l \in -1..Never, NEW d \in [Ops -> 0..Never],
           CommitAndWake(l, d), runtime' = runtime
    PROVE  QueueOK' /\ AlarmOK'
<1>1. /\ legacy' = l /\ due' = d
      /\ l # Unset => alarm' <= l
      /\ \A o \in Ops : alarm' <= d[o]
      /\ runtime = "cloudflare" => queued' = alarm' /\ ~hint'
      /\ runtime = "node" => hint'
  BY CommitStores
<1>2. QueueOK'
  BY <1>1 DEF QueueOK
<1>3. AlarmOK'
  BY <1>1 DEF AlarmOK
<1>4. QED
  BY <1>2, <1>3

\* So does arming, whether it commits or not.
LEMMA ArmRestores ==
    ASSUME TypeOK, QueueOK, AlarmOK, NEW at \in 0..Never, at # Never,
           ArmAlarmNoLaterThan(at), UNCHANGED <<runtime, now, handler, degraded>>
    PROVE  QueueOK' /\ AlarmOK'
<1>1. CASE MustArm(at)
  <2>1. Smaller(alarm, at) \in -1..Never
    BY DEF TypeOK, Smaller
  <2>2. QED
    BY <1>1, <2>1, CommitRestores DEF ArmAlarmNoLaterThan, TypeOK
<1>2. CASE ~MustArm(at)
  BY <1>2 DEF ArmAlarmNoLaterThan, QueueOK, AlarmOK
<1>3. QED
  BY <1>1, <1>2

\* Taking over the wake that is there keeps it.
LEMMA AdoptedIsKept ==
    ASSUME TypeOK, NEW d, CommitAndWake(AdoptedLegacy, d), AdoptedLegacy # Unset
    PROVE  AdoptedLegacy' = AdoptedLegacy
  BY DEF CommitAndWake, AdoptedLegacy

\* The earliest deadline of some jobs.
LEMMA EarliestDeadlineIsLeast ==
    ASSUME TypeOK, NEW S \in SUBSET Jobs
    PROVE  /\ EarliestDeadline(S) \in 0..Never
           /\ EarliestDeadline(S) \in -1..Never /\ EarliestDeadline(S) # Unset
           /\ \A j \in S : EarliestDeadline(S) <= deadline[j]
<1>1. Never \in Nat /\ Unset = -1
  BY NeverIsLast DEF TypeOK
<1>2. {deadline[j] : j \in S} \in SUBSET (0..Never)
  BY DEF TypeOK
<1>3. /\ EarliestDeadline(S) \in 0..Never
      /\ \A t \in {deadline[j] : j \in S} : EarliestDeadline(S) <= t
  BY <1>1, <1>2, EarliestIsLeast DEF EarliestDeadline
<1>4. QED
  BY <1>1, <1>3

-----------------------------------------------------------------------------
(***************************************************************************)
(* The steps that commit no wake.                                          *)
(***************************************************************************)
\* The hint brings Node's queue to the stored alarm.
LEMMA SendWakeHintStep ==
    ASSUME IInv, SendWakeHint
    PROVE  IInv'
<1>1. /\ Never \in Nat /\ Unset = -1 /\ MaxTime < Never /\ MaxTime \in Nat /\ now \in 0..MaxTime
      /\ \A s \in {ClaimStale, Retry, MaxBackoff} :
           now + s \in 0..Never /\ now + s # Never /\ now <= now + s /\ s \in Nat
  BY NeverIsLast, BoundsAssumption DEF IInv, TypeOK
<1>2. TypeOK'
  BY <1>1 DEF IInv, SendWakeHint, TypeOK, Overdue, Waiting, Deadlines
<1>3. QueueOK'
  BY DEF IInv, SendWakeHint, QueueOK
<1>4. AlarmOK'
  BY DEF IInv, SendWakeHint, AlarmOK
<1>5. OwnershipOK'
  BY DEF IInv, SendWakeHint, OwnershipOK
<1>6. SectionOK'
  BY DEF IInv, SendWakeHint, SectionOK
<1>7. LegacyOK'
  BY DEF IInv, SendWakeHint, LegacyOK, LegacyCovers, WillCommit, Waiting,
         AdoptedLegacy, LatestWake
<1>8. QED
  BY <1>2, <1>3, <1>4, <1>5, <1>6, <1>7 DEF IInv

\* A hint that fails is a fault, which the coverage of records is stated short of.
LEMMA WakeHintFailsStep ==
    ASSUME IInv, WakeHintFails
    PROVE  IInv'
<1>1. Never \in Nat /\ queued' \in 0..Never /\ runtime = "node"
  <2>1. Never \in Nat /\ runtime \in {"cloudflare", "node"}
    BY NeverIsLast, SetsAssumption DEF IInv, TypeOK
  <2>2. QED
    BY <2>1 DEF IInv, TypeOK, QueueOK, WakeHintFails
<1>2. TypeOK'
  BY <1>1 DEF IInv, WakeHintFails, TypeOK, Overdue, Waiting, Deadlines
<1>3. QueueOK'
  BY DEF IInv, WakeHintFails, QueueOK
<1>4. AlarmOK'
  BY DEF IInv, WakeHintFails, AlarmOK
<1>5. OwnershipOK'
  BY DEF IInv, WakeHintFails, OwnershipOK
<1>6. SectionOK'
  BY DEF IInv, WakeHintFails, SectionOK
<1>7. LegacyOK'
  BY DEF IInv, WakeHintFails, LegacyOK, LegacyCovers
<1>8. QED
  BY <1>2, <1>3, <1>4, <1>5, <1>6, <1>7 DEF IInv

\* A request that writes deadlines holds the mutex until it has armed for them.
LEMMA RequestStep ==
    ASSUME IInv, NEW j \in Jobs, NEW at \in Deadlines \cup {Never},
           NEW arms \in {"deadline", "scan"}, Request(j, at, arms)
    PROVE  IInv'
<1>1. Never \in Nat /\ at \in 0..Never /\ (at # Never => now <= at) /\ now < Never /\ now \in Nat
  BY NeverIsLast DEF IInv, TypeOK, Deadlines
<1>2. /\ section'.jobs = {j} /\ section'.arms = arms
      /\ arms = "deadline" => section'.at = IF at = Never THEN now ELSE at
      /\ deadline'[j] = at /\ now' = now
  BY DEF IInv, TypeOK, Request
<1>3. TypeOK'
  BY <1>1 DEF IInv, Request, TypeOK
<1>4. QueueOK'
  BY DEF IInv, Request, QueueOK
<1>5. AlarmOK'
  BY DEF IInv, Request, AlarmOK
<1>6. OwnershipOK'
  BY DEF IInv, Request, OwnershipOK, Owned
<1>7. SectionOK'
  BY <1>1, <1>2 DEF IInv, Request, SectionOK
<1>8. LegacyOK'
  BY DEF IInv, Request, LegacyOK, LegacyCovers, WillCommit, Waiting, AdoptedLegacy,
         LatestWake, Free, FreeMutex
<1>9. QED
  BY <1>3, <1>4, <1>5, <1>6, <1>7, <1>8 DEF IInv

\* A delivery takes the alarm off the queue and starts its handler.
LEMMA DeliverStep ==
    ASSUME IInv, Deliver
    PROVE  IInv'
<1>1. /\ Never \in Nat /\ runtime \in {"cloudflare", "node"} /\ now \in Nat /\ now < Never
      /\ alarm' \in 0..Never /\ (runtime = "node" => alarm' = alarm)
      /\ alarm' \in {alarm, Never} /\ queued' = Never
  BY NeverIsLast, SetsAssumption DEF IInv, TypeOK, Deliver
<1>2. /\ handler' \in [Handlers -> {"idle", "clear", "tick"}]
      /\ "alarm" \in Handlers /\ handler'["alarm"] # "idle"
  BY DEF IInv, TypeOK, Deliver, Handlers
<1>3. TypeOK'
  BY <1>1, <1>2 DEF IInv, Deliver, TypeOK
<1>4. QueueOK'
  BY <1>2 DEF IInv, Deliver, QueueOK
<1>5. AlarmOK'
  BY <1>1, <1>2 DEF IInv, Deliver, AlarmOK
<1>6. OwnershipOK'
  BY DEF IInv, Deliver, OwnershipOK
<1>7. SectionOK'
  BY DEF IInv, Deliver, SectionOK
<1>8. LegacyOK'
  BY <1>2 DEF IInv, Deliver, LegacyOK, LegacyCovers, WillCommit
<1>9. QED
  BY <1>3, <1>4, <1>5, <1>6, <1>7, <1>8 DEF IInv

\* The cron starts a handler, which is going to arm.
LEMMA CronStep ==
    ASSUME IInv, Cron
    PROVE  IInv'
<1>1. /\ Never \in Nat /\ Unset = -1 /\ MaxTime < Never /\ MaxTime \in Nat /\ now \in 0..MaxTime
      /\ \A s \in {ClaimStale, Retry, MaxBackoff} :
           now + s \in 0..Never /\ now + s # Never /\ now <= now + s /\ s \in Nat
  BY NeverIsLast, BoundsAssumption DEF IInv, TypeOK
<1>2. TypeOK'
  BY <1>1 DEF IInv, Cron, TypeOK, Overdue, Waiting, Deadlines
<1>3. QueueOK'
  BY DEF IInv, Cron, QueueOK
<1>4. AlarmOK'
  BY DEF IInv, Cron, AlarmOK
<1>5. OwnershipOK'
  BY DEF IInv, Cron, OwnershipOK
<1>6. SectionOK'
  BY DEF IInv, Cron, SectionOK
<1>7. LegacyOK'
  BY DEF IInv, Cron, LegacyOK, LegacyCovers, WillCommit, TypeOK, Handlers
<1>8. QED
  BY <1>2, <1>3, <1>4, <1>5, <1>6, <1>7 DEF IInv

\* A handler that cannot clear its wake leaves it where it was and goes on.
LEMMA ClearFailsStep ==
    ASSUME IInv, NEW h \in Handlers, ClearFails(h)
    PROVE  IInv'
<1>1. /\ Never \in Nat /\ Unset = -1 /\ MaxTime < Never /\ MaxTime \in Nat /\ now \in 0..MaxTime
      /\ \A s \in {ClaimStale, Retry, MaxBackoff} :
           now + s \in 0..Never /\ now + s # Never /\ now <= now + s /\ s \in Nat
  BY NeverIsLast, BoundsAssumption DEF IInv, TypeOK
<1>2. TypeOK'
  BY DEF IInv, ClearFails, TypeOK
<1>3. QueueOK'
  BY DEF IInv, ClearFails, QueueOK
<1>4. AlarmOK'
  BY DEF IInv, ClearFails, AlarmOK
<1>5. OwnershipOK'
  BY DEF IInv, ClearFails, OwnershipOK
<1>6. SectionOK'
  BY DEF IInv, ClearFails, SectionOK
<1>7. LegacyOK'
  BY DEF IInv, ClearFails, LegacyOK, LegacyCovers, WillCommit
<1>8. QED
  BY <1>2, <1>3, <1>4, <1>5, <1>6, <1>7 DEF IInv

\* A handler whose last commit fails is delivered again; a cron trigger that is
\* lost is a fault, which the coverage of records is stated short of.
LEMMA HandlerFailsStep ==
    ASSUME IInv, NEW h \in Handlers, HandlerFails(h)
    PROVE  IInv'
<1>1. /\ Never \in Nat /\ Unset = -1 /\ MaxTime < Never /\ MaxTime \in Nat /\ now \in 0..MaxTime
      /\ \A s \in {ClaimStale, Retry, MaxBackoff} :
           now + s \in 0..Never /\ now + s # Never /\ now <= now + s /\ s \in Nat
  BY NeverIsLast, BoundsAssumption DEF IInv, TypeOK
<1>2. TypeOK'
  BY DEF IInv, HandlerFails, TypeOK
<1>3. QueueOK'
  BY DEF IInv, HandlerFails, QueueOK, TypeOK
<1>4. AlarmOK'
  BY DEF IInv, HandlerFails, AlarmOK
<1>5. OwnershipOK'
  BY DEF IInv, HandlerFails, OwnershipOK
<1>6. SectionOK'
  BY DEF IInv, HandlerFails, SectionOK
<1>7. LegacyOK'
  BY <1>1
     DEF IInv, HandlerFails, LegacyOK, LegacyCovers, WillCommit, Waiting, Overdue,
         AdoptedLegacy, LatestWake, Larger, TypeOK, Handlers, Free, FreeMutex
<1>8. QED
  BY <1>2, <1>3, <1>4, <1>5, <1>6, <1>7 DEF IInv

\* A maintenance run claims what is overdue and is going to schedule.
LEMMA ClaimOverdueStep ==
    ASSUME IInv, ClaimOverdue
    PROVE  IInv'
<1>1. /\ Never \in Nat /\ Unset = -1 /\ MaxTime < Never /\ MaxTime \in Nat /\ now \in 0..MaxTime
      /\ \A s \in {ClaimStale, Retry, MaxBackoff} :
           now + s \in 0..Never /\ now + s # Never /\ now <= now + s /\ s \in Nat
  BY NeverIsLast, BoundsAssumption DEF IInv, TypeOK
<1>2. TypeOK'
  BY <1>1 DEF IInv, ClaimOverdue, TypeOK
<1>3. QueueOK'
  BY DEF IInv, ClaimOverdue, QueueOK
<1>4. AlarmOK'
  BY DEF IInv, ClaimOverdue, AlarmOK
<1>5. OwnershipOK'
  BY <1>1 DEF IInv, ClaimOverdue, OwnershipOK, Waiting, Overdue
<1>6. SectionOK'
  BY <1>1 DEF IInv, ClaimOverdue, SectionOK, Free, FreeMutex, Overdue, Waiting
<1>7. LegacyOK'
  BY DEF IInv, ClaimOverdue, LegacyOK, LegacyCovers, WillCommit
<1>8. QED
  BY <1>2, <1>3, <1>4, <1>5, <1>6, <1>7 DEF IInv

\* A record that is gone needs no wake.
LEMMA CleanupSucceedsStep ==
    ASSUME IInv, NEW j \in Jobs, CleanupSucceeds(j)
    PROVE  IInv'
<1>1. /\ Never \in Nat /\ Unset = -1 /\ MaxTime < Never /\ MaxTime \in Nat /\ now \in 0..MaxTime
      /\ \A s \in {ClaimStale, Retry, MaxBackoff} :
           now + s \in 0..Never /\ now + s # Never /\ now <= now + s /\ s \in Nat
  BY NeverIsLast, BoundsAssumption DEF IInv, TypeOK
<1>2. TypeOK'
  BY <1>1 DEF IInv, CleanupSucceeds, TypeOK
<1>3. QueueOK'
  BY DEF IInv, CleanupSucceeds, QueueOK
<1>4. AlarmOK'
  BY DEF IInv, CleanupSucceeds, AlarmOK
<1>5. OwnershipOK'
  BY DEF IInv, CleanupSucceeds, OwnershipOK
<1>6. SectionOK'
  BY DEF IInv, CleanupSucceeds, SectionOK, Free, FreeMutex
<1>7. LegacyOK'
  BY DEF IInv, CleanupSucceeds, LegacyOK, LegacyCovers, WillCommit
<1>8. QED
  BY <1>2, <1>3, <1>4, <1>5, <1>6, <1>7 DEF IInv

\* A cleanup that failed holds the mutex until it has armed for its retry.
LEMMA CleanupFailsStep ==
    ASSUME IInv, NEW j \in Jobs, CleanupFails(j)
    PROVE  IInv'
<1>1. /\ Never \in Nat /\ Unset = -1 /\ MaxTime < Never /\ MaxTime \in Nat /\ now \in 0..MaxTime
      /\ \A s \in {ClaimStale, Retry, MaxBackoff} :
           now + s \in 0..Never /\ now + s # Never /\ now <= now + s /\ s \in Nat
  BY NeverIsLast, BoundsAssumption DEF IInv, TypeOK
<1>2. TypeOK'
  BY <1>1 DEF IInv, CleanupFails, TypeOK
<1>3. QueueOK'
  BY DEF IInv, CleanupFails, QueueOK
<1>4. AlarmOK'
  BY DEF IInv, CleanupFails, AlarmOK
<1>5. OwnershipOK'
  BY DEF IInv, CleanupFails, OwnershipOK
<1>6. SectionOK'
  BY <1>1 DEF IInv, CleanupFails, SectionOK, TypeOK
<1>7. LegacyOK'
  BY DEF IInv, CleanupFails, LegacyOK, LegacyCovers, WillCommit
<1>8. QED
  BY <1>2, <1>3, <1>4, <1>5, <1>6, <1>7 DEF IInv

\* A run on Node ends after its schedule was committed.
LEMMA FinishRunStep ==
    ASSUME IInv, FinishRun
    PROVE  IInv'
<1>1. /\ Never \in Nat /\ Unset = -1 /\ MaxTime < Never /\ MaxTime \in Nat /\ now \in 0..MaxTime
      /\ \A s \in {ClaimStale, Retry, MaxBackoff} :
           now + s \in 0..Never /\ now + s # Never /\ now <= now + s /\ s \in Nat
  BY NeverIsLast, BoundsAssumption DEF IInv, TypeOK
<1>2. TypeOK'
  BY <1>1 DEF IInv, FinishRun, TypeOK, Overdue, Waiting, Deadlines
<1>3. QueueOK'
  BY DEF IInv, FinishRun, QueueOK
<1>4. AlarmOK'
  BY DEF IInv, FinishRun, AlarmOK
<1>5. OwnershipOK'
  BY DEF IInv, FinishRun, OwnershipOK
<1>6. SectionOK'
  BY DEF IInv, FinishRun, SectionOK
<1>7. LegacyOK'
  BY DEF IInv, FinishRun, LegacyOK, LegacyCovers, WillCommit, Waiting, AdoptedLegacy,
         LatestWake
<1>8. QED
  BY <1>2, <1>3, <1>4, <1>5, <1>6, <1>7 DEF IInv

\* Time takes a wake only nearer.
LEMMA ClockStep ==
    ASSUME IInv, Clock
    PROVE  IInv'
<1>1. /\ Never \in Nat /\ Unset = -1 /\ MaxTime < Never /\ MaxTime \in Nat /\ now \in 0..MaxTime
      /\ \A s \in {ClaimStale, Retry, MaxBackoff} :
           now + s \in 0..Never /\ now + s # Never /\ now <= now + s /\ s \in Nat
  BY NeverIsLast, BoundsAssumption DEF IInv, TypeOK
<1>2. TypeOK'
  BY <1>1 DEF IInv, Clock, TypeOK
<1>3. QueueOK'
  BY DEF IInv, Clock, QueueOK, TypeOK
<1>4. AlarmOK'
  BY DEF IInv, Clock, AlarmOK
<1>5. OwnershipOK'
  BY DEF IInv, Clock, OwnershipOK
<1>6. SectionOK'
  BY DEF IInv, Clock, SectionOK, TypeOK
<1>7. LegacyOK'
  BY <1>1
     DEF IInv, Clock, LegacyOK, LegacyCovers, WillCommit, Waiting, AdoptedLegacy,
         LatestWake, Larger, TypeOK
<1>8. QED
  BY <1>2, <1>3, <1>4, <1>5, <1>6, <1>7 DEF IInv

-----------------------------------------------------------------------------
(***************************************************************************)
(* The steps that commit a wake.                                           *)
(***************************************************************************)
\* A provisioning commit moves the alarm with the due index and takes the wake of
\* the records over as it is.
LEMMA ProvisioningCommitStep ==
    ASSUME IInv, NEW o \in Ops, NEW at \in Wakes \cup {Never}, ProvisioningCommit(o, at)
    PROVE  IInv'
<1> DEFINE d == [due EXCEPT ![o] = at]
<1>1. at \in 0..Never /\ Never \in Nat
  BY NeverIsLast DEF IInv, TypeOK, Wakes
<1>2. /\ TypeOK /\ QueueOK /\ AdoptedLegacy \in -1..Never /\ d \in [Ops -> 0..Never]
      /\ CommitAndWake(AdoptedLegacy, d)
  BY <1>1, AdoptedLegacyType DEF IInv, TypeOK, ProvisioningCommit
<1>3. /\ legacy' = AdoptedLegacy /\ due' = d
      /\ alarm' \in 0..Never /\ queued' \in 0..Never /\ hint' \in BOOLEAN
  BY <1>2, CommitStores
<1>4. TypeOK'
  BY <1>2, <1>3 DEF TypeOK, ProvisioningCommit
<1>5. QueueOK' /\ AlarmOK'
  BY <1>2, CommitRestores DEF ProvisioningCommit
<1>6. OwnershipOK' /\ SectionOK'
  BY <1>3 DEF IInv, OwnershipOK, SectionOK, ProvisioningCommit
<1>7. LegacyOK'
  <2> SUFFICES ASSUME NEW j \in (Waiting \ hidden)' PROVE LegacyCovers(j)'
    BY DEF LegacyOK
  <2>1. j \in Jobs /\ LegacyCovers(j)
    BY DEF IInv, LegacyOK, Waiting, ProvisioningCommit
  <2>2. WillCommit(j) => WillCommit(j)'
    BY DEF WillCommit, ProvisioningCommit
  <2>3. AdoptedLegacy # Unset => AdoptedLegacy' # Unset /\ AdoptedLegacy' <= AdoptedLegacy
    BY <1>2, AdoptedIsKept
  <2>4. QED
    BY <1>2, <1>4, <2>1, <2>2, <2>3, StaysCovered DEF ProvisioningCommit, TypeOK
<1>8. QED
  BY <1>4, <1>5, <1>6, <1>7 DEF IInv

\* Publication takes the operation out of the due index; a deadline that the
\* legacy wake is not in time for was left to the operation's wake.
LEMMA PublishStep ==
    ASSUME IInv, NEW o \in Ops, NEW at \in Deadlines, Publish(o, at)
    PROVE  IInv'
<1> DEFINE d == [due EXCEPT ![o] = Never]
<1>1. at \in 0..Never /\ at # Never /\ now <= at /\ Never \in Nat /\ now \in Nat /\ Unset = -1
  BY NeverIsLast DEF IInv, TypeOK, Deadlines
<1>2. /\ TypeOK /\ QueueOK /\ AdoptedLegacy \in -1..Never /\ d \in [Ops -> 0..Never]
      /\ CommitAndWake(AdoptedLegacy, d)
  BY <1>1, AdoptedLegacyType DEF IInv, TypeOK, Publish
<1>3. /\ legacy' = AdoptedLegacy /\ due' = d
      /\ alarm' \in 0..Never /\ queued' \in 0..Never /\ hint' \in BOOLEAN
      /\ o \in Jobs /\ deadline' = [deadline EXCEPT ![o] = at]
  BY <1>2, CommitStores DEF Publish
<1>4. TypeOK'
  BY <1>1, <1>2, <1>3 DEF TypeOK, Publish
<1>5. QueueOK' /\ AlarmOK'
  BY <1>2, CommitRestores DEF Publish
<1>6. OwnershipOK'
  BY <1>3 DEF IInv, TypeOK, OwnershipOK, Publish
<1>7. SectionOK'
  BY <1>1 DEF IInv, TypeOK, OwnershipOK, SectionOK, Publish
<1>8. LegacyOK'
  <2> SUFFICES ASSUME NEW j \in (Waiting \ hidden)' PROVE LegacyCovers(j)'
    BY DEF LegacyOK
  <2>1. AdoptedLegacy # Unset => AdoptedLegacy' # Unset /\ AdoptedLegacy' <= AdoptedLegacy
    BY <1>2, AdoptedIsKept
  <2>2. CASE j = o
    <3>1. AdoptedLegacy # Unset /\ AdoptedLegacy <= at
      BY <1>1, <1>2, <2>2 DEF LeftUnset, Publish
    <3>2. AdoptedLegacy' = AdoptedLegacy
      BY <1>2, <3>1, AdoptedIsKept
    <3>3. LatestWake(j)' \in Nat /\ at <= LatestWake(j)'
      BY LatestWakeBounds, <1>2, <1>3, <1>4, <2>2 DEF TypeOK
    <3>4. QED
      BY <1>1, <1>2, <3>1, <3>2, <3>3 DEF LegacyCovers
  <2>3. CASE j # o
    <3>1. j \in Jobs /\ LegacyCovers(j) /\ deadline'[j] = deadline[j]
      BY <2>3 DEF IInv, LegacyOK, Waiting, Publish
    <3>2. WillCommit(j) => WillCommit(j)'
      BY DEF WillCommit, Publish
    <3>3. QED
      BY <1>1, <1>2, <1>4, <2>1, <3>1, <3>2, StaysCovered DEF Publish
  <2>4. QED
    BY <2>2, <2>3
<1>9. QED
  BY <1>4, <1>5, <1>6, <1>7, <1>8 DEF IInv

\* Admission commits a wake that is no later than the deadline it writes.
LEMMA AdmitWithWakeStep ==
    ASSUME IInv, NEW i \in Jobs, NEW at \in Deadlines, AdmitWithWake(i, at)
    PROVE  IInv'
<1> DEFINE l == IF AdoptedLegacy = Unset THEN at ELSE Smaller(AdoptedLegacy, at)
<1>1. at \in 0..Never /\ at # Never /\ now <= at /\ Never \in Nat /\ now \in Nat /\ Unset = -1
  BY NeverIsLast DEF IInv, TypeOK, Deadlines
<1>2. AdoptedLegacy \in -1..Never
  BY AdoptedLegacyType DEF IInv
<1>3. /\ l \in -1..Never /\ l # Unset /\ l <= at
      /\ AdoptedLegacy # Unset => l <= AdoptedLegacy
  BY <1>1, <1>2 DEF Smaller
<1>4. TypeOK /\ QueueOK /\ due \in [Ops -> 0..Never] /\ CommitAndWake(l, due)
  BY DEF IInv, TypeOK, AdmitWithWake
<1> HIDE DEF l
<1>5. /\ legacy' = l /\ due' = due /\ AdoptedLegacy' = l
      /\ alarm' \in 0..Never /\ queued' \in 0..Never /\ hint' \in BOOLEAN
      /\ deadline' = [deadline EXCEPT ![i] = at]
  BY <1>3, <1>4, CommitStores DEF AdmitWithWake, AdoptedLegacy
<1>6. TypeOK'
  BY <1>1, <1>3, <1>4, <1>5 DEF TypeOK, AdmitWithWake
<1>7. QueueOK' /\ AlarmOK'
  BY <1>3, <1>4, CommitRestores DEF AdmitWithWake
<1>8. OwnershipOK' /\ SectionOK'
  BY <1>5 DEF IInv, OwnershipOK, SectionOK, AdmitWithWake, Owned, Free, FreeMutex
<1>9. LegacyOK'
  <2> SUFFICES ASSUME NEW j \in (Waiting \ hidden)' PROVE LegacyCovers(j)'
    BY DEF LegacyOK
  <2>1. CASE j = i
    <3>1. LatestWake(j)' \in Nat /\ at <= LatestWake(j)'
      BY LatestWakeBounds, <1>4, <1>5, <1>6, <2>1 DEF TypeOK
    <3>2. QED
      BY <1>1, <1>3, <1>5, <3>1 DEF LegacyCovers
  <2>2. CASE j # i
    <3>1. j \in Jobs /\ LegacyCovers(j) /\ deadline'[j] = deadline[j]
      BY <2>2 DEF IInv, LegacyOK, Waiting, AdmitWithWake
    <3>2. WillCommit(j) => WillCommit(j)'
      BY DEF WillCommit, AdmitWithWake
    <3>3. QED
      BY <1>1, <1>3, <1>4, <1>5, <1>6, <3>1, <3>2, StaysCovered DEF AdmitWithWake
  <2>3. QED
    BY <2>1, <2>2
<1>10. QED
  BY <1>6, <1>7, <1>8, <1>9 DEF IInv

\* Clearing a due wake is followed by a tick and a maintenance run, which arm.
LEMMA ClearDueWakeStep ==
    ASSUME IInv, NEW h \in Handlers, ClearDueWake(h)
    PROVE  IInv'
<1> DEFINE l == IF AdoptedLegacy # Unset /\ AdoptedLegacy <= now THEN Never ELSE AdoptedLegacy
<1>1. Never \in Nat /\ l \in -1..Never
  BY NeverIsLast, AdoptedLegacyType DEF IInv, TypeOK
<1>2. TypeOK /\ QueueOK /\ due \in [Ops -> 0..Never] /\ CommitAndWake(l, due)
  BY DEF IInv, TypeOK, ClearDueWake
<1> HIDE DEF l
<1>3. /\ legacy' = l /\ due' = due
      /\ alarm' \in 0..Never /\ queued' \in 0..Never /\ hint' \in BOOLEAN
      /\ handler' = [handler EXCEPT ![h] = "tick"] /\ handler'[h] # "idle"
  BY <1>1, <1>2, CommitStores DEF ClearDueWake
<1>4. TypeOK'
  BY <1>1, <1>2, <1>3 DEF TypeOK, ClearDueWake
<1>5. QueueOK' /\ AlarmOK'
  BY <1>1, <1>2, CommitRestores DEF ClearDueWake
<1>6. OwnershipOK' /\ SectionOK'
  BY <1>3 DEF IInv, OwnershipOK, SectionOK, ClearDueWake
<1>7. LegacyOK'
  BY <1>3 DEF LegacyOK, LegacyCovers, WillCommit
<1>8. QED
  BY <1>4, <1>5, <1>6, <1>7 DEF IInv

\* The handler ends with the wake committed and a maintenance run under way, which
\* runs once more if it was there before, unless Cloudflare's alarm found it so.
LEMMA FinishHandlerStep ==
    ASSUME IInv, NEW h \in Handlers, FinishHandler(h)
    PROVE  IInv'
<1>1. TypeOK /\ QueueOK /\ AdoptedLegacy \in -1..Never /\ due \in [Ops -> 0..Never]
  BY AdoptedLegacyType DEF IInv, TypeOK
<1>2. CommitAndWake(AdoptedLegacy, due)
  BY DEF FinishHandler
<1>3. /\ legacy' = AdoptedLegacy /\ due' = due
      /\ alarm' \in 0..Never /\ queued' \in 0..Never /\ hint' \in BOOLEAN
  BY <1>1, <1>2, CommitStores
<1>4. /\ run' = "work" \/ followup'
      /\ run' \in {"work", run} /\ todo' \in {Waiting, todo} /\ inflight' \subseteq inflight
      /\ followup' \in BOOLEAN /\ armed' \in BOOLEAN
  <2>1. runtime \in {"cloudflare", "node"} /\ run \in {"idle", "work", "ending"}
    BY SetsAssumption DEF IInv, TypeOK
  <2>2. CASE run = "idle"
    BY <2>2 DEF IInv, TypeOK, FinishHandler, StartRun
  <2>3. CASE run # "idle"
    BY <2>1, <2>3 DEF IInv, TypeOK, OwnershipOK, FinishHandler, AsksForAnother
  <2>4. QED
    BY <2>2, <2>3
<1>5. TypeOK'
  BY <1>1, <1>3, <1>4 DEF TypeOK, FinishHandler, Waiting
<1>6. QueueOK' /\ AlarmOK'
  BY <1>1, CommitRestores DEF FinishHandler
<1>7. OwnershipOK' /\ SectionOK'
  BY <1>3, <1>4 DEF IInv, OwnershipOK, SectionOK, FinishHandler
<1>8. LegacyOK'
  BY <1>4 DEF LegacyOK, LegacyCovers, WillCommit
<1>9. QED
  BY <1>5, <1>6, <1>7, <1>8 DEF IInv

\* The holder of the mutex arms for what it wrote; where an earlier alarm keeps it
\* from recording the deadline, that alarm is the legacy wake or an operation's.
LEMMA FinishSectionStep ==
    ASSUME IInv, FinishSection
    PROVE  IInv'
<1>1. Never \in Nat /\ Unset = -1 /\ TypeOK /\ QueueOK /\ AlarmOK /\ AdoptedLegacy \in -1..Never
  BY NeverIsLast, AdoptedLegacyType DEF IInv, TypeOK
<1>2. section' = FreeMutex /\ FreeMutex.jobs = {} /\ FreeMutex.arms # "deadline"
  BY DEF FinishSection, FreeMutex
<1>3. CASE section.arms = "deadline"
  <2> DEFINE at == section.at
  <2>1. /\ at \in 0..Never /\ at # Never /\ ArmAlarmNoLaterThan(at)
        /\ \A j \in section.jobs : deadline[j] # Never => at <= deadline[j]
    BY <1>3 DEF IInv, TypeOK, SectionOK, FinishSection
  <2> HIDE DEF at
  <2>2. /\ due' = due
        /\ alarm' \in 0..Never /\ queued' \in 0..Never /\ hint' \in BOOLEAN
        /\ legacy' \in -1..Never
        /\ IF MustArm(at)
             THEN legacy' # Unset /\ legacy' <= at /\ legacy' <= alarm
             ELSE UNCHANGED <<legacy, alarm>>
    BY <1>1, <2>1, ArmStores
  <2>3. QueueOK' /\ AlarmOK'
    BY <1>1, <2>1, ArmRestores DEF FinishSection
  <2>4. TypeOK'
    BY <1>1, <1>3, <2>2 DEF TypeOK, FinishSection, FreeMutex
  <2>5. OwnershipOK' /\ SectionOK'
    BY <1>2, <2>2 DEF IInv, OwnershipOK, SectionOK, FinishSection
  <2>6. AdoptedLegacy' = IF MustArm(at) THEN legacy' ELSE AdoptedLegacy
    BY <2>2 DEF AdoptedLegacy, FinishSection
  <2>7. LegacyOK'
    <3> SUFFICES ASSUME NEW j \in (Waiting \ hidden)' PROVE LegacyCovers(j)'
      BY DEF LegacyOK
    <3>1. j \in Jobs /\ deadline'[j] = deadline[j] /\ deadline[j] # Never
      BY DEF Waiting, FinishSection
    <3>2. CASE j \in section.jobs
      <4>1. AdoptedLegacy' # Unset /\ AdoptedLegacy' <= at
        BY <1>1, <1>3, <2>1, <2>2, <2>6, <3>2 DEF FinishSection, LeftUnset, at
      <4>2. at <= deadline[j]
        BY <2>1, <3>2
      <4>3. deadline'[j] <= LatestWake(j)' /\ LatestWake(j)' \in Nat
        BY <2>4, <3>1, LatestWakeBounds
      <4>4. QED
        BY <1>1, <2>1, <2>2, <2>6, <3>1, <4>1, <4>2, <4>3 DEF LegacyCovers, TypeOK
    <3>3. CASE j \notin section.jobs
      <4>1. LegacyCovers(j)
        BY <1>3, <3>3 DEF IInv, LegacyOK, Waiting, FinishSection
      <4>2. WillCommit(j) => WillCommit(j)'
        BY <3>3 DEF WillCommit, FinishSection
      <4>3. CASE handler["alarm"] # "idle"
        BY <4>3 DEF LegacyCovers, WillCommit, FinishSection, Handlers
      <4>4. CASE handler["alarm"] = "idle"
        <5>1. AdoptedLegacy # Unset => AdoptedLegacy' # Unset /\ AdoptedLegacy' <= AdoptedLegacy
          BY <1>1, <2>2, <2>6, <4>4, AlarmBeforeAdopted DEF TypeOK
        <5>2. QED
          BY <1>1, <2>4, <3>1, <4>1, <4>2, <5>1, StaysCovered DEF FinishSection, TypeOK
      <4>5. QED
        BY <4>3, <4>4
    <3>4. QED
      BY <3>2, <3>3
  <2>8. QED
    BY <2>3, <2>4, <2>5, <2>7 DEF IInv
<1>4. CASE section.arms # "deadline"
  <2> DEFINE l == EarliestDeadline(Waiting)
  <2>1. l \in -1..Never /\ l # Unset /\ \A j \in Waiting : l <= deadline[j]
    BY <1>1, EarliestDeadlineIsLeast DEF Waiting
  <2>2. due \in [Ops -> 0..Never] /\ CommitAndWake(l, due)
    BY <1>1, <1>4 DEF TypeOK, FinishSection, ScheduleAlarm
  <2> HIDE DEF l
  <2>3. /\ legacy' = l /\ due' = due /\ AdoptedLegacy' = l
        /\ alarm' \in 0..Never /\ queued' \in 0..Never /\ hint' \in BOOLEAN
    BY <1>1, <2>1, <2>2, CommitStores DEF AdoptedLegacy
  <2>4. QueueOK' /\ AlarmOK'
    BY <1>1, <2>1, <2>2, CommitRestores DEF FinishSection
  <2>5. TypeOK'
    BY <1>1, <1>2, <1>4, <2>1, <2>3 DEF TypeOK, FinishSection, FreeMutex
  <2>6. OwnershipOK' /\ SectionOK'
    BY <1>2, <2>3 DEF IInv, OwnershipOK, SectionOK, FinishSection
  <2>7. LegacyOK'
    <3> SUFFICES ASSUME NEW j \in (Waiting \ hidden)' PROVE LegacyCovers(j)'
      BY DEF LegacyOK
    <3>1. j \in Jobs /\ deadline'[j] = deadline[j] /\ l <= deadline[j]
      BY <2>1 DEF Waiting, FinishSection
    <3>2. deadline'[j] <= LatestWake(j)' /\ LatestWake(j)' \in Nat /\ deadline[j] \in Nat
      BY <2>5, <3>1, LatestWakeBounds DEF TypeOK
    <3>3. QED
      BY <1>1, <2>1, <2>3, <3>1, <3>2 DEF LegacyCovers
  <2>8. QED
    BY <2>4, <2>5, <2>6, <2>7 DEF IInv
<1>5. QED
  BY <1>3, <1>4

\* A run that fails arms for its retry, in time for every record, unless the
\* alarm it finds set is an operation's.
LEMMA RunFailsStep ==
    ASSUME IInv, RunFails
    PROVE  IInv'
<1> DEFINE at == now + Retry
<1>1. /\ Never \in Nat /\ Unset = -1 /\ TypeOK /\ QueueOK /\ AlarmOK
      /\ AdoptedLegacy \in -1..Never /\ at \in 0..Never /\ at # Never
      /\ ArmAlarmNoLaterThan(at)
  BY NeverIsLast, AdoptedLegacyType DEF IInv, TypeOK, RunFails
<1>2. /\ due' = due
      /\ alarm' \in 0..Never /\ queued' \in 0..Never /\ hint' \in BOOLEAN
      /\ legacy' \in -1..Never
      /\ IF MustArm(at)
           THEN legacy' # Unset /\ legacy' <= at
           ELSE UNCHANGED <<legacy, alarm>>
  BY <1>1, ArmStores
<1>3. /\ run' \in {"idle", "work", "ending"} /\ (run' = "ending" => runtime = "node")
      /\ todo' \in {todo, Waiting, {}} /\ inflight' \subseteq inflight
      /\ followup' \in BOOLEAN /\ armed' \in BOOLEAN
  BY <1>1 DEF TypeOK, RunFails, EndRun
<1>4. TypeOK'
  BY <1>1, <1>2, <1>3 DEF TypeOK, RunFails, Waiting
<1>5. QueueOK' /\ AlarmOK'
  BY <1>1, ArmRestores DEF RunFails
<1>6. OwnershipOK' /\ SectionOK'
  BY <1>2, <1>3 DEF IInv, OwnershipOK, SectionOK, RunFails
<1>7. AdoptedLegacy' = IF MustArm(at) THEN legacy' ELSE AdoptedLegacy
  BY <1>2 DEF AdoptedLegacy, RunFails
<1>8. LegacyOK'
  <2> SUFFICES ASSUME NEW j \in (Waiting \ hidden)' PROVE LegacyCovers(j)'
    BY DEF LegacyOK
  <2>1. j \in Jobs
    BY DEF Waiting
  <2>2. AdoptedLegacy' # Unset /\ AdoptedLegacy' <= at
    BY <1>1, <1>2, <1>7, <2>1 DEF RunFails, LeftUnset
  <2>3. at <= LatestWake(j)' /\ LatestWake(j)' \in Nat
    BY <1>4, <2>1, LatestWakeBounds DEF RunFails
  <2>4. QED
    BY <1>1, <1>2, <1>7, <2>2, <2>3 DEF LegacyCovers
<1>9. QED
  BY <1>4, <1>5, <1>6, <1>8 DEF IInv

\* The backoff of a maintenance run stays within its cap.
LEMMA NextDelayType ==
    ASSUME TypeOK, NEW j
    PROVE  NextDelay(j) \in 0..MaxBackoff
<1>1. MaxBackoff \in Nat /\ 1 \in 0..MaxBackoff /\ streak.delay \in 0..MaxBackoff
  BY BoundsAssumption DEF TypeOK
<1>2. Smaller(MaxBackoff, 2 * streak.delay) \in 0..MaxBackoff
  BY <1>1 DEF Smaller
<1>3. QED
  BY <1>1, <1>2 DEF NextDelay

\* The wake that a completed run leaves is in time for every record.
LEMMA FinalAlarmInTime ==
    ASSUME TypeOK, QueueOK, FinalAlarm
    PROVE  \E l \in 0..Never :
             /\ CommitAndWake(l, due)
             /\ \A j \in Waiting : l <= IF deadline[j] <= now THEN now + MaxBackoff
                                                              ELSE deadline[j]
<1>1. /\ Never \in Nat /\ now \in Nat /\ now < Never /\ MaxBackoff \in Nat
      /\ deadline \in [Jobs -> 0..Never]
      /\ Waiting \in SUBSET Jobs /\ Waiting \ Overdue \in SUBSET Jobs /\ Overdue \in SUBSET Jobs
  BY NeverIsLast DEF TypeOK, Waiting, Overdue
<1>2. /\ EarliestDeadline(Waiting) \in 0..Never
      /\ \A j \in Waiting : EarliestDeadline(Waiting) <= deadline[j]
  BY <1>1, EarliestDeadlineIsLeast
<1>3. CASE CommitAndWake(EarliestDeadline(Waiting), due)
  <2>1. \A j \in Waiting : EarliestDeadline(Waiting)
                             <= IF deadline[j] <= now THEN now + MaxBackoff ELSE deadline[j]
    BY <1>1, <1>2
  <2>2. QED
    BY <1>2, <1>3, <2>1
<1>4. ASSUME NEW i \in EarliestOverdue,
             CommitAndWake(IF NextDelay(i) = 0 THEN deadline[i]
                           ELSE Smaller(now + NextDelay(i), EarliestDeadline(Waiting \ Overdue)), due)
      PROVE  \E l \in 0..Never :
               /\ CommitAndWake(l, due)
               /\ \A j \in Waiting : l <= IF deadline[j] <= now THEN now + MaxBackoff
                                                                ELSE deadline[j]
  <2>1. /\ i \in Overdue /\ deadline[i] <= now /\ deadline[i] \in 0..Never
        /\ \A j \in Overdue : deadline[i] <= deadline[j]
    BY <1>1, EarliestDeadlineIsLeast DEF EarliestOverdue, Overdue
  <2>2. CASE NextDelay(i) = 0
    <3>1. \A j \in Waiting : deadline[i] <= IF deadline[j] <= now THEN now + MaxBackoff ELSE deadline[j]
      BY <1>1, <2>1
    <3>2. QED
      BY <1>4, <2>1, <2>2, <3>1
  <2>3. CASE NextDelay(i) # 0
    <3> DEFINE l == Smaller(now + NextDelay(i), EarliestDeadline(Waiting \ Overdue))
    <3>1. NextDelay(i) \in 0..MaxBackoff
      BY NextDelayType
    <3>2. /\ EarliestDeadline(Waiting \ Overdue) \in 0..Never
          /\ \A j \in Waiting \ Overdue : EarliestDeadline(Waiting \ Overdue) <= deadline[j]
      BY <1>1, EarliestDeadlineIsLeast
    <3>3. /\ l \in 0..Never /\ l <= now + MaxBackoff
          /\ l <= EarliestDeadline(Waiting \ Overdue)
      BY <1>1, <3>1, <3>2 DEF Smaller
    <3>4. CommitAndWake(l, due)
      BY <1>4, <2>3
    <3> HIDE DEF l
    <3>5. \A j \in Waiting : l <= IF deadline[j] <= now THEN now + MaxBackoff ELSE deadline[j]
      BY <1>1, <3>2, <3>3 DEF Overdue
    <3>6. QED
      BY <3>3, <3>4, <3>5
  <2>4. QED
    BY <2>2, <2>3
<1>5. QED
  BY <1>3, <1>4 DEF FinalAlarm

\* A run that completes leaves the wake of the earliest deadline, or of the
\* backoff of an overdue one.
LEMMA FinalScheduleStep ==
    ASSUME IInv, FinalSchedule
    PROVE  IInv'
<1>1. /\ Never \in Nat /\ Unset = -1 /\ TypeOK /\ QueueOK
      /\ due \in [Ops -> 0..Never] /\ now \in Nat
  BY NeverIsLast DEF IInv, TypeOK
<1>2. PICK l \in 0..Never :
        /\ CommitAndWake(l, due)
        /\ \A j \in Waiting : l <= IF deadline[j] <= now THEN now + MaxBackoff ELSE deadline[j]
  BY <1>1, FinalAlarmInTime DEF FinalSchedule
<1>3. l \in -1..Never /\ l # Unset
  BY <1>1
<1>4. /\ legacy' = l /\ due' = due /\ AdoptedLegacy' = l
      /\ alarm' \in 0..Never /\ queued' \in 0..Never /\ hint' \in BOOLEAN
  BY <1>1, <1>2, CommitStores DEF AdoptedLegacy
<1>5. /\ run' \in {"idle", "work", "ending"} /\ (run' = "ending" => runtime = "node")
      /\ todo' \in {todo, Waiting, {}} /\ inflight' \subseteq inflight
      /\ followup' \in BOOLEAN /\ armed' \in BOOLEAN
  BY <1>1 DEF TypeOK, FinalSchedule, EndRun
<1>6. streak' \in [job : Jobs \cup {NoJob}, delay : 0..MaxBackoff]
  <2>1. \A j \in EarliestOverdue : j \in Jobs
    BY DEF EarliestOverdue, Overdue, Waiting
  <2>2. 0 \in 0..MaxBackoff
    BY BoundsAssumption
  <2>3. CASE streak' \in {streak, NoStreak}
    BY <1>1, <2>2, <2>3 DEF TypeOK, NoStreak
  <2>4. ASSUME NEW j \in EarliestOverdue, streak' = [job |-> j, delay |-> NextDelay(j)]
        PROVE  streak' \in [job : Jobs \cup {NoJob}, delay : 0..MaxBackoff]
    BY <1>1, <2>1, <2>4, NextDelayType
  <2>5. QED
    BY <2>3, <2>4 DEF FinalSchedule, FinalAlarm
<1>7. TypeOK'
  BY <1>1, <1>3, <1>4, <1>5, <1>6 DEF TypeOK, FinalSchedule, Waiting
<1>8. QueueOK' /\ AlarmOK'
  BY <1>1, <1>2, CommitRestores DEF FinalSchedule
<1>9. OwnershipOK' /\ SectionOK'
  BY <1>4, <1>5 DEF IInv, OwnershipOK, SectionOK, FinalSchedule
<1>10. LegacyOK'
  <2> SUFFICES ASSUME NEW j \in (Waiting \ hidden)' PROVE LegacyCovers(j)'
    BY DEF LegacyOK
  <2>1. j \in Waiting /\ j \in Jobs /\ deadline'[j] = deadline[j] /\ now' = now /\ ~failed'
    BY DEF Waiting, FinalSchedule
  <2>2. /\ LatestWake(j)' \in Nat /\ deadline[j] <= LatestWake(j)' /\ deadline[j] \in Nat
        /\ deadline[j] <= now => LatestWake(j)' = now + MaxBackoff
    BY <1>7, <2>1, LatestWakeBounds DEF TypeOK
  <2>3. l <= LatestWake(j)'
    BY <1>2, <2>1, <2>2
  <2>4. QED
    BY <1>3, <1>4, <2>3 DEF LegacyCovers, Unset
<1>11. QED
  BY <1>7, <1>8, <1>9, <1>10 DEF IInv

\* A restart is a fault for the records; on Cloudflare it commits the wake of the
\* due index again.
LEMMA RestartStep ==
    ASSUME IInv, Restart
    PROVE  IInv'
<1>1. TypeOK /\ QueueOK /\ AdoptedLegacy \in -1..Never /\ due \in [Ops -> 0..Never]
  BY AdoptedLegacyType DEF IInv, TypeOK
<1>2. runtime \in {"cloudflare", "node"} /\ 0 \in 0..MaxBackoff /\ Never \in Nat
  BY <1>1, SetsAssumption, NeverIsLast DEF TypeOK
<1>3. /\ legacy' \in -1..Never /\ due' = due
      /\ alarm' \in 0..Never /\ queued' \in 0..Never /\ hint' \in BOOLEAN
      /\ QueueOK' /\ AlarmOK'
  <2>1. CASE runtime = "node"
    BY <1>1, <1>2, <2>1 DEF IInv, TypeOK, QueueOK, AlarmOK, Restart
  <2>2. CASE runtime # "node"
    <3>1. CommitAndWake(AdoptedLegacy, due)
      BY <2>2 DEF Restart
    <3>2. QueueOK' /\ AlarmOK'
      BY <1>1, <3>1, CommitRestores DEF Restart
    <3>3. QED
      BY <1>1, <3>1, <3>2, CommitStores
  <2>3. QED
    BY <2>1, <2>2
<1>4. TypeOK'
  <2>1. NoStreak \in [job : Jobs \cup {NoJob}, delay : 0..MaxBackoff]
    BY <1>2 DEF NoStreak
  <2>2. FreeMutex \in [jobs : SUBSET Jobs, arms : {"nothing", "deadline", "scan"}, at : 0..Never]
    BY <1>2 DEF FreeMutex
  <2>3. handler' \in [Handlers -> {"idle", "clear", "tick"}]
    BY DEF Restart
  <2>4. QED
    BY <1>1, <1>3, <2>1, <2>2, <2>3 DEF TypeOK, Restart
<1>5. OwnershipOK' /\ SectionOK'
  BY <1>3 DEF IInv, OwnershipOK, SectionOK, Restart, FreeMutex
<1>6. LegacyOK'
  BY DEF LegacyOK, LegacyCovers, Restart
<1>7. QED
  BY <1>3, <1>4, <1>5, <1>6 DEF IInv

-----------------------------------------------------------------------------
(***************************************************************************)
(* The theorems.                                                           *)
(***************************************************************************)
\* The first alarm is that of the earliest record.
LEMMA InitIInv == Init => IInv
<1> SUFFICES ASSUME Init PROVE IInv
  OBVIOUS
<1>1. Never \in Nat /\ 1 < Never /\ MaxTime \in Nat /\ 0 \in 0..MaxBackoff
  BY NeverIsLast, BoundsAssumption
<1>2. deadline \in [Jobs -> 0..Never]
  BY <1>1 DEF Init
<1>3. alarm \in 0..Never
  <2>1. {deadline[j] : j \in Waiting} \in SUBSET (0..Never)
    BY <1>2 DEF Waiting
  <2>2. QED
    BY <1>1, <2>1, EarliestIsLeast DEF Init, EarliestDeadline
<1>4. TypeOK
  <2>1. NoStreak \in [job : Jobs \cup {NoJob}, delay : 0..MaxBackoff]
    BY <1>1 DEF NoStreak
  <2>2. FreeMutex \in [jobs : SUBSET Jobs, arms : {"nothing", "deadline", "scan"}, at : 0..Never]
    BY <1>1 DEF FreeMutex
  <2>3. handler \in [Handlers -> {"idle", "clear", "tick"}] /\ due \in [Ops -> 0..Never]
    BY <1>1 DEF Init
  <2>4. now \in 0..MaxTime /\ legacy \in -1..Never
    BY <1>1 DEF Init, Unset
  <2>5. {hint, followup, armed, failed, degraded} \subseteq BOOLEAN
    BY DEF Init
  <2>6. todo = {} /\ inflight = {} /\ hidden = {} /\ runtime \in Runtimes /\ run = "idle"
        /\ queued = alarm /\ section = FreeMutex /\ streak = NoStreak
    BY DEF Init
  <2>7. QED
    BY <1>2, <1>3, <2>1, <2>2, <2>3, <2>4, <2>5, <2>6 DEF TypeOK
<1>5. QueueOK /\ AlarmOK
  BY <1>3 DEF Init, QueueOK, AlarmOK
<1>6. OwnershipOK /\ SectionOK
  BY DEF Init, OwnershipOK, SectionOK, FreeMutex
<1>7. LegacyOK
  <2> SUFFICES ASSUME NEW j \in Waiting PROVE LegacyCovers(j)
    BY DEF LegacyOK
  <2>1. /\ EarliestDeadline(Waiting) <= deadline[j] /\ j \in Jobs
        /\ deadline[j] = 1 /\ EarliestDeadline(Waiting) \in 0..Never
    BY <1>4, EarliestDeadlineIsLeast DEF Waiting, Init
  <2>2. LatestWake(j) = 1
    BY <2>1 DEF LatestWake, Init
  <2>3. AdoptedLegacy = alarm
    BY <1>1, <2>1 DEF AdoptedLegacy, Init
  <2>4. QED
    BY <2>1, <2>2, <2>3 DEF LegacyCovers, Init, Unset
<1>8. QED
  BY <1>4, <1>5, <1>6, <1>7 DEF IInv

\* Stuttering keeps the invariant.
LEMMA StutterIInv == IInv /\ UNCHANGED vars => IInv'
  BY DEF vars, IInv, TypeOK, QueueOK, AlarmOK, OwnershipOK, SectionOK, LegacyOK,
         LegacyCovers, WillCommit, Waiting, AdoptedLegacy, LatestWake

\* Every step keeps the invariant.
LEMMA NextIInv == IInv /\ [Next]_vars => IInv'
<1> SUFFICES ASSUME IInv, [Next]_vars PROVE IInv'
  OBVIOUS
<1>1. CASE \E j \in Jobs, at \in Deadlines \cup {Never}, arms \in {"deadline", "scan"} :
             Request(j, at, arms)
  BY <1>1, RequestStep
<1>2. CASE FinishSection
  BY <1>2, FinishSectionStep
<1>3. CASE \E j \in Jobs : \E at \in Deadlines : AdmitWithWake(j, at)
  BY <1>3, AdmitWithWakeStep
<1>4. CASE \E o \in Ops : \E at \in Wakes \cup {Never} : ProvisioningCommit(o, at)
  BY <1>4, ProvisioningCommitStep
<1>5. CASE \E o \in Ops : \E at \in Deadlines : Publish(o, at)
  BY <1>5, PublishStep
<1>6. CASE SendWakeHint \/ WakeHintFails \/ Deliver \/ Cron
  BY <1>6, SendWakeHintStep, WakeHintFailsStep, DeliverStep, CronStep
<1>7. CASE \E h \in Handlers : ClearDueWake(h) \/ ClearFails(h)
                               \/ FinishHandler(h) \/ HandlerFails(h)
  BY <1>7, ClearDueWakeStep, ClearFailsStep, FinishHandlerStep, HandlerFailsStep
<1>8. CASE ClaimOverdue \/ \E j \in Jobs : CleanupSucceeds(j) \/ CleanupFails(j)
  BY <1>8, ClaimOverdueStep, CleanupSucceedsStep, CleanupFailsStep
<1>9. CASE FinalSchedule \/ RunFails \/ FinishRun
  BY <1>9, FinalScheduleStep, RunFailsStep, FinishRunStep
<1>10. CASE Clock \/ Restart
  BY <1>10, ClockStep, RestartStep
<1>11. CASE UNCHANGED vars
  BY <1>11, StutterIInv
<1>12. QED
  BY <1>1, <1>2, <1>3, <1>4, <1>5, <1>6, <1>7, <1>8, <1>9, <1>10, <1>11 DEF Next

\* The invariant holds in every reachable state.
LEMMA Invariance == Spec => []IInv
  BY InitIInv, NextIInv, PTL DEF Spec

\* Every time that is stored or queued is below the horizon or Never.
THEOREM TypeCorrect == Spec => []TypeOK
<1>1. IInv => TypeOK
  BY DEF IInv
<1>2. QED
  BY <1>1, Invariance, PTL

\* On Cloudflare no interleaving of requests, alarms, maintenance and crashes
\* loses the wake of an operation in the due index (commitAndWake).
THEOREM ProvisioningIsCovered == Spec => []ProvisioningCovered
<1>1. ASSUME IInv PROVE ProvisioningCovered
  <2> SUFFICES ASSUME runtime = "cloudflare", NEW o \in Ops, handler["alarm"] = "idle"
               PROVE  queued <= Larger(due[o], now)
    BY DEF ProvisioningCovered
  <2>1. queued = alarm /\ alarm <= due[o]
    BY <1>1 DEF IInv, QueueOK, AlarmOK
  <2>2. due[o] \in Nat /\ now \in Nat /\ alarm \in Nat
    BY <1>1 DEF IInv, TypeOK
  <2>3. QED
    BY <2>1, <2>2 DEF Larger
<1>2. QED
  BY <1>1, Invariance, PTL

\* On either runtime the wake of every record that no operation's wake stood
\* in for survives, short of a crash or a failing queue (armAlarmNoLaterThan,
\* scheduleAlarm, startMaintenance).
THEOREM JobsAreCovered == Spec => []JobsCovered
<1>1. ASSUME IInv PROVE JobsCovered
  <2> SUFFICES ASSUME NEW j \in Waiting \ hidden, ~degraded, ~WillArm(j)
               PROVE  queued <= LatestWake(j)
    BY DEF JobsCovered, Covered
  <2>1. /\ handler["alarm"] = "idle" /\ ~hint /\ ~WillCommit(j) /\ j \in Jobs
    BY DEF WillArm, WillCommit, Handlers, Waiting
  <2>2. AdoptedLegacy # Unset /\ AdoptedLegacy <= LatestWake(j)
    BY <1>1, <2>1 DEF IInv, LegacyOK, LegacyCovers
  <2>3. alarm <= AdoptedLegacy
    BY <1>1, <2>1, <2>2, AlarmBeforeAdopted DEF IInv
  <2>4. queued = alarm
    BY <1>1, <2>1, SetsAssumption DEF IInv, TypeOK, QueueOK
  <2>5. alarm \in Int /\ AdoptedLegacy \in Int /\ LatestWake(j) \in Int
    <3>1. /\ deadline[j] \in Nat /\ now \in Nat /\ Retry \in Nat /\ MaxBackoff \in Nat
          /\ alarm \in Nat
      BY <1>1, <2>1, BoundsAssumption DEF IInv, TypeOK
    <3>2. LatestWake(j) \in Int
      BY <3>1 DEF LatestWake, Larger
    <3>3. AdoptedLegacy \in Int
      BY <1>1, AdoptedLegacyType DEF IInv
    <3>4. QED
      BY <3>1, <3>2, <3>3
  <2>6. QED
    BY <2>2, <2>3, <2>4, <2>5
<1>2. QED
  BY <1>1, Invariance, PTL
=============================================================================
