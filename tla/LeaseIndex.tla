----------------------------- MODULE LeaseIndex -----------------------------
(***************************************************************************)
(* A secondary index over the lease records (lease-maintenance: or         *)
(* lease-current:), the writers that keep it beside the records            *)
(* (worker/src/lease-record-store.ts) and the scans that build, audit and  *)
(* prune it (worker/src/lease-maintenance-index.ts).                       *)
(*                                                                         *)
(* Consumers read the index instead of the history once it is complete, so *)
(* a member that is missing from it is a lease nobody reconciles.  Writers *)
(* do not wait for the scans: a maintenance pass holds no lock.            *)
(*                                                                         *)
(* The two indexes share all code and no state; one is modelled.  Lease    *)
(* ids are numbers in the order of their keys.  Writers of one lease       *)
(* follow each other: they hold the lifecycle lock.                        *)
(***************************************************************************)
EXTENDS Integers, FiniteSets

CONSTANTS
    Leases,             \* lease ids
    Existing,           \* members written before there was an index
    Coalescing,         \* a Durable Object's store, which batches the writes
                        \* of one call; PostgreSQL runs them one by one
    Codes,              \* what may be deployed: "new" knows the index, "old" not
    PageSize,           \* storageRecordScanBatchSize (128)
    PagesPerPass,       \* leaseMaintenancePagesPerPass (32)
    MaxGeneration,      \* bound: runtimes started
    MaxFailures         \* bound: passes that throw

ASSUME IndexAssumption == /\ Leases \subseteq Nat \ {0} /\ IsFiniteSet(Leases)
                          /\ Existing \subseteq Leases
                          /\ Coalescing \in BOOLEAN
                          /\ Codes \subseteq {"new", "old"}
ASSUME PageAssumption == /\ PageSize \in Nat \ {0}
                         /\ PagesPerPass \in Nat \ {0}
                         /\ MaxGeneration \in Nat
                         /\ MaxFailures \in Nat

VARIABLES
    rec,        \* lease:<id>: absent, a member, or settled history
    index,      \* the ids in the index
    write,      \* plain writes between their two statements
    code,       \* the code that runs
    generation, \* coordinatorGeneration of the runtime
    stored,     \* the index's state record
    pass,       \* the maintenance pass
    failures    \* passes that threw so far

vars == <<rec, index, write, code, generation, stored, pass, failures>>

-----------------------------------------------------------------------------
(* Records *)

\* No scan, no sweep.  A cursor is the last id visited, 0 at the start.
None == -1

Cursors == Leases \cup {0, None}

\* scan is startAfter of the backfill until that is complete, and
\* auditStartAfter of an audit from then on; prune is pruneStartAfter.
\* The waits say that nextAuditAt, nextPruneAt are still to come.
States ==
    {s \in [complete : BOOLEAN, scan : Cursors, auditWait : BOOLEAN,
            prune : Cursors, pruneWait : BOOLEAN, generation : Nat] :
       s.complete \/ s.scan # None}

NoState == [complete |-> FALSE, scan |-> 0, auditWait |-> FALSE,
            prune |-> None, pruneWait |-> FALSE, generation |-> 0]

\* A pass holds its own copy of the state, the page it works on (todo: what is
\* left of it, cursor: its last key, last: it was not full) and its page count.
Passes ==
    [pc : {"idle", "scan", "add", "sweep", "prune", "recheck", "save"},
     state : States, todo : SUBSET Leases, cursor : Cursors, last : BOOLEAN,
     pages : 0 .. PagesPerPass - 1]

Idle == [pc |-> "idle", state |-> NoState, todo |-> {}, cursor |-> 0,
         last |-> FALSE, pages |-> 0]

Init ==
    /\ rec = [l \in Leases |-> IF l \in Existing THEN "member" ELSE "absent"]
    /\ index = {}
    /\ write = [l \in Leases |-> "none"]
    /\ code = "new"
    /\ generation = 1
    /\ stored = NoState
    /\ pass = Idle
    /\ failures = 0

-----------------------------------------------------------------------------
(* Writers: putLeaseRecord and deleteLeaseRecord *)

\* A transaction, or the batch of a coalescing store: one step.
WriteAtomic(l, r) ==
    /\ code = "new"
    /\ write[l] = "none"
    /\ rec' = [rec EXCEPT ![l] = r]
    /\ index' = IF r = "member" THEN index \cup {l} ELSE index \ {l}
    /\ UNCHANGED <<write, code, generation, stored, pass, failures>>

\* Elsewhere membership is published before the record is written ...
PublishEntry(l) ==
    /\ code = "new"
    /\ ~Coalescing
    /\ write[l] = "none"
    /\ index' = index \cup {l}
    /\ write' = [write EXCEPT ![l] = "publishing"]
    /\ UNCHANGED <<rec, code, generation, stored, pass, failures>>

PublishLease(l) ==
    /\ write[l] = "publishing"
    /\ rec' = [rec EXCEPT ![l] = "member"]
    /\ write' = [write EXCEPT ![l] = "none"]
    /\ UNCHANGED <<index, code, generation, stored, pass, failures>>

\* ... and retracted after the record has been settled or deleted.
RetractLease(l, r) ==
    /\ code = "new"
    /\ ~Coalescing
    /\ write[l] = "none"
    /\ r # "member"
    /\ rec' = [rec EXCEPT ![l] = r]
    /\ write' = [write EXCEPT ![l] = "retracting"]
    /\ UNCHANGED <<index, code, generation, stored, pass, failures>>

RetractEntry(l) ==
    /\ write[l] = "retracting"
    /\ index' = index \ {l}
    /\ write' = [write EXCEPT ![l] = "none"]
    /\ UNCHANGED <<rec, code, generation, stored, pass, failures>>

\* The second statement fails.
FailWrite(l) ==
    /\ write[l] # "none"
    /\ write' = [write EXCEPT ![l] = "none"]
    /\ UNCHANGED <<rec, index, code, generation, stored, pass, failures>>

\* Code from before the index writes the record alone.
OldWrite(l, r) ==
    /\ code = "old"
    /\ rec' = [rec EXCEPT ![l] = r]
    /\ UNCHANGED <<index, write, code, generation, stored, pass, failures>>

Writers(l) ==
    \/ \E r \in {"absent", "member", "history"} :
         WriteAtomic(l, r) \/ RetractLease(l, r) \/ OldWrite(l, r)
    \/ PublishEntry(l)
    \/ FailWrite(l)

\* A write that was begun goes on to its end.
FinishWrite(l) == PublishLease(l) \/ RetractEntry(l)

-----------------------------------------------------------------------------
(* Maintenance: maintainLeaseIndex *)

\* Variant: a new runtime lets an audit under way continue.
RenewedKeepingAudit(s) ==
    LET new == s.generation # generation
        audit == s.complete /\ s.scan = None /\ (new \/ ~s.auditWait)
    IN  [s EXCEPT !.generation = generation,
                  !.scan = IF (new /\ ~s.complete) \/ audit THEN 0 ELSE @]

\* Variant: only a new runtime audits.
RenewedWithoutDeadline(s) ==
    LET new == s.generation # generation
    IN  [s EXCEPT !.generation = generation, !.scan = IF new THEN 0 ELSE @]

\* A new runtime may follow code that wrote records without the index, behind
\* any cursor: it restarts the backfill or starts an audit.  So does the daily
\* deadline, unless an audit is under way.
Renewed(s) ==
    LET new == s.generation # generation
        audit == s.complete /\ (new \/ (s.scan = None /\ ~s.auditWait))
    IN  [s EXCEPT !.generation = generation,
                  !.scan = IF (new /\ ~s.complete) \/ audit THEN 0 ELSE @]

StartPass ==
    /\ code = "new"
    /\ pass.pc = "idle"
    /\ pass' = [Idle EXCEPT !.pc = IF Renewed(stored).scan = None THEN "sweep"
                                   ELSE "scan",
                            !.state = Renewed(stored)]
    /\ UNCHANGED <<rec, index, write, code, generation, stored, failures>>

\* p is the page of keys after the cursor c.
Page(keys, c, p) ==
    LET after == {k \in keys : k > c}
    IN  /\ p \subseteq after
        /\ \A k \in p, m \in after \ p : k < m
        /\ p = after \/ Cardinality(p) = PageSize
        /\ Cardinality(p) <= PageSize

\* end is the last key of the page, or the cursor an empty one was read from.
PageEnd(p, c, end) == IF p = {} THEN end = c ELSE end \in p /\ \A m \in p : m <= end

\* A page of lease records; todo is its members as they were read.
ReadPage ==
    /\ pass.pc = "scan"
    /\ \E p \in SUBSET Leases, end \in Cursors :
         /\ Page({l \in Leases : rec[l] # "absent"}, pass.state.scan, p)
         /\ PageEnd(p, pass.state.scan, end)
         /\ pass' = [pass EXCEPT !.pc = "add",
                                 !.todo = {l \in p : rec[l] = "member"},
                                 !.cursor = end,
                                 !.last = Cardinality(p) < PageSize]
    /\ UNCHANGED <<rec, index, write, code, generation, stored, failures>>

\* The audit rechecks the member in a transaction; the backfill just adds it.
\* The members of a page are added concurrently.
AddMember(l) ==
    /\ pass.pc = "add"
    /\ l \in pass.todo
    /\ index' = IF pass.state.complete /\ rec[l] # "member" THEN index
                ELSE index \cup {l}
    /\ pass' = [pass EXCEPT !.todo = @ \ {l}]
    /\ UNCHANGED <<rec, write, code, generation, stored, failures>>

\* Variant: the scan ends without marking the index complete.
ScannedIncomplete(s, cursor, last) ==
    [s EXCEPT !.scan = IF last THEN None ELSE cursor, !.auditWait = @ \/ last]

\* The state after a page of the scan.
Scanned(s, cursor, last) ==
    [s EXCEPT !.complete = @ \/ last,
              !.scan = IF last THEN None ELSE cursor,
              !.auditWait = @ \/ last]

\* The state is saved with the cursor only after the page's members are in.
EndPage ==
    LET s == Scanned(pass.state, pass.cursor, pass.last)
        stop == pass.last \/ pass.pages + 1 = PagesPerPass
    IN  /\ pass.pc = "add"
        /\ pass.todo = {}
        /\ stored' = s
        /\ pass' = [pass EXCEPT !.state = s,
                                !.pages = IF stop THEN 0 ELSE @ + 1,
                                !.pc = IF stop THEN "sweep" ELSE "scan"]
        /\ UNCHANGED <<rec, index, write, code, generation, failures>>

-----------------------------------------------------------------------------
(* Pruning: pruneStaleEntries *)

SkipSweep ==
    /\ pass.pc = "sweep"
    /\ pass.state.prune = None /\ pass.state.pruneWait
    /\ pass' = [pass EXCEPT !.pc = "save"]
    /\ UNCHANGED <<rec, index, write, code, generation, stored, failures>>

\* A page of index entries.
ReadEntries ==
    /\ pass.pc = "sweep"
    /\ ~(pass.state.prune = None /\ pass.state.pruneWait)
    /\ \E p \in SUBSET Leases, end \in Cursors :
         LET c == IF pass.state.prune = None THEN 0 ELSE pass.state.prune
         IN  /\ Page(index, c, p)
             /\ PageEnd(p, pass.state.prune, end)
             /\ pass' = [pass EXCEPT !.pc = "prune", !.todo = p,
                                     !.cursor = end,
                                     !.last = Cardinality(p) < PageSize]
    /\ UNCHANGED <<rec, index, write, code, generation, stored, failures>>

\* The entries of a page are visited in order.
NextEntry(l) == l \in pass.todo /\ \A m \in pass.todo : l <= m

\* The record is read once outside a transaction; a member is left alone ...
VisitEntry(l) ==
    /\ pass.pc = "prune"
    /\ NextEntry(l)
    /\ pass' = IF rec[l] = "member" THEN [pass EXCEPT !.todo = @ \ {l}]
               ELSE [pass EXCEPT !.pc = "recheck"]
    /\ UNCHANGED <<rec, index, write, code, generation, stored, failures>>

\* Variant: the first read decides.
PrunedUnchecked(l) == index \ {l}

\* ... and a transaction reads it again before it deletes the entry.
Pruned(l) == IF rec[l] = "member" THEN index ELSE index \ {l}

RecheckEntry(l) ==
    /\ pass.pc = "recheck"
    /\ NextEntry(l)
    /\ index' = Pruned(l)
    /\ pass' = [pass EXCEPT !.pc = "prune", !.todo = @ \ {l}]
    /\ UNCHANGED <<rec, write, code, generation, stored, failures>>

\* Variant: the cursor of a finished sweep stays.
SweptKeepingCursor(s, cursor, last) ==
    [s EXCEPT !.prune = cursor, !.pruneWait = @ \/ last]

\* The state after a page of the sweep.
Swept(s, cursor, last) ==
    [s EXCEPT !.prune = IF last THEN None ELSE cursor, !.pruneWait = @ \/ last]

EndSweepPage ==
    /\ pass.pc = "prune"
    /\ pass.todo = {}
    /\ pass' = [pass EXCEPT
                  !.state = Swept(@, pass.cursor, pass.last),
                  !.pages = IF pass.pages + 1 = PagesPerPass THEN 0 ELSE @ + 1,
                  !.pc = IF pass.last \/ pass.pages + 1 = PagesPerPass THEN "save"
                         ELSE "sweep"]
    /\ UNCHANGED <<rec, index, write, code, generation, stored, failures>>

SavePass ==
    /\ pass.pc = "save"
    /\ stored' = pass.state
    /\ pass' = Idle
    /\ UNCHANGED <<rec, index, write, code, generation, failures>>

\* A storage operation throws: the pass is given up, and another follows.
FailPass ==
    /\ failures < MaxFailures
    /\ pass.pc # "idle"
    /\ pass' = Idle
    /\ failures' = failures + 1
    /\ UNCHANGED <<rec, index, write, code, generation, stored>>

Maintenance ==
    \/ StartPass
    \/ ReadPage
    \/ \E l \in Leases : AddMember(l) \/ VisitEntry(l) \/ RecheckEntry(l)
    \/ EndPage
    \/ SkipSweep
    \/ ReadEntries
    \/ EndSweepPage
    \/ SavePass

-----------------------------------------------------------------------------
(* The environment *)

\* The deadlines are compared with the clock at the start of a pass only, and
\* lie far beyond its end.
Elapse ==
    /\ pass.pc = "idle"
    /\ stored.auditWait \/ stored.pruneWait
    /\ stored' = [stored EXCEPT !.auditWait = FALSE, !.pruneWait = FALSE]
    /\ UNCHANGED <<rec, index, write, code, generation, pass, failures>>

\* A crash, a deployment or a rollback: a new runtime, with a generation of its
\* own; the pass and the writes under way are lost.
Deploy(c) ==
    /\ generation < MaxGeneration
    /\ generation' = generation + 1
    /\ code' = c
    /\ write' = [l \in Leases |-> "none"]
    /\ pass' = Idle
    /\ UNCHANGED <<rec, index, stored, failures>>

Next ==
    \/ \E l \in Leases : Writers(l) \/ FinishWrite(l)
    \/ Maintenance
    \/ FailPass
    \/ Elapse
    \/ \E c \in Codes : Deploy(c)

Spec == Init /\ [][Next]_vars

\* Passes run to their end and are started again (an alarm, or the trigger
\* every fifteen minutes), deadlines pass although passes go on, and a statement
\* issued is executed.
Fairness ==
    /\ WF_vars(Maintenance)
    /\ SF_vars(Elapse)
    /\ \A l \in Leases : WF_vars(FinishWrite(l))

FairSpec == Spec /\ Fairness

-----------------------------------------------------------------------------
(* Properties *)

TypeOK ==
    /\ rec \in [Leases -> {"absent", "member", "history"}]
    /\ index \subseteq Leases
    /\ write \in [Leases -> {"none", "publishing", "retracting"}]
    /\ code \in {"new", "old"}
    /\ generation \in Nat
    /\ stored \in States
    /\ pass \in Passes
    /\ failures \in Nat

Missing == {l \in Leases : rec[l] = "member" /\ l \notin index}

\* On a coalescing store a member is missing from the index only while a scan
\* that will find it lies ahead, whatever was written, rolled back, pruned or
\* interrupted: the state record is of an earlier runtime, or its cursor has not
\* come to the member.  So a consumer that checks for a complete index of its
\* own generation with no audit under way (capacityUsage) sees every member.
RepairAhead ==
    \A l \in Missing :
      stored.generation # generation \/ (stored.scan # None /\ stored.scan < l)

\* While only code that knows the index writes, a stale entry may be left behind
\* but a member is never missing: the promise of writeInSupersetOrder, and of
\* the recheck in pruneStaleEntries.  (It fails on PostgreSQL, where a sweep can
\* come between the two statements of a writer.)
NeverMissing == Missing = {}

\* A missing member is found again by the daily audit or a new runtime's, on
\* either store, unless code without the index stays.
MissingHealed ==
    \A l \in Leases : l \in Missing ~> l \notin Missing \/ code = "old"

\* An entry left behind by a failed write, a late backfill or a rollback is
\* removed by a later sweep, on either store.
StaleRemoved ==
    \A l \in Leases :
      l \in index /\ rec[l] # "member" ~>
        l \notin index \/ rec[l] = "member" \/ code = "old"
=============================================================================
