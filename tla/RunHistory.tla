----------------------------- MODULE RunHistory -----------------------------
(***************************************************************************)
(* One `crabbox run` and its record at the coordinator: the admission with *)
(* its replays, the attribution of the run to a lease and to a replacement *)
(* lease, the gate in front of the workload, the signed terminal finish    *)
(* that is retained on disk before it is submitted, the failure paths, and *)
(* `receipt --recover`.                                                    *)
(*                                                                         *)
(* A request that the client gave up on can still reach the coordinator    *)
(* later, or never.  The client can die between any two steps; the file    *)
(* of the retained finish survives it.  A finish is the lease its receipt  *)
(* is signed for: nothing else of it is compared with the record.          *)
(***************************************************************************)
EXTENDS Integers, FiniteSets

CONSTANTS
    First, Second,  \* the lease of the run and its replacement
    None,           \* no lease, no finish, no request
    AdmissionAttempts, EventAttempts, FinishAttempts

ASSUME ConstantsAssumption ==
    /\ First # Second /\ None \notin {First, Second}
    /\ {AdmissionAttempts, EventAttempts, FinishAttempts} \subseteq Nat \ {0}

Lease == {First, Second}

AdmissionFailure == "admission failure"

Fingerprint == Lease \cup {AdmissionFailure, None}

(* A request: attempt n of an operation, about a lease or about none. *)
Request ==
    [type : {"put", "bind", "append", "runFailed", "admissionFailed", "finish",
             "recover"},
     n : Nat \ {0},
     lease : Lease \cup {None}]

\* The tags that share a field with leases are not leases.
ASSUME TagsAssumption ==
    /\ \A tag \in {AdmissionFailure, "runFailed", "unset"} :
          tag \notin Lease \cup {None}
    /\ None \notin Request

Run ==
    [state : {"missing", "running", "failed", "succeeded"},
     untouched : BOOLEAN,           \* phase starting, one event
     lease : Lease \cup {None},
     fingerprint : Fingerprint,     \* the committed finish
     receipt : Lease \cup {None},
     workless : BOOLEAN,            \* admissionFailedBeforeWork
     events : SUBSET (Lease \cup {"runFailed"})]    \* event ids

VARIABLES
    run,            \* the coordinator's record
    serving,        \* finishes between their first read and their transaction
    net,            \* requests under way
    pc,             \* where the client is
    awaiting, reply,    \* the request it waits for, and its answer
    tries,
    byID,           \* --id: the lease exists before the admission
    idempotent,     \* the coordinator deduplicates events by id
    admitted,       \* the client has a run handle
    createPending,  \* an admission may still be replayed
    createLease,    \* the frozen admission payload's lease, "unset" before
    lease,          \* the attribution the client knows of
    target,         \* the lease it runs on
    started,        \* the workload was started
    terminalAttempted, confirmed,
    posted,         \* the last finish POST was answered with success
    signed,         \* history: the finish that was retained
    pending         \* the pending-finish file

\* What only the client and its file system change.
clientState == <<pc, awaiting, tries, byID, idempotent, admitted,
                 createPending, createLease, lease, target, started,
                 terminalAttempted, confirmed, posted, signed, pending>>
vars == <<run, serving, net, reply, clientState>>

NoRun ==
    [state |-> "missing", untouched |-> TRUE, lease |-> None,
     fingerprint |-> None, receipt |-> None, workless |-> FALSE, events |-> {}]

Init ==
    /\ run = NoRun
    /\ serving = {}
    /\ net = {}
    /\ byID \in BOOLEAN
    /\ idempotent \in BOOLEAN
    /\ pc = IF byID THEN "lease" ELSE "admit"
    /\ awaiting = None
    /\ reply = "none"
    /\ tries = 0
    /\ admitted = FALSE
    /\ createPending = TRUE
    /\ createLease = "unset"
    /\ lease = None
    /\ target = None
    /\ started = FALSE
    /\ terminalAttempted = FALSE
    /\ confirmed = FALSE
    /\ posted = FALSE
    /\ signed = None
    /\ pending = None

-----------------------------------------------------------------------------
(* The coordinator.  Answer(m, r) reaches the client that still waits for  *)
(* m, unless it is lost.                                                   *)

Answer(m, r) ==
    reply' = IF awaiting = m /\ reply = "none" THEN r ELSE reply

Received(m) ==
    /\ m \in net
    /\ net' = net \ {m}

(* Mutant: an admission always starts a new record. *)
AdmissionRestarts(m) == [NoRun EXCEPT !.state = "running", !.lease = m.lease]

(* The record an admission finds or makes. *)
Admission(m) ==
    IF run.state # "missing" THEN run
    ELSE [NoRun EXCEPT !.state = "running", !.lease = m.lease]

(* PUT /v1/runs/{id} creates the record or replays it.  The client accepts *)
(* only a record that is running and starting.                             *)
CreateRun(m) ==
    /\ m.type = "put"
    /\ Received(m)
    /\ run' = Admission(m)
    /\ \/ Answer(m, IF run'.state = "running" /\ run'.untouched
                      THEN "ok" ELSE "refused")
       \/ UNCHANGED reply
    /\ UNCHANGED serving

(* What an accepted event does to the record: nothing once a finish is     *)
(* committed.                                                              *)
ApplyRunEventSummary(r, m) ==
    IF r.fingerprint # None THEN r
    ELSE [r EXCEPT !.lease = IF m.lease # None THEN m.lease ELSE @,
                   !.state = IF m.type = "runFailed" THEN "failed" ELSE @]

EventID(m) == IF m.type = "runFailed" THEN "runFailed" ELSE m.lease

(* Mutant: events are not deduplicated. *)
NoDuplicate(m) == FALSE

(* An event with an id the record has seen is a duplicate. *)
Duplicate(m) == idempotent /\ EventID(m) \in run.events

AppendRunEvent(m) ==
    /\ m.type \in {"bind", "append", "runFailed"}
    /\ Received(m)
    /\ run' = IF run.state = "missing" \/ Duplicate(m) THEN run
              ELSE [ApplyRunEventSummary(run, m) EXCEPT
                      !.untouched = FALSE,
                      !.events = @ \cup {EventID(m)}]
    /\ \/ Answer(m, IF run.state = "missing" THEN "refused" ELSE "ok")
       \/ UNCHANGED reply
    /\ UNCHANGED serving

(* An admission failure is for the original admission only: it conflicts   *)
(* with a run that was touched or that finished in another way.            *)
AdmissionFailureConflict ==
    IF run.state \in {"missing", "running"} THEN ~run.untouched
                                            ELSE ~run.workless

(* POST /admission-failure finishes the original admission, creating the   *)
(* record if the admission never arrived.                                  *)
FailRunAdmission(m) ==
    /\ m.type = "admissionFailed"
    /\ Received(m)
    /\ run' = IF AdmissionFailureConflict THEN run
              ELSE [Admission(m) EXCEPT !.state = "failed", !.workless = TRUE,
                                        !.fingerprint = AdmissionFailure]
    /\ \/ Answer(m, IF AdmissionFailureConflict THEN "refused" ELSE "ok")
       \/ UNCHANGED reply
    /\ UNCHANGED serving

(* POST /finish reads the record first: a terminal run answers at once, a  *)
(* receipt is verified against the record as it was read.                  *)
ReadForFinish(m) ==
    /\ m.type \in {"finish", "recover"}
    /\ Received(m)
    /\ IF run.state = "running" /\ m.lease = run.lease
         THEN /\ serving' = serving \cup {[request |-> m, lease |-> run.lease]}
              /\ UNCHANGED reply
         ELSE /\ \/ Answer(m, IF run.state # "missing" /\ run.fingerprint = m.lease
                                THEN "ok" ELSE "refused")
                 \/ UNCHANGED reply
              /\ UNCHANGED serving
    /\ UNCHANGED run

(* The binding the receipt was verified against is the record's binding. *)
SameTerminalRunBinding(s) == run.lease = s.lease

(* Its transaction decides on the record as it is then. *)
CommitRunFinish(s) ==
    LET m == s.request
    IN  /\ s \in serving
        /\ serving' = serving \ {s}
        /\ IF run.state = "running" /\ SameTerminalRunBinding(s)
             THEN /\ run' = [run EXCEPT !.state = "succeeded",
                                        !.untouched = FALSE,
                                        !.fingerprint = m.lease,
                                        !.receipt = m.lease]
                  /\ Answer(m, "ok") \/ UNCHANGED reply
             ELSE /\ UNCHANGED run
                  /\ \/ Answer(m, IF run.fingerprint = m.lease THEN "ok"
                                                               ELSE "refused")
                     \/ UNCHANGED reply
        /\ UNCHANGED net

Handle(m) ==
    \/ CreateRun(m) \/ AppendRunEvent(m) \/ FailRunAdmission(m)
    \/ ReadForFinish(m)

(* A request is lost, or the coordinator fails while it serves a finish. *)
Lose(m) ==
    /\ Received(m)
    /\ UNCHANGED <<run, serving, reply>>

Abandon(s) ==
    /\ s \in serving
    /\ serving' = serving \ {s}
    /\ UNCHANGED <<run, net, reply>>

Network ==
    /\ \/ \E m \in net : Handle(m) \/ Lose(m)
       \/ \E s \in serving : CommitRunFinish(s) \/ Abandon(s)
    /\ UNCHANGED clientState

-----------------------------------------------------------------------------
(* The client.  Post sends the next attempt and waits; Settled(r) is the   *)
(* end of the wait, r being "timeout" when the client gave up first.       *)

coordVars == <<run, serving>>

Post(type, about) ==
    /\ awaiting = None
    /\ tries' = tries + 1
    /\ LET m == [type |-> type, n |-> tries + 1, lease |-> about]
       IN  awaiting' = m /\ net' = net \cup {m}
    /\ reply' = "none"

Settled(r) ==
    /\ awaiting # None
    /\ r = IF reply = "none" THEN "timeout" ELSE reply
    /\ awaiting' = None
    /\ reply' = "none"
    /\ UNCHANGED net

modes == <<byID, idempotent>>

(* Mutant: an exchange inherits the attempts of the one before it. *)
NoReset == UNCHANGED tries

(* A new exchange counts its own attempts. *)
Reset == tries' = 0

(* Mutant: a request that was not refused counts as accepted. *)
NotRefused(r) == r # "refused"

(* The answer that a request was accepted. *)
Acknowledged(r) == r = "ok"

(* createRun: the first payload is frozen and replayed under the same id. *)
SendAdmission ==
    /\ pc = "admit"
    /\ createLease' = IF createLease = "unset" THEN target ELSE createLease
    /\ Post("put", createLease')
    /\ UNCHANGED <<coordVars, pending, pc, modes, admitted, createPending,
                   lease, target, started, terminalAttempted, confirmed,
                   posted, signed>>

(* Where the client goes after an admission that it gave up on: before the *)
(* lease it may go on without a handle as long as a replay is possible.    *)
AfterFailedAdmission(retryable) ==
    IF target = None /\ retryable THEN "lease" ELSE "fail"

AdmissionSettled ==
    /\ pc = "admit"
    /\ \E r \in {"ok", "refused", "timeout"} :
          /\ Settled(r)
          /\ \/ /\ Acknowledged(r)
                /\ admitted' = TRUE
                /\ createPending' = FALSE
                /\ lease' = createLease
                /\ pc' = IF target = None THEN "lease" ELSE "attach"
                /\ Reset
             \/ /\ r = "timeout" /\ tries < AdmissionAttempts
                /\ UNCHANGED <<admitted, createPending, lease, pc, tries>>
             \/ /\ r = "refused" \/ (r = "timeout" /\ tries = AdmissionAttempts)
                /\ createPending' = (r = "timeout")
                /\ pc' = AfterFailedAdmission(r = "timeout")
                /\ Reset
                /\ UNCHANGED <<admitted, lease>>
    /\ UNCHANGED <<coordVars, pending, modes, createLease, target, started,
                   terminalAttempted, confirmed, posted, signed>>

(* A lease is acquired, or resolved with --id, and attached to the run. *)
AcquireLease ==
    /\ pc = "lease"
    /\ target' = IF target = None THEN First ELSE Second
    /\ pc' = IF admitted THEN "attach"
             ELSE IF createPending THEN "admit" ELSE "fail"
    /\ UNCHANGED <<coordVars, net, pending, modes, awaiting, reply, tries,
                   admitted, createPending, createLease, lease, started,
                   terminalAttempted, confirmed, posted, signed>>

(* AttachLease without a new attribution: the event needs no answer. *)
AppendLease ==
    /\ pc = "attach"
    /\ lease = target
    /\ net' = net \cup {[type |-> "append", n |-> 1, lease |-> target]}
    /\ pc' = "ready"
    /\ UNCHANGED <<coordVars, pending, modes, awaiting, reply, tries, admitted,
                   createPending, createLease, lease, target, started,
                   terminalAttempted, confirmed, posted, signed>>

(* AttachLease with a new attribution waits for the acknowledgement. *)
SendBinding ==
    /\ pc = "attach"
    /\ lease # target
    /\ Post("bind", target)
    /\ UNCHANGED <<coordVars, pending, pc, modes, admitted, createPending,
                   createLease, lease, target, started, terminalAttempted,
                   confirmed, posted, signed>>

EventTries == IF idempotent THEN EventAttempts ELSE 1

BindingSettled ==
    /\ pc = "attach"
    /\ \E r \in {"ok", "refused", "timeout"} :
          /\ Settled(r)
          /\ \/ /\ Acknowledged(r)
                /\ lease' = target
                /\ pc' = "ready"
                /\ Reset
             \/ /\ r = "timeout" /\ tries < EventTries
                /\ UNCHANGED <<lease, pc, tries>>
             \/ /\ r = "refused" \/ (r = "timeout" /\ tries = EventTries)
                /\ pc' = "fail"
                /\ Reset
                /\ UNCHANGED lease
    /\ UNCHANGED <<coordVars, pending, modes, admitted, createPending,
                   createLease, target, started, terminalAttempted, confirmed,
                   posted, signed>>

(* The machine cannot be reached before the command: the lease is replaced *)
(* once, never one the caller named.                                       *)
ReplaceLease ==
    /\ pc = "ready"
    /\ ~byID /\ target = First
    /\ pc' = "lease"
    /\ UNCHANGED <<coordVars, net, pending, modes, awaiting, reply, tries,
                   admitted, createPending, createLease, lease, target,
                   started, terminalAttempted, confirmed, posted, signed>>

(* No workload without a run handle. *)
RequireHandle == admitted

StartWorkload ==
    /\ pc = "ready"
    /\ RequireHandle
    /\ started' = TRUE
    /\ pc' = "work"
    /\ UNCHANGED <<coordVars, net, pending, modes, awaiting, reply, tries,
                   admitted, createPending, createLease, lease, target,
                   terminalAttempted, confirmed, posted, signed>>

(* The run fails before its terminal finish was attempted. *)
Fail ==
    /\ pc \in {"lease", "ready", "work"}
    /\ pc' = "fail"
    /\ UNCHANGED <<coordVars, net, pending, modes, awaiting, reply, tries,
                   admitted, createPending, createLease, lease, target,
                   started, terminalAttempted, confirmed, posted, signed>>

-----------------------------------------------------------------------------
(* Finish *)

(* The signed finish is retained, durably and exclusively, before it is    *)
(* submitted; it is not submitted when it cannot be retained or when the   *)
(* credentials of the run cannot be refreshed.                             *)
Retain ==
    /\ pc = "work"
    /\ terminalAttempted' = TRUE
    /\ \/ /\ pending' = target
          /\ signed' = target
          /\ pc' \in {"finish", "fail"}
       \/ /\ UNCHANGED <<pending, signed>>
          /\ pc' = "fail"
    /\ UNCHANGED <<coordVars, net, modes, awaiting, reply, tries, admitted,
                   createPending, createLease, lease, target, started,
                   confirmed, posted>>

SendFinish ==
    /\ pc = "finish"
    /\ Post("finish", pending)
    /\ UNCHANGED <<coordVars, pending, pc, modes, admitted, createPending,
                   createLease, lease, target, started, terminalAttempted,
                   confirmed, posted, signed>>

FinishSettled ==
    /\ pc = "finish"
    /\ \E r \in {"ok", "refused", "timeout"} :
          /\ Settled(r)
          /\ posted' = (r = "ok")
          /\ pc' = IF r = "refused" THEN "verifyRefused" ELSE "verify"
    /\ UNCHANGED <<coordVars, pending, modes, tries, admitted, createPending,
                   createLease, lease, target, started, terminalAttempted,
                   confirmed, signed>>

(* The receipt is read back.  Only a successful POST together with an      *)
(* equal receipt confirms the finish and removes the file, which may fail. *)
Confirm ==
    /\ pc = "verify"
    /\ posted
    /\ run.receipt = pending
    /\ pending' \in {None, pending}
    /\ confirmed' = TRUE
    /\ pc' = "end"
    /\ UNCHANGED <<coordVars, net, modes, awaiting, reply, tries, admitted,
                   createPending, createLease, lease, target, started,
                   terminalAttempted, posted, signed>>

(* Mutant: the file is cleaned up with the failed finish. *)
NoFileAfterGivingUp == None

(* What a finish that was given up leaves of the file: all of it. *)
FileAfterGivingUp == pending

(* Otherwise a transient failure is tried again and the rest gives up.     *)
NotConfirmed ==
    /\ pc \in {"verify", "verifyRefused"}
    /\ \/ /\ pc = "verify" /\ tries < FinishAttempts
          /\ run.receipt \in {None, pending}
          /\ pc' = "finish"
          /\ UNCHANGED <<pending, tries>>
       \/ /\ pc' = "fail"
          /\ pending' = FileAfterGivingUp
          /\ Reset
    /\ UNCHANGED <<coordVars, net, modes, awaiting, reply, admitted,
                   createPending, createLease, lease, target, started,
                   terminalAttempted, confirmed, posted, signed>>

-----------------------------------------------------------------------------
(* Failed *)

(* Mutant: a failed finish is followed by run.failed. *)
FailureAlwaysPosted == ~admitted /\ createLease = "unset"

(* Nothing is posted after a terminal attempt, nor for an admission that   *)
(* was never sent.                                                         *)
FailureIsSilent == terminalAttempted \/ (~admitted /\ createLease = "unset")

FailedQuietly ==
    /\ pc = "fail"
    /\ FailureIsSilent
    /\ pc' = "end"
    /\ UNCHANGED <<coordVars, net, pending, modes, awaiting, reply, tries,
                   admitted, createPending, createLease, lease, target,
                   started, terminalAttempted, confirmed, posted, signed>>

(* With a handle the run is recorded as failed; without one the admission, *)
(* which may or may not have arrived, is failed under its own id.          *)
SendFailure ==
    /\ pc = "fail"
    /\ ~FailureIsSilent
    /\ IF admitted THEN Post("runFailed", None)
                   ELSE Post("admissionFailed", createLease)
    /\ UNCHANGED <<coordVars, pending, pc, modes, admitted, createPending,
                   createLease, lease, target, started, terminalAttempted,
                   confirmed, posted, signed>>

FailureTries == IF admitted THEN EventTries ELSE FinishAttempts

FailureSettled ==
    /\ pc = "fail"
    /\ \E r \in {"ok", "refused", "timeout"} :
          /\ Settled(r)
          /\ confirmed' = (r = "ok" /\ ~admitted)
          /\ pc' = IF r = "timeout" /\ tries < FailureTries THEN "fail" ELSE "end"
    /\ UNCHANGED <<coordVars, pending, modes, tries, admitted, createPending,
                   createLease, lease, target, started, terminalAttempted,
                   posted, signed>>

(* The client dies; requests it sent stay under way. *)
Crash ==
    /\ pc \notin {"end", "dead"}
    /\ pc' = "dead"
    /\ awaiting' = None
    /\ reply' = "none"
    /\ UNCHANGED <<coordVars, net, pending, modes, tries, admitted,
                   createPending, createLease, lease, target, started,
                   terminalAttempted, confirmed, posted, signed>>

(* receipt --recover submits the bytes of the file once more, after the    *)
(* record was found to bind them; it never removes the file.               *)
Recover ==
    /\ pc \in {"end", "dead"}
    /\ pending # None
    /\ run.state # "missing" /\ run.lease = pending
    /\ net' = net \cup {[type |-> "recover", n |-> 1, lease |-> pending]}
    /\ UNCHANGED <<coordVars, reply, clientState>>

Client ==
    \/ SendAdmission \/ AdmissionSettled \/ AcquireLease
    \/ AppendLease \/ SendBinding \/ BindingSettled
    \/ ReplaceLease \/ StartWorkload \/ Fail
    \/ Retain \/ SendFinish \/ FinishSettled \/ Confirm \/ NotConfirmed
    \/ FailedQuietly \/ SendFailure \/ FailureSettled

Next == Network \/ Client \/ Crash \/ Recover

Spec == Init /\ [][Next]_vars

(* `crabbox receipt --recover` is run until it succeeds, over a network    *)
(* and by a coordinator that do not lose every submission.                 *)
RecoverArrives == \E m \in net : m.type = "recover" /\ ReadForFinish(m)

RecoverCommits == \E s \in serving : s.request.type = "recover" /\ CommitRunFinish(s)

Fairness ==
    /\ WF_vars(Client)
    /\ WF_vars(Recover)
    /\ SF_vars(RecoverArrives /\ UNCHANGED clientState)
    /\ SF_vars(RecoverCommits /\ UNCHANGED clientState)

FairSpec == Spec /\ Fairness

-----------------------------------------------------------------------------
(* Properties *)

(* The shape of the state; every exchange counts its own attempts and      *)
(* keeps to the bound of its kind (createRun, postRunEvent, Finish).       *)
TypeOK ==
    /\ run \in Run
    /\ net \subseteq Request
    /\ serving \subseteq [request : Request, lease : Lease \cup {None}]
    /\ pc \in {"admit", "lease", "attach", "ready", "work", "finish", "verify",
               "verifyRefused", "fail", "end", "dead"}
    /\ awaiting \in Request \cup {None}
    /\ reply \in {"none", "ok", "refused"}
    /\ tries \in Nat
    /\ \E bound \in {AdmissionAttempts, EventAttempts, FinishAttempts} :
          tries <= bound
    /\ {byID, idempotent, admitted, createPending, started,
        terminalAttempted, confirmed, posted} \subseteq BOOLEAN
    /\ createLease \in Lease \cup {None, "unset"}
    /\ {lease, target, signed, pending} \subseteq Lease \cup {None}

(* A workload runs only under a record that admits it: whatever admission  *)
(* and failure requests are still under way, no run whose workload started *)
(* is ever recorded as failed before any work (requireHandle,              *)
(* failUnacknowledgedAdmission).                                           *)
WorkloadIsAdmitted ==
    started => run.state # "missing" /\ ~run.workless

(* The attribution that was acknowledged to the client is the record's,    *)
(* although earlier attempts of the same or of an earlier binding arrive   *)
(* late (AttachLease, Bind).                                               *)
AttributionHolds ==
    admitted /\ pc \in {"ready", "work", "finish", "verify"} => run.lease = target

(* A finish that is reported as confirmed is the one the record holds, and *)
(* stays: no late admission, event or finish undoes it (Finish,            *)
(* failUnacknowledgedAdmission).                                           *)
ConfirmedIsCommitted ==
    confirmed => /\ run.state \in {"failed", "succeeded"}
                 /\ run.fingerprint = IF signed # None THEN signed
                                                       ELSE AdmissionFailure

(* The signed finish survives: from the moment it is retained it is in the *)
(* file or committed at the coordinator, also when the client dies         *)
(* (retainPendingRunFinish before submission, removePendingRunFinish after *)
(* confirmation).                                                          *)
SignedFinishSurvives ==
    signed # None => pending = signed \/ run.fingerprint = signed

(* Nothing the client does forecloses the finish it retained: the record   *)
(* holds that finish, or it is still running on the lease the finish is    *)
(* signed for and so can still accept it (Failed does nothing after a      *)
(* terminal attempt).                                                      *)
NeverForeclosed ==
    signed # None =>
        \/ run.fingerprint = signed
        \/ run.state = "running" /\ run.lease = signed

(* A run ends once: whatever is still on its way when it ended (a repeated *)
(* admission, an event, a second finish, a failure of the admission), its  *)
(* outcome stays, and its lease too once a result is committed             *)
(* (createRun, appendRunEvent, failRunAdmission, finishRun).               *)
EndsOnce ==
    [][/\ run.state \in {"failed", "succeeded"} =>
            /\ run'.state = run.state /\ run'.workless = run.workless
            /\ run'.fingerprint = run.fingerprint /\ run'.receipt = run.receipt
       /\ run.fingerprint # None => run'.lease = run.lease]_vars

(* A retained finish is eventually committed as long as recovery is run.   *)
RetainedIsCommitted == signed # None ~> run.fingerprint = signed
=============================================================================
