-------------------------- MODULE RunHistoryProofs --------------------------
(***************************************************************************)
(* Proofs about RunHistory, for any bounds on the attempts.                *)
(***************************************************************************)
EXTENDS RunHistory, TLAPS

-----------------------------------------------------------------------------
(***************************************************************************)
(* The inductive invariant.                                                *)
(***************************************************************************)
\* Once the client is here it asks for nothing but the end of the run.
Over == {"fail", "end", "dead"}

\* From the gate in front of the workload to the end of the finish.
Attached == {"ready", "work", "finish", "verify", "verifyRefused"}

\* Every exchange keeps to its bound, and sends only below it.
TriesOK ==
    /\ pc = "admit" => tries <= AdmissionAttempts
    /\ pc = "attach" => tries <= EventTries
    /\ pc \in {"finish", "verify", "verifyRefused"} => tries <= FinishAttempts
    /\ pc = "fail" => tries <= FailureTries
    /\ pc \in {"lease", "ready", "work"} => tries = 0
    /\ pc = "attach" /\ lease = target => tries = 0
    /\ awaiting = None =>
         /\ pc = "admit" => tries < AdmissionAttempts
         /\ pc = "attach" => tries < EventTries
         /\ pc = "finish" => tries < FinishAttempts
         /\ pc = "fail" => tries < FailureTries

\* What the client waits for belongs to the step it is in.
AwaitingOK ==
    /\ awaiting = None => reply = "none"
    /\ awaiting # None =>
         /\ pc \in {"admit", "attach", "finish", "fail"}
         /\ tries > 0
         /\ pc = "admit" => awaiting.type = "put" /\ createLease # "unset"
         /\ pc = "attach" => awaiting.type = "bind" /\ awaiting.lease = target
                           /\ lease # target
         /\ pc = "finish" => awaiting.type = "finish"
         /\ pc = "fail" =>
              /\ ~FailureIsSilent
              /\ awaiting.type = IF admitted THEN "runFailed" ELSE "admissionFailed"

\* How far the client is, by the step it is in.
PhaseOK ==
    /\ pc = "admit" => ~admitted
    /\ pc \in Attached \cup {"attach"} => admitted /\ target # None
    /\ pc \in Attached => lease = target
    /\ pc = "lease" =>
         target = None \/ (target = First /\ lease = First /\ ~byID)
    /\ ~admitted => lease = None /\ ~started /\ ~terminalAttempted
    /\ terminalAttempted => pc \in {"finish", "verify", "verifyRefused"} \cup Over

\* The leases the client knows: the frozen payload's, the acknowledged one
\* and the one it runs on.
LeaseOK ==
    /\ admitted => createLease # "unset"
    /\ createLease \in {"unset", IF byID THEN First ELSE None}
    /\ byID /\ (pc = "admit" \/ createLease # "unset") => target = First
    /\ byID /\ admitted => lease = First
    /\ ~byID /\ (pc = "lease" \/ target # None) => createLease # "unset"
    /\ pc = "attach" /\ lease = target => byID
    /\ lease \in {None, target} \/ (lease = First /\ target = Second)
    /\ target = Second => ~byID /\ lease # None

\* The retained finish is the one of the lease the workload ran on.
SignedOK ==
    /\ signed # None => terminalAttempted /\ lease = signed /\ target = signed
    /\ pc \in {"finish", "verify", "verifyRefused"} => signed # None /\ pending = signed
    /\ pending \in {None, signed}

\* L is a lease the client attached so far.
Known(L) == L = target \/ (L = First /\ target = Second)

\* What a request under way says of the client that sent it.
RequestOK(m) ==
    /\ m.type \in {"put", "admissionFailed"} =>
         createLease # "unset" /\ m.lease = createLease
    /\ m.type = "admissionFailed" => ~admitted /\ pc \in Over
    /\ m.type \in {"bind", "append"} => admitted /\ m.lease \in Lease /\ Known(m.lease)
    /\ m.type = "runFailed" =>
         admitted /\ ~terminalAttempted /\ pc \in Over /\ m.lease = None
    /\ m.type \in {"finish", "recover"} => signed # None /\ m.lease = signed

NetOK ==
    /\ \A m \in net : RequestOK(m)
    /\ \A s \in serving :
         /\ s.request.type \in {"finish", "recover"}
         /\ signed # None /\ s.request.lease = signed /\ s.lease = signed

\* How the record ended, and what that says of the client.
RecordOK ==
    /\ run.state = "missing" => run = NoRun
    /\ run.state = "running" => run.fingerprint = None /\ ~run.workless
    /\ run.state = "succeeded" =>
         signed # None /\ run.fingerprint = signed /\ ~run.workless
    /\ run.state = "failed" =>
         /\ pc \in Over /\ ~terminalAttempted
         /\ run.workless <=> ~admitted
         /\ run.fingerprint = IF admitted THEN None ELSE AdmissionFailure
    /\ run.receipt # None => run.fingerprint = run.receipt
    /\ run.state # "missing" => createLease # "unset"
    /\ admitted => run.state # "missing"
    /\ ~admitted => run.events = {} /\ run.untouched
    /\ \A L \in Lease : L \in run.events => Known(L)

\* No event about L can change the record any more.
Spent(L) ==
    /\ L \in run.events
    /\ idempotent \/ \A m \in net : m.type \in {"bind", "append"} => m.lease # L

\* The lease of the record is that of the last binding that it accepted.
AttributionOK ==
    /\ run.state # "missing" =>
         run.lease = IF Second \in run.events THEN Second
                     ELSE IF First \in run.events THEN First ELSE createLease
    /\ ~byID /\ lease # None => Spent(lease)
    /\ target = Second => Spent(First)
    /\ pc = "attach" /\ ~idempotent =>
         \A m \in net : m.type \in {"bind", "append"} /\ m.lease = target =>
            m = awaiting /\ reply = "none"

\* An acknowledgement is about what the record holds.
ReplyOK ==
    reply = "ok" =>
        /\ pc = "admit" => run.state # "missing"
        /\ pc = "attach" => target \in run.events
        /\ pc = "fail" /\ ~admitted => run.fingerprint = AdmissionFailure

IInv ==
    /\ TypeOK /\ TriesOK /\ AwaitingOK /\ PhaseOK /\ LeaseOK /\ SignedOK
    /\ NetOK /\ RecordOK /\ AttributionOK /\ ReplyOK
    /\ ConfirmedIsCommitted /\ SignedFinishSurvives

-----------------------------------------------------------------------------
(***************************************************************************)
(* What the exchanges and the record updates do.                           *)
(***************************************************************************)
\* Post sends a request of its type, about its lease, and waits for it.
LEMMA PostSends ==
    ASSUME TypeOK,
           NEW type \in {"put", "bind", "runFailed", "admissionFailed", "finish"},
           NEW about \in Lease \cup {None}, Post(type, about)
    PROVE  /\ awaiting' \in Request /\ awaiting' # None
           /\ awaiting'.type = type /\ awaiting'.lease = about
           /\ net' = net \cup {awaiting'} /\ reply' = "none"
           /\ awaiting = None /\ tries' \in Nat /\ tries' = tries + 1
<1>1. awaiting' = [type |-> type, n |-> tries + 1, lease |-> about]
  BY DEF Post
<1>2. tries \in Nat /\ tries + 1 \in Nat \ {0}
  BY DEF TypeOK
<1>3. awaiting' \in Request
  BY <1>1, <1>2 DEF Request
<1>4. QED
  BY <1>1, <1>2, <1>3, TagsAssumption DEF Post

\* Settled ends the wait, and sends nothing.
LEMMA SettledEnds ==
    ASSUME NEW r, Settled(r)
    PROVE  /\ awaiting # None /\ awaiting' = None /\ reply' = "none" /\ net' = net
           /\ r = "ok" => reply = "ok"
  BY DEF Settled

\* The record an admission finds or makes is a record.
LEMMA AdmissionType ==
    ASSUME run \in Run, NEW l \in Lease \cup {None}, NEW m, m.lease = l
    PROVE  Admission(m) \in Run
  BY DEF Admission, NoRun, Run, Fingerprint

\* What an event that is no duplicate makes of the record (AppendRunEvent).
LEMMA AppendedFields ==
    ASSUME run \in Run, NEW m \in Request, m.type \in {"bind", "append", "runFailed"},
           IF m.type = "runFailed" THEN m.lease = None ELSE m.lease \in Lease,
           run.state # "missing", ~Duplicate(m)
    PROVE  LET r == [ApplyRunEventSummary(run, m) EXCEPT
                       !.untouched = FALSE, !.events = @ \cup {EventID(m)}]
           IN  /\ r \in Run
               /\ r.events = run.events \cup {EventID(m)}
               /\ r.fingerprint = run.fingerprint /\ r.receipt = run.receipt
               /\ r.workless = run.workless
               /\ r.lease = IF run.fingerprint = None /\ m.lease # None THEN m.lease
                            ELSE run.lease
               /\ r.state = IF run.fingerprint = None /\ m.type = "runFailed" THEN "failed"
                            ELSE run.state
<1> USE ConstantsAssumption, TagsAssumption
<1>1. EventID(m) \in Lease \cup {"runFailed"}
  BY DEF EventID
<1>2. CASE run.fingerprint = None
  BY <1>1, <1>2 DEF ApplyRunEventSummary, Run
<1>3. CASE run.fingerprint # None
  BY <1>1, <1>3 DEF ApplyRunEventSummary, Run
<1> QED
  BY <1>2, <1>3

\* What a committed finish makes of the record (CommitRunFinish).
LEMMA FinishedFields ==
    ASSUME run \in Run, NEW l \in Lease
    PROVE  LET r == [run EXCEPT !.state = "succeeded", !.untouched = FALSE,
                                !.fingerprint = l, !.receipt = l]
           IN  /\ r \in Run
               /\ r.state = "succeeded" /\ r.fingerprint = l /\ r.receipt = l
               /\ r.lease = run.lease /\ r.workless = run.workless
               /\ r.events = run.events
  BY DEF Run, Fingerprint

-----------------------------------------------------------------------------
(***************************************************************************)
(* The steps of the client, one lemma each.                                *)
(***************************************************************************)
\* The admission puts a request about the frozen payload on its way; nobody knows
\* the record yet.
LEMMA SendAdmissionStep == IInv /\ SendAdmission => IInv'
<1> SUFFICES ASSUME IInv, SendAdmission PROVE IInv'
  OBVIOUS
<1> USE ConstantsAssumption, TagsAssumption DEF Lease
<1>1. createLease' \in Lease \cup {None} /\ createLease' # "unset"
  BY DEF IInv, TypeOK, SendAdmission
<1>2. /\ awaiting' \in Request /\ awaiting' # None
      /\ awaiting'.type = "put" /\ awaiting'.lease = createLease'
      /\ net' = net \cup {awaiting'} /\ reply' = "none"
      /\ awaiting = None /\ tries' \in Nat /\ tries' = tries + 1
  BY <1>1, PostSends DEF IInv, SendAdmission
<1>3. /\ PhaseOK' /\ LeaseOK' /\ SignedOK' /\ RecordOK' /\ ConfirmedIsCommitted'
      /\ SignedFinishSurvives'
  BY DEF IInv, SendAdmission, coordVars, modes, PhaseOK, LeaseOK, SignedOK, RecordOK,
         ConfirmedIsCommitted, SignedFinishSurvives
<1>4. TypeOK'
  BY <1>2 DEF IInv, SendAdmission, coordVars, modes, TypeOK, TriesOK
<1>5. TriesOK'
  BY <1>2 DEF IInv, SendAdmission, TypeOK, TriesOK
<1>6. AwaitingOK'
  BY <1>2 DEF IInv, SendAdmission, TypeOK, AwaitingOK
<1>7. NetOK'
  BY <1>1, <1>2 DEF IInv, SendAdmission, coordVars, NetOK, RequestOK, PhaseOK
<1>8. AttributionOK'
  BY DEF IInv, SendAdmission, coordVars, AttributionOK, PhaseOK, LeaseOK, RecordOK
<1>9. ReplyOK'
  BY <1>2 DEF IInv, SendAdmission, ReplyOK
<1>10. QED
  BY <1>3, <1>4, <1>5, <1>6, <1>7, <1>8, <1>9 DEF IInv

\* An acknowledged admission finds the record there; one that was refused or given
\* up leaves the client before any lease or workload.
LEMMA AdmissionSettledStep == IInv /\ AdmissionSettled => IInv'
<1> SUFFICES ASSUME IInv, AdmissionSettled PROVE IInv'
  OBVIOUS
<1> USE ConstantsAssumption, TagsAssumption DEF Lease
<1>1. /\ awaiting # None /\ awaiting' = None /\ reply' = "none" /\ net' = net
      /\ admitted' => reply = "ok"
  BY SettledEnds DEF AdmissionSettled, Acknowledged, IInv, PhaseOK
<1>2. ConfirmedIsCommitted' /\ SignedFinishSurvives'
  BY DEF IInv, AdmissionSettled, coordVars, ConfirmedIsCommitted, SignedFinishSurvives
<1>3. TypeOK'
  <2>1. /\ createLease # "unset"
        /\ pc' \in {"admit", "lease", "attach", "fail"}
        /\ tries' \in Nat /\ tries' <= AdmissionAttempts
    BY DEF IInv, TypeOK, AwaitingOK, AdmissionSettled, Settled, AfterFailedAdmission,
           Reset
  <2>2. admitted' \in BOOLEAN /\ createPending' \in BOOLEAN
    BY DEF IInv, TypeOK, AdmissionSettled
  <2>3. lease' \in Lease \cup {None}
    BY <2>1 DEF IInv, TypeOK, AdmissionSettled
  <2>4. QED
    BY <2>1, <2>2, <2>3 DEF IInv, TypeOK, AdmissionSettled, Settled, coordVars, modes
<1>4. TriesOK'
  BY DEF IInv, AdmissionSettled, Reset, TriesOK, EventTries, FailureTries
<1>5. AwaitingOK'
  BY <1>1 DEF IInv, AdmissionSettled, AwaitingOK
<1>6. PhaseOK'
  BY DEF IInv, AdmissionSettled, AfterFailedAdmission, PhaseOK, Attached
<1>7. LeaseOK'
  BY <1>1
     DEF IInv, AdmissionSettled, modes, AfterFailedAdmission, AwaitingOK, PhaseOK,
         LeaseOK
<1>8. SignedOK'
  BY DEF IInv, AdmissionSettled, AfterFailedAdmission, SignedOK, PhaseOK
<1>9. NetOK'
  BY <1>1 DEF IInv, AdmissionSettled, coordVars, NetOK, RequestOK, PhaseOK, Over
<1>10. RecordOK'
  BY <1>1 DEF IInv, AdmissionSettled, coordVars, RecordOK, PhaseOK, Over, ReplyOK
<1>11. AttributionOK'
  BY <1>1
     DEF IInv, AdmissionSettled, coordVars, modes, AttributionOK, PhaseOK, LeaseOK,
         NetOK, RequestOK, AwaitingOK
<1>12. ReplyOK'
  BY <1>1 DEF IInv, AdmissionSettled, ReplyOK
<1>13. QED
  BY <1>2, <1>3, <1>4, <1>5, <1>6, <1>7, <1>8, <1>9, <1>10, <1>11, <1>12 DEF IInv

\* The first lease becomes the target while no binding about it is under way.
LEMMA AcquireLeaseStep == IInv /\ AcquireLease => IInv'
<1> SUFFICES ASSUME IInv, AcquireLease PROVE IInv'
  OBVIOUS
<1> USE ConstantsAssumption, TagsAssumption DEF Lease
<1>1. /\ TypeOK' /\ TriesOK' /\ AwaitingOK' /\ PhaseOK' /\ NetOK' /\ RecordOK'
      /\ ConfirmedIsCommitted' /\ SignedFinishSurvives'
  BY DEF IInv, AcquireLease, coordVars, modes, TypeOK, TriesOK, EventTries,
         FailureTries, AwaitingOK, PhaseOK, Attached, Over, NetOK, RequestOK, Known,
         RecordOK, ConfirmedIsCommitted, SignedFinishSurvives
<1>2. LeaseOK'
  BY DEF IInv, AcquireLease, modes, PhaseOK, LeaseOK
<1>3. SignedOK'
  BY DEF IInv, AcquireLease, SignedOK, PhaseOK, Over
<1>4. AttributionOK'
  BY DEF IInv, AcquireLease, coordVars, modes, AttributionOK, Spent, PhaseOK, NetOK,
         RequestOK, Known
<1>5. ReplyOK'
  BY DEF IInv, AcquireLease, ReplyOK, AwaitingOK
<1>6. QED
  BY <1>1, <1>2, <1>3, <1>4, <1>5 DEF IInv

\* The lease event that is not waited for is about the target, as bindings are.
LEMMA AppendLeaseStep == IInv /\ AppendLease => IInv'
<1> SUFFICES ASSUME IInv, AppendLease PROVE IInv'
  OBVIOUS
<1> USE ConstantsAssumption, TagsAssumption DEF Lease
<1>1. /\ TriesOK' /\ AwaitingOK' /\ PhaseOK' /\ LeaseOK' /\ SignedOK' /\ RecordOK'
      /\ ReplyOK' /\ ConfirmedIsCommitted' /\ SignedFinishSurvives'
  BY DEF IInv, AppendLease, coordVars, modes, TriesOK, AwaitingOK, PhaseOK, Over,
         LeaseOK, SignedOK, RecordOK, Known, ReplyOK, ConfirmedIsCommitted,
         SignedFinishSurvives
<1>2. TypeOK'
  BY DEF IInv, AppendLease, coordVars, modes, TypeOK, Request
<1>3. NetOK'
  BY DEF IInv, AppendLease, coordVars, NetOK, RequestOK, Known, PhaseOK, Over, LeaseOK
<1>4. AttributionOK'
  BY DEF IInv, AppendLease, coordVars, modes, AttributionOK, LeaseOK
<1>5. QED
  BY <1>1, <1>2, <1>3, <1>4 DEF IInv

\* A binding about the target is sent, without idempotency once only.
LEMMA SendBindingStep == IInv /\ SendBinding => IInv'
<1> SUFFICES ASSUME IInv, SendBinding PROVE IInv'
  OBVIOUS
<1> USE ConstantsAssumption, TagsAssumption DEF Lease
<1>1. /\ awaiting' \in Request /\ awaiting' # None
      /\ awaiting'.type = "bind" /\ awaiting'.lease = target
      /\ net' = net \cup {awaiting'} /\ reply' = "none"
      /\ awaiting = None /\ tries' \in Nat /\ tries' = tries + 1
  BY PostSends DEF IInv, TypeOK, SendBinding
<1>2. /\ PhaseOK' /\ LeaseOK' /\ SignedOK' /\ RecordOK' /\ ConfirmedIsCommitted'
      /\ SignedFinishSurvives'
  BY DEF IInv, SendBinding, coordVars, modes, PhaseOK, LeaseOK, SignedOK, RecordOK,
         Known, ConfirmedIsCommitted, SignedFinishSurvives
<1>3. TypeOK'
  BY <1>1 DEF IInv, SendBinding, coordVars, modes, TypeOK, TriesOK, EventTries
<1>4. TriesOK'
  BY <1>1 DEF IInv, SendBinding, modes, TypeOK, TriesOK, EventTries
<1>5. AwaitingOK'
  BY <1>1 DEF IInv, SendBinding, TypeOK, AwaitingOK
<1>6. NetOK'
  BY <1>1 DEF IInv, SendBinding, coordVars, NetOK, RequestOK, Known, PhaseOK, Request
<1>7. AttributionOK'
  BY <1>1 DEF IInv, SendBinding, coordVars, modes, TypeOK, AttributionOK, Spent
<1>8. ReplyOK'
  BY <1>1 DEF IInv, SendBinding, ReplyOK
<1>9. QED
  BY <1>2, <1>3, <1>4, <1>5, <1>6, <1>7, <1>8 DEF IInv

\* An acknowledged binding is in the record and cannot come again: it is a
\* duplicate there, or was sent once.
LEMMA BindingSettledStep == IInv /\ BindingSettled => IInv'
<1> SUFFICES ASSUME IInv, BindingSettled PROVE IInv'
  OBVIOUS
<1> USE ConstantsAssumption, TagsAssumption DEF Lease
<1>1. /\ awaiting # None /\ awaiting' = None /\ reply' = "none" /\ net' = net
      /\ pc' = "ready" => reply = "ok"
  BY SettledEnds DEF BindingSettled, Acknowledged
<1>2. /\ PhaseOK' /\ LeaseOK' /\ SignedOK' /\ RecordOK' /\ ConfirmedIsCommitted'
      /\ SignedFinishSurvives'
  BY DEF IInv, BindingSettled, coordVars, modes, PhaseOK, Attached, Over, LeaseOK,
         SignedOK, RecordOK, Known, ConfirmedIsCommitted, SignedFinishSurvives
<1>3. TypeOK'
  BY <1>1 DEF IInv, BindingSettled, coordVars, modes, Reset, TypeOK
<1>4. TriesOK'
  BY DEF IInv, BindingSettled, modes, Reset, TriesOK, EventTries, FailureTries
<1>5. AwaitingOK'
  BY <1>1 DEF IInv, BindingSettled, AwaitingOK
<1>6. NetOK'
  BY <1>1 DEF IInv, BindingSettled, coordVars, NetOK, RequestOK, Known, Over
<1>7. AttributionOK'
  BY <1>1
     DEF IInv, BindingSettled, coordVars, modes, TypeOK, AttributionOK, Spent,
         ReplyOK, AwaitingOK, EventTries
<1>8. ReplyOK'
  BY <1>1 DEF IInv, BindingSettled, ReplyOK
<1>9. QED
  BY <1>2, <1>3, <1>4, <1>5, <1>6, <1>7, <1>8 DEF IInv

\* The lease is replaced only when every event about the first one is spent.
LEMMA ReplaceLeaseStep == IInv /\ ReplaceLease => IInv'
<1> SUFFICES ASSUME IInv, ReplaceLease PROVE IInv'
  OBVIOUS
<1> USE ConstantsAssumption, TagsAssumption DEF Lease
<1>1. /\ TypeOK' /\ TriesOK' /\ AwaitingOK' /\ PhaseOK' /\ LeaseOK' /\ SignedOK'
      /\ NetOK' /\ RecordOK' /\ AttributionOK' /\ ReplyOK' /\ ConfirmedIsCommitted'
      /\ SignedFinishSurvives'
  BY DEF IInv, ReplaceLease, coordVars, modes, TypeOK, TriesOK, AwaitingOK, PhaseOK,
         Attached, Over, LeaseOK, SignedOK, NetOK, RequestOK, Known, RecordOK,
         AttributionOK, Spent, ReplyOK, ConfirmedIsCommitted, SignedFinishSurvives
<1>2. QED
  BY <1>1 DEF IInv

\* The workload starts on the lease that was acknowledged.
LEMMA StartWorkloadStep == IInv /\ StartWorkload => IInv'
<1> SUFFICES ASSUME IInv, StartWorkload PROVE IInv'
  OBVIOUS
<1> USE ConstantsAssumption, TagsAssumption DEF Lease
<1>1. /\ TypeOK' /\ TriesOK' /\ AwaitingOK' /\ PhaseOK' /\ LeaseOK' /\ SignedOK'
      /\ NetOK' /\ RecordOK' /\ AttributionOK' /\ ReplyOK' /\ ConfirmedIsCommitted'
      /\ SignedFinishSurvives'
  BY DEF IInv, StartWorkload, coordVars, modes, TypeOK, TriesOK, AwaitingOK, PhaseOK,
         Attached, Over, LeaseOK, SignedOK, NetOK, RequestOK, Known, RecordOK,
         AttributionOK, Spent, ReplyOK, ConfirmedIsCommitted, SignedFinishSurvives
<1>2. QED
  BY <1>1 DEF IInv

\* A run that fails sends no finish from then on.
LEMMA FailStep == IInv /\ Fail => IInv'
<1> SUFFICES ASSUME IInv, Fail PROVE IInv'
  OBVIOUS
<1> USE ConstantsAssumption, TagsAssumption DEF Lease
<1>1. /\ TypeOK' /\ TriesOK' /\ AwaitingOK' /\ PhaseOK' /\ LeaseOK' /\ SignedOK'
      /\ NetOK' /\ RecordOK' /\ AttributionOK' /\ ConfirmedIsCommitted'
      /\ SignedFinishSurvives'
  BY DEF IInv, Fail, coordVars, modes, TypeOK, TriesOK, EventTries, FailureTries,
         AwaitingOK, PhaseOK, Attached, Over, LeaseOK, SignedOK, NetOK, RequestOK,
         Known, RecordOK, AttributionOK, Spent, ConfirmedIsCommitted,
         SignedFinishSurvives
<1>2. ReplyOK'
  BY DEF IInv, Fail, ReplyOK, AwaitingOK
<1>3. QED
  BY <1>1, <1>2 DEF IInv

\* The finish is signed for the lease of the record and is in its file at once.
LEMMA RetainStep == IInv /\ Retain => IInv'
<1> SUFFICES ASSUME IInv, Retain PROVE IInv'
  OBVIOUS
<1> USE ConstantsAssumption, TagsAssumption DEF Lease
<1>1. /\ TypeOK' /\ TriesOK' /\ AwaitingOK' /\ PhaseOK' /\ LeaseOK' /\ AttributionOK'
      /\ SignedFinishSurvives'
  BY DEF IInv, Retain, coordVars, modes, TypeOK, TriesOK, EventTries, FailureTries,
         AwaitingOK, PhaseOK, Attached, Over, LeaseOK, AttributionOK, Spent,
         SignedFinishSurvives
<1>2. SignedOK'
  BY DEF IInv, Retain, SignedOK, PhaseOK, Attached
<1>3. NetOK'
  BY DEF IInv, Retain, coordVars, NetOK, RequestOK, Known, Over, SignedOK
<1>4. RecordOK'
  BY DEF IInv, Retain, coordVars, RecordOK, Known, Over, SignedOK
<1>5. ReplyOK'
  BY DEF IInv, Retain, ReplyOK, AwaitingOK
<1>6. ConfirmedIsCommitted'
  BY DEF IInv, Retain, ConfirmedIsCommitted, RecordOK, PhaseOK, Over, SignedOK
<1>7. QED
  BY <1>1, <1>2, <1>3, <1>4, <1>5, <1>6 DEF IInv

\* The finish is sent only once it is in its file.
LEMMA SendFinishStep == IInv /\ SendFinish => IInv'
<1> SUFFICES ASSUME IInv, SendFinish PROVE IInv'
  OBVIOUS
<1> USE ConstantsAssumption, TagsAssumption DEF Lease
<1>1. /\ awaiting' \in Request /\ awaiting' # None
      /\ awaiting'.type = "finish" /\ awaiting'.lease = pending
      /\ net' = net \cup {awaiting'} /\ reply' = "none"
      /\ awaiting = None /\ tries' \in Nat /\ tries' = tries + 1
  BY PostSends DEF IInv, TypeOK, SendFinish
<1>2. /\ PhaseOK' /\ LeaseOK' /\ SignedOK' /\ RecordOK' /\ ReplyOK'
      /\ ConfirmedIsCommitted' /\ SignedFinishSurvives'
  BY DEF IInv, SendFinish, coordVars, modes, PhaseOK, LeaseOK, SignedOK, RecordOK,
         Known, ReplyOK, ConfirmedIsCommitted, SignedFinishSurvives
<1>3. TypeOK'
  BY <1>1 DEF IInv, SendFinish, coordVars, modes, TypeOK, TriesOK
<1>4. TriesOK'
  BY <1>1 DEF IInv, SendFinish, TypeOK, TriesOK
<1>5. AwaitingOK'
  BY <1>1 DEF IInv, SendFinish, TypeOK, AwaitingOK
<1>6. NetOK'
  BY <1>1 DEF IInv, SendFinish, coordVars, NetOK, RequestOK, Known, SignedOK
<1>7. AttributionOK'
  BY <1>1 DEF IInv, SendFinish, coordVars, modes, AttributionOK, Spent
<1>8. QED
  BY <1>2, <1>3, <1>4, <1>5, <1>6, <1>7 DEF IInv

\* An unanswered or refused finish leaves the file where it is.
LEMMA FinishSettledStep == IInv /\ FinishSettled => IInv'
<1> SUFFICES ASSUME IInv, FinishSettled PROVE IInv'
  OBVIOUS
<1> USE ConstantsAssumption, TagsAssumption DEF Lease
<1>1. /\ awaiting # None /\ awaiting' = None /\ reply' = "none" /\ net' = net
  BY SettledEnds DEF FinishSettled
<1>2. /\ TriesOK' /\ PhaseOK' /\ LeaseOK' /\ SignedOK' /\ RecordOK' /\ ReplyOK'
      /\ ConfirmedIsCommitted' /\ SignedFinishSurvives'
  BY DEF IInv, FinishSettled, coordVars, modes, TriesOK, PhaseOK, LeaseOK, SignedOK,
         RecordOK, Known, ReplyOK, ConfirmedIsCommitted, SignedFinishSurvives
<1>3. TypeOK'
  BY <1>1 DEF IInv, FinishSettled, coordVars, modes, TypeOK
<1>4. AwaitingOK'
  BY <1>1 DEF IInv, FinishSettled, AwaitingOK
<1>5. NetOK'
  BY <1>1 DEF IInv, FinishSettled, coordVars, NetOK, RequestOK, Known, Over
<1>6. AttributionOK'
  BY <1>1 DEF IInv, FinishSettled, coordVars, modes, AttributionOK, Spent
<1>7. QED
  BY <1>2, <1>3, <1>4, <1>5, <1>6 DEF IInv

\* The file goes only after the record was seen to hold its finish.
LEMMA ConfirmStep == IInv /\ Confirm => IInv'
<1> SUFFICES ASSUME IInv, Confirm PROVE IInv'
  OBVIOUS
<1> USE ConstantsAssumption, TagsAssumption DEF Lease
<1>1. /\ TypeOK' /\ TriesOK' /\ AwaitingOK' /\ PhaseOK' /\ LeaseOK' /\ SignedOK'
      /\ NetOK' /\ RecordOK' /\ AttributionOK' /\ ReplyOK'
  BY DEF IInv, Confirm, coordVars, modes, TypeOK, TriesOK, AwaitingOK, PhaseOK, Over,
         LeaseOK, SignedOK, NetOK, RequestOK, Known, RecordOK, AttributionOK, Spent,
         ReplyOK
<1>2. ConfirmedIsCommitted'
  BY DEF IInv, Confirm, coordVars, TypeOK, Run, ConfirmedIsCommitted, RecordOK,
         PhaseOK, SignedOK
<1>3. SignedFinishSurvives'
  BY DEF IInv, Confirm, coordVars, SignedFinishSurvives, RecordOK
<1>4. QED
  BY <1>1, <1>2, <1>3 DEF IInv

\* A finish that could not be confirmed stays in its file.
LEMMA NotConfirmedStep == IInv /\ NotConfirmed => IInv'
<1> SUFFICES ASSUME IInv, NotConfirmed PROVE IInv'
  OBVIOUS
<1> USE ConstantsAssumption, TagsAssumption DEF Lease
<1>1. /\ AwaitingOK' /\ PhaseOK' /\ LeaseOK' /\ NetOK' /\ RecordOK' /\ AttributionOK'
      /\ ConfirmedIsCommitted'
  BY DEF IInv, NotConfirmed, coordVars, modes, AwaitingOK, PhaseOK, Attached, Over,
         LeaseOK, NetOK, RequestOK, Known, RecordOK, AttributionOK, Spent,
         ConfirmedIsCommitted
<1>2. TypeOK'
  BY DEF IInv, NotConfirmed, coordVars, modes, Reset, FileAfterGivingUp, TypeOK
<1>3. TriesOK'
  BY DEF IInv, NotConfirmed, Reset, TriesOK, EventTries, FailureTries
<1>4. SignedOK'
  BY DEF IInv, NotConfirmed, FileAfterGivingUp, SignedOK
<1>5. ReplyOK'
  BY DEF IInv, NotConfirmed, ReplyOK, AwaitingOK
<1>6. SignedFinishSurvives'
  BY DEF IInv, NotConfirmed, FileAfterGivingUp, SignedFinishSurvives, SignedOK
<1>7. QED
  BY <1>1, <1>2, <1>3, <1>4, <1>5, <1>6 DEF IInv

\* A failure after a terminal attempt sends nothing to the record.
LEMMA FailedQuietlyStep == IInv /\ FailedQuietly => IInv'
<1> SUFFICES ASSUME IInv, FailedQuietly PROVE IInv'
  OBVIOUS
<1> USE ConstantsAssumption, TagsAssumption DEF Lease
<1>1. /\ TypeOK' /\ TriesOK' /\ AwaitingOK' /\ PhaseOK' /\ LeaseOK' /\ SignedOK'
      /\ NetOK' /\ RecordOK' /\ AttributionOK' /\ ReplyOK' /\ ConfirmedIsCommitted'
      /\ SignedFinishSurvives'
  BY DEF IInv, FailedQuietly, coordVars, modes, TypeOK, TriesOK, AwaitingOK, PhaseOK,
         Attached, Over, LeaseOK, SignedOK, NetOK, RequestOK, Known, RecordOK,
         AttributionOK, Spent, ReplyOK, ConfirmedIsCommitted, SignedFinishSurvives
<1>2. QED
  BY <1>1 DEF IInv

\* A failure that is sent names the admission, or the run it admitted.
LEMMA SendFailureStep == IInv /\ SendFailure => IInv'
<1> SUFFICES ASSUME IInv, SendFailure PROVE IInv'
  OBVIOUS
<1> USE ConstantsAssumption, TagsAssumption DEF Lease
<1>1. /\ awaiting' \in Request /\ awaiting' # None
      /\ awaiting'.type = IF admitted THEN "runFailed" ELSE "admissionFailed"
      /\ awaiting'.lease = IF admitted THEN None ELSE createLease
      /\ net' = net \cup {awaiting'} /\ reply' = "none"
      /\ awaiting = None /\ tries' \in Nat /\ tries' = tries + 1
  BY PostSends DEF IInv, TypeOK, SendFailure, FailureIsSilent
<1>2. /\ PhaseOK' /\ LeaseOK' /\ SignedOK' /\ RecordOK' /\ ConfirmedIsCommitted'
      /\ SignedFinishSurvives'
  BY DEF IInv, SendFailure, coordVars, modes, PhaseOK, LeaseOK, SignedOK, RecordOK,
         Known, ConfirmedIsCommitted, SignedFinishSurvives
<1>3. TypeOK'
  BY <1>1
     DEF IInv, SendFailure, coordVars, modes, TypeOK, TriesOK, EventTries, FailureTries
<1>4. TriesOK'
  BY <1>1 DEF IInv, SendFailure, modes, TypeOK, TriesOK, EventTries, FailureTries
<1>5. AwaitingOK'
  BY <1>1 DEF IInv, SendFailure, TypeOK, FailureIsSilent, AwaitingOK
<1>6. NetOK'
  BY <1>1
     DEF IInv, SendFailure, coordVars, NetOK, RequestOK, Known, Over, FailureIsSilent
<1>7. AttributionOK'
  BY <1>1 DEF IInv, SendFailure, coordVars, modes, AttributionOK, Spent
<1>8. ReplyOK'
  BY <1>1 DEF IInv, SendFailure, ReplyOK
<1>9. QED
  BY <1>2, <1>3, <1>4, <1>5, <1>6, <1>7, <1>8 DEF IInv

\* An acknowledged failure of an admission is in the record.
LEMMA FailureSettledStep == IInv /\ FailureSettled => IInv'
<1> SUFFICES ASSUME IInv, FailureSettled PROVE IInv'
  OBVIOUS
<1> USE ConstantsAssumption, TagsAssumption DEF Lease
<1>1. /\ awaiting # None /\ awaiting' = None /\ reply' = "none" /\ net' = net
  BY SettledEnds DEF FailureSettled
<1>2. /\ TriesOK' /\ PhaseOK' /\ LeaseOK' /\ SignedOK' /\ RecordOK'
      /\ SignedFinishSurvives'
  BY DEF IInv, FailureSettled, coordVars, modes, TriesOK, EventTries, FailureTries,
         PhaseOK, Attached, Over, LeaseOK, SignedOK, RecordOK, Known,
         SignedFinishSurvives
<1>3. TypeOK'
  BY <1>1 DEF IInv, FailureSettled, coordVars, modes, TypeOK
<1>4. AwaitingOK'
  BY <1>1 DEF IInv, FailureSettled, AwaitingOK
<1>5. NetOK'
  BY <1>1 DEF IInv, FailureSettled, coordVars, NetOK, RequestOK, Known, Over
<1>6. AttributionOK'
  BY <1>1 DEF IInv, FailureSettled, coordVars, modes, AttributionOK, Spent
<1>7. ReplyOK'
  BY <1>1 DEF IInv, FailureSettled, ReplyOK
<1>8. ConfirmedIsCommitted'
  <2>1. CASE ~confirmed'
    BY <2>1 DEF ConfirmedIsCommitted
  <2>2. CASE confirmed'
    <3>1. reply = "ok" /\ ~admitted /\ UNCHANGED <<run, signed>>
      BY <2>2 DEF FailureSettled, Settled, coordVars
    <3>2. signed = None
      BY <3>1 DEF IInv, SignedOK, PhaseOK
    <3>3. run.fingerprint = AdmissionFailure
      BY <3>1 DEF IInv, ReplyOK, FailureSettled
    <3>4. run.state \in {"failed", "succeeded"}
      BY <3>3 DEF IInv, RecordOK, NoRun, TypeOK, Run
    <3> QED
      BY <3>1, <3>2, <3>3, <3>4 DEF ConfirmedIsCommitted
  <2> QED
    BY <2>1, <2>2
<1>9. QED
  BY <1>2, <1>3, <1>4, <1>5, <1>6, <1>7, <1>8 DEF IInv

\* A crash loses the client's state but neither the file nor the requests.
LEMMA CrashStep == IInv /\ Crash => IInv'
<1> SUFFICES ASSUME IInv, Crash PROVE IInv'
  OBVIOUS
<1> USE ConstantsAssumption, TagsAssumption DEF Lease
<1>1. /\ TypeOK' /\ TriesOK' /\ AwaitingOK' /\ PhaseOK' /\ LeaseOK' /\ SignedOK'
      /\ NetOK' /\ RecordOK' /\ AttributionOK' /\ ReplyOK' /\ ConfirmedIsCommitted'
      /\ SignedFinishSurvives'
  BY DEF IInv, Crash, coordVars, modes, TypeOK, TriesOK, AwaitingOK, PhaseOK,
         Attached, Over, LeaseOK, SignedOK, NetOK, RequestOK, Known, RecordOK,
         AttributionOK, Spent, ReplyOK, ConfirmedIsCommitted, SignedFinishSurvives
<1>2. QED
  BY <1>1 DEF IInv

\* Recovery sends the retained finish again.
LEMMA RecoverStep == IInv /\ Recover => IInv'
<1> SUFFICES ASSUME IInv, Recover PROVE IInv'
  OBVIOUS
<1> USE ConstantsAssumption, TagsAssumption DEF Lease
<1>1. TriesOK' /\ AwaitingOK' /\ PhaseOK' /\ LeaseOK' /\ SignedOK' /\ ReplyOK'
  BY DEF IInv, Recover, clientState, TriesOK, AwaitingOK, PhaseOK, LeaseOK, SignedOK,
         ReplyOK
<1>2. TypeOK'
  BY DEF IInv, Recover, clientState, coordVars, TypeOK, Request
<1>3. NetOK'
  BY DEF IInv, Recover, clientState, coordVars, NetOK, RequestOK, Known, SignedOK
<1>4. RecordOK'
  BY DEF IInv, Recover, clientState, coordVars, RecordOK, Known
<1>5. AttributionOK'
  BY DEF IInv, Recover, clientState, coordVars, AttributionOK, Spent
<1>6. ConfirmedIsCommitted'
  BY DEF IInv, Recover, clientState, coordVars, ConfirmedIsCommitted
<1>7. SignedFinishSurvives'
  BY DEF IInv, Recover, clientState, SignedFinishSurvives, SignedOK
<1>8. QED
  BY <1>1, <1>2, <1>3, <1>4, <1>5, <1>6, <1>7 DEF IInv

-----------------------------------------------------------------------------
(***************************************************************************)
(* The steps of the coordinator, one lemma each.                           *)
(***************************************************************************)
\* An admission that arrives late finds the record as it is.
LEMMA CreateRunStep ==
    ASSUME IInv, NEW m \in net, CreateRun(m), UNCHANGED clientState
    PROVE  IInv'
<1> USE ConstantsAssumption, TagsAssumption DEF Lease
<1>1. run' \in Run
  BY AdmissionType DEF IInv, TypeOK, CreateRun, Request
<1>2. TriesOK' /\ PhaseOK' /\ LeaseOK' /\ SignedOK' /\ NetOK'
  BY DEF IInv, CreateRun, clientState, Received, TriesOK, EventTries, FailureTries,
         PhaseOK, LeaseOK, SignedOK, NetOK, RequestOK, Known
<1>3. TypeOK'
  BY <1>1 DEF IInv, CreateRun, clientState, Received, Answer, TypeOK
<1>4. AwaitingOK'
  BY DEF IInv, CreateRun, clientState, Answer, AwaitingOK, TypeOK, FailureIsSilent
<1>5. RecordOK'
  BY DEF IInv, CreateRun, clientState, NoRun, NetOK, RequestOK, Admission, RecordOK,
         Known
<1>6. AttributionOK'
  BY DEF IInv, CreateRun, clientState, Received, Answer, NetOK, RequestOK, Admission,
         AttributionOK, Spent, RecordOK
<1>7. ReplyOK'
  BY DEF IInv, CreateRun, clientState, Answer, AwaitingOK, Admission, TypeOK,
         ReplyOK, RecordOK
<1>8. ConfirmedIsCommitted'
  BY DEF IInv, CreateRun, clientState, Admission, ConfirmedIsCommitted
<1>9. SignedFinishSurvives'
  BY DEF IInv, CreateRun, clientState, Admission, SignedFinishSurvives, RecordOK
<1>10. QED
  BY <1>2, <1>3, <1>4, <1>5, <1>6, <1>7, <1>8, <1>9 DEF IInv

\* An admission failure ends only a run that nobody admitted.
LEMMA FailRunAdmissionStep ==
    ASSUME IInv, NEW m \in net, FailRunAdmission(m), UNCHANGED clientState
    PROVE  IInv'
<1> USE ConstantsAssumption, TagsAssumption DEF Lease
<1>1. run' \in Run
  <2>1. Admission(m) \in Run
    BY AdmissionType DEF IInv, TypeOK, Request
  <2>2. QED
    BY <2>1 DEF IInv, TypeOK, FailRunAdmission, Run, Fingerprint
<1>2. TriesOK' /\ PhaseOK' /\ LeaseOK' /\ SignedOK' /\ NetOK'
  BY DEF IInv, FailRunAdmission, clientState, Received, TriesOK, FailureTries,
         PhaseOK, LeaseOK, SignedOK, NetOK, RequestOK
<1>3. TypeOK'
  BY <1>1 DEF IInv, FailRunAdmission, clientState, Received, Answer, TypeOK
<1>4. AwaitingOK'
  BY DEF IInv, FailRunAdmission, clientState, Answer, AwaitingOK, TypeOK,
         FailureIsSilent
<1>5. RecordOK'
  BY DEF IInv, FailRunAdmission, clientState, Run, NoRun, NetOK, RequestOK,
         Admission, TypeOK, RecordOK, PhaseOK, SignedOK
<1>6. AttributionOK'
  BY DEF IInv, FailRunAdmission, clientState, NetOK, RequestOK, Admission,
         AttributionOK, PhaseOK, LeaseOK, RecordOK
<1>7. ReplyOK'
  BY DEF IInv, FailRunAdmission, clientState, Answer, AwaitingOK, Admission, TypeOK,
         ReplyOK, RecordOK
<1>8. ConfirmedIsCommitted'
  BY DEF IInv, FailRunAdmission, clientState, AdmissionFailureConflict,
         ConfirmedIsCommitted, RecordOK
<1>9. SignedFinishSurvives'
  BY DEF IInv, FailRunAdmission, clientState, Run, NoRun, AdmissionFailureConflict,
         TypeOK, SignedFinishSurvives, RecordOK
<1>10. QED
  BY <1>2, <1>3, <1>4, <1>5, <1>6, <1>7, <1>8, <1>9 DEF IInv

\* An event moves the lease of the record only in the order in which the client
\* bound them: what arrives out of order is a duplicate.
LEMMA AppendRunEventStep ==
    ASSUME IInv, NEW m \in net, AppendRunEvent(m), UNCHANGED clientState
    PROVE  IInv'
<1> USE ConstantsAssumption, TagsAssumption DEF Lease
<1>1. /\ m \in Request /\ admitted /\ run \in Run /\ run.state # "missing"
      /\ m.type \in {"bind", "append", "runFailed"}
      /\ IF m.type = "runFailed" THEN m.lease = None ELSE m.lease \in Lease
      /\ EventID(m) = IF m.type = "runFailed" THEN "runFailed" ELSE m.lease
  BY DEF IInv, TypeOK, NetOK, RequestOK, RecordOK, AppendRunEvent, EventID
<1>2. /\ net' = net \ {m} /\ serving' = serving
      /\ reply' # reply => awaiting = m /\ reply = "none"
  BY DEF AppendRunEvent, Received, Answer
<1>3. awaiting = m =>
        /\ pc # "admit" /\ (pc = "fail" => admitted)
        /\ pc = "attach" => m.lease = target /\ m.type = "bind"
  BY <1>1 DEF IInv, AwaitingOK
<1>4. ASSUME Duplicate(m)
      PROVE  /\ TypeOK' /\ RecordOK' /\ AttributionOK' /\ ReplyOK'
             /\ ConfirmedIsCommitted' /\ SignedFinishSurvives'
  <2>1. run' = run
    BY <1>4 DEF AppendRunEvent
  <2>2. TypeOK'
    BY <1>2, <2>1 DEF IInv, TypeOK, AppendRunEvent, Answer, clientState
  <2>3. RecordOK'
    BY <2>1 DEF IInv, RecordOK, Known, clientState
  <2>4. AttributionOK'
    BY <1>2, <2>1 DEF IInv, AttributionOK, Spent, clientState
  <2>5. ReplyOK'
    BY <1>1, <1>2, <1>3, <1>4, <2>1 DEF IInv, ReplyOK, Duplicate, clientState
  <2>6. ConfirmedIsCommitted' /\ SignedFinishSurvives'
    BY <2>1 DEF IInv, ConfirmedIsCommitted, SignedFinishSurvives, clientState
  <2>7. QED
    BY <2>2, <2>3, <2>4, <2>5, <2>6
<1>5. ASSUME ~Duplicate(m)
      PROVE  /\ TypeOK' /\ RecordOK' /\ AttributionOK' /\ ReplyOK'
             /\ ConfirmedIsCommitted' /\ SignedFinishSurvives'
  <2>1. /\ run' \in Run
        /\ run'.events = run.events \cup {EventID(m)}
        /\ run'.fingerprint = run.fingerprint /\ run'.receipt = run.receipt
        /\ run'.workless = run.workless
        /\ run'.lease = IF run.fingerprint = None /\ m.lease # None THEN m.lease
                        ELSE run.lease
        /\ run'.state = IF run.fingerprint = None /\ m.type = "runFailed" THEN "failed"
                        ELSE run.state
    BY <1>1, <1>5, AppendedFields DEF AppendRunEvent
  <2>2. TypeOK'
    BY <1>2, <2>1 DEF IInv, TypeOK, AppendRunEvent, Answer, clientState
  <2>3. RecordOK'
    BY <1>1, <2>1 DEF IInv, RecordOK, Known, clientState, NetOK, RequestOK, Run
  <2>4. AttributionOK'
    <3>1. m.type # "runFailed" => run.fingerprint = None \/ byID
      BY <1>1, <1>5
         DEF IInv, RecordOK, SignedOK, AttributionOK, Spent, Duplicate, NetOK,
             RequestOK, Known, Run
    <3>2. m.type # "runFailed" /\ m.lease = First => Second \notin run.events
      BY <1>1, <1>5 DEF IInv, RecordOK, AttributionOK, Spent, Duplicate, Known
    <3>3. m.type # "runFailed" /\ byID =>
            m.lease = First /\ createLease = First /\ Second \notin run.events
      BY <1>1 DEF IInv, NetOK, RequestOK, Known, LeaseOK, RecordOK
    <3>4. run'.lease = IF Second \in run'.events THEN Second
                       ELSE IF First \in run'.events THEN First ELSE createLease
      <4>1. CASE m.type = "runFailed"
        <5>1. run'.lease = run.lease /\ First # "runFailed" /\ Second # "runFailed"
          BY <1>1, <2>1, <4>1
        <5>2. QED
          BY <1>1, <2>1, <4>1, <5>1 DEF IInv, AttributionOK
      <4>2. CASE m.type # "runFailed" /\ run.fingerprint = None
        <5>1. run'.lease = m.lease /\ m.lease \in Lease
          BY <1>1, <2>1, <4>2
        <5>2. QED
          BY <1>1, <2>1, <3>2, <4>2, <5>1
      <4>3. CASE m.type # "runFailed" /\ run.fingerprint # None
        BY <1>1, <2>1, <3>1, <3>3, <4>3 DEF IInv, AttributionOK
      <4> QED
        BY <4>1, <4>2, <4>3
    <3>5. (~byID /\ lease # None => Spent(lease))' /\ (target = Second => Spent(First))'
      BY <1>2, <2>1 DEF IInv, AttributionOK, Spent, clientState
    <3> QED
      BY <1>2, <3>4, <3>5 DEF IInv, AttributionOK, clientState, Spent
  <2>5. ReplyOK'
    BY <1>1, <1>2, <1>3, <2>1 DEF IInv, ReplyOK, clientState
  <2>6. ConfirmedIsCommitted' /\ SignedFinishSurvives'
    BY <2>1 DEF IInv, ConfirmedIsCommitted, SignedFinishSurvives, clientState
  <2>7. QED
    BY <2>2, <2>3, <2>4, <2>5, <2>6
<1>6. AwaitingOK'
  BY <1>1, <1>2 DEF IInv, AwaitingOK, FailureIsSilent, clientState
<1>7. TriesOK' /\ PhaseOK' /\ LeaseOK' /\ SignedOK' /\ NetOK'
  BY DEF IInv, AppendRunEvent, clientState, Received, TriesOK, EventTries,
         FailureTries, PhaseOK, LeaseOK, SignedOK, NetOK, RequestOK, Known
<1>8. QED
  BY <1>4, <1>5, <1>6, <1>7 DEF IInv

\* A finish that is served was verified for the lease it is signed for.
LEMMA ReadForFinishStep ==
    ASSUME IInv, NEW m \in net, ReadForFinish(m), UNCHANGED clientState
    PROVE  IInv'
<1> USE ConstantsAssumption, TagsAssumption DEF Lease
<1>1. /\ TriesOK' /\ PhaseOK' /\ LeaseOK' /\ SignedOK' /\ NetOK' /\ RecordOK'
      /\ ConfirmedIsCommitted' /\ SignedFinishSurvives'
  BY DEF IInv, ReadForFinish, clientState, Received, TriesOK, EventTries,
         FailureTries, PhaseOK, LeaseOK, SignedOK, NetOK, RequestOK, Known, RecordOK,
         ConfirmedIsCommitted, SignedFinishSurvives
<1>2. TypeOK'
  BY DEF IInv, ReadForFinish, clientState, Received, Answer, TypeOK, Request
<1>3. AwaitingOK'
  BY DEF IInv, ReadForFinish, clientState, Answer, AwaitingOK, TypeOK, FailureIsSilent
<1>4. AttributionOK'
  BY DEF IInv, ReadForFinish, clientState, Received, NetOK, RequestOK, AttributionOK,
         Spent, PhaseOK, Over, SignedOK
<1>5. ReplyOK'
  BY DEF IInv, ReadForFinish, clientState, Answer, AwaitingOK, TypeOK, ReplyOK
<1>6. QED
  BY <1>1, <1>2, <1>3, <1>4, <1>5 DEF IInv

\* A lost request changes nothing.
LEMMA LoseStep ==
    ASSUME IInv, NEW m \in net, Lose(m), UNCHANGED clientState
    PROVE  IInv'
<1> USE ConstantsAssumption, TagsAssumption DEF Lease
<1>1. /\ TypeOK' /\ TriesOK' /\ AwaitingOK' /\ PhaseOK' /\ LeaseOK' /\ SignedOK'
      /\ NetOK' /\ RecordOK' /\ AttributionOK' /\ ReplyOK' /\ ConfirmedIsCommitted'
      /\ SignedFinishSurvives'
  BY DEF IInv, Lose, clientState, Received, TypeOK, TriesOK, EventTries,
         FailureTries, AwaitingOK, FailureIsSilent, PhaseOK, LeaseOK, SignedOK,
         NetOK, RequestOK, Known, RecordOK, AttributionOK, Spent, ReplyOK,
         ConfirmedIsCommitted, SignedFinishSurvives
<1>2. QED
  BY <1>1 DEF IInv

\* The finish is committed on a running record of its lease, and else answered by
\* what the record holds.
LEMMA CommitRunFinishStep ==
    ASSUME IInv, NEW s \in serving, CommitRunFinish(s), UNCHANGED clientState
    PROVE  IInv'
<1> USE ConstantsAssumption, TagsAssumption DEF Lease
<1>1. /\ s.request.lease = signed /\ signed \in Lease
      /\ s.request.type \in {"finish", "recover"}
      /\ serving' = serving \ {s} /\ UNCHANGED net
  BY DEF IInv, TypeOK, NetOK, CommitRunFinish
<1>2. ASSUME run.state = "running" /\ SameTerminalRunBinding(s)
      PROVE  /\ TypeOK' /\ RecordOK' /\ AttributionOK' /\ ReplyOK'
             /\ ConfirmedIsCommitted' /\ SignedFinishSurvives'
  <2>1. /\ run' \in Run
        /\ run'.state = "succeeded" /\ run'.fingerprint = signed /\ run'.receipt = signed
        /\ run'.lease = run.lease /\ run'.workless = run.workless
        /\ run'.events = run.events
    BY <1>1, <1>2, FinishedFields DEF CommitRunFinish, IInv, TypeOK
  <2>2. TypeOK'
    BY <2>1 DEF IInv, TypeOK, CommitRunFinish, Answer, clientState
  <2>3. RecordOK'
    BY <1>1, <1>2, <2>1 DEF IInv, RecordOK, SignedOK, PhaseOK, Known, clientState
  <2>4. AttributionOK'
    BY <1>1, <2>1
       DEF IInv, AttributionOK, Spent, clientState, CommitRunFinish, PhaseOK,
           SignedOK, Over
  <2>5. ReplyOK'
    BY <1>1 DEF IInv, ReplyOK, PhaseOK, SignedOK, Over, clientState
  <2>6. ConfirmedIsCommitted' /\ SignedFinishSurvives'
    BY <1>1, <2>1 DEF IInv, ConfirmedIsCommitted, SignedFinishSurvives, clientState
  <2>7. QED
    BY <2>2, <2>3, <2>4, <2>5, <2>6
<1>3. ASSUME ~(run.state = "running" /\ SameTerminalRunBinding(s))
      PROVE  /\ TypeOK' /\ RecordOK' /\ AttributionOK' /\ ReplyOK'
             /\ ConfirmedIsCommitted' /\ SignedFinishSurvives'
  <2>1. run' = run
    BY <1>3 DEF CommitRunFinish
  <2>2. TypeOK'
    BY <2>1 DEF IInv, TypeOK, CommitRunFinish, Answer, clientState
  <2>3. RecordOK'
    BY <2>1 DEF IInv, RecordOK, Known, clientState
  <2>4. AttributionOK'
    BY <1>1, <2>1
       DEF IInv, AttributionOK, Spent, clientState, CommitRunFinish, PhaseOK,
           SignedOK, Over
  <2>5. ReplyOK'
    BY <1>1 DEF IInv, ReplyOK, PhaseOK, SignedOK, Over, clientState
  <2>6. ConfirmedIsCommitted' /\ SignedFinishSurvives'
    BY <2>1 DEF IInv, ConfirmedIsCommitted, SignedFinishSurvives, clientState
  <2>7. QED
    BY <2>2, <2>3, <2>4, <2>5, <2>6
<1>4. AwaitingOK'
  BY DEF IInv, TypeOK, AwaitingOK, FailureIsSilent, CommitRunFinish, Answer, clientState
<1>5. TriesOK' /\ PhaseOK' /\ LeaseOK' /\ SignedOK' /\ NetOK'
  BY DEF IInv, CommitRunFinish, clientState, TriesOK, EventTries, FailureTries,
         PhaseOK, LeaseOK, SignedOK, NetOK, RequestOK, Known
<1>6. QED
  BY <1>2, <1>3, <1>4, <1>5 DEF IInv

\* A finish whose service broke off changes nothing.
LEMMA AbandonStep ==
    ASSUME IInv, NEW s \in serving, Abandon(s), UNCHANGED clientState
    PROVE  IInv'
<1> USE ConstantsAssumption, TagsAssumption DEF Lease
<1>1. /\ TypeOK' /\ TriesOK' /\ AwaitingOK' /\ PhaseOK' /\ LeaseOK' /\ SignedOK'
      /\ NetOK' /\ RecordOK' /\ AttributionOK' /\ ReplyOK' /\ ConfirmedIsCommitted'
      /\ SignedFinishSurvives'
  BY DEF IInv, Abandon, clientState, TypeOK, TriesOK, EventTries, FailureTries,
         AwaitingOK, FailureIsSilent, PhaseOK, LeaseOK, SignedOK, NetOK, RequestOK,
         Known, RecordOK, AttributionOK, Spent, ReplyOK, ConfirmedIsCommitted,
         SignedFinishSurvives
<1>2. QED
  BY <1>1 DEF IInv

-----------------------------------------------------------------------------
(***************************************************************************)
(* The theorems.                                                           *)
(***************************************************************************)
\* A client that has done nothing, and a coordinator without a record.
LEMMA InitIInv == Init => IInv
<1> SUFFICES ASSUME Init PROVE IInv
  OBVIOUS
<1> USE ConstantsAssumption, TagsAssumption DEF Lease
<1>1. NoRun \in Run
  BY DEF NoRun, Run, Fingerprint
<1>2. TypeOK
  <2>1. \E bound \in {AdmissionAttempts, EventAttempts, FinishAttempts} : 0 <= bound
    OBVIOUS
  <2>2. QED
    BY <1>1, <2>1 DEF Init, TypeOK
<1>3. TriesOK /\ AwaitingOK /\ PhaseOK /\ LeaseOK /\ SignedOK
  BY DEF Init, TriesOK, AwaitingOK, PhaseOK, Attached, LeaseOK, SignedOK
<1>4. NetOK /\ RecordOK /\ AttributionOK /\ ReplyOK
  BY DEF Init, NetOK, RecordOK, NoRun, AttributionOK, ReplyOK
<1>5. ConfirmedIsCommitted /\ SignedFinishSurvives
  BY DEF Init, ConfirmedIsCommitted, SignedFinishSurvives
<1>6. QED
  BY <1>2, <1>3, <1>4, <1>5 DEF IInv

\* Stuttering keeps the invariant.
LEMMA StutterIInv == IInv /\ UNCHANGED vars => IInv'
  BY DEF vars, clientState, IInv, TypeOK, TriesOK, EventTries, FailureTries,
         AwaitingOK, FailureIsSilent, PhaseOK, LeaseOK, SignedOK, NetOK, RequestOK,
         Known, RecordOK, AttributionOK, Spent, ReplyOK, ConfirmedIsCommitted,
         SignedFinishSurvives

\* Every step keeps the invariant.
LEMMA NextIInv == IInv /\ [Next]_vars => IInv'
<1> SUFFICES ASSUME IInv, [Next]_vars PROVE IInv'
  OBVIOUS
<1>1. CASE Network
  BY <1>1, CreateRunStep, AppendRunEventStep, FailRunAdmissionStep, ReadForFinishStep,
     LoseStep, CommitRunFinishStep, AbandonStep
     DEF Network, Handle
<1>2. CASE Client
  BY <1>2, SendAdmissionStep, AdmissionSettledStep, AcquireLeaseStep, AppendLeaseStep,
     SendBindingStep, BindingSettledStep, ReplaceLeaseStep, StartWorkloadStep,
     FailStep, RetainStep, SendFinishStep, FinishSettledStep, ConfirmStep,
     NotConfirmedStep, FailedQuietlyStep, SendFailureStep, FailureSettledStep
     DEF Client
<1>3. CASE Crash
  BY <1>3, CrashStep
<1>4. CASE Recover
  BY <1>4, RecoverStep
<1>5. CASE UNCHANGED vars
  BY <1>5, StutterIInv
<1>6. QED
  BY <1>1, <1>2, <1>3, <1>4, <1>5 DEF Next

\* The invariant holds in every reachable state.
LEMMA Invariance == Spec => []IInv
  BY InitIInv, NextIInv, PTL DEF Spec

\* Every exchange of the client keeps to its own bound on attempts, and the
\* record, the requests and the client's state keep their shape.
THEOREM TypeCorrect == Spec => []TypeOK
<1>1. IInv => TypeOK
  BY DEF IInv
<1>2. QED
  BY <1>1, Invariance, PTL

\* No run whose workload started is missing at the coordinator or recorded
\* there as failed before any work (requireHandle, failRunAdmission).
THEOREM WorkloadAdmitted == Spec => []WorkloadIsAdmitted
<1>1. IInv => WorkloadIsAdmitted
  BY DEF IInv, PhaseOK, RecordOK, WorkloadIsAdmitted, TypeOK, Run
<1>2. QED
  BY <1>1, Invariance, PTL

\* Late bindings never undo the attribution that was acknowledged
\* (AttachLease, Bind, appendRunEvent).
THEOREM AttributionCorrect == Spec => []AttributionHolds
<1>1. ASSUME IInv PROVE AttributionHolds
  <2> SUFFICES ASSUME admitted, pc \in {"ready", "work", "finish", "verify"}
               PROVE  run.lease = target
    BY DEF AttributionHolds
  <2>1. lease = target /\ target # None /\ run.state # "missing"
    BY <1>1 DEF IInv, PhaseOK, Attached, RecordOK
  <2>2. CASE byID
    BY <1>1, <2>2 DEF IInv, LeaseOK, RecordOK, Known, AttributionOK, Lease
  <2>3. CASE ~byID
    BY <1>1, <2>1, <2>3 DEF IInv, TypeOK, RecordOK, Known, AttributionOK, Spent, Lease
  <2>4. QED
    BY <2>2, <2>3
<1>2. QED
  BY <1>1, Invariance, PTL

\* A finish that was reported as confirmed is the one the record holds
\* (Finish, failUnacknowledgedAdmission).
THEOREM ConfirmedCommitted == Spec => []ConfirmedIsCommitted
<1>1. IInv => ConfirmedIsCommitted
  BY DEF IInv
<1>2. QED
  BY <1>1, Invariance, PTL

\* A retained finish is in its file or at the coordinator
\* (retainPendingRunFinish, removePendingRunFinish).
THEOREM SignedSurvives == Spec => []SignedFinishSurvives
<1>1. IInv => SignedFinishSurvives
  BY DEF IInv
<1>2. QED
  BY <1>1, Invariance, PTL

\* A retained finish is committed or can still be (Failed after a terminal
\* attempt).
THEOREM NotForeclosed == Spec => []NeverForeclosed
<1>1. ASSUME IInv PROVE NeverForeclosed
  <2> SUFFICES ASSUME signed # None
               PROVE  \/ run.fingerprint = signed
                      \/ run.state = "running" /\ run.lease = signed
    BY DEF NeverForeclosed
  <2>1. /\ lease = signed /\ target = signed /\ signed \in Lease
        /\ terminalAttempted /\ admitted
    BY <1>1 DEF IInv, TypeOK, SignedOK, PhaseOK
  <2>2. run.state \in {"running", "succeeded"}
    BY <1>1, <2>1 DEF IInv, TypeOK, Run, RecordOK
  <2>3. run.lease = signed
    <3>1. CASE byID
      BY <1>1, <2>1, <2>2, <3>1, ConstantsAssumption
         DEF IInv, LeaseOK, RecordOK, Known, AttributionOK, Lease
    <3>2. CASE ~byID
      BY <1>1, <2>1, <2>2, <3>2, ConstantsAssumption
         DEF IInv, RecordOK, Known, AttributionOK, Spent, Lease
    <3>3. QED
      BY <3>1, <3>2
  <2>4. QED
    BY <1>1, <2>2, <2>3 DEF IInv, RecordOK
<1>2. QED
  BY <1>1, Invariance, PTL

\* What EndsOnce asks of a step.
KeepsOutcome ==
    /\ run.state \in {"failed", "succeeded"} =>
         /\ run'.state = run.state /\ run'.workless = run.workless
         /\ run'.fingerprint = run.fingerprint /\ run'.receipt = run.receipt
    /\ run.fingerprint # None => run'.lease = run.lease

\* No step changes the outcome of a run that ended.
LEMMA OutcomeStep == IInv /\ [Next]_vars => KeepsOutcome
<1> SUFFICES ASSUME IInv, [Next]_vars PROVE KeepsOutcome
  OBVIOUS
<1> USE ConstantsAssumption, TagsAssumption DEF Lease
<1>1. /\ run \in Run
      /\ run.fingerprint # None => run.state \in {"failed", "succeeded"}
  BY DEF IInv, TypeOK, Run, RecordOK, NoRun
<1>2. CASE run' = run
  BY <1>2 DEF KeepsOutcome
<1>3. ASSUME NEW m \in net, CreateRun(m) PROVE run' = run \/ run.state = "missing"
  BY <1>3 DEF CreateRun, Admission
<1>4. ASSUME NEW m \in net, AppendRunEvent(m) PROVE KeepsOutcome
  <2>1. /\ m \in Request /\ run.state # "missing"
        /\ m.type \in {"bind", "append", "runFailed"}
        /\ IF m.type = "runFailed" THEN m.lease = None ELSE m.lease \in Lease
    BY <1>4 DEF IInv, TypeOK, NetOK, RequestOK, RecordOK, AppendRunEvent
  <2>2. CASE Duplicate(m)
    BY <1>2, <1>4, <2>2 DEF AppendRunEvent
  <2>3. CASE ~Duplicate(m)
    <3>1. /\ run'.fingerprint = run.fingerprint /\ run'.receipt = run.receipt
          /\ run'.workless = run.workless
          /\ run'.lease = IF run.fingerprint = None /\ m.lease # None THEN m.lease
                          ELSE run.lease
          /\ run'.state = IF run.fingerprint = None /\ m.type = "runFailed" THEN "failed"
                          ELSE run.state
      BY <1>1, <1>4, <2>1, <2>3, AppendedFields DEF AppendRunEvent
    <3>2. run.state = "succeeded" => run.fingerprint # None
      BY DEF IInv, RecordOK
    <3> QED BY <3>1, <3>2 DEF KeepsOutcome
  <2> QED BY <2>2, <2>3
<1>5. ASSUME NEW m \in net, FailRunAdmission(m) PROVE KeepsOutcome
  <2>1. CASE run.state \in {"failed", "succeeded"} /\ ~run.workless
    BY <1>2, <1>5, <2>1 DEF FailRunAdmission, AdmissionFailureConflict
  <2>2. CASE run.state \in {"failed", "succeeded"} /\ run.workless
    <3>1. run.state = "failed" /\ run.fingerprint = AdmissionFailure
      BY <2>2 DEF IInv, RecordOK
    <3>2. run' = [run EXCEPT !.state = "failed", !.workless = TRUE,
                             !.fingerprint = AdmissionFailure]
      BY <1>5, <2>2 DEF FailRunAdmission, AdmissionFailureConflict, Admission
    <3> QED BY <1>1, <2>2, <3>1, <3>2 DEF KeepsOutcome, Run
  <2> QED BY <1>1, <2>1, <2>2 DEF KeepsOutcome, Run
<1>6. ASSUME NEW s \in serving, CommitRunFinish(s)
      PROVE  run' = run \/ run.state = "running"
  BY <1>6 DEF CommitRunFinish
<1>7. CASE Network
  <2>1. CASE \E m \in net : ReadForFinish(m) \/ Lose(m)
    BY <1>2, <2>1 DEF ReadForFinish, Lose
  <2>2. CASE \E s \in serving : Abandon(s)
    BY <1>2, <2>2 DEF Abandon
  <2>3. CASE run.state \in {"missing", "running"}
    BY <1>1, <2>3 DEF KeepsOutcome
  <2> QED BY <1>1, <1>2, <1>3, <1>4, <1>5, <1>6, <1>7, <2>1, <2>2, <2>3
          DEF Network, Handle
<1>8. CASE Client \/ Crash \/ Recover \/ UNCHANGED vars
  <2>1. run' = run
    BY <1>8
       DEF Client, Crash, Recover, vars, coordVars, SendAdmission, AdmissionSettled,
           AcquireLease, AppendLease, SendBinding, BindingSettled, ReplaceLease,
           StartWorkload, Fail, Retain, SendFinish, FinishSettled, Confirm,
           NotConfirmed, FailedQuietly, SendFailure, FailureSettled
  <2> QED BY <1>2, <2>1
<1> QED BY <1>7, <1>8 DEF Next

\* A run ends once: no late admission, event, finish or admission failure
\* changes the outcome of a run that ended.
THEOREM RunEndsOnce == Spec => EndsOnce
<1>1. [][KeepsOutcome]_vars => EndsOnce
  BY PTL DEF KeepsOutcome, EndsOnce
<1>2. IInv /\ [Next]_vars => [KeepsOutcome]_vars
  BY OutcomeStep
<1> QED BY <1>1, <1>2, Invariance, PTL DEF Spec
=============================================================================
