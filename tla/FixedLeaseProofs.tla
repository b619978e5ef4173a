-------------------------- MODULE FixedLeaseProofs --------------------------
(***************************************************************************)
(* Proofs about FixedLease, for any set of adapters and any bounds.        *)
(***************************************************************************)
EXTENDS FixedLease, TLAPS

-----------------------------------------------------------------------------
(***************************************************************************)
(* The inductive invariant.                                                *)
(***************************************************************************)
\* No request was ever sent that could still have had an effect.
NothingSent == inflight = {} /\ allocated = {}

\* Nothing under way can allocate a machine any more.
Quiet ==
    CASE provider = "asciibox" -> allocated # {}
      [] provider = "incus" -> LateCreates \/ inflight = {}
      [] OTHER -> inflight = {}

\* Codespaces and DigitalOcean send one request per attempt.
OneShot == provider \in {"codespaces", "digitalocean"}

ClaimOK ==
    /\ claim.attempt \in {0, planned}
    /\ claim.state = "none" => claim = NoClaim
    /\ claim.phase = "released" <=> claim.state = "released"
    /\ Bound(claim) => claim.id \in allocated
    /\ claim.state \in {"acquired", "deleting"} => Bound(claim)
    /\ Bound(claim) /\ claim.state # "released" => claim.attempt # 0

AllocationOK ==
    /\ OneIdentity
    /\ \A q \in inflight \cup allocated : q.attempt = planned
    /\ provider = "incus" => \A m \in allocated : m.seq = 0

\* What the claim says when nothing was sent yet.
NothingSentOK ==
    /\ claim.attempt = 0 /\ claim.state # "released" => NothingSent
    /\ provider = "codespaces" /\ claim.submission = "pending" => NothingSent
    /\ provider = "asciibox" /\ claim.count = 0 /\ claim.state # "released" => NothingSent

RequestsOK ==
    /\ provider = "asciibox" /\ window = "expired" => inflight = {}
    /\ OneShot => inflight = {} \/ allocated = {}
    /\ OneShot => \A q, r \in inflight : q = r

\* Incus: once a create was seen, an absent instance is gone for good.
SeenOK ==
    /\ provider = "incus" /\ ~LateCreates /\ live = {}
    /\ \/ claim.state \in {"acquired", "deleting"}
       \/ op.pc \in {"got", "bind", "access"}
       \/ op.pc = "wait" /\ op.reply = "created"
    => inflight = {}

ReleasedOK == claim.state = "released" => op = Idle /\ Quiet /\ (LateCreates \/ live = {})

Acquiring == {"observe", "plan", "admit", "submit", "wait", "got", "bind", "access"}

OpOK ==
    /\ op.pc \in Acquiring =>
         claim.state \in {"prepared", "acquired"} /\ claim.phase # "deleting"
    /\ op.pc = "idle" => op = Idle
    /\ op.pc \in {"observe", "plan", "admit", "submit"} => op.reply = "none"
    /\ op.pc \in {"plan", "admit", "submit", "wait"} =>
         claim.state = "prepared" /\ ~Bound(claim)
    /\ op.pc = "plan" =>
         /\ OneShot => NothingSent
         /\ claim.attempt # 0 => provider # "digitalocean"
    /\ op.pc \in {"admit", "submit", "wait"} => claim.attempt # 0
    /\ op.pc \in {"admit", "submit"} => (OneShot => NothingSent)
    /\ op.pc = "submit" =>
         /\ provider = "codespaces" => claim.submission # "pending"
         /\ provider = "asciibox" => claim.count # 0
    /\ op.pc = "wait" =>
         /\ op.reply = "created" => op.item \in allocated
         /\ OneShot /\ op.reply = "none" => inflight = {op.req} /\ allocated = {}
         /\ OneShot /\ op.reply = "rejected" => NothingSent
    /\ op.pc \in {"got", "bind", "access", "delete"} => op.item \in allocated
    /\ op.pc = "access" => Bound(claim)
    /\ op.pc = "resolve" =>
         /\ provider # "incus" /\ Bound(claim)
         /\ claim.state \in {"prepared", "acquired"} /\ claim.phase # "deleting"
    /\ op.pc = "delete" => claim.state # "none"
    /\ op.pc = "terminal" => claim.state # "none" /\ Quiet /\ (LateCreates \/ live = {})

IInv ==
    /\ TypeOK /\ ClaimOK /\ AllocationOK /\ NothingSentOK
    /\ RequestsOK /\ SeenOK /\ ReleasedOK /\ OpOK

-----------------------------------------------------------------------------
(***************************************************************************)
(* Types of what the engine writes.                                        *)
(***************************************************************************)
\* A planned claim is a claim (Plan).
LEMMA PlanType ==
    ASSUME NEW p, NEW c \in Claims, NEW n \in Nat
    PROVE  Plan(p, c, n) \in Claims
  BY DEF Plan, Claims

\* So is one whose submission was counted and marked (Admit).
LEMMA AdmitType ==
    ASSUME NEW p, NEW c \in Claims, c.count \in {0, 1}
    PROVE  Admit(p, c) \in Claims
<1>1. c.count + 1 \in 0 .. 2
  OBVIOUS
<1>2. QED
  BY <1>1 DEF Admit, Claims

\* So is one bound to a machine.
LEMMA BoundToType ==
    ASSUME NEW c \in Claims, NEW m \in Requests
    PROVE  BoundTo(c, m) \in Claims
  BY DEF BoundTo, Claims

\* So is one whose attempt was filed as failed.
LEMMA RejectAttemptType ==
    ASSUME NEW c \in Claims
    PROVE  RejectAttempt(c) \in Claims
  BY DEF RejectAttempt, Claims

\* So is a tombstone.
LEMMA TerminalClaimType ==
    ASSUME NEW p, NEW c \in Claims
    PROVE  TerminalClaim(p, c) \in Claims
<1>1. NoRequest \in Requests /\ 0 \in 0 .. 2 /\ {} \in SUBSET Nat
  BY DEF NoRequest, Requests
<1>2. CASE p \in {"asciibox", "codespaces"}
  BY <1>1, <1>2 DEF TerminalClaim, Claims
<1>3. CASE p \notin {"asciibox", "codespaces"}
  BY <1>1, <1>3 DEF TerminalClaim, Claims
<1>4. QED
  BY <1>2, <1>3

\* So is a claim that records its deletion.
LEMMA RecordDeletionType ==
    ASSUME NEW p \in Providers, NEW c \in Claims, NEW m \in Requests
    PROVE  RecordDeletion(p, c, m) \in Claims
  BY DEF RecordDeletion, Claims, Requests, Providers

\* NoClaim and a new claim are claims.
LEMMA NewClaimType ==
    /\ NoClaim \in Claims
    /\ \A n \in Nat : NewClaim(n) \in Claims
  BY DEF NoClaim, NewClaim, Claims, NoRequest, Requests

\* What Begin and Return leave in op is an operation.
LEMMA OperationType ==
    /\ Idle \in Ops
    /\ \A pc \in {"observe", "resolve", "delete", "terminal"}, f \in BOOLEAN, i \in BOOLEAN, m \in Requests :
         Operation(pc, f, i, m) \in Ops
  BY DEF Idle, Operation, Ops, NoRequest, Requests

-----------------------------------------------------------------------------
(***************************************************************************)
(* Every step keeps the invariant.                                         *)
(***************************************************************************)
\* What a step that leaves its variables alone cannot disturb.
LEMMA Frames ==
    ASSUME IInv
    PROVE  /\ UNCHANGED <<claim, planned, allocated>> => ClaimOK'
           /\ UNCHANGED <<provider, inflight, allocated, planned>> => AllocationOK'
           /\ UNCHANGED <<provider, claim, inflight, allocated>> => NothingSentOK'
           /\ UNCHANGED <<provider, window, inflight, allocated>> => RequestsOK'
  BY DEF IInv, ClaimOK, Bound, AllocationOK, OneIdentity, NothingSentOK,
       NothingSent, RequestsOK, OneShot

\* A new claim is made only when nothing was ever sent (AcquireFixedIntent).
LEMMA AcquireFreshStep ==
    ASSUME IInv, AcquireFresh
    PROVE  IInv'
<1>1. TypeOK'
  <2>1. created \in Nat /\ created' \in 0 .. MaxClaims
    BY BoundsAssumption DEF IInv, AcquireFresh, TypeOK
  <2>2. claim' \in Claims
    BY <2>1, NewClaimType DEF AcquireFresh
  <2>3. op' \in Ops
    BY OperationType DEF AcquireFresh, Begin, NoRequest, Requests
  <2>4. QED
    BY <2>1, <2>2, <2>3 DEF IInv, AcquireFresh, TypeOK
<1>2. AllocationOK' /\ RequestsOK'
  BY Frames DEF AcquireFresh
<1>3. ClaimOK'
  BY DEF IInv, AcquireFresh, NewClaim, ClaimOK, Bound
<1>4. NothingSentOK'
  BY DEF IInv, AcquireFresh, NewClaim, NoClaim, NothingSentOK, NothingSent
<1>5. SeenOK'
  BY DEF IInv, AcquireFresh, Begin, Operation, NewClaim, SeenOK
<1>6. ReleasedOK'
  BY DEF IInv, AcquireFresh, NewClaim, ReleasedOK
<1>7. OpOK'
  BY DEF IInv, AcquireFresh, Begin, Operation, NewClaim, OpOK
<1>8. QED
  BY <1>1, <1>2, <1>3, <1>4, <1>5, <1>6, <1>7 DEF IInv

\* A replay begins on a claim that is not in cleanup.
LEMMA AcquireReplayStep ==
    ASSUME IInv, AcquireReplay
    PROVE  IInv'
<1>1. TypeOK'
  BY DEF IInv, AcquireReplay, Begin, Operation, MayReplay, TypeOK, Claims, Ops,
       Requests, NoRequest
<1>2. ClaimOK' /\ AllocationOK' /\ NothingSentOK' /\ RequestsOK'
  BY Frames DEF AcquireReplay
<1>3. SeenOK'
  BY DEF IInv, AcquireReplay, Begin, Operation, SeenOK
<1>4. ReleasedOK'
  BY DEF IInv, AcquireReplay, MayReplay, ReleasedOK
<1>5. OpOK'
  BY DEF IInv, AcquireReplay, Begin, Operation, MayReplay, OpOK
<1>6. QED
  BY <1>1, <1>2, <1>3, <1>4, <1>5 DEF IInv

\* Adopting a machine, or going on to submit, rests on what observation and
\* admission say (ObserveExact, permits).
LEMMA ObserveAcquireStep ==
    ASSUME IInv, ObserveAcquire
    PROVE  IInv'
<1>1. TypeOK'
  <2>1. live \subseteq Requests
    BY DEF IInv, TypeOK
  <2>2. \A listed \in SUBSET live : Candidates(provider, claim, listed) \subseteq live
    BY DEF Candidates, Owned
  <2>3. op' \in Ops
    BY <2>1, <2>2 DEF IInv, ObserveAcquire, Goto, TypeOK, Ops
  <2>4. QED
    BY <2>1, <2>2, <2>3 DEF IInv, ObserveAcquire, TypeOK
<1>2. ClaimOK' /\ AllocationOK' /\ NothingSentOK' /\ RequestsOK'
  BY Frames DEF ObserveAcquire
<1>3. SeenOK'
  BY DEF IInv, ObserveAcquire, Candidates, Goto, SeenOK, TypeOK, Ops
<1>4. ReleasedOK'
  BY DEF IInv, ObserveAcquire, Candidates, Owned, CanSubmit, Permits, Running, Goto,
       ReleasedOK, Quiet, Idle, Operation, TypeOK, Claims, Ops, OpOK, Acquiring,
       OneShot, NothingSent, Bound
<1>5. OpOK'
  <2>1. \A listed \in SUBSET live : Candidates(provider, claim, listed) \subseteq allocated
    BY DEF IInv, TypeOK, Candidates, Owned
  <2>2. CASE op'.pc = "bind"
    BY <2>1, <2>2 DEF IInv, ObserveAcquire, Running, Goto, TypeOK, Ops, OpOK,
         Acquiring, Quiet, Idle, Operation
  <2>3. CASE op'.pc = "plan"
    BY <2>3 DEF IInv, ObserveAcquire, Running, Goto, CanSubmit, TypeOK, Ops, OpOK,
         NothingSentOK, NothingSent, OneShot, Acquiring, Bound
  <2>4. QED
    BY <2>2, <2>3 DEF IInv, ObserveAcquire, Goto, TypeOK, Ops
<1>6. QED
  BY <1>1, <1>2, <1>3, <1>4, <1>5 DEF IInv

\* Planning gives the claim the newest attempt; nothing was sent for it.
LEMMA RecordPlanStep ==
    ASSUME IInv, RecordPlan
    PROVE  IInv'
<1>1. /\ claim.state = "prepared" /\ ~Bound(claim)
      /\ claim'.state = "prepared" /\ claim'.phase = "prepared"
      /\ claim'.id = claim.id /\ claim'.attempt = planned' /\ claim'.attempt # 0
  <2>1. claim \in Claims /\ claim.state = "prepared" /\ ~Bound(claim) /\ claim.attempt \in {0, planned} /\ planned \in Nat
    BY DEF IInv, RecordPlan, Running, TypeOK, ClaimOK, OpOK
  <2>2. CASE claim.attempt = 0
    <3>1. claim' = Plan(provider, claim, planned') /\ planned' = planned + 1
      BY <2>2 DEF RecordPlan
    <3>2. QED
      BY <2>1, <2>2, <3>1 DEF Plan, Claims
  <2>3. CASE claim.attempt # 0
    BY <2>1, <2>3 DEF RecordPlan, Claims
  <2>4. QED
    BY <2>2, <2>3
<1>2. TypeOK'
  <2>1. planned \in Nat /\ planned' \in 0 .. MaxAttempts
    BY BoundsAssumption DEF IInv, RecordPlan, TypeOK
  <2>2. CASE claim.attempt = 0
    BY <2>1, <2>2, PlanType DEF IInv, RecordPlan, Goto, TypeOK, Ops
  <2>3. CASE claim.attempt # 0
    BY <2>1, <2>3 DEF IInv, RecordPlan, Goto, TypeOK, Ops, Claims
  <2>4. QED
    BY <2>1, <2>2, <2>3 DEF IInv, RecordPlan, TypeOK
<1>3. RequestsOK'
  BY Frames DEF RecordPlan
<1>4. ClaimOK'
  BY <1>1 DEF IInv, RecordPlan, ClaimOK, Bound
<1>5. AllocationOK'
  BY DEF IInv, RecordPlan, Running, AllocationOK, OneIdentity, OpOK, NothingSent,
       NothingSentOK
<1>6. NothingSentOK'
  BY DEF IInv, RecordPlan, Running, NothingSentOK, NothingSent, TypeOK, Claims, OpOK
<1>7. SeenOK'
  BY DEF IInv, RecordPlan, Running, Goto, Plan, SeenOK, TypeOK, Claims, Ops
<1>8. ReleasedOK'
  BY DEF IInv, RecordPlan, Running, Goto, Plan, ReleasedOK, Quiet, Idle, Operation,
       TypeOK, Claims, Ops, OpOK, Acquiring, OneShot, NothingSent, Bound
<1>9. OpOK'
  BY <1>1 DEF IInv, RecordPlan, Running, Goto, TypeOK, Ops, OpOK, NothingSent,
       OneShot, Acquiring, Bound
<1>10. QED
  BY <1>2, <1>3, <1>4, <1>5, <1>6, <1>7, <1>8, <1>9 DEF IInv

\* Admission counts and marks the submission before it is sent (Admit).
LEMMA RecordAdmissionStep ==
    ASSUME IInv, RecordAdmission
    PROVE  IInv'
<1>1. TypeOK'
  <2>1. claim.count \in 0 .. 2 /\ (Keyed => claim.count \in {0, 1})
    BY DEF IInv, RecordAdmission, Running, Permits, Keyed, TypeOK, Claims, OpOK
  <2>2. claim' \in Claims
    <3>1. CASE Keyed
      BY <2>1, <3>1, AdmitType DEF IInv, RecordAdmission, TypeOK
    <3>2. CASE ~Keyed
      BY <2>1, <3>2 DEF IInv, RecordAdmission, Admit, Keyed, TypeOK, Claims
    <3>3. QED
      BY <3>1, <3>2
  <2>3. op' \in Ops
    BY DEF IInv, RecordAdmission, Goto, TypeOK, Ops
  <2>4. QED
    BY <2>2, <2>3 DEF IInv, RecordAdmission, TypeOK
<1>2. AllocationOK' /\ RequestsOK'
  BY Frames DEF RecordAdmission
<1>3. ClaimOK'
  BY DEF IInv, RecordAdmission, Running, Admit, ClaimOK, Bound, OpOK
<1>4. NothingSentOK'
  BY DEF IInv, RecordAdmission, Admit, NothingSentOK, NothingSent, TypeOK, Claims
<1>5. SeenOK'
  BY DEF IInv, RecordAdmission, Goto, Admit, SeenOK
<1>6. ReleasedOK'
  BY DEF IInv, RecordAdmission, Running, Admit, ReleasedOK, Idle, Operation
<1>7. OpOK'
  BY DEF IInv, RecordAdmission, Running, Goto, Admit, OpOK, OneShot, NothingSent,
       Bound, TypeOK, Claims
<1>8. QED
  BY <1>1, <1>2, <1>3, <1>4, <1>5, <1>6, <1>7 DEF IInv

\* A request is sent for the attempt of the claim.
LEMMA SubmitStep ==
    ASSUME IInv, Submit
    PROVE  IInv'
<1>1. TypeOK'
  <2>1. sent \in Nat /\ sent' \in 0 .. MaxRequests /\ claim.attempt \in Nat
    BY BoundsAssumption DEF IInv, Submit, TypeOK, Claims
  <2>2. [attempt |-> claim.attempt, seq |-> sent + 1] \in Requests
    BY <2>1 DEF Requests
  <2>3. op' \in Ops
    BY <2>2 DEF IInv, Submit, TypeOK, Ops
  <2>4. QED
    BY <2>1, <2>2, <2>3 DEF IInv, Submit, TypeOK
<1>2. ClaimOK'
  BY Frames DEF Submit
<1>3. AllocationOK'
  BY DEF IInv, Submit, Running, AllocationOK, OneIdentity, OpOK, ClaimOK
<1>4. NothingSentOK'
  BY DEF IInv, Submit, Running, NothingSentOK, OpOK
<1>5. RequestsOK'
  BY DEF IInv, Submit, Running, Keyed, RequestsOK, OneShot, OpOK, NothingSent
<1>6. SeenOK'
  BY DEF IInv, Submit, Running, SeenOK, OpOK
<1>7. ReleasedOK'
  BY DEF IInv, Submit, Running, ReleasedOK, Idle, Operation
<1>8. OpOK'
  BY DEF IInv, Submit, Running, OpOK, Acquiring, OneShot, NothingSent
<1>9. QED
  BY <1>1, <1>2, <1>3, <1>4, <1>5, <1>6, <1>7, <1>8 DEF IInv

\* The client takes note of a created machine.
LEMMA ReplyCreatedStep ==
    ASSUME IInv, ReplyCreated
    PROVE  IInv'
<1>1. TypeOK'
  BY DEF IInv, ReplyCreated, Running, Goto, TypeOK, Claims, Ops, Requests, NoRequest
<1>2. ClaimOK' /\ AllocationOK' /\ NothingSentOK' /\ RequestsOK'
  BY Frames DEF ReplyCreated
<1>3. SeenOK'
  BY DEF IInv, ReplyCreated, Running, SeenOK
<1>4. ReleasedOK'
  BY DEF IInv, ReplyCreated, ReleasedOK, Idle, Operation
<1>5. OpOK'
  BY DEF IInv, ReplyCreated, Running, Goto, OpOK, Acquiring
<1>6. QED
  BY <1>1, <1>2, <1>3, <1>4, <1>5 DEF IInv

\* A certified rejection clears a claim or an attempt of which nothing remains
\* (settleCreateRejection, RejectAttempt).
LEMMA ReplyRejectedStep ==
    ASSUME IInv, ReplyRejected
    PROVE  IInv'
<1>1. TypeOK'
  <2>1. claim' \in Claims
    BY NewClaimType, RejectAttemptType DEF IInv, ReplyRejected, TypeOK
  <2>2. op' \in Ops
    BY OperationType DEF ReplyRejected, Return
  <2>3. QED
    BY <2>1, <2>2 DEF IInv, ReplyRejected, TypeOK
<1>2. AllocationOK' /\ RequestsOK'
  BY Frames DEF ReplyRejected
<1>3. ClaimOK'
  <2>1. claim \in Claims /\ claim.state = "prepared" /\ ~Bound(claim) /\ claim.phase # "released"
    BY DEF IInv, ReplyRejected, Running, TypeOK, ClaimOK, OpOK
  <2>2. CASE claim' = NoClaim
    BY <2>2 DEF ClaimOK, NoClaim, NewClaim, Bound
  <2>3. CASE claim' = RejectAttempt(claim)
    <3>1. /\ claim'.attempt = 0 /\ claim'.state = claim.state
          /\ claim'.phase = "prepared" /\ claim'.id = claim.id
      BY <2>1, <2>3 DEF RejectAttempt, Claims
    <3>2. QED
      BY <2>1, <3>1 DEF ClaimOK, Bound
  <2>4. CASE claim' = claim
    BY <2>4 DEF IInv, ReplyRejected, ClaimOK, Bound
  <2>5. QED
    BY <2>2, <2>3, <2>4 DEF ReplyRejected
<1>4. NothingSentOK'
  BY DEF IInv, ReplyRejected, Running, NothingSentOK, NothingSent, OpOK, OneShot
<1>5. SeenOK'
  BY DEF IInv, ReplyRejected, Return, SeenOK, Idle, Operation
<1>6. ReleasedOK'
  BY DEF IInv, ReplyRejected, Running, Return, CanSettleCreateRejection,
       RejectAttempt, NewClaim, NoClaim, ReleasedOK, Quiet, Idle, Operation, TypeOK,
       Claims, Ops
<1>7. OpOK'
  BY DEF IInv, ReplyRejected, Return, OpOK, Acquiring, Idle, Operation
<1>8. QED
  BY <1>1, <1>2, <1>3, <1>4, <1>5, <1>6, <1>7 DEF IInv

\* An answer that never came changes nothing that was sent.
LEMMA ReplyLostStep ==
    ASSUME IInv, ReplyLost
    PROVE  IInv'
<1>1. TypeOK'
  <2>1. claim' \in Claims
    BY DEF IInv, ReplyLost, TypeOK, Claims
  <2>2. op' \in Ops
    BY OperationType DEF ReplyLost, Return
  <2>3. QED
    BY <2>1, <2>2 DEF IInv, ReplyLost, TypeOK
<1>2. AllocationOK' /\ RequestsOK'
  BY Frames DEF ReplyLost
<1>3. ClaimOK'
  BY DEF IInv, ReplyLost, Running, ClaimOK, Bound, OpOK
<1>4. NothingSentOK'
  BY DEF IInv, ReplyLost, NothingSentOK, NothingSent
<1>5. SeenOK'
  BY DEF IInv, ReplyLost, Return, SeenOK, Idle, Operation
<1>6. ReleasedOK'
  BY DEF IInv, ReplyLost, Return, ReleasedOK, Quiet
<1>7. OpOK'
  BY DEF IInv, ReplyLost, Return, OpOK, Acquiring, Idle, Operation
<1>8. QED
  BY <1>1, <1>2, <1>3, <1>4, <1>5, <1>6, <1>7 DEF IInv

\* The returned identity is published at once.
LEMMA ObserveReplyStep ==
    ASSUME IInv, ObserveReply
    PROVE  IInv'
<1>1. TypeOK'
  BY DEF IInv, ObserveReply, Running, Goto, TypeOK, Claims, Ops, Requests, NoRequest
<1>2. AllocationOK' /\ RequestsOK'
  BY Frames DEF ObserveReply
<1>3. ClaimOK'
  BY DEF IInv, ObserveReply, Running, ClaimOK, Bound, OpOK, Acquiring, NothingSent,
       AllocationOK, OneIdentity, NothingSentOK
<1>4. NothingSentOK'
  BY DEF IInv, ObserveReply, NothingSentOK, NothingSent
<1>5. SeenOK'
  BY DEF IInv, ObserveReply, Running, SeenOK
<1>6. ReleasedOK'
  BY DEF IInv, ObserveReply, Running, ReleasedOK, Idle, Operation
<1>7. OpOK'
  BY DEF IInv, ObserveReply, Running, Goto, OpOK, Acquiring
<1>8. QED
  BY <1>1, <1>2, <1>3, <1>4, <1>5, <1>6, <1>7 DEF IInv

\* Binding names a machine that was allocated for this lease (Bind).
LEMMA BindStep ==
    ASSUME IInv, Bind
    PROVE  IInv'
<1>1. TypeOK'
  <2>1. claim' \in Claims
    BY BoundToType DEF IInv, Bind, TypeOK, Ops
  <2>2. op' \in Ops
    BY DEF IInv, Bind, Goto, TypeOK, Ops
  <2>3. QED
    BY <2>1, <2>2 DEF IInv, Bind, TypeOK
<1>2. AllocationOK' /\ RequestsOK'
  BY Frames DEF Bind
<1>3. ClaimOK'
  BY DEF IInv, Bind, Running, BoundTo, ClaimOK, Bound, OpOK, Acquiring, NothingSent,
       NothingSentOK
<1>4. NothingSentOK'
  BY DEF IInv, Bind, BoundTo, NothingSentOK, NothingSent
<1>5. SeenOK'
  BY DEF IInv, Bind, Running, SeenOK
<1>6. ReleasedOK'
  BY DEF IInv, Bind, Running, BoundTo, ReleasedOK, Idle, Operation
<1>7. OpOK'
  BY DEF IInv, Bind, Running, Goto, BoundTo, OpOK, Acquiring, NothingSent, Bound,
       ClaimOK, AllocationOK, NothingSentOK, NoRequest
<1>8. QED
  BY <1>1, <1>2, <1>3, <1>4, <1>5, <1>6, <1>7 DEF IInv

\* Completion follows a binding.
LEMMA CompleteAcquireStep ==
    ASSUME IInv, CompleteAcquire
    PROVE  IInv'
<1>1. TypeOK'
  <2>1. claim' \in Claims
    BY DEF IInv, CompleteAcquire, TypeOK, Claims
  <2>2. op' \in Ops
    BY OperationType DEF CompleteAcquire, Return
  <2>3. QED
    BY <2>1, <2>2 DEF IInv, CompleteAcquire, TypeOK
<1>2. AllocationOK' /\ RequestsOK'
  BY Frames DEF CompleteAcquire
<1>3. ClaimOK'
  BY DEF IInv, CompleteAcquire, Running, ClaimOK, Bound, OpOK, Acquiring
<1>4. NothingSentOK'
  BY DEF IInv, CompleteAcquire, Running, NothingSentOK, NothingSent, OpOK, Acquiring
<1>5. SeenOK'
  BY DEF IInv, CompleteAcquire, Running, SeenOK
<1>6. ReleasedOK'
  BY DEF IInv, CompleteAcquire, ReleasedOK
<1>7. OpOK'
  BY DEF IInv, CompleteAcquire, Return, OpOK, Idle, Operation
<1>8. QED
  BY <1>1, <1>2, <1>3, <1>4, <1>5, <1>6, <1>7 DEF IInv

\* An operation may die anywhere.
LEMMA AbandonStep ==
    ASSUME IInv, Abandon
    PROVE  IInv'
<1>1. TypeOK'
  <2>1. op' \in Ops
    BY OperationType DEF Abandon, Return
  <2>2. QED
    BY <2>1 DEF IInv, Abandon, TypeOK
<1>2. ClaimOK' /\ AllocationOK' /\ NothingSentOK' /\ RequestsOK'
  BY Frames DEF Abandon
<1>3. SeenOK'
  BY DEF IInv, Abandon, Return, SeenOK, Idle, Operation
<1>4. ReleasedOK'
  BY DEF IInv, Abandon, ReleasedOK
<1>5. OpOK'
  BY DEF IInv, Abandon, Return, OpOK, Acquiring, Idle, Operation
<1>6. QED
  BY <1>1, <1>2, <1>3, <1>4, <1>5 DEF IInv

\* Reading the claim without its lock changes nothing durable.
LEMMA ReadClaimStep ==
    ASSUME IInv, ReadClaim
    PROVE  IInv'
<1>1. TypeOK'
  BY DEF IInv, ReadClaim, TypeOK, Claims, Ops, Requests, NoRequest
<1>2. ClaimOK' /\ AllocationOK' /\ NothingSentOK' /\ RequestsOK'
  BY Frames DEF ReadClaim
<1>3. SeenOK'
  BY DEF IInv, ReadClaim, SeenOK
<1>4. ReleasedOK'
  BY DEF IInv, ReadClaim, ReleasedOK, Quiet
<1>5. OpOK'
  BY DEF IInv, ReadClaim, OpOK, OneShot, NothingSent, Quiet, Operation
<1>6. QED
  BY <1>1, <1>2, <1>3, <1>4, <1>5 DEF IInv

\* A release binds the machine its inventory shows (CompareAndBindFixedClaim).
LEMMA BindForReleaseStep ==
    ASSUME IInv, BindForRelease
    PROVE  IInv'
<1>1. TypeOK'
  BY DEF IInv, BindForRelease, Unchanged, Candidates, Owned, TypeOK, Claims, Ops,
       Requests, NoRequest
<1>2. AllocationOK' /\ RequestsOK'
  BY Frames DEF BindForRelease
<1>3. ClaimOK'
  BY DEF IInv, BindForRelease, Unchanged, Candidates, Owned, ClaimOK, TypeOK
<1>4. NothingSentOK'
  BY DEF IInv, BindForRelease, Unchanged, NothingSentOK, NothingSent
<1>5. SeenOK'
  BY DEF IInv, BindForRelease, SeenOK
<1>6. ReleasedOK'
  BY DEF IInv, BindForRelease, ReleasedOK
<1>7. OpOK'
  BY DEF IInv, BindForRelease, Unchanged, OpOK, Idle, Operation
<1>8. QED
  BY <1>1, <1>2, <1>3, <1>4, <1>5, <1>6, <1>7 DEF IInv

\* Resolution binds a machine of a claim that is not in cleanup.
LEMMA ResolveStep ==
    ASSUME IInv, Resolve
    PROVE  IInv'
<1>1. TypeOK'
  BY DEF IInv, Resolve, Unchanged, Candidates, Owned, Begin, Operation, TypeOK,
       Claims, Ops, Requests, NoRequest
<1>2. AllocationOK' /\ RequestsOK'
  BY Frames DEF Resolve
<1>3. ClaimOK'
  BY DEF IInv, Resolve, Unchanged, Candidates, Owned, ClaimOK, Bound, TypeOK,
       AllocationOK, OneIdentity
<1>4. NothingSentOK'
  BY DEF IInv, Resolve, Unchanged, NothingSentOK, NothingSent
<1>5. SeenOK'
  BY DEF IInv, Resolve, SeenOK
<1>6. ReleasedOK'
  BY DEF IInv, Resolve, ReleasedOK
<1>7. OpOK'
  BY DEF IInv, Resolve, Unchanged, Candidates, Owned, Begin, Operation, OpOK, Bound,
       TypeOK, Claims, ClaimOK, NoRequest
<1>8. QED
  BY <1>1, <1>2, <1>3, <1>4, <1>5, <1>6, <1>7 DEF IInv

\* Resolution completes on a bound claim.
LEMMA CompleteResolveStep ==
    ASSUME IInv, CompleteResolve
    PROVE  IInv'
<1>1. TypeOK'
  <2>1. claim' \in Claims
    BY DEF IInv, CompleteResolve, TypeOK, Claims
  <2>2. op' \in Ops
    BY OperationType DEF CompleteResolve, Return
  <2>3. QED
    BY <2>1, <2>2 DEF IInv, CompleteResolve, TypeOK
<1>2. AllocationOK' /\ RequestsOK'
  BY Frames DEF CompleteResolve
<1>3. ClaimOK'
  BY DEF IInv, CompleteResolve, Running, ClaimOK, Bound, OpOK
<1>4. NothingSentOK'
  BY DEF IInv, CompleteResolve, Running, NothingSentOK, NothingSent, OpOK
<1>5. SeenOK'
  BY DEF IInv, CompleteResolve, Running, SeenOK, OpOK
<1>6. ReleasedOK'
  BY DEF IInv, CompleteResolve, ReleasedOK
<1>7. OpOK'
  BY DEF IInv, CompleteResolve, Running, Return, OpOK, Idle, Operation
<1>8. QED
  BY <1>1, <1>2, <1>3, <1>4, <1>5, <1>6, <1>7 DEF IInv

\* Deletion goes on to the tombstone only when absence is proven, and
\* otherwise names the one machine there is.
LEMMA DeleteFixedResourceStep ==
    ASSUME IInv, DeleteFixedResource
    PROVE  IInv'
<1>1. PICK m \in live \cup {NoRequest} :
        /\ claim' = RecordDeletion(provider, claim, m)
        /\ \/ /\ m = NoRequest /\ AbsenceProven(provider, claim)
              /\ op' = Operation("terminal", FALSE, FALSE, NoRequest)
           \/ /\ m \in live /\ op' = Operation("delete", FALSE, FALSE, m)
              /\ provider \in {"asciibox", "digitalocean"} => Bound(claim)
  <2>1. \A listed \in SUBSET live : Candidates(provider, seen, listed) \subseteq live
    BY DEF Candidates, Owned
  <2>2. \A listed \in SUBSET live : Candidates(provider, seen, listed) # {} => (provider = "asciibox" => Bound(seen))
    BY DEF Candidates
  <2>3. QED
    BY <2>1, <2>2 DEF DeleteFixedResource, Unchanged, Begin
<1>2. /\ claim \in Claims /\ m \in Requests /\ provider \in Providers
      /\ claim.state \notin {"none", "released"} /\ claim.phase # "released"
      /\ live \subseteq allocated /\ allocated \subseteq Requests
      /\ provider' = provider /\ allocated' = allocated /\ live' = live /\ inflight' = inflight /\ planned' = planned
  BY <1>1, AdaptersAssumption DEF IInv, DeleteFixedResource, Unchanged, TypeOK,
       ClaimOK, NoRequest, Requests
<1>3. Bound(claim) \/ live # {} => claim.attempt # 0 /\ claim.attempt = planned
  BY <1>2 DEF IInv, ClaimOK, NothingSentOK, NothingSent
<1>4. provider = "incus" => [attempt |-> claim.attempt, seq |-> 0] \in allocated /\ claim.attempt # 0
  <2>1. provider = "incus" => Bound(claim) \/ live # {}
    BY <1>1, <1>2 DEF IInv, ClaimOK, AbsenceProven
  <2>2. provider = "incus" => \A x \in allocated : x = [attempt |-> planned, seq |-> 0]
    BY <1>2 DEF IInv, AllocationOK, Requests
  <2>3. provider = "incus" => allocated # {}
    BY <2>1, <1>2 DEF IInv, ClaimOK
  <2>4. QED
    BY <1>3, <2>1, <2>2, <2>3
<1>5. /\ claim'.attempt = claim.attempt /\ claim'.count = claim.count /\ claim'.submission = claim.submission
      /\ claim'.state \notin {"none", "released"} /\ claim'.phase # "released"
      /\ Bound(claim') => claim'.id \in allocated /\ claim.attempt # 0
      /\ claim'.state \in {"acquired", "deleting"} => Bound(claim')
  <2>1. CASE provider = "incus"
    BY <1>1, <1>2, <1>4, <2>1 DEF RecordDeletion, Claims, Bound, NoRequest
  <2>2. CASE provider = "asciibox"
    <3>1. Bound(claim)
      BY <1>1, <2>2 DEF AbsenceProven
    <3>2. QED
      BY <1>1, <1>2, <1>3, <2>2, <3>1 DEF IInv, ClaimOK, RecordDeletion, Claims, Bound
  <2>3. CASE provider = "codespaces" /\ m # NoRequest
    BY <1>1, <1>2, <1>3, <2>3 DEF IInv, ClaimOK, RecordDeletion, Claims, Bound
  <2>4. CASE provider = "digitalocean" \/ (provider = "codespaces" /\ m = NoRequest)
    BY <1>1, <1>2, <1>3, <2>4 DEF IInv, ClaimOK, RecordDeletion, Bound
  <2>5. QED
    BY <1>2, <2>1, <2>2, <2>3, <2>4 DEF Providers
<1>6. TypeOK'
  <2>1. claim' \in Claims
    BY <1>1, <1>2, RecordDeletionType
  <2>2. op' \in Ops
    BY <1>1, <1>2, OperationType DEF NoRequest, Requests
  <2>3. QED
    BY <2>1, <2>2 DEF IInv, DeleteFixedResource, TypeOK
<1>7. AllocationOK' /\ RequestsOK'
  BY Frames DEF DeleteFixedResource
<1>8. ClaimOK'
  BY <1>2, <1>3, <1>5 DEF IInv, ClaimOK
<1>9. NothingSentOK'
  BY DEF IInv, DeleteFixedResource, Unchanged, Candidates, Owned, Begin, Operation,
       AbsenceProven, RecordDeletion, NothingSentOK, NothingSent, TypeOK, Claims,
       Ops
<1>10. SeenOK'
  BY DEF IInv, DeleteFixedResource, Unchanged, Candidates, AbsenceProven, SeenOK
<1>11. ReleasedOK'
  BY DEF IInv, DeleteFixedResource, Unchanged, Candidates, Owned, Begin, Operation,
       AbsenceProven, RecordDeletion, ReleasedOK, Quiet, Idle, TypeOK, Claims, Ops
<1>12. OpOK'
  <2>1. CASE m \in live /\ op' = Operation("delete", FALSE, FALSE, m)
    BY <1>2, <1>5, <2>1 DEF OpOK, Operation, Acquiring
  <2>2. CASE AbsenceProven(provider, claim) /\ op' = Operation("terminal", FALSE, FALSE, NoRequest)
    <3>1. Bound(claim) => claim.id \in allocated /\ \A x \in live : x = claim.id
      BY <1>2 DEF IInv, ClaimOK, AllocationOK, OneIdentity
    <3>2. live = {} /\ Quiet
      BY <1>2, <2>2, <3>1 DEF IInv, AbsenceProven, NothingSentOK, NothingSent,
           RequestsOK, OneShot, SeenOK, Quiet, Providers
    <3>3. Quiet'
      BY <1>2, <3>2 DEF Quiet
    <3>4. QED
      BY <1>2, <1>5, <2>2, <3>2, <3>3 DEF OpOK, Operation, Acquiring
  <2>3. QED
    BY <1>1, <2>1, <2>2
<1>13. QED
  BY <1>6, <1>7, <1>8, <1>9, <1>10, <1>11, <1>12 DEF IInv

\* Deleting the one identity of the lease leaves nothing.
LEMMA DeleteExactStep ==
    ASSUME IInv, DeleteExact
    PROVE  IInv'
<1>1. TypeOK'
  BY DEF IInv, DeleteExact, Running, Gone, Goto, TypeOK, Claims, Ops, Requests,
       NoRequest
<1>2. ClaimOK'
  BY Frames DEF DeleteExact
<1>3. AllocationOK'
  BY DEF IInv, DeleteExact, Gone, AllocationOK, OneIdentity
<1>4. NothingSentOK'
  BY DEF IInv, DeleteExact, Gone, NothingSentOK, NothingSent
<1>5. RequestsOK'
  BY DEF IInv, DeleteExact, Gone, RequestsOK, OneShot
<1>6. SeenOK'
  BY DEF IInv, DeleteExact, Gone, SeenOK
<1>7. ReleasedOK'
  BY DEF IInv, DeleteExact, Running, ReleasedOK, Idle, Operation
<1>8. OpOK'
  <2>1. /\ op'.pc = "terminal" /\ claim' = claim /\ provider' = provider /\ allocated' = allocated
        /\ live' = live \ {op.item} /\ op.item \in allocated /\ claim.state # "none"
    BY DEF IInv, DeleteExact, Running, Gone, Goto, TypeOK, Ops, OpOK
  <2>2. live' = {}
    BY <2>1 DEF IInv, TypeOK, AllocationOK, OneIdentity
  <2>3. Quiet'
    BY <2>1, AdaptersAssumption DEF IInv, DeleteExact, Gone, Quiet, RequestsOK,
         OneShot, TypeOK, Providers
  <2>4. QED
    BY <2>1, <2>2, <2>3 DEF OpOK, Acquiring
<1>9. QED
  BY <1>1, <1>2, <1>3, <1>4, <1>5, <1>6, <1>7, <1>8 DEF IInv

\* A tombstone is published when nothing lives and nothing can come.
LEMMA PublishTerminalStep ==
    ASSUME IInv, PublishTerminal
    PROVE  IInv'
<1>1. TypeOK'
  <2>1. claim' \in Claims
    BY TerminalClaimType DEF IInv, PublishTerminal, TypeOK
  <2>2. op' \in Ops
    BY OperationType DEF PublishTerminal, Return
  <2>3. QED
    BY <2>1, <2>2 DEF IInv, PublishTerminal, TypeOK
<1>2. AllocationOK' /\ RequestsOK'
  BY Frames DEF PublishTerminal
<1>3. ClaimOK'
  BY DEF IInv, PublishTerminal, TerminalClaim, ClaimOK, Bound
<1>4. NothingSentOK'
  BY DEF IInv, PublishTerminal, TerminalClaim, NothingSentOK
<1>5. SeenOK'
  BY DEF IInv, PublishTerminal, Return, TerminalClaim, SeenOK, Idle, Operation
<1>6. ReleasedOK'
  BY DEF IInv, PublishTerminal, Running, Return, ReleasedOK, Quiet, OpOK
<1>7. OpOK'
  BY DEF IInv, PublishTerminal, Return, OpOK, Acquiring, Idle, Operation
<1>8. QED
  BY <1>1, <1>2, <1>3, <1>4, <1>5, <1>6, <1>7 DEF IInv

\* A claim whose attempts were all rejected has nothing to delete.
LEMMA FinalizeRejectedStep ==
    ASSUME IInv, FinalizeRejected
    PROVE  IInv'
<1>1. TypeOK'
  <2>1. claim' \in Claims
    BY TerminalClaimType DEF IInv, FinalizeRejected, TypeOK
  <2>2. QED
    BY <2>1 DEF IInv, FinalizeRejected, TypeOK
<1>2. AllocationOK' /\ RequestsOK'
  BY Frames DEF FinalizeRejected
<1>3. ClaimOK'
  BY DEF IInv, FinalizeRejected, TerminalClaim, ClaimOK, Bound
<1>4. NothingSentOK'
  BY DEF IInv, FinalizeRejected, TerminalClaim, NothingSentOK
<1>5. SeenOK'
  BY DEF IInv, FinalizeRejected, SeenOK
<1>6. ReleasedOK'
  BY DEF IInv, FinalizeRejected, Unchanged, IsRejected, ReleasedOK, Quiet, TypeOK,
       NothingSent, NothingSentOK
<1>7. OpOK'
  BY DEF IInv, FinalizeRejected, Unchanged, OpOK, Acquiring, Idle, Operation
<1>8. QED
  BY <1>1, <1>2, <1>3, <1>4, <1>5, <1>6, <1>7 DEF IInv

\* The provider allocates the one identity of the lease.
LEMMA CreateStep ==
    ASSUME NEW q \in inflight, IInv, Create(q)
    PROVE  IInv'
<1>1. TypeOK'
  <2>1. q \in Requests /\ NativeId(provider, q) \in Requests
    BY DEF IInv, TypeOK, NativeId, Requests
  <2>2. op' \in Ops
    BY <2>1 DEF IInv, Create, Answer, TypeOK, Ops
  <2>3. QED
    BY <2>1, <2>2 DEF IInv, Create, TypeOK
<1>2. ClaimOK'
  BY DEF IInv, Create, ClaimOK
<1>3. AllocationOK'
  <2>1. /\ q \in Requests /\ q.attempt = planned /\ planned' = planned
        /\ allocated' = allocated \cup {NativeId(provider, q)} /\ inflight' \subseteq inflight
        /\ allocated \subseteq Requests /\ provider' = provider
    BY DEF IInv, Create, TypeOK, AllocationOK
  <2>2. CASE provider = "incus"
    <3>1. NativeId(provider, q) = [attempt |-> planned, seq |-> 0]
      BY <2>1, <2>2 DEF NativeId, Requests
    <3>2. \A m \in allocated : m = [attempt |-> planned, seq |-> 0]
      BY <2>1, <2>2 DEF IInv, AllocationOK, Requests
    <3>3. QED
      BY <2>1, <3>1, <3>2 DEF IInv, AllocationOK, OneIdentity
  <2>3. CASE provider # "incus"
    <3>1. allocated = {}
      BY <2>3, AdaptersAssumption DEF IInv, Create, TypeOK, RequestsOK, OneShot,
           Providers
    <3>2. NativeId(provider, q) = q
      BY <2>3 DEF NativeId
    <3>3. QED
      BY <2>1, <2>3, <3>1, <3>2 DEF IInv, AllocationOK, OneIdentity
  <2>4. QED
    BY <2>2, <2>3
<1>4. NothingSentOK'
  BY DEF IInv, Create, NothingSentOK, NothingSent
<1>5. RequestsOK'
  BY DEF IInv, Create, RequestsOK, OneShot
<1>6. SeenOK'
  BY DEF IInv, Create, SeenOK
<1>7. ReleasedOK'
  BY DEF IInv, Create, Answer, NativeId, Running, ReleasedOK, Quiet, Idle,
       Operation, TypeOK, Claims, Ops, OpOK, Acquiring, OneShot, NothingSent, Bound,
       ClaimOK, AllocationOK, OneIdentity, NothingSentOK, RequestsOK
<1>8. OpOK'
  <2>1. /\ claim' = claim /\ provider' = provider /\ allocated' = allocated \cup {NativeId(provider, q)}
        /\ OneShot => inflight' = inflight \ {q}
    BY DEF Create, OneShot
  <2>2. CASE op.pc = "wait" /\ op.req = q
    <3>1. op' = [op EXCEPT !.reply = "created", !.item = NativeId(provider, q)]
      BY <2>2 DEF Create, Answer, Running
    <3>2. op'.pc = "wait" /\ op'.reply = "created" /\ op'.item = NativeId(provider, q)
      BY <2>2, <3>1 DEF IInv, TypeOK, Ops
    <3>3. QED
      BY <2>1, <2>2, <3>2 DEF IInv, OpOK, Bound, Acquiring
  <2>3. CASE ~(op.pc = "wait" /\ op.req = q)
    <3>1. op' = op
      BY <2>3 DEF Create, Answer, Running
    <3>2. ~(op.pc = "wait" /\ OneShot /\ op.reply \in {"none", "rejected"})
      BY <2>3 DEF IInv, OpOK, NothingSent
    <3>3. ~(op.pc \in {"plan", "admit", "submit"} /\ OneShot)
      BY DEF IInv, OpOK, NothingSent
    <3>4. op.pc = "terminal" => Quiet' /\ LateCreates
      BY <2>1, AdaptersAssumption DEF IInv, Create, OpOK, Quiet, RequestsOK,
           TypeOK, Providers
    <3>5. QED
      BY <2>1, <3>1, <3>2, <3>3, <3>4 DEF IInv, TypeOK, Ops, OpOK, Bound,
           Acquiring, OneShot
  <2>4. QED
    BY <2>2, <2>3
<1>9. QED
  BY <1>1, <1>2, <1>3, <1>4, <1>5, <1>6, <1>7, <1>8 DEF IInv

\* A key the provider knows gives the identity it gave before.
LEMMA RepeatStep ==
    ASSUME NEW q \in inflight, IInv, Repeat(q)
    PROVE  IInv'
<1>1. TypeOK'
  <2>1. op' \in Ops
    BY DEF IInv, Repeat, Answer, TypeOK, Ops
  <2>2. QED
    BY <2>1 DEF IInv, Repeat, TypeOK
<1>2. ClaimOK'
  BY Frames DEF Repeat
<1>3. AllocationOK'
  BY DEF IInv, Repeat, AllocationOK, OneIdentity
<1>4. NothingSentOK'
  BY DEF IInv, Repeat, NothingSentOK, NothingSent
<1>5. RequestsOK'
  BY DEF IInv, Repeat, RequestsOK, OneShot
<1>6. SeenOK'
  BY DEF IInv, Repeat, SeenOK
<1>7. ReleasedOK'
  BY DEF IInv, Repeat, Answer, Running, ReleasedOK, Quiet, Idle, Operation, TypeOK,
       Claims, Ops, OpOK, Acquiring, OneShot, NothingSent, Bound
<1>8. OpOK'
  BY DEF IInv, Repeat, Answer, Running, OpOK, Acquiring, OneShot, NothingSent,
       Quiet, Idle, Operation, Bound, TypeOK, Claims, Ops
<1>9. QED
  BY <1>1, <1>2, <1>3, <1>4, <1>5, <1>6, <1>7, <1>8 DEF IInv

\* A refused request leaves nothing behind.
LEMMA RejectStep ==
    ASSUME NEW q \in inflight, IInv, Reject(q)
    PROVE  IInv'
<1>1. TypeOK'
  <2>1. op' \in Ops
    BY DEF IInv, Reject, Answer, TypeOK, Ops, NoRequest, Requests
  <2>2. QED
    BY <2>1 DEF IInv, Reject, TypeOK
<1>2. ClaimOK'
  BY Frames DEF Reject
<1>3. AllocationOK'
  BY DEF IInv, Reject, AllocationOK, OneIdentity
<1>4. NothingSentOK'
  BY DEF IInv, Reject, NothingSentOK, NothingSent
<1>5. RequestsOK'
  BY DEF IInv, Reject, RequestsOK, OneShot
<1>6. SeenOK'
  BY DEF IInv, Reject, Answer, SeenOK
<1>7. ReleasedOK'
  BY DEF IInv, Reject, Answer, Running, NoRequest, ReleasedOK, Quiet, Idle,
       Operation, TypeOK, Claims, Ops, OpOK, Acquiring, OneShot, NothingSent, Bound
<1>8. OpOK'
  <2>1. /\ claim' = claim /\ provider' = provider /\ allocated' = allocated
        /\ inflight' = inflight \ {q} /\ live' = live
    BY DEF Reject
  <2>2. CASE op.pc = "wait" /\ op.req = q
    <3>1. op' = [op EXCEPT !.reply = "rejected", !.item = NoRequest]
      BY <2>2 DEF Reject, Answer, Running
    <3>2. op'.pc = "wait" /\ op'.reply = "rejected"
      BY <2>2, <3>1 DEF IInv, TypeOK, Ops
    <3>3. OneShot => NothingSent'
      BY <2>1, <2>2 DEF IInv, OpOK, RequestsOK, NothingSent, TypeOK, Ops
    <3>4. QED
      BY <2>1, <2>2, <3>2, <3>3 DEF IInv, OpOK, Bound, Acquiring, OneShot
  <2>3. CASE ~(op.pc = "wait" /\ op.req = q)
    <3>1. op' = op
      BY <2>3 DEF Reject, Answer, Running
    <3>2. ~(op.pc = "wait" /\ OneShot /\ op.reply = "none")
      BY <2>3 DEF IInv, OpOK
    <3>3. Quiet => Quiet'
      BY <2>1 DEF Quiet
    <3>4. QED
      BY <2>1, <3>1, <3>2, <3>3 DEF IInv, OpOK, Bound, Acquiring, OneShot, NothingSent
  <2>4. QED
    BY <2>2, <2>3
<1>9. QED
  BY <1>1, <1>2, <1>3, <1>4, <1>5, <1>6, <1>7, <1>8 DEF IInv

\* A machine that goes leaves its lease's history as it is.
LEMMA VanishStep ==
    ASSUME NEW m \in live, IInv, Vanish(m)
    PROVE  IInv'
<1>1. TypeOK'
  BY DEF IInv, Vanish, Gone, TypeOK, Claims, Ops, Requests, NoRequest
<1>2. ClaimOK'
  BY Frames DEF Vanish
<1>3. AllocationOK'
  BY DEF IInv, Vanish, Gone, AllocationOK, OneIdentity
<1>4. NothingSentOK'
  BY DEF IInv, Vanish, Gone, NothingSentOK, NothingSent
<1>5. RequestsOK'
  BY DEF IInv, Vanish, Gone, RequestsOK, OneShot
<1>6. SeenOK'
  BY DEF IInv, Vanish, Gone, SeenOK
<1>7. ReleasedOK'
  BY DEF IInv, Vanish, Gone, ReleasedOK, Quiet
<1>8. OpOK'
  BY DEF IInv, Vanish, Gone, OpOK, OneShot, NothingSent, Quiet, Operation
<1>9. QED
  BY <1>1, <1>2, <1>3, <1>4, <1>5, <1>6, <1>7, <1>8 DEF IInv

\* The key is forgotten when no request carries it any more.
LEMMA WindowEndsStep ==
    ASSUME IInv, WindowEnds
    PROVE  IInv'
<1>1. TypeOK'
  BY DEF IInv, WindowEnds, Keyed, TypeOK, Claims, Ops, Requests, NoRequest
<1>2. ClaimOK' /\ AllocationOK' /\ NothingSentOK'
  BY Frames DEF WindowEnds
<1>3. RequestsOK'
  BY DEF IInv, WindowEnds, RequestsOK, OneShot, TypeOK
<1>4. SeenOK'
  BY DEF IInv, WindowEnds, SeenOK
<1>5. ReleasedOK'
  BY DEF IInv, WindowEnds, ReleasedOK, Quiet
<1>6. OpOK'
  BY DEF IInv, WindowEnds, Keyed, OpOK, OneShot, Quiet, Operation
<1>7. QED
  BY <1>1, <1>2, <1>3, <1>4, <1>5, <1>6 DEF IInv
-----------------------------------------------------------------------------
\* The invariant holds of a lease nobody asked for yet.
LEMMA InitInv == Init => IInv
<1>1. SUFFICES ASSUME Init PROVE IInv
  OBVIOUS
<1>2. TypeOK
  BY <1>1, NewClaimType, OperationType, BoundsAssumption DEF Init, TypeOK
<1>3. /\ claim = NoClaim /\ claim.attempt = 0 /\ claim.state = "none" /\ claim.phase = "prepared"
      /\ ~Bound(claim) /\ op = Idle /\ op.pc = "idle" /\ planned = 0
      /\ inflight = {} /\ allocated = {}
  BY <1>1 DEF Init, NoClaim, NewClaim, Bound, Idle, Operation
<1>4. QED
  BY <1>2, <1>3 DEF IInv, ClaimOK, AllocationOK, OneIdentity, NothingSentOK,
       NothingSent,
       RequestsOK, SeenOK, ReleasedOK, OpOK, Acquiring

\* Every step keeps the invariant.
LEMMA NextInv == IInv /\ [Next]_vars => IInv'
<1>1. SUFFICES ASSUME IInv, [Next]_vars PROVE IInv'
  OBVIOUS
<1>2. CASE UNCHANGED vars
  BY <1>1, <1>2 DEF vars, IInv, TypeOK, ClaimOK, Bound, AllocationOK, OneIdentity,
       NothingSentOK,
       NothingSent, RequestsOK, OneShot, SeenOK, ReleasedOK, Quiet, OpOK
<1>3. CASE Next
  BY <1>1, <1>3, AcquireFreshStep, AcquireReplayStep, ObserveAcquireStep,
       RecordPlanStep, RecordAdmissionStep, SubmitStep, ReplyCreatedStep,
       ReplyRejectedStep, ReplyLostStep, ObserveReplyStep, BindStep,
       CompleteAcquireStep, AbandonStep, ReadClaimStep, BindForReleaseStep,
       ResolveStep, CompleteResolveStep, DeleteFixedResourceStep, DeleteExactStep,
       PublishTerminalStep, FinalizeRejectedStep, CreateStep, RepeatStep,
       RejectStep, VanishStep, WindowEndsStep DEF Next
<1>4. QED
  BY <1>1, <1>2, <1>3

\* IInv is an invariant, whatever the bounds.
THEOREM FixedLeaseInvariant == Spec => []IInv
  BY InitInv, NextInv, PTL DEF Spec

\* Type correctness; in particular a keyed create is never submitted a third
\* time (FixedAdmission.permits).
THEOREM FixedTypeCorrect == Spec => []TypeOK
<1>1. IInv => TypeOK
  BY DEF IInv
<1>2. QED
  BY <1>1, FixedLeaseInvariant, PTL

\* A lease ID has one machine for ever, under the admission policies of the
\* four adapters (AcquireFixedResource).
THEOREM OneIdentityForever == Spec => []OneIdentity
<1>1. IInv => OneIdentity
  BY DEF IInv, AllocationOK
<1>2. QED
  BY <1>1, FixedLeaseInvariant, PTL

\* Custody follows from the invariant when Incus has refused what it had to
\* refuse by the time an instance is gone.
LEMMA CustodyFollows == ASSUME ~LateCreates, IInv PROVE Custody
<1>1. \A m \in live : m \in allocated /\ m.attempt = planned
  BY DEF IInv, TypeOK, AllocationOK
<1>2. claim.state \in {"none", "released"} => live = {}
  BY DEF IInv, TypeOK, ReleasedOK, ClaimOK, NothingSentOK, NothingSent, NoClaim,
       NewClaim
<1>3. claim = NoClaim => claim.state = "none"
  BY DEF NoClaim, NewClaim
<1>4. \A m \in live :
         /\ claim # NoClaim /\ claim.state # "released"
         /\ claim.id = m \/ (~Bound(claim) /\ claim.attempt = m.attempt)
  BY <1>1, <1>2, <1>3 DEF IInv, ClaimOK, AllocationOK, OneIdentity, NothingSentOK,
       NothingSent
<1>5. \A q \in inflight : q.attempt = planned /\ (MayAllocate(q) => claim.state # "released")
  BY AdaptersAssumption DEF IInv, TypeOK, AllocationOK, ReleasedOK, Quiet,
       MayAllocate, Providers
<1>6. inflight # {} => claim # NoClaim /\ (claim.state # "released" => claim.attempt = planned)
  BY DEF IInv, ClaimOK, NothingSentOK, NothingSent, NoClaim, NewClaim
<1>7. QED
  BY <1>4, <1>5, <1>6 DEF Custody

\* No machine, and no request that can still make one, is ever without a claim
\* that leads to it (DeleteFixedResource, settleCreateRejection).
THEOREM CustodyKept == ~LateCreates => (Spec => []Custody)
<1>1. ~LateCreates /\ IInv => Custody
  BY CustodyFollows
<1>2. CASE ~LateCreates
  <2>1. IInv => Custody
    BY <1>1, <1>2
  <2>2. QED
    BY <2>1, FixedLeaseInvariant, PTL
<1>3. QED
  BY <1>2

\* One step of cleanup: the journal stays in cleanup, nothing is sent, and a
\* tombstone is never written again.
LEMMA CleanupStep ==
    ASSUME IInv, [Next]_vars, InCleanup(claim)
    PROVE  InCleanup(claim') /\ sent' = sent /\ (claim.phase = "released" => claim' = claim)
<1>1. /\ op.pc \notin Acquiring \cup {"resolve"}
      /\ claim.phase = "released" <=> claim.state = "released"
      /\ claim.phase = "released" => op = Idle /\ op.pc = "idle"
      /\ claim \in Claims
  BY DEF IInv, TypeOK, ClaimOK, ReleasedOK, OpOK, InCleanup, Idle, Operation, Acquiring
<1>2. claim # NoClaim
  BY DEF InCleanup, NoClaim, NewClaim
<1>3. CASE UNCHANGED <<claim, sent>>
  BY <1>3
<1>4. CASE BindForRelease
  BY <1>1, <1>4 DEF BindForRelease, Unchanged, InCleanup, Claims
<1>5. CASE DeleteFixedResource
  <2>1. PICK x : claim' = RecordDeletion(provider, claim, x)
    BY <1>5 DEF DeleteFixedResource, Unchanged
  <2>2. claim.phase = "deleting" /\ sent' = sent
    BY <1>1, <1>5 DEF DeleteFixedResource, Unchanged, InCleanup
  <2>3. claim'.phase = "deleting"
    BY <1>1, <2>1, <2>2 DEF RecordDeletion, Claims
  <2>4. QED
    BY <2>2, <2>3 DEF InCleanup
<1>6. CASE PublishTerminal
  BY <1>1, <1>6 DEF PublishTerminal, Running, TerminalClaim, InCleanup, Claims
<1>7. ~(MayReplay(claim) \/ IsRejected(claim))
  BY DEF InCleanup, MayReplay, IsRejected
<1>8. QED
  BY <1>1, <1>2, <1>3, <1>4, <1>5, <1>6, <1>7
  DEF Next, vars, AcquireFresh, AcquireReplay, ObserveAcquire, RecordPlan, RecordAdmission, Submit,
      ReplyCreated, ReplyRejected, ReplyLost, ObserveReply, Bind, CompleteAcquire, Abandon,
      ReadClaim, Resolve, CompleteResolve, DeleteExact, FinalizeRejected, Create, Repeat, Reject,
      Vanish, WindowEnds, Running, Unchanged, Acquiring, InCleanup

\* Cleanup is final (the refusal of AcquireFixedResource to replay a journal
\* that is deleting or released).
THEOREM CleanupNeverUndone == Spec => CleanupIsFinal
<1>1. IInv /\ [Next]_vars =>
        [InCleanup(claim) => InCleanup(claim') /\ sent' = sent
                             /\ (claim.phase = "released" => claim' = claim)]_vars
  BY CleanupStep
<1>2. QED
  BY <1>1, FixedLeaseInvariant, PTL DEF Spec, CleanupIsFinal
=============================================================================
