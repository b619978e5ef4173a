----------------------------- MODULE FixedLease -----------------------------
(***************************************************************************)
(* The fixed-lease engine of the crabbox CLI: a lease whose ID the caller  *)
(* chose must own at most one native machine for ever, although the        *)
(* process may die between any two of its writes, a create may be answered *)
(* late or never, and a create nobody waits for may still take effect.     *)
(*                                                                         *)
(* internal/cli/fixed_lease*.go keeps one durable claim per lease: an      *)
(* intent with a state, a journal phase and a native attempt, written      *)
(* before each effect it announces.  Acquisition, resolution and deletion  *)
(* hold the claim's file lock from beginning to end, so one operation runs *)
(* at a time; what interleaves with it is the provider, which handles      *)
(* requests in its own time, and a second command that read the claim      *)
(* before it waited for the lock (seen).                                   *)
(*                                                                         *)
(* What proves that nothing was created, and what permits a create to be   *)
(* sent again, differs from provider to provider.  The policies of four    *)
(* adapters are modelled:                                                  *)
(*   asciibox      an idempotency key, one resubmission inside its window  *)
(*   codespaces    an attempt marked pending, then submitted               *)
(*   digitalocean  an empty attempt; a rejected one is filed as failed     *)
(*   incus         any number of creates of one name and UUID              *)
(* A kind that admits a create from a fresh intent only and never repeats  *)
(* it (FreshOnly without a KeyedRetry) is not among them: it permits what  *)
(* asciibox permits, less the resubmission.                                *)
(***************************************************************************)
EXTENDS Naturals

CONSTANTS
    Adapters,       \* the adapters to consider
    LateCreates,    \* whether Incus may still be preparing a create of a name
                    \*   when the instance that had that name is gone
    MaxClaims,      \* bound: claims made for the lease ID (after a settled rejection)
    MaxAttempts,    \* bound: native attempts planned
    MaxRequests     \* bound: create requests sent

Providers == {"asciibox", "codespaces", "digitalocean", "incus"}

ASSUME AdaptersAssumption == Adapters \subseteq Providers /\ LateCreates \in BOOLEAN

ASSUME BoundsAssumption ==
    MaxClaims \in Nat /\ MaxAttempts \in Nat /\ MaxRequests \in Nat

VARIABLES
    provider,   \* the adapter this lease belongs to
    claim,      \* the durable claim, or NoClaim
    op,         \* the operation holding the claim's lock, or Idle
    seen,       \* the claim as a command read it before it waits for the lock
    inflight,   \* create requests the provider has not handled yet
    live,       \* native machines that exist
    allocated,  \* history: native identities ever allocated
    window,     \* the key's window: open, closed to the client, expired at the provider
    created,    \* claims made so far
    planned,    \* attempts planned so far
    sent        \* create requests sent so far

vars == <<provider, claim, op, seen, inflight, live, allocated, window,
          created, planned, sent>>

(***************************************************************************)
(* Data.  A create request carries its attempt (the nonce, key, marker or  *)
(* UUID) and its number; a machine is known by the request that made it,   *)
(* except on Incus, where name and UUID are the attempt's.  0 is "none".   *)
(***************************************************************************)
Requests == [attempt : Nat, seq : Nat]
NoRequest == [attempt |-> 0, seq |-> 0]

NativeId(p, q) == IF p = "incus" THEN [q EXCEPT !.seq = 0] ELSE q

Claims ==
    [created : Nat,
     state : {"none", "prepared", "acquired", "deleting", "released"},
     phase : {"prepared", "submitting", "observed", "bound", "acquired", "deleting", "released"},
     attempt : Nat,
     submission : {"none", "pending", "submitted"},
     count : 0 .. 2,
     id : Requests,
     failed : SUBSET Nat]

NewClaim(n) ==
    [created |-> n, state |-> "prepared", phase |-> "prepared", attempt |-> 0,
     submission |-> "none", count |-> 0, id |-> NoRequest, failed |-> {}]

NoClaim == [NewClaim(0) EXCEPT !.state = "none"]

Ops == [pc : {"idle", "observe", "plan", "admit", "submit", "wait", "got", "bind", "access",
              "resolve", "delete", "terminal"},
        fresh : BOOLEAN,
        initial : BOOLEAN,
        req : Requests,
        reply : {"none", "rejected", "created"},
        item : Requests]

Operation(pc, fresh, initial, item) ==
    [pc |-> pc, fresh |-> fresh, initial |-> initial, req |-> NoRequest,
     reply |-> "none", item |-> item]

Idle == Operation("idle", FALSE, FALSE, NoRequest)

Running(pc) == op.pc = pc
Goto(pc) == op' = [op EXCEPT !.pc = pc]
Return == op' = Idle

Bound(c) == c.id # NoRequest
Keyed == provider = "asciibox"

-----------------------------------------------------------------------------
(***************************************************************************)
(* Observation.  Reads of an exact identity are authoritative; an          *)
(* inventory (listed) may miss machines that exist.                        *)
(***************************************************************************)
Owned(c, machines) == {m \in machines : m.attempt = c.attempt}

Candidates(p, c, listed) ==
    CASE p = "incus" -> IF c.attempt = 0 THEN {} ELSE live
      [] Bound(c) -> live \cap {c.id}
      [] p \in {"digitalocean", "codespaces"} /\ c.attempt # 0 -> Owned(c, listed)
      [] OTHER -> {}

CanSubmit(p, c) ==
    CASE p = "asciibox" -> ~Bound(c)
      [] p = "codespaces" -> ~Bound(c) /\ (c.attempt = 0 \/ c.submission = "pending")
      [] p = "digitalocean" -> c.attempt = 0
      [] p = "incus" -> live = {}

\* A mutant of AbsenceProven: Incus takes any 404 for absence.
AbsenceProvenBy404(p, c) ==
    CASE p = "codespaces" -> IF Bound(c) THEN c.id \notin live
                             ELSE c.attempt = 0 \/ c.submission = "pending"
      [] p = "incus" -> c.attempt # 0 /\ live = {}
      [] OTHER -> Bound(c) /\ c.id \notin live

AbsenceProven(p, c) ==
    CASE p = "asciibox" -> Bound(c) /\ c.id \notin live
      [] p = "codespaces" -> IF Bound(c) THEN c.id \notin live
                             ELSE c.attempt = 0 \/ c.submission = "pending"
      [] p = "digitalocean" -> Bound(c) /\ c.id \notin live
      [] p = "incus" -> c.attempt # 0 /\ live = {} /\ c.state \in {"acquired", "deleting"}

-----------------------------------------------------------------------------
(***************************************************************************)
(* Admission: whether an unbound attempt may be submitted at all.          *)
(***************************************************************************)
\* A mutant of Permits: a keyed create is resubmitted as often as one likes.
PermitsRepeatedly(p, c, fresh) ==
    CASE p = "asciibox" -> \/ fresh /\ c.attempt = 0
                           \/ c.count # 0 /\ window = "open"
      [] p = "codespaces" -> c.attempt = 0 \/ c.submission = "pending"
      [] p = "digitalocean" -> c.attempt = 0
      [] p = "incus" -> TRUE

Permits(p, c, fresh) ==
    CASE p = "asciibox" -> \/ fresh /\ c.attempt = 0
                           \/ c.count = 1 /\ window = "open"
      [] p = "codespaces" -> c.attempt = 0 \/ c.submission = "pending"
      [] p = "digitalocean" -> c.attempt = 0
      [] p = "incus" -> TRUE

Plan(p, c, attempt) ==
    [c EXCEPT !.attempt = attempt, !.phase = "prepared",
              !.submission = IF p = "codespaces" THEN "pending" ELSE "none"]

\* Admit: the submission is counted, and marked, before it is sent.
Admit(p, c) ==
    [c EXCEPT !.phase = "submitting",
              !.count = IF p = "asciibox" THEN @ + 1 ELSE @,
              !.submission = IF p = "codespaces" THEN "submitted" ELSE @]

BoundTo(c, machine) ==
    [c EXCEPT !.id = machine,
              !.phase = IF c.state = "acquired" THEN "acquired" ELSE "bound"]

\* RejectAttempt: a certified failure files the attempt and clears it.
RejectAttempt(c) ==
    [c EXCEPT !.failed = @ \cup {c.attempt}, !.attempt = 0,
              !.submission = "none", !.phase = "prepared"]

IsRejected(c) ==
    /\ c.state = "prepared" /\ c.phase = "prepared"
    /\ c.attempt = 0 /\ ~Bound(c) /\ c.failed # {}

CanSettleCreateRejection ==
    /\ op.initial
    /\ claim.state = "prepared" /\ ~Bound(claim)
    /\ claim.phase \in {"prepared", "submitting"}

\* Only the kinds with TerminalIdentityLabels keep the machine's identity.
TerminalClaim(p, c) ==
    [c EXCEPT !.state = "released", !.phase = "released", !.attempt = 0,
              !.submission = "none", !.count = 0, !.failed = {},
              !.id = IF p \in {"asciibox", "codespaces"} THEN @ ELSE NoRequest]

-----------------------------------------------------------------------------
Init ==
    /\ provider \in Adapters
    /\ claim = NoClaim /\ op = Idle /\ seen = NoClaim
    /\ inflight = {} /\ live = {} /\ allocated = {}
    /\ window = "open"
    /\ created = 0 /\ planned = 0 /\ sent = 0

Begin(pc, fresh, initial, item) ==
    op' = Operation(pc, fresh, initial, item)

(***************************************************************************)
(* Acquisition.                                                            *)
(***************************************************************************)
\* A mutant of MayReplay: only the intent's state is looked at.
MayReplayByState(c) == c.state \in {"prepared", "acquired"}

\* A claim that entered cleanup is refused; so is a state that is not one
\* of an acquisition.
MayReplay(c) ==
    /\ c.state \in {"prepared", "acquired"}
    /\ c.phase \notin {"deleting", "released"}

\* AcquireFixedIntent with no claim: the prepared intent is durable first.
AcquireFresh ==
    /\ op = Idle /\ claim = NoClaim /\ created < MaxClaims
    /\ created' = created + 1
    /\ claim' = NewClaim(created + 1)
    /\ Begin("observe", TRUE, TRUE, NoRequest)
    /\ UNCHANGED <<provider, seen, inflight, live, allocated, window, planned, sent>>

AcquireReplay ==
    /\ op = Idle /\ claim # NoClaim
    /\ MayReplay(claim)
    /\ Begin("observe", FALSE,
             claim.state = "prepared" /\ claim.attempt = 0 /\ ~Bound(claim), NoRequest)
    /\ UNCHANGED <<provider, claim, seen, inflight, live, allocated, window,
                   created, planned, sent>>

\* ObserveExact: one attested machine is adopted; none, and the engine may
\* submit when native evidence and admission both say so.
ObserveAcquire ==
    /\ Running("observe")
    /\ \E listed \in SUBSET live :
         \/ \E m \in Candidates(provider, claim, listed) :
              /\ Candidates(provider, claim, listed) = {m}
              /\ op' = [op EXCEPT !.pc = "bind", !.item = m]
         \/ /\ Candidates(provider, claim, listed) = {}
            /\ CanSubmit(provider, claim)
            /\ Permits(provider, claim, op.fresh)
            /\ claim.state = "prepared" /\ ~Bound(claim)
            /\ Goto("plan")
    /\ UNCHANGED <<provider, claim, seen, inflight, live, allocated, window,
                   created, planned, sent>>

\* An empty attempt is planned; either way the prepared journal is durable.
RecordPlan ==
    /\ Running("plan")
    /\ IF claim.attempt = 0
       THEN /\ planned < MaxAttempts
            /\ planned' = planned + 1
            /\ claim' = Plan(provider, claim, planned + 1)
       ELSE /\ claim' = [claim EXCEPT !.phase = "prepared"]
            /\ UNCHANGED planned
    /\ Goto("admit")
    /\ UNCHANGED <<provider, seen, inflight, live, allocated, window, created, sent>>

RecordAdmission ==
    /\ Running("admit")
    /\ Keyed => IF claim.count = 0 THEN op.fresh ELSE Permits(provider, claim, op.fresh)
    /\ claim' = Admit(provider, claim)
    /\ Goto("submit")
    /\ UNCHANGED <<provider, seen, inflight, live, allocated, window,
                   created, planned, sent>>

\* A mutant of Submit: what is left of the key's window is not looked at.
SubmitAfterWindow ==
    /\ Running("submit") /\ sent < MaxRequests
    /\ LET q == [attempt |-> claim.attempt, seq |-> sent + 1]
       IN /\ inflight' = inflight \cup {q}
          /\ op' = [op EXCEPT !.pc = "wait", !.req = q]
    /\ sent' = sent + 1
    /\ UNCHANGED <<provider, claim, seen, live, allocated, window, created, planned>>

\* Submit sends one request.  A keyed one is refused once its window is over.
Submit ==
    /\ Running("submit") /\ sent < MaxRequests
    /\ Keyed => window = "open"
    /\ LET q == [attempt |-> claim.attempt, seq |-> sent + 1]
       IN /\ inflight' = inflight \cup {q}
          /\ op' = [op EXCEPT !.pc = "wait", !.req = q]
    /\ sent' = sent + 1
    /\ UNCHANGED <<provider, claim, seen, live, allocated, window, created, planned>>

\* The answer of a create arrived.
ReplyCreated ==
    /\ Running("wait") /\ op.reply = "created"
    /\ Goto("got")
    /\ UNCHANGED <<provider, claim, seen, inflight, live, allocated, window,
                   created, planned, sent>>

\* A certified rejection: Codespaces settles its claim, DigitalOcean files
\* the attempt; the others, and a claim that cannot settle, are retained.
ReplyRejected ==
    /\ Running("wait") /\ op.reply = "rejected"
    /\ CASE provider = "codespaces" /\ CanSettleCreateRejection -> claim' = NoClaim
         [] provider = "digitalocean" -> claim' = RejectAttempt(claim)
         [] OTHER -> claim' = claim
    /\ Return
    /\ UNCHANGED <<provider, seen, inflight, live, allocated, window,
                   created, planned, sent>>

\* The wait ended without an answer.  DigitalOcean records what it knows of
\* the key (phase observed) before it returns the error.
ReplyLost ==
    /\ Running("wait")
    /\ claim' = IF provider = "digitalocean" THEN [claim EXCEPT !.phase = "observed"] ELSE claim
    /\ Return
    /\ UNCHANGED <<provider, seen, inflight, live, allocated, window,
                   created, planned, sent>>

\* asciibox publishes the returned ID, DigitalOcean the key's identity,
\* before anything further can fail.
ObserveReply ==
    /\ Running("got")
    /\ claim' = CASE provider = "asciibox" -> [claim EXCEPT !.id = op.item, !.phase = "observed"]
                  [] provider = "digitalocean" -> [claim EXCEPT !.phase = "observed"]
                  [] OTHER -> claim
    /\ Goto("bind")
    /\ UNCHANGED <<provider, seen, inflight, live, allocated, window,
                   created, planned, sent>>

\* Bind: identity is monotonic.
Bind ==
    /\ Running("bind")
    /\ claim.id \in {NoRequest, op.item}
    /\ claim' = BoundTo(claim, op.item)
    /\ Goto("access")
    /\ UNCHANGED <<provider, seen, inflight, live, allocated, window,
                   created, planned, sent>>

CompleteAcquire ==
    /\ Running("access")
    /\ claim' = [claim EXCEPT !.state = "acquired", !.phase = "acquired"]
    /\ Return
    /\ UNCHANGED <<provider, seen, inflight, live, allocated, window,
                   created, planned, sent>>

\* An error return or the death of the process: what is not durable is gone.
Abandon ==
    /\ op # Idle
    /\ Return
    /\ UNCHANGED <<provider, claim, seen, inflight, live, allocated, window,
                   created, planned, sent>>

-----------------------------------------------------------------------------
(***************************************************************************)
(* Commands that read the claim first and take its lock later.             *)
(***************************************************************************)
ReadClaim ==
    /\ claim # NoClaim /\ seen # claim
    /\ seen' = claim
    /\ UNCHANGED <<provider, claim, op, inflight, live, allocated, window,
                   created, planned, sent>>

\* The lock is free and the claim is still the one that was read.
Unchanged == op = Idle /\ claim # NoClaim /\ seen = claim

\* Releasing an unbound lease whose machine the inventory shows binds it by
\* compare-and-set before it deletes.
BindForRelease ==
    /\ provider \in {"digitalocean", "codespaces"}
    /\ Unchanged /\ seen.state # "released" /\ ~Bound(seen)
    /\ \E m \in Candidates(provider, seen, live) :
         claim' = [seen EXCEPT !.id = m]
    /\ seen' = claim'
    /\ UNCHANGED <<provider, op, inflight, live, allocated, window,
                   created, planned, sent>>

\* ResolveFixedLeaseTarget: the identity is bound without touching the
\* journal, and access is prepared under the lock.
Resolve ==
    /\ provider \in {"asciibox", "codespaces"}
    /\ Unchanged
    /\ seen.state \notin {"deleting", "released"} /\ seen.phase # "deleting"
    /\ \E m \in Candidates(provider, seen, live) :
         claim' = [seen EXCEPT !.id = m]
    /\ Begin("resolve", FALSE, FALSE, NoRequest)
    /\ UNCHANGED <<provider, seen, inflight, live, allocated, window,
                   created, planned, sent>>

CompleteResolve ==
    /\ Running("resolve")
    /\ claim' = [claim EXCEPT !.state = "acquired"]
    /\ Return
    /\ UNCHANGED <<provider, seen, inflight, live, allocated, window,
                   created, planned, sent>>

\* The machine goes (external).  Unless LateCreates, a create of a name that
\* reached Incus while the name was in use has been refused by then.
Gone(machine) ==
    /\ live' = live \ {machine}
    /\ inflight' = IF provider = "incus" /\ ~LateCreates THEN {} ELSE inflight

\* What deletion makes durable before it deletes.  The kinds of asciibox and
\* Incus have a DeletionState for the intent as well; DigitalOcean's claims
\* have neither a deletion state nor a binding to publish.
RecordDeletion(p, c, machine) ==
    CASE p = "incus" ->
           [c EXCEPT !.state = "deleting", !.phase = "deleting",
                     !.id = [attempt |-> c.attempt, seq |-> 0]]
      [] p = "asciibox" -> [c EXCEPT !.state = "deleting", !.phase = "deleting"]
      [] p = "codespaces" /\ machine # NoRequest ->
           [c EXCEPT !.phase = "deleting", !.id = machine]
      [] OTHER -> c

\* DeleteFixedResource up to the native delete.
DeleteFixedResource ==
    /\ Unchanged /\ seen.state # "released"
    /\ \E listed \in SUBSET live :
         LET machines == Candidates(provider, seen, listed)
         IN \/ /\ AbsenceProven(provider, seen) /\ machines = {}
               /\ claim' = RecordDeletion(provider, seen, NoRequest)
               /\ Begin("terminal", FALSE, FALSE, NoRequest)
            \/ \E m \in machines :
                 /\ machines = {m}
                 /\ provider = "digitalocean" => Bound(seen)
                 /\ claim' = RecordDeletion(provider, seen, m)
                 /\ Begin("delete", FALSE, FALSE, m)
    /\ UNCHANGED <<provider, seen, inflight, live, allocated, window,
                   created, planned, sent>>

\* DeleteExact.
DeleteExact ==
    /\ Running("delete")
    /\ Gone(op.item)
    /\ Goto("terminal")
    /\ UNCHANGED <<provider, claim, seen, allocated, window,
                   created, planned, sent>>

PublishTerminal ==
    /\ Running("terminal")
    /\ claim' = TerminalClaim(provider, claim)
    /\ Return
    /\ UNCHANGED <<provider, seen, inflight, live, allocated, window,
                   created, planned, sent>>

\* FinalizeAfterCleanup of a DigitalOcean claim whose last attempt was rejected.
FinalizeRejected ==
    /\ provider = "digitalocean"
    /\ Unchanged /\ IsRejected(seen)
    /\ claim' = TerminalClaim(provider, seen)
    /\ UNCHANGED <<provider, op, seen, inflight, live, allocated, window,
                   created, planned, sent>>

-----------------------------------------------------------------------------
(***************************************************************************)
(* The provider (external).  A request is handled once, at any later time. *)
(***************************************************************************)
Answer(q, reply, machine) ==
    op' = IF Running("wait") /\ op.req = q
          THEN [op EXCEPT !.reply = reply, !.item = machine] ELSE op

\* asciibox answers a key it knows with the box it made; Incus refuses a
\* name in use, and of several creates of one name under way keeps one.
Create(q) ==
    /\ q \in inflight
    /\ ~(provider = "asciibox" /\ allocated # {} /\ window # "expired")
    /\ ~(provider = "incus" /\ live # {})
    /\ inflight' = IF provider = "incus" THEN {} ELSE inflight \ {q}
    /\ live' = live \cup {NativeId(provider, q)}
    /\ allocated' = allocated \cup {NativeId(provider, q)}
    /\ Answer(q, "created", NativeId(provider, q))
    /\ UNCHANGED <<provider, claim, seen, window, created, planned, sent>>

Repeat(q) ==
    /\ q \in inflight
    /\ provider = "asciibox" /\ allocated # {} /\ window # "expired"
    /\ inflight' = inflight \ {q}
    /\ \E m \in allocated : Answer(q, "created", m)
    /\ UNCHANGED <<provider, claim, seen, live, allocated, window,
                   created, planned, sent>>

Reject(q) ==
    /\ q \in inflight
    /\ inflight' = inflight \ {q}
    /\ Answer(q, "rejected", NoRequest)
    /\ UNCHANGED <<provider, claim, seen, live, allocated, window,
                   created, planned, sent>>

\* A machine expires, or somebody deletes it behind the lease's back.
Vanish(m) ==
    /\ m \in live
    /\ Gone(m)
    /\ UNCHANGED <<provider, claim, op, seen, allocated, window,
                   created, planned, sent>>

\* The key's window ends for the client, whose requests end with it, and
\* later the provider forgets the key.
WindowEnds ==
    /\ Keyed /\ window # "expired" /\ sent > 0
    /\ window = "closed" => inflight = {}
    /\ window' = IF window = "open" THEN "closed" ELSE "expired"
    /\ UNCHANGED <<provider, claim, op, seen, inflight, live, allocated,
                   created, planned, sent>>

-----------------------------------------------------------------------------
Next ==
    \/ AcquireFresh \/ AcquireReplay \/ ObserveAcquire
    \/ RecordPlan \/ RecordAdmission \/ Submit
    \/ ReplyCreated \/ ReplyRejected \/ ReplyLost
    \/ ObserveReply \/ Bind \/ CompleteAcquire \/ Abandon
    \/ ReadClaim \/ BindForRelease \/ Resolve \/ CompleteResolve
    \/ DeleteFixedResource \/ DeleteExact \/ PublishTerminal \/ FinalizeRejected
    \/ \E q \in inflight : Create(q) \/ Repeat(q) \/ Reject(q)
    \/ \E m \in live : Vanish(m)
    \/ WindowEnds

Spec == Init /\ [][Next]_vars
-----------------------------------------------------------------------------
(***************************************************************************)
(* Properties.                                                             *)
(***************************************************************************)
\* The type invariant.
TypeOK ==
    /\ provider \in Adapters
    /\ claim \in Claims /\ seen \in Claims
    /\ op \in Ops
    /\ inflight \subseteq Requests
    /\ live \subseteq allocated /\ allocated \subseteq Requests
    /\ window \in {"open", "closed", "expired"}
    /\ created \in 0 .. MaxClaims
    /\ planned \in 0 .. MaxAttempts
    /\ sent \in 0 .. MaxRequests

\* One lease ID never gets two machines: whatever was lost, repeated,
\* rejected or abandoned on the way, all allocations have one identity.
OneIdentity == \A m, n \in allocated : m = n

\* A machine that exists, or that a request under way may still bring about,
\* is always accounted for: the claim is there, is not a tombstone, and
\* names the machine or the attempt that makes it.  So a lease is never
\* reported released, and its claim never removed, while it can cost money.
MayAllocate(q) == provider = "asciibox" => allocated = {}
Custody ==
    /\ \A m \in live :
         /\ claim # NoClaim /\ claim.state # "released"
         /\ claim.id = m \/ (~Bound(claim) /\ claim.attempt = m.attempt)
    /\ \A q \in inflight :
         MayAllocate(q) =>
           /\ claim # NoClaim /\ claim.state # "released"
           /\ claim.attempt = q.attempt

\* Cleanup is final: a claim whose journal says deleting is only ever
\* replaced by one that says so too, or by its tombstone; no replay hands
\* the machine out again, and nothing is sent for it any more.
InCleanup(c) == c.phase \in {"deleting", "released"}
CleanupIsFinal ==
    [][InCleanup(claim) => InCleanup(claim') /\ sent' = sent
                           /\ (claim.phase = "released" => claim' = claim)]_vars
=============================================================================
