-------------------------- MODULE LeaseLifecycle ---------------------------
(***************************************************************************)
(* What durable provisioning promises the clients of a lease, without      *)
(* operations, claims, journals or time.  A lease is requested and then    *)
(* becomes active, fails, or is withdrawn by a release, a cancellation or  *)
(* its expiry.  A withdrawn lease never comes back: its server is deleted, *)
(* or kept because its owner said so, and a kept server may still be       *)
(* deleted.  The last word on deletion is the first request to delete; a   *)
(* create attempt once revoked brings no lease to life.                    *)
(***************************************************************************)
CONSTANT Leases

VARIABLES
    stage,      \* none, requested, active, failed, withdrawn, kept or gone
    wish,       \* is its server to be deleted: unset, yes or no
    revoked     \* the leases whose create attempt was canceled

vars == <<stage, wish, revoked>>

Init ==
    /\ stage = [l \in Leases |-> "none"]
    /\ wish = [l \in Leases |-> "unset"]
    /\ revoked = {}

Request(l) ==
    /\ stage[l] = "none"
    /\ l \notin revoked
    /\ stage' = [stage EXCEPT ![l] = "requested"]
    /\ UNCHANGED <<wish, revoked>>

\* A create attempt is canceled before, during or after its admission.
Revoke(l) ==
    /\ revoked' = revoked \cup {l}
    /\ UNCHANGED <<stage, wish>>

Activate(l) ==
    /\ stage[l] = "requested"
    /\ wish[l] = "unset"
    /\ l \notin revoked
    /\ stage' = [stage EXCEPT ![l] = "active"]
    /\ UNCHANGED <<wish, revoked>>

\* Every candidate was refused, and what was made of them is gone.
Fail(l) ==
    /\ stage[l] = "requested"
    /\ wish[l] = "unset"
    /\ l \notin revoked
    /\ stage' = [stage EXCEPT ![l] = "failed"]
    /\ wish' = [wish EXCEPT ![l] = "yes"]
    /\ UNCHANGED revoked

\* A release, a cancellation or an expiry, first or repeated.  The server can
\* be asked to stay only until somebody asks for its deletion.
Withdraw(l, w) ==
    /\ stage[l] \in {"requested", "withdrawn", "kept"}
    /\ w = "no" => wish[l] # "yes"
    /\ stage' = [stage EXCEPT
                   ![l] = IF @ = "kept" /\ w = "no" THEN "kept" ELSE "withdrawn"]
    /\ wish' = [wish EXCEPT ![l] = w]
    /\ revoked' \in {revoked, revoked \cup {l}}

\* Nothing is left to run, and the server stays.
Keep(l) ==
    /\ stage[l] = "withdrawn"
    /\ wish[l] = "no"
    /\ stage' = [stage EXCEPT ![l] = "kept"]
    /\ UNCHANGED <<wish, revoked>>

\* Nothing is left at all.  A lease that outlived its deadline while its last
\* step ran goes this way without having been withdrawn; one whose candidates
\* were already refused has nothing to keep.
Settle(l) ==
    /\ stage[l] \in {"requested", "withdrawn"}
    /\ stage' = [stage EXCEPT ![l] = "gone"]
    /\ wish' = [wish EXCEPT ![l] = "yes"]
    /\ UNCHANGED revoked

Next ==
    \E l \in Leases :
      \/ Request(l) \/ Revoke(l) \/ Activate(l) \/ Fail(l)
      \/ \E w \in {"yes", "no"} : Withdraw(l, w)
      \/ Keep(l) \/ Settle(l)

Spec == Init /\ [][Next]_vars
============================================================================
