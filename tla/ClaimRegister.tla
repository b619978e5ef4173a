--------------------------- MODULE ClaimRegister ---------------------------
(***************************************************************************)
(* What the claim file of one lease promises its clients: a register that  *)
(* is only ever overwritten by a client that knows the value it            *)
(* overwrites.  A client that committed to a snapshot may not look again;  *)
(* a published claim is never published by a second client, so a snapshot  *)
(* that compares equal is the same publication; and a machine crash        *)
(* reveals only a value published since the last flush.                    *)
(***************************************************************************)
EXTENDS Integers

CONSTANTS
    Client,     \* operations on the claim
    Claim,      \* claims that can be published
    NoClaim,    \* the absent claim file
    Nobody      \* the author of what the file held at the start

VARIABLES
    value,      \* what a reader of the file sees
    durable,    \* the values a machine crash may leave behind
    seen,       \* the value each client believes the file holds
    bound,      \* the clients that are bound to their snapshot
    authored    \* who published which claim

vars == <<value, durable, seen, bound, authored>>

Values == Claim \cup {NoClaim}

Init ==
    /\ value \in Values
    /\ durable = {value}
    /\ seen = [c \in Client |-> NoClaim]
    /\ bound = {}
    /\ authored = {<<Nobody, value>>}

(* A client takes a snapshot without any lock and may bind itself to it. *)
Snapshot(c) ==
    /\ c \notin bound
    /\ seen' = [seen EXCEPT ![c] = value]
    /\ bound' \in {bound, bound \cup {c}}
    /\ UNCHANGED <<value, durable, authored>>

(* A client overwrites the value it believes in with a claim of its own. *)
Publish(c) ==
    /\ value = seen[c]
    /\ value' \in Claim
    /\ \A pair \in authored : pair[2] = value' => pair[1] = c
    /\ seen' = [seen EXCEPT ![c] = value']
    /\ durable' = durable \cup {value'}
    /\ authored' = authored \cup {<<c, value'>>}
    /\ UNCHANGED bound

(* A client removes the value it believes in. *)
Remove(c) ==
    /\ value = seen[c]
    /\ value' = NoClaim
    /\ seen' = [seen EXCEPT ![c] = NoClaim]
    /\ durable' = durable \cup {NoClaim}
    /\ UNCHANGED <<bound, authored>>

(* Everything published so far reaches the disk. *)
Flush ==
    /\ durable' = {value}
    /\ UNCHANGED <<value, seen, bound, authored>>

(* The machine stops; the file system comes back with a value of durable. *)
Crash ==
    /\ value' \in durable
    /\ durable' = {value'}
    /\ UNCHANGED <<seen, bound, authored>>

Next ==
    \/ \E c \in Client : Snapshot(c) \/ Publish(c) \/ Remove(c)
    \/ Flush
    \/ Crash

Spec == Init /\ [][Next]_vars
=============================================================================
