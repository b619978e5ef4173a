---------------------------- MODULE MCClaimFile ----------------------------
(***************************************************************************)
(* ClaimFile for TLC: the operations spread over the processes.            *)
(***************************************************************************)
EXTENDS ClaimFile, TLC

CONSTANTS o1, o2, o3, p1, p2

\* Two operations contend for one process's mutex, the third runs elsewhere.
MCProcessOf == (o1 :> p1) @@ (o2 :> p1) @@ (o3 :> p2)

\* The two operations of one process are interchangeable.
Symmetry == Permutations({o1, o2})
=============================================================================
