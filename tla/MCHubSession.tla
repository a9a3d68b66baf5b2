----------------------------- MODULE MCHubSession -----------------------------
(* Instance of HubSession for TLC: two concurrent calls of one process, one *)
(* call of another, and a process that logs in and out.                     *)
EXTENDS HubSession, TLC

CONSTANTS p1, p2, p3, a1, a2, b1, s1

Slots == (a1 :> p1) @@ (a2 :> p1) @@ (b1 :> p2) @@ (s1 :> p3)
=============================================================================
