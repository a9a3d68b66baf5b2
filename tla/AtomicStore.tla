------------------------------ MODULE AtomicStore ------------------------------
(***************************************************************************)
(* What the credential file promises (CredentialBackend of                 *)
(* packages/credential-store): set and delete of one entry take effect at  *)
(* one instant between call and return, change no other entry, and either  *)
(* happen entirely or, when the call fails, not at all.                    *)
(***************************************************************************)
CONSTANTS Procs, Keys, Secrets, None, NoRequest, Done
VARIABLES store, request

Request == [key : Keys, secret : Secrets \cup {None}]    \* None: delete

Init ==
  /\ store \in [Keys -> Secrets \cup {None}]
  /\ request = [p \in Procs |-> NoRequest]

Call(p) ==
  /\ request[p] = NoRequest
  /\ \E r \in Request : request' = [request EXCEPT ![p] = r]
  /\ UNCHANGED store

Perform(p) ==
  /\ request[p] \in Request
  /\ store' = [store EXCEPT ![request[p].key] = request[p].secret]
  /\ request' = [request EXCEPT ![p] = Done]

(* The call returns, or throws without having taken effect, or its process *)
(* dies before or after.                                                   *)
Return(p) ==
  /\ request[p] # NoRequest
  /\ request' = [request EXCEPT ![p] = NoRequest]
  /\ UNCHANGED store

Next == \E p \in Procs : Call(p) \/ Perform(p) \/ Return(p)
Spec == Init /\ [][Next]_<<store, request>>
=============================================================================
