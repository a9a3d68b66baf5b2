---------------------------- MODULE CredentialFile ----------------------------
(***************************************************************************)
(* FileCredentialBackend of packages/credential-store: one JSON file holds *)
(* every secret, and set and delete read it, change one entry and write it *)
(* back under a lock file.  Inside a process calls are queued (#serialize) *)
(* and run synchronously, so each process has at most one call.            *)
(***************************************************************************)
EXTENDS LockFile

CONSTANTS Keys, Secrets, None, NoRequest, NoCopy, Done

VARIABLES
  entries,   \* the credential file
  request,   \* [Procs -> what the running call sets or deletes]
  copy       \* [Procs -> the contents the running call has read]

vars == <<lock, at, crashes, faults, entries, request, copy>>
File == [Keys -> Secrets \cup {None}]
Request == [key : Keys, secret : Secrets \cup {None}]
ASSUME MarkersAssumption ==
  /\ NoRequest \notin Request /\ Done \notin Request /\ Done # NoRequest
  /\ NoCopy \notin File

TypeOK ==
  /\ LockTypeOK
  /\ entries \in File
  /\ request \in [Procs -> Request \cup {NoRequest}]
  /\ copy \in [Procs -> File \cup {NoCopy}]

Init ==
  /\ LockInit
  /\ entries \in File
  /\ request = [p \in Procs |-> NoRequest]
  /\ copy = [p \in Procs |-> NoCopy]

data == <<entries, request, copy>>
Forget(p) ==
  /\ request' = [request EXCEPT ![p] = NoRequest]
  /\ copy' = [copy EXCEPT ![p] = NoCopy]
  /\ UNCHANGED entries

Call(p) ==
  /\ at[p] = "out" /\ Goto(p, "try")
  /\ \E r \in Request : request' = [request EXCEPT ![p] = r]
  /\ UNCHANGED <<lock, crashes, faults, entries, copy>>

(* #lock, and the end of the call that could not take it.                  *)
Lock(p) == (Obtain(p) \/ NotBroken(p, "try")) /\ UNCHANGED data
NoLock(p) == (GiveUp(p) \/ NotOpened(p)) /\ Forget(p)

(* change(this.#read()), and #write: a temporary file is renamed over the  *)
(* credential file.  Each may throw (unreadable, not private, not JSON,    *)
(* disk full), and then nothing is written.                                *)
Change(p) ==
  /\ at[p] = "in"
  /\ \/ copy' = [copy EXCEPT ![p] = entries] /\ Goto(p, "changed") /\ UNCHANGED faults
     \/ Fault /\ Goto(p, "failed") /\ UNCHANGED copy
  /\ UNCHANGED <<lock, crashes, entries, request>>

(* The mutant writes the changed entry only.                               *)
OnlyChanged(p) == [k \in Keys |-> IF k = request[p].key THEN request[p].secret ELSE None]
Changed(p) == [copy[p] EXCEPT ![request[p].key] = request[p].secret]
Write(p) ==
  /\ at[p] = "changed"
  /\ \/ entries' = Changed(p) /\ Goto(p, "written") /\ UNCHANGED faults
     \/ Fault /\ Goto(p, "failed") /\ UNCHANGED entries
  /\ UNCHANGED <<lock, crashes, request, copy>>

Unlock(p) == at[p] \in {"written", "failed"} /\ Release(p) /\ Forget(p)
Die(p) == Crash(p) /\ Forget(p)

Step(p) == Lock(p) \/ Change(p) \/ Write(p) \/ Unlock(p)
Next ==
  \/ \E p \in Procs : Call(p) \/ Step(p) \/ NoLock(p) \/ Die(p)
  \/ Age /\ UNCHANGED data
Spec == Init /\ [][Next]_vars
FairSpec == Spec /\ (\A p \in Procs : WF_vars(Step(p))) /\ WF_vars(Age /\ UNCHANGED data)

-----------------------------------------------------------------------------
(* The credential file is an atomic store: between a call and its return   *)
(* exactly its own entry changes, once or, when it fails, never.  A lost   *)
(* update or a half-written file would be a step the store does not have   *)
(* (the lock of FileCredentialBackend, its rename).                        *)
Pending ==
  [p \in Procs |-> CASE at[p] = "out" -> NoRequest
                     [] at[p] = "written" -> Done
                     [] OTHER -> request[p]]
Store == INSTANCE AtomicStore WITH store <- entries, request <- Pending
ImplementsStore == Store!Spec

(* What makes it true: the copy a process is about to write back is what   *)
(* the file still holds.                                                   *)
CopyIsCurrent == \A p \in Procs : at[p] = "changed" => copy[p] = entries
Busy == \A p \in Procs : at[p] # "out" => request[p] \in Request
=============================================================================
