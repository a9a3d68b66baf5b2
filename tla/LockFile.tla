------------------------------- MODULE LockFile -------------------------------
(***************************************************************************)
(* The lock files of Apexnova Connect: withRuntimeRotationLock of          *)
(* apps/cli (one renewal of a profile's credential at a time) and #lock of *)
(* FileCredentialBackend (one change of the credential file at a time).    *)
(* Both create a file exclusively, take an old one for the remains of a    *)
(* dead process and unlink it, and unlink by path when they are done,      *)
(* whoever's file is there by then.                                        *)
(***************************************************************************)
EXTENDS Integers

CONSTANTS
  Procs,       \* processes
  Free,        \* there is no lock file
  Deadline,    \* the steps at which a waiter may find its deadline passed
  Windows,     \* the stretches below in which others act
  MaxCrashes,  \* bound: process deaths
  MaxFaults    \* bound: failing system calls

(*  race   between the stat that finds the file old and its unlink, another *)
(*         waiter breaks the same file and creates its own                 *)
(*  slow   a live holder takes longer than the file may grow old           *)
ASSUME FreeAssumption == Free \notin [owner : Procs, old : BOOLEAN]
ASSUME LockBounds == MaxCrashes \in Nat /\ MaxFaults \in Nat

VARIABLES
  lock,     \* the lock file: its creator, and whether it counts as stale
  at,       \* where each process is
  crashes, faults

lockVars == <<lock, at, crashes, faults>>

Waiting == {"try", "look", "break"}
Inside == {"in", "changed", "written", "failed"}

LockTypeOK ==
  /\ lock \in [owner : Procs, old : BOOLEAN] \cup {Free}
  /\ at \in [Procs -> {"out"} \cup Waiting \cup Inside]
  /\ crashes \in Nat /\ faults \in Nat

LockInit ==
  /\ lock = Free
  /\ at = [p \in Procs |-> "out"]
  /\ crashes = 0 /\ faults = 0

Goto(p, step) == at' = [at EXCEPT ![p] = step]
Fault == faults < MaxFaults /\ faults' = faults + 1
Holds(p) == at[p] \in Inside
Racing == \E p \in Procs : at[p] = "break"

-----------------------------------------------------------------------------
(* open with "wx".                                                         *)
Open(p) ==
  /\ at[p] = "try" /\ lock = Free
  /\ "race" \in Windows \/ ~Racing
  /\ lock' = [owner |-> p, old |-> FALSE]

Create(p) ==
  /\ Open(p)
  /\ Goto(p, "in")
  /\ UNCHANGED <<crashes, faults>>

(* open fails otherwise: the call throws.                                  *)
NotOpened(p) ==
  /\ at[p] = "try" /\ Fault
  /\ Goto(p, "out")
  /\ UNCHANGED <<lock, crashes>>

(* EEXIST.                                                                 *)
Collide(p) ==
  /\ at[p] = "try" /\ lock # Free
  /\ Goto(p, "look")
  /\ UNCHANGED <<lock, crashes, faults>>

(* stat: gone, stale, or to be waited for.  The mutants never find a file  *)
(* stale, or find every one stale.                                         *)
NeverStale == FALSE
AnyStale == lock # Free
Stale == lock # Free /\ lock.old
Look(p) ==
  /\ at[p] = "look"
  /\ Goto(p, IF Stale THEN "break" ELSE "try")
  /\ UNCHANGED <<lock, crashes, faults>>

(* unlink, of whatever is there by now.                                    *)
Break(p) ==
  /\ at[p] = "break"
  /\ lock' = Free /\ Goto(p, "try")
  /\ UNCHANGED <<crashes, faults>>

(* stat or unlink fails: a rotation throws, the credential file tries again. *)
NotBroken(p, step) ==
  /\ at[p] \in {"look", "break"} /\ Fault
  /\ Goto(p, step)
  /\ UNCHANGED <<lock, crashes>>

(* The deadline has passed.  A rotation looks at it before each attempt,   *)
(* the credential file only when the lock is not stale.                    *)
GiveUp(p) ==
  /\ at[p] \in Deadline
  /\ at[p] = "look" => lock # Free /\ ~Stale
  /\ Goto(p, "out")
  /\ UNCHANGED <<lock, crashes, faults>>

(* The finally block, after success or failure.  An unlink that fails is   *)
(* ignored and leaves the file.                                            *)
Release(p) ==
  /\ Holds(p) /\ Goto(p, "out")
  /\ \/ lock' = Free /\ UNCHANGED faults
     \/ Fault /\ UNCHANGED lock
  /\ UNCHANGED crashes

Crash(p) ==
  /\ at[p] # "out" /\ crashes < MaxCrashes
  /\ crashes' = crashes + 1 /\ Goto(p, "out")
  /\ UNCHANGED <<lock, faults>>

(* Time passes: the file becomes older than the limit.                     *)
Age ==
  /\ lock # Free /\ ~lock.old
  /\ "slow" \in Windows \/ ~Holds(lock.owner)
  /\ lock' = [lock EXCEPT !.old = TRUE]
  /\ UNCHANGED <<at, crashes, faults>>

-----------------------------------------------------------------------------
(* A rotation: take the lock, renew, let it go.  The new file also gets    *)
(* the process id; when that fails the call throws and the file stays.     *)
Ask(p) ==
  /\ at[p] = "out" /\ Goto(p, "try")
  /\ UNCHANGED <<lock, crashes, faults>>

NotNoted(p) ==
  /\ Open(p) /\ Fault
  /\ Goto(p, "out")
  /\ UNCHANGED crashes

Obtain(p) == Create(p) \/ Collide(p) \/ Look(p) \/ Break(p)
RotationNext ==
  \/ \E p \in Procs :
       \/ Ask(p) \/ Obtain(p) \/ GiveUp(p) \/ Release(p) \/ Crash(p)
       \/ NotOpened(p) \/ NotNoted(p) \/ NotBroken(p, "out")
  \/ Age
Rotation == LockInit /\ [][RotationNext]_lockVars

-----------------------------------------------------------------------------
(* Only one process at a time is past the lock ("only one process may      *)
(* renew", docs/cli-spec.md; no lost update in the credential file).       *)
MutualExclusion == \A p, q \in Procs : Holds(p) /\ Holds(q) => p = q

(* Nobody waits for ever for the lock of a dead process: somebody gets in, *)
(* or everybody stops waiting.                                             *)
NobodyWaitsForTheDead ==
  (\E p \in Procs : at[p] \in Waiting) ~>
    (\E p \in Procs : Holds(p)) \/ (\A p \in Procs : at[p] \notin Waiting)

-----------------------------------------------------------------------------
(* The reason for MutualExclusion when both windows are closed: who is     *)
(* inside owns a file that is not old, and who is about to break a file    *)
(* breaks an old one, or none.                                             *)
Guarded ==
  /\ \A p \in Procs : Holds(p) => lock = [owner |-> p, old |-> FALSE]
  /\ Racing => lock = Free \/ lock.old
=============================================================================
