------------------------- MODULE CredentialFileProofs -------------------------
(***************************************************************************)
(* What the lock files and the credential file do for every number of      *)
(* processes, keys, secrets, crashes and faults, when nobody acts inside   *)
(* the two windows of the lock (Windows = {}): at most one process is past *)
(* the lock, and the credential file implements the atomic store.          *)
(***************************************************************************)
EXTENDS CredentialFile, TLAPS

-----------------------------------------------------------------------------
(* The lock.  Every step of the protocol keeps its types and the guard.    *)
LockInv == LockTypeOK /\ Guarded

LEMMA LockStarts == LockInit => LockInv
BY FreeAssumption, LockBounds
   DEF LockInit, LockInv, LockTypeOK, Guarded, Holds, Racing, Waiting, Inside

(* The steps that leave the lock file alone and take nobody inside or to   *)
(* the unlink.                                                             *)
LEMMA MovesKeepLock ==
  ASSUME LockInv, NEW p \in Procs, NEW step \in {"out", "try", "look"},
         Goto(p, step), lock' = lock, crashes' \in Nat, faults' \in Nat
  PROVE  LockInv'
BY DEF LockInv, LockTypeOK, Guarded, Goto, Holds, Racing, Waiting, Inside

LEMMA CountsStay ==
  ASSUME LockInv
  PROVE  /\ crashes \in Nat /\ crashes + 1 \in Nat
         /\ Fault \/ UNCHANGED faults => faults' \in Nat
BY DEF LockInv, LockTypeOK, Fault

(* A process gets in only when the lock is free, so nobody is inside, and, *)
(* with the window closed, nobody is about to unlink.                      *)
LEMMA OpenKeepsLock ==
  ASSUME LockInv, Windows = {}, NEW p \in Procs, NEW step \in {"in", "out"},
         Open(p), Goto(p, step), crashes' \in Nat, faults' \in Nat
  PROVE  LockInv'
<1>1. /\ lock = Free /\ lock' = [owner |-> p, old |-> FALSE]
      /\ at' = [at EXCEPT ![p] = step]
      /\ \A q \in Procs : at[q] # "break"
  BY DEF Open, Goto, Racing
<1>2. \A q \in Procs : ~Holds(q)
  <2>1. \A q \in Procs : [owner |-> q, old |-> FALSE] \in [owner : Procs, old : BOOLEAN]
    OBVIOUS
  <2> QED BY <1>1, <2>1, FreeAssumption DEF LockInv, Guarded
<1>3. LockTypeOK'
  BY <1>1 DEF LockInv, LockTypeOK, Waiting, Inside
<1>4. \A q \in Procs : q # p => at'[q] = at[q]
  BY <1>1 DEF LockInv, LockTypeOK
<1>5. at'[p] = step
  BY <1>1 DEF LockInv, LockTypeOK
<1>6. ~Racing'
  BY <1>1, <1>4, <1>5 DEF Racing
<1>7. \A q \in Procs : Holds(q)' => lock' = [owner |-> q, old |-> FALSE]
  BY <1>1, <1>2, <1>4 DEF Holds
<1> QED BY <1>3, <1>6, <1>7 DEF LockInv, Guarded

LEMMA ObtainKeepsLock ==
  ASSUME LockInv, Windows = {}, NEW p \in Procs, Obtain(p)
  PROVE  LockInv'
<1>1. CASE Create(p)
  BY <1>1, OpenKeepsLock, CountsStay DEF Create
<1>2. CASE Collide(p)
  BY <1>2, MovesKeepLock, CountsStay DEF Collide
<1>3. CASE Look(p)
  BY <1>3 DEF Look, Stale, LockInv, LockTypeOK, Guarded, Goto, Holds, Racing, Waiting, Inside
<1>4. CASE Break(p)
  BY <1>4, FreeAssumption
     DEF Break, LockInv, LockTypeOK, Guarded, Goto, Holds, Racing, Waiting, Inside
<1> QED BY <1>1, <1>2, <1>3, <1>4 DEF Obtain

LEMMA LeaveKeepsLock ==
  ASSUME LockInv, NEW p \in Procs,
         \/ GiveUp(p) \/ NotOpened(p)
         \/ Release(p)
         \/ Crash(p)
         \/ NotBroken(p, "out")
         \/ NotBroken(p, "try")
  PROVE  LockInv'
<1>1. CASE GiveUp(p) \/ NotOpened(p)
  BY <1>1, MovesKeepLock, CountsStay DEF GiveUp, NotOpened
<1>2. CASE Release(p)
  <2>1. CASE UNCHANGED lock
    BY <1>2, <2>1, MovesKeepLock, CountsStay DEF Release
  <2>2. CASE lock' = Free
    <3>1. \A q \in Procs : Holds(q) => q = p
      BY <1>2 DEF Release, LockInv, Guarded
    <3> QED
      BY <1>2, <2>2, <3>1, CountsStay
         DEF Release, LockInv, LockTypeOK, Guarded, Goto, Holds, Racing, Waiting, Inside
  <2> QED BY <1>2, <2>1, <2>2 DEF Release
<1>3. CASE Crash(p)
  BY <1>3, MovesKeepLock, CountsStay DEF Crash
<1>4. CASE NotBroken(p, "out") \/ NotBroken(p, "try")
  BY <1>4, MovesKeepLock, CountsStay DEF NotBroken
<1> QED BY <1>1, <1>2, <1>3, <1>4

LEMMA AgeKeepsLock ==
  ASSUME LockInv, Windows = {}, Age
  PROVE  LockInv'
<1>1. /\ lock # Free /\ lock \in [owner : Procs, old : BOOLEAN] /\ ~Holds(lock.owner)
      /\ lock' = [lock EXCEPT !.old = TRUE]
      /\ UNCHANGED <<at, crashes, faults>>
  BY DEF Age, LockInv, LockTypeOK
<1>2. lock' \in [owner : Procs, old : BOOLEAN] /\ lock'.old = TRUE
  BY <1>1
<1>3. \A q \in Procs : ~Holds(q)
  BY <1>1 DEF LockInv, Guarded
<1> QED BY <1>1, <1>2, <1>3 DEF LockInv, LockTypeOK, Guarded, Holds, Racing

LEMMA GuardExcludes == LockInv => MutualExclusion
BY DEF LockInv, Guarded, MutualExclusion

(* Only one process renews at a time (withRuntimeRotationLock), if nobody  *)
(* acts inside a window.                                                   *)
THEOREM RotationExclusive ==
  ASSUME Windows = {}
  PROVE  Rotation => []MutualExclusion
<1>1. LockInv /\ [RotationNext]_lockVars => LockInv'
  <2> SUFFICES ASSUME LockInv, [RotationNext]_lockVars PROVE LockInv'
    OBVIOUS
  <2>1. ASSUME NEW p \in Procs, Ask(p) PROVE LockInv'
    BY <2>1, MovesKeepLock, CountsStay DEF Ask
  <2>2. ASSUME NEW p \in Procs, NotNoted(p) PROVE LockInv'
    BY <2>2, OpenKeepsLock, CountsStay DEF NotNoted
  <2>3. ASSUME NEW p \in Procs, Obtain(p) PROVE LockInv'
    BY <2>3, ObtainKeepsLock
  <2>4. ASSUME NEW p \in Procs, GiveUp(p) \/ NotOpened(p) \/ Release(p) \/ Crash(p) \/ NotBroken(p, "out")
        PROVE LockInv'
    BY <2>4, LeaveKeepsLock
  <2>5. CASE Age
    BY <2>5, AgeKeepsLock
  <2>6. CASE UNCHANGED lockVars
    BY <2>6 DEF lockVars, LockInv, LockTypeOK, Guarded, Holds, Racing
  <2> QED BY <2>1, <2>2, <2>3, <2>4, <2>5, <2>6 DEF RotationNext
<1> QED BY <1>1, LockStarts, GuardExcludes, PTL DEF Rotation

-----------------------------------------------------------------------------
(* The credential file.  Between read and write nobody else is inside, so  *)
(* the copy stays current.                                                 *)
DataTypeOK ==
  /\ entries \in File
  /\ request \in [Procs -> Request \cup {NoRequest}]
  /\ copy \in [Procs -> File \cup {NoCopy}]
Inv == LockInv /\ DataTypeOK /\ CopyIsCurrent /\ Busy

LEMMA Starts == Init => Inv
BY LockStarts DEF Init, Inv, DataTypeOK, LockInit, CopyIsCurrent, Busy

(* Steps of the lock alone.                                                *)
LEMMA LockKeepsInv ==
  ASSUME Inv, Windows = {}, NEW p \in Procs, Lock(p)
  PROVE  Inv'
<1>1. LockInv'
  BY ObtainKeepsLock, LeaveKeepsLock DEF Inv, Lock
<1>2. /\ at[p] \in Waiting
      /\ \E step \in {"try", "look", "break", "in"} : Goto(p, step)
      /\ UNCHANGED data
  BY DEF Lock, Obtain, Create, Open, Collide, Look, Break, NotBroken, Waiting
<1>3. PICK step \in {"try", "look", "break", "in"} : at' = [at EXCEPT ![p] = step]
  BY <1>2 DEF Goto
<1>4. at \in [Procs -> {"out"} \cup Waiting \cup Inside]
  BY DEF Inv, LockInv, LockTypeOK
<1>5. CopyIsCurrent' /\ Busy'
  BY <1>2, <1>3, <1>4 DEF Inv, CopyIsCurrent, Busy, data, Waiting
<1> QED BY <1>1, <1>2, <1>5 DEF Inv, DataTypeOK, data

(* Steps that end a call.                                                  *)
LEMMA EndKeepsInv ==
  ASSUME Inv, NEW p \in Procs, NoLock(p) \/ Unlock(p) \/ Die(p)
  PROVE  Inv'
<1>1. LockInv'
  BY LeaveKeepsLock DEF Inv, NoLock, Unlock, Die
<1>2. at' = [at EXCEPT ![p] = "out"] /\ Forget(p)
  BY DEF NoLock, Unlock, Die, GiveUp, NotOpened, Release, Crash, Goto
<1>3. at \in [Procs -> {"out"} \cup Waiting \cup Inside]
  BY DEF Inv, LockInv, LockTypeOK
<1>4. DataTypeOK'
  BY <1>2 DEF Inv, DataTypeOK, Forget
<1>5. CopyIsCurrent' /\ Busy'
  BY <1>2, <1>3 DEF Inv, DataTypeOK, CopyIsCurrent, Busy, Forget
<1> QED BY <1>1, <1>4, <1>5 DEF Inv

LEMMA CallKeepsInv ==
  ASSUME Inv, NEW p \in Procs, Call(p)
  PROVE  Inv'
<1>1. LockInv'
  BY MovesKeepLock, CountsStay DEF Call, Inv
<1>2. DataTypeOK'
  BY DEF Call, Inv, DataTypeOK
<1>3. CopyIsCurrent' /\ Busy'
  BY DEF Call, Inv, DataTypeOK, CopyIsCurrent, Busy, Goto, LockInv, LockTypeOK
<1> QED BY <1>1, <1>2, <1>3 DEF Inv

(* Steps inside: the lock file is not touched.                             *)
LEMMA InsideKeepsLock ==
  ASSUME LockInv, NEW p \in Procs, Holds(p), NEW step \in Inside, Goto(p, step),
         lock' = lock, crashes' = crashes, faults' \in Nat
  PROVE  LockInv'
<1>1. LockTypeOK'
  BY DEF LockInv, LockTypeOK, Goto
<1>2. Guarded'
  BY DEF LockInv, LockTypeOK, Guarded, Goto, Holds, Racing, Inside
<1> QED BY <1>1, <1>2 DEF LockInv

LEMMA ChangeKeepsInv ==
  ASSUME Inv, NEW p \in Procs, Change(p)
  PROVE  Inv'
<1>1. PICK step \in {"changed", "failed"} : Goto(p, step)
  BY DEF Change
<1>2. LockInv'
  <2>1. Holds(p) /\ step \in Inside
    BY DEF Change, Holds, Inside
  <2> QED BY <1>1, <2>1, InsideKeepsLock, CountsStay DEF Change, Inv
<1>3. DataTypeOK'
  BY DEF Change, Inv, DataTypeOK
<1>4. CopyIsCurrent' /\ Busy'
  BY DEF Change, Inv, DataTypeOK, CopyIsCurrent, Busy, Goto, LockInv, LockTypeOK
<1> QED BY <1>2, <1>3, <1>4 DEF Inv

(* What is written is the file with one entry changed, because the copy is *)
(* what the file holds.                                                    *)
LEMMA WriteChangesOne ==
  ASSUME Inv, NEW p \in Procs, at[p] = "changed"
  PROVE  /\ request[p] \in Request
         /\ Changed(p) = [entries EXCEPT ![request[p].key] = request[p].secret]
         /\ Changed(p) \in File
<1>1. request[p] \in Request /\ copy[p] = entries
  BY DEF Inv, Busy, CopyIsCurrent
<1> QED BY <1>1 DEF Changed, Request, File, Inv, DataTypeOK

LEMMA WriteKeepsInv ==
  ASSUME Inv, NEW p \in Procs, Write(p)
  PROVE  Inv'
<1>1. PICK step \in {"written", "failed"} : Goto(p, step)
  BY DEF Write
<1>2. LockInv'
  <2>1. Holds(p) /\ step \in Inside
    BY DEF Write, Holds, Inside
  <2> QED BY <1>1, <2>1, InsideKeepsLock, CountsStay DEF Write, Inv
<1>3. DataTypeOK'
  BY WriteChangesOne DEF Write, Inv, DataTypeOK
<1>4. \A q \in Procs : q # p => at[q] # "changed"
  BY GuardExcludes DEF Inv, MutualExclusion, Holds, Inside, Write
<1>5. CopyIsCurrent' /\ Busy'
  BY <1>1, <1>4 DEF Write, Inv, DataTypeOK, CopyIsCurrent, Busy, Goto, LockInv, LockTypeOK
<1> QED BY <1>2, <1>3, <1>5 DEF Inv

LEMMA NextKeepsInv == Windows = {} /\ Inv /\ [Next]_vars => Inv'
<1> SUFFICES ASSUME Windows = {}, Inv, [Next]_vars PROVE Inv'
  OBVIOUS
<1>1. ASSUME NEW p \in Procs, Call(p) PROVE Inv'
  BY <1>1, CallKeepsInv
<1>2. ASSUME NEW p \in Procs, Step(p) PROVE Inv'
  BY <1>2, LockKeepsInv, ChangeKeepsInv, WriteKeepsInv, EndKeepsInv DEF Step
<1>3. ASSUME NEW p \in Procs, NoLock(p) \/ Die(p) PROVE Inv'
  BY <1>3, EndKeepsInv
<1>4. CASE Age /\ UNCHANGED data
  <2>1. LockInv'
    BY <1>4, AgeKeepsLock DEF Inv
  <2> QED BY <1>4, <2>1 DEF Age, data, Inv, DataTypeOK, CopyIsCurrent, Busy
<1>5. CASE UNCHANGED vars
  BY <1>5 DEF vars, Inv, LockInv, LockTypeOK, Guarded, Holds, Racing, DataTypeOK,
              CopyIsCurrent, Busy
<1> QED BY <1>1, <1>2, <1>3, <1>4, <1>5 DEF Next

(* Every reachable state is well typed, and only one process at a time is  *)
(* between read and write of the credential file.                          *)
THEOREM TypeCorrect ==
  ASSUME Windows = {}
  PROVE  Spec => []TypeOK
<1>1. Inv => TypeOK
  BY DEF Inv, LockInv, DataTypeOK, TypeOK
<1> QED BY <1>1, Starts, NextKeepsInv, PTL DEF Spec

THEOREM OneAtATime ==
  ASSUME Windows = {}
  PROVE  Spec => []MutualExclusion
<1>1. Inv => MutualExclusion
  BY GuardExcludes DEF Inv
<1> QED BY <1>1, Starts, NextKeepsInv, PTL DEF Spec

-----------------------------------------------------------------------------
(* Refinement.  Write is the instant at which a call takes effect; a call  *)
(* and its end map to Call and Return, everything else to a stutter.       *)
PendingOf(p) == CASE at[p] = "out" -> NoRequest
                  [] at[p] = "written" -> Done
                  [] OTHER -> request[p]

LEMMA PendingIs == Pending = [p \in Procs |-> PendingOf(p)]
BY DEF Pending, PendingOf

(* A step of p leaves the pending requests of the others as they are.      *)
LEMMA OnlyOwnPending ==
  ASSUME Inv, NEW p \in Procs, NEW step, Goto(p, step),
         \A q \in Procs : q # p => request'[q] = request[q]
  PROVE  /\ Pending' = [Pending EXCEPT ![p] = Pending'[p]]
         /\ at'[p] = step
<1>1. at' = [at EXCEPT ![p] = step] /\ at \in [Procs -> {"out"} \cup Waiting \cup Inside]
  BY DEF Goto, Inv, LockInv, LockTypeOK
<1>2. \A q \in Procs : q # p => PendingOf(q)' = PendingOf(q)
  BY <1>1 DEF PendingOf
<1>3. Pending' = [q \in Procs |-> PendingOf(q)']
  BY DEF Pending, PendingOf
<1> QED BY <1>1, <1>2, <1>3, PendingIs

(* Moves of a process that is in a call and stays in it.                   *)
LEMMA MovesStutter ==
  ASSUME Inv, NEW p \in Procs, NEW step, step \notin {"out", "written"},
         at[p] \notin {"out", "written"}, Goto(p, step), UNCHANGED request
  PROVE  UNCHANGED Pending
<1>1. Pending' = [Pending EXCEPT ![p] = Pending'[p]] /\ at'[p] = step
  BY OnlyOwnPending
<1>2. Pending'[p] = request'[p] /\ Pending[p] = request[p]
  BY <1>1 DEF Pending
<1>3. Pending = [Pending EXCEPT ![p] = Pending[p]]
  BY DEF Pending
<1> QED BY <1>1, <1>2, <1>3

LEMMA EndReturns ==
  ASSUME Inv, NEW p \in Procs, at[p] # "out", Goto(p, "out"), Forget(p)
  PROVE  Store!Return(p)
<1>1. Pending' = [Pending EXCEPT ![p] = Pending'[p]] /\ at'[p] = "out"
  BY OnlyOwnPending DEF Forget, Inv, DataTypeOK
<1>2. Pending'[p] = NoRequest
  BY <1>1 DEF Pending
<1>3. Pending[p] # NoRequest
  BY MarkersAssumption DEF Pending, Inv, Busy
<1> QED BY <1>1, <1>2, <1>3 DEF Store!Return, Forget

LEMMA CallCalls ==
  ASSUME Inv, NEW p \in Procs, Call(p)
  PROVE  Store!Call(p)
<1>1. PICK r \in Request : request' = [request EXCEPT ![p] = r]
  BY DEF Call
<1>2. Pending' = [Pending EXCEPT ![p] = Pending'[p]] /\ at'[p] = "try"
  BY <1>1, OnlyOwnPending DEF Call, Inv, DataTypeOK
<1>3. Pending'[p] = r /\ Pending[p] = NoRequest
  BY <1>1, <1>2 DEF Pending, Call, Inv, DataTypeOK
<1> QED BY <1>2, <1>3 DEF Store!Call, Store!Request, Request, Call

LEMMA WritePerforms ==
  ASSUME Inv, NEW p \in Procs, at[p] = "changed", entries' = Changed(p),
         Goto(p, "written"), UNCHANGED request
  PROVE  Store!Perform(p)
<1>1. Pending' = [Pending EXCEPT ![p] = Pending'[p]] /\ at'[p] = "written"
  BY OnlyOwnPending
<1>2. Pending'[p] = Done /\ Pending[p] = request[p]
  BY <1>1 DEF Pending
<1> QED BY <1>1, <1>2, WriteChangesOne DEF Store!Perform, Store!Request, Request

LEMMA NextRefines == Inv /\ [Next]_vars => [Store!Next]_<<entries, Pending>>
<1> SUFFICES ASSUME Inv, [Next]_vars
             PROVE  Store!Next \/ UNCHANGED <<entries, Pending>>
  OBVIOUS
<1>1. ASSUME NEW p \in Procs, Call(p) PROVE Store!Next
  BY <1>1, CallCalls DEF Store!Next
<1>2. ASSUME NEW p \in Procs, Lock(p) PROVE UNCHANGED <<entries, Pending>>
  <2>1. at[p] \in {"try", "look", "break"} /\ UNCHANGED data
    BY <1>2 DEF Lock, Obtain, Create, Open, Collide, Look, Break, NotBroken
  <2>2. \E step \in {"try", "look", "break", "in"} : Goto(p, step)
    BY <1>2 DEF Lock, Obtain, Create, Open, Collide, Look, Break, NotBroken
  <2> QED BY <2>1, <2>2, MovesStutter DEF data
<1>3. ASSUME NEW p \in Procs, Change(p) PROVE UNCHANGED <<entries, Pending>>
  BY <1>3, MovesStutter DEF Change
<1>4. ASSUME NEW p \in Procs, Write(p) PROVE Store!Next \/ UNCHANGED <<entries, Pending>>
  <2>1. CASE entries' = Changed(p) /\ Goto(p, "written")
    BY <1>4, <2>1, WritePerforms DEF Write, Store!Next
  <2>2. CASE UNCHANGED entries /\ Goto(p, "failed")
    BY <1>4, <2>2, MovesStutter DEF Write
  <2> QED BY <1>4, <2>1, <2>2 DEF Write
<1>5. ASSUME NEW p \in Procs, NoLock(p) \/ Unlock(p) \/ Die(p)
      PROVE  Store!Next \/ UNCHANGED <<entries, Pending>>
  <2>1. Goto(p, "out") /\ Forget(p)
    BY <1>5 DEF NoLock, Unlock, Die, GiveUp, NotOpened, Release, Crash
  <2>2. CASE at[p] # "out"
    BY <2>1, <2>2, EndReturns DEF Store!Next
  <2>3. CASE at[p] = "out"
    <3>1. Pending' = [Pending EXCEPT ![p] = Pending'[p]] /\ at'[p] = "out"
      BY <2>1, OnlyOwnPending DEF Forget, Inv, DataTypeOK
    <3>2. Pending'[p] = Pending[p] /\ Pending = [Pending EXCEPT ![p] = Pending[p]]
      BY <2>3, <3>1 DEF Pending
    <3> QED BY <2>1, <3>1, <3>2 DEF Forget
  <2> QED BY <2>2, <2>3
<1>6. CASE Age /\ UNCHANGED data
  BY <1>6 DEF Age, data, Pending
<1>7. CASE UNCHANGED vars
  BY <1>7 DEF vars, Pending
<1> QED BY <1>1, <1>2, <1>3, <1>4, <1>5, <1>6, <1>7 DEF Next, Step

LEMMA StartsAsStore == Init => Store!Init
BY DEF Init, LockInit, Store!Init, Pending, File

(* The credential file implements the atomic store: no update is lost and  *)
(* none is done by halves (FileCredentialBackend).                         *)
THEOREM Implements ==
  ASSUME Windows = {}
  PROVE  Spec => ImplementsStore
BY Starts, NextKeepsInv, StartsAsStore, NextRefines, PTL DEF Spec, ImplementsStore, Store!Spec
=============================================================================
