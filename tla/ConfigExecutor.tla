---------------------------- MODULE ConfigExecutor ----------------------------
(***************************************************************************)
(* FileConfigExecutor of packages/config-engine: the transaction engine    *)
(* that writes an agent's configuration files and can put them back.       *)
(*                                                                         *)
(* A transaction is a directory of the backup root holding one backup per  *)
(* updated target and a checksummed transaction.json.  Several processes   *)
(* (CLI invocations) run apply and rollback step by step; between two      *)
(* steps the user may edit a target, a process may die, or a system call   *)
(* may fail.  Contents are compared by hash in the code, so a content is a *)
(* value here and equality of hashes is equality of contents.              *)
(***************************************************************************)
EXTENDS Integers, Sequences

CONSTANTS
  Files,          \* configuration files inside the allowed roots
  UserContents,   \* contents the user (or the agent itself) writes
  ToolContents,   \* contents a change plan writes
  Absent,         \* the file does not exist (null in the code)
  Integrations,   \* integration ids
  Targets,        \* [Integrations -> SUBSET Files]: the files an integration plans for
  Txns,           \* transaction ids; one apply consumes one id (bound on applies)
  NoDoc,          \* no readable transaction.json
  NoTask,         \* the process runs nothing
  Procs,          \* CLI processes
  MaxOps,         \* bound: operations of one plan
  ClockSteps,     \* what the wall clock may add between two applies
  Windows,        \* the unprotected windows in which others do act (see Exposed)
  MaxEdits,       \* bound: edits by the user
  MaxCrashes,     \* bound: process deaths
  MaxFaults       \* bound: failing system calls

(* The contents of the two authors are told apart, transaction ids are     *)
(* ordered (the code sorts by appliedAt and then by id).                   *)
ASSUME ContentsAssumption ==
  /\ UserContents \cap ToolContents = {}
  /\ Absent \notin UserContents \cup ToolContents
ASSUME TxnsAssumption == Txns \subseteq Nat
ASSUME TargetsAssumption == Targets \in [Integrations -> SUBSET Files]
ASSUME ClockAssumption == ClockSteps \subseteq Int
ASSUME BoundsAssumption == MaxOps \in Nat /\ MaxEdits \in Nat /\ MaxCrashes \in Nat /\ MaxFaults \in Nat

VARIABLES
  file,      \* [Files -> Content]: the targets on disk
  made,      \* transaction directories that exist
  doc,       \* [Txns -> Doc \cup {NoDoc}]: each transaction.json
  backups,   \* [Txns -> [Files -> Content]]: NNNN.backup of each target, Absent when there is none
  litter,    \* transaction directories holding a left-over .transaction-*.tmp
  shelf,     \* copies under backups/discarded, <<file, content>>
  clock,     \* wall clock
  used,      \* transaction ids consumed
  pc, task,  \* where each process is, and the locals of its call
  result,    \* how each process's last call ended
  edits, crashes, faults,
  live       \* history: [Files -> SUBSET UserContents], what the user wrote there and did not himself replace

disk == <<file, made, doc, backups, litter, shelf>>
budget == <<edits, crashes, faults>>
vars == <<file, made, doc, backups, litter, shelf, clock, used, pc, task, result,
          edits, crashes, faults, live>>

Content == UserContents \cup ToolContents \cup {Absent}
Entry == [target : Files, orig : Content, applied : ToolContents]
States == {"applying", "applied", "rolling-back"}
Doc == [state : States, integration : Integrations, at : Int, entries : Seq(Entry)]
Task == [op : {"apply", "rollback"}, back : BOOLEAN, discard : BOOLEAN, txn : Txns,
         integration : Integrations, at : Int, entries : Seq(Entry), k : Nat,
         pending : SUBSET Nat]
PCs == {"idle", "copy", "record", "stage", "recheck", "replace", "commit", "mark",
        "plan", "remove"}
(* NoDoc and NoTask are told apart from every document and every task.     *)
ASSUME MarkersAssumption == NoDoc \notin Doc /\ NoTask \notin Task
Results == {"none", "applied", "refused", "APPLY_FAILED", "ROLLBACK_FAILED", "rolled-back"}

TypeOK ==
  /\ file \in [Files -> Content]
  /\ made \in SUBSET Txns /\ litter \in SUBSET Txns /\ used \in SUBSET Txns
  /\ doc \in [Txns -> Doc \cup {NoDoc}]
  /\ backups \in [Txns -> [Files -> Content]]
  /\ shelf \in SUBSET (Files \X Content)
  /\ clock \in Int
  /\ pc \in [Procs -> PCs]
  /\ task \in [Procs -> Task \cup {NoTask}]
  /\ result \in [Procs -> Results]
  /\ edits \in Nat /\ crashes \in Nat /\ faults \in Nat
  /\ live \in [Files -> SUBSET UserContents]

Init ==
  /\ file \in [Files -> UserContents \cup {Absent}]
  /\ live = [f \in Files |-> {file[f]} \ {Absent}]
  /\ made = {} /\ litter = {} /\ used = {} /\ shelf = {}
  /\ doc = [t \in Txns |-> NoDoc]
  /\ backups = [t \in Txns |-> [f \in Files |-> Absent]]
  /\ clock = 0
  /\ pc = [p \in Procs |-> "idle"]
  /\ task = [p \in Procs |-> NoTask]
  /\ result = [p \in Procs |-> "none"]
  /\ edits = 0 /\ crashes = 0 /\ faults = 0

-----------------------------------------------------------------------------
Current(p) == task[p].entries[task[p].k]
Busy(p, t) == \E q \in Procs \ {p} : task[q] # NoTask /\ task[q].txn = t

(* The code re-reads a target before it acts on it, but three stretches    *)
(* act on what was read earlier, and a process may be interrupted in two   *)
(* more:                                                                   *)
(*  copy      #prepare hashed the target, its backup is not copied yet     *)
(*  replace   the second hash check passed, rename or unlink not yet done  *)
(*  discard   a --discard-local-changes rollback planned the entry and     *)
(*            will overwrite it without looking again                      *)
(*  inflight  a transaction another process is working on is rolled back   *)
(*  remove    a crash or a failing unlink while the directory is removed   *)
(*  metadata  a crash inside #writeStorageFile, leaving its temporary file *)
(* Nothing in the code guards them; a window in Windows is open, the       *)
(* others are assumed not to be hit.                                       *)
InCopy(q, f) ==
  /\ pc[q] = "copy"
  /\ \E j \in DOMAIN task[q].entries : j >= task[q].k /\ task[q].entries[j].target = f
InReplace(q, f) == pc[q] = "replace" /\ Current(q).target = f
InDiscard(q, f) ==
  /\ task[q] # NoTask /\ task[q].discard
  /\ \E j \in DOMAIN task[q].entries : j \in task[q].pending /\ task[q].entries[j].target = f
Exposed(q, f) ==
  \/ "copy" \notin Windows /\ InCopy(q, f)
  \/ "replace" \notin Windows /\ InReplace(q, f)
  \/ "discard" \notin Windows /\ InDiscard(q, f)
Alone(p, f) == \A q \in Procs \ {p} : ~Exposed(q, f)

(* The order of the chain: by appliedAt, ties by transaction id.           *)
Later(t, u) == doc[t].at > doc[u].at \/ (doc[t].at = doc[u].at /\ t > u)
(* Mutant: any recorded transaction may be rolled back.                    *)
AnyRecorded(t) == doc[t] # NoDoc
Newest(t) ==
  /\ doc[t] # NoDoc
  /\ \A u \in Txns \ {t} :
       doc[u] # NoDoc /\ doc[u].integration = doc[t].integration => Later(t, u)

Goto(p, label) == pc' = [pc EXCEPT ![p] = label]
Finish(p, r) ==
  /\ pc' = [pc EXCEPT ![p] = "idle"]
  /\ task' = [task EXCEPT ![p] = NoTask]
  /\ result' = [result EXCEPT ![p] = r]

(* An undo that fails ends the call.  The mutant starts it over.           *)
StartOver(p) == Goto(p, "mark") /\ UNCHANGED <<task, result>>
GiveUp(p) ==
  Finish(p, IF task[p].op = "rollback" /\ pc[p] \in {"plan", "mark"}
            THEN "refused" ELSE "ROLLBACK_FAILED")

(* The call throws where it stands.  apply turns to its catch block (write *)
(* rolling-back, undo the entries it has, remove the directory); a failure *)
(* inside that block is ROLLBACK_FAILED, except that of writing the state, *)
(* which is ignored.  rollback gives up, before or after touching files.   *)
Throw(p) ==
  \/ /\ ~task[p].back /\ pc[p] = "copy"
     /\ Goto(p, IF task[p].k = 1 THEN "remove" ELSE "plan")
     /\ task' = [task EXCEPT ![p] =
          [@ EXCEPT !.back = TRUE, !.entries = SubSeq(task[p].entries, 1, task[p].k - 1)]]
     /\ UNCHANGED result
  \/ /\ ~task[p].back /\ pc[p] # "copy"
     /\ Goto(p, "mark")
     /\ task' = [task EXCEPT ![p] = [@ EXCEPT !.back = TRUE]]
     /\ UNCHANGED result
  \/ /\ task[p].back /\ task[p].op = "apply" /\ pc[p] = "mark"
     /\ Goto(p, "plan")
     /\ UNCHANGED <<task, result>>
  \/ /\ task[p].back /\ (task[p].op = "rollback" \/ pc[p] # "mark")
     /\ GiveUp(p)

-----------------------------------------------------------------------------
(* apply *)

(* apply up to and including the mkdir of the transaction directory: the   *)
(* plan passed #prepare, so every target holds what it was planned for.    *)
StartApply(p) ==
  /\ pc[p] = "idle"
  /\ \E i \in Integrations, n \in 1..MaxOps, t \in Txns \ used, d \in ClockSteps :
       \E tgt \in [1..n -> Targets[i]], new \in [1..n -> ToolContents] :
         /\ \A a, b \in 1..n : tgt[a] = tgt[b] => a = b
         /\ \A a \in 1..n : new[a] # file[tgt[a]] /\ Alone(p, tgt[a])
         /\ clock' = clock + d
         /\ used' = used \cup {t}
         /\ made' = made \cup {t}
         /\ task' = [task EXCEPT ![p] =
              [op |-> "apply", back |-> FALSE, discard |-> FALSE, txn |-> t,
               integration |-> i, at |-> clock + d, k |-> 1, pending |-> {},
               entries |-> [a \in 1..n |-> [target |-> tgt[a], orig |-> file[tgt[a]],
                                            applied |-> new[a]]]]]
  /\ Goto(p, "copy")
  /\ UNCHANGED <<file, doc, backups, litter, shelf, result, budget, live>>

(* What copyFile puts into NNNN.backup.  In the mutant the backup is taken  *)
(* of the planned content.                                                  *)
CopiedPlanned(e) == e.applied
Copied(e) == file[e.target]

(* One turn of the backup loop: copyFile for an update, nothing for a      *)
(* create, then the entry is pushed.                                       *)
CopyBackup(p) ==
  /\ pc[p] = "copy"
  /\ LET e == Current(p) IN
     \/ /\ e.orig = Absent \/ file[e.target] # Absent
        /\ backups' = IF e.orig = Absent THEN backups
                      ELSE [backups EXCEPT ![task[p].txn][e.target] = Copied(e)]
        /\ task' = [task EXCEPT ![p] = [@ EXCEPT !.k = task[p].k + 1]]
        /\ Goto(p, IF task[p].k = Len(task[p].entries) THEN "record" ELSE "copy")
        /\ UNCHANGED result
     \/ /\ e.orig # Absent /\ file[e.target] = Absent
        /\ Throw(p)
        /\ UNCHANGED backups
  /\ UNCHANGED <<file, made, doc, litter, shelf, clock, used, budget, live>>

(* Mutant: the record loses its time.                                      *)
DocUndated(p, s) == [state |-> s, integration |-> task[p].integration, entries |-> task[p].entries]
DocOf(p, s) == [state |-> s, integration |-> task[p].integration, at |-> task[p].at,
                entries |-> task[p].entries]
WriteTransaction(p, s) ==
  /\ task[p].txn \in made
  /\ doc' = [doc EXCEPT ![task[p].txn] = DocOf(p, s)]

Record(p) ==
  /\ pc[p] = "record"
  /\ WriteTransaction(p, "applying")
  /\ task' = [task EXCEPT ![p] = [@ EXCEPT !.k = 1]]
  /\ Goto(p, "stage")
  /\ UNCHANGED <<file, made, backups, litter, shelf, clock, used, result, budget, live>>

Commit(p) ==
  /\ pc[p] = "commit"
  /\ WriteTransaction(p, "applied")
  /\ Finish(p, "applied")
  /\ UNCHANGED <<file, made, backups, litter, shelf, clock, used, budget, live>>

-----------------------------------------------------------------------------
(* #atomicWrite, for both directions; undoing a create is check and unlink *)

Expected(p) == IF task[p].back THEN Current(p).applied ELSE Current(p).orig
(* Mutant: going back, no rollback compares the target with what it planned. *)
UncheckedBack(p) == task[p].back
Unchecked(p) == task[p].back /\ task[p].discard
Matches(p) == Unchecked(p) \/ file[Current(p).target] = Expected(p)
UndoesCreate(p) == task[p].back /\ Current(p).orig = Absent

(* The first check, then the temporary file.  Going back, entries that are *)
(* not pending are skipped, and the backup is read first.                  *)
Stage(p) ==
  /\ pc[p] = "stage"
  /\ \/ /\ task[p].back /\ task[p].k = 0
        /\ Goto(p, "remove")
        /\ UNCHANGED <<task, result>>
     \/ /\ task[p].back /\ task[p].k > 0 /\ task[p].k \notin task[p].pending
        /\ task' = [task EXCEPT ![p] = [@ EXCEPT !.k = task[p].k - 1]]
        /\ UNCHANGED <<pc, result>>
     \/ /\ task[p].back => task[p].k > 0 /\ task[p].k \in task[p].pending
        /\ LET readable == task[p].back => backups[task[p].txn][Current(p).target] # Absent
               ok == UndoesCreate(p) \/ (readable /\ Matches(p))
           IN  IF ok THEN Goto(p, "recheck") /\ UNCHANGED <<task, result>>
                     ELSE Throw(p)
  /\ UNCHANGED <<disk, clock, used, budget, live>>

(* The second check, immediately before the rename.                        *)
Recheck(p) ==
  /\ pc[p] = "recheck"
  /\ IF Matches(p)
     THEN /\ Alone(p, Current(p).target)
          /\ Goto(p, "replace")
          /\ UNCHANGED <<task, result>>
     ELSE Throw(p)
  /\ UNCHANGED <<disk, clock, used, budget, live>>

(* rename over the target, or unlink of a created target.                  *)
Replace(p) ==
  /\ pc[p] = "replace"
  /\ Alone(p, Current(p).target)
  /\ LET f == Current(p).target IN
     \/ /\ ~task[p].back
        /\ file' = [file EXCEPT ![f] = Current(p).applied]
        /\ task' = [task EXCEPT ![p] = [@ EXCEPT !.k = task[p].k + 1]]
        /\ Goto(p, IF task[p].k = Len(task[p].entries) THEN "commit" ELSE "stage")
        /\ UNCHANGED result
     \/ /\ task[p].back /\ ~(UndoesCreate(p) /\ file[f] = Absent)
        /\ file' = [file EXCEPT ![f] = Current(p).orig]
        /\ task' = [task EXCEPT ![p] =
              [@ EXCEPT !.k = task[p].k - 1, !.pending = task[p].pending \ {task[p].k}]]
        /\ Goto(p, "stage")
        /\ UNCHANGED result
     \/ /\ UndoesCreate(p) /\ file[f] = Absent
        /\ Throw(p)
        /\ UNCHANGED file
  /\ UNCHANGED <<made, doc, backups, litter, shelf, clock, used, budget, live>>

-----------------------------------------------------------------------------
(* rollback, and the catch block of apply *)

(* rollback up to the order check: the transaction is readable and is the  *)
(* newest readable one of its integration.                                 *)
StartRollback(p, t, discard) ==
  /\ pc[p] = "idle"
  /\ Newest(t)
  /\ "inflight" \in Windows \/ ~Busy(p, t)
  /\ task' = [task EXCEPT ![p] =
       [op |-> "rollback", back |-> TRUE, discard |-> discard, txn |-> t,
        integration |-> doc[t].integration, at |-> doc[t].at, k |-> 0, pending |-> {},
        entries |-> doc[t].entries]]
  /\ Goto(p, "plan")
  /\ UNCHANGED <<disk, clock, used, result, budget, live>>

(* ROLLBACK_ORDER_CONFLICT *)
RefuseOrder(p, t) ==
  /\ pc[p] = "idle"
  /\ doc[t] # NoDoc /\ ~Newest(t)
  /\ result' = [result EXCEPT ![p] = "refused"]
  /\ UNCHANGED <<disk, clock, used, pc, task, budget, live>>

(* What #planRollback decides for one entry.  In the mutant a restored      *)
(* target is not recognised.                                                *)
NeverUndone(e) == FALSE
Undone(e) == file[e.target] = e.orig
Changed(e) == file[e.target] \notin {e.orig, e.applied}
BadBackup(t, e) == e.orig # Absent /\ backups[t][e.target] # e.orig

(* #setAside of the pending entries: the changed targets that exist are     *)
(* copied to backups/discarded.                                            *)
Aside(es, pending) ==
  {<<es[j].target, file[es[j].target]>> :
     j \in {i \in pending : Changed(es[i]) /\ file[es[i].target] # Absent}}

(* #planRollback: every entry is validated, in order, before anything is   *)
(* written; with --discard-local-changes a changed target is copied aside  *)
(* when it is reached.                                                     *)
PlanRollback(p) ==
  /\ pc[p] = "plan"
  /\ LET t == task[p].txn
         es == task[p].entries
         discard == task[p].discard
         refusing == {j \in DOMAIN es : BadBackup(t, es[j]) \/ (Changed(es[j]) /\ ~discard)}
         pending == {j \in DOMAIN es : ~Undone(es[j])}
     IN /\ shelf' = shelf \cup Aside(es, {j \in pending : \A i \in refusing : j < i})
        /\ \/ refusing # {} /\ Throw(p)
           \/ /\ refusing = {}
              /\ discard => \A j \in pending : Alone(p, es[j].target)
              /\ task' = [task EXCEPT ![p] = [@ EXCEPT !.pending = pending, !.k = Len(es)]]
              /\ Goto(p, IF task[p].op = "apply" THEN "stage" ELSE "mark")
              /\ UNCHANGED result
  /\ UNCHANGED <<file, made, doc, backups, litter, clock, used, budget, live>>

(* Mutant: the state is not written before the targets are touched.        *)
MarkUnwritten(p) ==
  /\ pc[p] = "mark"
  /\ Goto(p, IF task[p].op = "apply" THEN "plan" ELSE "stage")
  /\ UNCHANGED <<disk, clock, used, task, result, budget, live>>
Mark(p) ==
  /\ pc[p] = "mark"
  /\ WriteTransaction(p, "rolling-back")
  /\ Goto(p, IF task[p].op = "apply" THEN "plan" ELSE "stage")
  /\ UNCHANGED <<file, made, backups, litter, shelf, clock, used, task, result, budget, live>>

(* removeTransactionDirectory, one unlink at a time in the order readdir   *)
(* gave, then rmdir.  A name it does not know stops it.                    *)
Remove(p) ==
  /\ pc[p] = "remove"
  /\ LET t == task[p].txn IN
     \/ /\ t \in litter
        /\ Throw(p)
        /\ UNCHANGED <<made, doc, backups>>
     \/ /\ t \notin litter /\ doc[t] # NoDoc
        /\ doc' = [doc EXCEPT ![t] = NoDoc]
        /\ UNCHANGED <<made, backups, pc, task, result>>
     \/ /\ t \notin litter
        /\ \E f \in Files : /\ backups[t][f] # Absent
                            /\ backups' = [backups EXCEPT ![t][f] = Absent]
        /\ UNCHANGED <<made, doc, pc, task, result>>
     \/ /\ t \notin litter /\ doc[t] = NoDoc /\ \A f \in Files : backups[t][f] = Absent
        /\ made' = made \ {t}
        /\ Finish(p, IF task[p].op = "apply" THEN "APPLY_FAILED" ELSE "rolled-back")
        /\ UNCHANGED <<doc, backups>>
  /\ UNCHANGED <<file, litter, shelf, clock, used, budget, live>>

-----------------------------------------------------------------------------
(* The environment *)

Writing == [record |-> "applying", commit |-> "applied", mark |-> "rolling-back"]

(* A metadata write finds its directory gone.                              *)
DirectoryGone(p) ==
  /\ pc[p] \in DOMAIN Writing
  /\ task[p].txn \notin made
  /\ Throw(p)
  /\ UNCHANGED <<disk, clock, used, budget, live>>

(* A system call of the current step fails.  A metadata write may fail     *)
(* before or after its rename; a target's write that fails after the       *)
(* rename is a failure of the next step, from which the call goes on in    *)
(* the same way.  A copy that fails after copyFile also leaves a backup no *)
(* entry names, which is removed with the directory and left out here.     *)
Fault(p) ==
  /\ faults < MaxFaults
  /\ pc[p] # "idle"
  /\ pc[p] = "remove" => "remove" \in Windows
  /\ faults' = faults + 1
  /\ \/ UNCHANGED doc
     \/ pc[p] \in DOMAIN Writing /\ WriteTransaction(p, Writing[pc[p]])
  /\ Throw(p)
  /\ UNCHANGED <<file, made, backups, litter, shelf, clock, used, edits, crashes, live>>

(* The process dies; what is on disk stays.                                *)
Crash(p) ==
  /\ crashes < MaxCrashes
  /\ pc[p] # "idle"
  /\ pc[p] = "remove" => "remove" \in Windows
  /\ crashes' = crashes + 1
  /\ Finish(p, "none")
  /\ \/ UNCHANGED litter
     \/ /\ pc[p] \in DOMAIN Writing /\ "metadata" \in Windows
        /\ litter' = litter \cup {task[p].txn}
  /\ UNCHANGED <<file, made, doc, backups, shelf, clock, used, edits, faults, live>>

(* The user, or the agent, writes or deletes a target.                     *)
Edit(f) ==
  /\ edits < MaxEdits
  /\ \A q \in Procs : ~Exposed(q, f)
  /\ \E c \in UserContents \cup {Absent} :
       /\ c # file[f]
       /\ file' = [file EXCEPT ![f] = c]
       /\ live' = [live EXCEPT ![f] = (@ \ {file[f]}) \cup ({c} \ {Absent})]
  /\ edits' = edits + 1
  /\ UNCHANGED <<made, doc, backups, litter, shelf, clock, used, pc, task, result,
                 crashes, faults>>

Step(p) ==
  \/ CopyBackup(p) \/ Record(p) \/ Stage(p) \/ Recheck(p) \/ Replace(p) \/ Commit(p)
  \/ PlanRollback(p) \/ Mark(p) \/ Remove(p) \/ DirectoryGone(p)

Next ==
  \/ \E p \in Procs : Step(p) \/ StartApply(p) \/ Fault(p) \/ Crash(p)
  \/ \E p \in Procs, t \in Txns :
       RefuseOrder(p, t) \/ \E discard \in BOOLEAN : StartRollback(p, t, discard)
  \/ \E f \in Files : Edit(f)

Spec == Init /\ [][Next]_vars
-----------------------------------------------------------------------------
(* Properties *)

Kept(f, c) ==
  \/ file[f] = c
  \/ \E t \in Txns : backups[t][f] = c
  \/ <<f, c>> \in shelf

(* Whatever the user wrote to a target and did not replace himself is      *)
(* still on disk, in a backup, or set aside: neither a switch, a failed    *)
(* apply, a restore nor a discarding restore destroys the only copy.       *)
UserContentKept == \A f \in Files : \A c \in live[f] : Kept(f, c)

(* A recorded transaction nobody is working on can always be rolled back   *)
(* (with --discard-local-changes at worst): its backups are there and hold *)
(* what they should, and its directory can be removed.  The newest one     *)
(* blocks all older ones, so one dead end closes the whole chain.          *)
NoDeadEnd ==
  \A t \in Txns : doc[t] # NoDoc /\ (\A p \in Procs : task[p] # NoTask => task[p].txn # t) =>
    /\ t \notin litter
    /\ \A j \in DOMAIN doc[t].entries : ~BadBackup(t, doc[t].entries[j])

(* Content a plan wrote is on disk only while some recorded transaction    *)
(* accounts for it, so every write of the tool can still be undone: also   *)
(* after crashes, failed system calls and refused rollbacks.               *)
WritesAreCovered ==
  \A f \in Files : file[f] \in ToolContents =>
    \E t \in Txns : /\ doc[t] # NoDoc
                    /\ \E j \in DOMAIN doc[t].entries :
                         doc[t].entries[j].target = f /\ doc[t].entries[j].applied = file[f]

(* FileBackupSummary.restorable: the newest transaction of an integration  *)
(* is the one whose recorded file state matches the disk.  When it is      *)
(* applied and nothing runs, its targets hold what it applied, unless the  *)
(* user changed them since.                                                *)
RestorableMatchesDisk ==
  \A t \in Txns :
    Newest(t) /\ doc[t].state = "applied" /\ (\A p \in Procs : pc[p] = "idle") =>
      \A j \in DOMAIN doc[t].entries :
        LET e == doc[t].entries[j] IN
          file[e.target] = e.applied \/ (edits > 0 /\ file[e.target] \notin ToolContents)

(* Liveness: when nobody edits and the user keeps asking, every recorded   *)
(* transaction is eventually restored by plain rollbacks, however often    *)
(* they were cut short by a crash or an I/O failure ("restore can be       *)
(* retried", packages/config-engine/README.md).                            *)
Persistent(p) == \E t \in Txns : StartRollback(p, t, FALSE)
FairSpec == Spec /\ \A p \in Procs : WF_vars(Step(p)) /\ WF_vars(Persistent(p))
EverythingIsRestored == <>[](\A t \in Txns : doc[t] = NoDoc)

(* Every call ends, whatever windows other processes hit: also an apply    *)
(* whose transaction another process rolled back and removed meanwhile.    *)
CallsEnd == \A p \in Procs : pc[p] # "idle" ~> pc[p] = "idle"

-----------------------------------------------------------------------------
(* The inductive invariant behind UserContentKept and NoDeadEnd, for any   *)
(* number of processes, when every window is closed.                       *)

Running(p) == task[p] # NoTask
Ents(p) == task[p].entries
Forward == {"copy", "record", "stage", "recheck", "replace", "commit"}
Backward == {"mark", "plan", "stage", "recheck", "replace", "remove"}
Planned(p) == task[p].back /\ (pc[p] \in {"stage", "recheck", "replace", "remove"}
                               \/ (task[p].op = "rollback" /\ pc[p] = "mark"))
Distinct(es) == \A i, j \in DOMAIN es : es[i].target = es[j].target => i = j
Intact(t, e) == backups[t][e.target] = e.orig

(* Where a running call can be, and what its locals then satisfy.          *)
ControlOf(p) ==
  /\ (pc[p] = "idle") <=> (task[p] = NoTask)
  /\ Running(p) =>
     /\ pc[p] \in (IF task[p].back THEN Backward ELSE Forward)
     /\ task[p].op = "rollback" => task[p].back
     /\ task[p].discard => task[p].op = "rollback"
     /\ Distinct(Ents(p))
     /\ ~task[p].back => Len(Ents(p)) > 0
     /\ task[p].pending \subseteq 1..Len(Ents(p))
     /\ ~Planned(p) => task[p].pending = {}
     /\ ~task[p].back /\ pc[p] \in {"copy", "stage", "recheck", "replace"} =>
          task[p].k \in 1..Len(Ents(p))
     /\ Planned(p) /\ pc[p] # "remove" =>
          task[p].k <= Len(Ents(p)) /\ task[p].pending \subseteq 1..task[p].k
     /\ task[p].back /\ pc[p] \in {"recheck", "replace"} => task[p].k \in task[p].pending
     /\ pc[p] = "remove" => task[p].pending = {}
Control ==
  /\ \A p \in Procs : ControlOf(p)
  /\ \A t \in Txns : doc[t] # NoDoc => Distinct(doc[t].entries)

(* Transaction ids are fresh, and a transaction has at most one process.   *)
Ownership ==
  /\ litter = {}
  /\ \A p, q \in Procs : Running(p) /\ Running(q) /\ task[p].txn = task[q].txn => p = q
  /\ \A p \in Procs : Running(p) => task[p].txn \in used
  /\ \A t \in Txns \ used : doc[t] = NoDoc /\ \A f \in Files : backups[t][f] = Absent

(* The backups of t belong to the entries es, and nothing else is there.   *)
Owns(t, es) == \A f \in Files : backups[t][f] # Absent => \E j \in DOMAIN es : es[j].target = f

(* Backups hold the original of the entries they belong to.                *)
BackedBy(p) ==
  Running(p) =>
    /\ doc[task[p].txn] # NoDoc => doc[task[p].txn].entries = Ents(p)
    /\ pc[p] = "copy" => doc[task[p].txn] = NoDoc
    /\ Owns(task[p].txn, Ents(p))
    /\ pc[p] # "remove" => \A j \in DOMAIN Ents(p) :
         IF pc[p] = "copy" /\ j >= task[p].k
         THEN /\ backups[task[p].txn][Ents(p)[j].target] = Absent
              /\ file[Ents(p)[j].target] = Ents(p)[j].orig
         ELSE Intact(task[p].txn, Ents(p)[j])
Unowned(t) == \A p \in Procs : Running(p) => task[p].txn # t
Recoverable(t) ==
  doc[t] # NoDoc /\ Unowned(t) =>
    /\ \A j \in DOMAIN doc[t].entries : Intact(t, doc[t].entries[j])
    /\ Owns(t, doc[t].entries)
Backed == (\A p \in Procs : BackedBy(p)) /\ (\A t \in Txns : Recoverable(t))

(* What a process believes of a target it is about to replace is true.     *)
BeliefOf(p) ==
  Running(p) =>
    /\ pc[p] = "replace" => Matches(p)
    /\ task[p].discard => \A j \in task[p].pending :
         LET e == Ents(p)[j] IN
           \/ file[e.target] \in {e.applied, Absent}
           \/ <<e.target, file[e.target]>> \in shelf
Belief == \A p \in Procs : BeliefOf(p)

(* A backup that is about to go: its owner has put the original back.      *)
Settled(t, f) ==
  \E p \in Procs : /\ Running(p) /\ task[p].txn = t /\ Planned(p)
                   /\ \A j \in task[p].pending : Ents(p)[j].target # f

(* User content is safe without counting the backups about to go.          *)
Stored ==
  \A f \in Files : \A c \in live[f] :
    \/ file[f] = c
    \/ <<f, c>> \in shelf
    \/ \E t \in Txns : backups[t][f] = c /\ ~Settled(t, f)

IInv == TypeOK /\ Control /\ Ownership /\ Backed /\ Belief /\ Stored

=============================================================================
