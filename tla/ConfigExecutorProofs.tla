------------------------- MODULE ConfigExecutorProofs -------------------------
(***************************************************************************)
(* Proofs about ConfigExecutor, for every number of files, contents,       *)
(* transactions and processes.                                             *)
(***************************************************************************)
EXTENDS ConfigExecutor, SequenceTheorems, TLAPS

Sane == TypeOK /\ Control

-----------------------------------------------------------------------------
(* Records and sequences *)

LEMMA Truncated ==
  ASSUME NEW es \in Seq(Entry), NEW k \in 1..Len(es), Distinct(es)
  PROVE  LET s == SubSeq(es, 1, k - 1) IN
         /\ s \in Seq(Entry)
         /\ Len(s) = k - 1
         /\ \A j \in 1..(k - 1) : s[j] = es[j]
         /\ Distinct(s)
<1>. DEFINE s == SubSeq(es, 1, k - 1)
<1>1. \A j \in 1..(k - 1) : es[j] \in Entry
  OBVIOUS
<1>2. /\ s \in Seq(Entry)
      /\ Len(s) = IF 1 <= k - 1 THEN k - 1 - 1 + 1 ELSE 0
      /\ \A i \in 1..(k - 1 - 1 + 1) : s[i] = es[1 + i - 1]
  BY <1>1, SubSeqProperties
<1>3. Len(s) = k - 1
  BY <1>2
<1>4. \A j \in 1..(k - 1) : s[j] = es[j]
  BY <1>2
<1>5. Distinct(s)
  BY <1>2, <1>3, <1>4 DEF Distinct
<1>. QED BY <1>2, <1>3, <1>4, <1>5

LEMMA Update ==
  ASSUME TypeOK, NEW p \in Procs, NEW r \in Task \cup {NoTask}, NEW l \in PCs,
         task' = [task EXCEPT ![p] = r], pc' = [pc EXCEPT ![p] = l]
  PROVE  /\ task' \in [Procs -> Task \cup {NoTask}]
         /\ pc' \in [Procs -> PCs]
         /\ task'[p] = r /\ pc'[p] = l
         /\ \A q \in Procs \ {p} : task'[q] = task[q] /\ pc'[q] = pc[q]
BY DEF TypeOK

LEMMA Local ==
  ASSUME Sane, NEW p \in Procs, pc[p] # "idle"
  PROVE  /\ Running(p)
         /\ task[p] \in Task
         /\ Ents(p) \in Seq(Entry)
         /\ DOMAIN Ents(p) = 1..Len(Ents(p))
         /\ Len(Ents(p)) \in Nat
         /\ \A j \in 1..Len(Ents(p)) : Ents(p)[j] \in Entry
         /\ task[p].txn \in Txns
<1>1. Running(p)
  BY DEF Sane, Control, ControlOf, Running
<1>2. task[p] \in Task
  BY <1>1 DEF Sane, TypeOK, Running
<1>3. Ents(p) \in Seq(Entry) /\ task[p].txn \in Txns
  BY <1>2 DEF Task, Ents
<1>. QED BY <1>1, <1>2, <1>3

(* What a throwing call does to its own locals.                            *)
LEMMA ThrowEffect ==
  ASSUME Sane, NEW p \in Procs, pc[p] # "idle", Throw(p)
  PROVE  \E r \in Task \cup {NoTask}, l \in PCs :
           /\ task' = [task EXCEPT ![p] = r]
           /\ pc' = [pc EXCEPT ![p] = l]
           /\ result' \in [Procs -> Results]
           /\ \/ r = NoTask /\ l = "idle" /\ task[p].back
              \/ /\ pc[p] = "copy" /\ ~task[p].back
                 /\ r = [task[p] EXCEPT !.back = TRUE,
                           !.entries = SubSeq(task[p].entries, 1, task[p].k - 1)]
                 /\ l = IF task[p].k = 1 THEN "remove" ELSE "plan"
              \/ /\ pc[p] # "copy" /\ ~task[p].back
                 /\ r = [task[p] EXCEPT !.back = TRUE] /\ l = "mark"
              \/ /\ pc[p] = "mark" /\ task[p].back /\ task[p].op = "apply"
                 /\ r = task[p] /\ l = "plan"
<1>1. Running(p) /\ task[p] \in Task /\ Ents(p) \in Seq(Entry)
  BY Local
<1>2. ControlOf(p) /\ TypeOK
  BY DEF Sane, Control
<1>3. CASE ~task[p].back /\ pc[p] = "copy"
  <2>1. task[p].k \in 1..Len(Ents(p)) /\ Distinct(Ents(p))
    BY <1>1, <1>2, <1>3 DEF ControlOf
  <2>2. SubSeq(task[p].entries, 1, task[p].k - 1) \in Seq(Entry)
    BY <1>1, <2>1, Truncated DEF Ents
  <2>3. [task[p] EXCEPT !.back = TRUE, !.entries = SubSeq(task[p].entries, 1, task[p].k - 1)] \in Task
    BY <1>1, <2>2 DEF Task
  <2>4. /\ task' = [task EXCEPT ![p] =
             [@ EXCEPT !.back = TRUE, !.entries = SubSeq(task[p].entries, 1, task[p].k - 1)]]
        /\ pc' = [pc EXCEPT ![p] = IF task[p].k = 1 THEN "remove" ELSE "plan"]
        /\ result' \in [Procs -> Results]
    BY <1>1, <1>2, <1>3 DEF Throw, Goto, ControlOf, TypeOK
  <2>. DEFINE r == [task[p] EXCEPT !.back = TRUE, !.entries = SubSeq(task[p].entries, 1, task[p].k - 1)]
              l == IF task[p].k = 1 THEN "remove" ELSE "plan"
  <2>5. l \in PCs /\ task' = [task EXCEPT ![p] = r]
    BY <2>4 DEF PCs
  <2>. HIDE DEF r
  <2>6. r \in Task /\ pc' = [pc EXCEPT ![p] = l]
    BY <2>3, <2>4 DEF r
  <2>. QED BY <1>3, <2>4, <2>5, <2>6 DEF r
<1>4. CASE ~task[p].back /\ pc[p] # "copy"
  <2>1. [task[p] EXCEPT !.back = TRUE] \in Task
    BY <1>1 DEF Task
  <2>2. /\ task' = [task EXCEPT ![p] = [@ EXCEPT !.back = TRUE]]
        /\ pc' = [pc EXCEPT ![p] = "mark"]
        /\ result' = result
    BY <1>1, <1>2, <1>4 DEF Throw, Goto, ControlOf
  <2>. QED BY <1>2, <1>4, <2>1, <2>2 DEF TypeOK, PCs
<1>5. CASE task[p].back /\ task[p].op = "apply" /\ pc[p] = "mark"
  <2>1. /\ task' = [task EXCEPT ![p] = task[p]]
        /\ pc' = [pc EXCEPT ![p] = "plan"]
        /\ result' \in [Procs -> Results]
    BY <1>2, <1>5 DEF Throw, Goto, TypeOK
  <2>2. task[p] \in Task \cup {NoTask} /\ "plan" \in PCs
    BY <1>1 DEF PCs
  <2>. QED BY <1>5, <2>1, <2>2
<1>6. CASE task[p].back /\ (task[p].op = "rollback" \/ pc[p] # "mark")
  <2>1. PICK res \in Results : Finish(p, res)
    BY <1>1, <1>6 DEF Throw, GiveUp, Results
  <2>2. /\ task' = [task EXCEPT ![p] = NoTask]
        /\ pc' = [pc EXCEPT ![p] = "idle"]
        /\ result' \in [Procs -> Results]
    BY <1>2, <2>1 DEF Finish, TypeOK
  <2>. QED BY <1>6, <2>2 DEF PCs
<1>7. task[p].op \in {"apply", "rollback"} /\ task[p].back \in BOOLEAN
  BY <1>1 DEF Task
<1>. QED BY <1>3, <1>4, <1>5, <1>6, <1>7

-----------------------------------------------------------------------------
(* Types and control hold whatever the windows *)

LEMMA InitSane == Init => Sane
<1>. SUFFICES ASSUME Init PROVE Sane
  OBVIOUS
<1>1. TypeOK
  BY DEF Init, TypeOK, Content, PCs, Results
<1>2. Control
  BY DEF Init, Control, ControlOf, Running
<1>. QED BY <1>1, <1>2 DEF Sane

(* A step of p leaves the other processes where they are.                  *)
LEMMA OthersStay ==
  ASSUME Sane, NEW p \in Procs, NEW r \in Task \cup {NoTask}, NEW l \in PCs,
         task' = [task EXCEPT ![p] = r], pc' = [pc EXCEPT ![p] = l],
         ControlOf(p)',
         \A t \in Txns : doc'[t] # NoDoc => Distinct(doc'[t].entries)
  PROVE  Control'
<1>1. \A q \in Procs \ {p} : task'[q] = task[q] /\ pc'[q] = pc[q]
  BY Update DEF Sane
<1>2. ASSUME NEW q \in Procs \ {p} PROVE ControlOf(q)'
  <2>1. ControlOf(q)
    BY DEF Sane, Control
  <2>. QED BY <1>1, <2>1 DEF ControlOf, Running, Ents, Planned, Distinct
<1>. QED BY <1>2 DEF Control

LEMMA ThrowSane ==
  ASSUME Sane, NEW p \in Procs, pc[p] # "idle", Throw(p),
         \A t \in Txns : doc'[t] # NoDoc => Distinct(doc'[t].entries)
  PROVE  /\ Control'
         /\ task' \in [Procs -> Task \cup {NoTask}]
         /\ pc' \in [Procs -> PCs]
         /\ result' \in [Procs -> Results]
<1>1. PICK r \in Task \cup {NoTask}, l \in PCs :
           /\ task' = [task EXCEPT ![p] = r]
           /\ pc' = [pc EXCEPT ![p] = l]
           /\ result' \in [Procs -> Results]
           /\ \/ r = NoTask /\ l = "idle" /\ task[p].back
              \/ /\ pc[p] = "copy" /\ ~task[p].back
                 /\ r = [task[p] EXCEPT !.back = TRUE,
                           !.entries = SubSeq(task[p].entries, 1, task[p].k - 1)]
                 /\ l = IF task[p].k = 1 THEN "remove" ELSE "plan"
              \/ /\ pc[p] # "copy" /\ ~task[p].back
                 /\ r = [task[p] EXCEPT !.back = TRUE] /\ l = "mark"
              \/ /\ pc[p] = "mark" /\ task[p].back /\ task[p].op = "apply"
                 /\ r = task[p] /\ l = "plan"
  BY ThrowEffect
<1>2. /\ Running(p) /\ task[p] \in Task /\ Ents(p) \in Seq(Entry)
      /\ ControlOf(p)
  BY Local DEF Sane, Control
<1>3. task'[p] = r /\ pc'[p] = l
  BY <1>1, Update DEF Sane
<1>4. CASE r = NoTask /\ l = "idle"
  <2>1. ControlOf(p)'
    BY <1>3, <1>4 DEF ControlOf, Running
  <2>. QED BY <1>1, <2>1, OthersStay, Update DEF Sane
<1>5. CASE /\ pc[p] = "copy" /\ ~task[p].back
           /\ r = [task[p] EXCEPT !.back = TRUE,
                     !.entries = SubSeq(task[p].entries, 1, task[p].k - 1)]
           /\ l = IF task[p].k = 1 THEN "remove" ELSE "plan"
  <2>. DEFINE s == SubSeq(task[p].entries, 1, task[p].k - 1)
  <2>1. task[p].k \in 1..Len(Ents(p)) /\ Distinct(Ents(p)) /\ task[p].pending = {}
    BY <1>2, <1>5 DEF ControlOf, Planned
  <2>2. Distinct(s) /\ s \in Seq(Entry)
    BY <1>2, <2>1, Truncated DEF Ents
  <2>. HIDE DEF s
  <2>8. r = [task[p] EXCEPT !.back = TRUE, !.entries = s]
    BY <1>5 DEF s
  <2>9. r \in Task
    BY <1>2, <2>8, <2>2 DEF Task
  <2>3. /\ r.entries = s /\ r.back = TRUE /\ r.op = task[p].op
        /\ r.discard = task[p].discard /\ r.pending = {} /\ r # NoTask
    BY <1>2, <2>1, <2>8, <2>9, MarkersAssumption DEF Task
  <2>4. task[p].op = "apply" /\ task[p].discard = FALSE
    BY <1>2, <1>5 DEF ControlOf, Task
  <2>5. ControlOf(p)'
    BY <1>3, <1>5, <2>2, <2>3, <2>4
       DEF ControlOf, Running, Ents, Planned, Backward
  <2>. QED BY <1>1, <2>5, OthersStay, Update DEF Sane
<1>6. CASE pc[p] # "copy" /\ ~task[p].back /\ r = [task[p] EXCEPT !.back = TRUE] /\ l = "mark"
  <2>1. /\ r.entries = task[p].entries /\ r.back = TRUE /\ r.op = task[p].op
        /\ r.discard = task[p].discard /\ r.pending = task[p].pending /\ r # NoTask
    BY <1>2, <1>6, MarkersAssumption DEF Task
  <2>2. task[p].op = "apply" /\ task[p].pending = {} /\ Distinct(Ents(p))
        /\ task[p].discard = FALSE
    BY <1>2, <1>6 DEF ControlOf, Planned, Task
  <2>3. ControlOf(p)'
    BY <1>3, <1>6, <2>1, <2>2 DEF ControlOf, Running, Ents, Planned, Backward
  <2>. QED BY <1>1, <2>3, OthersStay, Update DEF Sane
<1>7. CASE pc[p] = "mark" /\ task[p].back /\ task[p].op = "apply" /\ r = task[p] /\ l = "plan"
  <2>1. ControlOf(p)'
    BY <1>2, <1>3, <1>7 DEF ControlOf, Running, Ents, Planned, Backward
  <2>. QED BY <1>1, <2>1, OthersStay, Update DEF Sane
<1>. QED BY <1>1, <1>4, <1>5, <1>6, <1>7

(* The locals of a fresh apply.                                            *)
LEMMA StartApplyEffect ==
  ASSUME Sane, NEW p \in Procs, StartApply(p)
  PROVE  \E t \in Txns \ used, r \in Task :
           /\ task' = [task EXCEPT ![p] = r]
           /\ r.op = "apply" /\ r.back = FALSE /\ r.discard = FALSE /\ r.txn = t
           /\ r.k = 1 /\ r.pending = {}
           /\ r.entries \in Seq(Entry) /\ Len(r.entries) > 0 /\ Distinct(r.entries)
           /\ \A j \in 1..Len(r.entries) :
                /\ r.entries[j].orig = file[r.entries[j].target]
                /\ Alone(p, r.entries[j].target)
           /\ used' = used \cup {t} /\ made' = made \cup {t}
           /\ clock' \in Int
<1>1. PICK i \in Integrations, n \in 1..MaxOps, t \in Txns \ used, d \in ClockSteps :
       \E tgt \in [1..n -> Targets[i]], new \in [1..n -> ToolContents] :
         /\ \A a, b \in 1..n : tgt[a] = tgt[b] => a = b
         /\ \A a \in 1..n : new[a] # file[tgt[a]] /\ Alone(p, tgt[a])
         /\ clock' = clock + d
         /\ used' = used \cup {t}
         /\ made' = made \cup {t}
         /\ task' = [task EXCEPT ![p] =
              [op |-> "apply", back |-> FALSE, discard |-> FALSE, txn |-> t,
               integration |-> i, at |-> clock + d, k |-> 1, pending |-> {},
               entries |-> [a \in 1..n |-> [target |-> tgt[a], orig |-> file[tgt[a]],
                                            applied |-> new[a]]]]]
  BY DEF StartApply
<1>2. PICK tgt \in [1..n -> Targets[i]], new \in [1..n -> ToolContents] :
         /\ \A a, b \in 1..n : tgt[a] = tgt[b] => a = b
         /\ \A a \in 1..n : new[a] # file[tgt[a]] /\ Alone(p, tgt[a])
         /\ clock' = clock + d
         /\ used' = used \cup {t}
         /\ made' = made \cup {t}
         /\ task' = [task EXCEPT ![p] =
              [op |-> "apply", back |-> FALSE, discard |-> FALSE, txn |-> t,
               integration |-> i, at |-> clock + d, k |-> 1, pending |-> {},
               entries |-> [a \in 1..n |-> [target |-> tgt[a], orig |-> file[tgt[a]],
                                            applied |-> new[a]]]]]
  BY <1>1
<1>. DEFINE es == [a \in 1..n |-> [target |-> tgt[a], orig |-> file[tgt[a]],
                                   applied |-> new[a]]]
            r == [op |-> "apply", back |-> FALSE, discard |-> FALSE, txn |-> t,
                  integration |-> i, at |-> clock + d, k |-> 1, pending |-> {},
                  entries |-> es]
<1>3. \A a \in 1..n : tgt[a] \in Files /\ file[tgt[a]] \in Content
  BY TargetsAssumption DEF Sane, TypeOK
<1>4. n \in Nat /\ n > 0
  BY BoundsAssumption
<1>5. \A a \in 1..n : es[a] \in Entry
  BY <1>3 DEF Entry
<1>6. es \in Seq(Entry) /\ Len(es) = n /\ DOMAIN es = 1..n
  BY <1>4, <1>5
<1>7. \A a \in 1..n : es[a].target = tgt[a] /\ es[a].orig = file[tgt[a]]
  OBVIOUS
<1>8. Distinct(es)
  BY <1>2, <1>6, <1>7 DEF Distinct
<1>9. clock + d \in Int
  BY ClockAssumption DEF Sane, TypeOK
<1>. HIDE DEF es
<1>10. r \in Task
  BY <1>6, <1>9 DEF Task
<1>11. task' = [task EXCEPT ![p] = r]
  BY <1>2 DEF es
<1>12. /\ r.op = "apply" /\ r.back = FALSE /\ r.discard = FALSE /\ r.txn = t
       /\ r.k = 1 /\ r.pending = {} /\ r.entries = es
  OBVIOUS
<1>13. \A a \in 1..n : es[a].orig = file[es[a].target] /\ Alone(p, es[a].target)
  BY <1>2, <1>7
<1>. HIDE DEF r
<1>. QED BY <1>2, <1>4, <1>6, <1>8, <1>9, <1>10, <1>11, <1>12, <1>13

LEMMA StartApplySane ==
  ASSUME Sane, NEW p \in Procs, StartApply(p)
  PROVE  Sane'
<1>1. PICK t \in Txns \ used, r \in Task :
           /\ task' = [task EXCEPT ![p] = r]
           /\ r.op = "apply" /\ r.back = FALSE /\ r.discard = FALSE /\ r.txn = t
           /\ r.k = 1 /\ r.pending = {}
           /\ r.entries \in Seq(Entry) /\ Len(r.entries) > 0 /\ Distinct(r.entries)
           /\ used' = used \cup {t} /\ made' = made \cup {t}
           /\ clock' \in Int
  BY StartApplyEffect
<1>2. /\ pc' = [pc EXCEPT ![p] = "copy"] /\ "copy" \in PCs
      /\ UNCHANGED <<file, doc, backups, litter, shelf, result, edits, crashes, faults, live>>
  BY DEF StartApply, Goto, budget, PCs
<1>3. task'[p] = r /\ pc'[p] = "copy"
  BY <1>1, <1>2, Update DEF Sane
<1>4. ControlOf(p)'
  BY <1>1, <1>3, MarkersAssumption DEF ControlOf, Running, Ents, Planned, Forward
<1>5. Control'
  BY <1>1, <1>2, <1>4, OthersStay DEF Sane, Control
<1>6. TypeOK'
  BY <1>1, <1>2, Update DEF Sane, TypeOK
<1>. QED BY <1>5, <1>6 DEF Sane

LEMMA CopyBackupSane ==
  ASSUME Sane, NEW p \in Procs, CopyBackup(p)
  PROVE  Sane'
<1>1. /\ Running(p) /\ task[p] \in Task /\ Ents(p) \in Seq(Entry) /\ pc[p] = "copy"
      /\ ControlOf(p) /\ TypeOK /\ task[p].txn \in Txns
  BY Local DEF Sane, Control, CopyBackup
<1>2. /\ task[p].k \in 1..Len(Ents(p)) /\ Distinct(Ents(p)) /\ task[p].pending = {}
      /\ ~task[p].back /\ Ents(p)[task[p].k] \in Entry /\ task[p].op = "apply"
      /\ ~task[p].discard
  BY <1>1 DEF ControlOf, Planned, Backward, Task
<1>3. UNCHANGED <<file, made, doc, litter, shelf, clock, used, edits, crashes, faults, live>>
  BY DEF CopyBackup, budget
<1>4. CASE Throw(p) /\ UNCHANGED backups
  BY <1>1, <1>3, <1>4, ThrowSane DEF Sane, Control, TypeOK
<1>5. CASE /\ backups' = IF Current(p).orig = Absent THEN backups
                ELSE [backups EXCEPT ![task[p].txn][Current(p).target] = file[Current(p).target]]
           /\ task' = [task EXCEPT ![p] = [@ EXCEPT !.k = task[p].k + 1]]
           /\ Goto(p, IF task[p].k = Len(task[p].entries) THEN "record" ELSE "copy")
           /\ UNCHANGED result
  <2>. DEFINE r == [task[p] EXCEPT !.k = task[p].k + 1]
              l == IF task[p].k = Len(task[p].entries) THEN "record" ELSE "copy"
  <2>1. r \in Task /\ l \in PCs
    BY <1>1, <1>2, SMTT(30) DEF Task, PCs
  <2>2. /\ r.entries = task[p].entries /\ r.back = task[p].back /\ r.op = task[p].op
        /\ r.discard = task[p].discard /\ r.pending = {} /\ r # NoTask
        /\ r.k = task[p].k + 1
    BY <1>1, <1>2, <2>1, MarkersAssumption DEF Task
  <2>3. task' = [task EXCEPT ![p] = r] /\ pc' = [pc EXCEPT ![p] = l]
    BY <1>5 DEF Goto
  <2>. HIDE DEF r
  <2>4. task'[p] = r /\ pc'[p] = l
    BY <2>1, <2>3, Update DEF Sane
  <2>5. ControlOf(p)'
    BY <1>1, <1>2, <2>2, <2>4 DEF ControlOf, Running, Ents, Planned, Forward
  <2>6. Control'
    BY <1>3, <2>1, <2>3, <2>5, OthersStay DEF Sane, Control
  <2>7. backups' \in [Txns -> [Files -> Content]]
    BY <1>1, <1>2, <1>5 DEF TypeOK, Current, Ents, Entry
  <2>8. TypeOK'
    BY <1>1, <1>3, <1>5, <2>1, <2>3, <2>7, Update DEF TypeOK
  <2>. QED BY <2>6, <2>8 DEF Sane
<1>. QED BY <1>4, <1>5 DEF CopyBackup, Copied

(* The document a process writes is one of its own entries.                *)
LEMMA WriteSane ==
  ASSUME Sane, NEW p \in Procs, pc[p] # "idle", NEW s \in States, WriteTransaction(p, s)
  PROVE  /\ doc' \in [Txns -> Doc \cup {NoDoc}]
         /\ \A t \in Txns : doc'[t] # NoDoc => Distinct(doc'[t].entries)
<1>1. /\ Running(p) /\ task[p] \in Task /\ task[p].txn \in Txns
      /\ ControlOf(p) /\ TypeOK
  BY Local DEF Sane, Control
<1>2. DocOf(p, s) \in Doc /\ DocOf(p, s).entries = Ents(p) /\ Distinct(Ents(p))
  BY <1>1 DEF DocOf, Doc, Task, Ents, ControlOf
<1>3. doc' = [doc EXCEPT ![task[p].txn] = DocOf(p, s)]
  BY DEF WriteTransaction
<1>. QED BY <1>1, <1>2, <1>3 DEF TypeOK, Sane, Control

LEMMA MetadataSane ==
  ASSUME Sane, NEW p \in Procs, Record(p) \/ Commit(p) \/ Mark(p)
  PROVE  Sane'
<1>1. pc[p] # "idle"
  BY DEF Record, Commit, Mark
<1>2. /\ Running(p) /\ task[p] \in Task /\ Ents(p) \in Seq(Entry) /\ ControlOf(p) /\ TypeOK
      /\ DOMAIN Ents(p) = 1..Len(Ents(p)) /\ Len(Ents(p)) \in Nat
  BY <1>1, Local DEF Sane, Control
<1>3. PICK s \in States : WriteTransaction(p, s)
  BY DEF Record, Commit, Mark, States
<1>4. /\ doc' \in [Txns -> Doc \cup {NoDoc}]
      /\ \A t \in Txns : doc'[t] # NoDoc => Distinct(doc'[t].entries)
  BY <1>1, <1>3, WriteSane
<1>5. UNCHANGED <<file, made, backups, litter, shelf, clock, used, edits, crashes, faults, live>>
  BY DEF Record, Commit, Mark, budget
<1>6. CASE Record(p)
  <2>. DEFINE r == [task[p] EXCEPT !.k = 1]
  <2>1. r \in Task
    BY <1>2 DEF Task
  <2>2. /\ r.entries = task[p].entries /\ r.back = task[p].back /\ r.op = task[p].op
        /\ r.discard = task[p].discard /\ r.pending = task[p].pending /\ r # NoTask /\ r.k = 1
    BY <1>2, <2>1, MarkersAssumption DEF Task
  <2>3. /\ task' = [task EXCEPT ![p] = r] /\ pc' = [pc EXCEPT ![p] = "stage"] /\ "stage" \in PCs
        /\ result' = result
    BY <1>6 DEF Record, Goto, PCs
  <2>. HIDE DEF r
  <2>4. task'[p] = r /\ pc'[p] = "stage"
    BY <2>1, <2>3, Update DEF Sane
  <2>5. pc[p] = "record" /\ ~task[p].back
    BY <1>2, <1>6 DEF Record, ControlOf, Backward
  <2>6. Len(Ents(p)) > 0 /\ task[p].pending = {}
    BY <1>2, <2>5 DEF ControlOf, Planned
  <2>7. ControlOf(p)'
    BY <1>2, <2>2, <2>4, <2>5, <2>6 DEF ControlOf, Running, Ents, Planned, Forward
  <2>8. Control'
    BY <1>4, <2>1, <2>3, <2>7, OthersStay
  <2>. QED BY <1>2, <1>4, <1>5, <2>1, <2>3, <2>8, Update DEF Sane, TypeOK
<1>7. CASE Commit(p)
  <2>1. /\ task' = [task EXCEPT ![p] = NoTask] /\ pc' = [pc EXCEPT ![p] = "idle"] /\ "idle" \in PCs
        /\ result' \in [Procs -> Results]
    BY <1>2, <1>7 DEF Commit, Finish, PCs, TypeOK, Results
  <2>2. task'[p] = NoTask /\ pc'[p] = "idle"
    BY <2>1, Update DEF Sane
  <2>3. ControlOf(p)'
    BY <2>2 DEF ControlOf, Running
  <2>4. Control'
    BY <1>4, <2>1, <2>3, OthersStay
  <2>. QED BY <1>2, <1>4, <1>5, <2>1, <2>4, Update DEF Sane, TypeOK
<1>8. CASE Mark(p)
  <2>. DEFINE l == IF task[p].op = "apply" THEN "plan" ELSE "stage"
  <2>0. UNCHANGED task /\ pc' = [pc EXCEPT ![p] = l] /\ result' = result /\ pc[p] = "mark"
    BY <1>8 DEF Mark, Goto
  <2>. HIDE DEF l
  <2>1. /\ task' = [task EXCEPT ![p] = task[p]] /\ pc' = [pc EXCEPT ![p] = l] /\ l \in PCs
        /\ result' = result /\ pc[p] = "mark"
    BY <1>2, <2>0 DEF TypeOK, PCs, l
  <2>2. task'[p] = task[p] /\ pc'[p] = l
    BY <1>2, <2>1, Update DEF Sane
  <2>3. task[p].back
    BY <1>2, <2>1 DEF ControlOf, Forward
  <2>4. task[p].op \in {"apply", "rollback"}
    BY <1>2 DEF Task
  <2>5. task[p].op = "apply" => ControlOf(p)'
    BY <1>2, <2>1, <2>2, <2>3 DEF ControlOf, Running, Ents, Planned, Backward, l
  <2>6. task[p].op = "rollback" => ControlOf(p)'
    BY <1>2, <2>1, <2>2, <2>3 DEF ControlOf, Running, Ents, Planned, Backward, l
  <2>7. Control'
    <3>1. ControlOf(p)'
      BY <2>4, <2>5, <2>6
    <3>. QED BY <1>2, <1>4, <2>1, <3>1, OthersStay
  <2>. QED BY <1>2, <1>4, <1>5, <2>1, <2>7, Update DEF Sane, TypeOK
<1>. QED BY <1>6, <1>7, <1>8

(* p is left where it stands, or moves on with the same locals.            *)
LEMMA MoveSane ==
  ASSUME Sane, NEW p \in Procs, NEW r \in Task \cup {NoTask}, NEW l \in PCs,
         task' = [task EXCEPT ![p] = r], pc' = [pc EXCEPT ![p] = l],
         ControlOf(p)',
         UNCHANGED <<made, doc, litter, clock, used, edits, crashes, faults, live>>,
         file' \in [Files -> Content], backups' \in [Txns -> [Files -> Content]],
         shelf' \in SUBSET (Files \X Content), result' \in [Procs -> Results]
  PROVE  Sane'
<1>1. \A t \in Txns : doc'[t] # NoDoc => Distinct(doc'[t].entries)
  BY DEF Sane, Control
<1>2. Control'
  BY <1>1, OthersStay
<1>. QED BY <1>2, Update DEF Sane, TypeOK

LEMMA StageSane ==
  ASSUME Sane, NEW p \in Procs, Stage(p)
  PROVE  Sane'
<1>1. pc[p] = "stage" /\ pc[p] # "idle"
  BY DEF Stage
<1>2. /\ Running(p) /\ task[p] \in Task /\ Ents(p) \in Seq(Entry) /\ ControlOf(p) /\ TypeOK
      /\ DOMAIN Ents(p) = 1..Len(Ents(p)) /\ Len(Ents(p)) \in Nat
  BY <1>1, Local DEF Sane, Control
<1>3. UNCHANGED <<file, made, doc, backups, litter, shelf, clock, used, edits, crashes, faults, live>>
  BY DEF Stage, disk, budget
<1>4. /\ file' \in [Files -> Content] /\ backups' \in [Txns -> [Files -> Content]]
      /\ shelf' \in SUBSET (Files \X Content)
  BY <1>2, <1>3 DEF TypeOK
<1>5. CASE task[p].back /\ task[p].k = 0 /\ Goto(p, "remove") /\ UNCHANGED <<task, result>>
  <2>1. task' = [task EXCEPT ![p] = task[p]] /\ pc' = [pc EXCEPT ![p] = "remove"] /\ "remove" \in PCs
    BY <1>2, <1>5 DEF Goto, PCs, TypeOK
  <2>2. task'[p] = task[p] /\ pc'[p] = "remove"
    BY <1>2, <2>1, Update DEF Sane
  <2>3. task[p].pending \subseteq 1..0
    BY <1>1, <1>2, <1>5 DEF ControlOf, Planned
  <2>4. ControlOf(p)'
    BY <1>1, <1>2, <1>5, <2>2, <2>3 DEF ControlOf, Running, Ents, Planned, Backward
  <2>5. result' \in [Procs -> Results]
    BY <1>2, <1>5 DEF TypeOK
  <2>. QED BY <1>2, <1>3, <1>4, <2>1, <2>4, <2>5, MoveSane
<1>6. CASE /\ task[p].back /\ task[p].k > 0 /\ task[p].k \notin task[p].pending
           /\ task' = [task EXCEPT ![p] = [@ EXCEPT !.k = task[p].k - 1]]
           /\ UNCHANGED <<pc, result>>
  <2>. DEFINE r == [task[p] EXCEPT !.k = task[p].k - 1]
  <2>1. r \in Task
    BY <1>2, <1>6 DEF Task
  <2>2. /\ r.entries = task[p].entries /\ r.back = task[p].back /\ r.op = task[p].op
        /\ r.discard = task[p].discard /\ r.pending = task[p].pending /\ r # NoTask
        /\ r.k = task[p].k - 1 /\ task[p].k \in Nat
    BY <1>2, <2>1, MarkersAssumption DEF Task
  <2>3. /\ task' = [task EXCEPT ![p] = r] /\ pc' = [pc EXCEPT ![p] = "stage"] /\ "stage" \in PCs
        /\ result' \in [Procs -> Results]
    BY <1>1, <1>2, <1>6 DEF PCs, TypeOK
  <2>. HIDE DEF r
  <2>4. task'[p] = r /\ pc'[p] = "stage"
    BY <2>1, <2>3, Update DEF Sane
  <2>5. task[p].pending \subseteq 1..(task[p].k - 1) /\ task[p].k <= Len(Ents(p))
    BY <1>1, <1>2, <1>6, <2>2 DEF ControlOf, Planned
  <2>6. ControlOf(p)'
    BY <1>1, <1>2, <1>6, <2>2, <2>4, <2>5 DEF ControlOf, Running, Ents, Planned, Backward
  <2>. QED BY <1>3, <1>4, <2>1, <2>3, <2>6, MoveSane
<1>7. CASE /\ task[p].back => task[p].k > 0 /\ task[p].k \in task[p].pending
           /\ Goto(p, "recheck") /\ UNCHANGED <<task, result>>
  <2>1. task' = [task EXCEPT ![p] = task[p]] /\ pc' = [pc EXCEPT ![p] = "recheck"] /\ "recheck" \in PCs
    BY <1>2, <1>7 DEF Goto, PCs, TypeOK
  <2>2. task'[p] = task[p] /\ pc'[p] = "recheck"
    BY <1>2, <2>1, Update DEF Sane
  <2>3. ControlOf(p)'
    BY <1>1, <1>2, <1>7, <2>2 DEF ControlOf, Running, Ents, Planned, Forward, Backward
  <2>4. result' \in [Procs -> Results]
    BY <1>2, <1>7 DEF TypeOK
  <2>. QED BY <1>2, <1>3, <1>4, <2>1, <2>3, <2>4, MoveSane
<1>8. CASE Throw(p)
  BY <1>1, <1>2, <1>3, <1>8, ThrowSane DEF Sane, Control, TypeOK
<1>. QED BY <1>5, <1>6, <1>7, <1>8 DEF Stage

LEMMA RecheckSane ==
  ASSUME Sane, NEW p \in Procs, Recheck(p)
  PROVE  Sane'
<1>1. pc[p] = "recheck" /\ pc[p] # "idle"
  BY DEF Recheck
<1>2. /\ Running(p) /\ task[p] \in Task /\ Ents(p) \in Seq(Entry) /\ ControlOf(p) /\ TypeOK
  BY <1>1, Local DEF Sane, Control
<1>3. UNCHANGED <<file, made, doc, backups, litter, shelf, clock, used, edits, crashes, faults, live>>
  BY DEF Recheck, disk, budget
<1>4. CASE Goto(p, "replace") /\ UNCHANGED <<task, result>>
  <2>1. task' = [task EXCEPT ![p] = task[p]] /\ pc' = [pc EXCEPT ![p] = "replace"] /\ "replace" \in PCs
    BY <1>2, <1>4 DEF Goto, PCs, TypeOK
  <2>2. task'[p] = task[p] /\ pc'[p] = "replace"
    BY <1>2, <2>1, Update DEF Sane
  <2>3. ControlOf(p)'
    BY <1>1, <1>2, <2>2 DEF ControlOf, Running, Ents, Planned, Forward, Backward
  <2>. QED BY <1>2, <1>3, <1>4, <2>1, <2>3, MoveSane DEF TypeOK
<1>5. CASE Throw(p)
  BY <1>1, <1>2, <1>3, <1>5, ThrowSane DEF Sane, Control, TypeOK
<1>. QED BY <1>4, <1>5 DEF Recheck

LEMMA ReplaceSane ==
  ASSUME Sane, NEW p \in Procs, Replace(p)
  PROVE  Sane'
<1>1. pc[p] = "replace" /\ pc[p] # "idle"
  BY DEF Replace
<1>2. /\ Running(p) /\ task[p] \in Task /\ Ents(p) \in Seq(Entry) /\ ControlOf(p) /\ TypeOK
      /\ DOMAIN Ents(p) = 1..Len(Ents(p)) /\ Len(Ents(p)) \in Nat
      /\ \A j \in 1..Len(Ents(p)) : Ents(p)[j] \in Entry
  BY <1>1, Local DEF Sane, Control
<1>3. UNCHANGED <<made, doc, backups, litter, shelf, clock, used, edits, crashes, faults, live>>
  BY DEF Replace, budget
<1>4. task[p].k \in 1..Len(Ents(p))
  BY <1>1, <1>2 DEF ControlOf, Task
<1>5. Current(p) \in Entry
  BY <1>2, <1>4 DEF Current, Ents
<1>6. backups' \in [Txns -> [Files -> Content]] /\ shelf' \in SUBSET (Files \X Content)
  BY <1>2, <1>3 DEF TypeOK
<1>7. CASE /\ ~task[p].back
           /\ file' = [file EXCEPT ![Current(p).target] = Current(p).applied]
           /\ task' = [task EXCEPT ![p] = [@ EXCEPT !.k = task[p].k + 1]]
           /\ Goto(p, IF task[p].k = Len(task[p].entries) THEN "commit" ELSE "stage")
           /\ UNCHANGED result
  <2>. DEFINE r == [task[p] EXCEPT !.k = task[p].k + 1]
              l == IF task[p].k = Len(task[p].entries) THEN "commit" ELSE "stage"
  <2>1. r \in Task /\ l \in PCs
    BY <1>2 DEF Task, PCs
  <2>2. /\ r.entries = task[p].entries /\ r.back = task[p].back /\ r.op = task[p].op
        /\ r.discard = task[p].discard /\ r.pending = task[p].pending /\ r # NoTask
        /\ r.k = task[p].k + 1
    BY <1>2, <2>1, MarkersAssumption DEF Task
  <2>3. /\ task' = [task EXCEPT ![p] = r] /\ pc' = [pc EXCEPT ![p] = l]
        /\ result' \in [Procs -> Results]
    BY <1>2, <1>7 DEF Goto, TypeOK
  <2>. HIDE DEF r
  <2>4. task'[p] = r /\ pc'[p] = l
    BY <2>1, <2>3, Update DEF Sane
  <2>5. ControlOf(p)'
    BY <1>1, <1>2, <1>4, <1>7, <2>2, <2>4 DEF ControlOf, Running, Ents, Planned, Forward, Backward
  <2>6. file' \in [Files -> Content]
    BY <1>2, <1>5, <1>7 DEF TypeOK, Entry, Content
  <2>. QED BY <1>3, <1>6, <2>1, <2>3, <2>5, <2>6, MoveSane
<1>8. CASE /\ task[p].back
           /\ file' = [file EXCEPT ![Current(p).target] = Current(p).orig]
           /\ task' = [task EXCEPT ![p] =
                 [@ EXCEPT !.k = task[p].k - 1, !.pending = task[p].pending \ {task[p].k}]]
           /\ Goto(p, "stage")
           /\ UNCHANGED result
  <2>. DEFINE r == [task[p] EXCEPT !.k = task[p].k - 1, !.pending = task[p].pending \ {task[p].k}]
  <2>0. task[p].k - 1 \in Nat /\ task[p].pending \ {task[p].k} \in SUBSET Nat
    BY <1>2, <1>4 DEF Task
  <2>1. r \in Task
    BY <1>2, <2>0 DEF Task
  <2>2. /\ r.entries = task[p].entries /\ r.back = task[p].back /\ r.op = task[p].op
        /\ r.discard = task[p].discard /\ r.pending = task[p].pending \ {task[p].k} /\ r # NoTask
        /\ r.k = task[p].k - 1 /\ task[p].k \in Nat
    BY <1>2, <2>1, MarkersAssumption DEF Task
  <2>3. /\ task' = [task EXCEPT ![p] = r] /\ pc' = [pc EXCEPT ![p] = "stage"] /\ "stage" \in PCs
        /\ result' \in [Procs -> Results]
    BY <1>2, <1>8 DEF Goto, TypeOK, PCs
  <2>. HIDE DEF r
  <2>4. task'[p] = r /\ pc'[p] = "stage"
    BY <2>1, <2>3, Update DEF Sane
  <2>5. task[p].pending \subseteq 1..task[p].k
    BY <1>1, <1>2, <1>8 DEF ControlOf, Planned
  <2>6. task[p].pending \ {task[p].k} \subseteq 1..(task[p].k - 1)
    BY <1>4, <2>5
  <2>7. ControlOf(p)'
    BY <1>1, <1>2, <1>4, <1>8, <2>2, <2>4, <2>6 DEF ControlOf, Running, Ents, Planned, Forward, Backward
  <2>8. file' \in [Files -> Content]
    BY <1>2, <1>5, <1>8 DEF TypeOK, Entry, Content
  <2>. QED BY <1>3, <1>6, <2>1, <2>3, <2>7, <2>8, MoveSane
<1>9. CASE Throw(p) /\ UNCHANGED file
  BY <1>1, <1>2, <1>3, <1>9, ThrowSane DEF Sane, Control, TypeOK
<1>. QED BY <1>7, <1>8, <1>9 DEF Replace

LEMMA StartRollbackSane ==
  ASSUME Sane, NEW p \in Procs, NEW t \in Txns, NEW discard \in BOOLEAN,
         StartRollback(p, t, discard)
  PROVE  Sane'
<1>1. TypeOK /\ doc[t] \in Doc /\ doc[t].entries \in Seq(Entry) /\ Distinct(doc[t].entries)
  BY DEF StartRollback, Newest, Sane, TypeOK, Control, Doc
<1>. DEFINE r == [op |-> "rollback", back |-> TRUE, discard |-> discard, txn |-> t,
                  integration |-> doc[t].integration, at |-> doc[t].at, k |-> 0, pending |-> {},
                  entries |-> doc[t].entries]
<1>0. doc[t].integration \in Integrations /\ doc[t].at \in Int /\ 0 \in Nat /\ {} \in SUBSET Nat
  BY <1>1 DEF Doc
<1>9. r \in Task
  BY <1>0, <1>1 DEF Task
<1>2. r \in Task /\ r # NoTask
  BY <1>9, MarkersAssumption
<1>3. /\ task' = [task EXCEPT ![p] = r] /\ pc' = [pc EXCEPT ![p] = "plan"] /\ "plan" \in PCs
  BY DEF StartRollback, Goto, PCs
<1>4. /\ r.op = "rollback" /\ r.back = TRUE /\ r.discard = discard /\ r.pending = {}
      /\ r.entries = doc[t].entries
  OBVIOUS
<1>. HIDE DEF r
<1>5. task'[p] = r /\ pc'[p] = "plan"
  BY <1>2, <1>3, Update DEF Sane
<1>6. ControlOf(p)'
  BY <1>1, <1>2, <1>4, <1>5 DEF ControlOf, Running, Ents, Planned, Backward
<1>7. UNCHANGED <<file, made, doc, backups, litter, shelf, clock, used, result, edits, crashes, faults, live>>
  BY DEF StartRollback, disk, budget
<1>8. /\ file' \in [Files -> Content] /\ backups' \in [Txns -> [Files -> Content]]
      /\ shelf' \in SUBSET (Files \X Content) /\ result' \in [Procs -> Results]
  BY <1>1, <1>7 DEF TypeOK
<1>. QED BY <1>2, <1>3, <1>6, <1>7, <1>8, MoveSane

(* What planning a rollback sets aside: targets with what they hold.       *)
LEMMA AsideCovers ==
  ASSUME TypeOK, NEW es \in Seq(Entry), NEW js \in SUBSET DOMAIN es
  PROVE  /\ Aside(es, js) \in SUBSET (Files \X Content)
         /\ \A j \in js : Changed(es[j]) /\ file[es[j].target] # Absent =>
              <<es[j].target, file[es[j].target]>> \in Aside(es, js)
<1>1. \A j \in js : es[j] \in Entry
  OBVIOUS
<1>2. \A j \in js : es[j].target \in Files /\ file[es[j].target] \in Content
  BY <1>1 DEF Entry, TypeOK
<1>. QED BY <1>2 DEF Aside

LEMMA PlanRollbackEffect ==
  ASSUME TypeOK, NEW p \in Procs, PlanRollback(p), Ents(p) \in Seq(Entry)
  PROVE  /\ shelf \subseteq shelf'
         /\ shelf' \in SUBSET (Files \X Content)
         /\ \/ Throw(p)
            \/ \E pending \in SUBSET DOMAIN Ents(p) :
                 /\ \A j \in DOMAIN Ents(p) : j \in pending <=> ~Undone(Ents(p)[j])
                 /\ \A j \in pending : Changed(Ents(p)[j]) /\ file[Ents(p)[j].target] # Absent =>
                      <<Ents(p)[j].target, file[Ents(p)[j].target]>> \in shelf'
                 /\ task' = [task EXCEPT ![p] = [@ EXCEPT !.pending = pending, !.k = Len(Ents(p))]]
                 /\ Goto(p, IF task[p].op = "apply" THEN "stage" ELSE "mark")
                 /\ UNCHANGED result
<1>. DEFINE refusing == {j \in DOMAIN Ents(p) : BadBackup(task[p].txn, Ents(p)[j])
                                               \/ (Changed(Ents(p)[j]) /\ ~task[p].discard)}
            pending == {j \in DOMAIN Ents(p) : ~Undone(Ents(p)[j])}
            reached == {j \in pending : \A i \in refusing : j < i}
<1>1. /\ shelf' = shelf \cup Aside(Ents(p), reached)
      /\ \/ Throw(p)
         \/ /\ refusing = {}
            /\ task' = [task EXCEPT ![p] = [@ EXCEPT !.pending = pending, !.k = Len(Ents(p))]]
            /\ Goto(p, IF task[p].op = "apply" THEN "stage" ELSE "mark")
            /\ UNCHANGED result
  BY DEF PlanRollback, Ents
<1>2. pending \in SUBSET DOMAIN Ents(p) /\ reached \in SUBSET DOMAIN Ents(p)
  OBVIOUS
<1>3. \A j \in DOMAIN Ents(p) : j \in pending <=> ~Undone(Ents(p)[j])
  OBVIOUS
<1>4. refusing = {} => reached = pending
  OBVIOUS
<1>. HIDE DEF refusing, pending, reached
<1>5. shelf \subseteq shelf' /\ shelf' \in SUBSET (Files \X Content)
  BY <1>1, <1>2, AsideCovers DEF TypeOK
<1>6. refusing = {} => \A j \in pending : Changed(Ents(p)[j]) /\ file[Ents(p)[j].target] # Absent =>
        <<Ents(p)[j].target, file[Ents(p)[j].target]>> \in shelf'
  BY <1>1, <1>2, <1>4, AsideCovers
<1>. QED BY <1>1, <1>2, <1>3, <1>5, <1>6

LEMMA PlanRollbackSane ==
  ASSUME Sane, NEW p \in Procs, PlanRollback(p)
  PROVE  Sane'
<1>1. pc[p] = "plan" /\ pc[p] # "idle"
  BY DEF PlanRollback
<1>2. /\ Running(p) /\ task[p] \in Task /\ Ents(p) \in Seq(Entry) /\ ControlOf(p) /\ TypeOK
      /\ DOMAIN Ents(p) = 1..Len(Ents(p)) /\ Len(Ents(p)) \in Nat
      /\ \A j \in 1..Len(Ents(p)) : Ents(p)[j] \in Entry
  BY <1>1, Local DEF Sane, Control
<1>3. UNCHANGED <<file, made, doc, backups, litter, clock, used, edits, crashes, faults, live>>
  BY DEF PlanRollback, budget
<1>0. shelf' \in SUBSET (Files \X Content)
  BY <1>2, PlanRollbackEffect
<1>4. ASSUME NEW pending \in SUBSET DOMAIN Ents(p),
             task' = [task EXCEPT ![p] = [@ EXCEPT !.pending = pending, !.k = Len(Ents(p))]],
             Goto(p, IF task[p].op = "apply" THEN "stage" ELSE "mark"),
             UNCHANGED result
      PROVE  Sane'
  <2>. DEFINE r == [task[p] EXCEPT !.pending = pending, !.k = Len(Ents(p))]
              l == IF task[p].op = "apply" THEN "stage" ELSE "mark"
  <2>1. pending \subseteq 1..Len(Ents(p))
    BY <1>2
  <2>0. pending \in SUBSET Nat
    BY <2>1
  <2>4. r \in Task
    BY <1>2, <2>0 DEF Task
  <2>5. /\ r.entries = task[p].entries /\ r.back = task[p].back /\ r.op = task[p].op
        /\ r.discard = task[p].discard /\ r.pending = pending /\ r # NoTask
        /\ r.k = Len(Ents(p))
    BY <1>2, <2>4, MarkersAssumption DEF Task
  <2>. HIDE DEF r
  <2>6. task' = [task EXCEPT ![p] = r]
    BY <1>4 DEF r
  <2>. HIDE DEF l
  <2>7. /\ pc' = [pc EXCEPT ![p] = l] /\ l \in PCs /\ result' \in [Procs -> Results]
    BY <1>2, <1>4 DEF Goto, TypeOK, PCs, l
  <2>8. task'[p] = r /\ pc'[p] = l
    BY <2>4, <2>6, <2>7, Update DEF Sane
  <2>9. task[p].op \in {"apply", "rollback"} /\ task[p].back
    BY <1>1, <1>2 DEF Task, ControlOf, Forward
  <2>10. ControlOf(p)'
    <3>1. /\ Ents(p)' = Ents(p) /\ Running(p)' /\ task'[p].back /\ task'[p].pending = pending
          /\ task'[p].k = Len(Ents(p)) /\ task'[p].op = task[p].op
          /\ task'[p].discard = task[p].discard
      BY <2>5, <2>8, <2>9 DEF Ents, Running
    <3>2. /\ pc'[p] \in {"stage", "mark"} /\ (pc'[p] = "mark") = (task'[p].op = "rollback")
      BY <2>5, <2>8, <2>9 DEF l
    <3>3. Distinct(Ents(p))' /\ (task'[p].discard => task'[p].op = "rollback")
      BY <1>2, <3>1 DEF ControlOf, Distinct
    <3>4. Planned(p)'
      BY <3>1, <3>2 DEF Planned
    <3>. QED BY <1>2, <2>1, <2>8, <2>5, <3>1, <3>2, <3>3, <3>4 DEF ControlOf, Backward, Running
  <2>11. file' \in [Files -> Content] /\ backups' \in [Txns -> [Files -> Content]]
    BY <1>2, <1>3 DEF TypeOK
  <2>. QED BY <1>0, <1>3, <2>4, <2>6, <2>7, <2>10, <2>11, MoveSane
<1>5. CASE Throw(p)
  BY <1>0, <1>1, <1>2, <1>3, <1>5, ThrowSane DEF Sane, Control, TypeOK
<1>. QED BY <1>2, <1>4, <1>5, PlanRollbackEffect

LEMMA RemoveSane ==
  ASSUME Sane, NEW p \in Procs, Remove(p)
  PROVE  Sane'
<1>1. pc[p] = "remove" /\ pc[p] # "idle"
  BY DEF Remove
<1>2. /\ Running(p) /\ task[p] \in Task /\ ControlOf(p) /\ TypeOK /\ task[p].txn \in Txns
  BY <1>1, Local DEF Sane, Control
<1>3. UNCHANGED <<file, litter, shelf, clock, used, edits, crashes, faults, live>>
  BY DEF Remove, budget
<1>4. CASE Throw(p) /\ UNCHANGED <<made, doc, backups>>
  BY <1>1, <1>2, <1>3, <1>4, ThrowSane DEF Sane, Control, TypeOK
<1>5. CASE /\ doc' = [doc EXCEPT ![task[p].txn] = NoDoc]
           /\ UNCHANGED <<made, backups, pc, task, result>>
  <2>1. \A t \in Txns : doc'[t] # NoDoc => doc'[t] = doc[t]
    BY <1>2, <1>5 DEF TypeOK
  <2>2. Control'
    BY <1>5, <2>1 DEF Sane, Control, ControlOf, Running, Planned, Ents
  <2>. QED BY <1>2, <1>3, <1>5, <2>2 DEF Sane, TypeOK
<1>6. CASE /\ \E f \in Files : backups' = [backups EXCEPT ![task[p].txn][f] = Absent]
           /\ UNCHANGED <<made, doc, pc, task, result>>
  <2>1. Control'
    BY <1>6 DEF Sane, Control, ControlOf, Running, Planned, Ents
  <2>. QED BY <1>2, <1>3, <1>6, <2>1 DEF Sane, TypeOK, Content
<1>7. CASE /\ made' = made \ {task[p].txn}
           /\ Finish(p, IF task[p].op = "apply" THEN "APPLY_FAILED" ELSE "rolled-back")
           /\ UNCHANGED <<doc, backups>>
  <2>1. /\ task' = [task EXCEPT ![p] = NoTask] /\ pc' = [pc EXCEPT ![p] = "idle"] /\ "idle" \in PCs
        /\ result' \in [Procs -> Results]
    BY <1>2, <1>7 DEF Finish, PCs, TypeOK, Results
  <2>2. task'[p] = NoTask /\ pc'[p] = "idle"
    BY <2>1, Update DEF Sane
  <2>3. ControlOf(p)'
    BY <2>2 DEF ControlOf, Running
  <2>4. Control'
    BY <1>7, <2>1, <2>3, OthersStay DEF Sane, Control
  <2>. QED BY <1>2, <1>3, <1>7, <2>1, <2>4, Update DEF Sane, TypeOK
<1>. QED BY <1>4, <1>5, <1>6, <1>7 DEF Remove

LEMMA EnvironmentSane ==
  ASSUME Sane, NEW p \in Procs, DirectoryGone(p) \/ Fault(p) \/ Crash(p)
  PROVE  Sane'
<1>1. pc[p] # "idle"
  BY DEF DirectoryGone, Writing, Fault, Crash
<1>2. /\ Running(p) /\ task[p] \in Task /\ ControlOf(p) /\ TypeOK /\ task[p].txn \in Txns
  BY <1>1, Local DEF Sane, Control
<1>3. CASE DirectoryGone(p)
  BY <1>1, <1>2, <1>3, ThrowSane DEF DirectoryGone, disk, budget, Sane, Control, TypeOK
<1>4. CASE Fault(p)
  <2>1. /\ Throw(p) /\ faults' = faults + 1
        /\ UNCHANGED <<file, made, backups, litter, shelf, clock, used, edits, crashes, live>>
    BY <1>4 DEF Fault
  <2>2. UNCHANGED doc \/ \E s \in States : WriteTransaction(p, s)
    BY <1>4 DEF Fault, Writing, States
  <2>3. /\ doc' \in [Txns -> Doc \cup {NoDoc}]
        /\ \A t \in Txns : doc'[t] # NoDoc => Distinct(doc'[t].entries)
    BY <1>1, <1>2, <2>2, WriteSane DEF Sane, Control, TypeOK
  <2>. QED BY <1>1, <1>2, <2>1, <2>3, ThrowSane DEF Sane, TypeOK
<1>5. CASE Crash(p)
  <2>1. /\ task' = [task EXCEPT ![p] = NoTask] /\ pc' = [pc EXCEPT ![p] = "idle"] /\ "idle" \in PCs
        /\ result' \in [Procs -> Results]
    BY <1>2, <1>5 DEF Crash, Finish, PCs, TypeOK, Results
  <2>2. task'[p] = NoTask /\ pc'[p] = "idle"
    BY <2>1, Update DEF Sane
  <2>3. ControlOf(p)'
    BY <2>2 DEF ControlOf, Running
  <2>4. UNCHANGED <<file, made, doc, backups, shelf, clock, used, edits, faults, live>>
    BY <1>5 DEF Crash
  <2>5. litter' \in SUBSET Txns /\ crashes' \in Nat
    BY <1>2, <1>5 DEF Crash, TypeOK
  <2>6. Control'
    BY <2>1, <2>3, <2>4, OthersStay DEF Sane, Control
  <2>. QED BY <1>2, <2>1, <2>4, <2>5, <2>6, Update DEF Sane, TypeOK
<1>. QED BY <1>3, <1>4, <1>5

LEMMA EditSane ==
  ASSUME Sane, NEW f \in Files, Edit(f)
  PROVE  Sane'
<1>1. Control'
  BY DEF Edit, Sane, Control, ControlOf, Running, Planned, Ents
<1>2. PICK c \in UserContents \cup {Absent} :
        /\ file' = [file EXCEPT ![f] = c]
        /\ live' = [live EXCEPT ![f] = (@ \ {file[f]}) \cup ({c} \ {Absent})]
  BY DEF Edit
<1>3. file' \in [Files -> Content] /\ live' \in [Files -> SUBSET UserContents]
  BY <1>2 DEF Sane, TypeOK, Content
<1>. QED BY <1>1, <1>3 DEF Sane, TypeOK, Edit

LEMMA RefuseSane ==
  ASSUME Sane, NEW p \in Procs, NEW t \in Txns, RefuseOrder(p, t)
  PROVE  Sane'
<1>1. Control'
  BY DEF RefuseOrder, disk, budget, Sane, Control, ControlOf, Running, Planned, Ents
<1>2. result' \in [Procs -> Results]
  BY DEF RefuseOrder, Sane, TypeOK, Results
<1>. QED BY <1>1, <1>2 DEF Sane, TypeOK, RefuseOrder, disk, budget

LEMMA NextSane == Sane /\ [Next]_vars => Sane'
<1>. SUFFICES ASSUME Sane, [Next]_vars PROVE Sane'
  OBVIOUS
<1>1. ASSUME NEW p \in Procs, Step(p) PROVE Sane'
  BY <1>1, CopyBackupSane, MetadataSane, StageSane, RecheckSane, ReplaceSane, PlanRollbackSane,
     RemoveSane, EnvironmentSane DEF Step
<1>2. CASE UNCHANGED vars
  BY <1>2 DEF vars, Sane, TypeOK, Control, ControlOf, Running, Planned, Ents
<1>. QED BY <1>1, <1>2, StartApplySane, EnvironmentSane, StartRollbackSane, RefuseSane, EditSane
     DEF Next

(* Every reachable state is well typed, whatever the environment does and  *)
(* whichever windows it hits.                                              *)
THEOREM TypeCorrect == Spec => []TypeOK
<1>1. Sane => TypeOK
  BY DEF Sane
<1>. QED BY <1>1, InitSane, NextSane, PTL DEF Spec

-----------------------------------------------------------------------------
(***************************************************************************)
(* The inductive invariant of ConfigExecutor is one: whatever the numbers  *)
(* of files, transactions, processes, edits, crashes and failing calls,    *)
(* user content is kept and no transaction becomes a dead end as long as   *)
(* nobody acts inside the windows of Exposed.                              *)
(***************************************************************************)

(* Safety of the user's content, with every window closed *)

Safe == Sane /\ Ownership /\ Backed /\ Belief /\ Stored

LEMMA InitSafe == Init => Safe
<1>. SUFFICES ASSUME Init PROVE Safe
  OBVIOUS
<1>1. Sane
  BY InitSane
<1>2. \A p \in Procs : ~Running(p)
  BY DEF Init, Running
<1>3. Ownership /\ Backed /\ Belief
  BY <1>2 DEF Init, Ownership, Backed, BackedBy, Recoverable, Belief, BeliefOf
<1>4. Stored
  BY DEF Init, Stored
<1>. QED BY <1>1, <1>3, <1>4 DEF Safe

(* A step of p that leaves targets and backups alone: what p must show.    *)
LEMMA Quiet ==
  ASSUME Safe, NEW p \in Procs, NEW r \in Task \cup {NoTask}, NEW l \in PCs,
         task' = [task EXCEPT ![p] = r], pc' = [pc EXCEPT ![p] = l],
         UNCHANGED <<file, backups, live>>, litter' = {},
         used \subseteq used', used' \subseteq Txns, shelf \subseteq shelf',
         \/ doc' = doc
         \/ /\ Running(p) /\ pc[p] # "copy"
            /\ \E d \in Doc : d.entries = Ents(p) /\ doc' = [doc EXCEPT ![task[p].txn] = d],
         r # NoTask => /\ r.txn \in used'
                       /\ \A q \in Procs \ {p} : Running(q) => task[q].txn # r.txn
                       /\ Running(p) => r.txn = task[p].txn,
         r = NoTask /\ Running(p) => pc[p] # "remove" \/ (doc[task[p].txn] = NoDoc /\ doc' = doc),
         BackedBy(p)', BeliefOf(p)',
         \A f \in Files :
           r # NoTask /\ Planned(p)' /\ (\A j \in r.pending : r.entries[j].target # f) =>
             backups[r.txn][f] \in {Absent, file[f]} \/ Settled(r.txn, f)
  PROVE  Ownership' /\ Backed' /\ Belief' /\ Stored'
<1>1. /\ task'[p] = r /\ pc'[p] = l
      /\ \A q \in Procs \ {p} : task'[q] = task[q] /\ pc'[q] = pc[q]
  BY Update DEF Safe, Sane
<1>2. ASSUME NEW t \in Txns, Running(p) => t # task[p].txn
      PROVE  doc'[t] = doc[t]
  BY <1>2 DEF Safe, Sane, TypeOK
<1>3. Ownership'
  <2>1. \A q \in Procs : Running(q)' => task'[q].txn \in used'
    BY <1>1 DEF Safe, Ownership, Running
  <2>2. \A q, s \in Procs : Running(q)' /\ Running(s)' /\ task'[q].txn = task'[s].txn => q = s
    BY <1>1 DEF Safe, Ownership, Running
  <2>3. ASSUME NEW t \in Txns \ used'
        PROVE  doc'[t] = NoDoc /\ \A f \in Files : backups'[t][f] = Absent
    <3>1. t \notin used /\ (Running(p) => t # task[p].txn)
      BY DEF Safe, Ownership
    <3>. QED BY <1>2, <3>1 DEF Safe, Ownership
  <2>. QED BY <2>1, <2>2, <2>3 DEF Ownership
<1>4. ASSUME NEW q \in Procs \ {p}, Running(q)
      PROVE  doc'[task[q].txn] = doc[task[q].txn]
  <2>1. task[q].txn \in Txns
    BY <1>4 DEF Safe, Sane, TypeOK, Running, Task
  <2>2. Running(p) => task[q].txn # task[p].txn
    BY <1>4 DEF Safe, Ownership
  <2>. QED BY <1>2, <2>1, <2>2
<1>5. ASSUME NEW q \in Procs \ {p}
      PROVE  BackedBy(q)' /\ BeliefOf(q)'
  <2>1. BackedBy(q) /\ BeliefOf(q)
    BY SMTT(30) DEF Safe, Backed, Belief
  <2>2. BackedBy(q)'
    BY <1>1, <1>4, <2>1, SMTT(30) DEF BackedBy, Running, Ents, Owns, Intact
  <2>3. BeliefOf(q)'
    BY <1>1, <2>1 DEF BeliefOf, Running, Ents, Matches, Unchecked, Expected, Current
  <2>. QED BY <2>2, <2>3
<1>6. ASSUME NEW t \in Txns, doc'[t] # NoDoc, Unowned(t)'
      PROVE  /\ \A j \in DOMAIN doc'[t].entries : Intact(t, doc'[t].entries[j])
             /\ Owns(t, doc'[t].entries)
  <2>1. CASE Running(p) /\ t = task[p].txn
    <3>1. r = NoTask
      BY <1>1, <1>6, <2>1 DEF Unowned, Running
    <3>2. pc[p] # "remove"
      BY <1>6, <2>1, <3>1
    <3>3. pc[p] # "copy" /\ doc'[t].entries = Ents(p)
      BY <1>6, <2>1 DEF Safe, Sane, TypeOK, Backed, BackedBy
    <3>. QED BY <2>1, <3>2, <3>3 DEF Safe, Backed, BackedBy
  <2>2. CASE Running(p) => t # task[p].txn
    <3>1. Unowned(t)
      BY <1>1, <1>6, <2>2 DEF Unowned, Running
    <3>2. doc'[t] = doc[t]
      BY <1>2, <2>2
    <3>. QED BY <1>6, <3>1, <3>2 DEF Safe, Backed, Recoverable
  <2>. QED BY <2>1, <2>2
<1>7. Backed'
  <2>1. \A q \in Procs : BackedBy(q)'
    BY <1>5
  <2>2. \A t \in Txns : Recoverable(t)'
    BY <1>6 DEF Recoverable, Intact, Owns
  <2>. QED BY <2>1, <2>2 DEF Backed
<1>8. Belief'
  BY <1>5 DEF Belief
<1>9. ASSUME NEW f \in Files, NEW c \in live[f]
      PROVE  file[f] = c \/ <<f, c>> \in shelf \/ \E t \in Txns : backups[t][f] = c /\ ~Settled(t, f)'
  <2>1. c # Absent
    BY ContentsAssumption DEF Safe, Sane, TypeOK
  <2>2. ASSUME NEW t \in Txns, backups[t][f] = c, ~Settled(t, f), Settled(t, f)'
        PROVE  file[f] = c
    <3>1. PICK q \in Procs : /\ Running(q)' /\ task'[q].txn = t /\ Planned(q)'
                             /\ \A j \in task'[q].pending : Ents(q)'[j].target # f
      BY <2>2 DEF Settled
    <3>2. q = p
      BY <1>1, <2>2, <3>1 DEF Settled, Running, Planned, Ents
    <3>3. r # NoTask /\ r.txn = t /\ Planned(p)' /\ \A j \in r.pending : r.entries[j].target # f
      BY <1>1, <3>1, <3>2 DEF Running, Ents
    <3>. QED BY <2>1, <2>2, <3>3
  <2>. QED BY <2>2 DEF Safe, Stored
<1>10. Stored'
  BY <1>9 DEF Stored
<1>. QED BY <1>3, <1>7, <1>8, <1>10

Closed == Windows = {}

LEMMA LocalSafe ==
  ASSUME Safe, NEW p \in Procs, pc[p] # "idle"
  PROVE  /\ Sane /\ TypeOK /\ Running(p) /\ task[p] \in Task /\ Ents(p) \in Seq(Entry)
         /\ DOMAIN Ents(p) = 1..Len(Ents(p)) /\ Len(Ents(p)) \in Nat
         /\ \A j \in 1..Len(Ents(p)) : Ents(p)[j] \in Entry
         /\ task[p].txn \in Txns /\ task[p].txn \in used
         /\ \A q \in Procs \ {p} : Running(q) => task[q].txn # task[p].txn
         /\ ControlOf(p) /\ BackedBy(p) /\ BeliefOf(p) /\ litter = {} /\ used \subseteq Txns
<1>1. Sane /\ TypeOK /\ ControlOf(p) /\ BackedBy(p) /\ BeliefOf(p) /\ litter = {} /\ used \subseteq Txns
  BY DEF Safe, Sane, Control, Backed, Belief, Ownership, TypeOK
<1>2. /\ Running(p) /\ task[p] \in Task /\ Ents(p) \in Seq(Entry)
      /\ DOMAIN Ents(p) = 1..Len(Ents(p)) /\ Len(Ents(p)) \in Nat
      /\ \A j \in 1..Len(Ents(p)) : Ents(p)[j] \in Entry
      /\ task[p].txn \in Txns
  BY <1>1, Local
<1>. QED BY <1>1, <1>2 DEF Safe, Ownership

LEMMA ThrowSafe ==
  ASSUME Safe, NEW p \in Procs, pc[p] # "idle", pc[p] # "remove", Throw(p),
         UNCHANGED <<file, backups, live, litter, used>>, shelf \subseteq shelf',
         \/ doc' = doc
         \/ pc[p] # "copy" /\ \E s \in States : WriteTransaction(p, s)
  PROVE  Ownership' /\ Backed' /\ Belief' /\ Stored'
<1>1. /\ Sane /\ TypeOK /\ Running(p) /\ task[p] \in Task /\ Ents(p) \in Seq(Entry)
      /\ DOMAIN Ents(p) = 1..Len(Ents(p)) /\ Len(Ents(p)) \in Nat
      /\ task[p].txn \in Txns /\ task[p].txn \in used
      /\ \A q \in Procs \ {p} : Running(q) => task[q].txn # task[p].txn
      /\ ControlOf(p) /\ BackedBy(p) /\ BeliefOf(p) /\ litter = {} /\ used \subseteq Txns
  BY LocalSafe
<1>2. PICK r \in Task \cup {NoTask}, l \in PCs :
           /\ task' = [task EXCEPT ![p] = r]
           /\ pc' = [pc EXCEPT ![p] = l]
           /\ result' \in [Procs -> Results]
           /\ \/ r = NoTask /\ l = "idle" /\ task[p].back
              \/ /\ pc[p] = "copy" /\ ~task[p].back
                 /\ r = [task[p] EXCEPT !.back = TRUE,
                           !.entries = SubSeq(task[p].entries, 1, task[p].k - 1)]
                 /\ l = IF task[p].k = 1 THEN "remove" ELSE "plan"
              \/ /\ pc[p] # "copy" /\ ~task[p].back
                 /\ r = [task[p] EXCEPT !.back = TRUE] /\ l = "mark"
              \/ /\ pc[p] = "mark" /\ task[p].back /\ task[p].op = "apply"
                 /\ r = task[p] /\ l = "plan"
  BY <1>1, ThrowEffect
<1>3. task'[p] = r /\ pc'[p] = l
  BY <1>1, <1>2, Update
<1>4. \/ doc' = doc
      \/ /\ Running(p) /\ pc[p] # "copy"
         /\ \E d \in Doc : d.entries = Ents(p) /\ doc' = [doc EXCEPT ![task[p].txn] = d]
  <2>1. ASSUME NEW s \in States, WriteTransaction(p, s)
        PROVE  \E d \in Doc : d.entries = Ents(p) /\ doc' = [doc EXCEPT ![task[p].txn] = d]
    <3>1. DocOf(p, s) \in Doc /\ DocOf(p, s).entries = Ents(p)
      BY <1>1 DEF DocOf, Doc, Task, Ents
    <3>. QED BY <2>1, <3>1 DEF WriteTransaction
  <2>. QED BY <1>1, <2>1
<1>5. doc'[task[p].txn] # NoDoc /\ pc[p] # "copy" => doc'[task[p].txn].entries = Ents(p)
  BY <1>1, <1>4 DEF TypeOK, BackedBy
<1>6. CASE r = NoTask
  <2>1. BackedBy(p)' /\ BeliefOf(p)'
    BY <1>3, <1>6 DEF BackedBy, BeliefOf, Running
  <2>. QED BY <1>1, <1>2, <1>4, <1>6, <2>1, Quiet
<1>7. CASE /\ pc[p] = "copy" /\ ~task[p].back
           /\ r = [task[p] EXCEPT !.back = TRUE,
                     !.entries = SubSeq(task[p].entries, 1, task[p].k - 1)]
           /\ l = IF task[p].k = 1 THEN "remove" ELSE "plan"
  <2>. DEFINE s == SubSeq(task[p].entries, 1, task[p].k - 1)
              t == task[p].txn
  <2>1. /\ task[p].k \in 1..Len(Ents(p)) /\ Distinct(Ents(p)) /\ task[p].pending = {}
        /\ task[p].op = "apply" /\ task[p].discard = FALSE
    BY <1>1, <1>7 DEF ControlOf, Planned, Task
  <2>2. /\ s \in Seq(Entry) /\ Len(s) = task[p].k - 1 /\ DOMAIN s = 1..(task[p].k - 1)
        /\ \A j \in 1..(task[p].k - 1) : s[j] = Ents(p)[j]
    BY <1>1, <2>1, Truncated DEF Ents
  <2>3. r = [task[p] EXCEPT !.back = TRUE, !.entries = s]
    BY <1>7
  <2>. HIDE DEF s
  <2>4. r \in Task /\ r # NoTask
    BY <1>1, <2>2, <2>3, MarkersAssumption DEF Task
  <2>5. /\ r.entries = s /\ r.back = TRUE /\ r.op = "apply" /\ r.txn = t
        /\ r.discard = FALSE /\ r.pending = {}
    BY <1>1, <2>1, <2>3 DEF Task
  <2>6. doc[t] = NoDoc /\ doc' = doc
    BY <1>1, <1>7 DEF BackedBy
  <2>7. ASSUME NEW f \in Files, backups[t][f] # Absent
        PROVE  \E j \in DOMAIN s : s[j].target = f
    <3>1. PICK j \in DOMAIN Ents(p) : Ents(p)[j].target = f
      BY <1>1, <2>7 DEF BackedBy, Owns
    <3>2. ~(j >= task[p].k)
      BY <1>1, <1>7, <2>7, <3>1 DEF BackedBy
    <3>3. j \in 1..(task[p].k - 1)
      BY <1>1, <2>1, <3>1, <3>2
    <3>. QED BY <2>2, <3>1, <3>3
  <2>8. ASSUME NEW j \in DOMAIN s PROVE backups[t][s[j].target] = s[j].orig
    <3>1. j \in DOMAIN Ents(p) /\ ~(j >= task[p].k) /\ s[j] = Ents(p)[j]
      BY <1>1, <2>1, <2>2
    <3>. QED BY <1>1, <1>7, <3>1 DEF BackedBy, Intact
  <2>9. BackedBy(p)'
    <3>1. task'[p] = r /\ task'[p].txn = task[p].txn /\ task'[p].entries = s /\ pc'[p] # "copy"
      BY <1>3, <1>7, <2>5
    <3>2. \A f \in Files : backups'[task'[p].txn][f] # Absent => \E j \in DOMAIN s : s[j].target = f
      BY <2>7, <3>1
    <3>3. \A j \in DOMAIN s : backups'[task'[p].txn][s[j].target] = s[j].orig
      BY <2>8, <3>1
    <3>4. doc'[task'[p].txn] = NoDoc
      BY <2>6, <3>1
    <3>. QED BY <3>1, <3>2, <3>3, <3>4 DEF BackedBy, Ents, Owns, Intact
  <2>10. BeliefOf(p)'
    BY <1>3, <1>7, <2>5 DEF BeliefOf, Running
  <2>11. ASSUME NEW f \in Files, Planned(p)' PROVE backups[t][f] = Absent
    <3>1. task[p].k = 1
      BY <1>3, <1>7, <2>5, <2>11 DEF Planned
    <3>2. DOMAIN s = {}
      BY <2>2, <3>1
    <3>. QED BY <2>7, <3>2
  <2>. HIDE DEF t
  <2>12. r.txn = task[p].txn
    BY <2>5 DEF t
  <2>13. Running(p) /\ doc' = doc /\ pc[p] # "remove" /\ UNCHANGED <<file, backups, live>>
    BY <1>1, <2>6
  <2>. QED BY <1>1, <1>2, <2>4, <2>5, <2>9, <2>10, <2>11, <2>12, <2>13, Quiet, ZenonT(60)
<1>8. CASE pc[p] # "copy" /\ ~task[p].back /\ r = [task[p] EXCEPT !.back = TRUE] /\ l = "mark"
  <2>1. r # NoTask /\ r.entries = task[p].entries /\ r.txn = task[p].txn
        /\ r.op = task[p].op /\ r.discard = task[p].discard
    BY <1>1, <1>2, <1>8, MarkersAssumption DEF Task
  <2>2. task[p].op = "apply" /\ task[p].discard = FALSE
    BY <1>1, <1>8 DEF ControlOf, Task
  <2>3. BackedBy(p)'
    BY <1>1, <1>3, <1>5, <1>8, <2>1 DEF BackedBy, Running, Ents, Owns, Intact
  <2>4. BeliefOf(p)' /\ ~Planned(p)'
    BY <1>3, <1>8, <2>1, <2>2 DEF BeliefOf, Planned
  <2>. QED BY <1>1, <1>2, <1>4, <2>1, <2>3, <2>4, Quiet
<1>9. CASE pc[p] = "mark" /\ task[p].back /\ task[p].op = "apply" /\ r = task[p] /\ l = "plan"
  <2>1. task[p].discard = FALSE /\ r # NoTask
    BY <1>1, <1>9 DEF ControlOf, Task, Running
  <2>2. BackedBy(p)'
    BY <1>1, <1>3, <1>5, <1>9 DEF BackedBy, Running, Ents, Owns, Intact
  <2>3. BeliefOf(p)' /\ ~Planned(p)'
    BY <1>3, <1>9, <2>1 DEF BeliefOf, Planned
  <2>. QED BY <1>1, <1>2, <1>4, <1>9, <2>1, <2>2, <2>3, Quiet
<1>. QED BY <1>2, <1>6, <1>7, <1>8, <1>9

LEMMA WriteEffect ==
  ASSUME Safe, NEW p \in Procs, pc[p] # "idle", NEW s \in States, WriteTransaction(p, s)
  PROVE  /\ \E d \in Doc : d.entries = Ents(p) /\ doc' = [doc EXCEPT ![task[p].txn] = d]
         /\ doc'[task[p].txn].entries = Ents(p)
<1>1. task[p] \in Task /\ TypeOK
  BY LocalSafe
<1>2. DocOf(p, s) \in Doc /\ DocOf(p, s).entries = Ents(p)
  BY <1>1 DEF DocOf, Doc, Task, Ents
<1>. QED BY <1>1, <1>2 DEF WriteTransaction, TypeOK, Task

LEMMA RecordSafe ==
  ASSUME Safe, NEW p \in Procs, Record(p)
  PROVE  Ownership' /\ Backed' /\ Belief' /\ Stored'
<1>1. pc[p] = "record" /\ WriteTransaction(p, "applying") /\ "applying" \in States
  BY DEF Record, States
<1>2. /\ Running(p) /\ task[p] \in Task /\ ControlOf(p) /\ BackedBy(p) /\ litter = {}
      /\ used \subseteq Txns /\ task[p].txn \in used
      /\ \A q \in Procs \ {p} : Running(q) => task[q].txn # task[p].txn
  BY <1>1, LocalSafe
<1>3. /\ \E d \in Doc : d.entries = Ents(p) /\ doc' = [doc EXCEPT ![task[p].txn] = d]
      /\ doc'[task[p].txn].entries = Ents(p)
  BY <1>1, WriteEffect
<1>. DEFINE r == [task[p] EXCEPT !.k = 1]
<1>4. r \in Task
  BY <1>2 DEF Task
<1>5. /\ r # NoTask /\ r.entries = task[p].entries /\ r.back = task[p].back
      /\ r.discard = task[p].discard /\ r.txn = task[p].txn
  BY <1>2, <1>4, MarkersAssumption DEF Task
<1>6. task' = [task EXCEPT ![p] = r] /\ pc' = [pc EXCEPT ![p] = "stage"] /\ "stage" \in PCs
  BY DEF Record, Goto, PCs
<1>7. UNCHANGED <<file, backups, live, litter, used, shelf>>
  BY DEF Record
<1>. HIDE DEF r
<1>8. task'[p] = r /\ pc'[p] = "stage"
  BY <1>4, <1>6, Update DEF Safe, Sane
<1>9. task[p].back = FALSE /\ task[p].discard = FALSE
  BY <1>1, <1>2 DEF ControlOf, Backward, Task
<1>10. BackedBy(p)'
  BY <1>1, <1>2, <1>3, <1>5, <1>7, <1>8 DEF BackedBy, Running, Ents, Owns, Intact
<1>11. BeliefOf(p)' /\ ~Planned(p)'
  BY <1>5, <1>8, <1>9 DEF BeliefOf, Planned
<1>. QED BY <1>1, <1>2, <1>3, <1>4, <1>5, <1>6, <1>7, <1>10, <1>11, Quiet

LEMMA CommitSafe ==
  ASSUME Safe, NEW p \in Procs, Commit(p)
  PROVE  Ownership' /\ Backed' /\ Belief' /\ Stored'
<1>1. pc[p] = "commit" /\ WriteTransaction(p, "applied") /\ "applied" \in States
  BY DEF Commit, States
<1>2. Running(p) /\ litter = {} /\ used \subseteq Txns
  BY <1>1, LocalSafe
<1>3. \E d \in Doc : d.entries = Ents(p) /\ doc' = [doc EXCEPT ![task[p].txn] = d]
  BY <1>1, WriteEffect
<1>4. task' = [task EXCEPT ![p] = NoTask] /\ pc' = [pc EXCEPT ![p] = "idle"] /\ "idle" \in PCs
  BY DEF Commit, Finish, PCs
<1>5. UNCHANGED <<file, backups, live, litter, used, shelf>>
  BY DEF Commit
<1>6. BackedBy(p)' /\ BeliefOf(p)'
  BY <1>4, Update DEF BackedBy, BeliefOf, Running, Safe, Sane
<1>. QED BY <1>1, <1>2, <1>3, <1>4, <1>5, <1>6, Quiet

LEMMA MarkSafe ==
  ASSUME Safe, NEW p \in Procs, Mark(p)
  PROVE  Ownership' /\ Backed' /\ Belief' /\ Stored'
<1>1. pc[p] = "mark" /\ WriteTransaction(p, "rolling-back") /\ "rolling-back" \in States
  BY DEF Mark, States
<1>2. /\ Running(p) /\ task[p] \in Task /\ ControlOf(p) /\ BackedBy(p) /\ BeliefOf(p) /\ litter = {}
      /\ used \subseteq Txns /\ task[p].txn \in used
      /\ \A q \in Procs \ {p} : Running(q) => task[q].txn # task[p].txn
  BY <1>1, LocalSafe
<1>3. /\ \E d \in Doc : d.entries = Ents(p) /\ doc' = [doc EXCEPT ![task[p].txn] = d]
      /\ doc'[task[p].txn].entries = Ents(p)
  BY <1>1, WriteEffect
<1>. DEFINE l == IF task[p].op = "apply" THEN "plan" ELSE "stage"
<1>4. /\ task' = [task EXCEPT ![p] = task[p]] /\ pc' = [pc EXCEPT ![p] = l] /\ l \in PCs
  BY DEF Mark, Goto, PCs, Safe, Sane, TypeOK
<1>5. UNCHANGED <<file, backups, live, litter, used, shelf, task>>
  BY DEF Mark
<1>6. task'[p] = task[p] /\ pc'[p] = l
  BY <1>2, <1>4, Update DEF Safe, Sane
<1>7. BackedBy(p)'
  BY <1>1, <1>2, <1>3, <1>5, <1>6 DEF BackedBy, Running, Ents, Owns, Intact
<1>8. BeliefOf(p)'
  BY <1>2, <1>5, <1>6 DEF BeliefOf, Running, Ents
<1>9. ASSUME NEW f \in Files, Planned(p)', \A j \in task[p].pending : task[p].entries[j].target # f
      PROVE  Settled(task[p].txn, f)
  <2>1. Planned(p)
    BY <1>1, <1>2, <1>5, <1>6, <1>9 DEF Planned, Task
  <2>. QED BY <1>2, <1>9, <2>1 DEF Settled, Ents
<1>10. task[p] # NoTask
  BY <1>2 DEF Running
<1>. HIDE DEF l
<1>. QED BY <1>1, <1>2, <1>3, <1>4, <1>5, <1>7, <1>8, <1>9, <1>10, Quiet

LEMMA StageSafe ==
  ASSUME Safe, NEW p \in Procs, Stage(p)
  PROVE  Ownership' /\ Backed' /\ Belief' /\ Stored'
<1>1. pc[p] = "stage"
  BY DEF Stage
<1>2. /\ Running(p) /\ task[p] \in Task /\ ControlOf(p) /\ BackedBy(p) /\ BeliefOf(p) /\ litter = {}
      /\ used \subseteq Txns /\ task[p].txn \in used /\ TypeOK
      /\ \A q \in Procs \ {p} : Running(q) => task[q].txn # task[p].txn
  BY <1>1, LocalSafe
<1>3. UNCHANGED <<file, doc, backups, live, litter, used, shelf>>
  BY DEF Stage, disk
<1>4. ASSUME NEW r \in Task, NEW l \in {"remove", "stage", "recheck"},
             task' = [task EXCEPT ![p] = r], pc' = [pc EXCEPT ![p] = l],
             r # NoTask, r.entries = task[p].entries, r.back = task[p].back,
             r.discard = task[p].discard, r.txn = task[p].txn, r.pending = task[p].pending
      PROVE  Ownership' /\ Backed' /\ Belief' /\ Stored'
  <2>1. l \in PCs
    BY DEF PCs
  <2>2. task'[p] = r /\ pc'[p] = l
    BY <1>2, <1>4, <2>1, Update
  <2>3. BackedBy(p)'
    BY <1>1, <1>2, <1>3, <1>4, <2>2 DEF BackedBy, Running, Ents, Owns, Intact
  <2>4. BeliefOf(p)'
    BY <1>2, <1>3, <1>4, <2>2 DEF BeliefOf, Running, Ents
  <2>5. ASSUME NEW f \in Files, Planned(p)', \A j \in r.pending : r.entries[j].target # f
        PROVE  Settled(r.txn, f)
    <3>1. Planned(p)
      BY <1>1, <1>4, <2>2, <2>5 DEF Planned
    <3>. QED BY <1>2, <1>4, <2>5, <3>1 DEF Settled, Ents
  <2>. QED BY <1>1, <1>2, <1>3, <1>4, <2>1, <2>3, <2>4, <2>5, Quiet
<1>5. CASE Goto(p, "remove") /\ UNCHANGED task
  <2>1. task' = [task EXCEPT ![p] = task[p]]
    BY <1>2, <1>5 DEF TypeOK
  <2>. QED BY <1>2, <1>4, <1>5, <2>1 DEF Goto, Running
<1>6. CASE Goto(p, "recheck") /\ UNCHANGED task
  <2>1. task' = [task EXCEPT ![p] = task[p]]
    BY <1>2, <1>6 DEF TypeOK
  <2>. QED BY <1>2, <1>4, <1>6, <2>1 DEF Goto, Running
<1>7. CASE /\ task[p].k > 0 /\ UNCHANGED pc
           /\ task' = [task EXCEPT ![p] = [@ EXCEPT !.k = task[p].k - 1]]
  <2>. DEFINE r == [task[p] EXCEPT !.k = task[p].k - 1]
  <2>0. task[p].k - 1 \in Nat
    BY <1>2, <1>7 DEF Task
  <2>1. r \in Task
    BY <1>2, <2>0 DEF Task
  <2>2. /\ r # NoTask /\ r.entries = task[p].entries /\ r.back = task[p].back
        /\ r.discard = task[p].discard /\ r.txn = task[p].txn /\ r.pending = task[p].pending
    BY <1>2, <2>1, MarkersAssumption DEF Task
  <2>3. pc' = [pc EXCEPT ![p] = "stage"]
    BY <1>1, <1>2, <1>7 DEF TypeOK
  <2>4. task' = [task EXCEPT ![p] = r]
    BY <1>7
  <2>. HIDE DEF r
  <2>. QED BY <1>4, <2>1, <2>2, <2>3, <2>4
<1>8. CASE Throw(p)
  BY <1>1, <1>3, <1>8, ThrowSafe
<1>. QED BY <1>5, <1>6, <1>7, <1>8 DEF Stage

LEMMA RecheckSafe ==
  ASSUME Safe, NEW p \in Procs, Recheck(p)
  PROVE  Ownership' /\ Backed' /\ Belief' /\ Stored'
<1>1. pc[p] = "recheck"
  BY DEF Recheck
<1>2. /\ Running(p) /\ task[p] \in Task /\ ControlOf(p) /\ BackedBy(p) /\ BeliefOf(p) /\ litter = {}
      /\ used \subseteq Txns /\ task[p].txn \in used /\ TypeOK
      /\ \A q \in Procs \ {p} : Running(q) => task[q].txn # task[p].txn
  BY <1>1, LocalSafe
<1>3. UNCHANGED <<file, doc, backups, live, litter, used, shelf>>
  BY DEF Recheck, disk
<1>4. CASE Matches(p) /\ Goto(p, "replace") /\ UNCHANGED task
  <2>1. task' = [task EXCEPT ![p] = task[p]] /\ pc' = [pc EXCEPT ![p] = "replace"] /\ "replace" \in PCs
    BY <1>2, <1>4 DEF TypeOK, Goto, PCs
  <2>2. task'[p] = task[p] /\ pc'[p] = "replace"
    BY <1>2, <2>1, Update
  <2>3. BackedBy(p)'
    BY <1>1, <1>2, <1>3, <2>2 DEF BackedBy, Running, Ents, Owns, Intact
  <2>4. BeliefOf(p)'
    BY <1>2, <1>3, <1>4, <2>2 DEF BeliefOf, Running, Ents, Matches, Unchecked, Expected, Current
  <2>5. ASSUME NEW f \in Files, Planned(p)', \A j \in task[p].pending : task[p].entries[j].target # f
        PROVE  Settled(task[p].txn, f)
    <3>1. Planned(p)
      BY <1>1, <2>2, <2>5 DEF Planned
    <3>. QED BY <1>2, <2>5, <3>1 DEF Settled, Ents
  <2>. QED BY <1>1, <1>2, <1>3, <2>1, <2>3, <2>4, <2>5, Quiet DEF Running
<1>5. CASE Throw(p)
  BY <1>1, <1>3, <1>5, ThrowSafe
<1>. QED BY <1>4, <1>5 DEF Recheck

LEMMA InterruptSafe ==
  ASSUME Safe, Closed, NEW p \in Procs, DirectoryGone(p) \/ Fault(p) \/ Crash(p)
  PROVE  Ownership' /\ Backed' /\ Belief' /\ Stored'
<1>1. pc[p] # "idle" /\ pc[p] # "remove"
  BY DEF DirectoryGone, Writing, Fault, Crash, Closed
<1>2. CASE DirectoryGone(p)
  BY <1>1, <1>2, ThrowSafe DEF DirectoryGone, disk
<1>3. CASE Fault(p)
  <2>1. UNCHANGED doc \/ (pc[p] # "copy" /\ \E s \in States : WriteTransaction(p, s))
    BY <1>3 DEF Fault, Writing, States
  <2>. QED BY <1>1, <1>3, <2>1, ThrowSafe DEF Fault
<1>4. CASE Crash(p)
  <2>1. Running(p) /\ litter = {} /\ used \subseteq Txns
    BY <1>1, LocalSafe
  <2>2. task' = [task EXCEPT ![p] = NoTask] /\ pc' = [pc EXCEPT ![p] = "idle"] /\ "idle" \in PCs
    BY <1>4 DEF Crash, Finish, PCs
  <2>3. UNCHANGED <<file, doc, backups, live, used, shelf>> /\ litter' = {}
    BY <1>4, <2>1 DEF Crash, Closed
  <2>4. BackedBy(p)' /\ BeliefOf(p)'
    BY <2>2, Update DEF BackedBy, BeliefOf, Running, Safe, Sane
  <2>. QED BY <1>1, <2>1, <2>2, <2>3, <2>4, Quiet
<1>. QED BY <1>2, <1>3, <1>4

LEMMA StartRollbackSafe ==
  ASSUME Safe, Closed, NEW p \in Procs, NEW t \in Txns, NEW discard \in BOOLEAN,
         StartRollback(p, t, discard)
  PROVE  Ownership' /\ Backed' /\ Belief' /\ Stored'
<1>1. /\ ~Running(p) /\ ControlOf(p) /\ doc[t] \in Doc /\ doc[t] # NoDoc
      /\ litter = {} /\ used \subseteq Txns /\ TypeOK
  BY DEF StartRollback, Newest, Safe, Sane, TypeOK, Control, ControlOf, Running, Ownership
<1>2. \A q \in Procs \ {p} : Running(q) => task[q].txn # t
  BY DEF StartRollback, Closed, Busy, Running
<1>3. Unowned(t) /\ t \in used
  BY <1>1, <1>2 DEF Unowned, Safe, Ownership
<1>4. /\ \A j \in DOMAIN doc[t].entries : Intact(t, doc[t].entries[j])
      /\ Owns(t, doc[t].entries)
  BY <1>1, <1>3 DEF Safe, Backed, Recoverable
<1>. DEFINE r == [op |-> "rollback", back |-> TRUE, discard |-> discard, txn |-> t,
                  integration |-> doc[t].integration, at |-> doc[t].at, k |-> 0, pending |-> {},
                  entries |-> doc[t].entries]
<1>5. doc[t].integration \in Integrations /\ doc[t].at \in Int /\ 0 \in Nat /\ {} \in SUBSET Nat
      /\ doc[t].entries \in Seq(Entry)
  BY <1>1 DEF Doc
<1>6. r \in Task
  BY <1>5 DEF Task
<1>7. /\ r # NoTask /\ r.op = "rollback" /\ r.pending = {} /\ r.entries = doc[t].entries
      /\ r.txn = t
  BY <1>6, MarkersAssumption
<1>8. /\ task' = [task EXCEPT ![p] = r] /\ pc' = [pc EXCEPT ![p] = "plan"] /\ "plan" \in PCs
  BY DEF StartRollback, Goto, PCs
<1>9. UNCHANGED <<file, doc, backups, live, litter, used, shelf>>
  BY DEF StartRollback, disk
<1>. HIDE DEF r
<1>10. task'[p] = r /\ pc'[p] = "plan"
  BY <1>1, <1>6, <1>8, Update
<1>11. BackedBy(p)'
  BY <1>4, <1>7, <1>9, <1>10 DEF BackedBy, Ents, Owns, Intact
<1>12. BeliefOf(p)' /\ ~Planned(p)'
  BY <1>7, <1>10 DEF BeliefOf, Planned
<1>. QED BY <1>1, <1>2, <1>3, <1>6, <1>7, <1>8, <1>9, <1>11, <1>12, Quiet

LEMMA StartApplySafe ==
  ASSUME Safe, NEW p \in Procs, StartApply(p)
  PROVE  Ownership' /\ Backed' /\ Belief' /\ Stored'
<1>1. PICK t \in Txns \ used, r \in Task :
           /\ task' = [task EXCEPT ![p] = r]
           /\ r.op = "apply" /\ r.back = FALSE /\ r.discard = FALSE /\ r.txn = t
           /\ r.k = 1 /\ r.pending = {}
           /\ r.entries \in Seq(Entry) /\ Len(r.entries) > 0 /\ Distinct(r.entries)
           /\ \A j \in 1..Len(r.entries) :
                /\ r.entries[j].orig = file[r.entries[j].target]
                /\ Alone(p, r.entries[j].target)
           /\ used' = used \cup {t} /\ made' = made \cup {t}
           /\ clock' \in Int
  BY StartApplyEffect DEF Safe
<1>2. /\ pc[p] = "idle" /\ pc' = [pc EXCEPT ![p] = "copy"] /\ "copy" \in PCs
      /\ UNCHANGED <<file, doc, backups, live, litter, shelf>>
  BY DEF StartApply, Goto, PCs
<1>3. /\ ~Running(p) /\ litter = {} /\ used \subseteq Txns /\ TypeOK
      /\ doc[t] = NoDoc /\ \A f \in Files : backups[t][f] = Absent
      /\ \A q \in Procs \ {p} : Running(q) => task[q].txn # t
  BY <1>2 DEF Safe, Sane, Control, ControlOf, Running, Ownership, TypeOK
<1>4. task'[p] = r /\ pc'[p] = "copy" /\ r # NoTask
  BY <1>1, <1>2, <1>3, Update, MarkersAssumption
<1>5. \A j \in 1..Len(r.entries) : r.entries[j].target \in Files
  <2>1. \A j \in 1..Len(r.entries) : r.entries[j] \in Entry
    BY <1>1
  <2>. QED BY <2>1 DEF Entry
<1>6. BackedBy(p)'
  BY <1>1, <1>2, <1>3, <1>4, <1>5 DEF BackedBy, Running, Ents, Owns
<1>7. BeliefOf(p)' /\ ~Planned(p)'
  BY <1>1, <1>4 DEF BeliefOf, Planned
<1>. QED BY <1>1, <1>2, <1>3, <1>4, <1>6, <1>7, Quiet

LEMMA PlanRollbackSafe ==
  ASSUME Safe, NEW p \in Procs, PlanRollback(p)
  PROVE  Ownership' /\ Backed' /\ Belief' /\ Stored'
<1>1. pc[p] = "plan"
  BY DEF PlanRollback
<1>2. /\ Running(p) /\ task[p] \in Task /\ ControlOf(p) /\ BackedBy(p) /\ litter = {}
      /\ used \subseteq Txns /\ task[p].txn \in used /\ TypeOK
      /\ Ents(p) \in Seq(Entry) /\ DOMAIN Ents(p) = 1..Len(Ents(p)) /\ Len(Ents(p)) \in Nat
      /\ \A j \in 1..Len(Ents(p)) : Ents(p)[j] \in Entry
      /\ \A q \in Procs \ {p} : Running(q) => task[q].txn # task[p].txn
  BY <1>1, LocalSafe
<1>3. UNCHANGED <<file, doc, backups, live, litter, used>>
  BY DEF PlanRollback
<1>4. shelf \subseteq shelf'
  BY <1>2, PlanRollbackEffect
<1>5. ASSUME NEW left \in SUBSET DOMAIN Ents(p),
             \A j \in DOMAIN Ents(p) : j \in left <=> ~Undone(Ents(p)[j]),
             \A j \in left : Changed(Ents(p)[j]) /\ file[Ents(p)[j].target] # Absent =>
               <<Ents(p)[j].target, file[Ents(p)[j].target]>> \in shelf',
             task' = [task EXCEPT ![p] = [@ EXCEPT !.pending = left, !.k = Len(Ents(p))]],
             Goto(p, IF task[p].op = "apply" THEN "stage" ELSE "mark")
      PROVE  Ownership' /\ Backed' /\ Belief' /\ Stored'
  <2>. DEFINE r == [task[p] EXCEPT !.pending = left, !.k = Len(Ents(p))]
              l == IF task[p].op = "apply" THEN "stage" ELSE "mark"
  <2>1. left \in SUBSET Nat /\ left \subseteq DOMAIN Ents(p)
    BY <1>2
  <2>2. \A j \in DOMAIN Ents(p) : j \notin left => Undone(Ents(p)[j])
    BY <1>5
  <2>3. ASSUME NEW j \in left
        PROVE  \/ file[Ents(p)[j].target] \in {Ents(p)[j].applied, Absent}
               \/ <<Ents(p)[j].target, file[Ents(p)[j].target]>> \in shelf'
    BY <1>5 DEF Undone, Changed
  <2>5. /\ task' = [task EXCEPT ![p] = r] /\ pc' = [pc EXCEPT ![p] = l] /\ l \in PCs
    BY <1>5 DEF Goto, PCs
  <2>6. r \in Task
    BY <1>2, <2>1 DEF Task
  <2>7. /\ r # NoTask /\ r.entries = task[p].entries /\ r.back = task[p].back /\ r.op = task[p].op
        /\ r.discard = task[p].discard /\ r.txn = task[p].txn /\ r.pending = left
    BY <1>2, <2>6, MarkersAssumption DEF Task
  <2>. HIDE DEF r
  <2>8. task'[p] = r /\ pc'[p] = l
    BY <1>2, <2>5, <2>6, Update
  <2>9. BackedBy(p)'
    BY <1>1, <1>2, <1>3, <2>7, <2>8, SMTT(30) DEF BackedBy, Running, Ents, Owns, Intact
  <2>10. BeliefOf(p)'
    BY <1>2, <1>3, <2>3, <2>7, <2>8 DEF BeliefOf, Running, Ents
  <2>11. ASSUME NEW f \in Files, \A j \in r.pending : r.entries[j].target # f
         PROVE  backups[r.txn][f] \in {Absent, file[f]}
    <3>1. SUFFICES ASSUME backups[r.txn][f] # Absent PROVE backups[r.txn][f] = file[f]
      OBVIOUS
    <3>2. PICK j \in DOMAIN Ents(p) : Ents(p)[j].target = f
      BY <1>2, <2>7, <3>1 DEF BackedBy, Owns
    <3>3. Undone(Ents(p)[j])
      BY <2>2, <2>7, <2>11, <3>2 DEF Ents
    <3>4. Intact(task[p].txn, Ents(p)[j])
      BY <1>1, <1>2 DEF BackedBy
    <3>. QED BY <2>7, <3>2, <3>3, <3>4 DEF Undone, Intact
  <2>. HIDE DEF l
  <2>. QED BY <1>1, <1>2, <1>3, <1>4, <2>5, <2>6, <2>7, <2>9, <2>10, <2>11, Quiet, ZenonT(60)
<1>6. CASE Throw(p)
  BY <1>1, <1>3, <1>4, <1>6, ThrowSafe
<1>. QED BY <1>2, <1>5, <1>6, PlanRollbackEffect

LEMMA RefuseSafe ==
  ASSUME Safe, NEW p \in Procs, NEW t \in Txns, RefuseOrder(p, t)
  PROVE  Ownership' /\ Backed' /\ Belief' /\ Stored'
<1>1. UNCHANGED <<file, made, doc, backups, litter, shelf, used, pc, task, live>>
  BY DEF RefuseOrder, disk, budget
<1>2. Ownership' /\ Backed'
  BY <1>1 DEF Safe, Ownership, Backed, BackedBy, Recoverable, Unowned, Running, Ents, Owns, Intact
<1>3. Belief'
  BY <1>1 DEF Safe, Belief, BeliefOf, Running, Ents, Matches, Unchecked, Expected, Current
<1>4. Stored'
  <2>1. \A t1 \in Txns, f \in Files : Settled(t1, f)' => Settled(t1, f)
    BY <1>1 DEF Settled, Running, Ents, Planned
  <2>. QED BY <1>1, <2>1 DEF Safe, Stored
<1>. QED BY <1>2, <1>3, <1>4

(* A target changes under a process that is not exposed to it.             *)
LEMMA FileChange ==
  ASSUME Safe, Closed, NEW q \in Procs, NEW f \in Files, NEW c \in Content, ~Exposed(q, f),
         file' = [file EXCEPT ![f] = c], task'[q] = task[q], pc'[q] = pc[q],
         UNCHANGED <<doc, backups, shelf>>
  PROVE  BackedBy(q)' /\ BeliefOf(q)'
<1>1. BackedBy(q) /\ BeliefOf(q) /\ ControlOf(q) /\ TypeOK
  BY DEF Safe, Sane, Control, Backed, Belief
<1>2. ~InCopy(q, f) /\ ~InReplace(q, f) /\ ~InDiscard(q, f)
  BY DEF Exposed, Closed
<1>3. \A g \in Files \ {f} : file'[g] = file[g]
  BY <1>1 DEF TypeOK
<1>4. CASE ~Running(q)
  BY <1>4 DEF BackedBy, BeliefOf, Running
<1>5. CASE Running(q)
  <2>1. /\ task[q] \in Task /\ Ents(q) \in Seq(Entry) /\ DOMAIN Ents(q) = 1..Len(Ents(q))
        /\ \A j \in 1..Len(Ents(q)) : Ents(q)[j] \in Entry
    BY <1>1, <1>5, Local DEF ControlOf, Running, Safe
  <2>2. \A j \in DOMAIN Ents(q) : Ents(q)[j].target \in Files
    BY <2>1 DEF Entry
  <2>3. BackedBy(q)'
    <3>1. ASSUME NEW j \in DOMAIN Ents(q), pc[q] = "copy", j >= task[q].k
          PROVE  file'[Ents(q)[j].target] = file[Ents(q)[j].target]
      BY <1>2, <1>3, <2>2, <3>1 DEF InCopy, Ents
    <3>. QED BY <1>1, <1>5, <3>1 DEF BackedBy, Running, Ents, Owns, Intact
  <2>4. ASSUME pc[q] = "replace" PROVE Matches(q)'
    <3>1. task[q].k \in DOMAIN Ents(q)
      BY <1>1, <1>5, <2>1, <2>4 DEF ControlOf, Planned
    <3>2. file'[Current(q).target] = file[Current(q).target]
      BY <1>2, <1>3, <2>2, <2>4, <3>1 DEF InReplace, Current, Ents
    <3>3. Matches(q)
      BY <1>1, <1>5, <2>4 DEF BeliefOf
    <3>. QED BY <3>2, <3>3 DEF Matches, Unchecked, Expected, Current
  <2>5. ASSUME task[q].discard, NEW j \in task[q].pending
        PROVE  file'[Ents(q)[j].target] = file[Ents(q)[j].target]
    <3>1. j \in DOMAIN Ents(q)
      BY <1>1, <1>5, <2>1 DEF ControlOf
    <3>. QED BY <1>2, <1>3, <1>5, <2>2, <2>5, <3>1 DEF InDiscard, Running, Ents
  <2>6. BeliefOf(q)'
    BY <1>1, <1>5, <2>4, <2>5 DEF BeliefOf, Running, Ents
  <2>. QED BY <2>3, <2>6
<1>. QED BY <1>4, <1>5

LEMMA EditSafe ==
  ASSUME Safe, Closed, NEW f \in Files, Edit(f)
  PROVE  Ownership' /\ Backed' /\ Belief' /\ Stored'
<1>1. PICK c \in UserContents \cup {Absent} :
        /\ file' = [file EXCEPT ![f] = c]
        /\ live' = [live EXCEPT ![f] = (@ \ {file[f]}) \cup ({c} \ {Absent})]
  BY DEF Edit
<1>2. /\ UNCHANGED <<doc, backups, litter, shelf, used, pc, task>>
      /\ \A q \in Procs : ~Exposed(q, f)
      /\ c \in Content /\ TypeOK
  BY DEF Edit, Content, Safe, Sane
<1>3. \A q \in Procs : BackedBy(q)' /\ BeliefOf(q)'
  BY <1>1, <1>2, FileChange
<1>4. Ownership' /\ \A t \in Txns : Recoverable(t)'
  BY <1>2 DEF Safe, Ownership, Backed, Recoverable, Unowned, Running, Owns, Intact
<1>5. \A t \in Txns, g \in Files : Settled(t, g)' => Settled(t, g)
  BY <1>2 DEF Settled, Running, Planned, Ents
<1>6. ASSUME NEW g \in Files, NEW x \in live'[g]
      PROVE  \/ file'[g] = x \/ <<g, x>> \in shelf'
             \/ \E t \in Txns : backups'[t][g] = x /\ ~Settled(t, g)'
  <2>1. CASE g = f /\ x = c
    BY <1>1, <1>2, <2>1 DEF TypeOK
  <2>2. CASE ~(g = f /\ x = c)
    <3>1. x \in live[g] /\ (g = f => x # file[f]) /\ (g # f => file'[g] = file[g])
      BY <1>1, <1>2, <1>6, <2>2 DEF TypeOK
    <3>. QED BY <1>2, <1>5, <3>1 DEF Safe, Stored
  <2>. QED BY <2>1, <2>2
<1>. QED BY <1>3, <1>4, <1>6 DEF Backed, Belief, Stored

LEMMA CopyBackupSafe ==
  ASSUME Safe, NEW p \in Procs, CopyBackup(p)
  PROVE  Ownership' /\ Backed' /\ Belief' /\ Stored'
<1>1. pc[p] = "copy"
  BY DEF CopyBackup
<1>2. /\ Running(p) /\ task[p] \in Task /\ ControlOf(p) /\ BackedBy(p) /\ litter = {}
      /\ used \subseteq Txns /\ task[p].txn \in used /\ task[p].txn \in Txns /\ TypeOK
      /\ DOMAIN Ents(p) = 1..Len(Ents(p)) /\ Len(Ents(p)) \in Nat
      /\ \A j \in 1..Len(Ents(p)) : Ents(p)[j] \in Entry
      /\ \A q \in Procs \ {p} : Running(q) => task[q].txn # task[p].txn
  BY <1>1, LocalSafe
<1>3. UNCHANGED <<file, doc, live, litter, used, shelf>>
  BY DEF CopyBackup
<1>4. /\ task[p].k \in DOMAIN Ents(p) /\ Distinct(Ents(p)) /\ task[p].back = FALSE
      /\ task[p].discard = FALSE /\ Ents(p)[task[p].k].target \in Files
  BY <1>1, <1>2 DEF ControlOf, Backward, Task, Entry
<1>5. CASE /\ backups' = IF Current(p).orig = Absent THEN backups
                ELSE [backups EXCEPT ![task[p].txn][Current(p).target] = file[Current(p).target]]
           /\ task' = [task EXCEPT ![p] = [@ EXCEPT !.k = task[p].k + 1]]
           /\ Goto(p, IF task[p].k = Len(task[p].entries) THEN "record" ELSE "copy")
  <2>. DEFINE r == [task[p] EXCEPT !.k = task[p].k + 1]
              l == IF task[p].k = Len(task[p].entries) THEN "record" ELSE "copy"
  <2>1. r \in Task /\ l \in PCs
    BY <1>2, <1>4 DEF Task, PCs
  <2>2. /\ r.entries = task[p].entries /\ r.back = FALSE /\ r.discard = FALSE /\ r # NoTask
        /\ r.k = task[p].k + 1 /\ r.txn = task[p].txn
    BY <1>2, <1>4, <2>1, MarkersAssumption DEF Task
  <2>3. task' = [task EXCEPT ![p] = r] /\ pc' = [pc EXCEPT ![p] = l]
    BY <1>5 DEF Goto
  <2>. HIDE DEF r
  <2>4. /\ task'[p] = r /\ pc'[p] = l
        /\ \A q \in Procs \ {p} : task'[q] = task[q] /\ pc'[q] = pc[q]
    BY <1>2, <2>1, <2>3, Update
  <2>5. \A j \in DOMAIN Ents(p) : j >= task[p].k =>
          /\ backups[task[p].txn][Ents(p)[j].target] = Absent
          /\ file[Ents(p)[j].target] = Ents(p)[j].orig
    BY <1>1, <1>2 DEF BackedBy
  <2>6. /\ backups[task[p].txn][Ents(p)[task[p].k].target] = Absent
        /\ file[Ents(p)[task[p].k].target] = Ents(p)[task[p].k].orig
    BY <1>2, <1>4, <2>5
  <2>7. /\ backups'[task[p].txn][Ents(p)[task[p].k].target] = Ents(p)[task[p].k].orig
        /\ \A t \in Txns, f \in Files : t # task[p].txn \/ f # Ents(p)[task[p].k].target =>
             backups'[t][f] = backups[t][f]
    <3>1. PICK e : e = Ents(p)[task[p].k]
      OBVIOUS
    <3>2. /\ Current(p) = e /\ e.target \in Files /\ file[e.target] = e.orig
          /\ backups[task[p].txn][e.target] = Absent
      BY <1>4, <2>6, <3>1 DEF Current, Ents
    <3>3. backups \in [Txns -> [Files -> Content]] /\ task[p].txn \in Txns
      BY <1>2 DEF TypeOK
    <3>4. backups' = IF e.orig = Absent THEN backups
                     ELSE [backups EXCEPT ![task[p].txn][e.target] = e.orig]
      BY <1>5, <3>2
    <3>5. /\ backups'[task[p].txn][e.target] = e.orig
          /\ \A t \in Txns, f \in Files : t # task[p].txn \/ f # e.target =>
               backups'[t][f] = backups[t][f]
      BY <3>2, <3>3, <3>4
    <3>. QED BY <3>1, <3>5
  <2>8. BackedBy(p)'
    <3>1. doc'[r.txn] = NoDoc
      BY <1>1, <1>2, <1>3, <2>2, SMTT(30) DEF BackedBy
    <3>2. ASSUME NEW f \in Files, backups'[r.txn][f] # Absent
          PROVE  \E j \in DOMAIN r.entries : r.entries[j].target = f
      BY <1>2, <1>4, <2>2, <2>7, <3>2, SMTT(30) DEF BackedBy, Owns, Ents
    <3>3. ASSUME NEW j \in DOMAIN r.entries
          PROVE  IF l = "copy" /\ j >= r.k
                 THEN backups'[r.txn][r.entries[j].target] = Absent
                      /\ file'[r.entries[j].target] = r.entries[j].orig
                 ELSE backups'[r.txn][r.entries[j].target] = r.entries[j].orig
      <4>1. j \in DOMAIN Ents(p) /\ j \in Nat /\ task[p].k \in Nat /\ Ents(p)[j].target \in Files
        BY <1>2, <1>4, <2>2 DEF Ents, Entry
      <4>2. j # task[p].k => backups'[task[p].txn][Ents(p)[j].target] = backups[task[p].txn][Ents(p)[j].target]
        BY <1>2, <1>4, <2>7, <4>1 DEF Distinct
      <4>3. CASE j > task[p].k
        <5>1. l = "copy" /\ j >= r.k
          BY <1>2, <2>2, <4>1, <4>3 DEF Ents
        <5>. QED BY <1>3, <2>2, <2>5, <4>1, <4>2, <4>3, <5>1, SMTT(30) DEF Ents
      <4>4. CASE j = task[p].k
        BY <2>2, <2>7, <4>1, <4>4, SMTT(30) DEF Ents
      <4>5. CASE j < task[p].k
        <5>1. ~(j >= task[p].k) /\ ~(j >= r.k)
          BY <2>2, <4>1, <4>5
        <5>. QED BY <1>1, <1>2, <2>2, <4>1, <4>2, <4>5, <5>1 DEF BackedBy, Intact, Ents
      <4>. QED BY <4>1, <4>3, <4>4, <4>5
    <3>. QED BY <2>4, <3>1, <3>2, <3>3 DEF BackedBy, Ents, Owns, Intact
  <2>9. BeliefOf(p)' /\ ~Planned(p)'
    BY <2>2, <2>4 DEF BeliefOf, Planned
  <2>10. ASSUME NEW q \in Procs \ {p} PROVE BackedBy(q)' /\ BeliefOf(q)'
    <3>1. CASE ~Running(q)
      BY <2>4, <3>1 DEF BackedBy, BeliefOf, Running
    <3>2. CASE Running(q)
      <4>1. task[q].txn # task[p].txn /\ BackedBy(q) /\ BeliefOf(q) /\ task[q] \in Task
        BY <1>2, <3>2 DEF Safe, Backed, Belief, TypeOK, Running
      <4>2. /\ Ents(q) \in Seq(Entry) /\ task[q].txn \in Txns
        BY <4>1 DEF Task, Ents
      <4>3. \A j \in DOMAIN Ents(q) : Ents(q)[j] \in Entry
        BY <4>2
      <4>4. \A f \in Files : backups'[task[q].txn][f] = backups[task[q].txn][f]
        BY <2>7, <4>1, <4>2
      <4>5. \A j \in DOMAIN Ents(q) :
              backups'[task[q].txn][Ents(q)[j].target] = backups[task[q].txn][Ents(q)[j].target]
        BY <4>3, <4>4 DEF Entry
      <4>6. BackedBy(q)'
        BY <1>3, <2>4, <3>2, <4>1, <4>4, <4>5 DEF BackedBy, Running, Ents, Owns, Intact
      <4>7. BeliefOf(q)'
        BY <1>3, <2>4, <4>1 DEF BeliefOf, Running, Ents, Matches, Unchecked, Expected, Current
      <4>. QED BY <4>6, <4>7
    <3>. QED BY <3>1, <3>2
  <2>11. Ownership'
    <3>1. \A t \in Txns \ used : t # task[p].txn
      BY <1>2
    <3>2. \A q \in Procs : Running(q)' => Running(q) /\ task'[q].txn = task[q].txn
      BY <1>2, <2>2, <2>4 DEF Running
    <3>. QED BY <1>3, <2>7, <3>1, <3>2 DEF Safe, Ownership
  <2>12. ASSUME NEW t \in Txns PROVE Recoverable(t)'
    <3>1. SUFFICES ASSUME doc'[t] # NoDoc, Unowned(t)'
                   PROVE  /\ \A j \in DOMAIN doc[t].entries : backups'[t][doc[t].entries[j].target] = doc[t].entries[j].orig
                          /\ \A f \in Files : backups'[t][f] # Absent => \E j \in DOMAIN doc[t].entries : doc[t].entries[j].target = f
      BY <1>3 DEF Recoverable, Intact, Owns
    <3>2. t # task[p].txn /\ Unowned(t)
      BY <1>2, <2>2, <2>4, <3>1 DEF Unowned, Running
    <3>3. \A f \in Files : backups'[t][f] = backups[t][f]
      BY <2>7, <3>2
    <3>4. doc[t].entries \in Seq(Entry)
      BY <1>2, <1>3, <3>1 DEF TypeOK, Doc
    <3>5. \A j \in DOMAIN doc[t].entries : doc[t].entries[j] \in Entry
      BY <3>4
    <3>6. \A j \in DOMAIN doc[t].entries : doc[t].entries[j].target \in Files
      BY <3>5 DEF Entry
    <3>. QED BY <1>3, <3>1, <3>2, <3>3, <3>6 DEF Safe, Backed, Recoverable, Intact, Owns
  <2>13. Stored'
    <3>1. \A t \in Txns, f \in Files : Settled(t, f)' => Settled(t, f)
      BY <2>4, <2>9 DEF Settled, Running, Planned, Ents
    <3>2. ASSUME NEW f \in Files, NEW c \in live[f], NEW t \in Txns, backups[t][f] = c
          PROVE  backups'[t][f] = c
      <4>1. c # Absent
        BY <1>2, ContentsAssumption DEF TypeOK
      <4>. QED BY <2>6, <2>7, <3>2, <4>1
    <3>. QED BY <1>3, <3>1, <3>2 DEF Safe, Stored
  <2>. QED BY <2>8, <2>9, <2>10, <2>11, <2>12, <2>13 DEF Backed, Belief
<1>6. CASE Throw(p) /\ UNCHANGED backups
  BY <1>1, <1>3, <1>6, ThrowSafe
<1>. QED BY <1>5, <1>6 DEF CopyBackup, Copied

LEMMA ReplaceSafe ==
  ASSUME Safe, Closed, NEW p \in Procs, Replace(p)
  PROVE  Ownership' /\ Backed' /\ Belief' /\ Stored'
<1>1. pc[p] = "replace"
  BY DEF Replace
<1>2. /\ Running(p) /\ task[p] \in Task /\ ControlOf(p) /\ BackedBy(p) /\ BeliefOf(p) /\ litter = {}
      /\ used \subseteq Txns /\ task[p].txn \in used /\ task[p].txn \in Txns /\ TypeOK
      /\ DOMAIN Ents(p) = 1..Len(Ents(p)) /\ Len(Ents(p)) \in Nat
      /\ \A j \in 1..Len(Ents(p)) : Ents(p)[j] \in Entry
      /\ \A q \in Procs \ {p} : Running(q) => task[q].txn # task[p].txn
  BY <1>1, LocalSafe
<1>3. UNCHANGED <<doc, backups, live, litter, used, shelf>>
  BY DEF Replace
<1>4. task[p].k \in DOMAIN Ents(p) /\ Distinct(Ents(p)) /\ Matches(p)
  BY <1>1, <1>2 DEF ControlOf, BeliefOf, Planned
<1>5. /\ Current(p) \in Entry /\ Current(p) = Ents(p)[task[p].k] /\ Current(p).target \in Files
      /\ Current(p).orig \in Content /\ Current(p).applied \in Content
  BY <1>2, <1>4 DEF Current, Ents, Entry, Content
<1>6. backups[task[p].txn][Current(p).target] = Current(p).orig
  BY <1>1, <1>2, <1>4, <1>5 DEF BackedBy, Intact
<1>7. \A q \in Procs \ {p} : ~Exposed(q, Current(p).target)
  BY DEF Replace, Alone
(* What both directions have in common.                                    *)
<1>8. ASSUME NEW r \in Task, NEW l \in PCs, NEW c \in Content,
             task' = [task EXCEPT ![p] = r], pc' = [pc EXCEPT ![p] = l],
             file' = [file EXCEPT ![Current(p).target] = c],
             r.txn = task[p].txn, r # NoTask, BackedBy(p)', BeliefOf(p)'
      PROVE  /\ Ownership' /\ Backed' /\ Belief'
             /\ task'[p] = r /\ pc'[p] = l
             /\ \A q \in Procs \ {p} : task'[q] = task[q] /\ pc'[q] = pc[q]
  <2>1. /\ task'[p] = r /\ pc'[p] = l
        /\ \A q \in Procs \ {p} : task'[q] = task[q] /\ pc'[q] = pc[q]
    BY <1>2, <1>8, Update
  <2>2. \A q \in Procs \ {p} : BackedBy(q)' /\ BeliefOf(q)'
    BY <1>3, <1>5, <1>7, <1>8, <2>1, FileChange
  <2>3. Ownership'
    BY <1>2, <1>3, <1>8, <2>1 DEF Safe, Ownership, Running
  <2>4. \A t \in Txns : Recoverable(t)'
    BY <1>2, <1>3, <1>8, <2>1 DEF Safe, Backed, Recoverable, Unowned, Running, Owns, Intact
  <2>. QED BY <1>8, <2>1, <2>2, <2>3, <2>4 DEF Backed, Belief
<1>9. CASE /\ ~task[p].back
           /\ file' = [file EXCEPT ![Current(p).target] = Current(p).applied]
           /\ task' = [task EXCEPT ![p] = [@ EXCEPT !.k = task[p].k + 1]]
           /\ Goto(p, IF task[p].k = Len(task[p].entries) THEN "commit" ELSE "stage")
  <2>. DEFINE r == [task[p] EXCEPT !.k = task[p].k + 1]
              l == IF task[p].k = Len(task[p].entries) THEN "commit" ELSE "stage"
  <2>1. r \in Task /\ l \in PCs /\ l \in {"commit", "stage"}
    BY <1>2, <1>4 DEF Task, PCs
  <2>2. /\ r.entries = task[p].entries /\ r.back = FALSE /\ r.discard = FALSE /\ r # NoTask
        /\ r.txn = task[p].txn /\ task[p].discard = FALSE /\ task[p].back = FALSE
    BY <1>2, <1>9, <2>1, MarkersAssumption DEF Task, ControlOf
  <2>3. task' = [task EXCEPT ![p] = r] /\ pc' = [pc EXCEPT ![p] = l]
    BY <1>9 DEF Goto
  <2>. HIDE DEF r, l
  <2>4. task'[p] = r /\ pc'[p] = l
    BY <1>2, <2>1, <2>3, Update
  <2>5. BackedBy(p)'
    BY <1>1, <1>2, <1>3, <2>1, <2>2, <2>4 DEF BackedBy, Running, Ents, Owns, Intact
  <2>6. BeliefOf(p)' /\ ~Planned(p)'
    BY <2>1, <2>2, <2>4 DEF BeliefOf, Planned
  <2>7. /\ Ownership' /\ Backed' /\ Belief'
        /\ \A q \in Procs \ {p} : task'[q] = task[q] /\ pc'[q] = pc[q]
    BY <1>5, <1>8, <1>9, <2>1, <2>2, <2>3, <2>5, <2>6
  <2>8. file[Current(p).target] = Current(p).orig
    BY <1>4, <2>2 DEF Matches, Unchecked, Expected
  <2>9. \A t \in Txns, f \in Files : Settled(t, f)' => Settled(t, f) /\ t # task[p].txn
    BY <1>2, <2>6, <2>7 DEF Settled, Running, Planned, Ents
  <2>10. ASSUME NEW f \in Files, NEW x \in live[f]
         PROVE  \/ file'[f] = x \/ <<f, x>> \in shelf
                \/ \E t \in Txns : backups[t][f] = x /\ ~Settled(t, f)'
    <3>1. CASE file[f] = x /\ f = Current(p).target
      BY <1>2, <1>6, <2>8, <2>9, <3>1
    <3>2. CASE file[f] = x /\ f # Current(p).target
      BY <1>2, <1>9, <3>2 DEF TypeOK
    <3>. QED BY <2>9, <3>1, <3>2 DEF Safe, Stored
  <2>. QED BY <1>3, <2>7, <2>10 DEF Stored
<1>10. CASE /\ task[p].back
            /\ file' = [file EXCEPT ![Current(p).target] = Current(p).orig]
            /\ task' = [task EXCEPT ![p] =
                 [@ EXCEPT !.k = task[p].k - 1, !.pending = task[p].pending \ {task[p].k}]]
            /\ Goto(p, "stage")
  <2>. DEFINE r == [task[p] EXCEPT !.k = task[p].k - 1, !.pending = task[p].pending \ {task[p].k}]
  <2>0. task[p].k - 1 \in Nat /\ task[p].pending \ {task[p].k} \in SUBSET Nat
    BY <1>2, <1>4 DEF Task
  <2>1. r \in Task /\ "stage" \in PCs
    BY <1>2, <2>0 DEF Task, PCs
  <2>2. /\ r.entries = task[p].entries /\ r.back = task[p].back /\ r.discard = task[p].discard
        /\ r # NoTask /\ r.txn = task[p].txn /\ r.pending = task[p].pending \ {task[p].k}
    BY <1>2, <2>1, MarkersAssumption DEF Task
  <2>3. task' = [task EXCEPT ![p] = r] /\ pc' = [pc EXCEPT ![p] = "stage"]
    BY <1>10 DEF Goto
  <2>. HIDE DEF r
  <2>4. task'[p] = r /\ pc'[p] = "stage"
    BY <1>2, <2>1, <2>3, Update
  <2>5. BackedBy(p)'
    BY <1>1, <1>2, <1>3, <2>2, <2>4 DEF BackedBy, Running, Ents, Owns, Intact
  <2>6. task[p].pending \subseteq DOMAIN Ents(p) /\ task[p].k \in task[p].pending /\ Planned(p)
    BY <1>1, <1>2, <1>10 DEF ControlOf, Planned
  <2>7. BeliefOf(p)'
    <3>1. ASSUME NEW j \in r.pending
          PROVE  file'[Ents(p)[j].target] = file[Ents(p)[j].target]
      <4>1. j \in DOMAIN Ents(p) /\ j # task[p].k /\ Ents(p)[j].target \in Files
        BY <1>2, <2>2, <2>6 DEF Entry
      <4>2. Ents(p)[j].target # Current(p).target
        BY <1>4, <1>5, <4>1 DEF Distinct
      <4>. QED BY <1>2, <1>10, <4>1, <4>2 DEF TypeOK
    <3>2. task[p].discard => \A j \in r.pending :
            \/ file'[Ents(p)[j].target] \in {Ents(p)[j].applied, Absent}
            \/ <<Ents(p)[j].target, file'[Ents(p)[j].target]>> \in shelf'
      BY <1>2, <1>3, <2>2, <3>1 DEF BeliefOf
    <3>. QED BY <2>2, <2>4, <3>2 DEF BeliefOf, Ents
  <2>8. /\ Ownership' /\ Backed' /\ Belief'
        /\ \A q \in Procs \ {p} : task'[q] = task[q] /\ pc'[q] = pc[q]
    BY <1>5, <1>8, <1>10, <2>1, <2>2, <2>3, <2>5, <2>7
  <2>9. ASSUME NEW t \in Txns, NEW f \in Files, Settled(t, f)', ~Settled(t, f)
        PROVE  t = task[p].txn /\ f = Current(p).target
    <3>1. PICK q \in Procs : /\ Running(q)' /\ task'[q].txn = t /\ Planned(q)'
                             /\ \A j \in task'[q].pending : Ents(q)'[j].target # f
      BY <2>9 DEF Settled
    <3>2. q = p
      BY <2>8, <2>9, <3>1 DEF Settled, Running, Planned, Ents
    <3>3. t = task[p].txn /\ \A j \in task[p].pending \ {task[p].k} : Ents(p)[j].target # f
      BY <2>2, <2>4, <3>1, <3>2 DEF Ents
    <3>. QED BY <1>2, <1>5, <2>6, <2>9, <3>3 DEF Settled
  <2>10. ASSUME NEW f \in Files, NEW x \in live[f]
         PROVE  \/ file'[f] = x \/ <<f, x>> \in shelf
                \/ \E t \in Txns : backups[t][f] = x /\ ~Settled(t, f)'
    <3>1. x \in UserContents /\ x # Absent /\ x \notin ToolContents
      BY <1>2, ContentsAssumption DEF TypeOK
    <3>2. CASE file[f] = x /\ f = Current(p).target
      <4>1. file[f] # Current(p).applied
        BY <1>5, <3>1, <3>2 DEF Entry
      <4>2. task[p].discard
        BY <1>4, <1>10, <3>2, <4>1 DEF Matches, Unchecked, Expected
      <4>. QED BY <1>2, <1>5, <2>6, <3>1, <3>2, <4>1, <4>2 DEF BeliefOf
    <3>3. CASE file[f] = x /\ f # Current(p).target
      BY <1>2, <1>10, <3>3 DEF TypeOK
    <3>4. CASE \E t \in Txns : backups[t][f] = x /\ ~Settled(t, f)
      <4>1. PICK t \in Txns : backups[t][f] = x /\ ~Settled(t, f)
        BY <3>4
      <4>2. CASE Settled(t, f)'
        <5>1. file'[f] = Current(p).orig /\ x = Current(p).orig
          BY <1>2, <1>5, <1>6, <1>10, <2>9, <4>1, <4>2 DEF TypeOK
        <5>. QED BY <5>1
      <4>. QED BY <4>1, <4>2
    <3>. QED BY <3>2, <3>3, <3>4 DEF Safe, Stored
  <2>. QED BY <1>3, <2>8, <2>10 DEF Stored
<1>11. CASE Throw(p) /\ UNCHANGED file
  BY <1>1, <1>3, <1>11, ThrowSafe
<1>. QED BY <1>9, <1>10, <1>11 DEF Replace

LEMMA RemoveSafe ==
  ASSUME Safe, NEW p \in Procs, Remove(p)
  PROVE  Ownership' /\ Backed' /\ Belief' /\ Stored'
<1>1. pc[p] = "remove"
  BY DEF Remove
<1>2. /\ Running(p) /\ task[p] \in Task /\ ControlOf(p) /\ BackedBy(p) /\ litter = {}
      /\ used \subseteq Txns /\ task[p].txn \in used /\ task[p].txn \in Txns /\ TypeOK
      /\ \A q \in Procs \ {p} : Running(q) => task[q].txn # task[p].txn
  BY <1>1, LocalSafe
<1>3. UNCHANGED <<file, live, litter, used, shelf>>
  BY DEF Remove
<1>4. Planned(p) /\ task[p].pending = {}
  BY <1>1, <1>2 DEF ControlOf, Backward, Forward, Planned
<1>5. \A f \in Files : Settled(task[p].txn, f)
  BY <1>2, <1>4 DEF Settled
(* Unlinking the record or a backup only concerns this transaction.        *)
<1>6. ASSUME UNCHANGED <<pc, task>>,
             \A t \in Txns : t # task[p].txn => doc'[t] = doc[t] /\ backups'[t] = backups[t],
             doc'[task[p].txn] \in {doc[task[p].txn], NoDoc},
             \A f \in Files : backups'[task[p].txn][f] \in {backups[task[p].txn][f], Absent}
      PROVE  Ownership' /\ Backed' /\ Belief' /\ Stored'
  <2>1. Ownership'
    BY <1>2, <1>3, <1>6 DEF Safe, Ownership, Running
  <2>2. BackedBy(p)'
    BY <1>1, <1>2, <1>6 DEF BackedBy, Running, Ents, Owns
  <2>3. ASSUME NEW q \in Procs \ {p} PROVE BackedBy(q)'
    <3>1. Running(q) => task[q].txn \in Txns /\ task[q].txn # task[p].txn
      BY <1>2 DEF TypeOK, Running, Task
    <3>. QED BY <1>3, <1>6, <3>1 DEF Safe, Backed, BackedBy, Running, Ents, Owns, Intact
  <2>4. ASSUME NEW t \in Txns PROVE Recoverable(t)'
    <3>1. Unowned(t)' => t # task[p].txn /\ Unowned(t)
      BY <1>2, <1>6 DEF Unowned, Running
    <3>. QED BY <1>6, <3>1 DEF Safe, Backed, Recoverable, Owns, Intact
  <2>5. Belief'
    BY <1>3, <1>6 DEF Safe, Belief, BeliefOf, Running, Ents, Matches, Unchecked, Expected, Current
  <2>6. \A t \in Txns, f \in Files : Settled(t, f)' => Settled(t, f)
    BY <1>6 DEF Settled, Running, Planned, Ents
  <2>7. Stored'
    <3>1. ASSUME NEW t \in Txns, NEW f \in Files, ~Settled(t, f)
          PROVE  backups'[t][f] = backups[t][f]
      BY <1>5, <1>6, <3>1
    <3>. QED BY <1>3, <2>6, <3>1, ZenonT(60) DEF Safe, Stored
  <2>. QED BY <2>1, <2>2, <2>3, <2>4, <2>5, <2>7 DEF Backed
<1>7. CASE doc' = [doc EXCEPT ![task[p].txn] = NoDoc] /\ UNCHANGED <<backups, pc, task>>
  BY <1>2, <1>6, <1>7 DEF TypeOK
<1>8. CASE /\ \E f \in Files : backups' = [backups EXCEPT ![task[p].txn][f] = Absent]
           /\ UNCHANGED <<doc, pc, task>>
  BY <1>2, <1>6, <1>8 DEF TypeOK
<1>9. CASE /\ doc[task[p].txn] = NoDoc /\ UNCHANGED <<doc, backups>>
           /\ \E res \in Results : Finish(p, res)
  <2>1. task' = [task EXCEPT ![p] = NoTask] /\ pc' = [pc EXCEPT ![p] = "idle"] /\ "idle" \in PCs
    BY <1>9 DEF Finish, PCs
  <2>2. BackedBy(p)' /\ BeliefOf(p)'
    BY <1>2, <2>1, Update DEF BackedBy, BeliefOf, Running
  <2>. QED BY <1>2, <1>3, <1>9, <2>1, <2>2, Quiet
<1>. QED BY <1>2, <1>7, <1>8, <1>9 DEF Remove, Results

-----------------------------------------------------------------------------

LEMMA NextSafe ==
  ASSUME Closed, Safe, [Next]_vars
  PROVE  Safe'
<1>1. Sane'
  BY NextSane DEF Safe
<1>2. ASSUME NEW p \in Procs, Step(p) \/ StartApply(p) \/ Fault(p) \/ Crash(p)
      PROVE  Ownership' /\ Backed' /\ Belief' /\ Stored'
  BY <1>2, CopyBackupSafe, RecordSafe, StageSafe, RecheckSafe, ReplaceSafe, CommitSafe,
     PlanRollbackSafe, MarkSafe, RemoveSafe, InterruptSafe, StartApplySafe DEF Step
<1>3. ASSUME UNCHANGED vars PROVE Ownership' /\ Backed' /\ Belief' /\ Stored'
  <2>1. Ownership' /\ Backed'
    BY <1>3 DEF vars, Safe, Ownership, Backed, BackedBy, Recoverable, Unowned, Running, Ents, Owns, Intact
  <2>2. Belief'
    BY <1>3 DEF vars, Safe, Belief, BeliefOf, Running, Ents, Matches, Unchecked, Expected, Current
  <2>3. \A t \in Txns, f \in Files : Settled(t, f)' => Settled(t, f)
    BY <1>3 DEF vars, Settled, Running, Ents, Planned
  <2>4. Stored'
    BY <1>3, <2>3 DEF vars, Safe, Stored
  <2>. QED BY <2>1, <2>2, <2>4
<1>4. Ownership' /\ Backed' /\ Belief' /\ Stored'
  BY <1>2, <1>3, StartRollbackSafe, RefuseSafe, EditSafe DEF Next
<1>. QED BY <1>1, <1>4 DEF Safe

LEMMA SafeKeeps == Safe => UserContentKept
BY DEF Safe, Stored, UserContentKept, Kept

LEMMA SafeExits == Safe => NoDeadEnd
BY DEF Safe, Ownership, Backed, Recoverable, Unowned, Running, Intact, NoDeadEnd, BadBackup

(* As long as nobody acts inside the windows, the strengthening IInv holds *)
(* in every reachable state of any instance.                               *)
THEOREM Invariant == ASSUME Closed PROVE Spec => []IInv
<1>1. Safe /\ [Next]_vars => Safe'
  BY NextSafe
<1>2. Safe => IInv
  BY DEF Safe, Sane, IInv
<1>. QED BY <1>1, <1>2, InitSafe, PTL DEF Spec

(* Whatever the user wrote stays on disk, in a backup or aside: no switch, *)
(* failed apply, restore, discarding restore, crash or failing system call *)
(* of any number of processes destroys the only copy.                      *)
THEOREM ContentKept == ASSUME Closed PROVE Spec => []UserContentKept
<1>1. Safe /\ [Next]_vars => Safe'
  BY NextSafe
<1>. QED BY <1>1, InitSafe, SafeKeeps, PTL DEF Spec

(* Every recorded transaction nobody works on keeps the backups and the    *)
(* directory that a rollback needs.                                        *)
THEOREM AlwaysRecoverable == ASSUME Closed PROVE Spec => []NoDeadEnd
<1>1. Safe /\ [Next]_vars => Safe'
  BY NextSafe
<1>. QED BY <1>1, InitSafe, SafeExits, PTL DEF Spec

-----------------------------------------------------------------------------
(***************************************************************************)
(* The chain of transactions of ConfigExecutor, with one process at a time *)
(* and a clock that goes forward: what each transaction found is what the  *)
(* one before it left, so whatever the tool wrote is accounted for, and    *)
(* the newest transaction describes the disk.  The windows may be open.    *)
(***************************************************************************)

(* One command at a time, each agent with files of its own, and a clock    *)
(* that tells any two applies apart.                                       *)
Serial ==
  /\ \A p, q \in Procs : p = q
  /\ \A i, k \in Integrations : i # k => Targets[i] \cap Targets[k] = {}
  /\ \A d \in ClockSteps : d > 0

Recorded(t) == doc[t] # NoDoc
Edited(c) == edits > 0 /\ c \notin ToolContents
(* f holds c, unless the user changed it.                                  *)
Holds(f, c) == file[f] = c \/ Edited(file[f])

Touches(t, f) == \E j \in DOMAIN doc[t].entries : doc[t].entries[j].target = f
Wrote(t, f, c) ==
  \E j \in DOMAIN doc[t].entries : doc[t].entries[j].target = f /\ doc[t].entries[j].applied = c
Before(u, i, at) == Recorded(u) /\ doc[u].integration = i /\ doc[u].at < at

(* What a transaction of integration i, made at `at`, found in its targets *)
(* was written by an earlier one, if a plan wrote it at all.               *)
Based(i, at, es) ==
  \A j \in DOMAIN es : es[j].orig \in ToolContents =>
    \E u \in Txns : Before(u, i, at) /\ Wrote(u, es[j].target, es[j].orig)
Within(i, es) == \A j \in DOMAIN es : es[j].target \in Targets[i]

Records ==
  \A t \in Txns : Recorded(t) =>
    /\ t \in used /\ t \in made /\ doc[t].at <= clock
    /\ Within(doc[t].integration, doc[t].entries)
    /\ Based(doc[t].integration, doc[t].at, doc[t].entries)
Ordered ==
  \A t, u \in Txns : Recorded(t) /\ Recorded(u) /\ doc[t].integration = doc[u].integration
                       /\ doc[t].at = doc[u].at => t = u

(* The call of a process at l with the locals r: its transaction is the    *)
(* newest of its integration, and what it has undone holds the original.   *)
PlannedAt(r, l) == r.back /\ (l \in {"stage", "recheck", "replace", "remove"}
                              \/ (r.op = "rollback" /\ l = "mark"))
Anchored(r) ==
  /\ r.txn \in used /\ r.at <= clock
  /\ Within(r.integration, r.entries) /\ Based(r.integration, r.at, r.entries)
  /\ Recorded(r.txn) => /\ doc[r.txn].entries = r.entries
                        /\ doc[r.txn].integration = r.integration
                        /\ doc[r.txn].at = r.at
  /\ \A u \in Txns \ {r.txn} : Recorded(u) /\ doc[u].integration = r.integration => doc[u].at < r.at
Placed(r, l) ==
  /\ l \in {"copy", "record"} => ~Recorded(r.txn)
  /\ ~r.back /\ l \in {"stage", "recheck", "replace", "commit"} => Recorded(r.txn)
  /\ r.op = "rollback" /\ l # "remove" => Recorded(r.txn)
  /\ PlannedAt(r, l) => \A j \in DOMAIN r.entries \ r.pending :
                          Holds(r.entries[j].target, r.entries[j].orig)
Tracks == \A p \in Procs : Running(p) => Anchored(task[p]) /\ Placed(task[p], pc[p])

Chained == Sane /\ Records /\ Ordered /\ Tracks /\ WritesAreCovered

-----------------------------------------------------------------------------
(* No transaction recorded between u and `at` touches f.                   *)
LastBefore(u, f, at) ==
  \A v \in Txns : Before(v, doc[u].integration, at) /\ doc[u].at < doc[v].at => ~Touches(v, f)
Last(u, f) ==
  \A v \in Txns : Recorded(v) /\ doc[v].integration = doc[u].integration
                    /\ doc[u].at < doc[v].at => ~Touches(v, f)

(* A transaction found what the last applied one before it left.           *)
Succeeds(i, at, es) ==
  \A u \in Txns : Before(u, i, at) /\ doc[u].state = "applied" =>
    \A j \in DOMAIN doc[u].entries, k \in DOMAIN es :
      /\ doc[u].entries[j].target = es[k].target
      /\ LastBefore(u, es[k].target, at)
      => es[k].orig = doc[u].entries[j].applied \/ Edited(es[k].orig)
Successions ==
  \A t \in Txns : Recorded(t) => Succeeds(doc[t].integration, doc[t].at, doc[t].entries)

(* A target holds what the last transaction that touched it applied.       *)
Standing ==
  \A u \in Txns : Recorded(u) /\ doc[u].state = "applied" =>
    \A j \in DOMAIN doc[u].entries :
      Last(u, doc[u].entries[j].target) => Holds(doc[u].entries[j].target, doc[u].entries[j].applied)

Level(r, l) ==
  /\ Recorded(r.txn) /\ ~r.back => doc[r.txn].state = "applying"
  /\ ~Recorded(r.txn) /\ r.op = "apply" /\ l # "remove" =>
       /\ r.pending = {}
       /\ \A j \in DOMAIN r.entries : Holds(r.entries[j].target, r.entries[j].orig)
  /\ ~r.back /\ l \in {"stage", "recheck", "replace", "commit"} =>
       \A j \in DOMAIN r.entries : j < r.k \/ l = "commit" =>
         Holds(r.entries[j].target, r.entries[j].applied)
  /\ Recorded(r.txn) /\ doc[r.txn].state = "applied" =>
       /\ l \notin {"stage", "recheck", "replace", "remove"}
       /\ r.op = "apply" => l = "mark" /\ faults > 0
Steady ==
  \A p \in Procs : Running(p) =>
    /\ Succeeds(task[p].integration, task[p].at, task[p].entries)
    /\ Level(task[p], pc[p])

Described == Chained /\ Successions /\ Standing /\ Steady
-----------------------------------------------------------------------------
(* What a step does to the locals of its process *)

SameCall(r2, r) ==
  /\ r2.op = r.op /\ r2.discard = r.discard /\ r2.txn = r.txn
  /\ r2.integration = r.integration /\ r2.at = r.at /\ r2.entries = r.entries

LEMMA Here ==
  ASSUME Sane, NEW p \in Procs, pc[p] # "idle", NEW r, r = task[p]
  PROVE  /\ r \in Task /\ r # NoTask /\ Running(p) /\ ControlOf(p)
         /\ r.entries \in Seq(Entry) /\ Distinct(r.entries) /\ DOMAIN r.entries = 1..Len(r.entries)
         /\ Len(r.entries) \in Nat /\ r.txn \in Txns /\ r.at \in Int /\ r.integration \in Integrations
         /\ r.op \in {"apply", "rollback"} /\ r.back \in BOOLEAN /\ r.k \in Nat
         /\ r.pending \subseteq 1..Len(r.entries)
         /\ \A j \in 1..Len(r.entries) :
              /\ r.entries[j] \in Entry /\ r.entries[j].target \in Files
              /\ r.entries[j].applied \in ToolContents
<1>1. /\ Running(p) /\ r \in Task /\ r.entries \in Seq(Entry)
      /\ DOMAIN r.entries = 1..Len(r.entries) /\ Len(r.entries) \in Nat
      /\ \A j \in 1..Len(r.entries) : r.entries[j] \in Entry
  BY Local DEF Ents
<1>2. ControlOf(p)
  BY DEF Sane, Control
<1>3. Distinct(r.entries) /\ r.pending \subseteq 1..Len(r.entries)
  BY <1>1, <1>2 DEF ControlOf, Ents
<1>4. \A j \in 1..Len(r.entries) : r.entries[j].target \in Files /\ r.entries[j].applied \in ToolContents
  BY <1>1 DEF Entry
<1>. QED BY <1>1, <1>2, <1>3, <1>4, MarkersAssumption DEF Task, Running

LEMMA DocFacts ==
  ASSUME Sane, NEW t \in Txns, Recorded(t)
  PROVE  /\ doc[t] \in Doc /\ doc[t].at \in Int /\ doc[t].integration \in Integrations
         /\ doc[t].entries \in Seq(Entry) /\ DOMAIN doc[t].entries = 1..Len(doc[t].entries)
         /\ \A j \in DOMAIN doc[t].entries :
              /\ doc[t].entries[j].target \in Files /\ doc[t].entries[j].applied \in ToolContents
         /\ Distinct(doc[t].entries)
<1>1. doc[t] \in Doc
  BY DEF Sane, TypeOK, Recorded
<1>2. \A j \in DOMAIN doc[t].entries : doc[t].entries[j] \in Entry
  BY <1>1 DEF Doc
<1>. QED BY <1>1, <1>2 DEF Doc, Entry, Sane, Control, Recorded

LEMMA Stepping ==
  ASSUME Sane, NEW p \in Procs, NEW r2 \in Task \cup {NoTask}, NEW l2 \in PCs,
         task' = [task EXCEPT ![p] = r2], pc' = [pc EXCEPT ![p] = l2]
  PROVE  task'[p] = r2 /\ pc'[p] = l2
BY Update DEF Sane

LEMMA CopyEffect ==
  ASSUME Sane, NEW p \in Procs, CopyBackup(p), NEW r, r = task[p]
  PROVE  /\ pc[p] = "copy" /\ ~r.back /\ r.op = "apply"
         /\ UNCHANGED <<file, made, doc, clock, used, edits, faults>>
         /\ \/ Throw(p)
            \/ \E r2 \in Task, l2 \in {"copy", "record"} :
                 /\ task'[p] = r2 /\ pc'[p] = l2
                 /\ SameCall(r2, r) /\ r2.back = r.back /\ r2.pending = r.pending
<1>1. pc[p] = "copy" /\ UNCHANGED <<file, made, doc, clock, used, edits, faults>>
  BY DEF CopyBackup, budget
<1>2. r \in Task /\ ControlOf(p) /\ r.back \in BOOLEAN /\ r.op \in {"apply", "rollback"}
      /\ Running(p) /\ r.k \in Nat
  BY <1>1, Here
<1>3. ~r.back /\ r.op = "apply"
  BY <1>1, <1>2 DEF ControlOf, Backward
<1>4. ASSUME ~Throw(p)
      PROVE  \E r2 \in Task, l2 \in {"copy", "record"} :
                 /\ task'[p] = r2 /\ pc'[p] = l2
                 /\ SameCall(r2, r) /\ r2.back = r.back /\ r2.pending = r.pending
  <2>. DEFINE r2 == [r EXCEPT !.k = r.k + 1]
              l2 == IF r.k = Len(r.entries) THEN "record" ELSE "copy"
  <2>1. task' = [task EXCEPT ![p] = r2] /\ pc' = [pc EXCEPT ![p] = l2]
    BY <1>4 DEF CopyBackup, Goto
  <2>2. r2 \in Task /\ l2 \in PCs
    BY <1>2 DEF Task, PCs
  <2>3. SameCall(r2, r) /\ r2.back = r.back /\ r2.pending = r.pending
    BY <1>2 DEF SameCall, Task
  <2>. HIDE DEF r2
  <2>4. task'[p] = r2 /\ pc'[p] = l2
    BY <2>1, <2>2, Stepping
  <2>. QED BY <2>2, <2>3, <2>4
<1>. QED BY <1>1, <1>3, <1>4

LEMMA RecordEffect ==
  ASSUME Sane, NEW p \in Procs, Record(p), NEW r, r = task[p]
  PROVE  /\ pc[p] = "record" /\ ~r.back /\ r.op = "apply"
         /\ WriteTransaction(p, "applying")
         /\ UNCHANGED <<file, made, clock, used, edits, faults>>
         /\ \E r2 \in Task :
              /\ task'[p] = r2 /\ pc'[p] = "stage"
              /\ SameCall(r2, r) /\ r2.back = r.back /\ r2.pending = r.pending /\ r2.k = 1
<1>1. /\ pc[p] = "record" /\ WriteTransaction(p, "applying")
      /\ UNCHANGED <<file, made, clock, used, edits, faults>>
  BY DEF Record, budget
<1>2. r \in Task /\ ControlOf(p) /\ r.back \in BOOLEAN /\ r.op \in {"apply", "rollback"}
      /\ Running(p) /\ r.k \in Nat
  BY <1>1, Here
<1>3. ~r.back /\ r.op = "apply"
  BY <1>1, <1>2 DEF ControlOf, Backward
<1>. DEFINE r2 == [r EXCEPT !.k = 1]
<1>4. task' = [task EXCEPT ![p] = r2] /\ pc' = [pc EXCEPT ![p] = "stage"] /\ "stage" \in PCs
  BY DEF Record, Goto, PCs
<1>5. r2 \in Task
  BY <1>2 DEF Task
<1>6. SameCall(r2, r) /\ r2.back = r.back /\ r2.pending = r.pending /\ r2.k = 1
  BY <1>2 DEF SameCall, Task
<1>. HIDE DEF r2
<1>7. task'[p] = r2 /\ pc'[p] = "stage"
  BY <1>4, <1>5, Stepping
<1>. QED BY <1>1, <1>3, <1>5, <1>6, <1>7

LEMMA StageEffect ==
  ASSUME Sane, NEW p \in Procs, Stage(p), NEW r, r = task[p]
  PROVE  /\ pc[p] = "stage"
         /\ UNCHANGED <<file, made, doc, clock, used, edits, faults>>
         /\ \/ Throw(p)
            \/ \E r2 \in Task, l2 \in {"stage", "recheck", "remove"} :
                 /\ task'[p] = r2 /\ pc'[p] = l2
                 /\ SameCall(r2, r) /\ r2.back = r.back /\ r2.pending = r.pending
                 /\ ~r.back => l2 = "recheck" /\ r2.k = r.k
<1>1. pc[p] = "stage" /\ UNCHANGED <<file, made, doc, clock, used, edits, faults>>
  BY DEF Stage, disk, budget
<1>2. r \in Task /\ ControlOf(p) /\ r.back \in BOOLEAN /\ Running(p) /\ r.k \in Nat
  BY <1>1, Here
<1>3. TypeOK
  BY DEF Sane
<1>4. CASE r.back /\ r.k > 0 /\ task' = [task EXCEPT ![p] = [r EXCEPT !.k = r.k - 1]] /\ pc' = pc
  <2>. DEFINE r2 == [r EXCEPT !.k = r.k - 1]
  <2>1. r2 \in Task
    BY <1>2, <1>4 DEF Task
  <2>2. SameCall(r2, r) /\ r2.back = r.back /\ r2.pending = r.pending
    BY <1>2 DEF SameCall, Task
  <2>. HIDE DEF r2
  <2>3. task'[p] = r2 /\ pc'[p] = "stage"
    BY <1>1, <1>3, <1>4 DEF TypeOK, r2
  <2>. QED BY <1>1, <1>4, <2>1, <2>2, <2>3
<1>5. ASSUME NEW l2 \in {"recheck", "remove"}, ~r.back => l2 = "recheck", UNCHANGED task,
             pc' = [pc EXCEPT ![p] = l2]
      PROVE  \E r2 \in Task, l \in {"stage", "recheck", "remove"} :
                 /\ task'[p] = r2 /\ pc'[p] = l
                 /\ SameCall(r2, r) /\ r2.back = r.back /\ r2.pending = r.pending
                 /\ ~r.back => l = "recheck" /\ r2.k = r.k
  <2>1. task'[p] = r /\ pc'[p] = l2 /\ SameCall(r, r)
    BY <1>3, <1>5 DEF TypeOK, SameCall
  <2>. QED BY <1>2, <1>5, <2>1
<1>6. \/ Throw(p)
      \/ r.back /\ r.k > 0 /\ task' = [task EXCEPT ![p] = [r EXCEPT !.k = r.k - 1]] /\ pc' = pc
      \/ UNCHANGED task /\ \E l2 \in {"recheck", "remove"} :
             (~r.back => l2 = "recheck") /\ pc' = [pc EXCEPT ![p] = l2]
  BY DEF Stage, Goto
<1>. QED BY <1>1, <1>4, <1>5, <1>6

LEMMA RecheckEffect ==
  ASSUME Sane, NEW p \in Procs, Recheck(p), NEW r, r = task[p]
  PROVE  /\ pc[p] = "recheck"
         /\ UNCHANGED <<file, made, doc, clock, used, edits, faults>>
         /\ \/ Throw(p)
            \/ task'[p] = r /\ pc'[p] = "replace"
BY SMTT(30) DEF Recheck, Goto, disk, budget, Sane, TypeOK

(* A target is replaced, forwards or backwards.                            *)
Advances(p, r) ==
  /\ ~r.back
  /\ file' = [file EXCEPT ![r.entries[r.k].target] = r.entries[r.k].applied]
  /\ \E r2 \in Task, l2 \in {"stage", "commit"} :
       /\ task'[p] = r2 /\ pc'[p] = l2
       /\ SameCall(r2, r) /\ r2.back = r.back /\ r2.pending = r.pending
       /\ r2.k = r.k + 1 /\ (l2 = "commit" => r.k = Len(r.entries))
Restores(p, r) ==
  /\ r.back
  /\ file' = [file EXCEPT ![r.entries[r.k].target] = r.entries[r.k].orig]
  /\ \E r2 \in Task :
       /\ task'[p] = r2 /\ pc'[p] = "stage"
       /\ SameCall(r2, r) /\ r2.back = r.back /\ r2.pending = r.pending \ {r.k}

LEMMA ReplaceEffect ==
  ASSUME Sane, NEW p \in Procs, Replace(p), NEW r, r = task[p]
  PROVE  /\ pc[p] = "replace" /\ r.k \in 1..Len(r.entries) /\ (r.back => r.k \in r.pending)
         /\ UNCHANGED <<made, doc, clock, used, edits, faults>>
         /\ Advances(p, r) \/ Restores(p, r) \/ (Throw(p) /\ UNCHANGED file)
<1>1. pc[p] = "replace" /\ UNCHANGED <<made, doc, clock, used, edits, faults>>
  BY DEF Replace, budget
<1>2. /\ r \in Task /\ ControlOf(p) /\ r.back \in BOOLEAN /\ Running(p) /\ r.k \in Nat
      /\ r.pending \subseteq 1..Len(r.entries) /\ Len(r.entries) \in Nat
  BY <1>1, Here
<1>3. r.k \in 1..Len(r.entries) /\ (r.back => r.k \in r.pending)
  BY <1>1, <1>2 DEF ControlOf, Ents
<1>4. CASE /\ ~r.back
           /\ file' = [file EXCEPT ![r.entries[r.k].target] = r.entries[r.k].applied]
           /\ task' = [task EXCEPT ![p] = [r EXCEPT !.k = r.k + 1]]
           /\ pc' = [pc EXCEPT ![p] = IF r.k = Len(r.entries) THEN "commit" ELSE "stage"]
  <2>. DEFINE r2 == [r EXCEPT !.k = r.k + 1]
              l2 == IF r.k = Len(r.entries) THEN "commit" ELSE "stage"
  <2>1. r2 \in Task /\ l2 \in PCs
    BY <1>2 DEF Task, PCs
  <2>2. SameCall(r2, r) /\ r2.back = r.back /\ r2.pending = r.pending /\ r2.k = r.k + 1
    BY <1>2 DEF SameCall, Task
  <2>3. task' = [task EXCEPT ![p] = r2] /\ pc' = [pc EXCEPT ![p] = l2]
    BY <1>4
  <2>. HIDE DEF r2
  <2>4. task'[p] = r2 /\ pc'[p] = l2
    BY <2>1, <2>3, Stepping
  <2>. QED BY <1>1, <1>3, <1>4, <2>1, <2>2, <2>4 DEF Advances
<1>5. CASE /\ r.back
           /\ file' = [file EXCEPT ![r.entries[r.k].target] = r.entries[r.k].orig]
           /\ task' = [task EXCEPT ![p] = [r EXCEPT !.k = r.k - 1, !.pending = r.pending \ {r.k}]]
           /\ pc' = [pc EXCEPT ![p] = "stage"]
  <2>. DEFINE r2 == [r EXCEPT !.k = r.k - 1, !.pending = r.pending \ {r.k}]
  <2>0. r.k - 1 \in Nat /\ r.pending \ {r.k} \in SUBSET Nat
    BY <1>2, <1>3
  <2>1. r2 \in Task /\ "stage" \in PCs
    BY <1>2, <2>0 DEF Task, PCs
  <2>2. SameCall(r2, r) /\ r2.back = r.back /\ r2.pending = r.pending \ {r.k}
    BY <1>2 DEF SameCall, Task
  <2>. HIDE DEF r2
  <2>3. task' = [task EXCEPT ![p] = r2]
    BY <1>5 DEF r2
  <2>4. task'[p] = r2 /\ pc'[p] = "stage"
    BY <1>5, <2>1, <2>3, Stepping, ZenonT(60)
  <2>. QED BY <1>1, <1>3, <1>5, <2>1, <2>2, <2>4 DEF Restores
<1>. QED BY <1>1, <1>3, <1>4, <1>5 DEF Replace, Goto, Current

LEMMA PlanEffect ==
  ASSUME Sane, NEW p \in Procs, PlanRollback(p), NEW r, r = task[p]
  PROVE  /\ pc[p] = "plan" /\ r.back
         /\ UNCHANGED <<file, made, doc, clock, used, edits, faults>>
         /\ \/ Throw(p)
            \/ \E r2 \in Task :
                 /\ task'[p] = r2 /\ pc'[p] = IF r.op = "apply" THEN "stage" ELSE "mark"
                 /\ SameCall(r2, r) /\ r2.back = r.back
                 /\ r2.pending = {j \in DOMAIN r.entries : file[r.entries[j].target] # r.entries[j].orig}
                 /\ ~r.discard => \A j \in r2.pending : file[r.entries[j].target] = r.entries[j].applied
<1>1. pc[p] = "plan" /\ UNCHANGED <<file, made, doc, clock, used, edits, faults>>
  BY DEF PlanRollback, budget
<1>2. /\ r \in Task /\ ControlOf(p) /\ r.back \in BOOLEAN /\ Running(p) /\ r.k \in Nat
      /\ Len(r.entries) \in Nat /\ DOMAIN r.entries = 1..Len(r.entries)
  BY <1>1, Here
<1>3. r.back
  BY <1>1, <1>2 DEF ControlOf, Forward
<1>. DEFINE pending == {j \in DOMAIN r.entries : file[r.entries[j].target] # r.entries[j].orig}
            l2 == IF r.op = "apply" THEN "stage" ELSE "mark"
            r2 == [r EXCEPT !.pending = pending, !.k = Len(r.entries)]
<1>4. \/ Throw(p)
      \/ /\ task' = [task EXCEPT ![p] = r2] /\ pc' = [pc EXCEPT ![p] = l2]
         /\ ~r.discard => \A j \in pending : file[r.entries[j].target] = r.entries[j].applied
  BY DEF PlanRollback, Undone, Changed, Goto
<1>5. pending \in SUBSET Nat
  BY <1>2
<1>. HIDE DEF pending
<1>6. r2 \in Task /\ l2 \in PCs
  BY <1>2, <1>5 DEF Task, PCs
<1>7. SameCall(r2, r) /\ r2.back = r.back /\ r2.pending = pending
  BY <1>2 DEF SameCall, Task
<1>. HIDE DEF r2, l2
<1>8. ~Throw(p) => task'[p] = r2 /\ pc'[p] = l2
  BY <1>4, <1>6, Stepping
<1>. QED BY <1>1, <1>3, <1>4, <1>6, <1>7, <1>8 DEF pending, l2

LEMMA RemoveEffect ==
  ASSUME Sane, NEW p \in Procs, Remove(p), NEW r, r = task[p]
  PROVE  /\ pc[p] = "remove" /\ r.back /\ r.pending = {}
         /\ UNCHANGED <<file, clock, used, edits, faults>>
         /\ \/ Throw(p) /\ UNCHANGED <<made, doc>>
            \/ /\ doc' = [doc EXCEPT ![r.txn] = NoDoc] \/ doc' = doc
               /\ UNCHANGED <<made, task, pc>>
            \/ /\ doc' = doc /\ ~Recorded(r.txn)
               /\ made' = made \ {r.txn} /\ task'[p] = NoTask /\ pc'[p] = "idle"
<1>1. pc[p] = "remove" /\ UNCHANGED <<file, clock, used, edits, faults>>
  BY DEF Remove, budget
<1>2. ControlOf(p) /\ Running(p)
  BY <1>1, Here
<1>3. r.back /\ r.pending = {}
  BY <1>1, <1>2 DEF ControlOf, Forward
<1>. QED BY <1>1, <1>3 DEF Remove, Finish, Recorded, Sane, TypeOK

-----------------------------------------------------------------------------
(* The chain while nothing is written to disk, or only the record of the   *)
(* running call                                                            *)

(* The parts that do not depend on where the process is, after a step that *)
(* at most writes the record of the call r.                                *)
LEMMA Written ==
  ASSUME Chained, NEW p \in Procs, pc[p] # "idle", NEW r, r = task[p],
         doc' = doc \/ \E s \in States : WriteTransaction(p, s),
         UNCHANGED <<file, made, clock, used, edits>>
  PROVE  /\ Records' /\ Ordered' /\ WritesAreCovered' /\ Anchored(r)'
         /\ (doc' # doc => Recorded(r.txn)')
         /\ (Recorded(r.txn) => Recorded(r.txn)')
<1>1. /\ r \in Task /\ r.txn \in Txns /\ r.at \in Int /\ Running(p) /\ Sane
      /\ Anchored(r) /\ Records /\ Ordered /\ WritesAreCovered
  BY Here DEF Chained, Tracks
<1>2. CASE doc' = doc
  <2>1. Records' /\ Ordered'
    BY <1>1, <1>2 DEF Records, Recorded, Within, Based, Before, Wrote, Ordered
  <2>2. WritesAreCovered'
    BY <1>1, <1>2 DEF WritesAreCovered
  <2>3. Anchored(r)'
    BY <1>1, <1>2 DEF Anchored, Recorded, Within, Based, Before, Wrote
  <2>. QED BY <1>2, <2>1, <2>2, <2>3 DEF Recorded
<1>3. CASE \E s \in States : WriteTransaction(p, s)
  <2>. PICK s \in States : WriteTransaction(p, s)
    BY <1>3
  <2>. DEFINE d == DocOf(p, s)
  <2>1. /\ d \in Doc /\ d.entries = r.entries /\ d.integration = r.integration /\ d.at = r.at
        /\ d.state = s /\ doc' = [doc EXCEPT ![r.txn] = d] /\ r.txn \in made
    BY <1>1 DEF DocOf, Doc, Task, WriteTransaction
  <2>. HIDE DEF d
  <2>2. d # NoDoc
    BY <2>1, MarkersAssumption
  <2>3. /\ doc'[r.txn] = d /\ \A t \in Txns \ {r.txn} : doc'[t] = doc[t]
    BY <1>1, <2>1 DEF Sane, TypeOK
  <2>4. ASSUME NEW u \in Txns, Recorded(u)
        PROVE  /\ Recorded(u)' /\ doc'[u].entries = doc[u].entries
               /\ doc'[u].integration = doc[u].integration /\ doc'[u].at = doc[u].at
    BY <1>1, <2>1, <2>2, <2>3, <2>4 DEF Anchored, Recorded
  <2>5. \A u \in Txns : Recorded(u)' => u = r.txn \/ Recorded(u)
    BY <2>3 DEF Recorded
  <2>6. ASSUME NEW i, NEW at, NEW es, Based(i, at, es) PROVE Based(i, at, es)'
    BY <2>4, <2>6 DEF Based, Before, Wrote
  <2>7. Anchored(r)'
    <3>1. Within(r.integration, r.entries)' /\ Based(r.integration, r.at, r.entries)'
      BY <1>1, <2>6 DEF Anchored, Within
    <3>. QED BY <1>1, <2>1, <2>3, <3>1 DEF Anchored, Recorded
  <2>8. ASSUME NEW t \in Txns, Recorded(t)'
        PROVE  /\ t \in used' /\ t \in made' /\ doc'[t].at <= clock'
               /\ Within(doc[t].integration, doc[t].entries)'
               /\ Based(doc[t].integration, doc[t].at, doc[t].entries)'
    <3>. PICK e : e = doc'[t]
      OBVIOUS
    <3>1. CASE t = r.txn
      <4>1. /\ e.integration = r.integration /\ e.at = r.at /\ e.entries = r.entries
        BY <2>1, <2>3, <3>1
      <4>2. Within(e.integration, e.entries)' /\ Based(e.integration, e.at, e.entries)'
        BY <2>7, <4>1 DEF Anchored
      <4>3. Within(doc[t].integration, doc[t].entries)' /\ Based(doc[t].integration, doc[t].at, doc[t].entries)'
        BY <4>2 DEF Within, Based
      <4>. QED BY <1>1, <2>1, <3>1, <4>1, <4>3 DEF Anchored
    <3>2. CASE t # r.txn
      <4>1. e = doc[t] /\ Recorded(t)
        BY <2>3, <2>5, <2>8, <3>2
      <4>2. t \in used /\ t \in made /\ e.at <= clock /\ Within(e.integration, e.entries) /\ Based(e.integration, e.at, e.entries)
        BY <1>1, <4>1 DEF Records
      <4>3. Within(e.integration, e.entries)' /\ Based(e.integration, e.at, e.entries)'
        BY <2>6, <4>2 DEF Within
      <4>4. Within(doc[t].integration, doc[t].entries)' /\ Based(doc[t].integration, doc[t].at, doc[t].entries)'
        BY <4>3 DEF Within, Based
      <4>. QED BY <4>1, <4>2, <4>4
    <3>. QED BY <3>1, <3>2
  <2>9. Records'
    BY <2>8 DEF Records
  <2>10. Ordered'
    <3>1. \A u \in Txns \ {r.txn} : Recorded(u) /\ doc[u].integration = r.integration => doc[u].at < r.at /\ doc[u].at \in Int
      BY <1>1, DocFacts DEF Anchored
    <3>2. \A u \in Txns \ {r.txn} : Recorded(u) /\ doc[u].integration = r.integration => doc[u].at # r.at
      BY <1>1, <3>1
    <3>. QED BY <1>1, <2>1, <2>3, <2>5, <3>2 DEF Ordered
  <2>11. WritesAreCovered'
    BY <1>1, <2>4 DEF WritesAreCovered, Recorded
  <2>. QED BY <2>2, <2>3, <2>7, <2>9, <2>10, <2>11 DEF Recorded
<1>. QED BY <1>2, <1>3

(* So only the place of the process has to be shown.                       *)
LEMMA Onward ==
  ASSUME Chained, Serial, NEW p \in Procs, pc[p] # "idle", NEW r, r = task[p], Sane',
         doc' = doc \/ \E s \in States : WriteTransaction(p, s),
         UNCHANGED <<file, made, clock, used, edits>>,
         task'[p] = NoTask \/ \E r2 \in Task, l2 \in PCs :
           /\ task'[p] = r2 /\ pc'[p] = l2 /\ SameCall(r2, r)
           /\ l2 \in {"copy", "record"} => ~Recorded(r.txn)'
           /\ ~r2.back /\ l2 \in {"stage", "recheck", "replace", "commit"} => Recorded(r.txn)'
           /\ r.op = "rollback" /\ l2 # "remove" => Recorded(r.txn)'
           /\ PlannedAt(r2, l2) => \A j \in DOMAIN r.entries \ r2.pending :
                Holds(r.entries[j].target, r.entries[j].orig)
  PROVE  Chained'
<1>1. Records' /\ Ordered' /\ WritesAreCovered' /\ Anchored(r)'
  BY Written
<1>2. ASSUME task'[p] # NoTask PROVE Anchored(task[p])' /\ Placed(task[p], pc[p])'
  <2>. PICK r2 \in Task, l2 \in PCs :
           /\ task'[p] = r2 /\ pc'[p] = l2 /\ SameCall(r2, r)
           /\ l2 \in {"copy", "record"} => ~Recorded(r.txn)'
           /\ ~r2.back /\ l2 \in {"stage", "recheck", "replace", "commit"} => Recorded(r.txn)'
           /\ r.op = "rollback" /\ l2 # "remove" => Recorded(r.txn)'
           /\ PlannedAt(r2, l2) => \A j \in DOMAIN r.entries \ r2.pending :
                Holds(r.entries[j].target, r.entries[j].orig)
    BY <1>2
  <2>1. Anchored(r2)'
    BY <1>1, SMTT(30) DEF SameCall, Anchored
  <2>2. Placed(r2, l2)'
    BY SMTT(30) DEF SameCall, Placed, Recorded, Holds, Edited, PlannedAt
  <2>. QED BY <2>1, <2>2 DEF Anchored, Placed, PlannedAt
<1>3. Tracks'
  BY <1>2 DEF Serial, Tracks, Running
<1>. QED BY <1>1, <1>3 DEF Chained

LEMMA ThrowChained ==
  ASSUME Chained, Serial, NEW p \in Procs, pc[p] # "idle", Throw(p), Sane',
         doc' = doc \/ (pc[p] # "copy" /\ \E s \in States : WriteTransaction(p, s)),
         UNCHANGED <<file, made, clock, used, edits>>
  PROVE  Chained'
<1>. PICK r : r = task[p]
  OBVIOUS
<1>1. /\ r \in Task /\ ControlOf(p) /\ Running(p) /\ Sane /\ r.entries \in Seq(Entry) /\ Len(r.entries) \in Nat
      /\ DOMAIN r.entries = 1..Len(r.entries) /\ r.op \in {"apply", "rollback"} /\ r.back \in BOOLEAN
      /\ Anchored(r) /\ Placed(r, pc[p]) /\ r.k \in Nat
  BY Here DEF Chained, Tracks
<1>2. PICK r2 \in Task \cup {NoTask}, l2 \in PCs :
           /\ task' = [task EXCEPT ![p] = r2]
           /\ pc' = [pc EXCEPT ![p] = l2]
           /\ result' \in [Procs -> Results]
           /\ \/ r2 = NoTask /\ l2 = "idle" /\ task[p].back
              \/ /\ pc[p] = "copy" /\ ~task[p].back
                 /\ r2 = [task[p] EXCEPT !.back = TRUE,
                           !.entries = SubSeq(task[p].entries, 1, task[p].k - 1)]
                 /\ l2 = IF task[p].k = 1 THEN "remove" ELSE "plan"
              \/ /\ pc[p] # "copy" /\ ~task[p].back
                 /\ r2 = [task[p] EXCEPT !.back = TRUE] /\ l2 = "mark"
              \/ /\ pc[p] = "mark" /\ task[p].back /\ task[p].op = "apply"
                 /\ r2 = task[p] /\ l2 = "plan"
  BY <1>1, ThrowEffect
<1>3. task'[p] = r2 /\ pc'[p] = l2
  BY <1>1, <1>2, Stepping
<1>4. CASE r2 = NoTask
  BY <1>1, <1>3, <1>4, Onward
<1>5. CASE pc[p] # "copy" /\ ~r.back /\ r2 = [r EXCEPT !.back = TRUE] /\ l2 = "mark"
  <2>1. SameCall(r2, r) /\ r2.back /\ r.op = "apply" /\ r2 \in Task
    BY <1>1, <1>2, <1>5 DEF SameCall, Task, ControlOf
  <2>2. ~PlannedAt(r2, l2)
    BY <1>5, <2>1 DEF PlannedAt, SameCall
  <2>. QED BY <1>1, <1>3, <1>5, <2>1, <2>2, Onward
<1>6. CASE pc[p] = "mark" /\ r.back /\ r.op = "apply" /\ r2 = r /\ l2 = "plan"
  <2>1. SameCall(r2, r) /\ ~PlannedAt(r2, l2)
    BY <1>1, <1>6 DEF PlannedAt, SameCall
  <2>. QED BY <1>1, <1>3, <1>6, <2>1, Onward
<1>7. CASE /\ pc[p] = "copy" /\ ~r.back
           /\ r2 = [r EXCEPT !.back = TRUE, !.entries = SubSeq(r.entries, 1, r.k - 1)]
           /\ l2 = IF r.k = 1 THEN "remove" ELSE "plan"
  <2>. DEFINE es == SubSeq(r.entries, 1, r.k - 1)
  <2>1. r.k \in 1..Len(r.entries) /\ Distinct(r.entries) /\ r.op = "apply"
    BY <1>1, <1>7 DEF ControlOf, Ents
  <2>2. /\ es \in Seq(Entry) /\ Len(es) = r.k - 1
        /\ \A j \in 1..(r.k - 1) : es[j] = r.entries[j]
    BY <1>1, <2>1, Truncated
  <2>3. DOMAIN es = 1..(r.k - 1) /\ DOMAIN es \subseteq DOMAIN r.entries
    BY <1>1, <2>1, <2>2
  <2>. HIDE DEF es
  <2>4. /\ r2.back /\ r2.entries = es /\ r2.op = "apply" /\ r2.txn = r.txn /\ r2.at = r.at
        /\ r2.integration = r.integration
    BY <1>1, <1>7, <2>1 DEF Task, es
  <2>5. ~Recorded(r.txn) /\ doc' = doc
    BY <1>1, <1>7 DEF Placed
  <2>6. Within(r2.integration, r2.entries) /\ Based(r2.integration, r2.at, r2.entries)
    BY <1>1, <2>2, <2>3, <2>4 DEF Anchored, Within, Based
  <2>7. Anchored(r2)'
    BY <1>1, <2>4, <2>5, <2>6 DEF Anchored, Recorded, Within, Based, Before, Wrote
  <2>8. Placed(r2, l2)'
    <3>1. l2 = "plan" \/ (l2 = "remove" /\ DOMAIN es = {})
      BY <1>7, <2>3
    <3>. QED BY <2>4, <3>1 DEF Placed, PlannedAt
  <2>9. Records' /\ Ordered' /\ WritesAreCovered'
    BY <1>1, <2>5, Written
  <2>10. Tracks'
    BY <1>3, <2>7, <2>8 DEF Serial, Tracks, Anchored, Placed, PlannedAt
  <2>. QED BY <2>9, <2>10 DEF Chained
<1>. QED BY <1>2, <1>4, <1>5, <1>6, <1>7

(* Every metadata write is one of the states of a record.                  *)
LEMMA Writings ==
  ASSUME NEW p \in Procs
  PROVE  /\ DOMAIN Writing = {"record", "commit", "mark"}
         /\ Writing["record"] = "applying" /\ Writing["commit"] = "applied"
         /\ Writing["mark"] = "rolling-back"
BY DEF Writing

LEMMA CallChained ==
  ASSUME Chained, Serial, NEW p \in Procs, Sane',
         CopyBackup(p) \/ Record(p) \/ Stage(p) \/ Recheck(p) \/ Commit(p) \/ PlanRollback(p) \/ Mark(p)
  PROVE  Chained'
<1>. PICK r : r = task[p]
  OBVIOUS
<1>1. pc[p] # "idle"
  BY DEF CopyBackup, Record, Stage, Recheck, Commit, PlanRollback, Mark
<1>2. /\ r \in Task /\ ControlOf(p) /\ Running(p) /\ Sane /\ TypeOK
      /\ DOMAIN r.entries = 1..Len(r.entries) /\ r.op \in {"apply", "rollback"} /\ r.back \in BOOLEAN
      /\ Placed(r, pc[p]) /\ SameCall(r, r)
  BY <1>1, Here DEF Chained, Tracks, SameCall, Sane
<1>3. CASE CopyBackup(p)
  <2>1. CASE Throw(p)
    BY <1>1, <1>2, <1>3, <2>1, CopyEffect, ThrowChained
  <2>2. CASE ~Throw(p)
    <3>1. PICK r2 \in Task, l2 \in {"copy", "record"} :
                 /\ task'[p] = r2 /\ pc'[p] = l2
                 /\ SameCall(r2, r) /\ r2.back = r.back /\ r2.pending = r.pending
      BY <1>2, <1>3, <2>2, CopyEffect
    <3>2. /\ pc[p] = "copy" /\ ~r.back /\ r.op = "apply"
          /\ UNCHANGED <<file, made, doc, clock, used, edits>>
      BY <1>2, <1>3, CopyEffect
    <3>3. ~Recorded(r.txn)' /\ ~PlannedAt(r2, l2) /\ l2 \in PCs
      BY <1>2, <3>1, <3>2 DEF Placed, Recorded, PlannedAt, PCs
    <3>. QED BY <1>1, <3>1, <3>2, <3>3, Onward
  <2>. QED BY <2>1, <2>2
<1>4. CASE Record(p)
  <2>1. PICK r2 \in Task :
              /\ task'[p] = r2 /\ pc'[p] = "stage"
              /\ SameCall(r2, r) /\ r2.back = r.back /\ r2.pending = r.pending /\ r2.k = 1
    BY <1>2, <1>4, RecordEffect
  <2>2. /\ pc[p] = "record" /\ ~r.back /\ r.op = "apply" /\ WriteTransaction(p, "applying")
        /\ UNCHANGED <<file, made, clock, used, edits>> /\ "applying" \in States
    BY <1>2, <1>4, RecordEffect DEF States
  <2>3. doc' # doc
    <3>1. ~Recorded(r.txn) /\ r.txn \in Txns /\ doc' = [doc EXCEPT ![r.txn] = DocOf(p, "applying")]
      BY <1>2, <2>2 DEF Placed, WriteTransaction, Task
    <3>2. DocOf(p, "applying") \in Doc
      BY <1>2, <2>2 DEF DocOf, Doc, Task
    <3>. QED BY <1>2, <3>1, <3>2, MarkersAssumption DEF Recorded, TypeOK
  <2>4. Recorded(r.txn)' /\ ~PlannedAt(r2, "stage") /\ "stage" \in PCs
    BY <1>1, <2>1, <2>2, <2>3, Written DEF PlannedAt, PCs
  <2>. QED BY <1>1, <2>1, <2>2, <2>4, Onward
<1>5. CASE Stage(p)
  <2>1. CASE Throw(p)
    BY <1>1, <1>2, <1>5, <2>1, StageEffect, ThrowChained
  <2>2. CASE ~Throw(p)
    <3>1. PICK r2 \in Task, l2 \in {"stage", "recheck", "remove"} :
                 /\ task'[p] = r2 /\ pc'[p] = l2
                 /\ SameCall(r2, r) /\ r2.back = r.back /\ r2.pending = r.pending
                 /\ ~r.back => l2 = "recheck" /\ r2.k = r.k
      BY <1>2, <1>5, <2>2, StageEffect
    <3>2. pc[p] = "stage" /\ UNCHANGED <<file, made, doc, clock, used, edits>>
      BY <1>2, <1>5, StageEffect
    <3>3. /\ l2 \in PCs
          /\ ~r2.back /\ l2 \in {"stage", "recheck", "replace", "commit"} => Recorded(r.txn)'
          /\ r.op = "rollback" /\ l2 # "remove" => Recorded(r.txn)'
          /\ PlannedAt(r2, l2) => \A j \in DOMAIN r.entries \ r2.pending :
                Holds(r.entries[j].target, r.entries[j].orig)
      BY <1>2, <3>1, <3>2 DEF Placed, Recorded, PlannedAt, PCs
    <3>. QED BY <1>1, <3>1, <3>2, <3>3, Onward
  <2>. QED BY <2>1, <2>2
<1>6. CASE Recheck(p)
  <2>1. CASE Throw(p)
    BY <1>1, <1>2, <1>6, <2>1, RecheckEffect, ThrowChained
  <2>2. CASE ~Throw(p)
    <3>1. /\ pc[p] = "recheck" /\ UNCHANGED <<file, made, doc, clock, used, edits>>
          /\ task'[p] = r /\ pc'[p] = "replace" /\ "replace" \in PCs
      BY <1>2, <1>6, <2>2, RecheckEffect DEF PCs
    <3>2. /\ ~r.back => Recorded(r.txn)'
          /\ r.op = "rollback" => Recorded(r.txn)'
          /\ PlannedAt(r, "replace") => \A j \in DOMAIN r.entries \ r.pending :
                Holds(r.entries[j].target, r.entries[j].orig)
      BY <1>2, <3>1 DEF Placed, Recorded, PlannedAt
    <3>. QED BY <1>1, <1>2, <3>1, <3>2, Onward
  <2>. QED BY <2>1, <2>2
<1>7. CASE Commit(p)
  <2>1. /\ \E s \in States : WriteTransaction(p, s)
        /\ UNCHANGED <<file, made, clock, used, edits>> /\ task'[p] = NoTask
    BY <1>2, <1>7 DEF Commit, States, Finish, budget, TypeOK
  <2>. QED BY <1>1, <2>1, Onward
<1>8. CASE PlanRollback(p)
  <2>1. CASE Throw(p)
    BY <1>1, <1>2, <1>8, <2>1, PlanEffect, ThrowChained
  <2>2. CASE ~Throw(p)
    <3>1. PICK r2 \in Task :
                 /\ task'[p] = r2 /\ pc'[p] = IF r.op = "apply" THEN "stage" ELSE "mark"
                 /\ SameCall(r2, r) /\ r2.back = r.back
                 /\ r2.pending = {j \in DOMAIN r.entries : file[r.entries[j].target] # r.entries[j].orig}
      BY <1>2, <1>8, <2>2, PlanEffect
    <3>2. pc[p] = "plan" /\ r.back /\ UNCHANGED <<file, made, doc, clock, used, edits>>
      BY <1>2, <1>8, PlanEffect
    <3>. PICK l2 : l2 = IF r.op = "apply" THEN "stage" ELSE "mark"
      OBVIOUS
    <3>3. l2 \in PCs /\ l2 \in {"stage", "mark"} /\ pc'[p] = l2
      BY <3>1 DEF PCs
    <3>4. r.op = "rollback" => Recorded(r.txn)'
      BY <1>2, <3>2 DEF Placed, Recorded
    <3>5. \A j \in DOMAIN r.entries \ r2.pending : Holds(r.entries[j].target, r.entries[j].orig)
      BY <3>1 DEF Holds
    <3>. QED BY <1>1, <3>1, <3>2, <3>3, <3>4, <3>5, Onward
  <2>. QED BY <2>1, <2>2
<1>9. CASE Mark(p)
  <2>1. /\ pc[p] = "mark" /\ WriteTransaction(p, "rolling-back") /\ "rolling-back" \in States
        /\ UNCHANGED <<file, made, clock, used, edits, task>>
    BY <1>9 DEF Mark, States, budget
  <2>. PICK l2 : l2 = IF r.op = "apply" THEN "plan" ELSE "stage"
    OBVIOUS
  <2>2. l2 \in PCs /\ l2 \in {"plan", "stage"} /\ pc'[p] = l2 /\ task'[p] = r
    BY <1>2, <1>9, <2>1 DEF Mark, Goto, TypeOK, PCs
  <2>3. r.back
    BY <1>2, <2>1 DEF ControlOf, Forward
  <2>4. r.op = "rollback" => Recorded(r.txn)'
    <3>1. r.op = "rollback" => Recorded(r.txn)
      BY <1>2, <2>1 DEF Placed
    <3>. QED BY <1>1, <2>1, <3>1, Written
  <2>5. PlannedAt(r, l2) => \A j \in DOMAIN r.entries \ r.pending : Holds(r.entries[j].target, r.entries[j].orig)
    BY <1>2, <2>1 DEF Placed, PlannedAt
  <2>. QED BY <1>1, <1>2, <2>1, <2>2, <2>3, <2>4, <2>5, Onward
<1>. QED BY <1>3, <1>4, <1>5, <1>6, <1>7, <1>8, <1>9

(* A target is replaced: what is put there is the content of a recorded    *)
(* transaction, or what that transaction found.                            *)
LEMMA ReplaceChained ==
  ASSUME Chained, Serial, NEW p \in Procs, Sane', Replace(p)
  PROVE  Chained'
<1>. PICK r : r = task[p]
  OBVIOUS
<1>1. pc[p] # "idle"
  BY DEF Replace
<1>2. /\ r \in Task /\ ControlOf(p) /\ Running(p) /\ Sane /\ TypeOK /\ Distinct(r.entries)
      /\ DOMAIN r.entries = 1..Len(r.entries) /\ r.op \in {"apply", "rollback"} /\ r.back \in BOOLEAN
      /\ Anchored(r) /\ Placed(r, pc[p]) /\ r.txn \in Txns
      /\ \A j \in 1..Len(r.entries) : r.entries[j].target \in Files /\ r.entries[j].applied \in ToolContents
  BY <1>1, Here DEF Chained, Tracks, Sane
<1>3. /\ pc[p] = "replace" /\ r.k \in 1..Len(r.entries) /\ (r.back => r.k \in r.pending)
      /\ UNCHANGED <<made, doc, clock, used, edits>>
  BY <1>2, ReplaceEffect
<1>4. CASE Throw(p) /\ UNCHANGED file
  BY <1>1, <1>3, <1>4, ThrowChained
<1>5. ASSUME NEW c, file' = [file EXCEPT ![r.entries[r.k].target] = c],
             c \in ToolContents => \E t \in Txns : Recorded(t) /\ Wrote(t, r.entries[r.k].target, c),
             NEW r2 \in Task, NEW l2 \in PCs, task'[p] = r2, pc'[p] = l2, SameCall(r2, r), r2.back = r.back,
             l2 \in {"stage", "commit"},
             r.back => l2 = "stage" /\ c = r.entries[r.k].orig /\ r2.pending = r.pending \ {r.k}
      PROVE  Chained'
  <2>. PICK f \in Files : f = r.entries[r.k].target
    BY <1>2, <1>3
  <2>1. file'[f] = c /\ \A g \in Files \ {f} : file'[g] = file[g]
    BY <1>2, <1>5 DEF TypeOK
  <2>2. Records' /\ Ordered' /\ Anchored(r2)'
    <3>1. Records' /\ Ordered'
      BY <1>3 DEF Chained, Records, Recorded, Within, Based, Before, Wrote, Ordered
    <3>2. Anchored(r)'
      BY <1>2, <1>3 DEF Anchored, Recorded, Within, Based, Before, Wrote
    <3>. QED BY <1>5, <3>1, <3>2 DEF SameCall, Anchored
  <2>3. WritesAreCovered'
    <3>1. ASSUME NEW g \in Files, file'[g] \in ToolContents
          PROVE  \E t \in Txns : Recorded(t) /\ Wrote(t, g, file'[g])
      <4>1. CASE g = f
        BY <1>5, <2>1, <3>1, <4>1
      <4>2. CASE g # f
        BY <2>1, <3>1, <4>2 DEF Chained, WritesAreCovered, Recorded, Wrote
      <4>. QED BY <4>1, <4>2
    <3>. QED BY <1>3, <3>1 DEF WritesAreCovered, Recorded, Wrote
  <2>4. Placed(r2, l2)'
    <3>1. Recorded(r.txn)' <=> Recorded(r.txn)
      BY <1>3 DEF Recorded
    <3>2. ~r.back => Recorded(r.txn)
      BY <1>2, <1>3 DEF Placed
    <3>3. r.op = "rollback" => Recorded(r.txn)
      BY <1>2, <1>3 DEF Placed
    <3>4. ASSUME r.back, NEW j \in DOMAIN r.entries \ r2.pending
          PROVE  Holds(r.entries[j].target, r.entries[j].orig)'
      <4>1. CASE j = r.k
        BY <1>5, <2>1, <3>4, <4>1 DEF Holds
      <4>2. CASE j # r.k
        <5>1. r.entries[j].target # f /\ r.entries[j].target \in Files
          BY <1>2, <1>3, <3>4, <4>2 DEF Distinct
        <5>2. Holds(r.entries[j].target, r.entries[j].orig)
          BY <1>2, <1>3, <1>5, <3>4, <4>2 DEF Placed, PlannedAt
        <5>. QED BY <1>3, <2>1, <5>1, <5>2 DEF Holds, Edited
      <4>. QED BY <4>1, <4>2
    <3>. QED BY <1>5, <3>1, <3>2, <3>3, <3>4 DEF Placed, PlannedAt, SameCall
  <2>5. Tracks'
    BY <1>5, <2>2, <2>4, SMTT(30) DEF Serial, Tracks, Anchored, Placed, PlannedAt
  <2>. QED BY <2>2, <2>3, <2>5 DEF Chained
<1>6. CASE Advances(p, r)
  <2>1. Recorded(r.txn) /\ Wrote(r.txn, r.entries[r.k].target, r.entries[r.k].applied)
    BY <1>2, <1>3, <1>6 DEF Placed, Anchored, Wrote, Advances
  <2>2. {"stage", "commit"} \subseteq PCs
    BY DEF PCs
  <2>. QED BY <1>2, <1>5, <1>6, <2>1, <2>2 DEF Advances
<1>7. CASE Restores(p, r)
  <2>1. r.entries[r.k].orig \in ToolContents =>
          \E t \in Txns : Recorded(t) /\ Wrote(t, r.entries[r.k].target, r.entries[r.k].orig)
    BY <1>2, <1>3 DEF Anchored, Based, Before
  <2>2. "stage" \in PCs
    BY DEF PCs
  <2>. PICK c : c = r.entries[r.k].orig
    OBVIOUS
  <2>. PICK r2 \in Task :
         /\ task'[p] = r2 /\ pc'[p] = "stage"
         /\ SameCall(r2, r) /\ r2.back = r.back /\ r2.pending = r.pending \ {r.k}
    BY <1>7 DEF Restores
  <2>3. file' = [file EXCEPT ![r.entries[r.k].target] = c]
    BY <1>7 DEF Restores
  <2>4. c \in ToolContents => \E t \in Txns : Recorded(t) /\ Wrote(t, r.entries[r.k].target, c)
    BY <2>1
  <2>. QED BY <1>5, <1>7, <2>2, <2>3, <2>4 DEF Restores
<1>. QED BY <1>2, <1>4, <1>6, <1>7, ReplaceEffect

(* The record of a transaction goes when its targets are back: it is the   *)
(* newest, so no other rests on it, and none of its content is on disk.    *)
LEMMA RemoveChained ==
  ASSUME Chained, Serial, NEW p \in Procs, Sane', Remove(p)
  PROVE  Chained'
<1>. PICK r : r = task[p]
  OBVIOUS
<1>1. pc[p] # "idle"
  BY DEF Remove
<1>2. /\ r \in Task /\ ControlOf(p) /\ Running(p) /\ Sane /\ TypeOK /\ Distinct(r.entries)
      /\ DOMAIN r.entries = 1..Len(r.entries) /\ r.op \in {"apply", "rollback"} /\ r.at \in Int
      /\ Anchored(r) /\ Placed(r, pc[p]) /\ r.txn \in Txns
      /\ Records /\ Ordered /\ WritesAreCovered
  BY <1>1, Here DEF Chained, Tracks, Sane
<1>3. /\ pc[p] = "remove" /\ r.back /\ r.pending = {} /\ UNCHANGED <<file, clock, used, edits>>
  BY <1>2, RemoveEffect
<1>4. CASE Throw(p) /\ UNCHANGED <<made, doc>>
  BY <1>1, <1>3, <1>4, ThrowChained
<1>5. CASE doc' = doc /\ UNCHANGED <<made, task, pc>>
  <2>1. Records' /\ Ordered' /\ WritesAreCovered' /\ Anchored(r)'
    BY <1>1, <1>3, <1>5, Written
  <2>2. Placed(r, "remove")'
    BY <1>2, <1>3, <1>5 DEF Placed, PlannedAt, Holds, Edited, Recorded
  <2>3. Tracks'
    BY <1>3, <1>5, <2>1, <2>2 DEF Serial, Tracks, Anchored, Placed, PlannedAt
  <2>. QED BY <2>1, <2>3 DEF Chained
<1>6. CASE doc' = [doc EXCEPT ![r.txn] = NoDoc] /\ UNCHANGED <<made, task, pc>>
  <2>1. ~Recorded(r.txn)' /\ \A t \in Txns \ {r.txn} : doc'[t] = doc[t]
    BY <1>2, <1>6 DEF TypeOK, Recorded
  <2>2. \A t \in Txns : Recorded(t)' => t # r.txn /\ Recorded(t) /\ doc'[t] = doc[t]
    BY <2>1 DEF Recorded
  <2>3. ASSUME NEW at \in Int, NEW i, NEW es, Based(i, at, es),
               i = r.integration => at <= r.at
        PROVE  Based(i, at, es)'
    <3>1. ASSUME NEW u \in Txns, Before(u, i, at), NEW f, NEW c, Wrote(u, f, c)
          PROVE  Before(u, i, at)' /\ Wrote(u, f, c)'
      <4>1. u # r.txn
        BY <1>2, <2>3, <3>1 DEF Before, Anchored
      <4>. QED BY <2>1, <3>1, <4>1 DEF Before, Wrote, Recorded
    <3>. QED BY <2>3, <3>1 DEF Based
  <2>4. Anchored(r)'
    <3>1. Based(r.integration, r.at, r.entries)'
      BY <1>2, <2>3 DEF Anchored
    <3>. QED BY <1>2, <1>3, <2>1, <2>2, <3>1 DEF Anchored, Within
  <2>5. Records'
    <3>1. ASSUME NEW t \in Txns, Recorded(t)'
          PROVE  /\ t \in used' /\ t \in made' /\ doc'[t].at <= clock'
                 /\ Within(doc[t].integration, doc[t].entries)'
                 /\ Based(doc[t].integration, doc[t].at, doc[t].entries)'
      <4>. PICK e : e = doc[t]
        OBVIOUS
      <4>1. t # r.txn /\ Recorded(t) /\ doc'[t] = e /\ e.at \in Int
        BY <1>2, <2>2, <3>1, DocFacts
      <4>2. /\ t \in used /\ t \in made /\ e.at <= clock /\ Within(e.integration, e.entries)
            /\ Based(e.integration, e.at, e.entries)
        BY <1>2, <4>1 DEF Records
      <4>3. e.integration = r.integration => e.at <= r.at
        BY <1>2, <4>1 DEF Anchored
      <4>4. Based(e.integration, e.at, e.entries)' /\ Within(e.integration, e.entries)'
        BY <2>3, <4>1, <4>2, <4>3 DEF Within
      <4>. QED BY <1>3, <1>6, <4>1, <4>2, <4>4 DEF Within, Based
    <3>. QED BY <3>1 DEF Records
  <2>6. Ordered'
    BY <1>2, <2>2 DEF Ordered
  <2>7. WritesAreCovered'
    <3>1. ASSUME NEW f \in Files, file[f] \in ToolContents
          PROVE  \E t \in Txns \ {r.txn} : Recorded(t) /\ Wrote(t, f, file[f])
      <4>1. PICK t \in Txns : Recorded(t) /\ Wrote(t, f, file[f])
        BY <1>2, <3>1 DEF WritesAreCovered, Recorded, Wrote
      <4>2. CASE t = r.txn
        <5>1. PICK j \in DOMAIN r.entries : r.entries[j].target = f /\ r.entries[j].applied = file[f]
          BY <1>2, <4>1, <4>2 DEF Anchored, Wrote
        <5>2. Holds(r.entries[j].target, r.entries[j].orig)
          BY <1>2, <1>3 DEF Placed, PlannedAt
        <5>3. file[f] = r.entries[j].orig
          BY <3>1, <5>1, <5>2 DEF Holds, Edited
        <5>4. PICK u \in Txns : Before(u, r.integration, r.at) /\ Wrote(u, f, file[f])
          BY <1>2, <3>1, <5>1, <5>3 DEF Anchored, Based
        <5>5. u # r.txn
          BY <1>2, <5>4 DEF Before, Anchored
        <5>. QED BY <5>4, <5>5 DEF Before
      <4>. QED BY <4>1, <4>2
    <3>2. \A t \in Txns \ {r.txn} : Recorded(t) => doc'[t] = doc[t] /\ doc'[t] # NoDoc
      BY <2>1 DEF Recorded
    <3>. QED BY <1>3, <3>1, <3>2 DEF WritesAreCovered, Wrote
  <2>8. Placed(r, "remove")'
    BY <1>2, <1>3 DEF Placed, PlannedAt, Holds, Edited
  <2>9. Tracks'
    BY <1>3, <1>6, <2>4, <2>8 DEF Serial, Tracks, Anchored, Placed, PlannedAt
  <2>. QED BY <2>5, <2>6, <2>7, <2>9 DEF Chained
<1>7. CASE doc' = doc /\ ~Recorded(r.txn) /\ made' = made \ {r.txn} /\ task'[p] = NoTask /\ pc'[p] = "idle"
  <2>1. Records' /\ Ordered' /\ WritesAreCovered'
    BY <1>2, <1>3, <1>7 DEF Records, Recorded, Within, Based, Before, Wrote, Ordered, WritesAreCovered
  <2>2. Tracks'
    BY <1>7 DEF Serial, Tracks, Running
  <2>. QED BY <2>1, <2>2 DEF Chained
<1>. QED BY <1>2, <1>4, <1>5, <1>6, <1>7, RemoveEffect

LEMMA InterruptChained ==
  ASSUME Chained, Serial, NEW p \in Procs, Sane', DirectoryGone(p) \/ Fault(p) \/ Crash(p)
  PROVE  Chained'
<1>1. pc[p] # "idle"
  BY DEF DirectoryGone, Writing, Fault, Crash
<1>2. CASE DirectoryGone(p)
  BY <1>1, <1>2, ThrowChained DEF DirectoryGone, disk, budget
<1>3. CASE Fault(p)
  <2>1. doc' = doc \/ (pc[p] # "copy" /\ \E s \in States : WriteTransaction(p, s))
    BY <1>3, Writings DEF Fault, States
  <2>2. Throw(p) /\ UNCHANGED <<file, made, clock, used, edits>>
    BY <1>3 DEF Fault
  <2>. QED BY <1>1, <2>1, <2>2, ThrowChained
<1>4. CASE Crash(p)
  <2>1. task'[p] = NoTask /\ UNCHANGED <<file, made, doc, clock, used, edits>>
    BY <1>4 DEF Crash, Finish, Chained, Sane, TypeOK
  <2>. QED BY <1>1, <2>1, Onward
<1>. QED BY <1>2, <1>3, <1>4

(* A new call: nothing on disk changes, and the time does not go back.     *)
LEMMA Opened ==
  ASSUME Chained, Serial, NEW p \in Procs, Sane', NEW r \in Task, task'[p] = r,
         UNCHANGED <<file, doc, edits>>, used \subseteq used', made \subseteq made', clock <= clock',
         Anchored(r)', Placed(r, pc[p])'
  PROVE  Chained'
<1>1. \A t \in Txns : Recorded(t) => doc[t].at \in Int /\ doc[t].at <= clock
  BY DocFacts DEF Chained, Records
<1>2. clock \in Int /\ clock' \in Int
  BY DEF Chained, Sane, TypeOK
<1>3. Records'
  BY <1>1, <1>2 DEF Chained, Records, Recorded, Within, Based, Before, Wrote
<1>4. Ordered' /\ WritesAreCovered'
  BY DEF Chained, Ordered, Recorded, WritesAreCovered
<1>5. Tracks'
  BY DEF Serial, Tracks, Anchored, Placed, PlannedAt
<1>. QED BY <1>3, <1>4, <1>5 DEF Chained

LEMMA StartApplyChained ==
  ASSUME Chained, Serial, NEW p \in Procs, Sane', StartApply(p)
  PROVE  Chained'
<1>1. PICK i \in Integrations, n \in 1..MaxOps, t \in Txns \ used, d \in ClockSteps :
       \E tgt \in [1..n -> Targets[i]], new \in [1..n -> ToolContents] :
         /\ \A a, b \in 1..n : tgt[a] = tgt[b] => a = b
         /\ \A a \in 1..n : new[a] # file[tgt[a]] /\ Alone(p, tgt[a])
         /\ clock' = clock + d
         /\ used' = used \cup {t}
         /\ made' = made \cup {t}
         /\ task' = [task EXCEPT ![p] =
              [op |-> "apply", back |-> FALSE, discard |-> FALSE, txn |-> t,
               integration |-> i, at |-> clock + d, k |-> 1, pending |-> {},
               entries |-> [a \in 1..n |-> [target |-> tgt[a], orig |-> file[tgt[a]],
                                            applied |-> new[a]]]]]
  BY DEF StartApply
<1>2. PICK tgt \in [1..n -> Targets[i]], new \in [1..n -> ToolContents] :
         /\ \A a, b \in 1..n : tgt[a] = tgt[b] => a = b
         /\ \A a \in 1..n : new[a] # file[tgt[a]] /\ Alone(p, tgt[a])
         /\ clock' = clock + d
         /\ used' = used \cup {t}
         /\ made' = made \cup {t}
         /\ task' = [task EXCEPT ![p] =
              [op |-> "apply", back |-> FALSE, discard |-> FALSE, txn |-> t,
               integration |-> i, at |-> clock + d, k |-> 1, pending |-> {},
               entries |-> [a \in 1..n |-> [target |-> tgt[a], orig |-> file[tgt[a]],
                                            applied |-> new[a]]]]]
  BY <1>1
<1>. PICK es : es = [a \in 1..n |-> [target |-> tgt[a], orig |-> file[tgt[a]], applied |-> new[a]]]
  OBVIOUS
<1>3. DOMAIN es = 1..n /\ \A j \in 1..n : es[j].target = tgt[j] /\ es[j].orig = file[tgt[j]]
  OBVIOUS
<1>. PICK at : at = clock + d
  OBVIOUS
<1>. PICK r : r = [op |-> "apply", back |-> FALSE, discard |-> FALSE, txn |-> t,
                   integration |-> i, at |-> at, k |-> 1, pending |-> {}, entries |-> es]
  OBVIOUS
<1>4. /\ r.txn = t /\ r.integration = i /\ r.at = at /\ r.entries = es
      /\ r.op = "apply" /\ ~r.back
  OBVIOUS
<1>5. task'[p] = r /\ pc'[p] = "copy" /\ UNCHANGED <<file, doc, edits>>
  <2>1. task' = [task EXCEPT ![p] = r]
    BY <1>2
  <2>. QED BY <2>1 DEF StartApply, Goto, budget, Chained, Sane, TypeOK
<1>6. r \in Task
  <2>1. r # NoTask
    <3>1. Running(p)'
      BY <1>5 DEF Sane, Control, ControlOf, Running
    <3>. QED BY <1>5, <3>1 DEF Running
  <2>. QED BY <1>5, <2>1 DEF Sane, TypeOK
<1>7. d \in Int /\ d > 0 /\ clock \in Int
  BY ClockAssumption DEF Serial, Chained, Sane, TypeOK
<1>8. ~Recorded(t)
  BY DEF Chained, Records
<1>9. \A u \in Txns : Recorded(u) => doc[u].at \in Int /\ doc[u].at < at
  BY <1>7, DocFacts DEF Chained, Records
<1>10. Within(i, es)
  BY <1>3 DEF Within
<1>11. Based(i, at, es)
  <2>1. ASSUME NEW j \in 1..n, file[tgt[j]] \in ToolContents
        PROVE  \E u \in Txns : Before(u, i, at) /\ Wrote(u, tgt[j], file[tgt[j]])
    <3>1. tgt[j] \in Targets[i] /\ tgt[j] \in Files
      BY TargetsAssumption
    <3>2. PICK u \in Txns : Recorded(u) /\ Wrote(u, tgt[j], file[tgt[j]])
      BY <2>1, <3>1 DEF Chained, WritesAreCovered, Recorded, Wrote
    <3>3. tgt[j] \in Targets[doc[u].integration] /\ doc[u].integration \in Integrations
      BY <3>2, DocFacts DEF Chained, Records, Within, Wrote
    <3>4. doc[u].integration = i
      BY <3>1, <3>3 DEF Serial
    <3>. QED BY <1>9, <3>2, <3>4 DEF Before
  <2>. QED BY <1>3, <2>1 DEF Based
<1>12. Anchored(r)'
  <2>1. r.txn \in used' /\ r.at <= clock'
    BY <1>2, <1>4, <1>7
  <2>2. Within(i, es)' /\ Based(i, at, es)'
    BY <1>5, <1>10, <1>11 DEF Within, Based, Before, Wrote, Recorded
  <2>3. Within(r.integration, r.entries)' /\ Based(r.integration, r.at, r.entries)'
    BY <1>4, <2>2
  <2>. QED BY <1>4, <1>5, <1>8, <1>9, <2>1, <2>3 DEF Anchored, Recorded
<1>13. Placed(r, pc[p])'
  BY <1>4, <1>5, <1>8 DEF Placed, PlannedAt, Recorded
<1>14. used \subseteq used' /\ made \subseteq made' /\ clock <= clock'
  BY <1>2, <1>7
<1>. QED BY <1>5, <1>6, <1>12, <1>13, <1>14, Opened

LEMMA StartRollbackChained ==
  ASSUME Chained, Serial, NEW p \in Procs, NEW t \in Txns, NEW discard \in BOOLEAN, Sane',
         StartRollback(p, t, discard)
  PROVE  Chained'
<1>. PICK r : r = [op |-> "rollback", back |-> TRUE, discard |-> discard, txn |-> t,
                   integration |-> doc[t].integration, at |-> doc[t].at, k |-> 0, pending |-> {},
                   entries |-> doc[t].entries]
  OBVIOUS
<1>1. /\ r.txn = t /\ r.integration = doc[t].integration /\ r.at = doc[t].at
      /\ r.entries = doc[t].entries /\ r.op = "rollback" /\ r.back
  OBVIOUS
<1>2. task'[p] = r /\ pc'[p] = "plan" /\ UNCHANGED <<file, made, doc, clock, used, edits>>
  <2>1. task' = [task EXCEPT ![p] = r]
    BY DEF StartRollback
  <2>. QED BY <2>1 DEF StartRollback, Goto, disk, budget, Chained, Sane, TypeOK
<1>3. r \in Task
  <2>1. r # NoTask
    <3>1. Running(p)'
      BY <1>2 DEF Sane, Control, ControlOf, Running
    <3>. QED BY <1>2, <3>1 DEF Running
  <2>. QED BY <1>2, <2>1 DEF Sane, TypeOK
<1>4. Recorded(t) /\ Newest(t) /\ Sane
  BY DEF StartRollback, Newest, Recorded, Chained
<1>5. /\ t \in used /\ doc[t].at <= clock /\ Within(r.integration, r.entries)
      /\ Based(r.integration, r.at, r.entries)
  BY <1>1, <1>4 DEF Chained, Records, Within, Based
<1>6. ASSUME NEW u \in Txns \ {t}, Recorded(u), doc[u].integration = doc[t].integration
      PROVE  doc[u].at < doc[t].at
  <2>1. doc[t].at >= doc[u].at
    BY <1>4, <1>6, DocFacts DEF Newest, Later, Recorded
  <2>2. doc[t].at # doc[u].at
    BY <1>4, <1>6 DEF Chained, Ordered
  <2>. QED BY <1>4, <1>6, <2>1, <2>2, DocFacts
<1>7. Anchored(r)'
  BY <1>1, <1>2, <1>5, <1>6 DEF Anchored, Within, Based, Before, Wrote, Recorded
<1>8. Placed(r, pc[p])'
  BY <1>1, <1>2, <1>4 DEF Placed, PlannedAt, Recorded
<1>9. clock <= clock'
  BY <1>2, <1>4 DEF Sane, TypeOK
<1>. QED BY <1>2, <1>3, <1>7, <1>8, <1>9, Opened

LEMMA EditChained ==
  ASSUME Chained, Serial, NEW f \in Files, Sane', Edit(f)
  PROVE  Chained'
<1>1. PICK c \in UserContents \cup {Absent} : file' = [file EXCEPT ![f] = c]
  BY DEF Edit
<1>2. /\ UNCHANGED <<made, doc, clock, used, task, pc>> /\ edits' = edits + 1 /\ edits \in Nat
      /\ TypeOK /\ TypeOK'
  BY DEF Edit, Chained, Sane, TypeOK
<1>3. c \notin ToolContents /\ edits' > 0
  BY <1>2, ContentsAssumption
<1>4. file'[f] = c /\ \A g \in Files \ {f} : file'[g] = file[g]
  BY <1>1, <1>2 DEF TypeOK
<1>5. \A x : \A g \in Files : Holds(g, x) => Holds(g, x)'
  BY <1>2, <1>3, <1>4 DEF Holds, Edited
<1>6. Records' /\ Ordered'
  BY <1>2 DEF Chained, Records, Recorded, Within, Based, Before, Wrote, Ordered
<1>7. WritesAreCovered'
  BY <1>2, <1>3, <1>4 DEF Chained, WritesAreCovered
<1>8. Tracks'
  <2>1. ASSUME NEW q \in Procs, Running(q)
        PROVE  Anchored(task[q])' /\ Placed(task[q], pc[q])'
    <3>. PICK r : r = task[q]
      OBVIOUS
    <3>1. pc[q] # "idle" /\ Sane
      BY <2>1 DEF Chained, Sane, Control, ControlOf, Running
    <3>2. \A j \in DOMAIN r.entries : r.entries[j].target \in Files
      BY <3>1, Here
    <3>3. Anchored(r) /\ Placed(r, pc[q])
      BY <2>1 DEF Chained, Tracks
    <3>4. Anchored(r)'
      BY <1>2, <3>3 DEF Anchored, Recorded, Within, Based, Before, Wrote
    <3>5. Placed(r, pc[q])'
      BY <1>2, <1>5, <3>2, <3>3 DEF Placed, PlannedAt, Recorded
    <3>. QED BY <1>2, <3>4, <3>5 DEF Anchored, Placed, PlannedAt
  <2>. QED BY <1>2, <2>1 DEF Tracks, Running
<1>. QED BY <1>6, <1>7, <1>8 DEF Chained

LEMMA IdleChained ==
  ASSUME Chained, Sane', UNCHANGED <<file, made, doc, clock, used, pc, task, edits>>
  PROVE  Chained'
<1>1. Records' /\ Ordered' /\ WritesAreCovered'
  BY DEF Chained, Records, Recorded, Within, Based, Before, Wrote, Ordered, WritesAreCovered
<1>2. Tracks'
  BY DEF Chained, Tracks, Running, Anchored, Placed, PlannedAt, Recorded, Within, Based, Before, Wrote,
         Holds, Edited
<1>. QED BY <1>1, <1>2 DEF Chained

LEMMA NextChained ==
  ASSUME Serial, Chained, [Next]_vars
  PROVE  Chained'
<1>1. Sane'
  BY NextSane DEF Chained
<1>2. ASSUME NEW p \in Procs, Step(p) \/ StartApply(p) \/ Fault(p) \/ Crash(p) PROVE Chained'
  BY <1>1, <1>2, CallChained, ReplaceChained, RemoveChained, InterruptChained, StartApplyChained DEF Step
<1>3. ASSUME NEW p \in Procs, NEW t \in Txns, RefuseOrder(p, t) PROVE Chained'
  BY <1>1, <1>3, IdleChained DEF RefuseOrder, disk, budget
<1>4. CASE UNCHANGED vars
  BY <1>1, <1>4, IdleChained DEF vars
<1>. QED BY <1>1, <1>2, <1>3, <1>4, StartRollbackChained, EditChained DEF Next

LEMMA InitChained == Init => Chained
<1>. SUFFICES ASSUME Init PROVE Chained
  OBVIOUS
<1>1. \A p \in Procs : ~Running(p)
  BY DEF Init, Running
<1>2. \A t \in Txns : ~Recorded(t)
  BY DEF Init, Recorded
<1>3. \A f \in Files : file[f] \notin ToolContents
  <2>1. file \in [Files -> UserContents \cup {Absent}]
    BY DEF Init
  <2>. QED BY <2>1, ContentsAssumption
<1>. QED BY <1>1, <1>2, <1>3, InitSane DEF Chained, Records, Ordered, Tracks, WritesAreCovered

(* Whatever crashes, failing calls and users do, and whichever windows     *)
(* they hit, content a plan wrote is accounted for by a record, as long as *)
(* one command runs at a time.                                             *)
THEOREM WritesCovered == ASSUME Serial PROVE Spec => []WritesAreCovered
<1>1. Chained /\ [Next]_vars => Chained'
  BY NextChained
<1>2. Chained => WritesAreCovered
  BY DEF Chained
<1>. QED BY <1>1, <1>2, InitChained, PTL DEF Spec

-----------------------------------------------------------------------------
(* What the records say of the disk *)

LEMMA RunningHere ==
  ASSUME Described, NEW p \in Procs, pc[p] # "idle", NEW r, r = task[p]
  PROVE  /\ Anchored(r) /\ Placed(r, pc[p]) /\ Level(r, pc[p])
         /\ Succeeds(r.integration, r.at, r.entries)
BY Here DEF Described, Chained, Tracks, Steady

(* Writing the record of the newest transaction says nothing new of the    *)
(* others; when it says "applied", its targets are in place.               *)
LEMMA WrittenSteady ==
  ASSUME Described, NEW p \in Procs, pc[p] # "idle", NEW r, r = task[p],
         \/ doc' = doc
         \/ \E s \in States : /\ WriteTransaction(p, s)
                              /\ s = "applied" => \A j \in DOMAIN r.entries :
                                   Holds(r.entries[j].target, r.entries[j].applied),
         UNCHANGED <<file, made, clock, used, edits>>
  PROVE  Successions' /\ Standing' /\ Succeeds(r.integration, r.at, r.entries)'
<1>1. /\ r \in Task /\ r.txn \in Txns /\ r.at \in Int /\ Running(p) /\ Sane
      /\ Anchored(r) /\ Records /\ Ordered /\ Successions /\ Standing
      /\ Succeeds(r.integration, r.at, r.entries)
  BY Here, RunningHere DEF Described, Chained
<1>2. CASE doc' = doc
  <2>1. Successions' /\ Succeeds(r.integration, r.at, r.entries)'
    BY <1>1, <1>2 DEF Successions, Succeeds, Recorded, Before, LastBefore, Touches, Edited
  <2>2. Standing'
    BY <1>1, <1>2 DEF Standing, Last, Recorded, Touches, Holds, Edited
  <2>. QED BY <2>1, <2>2
<1>3. ASSUME NEW s \in States, WriteTransaction(p, s),
             s = "applied" => \A j \in DOMAIN r.entries : Holds(r.entries[j].target, r.entries[j].applied)
      PROVE  Successions' /\ Standing' /\ Succeeds(r.integration, r.at, r.entries)'
  <2>. PICK d : d = DocOf(p, s)
    OBVIOUS
  <2>1. /\ d \in Doc /\ d.entries = r.entries /\ d.integration = r.integration /\ d.at = r.at
        /\ d.state = s /\ doc' = [doc EXCEPT ![r.txn] = d]
    BY <1>1, <1>3 DEF DocOf, Doc, Task, WriteTransaction
  <2>2. d # NoDoc
    BY <2>1, MarkersAssumption
  <2>3. /\ doc'[r.txn] = d /\ \A t \in Txns \ {r.txn} : doc'[t] = doc[t]
    BY <1>1, <2>1 DEF Sane, TypeOK
  <2>4. ASSUME NEW u \in Txns, Recorded(u)
        PROVE  /\ Recorded(u)' /\ doc'[u].entries = doc[u].entries
               /\ doc'[u].integration = doc[u].integration /\ doc'[u].at = doc[u].at
    BY <1>1, <2>1, <2>2, <2>3, <2>4 DEF Anchored, Recorded
  <2>5. \A u \in Txns : Recorded(u)' => u = r.txn \/ Recorded(u)
    BY <2>3 DEF Recorded
  <2>6. ASSUME NEW i, NEW at \in Int, NEW es, Succeeds(i, at, es), i = r.integration => at <= r.at
        PROVE  Succeeds(i, at, es)'
    <3>1. ASSUME NEW u \in Txns, Before(u, i, at)', doc'[u].state = "applied"
          PROVE  Before(u, i, at) /\ doc'[u] = doc[u]
      BY <1>1, <2>1, <2>3, <2>6, <3>1 DEF Before, Recorded
    <3>2. ASSUME NEW u \in Txns, doc'[u] = doc[u], NEW f, LastBefore(u, f, at)'
          PROVE  LastBefore(u, f, at)
      BY <2>4, <3>2 DEF LastBefore, Before, Touches
    <3>3. ASSUME NEW u \in Txns, Before(u, i, at)', doc'[u].state = "applied",
                 NEW j \in DOMAIN doc'[u].entries, NEW k \in DOMAIN es,
                 doc'[u].entries[j].target = es[k].target, LastBefore(u, es[k].target, at)'
          PROVE  es[k].orig = doc'[u].entries[j].applied \/ Edited(es[k].orig)'
      <4>1. Before(u, i, at) /\ doc'[u] = doc[u]
        BY <3>1, <3>3
      <4>2. LastBefore(u, es[k].target, at)
        BY <3>2, <3>3, <4>1
      <4>3. es[k].orig = doc[u].entries[j].applied \/ Edited(es[k].orig)
        BY <2>6, <3>3, <4>1, <4>2 DEF Succeeds
      <4>. QED BY <4>1, <4>3 DEF Edited
    <3>. QED BY <3>3 DEF Succeeds
  <2>7. Succeeds(r.integration, r.at, r.entries)'
    BY <1>1, <2>6
  <2>8. Successions'
    <3>1. ASSUME NEW t \in Txns, Recorded(t)'
          PROVE  Succeeds(doc[t].integration, doc[t].at, doc[t].entries)'
      <4>. PICK e : e = doc'[t]
        OBVIOUS
      <4>1. CASE t = r.txn
        <5>1. e.integration = r.integration /\ e.at = r.at /\ e.entries = r.entries
          BY <2>1, <2>3, <4>1
        <5>2. Succeeds(e.integration, e.at, e.entries)'
          BY <2>7, <5>1
        <5>. QED BY <5>2 DEF Succeeds
      <4>2. CASE t # r.txn
        <5>1. e = doc[t] /\ Recorded(t)
          BY <2>3, <2>5, <3>1, <4>2
        <5>2. e.at \in Int /\ Succeeds(e.integration, e.at, e.entries)
          BY <1>1, <5>1, DocFacts DEF Successions
        <5>3. e.integration = r.integration => e.at <= r.at
          BY <1>1, <4>2, <5>1, <5>2 DEF Anchored
        <5>4. Succeeds(e.integration, e.at, e.entries)'
          BY <2>6, <5>2, <5>3
        <5>. QED BY <5>4 DEF Succeeds
      <4>. QED BY <4>1, <4>2
    <3>. QED BY <3>1 DEF Successions
  <2>9. Standing'
    <3>1. ASSUME NEW u \in Txns, Recorded(u)', doc'[u].state = "applied",
                 NEW j \in DOMAIN doc'[u].entries, Last(u, doc[u].entries[j].target)'
          PROVE  Holds(doc[u].entries[j].target, doc[u].entries[j].applied)'
      <4>1. CASE u = r.txn
        <5>1. Holds(d.entries[j].target, d.entries[j].applied)
          BY <1>3, <2>1, <2>3, <3>1, <4>1
        <5>. QED BY <2>3, <4>1, <5>1 DEF Holds, Edited
      <4>2. CASE u # r.txn
        <5>1. Recorded(u) /\ doc'[u] = doc[u]
          BY <2>3, <2>5, <3>1, <4>2
        <5>2. Last(u, doc[u].entries[j].target)
          BY <2>4, <3>1, <5>1 DEF Last, Touches
        <5>3. Holds(doc[u].entries[j].target, doc[u].entries[j].applied)
          BY <1>1, <3>1, <5>1, <5>2 DEF Standing
        <5>. QED BY <5>1, <5>3 DEF Holds, Edited
      <4>. QED BY <4>1, <4>2
    <3>. QED BY <3>1 DEF Standing
  <2>. QED BY <2>7, <2>8, <2>9
<1>. QED BY <1>2, <1>3

LEMMA OnwardSteady ==
  ASSUME Described, Serial, Chained', NEW p \in Procs, pc[p] # "idle", NEW r, r = task[p],
         \/ doc' = doc
         \/ \E s \in States : /\ WriteTransaction(p, s)
                              /\ s = "applied" => \A j \in DOMAIN r.entries :
                                   Holds(r.entries[j].target, r.entries[j].applied),
         UNCHANGED <<file, made, clock, used, edits>>,
         task'[p] = NoTask \/ \E r2 \in Task, l2 \in PCs :
           task'[p] = r2 /\ pc'[p] = l2 /\ SameCall(r2, r) /\ Level(r2, l2)'
  PROVE  Described'
<1>1. Successions' /\ Standing' /\ Succeeds(r.integration, r.at, r.entries)'
  BY WrittenSteady
<1>2. ASSUME task'[p] # NoTask
      PROVE  Succeeds(task[p].integration, task[p].at, task[p].entries)' /\ Level(task[p], pc[p])'
  <2>. PICK r2 \in Task, l2 \in PCs :
           task'[p] = r2 /\ pc'[p] = l2 /\ SameCall(r2, r) /\ Level(r2, l2)'
    BY <1>2
  <2>1. Succeeds(r2.integration, r2.at, r2.entries)'
    BY <1>1 DEF SameCall
  <2>. QED BY <2>1 DEF Succeeds, Level
<1>3. Steady'
  BY <1>2 DEF Serial, Steady, Running
<1>. QED BY <1>1, <1>3 DEF Described

LEMMA ThrowSteady ==
  ASSUME Described, Serial, Chained', NEW p \in Procs, pc[p] # "idle", NEW r, r = task[p], Throw(p),
         \/ doc' = doc /\ faults' >= faults
         \/ /\ pc[p] # "copy" /\ faults' > 0
            /\ \E s \in States : /\ WriteTransaction(p, s)
                                 /\ s = "applied" => pc[p] = "commit",
         pc[p] = "mark" /\ Recorded(r.txn) /\ doc[r.txn].state = "applied" => faults = 0,
         UNCHANGED <<file, made, clock, used, edits>>
  PROVE  Described'
<1>1. /\ r \in Task /\ ControlOf(p) /\ Running(p) /\ Sane /\ r.entries \in Seq(Entry) /\ Len(r.entries) \in Nat
      /\ DOMAIN r.entries = 1..Len(r.entries) /\ r.op \in {"apply", "rollback"} /\ r.back \in BOOLEAN
      /\ Anchored(r) /\ Placed(r, pc[p]) /\ Level(r, pc[p]) /\ r.k \in Nat /\ r.txn \in Txns
      /\ Succeeds(r.integration, r.at, r.entries) /\ faults \in Nat
  BY Here, RunningHere DEF Described, Chained, Sane, TypeOK
<1>2. \/ doc' = doc
      \/ \E s \in States : /\ WriteTransaction(p, s)
                           /\ s = "applied" => \A j \in DOMAIN r.entries :
                                Holds(r.entries[j].target, r.entries[j].applied)
  <2>1. pc[p] = "commit" => ~r.back
    BY <1>1 DEF ControlOf, Backward
  <2>. QED BY <1>1, <2>1 DEF Level
<1>3. PICK r2 \in Task \cup {NoTask}, l2 \in PCs :
           /\ task' = [task EXCEPT ![p] = r2]
           /\ pc' = [pc EXCEPT ![p] = l2]
           /\ result' \in [Procs -> Results]
           /\ \/ r2 = NoTask /\ l2 = "idle" /\ task[p].back
              \/ /\ pc[p] = "copy" /\ ~task[p].back
                 /\ r2 = [task[p] EXCEPT !.back = TRUE,
                           !.entries = SubSeq(task[p].entries, 1, task[p].k - 1)]
                 /\ l2 = IF task[p].k = 1 THEN "remove" ELSE "plan"
              \/ /\ pc[p] # "copy" /\ ~task[p].back
                 /\ r2 = [task[p] EXCEPT !.back = TRUE] /\ l2 = "mark"
              \/ /\ pc[p] = "mark" /\ task[p].back /\ task[p].op = "apply"
                 /\ r2 = task[p] /\ l2 = "plan"
  BY <1>1, ThrowEffect
<1>4. task'[p] = r2 /\ pc'[p] = l2
  BY <1>1, <1>3, Stepping
(* What is now recorded of the call's transaction.                         *)
<1>5. \/ doc' = doc
      \/ /\ Recorded(r.txn)' /\ faults' > 0 /\ pc[p] # "copy"
         /\ doc'[r.txn].state = "applied" => pc[p] = "commit"
  <2>1. ASSUME NEW s \in States, WriteTransaction(p, s)
        PROVE  Recorded(r.txn)' /\ doc'[r.txn].state = s
    <3>1. DocOf(p, s) \in Doc /\ DocOf(p, s).state = s
      BY <1>1 DEF DocOf, Doc, Task
    <3>. QED BY <1>1, <2>1, <3>1, MarkersAssumption DEF WriteTransaction, Recorded, Sane, TypeOK
  <2>. QED BY <2>1
<1>6. CASE r2 = NoTask
  BY <1>2, <1>4, <1>6, OnwardSteady
<1>7. CASE pc[p] # "copy" /\ ~r.back /\ r2 = [r EXCEPT !.back = TRUE] /\ l2 = "mark"
  <2>1. /\ SameCall(r2, r) /\ r2.back /\ r2.pending = r.pending /\ r.op = "apply" /\ r2 \in Task
        /\ pc[p] # "remove"
    BY <1>1, <1>7 DEF SameCall, Task, ControlOf, Forward
  <2>2. Recorded(r.txn)' /\ doc'[r.txn].state = "applied" => faults' > 0
    BY <1>1, <1>5, <1>7 DEF Level, Recorded
  <2>3. ~Recorded(r.txn)' => /\ r.pending = {}
                             /\ \A j \in DOMAIN r.entries : Holds(r.entries[j].target, r.entries[j].orig)'
    BY <1>1, <1>5, <2>1 DEF Level, Recorded, Holds, Edited
  <2>4. Level(r2, "mark")'
    BY <2>1, <2>2, <2>3 DEF Level, SameCall, Recorded
  <2>. QED BY <1>2, <1>3, <1>4, <1>7, <2>1, <2>4, OnwardSteady
<1>8. CASE pc[p] = "mark" /\ r.back /\ r.op = "apply" /\ r2 = r /\ l2 = "plan"
  <2>1. SameCall(r, r)
    BY DEF SameCall
  <2>2. ~(Recorded(r.txn)' /\ doc'[r.txn].state = "applied")
    BY <1>1, <1>5, <1>8 DEF Level, Recorded
  <2>3. ~Recorded(r.txn)' => /\ r.pending = {}
                             /\ \A j \in DOMAIN r.entries : Holds(r.entries[j].target, r.entries[j].orig)'
    BY <1>1, <1>5, <1>8 DEF Level, Recorded, Holds, Edited
  <2>4. Level(r, "plan")'
    BY <1>8, <2>2, <2>3 DEF Level, Recorded
  <2>. QED BY <1>1, <1>2, <1>3, <1>4, <1>8, <2>1, <2>4, OnwardSteady
<1>9. CASE /\ pc[p] = "copy" /\ ~r.back
           /\ r2 = [task[p] EXCEPT !.back = TRUE, !.entries = SubSeq(task[p].entries, 1, task[p].k - 1)]
           /\ l2 = IF task[p].k = 1 THEN "remove" ELSE "plan"
  <2>. PICK es : es = SubSeq(r.entries, 1, r.k - 1)
    OBVIOUS
  <2>1. r.k \in 1..Len(r.entries) /\ Distinct(r.entries) /\ r.op = "apply"
    BY <1>1, <1>9 DEF ControlOf, Ents
  <2>2. /\ es \in Seq(Entry) /\ Len(es) = r.k - 1
        /\ \A j \in 1..(r.k - 1) : es[j] = r.entries[j]
    BY <1>1, <2>1, Truncated
  <2>3. DOMAIN es = 1..(r.k - 1) /\ DOMAIN es \subseteq DOMAIN r.entries
    BY <1>1, <2>1, <2>2
  <2>4. /\ r2.back /\ r2.entries = es /\ r2.op = "apply" /\ r2.txn = r.txn /\ r2.at = r.at
        /\ r2.integration = r.integration /\ r2.pending = r.pending
    BY <1>1, <1>9, <2>1 DEF Task
  <2>5. ~Recorded(r.txn) /\ doc' = doc
    BY <1>1, <1>9 DEF Placed
  <2>6. Succeeds(r2.integration, r2.at, r2.entries)
    <3>1. \A k \in DOMAIN es : k \in DOMAIN r.entries /\ es[k] = r.entries[k]
      BY <2>2, <2>3
    <3>2. Succeeds(r.integration, r.at, es)
      BY <1>1, <3>1 DEF Succeeds
    <3>. QED BY <2>4, <3>2
  <2>7. Succeeds(r2.integration, r2.at, r2.entries)'
    BY <2>5, <2>6 DEF Succeeds, Recorded, Before, LastBefore, Touches, Edited
  <2>8. Level(r2, l2)'
    <3>1. r.pending = {} /\ \A j \in DOMAIN r.entries : Holds(r.entries[j].target, r.entries[j].orig)
      BY <1>1, <1>9, <2>1, <2>5 DEF Level
    <3>2. \A j \in DOMAIN es : Holds(es[j].target, es[j].orig)'
      BY <2>2, <2>3, <3>1 DEF Holds, Edited
    <3>. QED BY <2>4, <2>5, <3>1, <3>2 DEF Level, Recorded
  <2>9. Successions' /\ Standing'
    BY <1>2, WrittenSteady
  <2>10. Steady'
    BY <1>4, <2>7, <2>8 DEF Serial, Steady, Succeeds, Level
  <2>. QED BY <2>9, <2>10 DEF Described
<1>. QED BY <1>3, <1>6, <1>7, <1>8, <1>9

LEMMA PlainThrow ==
  ASSUME Described, Serial, Chained', NEW p \in Procs, pc[p] \notin {"idle", "mark"}, Throw(p),
         UNCHANGED <<file, made, doc, clock, used, edits, faults>>
  PROVE  Described'
<1>. PICK r : r = task[p]
  OBVIOUS
<1>1. faults' >= faults
  BY DEF Described, Chained, Sane, TypeOK
<1>. QED BY <1>1, ThrowSteady

LEMMA CallSteady ==
  ASSUME Described, Serial, Chained', NEW p \in Procs,
         CopyBackup(p) \/ Record(p) \/ Stage(p) \/ Recheck(p) \/ Commit(p) \/ PlanRollback(p) \/ Mark(p)
  PROVE  Described'
<1>. PICK r : r = task[p]
  OBVIOUS
<1>1. pc[p] # "idle"
  BY DEF CopyBackup, Record, Stage, Recheck, Commit, PlanRollback, Mark
<1>2. /\ r \in Task /\ ControlOf(p) /\ Running(p) /\ Sane /\ TypeOK
      /\ DOMAIN r.entries = 1..Len(r.entries) /\ r.op \in {"apply", "rollback"} /\ r.back \in BOOLEAN
      /\ Placed(r, pc[p]) /\ Level(r, pc[p]) /\ SameCall(r, r) /\ r.txn \in Txns /\ r.k \in Nat
      /\ \A j \in DOMAIN r.entries : r.entries[j].applied \in ToolContents
  BY <1>1, Here, RunningHere DEF Described, Chained, SameCall, Sane
<1>3. ASSUME NEW s \in States, WriteTransaction(p, s) PROVE Recorded(r.txn)' /\ doc'[r.txn].state = s
  <2>1. DocOf(p, s) \in Doc /\ DocOf(p, s).state = s
    BY <1>2 DEF DocOf, Doc, Task
  <2>. QED BY <1>2, <1>3, <2>1, MarkersAssumption DEF WriteTransaction, Recorded, TypeOK
<1>4. CASE CopyBackup(p)
  <2>1. CASE Throw(p)
    BY <1>2, <1>4, <2>1, CopyEffect, PlainThrow
  <2>2. CASE ~Throw(p)
    <3>1. PICK r2 \in Task, l2 \in {"copy", "record"} :
                 /\ task'[p] = r2 /\ pc'[p] = l2
                 /\ SameCall(r2, r) /\ r2.back = r.back /\ r2.pending = r.pending
      BY <1>2, <1>4, <2>2, CopyEffect
    <3>2. /\ pc[p] = "copy" /\ ~r.back /\ r.op = "apply"
          /\ UNCHANGED <<file, made, doc, clock, used, edits>>
      BY <1>2, <1>4, CopyEffect
    <3>3. Level(r2, l2)' /\ l2 \in PCs
      BY <1>2, <3>1, <3>2 DEF Placed, Level, Recorded, SameCall, Holds, Edited, PCs
    <3>. QED BY <1>1, <3>1, <3>2, <3>3, OnwardSteady
  <2>. QED BY <2>1, <2>2
<1>5. CASE Record(p)
  <2>1. PICK r2 \in Task :
              /\ task'[p] = r2 /\ pc'[p] = "stage"
              /\ SameCall(r2, r) /\ r2.back = r.back /\ r2.pending = r.pending /\ r2.k = 1
    BY <1>2, <1>5, RecordEffect
  <2>2. /\ pc[p] = "record" /\ ~r.back /\ r.op = "apply" /\ WriteTransaction(p, "applying")
        /\ UNCHANGED <<file, made, clock, used, edits>> /\ "applying" \in States /\ "stage" \in PCs
    BY <1>2, <1>5, RecordEffect DEF States, PCs
  <2>3. Recorded(r.txn)' /\ doc'[r.txn].state = "applying"
    BY <1>3, <2>2
  <2>4. Level(r2, "stage")'
    BY <1>2, <2>1, <2>2, <2>3 DEF Level, Recorded, SameCall
  <2>. QED BY <1>1, <2>1, <2>2, <2>4, OnwardSteady
<1>6. CASE Stage(p)
  <2>1. CASE Throw(p)
    BY <1>2, <1>6, <2>1, StageEffect, PlainThrow
  <2>2. CASE ~Throw(p)
    <3>1. PICK r2 \in Task, l2 \in {"stage", "recheck", "remove"} :
                 /\ task'[p] = r2 /\ pc'[p] = l2
                 /\ SameCall(r2, r) /\ r2.back = r.back /\ r2.pending = r.pending
                 /\ ~r.back => l2 = "recheck" /\ r2.k = r.k
      BY <1>2, <1>6, <2>2, StageEffect
    <3>2. pc[p] = "stage" /\ UNCHANGED <<file, made, doc, clock, used, edits>>
      BY <1>2, <1>6, StageEffect
    <3>3. Level(r2, l2)' /\ l2 \in PCs
      BY <1>2, <3>1, <3>2 DEF Level, Recorded, SameCall, Holds, Edited, PCs
    <3>. QED BY <1>1, <3>1, <3>2, <3>3, OnwardSteady
  <2>. QED BY <2>1, <2>2
<1>7. CASE Recheck(p)
  <2>1. CASE Throw(p)
    BY <1>2, <1>7, <2>1, RecheckEffect, PlainThrow
  <2>2. CASE ~Throw(p)
    <3>1. /\ pc[p] = "recheck" /\ UNCHANGED <<file, made, doc, clock, used, edits>>
          /\ task'[p] = r /\ pc'[p] = "replace" /\ "replace" \in PCs
      BY <1>2, <1>7, <2>2, RecheckEffect DEF PCs
    <3>2. Level(r, "replace")'
      BY <1>2, <3>1 DEF Level, Recorded, Holds, Edited
    <3>. QED BY <1>1, <1>2, <3>1, <3>2, OnwardSteady
  <2>. QED BY <2>1, <2>2
<1>8. CASE Commit(p)
  <2>1. /\ pc[p] = "commit" /\ WriteTransaction(p, "applied") /\ "applied" \in States
        /\ UNCHANGED <<file, made, clock, used, edits>> /\ task'[p] = NoTask
    BY <1>2, <1>8 DEF Commit, States, Finish, budget, TypeOK
  <2>2. \A j \in DOMAIN r.entries : Holds(r.entries[j].target, r.entries[j].applied)
    BY <1>2, <2>1 DEF Level, ControlOf, Backward
  <2>. QED BY <1>1, <2>1, <2>2, OnwardSteady
<1>9. CASE PlanRollback(p)
  <2>1. CASE Throw(p)
    BY <1>2, <1>9, <2>1, PlanEffect, PlainThrow
  <2>2. CASE ~Throw(p)
    <3>1. PICK r2 \in Task :
                 /\ task'[p] = r2 /\ pc'[p] = IF r.op = "apply" THEN "stage" ELSE "mark"
                 /\ SameCall(r2, r) /\ r2.back = r.back
                 /\ r2.pending = {j \in DOMAIN r.entries : file[r.entries[j].target] # r.entries[j].orig}
                 /\ ~r.discard => \A j \in r2.pending : file[r.entries[j].target] = r.entries[j].applied
      <4>1. Sane
        BY <1>2
      <4>. QED BY <1>9, <2>2, <4>1, PlanEffect
    <3>2. pc[p] = "plan" /\ r.back /\ UNCHANGED <<file, made, doc, clock, used, edits>>
      BY <1>2, <1>9, PlanEffect
    <3>. PICK l2 : l2 = IF r.op = "apply" THEN "stage" ELSE "mark"
      OBVIOUS
    <3>3. l2 \in PCs /\ pc'[p] = l2 /\ (r.op = "apply" => l2 = "stage") /\ (r.op = "rollback" => l2 = "mark")
      BY <3>1 DEF PCs
    <3>4. ASSUME r.op = "apply", ~Recorded(r.txn)
          PROVE  r2.pending = {} /\ \A j \in DOMAIN r.entries : Holds(r.entries[j].target, r.entries[j].orig)
      <4>1. \A j \in DOMAIN r.entries : Holds(r.entries[j].target, r.entries[j].orig)
        BY <1>2, <3>2, <3>4 DEF Level
      <4>2. ~r.discard
        BY <1>2, <3>4 DEF ControlOf, Task
      <4>3. \A j \in r2.pending : j \in DOMAIN r.entries /\ file[r.entries[j].target] = r.entries[j].applied
                                  /\ file[r.entries[j].target] # r.entries[j].orig
        BY <3>1, <4>2
      <4>. QED BY <1>2, <4>1, <4>3 DEF Holds, Edited
    <3>5. Level(r2, l2)'
      BY <1>2, <3>1, <3>2, <3>3, <3>4 DEF Level, Recorded, SameCall, Holds, Edited
    <3>. QED BY <1>1, <3>1, <3>2, <3>3, <3>5, OnwardSteady
  <2>. QED BY <2>1, <2>2
<1>10. CASE Mark(p)
  <2>1. /\ pc[p] = "mark" /\ WriteTransaction(p, "rolling-back") /\ "rolling-back" \in States
        /\ UNCHANGED <<file, made, clock, used, edits, task>>
    BY <1>10 DEF Mark, States, budget
  <2>. PICK l2 : l2 = IF r.op = "apply" THEN "plan" ELSE "stage"
    OBVIOUS
  <2>2. l2 \in PCs /\ pc'[p] = l2 /\ task'[p] = r
    BY <1>2, <1>10, <2>1 DEF Mark, Goto, TypeOK, PCs
  <2>3. r.back /\ Recorded(r.txn)' /\ doc'[r.txn].state = "rolling-back"
    BY <1>2, <1>3, <2>1 DEF ControlOf, Forward
  <2>4. Level(r, l2)'
    BY <2>3 DEF Level, Recorded
  <2>. QED BY <1>1, <1>2, <2>1, <2>2, <2>4, OnwardSteady
<1>. QED BY <1>4, <1>5, <1>6, <1>7, <1>8, <1>9, <1>10

(* The target of a running call changes: the earlier transactions that     *)
(* wrote it are not the last to touch it.                                  *)
LEMMA OverwrittenSteady ==
  ASSUME Described, Serial, NEW p \in Procs, pc[p] # "idle", NEW r, r = task[p],
         NEW k \in 1..Len(r.entries), NEW c, file' = [file EXCEPT ![r.entries[k].target] = c],
         Recorded(r.txn), doc[r.txn].state # "applied", UNCHANGED <<doc, edits>>
  PROVE  Successions' /\ Standing' /\ Succeeds(r.integration, r.at, r.entries)'
<1>1. /\ Sane /\ TypeOK /\ Records /\ Successions /\ Standing /\ Anchored(r) /\ Running(p)
      /\ Succeeds(r.integration, r.at, r.entries) /\ r.txn \in Txns /\ r.at \in Int
      /\ r.integration \in Integrations
      /\ DOMAIN r.entries = 1..Len(r.entries) /\ r.entries[k].target \in Files
  BY Here, RunningHere DEF Described, Chained, Sane
<1>2. Successions' /\ Succeeds(r.integration, r.at, r.entries)'
  BY <1>1 DEF Successions, Succeeds, Recorded, Before, LastBefore, Touches, Edited
<1>3. ASSUME NEW u \in Txns, Recorded(u), doc[u].state = "applied", NEW j \in DOMAIN doc[u].entries,
             Last(u, doc[u].entries[j].target)
      PROVE  Holds(doc[u].entries[j].target, doc[u].entries[j].applied)'
  <2>. PICK g \in Files : g = doc[u].entries[j].target
    BY <1>1, <1>3, DocFacts
  <2>1. ASSUME g = r.entries[k].target PROVE FALSE
    <3>1. doc[u].integration \in Integrations /\ doc[u].at \in Int
      BY <1>1, <1>3, DocFacts
    <3>2. g \in Targets[doc[u].integration]
      BY <1>1, <1>3 DEF Records, Within
    <3>3. g \in Targets[r.integration]
      BY <1>1, <2>1 DEF Anchored, Within
    <3>4. doc[u].integration = r.integration
      BY <1>1, <3>1, <3>2, <3>3 DEF Serial
    <3>5. doc[u].at < doc[r.txn].at /\ doc[r.txn].integration = doc[u].integration
      BY <1>1, <1>3, <3>4 DEF Anchored
    <3>6. Touches(r.txn, g)
      BY <1>1, <2>1 DEF Anchored, Touches
    <3>. QED BY <1>1, <1>3, <3>5, <3>6 DEF Last
  <2>2. Holds(g, doc[u].entries[j].applied)
    BY <1>1, <1>3 DEF Standing
  <2>3. file'[g] = file[g]
    BY <1>1, <2>1 DEF TypeOK
  <2>. QED BY <2>2, <2>3 DEF Holds, Edited
<1>4. Standing'
  BY <1>3 DEF Standing, Last, Recorded, Touches, Holds, Edited
<1>. QED BY <1>2, <1>4

LEMMA ReplaceSteady ==
  ASSUME Described, Serial, Chained', NEW p \in Procs, Replace(p)
  PROVE  Described'
<1>. PICK r : r = task[p]
  OBVIOUS
<1>1. pc[p] # "idle" /\ Sane
  BY DEF Replace, Described, Chained
<1>2. /\ r \in Task /\ Running(p) /\ TypeOK /\ Distinct(r.entries)
      /\ DOMAIN r.entries = 1..Len(r.entries) /\ r.op \in {"apply", "rollback"} /\ r.back \in BOOLEAN
      /\ Placed(r, pc[p]) /\ Level(r, pc[p]) /\ r.txn \in Txns /\ r.k \in Nat /\ Len(r.entries) \in Nat
      /\ \A j \in 1..Len(r.entries) : r.entries[j].target \in Files
  BY <1>1, Here, RunningHere DEF Sane
<1>3. /\ pc[p] = "replace" /\ r.k \in 1..Len(r.entries) /\ (r.back => r.k \in r.pending)
      /\ UNCHANGED <<made, doc, clock, used, edits, faults>>
  BY <1>1, ReplaceEffect
<1>4. CASE Throw(p) /\ UNCHANGED file
  BY <1>3, <1>4, PlainThrow
<1>5. Recorded(r.txn) /\ doc[r.txn].state # "applied"
  BY <1>2, <1>3 DEF Placed, Level
<1>6. ASSUME NEW c, file' = [file EXCEPT ![r.entries[r.k].target] = c],
             NEW r2 \in Task, NEW l2 \in PCs, task'[p] = r2, pc'[p] = l2, SameCall(r2, r), Level(r2, l2)'
      PROVE  Described'
  <2>1. Successions' /\ Standing' /\ Succeeds(r.integration, r.at, r.entries)'
    BY <1>1, <1>3, <1>5, <1>6, OverwrittenSteady
  <2>2. Succeeds(task[p].integration, task[p].at, task[p].entries)' /\ Level(task[p], pc[p])'
    BY <1>6, <2>1 DEF SameCall, Succeeds, Level
  <2>3. Steady'
    BY <2>2 DEF Serial, Steady
  <2>. QED BY <2>1, <2>3 DEF Described
<1>7. CASE Advances(p, r)
  <2>1. PICK r2 \in Task, l2 \in {"stage", "commit"} :
                    /\ task'[p] = r2 /\ pc'[p] = l2
                    /\ SameCall(r2, r) /\ r2.back = r.back /\ r2.pending = r.pending
                    /\ r2.k = r.k + 1 /\ (l2 = "commit" => r.k = Len(r.entries))
    BY <1>7 DEF Advances
  <2>0. ~r.back /\ file' = [file EXCEPT ![r.entries[r.k].target] = r.entries[r.k].applied]
    BY <1>7 DEF Advances
  <2>2. ASSUME NEW j \in 1..Len(r.entries), j < r2.k \/ l2 = "commit"
        PROVE  Holds(r.entries[j].target, r.entries[j].applied)'
    <3>1. j <= r.k
      BY <1>2, <1>3, <2>1, <2>2
    <3>2. CASE j = r.k
      BY <1>2, <1>3, <2>0, <3>2 DEF Holds, TypeOK
    <3>3. CASE j # r.k
      <4>1. Holds(r.entries[j].target, r.entries[j].applied)
        BY <1>2, <1>3, <2>0, <3>1, <3>3 DEF Level
      <4>2. r.entries[j].target # r.entries[r.k].target
        BY <1>2, <1>3, <3>3 DEF Distinct
      <4>3. file'[r.entries[j].target] = file[r.entries[j].target]
        BY <1>2, <1>3, <2>0, <4>2 DEF TypeOK
      <4>. QED BY <1>3, <4>1, <4>3 DEF Holds, Edited
    <3>. QED BY <3>2, <3>3
  <2>3. Recorded(r.txn)' /\ doc'[r.txn].state = doc[r.txn].state /\ doc[r.txn].state = "applying"
    BY <1>2, <1>3, <1>5, <2>0 DEF Level, Recorded
  <2>4. Level(r2, l2)'
    BY <1>2, <2>0, <2>1, <2>2, <2>3 DEF Level, SameCall, Recorded
  <2>5. l2 \in PCs
    BY DEF PCs
  <2>. QED BY <1>6, <2>0, <2>1, <2>4, <2>5 DEF Advances
<1>8. CASE Restores(p, r)
  <2>1. PICK r2 \in Task :
                    /\ task'[p] = r2 /\ pc'[p] = "stage"
                    /\ SameCall(r2, r) /\ r2.back = r.back /\ r2.pending = r.pending \ {r.k}
    BY <1>8 DEF Restores
  <2>2. Recorded(r.txn)' /\ doc'[r.txn].state # "applied"
    BY <1>3, <1>5 DEF Recorded
  <2>3. Level(r2, "stage")'
    BY <1>8, <2>1, <2>2 DEF Level, SameCall, Recorded, Restores
  <2>4. "stage" \in PCs
    BY DEF PCs
  <2>. QED BY <1>6, <1>8, <2>1, <2>3, <2>4 DEF Restores
<1>. QED BY <1>1, <1>4, <1>7, <1>8, ReplaceEffect

(* The record of a transaction goes: what it found was left by the one     *)
(* before it, and is there again.                                          *)
LEMMA DroppedSteady ==
  ASSUME Described, Serial, Chained', NEW p \in Procs, pc[p] = "remove", NEW r, r = task[p],
         r.back, r.pending = {}, doc' = [doc EXCEPT ![r.txn] = NoDoc],
         UNCHANGED <<file, task, pc, edits>>
  PROVE  Described'
<1>1. /\ Sane /\ TypeOK /\ Successions /\ Standing /\ Anchored(r) /\ Running(p) /\ Placed(r, "remove")
      /\ Succeeds(r.integration, r.at, r.entries) /\ r.txn \in Txns /\ r.at \in Int
  BY Here, RunningHere DEF Described, Chained, Sane
<1>2. ~Recorded(r.txn)' /\ \A t \in Txns \ {r.txn} : doc'[t] = doc[t]
  BY <1>1 DEF TypeOK, Recorded
<1>3. \A t \in Txns : Recorded(t)' => t # r.txn /\ Recorded(t) /\ doc'[t] = doc[t]
  BY <1>2 DEF Recorded
<1>4. \A t \in Txns \ {r.txn} : Recorded(t) => Recorded(t)' /\ doc'[t] = doc[t]
  BY <1>2 DEF Recorded
<1>5. ASSUME NEW at \in Int, NEW i, NEW es, Succeeds(i, at, es), i = r.integration => at <= r.at
      PROVE  Succeeds(i, at, es)'
  <2>1. ASSUME NEW u \in Txns, Before(u, i, at)', NEW f, LastBefore(u, f, at)'
        PROVE  Before(u, i, at) /\ doc'[u] = doc[u] /\ LastBefore(u, f, at)
    <3>1. Before(u, i, at) /\ doc'[u] = doc[u]
      BY <1>3, <2>1 DEF Before
    <3>2. ASSUME NEW v \in Txns, Before(v, i, at), doc[u].at < doc[v].at
          PROVE  ~Touches(v, f)
      <4>1. v # r.txn
        BY <1>1, <1>5, <3>2 DEF Before, Anchored
      <4>2. Recorded(v)' /\ doc'[v] = doc[v]
        BY <1>4, <3>2, <4>1 DEF Before
      <4>. QED BY <2>1, <3>1, <3>2, <4>2 DEF LastBefore, Before, Touches
    <3>. QED BY <3>1, <3>2 DEF LastBefore, Before
  <2>. QED BY <1>5, <2>1 DEF Succeeds, Edited
<1>6. Succeeds(r.integration, r.at, r.entries)'
  BY <1>1, <1>5
<1>7. Successions'
  <2>1. ASSUME NEW t \in Txns, Recorded(t)'
        PROVE  Succeeds(doc[t].integration, doc[t].at, doc[t].entries)'
    <3>. PICK e : e = doc[t]
      OBVIOUS
    <3>1. t # r.txn /\ Recorded(t) /\ doc'[t] = e /\ e.at \in Int
      BY <1>1, <1>3, <2>1, DocFacts
    <3>2. e.integration = r.integration => e.at <= r.at
      BY <1>1, <3>1 DEF Anchored
    <3>3. Succeeds(e.integration, e.at, e.entries)
      BY <1>1, <3>1 DEF Successions
    <3>4. Succeeds(e.integration, e.at, e.entries)'
      BY <1>5, <3>1, <3>2, <3>3
    <3>. QED BY <3>1, <3>4 DEF Succeeds
  <2>. QED BY <2>1 DEF Successions
<1>8. ASSUME NEW u \in Txns, Recorded(u), u # r.txn, doc[u].state = "applied",
             NEW j \in DOMAIN doc[u].entries, Last(u, doc[u].entries[j].target)'
      PROVE  Holds(doc[u].entries[j].target, doc[u].entries[j].applied)
  <2>. PICK g : g = doc[u].entries[j].target
    OBVIOUS
  <2>1. CASE Last(u, g)
    BY <1>1, <1>8, <2>1 DEF Standing
  <2>2. CASE ~Last(u, g)
    <3>1. PICK v \in Txns : /\ Recorded(v) /\ doc[v].integration = doc[u].integration
                            /\ doc[u].at < doc[v].at /\ Touches(v, g)
      BY <2>2 DEF Last
    <3>2. v = r.txn
      BY <1>4, <1>8, <3>1 DEF Last, Touches
    <3>3. /\ doc[v].entries = r.entries /\ doc[v].integration = r.integration /\ doc[v].at = r.at
      BY <1>1, <3>1, <3>2 DEF Anchored
    <3>4. PICK k \in DOMAIN r.entries : r.entries[k].target = g
      BY <3>1, <3>3 DEF Touches
    <3>5. Before(u, r.integration, r.at)
      BY <1>8, <3>1, <3>3 DEF Before
    <3>6. LastBefore(u, g, r.at)
      <4>1. ASSUME NEW w \in Txns, Before(w, doc[u].integration, r.at), doc[u].at < doc[w].at
            PROVE  ~Touches(w, g)
        <5>1. w # r.txn
          BY <1>1, <4>1 DEF Before, Anchored
        <5>. QED BY <1>4, <1>8, <4>1, <5>1 DEF Before, Last, Touches
      <4>. QED BY <4>1 DEF LastBefore
    <3>7. r.entries[k].orig = doc[u].entries[j].applied \/ Edited(r.entries[k].orig)
      BY <1>1, <1>8, <3>4, <3>5, <3>6 DEF Succeeds
    <3>8. Holds(g, r.entries[k].orig)
      BY <1>1, <3>4 DEF Placed, PlannedAt
    <3>. QED BY <3>7, <3>8 DEF Holds, Edited
  <2>. QED BY <2>1, <2>2
<1>9. Standing'
  <2>1. ASSUME NEW u \in Txns, Recorded(u)', doc'[u].state = "applied", NEW j \in DOMAIN doc'[u].entries,
               Last(u, doc[u].entries[j].target)'
        PROVE  Holds(doc[u].entries[j].target, doc[u].entries[j].applied)'
    <3>1. Recorded(u) /\ u # r.txn /\ doc'[u] = doc[u]
      BY <1>3, <2>1
    <3>2. Holds(doc[u].entries[j].target, doc[u].entries[j].applied)
      BY <1>8, <2>1, <3>1
    <3>. QED BY <3>1, <3>2 DEF Holds, Edited
  <2>. QED BY <2>1 DEF Standing
<1>10. Level(r, "remove")'
  BY <1>2 DEF Level
<1>11. Steady'
  BY <1>6, <1>10 DEF Serial, Steady, Succeeds, Level
<1>. QED BY <1>7, <1>9, <1>11 DEF Described

LEMMA RemoveSteady ==
  ASSUME Described, Serial, Chained', NEW p \in Procs, Remove(p)
  PROVE  Described'
<1>. PICK r : r = task[p]
  OBVIOUS
<1>1. Sane /\ TypeOK /\ pc[p] # "idle"
  BY DEF Remove, Described, Chained, Sane
<1>2. /\ pc[p] = "remove" /\ r.back /\ r.pending = {}
      /\ UNCHANGED <<file, clock, used, edits, faults>>
  BY <1>1, RemoveEffect
<1>3. CASE Throw(p) /\ UNCHANGED <<made, doc>>
  BY <1>2, <1>3, PlainThrow
<1>4. CASE doc' = [doc EXCEPT ![r.txn] = NoDoc] /\ UNCHANGED <<made, task, pc>>
  BY <1>2, <1>4, DroppedSteady
<1>5. CASE doc' = doc /\ UNCHANGED <<made, task, pc>>
  <2>1. r \in Task /\ SameCall(r, r) /\ Level(r, "remove") /\ "remove" \in PCs
    BY <1>1, <1>2, Here, RunningHere DEF SameCall, PCs
  <2>2. Level(r, "remove")'
    BY <1>2, <1>5, <2>1 DEF Level, Recorded
  <2>. QED BY <1>1, <1>2, <1>5, <2>1, <2>2, OnwardSteady
<1>6. CASE doc' = doc /\ task'[p] = NoTask
  <2>1. Successions' /\ Standing'
    BY <1>2, <1>6 DEF Described, Successions, Standing, Succeeds, Recorded, Before, LastBefore, Last,
                      Touches, Holds, Edited
  <2>2. Steady'
    BY <1>6 DEF Serial, Steady, Running
  <2>. QED BY <2>1, <2>2 DEF Described
<1>. QED BY <1>1, <1>3, <1>4, <1>5, <1>6, RemoveEffect

(* What the one failing call could break is a commit written and reported  *)
(* failed: the state must then be written again before anything is undone. *)
LEMMA InterruptSteady ==
  ASSUME Described, Serial, MaxFaults <= 1, Chained', NEW p \in Procs,
         DirectoryGone(p) \/ Fault(p) \/ Crash(p)
  PROVE  Described'
<1>. PICK r : r = task[p]
  OBVIOUS
<1>1. pc[p] # "idle" /\ Sane /\ TypeOK /\ Records /\ faults \in Nat
  BY DEF DirectoryGone, Writing, Fault, Crash, Described, Chained, Sane, TypeOK
<1>2. r.txn \in Txns
  BY <1>1, Here
<1>3. CASE DirectoryGone(p)
  <2>1. ~Recorded(r.txn) /\ Throw(p) /\ UNCHANGED <<file, made, doc, clock, used, edits, faults>>
    BY <1>1, <1>2, <1>3 DEF DirectoryGone, Records, disk, budget
  <2>2. faults' >= faults
    BY <1>1, <2>1
  <2>. QED BY <1>1, <2>1, <2>2, ThrowSteady
<1>4. CASE Fault(p)
  <2>1. faults = 0 /\ faults' = 1
    BY <1>1, <1>4, BoundsAssumption DEF Fault
  <2>2. Throw(p) /\ UNCHANGED <<file, made, clock, used, edits>>
    BY <1>4 DEF Fault
  <2>3. \/ doc' = doc
        \/ /\ pc[p] # "copy"
           /\ \E s \in States : WriteTransaction(p, s) /\ (s = "applied" => pc[p] = "commit")
    BY <1>4, Writings DEF Fault, States
  <2>4. \/ doc' = doc /\ faults' >= faults
        \/ /\ pc[p] # "copy" /\ faults' > 0
           /\ \E s \in States : WriteTransaction(p, s) /\ (s = "applied" => pc[p] = "commit")
    BY <2>1, <2>3
  <2>. QED BY <1>1, <2>1, <2>2, <2>4, ThrowSteady
<1>5. CASE Crash(p)
  <2>1. task'[p] = NoTask /\ UNCHANGED <<file, made, doc, clock, used, edits>>
    BY <1>1, <1>5 DEF Crash, Finish, TypeOK
  <2>. QED BY <1>1, <2>1, OnwardSteady
<1>. QED BY <1>3, <1>4, <1>5

(* A new call on an unchanged disk.                                        *)
LEMMA OpenedSteady ==
  ASSUME Described, Serial, Chained', NEW p \in Procs, NEW r, task'[p] = r,
         UNCHANGED <<file, doc, edits>>, Succeeds(r.integration, r.at, r.entries), Level(r, pc[p])'
  PROVE  Described'
<1>1. Successions' /\ Standing'
  BY DEF Described, Successions, Standing, Succeeds, Recorded, Before, LastBefore, Last,
         Touches, Holds, Edited
<1>2. Succeeds(r.integration, r.at, r.entries)'
  BY DEF Succeeds, Recorded, Before, LastBefore, Touches, Edited
<1>3. Steady'
  BY <1>2 DEF Serial, Steady, Succeeds, Level
<1>. QED BY <1>1, <1>3 DEF Described

LEMMA StartApplySteady ==
  ASSUME Described, Serial, Chained', NEW p \in Procs, StartApply(p)
  PROVE  Described'
<1>1. PICK i \in Integrations, n \in 1..MaxOps, t \in Txns \ used, d \in ClockSteps :
       \E tgt \in [1..n -> Targets[i]], new \in [1..n -> ToolContents] :
         /\ \A a, b \in 1..n : tgt[a] = tgt[b] => a = b
         /\ \A a \in 1..n : new[a] # file[tgt[a]] /\ Alone(p, tgt[a])
         /\ clock' = clock + d
         /\ used' = used \cup {t}
         /\ made' = made \cup {t}
         /\ task' = [task EXCEPT ![p] =
              [op |-> "apply", back |-> FALSE, discard |-> FALSE, txn |-> t,
               integration |-> i, at |-> clock + d, k |-> 1, pending |-> {},
               entries |-> [a \in 1..n |-> [target |-> tgt[a], orig |-> file[tgt[a]],
                                            applied |-> new[a]]]]]
  BY DEF StartApply
<1>2. PICK tgt \in [1..n -> Targets[i]], new \in [1..n -> ToolContents] :
         /\ \A a, b \in 1..n : tgt[a] = tgt[b] => a = b
         /\ \A a \in 1..n : new[a] # file[tgt[a]] /\ Alone(p, tgt[a])
         /\ clock' = clock + d
         /\ used' = used \cup {t}
         /\ made' = made \cup {t}
         /\ task' = [task EXCEPT ![p] =
              [op |-> "apply", back |-> FALSE, discard |-> FALSE, txn |-> t,
               integration |-> i, at |-> clock + d, k |-> 1, pending |-> {},
               entries |-> [a \in 1..n |-> [target |-> tgt[a], orig |-> file[tgt[a]],
                                            applied |-> new[a]]]]]
  BY <1>1
<1>. PICK es : es = [a \in 1..n |-> [target |-> tgt[a], orig |-> file[tgt[a]], applied |-> new[a]]]
  OBVIOUS
<1>3. DOMAIN es = 1..n /\ \A j \in 1..n : es[j].target = tgt[j] /\ es[j].orig = file[tgt[j]]
  OBVIOUS
<1>. PICK at : at = clock + d
  OBVIOUS
<1>. PICK r : r = [op |-> "apply", back |-> FALSE, discard |-> FALSE, txn |-> t,
                   integration |-> i, at |-> at, k |-> 1, pending |-> {}, entries |-> es]
  OBVIOUS
<1>4. /\ r.txn = t /\ r.integration = i /\ r.at = at /\ r.entries = es
      /\ r.op = "apply" /\ ~r.back /\ r.pending = {}
  OBVIOUS
<1>5. task'[p] = r /\ pc'[p] = "copy" /\ UNCHANGED <<file, doc, edits>>
  <2>1. task' = [task EXCEPT ![p] = r]
    BY <1>2
  <2>. QED BY <2>1 DEF StartApply, Goto, budget, Described, Chained, Sane, TypeOK
<1>6. d \in Int /\ d > 0 /\ clock \in Int /\ Sane /\ Records /\ Standing
  BY ClockAssumption DEF Serial, Described, Chained, Sane, TypeOK
<1>7. ~Recorded(t)
  BY <1>6 DEF Records
<1>8. \A u \in Txns : Recorded(u) => doc[u].at \in Int /\ doc[u].at < at
  BY <1>6, DocFacts DEF Records
<1>9. Succeeds(i, at, es)
  <2>1. ASSUME NEW u \in Txns, Before(u, i, at), doc[u].state = "applied",
               NEW j \in DOMAIN doc[u].entries, NEW k \in DOMAIN es,
               doc[u].entries[j].target = es[k].target, LastBefore(u, es[k].target, at)
        PROVE  es[k].orig = doc[u].entries[j].applied \/ Edited(es[k].orig)
    <3>1. Last(u, es[k].target)
      BY <1>8, <2>1 DEF LastBefore, Last, Before
    <3>2. Holds(es[k].target, doc[u].entries[j].applied)
      BY <1>6, <2>1, <3>1 DEF Standing, Before
    <3>. QED BY <1>3, <3>2 DEF Holds
  <2>. QED BY <2>1 DEF Succeeds
<1>10. \A j \in DOMAIN es : Holds(es[j].target, es[j].orig)
  BY <1>3 DEF Holds
<1>11. Level(r, pc[p])'
  BY <1>4, <1>5, <1>7, <1>10 DEF Level, Recorded, Holds, Edited
<1>. QED BY <1>4, <1>5, <1>9, <1>11, OpenedSteady

LEMMA StartRollbackSteady ==
  ASSUME Described, Serial, Chained', NEW p \in Procs, NEW t \in Txns, NEW discard \in BOOLEAN,
         StartRollback(p, t, discard)
  PROVE  Described'
<1>. PICK r : r = [op |-> "rollback", back |-> TRUE, discard |-> discard, txn |-> t,
                   integration |-> doc[t].integration, at |-> doc[t].at, k |-> 0, pending |-> {},
                   entries |-> doc[t].entries]
  OBVIOUS
<1>1. /\ r.txn = t /\ r.integration = doc[t].integration /\ r.at = doc[t].at
      /\ r.entries = doc[t].entries /\ r.op = "rollback" /\ r.back
  OBVIOUS
<1>2. task'[p] = r /\ pc'[p] = "plan" /\ UNCHANGED <<file, doc, edits>>
  <2>1. task' = [task EXCEPT ![p] = r]
    BY DEF StartRollback
  <2>. QED BY <2>1 DEF StartRollback, Goto, disk, budget, Described, Chained, Sane, TypeOK
<1>3. Recorded(t)
  BY DEF StartRollback, Newest, Recorded
<1>4. Succeeds(r.integration, r.at, r.entries)
  BY <1>1, <1>3 DEF Described, Successions, Succeeds
<1>5. Level(r, pc[p])'
  BY <1>1, <1>2, <1>3 DEF Level, Recorded
<1>. QED BY <1>2, <1>4, <1>5, OpenedSteady

(* The user's own change is always allowed for.                            *)
LEMMA EditSteady ==
  ASSUME Described, Chained', NEW f \in Files, Edit(f)
  PROVE  Described'
<1>1. PICK c \in UserContents \cup {Absent} : file' = [file EXCEPT ![f] = c]
  BY DEF Edit
<1>2. /\ UNCHANGED <<doc, task, pc, faults>> /\ edits' = edits + 1 /\ edits \in Nat
      /\ TypeOK /\ Sane /\ Successions /\ Standing /\ Steady
  BY DEF Edit, Described, Chained, Sane, TypeOK
<1>3. c \notin ToolContents /\ edits' > 0
  BY <1>2, ContentsAssumption
<1>4. \A x : \A g \in Files : Holds(g, x) => Holds(g, x)'
  BY <1>1, <1>2, <1>3 DEF Holds, Edited, TypeOK
<1>5. \A x : Edited(x) => Edited(x)'
  BY <1>2 DEF Edited
<1>6. ASSUME NEW i, NEW at, NEW es, Succeeds(i, at, es) PROVE Succeeds(i, at, es)'
  BY <1>2, <1>5, <1>6 DEF Succeeds, Before, Recorded, LastBefore, Touches
<1>7. Successions'
  <2>1. ASSUME NEW t \in Txns, Recorded(t)'
        PROVE  Succeeds(doc[t].integration, doc[t].at, doc[t].entries)'
    <3>. PICK e : e = doc[t]
      OBVIOUS
    <3>1. Succeeds(e.integration, e.at, e.entries)'
      BY <1>2, <1>6, <2>1 DEF Successions, Recorded
    <3>. QED BY <1>2, <3>1 DEF Succeeds
  <2>. QED BY <2>1 DEF Successions
<1>8. Standing'
  <2>1. ASSUME NEW u \in Txns, Recorded(u), doc[u].state = "applied", NEW j \in DOMAIN doc[u].entries,
               Last(u, doc[u].entries[j].target)
        PROVE  Holds(doc[u].entries[j].target, doc[u].entries[j].applied)'
    <3>. PICK g, x : g = doc[u].entries[j].target /\ x = doc[u].entries[j].applied
      OBVIOUS
    <3>1. g \in Files /\ Holds(g, x)
      BY <1>2, <2>1, DocFacts DEF Standing
    <3>2. Holds(g, x)'
      BY <1>4, <3>1
    <3>. QED BY <1>2, <3>2 DEF Holds
  <2>. QED BY <1>2, <2>1 DEF Standing, Last, Recorded, Touches, Holds
<1>9. Steady'
  <2>1. ASSUME NEW q \in Procs, Running(q)
        PROVE  Succeeds(task[q].integration, task[q].at, task[q].entries)' /\ Level(task[q], pc[q])'
    <3>. PICK r, l : r = task[q] /\ l = pc[q]
      OBVIOUS
    <3>1. l # "idle"
      BY <1>2, <2>1 DEF Sane, Control, ControlOf, Running
    <3>2. \A j \in DOMAIN r.entries : r.entries[j].target \in Files
      BY <1>2, <3>1, Here
    <3>3. Succeeds(r.integration, r.at, r.entries) /\ Level(r, l)
      BY <1>2, <2>1 DEF Steady
    <3>4. Succeeds(r.integration, r.at, r.entries)'
      BY <1>6, <3>3
    <3>5. Level(r, l)'
      BY <1>2, <1>4, <3>2, <3>3 DEF Level, Recorded
    <3>. QED BY <1>2, <3>4, <3>5 DEF Succeeds, Level
  <2>. QED BY <1>2, <2>1 DEF Steady, Running
<1>. QED BY <1>7, <1>8, <1>9 DEF Described

LEMMA IdleSteady ==
  ASSUME Described, Chained', UNCHANGED <<file, doc, pc, task, edits, faults>>
  PROVE  Described'
<1>1. Successions' /\ Standing'
  BY DEF Described, Successions, Standing, Succeeds, Recorded, Before, LastBefore, Last,
         Touches, Holds, Edited
<1>2. Steady'
  BY DEF Described, Steady, Level, Running, Succeeds, Recorded, Before, LastBefore, Touches, Holds, Edited
<1>. QED BY <1>1, <1>2 DEF Described

LEMMA NextSteady ==
  ASSUME Serial, MaxFaults <= 1, Described, [Next]_vars
  PROVE  Described'
<1>1. Chained'
  BY NextChained DEF Described
<1>2. ASSUME NEW p \in Procs, Step(p) \/ StartApply(p) \/ Fault(p) \/ Crash(p) PROVE Described'
  BY <1>1, <1>2, CallSteady, ReplaceSteady, RemoveSteady, InterruptSteady, StartApplySteady DEF Step
<1>3. ASSUME NEW p \in Procs, NEW t \in Txns, RefuseOrder(p, t) PROVE Described'
  BY <1>1, <1>3, IdleSteady DEF RefuseOrder, disk, budget
<1>4. CASE UNCHANGED vars
  BY <1>1, <1>4, IdleSteady DEF vars
<1>. QED BY <1>1, <1>2, <1>3, <1>4, StartRollbackSteady, EditSteady DEF Next

LEMMA InitSteady == Init => Described
<1>. SUFFICES ASSUME Init PROVE Described
  OBVIOUS
<1>1. \A p \in Procs : ~Running(p)
  BY DEF Init, Running
<1>2. \A t \in Txns : ~Recorded(t)
  BY DEF Init, Recorded
<1>. QED BY <1>1, <1>2, InitChained DEF Described, Successions, Standing, Steady

(* What the newest applied transaction of an integration recorded is what  *)
(* its targets hold, but for the user's own changes: after crashes, one    *)
(* failing call, refused and discarding rollbacks, whichever windows they  *)
(* hit.  A second failing call would break it: a commit that is written    *)
(* but reported failed, and the "rolling-back" that does not get through.  *)
THEOREM RestorableAccurate ==
  ASSUME Serial, MaxFaults <= 1 PROVE Spec => []RestorableMatchesDisk
<1>1. Described /\ [Next]_vars => Described'
  BY NextSteady
<1>2. Described => RestorableMatchesDisk
  <2>. SUFFICES ASSUME Described, NEW t \in Txns, Newest(t), doc[t].state = "applied",
                       NEW j \in DOMAIN doc[t].entries
                PROVE  Holds(doc[t].entries[j].target, doc[t].entries[j].applied)
    BY DEF RestorableMatchesDisk, Holds, Edited
  <2>1. Sane /\ Standing /\ Recorded(t)
    BY DEF Described, Chained, Newest, Recorded
  <2>2. ASSUME NEW v \in Txns, Recorded(v), doc[v].integration = doc[t].integration
        PROVE  ~(doc[t].at < doc[v].at)
    <3>1. v # t => Later(t, v)
      BY <2>2 DEF Newest, Recorded
    <3>2. doc[v].at \in Int /\ doc[t].at \in Int
      BY <2>1, <2>2, DocFacts
    <3>. QED BY <3>1, <3>2 DEF Later
  <2>3. Last(t, doc[t].entries[j].target)
    BY <2>2 DEF Last
  <2>. QED BY <2>1, <2>3 DEF Standing
<1>. QED BY <1>1, <1>2, InitSteady, PTL DEF Spec

=============================================================================
