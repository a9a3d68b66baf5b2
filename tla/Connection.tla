------------------------------ MODULE Connection ------------------------------
(***************************************************************************)
(* The connection of one agent on one profile: the credential Hub issued,  *)
(* the binding in the credential store, and the agent's configuration with *)
(* its recorded transactions.  Three commands of apps/cli work on them:    *)
(*   configure  configureAgent (run, connect, switch)                      *)
(*   restore    executeRestore                                             *)
(*   renew      runtimeCredentialForLaunch                                 *)
(* each a sequence of calls to Hub, to the credential store and to the     *)
(* config engine, any of which may fail, and after any of which the        *)
(* process may die.  ConfigExecutor models the engine step by step; here   *)
(* its apply and rollback are single steps on a stack of transactions.     *)
(***************************************************************************)
EXTENDS Integers, Sequences

CONSTANTS
  Procs,       \* CLI processes
  Models,      \* public deployments
  Protocols,   \* endpoints
  Serves,      \* [Models -> SUBSET Protocols]
  OwnKeys,     \* API keys the user made on Hub himself (--key)
  NoBinding,   \* nothing stored for the agent
  Original,    \* the configuration before the first connection
  NoTask, Free,
  Overlap,     \* commands that may run while another one of them runs
  Situations,  \* which of the situations below occur
  MaxChain,    \* 16 in the code: restore targets a binding can hold
  MaxCalls,    \* bound: configure and renew commands
  MaxCreds,    \* bound: credentials Hub issues
  MaxMishaps,  \* bound: failing calls, and process deaths
  MaxLeaving   \* bound: models leaving the catalog, keys revoked on Hub

(* Situations of the environment that a run includes or leaves out:        *)
(*  reselect    a command selects what the configuration already holds     *)
(*  damage      a process dying in the config engine leaves a transaction  *)
(*              directory without a readable record                        *)
(*  departure   models leave the catalog                                   *)
(*  withdrawal  somebody revokes a credential on Hub                       *)
(*  split       Hub's two revocation endpoints know only their own kind    *)
ASSUME ServesAssumption == Serves \in [Models -> SUBSET Protocols]
ASSUME BoundsAssumption == MaxCreds \in Nat /\ MaxChain \in Nat
ASSUME KeysAssumption == OwnKeys \cap (1..MaxCreds) = {} /\ "auto" \notin OwnKeys /\ "runtime" \notin OwnKeys

VARIABLES
  hub,       \* [Creds -> [status, kind, grants]]: the credentials Hub knows
  catalog,   \* models Hub currently offers
  due,       \* credentials inside their rotation window
  binding,   \* the stored binding
  config,    \* what the agent's configuration offers
  log,       \* recorded transactions, the newest first
  damaged,   \* an unreadable transaction directory exists
  lock,      \* holder of the rotation lock
  task,      \* [Procs -> Task \cup {NoTask}]: step and locals of each command
  calls, mishaps, leaving, stamp,   \* counters; stamp numbers the transactions
  excused    \* history: credentials that a failing call or a death left half done

vars == <<hub, catalog, due, binding, config, log, damaged, lock, task,
          calls, mishaps, leaving, stamp, excused>>
counters == <<calls, mishaps, leaving, stamp>>

Creds == 1..MaxCreds \cup OwnKeys
NoTxn == 0
Target == [proto : Protocols, model : Models, models : SUBSET Models, txn : Nat]
Binding == [cred : Creds, kind : {"user", "runtime"}, proto : Protocols, model : Models,
            models : SUBSET Models, txn : Nat, chain : Seq(Target)]
Setup == [proto : Protocols, model : Models, models : SUBSET Models]
Steps == {"ensure", "widen", "issue", "apply", "verify", "save", "undo", "discard",
          "release", "lock", "recheck", "confirm", "rollback", "rebind", "retire",
          "unbind", "drop"}
Modes == {"auto", "runtime"} \cup OwnKeys
Task == [cmd : {"configure", "restore", "renew"}, at : Steps, mode : Modes,
         want : Setup \cup {Original},        \* the configuration asked for
         prev : Binding \cup {NoBinding},     \* the binding as loaded
         new : Binding \cup {NoBinding},      \* the binding in the making
         txn : Nat, unsaved : BOOLEAN]
ASSUME MarkersAssumption ==
  NoBinding \notin Binding /\ Original \notin Setup /\ NoTask \notin Task /\ Free \notin Procs

TypeOK ==
  /\ hub \in [Creds -> [status : {"unborn", "live", "revoked", "withdrawn"},
                        kind : {"user", "runtime"}, grants : SUBSET Models]]
  /\ catalog \subseteq Models /\ due \subseteq Creds /\ excused \subseteq Creds
  /\ binding \in Binding \cup {NoBinding}
  /\ config \in Setup \cup {Original}
  /\ log \in Seq([id : Nat \ {0}, before : Setup \cup {Original}])
  /\ damaged \in BOOLEAN
  /\ lock \in Procs \cup {Free}
  /\ task \in [Procs -> Task \cup {NoTask}]
  /\ calls \in Nat /\ mishaps \in Nat /\ leaving \in Nat /\ stamp \in Nat

Init ==
  /\ hub = [c \in Creds |->
       IF c \in OwnKeys THEN [status |-> "live", kind |-> "user", grants |-> Models]
       ELSE [status |-> "unborn", kind |-> "user", grants |-> {}]]
  /\ catalog = Models /\ due = {} /\ excused = {}
  /\ binding = NoBinding /\ config = Original /\ log = <<>> /\ damaged = FALSE
  /\ lock = Free
  /\ task = [p \in Procs |-> NoTask]
  /\ calls = 0 /\ mishaps = 0 /\ leaving = 0 /\ stamp = 0

-----------------------------------------------------------------------------
(* Helpers *)

At(p, step) == task[p] # NoTask /\ task[p].at = step
MayStart(p, cmd) ==
  /\ task[p] = NoTask
  /\ \A q \in Procs : task[q] # NoTask => {cmd, task[q].cmd} \subseteq Overlap

Goto(p, step) == task' = [task EXCEPT ![p].at = step]
GotoWith(p, step, b) == task' = [task EXCEPT ![p] = [@ EXCEPT !.at = step, !.new = b]]
End(p) ==
  /\ task' = [task EXCEPT ![p] = NoTask]
  /\ lock' = IF lock = p THEN Free ELSE lock

(* One of the calls fails.                                                 *)
Mishap == mishaps < MaxMishaps /\ mishaps' = mishaps + 1
Fine == UNCHANGED mishaps

Newest(t) == log # <<>> /\ Head(log).id = t
Offered(proto) == {m \in catalog : proto \in Serves[m]}
Revocable(c, endpoint) ==
  hub[c].status = "live" /\ ("split" \notin Situations \/ hub[c].kind = endpoint)

(* DELETE on one of Hub's endpoints.  A credential it does not know is     *)
(* NOT_FOUND, which changes nothing.                                       *)
Revoke(c, endpoint) ==
  \/ /\ Fine
     /\ hub' = IF Revocable(c, endpoint) THEN [hub EXCEPT ![c].status = "revoked"] ELSE hub
     /\ UNCHANGED excused
  \/ /\ Mishap
     /\ excused' = excused \cup {c}
     /\ UNCHANGED hub

(* POST for a new credential that grants the models ms.                    *)
Unborn == {c \in 1..MaxCreds : hub[c].status = "unborn"}
NextCred == CHOOSE c \in Unborn : TRUE
Born(kind, ms) == [hub EXCEPT ![NextCred] = [status |-> "live", kind |-> kind, grants |-> ms]]

Fresh(c, kind, s) ==
  [cred |-> c, kind |-> kind, proto |-> s.proto, model |-> s.model, models |-> s.models,
   txn |-> NoTxn, chain |-> <<>>]
(* Mutant: the restore target keeps the default model only.                *)
TargetDefault(b) == [proto |-> b.proto, model |-> b.model, models |-> {b.model}, txn |-> b.txn]
TargetOf(b) == [proto |-> b.proto, model |-> b.model, models |-> b.models, txn |-> b.txn]

SetupOf(b) == [proto |-> b.proto, model |-> b.model, models |-> b.models]
Survives(b, proto) == b # NoBinding /\ b.kind = "user" /\ b.proto = proto

-----------------------------------------------------------------------------
(* configure *)

(* The binding is loaded and the model set computed: what was selected,    *)
(* and, where the permanent key survives, every earlier model the catalog  *)
(* still offers on the endpoint (modelsAfterSwitch).                       *)
StartConfigure(p) ==
  /\ MayStart(p, "configure")
  /\ calls < MaxCalls /\ calls' = calls + 1
  /\ \E mode \in Modes, proto \in Protocols :
       \E selected \in SUBSET Offered(proto) : \E m \in selected :
         LET carried == IF mode = "auto" /\ Survives(binding, proto)
                        THEN binding.models \cap Offered(proto) ELSE {}
             want == [proto |-> proto, model |-> m, models |-> selected \cup carried]
         IN /\ want # config \/ "reselect" \in Situations
            /\ task' = [task EXCEPT ![p] =
                 [cmd |-> "configure", at |-> "ensure", mode |-> mode, want |-> want,
                  prev |-> binding, new |-> NoBinding, txn |-> NoTxn, unsaved |-> FALSE]]
  /\ UNCHANGED <<hub, catalog, due, binding, config, log, damaged, lock, mishaps, leaving,
                 stamp, excused>>

(* ensureCredential up to its call for a new or a wider credential.        *)
Ensure(p) ==
  /\ At(p, "ensure")
  /\ LET want == task[p].want
         mode == task[p].mode
         wider == [binding EXCEPT !.model = want.model, !.models = want.models \cup @]
     IN \/ /\ mode \in OwnKeys /\ hub[mode].status = "live" /\ Fine
           /\ GotoWith(p, "apply", IF binding # NoBinding /\ binding.cred = mode THEN binding
                                   ELSE Fresh(mode, "user", want))
           /\ UNCHANGED lock
        \/ /\ mode \in OwnKeys /\ (Mishap \/ (hub[mode].status # "live" /\ Fine))
           /\ End(p)
        \/ /\ mode = "auto" /\ Survives(binding, want.proto) /\ Fine
           /\ GotoWith(p, IF want.models \subseteq binding.models THEN "apply" ELSE "widen", wider)
           /\ UNCHANGED lock
        \/ /\ mode = "runtime" \/ (mode = "auto" /\ ~Survives(binding, want.proto))
           /\ Goto(p, "issue") /\ Fine
           /\ UNCHANGED lock
  /\ UNCHANGED <<hub, catalog, due, binding, config, log, damaged, calls, leaving, stamp, excused>>

(* PATCH of the permanent key to the union, read back.  A key Hub no       *)
(* longer has is replaced.  The mutant sends the missing models only.      *)
WidenedByDelta(b) == [hub EXCEPT ![b.cred].grants = b.models \ @]
Widened(b) == [hub EXCEPT ![b.cred].grants = b.models]
Widen(p) ==
  /\ At(p, "widen")
  /\ LET b == task[p].new IN
        \/ /\ hub[b.cred].status = "live" /\ Fine
           /\ hub' = Widened(b) /\ Goto(p, "apply") /\ UNCHANGED lock
        \/ /\ hub[b.cred].status # "live" /\ Fine
           /\ Goto(p, "issue") /\ UNCHANGED <<hub, lock>>
        \/ /\ hub[b.cred].status = "live" /\ Mishap
           /\ hub' \in {hub, Widened(b)} /\ End(p)
  /\ UNCHANGED <<catalog, due, binding, config, log, damaged, calls, leaving, stamp, excused>>

(* What the command will store for the credential c it is issued: a fresh  *)
(* binding, the binding of the restore target, or the same with a new      *)
(* credential.                                                             *)
Draft(p, c) ==
  LET t == task[p]
      kind == IF t.cmd = "configure" /\ t.mode = "auto" THEN "user" ELSE "runtime"
      fresh == Fresh(c, kind, t.want)
  IN CASE t.cmd = "configure" -> fresh
       [] t.cmd = "restore" -> [fresh EXCEPT !.txn = Head(t.prev.chain).txn, !.chain = Tail(t.prev.chain)]
       [] t.cmd = "renew" -> [fresh EXCEPT !.txn = t.prev.txn, !.chain = t.prev.chain]

(* createApiKey or createRuntimeCredential: issued, refused, or issued     *)
(* while the answer is lost.                                               *)
Issue(p) ==
  /\ At(p, "issue")
  /\ Unborn # {}
  /\ LET b == Draft(p, NextCred)
         born == Born(b.kind, b.models)
     IN \/ /\ hub' = born /\ Fine
           /\ GotoWith(p, IF task[p].cmd = "configure" THEN "apply" ELSE "confirm", b)
           /\ UNCHANGED <<excused, lock>>
        \/ /\ Mishap /\ End(p)
           /\ \/ UNCHANGED <<hub, excused>>
              \/ hub' = born /\ excused' = excused \cup {b.cred}
  /\ UNCHANGED <<catalog, due, binding, config, log, damaged, calls, leaving, stamp>>

(* runIntegrationChange up to executor.apply: nothing to change, applied,  *)
(* undone by the engine, or undone incompletely.                           *)
Pushed == <<[id |-> stamp + 1, before |-> config]>> \o log
Apply(p) ==
  /\ At(p, "apply")
  /\ LET want == task[p].want IN
     \/ /\ config = want /\ Fine
        /\ Goto(p, "save")
        /\ UNCHANGED <<config, log, stamp>>
     \/ /\ config # want /\ Fine
        /\ config' = want /\ log' = Pushed /\ stamp' = stamp + 1
        /\ task' = [task EXCEPT ![p] = [@ EXCEPT !.at = "verify", !.txn = stamp + 1]]
     \/ /\ config # want /\ Mishap
        /\ Goto(p, "discard")
        /\ \/ UNCHANGED <<config, log, stamp>>
           \/ config' \in {config, want} /\ log' = Pushed /\ stamp' = stamp + 1
  /\ UNCHANGED <<hub, catalog, due, binding, damaged, lock, calls, leaving, excused>>

(* adapter.verify finds the change invalid, or throws: roll back.          *)
Verify(p) ==
  /\ At(p, "verify")
  /\ \/ Fine /\ Goto(p, "save")
     \/ Mishap /\ Goto(p, "undo")
  /\ UNCHANGED <<hub, catalog, due, binding, config, log, damaged, lock, calls, leaving,
                 stamp, excused>>

(* bindings.save, with the previous binding on top of the restore chain.   *)
(* A chain the store cannot parse is refused.                              *)
(* Mutant: the chain is cut after the previous binding.                    *)
ChainedOnce(p) == IF task[p].prev = NoBinding THEN <<>> ELSE <<TargetOf(task[p].prev)>>
Chained(p) ==
  LET prev == task[p].prev IN
    IF prev = NoBinding THEN task[p].new.chain ELSE <<TargetOf(prev)>> \o prev.chain
Saved(p) ==
  [task[p].new EXCEPT !.chain = Chained(p), !.txn = IF task[p].txn = NoTxn THEN @ ELSE task[p].txn]
Save(p) ==
  /\ At(p, "save")
  /\ \/ /\ Len(Chained(p)) <= MaxChain /\ Fine
        /\ binding' = Saved(p)
        /\ Goto(p, "release")
     \/ /\ Mishap \/ (Len(Chained(p)) > MaxChain /\ Fine)
        /\ Goto(p, "undo")
        /\ UNCHANGED binding
  /\ UNCHANGED <<hub, catalog, due, config, log, damaged, lock, calls, leaving, stamp, excused>>

(* executor.rollback of transaction t: refused unless t is the newest, and *)
(* a failing one may have restored the file without removing the record.   *)
RollsBack(t) ==
  Newest(t) /\ Fine /\ config' = Head(log).before /\ log' = Tail(log)
RollbackFails(t) ==
  /\ Mishap \/ (~Newest(t) /\ Fine)
  /\ config' \in {config} \cup (IF Newest(t) THEN {Head(log).before} ELSE {})
  /\ UNCHANGED log

Undo(p) ==
  /\ At(p, "undo")
  /\ IF task[p].txn = NoTxn THEN Fine /\ UNCHANGED <<config, log>>
     ELSE RollsBack(task[p].txn) \/ RollbackFails(task[p].txn)
  /\ Goto(p, "discard")
  /\ UNCHANGED <<hub, catalog, due, binding, damaged, lock, calls, leaving, stamp, excused>>

(* revokeIfIssued: what this call did not issue is left alone.  Mutants:   *)
(* the credential in use is revoked whatever its origin; the previous one  *)
(* is forgotten.                                                           *)
AlwaysIssued(p) == TRUE
NeverReplaced(p) == FALSE
Issued(p) == task[p].prev = NoBinding \/ task[p].new.cred # task[p].prev.cred
RevokeNew(p) ==
  /\ At(p, "discard")
  /\ IF Issued(p) THEN Revoke(task[p].new.cred, task[p].new.kind) ELSE Fine /\ UNCHANGED <<hub, excused>>
  /\ End(p)
  /\ UNCHANGED <<catalog, due, binding, config, log, damaged, calls, leaving, stamp>>

Replaced(p) == task[p].prev # NoBinding /\ task[p].prev.cred # task[p].new.cred
RevokePrevious(p) ==
  /\ At(p, "release")
  /\ IF Replaced(p) THEN Revoke(task[p].prev.cred, task[p].prev.kind) ELSE Fine /\ UNCHANGED <<hub, excused>>
  /\ End(p)
  /\ UNCHANGED <<catalog, due, binding, config, log, damaged, calls, leaving, stamp>>

-----------------------------------------------------------------------------
(* restore, and the renewal of a runtime credential *)

(* The backups are listed, strictly, and the newest transaction is the one *)
(* restored.  When the stored binding belongs to it and has a restore      *)
(* target, that target is reissued first, if the catalog still offers it.  *)
(* Mutant: only what a binding describes can be restored.                  *)
RestorableBound == log # <<>> /\ ~damaged /\ binding # NoBinding
Restorable == log # <<>> /\ ~damaged
StartRestore(p) ==
  /\ MayStart(p, "restore")
  /\ Restorable
  /\ LET owns == binding # NoBinding /\ binding.txn = Head(log).id
         reissue == owns /\ binding.chain # <<>>
         target == Head(binding.chain)
     IN /\ reissue => target.model \in Offered(target.proto)
        /\ task' = [task EXCEPT ![p] =
             [cmd |-> "restore", at |-> IF reissue THEN "issue" ELSE "rollback",
              mode |-> "runtime", want |-> IF reissue THEN SetupOf(target) ELSE Original,
              prev |-> binding, new |-> NoBinding, txn |-> Head(log).id, unsaved |-> FALSE]]
  /\ UNCHANGED <<hub, catalog, due, binding, config, log, damaged, lock, counters, excused>>

StartRenew(p) ==
  /\ MayStart(p, "renew")
  /\ calls < MaxCalls /\ calls' = calls + 1
  /\ binding # NoBinding /\ binding.cred \in due
  /\ task' = [task EXCEPT ![p] =
       [cmd |-> "renew", at |-> "lock", mode |-> "runtime", want |-> Original,
        prev |-> NoBinding, new |-> NoBinding, txn |-> NoTxn, unsaved |-> FALSE]]
  /\ UNCHANGED <<hub, catalog, due, binding, config, log, damaged, lock, mishaps, leaving,
                 stamp, excused>>

(* The rotation lock: taken when free, or when its holder died (five       *)
(* minutes later); given up when the deadline passes first.  The mutant    *)
(* takes it at any time.                                                   *)
AnyTime == TRUE
Takeable == lock \in Procs => task[lock] = NoTask
Lock(p) ==
  /\ At(p, "lock")
  /\ \/ /\ Takeable
        /\ lock' = p /\ Goto(p, "recheck")
     \/ lock # Free /\ End(p)
  /\ UNCHANGED <<hub, catalog, due, binding, config, log, damaged, counters, excused>>

(* Under the lock the binding is read again: another process may have      *)
(* renewed it.                                                             *)
StillDue == binding # NoBinding /\ binding.cred \in due
Recheck(p) ==
  /\ At(p, "recheck")
  /\ \/ /\ StillDue /\ binding.model \in Offered(binding.proto)
        /\ task' = [task EXCEPT ![p] =
             [@ EXCEPT !.at = "issue", !.prev = binding, !.want = SetupOf(binding)]]
        /\ UNCHANGED lock
     \/ /\ ~(StillDue /\ binding.model \in Offered(binding.proto))
        /\ End(p)
  /\ UNCHANGED <<hub, catalog, due, binding, config, log, damaged, counters, excused>>

(* The new credential is looked up among the active ones.                  *)
Confirm(p) ==
  /\ At(p, "confirm")
  /\ \/ /\ hub[task[p].new.cred].status = "live" /\ Fine
        /\ Goto(p, IF task[p].cmd = "restore" THEN "rollback" ELSE "rebind")
     \/ /\ Mishap \/ (hub[task[p].new.cred].status # "live" /\ Fine)
        /\ Goto(p, "drop")
  /\ UNCHANGED <<hub, catalog, due, binding, config, log, damaged, lock, calls, leaving,
                 stamp, excused>>

Rollback(p) ==
  /\ At(p, "rollback")
  /\ LET reissued == task[p].new # NoBinding IN
     \/ /\ RollsBack(task[p].txn)
        /\ IF task[p].prev = NoBinding THEN End(p)
           ELSE Goto(p, IF reissued THEN "rebind" ELSE "retire") /\ UNCHANGED lock
     \/ /\ RollbackFails(task[p].txn)
        /\ IF reissued THEN Goto(p, "drop") /\ UNCHANGED lock ELSE End(p)
  /\ UNCHANGED <<hub, catalog, due, binding, damaged, calls, leaving, stamp, excused>>

(* The replacement is saved.  If that fails, a restore disconnects: both   *)
(* credentials are revoked and the binding is deleted.                     *)
Rebind(p) ==
  /\ At(p, "rebind")
  /\ \/ /\ Fine /\ binding' = task[p].new
        /\ Goto(p, "retire")
     \/ /\ Mishap
        /\ task' = [task EXCEPT ![p] = [@ EXCEPT !.at = "drop", !.unsaved = (task[p].cmd = "restore")]]
        /\ UNCHANGED binding
  /\ UNCHANGED <<hub, catalog, due, config, log, damaged, lock, calls, leaving, stamp, excused>>

Drop(p) ==
  /\ At(p, "drop")
  /\ Revoke(task[p].new.cred, "runtime")
  /\ IF task[p].unsaved THEN Goto(p, "retire") /\ UNCHANGED lock ELSE End(p)
  /\ UNCHANGED <<catalog, due, binding, config, log, damaged, calls, leaving, stamp>>

(* The credential of the binding read at the start is revoked, through the *)
(* endpoint of runtime credentials.                                        *)
Retire(p) ==
  /\ At(p, "retire")
  /\ Revoke(task[p].prev.cred, "runtime")
  /\ IF task[p].new # NoBinding /\ ~task[p].unsaved THEN End(p)
     ELSE Goto(p, "unbind") /\ UNCHANGED lock
  /\ UNCHANGED <<catalog, due, binding, config, log, damaged, calls, leaving, stamp>>

Unbind(p) ==
  /\ At(p, "unbind")
  /\ \/ Fine /\ binding' = NoBinding /\ UNCHANGED excused
     \/ Mishap /\ excused' = excused \cup {task[p].prev.cred} /\ UNCHANGED binding
  /\ End(p)
  /\ UNCHANGED <<hub, catalog, due, config, log, damaged, calls, leaving, stamp>>

-----------------------------------------------------------------------------
(* The environment *)

(* A process dies.  Inside the engine an apply may be recorded without the *)
(* file being written, a rollback may have restored the file and kept the  *)
(* record, and either may leave a directory without a readable one.        *)
InHand(p) == {b.cred : b \in {task[p].prev, task[p].new} \ {NoBinding}}
Crash(p) ==
  /\ task[p] # NoTask /\ Mishap
  /\ task' = [task EXCEPT ![p] = NoTask]
  /\ excused' = excused \cup InHand(p)
  /\ \/ UNCHANGED <<config, log, stamp, damaged>>
     \/ /\ At(p, "apply") /\ config # task[p].want
        /\ log' = Pushed /\ stamp' = stamp + 1
        /\ UNCHANGED <<config, damaged>>
     \/ /\ task[p].at \in {"rollback", "undo"} /\ Newest(task[p].txn)
        /\ config' = Head(log).before
        /\ UNCHANGED <<log, stamp, damaged>>
     \/ /\ At(p, "apply") /\ "damage" \in Situations
        /\ damaged' = TRUE
        /\ UNCHANGED <<config, log, stamp>>
  /\ UNCHANGED <<hub, catalog, due, binding, lock, calls, leaving>>

(* Time passes: the bound credential enters its rotation window.           *)
ComeDue ==
  /\ binding # NoBinding /\ binding.kind = "runtime" /\ binding.cred \notin due
  /\ due' = due \cup {binding.cred}
  /\ UNCHANGED <<hub, catalog, binding, config, log, damaged, lock, task, counters, excused>>

(* A model leaves the catalog; somebody revokes a credential on Hub.       *)
Leave ==
  /\ leaving < MaxLeaving /\ leaving' = leaving + 1
  /\ \/ /\ "departure" \in Situations /\ \E m \in catalog : catalog' = catalog \ {m}
        /\ UNCHANGED hub
     \/ /\ "withdrawal" \in Situations
        /\ \E c \in Creds : hub[c].status = "live" /\ hub' = [hub EXCEPT ![c].status = "withdrawn"]
        /\ UNCHANGED catalog
  /\ UNCHANGED <<due, binding, config, log, damaged, lock, task, calls, mishaps, stamp, excused>>

Step(p) ==
  \/ Ensure(p) \/ Widen(p) \/ Issue(p) \/ Apply(p) \/ Verify(p) \/ Save(p) \/ Undo(p)
  \/ RevokeNew(p) \/ RevokePrevious(p) \/ Lock(p) \/ Recheck(p) \/ Confirm(p)
  \/ Rollback(p) \/ Rebind(p) \/ Drop(p) \/ Retire(p) \/ Unbind(p)
Next ==
  \/ \E p \in Procs : Step(p) \/ StartConfigure(p) \/ StartRestore(p) \/ StartRenew(p) \/ Crash(p)
  \/ ComeDue \/ Leave

Spec == Init /\ [][Next]_vars

-----------------------------------------------------------------------------
(* Properties *)

Quiet == \A p \in Procs : task[p] = NoTask

(* A credential some command revoked is not the stored one, unless the     *)
(* store failed to delete the binding or the command died first: no agent  *)
(* is left to run on a key that Connect itself has taken away.             *)
BoundIsUsable ==
  Quiet /\ binding # NoBinding /\ hub[binding.cred].status = "revoked" =>
    binding.cred \in excused

(* Every credential Connect was issued and that still works is the bound   *)
(* one, or one whose revocation failed, whose creation was never answered, *)
(* or whose command died: no path of the code forgets one.                 *)
NothingLeaks ==
  Quiet => \A c \in 1..MaxCreds :
    hub[c].status = "live" => (binding # NoBinding /\ binding.cred = c) \/ c \in excused

(* A binding may keep models the catalog dropped; what the configuration   *)
(* offers it must have.                                                    *)
Describes(b, c) ==
  c # Original /\ c.proto = b.proto /\ c.model = b.model /\ c.models \subseteq b.models

(* When the binding belongs to the newest transaction, the configuration   *)
(* is the one the binding describes (or the earlier one, when a rollback   *)
(* stopped half-way), and Hub grants its credential every model the        *)
(* configuration offers (connectionIntent, ensureCredential).              *)
CredentialCoversConfig ==
  Quiet /\ binding # NoBinding /\ log # <<>> /\ binding.txn = Head(log).id =>
    /\ Describes(binding, config) \/ config = Head(log).before
    /\ binding.models \subseteq hub[binding.cred].grants

(* As long as no call fails, an agent is either not connected at all, or   *)
(* configured for what the stored binding describes: also after          *)
(* any sequence of switches, reconnections and restores.                   *)
BindingDescribesConfig ==
  Quiet /\ mishaps = 0 =>
    IF binding = NoBinding THEN config = Original ELSE Describes(binding, config)

(* The restore chain and the recorded transactions agree: as long as       *)
(* nothing failed, the binding and its chain name the recorded             *)
(* transactions, newest first, so each restore finds its target.           *)
ChainMatchesLog ==
  Quiet /\ mishaps = 0 =>
    [i \in DOMAIN log |-> log[i].id] =
      IF binding = NoBinding THEN <<>>
      ELSE <<binding.txn>> \o [i \in DOMAIN binding.chain |-> binding.chain[i].txn]

(* A command that fails leaves the user's own keys alone: a key Connect    *)
(* did not issue is only revoked after it was bound.                       *)
OnlyIssuedRevoked ==
  [][\A k \in OwnKeys :
       hub[k].status = "live" /\ hub'[k].status = "revoked" =>
         \E p \in Procs : task[p] # NoTask /\ task[p].prev # NoBinding /\ task[p].prev.cred = k]_vars

(* Whoever keeps asking for restore gets the configuration from before the *)
(* first connection back, whatever single call failed or process died.     *)
EverythingUndone == <>[](log = <<>> /\ config = Original)

=============================================================================
