------------------------- MODULE ConnectionProofs -------------------------
(***************************************************************************)
(* What holds of a connection for any models, keys, processes, bounds and  *)
(* number of failing calls and deaths.  Five layers, each resting on the   *)
(* ones before it:                                                         *)
(*   IInv     types, what a command carries at each step, and the first    *)
(*            configuration at the bottom of the log: unconditional;       *)
(*   Turns    one command at a time; renewals may overlap, and the         *)
(*            rotation lock leaves one of them working;                    *)
(*   One      the books of the command at work: whose credential is        *)
(*            stored, owed, excused;                                       *)
(*   Steady, Listed   the transaction a command works on, and the log as   *)
(*            the stored chain names it;                                   *)
(*   Stamped, Covers  transactions are numbered once, and a binding        *)
(*            describes the configuration after its own.                   *)
(***************************************************************************)
EXTENDS Connection, SequenceTheorems, TLAPS

(* What a command that stands before a step carries in its hands.          *)
MustHoldNew == {"widen", "apply", "verify", "save", "undo", "discard", "release",
                "confirm", "rebind", "drop"}
Shape(t) ==
  /\ t.cmd = "configure" => t.at \in {"ensure", "widen", "issue", "apply", "verify", "save", "undo",
                                      "discard", "release"}
  /\ t.cmd = "restore" => t.at \in {"issue", "confirm", "rollback", "rebind", "drop", "retire", "unbind"}
  /\ t.cmd = "renew" => t.at \in {"lock", "recheck", "issue", "confirm", "rebind", "drop", "retire"}
  /\ t.at \in MustHoldNew => t.new # NoBinding
  /\ t.cmd = "configure" \/ t.at = "issue" => t.want \in Setup
  /\ t.cmd # "configure" /\ (t.at \in {"issue", "confirm", "rebind", "drop", "retire", "unbind"} \/ t.new # NoBinding)
       => t.prev # NoBinding
  /\ t.cmd = "restore" /\ (t.at = "issue" \/ t.new # NoBinding) => t.prev.chain # <<>>
  /\ t.at = "retire" /\ t.new = NoBinding => t.cmd = "restore"
  /\ t.unsaved => t.cmd = "restore" /\ t.new # NoBinding /\ t.at \in {"drop", "retire", "unbind"}
  /\ t.at = "unbind" => t.new = NoBinding \/ t.unsaved
  /\ t.at \in {"lock", "recheck"} => t.new = NoBinding /\ t.prev = NoBinding
Shaped == \A p \in Procs : task[p] # NoTask => Shape(task[p])

(* Whatever the configuration holds lies on the one before the first       *)
(* connection.                                                             *)
Hub == [Creds -> [status : {"unborn", "live", "revoked", "withdrawn"},
                  kind : {"user", "runtime"}, grants : SUBSET Models]]
Entry == [id : Nat \ {0}, before : Setup \cup {Original}]
Grounded == (IF log = <<>> THEN config ELSE log[Len(log)].before) = Original

-----------------------------------------------------------------------------
(* A process without a command, or with a renewal that waits for the       *)
(* rotation lock, has nothing in its hands.  A renewal past that step      *)
(* holds the lock, and only renewals run beside another command.           *)
AtRest(p) == task[p] = NoTask \/ task[p].at = "lock"
Resting == \A p \in Procs : AtRest(p)
Turns ==
  /\ \A p \in Procs : ~AtRest(p) /\ task[p].cmd = "renew" => lock = p
  /\ \A p, q \in Procs : p # q /\ task[p] # NoTask /\ task[q] # NoTask => task[p].cmd = "renew"

(* One command at work: t is that one, or NoTask.                          *)
Solo(t) ==
  \/ t = NoTask /\ Resting
  \/ \E p \in Procs : t # NoTask /\ t = task[p] /\ \A q \in Procs \ {p} : AtRest(q)

(* A restore or a renewal has stored its replacement.                      *)
Rebound(t) == t.at = "retire" /\ t.new # NoBinding /\ ~t.unsaved
(* What a command under way has to do with the stored binding.             *)
Ties(t) ==
  /\ t.at \notin {"lock", "recheck", "release"} /\ ~Rebound(t) => binding = t.prev
  /\ t.at = "release" => binding # NoBinding /\ binding.cred = t.new.cred
  /\ Rebound(t) => binding = t.new
  /\ t.at \in {"ensure", "lock", "recheck"} => t.new = NoBinding
  /\ t.cmd # "configure" /\ t.new # NoBinding => t.new.cred # t.prev.cred
  /\ t.new # NoBinding /\ t.at \notin {"retire", "unbind"} /\ hub[t.new.cred].status = "revoked" =>
       t.new.cred \in excused
  /\ t.prev # NoBinding => hub[t.prev.cred].status # "unborn"
  /\ t.new # NoBinding => hub[t.new.cred].status # "unborn"
(* Whose credential it has still to store or to revoke.                    *)
Owes(t, c) ==
  \/ /\ t.new # NoBinding /\ c = t.new.cred
     /\ t.at \in {"apply", "verify", "save", "undo", "discard", "confirm", "rollback", "rebind", "drop"}
  \/ t.prev # NoBinding /\ c = t.prev.cred /\ t.at \in {"release", "retire"}
Unbinding(t) == t # NoTask /\ t.at = "unbind"
Usable(t) ==
  binding # NoBinding /\ hub[binding.cred].status = "revoked" => binding.cred \in excused \/ Unbinding(t)
Accounted(t) ==
  \A c \in 1..MaxCreds : hub[c].status = "live" =>
    \/ c \in excused
    \/ binding # NoBinding /\ binding.cred = c /\ ~Unbinding(t)
    \/ t # NoTask /\ Owes(t, c)
Books(t) ==
  /\ t # NoTask => Ties(t)
  /\ binding # NoBinding => hub[binding.cred].status # "unborn"
  /\ Usable(t)
  /\ "split" \notin Situations => Accounted(t)
One == \E t : Solo(t) /\ Books(t)

-----------------------------------------------------------------------------
(* The configuration transaction j left: what the next one found.  A       *)
(* binding x marks the configuration its transaction left, or a rollback   *)
(* stopped after it had restored the file.                                 *)
After(j) == IF j = 1 THEN config ELSE log[j - 1].before
Marks(x) ==
  \A j \in DOMAIN log : log[j].id = x.txn =>
    Describes(x, After(j)) \/ (mishaps > 0 /\ After(j) = log[j].before)
(* Transactions are numbered once, and bindings name none to come.         *)
Numbered == \A j \in DOMAIN log : log[j].id \in 1..stamp /\ \A i \in DOMAIN log : log[i].id = log[j].id => i = j
Stamped ==
  /\ Numbered
  /\ binding # NoBinding =>
       binding.txn <= stamp /\ \A i \in DOMAIN binding.chain : binding.chain[i].txn <= stamp
(* A command works on the newest transaction, and what it will store is    *)
(* what it was asked for.                                                  *)
Steadily(t) ==
  /\ t.cmd = "configure" /\ t.at \in {"ensure", "widen", "issue", "apply"} => config # t.want /\ t.txn = NoTxn
  /\ t.at \in {"verify", "save", "undo"} => log # <<>> /\ t.txn = log[1].id /\ config = t.want
  /\ t.cmd = "restore" /\ t.at \in {"issue", "confirm", "rollback"} => log # <<>> /\ t.txn = log[1].id
  /\ t.cmd = "restore" /\ t.at = "issue" => t.want = SetupOf(t.prev.chain[1])
  /\ t.cmd = "renew" /\ t.at = "issue" => t.want = SetupOf(t.prev)
  /\ t.cmd = "restore" /\ t.new # NoBinding =>
       /\ SetupOf(t.new) = SetupOf(t.prev.chain[1]) /\ t.new.txn = t.prev.chain[1].txn
       /\ t.new.chain = Tail(t.prev.chain)
  /\ t.cmd = "renew" /\ t.new # NoBinding =>
       SetupOf(t.new) = SetupOf(t.prev) /\ t.new.txn = t.prev.txn /\ t.new.chain = t.prev.chain
  /\ t.cmd = "configure" /\ t.prev = NoBinding /\ t.new # NoBinding => t.new.chain = <<>>
Steady == \A p \in Procs : task[p] # NoTask => Steadily(task[p])

(* What a command has in its hands is granted, and offers what it was      *)
(* asked for; so does what is stored, of every transaction in its chain.   *)
Meets(t) ==
  /\ t.new # NoBinding /\ t.at \in {"apply", "verify", "save", "confirm", "rollback", "rebind"} =>
       t.new.models \subseteq hub[t.new.cred].grants
  /\ t.at \in {"widen", "apply", "verify", "save"} =>
       t.new.proto = t.want.proto /\ t.new.model = t.want.model /\ t.want.models \subseteq t.new.models
  /\ t.at = "widen" => t.prev # NoBinding /\ t.new.cred = t.prev.cred /\ t.prev.models \subseteq t.new.models
Bound ==
  binding # NoBinding =>
    /\ binding.models \subseteq hub[binding.cred].grants
    /\ Marks(binding) /\ \A i \in DOMAIN binding.chain : Marks(binding.chain[i])
Covers == Bound /\ \A p \in Procs : task[p] # NoTask => Meets(task[p])

-----------------------------------------------------------------------------
(* The transactions u, but for the n newest, are those of the binding b    *)
(* and of its chain.                                                       *)
Lists(u, b, n) ==
  IF b = NoBinding THEN Len(u) = n
  ELSE /\ Len(u) = n + 1 + Len(b.chain)
       /\ u[n + 1].id = b.txn
       /\ \A i \in DOMAIN b.chain : u[n + 1 + i].id = b.chain[i].txn
Emptied(t) == t.at = "unbind" \/ (t.at = "retire" /\ t.new = NoBinding)
Listing(t) ==
  /\ t.at \in {"verify", "save", "undo"} => Lists(log, t.prev, 1)
  /\ t.at = "rebind" => Lists(log, t.new, 0)
  /\ Emptied(t) => log = <<>>
  /\ t.at = "rollback" => binding # NoBinding /\ (t.new = NoBinding => binding.chain = <<>>)
  /\ t.at \notin {"verify", "save", "undo", "rebind"} /\ ~Emptied(t) => Lists(log, binding, 0)
  /\ ~t.unsaved
Listed ==
  mishaps = 0 =>
    /\ Resting => Lists(log, binding, 0)
    /\ \A p \in Procs : ~AtRest(p) => Listing(task[p])

-----------------------------------------------------------------------------
(* Sequences: what is pushed, what is left below the top.                  *)
LEMMA PushIs ==
  ASSUME NEW S, NEW s \in Seq(S), NEW e \in S, NEW u, u = <<e>> \o s
  PROVE  /\ u \in Seq(S) /\ u # <<>> /\ Len(u) = Len(s) + 1 /\ u[1] = e /\ Head(u) = e
         /\ \A i \in DOMAIN s : u[i + 1] = s[i]
         /\ \A i \in DOMAIN u : i = 1 \/ (i - 1 \in DOMAIN s /\ u[i] = s[i - 1])
<1>1. <<e>> \in Seq(S) /\ Len(<<e>>) = 1 /\ <<e>>[1] = e
  OBVIOUS
<1>2. /\ u \in Seq(S) /\ Len(u) = 1 + Len(s)
      /\ \A i \in 1..(1 + Len(s)) : u[i] = IF i <= 1 THEN <<e>>[i] ELSE s[i - 1]
  BY <1>1, ConcatProperties
<1>3. Len(s) \in Nat /\ DOMAIN s = 1..Len(s) /\ DOMAIN u = 1..Len(u)
  BY <1>2
<1>4. u # <<>> /\ u[1] = e
  BY <1>1, <1>2, <1>3
<1>5. \A i \in DOMAIN s : u[i + 1] = s[i]
  BY <1>2, <1>3
<1>6. ASSUME NEW i \in DOMAIN u, i # 1 PROVE i - 1 \in DOMAIN s /\ u[i] = s[i - 1]
  <2>1. i \in 1..(1 + Len(s)) /\ ~(i <= 1) /\ i - 1 \in 1..Len(s)
    BY <1>2, <1>3, <1>6
  <2> QED BY <1>2, <1>3, <2>1
<1>7. Head(u) = e
  BY <1>2, <1>4
<1> QED BY <1>2, <1>4, <1>5, <1>6, <1>7

LEMMA TailIs ==
  ASSUME NEW S, NEW s \in Seq(S), s # <<>>
  PROVE  /\ Head(s) \in S /\ Head(s) = s[1] /\ Tail(s) \in Seq(S)
         /\ Len(s) \in Nat \ {0} /\ Len(Tail(s)) = Len(s) - 1
         /\ \A i \in DOMAIN Tail(s) : i + 1 \in DOMAIN s /\ Tail(s)[i] = s[i + 1]
  OBVIOUS

(* Bindings and what is made of them.                                      *)
LEMMA BindingFields ==
  ASSUME NEW b \in Binding
  PROVE  /\ b.cred \in Creds /\ b.kind \in {"user", "runtime"} /\ b.proto \in Protocols /\ b.model \in Models
         /\ b.models \in SUBSET Models /\ b.txn \in Nat /\ b.chain \in Seq(Target)
         /\ SetupOf(b) \in Setup /\ TargetOf(b) \in Target
  BY DEF Binding, SetupOf, TargetOf, Setup, Target

LEMMA TargetFields ==
  ASSUME NEW b \in Target
  PROVE  /\ b.proto \in Protocols /\ b.model \in Models /\ b.models \in SUBSET Models /\ b.txn \in Nat
         /\ SetupOf(b) \in Setup
  BY DEF Target, SetupOf, Setup

LEMMA SetupFields ==
  ASSUME NEW s \in Setup
  PROVE  s.proto \in Protocols /\ s.model \in Models /\ s.models \in SUBSET Models
  BY DEF Setup

LEMMA TaskFields ==
  ASSUME NEW t \in Task
  PROVE  /\ t.cmd \in {"configure", "restore", "renew"} /\ t.at \in Steps /\ t.mode \in Modes
         /\ t.want \in Setup \cup {Original} /\ t.prev \in Binding \cup {NoBinding}
         /\ t.new \in Binding \cup {NoBinding} /\ t.txn \in Nat /\ t.unsaved \in BOOLEAN
  BY DEF Task

LEMMA FreshIs ==
  ASSUME NEW c \in Creds, NEW kind \in {"user", "runtime"}, NEW s \in Setup
  PROVE  /\ Fresh(c, kind, s) \in Binding /\ Fresh(c, kind, s).cred = c /\ Fresh(c, kind, s).kind = kind
         /\ SetupOf(Fresh(c, kind, s)) = s /\ Fresh(c, kind, s).models = s.models
         /\ Fresh(c, kind, s).txn = NoTxn /\ Fresh(c, kind, s).chain = <<>>
  BY DEF Fresh, Binding, SetupOf, Setup, NoTxn

-----------------------------------------------------------------------------
(* Types and shapes, whatever overlaps.                                    *)
IInv == TypeOK /\ Shaped /\ Grounded

(* A command at a step: what it knows of itself.                           *)
LEMMA Standing ==
  ASSUME IInv, NEW p \in Procs, task[p] # NoTask
  PROVE  /\ task[p] \in Task /\ Shape(task[p])
         /\ task[p].cmd \in {"configure", "restore", "renew"} /\ task[p].at \in Steps /\ task[p].mode \in Modes
         /\ task[p].want \in Setup \cup {Original} /\ task[p].prev \in Binding \cup {NoBinding}
         /\ task[p].new \in Binding \cup {NoBinding} /\ task[p].txn \in Nat /\ task[p].unsaved \in BOOLEAN
<1>1. task[p] \in Task /\ Shape(task[p])
  BY DEF IInv, TypeOK, Shaped
<1> QED BY <1>1, TaskFields

Same(x, t) ==
  /\ x.cmd = t.cmd /\ x.mode = t.mode /\ x.want = t.want /\ x.prev = t.prev
  /\ x.txn = t.txn /\ x.unsaved = t.unsaved

Moves(p, s, b) ==
  /\ task' = [task EXCEPT ![p] = task'[p]]
  /\ task'[p] \in Task /\ task'[p] # NoTask /\ task'[p].at = s /\ task'[p].new = b /\ Same(task'[p], task[p])

LEMMA Going ==
  ASSUME IInv, NEW p \in Procs, task[p] # NoTask, NEW s \in Steps
  PROVE  /\ Goto(p, s) => Moves(p, s, task[p].new)
         /\ \A b \in Binding : GotoWith(p, s, b) => Moves(p, s, b)
<1> DEFINE t == task[p]
<1>1. t \in Task /\ task \in [Procs -> Task \cup {NoTask}]
  BY Standing DEF IInv, TypeOK
<1>2. ASSUME Goto(p, s) PROVE Moves(p, s, task[p].new)
  <2> DEFINE x == [t EXCEPT !.at = s]
  <2>1. x \in Task /\ x.at = s /\ x.new = t.new /\ Same(x, t)
    BY <1>1 DEF Task, Same
  <2>2. task' = [task EXCEPT ![p] = x] /\ task'[p] = x
    BY <1>1, <1>2 DEF Goto
  <2> QED BY <2>1, <2>2, MarkersAssumption DEF Moves
<1>3. ASSUME NEW b \in Binding, GotoWith(p, s, b) PROVE Moves(p, s, b)
  <2> DEFINE x == [t EXCEPT !.at = s, !.new = b]
  <2>1. x \in Task /\ x.at = s /\ x.new = b /\ Same(x, t)
    BY <1>1 DEF Task, Same
  <2>2. task' = [task EXCEPT ![p] = x] /\ task'[p] = x
    BY <1>1, <1>3 DEF GotoWith
  <2> QED BY <2>1, <2>2, MarkersAssumption DEF Moves
<1> QED BY <1>2, <1>3, Zenon

(* A command that takes a step, starts or ends.                            *)
LEMMA Stepped ==
  ASSUME IInv, NEW p \in Procs, task' = [task EXCEPT ![p] = task'[p]],
         task'[p] = NoTask \/ (task'[p] \in Task /\ Shape(task'[p])), lock' \in {lock, Free, p}
  PROVE  /\ task' \in [Procs -> Task \cup {NoTask}] /\ Shaped' /\ lock' \in Procs \cup {Free}
         /\ \A q \in Procs \ {p} : task'[q] = task[q]
<1>1. task' \in [Procs -> Task \cup {NoTask}] /\ \A q \in Procs \ {p} : task'[q] = task[q]
  BY DEF IInv, TypeOK
<1>2. Shaped'
  <2>1. ASSUME NEW q \in Procs, task'[q] # NoTask PROVE Shape(task'[q])
    BY <1>1, <2>1 DEF IInv, Shaped
  <2> QED BY <2>1 DEF Shaped
<1> QED BY <1>1, <1>2 DEF IInv, TypeOK

LEMMA Ended ==
  ASSUME IInv, NEW p \in Procs, End(p)
  PROVE  /\ task' = [task EXCEPT ![p] = task'[p]] /\ task'[p] = NoTask /\ lock' \in {lock, Free}
  BY DEF IInv, TypeOK, End

LEMMA EnsureShapes ==
  ASSUME IInv, NEW p \in Procs, Ensure(p)
  PROVE  TypeOK' /\ Shaped'
<1> DEFINE t == task[p]
           w == t.want
           wider == [binding EXCEPT !.model = w.model, !.models = w.models \cup @]
<1>1. t # NoTask /\ t.at = "ensure"
  BY DEF Ensure, At
<1>2. t \in Task /\ Shape(t) /\ t.cmd = "configure" /\ w \in Setup /\ ~t.unsaved
  BY <1>1, Standing DEF Shape
<1>3. Survives(binding, w.proto) => wider \in Binding
  BY <1>2 DEF IInv, TypeOK, Survives, Binding, Setup
<1>4. t.mode \in OwnKeys => Fresh(t.mode, "user", w) \in Binding
  BY <1>2, FreshIs DEF Creds
<1>5. \/ \E b \in Binding, s \in {"apply", "widen"} : Moves(p, s, b) /\ lock' = lock
      \/ Moves(p, "issue", t.new) /\ lock' = lock
      \/ End(p)
  BY <1>1, <1>2, <1>3, <1>4, Going DEF Ensure, IInv, TypeOK, Steps
<1>6. ~End(p) => Shape(task'[p])
  BY <1>2, <1>5, MarkersAssumption DEF Shape, MustHoldNew, Same, Moves
<1> QED BY <1>5, <1>6, Stepped, Ended DEF IInv, TypeOK, Ensure, Mishap, Fine, Moves

LEMMA Revoked ==
  ASSUME TypeOK, NEW c \in Creds, NEW endpoint, Revoke(c, endpoint)
  PROVE  /\ hub' \in Hub
         /\ excused' \subseteq Creds /\ mishaps' \in Nat
  BY SMTT(30) DEF TypeOK, Hub, Revoke, Fine, Mishap

LEMMA RolledBack ==
  ASSUME TypeOK, NEW t, RollsBack(t) \/ RollbackFails(t)
  PROVE  config' \in Setup \cup {Original} /\ log' \in Seq(Entry) /\ mishaps' \in Nat
<1>1. log \in Seq(Entry)
  BY DEF TypeOK, Entry
<1>2. log # <<>> => Head(log) \in Entry /\ Tail(log) \in Seq(Entry)
  BY <1>1, TailIs
<1>3. config \in Setup \cup {Original} /\ mishaps \in Nat
      /\ (log # <<>> => Head(log).before \in Setup \cup {Original})
  BY <1>2 DEF TypeOK, Entry
<1>4. log' \in Seq(Entry) /\ mishaps' \in Nat
  BY <1>1, <1>2, <1>3 DEF RollsBack, RollbackFails, Newest, Fine, Mishap
<1>5. config' \in Setup \cup {Original}
  BY <1>3 DEF RollsBack, RollbackFails, Newest
<1> QED BY <1>4, <1>5

LEMMA PushedIs ==
  ASSUME TypeOK
  PROVE  /\ log \in Seq(Entry) /\ Pushed \in Seq(Entry) /\ Pushed # <<>> /\ Len(Pushed) = Len(log) + 1
         /\ Pushed[1] = [id |-> stamp + 1, before |-> config] /\ Head(Pushed) = Pushed[1]
         /\ \A i \in DOMAIN log : Pushed[i + 1] = log[i]
         /\ \A i \in DOMAIN Pushed : i = 1 \/ (i - 1 \in DOMAIN log /\ Pushed[i] = log[i - 1])
<1>1. log \in Seq(Entry) /\ [id |-> stamp + 1, before |-> config] \in Entry
  BY DEF TypeOK, Entry
<1> QED BY <1>1, PushIs DEF Pushed

LEMMA BornIs ==
  ASSUME IInv, Unborn # {}
  PROVE  /\ NextCred \in 1..MaxCreds /\ NextCred \in Creds /\ hub[NextCred].status = "unborn"
         /\ \A kind \in {"user", "runtime"}, ms \in SUBSET Models :
              Born(kind, ms) \in Hub
<1>1. NextCred \in Unborn
  BY DEF NextCred
<1> QED BY <1>1 DEF Unborn, Creds, Born, Hub, IInv, TypeOK

(* What a command will store for the credential it is issued.              *)
LEMMA DraftIs ==
  ASSUME IInv, NEW p \in Procs, task[p] # NoTask, task[p].at = "issue", NEW c \in Creds
  PROVE  /\ Draft(p, c) \in Binding /\ Draft(p, c).cred = c /\ SetupOf(Draft(p, c)) = task[p].want
         /\ Draft(p, c).models = task[p].want.models
         /\ task[p].cmd = "configure" => Draft(p, c).chain = <<>> /\ Draft(p, c).txn = NoTxn
         /\ task[p].cmd = "restore" => Draft(p, c).chain = Tail(task[p].prev.chain)
                                      /\ Draft(p, c).txn = task[p].prev.chain[1].txn
         /\ task[p].cmd = "renew" => Draft(p, c).chain = task[p].prev.chain /\ Draft(p, c).txn = task[p].prev.txn
<1> DEFINE t == task[p]
           kind == IF t.cmd = "configure" /\ t.mode = "auto" THEN "user" ELSE "runtime"
           fresh == Fresh(c, kind, t.want)
<1>1. t \in Task /\ Shape(t) /\ t.want \in Setup /\ t.cmd \in {"configure", "restore", "renew"}
  BY Standing DEF Shape
<1>2. fresh \in Binding /\ fresh.cred = c /\ SetupOf(fresh) = t.want /\ fresh.models = t.want.models
      /\ fresh.txn = NoTxn /\ fresh.chain = <<>>
  BY <1>1, FreshIs
<1> HIDE DEF fresh
<1>3. CASE t.cmd = "configure"
  BY <1>2, <1>3 DEF Draft, fresh
<1>4. CASE t.cmd = "restore"
  <2>1. t.prev \in Binding /\ t.prev.chain # <<>> /\ t.prev.chain \in Seq(Target)
    BY <1>1, <1>4, Standing, BindingFields DEF Shape
  <2>2. Head(t.prev.chain) \in Target /\ Tail(t.prev.chain) \in Seq(Target) /\ Head(t.prev.chain) = t.prev.chain[1]
    BY <2>1, TailIs
  <2>3. Draft(p, c) = [fresh EXCEPT !.txn = Head(t.prev.chain).txn, !.chain = Tail(t.prev.chain)]
    BY <1>4 DEF Draft, fresh
  <2>4. Head(t.prev.chain).txn \in Nat
    BY <2>2, TargetFields
  <2> QED BY <1>2, <1>4, <2>2, <2>3, <2>4 DEF Binding, SetupOf
<1>5. CASE t.cmd = "renew"
  <2>1. t.prev \in Binding /\ t.prev.chain \in Seq(Target) /\ t.prev.txn \in Nat
    BY <1>1, <1>5, Standing, BindingFields DEF Shape
  <2>2. Draft(p, c) = [fresh EXCEPT !.txn = t.prev.txn, !.chain = t.prev.chain]
    BY <1>5 DEF Draft, fresh
  <2> QED BY <1>2, <1>5, <2>1, <2>2 DEF Binding, SetupOf
<1> QED BY <1>1, <1>3, <1>4, <1>5

LEMMA WidenShapes ==
  ASSUME IInv, NEW p \in Procs, Widen(p)
  PROVE  TypeOK' /\ Shaped'
<1> DEFINE t == task[p]
<1>1. t # NoTask /\ t.at = "widen"
  BY DEF Widen, At
<1>2. Shape(t) /\ t.new \in Binding /\ t.cmd = "configure"
  BY <1>1, Standing DEF Shape, MustHoldNew
<1>3. t.new.cred \in Creds /\ t.new.models \in SUBSET Models
  BY <1>2, BindingFields
<1>4. Widened(t.new) \in Hub
  BY <1>3 DEF Widened, IInv, TypeOK, Hub
<1>5. \/ \E s \in {"apply", "issue"} : Moves(p, s, t.new) /\ lock' = lock
      \/ End(p)
  BY <1>1, Going DEF Widen, Steps
<1>6. ~End(p) => Shape(task'[p])
  BY <1>1, <1>2, <1>5, MarkersAssumption DEF Shape, MustHoldNew, Same, Moves
<1> QED BY <1>4, <1>5, <1>6, Stepped, Ended DEF IInv, TypeOK, Hub, Widen, Mishap, Fine, Moves

LEMMA IssueShapes ==
  ASSUME IInv, NEW p \in Procs, Issue(p)
  PROVE  TypeOK' /\ Shaped'
<1> DEFINE t == task[p]
           b == Draft(p, NextCred)
<1>1. t # NoTask /\ t.at = "issue" /\ Unborn # {}
  BY DEF Issue, At
<1>2. b \in Binding /\ b.cred \in Creds /\ b.kind \in {"user", "runtime"} /\ b.models \in SUBSET Models
  BY <1>1, DraftIs, BornIs, BindingFields
<1> HIDE DEF b
<1>3. \/ \E s \in {"apply", "confirm"} :
           Moves(p, s, b) /\ lock' = lock /\ (t.cmd = "configure" <=> s = "apply")
      \/ End(p)
  BY <1>1, <1>2, Going DEF Issue, Steps, b
<1>4. ~End(p) => Shape(task'[p])
  BY <1>1, <1>2, <1>3, Standing, MarkersAssumption DEF Shape, MustHoldNew, Same, Moves
<1>5. hub' \in Hub /\ excused' \subseteq Creds /\ mishaps' \in Nat
  BY <1>1, <1>2, BornIs DEF Issue, Fine, Mishap, IInv, TypeOK, Hub, b
<1> QED BY <1>3, <1>4, <1>5, Stepped, Ended DEF IInv, TypeOK, Hub, Issue, Moves

LEMMA ApplyShapes ==
  ASSUME IInv, NEW p \in Procs, Apply(p)
  PROVE  TypeOK' /\ Shaped'
<1> DEFINE t == task[p]
           x == [t EXCEPT !.at = "verify", !.txn = stamp + 1]
<1>1. t # NoTask /\ t.at = "apply"
  BY DEF Apply, At
<1>2. Shape(t) /\ t.new \in Binding /\ t.cmd = "configure" /\ t.want \in Setup /\ t \in Task
  BY <1>1, Standing DEF Shape, MustHoldNew
<1>3. x \in Task /\ Shape(x)
  <2>1. stamp + 1 \in Nat
    BY DEF IInv, TypeOK
  <2>2. /\ x \in Task /\ x.at = "verify" /\ x.new = t.new /\ x.cmd = t.cmd /\ x.want = t.want
        /\ x.prev = t.prev /\ x.unsaved = t.unsaved
    BY <1>2, <2>1 DEF Task, Steps
  <2> HIDE DEF x
  <2> QED BY <1>1, <1>2, <2>2 DEF Shape, MustHoldNew
<1>4. \/ \E s \in {"save", "discard"} : Moves(p, s, t.new)
      \/ task' = [task EXCEPT ![p] = x] /\ task'[p] = x
  BY <1>1, Going DEF Apply, Steps, IInv, TypeOK
<1> HIDE DEF x
<1>5. Shape(task'[p]) /\ task'[p] \in Task /\ task' = [task EXCEPT ![p] = task'[p]]
  BY <1>1, <1>2, <1>3, <1>4 DEF Shape, MustHoldNew, Same, Moves
<1>6. config' \in Setup \cup {Original} /\ log' \in Seq(Entry) /\ mishaps' \in Nat /\ stamp' \in Nat
  <2>1. Pushed \in Seq(Entry) /\ log \in Seq(Entry) /\ stamp \in Nat /\ mishaps \in Nat
        /\ config \in Setup \cup {Original}
    BY PushedIs DEF IInv, TypeOK
  <2> QED BY <1>2, <2>1 DEF Apply, Fine, Mishap
<1>7. task' \in [Procs -> Task \cup {NoTask}] /\ Shaped' /\ lock' \in Procs \cup {Free}
  BY <1>5, Stepped DEF Apply
<1>8. UNCHANGED <<hub, catalog, due, binding, damaged, calls, leaving, excused>>
  BY DEF Apply
<1> QED BY <1>6, <1>7, <1>8 DEF IInv, TypeOK, Entry

LEMMA VerifyShapes ==
  ASSUME IInv, NEW p \in Procs, Verify(p)
  PROVE  TypeOK' /\ Shaped'
<1> DEFINE t == task[p]
<1>1. t # NoTask /\ t.at = "verify"
  BY DEF Verify, At
<1>2. Shape(t) /\ t.new \in Binding /\ t.cmd = "configure" /\ t.want \in Setup
  BY <1>1, Standing DEF Shape, MustHoldNew
<1>3. \E s \in {"save", "undo"} : Moves(p, s, t.new)
  BY <1>1, Going DEF Verify, Steps
<1>4. Shape(task'[p])
  BY <1>1, <1>2, <1>3 DEF Shape, MustHoldNew, Same, Moves
<1> QED BY <1>3, <1>4, Stepped DEF IInv, TypeOK, Verify, Fine, Mishap, Moves

LEMMA ChainedIs ==
  ASSUME IInv, NEW p \in Procs, task[p] # NoTask, task[p].new \in Binding
  PROVE  /\ Chained(p) \in Seq(Target) /\ Saved(p) \in Binding
         /\ Saved(p).chain = Chained(p) /\ Saved(p).cred = task[p].new.cred
         /\ Saved(p).txn = IF task[p].txn = NoTxn THEN task[p].new.txn ELSE task[p].txn
         /\ SetupOf(Saved(p)) = SetupOf(task[p].new)
         /\ task[p].prev = NoBinding => Chained(p) = task[p].new.chain
         /\ task[p].prev # NoBinding => Chained(p) = <<TargetOf(task[p].prev)>> \o task[p].prev.chain
<1> DEFINE t == task[p]
<1>1. t.prev \in Binding \cup {NoBinding} /\ t.txn \in Nat /\ t.new.chain \in Seq(Target) /\ t.new.txn \in Nat
  BY Standing, BindingFields
<1>2. t.prev # NoBinding => TargetOf(t.prev) \in Target /\ t.prev.chain \in Seq(Target)
  BY <1>1, BindingFields
<1>3. Chained(p) \in Seq(Target)
  BY <1>1, <1>2, PushIs DEF Chained
<1>4. Saved(p) = [t.new EXCEPT !.chain = Chained(p), !.txn = IF t.txn = NoTxn THEN @ ELSE t.txn]
  BY DEF Saved
<1>5. /\ Saved(p) \in Binding /\ Saved(p).chain = Chained(p) /\ Saved(p).cred = t.new.cred
      /\ Saved(p).txn = IF t.txn = NoTxn THEN t.new.txn ELSE t.txn
      /\ SetupOf(Saved(p)) = SetupOf(t.new)
  <2> HIDE DEF t
  <2> QED BY <1>1, <1>3, <1>4 DEF Binding, SetupOf, t
<1> QED BY <1>3, <1>5 DEF Chained

LEMMA SaveShapes ==
  ASSUME IInv, NEW p \in Procs, Save(p)
  PROVE  TypeOK' /\ Shaped'
<1> DEFINE t == task[p]
<1>1. t # NoTask /\ t.at = "save"
  BY DEF Save, At
<1>2. Shape(t) /\ t.new \in Binding /\ t.cmd = "configure" /\ t.want \in Setup
  BY <1>1, Standing DEF Shape, MustHoldNew
<1>3. \E s \in {"release", "undo"} : Moves(p, s, t.new)
  BY <1>1, Going DEF Save, Steps
<1>4. Shape(task'[p])
  BY <1>1, <1>2, <1>3 DEF Shape, MustHoldNew, Same, Moves
<1>5. binding' \in Binding \cup {NoBinding} /\ mishaps' \in Nat
  <2>1. Saved(p) \in Binding /\ binding \in Binding \cup {NoBinding} /\ mishaps \in Nat
    BY <1>1, <1>2, ChainedIs DEF IInv, TypeOK
  <2> QED BY <2>1 DEF Save, Fine, Mishap
<1>7. task' \in [Procs -> Task \cup {NoTask}] /\ Shaped' /\ lock' \in Procs \cup {Free}
  BY <1>3, <1>4, Stepped DEF Save, Moves
<1>8. UNCHANGED <<hub, catalog, due, config, log, damaged, calls, leaving, stamp, excused>>
  BY DEF Save
<1> QED BY <1>5, <1>7, <1>8 DEF IInv, TypeOK

LEMMA UndoShapes ==
  ASSUME IInv, NEW p \in Procs, Undo(p)
  PROVE  TypeOK' /\ Shaped'
<1> DEFINE t == task[p]
<1>1. t # NoTask /\ t.at = "undo"
  BY DEF Undo, At
<1>2. Shape(t) /\ t.new \in Binding /\ t.cmd = "configure" /\ t.want \in Setup
  BY <1>1, Standing DEF Shape, MustHoldNew
<1>3. Moves(p, "discard", t.new)
  BY <1>1, Going DEF Undo, Steps
<1>4. Shape(task'[p])
  BY <1>1, <1>2, <1>3 DEF Shape, MustHoldNew, Same, Moves
<1>5. config' \in Setup \cup {Original} /\ log' \in Seq(Entry) /\ mishaps' \in Nat
  BY RolledBack DEF Undo, Fine, IInv, TypeOK, Entry
<1> QED BY <1>3, <1>4, <1>5, Stepped DEF IInv, TypeOK, Entry, Undo, Moves

LEMMA RevokeShapes ==
  ASSUME IInv, NEW p \in Procs, RevokeNew(p) \/ RevokePrevious(p)
  PROVE  TypeOK' /\ Shaped'
<1> DEFINE t == task[p]
<1>1. t # NoTask /\ t.at \in {"discard", "release"} /\ End(p)
  BY DEF RevokeNew, RevokePrevious, At
<1>2. t.new \in Binding /\ t.prev \in Binding \cup {NoBinding}
  BY <1>1, Standing DEF Shape, MustHoldNew
<1>3. t.new.cred \in Creds /\ (t.prev # NoBinding => t.prev.cred \in Creds)
  BY <1>2, BindingFields
<1>4. hub' \in Hub /\ excused' \subseteq Creds /\ mishaps' \in Nat
  BY <1>3, Revoked DEF RevokeNew, RevokePrevious, Issued, Replaced, Fine, IInv, TypeOK, Hub
<1> QED BY <1>1, <1>4, Stepped, Ended DEF IInv, TypeOK, Hub, RevokeNew, RevokePrevious

(* A command that begins.  Begins is a renewal that a module building on   *)
(* this one starts, beside other renewals and without a command of its     *)
(* own; Fails is a failure of such a module that changes nothing here.     *)
Renewal ==
  [cmd |-> "renew", at |-> "lock", mode |-> "runtime", want |-> Original,
   prev |-> NoBinding, new |-> NoBinding, txn |-> NoTxn, unsaved |-> FALSE]
Begins(p) ==
  /\ task[p] = NoTask /\ task' = [task EXCEPT ![p] = Renewal]
  /\ \A q \in Procs : task[q] # NoTask => task[q].cmd = "renew"
  /\ UNCHANGED <<hub, catalog, due, binding, config, log, damaged, lock, counters, excused>>
Fails ==
  /\ Mishap
  /\ UNCHANGED <<hub, catalog, due, binding, config, log, damaged, lock, task, calls, leaving,
                 stamp, excused>>
AnyStep == Next \/ Fails \/ \E p \in Procs : Begins(p)
Opens(p, x) ==
  /\ task' = [task EXCEPT ![p] = x] /\ x \in Task
  /\ x.new = NoBinding /\ x.at \in {"ensure", "lock", "issue", "rollback"}
  /\ x.prev = binding \/ (x.at = "lock" /\ x.prev = NoBinding)

LEMMA StartConfigureShapes ==
  ASSUME IInv, NEW p \in Procs, StartConfigure(p)
  PROVE  TypeOK' /\ Shaped' /\ Opens(p, task'[p])
<1>1. PICK mode \in Modes, proto \in Protocols :
        \E selected \in SUBSET Offered(proto) : \E m \in selected :
          LET carried == IF mode = "auto" /\ Survives(binding, proto)
                         THEN binding.models \cap Offered(proto) ELSE {}
              want == [proto |-> proto, model |-> m, models |-> selected \cup carried]
          IN task' = [task EXCEPT ![p] =
               [cmd |-> "configure", at |-> "ensure", mode |-> mode, want |-> want,
                prev |-> binding, new |-> NoBinding, txn |-> NoTxn, unsaved |-> FALSE]]
  BY DEF StartConfigure
<1>2. PICK want \in Setup : task' = [task EXCEPT ![p] =
        [cmd |-> "configure", at |-> "ensure", mode |-> mode, want |-> want,
         prev |-> binding, new |-> NoBinding, txn |-> NoTxn, unsaved |-> FALSE]]
  BY <1>1 DEF Offered, Setup, IInv, TypeOK
<1> DEFINE x == [cmd |-> "configure", at |-> "ensure", mode |-> mode, want |-> want,
                 prev |-> binding, new |-> NoBinding, txn |-> NoTxn, unsaved |-> FALSE]
<1>3. x \in Task /\ Shape(x)
  BY DEF Task, Steps, Shape, MustHoldNew, NoTxn, IInv, TypeOK
<1>4. task' = [task EXCEPT ![p] = x] /\ task'[p] = x
  BY <1>2 DEF IInv, TypeOK
<1>7. x.new = NoBinding /\ x.at = "ensure" /\ x.prev = binding
  OBVIOUS
<1> HIDE DEF x
<1>5. task' \in [Procs -> Task \cup {NoTask}] /\ Shaped' /\ lock' \in Procs \cup {Free}
  BY <1>3, <1>4, Stepped DEF StartConfigure
<1>8. Opens(p, task'[p])
  BY <1>3, <1>4, <1>7 DEF Opens
<1>6. UNCHANGED <<hub, catalog, due, binding, config, log, damaged, mishaps, leaving, stamp, excused>> /\ calls' \in Nat
  BY DEF StartConfigure, IInv, TypeOK
<1> QED BY <1>5, <1>6, <1>8 DEF IInv, TypeOK

LEMMA StartRestoreShapes ==
  ASSUME IInv, NEW p \in Procs, StartRestore(p)
  PROVE  TypeOK' /\ Shaped' /\ Opens(p, task'[p])
<1> DEFINE owns == binding # NoBinding /\ binding.txn = Head(log).id
           reissue == owns /\ binding.chain # <<>>
           x == [cmd |-> "restore", at |-> IF reissue THEN "issue" ELSE "rollback",
                 mode |-> "runtime", want |-> IF reissue THEN SetupOf(Head(binding.chain)) ELSE Original,
                 prev |-> binding, new |-> NoBinding, txn |-> Head(log).id, unsaved |-> FALSE]
<1>1. Head(log) \in Entry /\ Head(log).id \in Nat
  <2>1. log \in Seq(Entry) /\ log # <<>>
    BY DEF StartRestore, Restorable, IInv, TypeOK, Entry
  <2>2. Head(log) \in Entry
    BY <2>1, TailIs
  <2> QED BY <2>2 DEF Entry
<1>2. reissue => SetupOf(Head(binding.chain)) \in Setup
  BY BindingFields, TargetFields, TailIs DEF IInv, TypeOK
<1>3. x \in Task /\ Shape(x)
  BY <1>1, <1>2 DEF Task, Steps, Modes, Shape, MustHoldNew, IInv, TypeOK
<1>4. task' = [task EXCEPT ![p] = x] /\ task'[p] = x
  BY DEF StartRestore, IInv, TypeOK
<1>5. x.new = NoBinding /\ x.at \in {"issue", "rollback"} /\ x.prev = binding
  OBVIOUS
<1> HIDE DEF x
<1>6. Opens(p, task'[p])
  BY <1>3, <1>4, <1>5 DEF Opens
<1> QED BY <1>3, <1>4, <1>6, Stepped DEF StartRestore, IInv, TypeOK, counters

LEMMA StartRenewShapes ==
  ASSUME IInv, NEW p \in Procs, StartRenew(p) \/ Begins(p)
  PROVE  TypeOK' /\ Shaped' /\ Opens(p, task'[p])
<1>1. Renewal \in Task /\ Shape(Renewal)
  BY DEF Renewal, Task, Steps, Modes, Shape, MustHoldNew, NoTxn, IInv, TypeOK
<1>2. task' = [task EXCEPT ![p] = Renewal] /\ task'[p] = Renewal
  BY DEF StartRenew, Begins, Renewal, IInv, TypeOK
<1>5. Renewal.new = NoBinding /\ Renewal.at = "lock" /\ Renewal.prev = NoBinding
  BY DEF Renewal
<1>6. Opens(p, task'[p])
  BY <1>1, <1>2, <1>5 DEF Opens
<1>3. task' \in [Procs -> Task \cup {NoTask}] /\ Shaped' /\ lock' \in Procs \cup {Free}
  BY <1>1, <1>2, Stepped DEF StartRenew, Begins
<1>4. /\ UNCHANGED <<hub, catalog, due, binding, config, log, damaged, mishaps, leaving, stamp, excused>>
      /\ calls' \in Nat
  BY DEF StartRenew, Begins, counters, IInv, TypeOK
<1> QED BY <1>3, <1>4, <1>6 DEF IInv, TypeOK

LEMMA LockShapes ==
  ASSUME IInv, NEW p \in Procs, Lock(p)
  PROVE  TypeOK' /\ Shaped'
<1> DEFINE t == task[p]
<1>1. t # NoTask /\ t.at = "lock"
  BY DEF Lock, At
<1>2. (Moves(p, "recheck", t.new) /\ lock' = p) \/ End(p)
  BY <1>1, Going DEF Lock, Steps
<1>3. ~End(p) => Shape(task'[p])
  BY <1>1, <1>2, Standing DEF Shape, MustHoldNew, Same, Moves
<1> QED BY <1>2, <1>3, Stepped, Ended DEF Lock, IInv, TypeOK, Moves, counters

LEMMA RecheckShapes ==
  ASSUME IInv, NEW p \in Procs, Recheck(p)
  PROVE  TypeOK' /\ Shaped'
<1> DEFINE t == task[p]
           x == [t EXCEPT !.at = "issue", !.prev = binding, !.want = SetupOf(binding)]
<1>1. t # NoTask /\ t.at = "recheck"
  BY DEF Recheck, At
<1>2. t \in Task /\ Shape(t) /\ t.cmd = "renew"
  BY <1>1, Standing DEF Shape
<1>3. CASE StillDue /\ binding.model \in Offered(binding.proto)
  <2>1. binding \in Binding /\ SetupOf(binding) \in Setup /\ binding # NoBinding
    BY <1>3, BindingFields DEF StillDue, IInv, TypeOK
  <2>2. x \in Task /\ Shape(x)
    BY <1>1, <1>2, <2>1 DEF Task, Steps, Shape, MustHoldNew
  <2>3. task' = [task EXCEPT ![p] = x] /\ task'[p] = x /\ lock' = lock
    BY <1>3 DEF Recheck, IInv, TypeOK
  <2> HIDE DEF x
  <2> QED BY <2>2, <2>3, Stepped DEF Recheck, IInv, TypeOK, counters
<1>4. CASE End(p)
  BY <1>4, Stepped, Ended DEF Recheck, IInv, TypeOK, counters
<1> QED BY <1>3, <1>4 DEF Recheck

LEMMA ConfirmShapes ==
  ASSUME IInv, NEW p \in Procs, Confirm(p)
  PROVE  TypeOK' /\ Shaped'
<1> DEFINE t == task[p]
<1>1. t # NoTask /\ t.at = "confirm"
  BY DEF Confirm, At
<1>2. \E s \in {"rollback", "rebind", "drop"} : Moves(p, s, t.new) /\ (s = "rollback" => t.cmd = "restore")
  BY <1>1, Going DEF Confirm, Steps
<1>3. Shape(task'[p])
  BY <1>1, <1>2, Standing DEF Shape, MustHoldNew, Same, Moves
<1> QED BY <1>2, <1>3, Stepped DEF Confirm, IInv, TypeOK, Moves, Fine, Mishap

LEMMA RollbackShapes ==
  ASSUME IInv, NEW p \in Procs, Rollback(p)
  PROVE  TypeOK' /\ Shaped'
<1> DEFINE t == task[p]
<1>1. t # NoTask /\ t.at = "rollback"
  BY DEF Rollback, At
<1>2. t.cmd = "restore" /\ Shape(t)
  BY <1>1, Standing DEF Shape
<1>3. \/ t.prev # NoBinding /\ t.new # NoBinding /\ Moves(p, "rebind", t.new) /\ lock' = lock
      \/ t.prev # NoBinding /\ t.new = NoBinding /\ Moves(p, "retire", t.new) /\ lock' = lock
      \/ t.new # NoBinding /\ Moves(p, "drop", t.new) /\ lock' = lock
      \/ End(p)
  BY <1>1, Going DEF Rollback, Steps
<1>4. ~End(p) => Shape(task'[p])
  BY <1>1, <1>2, <1>3, Standing DEF Shape, MustHoldNew, Same, Moves
<1>5. config' \in Setup \cup {Original} /\ log' \in Seq(Entry) /\ mishaps' \in Nat
  BY RolledBack DEF Rollback, IInv
<1>6. task' \in [Procs -> Task \cup {NoTask}] /\ Shaped' /\ lock' \in Procs \cup {Free}
  BY <1>3, <1>4, Stepped, Ended DEF Moves
<1> QED BY <1>5, <1>6 DEF Rollback, IInv, TypeOK, Entry

LEMMA RebindShapes ==
  ASSUME IInv, NEW p \in Procs, Rebind(p)
  PROVE  TypeOK' /\ Shaped'
<1> DEFINE t == task[p]
           x == [t EXCEPT !.at = "drop", !.unsaved = (t.cmd = "restore")]
<1>1. t # NoTask /\ t.at = "rebind"
  BY DEF Rebind, At
<1>2. t \in Task /\ Shape(t) /\ t.new \in Binding /\ t.cmd \in {"restore", "renew"}
  BY <1>1, Standing DEF Shape, MustHoldNew
<1>3. x \in Task /\ Shape(x)
  BY <1>1, <1>2 DEF Task, Steps, Shape, MustHoldNew
<1>4. Moves(p, "retire", t.new) \/ (task' = [task EXCEPT ![p] = x] /\ task'[p] = x)
  <2>1. Goto(p, "retire") \/ task' = [task EXCEPT ![p] = x]
    BY DEF Rebind
  <2> HIDE DEF x
  <2> QED BY <1>1, <2>1, Going DEF Steps, IInv, TypeOK
<1> HIDE DEF x
<1>5. Shape(task'[p]) /\ task'[p] \in Task /\ task' = [task EXCEPT ![p] = task'[p]]
  BY <1>1, <1>2, <1>3, <1>4 DEF Shape, MustHoldNew, Same, Moves
<1> QED BY <1>2, <1>5, Stepped DEF Rebind, IInv, TypeOK, Fine, Mishap

LEMMA DropShapes ==
  ASSUME IInv, NEW p \in Procs, Drop(p) \/ Retire(p)
  PROVE  TypeOK' /\ Shaped'
<1> DEFINE t == task[p]
<1>1. t # NoTask /\ t.at \in {"drop", "retire"}
  BY DEF Drop, Retire, At
<1>2. t.at = "drop" => t.new \in Binding
  BY <1>1, Standing DEF Shape, MustHoldNew
<1>3. t.prev \in Binding /\ Shape(t)
  BY <1>1, Standing DEF Shape, MustHoldNew
<1>4. \/ t.at = "drop" /\ t.unsaved /\ Moves(p, "retire", t.new) /\ lock' = lock
      \/ t.at = "retire" /\ (t.new = NoBinding \/ t.unsaved) /\ Moves(p, "unbind", t.new) /\ lock' = lock
      \/ End(p)
  BY <1>1, Going DEF Drop, Retire, At, Steps
<1>5. ~End(p) => Shape(task'[p])
  BY <1>1, <1>3, <1>4, Standing DEF Shape, MustHoldNew, Same, Moves
<1>6. (t.at = "drop" => t.new.cred \in Creds) /\ t.prev.cred \in Creds
  BY <1>2, <1>3, BindingFields
<1>7. hub' \in Hub /\ excused' \subseteq Creds /\ mishaps' \in Nat
  BY <1>6, Revoked DEF Drop, Retire, At, IInv
<1> QED BY <1>4, <1>5, <1>7, Stepped, Ended DEF Drop, Retire, IInv, TypeOK, Hub, Moves

LEMMA UnbindShapes ==
  ASSUME IInv, NEW p \in Procs, Unbind(p)
  PROVE  TypeOK' /\ Shaped'
<1> DEFINE t == task[p]
<1>1. t # NoTask /\ t.at = "unbind" /\ End(p)
  BY DEF Unbind, At
<1>2. t.prev.cred \in Creds
  BY <1>1, Standing, BindingFields DEF Shape
<1> QED BY <1>1, <1>2, Stepped, Ended DEF Unbind, IInv, TypeOK, Fine, Mishap

LEMMA CrashShapes ==
  ASSUME IInv, NEW p \in Procs, Crash(p)
  PROVE  TypeOK' /\ Shaped'
<1>1. InHand(p) \subseteq Creds
  BY Standing, BindingFields DEF Crash, InHand
<1>2. log \in Seq(Entry) /\ Pushed \in Seq(Entry) /\ stamp \in Nat /\ config \in Setup \cup {Original}
  BY PushedIs DEF IInv, TypeOK
<1>3. log # <<>> => Head(log).before \in Setup \cup {Original}
  <2>1. log # <<>> => Head(log) \in Entry
    BY <1>2, TailIs
  <2> QED BY <2>1 DEF Entry
<1>4. log' \in Seq(Entry) /\ config' \in Setup \cup {Original} /\ stamp' \in Nat /\ damaged' \in BOOLEAN
  <2>1. log' \in {log, Pushed} /\ stamp' \in {stamp, stamp + 1} /\ damaged' \in {damaged, TRUE}
    BY DEF Crash
  <2>2. config' = config \/ (log # <<>> /\ config' = Head(log).before)
    BY DEF Crash, Newest
  <2>3. damaged' \in BOOLEAN
    BY <2>1, Zenon DEF IInv, TypeOK
  <2> QED BY <1>2, <1>3, <2>1, <2>2, <2>3
<1>5. task'[p] = NoTask /\ task' = [task EXCEPT ![p] = task'[p]] /\ lock' = lock
  BY DEF Crash, IInv, TypeOK
<1>6. excused' \subseteq Creds /\ mishaps' \in Nat
  BY <1>1 DEF Crash, Mishap, IInv, TypeOK
<1>7. UNCHANGED <<hub, catalog, due, binding, lock, calls, leaving>>
  BY DEF Crash
<1>8. task' \in [Procs -> Task \cup {NoTask}] /\ Shaped' /\ lock' \in Procs \cup {Free}
  BY <1>5, Stepped
<1> QED BY <1>4, <1>6, <1>7, <1>8 DEF IInv, TypeOK, Entry

LEMMA EnvironmentShapes ==
  ASSUME IInv, ComeDue \/ Leave \/ Fails \/ UNCHANGED vars
  PROVE  TypeOK' /\ Shaped'
<1>1. Shaped'
  BY DEF IInv, Shaped, ComeDue, Leave, Fails, vars
<1>2. CASE ComeDue
  BY <1>1, <1>2, BindingFields DEF IInv, TypeOK, ComeDue, counters
<1>3. CASE Leave
  BY <1>1, <1>3 DEF IInv, TypeOK, Leave
<1>4. CASE Fails \/ UNCHANGED vars
  BY <1>1, <1>4 DEF IInv, TypeOK, Fails, Mishap, vars
<1> QED BY <1>2, <1>3, <1>4

-----------------------------------------------------------------------------
(* The configuration changes with the log, or back to what the log holds.  *)
LogStep ==
  /\ mishaps' \in {mishaps, mishaps + 1}
  /\ \/ UNCHANGED <<config, log, stamp>>
     \/ log' = Pushed /\ stamp' = stamp + 1
     \/ /\ log # <<>> /\ config' = Head(log).before /\ stamp' = stamp
        /\ log' = Tail(log) \/ (log' = log /\ mishaps' = mishaps + 1)

LEMMA LogSteps ==
  ASSUME [AnyStep]_vars PROVE LogStep
<1>1. ASSUME NEW p \in Procs, Step(p) \/ StartConfigure(p) \/ StartRestore(p) \/ StartRenew(p) \/ Begins(p) \/ Crash(p)
      PROVE  LogStep
  <2>1. CASE Apply(p)
    BY <2>1 DEF Apply, LogStep, Fine, Mishap
  <2>2. CASE Undo(p)
    BY <2>2 DEF Undo, RollsBack, RollbackFails, Newest, LogStep, Fine, Mishap
  <2>3. CASE Rollback(p)
    BY <2>3 DEF Rollback, RollsBack, RollbackFails, Newest, LogStep, Fine, Mishap
  <2>4. CASE Crash(p)
    BY <2>4, SMTT(30) DEF Crash, Newest, LogStep, Mishap
  <2>5. CASE Ensure(p) \/ Widen(p) \/ Issue(p) \/ Verify(p) \/ Save(p) \/ RevokeNew(p) \/ RevokePrevious(p)
    BY <2>5 DEF Ensure, Widen, Issue, Verify, Save, RevokeNew, RevokePrevious, Revoke, LogStep, Fine, Mishap
  <2>6. CASE Lock(p) \/ Recheck(p) \/ Confirm(p) \/ Rebind(p) \/ Drop(p) \/ Retire(p) \/ Unbind(p)
    BY <2>6 DEF Lock, Recheck, Confirm, Rebind, Drop, Retire, Unbind, Revoke, LogStep, Fine, Mishap, counters
  <2>7. CASE StartConfigure(p) \/ StartRestore(p) \/ StartRenew(p) \/ Begins(p)
    BY <2>7 DEF StartConfigure, StartRestore, StartRenew, Begins, LogStep, counters
  <2> QED BY <1>1, <2>1, <2>2, <2>3, <2>4, <2>5, <2>6, <2>7 DEF Step
<1>2. ASSUME ComeDue \/ Leave \/ Fails \/ UNCHANGED vars PROVE LogStep
  BY <1>2 DEF ComeDue, Leave, Fails, Mishap, vars, LogStep, counters
<1> QED BY <1>1, <1>2 DEF AnyStep, Next

LEMMA GroundStays ==
  ASSUME IInv, LogStep PROVE Grounded'
<1>1. log \in Seq(Entry)
  BY PushedIs DEF IInv
<1>2. CASE UNCHANGED <<config, log, stamp>>
  BY <1>2 DEF IInv, Grounded
<1>3. CASE log' = Pushed
  <2>1. log = <<>> => Len(log) = 0
    BY <1>1
  <2>2. Len(log) \in Nat /\ DOMAIN log = 1..Len(log) /\ (log # <<>> => Len(log) \in DOMAIN log)
    BY <1>1
  <2>3. CASE log = <<>>
    <3>1. log' # <<>> /\ Len(log') = 1 /\ log'[1].before = config
      BY <1>3, <2>1, <2>3, PushedIs DEF IInv
    <3> QED BY <2>3, <3>1 DEF IInv, Grounded
  <2>4. CASE log # <<>>
    <3>1. log'[Len(log')] = log[Len(log)] /\ log' # <<>>
      BY <1>3, <2>2, <2>4, PushedIs DEF IInv
    <3> QED BY <2>4, <3>1 DEF IInv, Grounded
  <2> QED BY <2>3, <2>4
<1>4. CASE log # <<>> /\ config' = Head(log).before /\ log' = log
  BY <1>4 DEF IInv, Grounded
<1>5. CASE log # <<>> /\ config' = Head(log).before /\ log' = Tail(log)
  <2>1. PICK u : u = Tail(log)
    OBVIOUS
  <2>2. /\ Head(log) = log[1] /\ u \in Seq(Entry) /\ Len(u) = Len(log) - 1 /\ Len(log) \in Nat \ {0}
        /\ \A i \in DOMAIN u : i + 1 \in DOMAIN log /\ u[i] = log[i + 1]
    BY <1>1, <1>5, <2>1, TailIs
  <2>3. CASE u = <<>>
    <3>1. Len(log) = 1
      BY <2>2, <2>3
    <3> QED BY <1>5, <2>1, <2>2, <2>3, <3>1 DEF IInv, Grounded
  <2>4. CASE u # <<>>
    <3>1. Len(u) \in DOMAIN u /\ Len(u) + 1 = Len(log)
      BY <2>2, <2>4
    <3>2. u[Len(u)] = log[Len(log)]
      BY <2>2, <3>1
    <3> QED BY <1>5, <2>1, <2>4, <3>2 DEF IInv, Grounded
  <2> QED BY <2>3, <2>4
<1> QED BY <1>2, <1>3, <1>4, <1>5 DEF LogStep

LEMMA Initially == Init => IInv
<1> SUFFICES ASSUME Init PROVE IInv
  OBVIOUS
<1>1. <<>> \in Seq([id : Nat \ {0}, before : Setup \cup {Original}])
  OBVIOUS
<1>2. TypeOK
  BY <1>1, KeysAssumption DEF Init, TypeOK, Creds
<1>3. Shaped /\ Grounded
  BY DEF Init, Shaped, Grounded
<1> QED BY <1>2, <1>3 DEF IInv

LEMMA IInvKept == IInv /\ [AnyStep]_vars => IInv'
<1> SUFFICES ASSUME IInv, [AnyStep]_vars PROVE IInv'
  OBVIOUS
<1>1. ASSUME NEW p \in Procs, Step(p) \/ StartConfigure(p) \/ StartRestore(p) \/ StartRenew(p) \/ Begins(p) \/ Crash(p)
      PROVE  TypeOK' /\ Shaped'
  BY <1>1, EnsureShapes, WidenShapes, IssueShapes, ApplyShapes, VerifyShapes, SaveShapes, UndoShapes, RevokeShapes,
     LockShapes, RecheckShapes, ConfirmShapes, RollbackShapes, RebindShapes, DropShapes, UnbindShapes,
     StartConfigureShapes, StartRestoreShapes, StartRenewShapes, CrashShapes DEF Step
<1>2. TypeOK' /\ Shaped'
  BY <1>1, EnvironmentShapes DEF AnyStep, Next
<1> QED BY <1>2, LogSteps, GroundStays DEF IInv

LEMMA StepsAre == [Next]_vars => [AnyStep]_vars
  BY DEF AnyStep

(* Every reachable state of configureAgent, executeRestore and             *)
(* runtimeCredentialForLaunch is well typed, each command has the bindings *)
(* its step uses, and undoing every recorded transaction ends at the       *)
(* configuration from before the first connection: whatever fails, dies or *)
(* overlaps.                                                               *)
THEOREM ConnectionTyped == Spec => []IInv
  BY Initially, IInvKept, StepsAre, PTL DEF Spec

-----------------------------------------------------------------------------
(* Renewals take turns.  What a step does to the lock: a command that ends *)
(* frees its own, and a waiting renewal takes one that is free or orphaned.*)
GoesOn(p) ==
  /\ task'[p] # NoTask /\ task'[p].cmd = task[p].cmd /\ task'[p].mode = task[p].mode
  /\ task[p].at # "recheck" => task'[p].want = task[p].want /\ task'[p].prev = task[p].prev
Turning(p) ==
  /\ task[p] # NoTask /\ task' = [task EXCEPT ![p] = task'[p]]
  /\ \/ task'[p] = NoTask /\ lock' = IF lock = p THEN Free ELSE lock
     \/ GoesOn(p) /\ task[p].at # "lock" /\ lock' = lock
     \/ GoesOn(p) /\ task[p].at = "lock" /\ Takeable /\ lock' = p

LEMMA EndTurns ==
  ASSUME IInv, NEW p \in Procs, task[p] # NoTask, End(p)
  PROVE  Turning(p)
  BY Ended DEF Turning, End

LEMMA MoveTurns ==
  ASSUME IInv, NEW p \in Procs, task[p] # NoTask, task[p].at # "lock", NEW s, NEW b, Moves(p, s, b), lock' = lock
  PROVE  Turning(p)
  BY DEF Turning, GoesOn, Moves, Same

LEMMA StepTurns ==
  ASSUME IInv, NEW p \in Procs, Step(p)
  PROVE  Turning(p)
<1> DEFINE t == task[p]
<1>1. CASE Ensure(p)
  <2> DEFINE w == t.want
             wider == [binding EXCEPT !.model = w.model, !.models = w.models \cup @]
  <2>1. t # NoTask /\ t.at = "ensure" /\ w \in Setup
    BY <1>1, Standing DEF Ensure, At, Shape
  <2>2. Survives(binding, w.proto) => wider \in Binding
    BY <2>1 DEF IInv, TypeOK, Survives, Binding, Setup
  <2>3. t.mode \in OwnKeys => Fresh(t.mode, "user", w) \in Binding
    BY <2>1, FreshIs DEF Creds
  <2>4. (\E b, s : Moves(p, s, b) /\ lock' = lock) \/ End(p)
    BY <1>1, <2>1, <2>2, <2>3, Going DEF Ensure, IInv, TypeOK, Steps
  <2> QED BY <2>1, <2>4, EndTurns, MoveTurns
<1>2. CASE Issue(p)
  <2>1. t # NoTask /\ t.at = "issue" /\ Unborn # {}
    BY <1>2 DEF Issue, At
  <2>2. Draft(p, NextCred) \in Binding
    BY <2>1, DraftIs, BornIs
  <2>3. (\E b, s : Moves(p, s, b) /\ lock' = lock) \/ End(p)
    BY <1>2, <2>1, <2>2, Going DEF Issue, Steps
  <2> QED BY <2>1, <2>3, EndTurns, MoveTurns
<1>3. CASE Apply(p)
  <2> DEFINE x == [t EXCEPT !.at = "verify", !.txn = stamp + 1]
  <2>1. t # NoTask /\ t.at = "apply" /\ t \in Task /\ stamp + 1 \in Nat /\ lock' = lock
    BY <1>3, Standing DEF Apply, At, IInv, TypeOK
  <2>2. x \in Task /\ x.cmd = t.cmd /\ x.mode = t.mode /\ x.want = t.want /\ x.prev = t.prev
    BY <2>1 DEF Task, Steps
  <2>3. (\E s : Moves(p, s, t.new)) \/ (task' = [task EXCEPT ![p] = x] /\ task'[p] = x)
    BY <1>3, <2>1, Going DEF Apply, Steps, IInv, TypeOK
  <2> HIDE DEF x
  <2> QED BY <2>1, <2>2, <2>3, MoveTurns, MarkersAssumption DEF Turning, GoesOn
<1>4. CASE Recheck(p)
  <2> DEFINE x == [t EXCEPT !.at = "issue", !.prev = binding, !.want = SetupOf(binding)]
  <2>1. t # NoTask /\ t.at = "recheck" /\ t \in Task
    BY <1>4, Standing DEF Recheck, At
  <2>2. CASE End(p)
    BY <2>1, <2>2, EndTurns
  <2>3. CASE StillDue /\ binding.model \in Offered(binding.proto)
    <3>1. binding \in Binding /\ SetupOf(binding) \in Setup
      BY <2>3, BindingFields DEF StillDue, IInv, TypeOK
    <3>2. x \in Task /\ x.cmd = t.cmd /\ x.mode = t.mode
      BY <2>1, <3>1 DEF Task, Steps
    <3>3. task' = [task EXCEPT ![p] = x] /\ task'[p] = x /\ lock' = lock
      BY <1>4, <2>3 DEF Recheck, IInv, TypeOK
    <3> HIDE DEF x
    <3> QED BY <2>1, <3>2, <3>3, MarkersAssumption DEF Turning, GoesOn
  <2> QED BY <1>4, <2>2, <2>3 DEF Recheck
<1>5. CASE Rebind(p)
  <2> DEFINE x == [t EXCEPT !.at = "drop", !.unsaved = (t.cmd = "restore")]
  <2>1. t # NoTask /\ t.at = "rebind" /\ t \in Task /\ lock' = lock
    BY <1>5, Standing DEF Rebind, At
  <2>2. x \in Task /\ x.cmd = t.cmd /\ x.mode = t.mode /\ x.want = t.want /\ x.prev = t.prev
    BY <2>1 DEF Task, Steps
  <2>3. Moves(p, "retire", t.new) \/ (task' = [task EXCEPT ![p] = x] /\ task'[p] = x)
    <3>1. Goto(p, "retire") \/ task' = [task EXCEPT ![p] = x]
      BY <1>5 DEF Rebind
    <3> HIDE DEF x
    <3> QED BY <2>1, <3>1, Going DEF Steps, IInv, TypeOK
  <2> HIDE DEF x
  <2> QED BY <2>1, <2>2, <2>3, MoveTurns, MarkersAssumption DEF Turning, GoesOn
<1>6. CASE Lock(p)
  <2>1. t # NoTask /\ t.at = "lock"
    BY <1>6 DEF Lock, At
  <2>2. (Moves(p, "recheck", t.new) /\ lock' = p /\ Takeable) \/ End(p)
    BY <1>6, <2>1, Going DEF Lock, Steps
  <2> QED BY <2>1, <2>2, EndTurns DEF Turning, GoesOn, Moves, Same
<1>7. CASE Widen(p) \/ Verify(p) \/ Save(p) \/ Undo(p) \/ Confirm(p)
  <2>1. t # NoTask /\ t.at \in {"widen", "verify", "save", "undo", "confirm"}
    BY <1>7 DEF Widen, Verify, Save, Undo, Confirm, At
  <2>2. (\E s \in Steps : Moves(p, s, t.new) /\ lock' = lock) \/ End(p)
    BY <1>7, <2>1, Going DEF Widen, Verify, Save, Undo, Confirm, Steps
  <2> QED BY <2>1, <2>2, EndTurns, MoveTurns
<1>8. CASE RevokeNew(p) \/ RevokePrevious(p) \/ Unbind(p)
  <2>1. t # NoTask /\ End(p)
    BY <1>8 DEF RevokeNew, RevokePrevious, Unbind, At
  <2> QED BY <2>1, EndTurns
<1>9. CASE Rollback(p) \/ Drop(p) \/ Retire(p)
  <2>1. t # NoTask /\ t.at \in {"rollback", "drop", "retire"}
    BY <1>9 DEF Rollback, Drop, Retire, At
  <2>2. (\E s \in Steps : Moves(p, s, t.new) /\ lock' = lock) \/ End(p)
    BY <1>9, <2>1, Going DEF Rollback, Drop, Retire, Steps
  <2> QED BY <2>1, <2>2, EndTurns, MoveTurns
<1> QED BY <1>1, <1>2, <1>3, <1>4, <1>5, <1>6, <1>7, <1>8, <1>9 DEF Step

(* What a process that works or begins leaves to the others.               *)
LEMMA TheOthers ==
  ASSUME IInv, NEW p \in Procs, task' = [task EXCEPT ![p] = task'[p]]
  PROVE  \A q \in Procs \ {p} : task'[q] = task[q] /\ (AtRest(q)' <=> AtRest(q))
  BY DEF IInv, TypeOK, AtRest

LEMMA FreeToTake ==
  ASSUME Turns, NEW p \in Procs, task[p] # NoTask, Takeable
  PROVE  \A q \in Procs \ {p} : AtRest(q)
<1>1. ASSUME NEW q \in Procs \ {p}, ~AtRest(q) PROVE FALSE
  <2>1. task[q].cmd = "renew" /\ task[q] # NoTask
    BY <1>1 DEF Turns, AtRest
  <2>2. lock = q
    BY <1>1, <2>1 DEF Turns
  <2> QED BY <2>1, <2>2 DEF Takeable
<1> QED BY <1>1

LEMMA TurnsGoOn ==
  ASSUME IInv, Turns, NEW p \in Procs, Turning(p)
  PROVE  Turns'
<1>1. \A q \in Procs \ {p} : task'[q] = task[q] /\ (AtRest(q)' <=> AtRest(q))
  BY TheOthers DEF Turning
<1>2. ASSUME NEW q \in Procs, ~AtRest(q)', task'[q].cmd = "renew" PROVE lock' = q
  <2>1. CASE q = p
    <3>1. task'[p] # NoTask /\ task[p].cmd = "renew"
      BY <1>2, <2>1 DEF AtRest, Turning, GoesOn
    <3>2. task[p].at # "lock" => lock = p
      BY <1>2, <2>1, <3>1 DEF Turns, Turning, GoesOn, AtRest
    <3> QED BY <2>1, <3>1, <3>2 DEF Turning
  <2>2. CASE q # p
    <3>1. ~AtRest(q) /\ task[q].cmd = "renew" /\ lock = q
      BY <1>1, <1>2, <2>2 DEF Turns
    <3>2. ~Takeable
      BY <3>1 DEF Takeable, AtRest
    <3> QED BY <2>2, <3>1, <3>2 DEF Turning
  <2> QED BY <2>1, <2>2
<1>3. ASSUME NEW q \in Procs, NEW r \in Procs, q # r, task'[q] # NoTask, task'[r] # NoTask
      PROVE  task'[q].cmd = "renew"
  <2>1. task[q] # NoTask /\ task[r] # NoTask /\ task'[q].cmd = task[q].cmd
    BY <1>1, <1>3 DEF Turning, GoesOn
  <2> QED BY <1>3, <2>1 DEF Turns
<1> QED BY <1>2, <1>3 DEF Turns

LEMMA StartTurns ==
  ASSUME IInv, Turns, Overlap \subseteq {"renew"}, NEW p \in Procs,
         StartConfigure(p) \/ StartRestore(p) \/ StartRenew(p) \/ Begins(p)
  PROVE  Turns'
<1> DEFINE x == task'[p]
<1>1. Opens(p, x) /\ lock' = lock /\ task[p] = NoTask
  BY StartConfigureShapes, StartRestoreShapes, StartRenewShapes DEF StartConfigure, StartRestore, StartRenew, Begins, MayStart
<1>2. /\ x.cmd \in {"configure", "restore", "renew"} /\ (x.cmd = "renew" => x.at = "lock")
      /\ \A q \in Procs : task[q] # NoTask => x.cmd = "renew" /\ task[q].cmd = "renew"
  <2>1. CASE StartConfigure(p)
    <3>1. PICK mode, want : task' = [task EXCEPT ![p] =
            [cmd |-> "configure", at |-> "ensure", mode |-> mode, want |-> want,
             prev |-> binding, new |-> NoBinding, txn |-> NoTxn, unsaved |-> FALSE]]
      BY <2>1 DEF StartConfigure
    <3>2. x.cmd = "configure"
      BY <3>1 DEF IInv, TypeOK
    <3> QED BY <2>1, <3>2 DEF StartConfigure, MayStart
  <2>2. CASE StartRestore(p)
    <3>1. x.cmd = "restore"
      BY <2>2 DEF StartRestore, IInv, TypeOK
    <3> QED BY <2>2, <3>1 DEF StartRestore, MayStart
  <2>3. CASE StartRenew(p) \/ Begins(p)
    <3>1. x.cmd = "renew" /\ x.at = "lock"
      BY <2>3 DEF StartRenew, Begins, Renewal, IInv, TypeOK
    <3> QED BY <2>3, <3>1 DEF StartRenew, Begins, MayStart
  <2> QED BY <2>1, <2>2, <2>3
<1>3. \A q \in Procs \ {p} : task'[q] = task[q] /\ (AtRest(q)' <=> AtRest(q))
  BY <1>1, TheOthers DEF Opens, IInv, TypeOK
<1>4. \A q \in Procs : task[q] # NoTask => x.cmd = "renew" /\ task[q].cmd = "renew"
  BY <1>2
<1>5. ASSUME NEW q \in Procs, ~AtRest(q)', task'[q].cmd = "renew" PROVE lock' = q
  <2>1. q # p
    BY <1>2, <1>5 DEF AtRest
  <2> QED BY <1>1, <1>3, <1>5, <2>1 DEF Turns
<1>6. ASSUME NEW q \in Procs, NEW r \in Procs, q # r, task'[q] # NoTask, task'[r] # NoTask
      PROVE  task'[q].cmd = "renew"
  <2>1. CASE q = p
    BY <1>3, <1>4, <1>6, <2>1
  <2>2. CASE q # p
    BY <1>3, <1>4, <1>6, <2>2
  <2> QED BY <2>1, <2>2
<1> QED BY <1>5, <1>6 DEF Turns

LEMMA TurnsKept == IInv /\ Turns /\ Overlap \subseteq {"renew"} /\ [AnyStep]_vars => Turns'
<1> SUFFICES ASSUME IInv, Turns, Overlap \subseteq {"renew"}, [AnyStep]_vars PROVE Turns'
  OBVIOUS
<1>1. ASSUME NEW p \in Procs, Crash(p) PROVE Turns'
  <2>1. task'[p] = NoTask /\ task' = [task EXCEPT ![p] = task'[p]] /\ lock' = lock
    BY <1>1 DEF Crash, IInv, TypeOK
  <2>2. \A q \in Procs \ {p} : task'[q] = task[q] /\ (AtRest(q)' <=> AtRest(q))
    BY <2>1, TheOthers
  <2> QED BY <2>1, <2>2 DEF Turns, AtRest
<1>2. ASSUME ComeDue \/ Leave \/ Fails \/ UNCHANGED vars PROVE Turns'
  BY <1>2 DEF ComeDue, Leave, Fails, Mishap, vars, Turns, AtRest
<1> QED BY <1>1, <1>2, StepTurns, TurnsGoOn, StartTurns DEF AnyStep, Next

LEMMA TurnsInit == Init => Turns
  BY DEF Init, Turns, AtRest

-----------------------------------------------------------------------------
(* The command at work and its books.                                      *)
LEMMA Turn ==
  ASSUME IInv, One, NEW p \in Procs, ~AtRest(p)
  PROVE  Books(task[p]) /\ \A q \in Procs \ {p} : AtRest(q)
<1>1. PICK t : Solo(t) /\ Books(t)
  BY DEF One
<1>2. t = task[p] /\ \A q \in Procs \ {p} : AtRest(q)
  BY <1>1 DEF Solo, Resting
<1> QED BY <1>1, <1>2

LEMMA OwnTurn ==
  ASSUME IInv, One, NEW p \in Procs, task[p] # NoTask, task[p].at # "lock", task' = [task EXCEPT ![p] = task'[p]]
  PROVE  Books(task[p]) /\ Solo(task[p])'
<1>1. Books(task[p]) /\ \A q \in Procs \ {p} : AtRest(q)'
  BY Turn, TheOthers DEF AtRest
<1>2. Solo(task[p])'
  BY <1>1 DEF Solo, Resting, AtRest
<1> QED BY <1>1, <1>2

(* When nobody works, the books are closed.                                *)
LEMMA Rests ==
  ASSUME IInv, One, Resting
  PROVE  Books(NoTask)
<1>1. PICK t : Solo(t) /\ Books(t)
  BY DEF One
<1>2. t = NoTask \/ t.at = "lock"
  BY <1>1 DEF Solo, Resting, AtRest
<1> QED BY <1>1, <1>2, MarkersAssumption DEF Books, Usable, Accounted, Unbinding, Owes

LEMMA Hands ==
  ASSUME IInv, NEW p \in Procs, task[p] # NoTask
  PROVE  /\ binding # NoBinding => binding.cred \in Creds
         /\ task[p].prev # NoBinding => task[p].prev.cred \in Creds
         /\ task[p].new # NoBinding => task[p].new.cred \in Creds
         /\ Shape(task[p]) /\ task[p].cmd \in {"configure", "restore", "renew"}
  BY Standing, BindingFields DEF IInv, TypeOK

(* The books depend on the status of a credential only.                    *)
Kept == binding' = binding /\ excused' = excused /\ \A c \in Creds : hub'[c].status = hub[c].status

LEMMA BooksEnd ==
  ASSUME IInv, NEW p \in Procs, task[p] # NoTask, Books(task[p]), Kept, task'[p] = NoTask, task[p].at # "unbind",
         \A c \in 1..MaxCreds : Owes(task[p], c) =>
           hub[c].status # "live" \/ c \in excused \/ (binding # NoBinding /\ binding.cred = c)
  PROVE  Books(task[p])'
<1>1. (binding # NoBinding => binding.cred \in Creds) /\ 1..MaxCreds \subseteq Creds
  BY Hands DEF Creds
<1> QED BY <1>1 DEF Books, Kept, Usable, Accounted, Unbinding

LEMMA BooksGoOn ==
  ASSUME IInv, NEW p \in Procs, task[p] # NoTask, Books(task[p]), Kept, task'[p] # NoTask, Ties(task[p])',
         task[p].at # "unbind", task'[p].at # "unbind",
         \A c \in 1..MaxCreds : Owes(task[p], c) => Owes(task'[p], c)
  PROVE  Books(task[p])'
<1>1. (binding # NoBinding => binding.cred \in Creds) /\ 1..MaxCreds \subseteq Creds
  BY Hands DEF Creds
<1>2. binding' # NoBinding => hub'[binding'.cred].status # "unborn"
  BY <1>1 DEF Books, Kept
<1>3. Usable(task[p])'
  BY <1>1 DEF Books, Kept, Usable, Unbinding
<1>4. "split" \notin Situations => Accounted(task[p])'
  BY <1>1 DEF Books, Kept, Accounted, Unbinding
<1> QED BY <1>2, <1>3, <1>4 DEF Books

(* A step between two states in which p has nothing in its hands.          *)
LEMMA IdleBooks ==
  ASSUME IInv, One, NEW p \in Procs, AtRest(p), AtRest(p)', task' = [task EXCEPT ![p] = task'[p]], Kept
  PROVE  One'
<1>1. \A q \in Procs \ {p} : task'[q] = task[q] /\ (AtRest(q)' <=> AtRest(q))
  BY TheOthers
<1>2. (binding # NoBinding => binding.cred \in Creds) /\ 1..MaxCreds \subseteq Creds
  BY BindingFields DEF IInv, TypeOK, Creds
<1>3. CASE Resting
  <2>1. Books(NoTask)'
    BY <1>2, <1>3, Rests DEF Books, Kept, Usable, Accounted, Unbinding
  <2>2. Solo(NoTask)'
    BY <1>1, <1>3 DEF Solo, Resting
  <2> QED BY <2>1, <2>2 DEF One
<1>4. ASSUME NEW q \in Procs, ~AtRest(q) PROVE One'
  <2> DEFINE t == task[q]
  <2>1. t # NoTask /\ q # p /\ Books(t) /\ \A r \in Procs \ {q} : AtRest(r)
    BY <1>4, Turn DEF AtRest
  <2>2. task'[q] = t /\ \A r \in Procs \ {q} : AtRest(r)'
    BY <1>1, <2>1
  <2>3. (t.prev # NoBinding => t.prev.cred \in Creds) /\ (t.new # NoBinding => t.new.cred \in Creds)
    BY <2>1, Hands
  <2>4. Solo(task[q])'
    BY <2>1, <2>2 DEF Solo
  <2>5. Ties(task[q])'
    BY <2>1, <2>2, <2>3 DEF Books, Ties, Rebound, Kept
  <2>6. Usable(task[q])' /\ (binding' # NoBinding => hub'[binding'.cred].status # "unborn")
    BY <1>2, <2>1, <2>2 DEF Books, Kept, Usable, Unbinding
  <2>7. "split" \notin Situations => Accounted(task[q])'
    BY <1>2, <2>1, <2>2 DEF Books, Kept, Accounted, Unbinding
  <2>8. Books(task[q])'
    BY <2>5, <2>6, <2>7, Zenon DEF Books
  <2> QED BY <2>4, <2>8 DEF One
<1> QED BY <1>3, <1>4 DEF Resting

LEMMA EnsureBooks ==
  ASSUME IInv, One, NEW p \in Procs, Ensure(p)
  PROVE  One'
<1> DEFINE t == task[p]
           w == t.want
           wider == [binding EXCEPT !.model = w.model, !.models = w.models \cup @]
<1>1. t # NoTask /\ t.at = "ensure" /\ t.cmd = "configure" /\ w \in Setup
  BY Standing DEF Ensure, At, Shape
<1>2. Survives(binding, w.proto) => wider \in Binding /\ binding # NoBinding /\ wider.cred = binding.cred
  BY <1>1 DEF IInv, TypeOK, Survives, Binding, Setup
<1>3. t.mode \in OwnKeys => Fresh(t.mode, "user", w) \in Binding /\ Fresh(t.mode, "user", w).cred = t.mode
  BY <1>1, FreshIs DEF Creds
<1>4. \/ \E b \in Binding, s \in {"apply", "widen"} :
           /\ Moves(p, s, b)
           /\ hub[b.cred].status = "live" \/ (binding # NoBinding /\ b.cred = binding.cred)
      \/ Moves(p, "issue", t.new)
      \/ End(p)
  BY <1>1, <1>2, <1>3, Going DEF Ensure, IInv, TypeOK, Steps
<1>5. task' = [task EXCEPT ![p] = task'[p]] /\ (End(p) => task'[p] = NoTask) /\ Kept
  BY <1>4, Ended DEF Moves, Ensure, Kept
<1>6. Books(t) /\ Solo(task[p])'
  BY <1>1, <1>5, OwnTurn
<1>7. \A c : ~Owes(t, c)
  BY <1>1 DEF Owes
<1>8. Books(task[p])'
  <2>1. CASE End(p)
    BY <1>1, <1>5, <1>6, <1>7, <2>1, BooksEnd
  <2>2. CASE Moves(p, "issue", t.new)
    <3>1. Ties(task[p])'
      BY <1>1, <1>5, <1>6, <2>2, Hands DEF Books, Ties, Rebound, Moves, Same, Kept
    <3> QED BY <1>1, <1>5, <1>6, <1>7, <2>2, <3>1, BooksGoOn DEF Moves
  <2>3. ASSUME NEW b \in Binding, NEW s \in {"apply", "widen"}, Moves(p, s, b),
               hub[b.cred].status = "live" \/ (binding # NoBinding /\ b.cred = binding.cred)
        PROVE  Books(task[p])'
    <3>1. b.cred \in Creds
      BY BindingFields
    <3>2. Ties(task[p])'
      BY <1>1, <1>5, <1>6, <2>3, <3>1, Hands DEF Books, Ties, Rebound, Moves, Same, Kept, Usable, Unbinding
    <3> QED BY <1>1, <1>5, <1>6, <1>7, <2>3, <3>2, BooksGoOn DEF Moves
  <2> QED BY <1>4, <2>1, <2>2, <2>3
<1> QED BY <1>6, <1>8 DEF One

LEMMA WidenBooks ==
  ASSUME IInv, One, NEW p \in Procs, Widen(p)
  PROVE  One'
<1> DEFINE t == task[p]
<1>1. t # NoTask /\ t.at = "widen" /\ t.cmd = "configure" /\ t.new \in Binding
  BY Standing DEF Widen, At, Shape, MustHoldNew
<1>2. \/ \E s \in {"apply", "issue"} : Moves(p, s, t.new)
      \/ End(p)
  BY <1>1, Going DEF Widen, Steps
<1>3. Kept
  BY <1>1, BindingFields DEF Widen, Widened, Kept, IInv, TypeOK
<1>4. task' = [task EXCEPT ![p] = task'[p]] /\ (End(p) => task'[p] = NoTask)
  BY <1>2, Ended DEF Moves
<1>5. Books(t) /\ Solo(task[p])'
  BY <1>1, <1>4, OwnTurn
<1>6. \A c : ~Owes(t, c)
  BY <1>1 DEF Owes
<1>7. Books(task[p])'
  <2>1. CASE End(p)
    BY <1>1, <1>3, <1>4, <1>5, <1>6, <2>1, BooksEnd
  <2>2. ASSUME NEW s \in {"apply", "issue"}, Moves(p, s, t.new) PROVE Books(task[p])'
    <3>1. Ties(task[p])'
      BY <1>1, <1>3, <1>5, <2>2, Hands DEF Books, Ties, Rebound, Moves, Same, Kept
    <3> QED BY <1>1, <1>3, <1>5, <1>6, <2>2, <3>1, BooksGoOn DEF Moves
  <2> QED BY <1>2, <2>1, <2>2
<1> QED BY <1>5, <1>7 DEF One

LEMMA IssueBooks ==
  ASSUME IInv, One, NEW p \in Procs, Issue(p)
  PROVE  One'
<1> DEFINE t == task[p]
           b == Draft(p, NextCred)
<1>1. t # NoTask /\ t.at = "issue" /\ Unborn # {} /\ Shape(t)
  BY Standing DEF Issue, At
<1>2. b \in Binding /\ b.cred = NextCred /\ b.kind \in {"user", "runtime"} /\ b.models \in SUBSET Models
  BY <1>1, DraftIs, BornIs, BindingFields
<1> HIDE DEF b
<1>3. NextCred \in 1..MaxCreds /\ NextCred \in Creds /\ hub[NextCred].status = "unborn"
  BY <1>1, BornIs
<1>4. \/ /\ Moves(p, IF t.cmd = "configure" THEN "apply" ELSE "confirm", b)
         /\ hub' = Born(b.kind, b.models) /\ excused' = excused
      \/ End(p) /\ hub' = hub /\ excused' = excused
      \/ End(p) /\ hub' = Born(b.kind, b.models) /\ excused' = excused \cup {NextCred}
  BY <1>1, <1>2, Going DEF Issue, Steps, b
<1>5. task' = [task EXCEPT ![p] = task'[p]] /\ (End(p) => task'[p] = NoTask) /\ binding' = binding
  BY <1>4, Ended DEF Moves, Issue
<1>6. Books(t) /\ Solo(task[p])'
  BY <1>1, <1>5, OwnTurn
<1>7. Books(task[p])'
  <2>1. CASE End(p) /\ hub' = hub /\ excused' = excused
    BY <1>1, <1>5, <1>6, <2>1 DEF Books, Ties, Usable, Accounted, Unbinding, Owes, Rebound
  <2>2. CASE End(p) /\ hub' = Born(b.kind, b.models) /\ excused' = excused \cup {NextCred}
    BY <1>1, <1>2, <1>3, <1>5, <1>6, <2>2 DEF Books, Ties, Usable, Accounted, Unbinding, Owes, Rebound, Born, IInv, TypeOK
  <2>3. CASE Moves(p, IF t.cmd = "configure" THEN "apply" ELSE "confirm", b) /\ hub' = Born(b.kind, b.models) /\ excused' = excused
    <3>1. /\ task'[p] # NoTask /\ task'[p].new = b /\ task'[p].prev = t.prev /\ task'[p].cmd = t.cmd /\ binding' = binding
          /\ task'[p].at = IF t.cmd = "configure" THEN "apply" ELSE "confirm"
      BY <1>5, <2>3 DEF Moves, Same
    <3>2. \A c \in Creds : c # NextCred => hub'[c] = hub[c]
      BY <2>3 DEF Born, IInv, TypeOK
    <3>3. hub'[NextCred].status = "live"
      BY <1>3, <2>3 DEF Born, IInv, TypeOK
    <3>4. (binding # NoBinding => binding.cred \in Creds) /\ (t.prev # NoBinding => t.prev.cred \in Creds)
      BY <1>1, Standing, BindingFields DEF IInv, TypeOK
    <3>5. Ties(task[p])'
      BY <1>1, <1>2, <1>3, <1>6, <3>1, <3>2, <3>3, <3>4, ZenonT(60) DEF Books, Ties, Rebound, Shape
    <3>6. Usable(task[p])'
      BY <1>1, <1>2, <1>3, <1>6, <2>3, <3>1, <3>2, <3>3, <3>4 DEF Books, Usable, Unbinding
    <3>7. "split" \notin Situations => Accounted(task[p])'
      <4>1. ASSUME "split" \notin Situations, NEW c \in 1..MaxCreds, hub'[c].status = "live"
            PROVE  \/ c \in excused'
                   \/ binding' # NoBinding /\ binding'.cred = c
                   \/ Owes(task'[p], c)
        <5>1. CASE c = NextCred
          BY <1>2, <3>1, <5>1, MarkersAssumption DEF Owes
        <5>2. CASE c # NextCred
          <6>1. hub[c].status = "live" /\ ~Owes(t, c)
            BY <1>1, <3>2, <4>1, <5>2 DEF Owes, Creds
          <6> QED BY <1>1, <1>6, <2>3, <3>1, <4>1, <6>1 DEF Books, Accounted
        <5> QED BY <5>1, <5>2
      <4>2. ~Unbinding(task[p])'
        BY <3>1 DEF Unbinding
      <4> QED BY <3>1, <4>1, <4>2 DEF Accounted
    <3>8. binding' # NoBinding => hub'[binding'.cred].status # "unborn"
      BY <1>6, <3>1, <3>2, <3>3, <3>4 DEF Books
    <3> QED BY <3>5, <3>6, <3>7, <3>8, Zenon DEF Books
  <2> QED BY <1>4, <2>1, <2>2, <2>3
<1> QED BY <1>6, <1>7 DEF One

LEMMA PlainBooks ==
  ASSUME IInv, One, NEW p \in Procs, Apply(p) \/ Verify(p) \/ Undo(p) \/ Confirm(p)
  PROVE  One'
<1> DEFINE t == task[p]
<1>1. t # NoTask /\ t.at \in {"apply", "verify", "undo", "confirm"} /\ Shape(t)
  BY Standing DEF Apply, Verify, Undo, Confirm, At
<1>2. /\ task' = [task EXCEPT ![p] = task'[p]] /\ task'[p] # NoTask
      /\ task'[p].new = t.new /\ task'[p].prev = t.prev /\ task'[p].cmd = t.cmd /\ task'[p].unsaved = t.unsaved
      /\ task'[p].at \in {"save", "discard", "verify", "undo", "rollback", "rebind", "drop"}
  <2>1. CASE Apply(p)
    <3> DEFINE x == [t EXCEPT !.at = "verify", !.txn = stamp + 1]
    <3>1. t \in Task /\ stamp + 1 \in Nat
      BY <1>1, Standing DEF IInv, TypeOK
    <3>2. x \in Task /\ x.at = "verify" /\ x.new = t.new /\ x.prev = t.prev /\ x.cmd = t.cmd /\ x.unsaved = t.unsaved
      BY <3>1 DEF Task, Steps
    <3>3. \/ \E s \in {"save", "discard"} : Moves(p, s, t.new)
          \/ task' = [task EXCEPT ![p] = x] /\ task'[p] = x
      BY <1>1, <2>1, Going DEF Apply, Steps, IInv, TypeOK
    <3> HIDE DEF x
    <3> QED BY <3>2, <3>3, MarkersAssumption DEF Moves, Same
  <2>2. CASE Verify(p) \/ Undo(p) \/ Confirm(p)
    <3>1. \E s \in {"save", "undo", "discard", "rollback", "rebind", "drop"} : Moves(p, s, t.new)
      BY <1>1, <2>2, Going DEF Verify, Undo, Confirm, Steps
    <3> QED BY <3>1 DEF Moves, Same
  <2> QED BY <2>1, <2>2
<1>3. Kept
  BY DEF Apply, Verify, Undo, Confirm, Kept
<1>4. Books(t) /\ Solo(task[p])'
  BY <1>1, <1>2, OwnTurn
<1>5. Ties(task[p])'
  BY <1>1, <1>2, <1>3, <1>4, Hands DEF Books, Ties, Rebound, Kept
<1>6. \A c \in 1..MaxCreds : Owes(t, c) => Owes(task'[p], c)
  BY <1>1, <1>2 DEF Owes
<1>7. Books(task[p])'
  BY <1>1, <1>2, <1>3, <1>4, <1>5, <1>6, BooksGoOn
<1> QED BY <1>4, <1>7 DEF One

LEMMA SaveBooks ==
  ASSUME IInv, One, NEW p \in Procs, Save(p)
  PROVE  One'
<1> DEFINE t == task[p]
<1>1. t # NoTask /\ t.at = "save" /\ Shape(t) /\ t.new \in Binding /\ t.cmd = "configure"
  BY Standing DEF Save, At, Shape, MustHoldNew
<1>2. \/ binding' = Saved(p) /\ Moves(p, "release", t.new)
      \/ binding' = binding /\ Moves(p, "undo", t.new)
  BY <1>1, Going DEF Save, Steps
<1>3. Saved(p) \in Binding /\ Saved(p).cred = t.new.cred /\ t.new.cred \in Creds
  BY <1>1, ChainedIs, BindingFields
<1>4. hub' = hub /\ excused' = excused
  BY DEF Save
<1>5. Books(t) /\ Solo(task[p])'
  BY <1>1, <1>2, OwnTurn DEF Moves
<1>6. Books(task[p])'
  <2>1. CASE binding' = Saved(p) /\ Moves(p, "release", t.new)
    <3>1. binding = t.prev
      BY <1>1, <1>5 DEF Books, Ties, Rebound
    <3>2. Ties(task[p])'
      BY <1>1, <1>3, <1>4, <1>5, <2>1, MarkersAssumption DEF Books, Ties, Rebound, Moves, Same
    <3>3. Usable(task[p])'
      BY <1>1, <1>3, <1>4, <1>5, <2>1, MarkersAssumption DEF Books, Ties, Usable
    <3>4. binding' # NoBinding => hub'[binding'.cred].status # "unborn"
      BY <1>1, <1>3, <1>4, <1>5, <2>1, MarkersAssumption DEF Books, Ties
    <3>5. "split" \notin Situations => Accounted(task[p])'
      BY <1>1, <1>3, <1>4, <1>5, <2>1, <3>1, MarkersAssumption DEF Books, Accounted, Owes, Unbinding, Moves, Same
    <3> QED BY <3>2, <3>3, <3>4, <3>5 DEF Books
  <2>2. CASE binding' = binding /\ Moves(p, "undo", t.new)
    <3>1. Kept
      BY <1>4, <2>2 DEF Kept
    <3>2. Ties(task[p])'
      BY <1>1, <1>4, <1>5, <2>2 DEF Books, Ties, Rebound, Moves, Same
    <3>3. \A c \in 1..MaxCreds : Owes(t, c) => Owes(task'[p], c)
      BY <1>1, <2>2 DEF Owes, Moves, Same
    <3> QED BY <1>1, <1>5, <2>2, <3>1, <3>2, <3>3, BooksGoOn DEF Moves
  <2> QED BY <1>2, <2>1, <2>2
<1> QED BY <1>5, <1>6 DEF One

(* What revoking a credential does to the books.                           *)
LEMMA RevokeIs ==
  ASSUME TypeOK, NEW c \in Creds, NEW endpoint, Revoke(c, endpoint)
  PROVE  /\ \A d \in Creds : d # c => hub'[d] = hub[d]
         /\ hub'[c].status = hub[c].status \/ (hub[c].status = "live" /\ hub'[c].status = "revoked")
         /\ excused \subseteq excused' /\ excused' \subseteq excused \cup {c}
         /\ "split" \notin Situations => hub'[c].status # "live" \/ c \in excused'
  BY DEF TypeOK, Revoke, Revocable

LEMMA DiscardBooks ==
  ASSUME IInv, One, NEW p \in Procs, RevokeNew(p) \/ RevokePrevious(p)
  PROVE  One'
<1> DEFINE t == task[p]
<1>1. /\ t # NoTask /\ t.at \in {"discard", "release"} /\ Shape(t) /\ t.new \in Binding /\ t.cmd = "configure"
      /\ End(p) /\ binding' = binding
  BY Standing DEF RevokeNew, RevokePrevious, At, Shape, MustHoldNew
<1>2. task' = [task EXCEPT ![p] = task'[p]] /\ task'[p] = NoTask
  BY <1>1, Ended
<1>3. Books(t) /\ Solo(task[p])'
  BY <1>1, <1>2, OwnTurn
<1>4. /\ binding # NoBinding => binding.cred \in Creds
      /\ t.prev # NoBinding => t.prev.cred \in Creds
      /\ t.new.cred \in Creds /\ 1..MaxCreds \subseteq Creds /\ t.new # NoBinding
  BY <1>1, Hands, MarkersAssumption DEF Creds
<1>5. CASE RevokeNew(p) /\ Issued(p)
  <2>1. Revoke(t.new.cred, t.new.kind) /\ t.at = "discard"
    BY <1>5 DEF RevokeNew, At
  <2>2. binding = t.prev /\ (binding # NoBinding => binding.cred # t.new.cred)
    BY <1>1, <1>3, <1>5, <2>1 DEF Books, Ties, Rebound, Issued
  <2>3. Books(task[p])'
    BY <1>1, <1>2, <1>3, <1>4, <2>1, <2>2, RevokeIs DEF Books, Usable, Accounted, Unbinding, Owes, IInv
  <2> QED BY <1>3, <2>3 DEF One
<1>6. CASE RevokePrevious(p) /\ Replaced(p)
  <2>1. Revoke(t.prev.cred, t.prev.kind) /\ t.at = "release" /\ t.prev # NoBinding /\ t.prev.cred # t.new.cred
    BY <1>6 DEF RevokePrevious, Replaced, At
  <2>2. binding # NoBinding /\ binding.cred = t.new.cred
    BY <1>1, <1>3, <2>1 DEF Books, Ties
  <2>3. Books(task[p])'
    BY <1>1, <1>2, <1>3, <1>4, <2>1, <2>2, RevokeIs DEF Books, Usable, Accounted, Unbinding, Owes, IInv
  <2> QED BY <1>3, <2>3 DEF One
<1>7. CASE (RevokeNew(p) /\ ~Issued(p)) \/ (RevokePrevious(p) /\ ~Replaced(p))
  <2>1. Kept
    BY <1>1, <1>7 DEF RevokeNew, RevokePrevious, Kept
  <2>2. \A c \in 1..MaxCreds : Owes(t, c) => binding # NoBinding /\ binding.cred = c
    BY <1>1, <1>3, <1>4, <1>7 DEF RevokeNew, RevokePrevious, At, Issued, Replaced, Owes, Books, Ties, Rebound
  <2>3. Books(task[p])'
    BY <1>1, <1>2, <1>3, <2>1, <2>2, BooksEnd
  <2> QED BY <1>3, <2>3 DEF One
<1> QED BY <1>5, <1>6, <1>7

LEMMA LockBooks ==
  ASSUME IInv, One, Turns, NEW p \in Procs, Lock(p)
  PROVE  One'
<1> DEFINE t == task[p]
<1>1. t # NoTask /\ t.at = "lock" /\ t.new = NoBinding /\ t.prev = NoBinding /\ AtRest(p)
  BY Standing DEF Lock, At, Shape, AtRest
<1>2. (Moves(p, "recheck", t.new) /\ Takeable) \/ End(p)
  BY <1>1, Going DEF Lock, Steps
<1>3. Kept
  BY DEF Lock, Kept
<1>4. task' = [task EXCEPT ![p] = task'[p]] /\ (End(p) => task'[p] = NoTask)
  BY <1>2, Ended DEF Moves
<1>5. CASE End(p)
  BY <1>1, <1>3, <1>4, <1>5, IdleBooks DEF AtRest
<1>6. CASE Moves(p, "recheck", t.new) /\ Takeable
  <2>1. \A q \in Procs \ {p} : AtRest(q) /\ AtRest(q)'
    BY <1>1, <1>4, <1>6, FreeToTake, TheOthers
  <2>2. Books(NoTask)
    BY <1>1, <2>1, Rests DEF Resting
  <2>3. /\ task'[p] # NoTask /\ task'[p].at = "recheck" /\ task'[p].new = NoBinding /\ task'[p].prev = NoBinding
    BY <1>1, <1>6 DEF Moves, Same
  <2>4. (binding # NoBinding => binding.cred \in Creds) /\ 1..MaxCreds \subseteq Creds
    BY BindingFields DEF IInv, TypeOK, Creds
  <2>5. Ties(task[p])'
    BY <2>3 DEF Ties, Rebound
  <2>6. Usable(task[p])' /\ (binding' # NoBinding => hub'[binding'.cred].status # "unborn")
    BY <1>3, <2>2, <2>3, <2>4 DEF Books, Kept, Usable, Unbinding
  <2>7. "split" \notin Situations => Accounted(task[p])'
    BY <1>3, <2>2, <2>3, <2>4 DEF Books, Kept, Accounted, Unbinding
  <2>8. Books(task[p])'
    BY <2>5, <2>6, <2>7, Zenon DEF Books
  <2>9. Solo(task[p])'
    BY <2>1, <2>3 DEF Solo
  <2> QED BY <2>8, <2>9 DEF One
<1> QED BY <1>2, <1>5, <1>6

LEMMA RecheckBooks ==
  ASSUME IInv, One, NEW p \in Procs, Recheck(p)
  PROVE  One'
<1> DEFINE t == task[p]
           x == [t EXCEPT !.at = "issue", !.prev = binding, !.want = SetupOf(binding)]
<1>1. t # NoTask /\ t.at = "recheck" /\ t \in Task /\ Shape(t)
  BY Standing DEF Recheck, At
<1>2. Kept
  BY DEF Recheck, Kept
<1>3. \A c : ~Owes(t, c)
  BY <1>1 DEF Owes
<1>4. CASE End(p)
  <2>1. task' = [task EXCEPT ![p] = task'[p]] /\ task'[p] = NoTask
    BY <1>4, Ended
  <2>2. Books(t) /\ Solo(task[p])'
    BY <1>1, <2>1, OwnTurn
  <2>3. Books(task[p])'
    BY <1>1, <1>2, <1>3, <2>1, <2>2, BooksEnd
  <2> QED BY <2>2, <2>3 DEF One
<1>5. CASE StillDue /\ binding.model \in Offered(binding.proto)
  <2>1. binding \in Binding /\ SetupOf(binding) \in Setup /\ binding # NoBinding
    BY <1>5, BindingFields DEF StillDue, IInv, TypeOK
  <2>2. x \in Task /\ x.at = "issue" /\ x.prev = binding /\ x.new = t.new /\ x.cmd = t.cmd /\ x.unsaved = t.unsaved
    BY <1>1, <2>1 DEF Task, Steps
  <2>3. task' = [task EXCEPT ![p] = x] /\ task'[p] = x
    BY <1>5 DEF Recheck, IInv, TypeOK
  <2> HIDE DEF x
  <2>4. Books(t) /\ Solo(task[p])'
    BY <1>1, <2>3, OwnTurn
  <2>5. Ties(task[p])'
    BY <1>1, <1>2, <2>1, <2>2, <2>3, <2>4, Hands DEF Books, Ties, Rebound, Kept
  <2>6. Books(task[p])'
    BY <1>1, <1>2, <1>3, <2>2, <2>3, <2>4, <2>5, MarkersAssumption, BooksGoOn
  <2> QED BY <2>4, <2>6 DEF One
<1> QED BY <1>4, <1>5 DEF Recheck

LEMMA RollbackBooks ==
  ASSUME IInv, One, NEW p \in Procs, Rollback(p)
  PROVE  One'
<1> DEFINE t == task[p]
<1>1. t # NoTask /\ t.at = "rollback" /\ t.cmd = "restore" /\ Shape(t)
  BY Standing DEF Rollback, At, Shape
<1>2. \/ t.new # NoBinding /\ Moves(p, "rebind", t.new)
      \/ t.prev # NoBinding /\ t.new = NoBinding /\ Moves(p, "retire", t.new)
      \/ t.new # NoBinding /\ Moves(p, "drop", t.new)
      \/ End(p) /\ t.new = NoBinding
  BY <1>1, Going DEF Rollback, Steps, Shape
<1>3. Kept
  BY DEF Rollback, Kept
<1>4. task' = [task EXCEPT ![p] = task'[p]] /\ (End(p) => task'[p] = NoTask)
  BY <1>2, Ended DEF Moves
<1>5. Books(t) /\ Solo(task[p])'
  BY <1>1, <1>4, OwnTurn
<1>6. Books(task[p])'
  <2>1. CASE End(p) /\ t.new = NoBinding
    <3>1. \A c : ~Owes(t, c)
      BY <1>1, <2>1 DEF Owes
    <3> QED BY <1>1, <1>3, <1>4, <1>5, <2>1, <3>1, BooksEnd
  <2>2. CASE \E s \in {"rebind", "retire", "drop"} : Moves(p, s, t.new) /\ (s = "retire" <=> t.new = NoBinding)
    <3>1. PICK s \in {"rebind", "retire", "drop"} : Moves(p, s, t.new) /\ (s = "retire" <=> t.new = NoBinding)
      BY <2>2
    <3>2. Ties(task[p])'
      BY <1>1, <1>3, <1>5, <3>1, Hands DEF Books, Ties, Rebound, Moves, Same, Kept
    <3>3. \A c \in 1..MaxCreds : Owes(t, c) => Owes(task'[p], c)
      BY <1>1, <3>1 DEF Owes, Moves, Same
    <3> QED BY <1>1, <1>3, <1>5, <3>1, <3>2, <3>3, BooksGoOn DEF Moves
  <2> QED BY <1>2, <2>1, <2>2
<1> QED BY <1>5, <1>6 DEF One

LEMMA RebindBooks ==
  ASSUME IInv, One, NEW p \in Procs, Rebind(p)
  PROVE  One'
<1> DEFINE t == task[p]
           x == [t EXCEPT !.at = "drop", !.unsaved = (t.cmd = "restore")]
<1>1. t # NoTask /\ t.at = "rebind" /\ t \in Task /\ Shape(t) /\ t.new \in Binding /\ t.prev \in Binding
      /\ t.new # NoBinding /\ t.prev # NoBinding /\ t.cmd # "configure"
  BY Standing, MarkersAssumption DEF Rebind, At, Shape, MustHoldNew
<1>2. ~t.unsaved
  BY <1>1 DEF Shape
<1>3. hub' = hub /\ excused' = excused
  BY DEF Rebind
<1>4. CASE binding' = t.new /\ Goto(p, "retire")
  <2>1. Moves(p, "retire", t.new)
    BY <1>1, <1>4, Going DEF Steps
  <2>2. Books(t) /\ Solo(task[p])'
    BY <1>1, <2>1, OwnTurn DEF Moves
  <2>3. binding = t.prev
    BY <1>1, <2>2 DEF Books, Ties, Rebound
  <2>4. /\ task'[p] # NoTask /\ task'[p].at = "retire" /\ task'[p].new = t.new /\ task'[p].prev = t.prev
        /\ task'[p].cmd = t.cmd /\ ~task'[p].unsaved
    BY <1>2, <2>1 DEF Moves, Same
  <2>5. Ties(task[p])'
    BY <1>1, <1>3, <1>4, <2>2, <2>4 DEF Books, Ties, Rebound
  <2>6. Usable(task[p])' /\ (binding' # NoBinding => hub'[binding'.cred].status # "unborn")
    BY <1>1, <1>3, <1>4, <2>2, <2>4 DEF Books, Ties, Usable
  <2>7. "split" \notin Situations => Accounted(task[p])'
    BY <1>1, <1>3, <1>4, <2>2, <2>3, <2>4 DEF Books, Accounted, Owes, Unbinding
  <2>8. Books(task[p])'
    BY <2>5, <2>6, <2>7, Zenon DEF Books
  <2> QED BY <2>2, <2>8 DEF One
<1>5. CASE binding' = binding /\ task' = [task EXCEPT ![p] = x]
  <2>1. /\ x \in Task /\ x.at = "drop" /\ x.new = t.new /\ x.prev = t.prev /\ x.cmd = t.cmd
    BY <1>1 DEF Task, Steps
  <2>2. task'[p] = x
    BY <1>5 DEF IInv, TypeOK
  <2> HIDE DEF x
  <2>3. Books(t) /\ Solo(task[p])'
    BY <1>1, <1>5, <2>2, OwnTurn
  <2>4. Kept
    BY <1>3, <1>5 DEF Kept
  <2>5. Ties(task[p])'
    BY <1>1, <1>2, <2>1, <2>2, <2>3, <2>4, Hands DEF Books, Ties, Rebound, Kept
  <2>6. \A c \in 1..MaxCreds : Owes(t, c) => Owes(task'[p], c)
    BY <1>1, <2>1, <2>2 DEF Owes
  <2>7. Books(task[p])'
    BY <1>1, <2>1, <2>2, <2>3, <2>4, <2>5, <2>6, MarkersAssumption, BooksGoOn
  <2> QED BY <2>3, <2>7 DEF One
<1> QED BY <1>4, <1>5 DEF Rebind

LEMMA DropBooks ==
  ASSUME IInv, One, NEW p \in Procs, Drop(p)
  PROVE  One'
<1> DEFINE t == task[p]
<1>1. /\ t # NoTask /\ t.at = "drop" /\ Shape(t) /\ t.new \in Binding /\ t.cmd # "configure"
      /\ t.new # NoBinding /\ t.prev # NoBinding /\ binding' = binding
      /\ Revoke(t.new.cred, "runtime")
  BY Standing DEF Drop, At, Shape, MustHoldNew
<1>2. (t.unsaved /\ Moves(p, "retire", t.new)) \/ (~t.unsaved /\ End(p))
  BY <1>1, Going DEF Drop, Steps
<1>3. task' = [task EXCEPT ![p] = task'[p]] /\ (End(p) => task'[p] = NoTask)
  BY <1>2, Ended DEF Moves
<1>4. Books(t) /\ Solo(task[p])'
  BY <1>1, <1>3, OwnTurn
<1>5. binding = t.prev /\ t.new.cred # t.prev.cred
  BY <1>1, <1>4 DEF Books, Ties, Rebound
<1>6. t.prev.cred \in Creds /\ t.new.cred \in Creds /\ 1..MaxCreds \subseteq Creds
  BY <1>1, Hands DEF Creds
<1>7. /\ \A d \in Creds : d # t.new.cred => hub'[d] = hub[d]
      /\ hub'[t.new.cred].status = hub[t.new.cred].status \/ hub'[t.new.cred].status = "revoked"
      /\ excused \subseteq excused'
      /\ "split" \notin Situations => hub'[t.new.cred].status # "live" \/ t.new.cred \in excused'
  BY <1>1, <1>6, RevokeIs DEF IInv
<1>8. "split" \notin Situations => \A c \in 1..MaxCreds :
        hub'[c].status = "live" => c \in excused' \/ c = binding.cred
  BY <1>1, <1>4, <1>6, <1>7 DEF Books, Accounted, Owes, Unbinding
<1>9. /\ Usable(task[p])' /\ (binding' # NoBinding => hub'[binding'.cred].status # "unborn")
  BY <1>1, <1>4, <1>5, <1>6, <1>7 DEF Books, Usable, Unbinding
<1>10. ~Unbinding(task[p])' /\ (task'[p] # NoTask => Ties(task[p])')
  <2>1. CASE End(p)
    BY <1>3, <2>1 DEF Unbinding
  <2>2. CASE t.unsaved /\ Moves(p, "retire", t.new)
    BY <1>1, <1>4, <1>5, <1>6, <1>7, <2>2 DEF Books, Ties, Rebound, Unbinding, Moves, Same
  <2> QED BY <1>2, <2>1, <2>2
<1>11. "split" \notin Situations => Accounted(task[p])'
  BY <1>1, <1>5, <1>8, <1>10 DEF Accounted
<1>12. Books(task[p])'
  BY <1>9, <1>10, <1>11, Zenon DEF Books
<1> QED BY <1>4, <1>12 DEF One

LEMMA RetireBooks ==
  ASSUME IInv, One, NEW p \in Procs, Retire(p)
  PROVE  One'
<1> DEFINE t == task[p]
<1>1. /\ t # NoTask /\ t.at = "retire" /\ Shape(t) /\ t.prev # NoBinding /\ t.cmd # "configure"
      /\ binding' = binding /\ Revoke(t.prev.cred, "runtime")
  BY Standing DEF Retire, At, Shape
<1>2. \/ ~Rebound(t) /\ Moves(p, "unbind", t.new)
      \/ Rebound(t) /\ End(p)
  BY <1>1, Going DEF Retire, Steps, Rebound
<1>3. task' = [task EXCEPT ![p] = task'[p]] /\ (End(p) => task'[p] = NoTask)
  BY <1>2, Ended DEF Moves
<1>4. Books(t) /\ Solo(task[p])'
  BY <1>1, <1>3, OwnTurn
<1>5. (Rebound(t) => binding = t.new /\ t.new.cred # t.prev.cred) /\ (~Rebound(t) => binding = t.prev)
  BY <1>1, <1>4 DEF Books, Ties, Rebound
<1>6. /\ t.prev.cred \in Creds /\ (t.new # NoBinding => t.new.cred \in Creds)
      /\ (binding # NoBinding => binding.cred \in Creds) /\ 1..MaxCreds \subseteq Creds
  BY <1>1, Hands DEF Creds
<1>7. /\ \A d \in Creds : d # t.prev.cred => hub'[d] = hub[d]
      /\ hub'[t.prev.cred].status = hub[t.prev.cred].status \/ hub'[t.prev.cred].status = "revoked"
      /\ excused \subseteq excused'
      /\ "split" \notin Situations => hub'[t.prev.cred].status # "live" \/ t.prev.cred \in excused'
  BY <1>1, <1>6, RevokeIs DEF IInv
<1>8. "split" \notin Situations => \A c \in 1..MaxCreds :
        hub'[c].status = "live" => c \in excused' \/ (binding # NoBinding /\ c = binding.cred /\ c # t.prev.cred)
  BY <1>1, <1>4, <1>6, <1>7 DEF Books, Accounted, Owes, Unbinding
<1>9. binding' # NoBinding => hub'[binding'.cred].status # "unborn"
  BY <1>1, <1>4, <1>6, <1>7 DEF Books
<1>10. CASE Rebound(t) /\ End(p)
  <2>1. Usable(task[p])'
    BY <1>1, <1>4, <1>5, <1>6, <1>7, <1>10 DEF Books, Usable, Unbinding, Rebound
  <2>2. "split" \notin Situations => Accounted(task[p])'
    BY <1>1, <1>3, <1>8, <1>10 DEF Accounted, Unbinding
  <2>3. Books(task[p])'
    BY <1>3, <1>9, <1>10, <2>1, <2>2, Zenon DEF Books
  <2> QED BY <1>4, <2>3 DEF One
<1>11. CASE ~Rebound(t) /\ Moves(p, "unbind", t.new)
  <2>1. /\ task'[p] # NoTask /\ task'[p].at = "unbind" /\ task'[p].new = t.new /\ task'[p].prev = t.prev
        /\ task'[p].cmd = t.cmd
    BY <1>11 DEF Moves, Same
  <2>2. Ties(task[p])'
    BY <1>1, <1>4, <1>5, <1>6, <1>7, <1>11, <2>1 DEF Books, Ties, Rebound
  <2>3. Usable(task[p])'
    BY <2>1 DEF Usable, Unbinding
  <2>4. "split" \notin Situations => Accounted(task[p])'
    BY <1>1, <1>5, <1>8, <1>11 DEF Accounted
  <2>5. Books(task[p])'
    BY <1>9, <2>2, <2>3, <2>4, Zenon DEF Books
  <2> QED BY <1>4, <2>5 DEF One
<1> QED BY <1>2, <1>10, <1>11

LEMMA UnbindBooks ==
  ASSUME IInv, One, NEW p \in Procs, Unbind(p)
  PROVE  One'
<1> DEFINE t == task[p]
<1>1. t # NoTask /\ t.at = "unbind" /\ End(p) /\ Shape(t) /\ t.prev # NoBinding /\ hub' = hub
  BY Standing DEF Unbind, At, Shape
<1>2. task' = [task EXCEPT ![p] = task'[p]] /\ task'[p] = NoTask
  BY <1>1, Ended
<1>3. Books(t) /\ Solo(task[p])'
  BY <1>1, <1>2, OwnTurn
<1>4. binding = t.prev
  BY <1>1, <1>3 DEF Books, Ties, Rebound
<1>5. (binding' = NoBinding /\ excused' = excused) \/ (binding' = binding /\ excused' = excused \cup {t.prev.cred})
  BY DEF Unbind
<1>6. Books(task[p])'
  BY <1>1, <1>2, <1>3, <1>4, <1>5 DEF Books, Usable, Accounted, Owes, Unbinding
<1> QED BY <1>3, <1>6 DEF One

LEMMA CrashBooks ==
  ASSUME IInv, One, NEW p \in Procs, Crash(p)
  PROVE  One'
<1> DEFINE t == task[p]
<1>1. t # NoTask /\ hub' = hub /\ binding' = binding /\ excused' = excused \cup InHand(p)
  BY DEF Crash
<1>2. task' = [task EXCEPT ![p] = task'[p]] /\ task'[p] = NoTask
  BY DEF Crash, IInv, TypeOK
<1>9. CASE t.at = "lock"
  <2>1. t.prev = NoBinding /\ t.new = NoBinding
    BY <1>1, <1>9, Standing DEF Shape
  <2>2. InHand(p) = {}
    BY <2>1 DEF InHand
  <2> QED BY <1>1, <1>2, <1>9, <2>2, IdleBooks DEF Kept, AtRest
<1> SUFFICES ASSUME t.at # "lock" PROVE One'
  BY <1>9
<1>3. Books(t) /\ Solo(task[p])'
  BY <1>1, <1>2, OwnTurn
<1>4. (t.prev # NoBinding => t.prev.cred \in InHand(p)) /\ (t.new # NoBinding => t.new.cred \in InHand(p))
  BY DEF InHand
<1>5. Unbinding(t) => binding = t.prev
  BY <1>1, <1>3 DEF Unbinding, Books, Ties, Rebound
<1>6. Usable(task[p])'
  BY <1>1, <1>2, <1>3, <1>4, <1>5 DEF Books, Usable
<1>7. "split" \notin Situations => Accounted(task[p])'
  BY <1>1, <1>2, <1>3, <1>4 DEF Books, Accounted, Owes, Unbinding
<1>8. Books(task[p])'
  BY <1>1, <1>2, <1>3, <1>6, <1>7 DEF Books
<1> QED BY <1>3, <1>8 DEF One

(* A configure or a restore begins when no other command is under way.     *)
LEMMA Alone ==
  ASSUME Overlap \subseteq {"renew"}, NEW p \in Procs, StartConfigure(p) \/ StartRestore(p)
  PROVE  Quiet
  BY DEF StartConfigure, StartRestore, MayStart, Quiet

LEMMA StartBooks ==
  ASSUME IInv, One, Overlap \subseteq {"renew"}, NEW p \in Procs, StartConfigure(p) \/ StartRestore(p) \/ StartRenew(p) \/ Begins(p)
  PROVE  One'
<1> DEFINE x == task'[p]
<1>1. Opens(p, x) /\ hub' = hub /\ binding' = binding /\ excused' = excused
  BY StartConfigureShapes, StartRestoreShapes, StartRenewShapes DEF StartConfigure, StartRestore, StartRenew, Begins
<1>8. CASE StartRenew(p) \/ Begins(p)
  <2>1. AtRest(p) /\ AtRest(p)' /\ task' = [task EXCEPT ![p] = x]
    BY <1>8 DEF StartRenew, Begins, Renewal, MayStart, AtRest, IInv, TypeOK
  <2> QED BY <1>1, <2>1, IdleBooks DEF Kept
<1> SUFFICES ASSUME StartConfigure(p) \/ StartRestore(p) PROVE One'
  BY <1>8
<1>2. Quiet
  BY Alone
<1>3. Books(NoTask)
  BY <1>2, Rests DEF Resting, AtRest, Quiet
<1>4. (\A q \in Procs \ {p} : task'[q] = NoTask) /\ x # NoTask
  BY <1>1, <1>2, MarkersAssumption DEF IInv, TypeOK, Quiet, Opens
<1>5. Solo(task[p])'
  BY <1>4 DEF Solo, AtRest
<1>6. Ties(task[p])'
  BY <1>1, <1>3 DEF Books, Ties, Rebound, Opens
<1>7. Books(task[p])'
  BY <1>1, <1>3, <1>4, <1>6 DEF Books, Usable, Accounted, Unbinding, Opens
<1> QED BY <1>5, <1>7 DEF One

LEMMA ElsewhereBooks ==
  ASSUME IInv, One, ComeDue \/ Leave \/ Fails \/ UNCHANGED vars
  PROVE  One'
<1>1. task' = task /\ binding' = binding /\ excused' = excused
  BY DEF ComeDue, Leave, Fails, Mishap, vars
<1>2. \A c \in Creds : hub'[c].status = hub[c].status \/ (hub[c].status = "live" /\ hub'[c].status = "withdrawn")
  BY DEF ComeDue, Leave, Fails, Mishap, vars, IInv, TypeOK
<1>3. PICK t : Solo(t) /\ Books(t)
  BY DEF One
<1>4. (t # NoTask => t \in Task) /\ (binding # NoBinding => binding.cred \in Creds) /\ 1..MaxCreds \subseteq Creds
  BY <1>3, BindingFields DEF Solo, IInv, TypeOK, Creds
<1>5. t # NoTask => (t.prev # NoBinding => t.prev.cred \in Creds) /\ (t.new # NoBinding => t.new.cred \in Creds)
  BY <1>4, TaskFields, BindingFields
<1>6. t # NoTask => Ties(t)'
  BY <1>1, <1>2, <1>3, <1>5 DEF Books, Ties, Rebound
<1>7. Usable(t)' /\ (binding' # NoBinding => hub'[binding'.cred].status # "unborn")
  BY <1>1, <1>2, <1>3, <1>4 DEF Books, Usable, Unbinding
<1>8. "split" \notin Situations => Accounted(t)'
  BY <1>1, <1>2, <1>3, <1>4 DEF Books, Accounted, Unbinding, Owes
<1>9. Books(t)'
  BY <1>6, <1>7, <1>8, Zenon DEF Books
<1>10. Solo(t)'
  BY <1>1, <1>3 DEF Solo, Resting, AtRest
<1> QED BY <1>9, <1>10 DEF One

LEMMA OneInit == Init => One
<1> SUFFICES ASSUME Init PROVE One
  OBVIOUS
<1>1. Solo(NoTask)
  BY DEF Init, Solo, Resting, AtRest
<1>2. Books(NoTask)
  BY KeysAssumption DEF Init, Books, Usable, Accounted, Creds
<1> QED BY <1>1, <1>2 DEF One

LEMMA OneKept == IInv /\ Turns /\ One /\ Overlap \subseteq {"renew"} /\ [AnyStep]_vars => One'
<1> SUFFICES ASSUME IInv, Turns, One, Overlap \subseteq {"renew"}, [AnyStep]_vars PROVE One'
  OBVIOUS
<1>1. ASSUME NEW p \in Procs, Step(p) PROVE One'
  BY <1>1, EnsureBooks, WidenBooks, IssueBooks, PlainBooks, SaveBooks, DiscardBooks, LockBooks, RecheckBooks,
     RollbackBooks, RebindBooks, DropBooks, RetireBooks, UnbindBooks DEF Step
<1> QED BY <1>1, StartBooks, CrashBooks, ElsewhereBooks DEF AnyStep, Next

(* Between commands the books are closed.                                  *)
LEMMA Closed ==
  ASSUME IInv, One, Quiet
  PROVE  Books(NoTask)
  BY Rests DEF Resting, AtRest, Quiet

(* No credential that revokeBinding took away is left bound to the agent,  *)
(* unless a call on it failed or its command died: any models, keys,       *)
(* failing calls and deaths; one command at a time, but for renewals,      *)
(* which may meet at withRuntimeCredentialRotationLock.                    *)
THEOREM StoredIsUsable == Overlap \subseteq {"renew"} => (Spec => []BoundIsUsable)
<1> SUFFICES ASSUME Overlap \subseteq {"renew"} PROVE Spec => []BoundIsUsable
  OBVIOUS
<1>1. IInv /\ One => BoundIsUsable
  BY Closed DEF Books, Usable, Unbinding, BoundIsUsable
<1> QED BY <1>1, Initially, IInvKept, TurnsInit, TurnsKept, OneInit, OneKept, StepsAre, PTL DEF Spec

(* configureAgent, executeRestore and the renewal forget no credential:    *)
(* what Hub issued and still honours is bound, or a failing call or a      *)
(* death left it behind; one command at a time, but for renewals, and Hub  *)
(* revoking either kind of credential on the endpoint it is asked on.      *)
THEOREM NoCredentialForgotten ==
  Overlap \subseteq {"renew"} /\ "split" \notin Situations => (Spec => []NothingLeaks)
<1> SUFFICES ASSUME Overlap \subseteq {"renew"}, "split" \notin Situations PROVE Spec => []NothingLeaks
  OBVIOUS
<1>1. IInv /\ One => NothingLeaks
  BY Closed DEF Books, Accounted, Unbinding, NothingLeaks
<1> QED BY <1>1, Initially, IInvKept, TurnsInit, TurnsKept, OneInit, OneKept, StepsAre, PTL DEF Spec

-----------------------------------------------------------------------------
(* The chain of restore targets and the recorded transactions.             *)
LEMMA ListsPush ==
  ASSUME NEW u \in Seq(Entry), NEW b \in Binding \cup {NoBinding}, NEW e \in Entry, NEW v, v = <<e>> \o u, Lists(u, b, 0)
  PROVE  Lists(v, b, 1)
<1>1. Len(v) = Len(u) + 1 /\ \A i \in DOMAIN u : v[i + 1] = u[i]
  BY PushIs
<1>2. CASE b = NoBinding
  BY <1>1, <1>2 DEF Lists
<1>3. CASE b # NoBinding
  <2>1. b.chain \in Seq(Target) /\ Len(b.chain) \in Nat /\ DOMAIN b.chain = 1..Len(b.chain) /\ DOMAIN u = 1..Len(u)
    BY <1>3, BindingFields
  <2>4. 0 + 1 = 1 /\ 1 + 1 = 2 /\ \A i \in DOMAIN b.chain : 0 + 1 + i = 1 + i /\ 1 + 1 + i = 2 + i
    BY <2>1
  <2>2. Len(u) = 1 + Len(b.chain) /\ u[1].id = b.txn /\ \A i \in DOMAIN b.chain : u[1 + i].id = b.chain[i].txn
    <3>1. Len(u) = 0 + 1 + Len(b.chain) /\ u[0 + 1].id = b.txn /\ \A i \in DOMAIN b.chain : u[0 + 1 + i].id = b.chain[i].txn
      BY <1>3 DEF Lists
    <3> QED BY <2>1, <2>4, <3>1
  <2>3. v[2].id = b.txn /\ \A i \in DOMAIN b.chain : v[2 + i].id = b.chain[i].txn
    <3>1. 1 \in DOMAIN u /\ \A i \in DOMAIN b.chain : 1 + i \in DOMAIN u /\ (1 + i) + 1 = 2 + i
      BY <2>1, <2>2
    <3>2. v[2] = u[1] /\ \A i \in DOMAIN b.chain : v[2 + i] = u[1 + i]
      BY <1>1, <2>4, <3>1
    <3> QED BY <2>2, <3>2
  <2> QED BY <1>1, <1>3, <2>1, <2>2, <2>3, <2>4 DEF Lists
<1> QED BY <1>2, <1>3

LEMMA ListsPop ==
  ASSUME NEW u \in Seq(Entry), u # <<>>, NEW b \in Binding \cup {NoBinding}, NEW v, v = Tail(u), Lists(u, b, 1)
  PROVE  Lists(v, b, 0)
<1>1. Len(v) = Len(u) - 1 /\ Len(u) \in Nat \ {0} /\ v \in Seq(Entry) /\ \A i \in DOMAIN v : v[i] = u[i + 1]
  BY TailIs
<1>2. CASE b = NoBinding
  BY <1>1, <1>2 DEF Lists
<1>3. CASE b # NoBinding
  <2>1. b.chain \in Seq(Target) /\ Len(b.chain) \in Nat /\ DOMAIN b.chain = 1..Len(b.chain) /\ DOMAIN v = 1..Len(v)
    BY <1>1, <1>3, BindingFields
  <2>2. Len(u) = 2 + Len(b.chain) /\ u[2].id = b.txn /\ \A i \in DOMAIN b.chain : u[2 + i].id = b.chain[i].txn
    BY <1>3, <2>1 DEF Lists
  <2>3. v[1].id = b.txn /\ \A i \in DOMAIN b.chain : v[1 + i].id = b.chain[i].txn
    <3>1. 1 \in DOMAIN v /\ \A i \in DOMAIN b.chain : 1 + i \in DOMAIN v /\ (1 + i) + 1 = 2 + i
      BY <1>1, <2>1, <2>2
    <3>2. v[1] = u[2] /\ \A i \in DOMAIN b.chain : v[1 + i] = u[2 + i]
      BY <1>1, <3>1
    <3> QED BY <2>2, <3>2
  <2> QED BY <1>1, <1>3, <2>1, <2>2, <2>3, SMTT(30) DEF Lists
<1> QED BY <1>2, <1>3

(* The binding that is saved on top of the previous one.                   *)
LEMMA ListsSave ==
  ASSUME NEW u \in Seq(Entry), NEW prev \in Binding \cup {NoBinding}, NEW b \in Binding, Lists(u, prev, 1),
         b.txn = u[1].id, prev = NoBinding => b.chain = <<>>,
         prev # NoBinding => b.chain = <<TargetOf(prev)>> \o prev.chain
  PROVE  Lists(u, b, 0)
<1>1. CASE prev = NoBinding
  BY <1>1, MarkersAssumption DEF Lists
<1>2. CASE prev # NoBinding
  <2>1. prev.chain \in Seq(Target) /\ TargetOf(prev) \in Target /\ TargetOf(prev).txn = prev.txn
    BY <1>2, BindingFields DEF TargetOf
  <2>2. /\ Len(b.chain) = Len(prev.chain) + 1 /\ b.chain[1] = TargetOf(prev) /\ Len(prev.chain) \in Nat
        /\ \A i \in DOMAIN b.chain : i = 1 \/ (i - 1 \in DOMAIN prev.chain /\ b.chain[i] = prev.chain[i - 1])
        /\ DOMAIN b.chain \subseteq Nat
    <3>1. b.chain = <<TargetOf(prev)>> \o prev.chain
      BY <1>2
    <3>2. /\ b.chain \in Seq(Target) /\ Len(b.chain) = Len(prev.chain) + 1 /\ b.chain[1] = TargetOf(prev)
          /\ \A i \in DOMAIN b.chain : i = 1 \/ (i - 1 \in DOMAIN prev.chain /\ b.chain[i] = prev.chain[i - 1])
      BY <2>1, <3>1, PushIs
    <3> QED BY <2>1, <3>2
  <2>3. Len(u) = 2 + Len(prev.chain) /\ u[2].id = prev.txn /\ \A i \in DOMAIN prev.chain : u[2 + i].id = prev.chain[i].txn
    BY <1>2, <2>2 DEF Lists
  <2>4. \A i \in DOMAIN b.chain : u[1 + i].id = b.chain[i].txn
    <3>1. TAKE i \in DOMAIN b.chain
    <3>2. CASE i = 1
      BY <2>1, <2>2, <2>3, <3>2
    <3>3. CASE i # 1
      <4>1. i - 1 \in DOMAIN prev.chain /\ b.chain[i] = prev.chain[i - 1] /\ 2 + (i - 1) = 1 + i
        BY <2>2, <3>3
      <4> QED BY <2>3, <4>1
    <3> QED BY <3>2, <3>3
  <2> QED BY <2>2, <2>3, <2>4, MarkersAssumption DEF Lists
<1> QED BY <1>1, <1>2

(* The binding a restore puts in the place of the previous one.            *)
LEMMA ListsNext ==
  ASSUME NEW u \in Seq(Entry), u # <<>>, NEW prev \in Binding, NEW b \in Binding, NEW v, v = Tail(u), Lists(u, prev, 0),
         prev.chain # <<>>, b.txn = prev.chain[1].txn, b.chain = Tail(prev.chain)
  PROVE  Lists(v, b, 0)
<1>1. Len(v) = Len(u) - 1 /\ Len(u) \in Nat \ {0} /\ v \in Seq(Entry) /\ \A i \in DOMAIN v : v[i] = u[i + 1]
  BY TailIs
<1>2. prev.chain \in Seq(Target) /\ b.chain \in Seq(Target)
  BY BindingFields
<1>3. /\ Len(b.chain) = Len(prev.chain) - 1 /\ Len(prev.chain) \in Nat \ {0}
      /\ \A i \in DOMAIN b.chain : i + 1 \in DOMAIN prev.chain /\ b.chain[i] = prev.chain[i + 1]
  BY <1>2, TailIs
<1>4. Len(u) = 1 + Len(prev.chain) /\ u[1].id = prev.txn /\ \A i \in DOMAIN prev.chain : u[1 + i].id = prev.chain[i].txn
  BY <1>3, MarkersAssumption DEF Lists
<1>5. DOMAIN v = 1..Len(v) /\ DOMAIN b.chain = 1..Len(b.chain) /\ 1 \in DOMAIN prev.chain
  BY <1>1, <1>2, <1>3
<1>6. v[1].id = b.txn
  <2>1. 1 \in DOMAIN v /\ u[1 + 1].id = prev.chain[1].txn
    BY <1>1, <1>3, <1>4, <1>5, SMTT(30)
  <2> QED BY <1>1, <2>1
<1>7. \A i \in DOMAIN b.chain : v[1 + i].id = b.chain[i].txn
  <2>1. \A i \in DOMAIN b.chain : 1 + i \in DOMAIN v /\ i + 1 \in DOMAIN prev.chain /\ 1 + (i + 1) = (1 + i) + 1
    BY <1>1, <1>3, <1>4, <1>5, SMTT(30)
  <2>2. \A i \in DOMAIN b.chain : v[1 + i] = u[1 + (i + 1)]
    BY <1>1, <2>1
  <2> QED BY <1>3, <1>4, <2>1, <2>2
<1>8. Len(v) = 0 + 1 + Len(b.chain) /\ 0 + 1 = 1 /\ \A i \in DOMAIN b.chain : 0 + 1 + i = 1 + i
  BY <1>1, <1>3, <1>4, <1>5
<1> QED BY <1>6, <1>7, <1>8, MarkersAssumption DEF Lists

(* A renewal that waits for the lock knows nothing of the log yet.         *)
LEMMA AtTheLock ==
  ASSUME IInv, NEW p \in Procs, task[p] # NoTask, task[p].at = "lock"
  PROVE  task[p].cmd = "renew" /\ task[p].new = NoBinding /\ task[p].prev = NoBinding
  BY Standing DEF Shape

(* What is to show of a step of the command p.                             *)
LEMMA Settled ==
  ASSUME IInv, NEW p \in Procs, \A q \in Procs \ {p} : AtRest(q), task' = [task EXCEPT ![p] = task'[p]],
         task'[p] # NoTask => Steadily(task[p])',
         mishaps' = 0 => IF task'[p] = NoTask THEN Lists(log, binding, 0)' ELSE task'[p].at # "lock" /\ Listing(task[p])'
  PROVE  Steady' /\ Listed'
<1>1. \A q \in Procs \ {p} : task'[q] = task[q] /\ AtRest(q)'
  BY TheOthers
<1>2. ASSUME NEW q \in Procs, task'[q] # NoTask PROVE Steadily(task[q])'
  <2>1. CASE q = p
    BY <1>2, <2>1
  <2>2. CASE q # p
    <3>1. task'[q] = task[q] /\ task'[q].at = "lock" /\ task'[q].cmd = "renew" /\ task'[q].new = NoBinding
      BY <1>1, <1>2, <2>2, AtTheLock DEF AtRest
    <3> QED BY <3>1 DEF Steadily
  <2> QED BY <2>1, <2>2
<1>3. Steady'
  BY <1>2 DEF Steady
<1>4. Listed'
  BY <1>1 DEF Listed, Resting, AtRest
<1> QED BY <1>3, <1>4

LEMMA AtWork ==
  ASSUME IInv, One, NEW p \in Procs, task[p] # NoTask, task[p].at # "lock"
  PROVE  \A q \in Procs \ {p} : AtRest(q)
  BY Turn DEF AtRest

(* What is known of a command about to take a step.                        *)
LEMMA Before ==
  ASSUME IInv, One, Steady, Listed, NEW p \in Procs, task[p] # NoTask, task[p].at # "lock"
  PROVE  /\ Shape(task[p]) /\ Ties(task[p]) /\ Steadily(task[p]) /\ task[p].cmd \in {"configure", "restore", "renew"}
         /\ mishaps = 0 => Listing(task[p])
         /\ mishaps \in Nat /\ stamp \in Nat /\ log \in Seq(Entry)
         /\ task[p].prev \in Binding \cup {NoBinding} /\ task[p].new \in Binding \cup {NoBinding}
         /\ binding \in Binding \cup {NoBinding}
<1>1. ~AtRest(p)
  BY DEF AtRest
<1>2. Ties(task[p])
  BY <1>1, Turn DEF Books
<1> QED BY <1>1, <1>2, Standing DEF Steady, Listed, IInv, TypeOK, Entry

(* A step between two states in which p has nothing in its hands.          *)
LEMMA IdleOrder ==
  ASSUME IInv, Steady, Listed, NEW p \in Procs, AtRest(p), AtRest(p)', task' = [task EXCEPT ![p] = task'[p]],
         task'[p] # NoTask => task'[p].cmd = "renew" /\ task'[p].new = NoBinding,
         UNCHANGED <<config, log, binding, mishaps>>
  PROVE  Steady' /\ Listed'
<1>1. \A q \in Procs \ {p} : task'[q] = task[q] /\ (AtRest(q)' <=> AtRest(q))
  BY TheOthers
<1>2. ASSUME NEW q \in Procs, task'[q] # NoTask PROVE Steadily(task[q])'
  <2>1. CASE q = p
    BY <1>2, <2>1 DEF Steadily, AtRest
  <2>2. CASE q # p
    BY <1>1, <1>2, <2>2 DEF Steady, Steadily
  <2> QED BY <2>1, <2>2
<1>3. Steady'
  BY <1>2 DEF Steady
<1>4. mishaps = 0 /\ Resting' => Lists(log, binding, 0)'
  BY <1>1 DEF Listed, Resting
<1>5. ASSUME mishaps = 0, NEW q \in Procs, ~AtRest(q)' PROVE Listing(task[q])'
  <2>1. task'[q] = task[q] /\ ~AtRest(q)
    BY <1>1, <1>5
  <2>2. Listing(task[q])
    BY <1>5, <2>1 DEF Listed
  <2> QED BY <2>1, <2>2 DEF Listing, Emptied
<1> QED BY <1>3, <1>4, <1>5 DEF Listed

LEMMA EnsureOrder ==
  ASSUME IInv, One, Steady, Listed, NEW p \in Procs, Ensure(p)
  PROVE  Steady' /\ Listed'
<1> DEFINE t == task[p]
           w == t.want
           wider == [binding EXCEPT !.model = w.model, !.models = w.models \cup @]
<1>1. t # NoTask /\ t.at = "ensure" /\ t.cmd = "configure" /\ w \in Setup /\ t.new = NoBinding /\ binding = t.prev
  BY Before, Standing DEF Ensure, At, Shape, Ties, Rebound
<1>2. Survives(binding, w.proto) => wider \in Binding /\ t.prev # NoBinding
  BY <1>1 DEF IInv, TypeOK, Survives, Binding, Setup
<1>3. t.mode \in OwnKeys => Fresh(t.mode, "user", w) \in Binding /\ Fresh(t.mode, "user", w).chain = <<>>
  <2>1. \A c \in OwnKeys : Fresh(c, "user", w) \in Binding
    BY <1>1, FreshIs DEF Creds
  <2>2. Fresh(t.mode, "user", w).chain = <<>>
    BY DEF Fresh
  <2> QED BY <2>1, <2>2
<1>4. \/ \E b \in Binding, s \in {"apply", "widen"} : Moves(p, s, b) /\ (t.prev = NoBinding => b.chain = <<>>)
      \/ Moves(p, "issue", t.new)
      \/ End(p)
  BY <1>1, <1>2, <1>3, Going DEF Ensure, IInv, TypeOK, Steps
<1>5. UNCHANGED <<config, log, stamp, binding>> /\ mishaps' \in {mishaps, mishaps + 1}
  BY DEF Ensure, Fine, Mishap
<1>6. task' = [task EXCEPT ![p] = task'[p]] /\ (End(p) => task'[p] = NoTask)
  BY <1>4, Ended, SMTT(30) DEF Moves
<1>7. task'[p] # NoTask => Steadily(task[p])'
  BY <1>1, <1>4, <1>5, <1>6, Before DEF Steadily, Moves, Same
<1>8. mishaps' = 0 => IF task'[p] = NoTask THEN Lists(log, binding, 0)' ELSE task'[p].at # "lock" /\ Listing(task[p])'
  BY <1>1, <1>4, <1>5, <1>6, Before DEF Listing, Emptied, Moves, Same
<1> QED BY <1>1, <1>6, <1>7, <1>8, AtWork, Settled

LEMMA WidenOrder ==
  ASSUME IInv, One, Steady, Listed, NEW p \in Procs, Widen(p)
  PROVE  Steady' /\ Listed'
<1> DEFINE t == task[p]
<1>1. t # NoTask /\ t.at = "widen" /\ t.cmd = "configure" /\ t.new \in Binding
  BY Standing DEF Widen, At, Shape, MustHoldNew
<1>2. (\E s \in {"apply", "issue"} : Moves(p, s, t.new)) \/ End(p)
  BY <1>1, Going DEF Widen, Steps
<1>3. UNCHANGED <<config, log, stamp, binding>> /\ mishaps' \in {mishaps, mishaps + 1}
  BY DEF Widen, Fine, Mishap
<1>4. task' = [task EXCEPT ![p] = task'[p]] /\ (End(p) => task'[p] = NoTask)
  BY <1>2, Ended DEF Moves
<1>5. task'[p] # NoTask => Steadily(task[p])'
  BY <1>1, <1>2, <1>3, <1>4, Before DEF Steadily, Moves, Same
<1>6. mishaps' = 0 => IF task'[p] = NoTask THEN Lists(log, binding, 0)' ELSE task'[p].at # "lock" /\ Listing(task[p])'
  BY <1>1, <1>2, <1>3, <1>4, Before DEF Listing, Emptied, Moves, Same
<1> QED BY <1>1, <1>4, <1>5, <1>6, AtWork, Settled

LEMMA IssueOrder ==
  ASSUME IInv, One, Steady, Listed, NEW p \in Procs, Issue(p)
  PROVE  Steady' /\ Listed'
<1> DEFINE t == task[p]
           b == Draft(p, NextCred)
<1>1. t # NoTask /\ t.at = "issue" /\ Unborn # {}
  BY DEF Issue, At
<1>2. /\ b \in Binding /\ SetupOf(b) = t.want
      /\ t.cmd = "configure" => b.chain = <<>>
      /\ t.cmd = "restore" => b.chain = Tail(t.prev.chain) /\ b.txn = t.prev.chain[1].txn
      /\ t.cmd = "renew" => b.chain = t.prev.chain /\ b.txn = t.prev.txn
  BY <1>1, DraftIs, BornIs
<1> HIDE DEF b
<1>3. Moves(p, IF t.cmd = "configure" THEN "apply" ELSE "confirm", b) \/ End(p)
  BY <1>1, <1>2, Going DEF Issue, Steps, b
<1>4. UNCHANGED <<config, log, stamp, binding>> /\ mishaps' \in {mishaps, mishaps + 1}
  BY DEF Issue, Fine, Mishap
<1>5. task' = [task EXCEPT ![p] = task'[p]] /\ (End(p) => task'[p] = NoTask)
  BY <1>3, Ended DEF Moves
<1>6. task'[p] # NoTask => Steadily(task[p])'
  BY <1>1, <1>2, <1>3, <1>4, <1>5, Before DEF Steadily, Moves, Same
<1>7. mishaps' = 0 => IF task'[p] = NoTask THEN Lists(log, binding, 0)' ELSE task'[p].at # "lock" /\ Listing(task[p])'
  BY <1>1, <1>3, <1>4, <1>5, Before DEF Listing, Emptied, Moves, Same
<1> QED BY <1>1, <1>5, <1>6, <1>7, AtWork, Settled

LEMMA ApplyOrder ==
  ASSUME IInv, One, Steady, Listed, NEW p \in Procs, Apply(p)
  PROVE  Steady' /\ Listed'
<1> DEFINE t == task[p]
           x == [t EXCEPT !.at = "verify", !.txn = stamp + 1]
<1>1. t # NoTask /\ t.at = "apply" /\ t.cmd = "configure" /\ t \in Task /\ config # t.want /\ t.new # NoBinding
  BY Before, Standing DEF Apply, At, Shape, Steadily, MustHoldNew
<1>2. binding = t.prev
  BY <1>1, Before DEF Ties, Rebound
<1>3. CASE config' = t.want /\ log' = Pushed /\ stamp' = stamp + 1 /\ task' = [task EXCEPT ![p] = x] /\ Fine
  <2>1. stamp + 1 \in Nat
    BY <1>1, Before
  <2>2. /\ x \in Task /\ x.at = "verify" /\ x.new = t.new /\ x.prev = t.prev /\ x.cmd = t.cmd /\ x.want = t.want
        /\ x.unsaved = t.unsaved /\ x.txn = stamp + 1
    BY <1>1, <2>1 DEF Task, Steps
  <2>3. task'[p] = x /\ x # NoTask
    BY <1>3, <2>2, MarkersAssumption DEF IInv, TypeOK
  <2> HIDE DEF x
  <2>4. Pushed # <<>> /\ Pushed[1].id = stamp + 1
    BY PushedIs DEF IInv
  <2>5. Steadily(task[p])'
    BY <1>1, <1>3, <2>2, <2>3, <2>4, Before DEF Steadily
  <2>6. mishaps' = 0 => Listing(task[p])'
    <3>1. HAVE mishaps' = 0
    <3>2. Lists(log, t.prev, 0)
      BY <1>1, <1>2, <1>3, <3>1, Before DEF Listing, Emptied, Fine
    <3>3. log \in Seq(Entry) /\ [id |-> stamp + 1, before |-> config] \in Entry
      BY DEF IInv, TypeOK, Entry
    <3>4. Lists(Pushed, t.prev, 1)
      BY <3>2, <3>3, Before, <1>1, ListsPush DEF Pushed
    <3> QED BY <1>1, <1>3, <2>2, <2>3, <3>1, <3>4, Before DEF Listing, Emptied, Fine
  <2> QED BY <1>1, <1>3, <2>2, <2>3, <2>5, <2>6, AtWork, Settled
<1>4. CASE Goto(p, "discard") /\ Mishap
  <2>1. Moves(p, "discard", t.new)
    BY <1>1, <1>4, Going DEF Steps
  <2>2. mishaps' # 0
    BY <1>4, Before, <1>1 DEF Mishap
  <2>3. Steadily(task[p])'
    BY <1>1, <1>4, <2>1, Before DEF Steadily, Moves, Same
  <2> QED BY <1>1, <2>1, <2>2, <2>3, AtWork, Settled DEF Moves
<1> QED BY <1>1, <1>3, <1>4 DEF Apply

LEMMA VerifyOrder ==
  ASSUME IInv, One, Steady, Listed, NEW p \in Procs, Verify(p)
  PROVE  Steady' /\ Listed'
<1> DEFINE t == task[p]
<1>1. t # NoTask /\ t.at = "verify" /\ t.cmd = "configure" /\ t.new # NoBinding
  BY Standing DEF Verify, At, Shape, MustHoldNew
<1>2. \E s \in {"save", "undo"} : Moves(p, s, t.new)
  BY <1>1, Going DEF Verify, Steps
<1>3. UNCHANGED <<config, log, stamp, binding>> /\ mishaps' \in {mishaps, mishaps + 1}
  BY DEF Verify, Fine, Mishap
<1>4. Steadily(task[p])'
  BY <1>1, <1>2, <1>3, Before DEF Steadily, Moves, Same
<1>5. mishaps' = 0 => Listing(task[p])'
  BY <1>1, <1>2, <1>3, Before DEF Listing, Emptied, Moves, Same
<1> QED BY <1>1, <1>2, <1>4, <1>5, AtWork, Settled DEF Moves

LEMMA SaveOrder ==
  ASSUME IInv, One, Steady, Listed, NEW p \in Procs, Save(p)
  PROVE  Steady' /\ Listed'
<1> DEFINE t == task[p]
<1>1. t # NoTask /\ t.at = "save" /\ t.new \in Binding /\ t.cmd = "configure" /\ t.txn = log[1].id /\ log # <<>>
  BY Before, Standing DEF Save, At, Shape, MustHoldNew, Steadily
<1>2. \/ binding' = Saved(p) /\ Moves(p, "release", t.new)
      \/ binding' = binding /\ Moves(p, "undo", t.new)
  BY <1>1, Going DEF Save, Steps
<1>3. UNCHANGED <<config, log, stamp>> /\ mishaps' \in {mishaps, mishaps + 1}
  BY DEF Save, Fine, Mishap
<1>4. Steadily(task[p])'
  BY <1>1, <1>2, <1>3, Before DEF Steadily, Moves, Same
<1>5. mishaps' = 0 => Listing(task[p])'
  <2>1. HAVE mishaps' = 0
  <2>2. Listing(t) /\ Lists(log, t.prev, 1)
    BY <1>1, <1>3, <2>1, Before DEF Listing
  <2>3. t.txn # NoTxn
    <3>1. log[1] \in Entry
      BY <1>1, Before, TailIs
    <3> QED BY <1>1, <3>1 DEF Entry, NoTxn
  <2>4. Lists(log, Saved(p), 0)
    <3>1. /\ Saved(p) \in Binding /\ Saved(p).txn = log[1].id
          /\ t.prev = NoBinding => Saved(p).chain = <<>>
          /\ t.prev # NoBinding => Saved(p).chain = <<TargetOf(t.prev)>> \o t.prev.chain
      <4>1. (t.prev = NoBinding => t.new.chain = <<>>) /\ t.new # NoBinding
        BY <1>1, Before, MarkersAssumption DEF Steadily
      <4> QED BY <1>1, <2>3, <4>1, ChainedIs
    <3> QED BY <1>1, <2>2, <3>1, Before, ListsSave
  <2> QED BY <1>1, <1>2, <1>3, <2>2, <2>4 DEF Listing, Emptied, Moves, Same
<1> QED BY <1>1, <1>2, <1>4, <1>5, AtWork, Settled DEF Moves

LEMMA UndoOrder ==
  ASSUME IInv, One, Steady, Listed, NEW p \in Procs, Undo(p)
  PROVE  Steady' /\ Listed'
<1> DEFINE t == task[p]
<1>1. t # NoTask /\ t.at = "undo" /\ t.new # NoBinding /\ t.cmd = "configure" /\ t.txn = log[1].id /\ log # <<>>
      /\ binding = t.prev
  BY Before, Standing DEF Undo, At, Shape, MustHoldNew, Steadily, Ties, Rebound
<1>2. Moves(p, "discard", t.new)
  BY <1>1, Going DEF Undo, Steps
<1>3. Steadily(task[p])'
  BY <1>1, <1>2, Before DEF Steadily, Moves, Same
<1>4. mishaps' = 0 => Listing(task[p])'
  <2>1. HAVE mishaps' = 0
  <2>2. Newest(t.txn) /\ t.txn # NoTxn
    <3>1. log[1] \in Entry /\ Head(log) = log[1]
      BY <1>1, Before, TailIs
    <3> QED BY <1>1, <3>1 DEF Entry, NoTxn, Newest
  <2>3. RollsBack(t.txn)
    BY <1>1, <2>1, <2>2, Before DEF Undo, RollbackFails, Mishap
  <2>4. mishaps = 0 /\ log' = Tail(log)
    BY <2>1, <2>3 DEF RollsBack, Fine
  <2>5. Lists(log, t.prev, 1) /\ ~t.unsaved
    BY <1>1, <2>4, Before DEF Listing
  <2>6. Lists(Tail(log), binding, 0)
    BY <1>1, <2>5, Before, ListsPop
  <2>7. binding' = binding
    BY DEF Undo
  <2> QED BY <1>1, <1>2, <2>4, <2>5, <2>6, <2>7 DEF Listing, Emptied, Moves, Same
<1> QED BY <1>1, <1>2, <1>3, <1>4, AtWork, Settled DEF Moves

LEMMA DiscardOrder ==
  ASSUME IInv, One, Steady, Listed, NEW p \in Procs, RevokeNew(p) \/ RevokePrevious(p)
  PROVE  Steady' /\ Listed'
<1>1. task[p] # NoTask /\ task[p].at \in {"discard", "release"} /\ End(p)
  BY DEF RevokeNew, RevokePrevious, At
<1>2. UNCHANGED <<log, binding>> /\ mishaps' \in {mishaps, mishaps + 1}
  BY DEF RevokeNew, RevokePrevious, Revoke, Fine, Mishap
<1>3. task' = [task EXCEPT ![p] = task'[p]] /\ task'[p] = NoTask
  BY <1>1, Ended
<1>4. mishaps' = 0 => Lists(log, binding, 0)'
  BY <1>1, <1>2, Before DEF Listing, Emptied
<1> QED BY <1>1, <1>3, <1>4, AtWork, Settled

LEMMA LockOrder ==
  ASSUME IInv, Turns, One, Steady, Listed, NEW p \in Procs, Lock(p)
  PROVE  Steady' /\ Listed'
<1> DEFINE t == task[p]
<1>1. t # NoTask /\ t.at = "lock" /\ t.cmd = "renew" /\ t.new = NoBinding /\ ~t.unsaved
  BY Standing DEF Lock, At, Shape
<1>2. (Moves(p, "recheck", t.new) /\ Takeable) \/ End(p)
  BY <1>1, Going DEF Lock, Steps
<1>3. UNCHANGED <<config, log, binding, mishaps>>
  BY DEF Lock, counters
<1>4. task' = [task EXCEPT ![p] = task'[p]] /\ (End(p) => task'[p] = NoTask)
  BY <1>2, Ended DEF Moves
<1>5. CASE End(p)
  BY <1>1, <1>3, <1>4, <1>5, IdleOrder DEF AtRest
<1>6. CASE Moves(p, "recheck", t.new) /\ Takeable
  <2>1. \A q \in Procs \ {p} : AtRest(q)
    BY <1>1, <1>6, FreeToTake
  <2>2. mishaps = 0 => Lists(log, binding, 0)
    BY <1>1, <2>1 DEF Listed, Resting, AtRest
  <2>3. Steadily(task[p])'
    BY <1>1, <1>6 DEF Steadily, Moves, Same
  <2>4. mishaps' = 0 => task'[p].at # "lock" /\ Listing(task[p])'
    BY <1>1, <1>3, <1>6, <2>2 DEF Listing, Emptied, Moves, Same
  <2> QED BY <1>4, <1>6, <2>1, <2>3, <2>4, Settled DEF Moves
<1> QED BY <1>2, <1>5, <1>6

LEMMA RecheckOrder ==
  ASSUME IInv, One, Steady, Listed, NEW p \in Procs, Recheck(p)
  PROVE  Steady' /\ Listed'
<1> DEFINE t == task[p]
           x == [t EXCEPT !.at = "issue", !.prev = binding, !.want = SetupOf(binding)]
<1>1. t # NoTask /\ t.at = "recheck" /\ t.cmd = "renew" /\ t \in Task /\ t.new = NoBinding
  BY Before, Standing DEF Recheck, At, Shape, Ties
<1>2. UNCHANGED <<config, log, binding, mishaps>>
  BY DEF Recheck, counters
<1>3. mishaps = 0 => Lists(log, binding, 0) /\ ~t.unsaved
  BY <1>1, Before DEF Listing, Emptied
<1>4. CASE End(p)
  <2>1. task' = [task EXCEPT ![p] = task'[p]] /\ task'[p] = NoTask
    BY <1>4, Ended
  <2> QED BY <1>1, <1>2, <1>3, <2>1, AtWork, Settled
<1>5. CASE StillDue /\ binding.model \in Offered(binding.proto)
  <2>1. binding \in Binding /\ SetupOf(binding) \in Setup /\ binding # NoBinding
    BY <1>5, BindingFields DEF StillDue, IInv, TypeOK
  <2>2. /\ x \in Task /\ x.at = "issue" /\ x.prev = binding /\ x.new = t.new /\ x.cmd = t.cmd /\ x.unsaved = t.unsaved
        /\ x.want = SetupOf(binding)
    BY <1>1, <2>1 DEF Task, Steps
  <2>3. task' = [task EXCEPT ![p] = x] /\ task'[p] = x
    BY <1>5 DEF Recheck, IInv, TypeOK
  <2> HIDE DEF x
  <2>4. Steadily(task[p])'
    BY <1>1, <1>2, <2>2, <2>3 DEF Steadily
  <2>5. mishaps' = 0 => Listing(task[p])'
    BY <1>1, <1>2, <1>3, <2>2, <2>3 DEF Listing, Emptied
  <2> QED BY <1>1, <2>2, <2>3, <2>4, <2>5, MarkersAssumption, AtWork, Settled
<1> QED BY <1>4, <1>5 DEF Recheck

LEMMA ConfirmOrder ==
  ASSUME IInv, One, Steady, Listed, NEW p \in Procs, Confirm(p)
  PROVE  Steady' /\ Listed'
<1> DEFINE t == task[p]
<1>1. /\ t # NoTask /\ t.at = "confirm" /\ t.cmd \in {"restore", "renew"} /\ t.new # NoBinding /\ t.prev # NoBinding
      /\ binding = t.prev
  BY Before, Standing DEF Confirm, At, Shape, MustHoldNew, Ties, Rebound
<1>2. \E s \in {"rollback", "rebind", "drop"} :
        Moves(p, s, t.new) /\ (s = "rollback" => t.cmd = "restore") /\ (s = "rebind" => t.cmd = "renew")
  BY <1>1, Going DEF Confirm, Steps
<1>3. UNCHANGED <<config, log, binding>> /\ mishaps' \in {mishaps, mishaps + 1}
  BY DEF Confirm, Fine, Mishap
<1>4. Steadily(task[p])'
  BY <1>1, <1>2, <1>3, Before DEF Steadily, Moves, Same
<1>5. mishaps' = 0 => Listing(task[p])'
  <2>1. HAVE mishaps' = 0
  <2>2. Lists(log, binding, 0) /\ ~t.unsaved
    BY <1>1, <1>3, <2>1, Before DEF Listing, Emptied
  <2>3. t.cmd = "renew" => Lists(log, t.new, 0)
    BY <1>1, <2>2, Before DEF Steadily, Lists
  <2> QED BY <1>1, <1>2, <1>3, <2>2, <2>3 DEF Listing, Emptied, Moves, Same
<1> QED BY <1>1, <1>2, <1>4, <1>5, AtWork, Settled, SMTT(30) DEF Moves

LEMMA RollbackOrder ==
  ASSUME IInv, One, Steady, Listed, NEW p \in Procs, Rollback(p)
  PROVE  Steady' /\ Listed'
<1> DEFINE t == task[p]
<1>1. /\ t # NoTask /\ t.at = "rollback" /\ t.cmd = "restore" /\ binding = t.prev /\ log # <<>> /\ t.txn = log[1].id
      /\ t.new # NoBinding => t.prev # NoBinding /\ t.prev.chain # <<>>
  BY Before DEF Rollback, At, Shape, Ties, Rebound, Steadily
<1>2. \/ t.new # NoBinding /\ Moves(p, "rebind", t.new)
      \/ t.new = NoBinding /\ Moves(p, "retire", t.new)
      \/ t.new # NoBinding /\ Moves(p, "drop", t.new)
      \/ End(p)
  BY <1>1, Going DEF Rollback, Steps
<1>3. task' = [task EXCEPT ![p] = task'[p]] /\ (End(p) => task'[p] = NoTask)
  BY <1>2, Ended, SMTT(30) DEF Moves
<1>4. task'[p] # NoTask => Steadily(task[p])'
  BY <1>1, <1>2, <1>3, Before DEF Steadily, Moves, Same
<1>5. mishaps' = 0 => task'[p] # NoTask /\ task'[p].at # "lock" /\ Listing(task[p])'
  <2>1. HAVE mishaps' = 0
  <2>2. Newest(t.txn)
    <3>1. Head(log) = log[1]
      BY <1>1, Before, TailIs
    <3> QED BY <1>1, <3>1 DEF Newest
  <2>3. ~RollbackFails(t.txn)
    BY <1>1, <2>1, <2>2, Before DEF RollbackFails, Mishap
  <2>4. mishaps = 0 /\ log' = Tail(log) /\ binding' = binding
    BY <2>1, <2>3 DEF Rollback, RollsBack, Fine
  <2>5. Lists(log, binding, 0) /\ binding # NoBinding /\ (t.new = NoBinding => binding.chain = <<>>) /\ ~t.unsaved
    BY <1>1, <2>4, Before DEF Listing, Emptied
  <2>6. CASE t.new = NoBinding
    <3>1. Goto(p, "retire")
      BY <1>1, <2>3, <2>5, <2>6 DEF Rollback
    <3>2. Moves(p, "retire", t.new)
      BY <1>1, <3>1, Going DEF Steps
    <3>3. Tail(log) = <<>>
      <4>1. Len(log) = 1
        <5>1. Len(binding.chain) = 0
          BY <2>5, <2>6
        <5> QED BY <2>5, <5>1 DEF Lists
      <4> QED BY <1>1, <4>1, Before, TailIs
    <3> QED BY <2>4, <2>5, <2>6, <3>2, <3>3 DEF Listing, Emptied, Moves, Same
  <2>7. CASE t.new # NoBinding
    <3>1. Goto(p, "rebind")
      BY <1>1, <2>3, <2>7 DEF Rollback
    <3>2. Moves(p, "rebind", t.new)
      BY <1>1, <3>1, Going DEF Steps
    <3>3. t.new.txn = t.prev.chain[1].txn /\ t.new.chain = Tail(t.prev.chain) /\ t.prev \in Binding /\ t.new \in Binding
      BY <1>1, <2>7, Before DEF Steadily
    <3>4. Lists(Tail(log), t.new, 0)
      BY <1>1, <2>5, <2>7, <3>3, Before, ListsNext
    <3> QED BY <2>4, <2>5, <2>7, <3>2, <3>4 DEF Listing, Emptied, Moves, Same
  <2> QED BY <2>6, <2>7
<1> QED BY <1>1, <1>3, <1>4, <1>5, AtWork, Settled

LEMMA RebindOrder ==
  ASSUME IInv, One, Steady, Listed, NEW p \in Procs, Rebind(p)
  PROVE  Steady' /\ Listed'
<1> DEFINE t == task[p]
           x == [t EXCEPT !.at = "drop", !.unsaved = (t.cmd = "restore")]
<1>1. t # NoTask /\ t.at = "rebind" /\ t \in Task /\ t.new # NoBinding /\ t.cmd # "configure"
  BY Standing DEF Rebind, At, Shape, MustHoldNew
<1>2. CASE binding' = t.new /\ Goto(p, "retire") /\ Fine
  <2>1. Moves(p, "retire", t.new)
    BY <1>1, <1>2, Going DEF Steps
  <2>2. log' = log
    BY DEF Rebind
  <2>3. Steadily(task[p])'
    BY <1>1, <2>1, Before DEF Steadily, Moves, Same
  <2>4. mishaps' = 0 => Listing(task[p])'
    BY <1>1, <1>2, <2>1, <2>2, Before DEF Listing, Emptied, Moves, Same, Fine
  <2> QED BY <1>1, <2>1, <2>3, <2>4, AtWork, Settled DEF Moves
<1>3. CASE task' = [task EXCEPT ![p] = x] /\ Mishap
  <2>1. x \in Task /\ x.at = "drop" /\ x.new = t.new /\ x.prev = t.prev /\ x.cmd = t.cmd
    BY <1>1 DEF Task, Steps
  <2>2. task'[p] = x
    BY <1>3 DEF IInv, TypeOK
  <2> HIDE DEF x
  <2>3. mishaps' # 0
    BY <1>1, <1>3, Before DEF Mishap
  <2>4. Steadily(task[p])'
    BY <1>1, <2>1, <2>2, Before DEF Steadily
  <2> QED BY <1>1, <1>3, <2>1, <2>2, <2>3, <2>4, AtWork, Settled
<1> QED BY <1>2, <1>3 DEF Rebind

LEMMA DropOrder ==
  ASSUME IInv, One, Steady, Listed, NEW p \in Procs, Drop(p)
  PROVE  Steady' /\ Listed'
<1> DEFINE t == task[p]
<1>1. t # NoTask /\ t.at = "drop" /\ t.cmd # "configure"
  BY Standing DEF Drop, At, Shape
<1>2. (t.unsaved /\ Moves(p, "retire", t.new)) \/ End(p)
  BY <1>1, Going DEF Drop, Steps
<1>3. UNCHANGED <<log, binding>> /\ mishaps' \in {mishaps, mishaps + 1}
  BY DEF Drop, Revoke, Fine, Mishap
<1>4. task' = [task EXCEPT ![p] = task'[p]] /\ (End(p) => task'[p] = NoTask)
  BY <1>2, Ended DEF Moves
<1>5. task'[p] # NoTask => Steadily(task[p])'
  BY <1>1, <1>2, <1>4, Before DEF Steadily, Moves, Same
<1>6. mishaps' = 0 => IF task'[p] = NoTask THEN Lists(log, binding, 0)' ELSE task'[p].at # "lock" /\ Listing(task[p])'
  BY <1>1, <1>2, <1>3, <1>4, Before DEF Listing, Emptied
<1> QED BY <1>1, <1>4, <1>5, <1>6, AtWork, Settled

LEMMA RetireOrder ==
  ASSUME IInv, One, Steady, Listed, NEW p \in Procs, Retire(p)
  PROVE  Steady' /\ Listed'
<1> DEFINE t == task[p]
<1>1. t # NoTask /\ t.at = "retire" /\ t.cmd # "configure"
  BY Standing DEF Retire, At, Shape
<1>2. \/ t.new # NoBinding /\ ~t.unsaved /\ End(p)
      \/ (t.new = NoBinding \/ t.unsaved) /\ Moves(p, "unbind", t.new)
  BY <1>1, Going DEF Retire, Steps
<1>3. UNCHANGED <<log, binding>> /\ mishaps' \in {mishaps, mishaps + 1}
  BY DEF Retire, Revoke, Fine, Mishap
<1>4. task' = [task EXCEPT ![p] = task'[p]] /\ (End(p) => task'[p] = NoTask)
  BY <1>2, Ended DEF Moves
<1>5. task'[p] # NoTask => Steadily(task[p])'
  BY <1>1, <1>2, <1>4, Before DEF Steadily, Moves, Same
<1>6. mishaps' = 0 => IF task'[p] = NoTask THEN Lists(log, binding, 0)' ELSE task'[p].at # "lock" /\ Listing(task[p])'
  BY <1>1, <1>2, <1>3, <1>4, Before DEF Listing, Emptied, Moves, Same
<1> QED BY <1>1, <1>4, <1>5, <1>6, AtWork, Settled

LEMMA UnbindOrder ==
  ASSUME IInv, One, Steady, Listed, NEW p \in Procs, Unbind(p)
  PROVE  Steady' /\ Listed'
<1>1. task[p] # NoTask /\ task[p].at = "unbind" /\ End(p) /\ log' = log
  BY DEF Unbind, At
<1>2. task' = [task EXCEPT ![p] = task'[p]] /\ task'[p] = NoTask
  BY <1>1, Ended
<1>3. mishaps' = 0 => binding' = NoBinding /\ mishaps = 0
  BY <1>1, Before DEF Unbind, Fine, Mishap
<1>4. mishaps' = 0 => Lists(log, binding, 0)'
  BY <1>1, <1>3, Before DEF Listing, Emptied, Lists
<1> QED BY <1>1, <1>2, <1>4, AtWork, Settled

LEMMA CrashOrder ==
  ASSUME IInv, One, Steady, Listed, NEW p \in Procs, Crash(p)
  PROVE  Steady' /\ Listed'
<1>1. task[p] # NoTask /\ Mishap /\ mishaps \in Nat
  BY DEF Crash, IInv, TypeOK
<1>2. task' = [task EXCEPT ![p] = task'[p]] /\ task'[p] = NoTask
  BY DEF Crash, IInv, TypeOK
<1>3. mishaps' # 0
  BY <1>1 DEF Mishap
<1>4. CASE task[p].at # "lock"
  BY <1>1, <1>2, <1>3, <1>4, AtWork, Settled
<1>5. CASE task[p].at = "lock"
  <2>1. UNCHANGED <<config, log>>
    BY <1>5 DEF Crash, At
  <2>2. ASSUME NEW q \in Procs, task'[q] # NoTask PROVE Steadily(task[q])'
    <3>1. q # p /\ task'[q] = task[q]
      BY <1>2, <2>2, TheOthers
    <3> QED BY <2>1, <2>2, <3>1 DEF Steady, Steadily
  <2> QED BY <1>3, <2>2 DEF Steady, Listed
<1> QED BY <1>4, <1>5

LEMMA StartOrder ==
  ASSUME IInv, One, Steady, Listed, Overlap \subseteq {"renew"}, "reselect" \notin Situations, NEW p \in Procs,
         StartConfigure(p) \/ StartRestore(p) \/ StartRenew(p) \/ Begins(p)
  PROVE  Steady' /\ Listed'
<1> DEFINE x == task'[p]
<1>1. Opens(p, x) /\ UNCHANGED <<config, log, binding, mishaps>>
  BY StartConfigureShapes, StartRestoreShapes, StartRenewShapes DEF StartConfigure, StartRestore, StartRenew, Begins, counters
<1>6. CASE StartRenew(p) \/ Begins(p)
  <2>1. x.cmd = "renew" /\ x.at = "lock" /\ x.new = NoBinding /\ task[p] = NoTask /\ task' = [task EXCEPT ![p] = x]
    BY <1>6 DEF StartRenew, Begins, Renewal, MayStart, IInv, TypeOK
  <2> QED BY <1>1, <2>1, IdleOrder DEF AtRest
<1> SUFFICES ASSUME StartConfigure(p) \/ StartRestore(p) PROVE Steady' /\ Listed'
  BY <1>6
<1>2. Quiet
  BY Alone
<1>3. mishaps = 0 => Lists(log, binding, 0)
  BY <1>2 DEF Listed, Resting, AtRest, Quiet
<1>4. x \in Task /\ x # NoTask /\ x.new = NoBinding /\ task' = [task EXCEPT ![p] = x]
      /\ \A q \in Procs : task'[q] # NoTask => q = p
  BY <1>1, <1>2, MarkersAssumption DEF Opens, IInv, TypeOK, Quiet
<1>5. Steadily(task[p])' /\ (mishaps' = 0 => Listing(task[p])')
  <2>1. CASE StartConfigure(p)
    <3>1. x.cmd = "configure" /\ x.at = "ensure" /\ x.txn = NoTxn /\ x.want # config /\ ~x.unsaved
      <4>1. PICK mode, want : mode \in Modes /\ want # config /\ task' = [task EXCEPT ![p] =
              [cmd |-> "configure", at |-> "ensure", mode |-> mode, want |-> want,
               prev |-> binding, new |-> NoBinding, txn |-> NoTxn, unsaved |-> FALSE]]
        BY <2>1 DEF StartConfigure
      <4> QED BY <4>1 DEF IInv, TypeOK
    <3> QED BY <1>1, <1>3, <1>4, <3>1 DEF Steadily, Listing, Emptied
  <2>2. CASE StartRestore(p)
    <3> DEFINE reissue == binding # NoBinding /\ binding.txn = Head(log).id /\ binding.chain # <<>>
    <3>1. /\ x.cmd = "restore" /\ x.at = (IF reissue THEN "issue" ELSE "rollback") /\ x.txn = Head(log).id /\ ~x.unsaved
          /\ x.prev = binding /\ (reissue => x.want = SetupOf(Head(binding.chain))) /\ log # <<>>
      BY <2>2 DEF StartRestore, Restorable, IInv, TypeOK
    <3>2. log \in Seq(Entry) /\ Head(log) = log[1] /\ Len(log) # 0
      BY <3>1, TailIs DEF IInv, TypeOK, Entry
    <3>3. reissue => Head(binding.chain) = binding.chain[1]
      BY BindingFields, TailIs DEF IInv, TypeOK
    <3>4. Steadily(task[p])'
      BY <1>1, <1>4, <3>1, <3>2, <3>3 DEF Steadily
    <3>5. mishaps' = 0 => Listing(task[p])'
      <4>1. HAVE mishaps' = 0
      <4>2. Lists(log, binding, 0)
        BY <1>1, <1>3, <4>1
      <4>3. binding # NoBinding /\ log[1].id = binding.txn
        BY <3>2, <4>2 DEF Lists
      <4> QED BY <1>1, <1>4, <3>1, <3>2, <4>2, <4>3 DEF Listing, Emptied
    <3> QED BY <3>4, <3>5
  <2> QED BY <2>1, <2>2
<1>7. x.at # "lock"
  BY DEF StartConfigure, StartRestore, IInv, TypeOK
<1> QED BY <1>4, <1>5, <1>7 DEF Steady, Listed, Resting, AtRest

LEMMA ElsewhereOrder ==
  ASSUME IInv, One, Steady, Listed, ComeDue \/ Leave \/ Fails \/ UNCHANGED vars
  PROVE  Steady' /\ Listed'
<1>1. UNCHANGED <<task, config, log, binding>> /\ (mishaps' = 0 => mishaps = 0)
  BY DEF ComeDue, Leave, Fails, Mishap, vars, counters, IInv, TypeOK
<1> QED BY <1>1 DEF Steady, Steadily, Listed, Listing, Emptied, Resting, AtRest

LEMMA OrderKept ==
  IInv /\ Turns /\ One /\ Steady /\ Listed /\ Overlap \subseteq {"renew"} /\ "reselect" \notin Situations /\ [AnyStep]_vars
    => Steady' /\ Listed'
<1> SUFFICES ASSUME IInv, Turns, One, Steady, Listed, Overlap \subseteq {"renew"}, "reselect" \notin Situations, [AnyStep]_vars
             PROVE  Steady' /\ Listed'
  OBVIOUS
<1>1. ASSUME NEW p \in Procs, Step(p) PROVE Steady' /\ Listed'
  BY <1>1, EnsureOrder, WidenOrder, IssueOrder, ApplyOrder, VerifyOrder, SaveOrder, UndoOrder, DiscardOrder, LockOrder,
     RecheckOrder, ConfirmOrder, RollbackOrder, RebindOrder, DropOrder, RetireOrder, UnbindOrder DEF Step
<1> QED BY <1>1, StartOrder, CrashOrder, ElsewhereOrder DEF AnyStep, Next

LEMMA OrderInit == Init => Steady /\ Listed
  BY DEF Init, Steady, Listed, Resting, AtRest, Lists

(* The restore chain that bindings.save stores names the recorded          *)
(* transactions, newest first, as long as nothing failed: any models, keys *)
(* and numbers of switches and restores, one command at a time but for     *)
(* renewals, none asking for what is configured.                           *)
THEOREM ChainIsLog == Overlap \subseteq {"renew"} /\ "reselect" \notin Situations => (Spec => []ChainMatchesLog)
<1> SUFFICES ASSUME Overlap \subseteq {"renew"}, "reselect" \notin Situations PROVE Spec => []ChainMatchesLog
  OBVIOUS
<1>1. IInv /\ One /\ Listed => ChainMatchesLog
  <2> SUFFICES ASSUME IInv, Listed, Quiet, mishaps = 0
               PROVE  [i \in DOMAIN log |-> log[i].id] =
                        IF binding = NoBinding THEN <<>>
                        ELSE <<binding.txn>> \o [i \in DOMAIN binding.chain |-> binding.chain[i].txn]
    BY DEF ChainMatchesLog
  <2>1. Lists(log, binding, 0) /\ log \in Seq(Entry) /\ binding \in Binding \cup {NoBinding}
    BY DEF Listed, Resting, AtRest, Quiet, IInv, TypeOK, Entry
  <2> DEFINE ids == [i \in DOMAIN log |-> log[i].id]
  <2>2. DOMAIN log = 1..Len(log) /\ Len(log) \in Nat /\ \A i \in DOMAIN log : log[i].id \in Nat
    <3>1. \A i \in DOMAIN log : log[i] \in Entry
      BY <2>1
    <3> QED BY <2>1, <3>1 DEF Entry
  <2>3. ids \in Seq(Nat) /\ Len(ids) = Len(log) /\ \A i \in DOMAIN log : ids[i] = log[i].id
    BY <2>2
  <2>4. CASE binding = NoBinding
    <3>1. Len(ids) = 0
      BY <2>1, <2>3, <2>4 DEF Lists
    <3> HIDE DEF ids
    <3>2. ids = <<>>
      BY <2>3, <3>1
    <3> QED BY <2>4, <3>2 DEF ids
  <2>5. CASE binding # NoBinding
    <3> DEFINE txns == [i \in DOMAIN binding.chain |-> binding.chain[i].txn]
    <3>1. binding.chain \in Seq(Target) /\ binding.txn \in Nat /\ DOMAIN binding.chain = 1..Len(binding.chain)
          /\ Len(binding.chain) \in Nat
      BY <2>1, <2>5, BindingFields
    <3>2. txns \in Seq(Nat) /\ Len(txns) = Len(binding.chain) /\ \A i \in DOMAIN binding.chain : txns[i] = binding.chain[i].txn
      BY <3>1, TargetFields
    <3>3. /\ Len(log) = 1 + Len(binding.chain) /\ log[1].id = binding.txn
          /\ \A i \in DOMAIN binding.chain : log[1 + i].id = binding.chain[i].txn
      <4>1. /\ Len(log) = 0 + 1 + Len(binding.chain) /\ log[0 + 1].id = binding.txn
            /\ \A i \in DOMAIN binding.chain : log[0 + 1 + i].id = binding.chain[i].txn
        BY <2>1, <2>5 DEF Lists
      <4>2. 0 + 1 = 1 /\ \A i \in DOMAIN binding.chain : 0 + 1 + i = 1 + i
        BY <3>1
      <4> QED BY <3>1, <4>1, <4>2
    <3> HIDE DEF ids, txns
    <3> DEFINE named == <<binding.txn>> \o txns
    <3>4. /\ named \in Seq(Nat) /\ Len(named) = Len(txns) + 1 /\ named[1] = binding.txn
          /\ \A i \in DOMAIN named : i = 1 \/ (i - 1 \in DOMAIN txns /\ named[i] = txns[i - 1])
      BY <3>1, <3>2, PushIs
    <3> HIDE DEF named
    <3>5. ASSUME NEW i \in 1..Len(ids) PROVE ids[i] = named[i]
      <4>1. CASE i = 1
        BY <2>2, <2>3, <3>3, <3>4, <3>5, <4>1
      <4>2. CASE i # 1
        <5>1. i \in DOMAIN named /\ i - 1 \in DOMAIN binding.chain /\ 1 + (i - 1) = i /\ i \in DOMAIN log
          BY <2>2, <2>3, <3>1, <3>2, <3>3, <3>4, <4>2
        <5>2. named[i] = binding.chain[i - 1].txn
          BY <3>2, <3>4, <4>2, <5>1
        <5>3. ids[i] = binding.chain[i - 1].txn
          BY <2>3, <3>3, <5>1
        <5> QED BY <5>2, <5>3
      <4> QED BY <4>1, <4>2
    <3>6. ids = named
      <4>1. Len(ids) = Len(named)
        BY <2>3, <3>1, <3>2, <3>3, <3>4
      <4> QED BY <2>3, <3>4, <3>5, <4>1, SeqEqual
    <3> QED BY <2>5, <3>6 DEF ids, named, txns
  <2> QED BY <2>4, <2>5
<1> QED BY <1>1, Initially, IInvKept, TurnsInit, TurnsKept, OneInit, OneKept, OrderInit, OrderKept, StepsAre, PTL DEF Spec

-----------------------------------------------------------------------------
(* What the configuration offers, the binding describes and Hub grants.    *)
LEMMA NumbersStay ==
  ASSUME IInv, Stamped, LogStep
  PROVE  Numbered' /\ stamp' \in Nat /\ stamp <= stamp'
<1>1. log \in Seq(Entry) /\ stamp \in Nat /\ DOMAIN log = 1..Len(log)
  BY DEF IInv, TypeOK, Entry
<1>2. CASE UNCHANGED <<config, log, stamp>>
  BY <1>1, <1>2 DEF Stamped, Numbered
<1>3. CASE log' = Pushed /\ stamp' = stamp + 1
  <2>1. PICK u : u = Pushed
    OBVIOUS
  <2>2. /\ u[1].id = stamp + 1 /\ u \in Seq(Entry)
        /\ \A i \in DOMAIN u : i = 1 \/ (i - 1 \in DOMAIN log /\ u[i] = log[i - 1])
    BY <2>1, PushedIs DEF IInv
  <2>3. \A i \in DOMAIN u : i \in Nat /\ (i # 1 => i - 1 \in DOMAIN log /\ u[i].id = log[i - 1].id /\ log[i - 1].id \in 1..stamp)
    BY <2>2 DEF Stamped, Numbered
  <2>4. ASSUME NEW j \in DOMAIN u PROVE u[j].id \in 1..(stamp + 1) /\ \A i \in DOMAIN u : u[i].id = u[j].id => i = j
    <3>1. u[j].id \in 1..(stamp + 1)
      BY <1>1, <2>2, <2>3, <2>4
    <3>2. ASSUME NEW i \in DOMAIN u, u[i].id = u[j].id PROVE i = j
      <4>1. CASE i = 1 \/ j = 1
        BY <1>1, <2>2, <2>3, <2>4, <3>2, <4>1
      <4>2. CASE i # 1 /\ j # 1
        <5>1. i - 1 \in DOMAIN log /\ j - 1 \in DOMAIN log /\ log[i - 1].id = log[j - 1].id
          BY <2>3, <2>4, <3>2, <4>2
        <5>2. i - 1 = j - 1
          BY <5>1 DEF Stamped, Numbered
        <5> QED BY <2>3, <2>4, <3>2, <5>2
      <4> QED BY <4>1, <4>2
    <3> QED BY <3>1, <3>2
  <2> QED BY <1>1, <1>3, <2>1, <2>4 DEF Numbered
<1>4. CASE log # <<>> /\ stamp' = stamp /\ (log' = Tail(log) \/ log' = log)
  <2>1. CASE log' = log
    BY <1>1, <1>4, <2>1 DEF Stamped, Numbered
  <2>2. CASE log' = Tail(log)
    <3>1. PICK u : u = Tail(log)
      OBVIOUS
    <3>2. u \in Seq(Entry) /\ \A i \in DOMAIN u : i + 1 \in DOMAIN log /\ u[i] = log[i + 1]
      BY <1>1, <1>4, <3>1, TailIs
    <3>3. ASSUME NEW j \in DOMAIN u PROVE u[j].id \in 1..stamp /\ \A i \in DOMAIN u : u[i].id = u[j].id => i = j
      <4>1. ASSUME NEW i \in DOMAIN u, u[i].id = u[j].id PROVE i = j
        <5>1. i + 1 = j + 1
          BY <3>2, <3>3, <4>1 DEF Stamped, Numbered
        <5> QED BY <3>2, <3>3, <4>1, <5>1
      <4> QED BY <3>2, <3>3, <4>1 DEF Stamped, Numbered
    <3> QED BY <1>1, <1>4, <2>2, <3>1, <3>3 DEF Numbered
  <2> QED BY <1>4, <2>1, <2>2
<1> QED BY <1>2, <1>3, <1>4 DEF LogStep

LEMMA MarksStay ==
  ASSUME IInv, Stamped, LogStep, NEW x, x.txn \in Nat, x.txn <= stamp, Marks(x)
  PROVE  Marks(x)'
<1>1. log \in Seq(Entry) /\ stamp \in Nat /\ DOMAIN log = 1..Len(log) /\ Len(log) \in Nat /\ mishaps \in Nat
  BY DEF IInv, TypeOK, Entry
<1>2. mishaps > 0 => mishaps' > 0
  BY <1>1 DEF LogStep
<1>3. CASE UNCHANGED <<config, log, stamp>>
  BY <1>2, <1>3 DEF Marks, After
<1>4. CASE log' = Pushed /\ stamp' = stamp + 1
  <2>1. PICK u : u = Pushed
    OBVIOUS
  <2>2. /\ u[1].id = stamp + 1 /\ u[1].before = config /\ u \in Seq(Entry)
        /\ \A i \in DOMAIN u : i = 1 \/ (i - 1 \in DOMAIN log /\ u[i] = log[i - 1])
    BY <2>1, PushedIs DEF IInv
  <2>3. ASSUME NEW j \in DOMAIN u, u[j].id = x.txn
        PROVE  j # 1 /\ (Describes(x, u[j - 1].before) \/ (mishaps > 0 /\ u[j - 1].before = u[j].before))
    <3>1. j # 1 /\ j \in Nat /\ j - 1 \in DOMAIN log /\ u[j] = log[j - 1]
      BY <1>1, <2>2, <2>3
    <3>2. Describes(x, After(j - 1)) \/ (mishaps > 0 /\ After(j - 1) = log[j - 1].before)
      BY <2>3, <3>1 DEF Marks
    <3>3. u[j - 1].before = After(j - 1)
      <4>1. CASE j = 2
        BY <2>2, <4>1 DEF After
      <4>2. CASE j # 2
        <5>1. j - 1 # 1 /\ j - 1 \in DOMAIN u /\ (j - 1) - 1 \in DOMAIN log /\ u[j - 1] = log[(j - 1) - 1]
          <6>1. DOMAIN u = 1..Len(u) /\ Len(u) \in Nat /\ j \in 1..Len(u) /\ j # 1 /\ j # 2
            BY <2>2, <2>3, <3>1, <4>2
          <6>2. j - 1 \in DOMAIN u /\ j - 1 # 1
            BY <6>1
          <6> QED BY <2>2, <6>2
        <5> QED BY <5>1 DEF After
      <4> QED BY <4>1, <4>2
    <3> QED BY <3>1, <3>2, <3>3
  <2> QED BY <1>2, <1>4, <2>1, <2>3 DEF Marks, After
<1>5. CASE log # <<>> /\ config' = Head(log).before /\ log' = Tail(log)
  <2>1. PICK u : u = Tail(log)
    OBVIOUS
  <2>2. u \in Seq(Entry) /\ Head(log) = log[1] /\ \A i \in DOMAIN u : i + 1 \in DOMAIN log /\ u[i] = log[i + 1]
    BY <1>1, <1>5, <2>1, TailIs
  <2>3. ASSUME NEW j \in DOMAIN u, u[j].id = x.txn
        PROVE  \/ Describes(x, IF j = 1 THEN log[1].before ELSE u[j - 1].before)
               \/ mishaps > 0 /\ (IF j = 1 THEN log[1].before ELSE u[j - 1].before) = u[j].before
    <3>1. j \in Nat \ {0} /\ j + 1 \in DOMAIN log /\ u[j] = log[j + 1] /\ j + 1 # 1 /\ (j + 1) - 1 = j
      BY <2>2, <2>3
    <3>2. Describes(x, After(j + 1)) \/ (mishaps > 0 /\ After(j + 1) = log[j + 1].before)
      BY <2>3, <3>1 DEF Marks
    <3>3. After(j + 1) = IF j = 1 THEN log[1].before ELSE u[j - 1].before
      <4>1. After(j + 1) = log[j].before
        BY <3>1 DEF After
      <4>2. CASE j = 1
        BY <4>1, <4>2
      <4>3. CASE j # 1
        <5>1. j - 1 \in DOMAIN u /\ u[j - 1] = log[(j - 1) + 1] /\ (j - 1) + 1 = j
          BY <2>2, <2>3, <3>1, <4>3
        <5> QED BY <4>1, <4>3, <5>1
      <4> QED BY <4>2, <4>3
    <3> QED BY <3>1, <3>2, <3>3
  <2> QED BY <1>2, <1>5, <2>1, <2>2, <2>3 DEF Marks, After
<1>6. CASE log # <<>> /\ config' = Head(log).before /\ log' = log /\ mishaps' = mishaps + 1
  <2>1. Head(log) = log[1]
    BY <1>1, <1>6, TailIs
  <2>2. mishaps' > 0
    BY <1>1, <1>6
  <2> QED BY <1>1, <1>6, <2>1, <2>2 DEF Marks, After
<1> QED BY <1>3, <1>4, <1>5, <1>6 DEF LogStep

(* The stored binding changes in three places.                             *)
LEMMA BindingSteps ==
  ASSUME [AnyStep]_vars
  PROVE  \/ binding' = binding
         \/ \E p \in Procs : Unbind(p) /\ binding' = NoBinding
         \/ \E p \in Procs : Save(p) /\ binding' = Saved(p)
         \/ \E p \in Procs : Rebind(p) /\ binding' = task[p].new
<1>1. ASSUME NEW p \in Procs, Step(p) \/ StartConfigure(p) \/ StartRestore(p) \/ StartRenew(p) \/ Begins(p) \/ Crash(p)
      PROVE  \/ binding' = binding
             \/ Unbind(p) /\ binding' = NoBinding
             \/ Save(p) /\ binding' = Saved(p)
             \/ Rebind(p) /\ binding' = task[p].new
  <2>1. CASE Save(p) \/ Rebind(p) \/ Unbind(p)
    BY <2>1 DEF Save, Rebind, Unbind
  <2>2. CASE Ensure(p) \/ Widen(p) \/ Issue(p) \/ Apply(p) \/ Verify(p) \/ Undo(p) \/ RevokeNew(p) \/ RevokePrevious(p)
    BY <2>2 DEF Ensure, Widen, Issue, Apply, Verify, Undo, RevokeNew, RevokePrevious
  <2>3. CASE Lock(p) \/ Recheck(p) \/ Confirm(p) \/ Rollback(p) \/ Drop(p) \/ Retire(p)
    BY <2>3 DEF Lock, Recheck, Confirm, Rollback, Drop, Retire
  <2>4. CASE StartConfigure(p) \/ StartRestore(p) \/ StartRenew(p) \/ Begins(p) \/ Crash(p)
    BY <2>4 DEF StartConfigure, StartRestore, StartRenew, Begins, Crash
  <2> QED BY <1>1, <2>1, <2>2, <2>3, <2>4 DEF Step
<1>2. ASSUME ComeDue \/ Leave \/ Fails \/ UNCHANGED vars PROVE binding' = binding
  BY <1>2 DEF ComeDue, Leave, Fails, Mishap, vars
<1> QED BY <1>1, <1>2 DEF AnyStep, Next

(* Every binding that is stored is of a transaction already numbered.      *)
LEMMA StampedKept ==
  ASSUME IInv, One, Steady, Listed, Stamped, [AnyStep]_vars
  PROVE  Stamped'
<1>1. Numbered' /\ stamp' \in Nat /\ stamp <= stamp' /\ stamp \in Nat /\ log \in Seq(Entry)
  BY LogSteps, NumbersStay DEF IInv, TypeOK, Entry
<1>2. binding # NoBinding =>
        /\ binding.txn \in Nat /\ binding.txn <= stamp' /\ binding.chain \in Seq(Target)
        /\ \A i \in DOMAIN binding.chain : binding.chain[i].txn \in Nat /\ binding.chain[i].txn <= stamp'
  <2>1. ASSUME binding # NoBinding PROVE binding \in Binding /\ binding.chain \in Seq(Target) /\ binding.txn \in Nat
    BY <2>1, BindingFields DEF IInv, TypeOK
  <2>2. ASSUME binding # NoBinding PROVE \A i \in DOMAIN binding.chain : binding.chain[i].txn \in Nat
    BY <2>1, <2>2, TargetFields
  <2> QED BY <1>1, <2>1, <2>2 DEF Stamped
<1>3. CASE binding' \in {binding, NoBinding}
  BY <1>1, <1>2, <1>3 DEF Stamped
<1>4. ASSUME NEW p \in Procs, Save(p), binding' = Saved(p) PROVE Stamped'
  <2> DEFINE t == task[p]
  <2>1. /\ t # NoTask /\ t.at = "save" /\ t.cmd = "configure" /\ t.new \in Binding /\ t.prev = binding
        /\ t.txn = log[1].id /\ log # <<>> /\ (t.prev = NoBinding => t.new.chain = <<>>)
    BY <1>4, Before, MarkersAssumption DEF Save, At, Shape, MustHoldNew, Ties, Rebound, Steadily
  <2>2. t.txn \in 1..stamp
    <3>1. 1 \in DOMAIN log
      BY <1>1, <2>1
    <3> QED BY <2>1, <3>1 DEF Stamped, Numbered
  <2>3. Saved(p).txn = t.txn
    <3>1. t.txn # NoTxn
      BY <1>1, <2>2 DEF NoTxn
    <3>2. Saved(p).txn = IF t.txn = NoTxn THEN t.new.txn ELSE t.txn
      BY <2>1, ChainedIs
    <3> QED BY <3>1, <3>2
  <2>4. \A i \in DOMAIN Saved(p).chain : Saved(p).chain[i].txn <= stamp'
    <3>1. CASE binding = NoBinding
      <4>1. Saved(p).chain = <<>>
        BY <2>1, <3>1, ChainedIs
      <4> QED BY <4>1
    <3>2. CASE binding # NoBinding
      <4>1. /\ Saved(p).chain = <<TargetOf(binding)>> \o binding.chain /\ TargetOf(binding) \in Target
            /\ TargetOf(binding).txn = binding.txn
        BY <2>1, <3>2, ChainedIs, BindingFields DEF TargetOf, IInv, TypeOK
      <4>2. /\ Saved(p).chain[1] = TargetOf(binding)
            /\ \A i \in DOMAIN Saved(p).chain : i = 1 \/ (i - 1 \in DOMAIN binding.chain /\ Saved(p).chain[i] = binding.chain[i - 1])
        BY <1>2, <3>2, <4>1, PushIs
      <4> QED BY <1>2, <3>2, <4>1, <4>2
    <3> QED BY <3>1, <3>2
  <2> QED BY <1>1, <1>4, <2>2, <2>3, <2>4 DEF Stamped
<1>5. ASSUME NEW p \in Procs, Rebind(p), binding' = task[p].new PROVE Stamped'
  <2> DEFINE t == task[p]
  <2>1. t # NoTask /\ t.at = "rebind" /\ t.cmd \in {"restore", "renew"} /\ t.new # NoBinding /\ t.prev = binding /\ binding # NoBinding
    BY <1>5, Before DEF Rebind, At, Shape, MustHoldNew, Ties, Rebound
  <2>2. CASE t.cmd = "renew"
    <3>1. t.new.txn = binding.txn /\ t.new.chain = binding.chain
      BY <2>1, <2>2, Before DEF Steadily
    <3> QED BY <1>1, <1>2, <1>5, <2>1, <3>1 DEF Stamped
  <2>3. CASE t.cmd = "restore"
    <3>1. t.new.txn = binding.chain[1].txn /\ t.new.chain = Tail(binding.chain) /\ binding.chain # <<>>
      BY <2>1, <2>3, Before DEF Steadily, Shape
    <3>2. /\ 1 \in DOMAIN binding.chain
          /\ \A i \in DOMAIN t.new.chain : i + 1 \in DOMAIN binding.chain /\ t.new.chain[i] = binding.chain[i + 1]
      BY <1>2, <2>1, <3>1, TailIs
    <3> QED BY <1>1, <1>2, <1>5, <2>1, <3>1, <3>2 DEF Stamped
  <2> QED BY <2>1, <2>2, <2>3
<1> QED BY <1>3, <1>4, <1>5, BindingSteps

(* What Hub grants a credential changes with widening only.                *)
Granted == \A c \in Creds : hub[c].status # "unborn" => hub'[c].grants = hub[c].grants

LEMMA GrantsStay ==
  ASSUME IInv, [AnyStep]_vars, \A p \in Procs : ~Widen(p)
  PROVE  Granted
<1>1. hub \in Hub
  BY DEF IInv, TypeOK, Hub
<1>2. ASSUME NEW c \in Creds, NEW endpoint, Revoke(c, endpoint) PROVE Granted
  BY <1>1, <1>2 DEF Granted, Revoke, Hub
<1>3. ASSUME NEW p \in Procs, Step(p) \/ StartConfigure(p) \/ StartRestore(p) \/ StartRenew(p) \/ Begins(p) \/ Crash(p)
      PROVE  Granted
  <2>1. CASE Issue(p)
    <3>1. task[p] # NoTask /\ task[p].at = "issue" /\ Unborn # {}
      BY <2>1 DEF Issue, At
    <3>2. NextCred \in Creds /\ hub[NextCred].status = "unborn"
      BY <3>1, BornIs
    <3>3. hub' = hub \/ \E r : hub' = [hub EXCEPT ![NextCred] = r]
      BY <2>1 DEF Issue, Born
    <3> QED BY <1>1, <3>2, <3>3 DEF Granted, Hub
  <2>2. CASE RevokeNew(p) \/ RevokePrevious(p)
    <3>1. /\ task[p] # NoTask /\ task[p].new \in Binding /\ (task[p].prev # NoBinding => task[p].prev \in Binding)
      BY <2>2, Standing DEF RevokeNew, RevokePrevious, At, Shape, MustHoldNew
    <3>2. task[p].new.cred \in Creds /\ (task[p].prev # NoBinding => task[p].prev.cred \in Creds)
      BY <3>1, BindingFields
    <3>3. hub' = hub \/ Revoke(task[p].new.cred, task[p].new.kind)
          \/ (task[p].prev # NoBinding /\ Revoke(task[p].prev.cred, task[p].prev.kind))
      BY <2>2 DEF RevokeNew, RevokePrevious, Replaced
    <3> QED BY <1>2, <3>2, <3>3 DEF Granted
  <2>3. CASE Drop(p)
    <3>1. task[p].new.cred \in Creds /\ Revoke(task[p].new.cred, "runtime")
      BY <2>3, Hands DEF Drop, At, Shape, MustHoldNew
    <3> QED BY <1>2, <3>1
  <2>4. CASE Retire(p)
    <3>1. task[p].prev.cred \in Creds /\ Revoke(task[p].prev.cred, "runtime")
      BY <2>4, Hands DEF Retire, At, Shape
    <3> QED BY <1>2, <3>1
  <2>5. CASE Ensure(p) \/ Apply(p) \/ Verify(p) \/ Save(p) \/ Undo(p) \/ Lock(p) \/ Recheck(p) \/ Confirm(p)
    BY <2>5 DEF Ensure, Apply, Verify, Save, Undo, Lock, Recheck, Confirm, Granted
  <2>6. CASE Rollback(p) \/ Rebind(p) \/ Unbind(p) \/ StartConfigure(p) \/ StartRestore(p) \/ StartRenew(p) \/ Begins(p) \/ Crash(p)
    BY <2>6 DEF Rollback, Rebind, Unbind, StartConfigure, StartRestore, StartRenew, Begins, Crash, Granted
  <2> QED BY <1>3, <2>1, <2>2, <2>3, <2>4, <2>5, <2>6 DEF Step
<1>4. CASE ComeDue \/ Leave \/ Fails \/ UNCHANGED vars
  BY <1>1, <1>4 DEF ComeDue, Leave, Fails, Mishap, vars, Granted, Hub
<1> QED BY <1>3, <1>4 DEF AnyStep, Next

LEMMA BoundStays ==
  ASSUME IInv, Stamped, Bound, LogStep, binding' \in {binding, NoBinding},
         binding # NoBinding => binding.models \subseteq hub'[binding.cred].grants
  PROVE  Bound'
<1>1. CASE binding' = NoBinding
  BY <1>1 DEF Bound
<1>2. CASE binding' = binding /\ binding # NoBinding
  <2>1. PICK b : b = binding
    OBVIOUS
  <2>2. b \in Binding /\ b.chain \in Seq(Target) /\ b.txn \in Nat /\ b.txn <= stamp
    BY <1>2, <2>1, BindingFields DEF IInv, TypeOK, Stamped
  <2>3. \A i \in DOMAIN b.chain : b.chain[i].txn \in Nat /\ b.chain[i].txn <= stamp /\ Marks(b.chain[i])
    BY <1>2, <2>1, <2>2, TargetFields DEF Stamped, Bound
  <2>4. Marks(b)'
    BY <1>2, <2>1, <2>2, MarksStay DEF Bound
  <2>5. ASSUME NEW i \in DOMAIN b.chain PROVE Marks(b.chain[i])'
    BY <2>3, <2>5, MarksStay
  <2> QED BY <1>2, <2>1, <2>4, <2>5 DEF Bound
<1> QED BY <1>1, <1>2

(* What covers the whole of the setting.                                   *)
Setting == IInv /\ Turns /\ One /\ Steady /\ Listed /\ Stamped /\ Covers

LEMMA Stocked ==
  ASSUME Setting, NEW p \in Procs, task[p] # NoTask
  PROVE  /\ Meets(task[p]) /\ Bound
         /\ binding # NoBinding => hub[binding.cred].status # "unborn" /\ binding.cred \in Creds
         /\ task[p].new # NoBinding => hub[task[p].new.cred].status # "unborn" /\ task[p].new.cred \in Creds
<1>1. Meets(task[p]) /\ Bound
  BY DEF Setting, Covers
<1>2. binding # NoBinding => hub[binding.cred].status # "unborn" /\ binding.cred \in Creds
  <2>1. PICK t : Solo(t) /\ Books(t)
    BY DEF Setting, One
  <2> QED BY <2>1, Hands DEF Books, Setting
<1>3. ASSUME task[p].new # NoBinding
      PROVE  hub[task[p].new.cred].status # "unborn" /\ task[p].new.cred \in Creds
  <2>1. ~AtRest(p)
    BY <1>3, AtTheLock DEF Setting, AtRest
  <2> QED BY <1>3, <2>1, Turn, Hands DEF Books, Ties, Setting
<1> QED BY <1>1, <1>2, <1>3

(* A step of p leaves the other commands with what they have.              *)
LEMMA Covered ==
  ASSUME Setting, NEW p \in Procs, task' = [task EXCEPT ![p] = task'[p]],
         Granted \/ (task[p] # NoTask /\ task[p].at # "lock"),
         task'[p] # NoTask => Meets(task[p])', Bound'
  PROVE  Covers'
<1>1. ASSUME NEW q \in Procs \ {p}, task'[q] # NoTask PROVE Meets(task[q])'
  <2>1. task'[q] = task[q] /\ task[q] # NoTask
    BY <1>1, TheOthers DEF Setting
  <2>2. CASE Granted
    BY <2>1, <2>2, Stocked DEF Meets, Granted
  <2>3. CASE task[p] # NoTask /\ task[p].at # "lock"
    <3>1. task[q].at = "lock" /\ task[q].new = NoBinding
      BY <2>1, <2>3, AtWork, AtTheLock DEF Setting, AtRest
    <3> QED BY <2>1, <3>1 DEF Meets
  <2> QED BY <2>2, <2>3
<1> QED BY <1>1 DEF Covers

LEMMA BoundGoesOn ==
  ASSUME Setting, [AnyStep]_vars, \A p \in Procs : ~Widen(p), binding' \in {binding, NoBinding}
  PROVE  Bound' /\ Granted
<1>1. Granted /\ LogStep
  BY GrantsStay, LogSteps DEF Setting
<1>2. binding # NoBinding => hub[binding.cred].status # "unborn" /\ binding.cred \in Creds
  <2>1. PICK t : Solo(t) /\ Books(t)
    BY DEF Setting, One
  <2> QED BY <2>1, BindingFields DEF Books, Setting, IInv, TypeOK
<1>3. binding # NoBinding => binding.models \subseteq hub'[binding.cred].grants
  BY <1>1, <1>2 DEF Granted, Setting, Covers, Bound
<1> QED BY <1>1, <1>3, BoundStays DEF Setting, Covers

(* The command goes on with what it has in its hands.                      *)
LEMMA Meeting ==
  ASSUME Setting, Granted, NEW p \in Procs, task[p] # NoTask,
         task'[p].new = task[p].new, task'[p].want = task[p].want, task'[p].at # "widen",
         task'[p].at \in {"apply", "verify", "save"} => task[p].at \in {"apply", "verify", "save"},
         task'[p].at \in {"confirm", "rollback", "rebind"} => task[p].at \in {"confirm", "rollback", "rebind"}
  PROVE  Meets(task[p])'
  BY Stocked DEF Meets, Granted

LEMMA EnsureCovers ==
  ASSUME Setting, OwnKeys = {}, [AnyStep]_vars, NEW p \in Procs, Ensure(p), \A q \in Procs : ~Widen(q)
  PROVE  Covers'
<1> DEFINE t == task[p]
           w == t.want
           wider == [binding EXCEPT !.model = w.model, !.models = w.models \cup @]
<1>1. /\ t # NoTask /\ t.at = "ensure" /\ t.cmd = "configure" /\ w \in Setup /\ t.new = NoBinding /\ binding = t.prev
  BY Before, Standing DEF Ensure, At, Shape, Ties, Rebound, Setting
<1>2. Survives(binding, w.proto) =>
        /\ wider \in Binding /\ binding # NoBinding /\ wider.cred = binding.cred /\ wider.proto = w.proto
        /\ wider.model = w.model /\ wider.models = w.models \cup binding.models
  BY <1>1 DEF Setting, IInv, TypeOK, Survives, Binding, Setup
<1>3. \/ /\ Survives(binding, w.proto)
         /\ Moves(p, IF w.models \subseteq binding.models THEN "apply" ELSE "widen", wider)
      \/ Moves(p, "issue", t.new)
      \/ End(p)
  BY <1>1, <1>2, Going DEF Ensure, Setting, IInv, TypeOK, Steps
<1>4. task' = [task EXCEPT ![p] = task'[p]] /\ (End(p) => task'[p] = NoTask)
  BY <1>3, Ended DEF Moves, Setting
<1>5. UNCHANGED <<hub, binding>>
  BY DEF Ensure
<1> HIDE DEF wider
<1>6. task'[p] # NoTask => Meets(task[p])'
  <2>1. CASE Survives(binding, w.proto) /\ Moves(p, IF w.models \subseteq binding.models THEN "apply" ELSE "widen", wider)
    BY <1>1, <1>2, <1>5, <2>1, Stocked DEF Meets, Moves, Same, Bound
  <2>2. CASE Moves(p, "issue", t.new)
    BY <2>2 DEF Meets, Moves
  <2> QED BY <1>3, <1>4, <2>1, <2>2, SMTT(30)
<1> QED BY <1>1, <1>4, <1>5, <1>6, BoundGoesOn, Covered, SMTT(30)

LEMMA WidenCovers ==
  ASSUME Setting, [AnyStep]_vars, NEW p \in Procs, Widen(p)
  PROVE  Covers'
<1> DEFINE t == task[p]
<1>1. /\ t # NoTask /\ t.at = "widen" /\ t.cmd = "configure" /\ t.new \in Binding /\ t.new # NoBinding /\ binding = t.prev
  BY Before, MarkersAssumption DEF Widen, At, Shape, MustHoldNew, Ties, Rebound, Setting
<1>2. (\E s \in {"apply", "issue"} : Moves(p, s, t.new) /\ (s = "apply" => hub' = Widened(t.new))) \/ End(p)
  BY <1>1, Going DEF Widen, Steps, Setting
<1>3. task' = [task EXCEPT ![p] = task'[p]] /\ (End(p) => task'[p] = NoTask)
  BY <1>2, Ended DEF Moves, Setting
<1>4. hub' \in {hub, Widened(t.new)} /\ binding' = binding
  BY DEF Widen
<1>5. t.prev # NoBinding /\ t.new.cred = binding.cred /\ binding.models \subseteq t.new.models /\ t.new.cred \in Creds
  BY <1>1, Stocked DEF Meets
<1>6. hub' = Widened(t.new) => hub'[t.new.cred].grants = t.new.models
  BY <1>5 DEF Widened, Setting, IInv, TypeOK
<1>7. Bound'
  <2>1. binding # NoBinding => binding.models \subseteq hub'[binding.cred].grants
    BY <1>1, <1>4, <1>5, <1>6, Stocked, SMTT(30) DEF Bound
  <2> QED BY <1>1, <1>4, <2>1, Stocked, LogSteps, BoundStays DEF Setting
<1>8. task'[p] # NoTask => Meets(task[p])'
  BY <1>1, <1>2, <1>3, <1>6, Stocked DEF Meets, Moves, Same
<1> QED BY <1>1, <1>3, <1>7, <1>8, Covered, SMTT(30)

LEMMA IssueCovers ==
  ASSUME Setting, [AnyStep]_vars, NEW p \in Procs, Issue(p), \A q \in Procs : ~Widen(q)
  PROVE  Covers'
<1> DEFINE t == task[p]
           b == Draft(p, NextCred)
<1>1. t # NoTask /\ t.at = "issue" /\ Unborn # {}
  BY DEF Issue, At
<1>2. /\ b \in Binding /\ b.cred = NextCred /\ SetupOf(b) = t.want /\ b.models = t.want.models /\ NextCred \in Creds
  BY <1>1, DraftIs, BornIs DEF Setting
<1>3. b.proto = t.want.proto /\ b.model = t.want.model
  <2>1. \A y : SetupOf(y).proto = y.proto /\ SetupOf(y).model = y.model
    BY DEF SetupOf
  <2> QED BY <1>2, <2>1
<1> HIDE DEF b
<1>4. \/ Moves(p, IF t.cmd = "configure" THEN "apply" ELSE "confirm", b) /\ hub' = Born(b.kind, b.models)
      \/ End(p)
  BY <1>1, <1>2, Going DEF Issue, Steps, b, Setting
<1>5. task' = [task EXCEPT ![p] = task'[p]] /\ (End(p) => task'[p] = NoTask) /\ binding' = binding
  BY <1>4, Ended DEF Moves, Setting, Issue
<1>6. hub' = Born(b.kind, b.models) => hub'[NextCred].grants = b.models
  BY <1>2 DEF Born, Setting, IInv, TypeOK
<1>7. task'[p] # NoTask => Meets(task[p])'
  BY <1>2, <1>3, <1>4, <1>5, <1>6 DEF Meets, Moves, Same
<1> QED BY <1>1, <1>5, <1>7, BoundGoesOn, Covered

LEMMA ApplyCovers ==
  ASSUME Setting, [AnyStep]_vars, NEW p \in Procs, Apply(p) \/ Verify(p) \/ Undo(p), \A q \in Procs : ~Widen(q)
  PROVE  Covers'
<1> DEFINE t == task[p]
           x == [t EXCEPT !.at = "verify", !.txn = stamp + 1]
<1>1. t # NoTask /\ t.at \in {"apply", "verify", "undo"} /\ (t.at = "undo" => Undo(p)) /\ t \in Task /\ binding' = binding
  BY Standing DEF Apply, Verify, Undo, At, Setting
<1>2. /\ task' = [task EXCEPT ![p] = task'[p]] /\ task'[p].new = t.new /\ task'[p].want = t.want
      /\ task'[p].at \in {"verify", "save", "undo", "discard"}
      /\ task'[p].at \in {"verify", "save"} => t.at \in {"apply", "verify"}
  <2>1. CASE Apply(p)
    <3>1. t.at = "apply"
      BY <2>1 DEF Apply, At
    <3>2. x.at = "verify" /\ x.new = t.new /\ x.want = t.want
      BY <1>1 DEF Task
    <3>3. (\E s \in {"save", "discard"} : Moves(p, s, t.new)) \/ (task' = [task EXCEPT ![p] = x] /\ task'[p] = x)
      BY <1>1, <2>1, Going DEF Apply, Steps, Setting, IInv, TypeOK
    <3> HIDE DEF x
    <3> QED BY <3>1, <3>2, <3>3 DEF Moves, Same
  <2>2. CASE Verify(p)
    <3>1. t.at = "verify" /\ \E s \in {"save", "undo"} : Moves(p, s, t.new)
      BY <1>1, <2>2, Going DEF Verify, At, Steps, Setting
    <3> QED BY <3>1 DEF Moves, Same
  <2>3. CASE Undo(p)
    <3>1. Moves(p, "discard", t.new)
      BY <1>1, <2>3, Going DEF Undo, Steps, Setting
    <3> QED BY <3>1 DEF Moves, Same
  <2> QED BY <2>1, <2>2, <2>3
<1>3. Bound' /\ Granted
  BY <1>1, BoundGoesOn
<1>4. Meets(task[p])'
  BY <1>1, <1>2, <1>3, Meeting
<1> QED BY <1>1, <1>2, <1>3, <1>4, Covered

LEMMA EndCovers ==
  ASSUME Setting, [AnyStep]_vars, NEW p \in Procs, RevokeNew(p) \/ RevokePrevious(p) \/ Unbind(p) \/ Crash(p),
         \A q \in Procs : ~Widen(q)
  PROVE  Covers'
<1>1. task[p] # NoTask /\ binding' \in {binding, NoBinding} /\ (End(p) \/ task' = [task EXCEPT ![p] = NoTask])
  BY DEF RevokeNew, RevokePrevious, Unbind, Crash, At
<1>2. task' = [task EXCEPT ![p] = task'[p]] /\ task'[p] = NoTask
  BY <1>1, Ended DEF Setting, IInv, TypeOK
<1>3. Bound' /\ Granted
  BY <1>1, BoundGoesOn
<1> QED BY <1>2, <1>3, Covered

LEMMA LaterCovers ==
  ASSUME Setting, [AnyStep]_vars, NEW p \in Procs,
         Lock(p) \/ Recheck(p) \/ Confirm(p) \/ Rollback(p) \/ Drop(p) \/ Retire(p), \A q \in Procs : ~Widen(q)
  PROVE  Covers'
<1> DEFINE t == task[p]
           x == [t EXCEPT !.at = "issue", !.prev = binding, !.want = SetupOf(binding)]
<1>1. /\ t # NoTask /\ t \in Task /\ binding' = binding
      /\ t.at \in {"lock", "recheck", "confirm", "rollback", "drop", "retire"}
  BY Standing DEF Lock, Recheck, Confirm, Rollback, Drop, Retire, At, Setting
<1>2. \/ \E s \in {"recheck", "drop", "retire", "unbind"} : Moves(p, s, t.new)
      \/ \E s \in {"rollback", "rebind"} : Moves(p, s, t.new) /\ t.at \in {"confirm", "rollback"}
      \/ task' = [task EXCEPT ![p] = x]
      \/ End(p)
  BY <1>1, Going DEF Lock, Recheck, Confirm, Rollback, Drop, Retire, At, Steps, Setting
<1>3. x.at = "issue"
  BY <1>1 DEF Task
<1>4. task' = [task EXCEPT ![p] = task'[p]] /\ (End(p) => task'[p] = NoTask) /\ (task' = [task EXCEPT ![p] = x] => task'[p] = x)
  <2> HIDE DEF x
  <2> QED BY <1>2, Ended DEF Moves, Setting, IInv, TypeOK
<1> HIDE DEF x
<1>5. Bound' /\ Granted
  BY <1>1, BoundGoesOn
<1>6. task'[p] # NoTask => Meets(task[p])'
  <2>1. CASE \E s \in {"recheck", "drop", "retire", "unbind"} : Moves(p, s, t.new)
    BY <2>1 DEF Meets, Moves
  <2>2. CASE \E s \in {"rollback", "rebind"} : Moves(p, s, t.new) /\ t.at \in {"confirm", "rollback"}
    BY <1>1, <1>5, <2>2, Meeting DEF Moves, Same
  <2>3. CASE task' = [task EXCEPT ![p] = x]
    BY <1>3, <1>4, <2>3 DEF Meets
  <2> QED BY <1>2, <1>4, <2>1, <2>2, <2>3
<1> QED BY <1>1, <1>4, <1>5, <1>6, Covered

(* A binding is described by what it offers and its transaction.           *)
LEMMA MarksAlike ==
  ASSUME NEW x, NEW y, x.txn = y.txn, SetupOf(x) = SetupOf(y), Marks(x)
  PROVE  Marks(y)
<1>1. x.proto = y.proto /\ x.model = y.model /\ x.models = y.models
  <2>1. \A z : SetupOf(z).proto = z.proto /\ SetupOf(z).model = z.model /\ SetupOf(z).models = z.models
    BY DEF SetupOf
  <2> QED BY <2>1
<1> QED BY <1>1 DEF Marks, Describes

LEMMA SaveCovers ==
  ASSUME Setting, [AnyStep]_vars, NEW p \in Procs, Save(p), \A q \in Procs : ~Widen(q)
  PROVE  Covers'
<1> DEFINE t == task[p]
<1>1. /\ t # NoTask /\ t.at = "save" /\ t.cmd = "configure" /\ t.new \in Binding /\ t.new # NoBinding /\ binding = t.prev
      /\ t.txn = log[1].id /\ log # <<>> /\ config = t.want /\ t.want \in Setup /\ (t.prev = NoBinding => t.new.chain = <<>>)
  BY Before, MarkersAssumption DEF Save, At, Shape, MustHoldNew, Ties, Rebound, Steadily, Setting
<1>2. \/ binding' = Saved(p) /\ Moves(p, "release", t.new)
      \/ binding' = binding /\ Moves(p, "undo", t.new)
  BY <1>1, Going DEF Save, Steps, Setting
<1>3. task' = [task EXCEPT ![p] = task'[p]] /\ Meets(task[p])'
  BY <1>2 DEF Moves, Meets
<1>4. CASE binding' = binding
  BY <1>1, <1>3, <1>4, BoundGoesOn, Covered
<1>5. CASE binding' = Saved(p)
  <2>1. UNCHANGED <<hub, config, log>> /\ LogStep
    BY LogSteps DEF Save, Setting
  <2>2. /\ Saved(p) \in Binding /\ Saved(p).cred = t.new.cred /\ SetupOf(Saved(p)) = SetupOf(t.new)
        /\ Saved(p).txn = (IF t.txn = NoTxn THEN t.new.txn ELSE t.txn) /\ Saved(p).chain = Chained(p)
        /\ t.prev = NoBinding => Chained(p) = t.new.chain
        /\ t.prev # NoBinding => Chained(p) = <<TargetOf(t.prev)>> \o t.prev.chain
    BY <1>1, ChainedIs DEF Setting
  <2>3. PICK b \in Binding : b = Saved(p)
    BY <2>2
  <2>4. b.proto = t.new.proto /\ b.model = t.new.model /\ b.models = t.new.models
    <3>1. \A y : SetupOf(y).proto = y.proto /\ SetupOf(y).model = y.model /\ SetupOf(y).models = y.models
      BY DEF SetupOf
    <3> QED BY <2>2, <2>3, <3>1
  <2>5. log \in Seq(Entry) /\ 1 \in DOMAIN log /\ log[1].id # NoTxn /\ mishaps \in Nat
    <3>1. log \in Seq(Entry) /\ mishaps \in Nat
      BY DEF Setting, IInv, TypeOK, Entry
    <3>2. 1 \in DOMAIN log /\ log[1] \in Entry
      BY <1>1, <3>1
    <3> QED BY <3>1, <3>2 DEF Entry, NoTxn
  <2>6. Describes(b, config)
    <3>1. t.new.proto = t.want.proto /\ t.new.model = t.want.model /\ t.want.models \subseteq t.new.models
      BY <1>1, Stocked DEF Meets
    <3> QED BY <1>1, <2>4, <3>1, MarkersAssumption DEF Describes
  <2>7. Marks(b)
    <3>1. b.txn = log[1].id
      BY <1>1, <2>2, <2>3, <2>5
    <3>2. \A j \in DOMAIN log : log[j].id = b.txn => j = 1
      BY <2>5, <3>1 DEF Setting, Stamped, Numbered
    <3> QED BY <2>6, <3>2 DEF Marks, After
  <2>8. ASSUME NEW i \in DOMAIN b.chain PROVE Marks(b.chain[i])
    <3>1. CASE t.prev = NoBinding
      <4>1. b.chain = <<>>
        BY <1>1, <2>2, <2>3, <3>1
      <4> QED BY <2>8, <4>1
    <3>2. CASE t.prev # NoBinding
      <4>1. b.chain = <<TargetOf(binding)>> \o binding.chain /\ binding \in Binding
        BY <1>1, <2>2, <2>3, <3>2 DEF Setting, IInv, TypeOK
      <4>2. TargetOf(binding) \in Target /\ binding.chain \in Seq(Target)
        BY <4>1, BindingFields
      <4>3. /\ b.chain[1] = TargetOf(binding)
            /\ i = 1 \/ (i - 1 \in DOMAIN binding.chain /\ b.chain[i] = binding.chain[i - 1])
        BY <2>8, <4>1, <4>2, PushIs
      <4>4. Marks(binding) /\ \A k \in DOMAIN binding.chain : Marks(binding.chain[k])
        BY <1>1, <3>2, Stocked DEF Bound
      <4>5. Marks(TargetOf(binding))
        <5>1. TargetOf(binding).txn = binding.txn /\ SetupOf(TargetOf(binding)) = SetupOf(binding)
          BY DEF TargetOf, SetupOf
        <5> QED BY <4>4, <5>1, MarksAlike
      <4> QED BY <4>3, <4>4, <4>5
    <3> QED BY <3>1, <3>2
  <2>9. b.models \subseteq hub'[b.cred].grants
    BY <1>1, <2>1, <2>2, <2>3, <2>4, Stocked DEF Meets
  <2>10. \A y : Marks(y) => Marks(y)'
    BY <2>1, <2>5 DEF Marks, After, LogStep
  <2>11. Bound'
    BY <1>5, <2>3, <2>7, <2>8, <2>9, <2>10 DEF Bound
  <2> QED BY <1>1, <1>3, <2>11, Covered
<1> QED BY <1>2, <1>4, <1>5

LEMMA RebindCovers ==
  ASSUME Setting, [AnyStep]_vars, NEW p \in Procs, Rebind(p), \A q \in Procs : ~Widen(q)
  PROVE  Covers'
<1> DEFINE t == task[p]
           x == [t EXCEPT !.at = "drop", !.unsaved = (t.cmd = "restore")]
<1>1. /\ t # NoTask /\ t \in Task /\ t.at = "rebind" /\ t.cmd \in {"restore", "renew"} /\ t.new \in Binding /\ t.new # NoBinding
      /\ binding = t.prev /\ binding \in Binding /\ binding # NoBinding /\ (t.cmd = "restore" => binding.chain # <<>>)
  BY Before, Standing, MarkersAssumption DEF Rebind, At, Shape, MustHoldNew, Ties, Rebound, Setting
<1>2. Moves(p, "retire", t.new) \/ (task' = [task EXCEPT ![p] = x] /\ x.at = "drop")
  <2>1. x.at = "drop"
    BY <1>1 DEF Task
  <2>2. Goto(p, "retire") \/ task' = [task EXCEPT ![p] = x]
    BY DEF Rebind
  <2> HIDE DEF x
  <2> QED BY <1>1, <2>1, <2>2, Going DEF Steps, Setting
<1>3. task' = [task EXCEPT ![p] = task'[p]] /\ Meets(task[p])'
  <2> HIDE DEF x
  <2>1. task'[p].at \in {"retire", "drop"} /\ task' = [task EXCEPT ![p] = task'[p]]
    BY <1>2 DEF Moves, Setting, IInv, TypeOK
  <2> QED BY <2>1 DEF Meets
<1>4. CASE binding' = binding
  BY <1>1, <1>3, <1>4, BoundGoesOn, Covered
<1>5. CASE binding' = t.new
  <2>1. UNCHANGED <<hub, config, log>> /\ LogStep /\ mishaps \in Nat
    BY LogSteps DEF Rebind, Setting, IInv, TypeOK
  <2>2. PICK b \in Binding : b = t.new
    BY <1>1
  <2>3. binding.chain \in Seq(Target) /\ Marks(binding) /\ \A i \in DOMAIN binding.chain : Marks(binding.chain[i])
    BY <1>1, Stocked, BindingFields DEF Bound
  <2>4. Marks(b) /\ \A i \in DOMAIN b.chain : Marks(b.chain[i])
    <3>1. CASE t.cmd = "renew"
      <4>1. SetupOf(b) = SetupOf(binding) /\ b.txn = binding.txn /\ b.chain = binding.chain
        BY <1>1, <2>2, <3>1, Before DEF Steadily, Setting
      <4> QED BY <2>3, <4>1, MarksAlike
    <3>2. CASE t.cmd = "restore"
      <4>1. SetupOf(b) = SetupOf(binding.chain[1]) /\ b.txn = binding.chain[1].txn /\ b.chain = Tail(binding.chain)
        BY <1>1, <2>2, <3>2, Before DEF Steadily, Setting
      <4>2. 1 \in DOMAIN binding.chain /\ \A i \in DOMAIN b.chain : i + 1 \in DOMAIN binding.chain /\ b.chain[i] = binding.chain[i + 1]
        BY <1>1, <2>3, <3>2, <4>1, TailIs
      <4> QED BY <2>3, <4>1, <4>2, MarksAlike
    <3> QED BY <1>1, <3>1, <3>2
  <2>5. b.models \subseteq hub'[b.cred].grants
    BY <1>1, <2>1, <2>2, Stocked DEF Meets
  <2>6. \A y : Marks(y) => Marks(y)'
    BY <2>1 DEF Marks, After, LogStep
  <2>7. Bound'
    BY <1>5, <2>2, <2>4, <2>5, <2>6 DEF Bound
  <2> QED BY <1>1, <1>3, <2>7, Covered
<1> QED BY <1>4, <1>5 DEF Rebind

LEMMA OtherCovers ==
  ASSUME Setting, [AnyStep]_vars, \A q \in Procs : ~Widen(q),
         \/ \E p \in Procs : StartConfigure(p) \/ StartRestore(p) \/ StartRenew(p) \/ Begins(p)
         \/ ComeDue \/ Leave \/ Fails \/ UNCHANGED vars
  PROVE  Covers'
<1>1. ASSUME NEW p \in Procs, StartConfigure(p) \/ StartRestore(p) \/ StartRenew(p) \/ Begins(p) PROVE Covers'
  <2>1. Opens(p, task'[p]) /\ binding' = binding
    BY <1>1, StartConfigureShapes, StartRestoreShapes, StartRenewShapes DEF StartConfigure, StartRestore, StartRenew, Begins, Setting
  <2>2. Bound' /\ Granted
    BY <2>1, BoundGoesOn
  <2>3. task' = [task EXCEPT ![p] = task'[p]] /\ Meets(task[p])'
    BY <2>1 DEF Opens, Meets
  <2> QED BY <2>2, <2>3, Covered
<1>2. ASSUME ComeDue \/ Leave \/ Fails \/ UNCHANGED vars PROVE Covers'
  <2>1. task' = task /\ binding' = binding
    BY <1>2 DEF ComeDue, Leave, Fails, Mishap, vars
  <2>2. Bound' /\ Granted
    BY <2>1, BoundGoesOn
  <2>3. ASSUME NEW p \in Procs, task'[p] # NoTask PROVE Meets(task[p])'
    BY <2>1, <2>2, <2>3, Stocked DEF Meets, Granted
  <2> QED BY <2>2, <2>3 DEF Covers
<1> QED BY <1>1, <1>2

LEMMA CoversKept ==
  ASSUME Setting, OwnKeys = {}, [AnyStep]_vars
  PROVE  Covers'
<1>1. CASE \E p \in Procs : Widen(p)
  BY <1>1, WidenCovers
<1>2. CASE \A p \in Procs : ~Widen(p)
  <2>1. ASSUME NEW p \in Procs, Step(p) \/ Crash(p) PROVE Covers'
    BY <1>2, <2>1, EnsureCovers, IssueCovers, ApplyCovers, EndCovers, LaterCovers, SaveCovers, RebindCovers DEF Step
  <2> QED BY <1>2, <2>1, OtherCovers DEF AnyStep, Next
<1> QED BY <1>1, <1>2

LEMMA SettingInit == Init => Stamped /\ Covers
  BY DEF Init, Stamped, Numbered, Covers, Bound

LEMMA SettingKept ==
  Setting /\ Overlap \subseteq {"renew"} /\ OwnKeys = {} /\ "reselect" \notin Situations /\ [AnyStep]_vars => Setting'
  BY IInvKept, TurnsKept, OneKept, OrderKept, StampedKept, CoversKept DEF Setting

(* What configureAgent configures, the binding describes and Hub grants    *)
(* its credential, after any failures and deaths too; one command at a     *)
(* time but for renewals, none asking for what is configured, no keys of   *)
(* the user's own.                                                         *)
THEOREM GrantsCover ==
  Overlap \subseteq {"renew"} /\ OwnKeys = {} /\ "reselect" \notin Situations => (Spec => []CredentialCoversConfig)
<1> SUFFICES ASSUME Overlap \subseteq {"renew"}, OwnKeys = {}, "reselect" \notin Situations PROVE Spec => []CredentialCoversConfig
  OBVIOUS
<1>1. Init => Setting
  BY Initially, TurnsInit, OneInit, OrderInit, SettingInit DEF Setting
<1>2. Setting => CredentialCoversConfig
  <2> SUFFICES ASSUME Setting, binding # NoBinding, log # <<>>, binding.txn = Head(log).id
               PROVE  (Describes(binding, config) \/ config = Head(log).before) /\ binding.models \subseteq hub[binding.cred].grants
    BY DEF CredentialCoversConfig
  <2>1. 1 \in DOMAIN log /\ Head(log) = log[1]
    BY TailIs DEF Setting, IInv, TypeOK, Entry
  <2> QED BY <2>1 DEF Setting, Covers, Bound, Marks, After
<1> QED BY <1>1, <1>2, SettingKept, StepsAre, PTL DEF Spec

(* What the books, the log and the chain come to between commands.         *)
LEMMA Described == Setting => BindingDescribesConfig
<1> SUFFICES ASSUME Setting, Quiet, mishaps = 0
             PROVE  IF binding = NoBinding THEN config = Original ELSE Describes(binding, config)
  BY DEF BindingDescribesConfig
<1>1. Lists(log, binding, 0) /\ log \in Seq(Entry) /\ binding \in Binding \cup {NoBinding}
  BY DEF Setting, Listed, Resting, AtRest, Quiet, IInv, TypeOK, Entry
<1>2. CASE binding = NoBinding
  <2>1. log = <<>>
    BY <1>1, <1>2 DEF Lists
  <2> QED BY <1>2, <2>1 DEF Setting, IInv, Grounded
<1>3. CASE binding # NoBinding
  <2>1. binding.chain \in Seq(Target)
    BY <1>1, <1>3, BindingFields
  <2>2. Len(log) = 0 + 1 + Len(binding.chain) /\ log[0 + 1].id = binding.txn
    BY <1>1, <1>3 DEF Lists
  <2>3. 1 \in DOMAIN log /\ log[1].id = binding.txn
    BY <1>1, <2>1, <2>2
  <2> QED BY <1>3, <2>3 DEF Setting, Covers, Bound, Marks, After
<1> QED BY <1>2, <1>3

(* As long as no call fails the agent is not connected at all, or          *)
(* configured for what the stored binding describes: after any number of   *)
(* runs of configureAgent and executeRestore, in the setting of            *)
(* GrantsCover.                                                            *)
THEOREM BindingIsConfig ==
  Overlap \subseteq {"renew"} /\ OwnKeys = {} /\ "reselect" \notin Situations => (Spec => []BindingDescribesConfig)
<1> SUFFICES ASSUME Overlap \subseteq {"renew"}, OwnKeys = {}, "reselect" \notin Situations PROVE Spec => []BindingDescribesConfig
  OBVIOUS
<1>1. Init => Setting
  BY Initially, TurnsInit, OneInit, OrderInit, SettingInit DEF Setting
<1> QED BY <1>1, Described, SettingKept, StepsAre, PTL DEF Spec

=============================================================================
