--------------------------- MODULE GatewayProofs ---------------------------
(***************************************************************************)
(* What holds of apexnova run --gateway for any requests, processes,       *)
(* models, bounds and failures, and whether or not the agent may exit      *)
(* during a renewal.  A step of the run is a step of the connection or     *)
(* leaves it alone (GatewaySteps), so the invariants of ConnectionProofs   *)
(* hold of it too; on top of them:                                         *)
(*   Strands   what the command, the renewal and the requests are about in *)
(*             each phase;                                                 *)
(*   Carried   a credential in a command's hands is not revoked, and what  *)
(*             a renewal replaces is due;                                  *)
(*   Charged   while the agent runs, its binding stands, and the gateway   *)
(*             holds its credential or one that is due;                    *)
(*   Traced    what the run found is on top of the log, or in place.       *)
(***************************************************************************)
EXTENDS GatewayRun, ConnectionProofs

Strands ==
  /\ \A p \in Procs \ {Main} : task[p] # NoTask => task[p].cmd = "renew"
  /\ phase = "configuring" => task[Main] # NoTask /\ task[Main].cmd = "configure" /\ task[Main].mode = "runtime"
  /\ phase \in {"running", "ended"} => task[Main] = NoTask
  /\ phase = "closing" /\ task[Main] # NoTask => task[Main].cmd = "restore"
  /\ phase # "running" => \A r \in Requests : request[r] = Idle

-----------------------------------------------------------------------------
(* A step of the run is one of the connection.                             *)
LEMMA TheStrands == Main \in Procs /\ Renewer \in Procs /\ Main # Renewer
  BY StrandsAssumption

LEMMA GatewaySteps ==
  ASSUME Strands, [GatewayNext]_allVars
  PROVE  [AnyStep]_vars
<1>1. CASE StartRun \/ Configuring \/ Releasing \/ Renewing
  BY <1>1, TheStrands DEF StartRun, Configuring, Releasing, Renewing, AnyStep, Next
<1>2. CASE AgentExits \/ CoolDown \/ UNCHANGED allVars
  BY <1>2 DEF AgentExits, CoolDown, allVars
<1>3. CASE Release
  BY <1>3, TheStrands DEF Release, AnyStep, Next
<1>4. ASSUME NEW r \in Requests, Ask(r) PROVE [AnyStep]_vars
  <2>1. ~UNCHANGED vars => Begins(Renewer)
    <3> SUFFICES ASSUME ~UNCHANGED vars PROVE Begins(Renewer)
      OBVIOUS
    <3>1. /\ task[Renewer] = NoTask /\ task' = [task EXCEPT ![Renewer] = Renewal]
          /\ UNCHANGED <<hub, catalog, due, binding, config, log, damaged, lock, counters, excused>>
      BY <1>4 DEF Ask, Renewal
    <3>2. \A q \in Procs : task[q] # NoTask => task[q].cmd = "renew"
      BY <1>4 DEF Ask, Strands
    <3> QED BY <3>1, <3>2 DEF Begins
  <2> QED BY <2>1, TheStrands DEF AnyStep
<1>5. ASSUME NEW r \in Requests, Answer(r) PROVE [AnyStep]_vars
  BY <1>5 DEF Answer
<1>6. CASE Dies
  BY <1>6, TheStrands DEF Dies, Fails, AnyStep, Next
<1>7. CASE Others
  BY <1>7, TheStrands DEF Others, AnyStep, Next
<1> QED BY <1>1, <1>2, <1>3, <1>4, <1>5, <1>6, <1>7 DEF GatewayNext

(* A process that steps, begins or dies keeps its command or gives it up.  *)
LEMMA KeepsCommand ==
  ASSUME IInv, NEW p \in Procs, Step(p) \/ Crash(p)
  PROVE  /\ task[p] # NoTask /\ (task'[p] # NoTask => GoesOn(p))
         /\ \A q \in Procs \ {p} : task'[q] = task[q]
<1>1. CASE Step(p)
  BY <1>1, StepTurns, TheOthers DEF Turning, GoesOn
<1>2. CASE Crash(p)
  BY <1>2 DEF Crash, IInv, TypeOK
<1> QED BY <1>1, <1>2

LEMMA BeginsAs ==
  ASSUME IInv, NEW p \in Procs
  PROVE  /\ StartConfigure(p) => task'[p] # NoTask /\ task'[p].cmd = "configure"
         /\ StartRestore(p) => task'[p] # NoTask /\ task'[p].cmd = "restore"
         /\ StartRenew(p) \/ Begins(p) => task'[p] # NoTask /\ task'[p].cmd = "renew"
         /\ StartConfigure(p) \/ StartRestore(p) \/ StartRenew(p) \/ Begins(p) =>
              task[p] = NoTask /\ \A q \in Procs \ {p} : task'[q] = task[q]
<1>1. ASSUME StartConfigure(p) PROVE task'[p].cmd = "configure"
  <2>1. PICK mode, want : task' = [task EXCEPT ![p] =
          [cmd |-> "configure", at |-> "ensure", mode |-> mode, want |-> want,
           prev |-> binding, new |-> NoBinding, txn |-> NoTxn, unsaved |-> FALSE]]
    BY <1>1 DEF StartConfigure
  <2> QED BY <2>1 DEF IInv, TypeOK
<1>2. StartRestore(p) => task'[p].cmd = "restore"
  BY DEF StartRestore, IInv, TypeOK
<1>3. StartRenew(p) \/ Begins(p) => task'[p].cmd = "renew"
  BY DEF StartRenew, Begins, Renewal, IInv, TypeOK
<1>4. ASSUME StartConfigure(p) \/ StartRestore(p) \/ StartRenew(p) \/ Begins(p)
      PROVE  task'[p] # NoTask /\ task[p] = NoTask /\ \A q \in Procs \ {p} : task'[q] = task[q]
  <2>1. Opens(p, task'[p]) /\ task[p] = NoTask
    BY <1>4, StartConfigureShapes, StartRestoreShapes, StartRenewShapes
       DEF StartConfigure, StartRestore, StartRenew, Begins, MayStart
  <2> QED BY <2>1, TheOthers, MarkersAssumption DEF Opens
<1> QED BY <1>1, <1>2, <1>3, <1>4

LEMMA StrandsKept == IInv /\ GatewayTypeOK /\ Strands /\ [GatewayNext]_allVars => Strands'
<1> SUFFICES ASSUME IInv, GatewayTypeOK, Strands, [GatewayNext]_allVars PROVE Strands'
  OBVIOUS
<1> USE TheStrands
<1>1. CASE StartRun
  <2>1. task'[Main] # NoTask /\ task'[Main].cmd = "configure" /\ task'[Main].mode = "runtime"
    BY <1>1, BeginsAs DEF StartRun
  <2> QED BY <1>1, <2>1, BeginsAs DEF StartRun, Strands
<1>2. CASE Configuring
  <2>1. task'[Main] # NoTask => GoesOn(Main)
    BY <1>2, KeepsCommand DEF Configuring
  <2>2. \A q \in Procs \ {Main} : task'[q] = task[q]
    BY <1>2, KeepsCommand DEF Configuring
  <2>3. CASE task'[Main] = NoTask
    BY <1>2, <2>2, <2>3 DEF Configuring, Strands
  <2>4. CASE task'[Main] # NoTask
    BY <1>2, <2>1, <2>2, <2>4 DEF Configuring, Strands, GoesOn
  <2> QED BY <2>3, <2>4
<1>3. CASE Releasing
  <2>1. task'[Main] # NoTask => GoesOn(Main)
    BY <1>3, KeepsCommand DEF Releasing
  <2>2. \A q \in Procs \ {Main} : task'[q] = task[q]
    BY <1>3, KeepsCommand DEF Releasing
  <2>3. phase' = (IF task'[Main] = NoTask THEN "ended" ELSE "closing") /\ UNCHANGED request /\ phase = "closing"
        /\ task[Main] # NoTask
    BY <1>3, KeepsCommand DEF Releasing
  <2> QED BY <2>1, <2>2, <2>3 DEF Strands, GoesOn
<1>4. CASE AgentExits
  <2>1. UNCHANGED task
    BY <1>4 DEF AgentExits, vars
  <2> QED BY <1>4, <2>1 DEF AgentExits, Strands
<1>5. CASE Release
  <2>1. StartRestore(Main) => task'[Main].cmd = "restore" /\ \A q \in Procs \ {Main} : task'[q] = task[q]
    BY BeginsAs
  <2>2. phase = "closing" /\ task[Main] = NoTask /\ UNCHANGED request
        /\ ((StartRestore(Main) /\ phase' = phase) \/ (UNCHANGED task /\ phase' = "ended"))
    BY <1>5 DEF Release, vars
  <2> QED BY <2>1, <2>2 DEF Strands
<1>6. CASE Renewing
  <2>1. /\ task'[Renewer] # NoTask => GoesOn(Renewer)
        /\ \A q \in Procs \ {Renewer} : task'[q] = task[q]
        /\ task[Renewer] # NoTask
    BY <1>6, KeepsCommand DEF Renewing
  <2>2. \A p \in Procs \ {Main} : task'[p] # NoTask => task'[p].cmd = "renew"
    BY <2>1 DEF Strands, GoesOn
  <2>3. phase # "running" => \A r \in Requests : request'[r] = Idle
    <3> SUFFICES ASSUME phase # "running", NEW r \in Requests PROVE request'[r] = Idle
      OBVIOUS
    <3>1. request[r] = Idle /\ Idle # Waiting
      BY DEF Strands, Idle, Waiting
    <3> QED BY <1>6, <3>1 DEF Renewing, Served
  <2> QED BY <1>6, <2>1, <2>2, <2>3 DEF Renewing, Strands
<1>7. ASSUME NEW r \in Requests, Ask(r) PROVE Strands'
  <2>1. phase = "running" /\ UNCHANGED phase
    BY <1>7 DEF Ask
  <2>2. UNCHANGED task \/ task' = [task EXCEPT ![Renewer] = Renewal]
    BY <1>7 DEF Ask, Renewal, vars
  <2>3. \A p \in Procs : task'[p] = task[p] \/ (p # Main /\ task'[p].cmd = "renew")
    BY <2>2 DEF IInv, TypeOK, Renewal
  <2> QED BY <2>1, <2>3 DEF Strands
<1>8. ASSUME NEW r \in Requests, Answer(r) PROVE Strands'
  <2>1. UNCHANGED task /\ UNCHANGED phase /\ (\A q \in Requests : request[q] = Idle => request'[q] = Idle)
    <3>1. request' = [request EXCEPT ![r] = Idle] /\ UNCHANGED <<task, phase>>
      BY <1>8 DEF Answer, vars
    <3> QED BY <3>1 DEF GatewayTypeOK
  <2> QED BY <2>1 DEF Strands
<1>9. CASE CoolDown \/ UNCHANGED allVars
  <2>1. UNCHANGED <<task, phase, request>>
    BY <1>9 DEF CoolDown, allVars, vars, runVars
  <2> QED BY <2>1 DEF Strands
<1>10. CASE Dies
  <2>1. phase' = "ended" /\ \A r \in Requests : request'[r] = Idle
    BY <1>10 DEF Dies
  <2>2. task'[Main] = NoTask /\ \A q \in Procs : task'[q] \in {task[q], NoTask}
    <3>1. CASE Crash(Main) \/ (task[Main] = NoTask /\ Crash(Renewer))
      BY <3>1 DEF Crash, IInv, TypeOK
    <3>2. CASE task[Main] = NoTask /\ UNCHANGED task
      BY <3>2
    <3> QED BY <1>10, <3>1, <3>2 DEF Dies
  <2> QED BY <2>1, <2>2 DEF Strands
<1>11. CASE Others
  <2>1. CASE ~InRun /\ (Step(Main) \/ StartConfigure(Main) \/ StartRestore(Main) \/ Crash(Main)) /\ phase' = "idle"
    <3>1. \A q \in Procs \ {Main} : task'[q] = task[q]
      BY <2>1, KeepsCommand, BeginsAs
    <3>2. phase # "running" /\ UNCHANGED request
      BY <1>11, <2>1 DEF InRun, Others
    <3> QED BY <2>1, <3>1, <3>2 DEF Strands
  <2>2. ASSUME NEW p \in Procs \ {Main, Renewer}, Step(p) \/ StartRenew(p) \/ Crash(p), UNCHANGED phase
        PROVE  Strands'
    <3>1. \A q \in Procs \ {p} : task'[q] = task[q]
      BY <2>2, KeepsCommand, BeginsAs
    <3>2. task'[p] # NoTask => task'[p].cmd = "renew"
      BY <2>2, KeepsCommand, BeginsAs DEF GoesOn, Strands
    <3>3. UNCHANGED request
      BY <1>11 DEF Others
    <3> QED BY <2>2, <3>1, <3>2, <3>3 DEF Strands
  <2>3. CASE (ComeDue \/ Leave) /\ UNCHANGED phase
    BY <1>11, <2>3 DEF Others, ComeDue, Leave, Strands
  <2> QED BY <1>11, <2>1, <2>2, <2>3 DEF Others
<1> QED BY <1>1, <1>2, <1>3, <1>4, <1>5, <1>6, <1>7, <1>8, <1>9, <1>10, <1>11 DEF GatewayNext

LEMMA StrandsInit == GatewayInit => Strands
  BY TheStrands DEF GatewayInit, Init, Strands

-----------------------------------------------------------------------------
(* Types: what the gateway holds is a credential whenever it serves.       *)
LEMMA CredsOf ==
  ASSUME IInv
  PROVE  /\ binding # NoBinding => binding.cred \in Creds
         /\ \A p \in Procs : task[p] # NoTask /\ (task[p].at = "release" \/ (task[p].at = "retire" /\ task[p].cmd = "renew")) =>
              task[p].new # NoBinding /\ task[p].new.cred \in Creds
<1>1. binding # NoBinding => binding.cred \in Creds
  BY BindingFields DEF IInv, TypeOK
<1>2. ASSUME NEW p \in Procs, task[p] # NoTask, task[p].at = "release" \/ (task[p].at = "retire" /\ task[p].cmd = "renew")
      PROVE  task[p].new # NoBinding /\ task[p].new.cred \in Creds
  <2>1. task[p].new # NoBinding /\ task[p].new \in Binding
    BY <1>2, Standing DEF Shape, MustHoldNew
  <2> QED BY <2>1, BindingFields
<1> QED BY <1>1, <1>2

LEMMA GatewayTypeKept ==
  IInv /\ IInv' /\ Strands /\ GatewayTypeOK /\ [GatewayNext]_allVars => GatewayTypeOK'
<1> SUFFICES ASSUME IInv, IInv', Strands, GatewayTypeOK, [GatewayNext]_allVars PROVE GatewayTypeOK'
  OBVIOUS
<1> USE TheStrands
<1>0. TypeOK' /\ NoBinding \notin Creds /\ Idle \notin Creds /\ Waiting \notin Creds /\ Idle # Waiting
  BY RequestsAssumption DEF IInv, Idle, Waiting
<1>1. CASE StartRun
  <2>1. before' \in [config : Setup \cup {Original}, bound : BOOLEAN]
    BY <1>1 DEF StartRun, IInv, TypeOK
  <2> QED BY <1>0, <1>1, <2>1 DEF StartRun, GatewayTypeOK, Phases, NoTxn
<1>2. CASE Configuring
  <2>1. At(Main, "release") => BoundCred \in Creds
    BY CredsOf DEF At, BoundCred
  <2>2. task[Main].txn \in Nat
    BY <1>2, Standing DEF Configuring, Strands
  <2> QED BY <1>0, <1>2, <2>1, <2>2 DEF Configuring, GatewayTypeOK, Phases
<1>3. CASE AgentExits \/ Release \/ Releasing \/ Dies
  <2>1. owed' \in Nat /\ phase' \in Phases /\ phase' # "running" /\ UNCHANGED <<before, held>> /\ cooling' \in BOOLEAN
    BY <1>3 DEF AgentExits, Release, Releasing, Dies, GatewayTypeOK, Phases, NoTxn
  <2>2. request' \in [Requests -> {Idle, Waiting} \cup Creds]
    BY <1>3 DEF AgentExits, Release, Releasing, Dies, GatewayTypeOK
  <2> QED BY <1>0, <2>1, <2>2 DEF GatewayTypeOK
<1>4. CASE Renewing
  <2>1. held' \in Creds \cup {NoBinding} /\ (phase = "running" => held' \in Creds) /\ cooling' \in BOOLEAN
    <3>1. task[Renewer] # NoTask /\ task[Renewer].cmd = "renew"
      BY <1>4, KeepsCommand DEF Renewing, Strands
    <3>2. Returned \in Creds \cup {NoBinding} /\ (phase = "running" => Returned \in Creds)
      BY <3>1, CredsOf DEF Returned, At, GatewayTypeOK
    <3> QED BY <1>4, <3>2 DEF Renewing, Holding, Failed, GatewayTypeOK
  <2>2. request' \in [Requests -> {Idle, Waiting} \cup Creds]
    <3>1. CASE request' = Served(held')
      <4>1. ASSUME NEW r \in Requests, request[r] = Waiting PROVE held' \in Creds
        BY <1>0, <2>1, <4>1 DEF Strands
      <4> QED BY <3>1, <4>1 DEF Served, GatewayTypeOK
    <3> QED BY <1>4, <3>1 DEF Renewing, GatewayTypeOK
  <2> QED BY <1>0, <1>4, <2>1, <2>2 DEF Renewing, GatewayTypeOK
<1>5. ASSUME NEW r \in Requests, Ask(r) PROVE GatewayTypeOK'
  <2>1. held \in Creds /\ phase' = "running" /\ UNCHANGED <<owed, before>>
    BY <1>5 DEF Ask, GatewayTypeOK
  <2>2. held' \in Creds /\ cooling' \in BOOLEAN
    BY <1>5, <2>1, CredsOf DEF Ask, Holding, GatewayTypeOK
  <2>3. request' \in [Requests -> {Idle, Waiting} \cup Creds]
    BY <1>5, <2>1, <2>2 DEF Ask, GatewayTypeOK
  <2> QED BY <1>0, <2>1, <2>2, <2>3 DEF GatewayTypeOK, Phases
<1>6. CASE CoolDown \/ UNCHANGED allVars
  BY <1>0, <1>6 DEF CoolDown, allVars, runVars, GatewayTypeOK
<1>7. ASSUME NEW r \in Requests, Answer(r) PROVE GatewayTypeOK'
  BY <1>0, <1>7 DEF Answer, GatewayTypeOK
<1>8. CASE Others
  <2>1. phase' \in {phase, "idle"} /\ UNCHANGED <<owed, before, held, cooling, request>>
    BY <1>8 DEF Others
  <2> QED BY <1>0, <2>1 DEF GatewayTypeOK, Phases
<1> QED BY <1>1, <1>2, <1>3, <1>4, <1>5, <1>6, <1>7, <1>8 DEF GatewayNext

LEMMA GatewayInitially == GatewayInit => IInv /\ GatewayTypeOK
<1> SUFFICES ASSUME GatewayInit PROVE IInv /\ GatewayTypeOK
  OBVIOUS
<1>1. IInv
  BY Initially DEF GatewayInit
<1>2. [config |-> Original, bound |-> FALSE] \in [config : Setup \cup {Original}, bound : BOOLEAN]
  OBVIOUS
<1> QED BY <1>1, <1>2 DEF GatewayInit, IInv, GatewayTypeOK, Phases, NoTxn

(* Whatever fails, dies or overlaps, and whether or not the agent exits    *)
(* during a renewal.                                                       *)
RunInv == IInv /\ GatewayTypeOK /\ Strands
LEMMA RunInit == GatewayInit => RunInv
  BY GatewayInitially, StrandsInit DEF RunInv

LEMMA RunKept == RunInv /\ [GatewayNext]_allVars => RunInv' /\ [AnyStep]_vars
<1> SUFFICES ASSUME RunInv, [GatewayNext]_allVars PROVE RunInv' /\ [AnyStep]_vars
  OBVIOUS
<1>1. [AnyStep]_vars
  BY GatewaySteps DEF RunInv
<1>2. IInv'
  BY <1>1, IInvKept DEF RunInv
<1> QED BY <1>1, <1>2, GatewayTypeKept, StrandsKept DEF RunInv

(* Whatever fails, dies or overlaps, the gateway of `run --gateway` serves *)
(* the agent on a credential it holds, and each request is idle, waits for *)
(* a renewal, or is out on a credential (gatewayCredential).               *)
THEOREM GatewayTyped == GatewaySpec => []GatewayTypeOK
<1>1. RunInv => GatewayTypeOK
  BY DEF RunInv
<1> QED BY <1>1, RunInit, RunKept, PTL DEF GatewaySpec

-----------------------------------------------------------------------------
(* One command at work.                                                    *)
Orderly == RunInv /\ Turns /\ One
LEMMA OrderlyInit == GatewayInit => Orderly
  BY RunInit, TurnsInit, OneInit DEF Orderly, GatewayInit

LEMMA OrderlyKept == Orderly /\ Overlap \subseteq {"renew"} /\ [GatewayNext]_allVars => Orderly'
<1> SUFFICES ASSUME Orderly, Overlap \subseteq {"renew"}, [GatewayNext]_allVars PROVE Orderly'
  OBVIOUS
<1>1. RunInv' /\ [AnyStep]_vars /\ IInv
  BY RunKept DEF Orderly, RunInv
<1> QED BY <1>1, TurnsKept, OneKept DEF Orderly

(* A run with --gateway forgets no credential either: neither the one it   *)
(* was configured on, nor one a renewal put in its place, nor one that     *)
(* another process did (renewGatewayCredential, releaseGateway).           *)
THEOREM RunForgetsNothing ==
  Overlap \subseteq {"renew"} /\ "split" \notin Situations => (GatewaySpec => []NothingLeaks)
<1> SUFFICES ASSUME Overlap \subseteq {"renew"}, "split" \notin Situations PROVE GatewaySpec => []NothingLeaks
  OBVIOUS
<1>1. Orderly => NothingLeaks
  BY Closed DEF Orderly, RunInv, Books, Accounted, Unbinding, NothingLeaks
<1> QED BY <1>1, OrderlyInit, OrderlyKept, PTL DEF GatewaySpec

-----------------------------------------------------------------------------
(* The credentials in a command's hands.                                   *)
Carries(t) ==
  /\ t.mode = "runtime" /\ t.new # NoBinding /\ ~t.unsaved /\
     t.at \in {"apply", "verify", "save", "release", "confirm", "rollback", "rebind", "retire"} =>
       hub[t.new.cred].status # "revoked"
  /\ t.cmd = "renew" /\ t.prev # NoBinding => t.prev.cred \in due
  /\ t.cmd # "configure" => t.mode = "runtime"
Carried == \A p \in Procs : task[p] # NoTask => Carries(task[p])
Charged ==
  phase = "running" =>
    /\ binding # NoBinding /\ hub[binding.cred].status # "revoked"
    /\ held = binding.cred \/ held \in due

(* What is revoked is so by a command that has it in its hands, and a      *)
(* credential that has come due stays so.                                  *)
Takes(p, c) ==
  /\ task[p] # NoTask /\ task[p].at # "lock" /\ (task'[p] = NoTask \/ task'[p].at # task[p].at)
  /\ \/ RevokeNew(p) /\ c = task[p].new.cred
     \/ RevokePrevious(p) /\ Replaced(p) /\ c = task[p].prev.cred
     \/ Drop(p) /\ c = task[p].new.cred
     \/ Retire(p) /\ c = task[p].prev.cred

LEMMA RevokesOne ==
  ASSUME IInv, NEW c \in Creds, NEW d \in Creds, NEW endpoint, Revoke(d, endpoint),
         hub'[c].status = "revoked", hub[c].status # "revoked"
  PROVE  c = d
  BY DEF Revoke, IInv, TypeOK

LEMMA RevokedBy ==
  ASSUME IInv, [AnyStep]_vars, NEW c \in Creds, hub'[c].status = "revoked", hub[c].status # "revoked"
  PROVE  \E p \in Procs : Takes(p, c)
<1>0. hub \in Hub
  BY DEF IInv, TypeOK, Hub
<1>1. ASSUME NEW p \in Procs, Step(p) \/ StartConfigure(p) \/ StartRestore(p) \/ StartRenew(p) \/ Begins(p) \/ Crash(p)
      PROVE  Takes(p, c)
  <2>1. CASE Issue(p)
    <3>1. Unborn # {} /\ (hub' = hub \/ hub' = Born(Draft(p, NextCred).kind, Draft(p, NextCred).models))
      BY <2>1 DEF Issue
    <3>2. hub' = hub \/ hub'[c] = hub[c] \/ hub'[c].status = "live"
      BY <1>0, <3>1 DEF Born, Hub
    <3> QED BY <3>2
  <2>2. CASE Widen(p)
    <3>1. hub' = hub \/ hub' = Widened(task[p].new)
      BY <2>2 DEF Widen
    <3> QED BY <1>0, <3>1 DEF Widened, Hub
  <2>3. CASE RevokeNew(p) \/ RevokePrevious(p)
    <3>1. task[p] # NoTask /\ task[p].at \in {"discard", "release"} /\ End(p)
      BY <2>3 DEF RevokeNew, RevokePrevious, At
    <3>2. task[p].new # NoBinding
      BY <3>1, Standing DEF Shape, MustHoldNew
    <3>3. task'[p] = NoTask
      BY <3>1, Ended
    <3>4. CASE RevokeNew(p)
      <4>1. Revoke(task[p].new.cred, task[p].new.kind)
        BY <3>4 DEF RevokeNew
      <4> QED BY <3>1, <3>2, <3>3, <3>4, <4>1, RevokesOne, Hands DEF Takes
    <3>5. CASE RevokePrevious(p)
      <4>1. Revoke(task[p].prev.cred, task[p].prev.kind) /\ Replaced(p)
        BY <3>5 DEF RevokePrevious
      <4> QED BY <3>1, <3>3, <3>5, <4>1, RevokesOne, Hands DEF Takes, Replaced
    <3> QED BY <2>3, <3>4, <3>5
  <2>4. CASE Drop(p) \/ Retire(p)
    <3>1. /\ task[p] # NoTask /\ task[p].at \in {"drop", "retire"}
          /\ (Goto(p, "retire") /\ task[p].at = "drop") \/ (Goto(p, "unbind") /\ task[p].at = "retire") \/ End(p)
      BY <2>4 DEF Drop, Retire, At
    <3>2. task'[p] = NoTask \/ task'[p].at # task[p].at
      BY <3>1, Ended, Going DEF Moves, Steps
    <3>3. CASE Drop(p)
      <4>1. Revoke(task[p].new.cred, "runtime") /\ task[p].new # NoBinding
        BY <3>3, Standing DEF Drop, At, Shape, MustHoldNew
      <4> QED BY <3>1, <3>2, <3>3, <4>1, RevokesOne, Hands DEF Takes
    <3>4. CASE Retire(p)
      <4>1. Revoke(task[p].prev.cred, "runtime") /\ task[p].prev.cred \in Creds
        BY <3>4, Hands DEF Retire, At, Shape
      <4> QED BY <3>1, <3>2, <3>4, <4>1, RevokesOne DEF Takes
    <3> QED BY <2>4, <3>3, <3>4
  <2>5. CASE Ensure(p) \/ Apply(p) \/ Verify(p) \/ Save(p) \/ Undo(p) \/ Lock(p) \/ Recheck(p) \/ Confirm(p)
    BY <2>5 DEF Ensure, Apply, Verify, Save, Undo, Lock, Recheck, Confirm
  <2>6. CASE Rollback(p) \/ Rebind(p) \/ Unbind(p) \/ StartConfigure(p) \/ StartRestore(p) \/ StartRenew(p) \/ Begins(p) \/ Crash(p)
    BY <2>6 DEF Rollback, Rebind, Unbind, StartConfigure, StartRestore, StartRenew, Begins, Crash
  <2> QED BY <1>1, <2>1, <2>2, <2>3, <2>4, <2>5, <2>6 DEF Step
<1>2. ~(ComeDue \/ Leave \/ Fails \/ UNCHANGED vars)
  BY <1>0 DEF ComeDue, Leave, Fails, Mishap, vars, Hub
<1> QED BY <1>1, <1>2 DEF AnyStep, Next

LEMMA DueStays ==
  ASSUME [AnyStep]_vars PROVE due \subseteq due'
<1>1. ASSUME NEW p \in Procs, Step(p) \/ StartConfigure(p) \/ StartRestore(p) \/ StartRenew(p) \/ Begins(p) \/ Crash(p)
      PROVE  due' = due
  <2>1. CASE Ensure(p) \/ Widen(p) \/ Issue(p) \/ Apply(p) \/ Verify(p) \/ Save(p) \/ Undo(p) \/ RevokeNew(p)
             \/ RevokePrevious(p)
    BY <2>1 DEF Ensure, Widen, Issue, Apply, Verify, Save, Undo, RevokeNew, RevokePrevious
  <2>2. CASE Lock(p) \/ Recheck(p) \/ Confirm(p) \/ Rollback(p) \/ Rebind(p) \/ Drop(p) \/ Retire(p) \/ Unbind(p)
    BY <2>2 DEF Lock, Recheck, Confirm, Rollback, Rebind, Drop, Retire, Unbind
  <2>3. CASE StartConfigure(p) \/ StartRestore(p) \/ StartRenew(p) \/ Begins(p) \/ Crash(p)
    BY <2>3 DEF StartConfigure, StartRestore, StartRenew, Begins, Crash
  <2> QED BY <1>1, <2>1, <2>2, <2>3 DEF Step
<1>2. CASE ComeDue \/ Leave \/ Fails \/ UNCHANGED vars
  BY <1>2 DEF ComeDue, Leave, Fails, Mishap, vars
<1> QED BY <1>1, <1>2 DEF AnyStep, Next

(* The command that takes a step goes on with a credential that works.     *)
InUse == {"apply", "verify", "save", "release", "confirm", "rollback", "rebind", "retire"}
LEMMA StillInUse ==
  ASSUME IInv, NEW p \in Procs, Step(p), Carries(task[p]), task'[p] # NoTask, task'[p].mode = "runtime",
         task'[p].new # NoBinding, ~task'[p].unsaved, task'[p].at \in InUse
  PROVE  hub'[task'[p].new.cred].status # "revoked"
<1> DEFINE t == task[p]
<1>1. t # NoTask /\ t \in Task /\ Shape(t) /\ t.mode = "runtime" /\ hub \in Hub
  BY KeepsCommand, Standing DEF GoesOn, IInv, TypeOK, Hub
<1>2. CASE Ensure(p)
  <2>1. Moves(p, "issue", t.new) \/ End(p)
    <3>1. t.mode \notin OwnKeys /\ t.mode # "auto"
      BY <1>1, KeysAssumption
    <3> QED BY <1>1, <1>2, <3>1, Going DEF Ensure, Steps
  <2> QED BY <2>1, Ended DEF Moves, InUse
<1>3. CASE Widen(p)
  <2>1. t.new \in Binding /\ t.new.cred \in Creds
    BY <1>1, <1>3, Standing, Hands DEF Widen, At, Shape, MustHoldNew
  <2>2. \/ Moves(p, "apply", t.new) /\ hub[t.new.cred].status = "live" /\ hub' = Widened(t.new)
        \/ Moves(p, "issue", t.new) \/ End(p)
    BY <1>1, <1>3, Going DEF Widen, Steps
  <2>3. task'[p].new = t.new /\ hub[t.new.cred].status = "live" /\ hub' = Widened(t.new)
    BY <2>2, Ended DEF Moves, InUse
  <2> QED BY <1>1, <2>1, <2>3 DEF Widened, Hub
<1>4. CASE Issue(p)
  <2>1. t.at = "issue" /\ Unborn # {}
    BY <1>4 DEF Issue, At
  <2>2. Draft(p, NextCred) \in Binding /\ Draft(p, NextCred).cred = NextCred /\ NextCred \in Creds
    BY <1>1, <2>1, DraftIs, BornIs
  <2>3. \/ End(p)
        \/ /\ \E s : Moves(p, s, Draft(p, NextCred))
           /\ hub' = Born(Draft(p, NextCred).kind, Draft(p, NextCred).models)
    BY <1>1, <1>4, <2>2, Going DEF Issue, Steps
  <2>4. task'[p].new.cred = NextCred /\ hub' = Born(Draft(p, NextCred).kind, Draft(p, NextCred).models)
    BY <2>2, <2>3, Ended DEF Moves
  <2> QED BY <1>1, <2>2, <2>4 DEF Born, Hub
<1>5. CASE Apply(p)
  <2> DEFINE x == [t EXCEPT !.at = "verify", !.txn = stamp + 1]
  <2>1. t.at = "apply" /\ UNCHANGED hub
    BY <1>5 DEF Apply, At
  <2>2. x.new = t.new /\ x.unsaved = t.unsaved
    BY <1>1 DEF Task
  <2>3. (\E s : Moves(p, s, t.new)) \/ task'[p] = x
    BY <1>1, <1>5, Going DEF Apply, Steps, IInv, TypeOK
  <2>4. task'[p].new = t.new /\ task'[p].unsaved = t.unsaved
    <3> HIDE DEF x
    <3> QED BY <2>2, <2>3 DEF Moves, Same
  <2> QED BY <1>1, <2>1, <2>4 DEF Carries
<1>6. CASE Verify(p) \/ Save(p) \/ Confirm(p) \/ Rollback(p)
  <2>1. t.at \in InUse /\ UNCHANGED hub
    BY <1>6 DEF Verify, Save, Confirm, Rollback, At, InUse
  <2>2. (\E s : Moves(p, s, t.new)) \/ End(p)
    BY <1>1, <1>6, Going DEF Verify, Save, Confirm, Rollback, Steps
  <2>3. task'[p].new = t.new /\ task'[p].unsaved = t.unsaved
    BY <2>2, Ended DEF Moves, Same
  <2> QED BY <1>1, <2>1, <2>3 DEF Carries, InUse
<1>7. CASE Rebind(p)
  <2> DEFINE x == [t EXCEPT !.at = "drop", !.unsaved = (t.cmd = "restore")]
  <2>1. t.at = "rebind" /\ UNCHANGED hub
    BY <1>7 DEF Rebind, At
  <2>2. x.at = "drop"
    BY <1>1 DEF Task
  <2>3. Goto(p, "retire") \/ task'[p] = x
    BY <1>7 DEF Rebind, IInv, TypeOK
  <2>4. Moves(p, "retire", t.new)
    <3> HIDE DEF x
    <3> QED BY <1>1, <2>2, <2>3, Going DEF Steps, InUse
  <2> QED BY <1>1, <2>1, <2>4 DEF Carries, Moves, Same
<1>8. CASE Recheck(p)
  <2> DEFINE x == [t EXCEPT !.at = "issue", !.prev = binding, !.want = SetupOf(binding)]
  <2>1. x.at = "issue"
    BY <1>1 DEF Task
  <2>2. task'[p] = x \/ End(p)
    BY <1>8 DEF Recheck, IInv, TypeOK
  <2> HIDE DEF x
  <2> QED BY <2>1, <2>2, Ended DEF InUse
<1>9. CASE Undo(p) \/ Lock(p)
  <2>1. Moves(p, "discard", t.new) \/ Moves(p, "recheck", t.new) \/ End(p)
    BY <1>1, <1>9, Going DEF Undo, Lock, Steps
  <2> QED BY <2>1, Ended DEF Moves, InUse
<1>10. CASE Drop(p)
  <2>1. (t.unsaved /\ Moves(p, "retire", t.new)) \/ End(p)
    BY <1>1, <1>10, Going DEF Drop, Steps
  <2> QED BY <2>1, Ended DEF Moves, Same
<1>11. CASE RevokeNew(p) \/ RevokePrevious(p) \/ Unbind(p)
  BY <1>11, Ended DEF RevokeNew, RevokePrevious, Unbind
<1>12. CASE Retire(p)
  <2>1. Moves(p, "unbind", t.new) \/ End(p)
    BY <1>1, <1>12, Going DEF Retire, Steps
  <2> QED BY <2>1, Ended DEF Moves, InUse
<1> QED BY <1>2, <1>3, <1>4, <1>5, <1>6, <1>7, <1>8, <1>9, <1>10, <1>11, <1>12 DEF Step

(* What a command has that does not move, nobody else takes.               *)
LEMMA OthersCarry ==
  ASSUME IInv, One, Carried, [AnyStep]_vars, NEW q \in Procs, task[q] # NoTask, task'[q] = task[q]
  PROVE  Carries(task[q])'
<1>1. Carries(task[q]) /\ due \subseteq due'
  BY DueStays DEF Carried
<1>2. ASSUME task[q].new # NoBinding, hub[task[q].new.cred].status # "revoked", task[q].at # "lock"
      PROVE  hub'[task[q].new.cred].status # "revoked"
  <2> SUFFICES ASSUME hub'[task[q].new.cred].status = "revoked" PROVE FALSE
    OBVIOUS
  <2>1. PICK p \in Procs : Takes(p, task[q].new.cred)
    BY <1>2, RevokedBy, Hands
  <2>2. p # q
    BY <2>1 DEF Takes
  <2>3. AtRest(q)
    BY <2>1, <2>2, AtWork DEF Takes
  <2> QED BY <1>2, <2>3 DEF AtRest
<1> QED BY <1>1, <1>2 DEF Carries

LEMMA OnRecheck ==
  ASSUME IInv, NEW p \in Procs, Step(p), task[p].at = "recheck", task'[p] # NoTask
  PROVE  task'[p].prev = binding /\ StillDue
<1>1. Recheck(p)
  BY DEF Step, Ensure, Widen, Issue, Apply, Verify, Save, Undo, RevokeNew, RevokePrevious, Lock, Confirm, Rollback, Rebind,
         Drop, Retire, Unbind, At
<1> DEFINE x == [task[p] EXCEPT !.at = "issue", !.prev = binding, !.want = SetupOf(binding)]
<1>2. ~End(p)
  BY Ended
<1>3. StillDue /\ task' = [task EXCEPT ![p] = x] /\ task[p] # NoTask
  BY <1>1, <1>2 DEF Recheck, At
<1>4. x.prev = binding
  BY <1>3, Standing DEF Task
<1>5. task'[p] = x
  <2> HIDE DEF x
  <2> QED BY <1>3 DEF IInv, TypeOK
<1> QED BY <1>3, <1>4, <1>5

LEMMA CarriedKept ==
  ASSUME IInv, One, Carried, [AnyStep]_vars
  PROVE  Carried'
<1>1. ASSUME NEW p \in Procs, Step(p) PROVE Carried'
  <2>1. task[p] # NoTask /\ (task'[p] # NoTask => GoesOn(p)) /\ \A q \in Procs \ {p} : task'[q] = task[q]
    BY <1>1, KeepsCommand
  <2>2. ASSUME task'[p] # NoTask PROVE Carries(task[p])'
    <3>1. Carries(task[p]) /\ due \subseteq due'
      BY <2>1, DueStays DEF Carried
    <3>2. task'[p].cmd = "renew" /\ task'[p].prev # NoBinding => task'[p].prev.cred \in due'
      <4>1. CASE task[p].at = "recheck"
        <5>1. task'[p].prev = binding /\ binding.cred \in due
          BY <1>1, <2>2, <4>1, OnRecheck DEF StillDue
        <5> QED BY <3>1, <5>1
      <4>2. CASE task[p].at # "recheck"
        BY <2>1, <2>2, <3>1, <4>2 DEF GoesOn, Carries
      <4> QED BY <4>1, <4>2
    <3>3. task'[p].cmd # "configure" => task'[p].mode = "runtime"
      BY <2>1, <2>2, <3>1 DEF GoesOn, Carries
    <3>4. task'[p].mode = "runtime" /\ task'[p].new # NoBinding /\ ~task'[p].unsaved /\ task'[p].at \in InUse =>
            hub'[task'[p].new.cred].status # "revoked"
      BY <1>1, <2>2, <3>1, StillInUse
    <3> QED BY <3>2, <3>3, <3>4 DEF Carries, InUse
  <2>3. ASSUME NEW q \in Procs, task'[q] # NoTask PROVE Carries(task[q])'
    BY <2>1, <2>2, <2>3, OthersCarry
  <2> QED BY <2>3 DEF Carried
<1>2. ASSUME NEW p \in Procs, StartConfigure(p) \/ StartRestore(p) \/ StartRenew(p) \/ Begins(p) PROVE Carried'
  <2>1. \A q \in Procs \ {p} : task'[q] = task[q]
    BY <1>2, BeginsAs
  <2>2. task'[p].new = NoBinding
    BY <1>2, StartConfigureShapes, StartRestoreShapes, StartRenewShapes DEF Opens
  <2>3. task'[p].cmd = "renew" => task'[p].prev = NoBinding
    <3>1. CASE StartConfigure(p) \/ StartRestore(p)
      BY <3>1, BeginsAs
    <3>2. CASE StartRenew(p) \/ Begins(p)
      BY <3>2 DEF StartRenew, Begins, Renewal, IInv, TypeOK
    <3> QED BY <1>2, <3>1, <3>2
  <2>4. task'[p].cmd # "configure" => task'[p].mode = "runtime"
    <3>1. CASE StartConfigure(p)
      BY <3>1, BeginsAs
    <3>2. CASE StartRestore(p) \/ StartRenew(p) \/ Begins(p)
      BY <3>2 DEF StartRestore, StartRenew, Begins, Renewal, IInv, TypeOK
    <3> QED BY <1>2, <3>1, <3>2
  <2>5. Carries(task[p])'
    BY <2>2, <2>3, <2>4 DEF Carries
  <2>6. ASSUME NEW q \in Procs, task'[q] # NoTask PROVE Carries(task[q])'
    BY <2>1, <2>5, <2>6, OthersCarry
  <2> QED BY <2>6 DEF Carried
<1>3. ASSUME NEW p \in Procs, Crash(p) PROVE Carried'
  <2>1. task'[p] = NoTask /\ \A q \in Procs \ {p} : task'[q] = task[q]
    BY <1>3, KeepsCommand DEF Crash, IInv, TypeOK
  <2>2. ASSUME NEW q \in Procs, task'[q] # NoTask PROVE Carries(task[q])'
    BY <2>1, <2>2, OthersCarry
  <2> QED BY <2>2 DEF Carried
<1>4. CASE ComeDue \/ Leave \/ Fails \/ UNCHANGED vars
  <2>1. UNCHANGED task
    BY <1>4 DEF ComeDue, Leave, Fails, vars
  <2>2. ASSUME NEW q \in Procs, task'[q] # NoTask PROVE Carries(task[q])'
    BY <2>1, <2>2, OthersCarry
  <2> QED BY <2>2 DEF Carried
<1> QED BY <1>1, <1>2, <1>3, <1>4 DEF AnyStep, Next

(* While the agent runs only renewals work: what is bound is replaced when *)
(* it is due, and never taken away.                                        *)
LEMMA WhileServing ==
  ASSUME IInv, One, Carried, [AnyStep]_vars, \A p \in Procs : task[p] # NoTask => task[p].cmd = "renew",
         binding # NoBinding, hub[binding.cred].status # "revoked"
  PROVE  /\ binding' # NoBinding /\ hub'[binding'.cred].status # "revoked"
         /\ binding'.cred = binding.cred \/ binding.cred \in due'
<1>1. ASSUME NEW p \in Procs, task[p] # NoTask, task[p].at # "lock"
      PROVE  Shape(task[p]) /\ Ties(task[p]) /\ Carries(task[p]) /\ task[p].cmd = "renew"
  BY <1>1, Turn, Standing DEF AtRest, Books, Carried
<1>2. CASE binding' = binding
  <2> SUFFICES ASSUME hub'[binding.cred].status = "revoked" PROVE FALSE
    BY <1>2
  <2>1. PICK p \in Procs : Takes(p, binding.cred)
    BY RevokedBy, CredsOf
  <2>2. Shape(task[p]) /\ Ties(task[p]) /\ task[p].cmd = "renew"
    BY <1>1, <2>1 DEF Takes
  <2>3. CASE task[p].at = "drop" /\ binding.cred = task[p].new.cred
    BY <2>2, <2>3 DEF Shape, Ties, Rebound, MustHoldNew
  <2>4. CASE task[p].at = "retire" /\ binding.cred = task[p].prev.cred
    BY <2>2, <2>4 DEF Shape, Ties, Rebound
  <2>5. task[p].at \notin {"discard", "release"}
    BY <2>2 DEF Shape
  <2> QED BY <2>1, <2>3, <2>4, <2>5 DEF Takes, RevokeNew, RevokePrevious, Drop, Retire, At
<1>3. ASSUME NEW p \in Procs, Unbind(p) \/ Save(p) PROVE FALSE
  <2>1. task[p] # NoTask /\ task[p].at \in {"unbind", "save"}
    BY <1>3 DEF Unbind, Save, At
  <2> QED BY <1>1, <2>1 DEF Shape
<1>4. ASSUME NEW p \in Procs, Rebind(p), binding' = task[p].new
      PROVE  /\ binding' # NoBinding /\ hub'[binding'.cred].status # "revoked" /\ binding.cred \in due'
  <2>1. task[p] # NoTask /\ task[p].at = "rebind" /\ UNCHANGED hub
    BY <1>4 DEF Rebind, At
  <2>2. Shape(task[p]) /\ Ties(task[p]) /\ Carries(task[p]) /\ task[p].cmd = "renew"
    BY <1>1, <2>1
  <2>3. task[p].new # NoBinding /\ binding = task[p].prev /\ ~task[p].unsaved /\ task[p].mode = "runtime"
    BY <2>1, <2>2 DEF Shape, Ties, Rebound, MustHoldNew, Carries
  <2>4. hub[task[p].new.cred].status # "revoked" /\ binding.cred \in due
    BY <2>1, <2>2, <2>3 DEF Carries
  <2> QED BY <1>4, <2>1, <2>3, <2>4, DueStays
<1> QED BY <1>2, <1>3, <1>4, BindingSteps

(* A renewal that succeeds returns what is bound.                          *)
LEMMA ReturnsBound ==
  ASSUME IInv, One, task[Renewer] # NoTask => task[Renewer].cmd = "renew", Step(Renewer), ~Failed
  PROVE  Returned = binding.cred /\ binding' = binding
<1> USE TheStrands
<1>1. CASE At(Renewer, "retire")
  <2>1. Returned = task[Renewer].new.cred /\ Retire(Renewer)
    BY <1>1 DEF Returned, At, Step, Ensure, Widen, Issue, Apply, Verify, Save, Undo, RevokeNew, RevokePrevious,
       Lock, Recheck, Confirm, Rollback, Rebind, Drop, Unbind
  <2>2. Ties(task[Renewer]) /\ Shape(task[Renewer]) /\ task[Renewer].cmd = "renew"
    BY <1>1, Turn, Standing DEF AtRest, Books, At
  <2> QED BY <1>1, <2>1, <2>2 DEF At, Ties, Shape, Rebound, Retire
<1>2. CASE At(Renewer, "recheck")
  <2>1. Returned = binding.cred /\ Recheck(Renewer)
    BY <1>2 DEF Failed, Returned, At, Step, Ensure, Widen, Issue, Apply, Verify, Save, Undo, RevokeNew, RevokePrevious,
       Lock, Retire, Confirm, Rollback, Rebind, Drop, Unbind
  <2> QED BY <2>1 DEF Recheck
<1> QED BY <1>1, <1>2 DEF Failed

LEMMA ChargedKept ==
  ASSUME Orderly, Carried, Charged, [GatewayNext]_allVars
  PROVE  Charged'
<1> USE TheStrands
<1>1. IInv /\ One /\ Strands /\ [AnyStep]_vars
  BY RunKept DEF Orderly, RunInv
<1>2. CASE phase # "running" /\ phase' = "running"
  <2>1. /\ Step(Main) /\ At(Main, "release") /\ task'[Main] = NoTask /\ held' = BoundCred /\ phase = "configuring"
        /\ task[Main].mode = "runtime"
    BY <1>1, <1>2 DEF GatewayNext, StartRun, Configuring, AgentExits, Release, Releasing, Renewing, CoolDown, Ask,
       Answer, Dies, Others, allVars, runVars, Strands
  <2>2. RevokePrevious(Main) /\ task[Main] # NoTask /\ task[Main].at = "release"
    BY <2>1 DEF At, Step, Ensure, Widen, Issue, Apply, Verify, Save, Undo, RevokeNew, Lock, Recheck, Confirm, Rollback,
       Rebind, Drop, Retire, Unbind
  <2>3. Ties(task[Main]) /\ Shape(task[Main]) /\ Carries(task[Main])
    BY <1>1, <2>2, Turn, Standing DEF AtRest, Books, Carried
  <2>4. /\ binding # NoBinding /\ binding.cred = held' /\ ~task[Main].unsaved /\ task[Main].new # NoBinding
        /\ binding' = binding
    BY <2>1, <2>2, <2>3 DEF Ties, Shape, MustHoldNew, BoundCred, RevokePrevious
  <2>5. hub[binding.cred].status # "revoked"
    BY <2>1, <2>2, <2>3, <2>4 DEF Carries, BoundCred
  <2>6. hub'[binding.cred].status # "revoked"
    <3> SUFFICES ASSUME hub'[binding.cred].status = "revoked" PROVE FALSE
      OBVIOUS
    <3>1. PICK p \in Procs : Takes(p, binding.cred)
      BY <1>1, <2>4, <2>5, RevokedBy, CredsOf
    <3>2. p = Main
      <4>1. ~(p # Main)
        BY <1>1, <2>2, <3>1, AtWork DEF Takes, AtRest
      <4> QED BY <4>1
    <3>3. binding.cred = task[Main].prev.cred /\ Replaced(Main)
      BY <2>2, <3>1, <3>2 DEF Takes, RevokeNew, Drop, Retire, At
    <3> QED BY <2>1, <2>4, <3>3 DEF Replaced, BoundCred
  <2> QED BY <2>4, <2>6 DEF Charged
<1>3. CASE phase = "running" /\ phase' = "running"
  <2>1. \A p \in Procs : task[p] # NoTask => task[p].cmd = "renew"
    BY <1>1, <1>3 DEF Strands
  <2>2. binding # NoBinding /\ hub[binding.cred].status # "revoked" /\ (held = binding.cred \/ held \in due)
    BY <1>3 DEF Charged
  <2>3. /\ binding' # NoBinding /\ hub'[binding'.cred].status # "revoked" /\ due \subseteq due'
        /\ binding'.cred = binding.cred \/ binding.cred \in due'
    BY <1>1, <2>1, <2>2, WhileServing, DueStays
  <2>4. held' = held \/ held' = binding'.cred
    <3>1. CASE Renewing /\ held' # held
      <4>1. Step(Renewer) /\ held' = Returned
        BY <3>1 DEF Renewing, Holding
      <4>2. ~Failed
        BY <3>1, <4>1 DEF Failed, Returned
      <4> QED BY <1>1, <2>1, <4>1, <4>2, ReturnsBound
    <3>2. ASSUME NEW r \in Requests, Ask(r), held' # held PROVE held' = binding'.cred
      BY <2>2, <3>2 DEF Ask, Holding, vars
    <3>3. CASE StartRun \/ Configuring \/ AgentExits \/ Release \/ Releasing \/ CoolDown \/ Dies \/ Others
      BY <1>3, <3>3 DEF StartRun, Configuring, AgentExits, Release, Releasing, CoolDown, Dies, Others
    <3>4. ASSUME NEW r \in Requests, Answer(r) PROVE held' = held
      BY <3>4 DEF Answer
    <3>5. UNCHANGED allVars => held' = held
      BY DEF allVars, runVars
    <3> QED BY <3>1, <3>2, <3>3, <3>4, <3>5 DEF GatewayNext
  <2> QED BY <2>2, <2>3, <2>4 DEF Charged
<1> QED BY <1>2, <1>3 DEF Charged

LEMMA SendsUsable ==
  ASSUME Orderly, Charged, Charged', [GatewayNext]_allVars, NEW r \in Requests,
         request[r] \notin Creds, request'[r] \in Creds, ~cooling'
  PROVE  hub'[request'[r]].status # "revoked"
<1> USE TheStrands
<1>1. IInv /\ One /\ Strands /\ request \in [Requests -> {Idle, Waiting} \cup Creds]
      /\ Idle \notin Creds /\ Waiting \notin Creds
  BY RequestsAssumption DEF Orderly, RunInv, GatewayTypeOK
<1>2. ASSUME NEW q \in Requests, Ask(q) PROVE hub'[request'[r]].status # "revoked"
  <2>1. phase = "running" /\ phase' = "running" /\ (request'[r] = request[r] \/ q = r)
    BY <1>1, <1>2 DEF Ask
  <2>2. q = r
    BY <2>1
  <2>3. binding # NoBinding /\ (held = binding.cred \/ held \in due) /\ hub[binding.cred].status # "revoked"
    BY <2>1 DEF Charged
  <2>4. CASE (~Due(held) \/ cooling) /\ request' = [request EXCEPT ![q] = held] /\ UNCHANGED <<vars, held, cooling>>
    <3>1. request'[r] = binding.cred /\ UNCHANGED hub
      BY <1>1, <2>2, <2>3, <2>4 DEF Due, vars
    <3> QED BY <2>3, <3>1
  <2>5. CASE request' = [request EXCEPT ![q] = Waiting]
    BY <1>1, <2>2, <2>5
  <2>6. CASE /\ held' = IF binding = NoBinding THEN held ELSE Holding(binding.cred)
             /\ request' = [request EXCEPT ![q] = held'] /\ UNCHANGED vars
    <3>1. request'[r] = binding.cred /\ UNCHANGED hub
      BY <1>1, <2>2, <2>3, <2>6 DEF Holding, vars
    <3> QED BY <2>3, <3>1
  <2> QED BY <1>2, <2>4, <2>5, <2>6 DEF Ask
<1>3. CASE Renewing
  <2>1. request[r] = Waiting /\ request'[r] = held' /\ task'[Renewer] = NoTask
    BY <1>1, <1>3 DEF Renewing, Served
  <2>2. phase = "running" /\ phase' = "running"
    <3>1. Idle # Waiting
      BY DEF Idle, Waiting
    <3> QED BY <1>1, <1>3, <2>1, <3>1 DEF Strands, Renewing
  <2>3. held' = Returned /\ ~Failed /\ Step(Renewer)
    BY <1>3, <2>1 DEF Renewing, Holding
  <2>4. held' = binding'.cred
    BY <1>1, <2>3, ReturnsBound DEF Strands
  <2> QED BY <2>1, <2>2, <2>4 DEF Charged
<1>4. CASE StartRun \/ Configuring \/ AgentExits \/ Release \/ Releasing \/ CoolDown \/ Dies \/ Others
  BY <1>1, <1>4 DEF StartRun, Configuring, AgentExits, Release, Releasing, CoolDown, Dies, Others
<1>5. ASSUME NEW q \in Requests, Answer(q) PROVE FALSE
  BY <1>1, <1>5 DEF Answer
<1>6. CASE UNCHANGED allVars
  BY <1>6 DEF allVars, runVars
<1> QED BY <1>2, <1>3, <1>4, <1>5, <1>6 DEF GatewayNext

(* Outside the minute after a failed renewal, the gateway sends no request *)
(* on a credential Connect has revoked: whoever renewed the binding of the *)
(* run, and whatever failed or died meanwhile (gatewayCredential,          *)
(* renewGatewayCredential); one command at a time but for renewals.        *)
THEOREM SendsOnUsable == Overlap \subseteq {"renew"} => (GatewaySpec => SentOnUsable)
<1> SUFFICES ASSUME Overlap \subseteq {"renew"} PROVE GatewaySpec => SentOnUsable
  OBVIOUS
<1> DEFINE Serving == Orderly /\ Carried /\ Charged
           Sent == \A r \in Requests :
                     request[r] \notin Creds /\ request'[r] \in Creds /\ ~cooling' =>
                       hub'[request'[r]].status # "revoked"
<1>1. GatewayInit => Serving
  <2>1. GatewayInit => Carried /\ Charged
    BY DEF GatewayInit, Init, Carried, Charged
  <2> QED BY <2>1, OrderlyInit
<1>2. Serving /\ [GatewayNext]_allVars => Serving'
  <2> SUFFICES ASSUME Serving, [GatewayNext]_allVars PROVE Serving'
    OBVIOUS
  <2>1. [AnyStep]_vars /\ IInv /\ One
    BY RunKept DEF Orderly, RunInv
  <2> QED BY <2>1, OrderlyKept, CarriedKept, ChargedKept
<1>3. Serving /\ Serving' /\ [GatewayNext]_allVars => [Sent]_allVars
  BY SendsUsable
<1> QED BY <1>1, <1>2, <1>3, PTL DEF GatewaySpec, SentOnUsable

-----------------------------------------------------------------------------
(* What a run leaves.  Without a failing call nobody is excused; while     *)
(* nothing leaves Hub, every model is offered and no credential withdrawn. *)
Undisturbed ==
  /\ mishaps = 0 => excused = {} /\ ~damaged
  /\ leaving = 0 => catalog = Models /\ \A c \in Creds : hub[c].status # "withdrawn"

LEMMA Untouched ==
  ASSUME IInv, [AnyStep]_vars
  PROVE  /\ mishaps' = 0 => mishaps = 0 /\ excused' = excused /\ damaged' = damaged
         /\ leaving' = 0 => leaving = 0 /\ catalog' = catalog
         /\ leaving' = 0 => \A c \in Creds : hub'[c].status = "withdrawn" => hub[c].status = "withdrawn"
<1>0. mishaps \in Nat /\ leaving \in Nat /\ hub \in Hub /\ mishaps + 1 # 0 /\ leaving + 1 # 0
  BY DEF IInv, TypeOK, Hub
<1>1. ASSUME NEW p \in Procs, Step(p) \/ StartConfigure(p) \/ StartRestore(p) \/ StartRenew(p) \/ Begins(p) \/ Crash(p)
      PROVE  /\ (mishaps' = mishaps /\ excused' = excused /\ damaged' = damaged) \/ mishaps' = mishaps + 1
             /\ leaving' = leaving /\ catalog' = catalog
             /\ \A c \in Creds : hub'[c].status = "withdrawn" => hub[c].status = "withdrawn"
  <2>1. CASE Issue(p)
    <3>1. Unborn # {} /\ (hub' = hub \/ hub' = Born(Draft(p, NextCred).kind, Draft(p, NextCred).models))
      BY <2>1 DEF Issue
    <3>2. \A c \in Creds : hub'[c].status = "withdrawn" => hub[c].status = "withdrawn"
      BY <1>0, <3>1 DEF Born, Hub
    <3> QED BY <2>1, <3>2 DEF Issue, Fine, Mishap
  <2>2. CASE Widen(p)
    <3>1. hub' = hub \/ hub' = Widened(task[p].new)
      BY <2>2 DEF Widen
    <3>2. \A c \in Creds : hub'[c].status = "withdrawn" => hub[c].status = "withdrawn"
      BY <1>0, <3>1 DEF Widened, Hub
    <3> QED BY <2>2, <3>2 DEF Widen, Fine, Mishap
  <2>3. CASE RevokeNew(p) \/ RevokePrevious(p) \/ Drop(p) \/ Retire(p)
    <3>1. (hub' = hub /\ excused' = excused /\ mishaps' = mishaps) \/ \E c, e : Revoke(c, e)
      BY <2>3, Zenon DEF RevokeNew, RevokePrevious, Drop, Retire, Fine
    <3>2. \A c, e : Revoke(c, e) =>
            /\ (mishaps' = mishaps /\ excused' = excused) \/ mishaps' = mishaps + 1
            /\ \A d \in Creds : hub'[d].status = "withdrawn" => hub[d].status = "withdrawn"
      BY <1>0 DEF Revoke, Fine, Mishap, Hub
    <3>3. UNCHANGED <<damaged, leaving, catalog>>
      BY <2>3 DEF RevokeNew, RevokePrevious, Drop, Retire
    <3> QED BY <3>1, <3>2, <3>3
  <2>4. CASE Ensure(p) \/ Apply(p) \/ Verify(p) \/ Save(p) \/ Undo(p) \/ Rollback(p)
    BY <2>4 DEF Ensure, Apply, Verify, Save, Undo, Rollback, RollsBack, RollbackFails, Fine, Mishap
  <2>5. CASE Lock(p) \/ Recheck(p) \/ Confirm(p) \/ Rebind(p) \/ Unbind(p)
    BY <2>5 DEF Lock, Recheck, Confirm, Rebind, Unbind, counters, Fine, Mishap
  <2>6. CASE StartConfigure(p) \/ StartRestore(p) \/ StartRenew(p) \/ Begins(p) \/ Crash(p)
    BY <2>6 DEF StartConfigure, StartRestore, StartRenew, Begins, Crash, counters, Mishap
  <2> QED BY <1>1, <2>1, <2>2, <2>3, <2>4, <2>5, <2>6 DEF Step
<1>2. CASE ComeDue \/ Fails \/ UNCHANGED vars
  BY <1>0, <1>2 DEF ComeDue, Fails, Mishap, vars, counters
<1>3. CASE Leave
  BY <1>0, <1>3 DEF Leave
<1>4. CASE \E p \in Procs : Step(p) \/ StartConfigure(p) \/ StartRestore(p) \/ StartRenew(p) \/ Begins(p) \/ Crash(p)
  BY <1>0, <1>1, <1>4
<1> QED BY <1>2, <1>3, <1>4 DEF AnyStep, Next

LEMMA UndisturbedKept ==
  ASSUME IInv, Undisturbed, [AnyStep]_vars PROVE Undisturbed'
  BY Untouched DEF Undisturbed

(* What is stored, and what a command configures, Hub's catalog offers as  *)
(* long as nothing leaves it.                                              *)
Offers(x) == x.proto \in Serves[x.model]
Deliverable ==
  /\ binding # NoBinding => Offers(binding) /\ \A i \in DOMAIN binding.chain : Offers(binding.chain[i])
  /\ \A p \in Procs : task[p] # NoTask /\ task[p].cmd = "configure" => Offers(task[p].want)

LEMMA WantsOffered ==
  ASSUME IInv, Deliverable, [AnyStep]_vars, NEW q \in Procs, task'[q] # NoTask, task'[q].cmd = "configure"
  PROVE  Offers(task'[q].want)
<1>1. ASSUME NEW p \in Procs, Step(p) PROVE Offers(task'[q].want)
  <2>1. CASE p = q
    <3>1. GoesOn(q) /\ task[q] # NoTask
      BY <1>1, <2>1, KeepsCommand
    <3>2. task[q].cmd = "configure" /\ task[q].at # "recheck"
      BY <3>1, Standing DEF GoesOn, Shape
    <3> QED BY <3>1, <3>2 DEF GoesOn, Deliverable
  <2>2. CASE p # q
    BY <1>1, <2>2, KeepsCommand DEF Deliverable
  <2> QED BY <2>1, <2>2
<1>2. ASSUME NEW p \in Procs, StartConfigure(p) PROVE Offers(task'[q].want)
  <2>1. CASE p = q
    <3>1. PICK mode \in Modes, proto \in Protocols :
            \E selected \in SUBSET Offered(proto) : \E m \in selected :
              LET carried == IF mode = "auto" /\ Survives(binding, proto)
                             THEN binding.models \cap Offered(proto) ELSE {}
                  want == [proto |-> proto, model |-> m, models |-> selected \cup carried]
              IN task' = [task EXCEPT ![p] =
                   [cmd |-> "configure", at |-> "ensure", mode |-> mode, want |-> want,
                    prev |-> binding, new |-> NoBinding, txn |-> NoTxn, unsaved |-> FALSE]]
      BY <1>2 DEF StartConfigure
    <3>2. PICK m \in Offered(proto), models \in SUBSET Offered(proto) :
            task' = [task EXCEPT ![p] =
              [cmd |-> "configure", at |-> "ensure", mode |-> mode,
               want |-> [proto |-> proto, model |-> m, models |-> models],
               prev |-> binding, new |-> NoBinding, txn |-> NoTxn, unsaved |-> FALSE]]
      BY <3>1
    <3>3. task'[q].want = [proto |-> proto, model |-> m, models |-> models]
      BY <2>1, <3>2 DEF IInv, TypeOK
    <3> QED BY <3>2, <3>3 DEF Offered, Offers
  <2>2. CASE p # q
    BY <1>2, <2>2, BeginsAs DEF Deliverable
  <2> QED BY <2>1, <2>2
<1>3. ASSUME NEW p \in Procs, StartRestore(p) \/ StartRenew(p) \/ Begins(p) PROVE Offers(task'[q].want)
  <2>1. p # q
    BY <1>3, BeginsAs
  <2> QED BY <1>3, <2>1, BeginsAs DEF Deliverable
<1>4. ASSUME NEW p \in Procs, Crash(p) PROVE Offers(task'[q].want)
  <2>1. task'[q] = task[q]
    BY <1>4, KeepsCommand DEF Crash, IInv, TypeOK
  <2> QED BY <2>1 DEF Deliverable
<1>5. CASE ComeDue \/ Leave \/ Fails \/ UNCHANGED vars
  BY <1>5 DEF ComeDue, Leave, Fails, vars, Deliverable
<1> QED BY <1>1, <1>2, <1>3, <1>4, <1>5 DEF AnyStep, Next

LEMMA DeliverableKept ==
  ASSUME Setting, Deliverable, [AnyStep]_vars
  PROVE  Deliverable'
<1>0. IInv /\ One /\ Steady /\ Listed
  BY DEF Setting
<1>1. ASSUME NEW p \in Procs, Save(p), binding' = Saved(p)
      PROVE  Offers(binding') /\ \A i \in DOMAIN binding'.chain : Offers(binding'.chain[i])
  <2> DEFINE t == task[p]
  <2>1. /\ t # NoTask /\ t.at = "save" /\ t.cmd = "configure" /\ t.new \in Binding /\ t.prev = binding
        /\ (t.prev = NoBinding => t.new.chain = <<>>)
    BY <1>0, <1>1, Before, MarkersAssumption DEF Save, At, Shape, MustHoldNew, Ties, Rebound, Steadily
  <2>2. t.new.proto = t.want.proto /\ t.new.model = t.want.model
    BY <2>1, Stocked DEF Meets
  <2>3. Offers(binding')
    <3>1. Saved(p).proto = t.new.proto /\ Saved(p).model = t.new.model
      BY <2>1 DEF Saved, Binding
    <3> QED BY <1>1, <2>1, <2>2, <3>1 DEF Deliverable, Offers
  <2>4. CASE binding = NoBinding
    <3>1. Saved(p).chain = <<>>
      BY <1>0, <2>1, <2>4, ChainedIs
    <3> QED BY <1>1, <2>3, <3>1
  <2>5. CASE binding # NoBinding
    <3>1. /\ Saved(p).chain = <<TargetOf(binding)>> \o binding.chain /\ TargetOf(binding) \in Target
          /\ binding.chain \in Seq(Target)
      BY <1>0, <2>1, <2>5, ChainedIs, BindingFields DEF IInv, TypeOK
    <3>2. /\ Saved(p).chain[1] = TargetOf(binding)
          /\ \A i \in DOMAIN Saved(p).chain : i = 1 \/ (i - 1 \in DOMAIN binding.chain /\ Saved(p).chain[i] = binding.chain[i - 1])
      BY <3>1, PushIs
    <3>3. Offers(TargetOf(binding)) /\ \A i \in DOMAIN binding.chain : Offers(binding.chain[i])
      BY <2>5 DEF Deliverable, Offers, TargetOf
    <3> QED BY <1>1, <2>3, <3>2, <3>3
  <2> QED BY <2>4, <2>5
<1>2. ASSUME NEW p \in Procs, Rebind(p), binding' = task[p].new
      PROVE  Offers(binding') /\ \A i \in DOMAIN binding'.chain : Offers(binding'.chain[i])
  <2> DEFINE t == task[p]
  <2>1. t # NoTask /\ t.at = "rebind" /\ t.cmd \in {"restore", "renew"} /\ t.new # NoBinding /\ t.prev = binding /\ binding # NoBinding
    BY <1>0, <1>2, Before DEF Rebind, At, Shape, MustHoldNew, Ties, Rebound
  <2>2. binding.chain \in Seq(Target) /\ Offers(binding) /\ \A i \in DOMAIN binding.chain : Offers(binding.chain[i])
    BY <1>0, <2>1, BindingFields DEF Deliverable, IInv, TypeOK
  <2>3. CASE t.cmd = "renew"
    <3>1. SetupOf(t.new) = SetupOf(binding) /\ t.new.chain = binding.chain
      BY <1>0, <2>1, <2>3, Before DEF Steadily
    <3> QED BY <1>2, <2>2, <3>1 DEF SetupOf, Offers
  <2>4. CASE t.cmd = "restore"
    <3>1. SetupOf(t.new) = SetupOf(binding.chain[1]) /\ t.new.chain = Tail(binding.chain) /\ binding.chain # <<>>
      BY <1>0, <2>1, <2>4, Before DEF Steadily, Shape
    <3>2. /\ 1 \in DOMAIN binding.chain
          /\ \A i \in DOMAIN t.new.chain : i + 1 \in DOMAIN binding.chain /\ t.new.chain[i] = binding.chain[i + 1]
      BY <2>2, <3>1, TailIs
    <3>3. Offers(t.new)
      BY <2>2, <3>1, <3>2 DEF SetupOf, Offers
    <3> QED BY <1>2, <2>2, <3>2, <3>3
  <2> QED BY <2>1, <2>3, <2>4
<1>3. binding' # NoBinding => Offers(binding') /\ \A i \in DOMAIN binding'.chain : Offers(binding'.chain[i])
  <2>1. CASE binding' = binding
    BY <2>1 DEF Deliverable
  <2> QED BY <1>1, <1>2, <2>1, BindingSteps
<1>4. \A q \in Procs : task'[q] # NoTask /\ task'[q].cmd = "configure" => Offers(task'[q].want)
  BY <1>0, WantsOffered
<1> HIDE DEF Offers
<1> QED BY <1>3, <1>4 DEF Deliverable

(* The transaction of the run is on top of the log and holds what the run  *)
(* found, or what it found is in place.                                    *)
Found(t) == log # <<>> /\ log[1].id = t /\ log[1].before = before.config
Sets(t) ==
  IF t.at \in {"verify", "save", "undo", "release"} THEN Found(t.txn) ELSE config = before.config
Resets(t) ==
  /\ t.at # "drop"
  /\ IF t.at \in {"issue", "confirm", "rollback"} THEN Found(t.txn) ELSE config = before.config
Traces ==
  /\ InRun \/ phase = "ended" => before.bound = (before.config # Original)
  /\ phase = "configuring" => Sets(task[Main])
  /\ phase = "running" \/ (phase = "closing" /\ task[Main] = NoTask) => Found(owed)
  /\ phase = "closing" /\ task[Main] # NoTask => Resets(task[Main])
  /\ phase = "ended" => config = before.config
Traced == mishaps = 0 /\ leaving = 0 => Traces

(* A renewal leaves the configuration and the log alone.                   *)
LEMMA RenewalAlone ==
  ASSUME IInv, NEW p \in Procs, (Step(p) /\ task[p].cmd = "renew") \/ StartRenew(p) \/ Begins(p)
  PROVE  UNCHANGED <<config, log>>
<1>1. CASE Step(p) /\ task[p].cmd = "renew"
  <2>1. task[p].at \in {"lock", "recheck", "issue", "confirm", "rebind", "drop", "retire"}
    BY <1>1, KeepsCommand, Standing DEF Shape
  <2>2. Lock(p) \/ Recheck(p) \/ Issue(p) \/ Confirm(p) \/ Rebind(p) \/ Drop(p) \/ Retire(p)
    BY <1>1, <2>1 DEF Step, At, Ensure, Widen, Apply, Verify, Save, Undo, RevokeNew, RevokePrevious, Rollback, Unbind
  <2> QED BY <2>2 DEF Lock, Recheck, Issue, Confirm, Rebind, Drop, Retire
<1>2. CASE StartRenew(p) \/ Begins(p)
  BY <1>2 DEF StartRenew, Begins
<1> QED BY <1>1, <1>2

(* The run configures.                                                     *)
LEMMA SetsOn ==
  ASSUME Setting, OwnKeys = {}, Step(Main), task[Main].cmd = "configure", task[Main].mode = "runtime",
         Sets(task[Main]), UNCHANGED <<before, mishaps>>
  PROVE  /\ task'[Main] # NoTask => Sets(task[Main])'
         /\ task'[Main] = NoTask =>
              IF task[Main].at = "release" THEN Found(task[Main].txn) /\ UNCHANGED log ELSE config' = before.config
<1> USE TheStrands
<1> DEFINE t == task[Main]
<1>1. /\ t # NoTask /\ t \in Task /\ Shape(t) /\ IInv /\ mishaps \in Nat /\ mishaps + 1 # mishaps
      /\ log \in Seq(Entry) /\ task \in [Procs -> Task \cup {NoTask}]
  BY KeepsCommand, Standing DEF Setting, IInv, TypeOK, Entry
<1>2. t.at \in {"ensure", "issue", "apply", "verify", "save", "undo", "discard", "release", "widen"}
  BY <1>1 DEF Shape
<1>3. CASE t.at = "ensure"
  <2>1. Ensure(Main)
    BY <1>3 DEF At, Step, Widen, Issue, Apply, Verify, Save, Undo, RevokeNew, RevokePrevious, Lock, Recheck, Confirm,
       Rollback, Rebind, Drop, Retire, Unbind
  <2>2. t.mode # "auto" /\ UNCHANGED config
    BY <2>1, KeysAssumption DEF Ensure
  <2>3. Moves(Main, "issue", t.new)
    BY <1>1, <2>1, <2>2, Going DEF Ensure, Steps
  <2> QED BY <1>3, <2>2, <2>3 DEF Sets, Moves
<1>4. CASE t.at = "widen"
  <2>1. Widen(Main)
    BY <1>4 DEF At, Step, Ensure, Issue, Apply, Verify, Save, Undo, RevokeNew, RevokePrevious, Lock, Recheck, Confirm,
       Rollback, Rebind, Drop, Retire, Unbind
  <2>2. UNCHANGED config /\ (Moves(Main, "issue", t.new) \/ Moves(Main, "apply", t.new) \/ End(Main))
    BY <1>1, <2>1, Going DEF Widen, Steps
  <2> QED BY <1>1, <1>4, <2>2, Ended DEF Sets, Moves
<1>5. CASE t.at = "issue"
  <2>1. Issue(Main)
    BY <1>5 DEF At, Step, Ensure, Widen, Apply, Verify, Save, Undo, RevokeNew, RevokePrevious, Lock, Recheck, Confirm,
       Rollback, Rebind, Drop, Retire, Unbind
  <2>2. Unborn # {} /\ Draft(Main, NextCred) \in Binding
    BY <1>1, <1>5, <2>1, DraftIs, BornIs DEF Issue
  <2>3. UNCHANGED config /\ (Moves(Main, "apply", Draft(Main, NextCred)) \/ End(Main))
    BY <1>1, <2>1, <2>2, Going DEF Issue, Steps
  <2> QED BY <1>1, <1>5, <2>3, Ended DEF Sets, Moves
<1>6. CASE t.at = "apply"
  <2> DEFINE x == [t EXCEPT !.at = "verify", !.txn = stamp + 1]
  <2>1. Apply(Main) /\ config # t.want
    <3>1. Steadily(t)
      BY <1>1 DEF Setting, Steady
    <3> QED BY <1>6, <3>1 DEF Steadily, At, Step, Ensure, Widen, Issue, Verify, Save, Undo, RevokeNew, RevokePrevious, Lock, Recheck,
         Confirm, Rollback, Rebind, Drop, Retire, Unbind
  <2>2. x.at = "verify" /\ x.txn = stamp + 1
    BY <1>1 DEF Task
  <2>3. task' = [task EXCEPT ![Main] = x] /\ log' = Pushed
    BY <1>1, <2>1 DEF Apply, Fine, Mishap
  <2>4. task'[Main] = x
    <3> HIDE DEF x
    <3> QED BY <1>1, <2>3
  <2>5. Pushed # <<>> /\ Pushed[1].id = stamp + 1 /\ Pushed[1].before = config
    BY <1>1, PushedIs DEF IInv
  <2>6. log' # <<>> /\ log'[1].id = stamp + 1 /\ log'[1].before = before.config
    BY <1>6, <2>3, <2>5 DEF Sets
  <2>7. x # NoTask
    <3>1. stamp + 1 \in Nat /\ t \in Task
      BY <1>1 DEF IInv, TypeOK
    <3>2. x \in Task
      BY <3>1 DEF Task, Steps
    <3> QED BY <3>2, MarkersAssumption
  <2> HIDE DEF x
  <2> QED BY <2>2, <2>4, <2>6, <2>7 DEF Sets, Found
<1>7. CASE t.at \in {"verify", "save"}
  <2>1. Verify(Main) \/ Save(Main)
    BY <1>7 DEF At, Step, Ensure, Widen, Issue, Apply, Undo, RevokeNew, RevokePrevious, Lock, Recheck, Confirm,
       Rollback, Rebind, Drop, Retire, Unbind
  <2>2. UNCHANGED log /\ (Moves(Main, "save", t.new) \/ Moves(Main, "undo", t.new) \/ Moves(Main, "release", t.new))
    BY <1>1, <2>1, Going DEF Verify, Save, Steps
  <2> QED BY <1>7, <2>2 DEF Sets, Found, Moves, Same
<1>8. CASE t.at = "undo"
  <2>1. Undo(Main)
    BY <1>8 DEF At, Step, Ensure, Widen, Issue, Apply, Verify, Save, RevokeNew, RevokePrevious, Lock, Recheck, Confirm,
       Rollback, Rebind, Drop, Retire, Unbind
  <2>2. Found(t.txn) /\ Head(log) = log[1] /\ log[1].id # NoTxn
    <3>1. Found(t.txn) /\ log # <<>>
      BY <1>8 DEF Sets, Found
    <3>2. Head(log) \in Entry /\ Head(log) = log[1]
      BY <1>1, <3>1, TailIs
    <3> QED BY <3>1, <3>2 DEF Entry, NoTxn
  <2>3. config' = before.config
    BY <1>1, <2>1, <2>2 DEF Undo, RollsBack, RollbackFails, Newest, Found, Mishap
  <2>4. Moves(Main, "discard", t.new)
    BY <1>1, <2>1, Going DEF Undo, Steps
  <2> QED BY <2>3, <2>4 DEF Sets, Moves
<1>9. CASE t.at \in {"discard", "release"}
  <2>1. RevokeNew(Main) \/ RevokePrevious(Main)
    BY <1>9 DEF At, Step, Ensure, Widen, Issue, Apply, Verify, Save, Undo, Lock, Recheck, Confirm,
       Rollback, Rebind, Drop, Retire, Unbind
  <2>2. UNCHANGED <<config, log>> /\ task'[Main] = NoTask
    BY <1>1, <2>1, Ended DEF RevokeNew, RevokePrevious
  <2> QED BY <1>9, <2>2 DEF Sets, Found
<1> QED BY <1>2, <1>3, <1>4, <1>5, <1>6, <1>7, <1>8, <1>9

(* The run takes back.  Without a failing call a reissued credential is    *)
(* confirmed, and the transaction of the run is the newest.                *)
LEMMA ResetsOn ==
  ASSUME Setting, Undisturbed, Step(Main), task[Main].cmd = "restore", Resets(task[Main]),
         UNCHANGED <<before, mishaps>>, mishaps = 0, leaving = 0
  PROVE  /\ task'[Main] # NoTask => Resets(task[Main])'
         /\ task'[Main] = NoTask => config' = before.config
<1> USE TheStrands
<1> DEFINE t == task[Main]
<1>1. /\ t # NoTask /\ t \in Task /\ Shape(t) /\ IInv /\ One /\ mishaps + 1 # mishaps
      /\ log \in Seq(Entry) /\ task \in [Procs -> Task \cup {NoTask}]
  BY KeepsCommand, Standing DEF Setting, IInv, TypeOK, Entry
<1>2. t.at \in {"issue", "confirm", "rollback", "rebind", "retire", "unbind"}
  BY <1>1 DEF Shape, Resets
<1>3. CASE t.at = "issue"
  <2>1. Issue(Main)
    BY <1>3 DEF At, Step, Ensure, Widen, Apply, Verify, Save, Undo, RevokeNew, RevokePrevious, Lock, Recheck, Confirm,
       Rollback, Rebind, Drop, Retire, Unbind
  <2>2. Unborn # {} /\ Draft(Main, NextCred) \in Binding
    BY <1>1, <1>3, <2>1, DraftIs, BornIs DEF Issue
  <2>3. UNCHANGED log /\ Moves(Main, "confirm", Draft(Main, NextCred))
    BY <1>1, <2>1, <2>2, Going DEF Issue, Steps, Mishap
  <2> QED BY <1>3, <2>3 DEF Resets, Found, Moves, Same
<1>4. CASE t.at = "confirm"
  <2>1. Confirm(Main)
    BY <1>4 DEF At, Step, Ensure, Widen, Issue, Apply, Verify, Save, Undo, RevokeNew, RevokePrevious, Lock, Recheck,
       Rollback, Rebind, Drop, Retire, Unbind
  <2>2. t.new # NoBinding /\ t.new.cred \in Creds /\ Ties(t)
    BY <1>1, <1>4, Hands, Turn DEF Shape, MustHoldNew, AtRest, Books
  <2>3. /\ hub[t.new.cred].status # "unborn" /\ hub[t.new.cred].status # "revoked" /\ hub[t.new.cred].status # "withdrawn"
    BY <1>4, <2>2 DEF Ties, Undisturbed
  <2>4. hub[t.new.cred].status = "live"
    BY <1>1, <2>2, <2>3 DEF IInv, TypeOK
  <2>5. UNCHANGED log /\ Moves(Main, "rollback", t.new)
    BY <1>1, <2>1, <2>4, Going DEF Confirm, Steps, Mishap
  <2> QED BY <1>4, <2>5 DEF Resets, Found, Moves, Same
<1>5. CASE t.at = "rollback"
  <2>1. Rollback(Main)
    BY <1>5 DEF At, Step, Ensure, Widen, Issue, Apply, Verify, Save, Undo, RevokeNew, RevokePrevious, Lock, Recheck,
       Confirm, Rebind, Drop, Retire, Unbind
  <2>2. Found(t.txn) /\ Head(log) = log[1]
    BY <1>1, <1>5, TailIs DEF Resets, Found
  <2>3. /\ config' = before.config
        /\ Moves(Main, "rebind", t.new) \/ Moves(Main, "retire", t.new) \/ End(Main)
    BY <1>1, <2>1, <2>2, Going DEF Rollback, RollsBack, RollbackFails, Newest, Found, Mishap, Steps
  <2> QED BY <1>1, <2>3, Ended DEF Resets, Moves
<1>6. CASE t.at = "rebind"
  <2>1. Rebind(Main)
    BY <1>6 DEF At, Step, Ensure, Widen, Issue, Apply, Verify, Save, Undo, RevokeNew, RevokePrevious, Lock, Recheck,
       Confirm, Rollback, Drop, Retire, Unbind
  <2>2. UNCHANGED config /\ Moves(Main, "retire", t.new)
    BY <1>1, <2>1, Going DEF Rebind, Steps, Mishap
  <2> QED BY <1>6, <2>2 DEF Resets, Moves
<1>7. CASE t.at \in {"retire", "unbind"}
  <2>1. Retire(Main) \/ Unbind(Main)
    BY <1>7 DEF At, Step, Ensure, Widen, Issue, Apply, Verify, Save, Undo, RevokeNew, RevokePrevious, Lock, Recheck,
       Confirm, Rollback, Rebind, Drop
  <2>2. UNCHANGED config /\ (Moves(Main, "unbind", t.new) \/ End(Main))
    BY <1>1, <2>1, Going DEF Retire, Unbind, Steps
  <2> QED BY <1>1, <1>7, <2>2, Ended DEF Resets, Moves
<1> QED BY <1>2, <1>3, <1>4, <1>5, <1>6, <1>7

(* What the run configured it can take back.                               *)
LEMMA NotRefused ==
  ASSUME Setting, Undisturbed, Deliverable, mishaps = 0, leaving = 0, Found(owed)
  PROVE  Releases /\ ~Refused
<1>1. log \in Seq(Entry) /\ log # <<>> /\ binding \in Binding \cup {NoBinding}
  BY DEF Found, Setting, IInv, TypeOK, Entry
<1>2. Head(log) = log[1] /\ log[1] \in Entry
  BY <1>1, TailIs
<1>3. Newest(owed) /\ owed # NoTxn /\ ~damaged
  BY <1>1, <1>2 DEF Newest, Found, Entry, NoTxn, Undisturbed
<1>4. ASSUME binding # NoBinding, binding.chain # <<>>
      PROVE  Head(binding.chain).model \in Offered(Head(binding.chain).proto)
  <2>1. binding.chain \in Seq(Target)
    BY <1>1, <1>4, BindingFields
  <2>2. Head(binding.chain) = binding.chain[1] /\ Head(binding.chain) \in Target /\ 1 \in DOMAIN binding.chain
    BY <1>4, <2>1, TailIs
  <2>3. Offers(Head(binding.chain))
    BY <1>4, <2>2 DEF Deliverable
  <2>4. Head(binding.chain).model \in catalog
    BY <2>2, TargetFields DEF Undisturbed
  <2> QED BY <2>3, <2>4 DEF Offered, Offers
<1> QED BY <1>3, <1>4 DEF Releases, Refused

(* A step that leaves the run and its command alone.                       *)
LEMMA TracesStay ==
  ASSUME Traces, UNCHANGED <<config, log, phase, owed, before>>, task'[Main] = task[Main]
  PROVE  Traces'
  BY DEF Traces, InRun, Found, Sets, Resets

LEMMA TracedKept ==
  ASSUME RunInv, Setting, Undisturbed, Deliverable, Traced, Overlap \subseteq {"renew"}, OwnKeys = {}, [GatewayNext]_allVars
  PROVE  Traced'
<1> SUFFICES ASSUME mishaps' = 0, leaving' = 0 PROVE Traces'
  BY DEF Traced
<1> USE TheStrands
<1>0. IInv /\ One /\ Turns /\ Strands /\ [AnyStep]_vars
  BY RunKept DEF RunInv, Setting
<1>1. mishaps = 0 /\ leaving = 0 /\ Traces /\ mishaps' = mishaps
  BY <1>0, Untouched DEF Traced
<1>2. CASE StartRun
  <2>1. StartConfigure(Main) /\ phase' = "configuring" /\ before' = [config |-> config, bound |-> binding # NoBinding]
    BY <1>2 DEF StartRun
  <2>2. Quiet /\ UNCHANGED config
    BY <2>1 DEF StartConfigure, MayStart, Quiet
  <2>3. IF binding = NoBinding THEN config = Original ELSE Describes(binding, config)
    BY <1>1, <2>2, Described DEF BindingDescribesConfig
  <2>4. before'.bound = (before'.config # Original) /\ before'.config = config'
    BY <2>1, <2>2, <2>3 DEF Describes
  <2>5. task'[Main].at \notin {"verify", "save", "undo", "release"}
    BY <1>0, <2>1, StartConfigureShapes DEF Opens
  <2> QED BY <2>1, <2>4, <2>5 DEF Traces, Sets
<1>3. CASE Configuring
  <2>1. /\ phase = "configuring" /\ Step(Main) /\ UNCHANGED before /\ task[Main] # NoTask
        /\ task[Main].cmd = "configure" /\ task[Main].mode = "runtime"
    BY <1>0, <1>3 DEF Configuring, Strands
  <2>2. Sets(task[Main]) /\ before.bound = (before.config # Original)
    BY <1>1, <2>1 DEF Traces, InRun
  <2>3. /\ task'[Main] # NoTask => Sets(task[Main])'
        /\ task'[Main] = NoTask =>
             IF task[Main].at = "release" THEN Found(task[Main].txn) /\ UNCHANGED log ELSE config' = before.config
    BY <1>1, <2>1, <2>2, SetsOn
  <2>4. CASE task'[Main] # NoTask
    BY <1>3, <2>1, <2>2, <2>3, <2>4 DEF Configuring, Traces, InRun
  <2>5. CASE task'[Main] = NoTask /\ task[Main].at = "release"
    <3>1. phase' = "running" /\ owed' = task[Main].txn
      BY <1>3, <2>1, <2>5 DEF Configuring, At
    <3>2. Found(owed)'
      BY <2>1, <2>3, <2>5, <3>1 DEF Found
    <3> QED BY <2>1, <2>2, <3>1, <3>2 DEF Traces
  <2>6. CASE task'[Main] = NoTask /\ task[Main].at # "release"
    <3>1. phase' = "ended"
      BY <1>3, <2>6 DEF Configuring, At
    <3> QED BY <2>1, <2>2, <2>3, <2>6, <3>1 DEF Traces
  <2> QED BY <2>4, <2>5, <2>6
<1>4. CASE AgentExits
  <2>1. phase = "running" /\ phase' = "closing" /\ UNCHANGED <<config, log, owed, before, task>> /\ task[Main] = NoTask
    BY <1>0, <1>4 DEF AgentExits, vars, Strands
  <2> QED BY <1>1, <2>1 DEF Traces, InRun, Found
<1>5. CASE Release
  <2>1. phase = "closing" /\ task[Main] = NoTask /\ Found(owed) /\ before.bound = (before.config # Original)
    BY <1>1, <1>5 DEF Release, Traces, InRun
  <2>2. Releases /\ ~Refused
    BY <1>1, <2>1, NotRefused
  <2>3. StartRestore(Main) /\ phase' = "closing" /\ UNCHANGED before
    BY <1>5, <2>1, <2>2 DEF Release
  <2>4. /\ task'[Main] # NoTask /\ task'[Main].at \in {"issue", "rollback"} /\ task'[Main].txn = Head(log).id
        /\ UNCHANGED <<log, config>>
    BY <1>0, <2>3, BeginsAs DEF StartRestore, IInv, TypeOK
  <2>5. Head(log) = log[1]
    BY <1>0, <2>1, TailIs DEF Found, IInv, TypeOK
  <2>6. Resets(task[Main])'
    BY <2>1, <2>3, <2>4, <2>5 DEF Resets, Found
  <2> QED BY <2>1, <2>3, <2>4, <2>6 DEF Traces
<1>6. CASE Releasing
  <2>1. /\ phase = "closing" /\ Step(Main) /\ UNCHANGED before /\ task[Main] # NoTask /\ task[Main].cmd = "restore"
    BY <1>0, <1>6, KeepsCommand DEF Releasing, Strands
  <2>2. Resets(task[Main]) /\ before.bound = (before.config # Original)
    BY <1>1, <2>1 DEF Traces, InRun
  <2>3. (task'[Main] # NoTask => Resets(task[Main])') /\ (task'[Main] = NoTask => config' = before.config)
    BY <1>1, <2>1, <2>2, ResetsOn
  <2>4. phase' = IF task'[Main] = NoTask THEN "ended" ELSE "closing"
    BY <1>6 DEF Releasing
  <2> QED BY <2>1, <2>2, <2>3, <2>4 DEF Traces
<1>7. ASSUME NEW p \in Procs \ {Main}, Step(p) \/ StartRenew(p) \/ Begins(p), UNCHANGED <<phase, owed, before>>
      PROVE  Traces'
  <2>1. task'[Main] = task[Main]
    BY <1>0, <1>7, KeepsCommand, BeginsAs
  <2>2. UNCHANGED <<config, log>>
    BY <1>0, <1>7, RenewalAlone, KeepsCommand DEF Strands
  <2> QED BY <1>1, <1>7, <2>1, <2>2, TracesStay
<1>8. CASE Renewing
  BY <1>7, <1>8 DEF Renewing
<1>9. ASSUME NEW r \in Requests, Ask(r) PROVE Traces'
  <2>1. UNCHANGED <<phase, owed, before, config, log>>
    BY <1>9 DEF Ask, vars
  <2>2. UNCHANGED task \/ task' = [task EXCEPT ![Renewer] = Renewal]
    BY <1>9 DEF Ask, Renewal, vars
  <2>3. task'[Main] = task[Main]
    BY <1>0, <2>2 DEF IInv, TypeOK
  <2> QED BY <1>1, <2>1, <2>3, TracesStay
<1>10. ASSUME NEW r \in Requests, Answer(r) PROVE Traces'
  <2>1. UNCHANGED <<phase, owed, before, config, log, task>>
    BY <1>10 DEF Answer, vars
  <2> QED BY <1>1, <2>1, TracesStay
<1>11. CASE CoolDown \/ UNCHANGED allVars
  <2>1. UNCHANGED <<phase, owed, before, config, log, task>>
    BY <1>11 DEF CoolDown, vars, allVars, runVars
  <2> QED BY <1>1, <2>1, TracesStay
<1>12. CASE Dies
  <2>1. mishaps' = mishaps + 1 /\ mishaps \in Nat
    BY <1>0, <1>12 DEF Dies, Crash, Mishap, IInv, TypeOK
  <2> QED BY <1>1, <2>1
<1>13. CASE Others
  <2>1. CASE phase' = "idle" /\ ~InRun
    BY <2>1 DEF Traces, InRun
  <2>2. ASSUME NEW p \in Procs \ {Main, Renewer}, Step(p) \/ StartRenew(p), UNCHANGED phase PROVE Traces'
    BY <1>7, <1>13, <2>2 DEF Others
  <2>3. ASSUME NEW p \in Procs, Crash(p) PROVE Traces'
    <3>1. mishaps' = mishaps + 1 /\ mishaps \in Nat
      BY <1>0, <2>3 DEF Crash, Mishap, IInv, TypeOK
    <3> QED BY <1>1, <3>1
  <2>4. CASE (ComeDue \/ Leave) /\ UNCHANGED phase
    <3>1. UNCHANGED <<phase, owed, before, config, log, task>>
      BY <1>13, <2>4 DEF Others, ComeDue, Leave
    <3> QED BY <1>1, <3>1, TracesStay
  <2> QED BY <1>13, <2>1, <2>2, <2>3, <2>4 DEF Others
<1> QED BY <1>2, <1>3, <1>4, <1>5, <1>6, <1>8, <1>9, <1>10, <1>11, <1>12, <1>13 DEF GatewayNext

Whole == RunInv /\ Setting /\ Undisturbed /\ Deliverable /\ Traced
LEMMA WholeInit == GatewayInit => Whole
<1> SUFFICES ASSUME GatewayInit PROVE Whole
  OBVIOUS
<1>1. Setting
  BY Initially, TurnsInit, OneInit, OrderInit, SettingInit DEF Setting, GatewayInit
<1>2. Undisturbed
  BY DEF Undisturbed, GatewayInit, Init
<1>3. Deliverable
  BY DEF Deliverable, GatewayInit, Init
<1>4. Traced
  BY DEF Traced, Traces, InRun, GatewayInit, Init
<1> QED BY <1>1, <1>2, <1>3, <1>4, RunInit DEF Whole

LEMMA WholeKept ==
  Whole /\ Overlap \subseteq {"renew"} /\ OwnKeys = {} /\ "reselect" \notin Situations /\ [GatewayNext]_allVars => Whole'
<1> SUFFICES ASSUME Whole, Overlap \subseteq {"renew"}, OwnKeys = {}, "reselect" \notin Situations, [GatewayNext]_allVars
             PROVE  Whole'
  OBVIOUS
<1>1. RunInv' /\ [AnyStep]_vars /\ IInv
  BY RunKept DEF Whole, RunInv
<1> QED BY <1>1, SettingKept, UndisturbedKept, DeliverableKept, TracedKept DEF Whole

LEMMA LeavesNothing == Whole => RunLeavesNoTrace
<1> SUFFICES ASSUME Whole, phase = "ended", Quiet, mishaps = 0, leaving = 0
             PROVE  /\ config = before.config
                    /\ (binding # NoBinding) = before.bound
                    /\ binding # NoBinding => Describes(binding, config) /\ hub[binding.cred].status = "live"
  BY DEF RunLeavesNoTrace
<1>1. config = before.config /\ before.bound = (before.config # Original)
  BY DEF Whole, Traced, Traces
<1>2. IF binding = NoBinding THEN config = Original ELSE Describes(binding, config)
  BY Described DEF Whole, BindingDescribesConfig
<1>3. (binding # NoBinding) = before.bound
  BY <1>1, <1>2 DEF Describes
<1>4. ASSUME binding # NoBinding PROVE hub[binding.cred].status = "live"
  <2>1. Books(NoTask)
    BY Closed DEF Whole, Setting
  <2>2. binding.cred \in Creds
    BY <1>4, CredsOf DEF Whole, Setting
  <2>3. hub[binding.cred].status \notin {"unborn", "revoked", "withdrawn"}
    BY <1>4, <2>1, <2>2 DEF Books, Usable, Unbinding, Undisturbed, Whole
  <2> QED BY <2>2, <2>3 DEF Whole, Setting, IInv, TypeOK
<1> QED BY <1>1, <1>2, <1>3, <1>4

(* A run with --gateway in which no call fails and during which Hub takes  *)
(* nothing away leaves the configuration it found, and a binding that      *)
(* works if and only if it found one: whatever the agent asked, however    *)
(* often its credential was renewed, and by whom (releaseGateway,          *)
(* executeRestore); one command at a time but for renewals, none asking    *)
(* for what is configured, no keys of the user's own.                      *)
THEOREM RunTakesAllBack ==
  Overlap \subseteq {"renew"} /\ OwnKeys = {} /\ "reselect" \notin Situations => (GatewaySpec => []RunLeavesNoTrace)
<1> SUFFICES ASSUME Overlap \subseteq {"renew"}, OwnKeys = {}, "reselect" \notin Situations
             PROVE  GatewaySpec => []RunLeavesNoTrace
  OBVIOUS
<1> QED BY WholeInit, WholeKept, LeavesNothing, PTL DEF GatewaySpec
=============================================================================
