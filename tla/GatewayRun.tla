------------------------------ MODULE GatewayRun ------------------------------
(***************************************************************************)
(* apexnova run <agent> --gateway: the command configures the agent for a  *)
(* gateway on loopback, launches it, forwards its requests on the Hub      *)
(* credential it holds, replaces that credential when it comes due, and    *)
(* takes everything back when the agent exits.  The command and the        *)
(* renewal are two strands of one process, Main and Renewer, and tasks of  *)
(* Connection; other processes may renew the same binding meanwhile.       *)
(***************************************************************************)
EXTENDS Connection, FiniteSets

CONSTANTS
  Main, Renewer,   \* the two strands
  Requests,        \* requests the agent has open at a time
  LateRenewal,     \* whether the agent may exit while a renewal is under way
  MaxDue           \* bound: credentials that reach their rotation window

ASSUME StrandsAssumption == {Main, Renewer} \subseteq Procs /\ Main # Renewer

VARIABLES
  phase,      \* of the command
  owed,       \* the transaction the run has to take back, or NoTxn
  before,     \* history: configuration and binding the run found
  held,       \* the credential the gateway sends requests on
  cooling,    \* a renewal failed less than a minute ago
  request     \* [Requests -> {Idle, Waiting} \cup Creds]: sent on a credential

runVars == <<phase, owed, before, held, cooling, request>>
allVars == <<vars, runVars>>

Idle == 0
Waiting == -1
ASSUME RequestsAssumption == {Idle, Waiting, NoBinding} \cap Creds = {}
Phases == {"idle", "configuring", "running", "closing", "ended"}
GatewayTypeOK ==
  /\ TypeOK
  /\ phase \in Phases /\ owed \in Nat
  /\ before \in [config : Setup \cup {Original}, bound : BOOLEAN]
  /\ held \in Creds \cup {NoBinding} /\ (phase = "running" => held # NoBinding)
  /\ cooling \in BOOLEAN
  /\ request \in [Requests -> {Idle, Waiting} \cup Creds]

GatewayInit ==
  /\ Init
  /\ phase = "idle" /\ owed = NoTxn /\ held = NoBinding /\ cooling = FALSE
  /\ before = [config |-> Original, bound |-> FALSE]
  /\ request = [r \in Requests |-> Idle]

-----------------------------------------------------------------------------
(* The command *)

InRun == phase \in {"configuring", "running", "closing"}

(* With --gateway the agent is always configured anew, and always on a     *)
(* runtime credential.                                                     *)
StartRun ==
  /\ phase \in {"idle", "ended"}
  /\ StartConfigure(Main) /\ task'[Main].mode = "runtime"
  /\ phase' = "configuring"
  /\ before' = [config |-> config, bound |-> binding # NoBinding]
  /\ owed' = NoTxn /\ cooling' = FALSE
  /\ UNCHANGED <<held, request>>

(* What the gateway starts on.  The mutant starts on the binding the run   *)
(* found.                                                                  *)
FoundCred == IF task[Main].prev = NoBinding THEN NoBinding ELSE task[Main].prev.cred
BoundCred == task[Main].new.cred

(* configureAgent goes on; it has succeeded when its last step is done.    *)
(* Then the agent is launched on what was bound.                           *)
Configuring ==
  /\ phase = "configuring" /\ Step(Main)
  /\ IF task'[Main] # NoTask THEN UNCHANGED <<phase, owed, held>>
     ELSE IF At(Main, "release")
     THEN phase' = "running" /\ owed' = task[Main].txn /\ held' = BoundCred
     ELSE phase' = "ended" /\ UNCHANGED <<owed, held>>
  /\ UNCHANGED <<before, cooling, request>>

(* The agent exits: releaseGateway closes the server, whatever it still    *)
(* forwards, and restores the transaction of the run.  A restore that is   *)
(* refused is a warning.                                                   *)
AgentExits ==
  /\ phase = "running" /\ (LateRenewal \/ task[Renewer] = NoTask)
  /\ phase' = "closing"
  /\ request' = [r \in Requests |-> Idle]
  /\ UNCHANGED <<vars, owed, before, held, cooling>>

(* Mutant: it takes back only what no earlier connection is under.         *)
ReleasesFirst == owed # NoTxn /\ ~before.bound
Releases == owed # NoTxn
Refused ==
  \/ ~Newest(owed) \/ damaged
  \/ /\ binding # NoBinding /\ binding.txn = owed /\ binding.chain # <<>>
     /\ Head(binding.chain).model \notin Offered(Head(binding.chain).proto)
Release ==
  /\ phase = "closing" /\ task[Main] = NoTask
  /\ IF Releases /\ ~Refused
     THEN StartRestore(Main) /\ owed' = NoTxn /\ UNCHANGED phase
     ELSE phase' = "ended" /\ UNCHANGED <<vars, owed>>
  /\ UNCHANGED <<before, held, cooling, request>>

Releasing ==
  /\ phase = "closing" /\ Step(Main)
  /\ phase' = IF task'[Main] = NoTask THEN "ended" ELSE phase
  /\ UNCHANGED <<owed, before, held, cooling, request>>

-----------------------------------------------------------------------------
(* The gateway *)

(* What the gateway holds after a renewal that returned c.  The mutant     *)
(* goes on with the credential it was started with.                        *)
KeepsHolding(c) == held
Holding(c) == c

(* gatewayCredential, up to the renewal it may have to wait for.  Requests *)
(* that come while one is under way share it.                              *)
Due(c) == c \in due
Ask(r) ==
  /\ phase = "running" /\ request[r] = Idle
  /\ IF ~Due(held) \/ cooling
     THEN request' = [request EXCEPT ![r] = held] /\ UNCHANGED <<vars, held, cooling>>
     ELSE IF task[Renewer] # NoTask
     THEN request' = [request EXCEPT ![r] = Waiting] /\ UNCHANGED <<vars, held, cooling>>
     ELSE \/ /\ StillDue
             /\ task' = [task EXCEPT ![Renewer] =
                  [cmd |-> "renew", at |-> "lock", mode |-> "runtime", want |-> Original,
                   prev |-> NoBinding, new |-> NoBinding, txn |-> NoTxn, unsaved |-> FALSE]]
             /\ request' = [request EXCEPT ![r] = Waiting]
             /\ UNCHANGED <<hub, catalog, due, binding, config, log, damaged, lock, counters,
                            excused, held, cooling>>
          \/ /\ ~StillDue
             /\ held' = IF binding = NoBinding THEN held ELSE Holding(binding.cred)
             /\ cooling' = (binding = NoBinding)
             /\ request' = [request EXCEPT ![r] = held']
             /\ UNCHANGED vars
  /\ UNCHANGED <<phase, owed, before>>

(* The renewal goes on.  When it settles the gateway holds what it         *)
(* returned, or keeps what it had and leaves Hub alone for a minute; the   *)
(* requests that waited are sent on that.  Mutant: they are forgotten.     *)
Returned ==
  IF At(Renewer, "retire") THEN task[Renewer].new.cred
  ELSE IF At(Renewer, "recheck") /\ binding # NoBinding /\ ~StillDue THEN binding.cred
  ELSE held
LeftWaiting(c) == request
Served(c) == [r \in Requests |-> IF request[r] = Waiting THEN c ELSE request[r]]
Failed == ~At(Renewer, "retire") /\ ~(At(Renewer, "recheck") /\ binding # NoBinding /\ ~StillDue)
Renewing ==
  /\ Step(Renewer)
  /\ IF task'[Renewer] # NoTask THEN UNCHANGED <<held, cooling, request>>
     ELSE /\ held' = Holding(Returned) /\ cooling' = Failed
          /\ request' = Served(held')
  /\ UNCHANGED <<phase, owed, before>>

(* Answered, refused or timed out: reported, and never sent again.         *)
Answer(r) ==
  /\ request[r] \in Creds
  /\ request' = [request EXCEPT ![r] = Idle]
  /\ UNCHANGED <<vars, phase, owed, before, held, cooling>>

CoolDown ==
  /\ cooling /\ cooling' = FALSE
  /\ UNCHANGED <<vars, phase, owed, before, held, request>>

-----------------------------------------------------------------------------
(* The rest of the system *)

(* The process dies; the configuration keeps naming its gateway.           *)
Dies ==
  /\ InRun
  /\ \/ task[Renewer] = NoTask /\ Crash(Main)
     \/ task[Main] = NoTask /\ Crash(Renewer)
     \/ /\ task[Main] = NoTask /\ task[Renewer] = NoTask /\ Mishap
        /\ UNCHANGED <<hub, catalog, due, binding, config, log, damaged, lock, task, calls,
                       leaving, stamp, excused>>
  /\ phase' = "ended" /\ request' = [r \in Requests |-> Idle]
  /\ UNCHANGED <<owed, before, held, cooling>>

(* Commands of the user while no gateway runs, and of other processes.     *)
Others ==
  /\ \/ /\ ~InRun
        /\ (Step(Main) \/ StartConfigure(Main) \/ StartRestore(Main) \/ Crash(Main))
        /\ phase' = "idle"
     \/ /\ \E p \in Procs \ {Main, Renewer} : (Step(p) \/ StartRenew(p) \/ Crash(p))
        /\ UNCHANGED phase
     \/ /\ (ComeDue /\ Cardinality(due) < MaxDue) \/ Leave
        /\ UNCHANGED phase
  /\ UNCHANGED <<owed, before, held, cooling, request>>

GatewayNext ==
  \/ StartRun \/ Configuring \/ AgentExits \/ Release \/ Releasing \/ Renewing \/ CoolDown
  \/ \E r \in Requests : Ask(r) \/ Answer(r)
  \/ Dies \/ Others

RestoreByUser == ~InRun /\ StartRestore(Main) /\ phase' = "idle" /\ UNCHANGED <<owed, before, held, cooling, request>>
OwnSteps ==
  \/ Configuring \/ Release \/ Releasing
  \/ ~InRun /\ Step(Main) /\ phase' = "idle" /\ UNCHANGED <<owed, before, held, cooling, request>>
OtherSteps(p) == p \notin {Main, Renewer} /\ Step(p) /\ UNCHANGED runVars
(* The strands and processes run, and the user keeps asking for restore    *)
(* while no gateway runs, as in Connection.  The agent may run for ever.   *)
GatewaySpec ==
  /\ GatewayInit /\ [][GatewayNext]_allVars
  /\ WF_allVars(OwnSteps) /\ WF_allVars(Renewing)
  /\ WF_allVars(RestoreByUser) /\ \A p \in Procs : WF_allVars(OtherSteps(p))

-----------------------------------------------------------------------------
(* Properties *)

(* Outside the minute after a failed renewal, no request is sent on a      *)
(* credential Connect has revoked: the requests of a run outlive the       *)
(* credential it started on, whoever renewed the binding                   *)
(* (gatewayCredential, renewGatewayCredential).                            *)
SentOnUsable ==
  [][\A r \in Requests :
       request[r] \notin Creds /\ request'[r] \in Creds /\ ~cooling' =>
         hub'[request'[r]].status # "revoked"]_allVars

(* A run that is over, and in which no call failed, has left nothing: the  *)
(* configuration is the one it found, and a binding is there only if there *)
(* was one, and describes it (releaseGateway).                             *)
RunLeavesNoTrace ==
  phase = "ended" /\ Quiet /\ mishaps = 0 /\ leaving = 0 =>
    /\ config = before.config
    /\ (binding # NoBinding) = before.bound
    /\ binding # NoBinding => Describes(binding, config) /\ hub[binding.cred].status = "live"

(* A request waits for one renewal, not for ever.                          *)
RequestsGoOut == \A r \in Requests : request[r] = Waiting ~> request[r] # Waiting

(* When the runs are over, whoever keeps asking for restore gets the       *)
(* configuration from before the first connection back, whatever single    *)
(* call failed or process died (releaseGateway, executeRestore).           *)
UndoneAfterRuns == <>[](phase # "running") => EverythingUndone
=============================================================================
