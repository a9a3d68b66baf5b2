----------------------------- MODULE AgentConfig -----------------------------
(***************************************************************************)
(* One Agent on one machine: the commands that configure it, the launch,   *)
(* the restore, and the user who edits the same files meanwhile.  A        *)
(* command chooses its models from the catalog, detects, inspects, plans,  *)
(* writes and verifies; the file is read again at each of these steps.     *)
(***************************************************************************)
EXTENDS Catalog, AgentDocument

CONSTANTS
  Agents,      \* the Agents the instance looks at
  Worlds,      \* the machines: platform, PATH, variable, .env, product version
  Catalogs,    \* what Hub may answer
  Selections,  \* the references a command may be given
  MaxCalls,    \* bound on commands
  MaxEdits     \* bound on what the user and Hub change

ASSUME AgentsAssumption == Agents \subseteq DOMAIN SupportedProtocols
(* What a PATH holds is what the platform can have on it.                  *)
ASSUME WorldsAssumption ==
  \A w \in Worlds :
    w.path \in Seq(IF w.windows THEN {"exe", "npm", "shim"} ELSE {"native", "foreign"})
(* Arrays are arrays, an address is an address and an id names one entry.  *)
ASSUME CatalogsAssumption ==
  \A c \in DOMAIN Catalogs :
    LET entries == ToSet(Catalogs[c].entries) IN
    /\ Catalogs[c].entries \in Seq(entries)
    /\ \A e, f \in entries : e.id = f.id => e = f
    /\ \A e \in entries : /\ e.offers \in Seq(ToSet(e.offers))
                          /\ \A o \in ToSet(e.offers) : o.url # "none"
ASSUME SelectionsAssumption == \A references \in Selections : references \in Seq(ToSet(references))
ASSUME BoundsAssumption == MaxCalls \in Nat /\ MaxEdits \in Nat

VARIABLES
  agent, world,  \* which Agent on which machine
  catalog,       \* what Hub answers now
  disk,          \* place -> document
  call,          \* the command under way or the last one
  calls,         \* how many commands there have been
  last,          \* the transaction a restore would undo
  bound,         \* protocol and models of the credential stored for the Agent
  edits          \* changes by the user and by Hub so far
vars == <<agent, world, catalog, disk, call, calls, last, bound, edits>>
fixed == <<agent, world>>

NoBinding == [kind |-> "none", protocol |-> "none", ids |-> <<>>]
NoTransaction == [target |-> "none", before |-> Absent, after |-> Absent, previous |-> NoBinding]
NoIntent == [models |-> <<>>, helper |-> FALSE, endpoint |-> [protocol |-> "none", url |-> "none"]]
Idle ==
  [phase |-> "idle", command |-> "none", config |-> "none", wire |-> "none", offered |-> "none",
   ids |-> <<>>, intent |-> NoIntent, target |-> "none", exists |-> FALSE, status |-> "none",
   before |-> Absent, content |-> Absent]
Phases == {"idle", "previewed", "started", "detected", "inspected", "planned", "written", "undoing",
           "connected", "refused", "rolled-back", "launched", "exited"}
Over == {"idle", "connected", "refused", "rolled-back", "exited"}

Init ==
  /\ agent \in Agents
  /\ world \in Worlds
  /\ catalog \in DOMAIN Catalogs
  /\ disk = [p \in Places |-> Absent]
  /\ call = Idle
  /\ calls = 0
  /\ last = NoTransaction
  /\ bound = NoBinding
  /\ edits = 0

Wire == Catalogs[catalog]
Models == joinCatalog(Wire)
ModelsOf(wire) == joinCatalog(Catalogs[wire])
ModelOf(id, wire) == CHOOSE e \in ModelsOf(wire) : e.id = id

Refuse == call' = [Idle EXCEPT !.phase = "refused"]

-----------------------------------------------------------------------------
(* What is to be connected: connect and switch take one model, run several *)
(* with the default first.  An explicit file under a name the Agent cannot *)
(* be pointed at ("odd") matters where a launch follows, in a run.         *)
connectionIntent(models, endpoint, helper) ==
  [models |-> [n \in DOMAIN models |-> models[n].alias], helper |-> helper, endpoint |-> endpoint]

(* The permanent key of a profile stays, and with it the models it covers; *)
(* the credential of a connect is a new one.                               *)
bindingThatSurvives(command, endpoint) ==
  command # "connect" /\ bound.kind = "user" /\ bound.protocol = endpoint.protocol
StartWith(command, config, wire, selected, endpoint, helper) ==
  LET models == IF bindingThatSurvives(command, endpoint)
                THEN modelsAfterSwitch(Models, bound.ids, selected, endpoint) ELSE selected IN
  call' = [Idle EXCEPT !.phase = IF command = "connect" /\ call.phase # "previewed"
                                 THEN "previewed" ELSE "started",
                       !.command = command, !.config = config, !.wire = wire, !.offered = catalog,
                       !.ids = [n \in DOMAIN models |-> models[n].id],
                       !.intent = connectionIntent(models, endpoint, helper)]

Choose(command, config, references, helper) ==
  LET selected == resolveModels(Models, references)
      endpoints == selectSharedProtocol(selected, SupportedProtocols[agent]) IN
  /\ call.phase \in Over
  /\ calls < MaxCalls
  /\ calls' = calls + 1
  /\ command # "run" => Len(references) = 1 /\ config # "odd"
  /\ helper => agent = "claude"
  /\ IF ~ supportsPlatform(agent, world) \/ ~ Parsed(Wire) \/ selected = <<>> \/ endpoints = {}
     THEN Refuse
     ELSE \E o \in endpoints : StartWith(command, config, catalog, selected, o, helper)
  /\ UNCHANGED <<fixed, catalog, disk, last, bound, edits>>

(* A connect reads the catalog again after its preview, and goes on with   *)
(* the model it had where that has gone.                                   *)
Confirm ==
  LET id == Head(call.ids)
      now == {e \in Models : e.id = id}
      model == IF now # {} THEN CHOOSE e \in now : TRUE ELSE ModelOf(id, call.wire)
      endpoints == selectSharedProtocol(<<model>>, SupportedProtocols[agent]) IN
  /\ call.phase = "previewed"
  /\ IF ~ Parsed(Wire) \/ endpoints = {} THEN Refuse
     ELSE \E o \in endpoints :
            StartWith("connect", call.config, call.wire, <<model>>, o, call.intent.helper)
  /\ UNCHANGED <<fixed, catalog, disk, calls, last, bound, edits>>

(* Detection probes the candidates and the version of the product.         *)
Detect ==
  LET target == Target(agent, world, call.config, disk)
      exists == disk[target].shape # "absent" IN
  /\ call.phase = "started"
  /\ IF /\ Available(Detected(agent, world, exists))
        /\ call.command = "run" => Detected(agent, world, exists) = "installed"
     THEN call' = [call EXCEPT !.phase = "detected", !.target = target, !.exists = exists]
     ELSE Refuse
  /\ UNCHANGED <<fixed, catalog, disk, calls, last, bound, edits>>

(* What the integration reads of its target: nothing where detection saw   *)
(* no file.                                                                *)
Read == IF call.exists THEN disk[call.target] ELSE Absent

InspectIt ==
  /\ call.phase = "detected"
  /\ IF ReadFails(Read, call.exists) THEN Refuse
     ELSE call' = [call EXCEPT !.phase = "inspected",
                               !.status = Inspect(agent, Read, world.dotenv).status]
  /\ UNCHANGED <<fixed, catalog, disk, calls, last, bound, edits>>

(* The binding that is saved: the key that stays covers what it covered.   *)
Saved ==
  LET keeps == bindingThatSurvives(call.command, call.intent.endpoint) IN
  [kind |-> IF call.command = "connect" THEN "runtime" ELSE "user",
   protocol |-> call.intent.endpoint.protocol,
   ids |-> IF keeps THEN call.ids \o Among(bound.ids, ToSet(bound.ids) \ ToSet(call.ids))
           ELSE call.ids]

(* The file is read again for the plan; a plan that changes nothing needs  *)
(* no write and no verification, and leaves no transaction to restore.     *)
Plan ==
  LET content == Edited(agent, Read, call.intent) IN
  /\ call.phase = "inspected"
  /\ IF ReadFails(Read, call.exists) \/ Refuses(agent, call.status, Read, call.intent)
     THEN Refuse /\ UNCHANGED <<bound, last>>
     ELSE LET unchanged == call.exists /\ content = Read IN
          /\ call' = [call EXCEPT !.phase = IF unchanged THEN "connected" ELSE "planned",
                                  !.before = Read, !.content = content]
          /\ bound' = IF unchanged THEN Saved ELSE bound
          /\ last' = IF unchanged THEN [last EXCEPT !.previous = NoBinding] ELSE last
  /\ UNCHANGED <<fixed, catalog, disk, calls, edits>>

(* Mutant: whatever the file holds by now is overwritten.                  *)
AnyContent == TRUE
(* The executor writes over the content the plan was made from, and        *)
(* creates only what is not there.                                         *)
SameContent == disk[call.target] = call.before
(* Mutant: the transaction is not recorded.                                *)
WriteUnrecorded ==
  /\ call.phase = "planned" /\ SameContent
  /\ disk' = [disk EXCEPT ![call.target] = call.content]
  /\ call' = [call EXCEPT !.phase = "written"]
  /\ UNCHANGED <<fixed, catalog, calls, last, bound, edits>>
Write ==
  /\ call.phase = "planned"
  /\ IF SameContent
     THEN /\ disk' = [disk EXCEPT ![call.target] = call.content]
          /\ last' = [target |-> call.target, before |-> call.before, after |-> call.content,
                      previous |-> bound]
          /\ call' = [call EXCEPT !.phase = "written"]
     ELSE Refuse /\ UNCHANGED <<disk, last>>
  /\ UNCHANGED <<fixed, catalog, calls, bound, edits>>

Verify ==
  LET d == disk[call.target]
      valid == ~ ReadFails(d, TRUE) /\ Valid(Inspect(agent, d, FALSE)) IN
  /\ call.phase = "written"
  /\ call' = [call EXCEPT !.phase = IF valid THEN "connected" ELSE "undoing"]
  /\ bound' = IF valid THEN Saved ELSE bound
  /\ UNCHANGED <<fixed, catalog, disk, calls, last, edits>>

(* A rollback stops at content that is not what was written.               *)
Undo ==
  /\ call.phase = "undoing"
  /\ IF disk[call.target] = call.content
     THEN /\ disk' = [disk EXCEPT ![call.target] = call.before]
          /\ last' = NoTransaction
          /\ call' = [Idle EXCEPT !.phase = "rolled-back"]
     ELSE Refuse /\ UNCHANGED <<disk, last>>
  /\ UNCHANGED <<fixed, catalog, calls, bound, edits>>

-----------------------------------------------------------------------------
(* The Agent is started on what was configured, under the same --config.   *)
Launch ==
  /\ call.phase = "connected"
  /\ IF Reachable(agent, call.config) /\ Executable(agent, world) # "none"
     THEN call' = [call EXCEPT !.phase = "launched"]
     ELSE Refuse
  /\ UNCHANGED <<fixed, catalog, disk, calls, last, bound, edits>>

ReadsNow == ReadBy(agent, LaunchEnvironment(agent, world, call.config))

(* While it runs OpenCode adds the pointer to its schema to a file of its  *)
(* configuration that lacks it.                                            *)
AgentRuns ==
  /\ call.phase = "launched"
  /\ disk' = [p \in Places |->
                IF agent = "opencode" /\ p \in ReadsNow /\ disk[p].shape = "readable"
                THEN [disk[p] EXCEPT !.schema = TRUE] ELSE disk[p]]
  /\ call' = [call EXCEPT !.phase = "exited"]
  /\ UNCHANGED <<fixed, catalog, calls, last, bound, edits>>

(* A restore takes back what was written, unless the file has changed, and *)
(* issues a credential for the earlier binding, unless its model has gone. *)
Restorable ==
  \/ last.previous = NoBinding
  \/ /\ Parsed(Wire)
     /\ \E e \in Models : /\ e.id = Head(last.previous.ids) /\ Usable(e)
                          /\ \E o \in ToSet(e.offers) : o.protocol = last.previous.protocol
Restore ==
  /\ call.phase \in Over
  /\ calls < MaxCalls
  /\ last # NoTransaction
  /\ calls' = calls + 1
  /\ call' = Idle
  /\ IF Restorable /\ disk[last.target] = last.after
     THEN /\ disk' = [disk EXCEPT ![last.target] = last.before]
          /\ last' = NoTransaction
          /\ bound' = IF last.previous = NoBinding THEN NoBinding
                      ELSE [last.previous EXCEPT !.kind = "runtime"]
     ELSE UNCHANGED <<disk, last, bound>>
  /\ UNCHANGED <<fixed, catalog, edits>>

-----------------------------------------------------------------------------
(* What the user may do to a document an Agent reads.                      *)
Emptied(d) == [d EXCEPT !.url = "none", !.protocol = "none", !.credential = "none", !.models = {}]
EditsOf(d) ==
  IF d.shape = "absent" THEN {[Blank EXCEPT !.rest = 1]}
  ELSE IF d.shape # "readable" THEN {[d EXCEPT !.shape = "readable"], Absent}
  ELSE {Absent, Emptied(d), [d EXCEPT !.rest = @ + 1], [d EXCEPT !.model = "other"],
        [d EXCEPT !.shape = "broken"], [d EXCEPT !.shape = "huge"]}
       \cup (IF agent = "claude"
             THEN {[d EXCEPT !.helper = "users"], [d EXCEPT !.token = TRUE], [d EXCEPT !.marker = "none"]}
             ELSE {[d EXCEPT !.selector = "other"]})
       \cup (IF agent # "claude" /\ d.url # "none"
             THEN {[d EXCEPT !.protocol = "other"], [d EXCEPT !.credential = "other"]} ELSE {})
       \cup (IF agent = "codex" /\ d.url # "none" THEN {[d EXCEPT !.shape = "inline"]} ELSE {})
       \cup (IF agent = "opencode" THEN {[d EXCEPT !.shape = "legacy"]} ELSE {})

UserEdits ==
  /\ edits < MaxEdits
  /\ edits' = edits + 1
  /\ \E p \in ToSet(Candidates(agent, world, call.config)) :
       \E d \in EditsOf(disk[p]) : disk' = [disk EXCEPT ![p] = d]
  /\ UNCHANGED <<fixed, catalog, call, calls, last, bound>>

(* One more change: what spoiled a file that was just written is undone.   *)
UserTakesBack ==
  /\ call.phase = "undoing"
  /\ edits = MaxEdits
  /\ edits' = MaxEdits + 1
  /\ disk[call.target] # call.content
  /\ disk' = [disk EXCEPT ![call.target] = call.content]
  /\ UNCHANGED <<fixed, catalog, call, calls, last, bound>>

HubChanges ==
  /\ edits < MaxEdits
  /\ edits' = edits + 1
  /\ catalog' \in DOMAIN Catalogs \ {catalog}
  /\ UNCHANGED <<fixed, disk, call, calls, last, bound>>

Next ==
  \/ \E command \in {"connect", "run", "switch"}, config \in {"none", "fitting", "odd"},
        references \in Selections, helper \in BOOLEAN : Choose(command, config, references, helper)
  \/ Confirm \/ Detect \/ InspectIt \/ Plan \/ Write \/ Verify \/ Undo
  \/ Launch \/ AgentRuns \/ Restore
  \/ UserEdits \/ UserTakesBack \/ HubChanges

Spec == Init /\ [][Next]_vars

-----------------------------------------------------------------------------
(* The type of the state.                                                  *)
AgentTypeOK ==
  /\ agent \in Agents /\ world \in Worlds /\ catalog \in DOMAIN Catalogs
  /\ DOMAIN disk = Places
  /\ \A p \in Places : DOMAIN disk[p] = DOMAIN Blank
  /\ call.phase \in Phases /\ call.target \in Places \cup {"none"}
  /\ calls \in 0 .. MaxCalls /\ edits \in 0 .. MaxEdits + 1
  /\ last.target \in Places \cup {"none"}
  /\ call.phase = "written" => last.target = call.target

(* The keys of a document that are not those of the integration.           *)
UsersKeys ==
  CASE agent = "claude" -> {"rest", "token", "selector", "protocol", "credential", "models", "schema"}
    [] agent = "opencode" -> {"rest", "token", "marker", "helper"}
    [] OTHER -> {"rest", "token", "models", "marker", "helper", "schema"}

(* What the user keeps in a file beside our keys survives every step of    *)
(* ours, and a document the integration cannot parse or cannot edit safely *)
(* stays as it is, also when it was changed or spoiled between the reading *)
(* of the file and the write over it (discovery.ts,                        *)
(* run-integration-change.ts:164, codex-config.ts:194).                    *)
UsersContentSurvives ==
  [][edits' = edits =>
       \A p \in Places :
         /\ \A k \in UsersKeys : disk'[p][k] = disk[p][k]
         /\ disk[p].shape \in {"broken", "huge", "inline", "legacy"} => disk'[p] = disk[p]]_vars

(* An Agent started after a command reads the file that command wrote and, *)
(* if nobody has changed it, sends to the endpoint and for the model that  *)
(* were chosen, with the credential of the profile unless inspection says  *)
(* why not; it is the installation that was probed, no shim of a shell,    *)
(* and no OpenCode of Windows when that is all there is under WSL.  Left   *)
(* out are two cases where it is not so: the variable of the Agent is set, *)
(* the file is missing there and exists in the home (codex discovery.ts:91 *)
(* falls back to it, the Agent does not), and on Windows an npm package    *)
(* that is launched while another installation answers the probe: an       *)
(* executable anywhere, or a shim ahead of it (process-probe.ts:118).      *)
VariableAside ==
  call.config = "none" /\ world.var /\ call.target = "home" /\ agent \in {"codex", "opencode"}
PackageAside ==
  /\ world.windows /\ Executable(agent, world) = "npm"
  /\ "exe" \in ToSet(world.path) \/ Head(world.path) # "npm"
AsChosen ==
  LET d == disk[call.target]
      sent == Sends(agent, d, world.dotenv) IN
  /\ sent.ours
  /\ sent.url = call.intent.endpoint.url
  /\ sent.protocol = call.intent.endpoint.protocol
  /\ sent.model = Default(call.intent)
  /\ sent.credential = "ours" \/ Inspect(agent, d, world.dotenv).warned
IsTheProbed == Started(world, Executable(agent, world)) = defaultProbe(world)
LaunchedAsConfigured ==
  call.phase = "launched" =>
    /\ ~ VariableAside => call.target \in ReadsNow
    /\ ~ PackageAside => IsTheProbed
    /\ disk[call.target] = call.content => AsChosen
    /\ Started(world, Executable(agent, world)) # "shim"
    /\ agent = "opencode" => ToSet(world.path) # {"foreign"}

(* Every model a connection writes is one the catalog it was chosen from   *)
(* could offer: usable and the only callable entry of its row; and the     *)
(* address written serves it by the catalog read last, unless it has gone  *)
(* (selectSharedProtocol, joinCatalog, modelsAfterSwitch, executeConnect). *)
WrittenModelsAreServed ==
  call.phase = "connected" =>
    LET wire == Catalogs[call.wire] IN
    \A id \in ToSet(call.ids) :
      /\ \E e \in ToSet(wire.entries) :
           /\ e.id = id /\ Usable(e)
           /\ e.of \in ToSet(wire.rows) => EntriesOf(wire, e.of) = {e}
      /\ LET now == {e \in ModelsOf(call.offered) : e.id = id} IN
         \A e \in IF now # {} THEN now ELSE {ModelOf(id, call.wire)} :
           call.intent.endpoint \in ToSet(e.offers)

(* A run or switch that keeps the key loses no model the key covers; what  *)
(* OpenCode can choose from is what the key covers and Hub still serves    *)
(* there, from the selected one on (agent-workflow.ts:638).                *)
StillServed(id) ==
  \E e \in ModelsOf(call.offered) :
    e.id = id /\ Usable(e) /\ call.intent.endpoint \in ToSet(e.offers)
SwitchKeepsTheSet ==
  [][call'.phase = "connected" /\ call.phase # "connected" /\ call.command # "connect" =>
       /\ bound.kind = "user" /\ bound.protocol = call.intent.endpoint.protocol =>
            ToSet(bound.ids) \subseteq ToSet(bound'.ids)
       /\ agent = "opencode" =>
            call'.content.models =
              {ModelOf(id, call.offered).alias : id \in {i \in ToSet(bound'.ids) : StillServed(i)}}]_vars

(* A file Connect created is still as written after the Agent has run on   *)
(* it, so that a restore can take it back (open-code-v2-config.ts:283).    *)
CreatedFileSurvivesTheAgent ==
  [][call.phase = "launched" /\ call'.phase = "exited" =>
       (last.before = Absent /\ last.target # "none" /\ disk[last.target] = last.after
          => disk'[last.target] = last.after)]_vars

(* Where the doctor passes a file of Codex, Hermes or Claude Code, an      *)
(* Agent reading it does use the provider of ours, and Hermes and Claude   *)
(* Code the credential of ours too (diagnose, in the adapters).            *)
DoctorIsHonest ==
  \A p \in Places :
    agent # "opencode" /\ Diagnose(agent, disk[p], world.dotenv) = "pass" =>
      LET sent == Sends(agent, disk[p], world.dotenv) IN
      /\ sent.ours
      /\ agent # "codex" /\ disk[p].marker # "managed-helper" => sent.credential = "ours"

(* A helper command the user has configured is not taken out: only one     *)
(* this integration wrote is (claude-code-settings.ts:172).                *)
UsersHelperStays ==
  [][edits' = edits /\ ~ call.intent.helper =>
       \A p \in Places : disk[p].helper = "users" => disk'[p].helper = "users"]_vars
==============================================================================
