---------------------------- MODULE AgentDocument ----------------------------
(***************************************************************************)
(* The configuration files of the four Agents and what the integrations    *)
(* make of them: how a plan edits a document, how inspection reads it      *)
(* back, which file is the target and how a launched Agent is pointed at   *)
(* it.  A document is a record of the keys the integrations look at;       *)
(* "rest" stands for everything else in the file.                          *)
(***************************************************************************)
EXTENDS Naturals, SequencesExt

Blank ==
  [shape |-> "readable", selector |-> "none", model |-> "none", url |-> "none",
   protocol |-> "none", credential |-> "none", models |-> {}, marker |-> "none",
   helper |-> "none", token |-> FALSE, schema |-> FALSE, rest |-> 0]
Absent == [Blank EXCEPT !.shape = "absent"]

(* A shape the parser of an Agent takes: "broken" stands for a syntax      *)
(* error, a wrong root or a wrong type, "inline" for a provider of ours in *)
(* a layout of TOML that the textual edit cannot address, "legacy" for the *)
(* plural providers of OpenCode, "huge" for a file above the size limit.   *)
parseCodexConfig(d) == d.shape \in {"readable", "inline"}
parseClaudeCodeSettings(d) == d.shape = "readable"
parseHermesConfig(d) == d.shape = "readable"
parseOpenCodeConfig(d) == d.shape = "readable"

(* Reading stops at the size limit and where the file has gone.            *)
ReadFails(d, exists) == exists /\ d.shape \in {"absent", "huge"}

SupportedProtocols ==
  [codex |-> {"responses"},
   claude |-> {"messages"},
   hermes |-> {"chat", "messages"},
   opencode |-> {"responses", "chat"}]

-----------------------------------------------------------------------------
(* Editing.  An intent has the models of the connection, the default       *)
(* first, the endpoint, and whether the Agent fetches the credential       *)
(* through a helper command of this CLI.                                   *)

Default(intent) == Head(intent.models)

(* The two root keys, and the provider table as a whole.                   *)
setProviderTable(d, intent) ==
  [d EXCEPT !.url = intent.endpoint.url, !.credential = "ours", !.protocol = "responses"]
(* Mutant: a table in a layout that cannot be edited is edited all the     *)
(* same.                                                                   *)
EditableLayout(d) == d.shape # "inline"
planCodexConfig(d, intent) ==
  [setProviderTable(d, intent) EXCEPT
     !.shape = "readable", !.model = Default(intent), !.selector = "ours"]

(* The helper of an earlier connection goes with its marker.               *)
HelperAfter(d, intent) ==
  IF intent.helper THEN "ours" ELSE IF d.marker = "managed-helper" THEN "none" ELSE d.helper
planClaudeCodeSettings(d, intent) ==
  [d EXCEPT !.shape = "readable", !.url = intent.endpoint.url, !.model = Default(intent),
            !.marker = IF intent.helper THEN "managed-helper" ELSE "managed",
            !.helper = HelperAfter(d, intent)]

hermesApiMode(protocol) == CASE protocol = "chat" -> "chat" [] protocol = "messages" -> "messages"
planHermesConfig(d, intent) ==
  [d EXCEPT !.shape = "readable", !.model = Default(intent), !.selector = "ours",
            !.url = intent.endpoint.url, !.credential = "ours",
            !.protocol = hermesApiMode(intent.endpoint.protocol)]

validateModels(models) == models # <<>> /\ IsInjective(models)
createProvider(d, intent) ==
  [d EXCEPT !.url = intent.endpoint.url, !.credential = "ours",
            !.protocol = intent.endpoint.protocol, !.models = ToSet(intent.models)]
(* Mutant: a new file does not carry the pointer to the schema.            *)
planWithoutSchema(d, intent) ==
  [createProvider(d, intent) EXCEPT !.shape = "readable", !.model = Default(intent), !.selector = "ours"]
planOpenCodeV2Config(d, intent) ==
  [createProvider(d, intent) EXCEPT
     !.shape = "readable", !.model = Default(intent), !.selector = "ours",
     !.schema = @ \/ d.shape = "absent"]

Edited(agent, d, intent) ==
  CASE agent = "codex" -> planCodexConfig(d, intent)
    [] agent = "claude" -> planClaudeCodeSettings(d, intent)
    [] agent = "hermes" -> planHermesConfig(d, intent)
    [] agent = "opencode" -> planOpenCodeV2Config(d, intent)

(* What a plan refuses: a status inspection found, and a document that is  *)
(* no longer the one inspection saw.                                       *)
CodexRefuses(d, intent) ==
  d.shape # "absent" /\ (~ parseCodexConfig(d) \/ ~ EditableLayout(d))
ClaudeRefuses(d, intent) == d.shape # "absent" /\ ~ parseClaudeCodeSettings(d)
HermesRefuses(d, intent) == d.shape # "absent" /\ ~ parseHermesConfig(d)
OpenCodeRefuses(d, intent) ==
  \/ d.shape # "absent" /\ ~ parseOpenCodeConfig(d)
  \/ ~ validateModels(intent.models)
Refuses(agent, status, d, intent) ==
  \/ status \in {"legacy", "invalid"}
  \/ intent.endpoint.protocol \notin SupportedProtocols[agent]
  \/ CASE agent = "codex" -> CodexRefuses(d, intent)
       [] agent = "claude" -> ClaudeRefuses(d, intent)
       [] agent = "hermes" -> HermesRefuses(d, intent)
       [] agent = "opencode" -> OpenCodeRefuses(d, intent)

-----------------------------------------------------------------------------
(* Reading back *)

NotConfigured ==
  [status |-> "not-configured", managed |-> FALSE, models |-> {}, protocol |-> "none",
   warned |-> FALSE]
Invalid == [NotConfigured EXCEPT !.status = "invalid", !.warned = TRUE]
Bound(model) == {model} \ {"none"}

(* Mutant: whether the provider is selected is not looked at.              *)
inspectCodexTable(d) ==
  IF d.shape = "absent" THEN NotConfigured
  ELSE IF ~ parseCodexConfig(d) THEN Invalid
  ELSE IF d.url = "none" THEN NotConfigured
  ELSE [status |-> "configured", managed |-> TRUE, models |-> Bound(d.model),
        protocol |-> "responses", warned |-> FALSE]
inspectCodex(d) ==
  LET selected == d.selector = "ours"
      responses == d.protocol \in {"none", "responses"} IN
  IF d.shape = "absent" THEN NotConfigured
  ELSE IF ~ parseCodexConfig(d) THEN Invalid
  ELSE IF d.url = "none" THEN NotConfigured
  ELSE [status |-> "configured", managed |-> TRUE,
        models |-> IF selected THEN Bound(d.model) ELSE {},
        protocol |-> IF responses THEN "responses" ELSE "unknown",
        warned |-> ~ selected \/ ~ responses]

inspectClaudeCode(d) ==
  LET managed == d.marker \in {"managed", "managed-helper"} IN
  IF d.shape = "absent" THEN NotConfigured
  ELSE IF ~ parseClaudeCodeSettings(d) THEN Invalid
  ELSE IF d.url = "none" THEN NotConfigured
  ELSE [status |-> "configured", managed |-> managed, models |-> Bound(d.model),
        protocol |-> "messages",
        warned |-> \/ ~ managed
                   \/ d.token
                   \/ d.helper # "none" /\ d.marker # "managed-helper"]

(* dotenv: the .env of Hermes defines the variable of the credential.      *)
inspectHermes(d, dotenv) ==
  LET managed == d.credential = "ours" IN
  IF d.shape = "absent" THEN NotConfigured
  ELSE IF ~ parseHermesConfig(d) THEN Invalid
  ELSE IF d.url = "none" THEN NotConfigured
  ELSE [status |-> "configured", managed |-> managed,
        models |-> IF managed THEN Bound(d.model) ELSE {},
        protocol |-> IF d.protocol \in {"chat", "messages"} THEN d.protocol ELSE "unknown",
        warned |-> ~ managed \/ dotenv \/ d.selector # "ours"]

inspectOpenCode(d) ==
  IF d.shape = "absent" THEN NotConfigured
  ELSE IF d.shape = "legacy" THEN [Invalid EXCEPT !.status = "legacy"]
  ELSE IF ~ parseOpenCodeConfig(d) THEN Invalid
  ELSE IF d.url = "none" THEN NotConfigured
  ELSE [status |-> "configured", managed |-> TRUE, models |-> d.models,
        protocol |-> IF d.protocol \in {"responses", "chat"} THEN d.protocol ELSE "unknown",
        warned |-> FALSE]

Inspect(agent, d, dotenv) ==
  CASE agent = "codex" -> inspectCodex(d)
    [] agent = "claude" -> inspectClaudeCode(d)
    [] agent = "hermes" -> inspectHermes(d, dotenv)
    [] agent = "opencode" -> inspectOpenCode(d)

Valid(inspection) ==
  inspection.status = "configured" /\ inspection.managed /\ inspection.models # {}

(* The check of a doctor on the file of an Agent it has found.             *)
CodexCheck(i) ==
  IF i.status = "invalid" THEN "fail" ELSE IF i.managed /\ ~ i.warned THEN "pass" ELSE "warning"
ClaudeCheck(i) ==
  IF i.status = "invalid" THEN "fail" ELSE IF i.warned \/ ~ i.managed THEN "warning" ELSE "pass"
HermesCheck(i) ==
  IF i.status = "invalid" THEN "fail" ELSE IF i.warned \/ ~ i.managed THEN "warning" ELSE "pass"
OpenCodeCheck(i) ==
  IF i.status \in {"invalid", "legacy"} THEN "fail" ELSE IF i.managed THEN "pass" ELSE "warning"
Diagnose(agent, d, dotenv) ==
  LET i == Inspect(agent, d, dotenv) IN
  IF d.shape = "huge" THEN "fail"
  ELSE CASE agent = "codex" -> CodexCheck(i)
         [] agent = "claude" -> ClaudeCheck(i)
         [] agent = "hermes" -> HermesCheck(i)
         [] agent = "opencode" -> OpenCodeCheck(i)

-----------------------------------------------------------------------------
(* Which file.  A place stands for a directory and the one or two names an *)
(* Agent looks for in it; "var" is the directory of the variable that      *)
(* moves the configuration (CODEX_HOME, HERMES_HOME, XDG_CONFIG_HOME).     *)

Places == {"explicit", "project", "var", "home"}
VarPlace(world) == IF world.var THEN <<"var">> ELSE <<>>

codexCandidates(world, config) ==
  IF config # "none" THEN <<"explicit">> ELSE VarPlace(world) \o <<"home">>
claudeCandidates(world, config) == IF config # "none" THEN <<"explicit">> ELSE <<"home">>
hermesCandidates(world, config) ==
  IF config # "none" THEN <<"explicit">> ELSE IF world.var THEN <<"var">> ELSE <<"home">>
openCodeCandidates(world, config) ==
  IF config # "none" THEN <<"explicit">> ELSE <<"project">> \o VarPlace(world) \o <<"home">>
Candidates(agent, world, config) ==
  CASE agent = "codex" -> codexCandidates(world, config)
    [] agent = "claude" -> claudeCandidates(world, config)
    [] agent = "hermes" -> hermesCandidates(world, config)
    [] agent = "opencode" -> openCodeCandidates(world, config)

(* The first candidate that is there; else the first of the user, which    *)
(* only OpenCode has to look for.                                          *)
Existing(disk, candidates) == SelectInSeq(candidates, LAMBDA p : disk[p].shape # "absent")
Target(agent, world, config, disk) ==
  LET candidates == Candidates(agent, world, config)
      existing == Existing(disk, candidates) IN
  IF existing # 0 THEN candidates[existing]
  ELSE candidates[SelectInSeq(candidates, LAMBDA p : p # "project")]

(* Hermes has no Windows build.                                            *)
supportsPlatform(agent, world) == agent = "hermes" => ~ world.windows

(* Versions in order; a prerelease comes before its release.               *)
Precedes(v, w) == v.n < w.n \/ (v.n = w.n /\ v.pre /\ ~ w.pre)
Meets(v, comparator) ==
  CASE comparator.op = ">=" -> ~ Precedes(v, comparator.of)
    [] comparator.op = ">" -> Precedes(comparator.of, v)
    [] comparator.op = "<=" -> ~ Precedes(comparator.of, v)
    [] comparator.op = "<" -> Precedes(v, comparator.of)
    [] comparator.op = "=" -> ~ Precedes(v, comparator.of) /\ ~ Precedes(comparator.of, v)
satisfiesVersionRange(v, range) == \A c \in ToSet(range) : Meets(v, c)

Release(n) == [n |-> n, pre |-> FALSE]
From(n) == [op |-> ">=", of |-> Release(n)]
Below(n) == [op |-> "<", of |-> Release(n)]
VersionRanges ==
  [codex |-> <<From(1)>>, hermes |-> <<From(1)>>,
   claude |-> <<From(1), Below(3)>>, opencode |-> <<From(1), Below(3)>>]

(* The installation that answers the version probe: the first of the PATH, *)
(* on Windows the first executable there is, else the first shim.          *)
defaultProbe(world) ==
  IF world.windows /\ "exe" \in ToSet(world.path) THEN "exe"
  ELSE IF world.path = <<>> THEN "none" ELSE Head(world.path)

(* An installation without a readable version passes.                      *)
probeExecutableVersion(world) == world.versions[defaultProbe(world)]
Covered(agent, version) == version.n = 0 \/ satisfiesVersionRange(version, VersionRanges[agent])
Detected(agent, world, exists) ==
  IF defaultProbe(world) # "none"
  THEN IF Covered(agent, probeExecutableVersion(world)) THEN "installed" ELSE "unsupported"
  ELSE IF exists THEN "config-only" ELSE "not-found"
Available(status) == status \in {"installed", "config-only"}

-----------------------------------------------------------------------------
(* Launching.  The PATH is the sequence of what its directories hold:      *)
(* "native" and "foreign" (a Windows installation under WSL), or on        *)
(* Windows "exe", "npm" (a shim with the executable in its package) and    *)
(* "shim".                                                                 *)

OnPath(world, kinds) == SelectInSeq(world.path, LAMBDA k : k \in kinds)
FirstOf(world, kinds) ==
  IF OnPath(world, kinds) = 0 THEN "none" ELSE world.path[OnPath(world, kinds)]
resolveCodexExecutable(world) == IF world.windows THEN FirstOf(world, {"exe", "npm"}) ELSE "bare"
resolveClaudeCodeExecutable(world) == IF world.windows THEN FirstOf(world, {"exe"}) ELSE "bare"
hermesExecutable(world) == IF world.windows THEN "none" ELSE "bare"
foreignInstallation(world) == "foreign" \in ToSet(world.path) /\ "native" \notin ToSet(world.path)
resolveOpenCodeExecutable(world) ==
  IF world.windows THEN FirstOf(world, {"exe", "npm"})
  ELSE IF foreignInstallation(world) THEN "none" ELSE "bare"
Executable(agent, world) ==
  CASE agent = "codex" -> resolveCodexExecutable(world)
    [] agent = "claude" -> resolveClaudeCodeExecutable(world)
    [] agent = "hermes" -> hermesExecutable(world)
    [] agent = "opencode" -> resolveOpenCodeExecutable(world)

(* An explicit file is reached through a flag (Claude Code) or, under a    *)
(* "fitting" name only, through the variable of the Agent.                 *)
Reachable(agent, config) == agent = "claude" \/ config \in {"none", "fitting"}
(* Mutant: the launched Agent is not pointed at the explicit file.         *)
OwnEnvironment(agent, world, config) == [var |-> IF world.var THEN "var" ELSE "home", flag |-> FALSE]
LaunchEnvironment(agent, world, config) ==
  [var |-> IF config # "none" /\ agent # "claude" THEN "explicit"
           ELSE IF world.var THEN "var" ELSE "home",
   flag |-> config # "none" /\ agent = "claude"]

(* The installation a spawned name starts, and the files the Agent reads.  *)
Started(world, executable) ==
  IF executable = "bare" THEN IF world.path = <<>> THEN "none" ELSE Head(world.path) ELSE executable
ReadBy(agent, environment) ==
  CASE agent = "claude" -> IF environment.flag THEN {"explicit"} ELSE {"home"}
    [] agent = "opencode" -> {"project", environment.var}
    [] OTHER -> {environment.var}

(* What an Agent sends on such a document, with the credential in its      *)
(* variable: where, for which model, and whose credential.                 *)
Sends(agent, d, dotenv) ==
  [ours |-> d.url # "none" /\ (agent = "claude" \/ d.selector = "ours"),
   url |-> d.url, model |-> d.model,
   protocol |-> IF agent = "claude" THEN "messages" ELSE d.protocol,
   credential |-> IF agent = "claude" THEN IF d.token THEN "other"
                                           ELSE IF d.helper = "none" THEN "ours" ELSE d.helper
                  ELSE IF agent = "hermes" /\ dotenv THEN "other" ELSE d.credential]
==============================================================================
