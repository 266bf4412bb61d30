------------------------------- MODULE Doctor -------------------------------
(* The settings file, the receipt of the last Apply, and what Status says  *)
(* of both and of everything Apply wrote.                                  *)
EXTENDS CodexConfig

(* A settings file as it is written: a key is a value of the right type or *)
(* one of the sentinels; "other" is a table that is no table.              *)
CurrentSchema == 1
LegacySchema == 0
Epoch == 2
Version == "current"
Available == 8
MaxParallelism == 16
ReplaceLimits == 64..4096
WrongType(number) == number = NotInteger

Defaults ==
    [schema |-> CurrentSchema, seen |-> "missing", epoch |-> Missing, language |-> "missing", tier |-> "standard",
     budgets |-> [tool \in LongTools |-> Unset], guard |-> TRUE, shell |-> FALSE, storage |-> 1024,
     running |-> 128, list |-> 20, auto_check |-> TRUE, source |-> "auto", cores |-> Missing,
     replace_limit |-> 256, fastedit |-> FALSE]
Or(number, default) == IF number = Missing THEN default ELSE number
Positive(number, default) == IF number > 0 THEN number ELSE default
ListLimit(number) == IF number \in 1..100 THEN number ELSE 20
Sources == {"auto", "npm-config", "official", "npmmirror"}
ParsedSource(source) == IF source \in Sources THEN source ELSE "auto"
Languages == {"en", "ja"}
BadShare(value) == value.word # "missing" /\ FromConfig(value) = Unset
Decodes(raw) ==
    /\ raw.toml
    /\ raw.schema \in {LegacySchema, CurrentSchema}
    /\ {raw.search, raw.replace} \subseteq {"missing", "table"}
    /\ raw.search = "table" => ~WrongType(raw.cores)
    /\ raw.replace = "table" => ~WrongType(raw.replace_limit)
    /\ {raw.fastshell, raw.update} \subseteq {"missing", "table"}
    /\ \A tool \in LongTools : ~BadShare(raw.budgets[tool])
    /\ ~WrongType(raw.epoch)
    /\ raw.language \in {"missing"} \cup Languages
Decode(raw) ==
    LET share(value) == IF value.word = "missing" THEN Unset ELSE FromConfig(value)
        written == raw.fastshell = "table"
    IN  [Defaults EXCEPT
            !.seen = raw.seen, !.epoch = raw.epoch, !.language = raw.language, !.tier = raw.tier,
            !.budgets = [tool \in LongTools |-> share(raw.budgets[tool])],
            !.guard = raw.guard, !.shell = written /\ raw.shell,
            !.storage = IF written THEN Positive(raw.storage, @) ELSE @,
            !.running = IF written THEN Positive(raw.running, @) ELSE @,
            !.list = IF written THEN ListLimit(raw.list) ELSE @,
            !.auto_check = IF raw.update = "table" THEN raw.auto_check ELSE @,
            !.source = IF raw.update = "table" THEN ParsedSource(raw.source) ELSE @,
            !.cores = IF raw.search = "table" THEN raw.cores ELSE @,
            !.replace_limit = IF raw.replace = "table" THEN Or(raw.replace_limit, @) ELSE @,
            !.fastedit = raw.fastedit]

(* Starting a command that may write: the shares chosen for an earlier     *)
(* generation of the budgets are dropped, once.                            *)
Migrates(raw) == Or(raw.epoch, 0) < Epoch
Normalizes(raw) == Migrates(raw) \/ raw.seen # Version
Normalize(raw) ==
    IF ~Normalizes(raw) THEN raw
    ELSE [raw EXCEPT !.schema = CurrentSchema, !.seen = Version, !.epoch = Epoch,
                     !.budgets = IF Migrates(raw) THEN [tool \in LongTools |-> Word("missing")] ELSE @]
Startup(raw) ==
    LET settings == Decode(raw)
    IN  IF ~Normalizes(raw) THEN settings
        ELSE [settings EXCEPT !.seen = Version, !.epoch = Epoch,
                              !.budgets = IF Migrates(raw) THEN Defaults.budgets ELSE @]

SearchParallelism(cores) ==
    LET available == IF Available > MaxParallelism THEN MaxParallelism ELSE Available
    IN  CASE cores = Missing -> available
          [] cores \in 1..available -> cores
          [] OTHER -> Missing
Encodes(settings) ==
    /\ settings.schema = CurrentSchema
    /\ SearchParallelism(settings.cores) # Missing
    /\ settings.replace_limit \in ReplaceLimits
Encode(settings) ==
    LET unlessDefault(value, default) == IF value = default THEN "missing" ELSE "table"
    IN  [toml |-> TRUE, schema |-> settings.schema, seen |-> settings.seen, epoch |-> settings.epoch,
         language |-> settings.language, tier |-> settings.tier,
         budgets |-> [tool \in LongTools |-> IF settings.budgets[tool] = Unset THEN Word("missing")
                                             ELSE Serialize(settings.budgets[tool])],
         guard |-> settings.guard, fastshell |-> "table", shell |-> settings.shell,
         storage |-> settings.storage, running |-> settings.running, list |-> settings.list,
         update |-> "table", auto_check |-> settings.auto_check, source |-> settings.source,
         search |-> unlessDefault(settings.cores, Missing), cores |-> settings.cores,
         replace |-> unlessDefault(settings.replace_limit, 256), replace_limit |-> settings.replace_limit,
         fastedit |-> FALSE]
ResetPreferences(settings) == [Defaults EXCEPT !.seen = settings.seen, !.epoch = Epoch]

(* What Status says of single keys, read from the file once more.          *)
FellBack(raw, key) ==
    /\ raw.fastshell = "table"
    /\ CASE key = "storage" -> raw.storage # Missing /\ raw.storage <= 0
         [] key = "running" -> raw.running # Missing /\ raw.running <= 0
         [] OTHER -> raw.list # Missing /\ raw.list \notin 1..100
JobLimits(raw) ==
    CASE ~Decodes(raw) -> "fail"
      [] \E key \in {"storage", "running", "list"} : FellBack(raw, key) -> "info"
      [] OTHER -> "pass"
SourceFellBack(raw) == raw.update = "table" /\ raw.source # "missing" /\ raw.source \notin Sources
SearchLimit(raw) ==
    IF ~Decodes(raw) \/ SearchParallelism(Decode(raw).cores) = Missing THEN "fail" ELSE "pass"
-----------------------------------------------------------------------------
(* The receipt of an Apply, and the Apply that writes it, with everything  *)
(* it leaves behind.                                                       *)
NoReceipt == [made |-> FALSE]
CurrentContract == "guidance-v4"
Contents == {"current", "old", "broken"}
Targets(record) == record.made /\ record.profile \in {"here", "alias"}
ProfileReceipt(settings) == IF Targets(settings.applied) THEN settings.applied ELSE NoReceipt
Text(file) == IF file.is = "text" THEN file.text ELSE <<>>

Expected(home) ==
    LET output == EffectiveOutput(home.settings.tier, home.settings.budgets, home.settings.guard, Detect(home.config))
    IN  [command |-> "installed", tier |-> home.settings.tier, host_limit |-> output.host_limit,
         budget |-> output.budget, shares |-> output.shares, shell |-> home.settings.shell]
Record(home, expected) ==
    LET previous == ProfileReceipt(home.settings)
        unchanged == previous.made /\ home.agents.is = "text" /\ previous.agents = home.agents.text
                     /\ previous.separator # "none"
    IN  [made |-> TRUE, version |-> Version, command |-> expected.command, profile |-> "here",
         tier |-> expected.tier, host_limit |-> expected.host_limit, tool_timeout |-> ToolTimeout,
         previous |-> IF previous.made THEN previous.previous ELSE PreviousLimit(home.config),
         budget |-> expected.budget, shares |-> expected.shares, shell |-> expected.shell, fastedit |-> FALSE,
         contract |-> CurrentContract,
         separator |-> IF unchanged THEN previous.separator ELSE InsertedSeparator(Text(home.agents)),
         agents |-> ApplySection(Text(home.agents), expected.shell), binary |-> Version]
KeepsSettings(home, expected) ==
    /\ home.config.is = "parsed" /\ Apply(home.config, expected) = home.config
    /\ home.agents.is = "text" /\ ApplySection(home.agents.text, home.settings.shell) = home.agents.text
    /\ home.binary = Version
    /\ ProfileReceipt(home.settings).made
    /\ [ProfileReceipt(home.settings) EXCEPT !.previous = Missing] = [Record(home, expected) EXCEPT !.previous = Missing]
CanPlan(home, expected) ==
    /\ home.settings.is # "damaged"
    /\ home.profile \in {"directory", "missing"}
    /\ home.settings.applied.made => Targets(home.settings.applied)
    /\ CanApply(home.config, expected)
    /\ home.agents.is \in {"absent", "text"} /\ CanApplySection(Text(home.agents))
    /\ home.binary \in {"missing"} \cup Contents
    /\ KeepsSettings(home, expected) \/ home.settings.valid
CanPlanApply(home) == CanPlan(home, Expected(home))
Plan(home, expected) ==
    [home EXCEPT
        !.profile = "directory",
        !.config = Apply(home.config, expected),
        !.agents = [is |-> "text", text |-> ApplySection(Text(home.agents), home.settings.shell)],
        !.binary = Version,
        !.settings = IF KeepsSettings(home, expected) THEN @
                     ELSE [@ EXCEPT !.is = "parsed", !.fastedit = FALSE, !.applied = Record(home, expected)]]
PlanApply(home) == Plan(home, Expected(home))
-----------------------------------------------------------------------------
(* The checks.  Each passes, fails, or only informs.                       *)
CheckProfile(home) ==
    CASE home.profile = "directory" -> "pass" [] home.profile = "missing" -> "info" [] OTHER -> "fail"
CheckConfig(home) ==
    CASE home.config.is = "parsed" -> "pass" [] home.config.is = "absent" -> "info" [] OTHER -> "fail"

Readable(home) == home.settings.is # "damaged"
Receipt(home) == IF Readable(home) THEN ProfileReceipt(home.settings) ELSE NoReceipt
Unread(config) == config.is \in {"absent", "unreadable"}
Agrees(record, output) ==
    record.host_limit = output.host_limit /\ record.budget = output.budget /\ record.shares = output.shares
CheckOutputGuard(home) ==
    LET detection == Detect(home.config)
        record == Receipt(home)
        output == EffectiveOutput(home.settings.tier, home.settings.budgets, home.settings.guard, detection)
    IN  CASE detection.provenance = "unknown" \/ ~Readable(home) -> "info"
          [] RequiresGuard(detection) /\ ~home.settings.guard -> "info"
          [] ~record.made -> "info"
          [] Agrees(record, output) -> "pass"
          [] RequiresGuard(detection) -> "fail"
          [] OTHER -> "info"
Invalid(override) == override # Missing /\ override <= 0
CheckContextOverrides(home) ==
    CASE home.config.is # "parsed" -> "info"
      [] Invalid(home.config.window) \/ Invalid(home.config.compact) -> "fail"
      [] home.config.window = Missing /\ home.config.compact = Missing -> "pass"
      [] OTHER -> "info"
ResolvedWindow(config, catalog) ==
    IF config.window = Missing \/ config.window > catalog THEN catalog ELSE config.window
ResolvedCompact(config, catalog) ==
    LET most == (ResolvedWindow(config, catalog) * 9) \div 10
    IN  IF config.compact = Missing \/ config.compact > most THEN most ELSE config.compact
CheckRewrite(home) ==
    LET record == Receipt(home)
    IN  CASE ~record.made -> "info"
          [] Unread(home.config) -> "fail"
          [] home.config.is # "parsed" -> "info"
          [] MissingReceiptKeys(home.config, record) = {} -> "pass"
          [] OTHER -> "fail"

RecordExpects(record) ==
    [command |-> record.command, tier |-> record.tier, host_limit |-> record.host_limit,
     budget |-> record.budget, shares |-> record.shares, shell |-> record.shell]
ReceiptDrift(home, record) ==
    {key \in {"path"} : record.profile = "alias"}
    \cup {key \in {"command"} : record.command # "installed"}
    \cup {key \in {"binary"} : home.binary # record.binary}
Drifted(home, record) ==
    Drift(home.config, RecordExpects(record), record.tool_timeout)
    \cup ReceiptDrift(home, record)
    \cup {key \in {"fastedit"} : home.settings.fastedit \/ record.fastedit}
Pending(home, record) ==
    LET output == EffectiveOutput(home.settings.tier, home.settings.budgets, home.settings.guard, Detect(home.config))
    IN  ~Agrees(record, output) \/ home.settings.tier # record.tier
CheckDrift(home) ==
    LET record == Receipt(home)
    IN  CASE ~Readable(home) -> "fail"
          [] ~record.made -> "info"
          [] home.config.is # "parsed" \/ home.binary \notin Contents -> "fail"
          [] Drifted(home, record) # {} -> "fail"
          [] Pending(home, record) -> "info"
          [] OTHER -> "pass"

CheckBinary(home) ==
    LET owned == Readable(home) /\ home.settings.applied.made
    IN  CASE home.binary = "not a file" -> "fail"
          [] home.binary = "missing" -> IF owned THEN "fail" ELSE "info"
          [] owned /\ home.binary # home.settings.applied.binary -> "fail"
          [] home.binary # Version -> "fail"
          [] OTHER -> IF owned THEN "pass" ELSE "info"

Unowned(file_only, with_shell) ==
    IF file_only = "drifted" /\ with_shell \in {"current", "legacy"} THEN with_shell ELSE file_only
ClassifyUnowned(text) == Unowned(ClassifySection(text, FALSE), ClassifySection(text, TRUE))
AgentsState(home) ==
    LET record == Receipt(home)
    IN  CASE home.agents.is = "garbled" -> "malformed"
          [] home.agents.is = "absent" -> "missing"
          [] record.made -> ClassifySection(home.agents.text, record.shell)
          [] OTHER -> ClassifyUnowned(home.agents.text)
CheckState(home, record, state) ==
        CASE home.agents.is = "unreadable" -> "fail"
          [] state = "current" /\ record.made -> IF record.contract = CurrentContract THEN "pass" ELSE "fail"
          [] state = "current" -> "info"
          [] state = "missing" -> IF record.made THEN "fail" ELSE "info"
          [] OTHER -> "fail"
CheckAgents(home) == CheckState(home, Receipt(home), AgentsState(home))
(* What the update of an applied installation does about its guidance.     *)
SynchronizeGuidance(home) ==
    IF /\ home.agents.is = "text" /\ Targets(home.settings.applied)
       /\ ClassifySection(home.agents.text, home.settings.applied.shell) = "legacy"
       /\ home.settings.applied.contract = "none"
    THEN [home EXCEPT !.agents.text = RefreshLegacySection(@, home.settings.applied.shell)]
    ELSE home

CheckMcp(home, probe) ==
    IF home.binary \notin Contents /\ ~Receipt(home).made THEN "info"
    ELSE IF probe = "ok" THEN "pass" ELSE "fail"
CheckShell(home) ==
    IF Readable(home) /\ home.settings.shell /\ Receipt(home).made /\ Receipt(home).shell THEN "pass" ELSE "info"
Status(home, probe) ==
    [profile |-> CheckProfile(home), config |-> CheckConfig(home), guard |-> CheckOutputGuard(home),
     overrides |-> CheckContextOverrides(home), rewrite |-> CheckRewrite(home), relay |-> "info",
     drift |-> CheckDrift(home), binary |-> CheckBinary(home), mcp |-> CheckMcp(home, probe),
     surface |-> "info", search |-> IF Readable(home) /\ home.settings.valid THEN "pass" ELSE "fail",
     agents |-> CheckAgents(home), shell |-> CheckShell(home)]
Passed(report) == \A check \in DOMAIN report : report[check] # "fail"
-----------------------------------------------------------------------------
(* The tools a server publishes, and the conversation by which Status      *)
(* finds out whether it publishes exactly those.                           *)
FileTools == <<"inspect_local_file", "grep", "glob", "replace">>
ShellTools == <<"run", "run_background", "job_output", "job_kill", "job_list">>
Reading == {"inspect_local_file", "grep", "glob", "job_output", "job_list"}
ExpectedNames(shell) == IF shell THEN FileTools \o ShellTools ELSE FileTools
Group(name) == IF name \in ToSet(FileTools) THEN "file" ELSE "shell"
Published(name) ==
    [name |-> name, annotated |-> TRUE, read_only |-> name \in Reading, destructive |-> FALSE,
     description |-> "own"]
PublishedTools(shell) == [i \in DOMAIN ExpectedNames(shell) |-> Published(ExpectedNames(shell)[i])]
NamesOf(tools) == {tools[i].name : i \in DOMAIN tools}
ValidTools(tools, shell) ==
    /\ Cardinality(NamesOf(tools)) = Len(tools)
    /\ NamesOf(tools) = ToSet(ExpectedNames(shell))
    /\ \A i \in DOMAIN tools : /\ tools[i].annotated
                               /\ tools[i].read_only = (tools[i].name \in Reading)
                               /\ ~tools[i].destructive
ContractsOf(tools) == {[name |-> tools[i].name, group |-> Group(tools[i].name), hash |-> tools[i]] : i \in DOMAIN tools}

InitializeTimeout == 5
ResponseTimeout == 3
ProcessTimeout == 4
JoinTimeout == 1
Answer(outcome, at, next) == [outcome |-> outcome, at |-> at, next |-> next]
(* The lines of the server from next on, until one answers the request.    *)
ReceiveResponse(server, next, id, from, timeout) ==
    LET deadline == from + timeout
        later(a, b) == IF a > b THEN a ELSE b
        RECURSIVE receive(_)
        receive(i) ==
            IF i > Len(server.lines) \/ server.lines[i].at > deadline
            THEN Answer("timeout", IF server.closes > deadline THEN deadline ELSE later(from, server.closes), i)
            ELSE LET line == server.lines[i]
                 IN  CASE line.is = "garbage" -> Answer("invalid", later(from, line.at), i)
                       [] line.id = id -> Answer(line.is, later(from, line.at), i + 1)
                       [] OTHER -> receive(i + 1)
    IN  receive(next)
(* What the two requests brought, the second only once the first is done.   *)
Told(server, shell, initialized, listed) ==
        CASE server.writes < 1 -> Answer("write", 0, 1)
          [] initialized.outcome \in {"timeout", "invalid", "error"} -> initialized
          [] server.writes < 3 -> Answer("write", initialized.at, initialized.next)
          [] listed.outcome # "result" -> listed
          [] ~ValidTools(server.tools, shell) -> Answer("mismatch", listed.at, listed.next)
          [] ContractsOf(server.tools) # ContractsOf(PublishedTools(shell)) -> Answer("differ", listed.at, listed.next)
          [] OTHER -> Answer("ok", listed.at, listed.next)
Initialized(server, shell, initialized) ==
    Told(server, shell, initialized,
         ReceiveResponse(server, initialized.next, 2, initialized.at, ResponseTimeout))
Conversation(server, shell) ==
    Initialized(server, shell, ReceiveResponse(server, 1, 1, 0, InitializeTimeout))
(* It ends once its input is closed, or is killed.                         *)
ProbeAfter(server, talk) ==
    LET ends == talk.at + server.lingers
        waited == IF talk.outcome # "ok" THEN talk.at
                  ELSE IF server.lingers < ProcessTimeout THEN ends ELSE talk.at + ProcessTimeout
        joined == IF server.readers_end THEN waited ELSE waited + 2 * JoinTimeout
    IN  [outcome |-> IF ~server.starts THEN "spawn"
                     ELSE IF talk.outcome # "ok" THEN talk.outcome
                     ELSE IF server.lingers >= ProcessTimeout THEN "timeout"
                     ELSE IF server.exit # 0 THEN "exit" ELSE "ok",
         killed |-> server.starts /\ (talk.outcome # "ok" \/ server.lingers >= ProcessTimeout),
         at |-> IF server.starts THEN joined ELSE 0]
Probe(server, shell) == ProbeAfter(server, Conversation(server, shell))
=============================================================================
