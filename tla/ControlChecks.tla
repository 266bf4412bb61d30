---------------------------- MODULE ControlChecks ----------------------------
(* The algorithms of the control program and of the updater over bounded   *)
(* inputs: the choice of an update's source, the processes that are ended  *)
(* or waited for, and the diagnosis of an installation.                    *)
EXTENDS Inputs, Integers, Sequences, FiniteSets, SequencesExt, FiniteSetsExt, TLC
-----------------------------------------------------------------------------
(* The choice of an update's source, with this process at version 1.       *)
Source == INSTANCE UpdateSource

Running == 1
Answers(versions, failures) ==
    {Source!Ok(v) : v \in versions} \cup {Source!Err(k) : k \in failures}

Contexts ==
    {Source!PrepareContext(policy, answer, package) :
        policy \in {"auto", "npm-config", "official", "npmmirror"},
        answer \in {"none", "private", Source!Official, Source!Npmmirror},
        package \in {"fastctx", "codex-fastctx"}}

(* The packages of the target that a registry shows so far.                *)
Published(missing, answer) ==
    [p \in Source!Packages |-> IF p = missing THEN answer ELSE "yes"]
Shown == {Published("none", "yes"), Published("platform", "no"),
          Published("codex-fastctx", "transient")}

Worlds ==
    [github : Answers(1..3, {"transient", "structural"}),
     latest : {f \in [Source!Registries -> Answers(1..3, {"transient"})] :
                  f["private"].version # 3},
     exact : [Source!Registries -> Shown]]

GoodLauncher ==
    [receipt |-> "2", package |-> "fastctx", mode |-> "global", files |-> "regular",
     pid |-> 7, handoff |-> 7, driver |-> "node-script", cli |-> "npm-cli.js"]

Launchers ==
    [receipt : {"absent", "1", "2", "3"}, package : {"fastctx", "codex-fastctx", "other"},
     mode : {"global", "exec", "other"}, files : {"regular", "missing"}, pid : {0, 7},
     handoff : {0, 7}, driver : {"node-script", "executable", "unavailable", "other"},
     cli : {"npm-cli.js", "npm", "npm.cmd"}]

(* A world in which every registry has every package of version 2.         *)
Complete ==
    [github |-> Source!Ok(2),
     latest |-> [r \in Source!Registries |-> Source!Ok(2)],
     exact |-> [r \in Source!Registries |-> Published("none", "yes")]]

ChooseSource ==
    /\ Unchosen("source")
    /\ \E context \in Contexts, world \in Worlds :
          input' = [of |-> "source", context |-> context, world |-> world,
                    outcome |-> Source!ProbeChannel("npm", context, world, Running)]

ChooseLauncher ==
    /\ Unchosen("launcher")
    /\ \E launcher \in Launchers, schema \in {2, 3} :
          input' = [of |-> "launcher", launcher |-> launcher, schema |-> schema]

(* An update is offered exactly when one can be installed: the version is  *)
(* the newest an authority reports and newer than the running one, the     *)
(* registry is the first of the policy that has every package of it, and   *)
(* the updater accepts the plan.  Otherwise the answer says what is true:  *)
(* up to date, not yet complete, or no authority answered.                 *)
SelectionIsSound ==
    LET context == input.context
        world == input.world
        outcome == input.outcome
        told == Source!StartupFrom("npm", context, outcome)
        plan == Source!PlanOf("npm", Source!Provenance(GoodLauncher), outcome)
        order == Source!RegistryCandidates(context)
        offered == {order[i].registry : i \in DOMAIN order}
        reported(answers) == {a.version : a \in answers} \ {0}
        official == reported({world.github, world.latest[Source!Official]})
        trusted == IF official # {} THEN official
                   ELSE reported({world.latest[r] : r \in offered})
        complete(r) ==
            /\ world.latest[r].version # 0
            /\ \A p \in {"fastctx", context.package, "platform"} :
                  world.exact[r][p] = "yes"
    IN  IF offered = {} \/ trusted = {}
        THEN outcome.result \in {"transient", "structural"}
        ELSE CASE \A v \in trusted : v <= Running -> told = "npm-current"
               [] \E v \in trusted : v > Running ->
                  IF \A r \in offered : ~complete(r) THEN told = "npm-pending"
                  ELSE /\ told = "available"
                       /\ plan.target \in trusted
                       /\ \A v \in trusted : v <= plan.target
                       /\ \E i \in DOMAIN order :
                             /\ order[i].registry = plan.registry
                             /\ complete(plan.registry)
                             /\ \A j \in 1..(i - 1) : ~complete(order[j].registry)
                       /\ Source!LoadsRequest(Source!Request(3, plan))

(* What the start accepts of the launcher's receipt, the updater accepts   *)
(* of the plan, from this version or from one that wrote the older schema. *)
ReceiptsAreAccepted ==
    LET launcher == input.launcher
        elsewhere == [place |-> "elsewhere", release |-> FALSE,
                      regular |-> TRUE, published |-> TRUE]
        context == Source!PrepareContext("official", "none", launcher.package)
        outcome == Source!ProbeChannel("npm", context, Complete, Running)
        plan == Source!PlanOf("npm", Source!Provenance(launcher), outcome)
    IN  (/\ Source!DetectChannel(launcher, elsewhere) = "npm"
         /\ input.schema = 2 => Source!DriverOf(launcher) = "node-script")
        => Source!LoadsRequest(Source!Request(input.schema, plan))

UpdatesCanBeInstalled ==
    /\ Chosen("source") => SelectionIsSound
    /\ Chosen("launcher") => ReceiptsAreAccepted
-----------------------------------------------------------------------------
(* Processes that run, exit, become another program, leave their PID to    *)
(* another, and cannot be looked at for a while, at every moment at which  *)
(* the program may be about to end them or is waiting for them.            *)
Proc == INSTANCE Processes

Length == 14
Never == Length + 1
(* It runs before the first of the cuts, is a zombie before the second, and *)
(* its PID is unused before the third.                                     *)
HolderAt(cuts, t) == CASE t < cuts[1] -> "it" [] t < cuts[2] -> "zombie" [] t < cuts[3] -> "none" [] OTHER -> "other"
Cuts == UNION {UNION {{<<a, b, c>> : c \in {b, b + 1, Never}} : b \in {a, a + 1, Never}} : a \in 1..Never}
World(cuts, leaves, heir, hidden) ==
    [t \in 1..Length |->
        [holder |-> HolderAt(cuts, t), permitted |-> t \notin hidden,
         image |-> IF HolderAt(cuts, t) = "other" THEN heir ELSE IF t < leaves THEN "managed" ELSE "elsewhere"]]
Hidden == {from..(from + length) : from \in 1..Length, length \in {0, 2, Length}}
Timelines ==
    {World(cuts, leaves, heir, {}) : cuts \in Cuts, leaves \in 1..Never, heir \in {"managed", "elsewhere"}}
    \cup {World(cuts, leaves, "managed", hidden) : cuts \in Cuts, leaves \in {4, Never}, hidden \in Hidden}
ChooseProcess ==
    /\ input = [of |-> "nothing", next |-> "process"]
    /\ \E platform \in Proc!Platforms, world \in Timelines :
          input' = [of |-> "process", platform |-> platform, world |-> world,
                    done |-> Proc!Terminate(platform, world, FALSE),
                    own |-> Proc!Terminate(platform, world, TRUE)]
-----------------------------------------------------------------------------
Runs(world, t) == Proc!Holder(world, t) = "it"
InSight(world, t) == Runs(world, t) /\ Proc!Moment(world, t).image = "managed" /\ Proc!Permitted(world, t)
HiddenBy(world, t) == \E u \in 1..t : ~Proc!Permitted(world, u)

(* A process is reported with the program it runs.                         *)
ImagesBelong(platform, world) ==
    LET found == Proc!InspectProcess(platform, world)
    IN  found.identity # "nobody" => /\ Proc!Holder(world, 2) = found.identity
                                     /\ Proc!Moment(world, 2).image = found.image

(* A signal is sent only after the process was seen running a program of   *)
(* the installation, and reaches nobody else; by PID alone it may reach    *)
(* another process only if it exited after that look.                      *)
SignalIsDue(platform, world, signal) ==
    /\ Runs(world, signal.checked)
    /\ Runs(world, signal.checked + 1) => InSight(world, signal.checked + 1)
    /\ signal.to = "other" => (platform = "macos" /\ ~Runs(world, signal.at))
(* Force is used only on what outlived the request to end.                 *)
ForceIsLast(platform, world, signals) ==
    \A i \in DOMAIN signals :
        (signals[i].kind = "KILL" /\ platform # "windows") =>
            (i = 2 /\ signals[1].kind = "TERM" /\ Runs(world, signals[1].at + 1))
TerminationIsSafe(platform, world, done) ==
        /\ \A i \in DOMAIN done.signals : SignalIsDue(platform, world, done.signals[i])
        /\ ForceIsLast(platform, world, done.signals)
        /\ CASE done.outcome = "terminated" -> ~Runs(world, done.at)
             [] done.outcome = "no longer managed" -> \E t \in 1..done.at : ~InSight(world, t)
             [] OTHER -> Runs(world, done.at) \/ HiddenBy(world, done.at)
        /\ (\A t \in 1..Length : InSight(world, t)) =>
               (done.outcome = "failed" /\ Len(done.signals) = IF platform = "windows" THEN 1 ELSE 2)
        /\ input.own.signals = <<>>

(* A wait ends with an exit only if there was one, is over soon after it is *)
(* cancelled, and does not outlast the process it waits for.               *)
WaitIsTrue(platform, world, cancelled, wait) ==
        /\ wait.at <= Max({cancelled, 4})
        /\ CASE wait.outcome = "exited" -> Runs(world, wait.at) => (platform = "windows" /\ ~Proc!Permitted(world, 2))
             [] wait.outcome = "waiting" -> Runs(world, Length) \/ ~Proc!Permitted(world, Length)
             [] wait.outcome = "cancelled" -> wait.at >= cancelled
             [] OTHER -> HiddenBy(world, wait.at) \/ (platform = "windows" /\ ~Runs(world, 1))
ParentIsTrue(platform, world) ==
    LET parent == Proc!CaptureParent(platform, world)
    IN  CASE parent = "gone" -> Runs(world, 3) => (platform = "windows" /\ ~Proc!Permitted(world, 1))
          [] parent = "failed" -> \A t \in 1..Proc!Attempts : ~Proc!Permitted(world, t)
          [] OTHER -> \E t \in 1..Proc!Attempts : Proc!Object(world, t) = parent

(* A process is ended only while it is one of the installation's, and a    *)
(* process is taken for gone only when it is (processes.rs,                *)
(* process_identity.rs).                                                   *)
ProcessesAreKnown ==
    input.of = "process" =>
        /\ ImagesBelong(input.platform, input.world)
        /\ TerminationIsSafe(input.platform, input.world, input.done)
        /\ \A cancelled \in {2, 5, 9, 3 * Length} :
              WaitIsTrue(input.platform, input.world, cancelled,
                         Proc!WaitForExit(input.platform, input.world, cancelled))
        /\ ParentIsTrue(input.platform, input.world)
-----------------------------------------------------------------------------
(* Installations that were applied, edited and diagnosed; settings files;  *)
(* and servers that are asked for their tools.                             *)
Doc == INSTANCE Doctor

NoBudgets == [tool \in Doc!LongTools |-> Doc!Unset]
OldTable(server) ==
    [keys |-> {"command", "args", "startup_timeout_sec", "env"} \ (IF server = "fastread" THEN {"args"} ELSE {}),
     command |-> IF server = "fastread" THEN "fastread" ELSE "installed", startup |-> 120,
     args |-> IF server = "fastread" THEN <<>> ELSE <<Doc!LegacyArgument(server)>>, enabled |-> FALSE,
     budgets |-> {"TOKEN_BUDGET"}, positive |-> TRUE, inline |-> FALSE]
WithServer(config, server, table) ==
    [config EXCEPT !.servers = "table", !.features = "table", !.code_mode = "table", !.array = "array",
                   !.items = <<"mcp__other", Doc!NamespaceOf(server)>>,
                   !.legacy = [name \in {server} |-> table]]
UserConfig == [Doc!Empty EXCEPT !.servers = "table", !.others = {"other"}, !.features = "table",
                                !.settings = {"web"}, !.code_mode = "table", !.array = "array",
                                !.items = <<"mcp__other", Doc!Namespace, "mcp__more", Doc!Namespace>>, !.limit = 20000]
Configs ==
    {[Doc!Empty EXCEPT !.is = "absent"], Doc!Empty, UserConfig,
     [Doc!Empty EXCEPT !.features = "table", !.code_mode = "table", !.modes = {"mode"}, !.limit = 60000],
     [Doc!Empty EXCEPT !.limit = Doc!NotInteger], [Doc!Empty EXCEPT !.features = "table", !.code_mode = "other"]}
    \cup {WithServer(Doc!Empty, server, OldTable(server)) : server \in Doc!Legacy}
    \cup {WithServer(UserConfig, server, [OldTable(server) EXCEPT !.positive = FALSE]) : server \in Doc!Legacy}
    \cup {WithServer(Doc!Empty, "fastshell", [OldTable("fastshell") EXCEPT !.inline = TRUE]),
          WithServer(Doc!Empty, "fastread", [OldTable("fastread") EXCEPT !.keys = @ \cup {"enabled"}])}
Providers == {<<"missing", FALSE, "missing", "missing">>, <<"ollama", FALSE, "missing", "missing">>,
              <<"own", TRUE, "relay", "plain">>, <<"own", TRUE, "OpenAI", "plain">>, <<"own", TRUE, "OpenAI", "azure">>,
              <<"own", FALSE, "missing", "missing">>, <<"own", TRUE, "invalid", "plain">>,
              <<"own", TRUE, "relay", "invalid">>, <<"amazon-bedrock", FALSE, "missing", "missing">>,
              <<"invalid", FALSE, "missing", "missing">>, <<"openai", TRUE, "OpenAI", "missing">>}
Routed(config, provider) ==
    [config EXCEPT !.model_provider = provider[1],
                   !.provider = [defined |-> provider[2], name |-> provider[3], base_url |-> provider[4]]]
Guidances == {<<>>, <<"user">>, <<"user", "nl">>, <<"user", "crnl">>, <<"user", "nl", "nl">>,
              <<"user", "crnl", "crnl">>, <<"user", "crnl", "nl">>,
              <<"user", "nl">> \o Doc!FastreadSection \o <<"nl", "more">>,
              <<"user", "old begin", "mine", "old end">>, <<"old begin", "user">>,
              <<"user", "nl">> \o Doc!LegacySection("v0.2.4", FALSE) \o <<"crnl", "more">>,
              <<"begin", "mine", "end", "user">>, <<"end", "begin">>, <<"begin", "a", "begin", "end">>}
Fresh(config, guidance, tier, shell) ==
    [profile |-> IF config.is = "absent" THEN "missing" ELSE "directory", config |-> config,
     agents |-> IF guidance = <<>> THEN [is |-> "absent", text |-> <<>>] ELSE [is |-> "text", text |-> guidance],
     settings |-> [is |-> "absent", tier |-> tier, budgets |-> NoBudgets, guard |-> TRUE, shell |-> shell,
                   fastedit |-> FALSE, valid |-> TRUE, applied |-> Doc!NoReceipt],
     binary |-> "missing"]
FreshHomes ==
    {Fresh(config, <<"user">>, "standard", TRUE) : config \in Configs}
    \cup {Fresh(Routed(config, provider), <<"user", "nl">>, "compact", FALSE) :
             config \in {Doc!Empty, UserConfig}, provider \in Providers}
    \cup {Fresh(UserConfig, guidance, "high", shell) : guidance \in Guidances, shell \in BOOLEAN}
-----------------------------------------------------------------------------
(* What may happen to an installation between two commands.                *)
ConfigEdits ==
    {"no limit", "odd limit", "other limit", "no server", "other command", "no startup", "no tool timeout",
     "no env", "other budget", "extra budget", "no args", "no namespace", "two namespaces", "namespace string",
     "inline servers", "inline features", "no config", "garbled config", "unreadable config", "relay",
     "unknown provider", "bad window", "window", "old server"}
EditConfig(config, edit) ==
    CASE edit = "no limit" -> [config EXCEPT !.limit = Doc!Missing]
      [] edit = "odd limit" -> [config EXCEPT !.limit = Doc!NotInteger]
      [] edit = "other limit" -> [config EXCEPT !.limit = 7]
      [] edit = "no server" -> [config EXCEPT !.fastctx = Doc!NoTable]
      [] edit = "other command" -> [config EXCEPT !.fastctx.command = "elsewhere"]
      [] edit = "no startup" -> [config EXCEPT !.fastctx.startup = Doc!Missing]
      [] edit = "no tool timeout" -> [config EXCEPT !.fastctx.tool = Doc!Missing]
      [] edit = "no env" -> [config EXCEPT !.fastctx.env = "missing", !.fastctx.budget = Doc!Missing,
                                           !.fastctx.budgets = Doc!NoTable.budgets]
      [] edit = "other budget" -> [config EXCEPT !.fastctx.budget = 7]
      [] edit = "extra budget" -> [config EXCEPT !.fastctx.budgets["read"] = 7]
      [] edit = "no args" -> [config EXCEPT !.fastctx.args = <<>>]
      [] edit = "no namespace" -> [config EXCEPT !.items = <<"mcp__more">>]
      [] edit = "two namespaces" -> [config EXCEPT !.items = Append(@, Doc!Namespace)]
      [] edit = "namespace string" -> [config EXCEPT !.array = "other", !.items = <<>>]
      [] edit = "inline servers" -> [config EXCEPT !.servers = "inline"]
      [] edit = "inline features" -> [config EXCEPT !.features = "inline"]
      [] edit = "no config" -> [Doc!Empty EXCEPT !.is = "absent"]
      [] edit = "garbled config" -> [Doc!Empty EXCEPT !.is = "garbled"]
      [] edit = "unreadable config" -> [Doc!Empty EXCEPT !.is = "unreadable"]
      [] edit = "relay" -> Routed(config, <<"own", TRUE, "relay", "plain">>)
      [] edit = "unknown provider" -> Routed(config, <<"own", FALSE, "missing", "missing">>)
      [] edit = "bad window" -> [config EXCEPT !.window = 0]
      [] edit = "window" -> [config EXCEPT !.window = 500000]
      [] OTHER -> [config EXCEPT !.servers = IF @ = "missing" THEN "table" ELSE @,
                                 !.legacy = [name \in {"fastshell"} |-> OldTable("fastshell")]]
SettingsEdits == {"tier", "share", "no guard", "shell", "damaged", "invalid", "old receipt", "other profile",
                  "renamed profile"}
EditSettings(settings, edit) ==
    CASE edit = "tier" -> [settings EXCEPT !.tier = IF @ = "high" THEN "compact" ELSE "high"]
      [] edit = "share" -> [settings EXCEPT !.budgets["grep"] = 30]
      [] edit = "no guard" -> [settings EXCEPT !.guard = FALSE]
      [] edit = "shell" -> [settings EXCEPT !.shell = ~@]
      [] edit = "damaged" -> [settings EXCEPT !.is = "damaged"]
      [] edit = "invalid" -> [settings EXCEPT !.valid = FALSE]
      [] ~settings.applied.made -> settings
      [] edit = "old receipt" -> [settings EXCEPT !.applied.tool_timeout = Doc!Missing, !.applied.version = "old",
                                                  !.applied.contract = "none", !.applied.binary = "old"]
      [] edit = "other profile" -> [settings EXCEPT !.applied.profile = "elsewhere"]
      [] OTHER -> [settings EXCEPT !.applied.profile = "alias"]
AgentsEdits == {"no agents", "garbled agents", "unreadable agents", "no section", "own section", "old section",
                "old shell section", "half section", "text before"}
EditAgents(text, edit) ==
    LET range == Doc!SectionRange(text)
        section(new) == [is |-> "text", text |-> Doc!Before(text, range) \o new \o Doc!After(text, range)]
    IN  CASE edit = "no agents" -> [is |-> "absent", text |-> <<>>]
          [] edit = "garbled agents" -> [is |-> "garbled", text |-> <<>>]
          [] edit = "unreadable agents" -> [is |-> "unreadable", text |-> <<>>]
          [] edit = "text before" -> [is |-> "text", text |-> <<"more", "crnl">> \o text]
          [] range \in {Doc!NoRange, Doc!Torn} -> [is |-> "text", text |-> text]
          [] edit = "no section" -> section(<<>>)
          [] edit = "own section" -> section(<<"begin", "mine", "end">>)
          [] edit = "old section" -> section(Doc!LegacySection("v0.2.2", FALSE))
          [] edit = "old shell section" -> section(Doc!LegacySection("v0.2.4", TRUE))
          [] OTHER -> section(<<"begin", "mine">>)
BinaryEdits == {"old", "broken", "missing", "not a file"}
ProfileEdits == {"file", "unreadable"}
Edits == ConfigEdits \cup SettingsEdits \cup AgentsEdits \cup BinaryEdits \cup ProfileEdits
Edit(home, edit) ==
    CASE edit \in ConfigEdits -> [home EXCEPT !.config = IF @.is = "parsed" THEN EditConfig(@, edit) ELSE @]
      [] edit \in SettingsEdits -> [home EXCEPT !.settings = EditSettings(@, edit)]
      [] edit \in AgentsEdits -> [home EXCEPT !.agents = IF @.is = "text" THEN EditAgents(@.text, edit) ELSE @]
      [] edit \in BinaryEdits -> [home EXCEPT !.binary = edit]
      [] OTHER -> [home EXCEPT !.profile = edit, !.config = [Doc!Empty EXCEPT !.is = "unreadable"],
                               !.agents = [is |-> "unreadable", text |-> <<>>]]
ChooseHome ==
    /\ Unchosen("home")
    /\ \E start \in FreshHomes, first \in Edits, second \in Edits, apply \in BOOLEAN :
          /\ ~apply => second = "window"
          /\ start.config # UserConfig => second \in {"window", "old receipt", "tier", "old", "relay"}
          /\ input' = [of |-> "home", start |-> start, applied |-> apply,
                       home |-> LET begun == IF apply /\ Doc!CanPlanApply(start) THEN Doc!PlanApply(start) ELSE start
                                IN  Edit(Edit(begun, first), second)]
-----------------------------------------------------------------------------
Report(home) == Doc!Status(home, IF home.binary = Doc!Version THEN "ok" ELSE "failed")
(* What is not an Apply's to repair: a key of the user's, a setting out of *)
(* range.                                                                  *)
Repairable == {"profile", "config", "guard", "rewrite", "drift", "binary", "mcp", "agents", "shell"}
NotOwned(items) == SelectSeq(items, LAMBDA item : item # Doc!Namespace)
WithoutOwned(config) ==
    [config EXCEPT !.is = "parsed", !.servers = "any", !.fastctx = Doc!NoTable, !.features = "any",
                   !.code_mode = "any", !.array = "any", !.items = NotOwned(@), !.limit = Doc!Missing]
Around(text) ==
    LET range == Doc!SectionRange(text) IN <<Doc!Before(text, range), Doc!After(text, range)>>

(* Apply leaves nothing for Status to find fault with, nothing for a       *)
(* second Apply to change, and whatever is not its own as it was.          *)
ApplyIsComplete(home, after, report) ==
    LET before == Doc!Text(home.agents)
    IN  /\ \A check \in Repairable : report[check] # "fail"
        /\ {report["rewrite"], report["drift"], report["binary"], report["agents"]} = {"pass"}
        /\ home.settings.guard /\ Doc!Detect(home.config) # Doc!Unknown => report["guard"] = "pass"
        /\ Doc!CanPlanApply(after) /\ Doc!PlanApply(after) = after
        /\ Doc!OwnedLegacy(home.config, Doc!Expected(home)) = {}
              => WithoutOwned(after.config) = WithoutOwned(Doc!Source(home.config))
        /\ Doc!LegacyRange(before) = Doc!NoRange /\ Doc!SectionRange(before) # Doc!NoRange
              => Around(after.agents.text) = Around(before)

(* Unapply right after the first Apply leaves what there was before, but   *)
(* for tables that held nothing.                                           *)
Undone(home, after, record, config) ==
    LET stripped == Doc!StripOwnedLegacy(home.config, Doc!Expected(home))
    IN  /\ Doc!CanUnapply(after.config, TRUE, record.previous # Doc!Missing, record.previous)
        /\ [config EXCEPT !.items = <<>>] = [stripped EXCEPT !.is = "parsed", !.items = <<>>,
                                                  !.servers = config.servers, !.features = config.features,
                                                  !.code_mode = config.code_mode, !.array = config.array]
        /\ {config.servers, config.features, config.code_mode} \subseteq {"missing", "table"}
        /\ ToSet(NotOwned(home.config.items)) \ ToSet(config.items)
              \subseteq {Doc!NamespaceOf(server) : server \in Doc!OwnedLegacy(home.config, Doc!Expected(home))}
        /\ Doc!Namespace \notin ToSet(config.items)
        /\ Doc!SectionRange(Doc!Text(home.agents)) = Doc!NoRange
              => Doc!RemoveAppliedSection(after.agents.text, record.separator)
                 = Doc!RemoveExactLegacy(Doc!Text(home.agents))

(* A report without a fault means that an Apply would change nothing; what *)
(* the diagnosis of a rewritten file finds gone has drifted as well; and a *)
(* refreshed guidance never stands in for an Apply.                        *)
ReportIsTrue(home, planned, report, record, refreshed) ==
        /\ Doc!CanPlanApply(home) /\ record.made /\ Doc!Passed(report) /\ report["drift"] = "pass"
           /\ record.tool_timeout # Doc!Missing /\ home.settings.shell = record.shell
           /\ Doc!OwnedLegacy(home.config, Doc!Expected(home)) = {}
              => planned.config = home.config /\ planned.agents = home.agents
        /\ report["rewrite"] = "fail" => report["drift"] = "fail"
        /\ report["agents"] = "pass" => Doc!HasExactSection(home.agents.text, record.shell)
        /\ report["mcp"] = "pass" => home.binary = Doc!Version
        /\ Doc!Detect(home.config) = Doc!Unknown
              => Doc!Expected(home).host_limit = Doc!HostLimit(home.settings.tier)
        /\ Doc!Expected(home).budget < Doc!Expected(home).host_limit
        /\ refreshed # home => /\ Report(refreshed)["agents"] = "fail"
                               /\ Around(refreshed.agents.text) = Around(home.agents.text)
        /\ \A catalog \in {272000, 1000000} :
              home.config.is = "parsed" /\ report["overrides"] # "fail"
              => 10 * Doc!ResolvedCompact(home.config, catalog) <= 9 * Doc!ResolvedWindow(home.config, catalog)
Diagnosed(home, planned) ==
    /\ Doc!CanPlanApply(home) => ApplyIsComplete(home, planned, Report(planned))
    /\ ReportIsTrue(home, planned, Report(home), Doc!Receipt(home), Doc!SynchronizeGuidance(home))
UndoneFrom(start, planned, record) ==
    Undone(start, planned, record,
           Doc!Unapply(planned.config, TRUE, record.previous # Doc!Missing, record.previous))
UndoneBy(start, planned) == UndoneFrom(start, planned, planned.settings.applied)
InstallationsAreDiagnosed ==
    Chosen("home") =>
        /\ Diagnosed(input.home, Doc!PlanApply(input.home))
        /\ ~input.applied /\ Doc!CanPlanApply(input.start) => UndoneBy(input.start, Doc!PlanApply(input.start))
-----------------------------------------------------------------------------
(* Settings files, well written and otherwise.                             *)
Written(changes) ==
    changes @@ [toml |-> TRUE, schema |-> 1, seen |-> Doc!Version, epoch |-> Doc!Epoch, language |-> "missing",
                tier |-> "high", budgets |-> [tool \in Doc!LongTools |-> Doc!Word("missing")], guard |-> FALSE,
                fastshell |-> "table", shell |-> TRUE, storage |-> 5, running |-> Doc!Missing, list |-> 7,
                update |-> "table", auto_check |-> FALSE, source |-> "official", search |-> "missing",
                cores |-> Doc!Missing, replace |-> "missing", replace_limit |-> Doc!Missing, fastedit |-> FALSE]
Shares == {Doc!Word(word) : word \in {"missing", "inherit", "percent75", "percent25", "other"}}
          \cup {[word |-> word, number |-> number] : word \in {"%", "number"}, number \in {0, 1, 37, 50, 75, 100, 101}}
Numbers == {Doc!Missing, Doc!NotInteger, 0, 1, 100, 101}
Kinds == {"missing", "table", "other"}
SettingsFiles ==
    {Written([budgets |-> [tool \in Doc!LongTools |-> IF tool = "read" THEN read ELSE other],
              epoch |-> epoch, seen |-> seen, schema |-> schema]) :
        read \in Shares, other \in {Doc!Word("missing"), Doc!Word("inherit")},
        epoch \in {Doc!Missing, Doc!NotInteger, 0, 1, 2, 3}, seen \in {"missing", "old", Doc!Version},
        schema \in {Doc!Missing, 0, 1, 2}}
    \cup {Written([fastshell |-> kind, storage |-> storage, running |-> running, list |-> list, seen |-> "old"]) :
              kind \in Kinds, storage \in Numbers, running \in Numbers, list \in Numbers}
    \cup {Written([update |-> kind, source |-> source, language |-> language, fastedit |-> fastedit, epoch |-> 1]) :
              kind \in Kinds, source \in {"missing", "auto", "npmmirror", "elsewhere"},
              language \in {"missing", "ja", "xx"}, fastedit \in BOOLEAN}
    \cup {Written([search |-> search, cores |-> cores, replace |-> replace, replace_limit |-> limit, toml |-> toml]) :
              search \in Kinds, cores \in {Doc!NotInteger, 0, 1, 8, 9}, replace \in Kinds,
              limit \in {Doc!Missing, Doc!NotInteger, 63, 64, 256, 4096, 4097}, toml \in BOOLEAN}
ChooseSettings ==
    /\ Unchosen("settings")
    /\ \E raw \in SettingsFiles :
          input' = [of |-> "settings",
                    raw |-> IF raw.search = "missing" THEN [raw EXCEPT !.cores = Doc!Missing] ELSE raw]

(* Starting once changes what starting must change and nothing else, and   *)
(* starting again changes nothing.                                         *)
StartsOnce(raw) ==
    LET normalized == Doc!Normalize(raw)
        started == Doc!Startup(raw)
    IN  /\ Doc!Decodes(normalized) /\ Doc!Decode(normalized) = started
        /\ ~Doc!Normalizes(normalized) /\ Doc!Startup(normalized) = started
        /\ [started EXCEPT !.seen = raw.seen, !.epoch = raw.epoch, !.budgets = Doc!Decode(raw).budgets]
           = Doc!Decode(raw)
        /\ raw.epoch >= Doc!Epoch => normalized.budgets = raw.budgets
        /\ [normalized EXCEPT !.schema = raw.schema, !.seen = raw.seen, !.epoch = raw.epoch, !.budgets = raw.budgets]
           = raw
(* What is saved is what is loaded again, and Status finds no fault with it; *)
(* it can be saved unless Status, or a limit of a replace, forbids it; and *)
(* a reset can always be saved.                                            *)
SavesWhatWasRead(raw) ==
    LET settings == Doc!Startup(raw)
        saved == Doc!Encode(settings)
        reset == Doc!ResetPreferences(settings)
    IN  /\ Doc!Encodes(settings) =>
              /\ Doc!Decodes(saved) /\ ~Doc!Normalizes(saved)
              /\ Doc!Decode(saved) = [settings EXCEPT !.fastedit = FALSE]
              /\ Doc!JobLimits(saved) = "pass" /\ Doc!SearchLimit(saved) = "pass" /\ ~Doc!SourceFellBack(saved)
        /\ Doc!Encodes(settings)
           <=> Doc!SearchLimit(raw) = "pass" /\ settings.replace_limit \in Doc!ReplaceLimits
        /\ Doc!Encodes(reset) /\ ~Doc!Normalizes(Doc!Encode(reset))
(* A limit that is written and not in effect is reported, and no other.    *)
FallbacksAreReported(raw) ==
    LET settings == Doc!Decode(raw)
        lost(written, effective) == raw.fastshell = "table" /\ written # Doc!Missing /\ written # effective
    IN  /\ Doc!JobLimits(raw) = "info"
           <=> \/ lost(raw.storage, settings.storage)
               \/ lost(raw.running, settings.running)
               \/ lost(raw.list, settings.list)
        /\ Doc!SourceFellBack(raw)
           <=> raw.update = "table" /\ raw.source # "missing" /\ raw.source # settings.source
        /\ Doc!SearchLimit(raw) = "pass" => Doc!SearchParallelism(settings.cores) \in 1..Doc!Available
(* A share is a part of the budget, never none of it, and more is more.    *)
SharesAreParts(settings, guarded) ==
    LET output == Doc!EffectiveOutput(settings.tier, settings.budgets, guarded, Doc!Detection("relay", "local"))
        part(level) == Doc!Ceiling(level, output.budget)
    IN  \A tool \in Doc!LongTools :
          LET level == output.shares[tool]
          IN  /\ part(level) \in 100..output.budget /\ part(level) % 100 = 0
              /\ level > 1 => part(level - 1) <= part(level)
SettingsAreKept ==
    Chosen("settings") /\ Doc!Decodes(input.raw) =>
        /\ StartsOnce(input.raw)
        /\ SavesWhatWasRead(input.raw)
        /\ FallbacksAreReported(input.raw)
        /\ \A guarded \in BOOLEAN : SharesAreParts(Doc!Startup(input.raw), guarded)
-----------------------------------------------------------------------------
(* Servers, conformant but for the order and the time of their lines, or   *)
(* conformant but for one thing.                                           *)
Lines == {<<"result", 1>>, <<"result", 2>>, <<"error", 1>>, <<"error", 2>>, <<"request", 2>>,
          <<"notification", Doc!Missing>>, <<"garbage", Doc!Missing>>}
Gaps == {1, 3, 5}
Scripts == BoundedSeq(Lines, 2) \cup {<<a, b, <<"result", 2>>>> : a \in Lines, b \in Lines}
Timed(script, gaps) ==
    LET at(i) == IF i = 1 THEN gaps[1] ELSE IF i = 2 THEN gaps[1] + gaps[2] ELSE gaps[1] + gaps[2] + gaps[3]
    IN  [i \in DOMAIN script |-> [at |-> at(i), is |-> script[i][1], id |-> script[i][2]]]
Conformant(shell) ==
    [starts |-> TRUE, writes |-> 3, lines |-> Timed(<<<<"result", 1>>, <<"result", 2>>>>, <<1, 1, 1>>),
     closes |-> 20, tools |-> Reverse(Doc!PublishedTools(shell)), lingers |-> 1, exit |-> 0, readers_end |-> TRUE]
Deviations(shell) ==
    LET tools == Doc!PublishedTools(shell)
        server == Conformant(shell)
    IN  {server, [server EXCEPT !.starts = FALSE], [server EXCEPT !.exit = 1], [server EXCEPT !.readers_end = FALSE]}
        \cup {[server EXCEPT !.writes = writes, !.closes = 1] : writes \in 0..2}
        \cup {[server EXCEPT !.lingers = time] : time \in {0, 3, 4, 30}}
        \cup {[server EXCEPT !.tools = other] :
                  other \in {tools, Tail(tools), Append(tools, tools[1]), Append(Tail(tools), tools[2]),
                             Doc!PublishedTools(~shell), Append(tools, Doc!Published("other")),
                             [tools EXCEPT ![2].description = "other"], [tools EXCEPT ![1].annotated = FALSE],
                             [tools EXCEPT ![4].destructive = TRUE], [tools EXCEPT ![3].read_only = ~@]}}
ChooseServer ==
    /\ Unchosen("server")
    /\ \/ \E shell \in BOOLEAN : \E server \in Deviations(shell) :
             input' = [of |-> "server", shell |-> shell, server |-> server, probe |-> Doc!Probe(server, shell)]
       \/ \E script \in Scripts, gaps \in [1..3 -> Gaps], closes \in {2, 20} :
             /\ closes = 2 => Len(script) < 3 /\ gaps[1] + gaps[2] <= 2
             /\ \E server \in {[Conformant(FALSE) EXCEPT !.lines = Timed(script, gaps), !.closes = closes]} :
                   input' = [of |-> "server", shell |-> FALSE, server |-> server,
                             probe |-> Doc!Probe(server, FALSE)]

(* The first line that answers a request, if it is a result, comes in time *)
(* and after nothing that is no message.                                   *)
AnswersInTime(server, id, from, until) ==
    \E i \in DOMAIN server.lines :
        /\ server.lines[i].is = "result" /\ server.lines[i].id = id /\ i > from /\ server.lines[i].at <= until
        /\ \A j \in from + 1..i - 1 : server.lines[j].is # "garbage" /\ server.lines[j].id # id
Answering(server) == CHOOSE i \in DOMAIN server.lines :
                        /\ server.lines[i].id = 1
                        /\ \A j \in 1..i - 1 : server.lines[j].id # 1
Conforms(server, shell) ==
    /\ server.starts /\ server.writes = 3
    /\ AnswersInTime(server, 1, 0, Doc!InitializeTimeout)
    /\ AnswersInTime(server, 2, Answering(server), server.lines[Answering(server)].at + Doc!ResponseTimeout)
    /\ server.lingers < Doc!ProcessTimeout /\ server.exit = 0
    /\ \E tools \in {server.tools, Reverse(server.tools)} : tools = Doc!PublishedTools(shell)
(* The probe succeeds for a server that conforms, and for no other; it ends *)
(* whatever the server does, and leaves none running.                      *)
ServersAreProbed ==
    Chosen("server") =>
        LET probe == input.probe
        IN  /\ probe.outcome = "ok" <=> Conforms(input.server, input.shell)
            /\ probe.at <= Doc!InitializeTimeout + Doc!ResponseTimeout + Doc!ProcessTimeout + 2 * Doc!JoinTimeout
            /\ input.server.starts /\ ~probe.killed => input.server.lingers < Doc!ProcessTimeout
            /\ probe.outcome = "ok" => ~probe.killed
==============================================================================
