----------------------------- MODULE CodexConfig -----------------------------
(* What Apply writes into Codex's config.toml and AGENTS.md, what Unapply  *)
(* takes out again, and what of it Status looks for.  A document is the    *)
(* value of each key these look at; a number that is missing or no integer *)
(* is one of two sentinels.                                                *)
EXTENDS Integers, Sequences, FiniteSets, SequencesExt

Missing == -1
NotInteger == -2
Unset == 0
Inherit == 100
LongTools == {"read", "grep", "glob", "run", "job_output"}

HostLimit(tier) == CASE tier = "compact" -> 20000 [] tier = "standard" -> 60000 [] OTHER -> 100000
FastctxBudget(tier) == CASE tier = "compact" -> 18000 [] tier = "standard" -> 54000 [] OTHER -> 90000
DefaultBudgets(tier) ==
    LET excerpts == CASE tier = "compact" -> 50 [] tier = "standard" -> 20 [] OTHER -> 12
        listings == CASE tier = "compact" -> 25 [] tier = "standard" -> 10 [] OTHER -> 6
    IN  [tool \in LongTools |-> CASE tool = "read" -> Inherit
                                  [] tool \in {"grep", "run"} -> excerpts
                                  [] OTHER -> listings]

(* A share of the budget, 1 to 100 percent; the whole of it is not written. *)
FromPercent(percent) == IF percent \in 1..100 THEN percent ELSE Unset
Resolve(level, global) ==
    LET raw == (global * level + 50) \div 100
        rounded == ((raw + 50) \div 100) * 100
    IN  IF level = Inherit THEN Missing ELSE IF rounded = 0 THEN 100 ELSE rounded
Ceiling(level, global) == IF Resolve(level, global) = Missing THEN global ELSE Resolve(level, global)

(* How a share is spelled in the settings file.                            *)
Word(word) == [word |-> word, number |-> Missing]
FromConfig(value) ==
    CASE value.word = "inherit" -> Inherit
      [] value.word = "percent75" -> 75
      [] value.word = "percent50" -> 50
      [] value.word = "percent25" -> 25
      [] value.word \in {"%", "number"} -> FromPercent(value.number)
      [] OTHER -> Unset
Serialize(level) ==
    CASE level = Inherit -> Word("inherit")
      [] level = 75 -> Word("percent75")
      [] level = 50 -> Word("percent50")
      [] level = 25 -> Word("percent25")
      [] OTHER -> [word |-> "number", number |-> level]

OrDefaults(preferences, defaults) ==
    [tool \in LongTools |-> IF preferences[tool] = Unset THEN defaults[tool] ELSE preferences[tool]]
-----------------------------------------------------------------------------
(* The provider a document selects, and whether its route is to be         *)
(* protected from answers that do not fit.                                 *)
Detection(provenance, compaction) == [provenance |-> provenance, compaction |-> compaction]
Unknown == Detection("unknown", "unknown")
Azure(provider) == provider.name = "azure" \/ provider.base_url = "azure"
Detect(document) ==
    LET id == IF document.model_provider = "missing" THEN "openai" ELSE document.model_provider
        provider == document.provider
    IN  CASE document.is = "absent" -> Detection("official", "remote-v2")
          [] document.is # "parsed" \/ id = "invalid" -> Unknown
          [] id = "amazon-bedrock" -> Detection("bedrock", "remote-v1")
          [] id \in {"ollama", "lmstudio"} -> Detection("local", "local")
          [] id = "openai" /\ ~provider.defined -> Detection("official", "remote-v2")
          [] ~provider.defined \/ provider.name = "invalid" \/ provider.base_url = "invalid" -> Unknown
          [] Azure(provider) -> Detection("azure", "remote-v2")
          [] provider.name = "OpenAI" /\ provider.base_url = "missing" -> Detection("official", "remote-v2")
          [] provider.name = "OpenAI" -> Detection("relay", "remote-v2")
          [] OTHER -> Detection("relay", "local")
RequiresGuard(detection) == detection.provenance \in {"local", "relay"}

GuardedHostLimit == 10000
GuardedBudget == 9000
EffectiveOutput(tier, preferences, guard, detection) ==
    IF guard /\ RequiresGuard(detection)
    THEN [mode |-> "guarded", host_limit |-> GuardedHostLimit, budget |-> GuardedBudget,
          shares |-> OrDefaults(preferences, [tool \in LongTools |-> Inherit])]
    ELSE [mode |-> "selected", host_limit |-> HostLimit(tier), budget |-> FastctxBudget(tier),
          shares |-> OrDefaults(preferences, DefaultBudgets(tier))]
-----------------------------------------------------------------------------
(* A server's table, and the tables of the three servers FastCtx once had. *)
NoTable == [is |-> "missing", command |-> "missing", args |-> <<>>, startup |-> Missing, tool |-> Missing,
            env |-> "missing", budget |-> Missing, budgets |-> [tool \in LongTools |-> Missing]]
StartupTimeout == 120
ToolTimeout == 300
ServerArgs(shell) == IF shell THEN <<"serve", "--enable-shell">> ELSE <<"serve">>
BuildTable(expected) ==
    [is |-> "table", command |-> expected.command, args |-> ServerArgs(expected.shell),
     startup |-> StartupTimeout, tool |-> ToolTimeout, env |-> "table", budget |-> expected.budget,
     budgets |-> [tool \in LongTools |-> Resolve(expected.shares[tool], expected.budget)]]

Legacy == {"fastread", "fastshell", "fastedit"}
LegacyArgument(server) == IF server = "fastshell" THEN "shell-serve" ELSE "edit-serve"
OptionalTableIsOwned(server, table, expected) ==
    /\ table.keys = {"command", "args", "startup_timeout_sec", "env"}
    /\ table.command = expected.command
    /\ table.startup = StartupTimeout
    /\ table.args = <<LegacyArgument(server)>>
    /\ table.budgets = {"TOKEN_BUDGET"} /\ table.positive
FastreadTableIsOwned(table) ==
    /\ {"command", "startup_timeout_sec", "env"} \subseteq table.keys
    /\ table.keys \subseteq {"command", "startup_timeout_sec", "enabled", "env"}
    /\ table.startup = StartupTimeout
    /\ "enabled" \in table.keys => ~table.enabled
    /\ table.command = "fastread"
    /\ "TOKEN_BUDGET" \in table.budgets /\ table.positive
    /\ table.budgets \subseteq {"TOKEN_BUDGET", "READ_TOKEN_BUDGET", "GREP_TOKEN_BUDGET", "GLOB_TOKEN_BUDGET"}
OwnedLegacy(document, expected) ==
    {server \in DOMAIN document.legacy :
        /\ document.servers = "table"
        /\ IF server = "fastread" THEN FastreadTableIsOwned(document.legacy[server])
           ELSE OptionalTableIsOwned(server, document.legacy[server], expected)}
StripOwnedLegacy(document, expected) ==
    [document EXCEPT !.legacy = [server \in DOMAIN document.legacy \ OwnedLegacy(document, expected)
                                    |-> document.legacy[server]]]

NamespaceOf(server) == "mcp__" \o server
Namespace == NamespaceOf("fastctx")
Reconcile(items, namespace, enabled) ==
    LET matching == {i \in DOMAIN items : items[i] = namespace}
        first == IF enabled THEN {i \in matching : \A j \in matching : i <= j} ELSE {}
        kept == [i \in DOMAIN items |-> IF i \in matching \ first THEN "dropped" ELSE items[i]]
        rest == SelectSeq(kept, LAMBDA item : item # "dropped")
    IN  IF enabled /\ matching = {} THEN Append(rest, namespace) ELSE rest
-----------------------------------------------------------------------------
(* Apply and Unapply of one document.  They refuse a document where a key  *)
(* of theirs holds something else.                                         *)
Empty == [is |-> "parsed", servers |-> "missing", fastctx |-> NoTable, others |-> {},
          legacy |-> [server \in {} |-> NoTable], features |-> "missing", settings |-> {},
          code_mode |-> "missing", modes |-> {}, array |-> "missing", items |-> <<>>, limit |-> Missing,
          model_provider |-> "missing", provider |-> [defined |-> FALSE, name |-> "missing", base_url |-> "missing"],
          window |-> Missing, compact |-> Missing]
Source(document) == IF document.is = "absent" THEN Empty ELSE document

EnsuredTable(kind) == kind \in {"missing", "table"}
CanApply(document, expected) ==
    /\ document.is \in {"absent", "parsed"}
    /\ \A server \in OwnedLegacy(document, expected) : ~document.legacy[server].inline
    /\ document.limit # NotInteger
    /\ EnsuredTable(document.servers) /\ EnsuredTable(document.features) /\ EnsuredTable(document.code_mode)
    /\ document.array # "other"
Without(items, server, owned) == IF server \in owned THEN Reconcile(items, NamespaceOf(server), FALSE) ELSE items
LegacyFree(items, owned) ==
    Without(Without(Without(items, "fastread", owned), "fastshell", owned), "fastedit", owned)
ApplyTo(source, expected) ==
    [StripOwnedLegacy(source, expected) EXCEPT
        !.servers = "table", !.fastctx = BuildTable(expected),
        !.features = "table", !.code_mode = "table", !.array = "array",
        !.items = Reconcile(LegacyFree(source.items, OwnedLegacy(source, expected)), Namespace, TRUE),
        !.limit = expected.host_limit]
Apply(document, expected) == ApplyTo(Source(document), expected)
PreviousLimit(document) == Source(document).limit
Conflict(document, expected) == PreviousLimit(document) \notin {Missing, expected.host_limit}

CanUnapply(document, restore, present, previous) ==
    /\ document.is \in {"absent", "parsed"}
    /\ EnsuredTable(document.servers) /\ EnsuredTable(document.features) /\ EnsuredTable(document.code_mode)
    /\ document.array # "other"
    /\ restore /\ present => previous # Missing /\ document.limit # NotInteger
Unapply(document, restore, present, previous) ==
    LET source == Source(document)
        items == Reconcile(source.items, Namespace, FALSE)
        array == IF items = <<>> THEN "missing" ELSE source.array
        code_mode == IF array = "missing" /\ source.modes = {} THEN "missing" ELSE source.code_mode
    IN  [source EXCEPT
            !.servers = IF source.others = {} /\ DOMAIN source.legacy = {} THEN "missing" ELSE @,
            !.fastctx = NoTable,
            !.items = items, !.array = array, !.code_mode = code_mode,
            !.features = IF code_mode = "missing" /\ source.settings = {} THEN "missing" ELSE @,
            !.limit = IF ~restore THEN @ ELSE IF present THEN previous ELSE Missing]
CurrentLimit(document) == IF document.is = "parsed" /\ document.limit # NotInteger THEN document.limit ELSE Missing
HasServer(document, server) ==
    /\ document.is = "parsed" /\ document.servers \in {"table", "inline"}
    /\ IF server = "fastctx" THEN document.fastctx.is # "missing" ELSE server \in DOMAIN document.legacy
HasNamespace(document, namespace) ==
    /\ document.is = "parsed" /\ {document.features, document.code_mode} \subseteq {"table", "inline"}
    /\ document.array = "array" /\ \E i \in DOMAIN document.items : document.items[i] = namespace
-----------------------------------------------------------------------------
(* What of an Apply's keys a document no longer holds as they were written, *)
(* and which are gone.                                                     *)
TableLike(kind) == kind \in {"table", "inline"}
ServerTable(document) == IF TableLike(document.servers) THEN document.fastctx ELSE NoTable
OwnNamespaces(document) ==
    IF TableLike(document.features) /\ TableLike(document.code_mode) /\ document.array = "array"
    THEN {i \in DOMAIN document.items : document.items[i] = Namespace} ELSE {}
BudgetKeys(tools) == {"env." \o tool : tool \in tools}
TableDrift(table, expected, tool_timeout) ==
    {key \in {"command", "startup_timeout_sec", "tool_timeout_sec", "env", "args"} :
        CASE key = "command" -> table.command # expected.command
          [] key = "startup_timeout_sec" -> table.startup # StartupTimeout
          [] key = "tool_timeout_sec" -> tool_timeout # Missing /\ table.tool # tool_timeout
          [] key = "env" -> table.env # "table"
          [] OTHER -> table.args # ServerArgs(expected.shell)}
EnvDrift(table, expected) ==
    IF table.env # "table" THEN {}
    ELSE {key \in {"env"} : table.budget # expected.budget}
         \cup BudgetKeys({tool \in LongTools :
                            table.budgets[tool] # Resolve(expected.shares[tool], expected.budget)})
Drift(document, expected, tool_timeout) ==
    LET table == ServerTable(document)
    IN  (IF table.is = "table" THEN TableDrift(table, expected, tool_timeout) \cup EnvDrift(table, expected)
         ELSE {"mcp_servers.fastctx"})
        \cup {key \in {"namespace"} : Cardinality(OwnNamespaces(document)) # 1}
        \cup {key \in {"limit"} : document.limit # expected.host_limit}

MissingReceiptKeys_EveryBudget(document, record) ==
    {key \in {"limit"} : document.limit = Missing}
    \cup BudgetKeys({tool \in LongTools : ServerTable(document).budgets[tool] = Missing})

MissingReceiptKeys(document, record) ==
    LET table == ServerTable(document)
        gone == {key \in {"command", "args", "startup_timeout_sec", "tool_timeout_sec"} :
                    CASE key = "command" -> table.command = "missing"
                      [] key = "args" -> table.args = <<>>
                      [] key = "startup_timeout_sec" -> table.startup = Missing
                      [] OTHER -> record.tool_timeout # Missing /\ table.tool = Missing}
        budgets == {key \in {"env"} : table.budget = Missing}
                   \cup BudgetKeys({tool \in LongTools :
                            /\ Resolve(record.shares[tool], record.budget) # Missing
                            /\ table.budgets[tool] = Missing})
    IN  {key \in {"limit"} : document.limit = Missing}
        \cup (CASE table.is # "table" -> {"mcp_servers.fastctx"}
                [] table.env # "table" -> gone \cup {"env"}
                [] OTHER -> gone \cup budgets
                            \cup {key \in {"namespace"} : OwnNamespaces(document) = {}})
-----------------------------------------------------------------------------
(* AGENTS.md: pieces of text, markers and line ends.  Between the markers  *)
(* stands the guidance of one release, with or without that of the shell.  *)
Guidance(release, shell) == IF shell THEN release \o "+shell" ELSE release
Releases == {"v0.2.4", "v0.2.2"}
Section(shell) == <<"begin", Guidance("current", shell), "end">>
LegacySection(release, shell) == <<"begin", Guidance(release, shell), "end">>
FastreadSection == <<"old begin", "fastread", "old end">>

Markers(first, last) == [first |-> first, last |-> last]
NoRange == Markers(0, 0)
Torn == Markers(-1, -1)
MarkerRange(text, begin, end) ==
    LET begins == {i \in DOMAIN text : text[i] = begin}
        ends == {i \in DOMAIN text : text[i] = end}
        first == CHOOSE i \in begins : TRUE
        last == CHOOSE i \in ends : TRUE
    IN  CASE begins = {} /\ ends = {} -> NoRange
          [] Cardinality(begins) # 1 \/ Cardinality(ends) # 1 -> Torn
          [] last < first -> Torn
          [] OTHER -> Markers(first, last)
SectionRange(text) == MarkerRange(text, "begin", "end")
LegacyRange(text) == MarkerRange(text, "old begin", "old end")
LineEnd(symbol) == symbol \in {"nl", "crnl"}
Before(text, range) == SubSeq(text, 1, range.first - 1)
Within(text, range) == SubSeq(text, range.first, range.last)
After(text, range) == SubSeq(text, range.last + 1, Len(text))
AfterLine(text, range) ==
    LET rest == After(text, range) IN IF rest # <<>> /\ LineEnd(rest[1]) THEN Tail(rest) ELSE rest

RemoveExact(text, range) ==
    IF range = NoRange \/ Within(text, range) # FastreadSection THEN text
    ELSE Before(text, range) \o AfterLine(text, range)
RemoveExactLegacy(text) == RemoveExact(text, LegacyRange(text))
CanApplySection(text) ==
    LegacyRange(text) # Torn /\ SectionRange(RemoveExactLegacy(text)) # Torn
Separator(name) == CASE name = "lf" -> <<"nl">> [] name = "crlf" -> <<"crnl">> [] name = "lflf" -> <<"nl", "nl">>
                     [] OTHER -> <<>>
SeparatorAfter(text) ==
    LET last(back) == IF Len(text) < back THEN "none" ELSE text[Len(text) + 1 - back]
    IN  CASE text = <<>> -> "none"
          [] last(1) = "crnl" /\ last(2) = "crnl" -> "none"
          [] last(1) = "nl" /\ LineEnd(last(2)) -> "none"
          [] last(1) = "crnl" -> "crlf"
          [] last(1) = "nl" -> "lf"
          [] OTHER -> "lflf"
SeparatorIn(source) == IF SectionRange(source) = NoRange THEN SeparatorAfter(source) ELSE "none"
InsertedSeparator(text) == SeparatorIn(RemoveExactLegacy(text))
SectionIn(source, range, shell) ==
    IF range # NoRange THEN Before(source, range) \o Section(shell) \o After(source, range)
    ELSE source \o Separator(SeparatorAfter(source)) \o Section(shell) \o <<"nl">>
SectionOf(source, shell) == SectionIn(source, SectionRange(source), shell)
ApplySection(text, shell) == SectionOf(RemoveExactLegacy(text), shell)
RemoveAppliedSection(text, separator) ==
    LET range == SectionRange(text)
        before == Before(text, range)
        bytes == Separator(separator)
        owned == Len(before) >= Len(bytes)
                 /\ SubSeq(before, Len(before) + 1 - Len(bytes), Len(before)) = bytes
    IN  IF range = NoRange THEN text
        ELSE (IF owned THEN SubSeq(before, 1, Len(before) - Len(bytes)) ELSE before) \o AfterLine(text, range)
HasExactSection(text, shell) ==
    SectionRange(text) \notin {NoRange, Torn} /\ Within(text, SectionRange(text)) = Section(shell)

ClassifyRange(text, range, shell) ==
    CASE range = Torn -> "malformed"
      [] range = NoRange -> "missing"
      [] Within(text, range) = Section(shell) -> "current"
      [] \E release \in Releases : Within(text, range) = LegacySection(release, shell) -> "legacy"
      [] OTHER -> "drifted"
ClassifySection(text, shell) == ClassifyRange(text, SectionRange(text), shell)
RefreshLegacySection(text, shell) ==
    LET range == SectionRange(text)
    IN  IF ClassifySection(text, shell) # "legacy" THEN text
        ELSE Before(text, range) \o Section(shell) \o After(text, range)
=============================================================================
