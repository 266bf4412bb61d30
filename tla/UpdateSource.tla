---------------------------- MODULE UpdateSource ----------------------------
(* What an update check concludes from what the publication surfaces       *)
(* answer, and what the updater accepts of it: the choice of the version,  *)
(* of the registry and of the plan in update/check.rs, and the validation  *)
(* of a plan and of a written request in update/helper.rs.                 *)
(*                                                                         *)
(* A version is a number, 0 for none.  A registry is one of three names: a *)
(* URL after its normalisation.  The texts of failures, of selection       *)
(* reasons and of URLs are left out.                                       *)
EXTENDS Integers, Sequences, SequencesExt, FiniteSetsExt

Official == "official"
Npmmirror == "npmmirror"
Registries == {Official, Npmmirror, "private"}
None == "none"
Packages == {"fastctx", "codex-fastctx", "platform"}

(* The answer to one query.                                                *)
Ok(v) == [version |-> v, failure |-> None]
Err(kind) == [version |-> 0, failure |-> kind]
Answered(a) == a.failure = None
-----------------------------------------------------------------------------
(* Where this process was installed from.                                  *)

(* A regular file that npm itself could be, for the driver it was named as. *)
DriverFits(driver, cli) ==
    \/ driver = "node-script" /\ cli = "npm-cli.js"
    \/ driver = "executable" /\ cli # "npm.cmd"

(* The first receipt knew only the node script.                            *)
DriverOf(launcher) ==
    IF launcher.receipt = "1" THEN "node-script" ELSE launcher.driver

ValidProvenance(launcher) ==
    /\ launcher.receipt \in {"1", "2"}
    /\ launcher.package \in {"fastctx", "codex-fastctx"}
    /\ launcher.mode \in {"global", "exec"}
    /\ launcher.files = "regular" /\ launcher.pid > 0
    /\ launcher.handoff = launcher.pid
    /\ DriverFits(DriverOf(launcher), launcher.cli)

DetectChannel(launcher, exe) ==
    CASE launcher.receipt # "absent" ->
            IF ValidProvenance(launcher) THEN "npm" ELSE "refused"
      [] launcher.receipt = "absent"
         /\ (exe.place # "elsewhere" \/ ~exe.release) -> "unsupported"
      [] OTHER -> CASE ~exe.regular -> "refused"
                    [] ~exe.published -> "unsupported"
                    [] OTHER -> "github"

Provenance(launcher) ==
    [package |-> launcher.package, mode |-> launcher.mode,
     driver |-> DriverOf(launcher), cli |-> launcher.cli,
     pid |-> launcher.pid, handoff |-> launcher.handoff]
-----------------------------------------------------------------------------
(* The npm sources of one check.  context is what the settings and npm     *)
(* config say: [policy, configured, package].                              *)

(* Only these two policies ask npm for its registry.                       *)
PrepareContext(policy, answer, package) ==
    [policy |-> policy, package |-> package,
     configured |-> IF policy \in {"auto", "npm-config"} THEN answer ELSE None]

Candidate(source, registry) == [source |-> source, registry |-> registry]

FirstOfEach(s) ==
    LET new(i) == \A j \in 1..(i - 1) : s[j].registry # s[i].registry
        order == SetToSortSeq({i \in DOMAIN s : new(i)}, <)
    IN  [k \in DOMAIN order |-> s[order[k]]]

(* Empty when the policy has no usable registry, and the check fails.      *)
RegistryCandidates(context) ==
    LET configured == IF context.configured = None THEN <<>>
                      ELSE <<Candidate("npm config", context.configured)>>
        official == <<Candidate("official npm", Official)>>
        mirror == <<Candidate("npmmirror", Npmmirror)>>
    IN  FirstOfEach(CASE context.policy = "auto" -> configured \o official \o mirror
                      [] context.policy = "npm-config" -> configured
                      [] context.policy = "official" -> official
                      [] context.policy = "npmmirror" -> mirror)

(* The official registry is asked for its version even when the policy     *)
(* would not install from it.                                              *)
WithAuthority(candidates) ==
    IF \E i \in DOMAIN candidates : candidates[i].registry = Official
    THEN candidates
    ELSE Append(candidates, Candidate("official npm (version authority)", Official))
Probed(context) == WithAuthority(RegistryCandidates(context))

Selectable(context) == {c.registry : c \in ToSet(RegistryCandidates(context))}
-----------------------------------------------------------------------------
(* What the surfaces answer: world = [github, latest, exact], an answer,   *)
(* an answer for every registry, and for every registry and package        *)
(* whether the target is there ("yes", "no", or the kind of a failure).    *)

Versions(answers) == {a.version : a \in {b \in answers : Answered(b)}}

(* The target comes from an official surface if one of them answered, and  *)
(* from the selectable mirrors if none did.                                *)
AuthoritativeTarget(context, world) ==
    LET official == Versions({world.github, world.latest[Official]})
        mirrors == Versions({world.latest[r] : r \in Selectable(context)})
        failures == {a.failure : a \in {world.github, world.latest[Official]}
                       \cup {world.latest[r] : r \in Selectable(context)}}
    IN  CASE official # {} ->
               [version |-> Max(official), authority |-> "official", failure |-> None]
          [] official = {} /\ mirrors # {} ->
               [version |-> Max(mirrors), authority |-> "mirror-fallback", failure |-> None]
          [] OTHER ->
               [version |-> 0, authority |-> None,
                failure |-> IF "structural" \in failures
                            THEN "structural" ELSE "transient"]

MainPackages_OnlyRoot(context) == {"fastctx"}
MainPackages(context) == {"fastctx", context.package}

(* One row of the source table.                                            *)
Readiness(context, world, candidate) ==
    LET latest == world.latest[candidate.registry]
        has(package) == world.exact[candidate.registry][package] = "yes"
    IN  [source |-> candidate.source, registry |-> candidate.registry,
         reachable |-> Answered(latest), latest |-> latest.version,
         main |-> Answered(latest) /\ \A p \in MainPackages(context) : has(p),
         platform |-> Answered(latest) /\ has("platform")]

IsReady(probe) == probe.reachable /\ probe.main /\ probe.platform

(* The ready rows of the candidates, in the order of the policy.           *)
SelectReady(candidates, probes) ==
    FlattenSeq([i \in DOMAIN candidates |->
        SelectSeq(probes, LAMBDA p : p.registry = candidates[i].registry /\ IsReady(p))])

(* selected holds the source that is chosen, and those that come after it. *)
DiscoveryOf(context, world, target, probes, selected) ==
        [policy |-> context.policy, configured |-> context.configured,
         target |-> target.version, authority |-> target.authority,
         github |-> world.github.version,
         official |-> world.latest[Official].version,
         probes |-> probes,
         registry |-> IF selected = <<>> THEN None ELSE Head(selected).registry,
         source |-> IF selected = <<>> THEN None ELSE Head(selected).source]
DiscoveryFrom(context, world, probes) ==
    DiscoveryOf(context, world, AuthoritativeTarget(context, world), probes,
                SelectReady(RegistryCandidates(context), probes))
ReadinessOf(context, world, probed) ==
    [i \in DOMAIN probed |-> Readiness(context, world, probed[i])]
Discovery(context, world) ==
    DiscoveryFrom(context, world, ReadinessOf(context, world, Probed(context)))

(* probe_channel: the outcome that is cached, or the kind of the failure.  *)
(* None stands in for a discovery where there is none.                     *)
Outcome(result, target, discovery) ==
    [result |-> result, target |-> target, discovery |-> discovery]
Failed(kind) == Outcome(kind, 0, <<>>)

NpmOutcome(target, discovery, current) ==
    IF target.failure # None THEN Failed(target.failure)
    ELSE Outcome(CASE target.version <= current -> "npm-current"
                   [] target.version > current /\ discovery.registry # None -> "npm-available"
                   [] OTHER -> "npm-pending",
                 target.version, <<discovery>>)
ProbeNpm(context, world, current) ==
    IF RegistryCandidates(context) = <<>> THEN Failed("transient")
    ELSE NpmOutcome(AuthoritativeTarget(context, world), Discovery(context, world), current)

ProbeGithub(world, current) ==
    CASE ~Answered(world.github) -> Failed(world.github.failure)
      [] Answered(world.github) /\ world.github.version <= current ->
           Outcome("current", 0, <<>>)
      [] OTHER -> Outcome("github-available", world.github.version, <<>>)

ProbeChannel(channel, context, world, current) ==
    IF channel = "npm" THEN ProbeNpm(context, world, current)
    ELSE ProbeGithub(world, current)
-----------------------------------------------------------------------------
(* From an outcome, fresh or cached, to what the interface is told.        *)

(* One cache for each package, policy and configured registry.             *)
ChannelKey(channel, context) ==
    IF channel = "npm"
    THEN <<channel, context.package, context.policy, context.configured>>
    ELSE <<channel>>

MatchesContext(discovery, context) ==
    discovery.policy = context.policy /\ discovery.configured = context.configured

(* "unusable" is None of the code: the outcome is not for this process.    *)
StartupFrom(channel, context, outcome) ==
    LET npm == channel = "npm" /\ outcome.discovery # <<>>
               /\ MatchesContext(outcome.discovery[1], context)
    IN  CASE outcome.result = "current" -> "none"
          [] outcome.result = "github-available" /\ channel = "github" -> "available"
          [] outcome.result = "npm-current" /\ npm -> "npm-current"
          [] outcome.result = "npm-available" /\ npm
             /\ outcome.discovery[1].registry # None -> "available"
          [] outcome.result = "npm-pending" /\ npm -> "npm-pending"
          [] OTHER -> "unusable"

PlanOf(channel, provenance, outcome) ==
    IF channel = "github"
    THEN [channel |-> channel, target |-> outcome.target]
    ELSE [channel |-> channel, target |-> outcome.target, provenance |-> provenance,
          registry |-> outcome.discovery[1].registry,
          source |-> outcome.discovery[1].source, discovery |-> outcome.discovery[1]]
-----------------------------------------------------------------------------
(* What the updater demands of a plan, when it is handed over and again in *)
(* every process that reads the request.                                   *)

AllowedByPolicy(discovery, registry) ==
    CASE discovery.policy = "auto" ->
           registry \in {discovery.configured, Official, Npmmirror}
      [] discovery.policy = "npm-config" -> registry = discovery.configured
      [] discovery.policy = "official" -> registry = Official
      [] discovery.policy = "npmmirror" -> registry = Npmmirror

(* The target is the highest official version, or without one the highest  *)
(* any source reported.                                                    *)
AuthorityHolds(discovery) ==
    LET official == {discovery.github, discovery.official} \ {0}
        mirrors == {p.latest : p \in ToSet(discovery.probes)} \ {0}
    IN  IF official # {}
        THEN discovery.authority = "official" /\ discovery.target = Max(official)
        ELSE /\ discovery.authority = "mirror-fallback" /\ mirrors # {}
             /\ discovery.target = Max(mirrors)

ValidPlan(plan) ==
    plan.channel = "npm" =>
        LET discovery == plan.discovery
        IN  /\ plan.provenance.package \in {"fastctx", "codex-fastctx"}
            /\ DriverFits(plan.provenance.driver, plan.provenance.cli)
            /\ plan.provenance.pid # 0
            /\ discovery.target = plan.target
            /\ discovery.registry = plan.registry /\ discovery.source = plan.source
            /\ \E p \in ToSet(discovery.probes) :
                  /\ p.registry = plan.registry /\ p.source = plan.source
                  /\ IsReady(p)
            /\ AllowedByPolicy(discovery, plan.registry)
            /\ AuthorityHolds(discovery)

(* A request is written by the outgoing version and read by the incoming   *)
(* one: schema 2 had no driver, its npm was always the node script.        *)
Request(schema, plan) ==
    [schema |-> schema,
     plan |-> IF schema = 2 /\ plan.channel = "npm"
              THEN [plan EXCEPT !.provenance.driver = None] ELSE plan]

Migrate_KeepsSchema(request) == request
Migrate(request) ==
    CASE request.schema # 2 -> request
      [] request.schema = 2 /\ request.plan.channel = "npm"
         /\ request.plan.provenance.driver = None ->
           [request EXCEPT !.schema = 3,
                           !.plan.provenance.driver = "node-script"]
      [] OTHER -> [request EXCEPT !.schema = 3]

LoadsRequest(request) ==
    LET r == Migrate(request)
    IN  /\ r.schema = 3 /\ ValidPlan(r.plan)
        /\ r.plan.channel = "npm" => r.plan.provenance.handoff = r.plan.provenance.pid
=============================================================================
