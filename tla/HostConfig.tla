----------------------------- MODULE HostConfig -----------------------------
(***************************************************************************)
(* Apply, Unapply, the updater's synchronisation and the saving of         *)
(* preferences: every operation that changes the host configuration        *)
(* (control/apply.rs, codex_config.rs, agents.rs, settings.rs), on top of  *)
(* the file transaction that carries it (control/transaction.rs).          *)
(*                                                                         *)
(* An operation first computes an immutable plan from what it reads, then  *)
(* commits it: every target is compared with the plan's snapshot, missing  *)
(* directories are made, and then each file in turn is compared again and  *)
(* replaced by a rename.  A failure rolls the earlier files back, unless   *)
(* they changed meanwhile.  No lock is taken (Unapply's admission lock     *)
(* only excludes other Unapplies), so processes of FastCtx and the user's  *)
(* editor interleave between any two file operations, and a process may    *)
(* die there.                                                              *)
(*                                                                         *)
(* Contents are abstracted to what ownership turns on: whose text a file   *)
(* holds, whether FastCtx's table or section is in it, and the shared      *)
(* token limit.  Hashes are the contents they identify.                    *)
(***************************************************************************)
EXTENDS Naturals, Sequences, FiniteSets, SequencesExt

CONSTANTS
    Procs,          \* running FastCtx commands
    Versions,       \* releases whose binary a command may run; 1 is legacy
    Tiers,          \* the token limits that the tiers require
    UserLimits,     \* token limits that a user sets by hand
    Absent,         \* the content of a file that is not there
    MaxOps,         \* bound: operations started
    MaxBeside,      \* bound: operations started beside an unfinished one
    MaxUpsets       \* bound: edits, failing file operations, dying processes

VARIABLES
    disk,           \* content of the four files
    codexDir,       \* whether the Codex directory exists
    proc,           \* the command each process executes
    user,           \* history: the files as they were without FastCtx
    taint,          \* history: what has happened that ownership cannot undo
    spent           \* what was used of each bound

vars == <<disk, codexDir, proc, user, taint, spent>>

Files == {"binary", "codex", "agents", "settings"}
Owned == {"codex", "agents"}            \* files of the user that Apply edits
-----------------------------------------------------------------------------
(* Contents.                                                               *)

Limits == {0} \cup Tiers \cup UserLimits                 \* 0: no such key
CodexText == [text : Nat, server : {0} \cup Tiers, limit : Limits]
AgentsText == [text : Nat, sep : BOOLEAN, section : {"none", "old", "new"}]
Record == [version : Versions, limit : Tiers, previous : Limits,
           codexExisted : BOOLEAN, agentsExisted : BOOLEAN,
           agentsHash : AgentsText, sep : BOOLEAN, binary : Versions,
           contract : BOOLEAN, dirCreated : BOOLEAN]
Settings == [pref : 0..1, applied : Record \cup {Absent}]

(* The limits of the tiers are told from those a user sets, and a missing  *)
(* file from every content.                                                *)
ASSUME HostConfigAssumption ==
    /\ Tiers \cap UserLimits = {} /\ 0 \notin Tiers \cup UserLimits
    /\ 1 \in Versions
    /\ Absent \notin Procs \cup Versions \cup CodexText \cup AgentsText
    /\ Absent \notin Record /\ Absent \notin Settings
    /\ MaxOps \in Nat /\ MaxBeside \in Nat /\ MaxUpsets \in Nat

NoCodex == [text |-> 0, server |-> 0, limit |-> 0]       \* an empty file
NoAgents == [text |-> 0, sep |-> FALSE, section |-> "none"]
OrElse(content, empty) == IF content = Absent THEN empty ELSE content
TextOf(content) == IF content = Absent THEN 0 ELSE content.text

(* codex_config::apply writes the server table and the shared limit;       *)
(* unapply removes the table, and restores the limit when told to.         *)
CodexApply(content, tier) ==
    [OrElse(content, NoCodex) EXCEPT !.server = tier, !.limit = tier]
CodexUnapply(content, restore, previous) ==
    [OrElse(content, NoCodex) EXCEPT
        !.server = 0, !.limit = IF restore THEN previous ELSE @]

(* agents::apply_section_with_ownership_for separates a new section from   *)
(* the user's text by a blank line, unless there is one; the operator      *)
(* below tells whether it inserts one.                                     *)
InsertsSeparator(content) ==
    /\ content.section = "none" /\ content.text > 0 /\ ~content.sep
AgentsApply(content, section) ==
    [content EXCEPT !.section = section,
                    !.sep = @ \/ InsertsSeparator(content)]
AgentsRemove(content, ownsSeparator) ==
    IF content.section = "none" THEN content
    ELSE [content EXCEPT !.section = "none", !.sep = @ /\ ~ownsSeparator]

Applied(d) == IF d["settings"] = Absent THEN Absent ELSE d["settings"].applied
DefaultSettings == [pref |-> 0, applied |-> Absent]

(* The receipt that Apply writes: what the first Apply found is kept by    *)
(* every later one.                                                        *)
SeparatorOwned(d) ==
    LET record == Applied(d) IN
    /\ record # Absent /\ d["agents"] # Absent
    /\ record.agentsHash = d["agents"] /\ record.sep
Receipt_ForgetsFirst(d, dir, version, tier, section) ==
    LET agents == OrElse(d["agents"], NoAgents)
    IN  [version |-> version, limit |-> tier,
         previous |-> OrElse(d["codex"], NoCodex).limit,
         codexExisted |-> d["codex"] # Absent,
         agentsExisted |-> d["agents"] # Absent,
         agentsHash |-> AgentsApply(agents, section),
         sep |-> InsertsSeparator(agents), binary |-> version,
         contract |-> section = "new", dirCreated |-> ~dir]
Receipt(d, dir, version, tier, section) ==
    LET record == Applied(d)
        first == record = Absent
        agents == OrElse(d["agents"], NoAgents)
    IN  [version |-> version, limit |-> tier,
         previous |-> IF first THEN OrElse(d["codex"], NoCodex).limit
                      ELSE record.previous,
         codexExisted |-> IF first THEN d["codex"] # Absent
                          ELSE record.codexExisted,
         agentsExisted |-> IF first THEN d["agents"] # Absent
                           ELSE record.agentsExisted,
         agentsHash |-> AgentsApply(agents, section),
         sep |-> SeparatorOwned(d) \/ InsertsSeparator(agents),
         binary |-> version, contract |-> section = "new",
         dirCreated |-> ~dir \/ (~first /\ record.dirCreated)]
-----------------------------------------------------------------------------
(* Plans: the new content of every file the operation is about.            *)

PlanApply(d, dir, version, tier, section) ==
    [f \in Files |->
        CASE f = "binary" -> version
          [] f = "codex" -> CodexApply(d["codex"], tier)
          [] f = "agents" -> AgentsApply(OrElse(d["agents"], NoAgents), section)
          [] f = "settings" -> [OrElse(d["settings"], DefaultSettings)
                EXCEPT !.applied = Receipt(d, dir, version, tier, section)]]

(* Deletes a file only when Apply had made it and nothing else is in it;   *)
(* the limit is restored only while it still is what Apply wrote.          *)
PlanUnapply(d) ==
    LET record == Applied(d)
        existed(f) == IF record = Absent THEN d[f] # Absent
                      ELSE IF f = "codex" THEN record.codexExisted
                      ELSE record.agentsExisted
        restore == /\ record # Absent
                   /\ OrElse(d["codex"], NoCodex).limit = record.limit
        codex == CodexUnapply(d["codex"], restore,
                              IF restore THEN record.previous ELSE 0)
        agents == AgentsRemove(OrElse(d["agents"], NoAgents), SeparatorOwned(d))
    IN  [f \in Files |->
            CASE f = "codex" -> IF codex = NoCodex /\ ~existed("codex")
                                THEN Absent ELSE codex
              [] f = "agents" -> IF \/ d["agents"] = Absent
                                    \/ agents = NoAgents /\ ~existed("agents")
                                 THEN Absent ELSE agents
              [] OTHER -> Absent]

(* synchronize_applied_binary refuses without a receipt, and for a binary  *)
(* that is not the one in the receipt.                                     *)
CanSyncBinary(d) == /\ Applied(d) # Absent
                    /\ d["binary"] = Applied(d).binary
PlanSyncBinary_BinaryOnly(d, version) == [d EXCEPT !["binary"] = version]
PlanSyncBinary(d, version) ==
    [d EXCEPT !["binary"] = version,
              !["settings"].applied.binary = version,
              !["settings"].applied.version = version]

(* synchronize_applied_guidance replaces an exact section of a superseded  *)
(* release, and leaves the receipt alone.                                  *)
CanSyncGuidance(d) ==
    /\ Applied(d) # Absent /\ d["agents"] # Absent
    /\ d["agents"].section = "old" /\ ~Applied(d).contract
PlanSyncGuidance(d) == [d EXCEPT !["agents"].section = "new"]

(* The order in which a commit writes the files, and those it writes: the  *)
(* ones that the plan changes.                                             *)
OrderOf(op) ==
    IF op = "unapply" THEN <<"codex", "agents", "settings", "binary">>
    ELSE <<"binary", "codex", "agents", "settings">>
Changed(op, plan, d) ==
    LET file(i) == OrderOf(op)[i]
        turn(i) == IF plan[file(i)] = d[file(i)] THEN <<>> ELSE <<file(i)>>
    IN  turn(1) \o turn(2) \o turn(3) \o turn(4)
-----------------------------------------------------------------------------
(* The processes.                                                          *)

Idle == [pc |-> "idle", op |-> "none", plan |-> <<>>, old |-> <<>>,
         changes |-> <<>>, index |-> 0, madeDir |-> FALSE,
         removesDir |-> FALSE, unclean |-> FALSE, carries |-> {}]

Op(p) == proc[p].op
Goto(p, pc) == proc' = [proc EXCEPT ![p].pc = pc]
Current(p) == proc[p].changes[proc[p].index]

(* History: who put the content there that file f has now.                 *)
CarriedBy(p, f, ps) ==
    [q \in Procs |-> [ps[q] EXCEPT
        !.carries = IF q = p THEN @ \cup {f} ELSE @ \ {f}]]
CarriedByNone(f, ps) == [q \in Procs |-> [ps[q] EXCEPT !.carries = @ \ {f}]]

(* A process between the comparison of f and the rename that relies on it. *)
InWindow(q, f) ==
    /\ proc[q].pc \in {"replace", "restore"} /\ Current(q) = f
Overlooked(p, f) ==
    IF \E q \in Procs \ {p} : InWindow(q, f) THEN {"raced"} ELSE {}

MidCommit(q) == proc[q].pc \in {"compare", "replace", "recheck", "restore",
                                "cleanup", "tree", "dir"}

Spend(what) == spent' = [spent EXCEPT ![what] = @ + 1]
MayFail == spent.upsets < MaxUpsets

(* A plan that is made in the middle of another commit has read what may   *)
(* still be rolled back; and a file that it finds as it wants it is never  *)
(* compared again, so that the commit may go on although that file changed *)
(* since.                                                                  *)
Managed(d) == <<d["binary"], Applied(d), OrElse(d["codex"], NoCodex).server,
                OrElse(d["agents"], NoAgents).section>>
Unnoticed(p) ==
    LET others(d) == [f \in Files |->
            IF f \in Range(proc[p].changes) THEN Absent ELSE d[f]]
    IN  IF Managed(others(disk)) = Managed(others(proc[p].old))
        THEN {} ELSE {"dirty"}
DirtyRead == IF \E q \in Procs : MidCommit(q) THEN {"dirty"} ELSE {}

Beside(p) == \E q \in Procs \ {p} : proc[q].pc # "idle"
Start(p, op, plan, removesDir) ==
    /\ proc[p].pc = "idle" /\ spent.ops < MaxOps
    /\ Beside(p) => spent.beside < MaxBeside
    /\ proc' = [proc EXCEPT ![p] =
            [Idle EXCEPT !.pc = "planned", !.op = op, !.plan = plan,
                         !.old = disk,
                         !.changes = Changed(op, plan, disk),
                         !.removesDir = removesDir]]
    /\ spent' = [spent EXCEPT !.ops = @ + 1,
                              !.beside = @ + (IF Beside(p) THEN 1 ELSE 0)]

(* plan_apply and the confirmation of commit_apply.  A differing limit     *)
(* must be confirmed; a confirmed overwrite of one that the user set after *)
(* an earlier Apply is what the receipt cannot give back.                  *)
Apply(p) ==
    \E version \in Versions \ {1}, tier \in Tiers :
        /\ Start(p, "apply",
                 PlanApply(disk, codexDir, version, tier, "new"), FALSE)
        /\ taint' = taint \cup DirtyRead \cup
              (IF /\ Applied(disk) # Absent
                  /\ OrElse(disk["codex"], NoCodex).limit # Applied(disk).limit
               THEN {"overruled"} ELSE {})
        /\ UNCHANGED <<disk, codexDir, user>>

Unapply(p) ==
    /\ Start(p, "unapply", PlanUnapply(disk),
             Applied(disk) # Absent /\ Applied(disk).dirCreated)
    /\ taint' = taint \cup DirtyRead
    /\ UNCHANGED <<disk, codexDir, user>>

SyncBinary(p) ==
    /\ CanSyncBinary(disk)
    /\ \E version \in Versions \ {1} :
          Start(p, "sync", PlanSyncBinary(disk, version), FALSE)
    /\ taint' = taint \cup DirtyRead
    /\ UNCHANGED <<disk, codexDir, user>>

SyncGuidance(p) ==
    /\ CanSyncGuidance(disk)
    /\ Start(p, "sync", PlanSyncGuidance(disk), FALSE)
    /\ taint' = taint \cup DirtyRead \cup {"drifted"}
    /\ UNCHANGED <<disk, codexDir, user>>
-----------------------------------------------------------------------------
(* transaction::commit                                                     *)

Intact(p) == \A i \in DOMAIN proc[p].changes :
                LET f == proc[p].changes[i] IN disk[f] = proc[p].old[f]
TouchesCodexDir(p) ==
    \E i \in DOMAIN proc[p].changes : proc[p].changes[i] \in Owned

(* validate_changes, then create_parent_chain.  The step ends the          *)
(* operation when there is nothing to do or a target changed after the     *)
(* preview.                                                                *)
CommitStart(p) ==
    /\ IF proc[p].changes = <<>>
       THEN /\ Goto(p, IF Op(p) = "unapply" THEN "tree" ELSE "committed")
            /\ UNCHANGED codexDir
       ELSE IF ~Intact(p)
       THEN /\ Goto(p, "refused")
            /\ UNCHANGED codexDir
       ELSE /\ proc' = [proc EXCEPT ![p].pc = "compare", ![p].index = 1,
                                    ![p].madeDir = TouchesCodexDir(p) /\ ~codexDir]
            /\ codexDir' = (codexDir \/ TouchesCodexDir(p))
    /\ taint' = taint \cup (IF proc'[p].pc \in {"compare", "tree"} /\
                              \E q \in Procs \ {p} : MidCommit(q)
                           THEN {"overlapped"} ELSE {})
    /\ UNCHANGED <<disk, user, spent>>

Commit(p) == /\ proc[p].pc = "planned" /\ Op(p) \in {"apply", "sync"}
             /\ CommitStart(p)

RollBack_Skipped(p, ps) == [ps EXCEPT ![p].index = 0, ![p].pc = "cleanup"]
RollBack(p, ps) ==
    [ps EXCEPT ![p].index = @ - 1,
               ![p].pc = IF proc[p].index = 1 THEN "cleanup" ELSE "recheck"]

(* The snapshot of one target is compared again, right before its turn.    *)
Compare(p) ==
    /\ proc[p].pc = "compare"
    /\ IF disk[Current(p)] = proc[p].old[Current(p)]
       THEN Goto(p, "replace")
       ELSE proc' = RollBack(p, proc)
    /\ UNCHANGED <<disk, codexDir, user, taint, spent>>

(* apply_change: a rename or an unlink, which makes the directory again.   *)
Write(p, content) ==
    LET f == Current(p) IN
    /\ disk' = [disk EXCEPT ![f] = content]
    /\ codexDir' = (codexDir \/ (f \in Owned /\ content # Absent))
    /\ taint' = taint \cup Overlooked(p, f) \cup Unnoticed(p)

Replace(p) ==
    LET f == Current(p)
        last == proc[p].index = Len(proc[p].changes)
    IN  /\ proc[p].pc = "replace"
        /\ Write(p, proc[p].plan[f])
        /\ proc' = [CarriedBy(p, f, proc) EXCEPT
              ![p].pc = IF ~last THEN "compare"
                        ELSE IF Op(p) = "unapply" THEN "tree" ELSE "committed",
              ![p].index = IF last THEN @ ELSE @ + 1]
        /\ UNCHANGED <<user, spent>>

ReplaceFails(p) ==
    /\ proc[p].pc = "replace" /\ MayFail
    /\ proc' = RollBack(p, proc) /\ Spend("upsets")
    /\ UNCHANGED <<disk, codexDir, user, taint>>

(* restore_change refuses a file that no longer is what the commit wrote;  *)
(* the rollback goes on with the earlier ones either way.                  *)
NextBack(p, ps) ==
    [ps EXCEPT ![p].index = @ - 1,
               ![p].pc = IF proc[p].index = 1 THEN "cleanup" ELSE "recheck"]

Recheck_Blind(p) ==
    /\ proc[p].pc = "recheck" /\ Goto(p, "restore")
    /\ UNCHANGED <<disk, codexDir, user, taint, spent>>
Recheck(p) ==
    /\ proc[p].pc = "recheck"
    /\ IF disk[Current(p)] = proc[p].plan[Current(p)]
       THEN /\ Goto(p, "restore")
            /\ UNCHANGED taint
       ELSE /\ proc' = NextBack(p, [proc EXCEPT ![p].unclean = TRUE])
            /\ taint' = taint \cup {"torn"}
    /\ UNCHANGED <<disk, codexDir, user, spent>>

Restore(p) ==
    LET f == Current(p) IN
    /\ proc[p].pc = "restore"
    /\ Write(p, proc[p].old[f])
    /\ proc' = NextBack(p, CarriedByNone(f, proc))
    /\ UNCHANGED <<user, spent>>

RestoreFails(p) ==
    /\ proc[p].pc = "restore" /\ MayFail
    /\ proc' = NextBack(p, [proc EXCEPT ![p].unclean = TRUE])
    /\ taint' = taint \cup {"torn"} /\ Spend("upsets")
    /\ UNCHANGED <<disk, codexDir, user>>

(* cleanup_directories only removes the empty directory it made.           *)
DirEmpty == \A f \in Owned : disk[f] = Absent

Cleanup(p) ==
    /\ proc[p].pc = "cleanup"
    /\ codexDir' = (codexDir /\ ~(proc[p].madeDir /\ DirEmpty))
    /\ Goto(p, IF proc[p].unclean THEN "unclean" ELSE "rolled_back")
    /\ UNCHANGED <<disk, user, taint, spent>>
-----------------------------------------------------------------------------
(* commit_unapply: under the admission lock a stale preview is refused     *)
(* before any process is stopped; the others that run the installed binary *)
(* are stopped before the commit, and a failure to stop one ends it.       *)

Admitted == {"checked", "compare", "replace", "recheck", "restore",
             "cleanup", "tree", "dir"}
UnapplyStart(p) ==
    /\ proc[p].pc = "planned" /\ Op(p) = "unapply"
    /\ \A q \in Procs : Op(q) = "unapply" => proc[q].pc \notin Admitted
    /\ Goto(p, IF Intact(p) THEN "checked" ELSE "refused")
    /\ UNCHANGED <<disk, codexDir, user, taint, spent>>

(* A process that dies inside the commit of an Apply or a synchronisation  *)
(* leaves it torn; one that dies inside Unapply leaves the rest to the     *)
(* next Unapply, the empty directory excepted.                             *)
Tears(qs) ==
    {"crashed" : q \in {q \in qs : MidCommit(q)}} \cup
    {"torn" : q \in {q \in qs : MidCommit(q) /\ Op(q) # "unapply"}}

Terminate(p) ==
    /\ proc[p].pc = "checked"
    /\ \E victims \in SUBSET {q \in Procs \ {p} : proc[q].pc # "idle"} :
          /\ taint' = taint \cup Tears(victims)
          /\ proc' = [q \in Procs |->
                         IF q \in victims THEN Idle
                         ELSE IF q = p THEN [proc[p] EXCEPT !.pc = "stopped"]
                         ELSE proc[q]]
    /\ UNCHANGED <<disk, codexDir, user, spent>>

TerminateFails(p) ==
    /\ proc[p].pc = "checked" /\ MayFail
    /\ Goto(p, "refused") /\ Spend("upsets")
    /\ UNCHANGED <<disk, codexDir, user, taint>>

UnapplyCommit(p) == proc[p].pc = "stopped" /\ CommitStart(p)

(* remove_tree deletes what is left below ~/.fastctx.                      *)
RemoveTree(p) ==
    /\ proc[p].pc = "tree"
    /\ disk' = [disk EXCEPT !["settings"] = Absent, !["binary"] = Absent]
    /\ proc' = CarriedByNone("settings", CarriedByNone("binary",
                  [proc EXCEPT ![p].pc = "dir"]))
    /\ taint' = taint \cup Overlooked(p, "settings") \cup Overlooked(p, "binary")
                    \cup Unnoticed(p)
    /\ UNCHANGED <<codexDir, user, spent>>

RemoveTreeFails(p) ==
    /\ proc[p].pc = "tree" /\ MayFail
    /\ Goto(p, "leftover") /\ Spend("upsets")
    /\ taint' = taint \cup {"crashed"}
    /\ UNCHANGED <<disk, codexDir, user>>

RemoveDir(p) ==
    /\ proc[p].pc = "dir"
    /\ codexDir' = (codexDir /\ ~(proc[p].removesDir /\ DirEmpty))
    /\ Goto(p, "committed")
    /\ UNCHANGED <<disk, user, taint, spent>>

Ended == {"committed", "refused", "rolled_back", "unclean", "leftover"}
Finish(p) ==
    /\ proc[p].pc \in Ended
    /\ proc' = [proc EXCEPT ![p] = Idle]
    /\ UNCHANGED <<disk, codexDir, user, taint, spent>>
-----------------------------------------------------------------------------
(* A TUI session or the lang command: it keeps the settings that it read   *)
(* and, when a preference changes, saves them whole.  settings::save       *)
(* compares with what is on disk only to skip an equal write.              *)

OpenSettings(p) ==
    /\ Start(p, "preferences", [f \in Files |->
                IF f = "settings"
                THEN [OrElse(disk[f], DefaultSettings) EXCEPT !.pref = 1 - @]
                ELSE disk[f]], FALSE)
    /\ UNCHANGED <<disk, codexDir, user, taint>>

SaveSettings(p) ==
    LET saved == proc[p].plan["settings"] IN
    /\ proc[p].pc = "planned" /\ Op(p) = "preferences"
    /\ disk' = [disk EXCEPT !["settings"] = saved]
    /\ proc' = [CarriedBy(p, "settings", proc) EXCEPT ![p].pc = "committed"]
    /\ taint' = taint \cup Overlooked(p, "settings") \cup
                (IF saved.applied # Applied(disk) THEN {"stale"} ELSE {})
    /\ UNCHANGED <<codexDir, user, spent>>

(* The user edits a file outside FastCtx, in the text or the shared limit. *)
NextText(content) == [content EXCEPT !.text = @ + 1]
EditAgents ==
    /\ disk' = [disk EXCEPT !["agents"] = NextText(OrElse(@, NoAgents))]
    /\ user' = [user EXCEPT !["agents"] = NextText(OrElse(@, NoAgents)),
                            !["dir"] = @ \/ ~codexDir]
    /\ taint' = taint \cup Overlooked(Absent, "agents") \cup
                (IF OrElse(disk["agents"], NoAgents).section = "none"
                 THEN {} ELSE {"drifted"})
    /\ proc' = CarriedByNone("agents", proc)

EditCodex(what, limit) ==
    LET edited(content) == IF what = "text"
                           THEN NextText(OrElse(content, NoCodex))
                           ELSE [OrElse(content, NoCodex) EXCEPT !.limit = limit]
    IN  /\ disk' = [disk EXCEPT !["codex"] = edited(@)]
        /\ user' = [user EXCEPT !["codex"] = edited(@), !["dir"] = @ \/ ~codexDir]
        /\ taint' = taint \cup Overlooked(Absent, "codex")
        /\ proc' = CarriedByNone("codex", proc)

UserEdit ==
    /\ spent.upsets < MaxUpsets
    /\ \/ EditAgents
       \/ \E limit \in UserLimits :
             EditCodex("text", limit) \/ EditCodex("limit", limit)
    /\ codexDir' = TRUE
    /\ Spend("upsets")

Crash(p) ==
    /\ proc[p].pc \notin {"idle"} \cup Ended /\ MayFail
    /\ proc' = [proc EXCEPT ![p] = Idle]
    /\ taint' = taint \cup Tears({p})
    /\ Spend("upsets")
    /\ UNCHANGED <<disk, codexDir, user>>
-----------------------------------------------------------------------------
(* The program starts on a machine without FastCtx, or with one that an    *)
(* older release applied.                                                  *)
UserCodex == {Absent, NoCodex} \cup
    {[NoCodex EXCEPT !.text = 1, !.limit = l] : l \in UserLimits}
UserAgents == {Absent, [NoAgents EXCEPT !.text = 1]}

Init ==
    \E c \in UserCodex, a \in UserAgents, installed \in BOOLEAN :
        LET bare == [f \in Files |-> IF f = "codex" THEN c
                                     ELSE IF f = "agents" THEN a ELSE Absent]
            dir == c # Absent \/ a # Absent
        IN  /\ user = [codex |-> c, agents |-> a, dir |-> dir]
            /\ IF installed
               THEN \E tier \in Tiers :
                       disk = PlanApply(bare, dir, 1, tier, "old")
               ELSE disk = bare
            /\ codexDir = (dir \/ installed)
            /\ proc = [p \in Procs |-> Idle]
            /\ taint = {}
            /\ spent = [ops |-> 0, beside |-> 0, upsets |-> 0]

Step(p) ==
    \/ Apply(p) \/ Unapply(p) \/ SyncBinary(p) \/ SyncGuidance(p)
    \/ Commit(p) \/ Compare(p) \/ Replace(p) \/ ReplaceFails(p)
    \/ Recheck(p) \/ Restore(p) \/ RestoreFails(p) \/ Cleanup(p)
    \/ UnapplyStart(p) \/ Terminate(p) \/ TerminateFails(p)
    \/ UnapplyCommit(p) \/ RemoveTree(p) \/ RemoveTreeFails(p)
    \/ RemoveDir(p) \/ Finish(p)
    \/ OpenSettings(p) \/ SaveSettings(p) \/ Crash(p)

Next == UserEdit \/ \E p \in Procs : Step(p)

Spec == Init /\ [][Next]_vars
-----------------------------------------------------------------------------
(* Properties.                                                             *)

Symmetry == Permutations(Procs)

Phases == {"idle", "planned", "checked", "stopped", "compare", "replace",
           "recheck", "restore", "cleanup", "tree", "dir"} \cup Ended

(* Every file holds a content of its kind, and a commit only has files to  *)
(* write that its plan changes.                                            *)
TypeOK ==
    /\ disk["binary"] \in Versions \cup {Absent}
    /\ disk["codex"] \in CodexText \cup {Absent}
    /\ disk["agents"] \in AgentsText \cup {Absent}
    /\ disk["settings"] \in Settings \cup {Absent}
    /\ codexDir \in BOOLEAN
    /\ \A p \in Procs :
          /\ proc[p].pc \in Phases /\ proc[p].carries \subseteq Files
          /\ proc[p].index \in 0..Len(proc[p].changes)
          /\ (proc[p].pc \in {"compare", "replace", "recheck", "restore"})
                => proc[p].index > 0
          /\ \A i \in DOMAIN proc[p].changes :
                proc[p].changes[i] \in Files

(* What the user wrote is in the files at every moment, whatever is        *)
(* applied, refreshed, saved or undone, in which order, and wherever a     *)
(* process dies.  The one exception is a write that falls between another  *)
(* process's comparison of a file and the rename that follows it.          *)
UserTextIsKept ==
    "raced" \notin taint =>
        \A f \in Owned : TextOf(disk[f]) = TextOf(user[f])

(* A commit that reports a clean rollback has left none of its own         *)
(* content in any file, whoever else wrote there in between.               *)
FailedCommitIsClean ==
    /\ TypeOK
    /\ \A p \in Procs :
          proc[p].pc \in {"rolled_back", "refused"} => proc[p].carries = {}

(* What no receipt can be held to: a commit that was cut off or could not  *)
(* be rolled back, a write that fell between a comparison and its rename,  *)
(* a plan made from what another commit was about to change, a save of     *)
(* settings read before the receipt changed, and two commits at once.      *)
Accountable ==
    taint \cap {"torn", "raced", "dirty", "stale", "overlapped"} = {}

(* When nothing is in flight, the receipt tells the truth about what is    *)
(* installed: the binary it hashes is the one in place, and the table in   *)
(* the Codex configuration is that of its tier.                            *)
ReceiptIsTrue ==
    LET record == Applied(disk) IN
    (/\ Accountable
     /\ \A p \in Procs : ~MidCommit(p)
     /\ record # Absent)
        => /\ record.binary = disk["binary"]
           /\ \/ OrElse(disk["codex"], NoCodex).server = record.limit
              \/ "crashed" \in taint

(* Unapply gives the user's files back: the text, the token limit, whether *)
(* the file existed, and the directory, however many operations, rolled    *)
(* back commits, edits and interrupted Unapplies came before it.           *)
UnapplyRestores ==
    \A p \in Procs :
        (/\ proc[p].pc = "committed" /\ Op(p) = "unapply"
         /\ Applied(disk) = Absent
         /\ \A q \in Procs \ {p} : proc[q].pc \in {"idle", "planned"}
         /\ Accountable)
        => /\ OrElse(disk["codex"], NoCodex).server = 0
           /\ "overruled" \notin taint => disk["codex"] = user["codex"]
           /\ (disk["agents"] = Absent) = (user["agents"] = Absent)
           /\ OrElse(disk["agents"], NoAgents).section = "none"
           /\ "drifted" \notin taint => disk["agents"] = user["agents"]
           /\ "crashed" \notin taint
                 => codexDir = (user["dir"] \/ ~DirEmpty)

(* The receipt is what an Unapply goes by: it is true, and what it says is *)
(* enough to restore everything.                                           *)
ReceiptUndoesApply == ReceiptIsTrue /\ UnapplyRestores
=============================================================================
