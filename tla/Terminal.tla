----------------------------- MODULE Terminal -----------------------------
(* The control terminal (tui/mod.rs, tui/app.rs): one thread that draws,   *)
(* looks for the answer of an update check and then either executes the    *)
(* pending effect or handles one key.  Effects run on that thread; update  *)
(* checks run on workers (UpdateCheck).                                    *)
(*                                                                         *)
(* Left out: scrolling, toasts, the texts of errors, and the cursors of    *)
(* menus, so that Enter may choose any row.  A confirmation has two        *)
(* answers, and yes is the cursor on the second.  The preferences are one  *)
(* number, whose default is 0.  What Apply and Unapply do to the files is  *)
(* HostConfig.                                                             *)
EXTENDS UpdateCheck

CONSTANTS
    Startup, Page,     \* the checkers of this process
    Jobs,              \* background jobs, by their place in the registry
    Preferences        \* bound: values of the preferences

ASSUME TerminalAssumption ==
    /\ {Startup, Page} = Checkers /\ Startup # Page
    /\ Jobs \subseteq Nat \ {0} /\ IsFiniteSet(Jobs) /\ 0 \in Preferences

VARIABLES
    loop,         \* "start", "draw", "act" or "over"
    screen, yes,  \* yes: the cursor is on the second answer
    seen,         \* the frame that was drawn before the key that comes next
    pending, retry,
    memory, disk, draft,  \* the settings in memory, in the file and being edited
    unreloaded,   \* the settings were not read back after Apply wrote them
    plan, unplan, \* the previews of Apply and Unapply
    listing, listed, cursor, tail,  \* the dashboard; tail: whose output it shows
    target,       \* the job that is to be killed
    gate,         \* the purpose of the check whose answer is awaited
    offer, exit, requested, notice

view == <<screen, yes>>
effects == <<pending, retry>>
settings == <<memory, disk, draft, unreloaded>>
plans == <<plan, unplan>>
dashboard == <<listing, listed, cursor, tail, target>>
updates == <<gate, offer, exit, requested, notice>>
terminalVars == <<checks, loop, view, seen, effects, settings, plans, dashboard, updates>>

NoJob == 0
Effect(kind) == [kind |-> kind, job |-> NoJob]
NoEffect == Effect("none")
Kill(j) == [kind |-> "KillJob", job |-> j]
Kinds == {"RetryUpdate", "SaveFirstLanguage", "SaveLanguage", "SaveConfig",
          "ResetConfig", "PlanApply", "CommitApply", "PlanUnapply", "CommitUnapply",
          "RunDoctor", "LoadJobs", "LoadJobTail", "RefreshJobCount", "KillJob"}

Confirmations == {"ApplyConflict", "ApplyConfirm", "UnapplyConfirm", "UpdateConfirm",
                  "ConfigOutputGuardConfirm", "ConfigDiscardConfirm",
                  "ConfigResetConfirm", "JobsKillConfirm"}
Blocking == {"UpdateChecking", "ApplyLoading", "ApplyRunning", "UnapplyLoading",
             "UnapplyRunning", "ConfigResetting", "ConfigSaving", "JobsKilling"}
Screens == Confirmations \cup Blocking \cup
    {"MigrationNotice", "Update", "FirstLanguage", "Language", "Main", "ApplyHome",
     "ApplyPreview", "UnapplyPreview", "Config", "ConfigEdit", "Jobs", "JobsKillFailed",
     "Status", "About", "Receipt", "OperationFailed"}

Show(s) == screen' = s /\ yes' = FALSE
(* The dashboard is empty again when it is entered next.                   *)
EmptyDashboard == listing' = "loading" /\ listed' = {} /\ cursor' = 0 /\ tail' = NoJob
BackToMain == Show("Main") /\ target' = NoJob /\ EmptyDashboard
-----------------------------------------------------------------------------
(* The jobs on the dashboard.                                              *)

(* They are listed in the order of their places.                           *)
Place(list, j) == Cardinality({k \in list : k < j})
FocusedIn(list, at) ==
    IF at < Cardinality(list) THEN CHOOSE j \in list : Place(list, j) = at
    ELSE NoJob
Focused == FocusedIn(listed, cursor)

(* refresh_jobs: the cursor follows its job, or stays at its place.        *)
RefreshJobs(running) ==
    LET lowest == Cardinality(running) - 1
        place == CASE running = {} -> 0
                   [] Focused \in running -> Place(running, Focused)
                   [] OTHER -> IF cursor < lowest THEN cursor ELSE lowest
    IN  /\ listing' = IF running = {} THEN "empty" ELSE "ready"
        /\ listed' = running /\ cursor' = place
        /\ tail' = IF tail = FocusedIn(running, place) THEN tail ELSE NoJob

MoveCursor(place) ==
    cursor' = place /\ tail' = IF place = cursor THEN tail ELSE NoJob
-----------------------------------------------------------------------------
(* The update check.                                                       *)

(* The gate waits ten seconds for the first answer.                        *)
EnterGate == gate' = "startup" /\ Show("UpdateChecking")

(* request_startup_update_check, when a language has been chosen: without  *)
(* an installation source to ask there is no worker.                       *)
StartRequested ==
    /\ requested' = FALSE
    /\ \/ requested /\ Begin(Startup, FALSE) /\ gate' = "startup"
       \/ UNCHANGED <<checks, gate>>

Consumed(c) == check' = [check EXCEPT ![c] = Idle]

(* Only an update that is available is more than shown.                    *)
Resolve(result) ==
    /\ gate' = "none"
    /\ offer' = IF result.kind = "available" THEN result ELSE NoOutcome
    /\ UNCHANGED <<exit, requested, notice>>
    /\ IF gate = "page" \/ result.kind = "available"
       THEN Show("Update") /\ UNCHANGED dashboard
       ELSE BackToMain

(* A worker that is detached still records what it finds.                  *)
PollUpdateCheck ==
    \/ /\ gate = "none" \/ (gate = "startup" /\ screen # "UpdateChecking")
       /\ UNCHANGED <<check, view, dashboard, updates>>
    \/ /\ gate # "none" /\ (gate = "startup" => screen = "UpdateChecking")
       /\ LET c == IF gate = "page" THEN Page ELSE Startup
          IN  \/ At(c, "done") /\ Resolve(check[c].result) /\ Consumed(c)
              \/ /\ ~At(c, "done")
                 /\ UNCHANGED <<check, view, dashboard, updates>>
              \/ /\ gate = "startup" /\ ~At(c, "done")
                 /\ gate' = "none" /\ offer' = NoOutcome /\ BackToMain
                 /\ UNCHANGED <<check, exit, requested, notice>>

Tick ==
    IF pending # NoEffect THEN UNCHANGED pending
    ELSE \/ /\ UNCHANGED pending
            /\ screen = "Jobs" => listing # "loading" /\ tail = Focused
         \/ screen = "Main" /\ pending' = Effect("RefreshJobCount")
         \/ screen = "Jobs" /\ pending' = Effect("LoadJobs")
         \/ /\ screen = "Jobs" /\ listing # "loading" /\ Focused # NoJob
            /\ pending' = [kind |-> "LoadJobTail", job |-> Focused]

(* What the frame on the terminal asks the user to confirm, if it does.    *)
NoFrame ==
    [screen |-> "none", yes |-> FALSE, plan |-> "none", job |-> NoJob, offer |-> NoOutcome]
Frame ==
    IF screen \notin Confirmations \cup {"JobsKillFailed"} THEN NoFrame
    ELSE [screen |-> screen, yes |-> yes, job |-> target,
          plan |-> IF screen = "ApplyConfirm" THEN plan ELSE "none",
          offer |-> IF screen = "UpdateConfirm" THEN offer ELSE NoOutcome]

Draw ==
    /\ loop = "draw" /\ loop' = "act"
    /\ Tick /\ seen' = Frame /\ PollUpdateCheck
    /\ UNCHANGED <<success, last, begun, trouble, retry, settings, plans>>
-----------------------------------------------------------------------------
(* Effects.                                                                *)

Executing(kind) ==
    /\ loop = "act" /\ pending.kind = kind
    /\ loop' = "draw" /\ seen' = NoFrame
Done == pending' = NoEffect /\ UNCHANGED retry

(* A commit that failed is planned again.                                  *)
RetryOf_SameEffect(effect) == effect
RetryOf(effect) ==
    CASE effect.kind = "CommitApply" -> Effect("PlanApply")
      [] effect.kind = "CommitUnapply" -> Effect("PlanUnapply")
      [] OTHER -> effect

FailsTo_KeepsScreen(s) == pending' = NoEffect /\ retry' = RetryOf(pending) /\ UNCHANGED view
FailsTo(s) == pending' = NoEffect /\ retry' = RetryOf(pending) /\ Show(s)
OperationFails == FailsTo("OperationFailed")

(* settings::save: the file is replaced, then finished jobs are reaped.    *)
SavedAs(updated) ==
    Sound /\ disk' = updated /\ memory' = updated /\ unreloaded' = FALSE
SaveFails_Forgets(updated) ==
    Fault /\ (disk' = updated \/ UNCHANGED disk) /\ UNCHANGED <<memory, draft, unreloaded>>
SaveFails(updated) ==
    /\ Fault
    /\ \/ UNCHANGED settings
       \/ /\ disk' = updated /\ memory' = updated /\ draft' = updated.prefs
          /\ unreloaded' = FALSE

ExecuteRetryUpdate ==
    /\ Executing("RetryUpdate") /\ Done
    /\ Begin(Page, TRUE) /\ gate' = "page"
    /\ UNCHANGED <<view, settings, plans, dashboard, offer, exit, requested, notice>>

SaveFirstLanguage ==
    LET updated == [memory EXCEPT !.language = TRUE, !.present = TRUE]
    IN  /\ Executing("SaveFirstLanguage")
        /\ UNCHANGED <<success, last, plans, dashboard, offer, exit, notice>>
        /\ \/ /\ SavedAs(updated) /\ Done /\ UNCHANGED draft /\ StartRequested
              /\ Show(CASE notice -> "MigrationNotice"
                        [] ~notice /\ gate' = "startup" -> "UpdateChecking"
                        [] OTHER -> "Main")
           \/ /\ SaveFails(updated) /\ OperationFails /\ UNCHANGED <<check, begun, gate, requested>>

SaveLanguage ==
    LET updated == [memory EXCEPT !.language = TRUE, !.present = TRUE]
    IN  /\ Executing("SaveLanguage")
        /\ UNCHANGED <<success, last, check, begun, plans, dashboard, updates>>
        /\ \/ SavedAs(updated) /\ Done /\ Show("Main") /\ UNCHANGED draft
           \/ SaveFails(updated) /\ OperationFails

SaveConfig ==
    LET updated == [memory EXCEPT !.prefs = draft, !.present = TRUE]
    IN  /\ Executing("SaveConfig")
        /\ UNCHANGED <<success, last, check, begun, plans, dashboard, updates>>
        /\ \/ SavedAs(updated) /\ Done /\ Show("Config") /\ draft' = updated.prefs
           \/ SaveFails(updated) /\ OperationFails

ResetConfig ==
    LET updated == [memory EXCEPT !.language = FALSE, !.prefs = 0, !.present = TRUE]
    IN  /\ Executing("ResetConfig")
        /\ UNCHANGED <<success, last, check, begun, plans, updates>>
        /\ \/ /\ SavedAs(updated) /\ Done /\ Show("FirstLanguage") /\ draft' = 0
              /\ target' = NoJob /\ UNCHANGED <<listing, listed, cursor, tail>>
           \/ SaveFails(updated) /\ OperationFails /\ UNCHANGED dashboard

PlanApply ==
    /\ Executing("PlanApply")
    /\ \/ /\ Sound /\ Done /\ plan' \in {"plain", "conflict"} /\ Show("ApplyPreview")
       \/ Fault /\ OperationFails /\ UNCHANGED plan
    /\ UNCHANGED <<success, last, check, begun, settings, unplan, dashboard, updates>>

(* The receipt is written into the settings file as it is on the disk, and *)
(* the settings are read back from it.                                     *)
CommitApply ==
    LET written == [present |-> TRUE, language |-> disk.present /\ disk.language,
                    prefs |-> memory.prefs, applied |-> TRUE]
    IN  /\ Executing("CommitApply") /\ plan' = "none"
        /\ \/ /\ plan # "none" /\ Done /\ Show("Receipt") /\ disk' = written
              /\ \/ Sound /\ memory' = written /\ unreloaded' = FALSE
                 \/ Fault /\ unreloaded' = TRUE /\ UNCHANGED memory
              /\ UNCHANGED draft
           \/ plan # "none" /\ Fault /\ OperationFails /\ UNCHANGED settings
           \/ plan = "none" /\ Sound /\ OperationFails /\ UNCHANGED settings
        /\ UNCHANGED <<success, last, check, begun, unplan, dashboard, updates>>

PlanUnapply ==
    /\ Executing("PlanUnapply")
    /\ \/ Sound /\ Done /\ unplan' = TRUE /\ Show("UnapplyPreview")
       \/ Fault /\ OperationFails /\ UNCHANGED unplan
    /\ UNCHANGED <<success, last, check, begun, settings, plan, dashboard, updates>>

NoSettings == [present |-> FALSE, language |-> FALSE, prefs |-> 0, applied |-> FALSE]
(* Unapply deletes the settings file; the preferences stay in memory.      *)
CommitUnapply ==
    /\ Executing("CommitUnapply") /\ unplan' = FALSE
    /\ \/ /\ unplan /\ Sound /\ Done /\ Show("Receipt")
          /\ disk' = NoSettings
          /\ memory' = [memory EXCEPT !.applied = FALSE] /\ UNCHANGED <<draft, unreloaded>>
       \/ unplan /\ Fault /\ OperationFails /\ UNCHANGED settings
       \/ ~unplan /\ Sound /\ OperationFails /\ UNCHANGED settings
    /\ UNCHANGED <<success, last, check, begun, plan, dashboard, updates>>

(* These three report their failures on the screen they belong to.         *)
RunDoctor ==
    /\ Executing("RunDoctor") /\ Done
    /\ UNCHANGED <<checks, view, settings, plans, dashboard, updates>>

LoadJobs ==
    /\ Executing("LoadJobs") /\ Done
    /\ \/ Sound /\ \E running \in SUBSET Jobs : RefreshJobs(running)
       \/ Fault /\ listing' = "error" /\ listed' = {} /\ UNCHANGED <<cursor, tail>>
    /\ UNCHANGED <<success, last, check, begun, view, settings, plans, target, updates>>

LoadJobTail ==
    /\ Executing("LoadJobTail") /\ Done
    /\ tail' = IF Focused = pending.job THEN pending.job ELSE tail
    /\ UNCHANGED <<checks, view, settings, plans, listing, listed, cursor, target, updates>>

RefreshJobCount ==
    /\ Executing("RefreshJobCount") /\ Done
    /\ UNCHANGED <<checks, view, settings, plans, dashboard, updates>>

KillJob ==
    /\ Executing("KillJob")
    /\ \/ /\ Sound /\ pending' = NoEffect /\ retry' = NoEffect /\ Show("Jobs")
          /\ listing' = "loading" /\ listed' = {} /\ tail' = NoJob /\ target' = NoJob
          /\ UNCHANGED cursor
       \/ Fault /\ FailsTo("JobsKillFailed") /\ UNCHANGED dashboard
    /\ UNCHANGED <<success, last, check, begun, settings, plans, updates>>

Execute ==
    \/ ExecuteRetryUpdate \/ SaveFirstLanguage \/ SaveLanguage \/ SaveConfig
    \/ ResetConfig \/ PlanApply \/ CommitApply \/ PlanUnapply \/ CommitUnapply
    \/ RunDoctor \/ LoadJobs \/ LoadJobTail \/ RefreshJobCount \/ KillJob
-----------------------------------------------------------------------------
(* Keys.                                                                   *)

KeyTo(next, s) ==
    /\ loop = "act" /\ pending = NoEffect /\ screen = s
    /\ loop' = next /\ seen' = NoFrame /\ UNCHANGED checks
Key(s) == KeyTo("draw", s)
(* One more frame is drawn; it changes nothing.                            *)
Quits(s) == KeyTo("over", s)
Idles == UNCHANGED effects
Orders(kind) == pending' = Effect(kind) /\ UNCHANGED retry

(* Every confirmation: an arrow changes the answer, Enter on "no" and      *)
(* Escape go back, and only Enter on "yes" goes on.                        *)
Choose(s) ==
    /\ Key(s) /\ yes' = ~yes /\ Idles
    /\ UNCHANGED <<screen, settings, plans, dashboard, updates>>

NoPlan == plan' = "none" /\ UNCHANGED unplan
NoUnplan == unplan' = FALSE /\ UNCHANGED plan

CloseMigrationNotice ==
    /\ Key("MigrationNotice") /\ notice' = FALSE /\ Idles
    /\ IF gate = "startup" THEN EnterGate /\ UNCHANGED dashboard
       ELSE BackToMain /\ UNCHANGED gate
    /\ UNCHANGED <<settings, plans, offer, exit, requested>>

UpdateKey ==
    /\ Key("Update")
    /\ \/ offer.kind = "available" /\ Show("UpdateConfirm") /\ Idles /\ UNCHANGED dashboard
       \/ /\ begun < MaxChecks /\ screen' = "UpdateChecking" /\ Orders("RetryUpdate")
          /\ UNCHANGED <<yes, dashboard>>
       \/ BackToMain /\ Idles
    /\ UNCHANGED <<settings, plans, updates>>

UpdateConfirmKey ==
    \/ Choose("UpdateConfirm")
    \/ /\ Key("UpdateConfirm") /\ Idles /\ Show("Update")
       /\ UNCHANGED <<settings, plans, dashboard, updates>>
    \/ /\ Quits("UpdateConfirm") /\ yes /\ offer.kind = "available" /\ exit' = offer /\ Idles
       /\ UNCHANGED <<view, settings, plans, dashboard, gate, offer, requested, notice>>

LanguageKey ==
    \/ /\ Key("FirstLanguage") /\ Orders("SaveFirstLanguage")
       /\ UNCHANGED <<view, settings, plans, dashboard, updates>>
    \/ /\ Key("Language") /\ Orders("SaveLanguage")
       /\ UNCHANGED <<view, settings, plans, dashboard, updates>>
    \/ /\ Key("Language") /\ BackToMain /\ Idles /\ UNCHANGED <<settings, plans, updates>>

MainKey ==
    /\ Key("Main") /\ UNCHANGED <<plans, updates>>
    /\ \/ /\ \E s \in {"ApplyHome", "Update", "About", "Language"} : Show(s)
          /\ Idles /\ UNCHANGED <<settings, dashboard>>
       \/ /\ Show("Config") /\ draft' = memory.prefs /\ Idles
          /\ UNCHANGED <<memory, disk, unreloaded, dashboard>>
       \/ /\ screen' = "Jobs" /\ Orders("LoadJobs")
          /\ EmptyDashboard /\ UNCHANGED <<yes, settings, target>>
       \/ screen' = "Status" /\ Orders("RunDoctor") /\ UNCHANGED <<yes, settings, dashboard>>

ApplyHomeKey ==
    /\ Key("ApplyHome") /\ UNCHANGED <<settings, plans, updates>>
    /\ \/ /\ screen' = "ApplyLoading" /\ Orders("PlanApply") /\ UNCHANGED <<yes, dashboard>>
       \/ /\ screen' = "UnapplyLoading" /\ Orders("PlanUnapply") /\ UNCHANGED <<yes, dashboard>>
       \/ BackToMain /\ Idles

ApplyPreviewKey ==
    /\ Key("ApplyPreview") /\ Idles /\ UNCHANGED <<settings, dashboard, updates>>
    /\ \/ Show(IF plan = "conflict" THEN "ApplyConflict" ELSE "ApplyConfirm") /\ UNCHANGED plans
       \/ Show("ApplyHome") /\ NoPlan

ApplyConflictKey ==
    \/ Choose("ApplyConflict")
    \/ /\ Key("ApplyConflict") /\ Idles /\ UNCHANGED <<settings, dashboard, updates>>
       /\ \/ yes /\ Show("ApplyConfirm") /\ UNCHANGED plans
          \/ Show("ApplyHome") /\ NoPlan

ApplyConfirmKey ==
    \/ Choose("ApplyConfirm")
    \/ /\ Key("ApplyConfirm") /\ UNCHANGED <<settings, dashboard, updates>>
       /\ \/ /\ yes /\ screen' = "ApplyRunning" /\ Orders("CommitApply")
             /\ UNCHANGED <<yes, plans>>
          \/ Show("ApplyHome") /\ NoPlan /\ Idles

UnapplyPreviewKey ==
    /\ Key("UnapplyPreview") /\ Idles /\ UNCHANGED <<settings, dashboard, updates>>
    /\ \/ Show("UnapplyConfirm") /\ UNCHANGED plans
       \/ Show("ApplyHome") /\ NoUnplan

UnapplyConfirmKey ==
    \/ Choose("UnapplyConfirm")
    \/ /\ Key("UnapplyConfirm") /\ UNCHANGED <<settings, dashboard, updates>>
       /\ \/ /\ yes /\ screen' = "UnapplyRunning" /\ Orders("CommitUnapply")
             /\ UNCHANGED <<yes, plans>>
          \/ Show("ApplyHome") /\ NoUnplan /\ Idles

(* The editors of a number are one screen here.                            *)
Dirty == draft # memory.prefs
ConfigKey ==
    /\ Key("Config") /\ UNCHANGED <<memory, disk, unreloaded, plans, updates>>
    /\ \/ draft' \in Preferences /\ Idles /\ UNCHANGED <<view, dashboard>>
       \/ /\ \/ Show("ConfigOutputGuardConfirm") \/ Show("ConfigResetConfirm")
             \/ screen' = "ConfigEdit" /\ UNCHANGED yes
          /\ Idles /\ UNCHANGED <<draft, dashboard>>
       \/ /\ Dirty /\ screen' = "ConfigSaving" /\ Orders("SaveConfig")
          /\ UNCHANGED <<yes, draft, dashboard>>
       \/ Dirty /\ Show("ConfigDiscardConfirm") /\ Idles /\ UNCHANGED <<draft, dashboard>>
       \/ ~Dirty /\ BackToMain /\ Idles /\ UNCHANGED draft

ConfigEditKey ==
    /\ Key("ConfigEdit") /\ Idles /\ screen' = "Config"
    /\ draft' \in Preferences
    /\ UNCHANGED <<yes, memory, disk, unreloaded, plans, dashboard, updates>>

ConfigConfirmKey ==
    \/ \E s \in {"ConfigOutputGuardConfirm", "ConfigDiscardConfirm", "ConfigResetConfirm"} :
          \/ Choose(s)
          \/ /\ Key(s) /\ Show("Config") /\ Idles
             /\ UNCHANGED <<settings, plans, dashboard, updates>>
    \/ /\ Key("ConfigOutputGuardConfirm") /\ yes /\ draft' \in Preferences /\ Show("Config")
       /\ Idles /\ UNCHANGED <<memory, disk, unreloaded, plans, dashboard, updates>>
    \/ /\ Key("ConfigDiscardConfirm") /\ yes /\ draft' = memory.prefs /\ BackToMain
       /\ Idles /\ UNCHANGED <<memory, disk, unreloaded, plans, updates>>
    \/ /\ Key("ConfigResetConfirm") /\ yes /\ screen' = "ConfigResetting"
       /\ Orders("ResetConfig") /\ UNCHANGED <<yes, settings, plans, dashboard, updates>>

JobsKey ==
    /\ Key("Jobs") /\ UNCHANGED <<settings, plans, updates>>
    /\ \/ /\ listed # {} /\ Idles /\ UNCHANGED <<view, listing, listed, target>>
          /\ \E place \in {cursor - 1, cursor + 1, 0, Cardinality(listed) - 1} :
                place \in 0..(Cardinality(listed) - 1) /\ MoveCursor(place)
       \/ /\ Focused # NoJob /\ target' = Focused /\ Show("JobsKillConfirm")
          /\ Idles /\ UNCHANGED <<listing, listed, cursor, tail>>
       \/ /\ listing' = (IF listing = "ready" THEN listing ELSE "loading")
          /\ Orders("LoadJobs") /\ UNCHANGED <<view, listed, cursor, tail, target>>
       \/ BackToMain /\ Idles

JobsKillConfirmKey ==
    \/ Choose("JobsKillConfirm")
    \/ /\ Key("JobsKillConfirm") /\ UNCHANGED <<settings, plans, updates>>
       /\ \/ /\ yes /\ screen' = "JobsKilling" /\ pending' = Kill(target)
             /\ UNCHANGED <<yes, retry, dashboard>>
          \/ /\ Show("Jobs") /\ target' = NoJob /\ Idles
             /\ UNCHANGED <<listing, listed, cursor, tail>>

JobsKillFailedKey ==
    /\ Key("JobsKillFailed") /\ retry' = NoEffect
    /\ UNCHANGED <<yes, settings, plans, updates>>
    /\ \/ screen' = "JobsKilling" /\ pending' = retry /\ UNCHANGED dashboard
       \/ /\ screen' = "Jobs" /\ target' = NoJob
          /\ UNCHANGED <<pending, listing, listed, cursor, tail>>

StatusKey ==
    /\ Key("Status") /\ UNCHANGED <<settings, plans, updates>>
    /\ \/ Orders("RunDoctor") /\ UNCHANGED <<view, dashboard>>
       \/ Show("Update") /\ Idles /\ UNCHANGED dashboard
       \/ BackToMain /\ Idles

CloseKey ==
    /\ Key("About") \/ Key("Receipt")
    /\ BackToMain /\ Idles /\ UNCHANGED <<settings, plans, updates>>

(* The screen on which an effect is retried.                               *)
RetryScreen(kind) ==
    CASE kind = "PlanApply" -> "ApplyLoading"
      [] kind = "PlanUnapply" -> "UnapplyLoading"
      [] kind = "CommitApply" -> "ApplyRunning"
      [] kind = "CommitUnapply" -> "UnapplyRunning"
      [] kind = "SaveConfig" -> "Config"
      [] kind = "ResetConfig" -> "ConfigResetting"
      [] kind = "SaveFirstLanguage" -> "FirstLanguage"
      [] kind = "SaveLanguage" -> "Language"

OperationFailedKey ==
    /\ Key("OperationFailed") /\ retry' = NoEffect
    /\ UNCHANGED <<settings, plans, updates>>
    /\ \/ /\ screen' = RetryScreen(retry.kind) /\ pending' = retry /\ UNCHANGED <<yes, dashboard>>
       \/ BackToMain /\ UNCHANGED pending

(* Control-C on every screen, on a blocking one too while it waits for a   *)
(* worker; q and Escape on the main menu.                                  *)
Interrupt ==
    Quits(screen) /\ UNCHANGED <<view, effects, settings, plans, dashboard, updates>>

(* No key within the poll, or one without a meaning here.                  *)
NoKey ==
    /\ Key(screen) /\ UNCHANGED <<view, effects, settings, plans, dashboard, updates>>

HandleKey ==
    \/ CloseMigrationNotice \/ UpdateKey \/ UpdateConfirmKey \/ LanguageKey \/ MainKey
    \/ ApplyHomeKey \/ ApplyPreviewKey \/ ApplyConflictKey \/ ApplyConfirmKey
    \/ UnapplyPreviewKey \/ UnapplyConfirmKey \/ ConfigKey \/ ConfigEditKey
    \/ ConfigConfirmKey \/ JobsKey \/ JobsKillConfirmKey \/ JobsKillFailedKey
    \/ StatusKey \/ CloseKey \/ OperationFailedKey \/ Interrupt
    \/ NoKey
-----------------------------------------------------------------------------
(* The life of the process.                                                *)

(* The input or the output of the terminal fails.                          *)
Breaks ==
    /\ loop # "over" /\ loop' = "over" /\ Fault /\ seen' = NoFrame
    /\ UNCHANGED <<success, last, check, begun, view, effects, settings, plans, dashboard,
                   updates>>

(* The workers of this process go on whatever the screen; one that panics  *)
(* leaves its channel without an answer, which counts as a failure.        *)
WorkerRuns(c) ==
    /\ loop # "over"
    /\ \/ Work(c)
       \/ /\ check[c].pc \notin {"idle", "done"} /\ Fault /\ Ends(c, Failure)
          /\ UNCHANGED <<success, last, begun>>
    /\ UNCHANGED <<loop, view, seen, effects, settings, plans, dashboard, updates>>

TerminalInit ==
    /\ CheckInit
    /\ loop = "start" /\ seen = NoFrame
    /\ memory \in [present : {TRUE}, language : BOOLEAN, prefs : {0}, applied : {FALSE}]
    /\ disk = memory /\ draft = memory.prefs /\ unreloaded = FALSE
    /\ notice \in BOOLEAN /\ requested = TRUE /\ gate = "none"
    /\ screen = (IF ~memory.language THEN "FirstLanguage"
                 ELSE IF notice THEN "MigrationNotice" ELSE "Main")
    /\ yes = FALSE /\ pending = NoEffect /\ retry = NoEffect
    /\ plan = "none" /\ unplan = FALSE
    /\ listing = "loading" /\ listed = {} /\ cursor = 0 /\ tail = NoJob /\ target = NoJob
    /\ offer = NoOutcome /\ exit = NoOutcome

(* request_startup_update_check before the loop, with a language chosen.   *)
Request ==
    /\ loop = "start" /\ loop' = "draw"
    /\ IF memory.language THEN StartRequested ELSE UNCHANGED <<checks, gate, requested>>
    /\ IF gate' = "startup" /\ ~notice THEN Show("UpdateChecking") ELSE UNCHANGED view
    /\ UNCHANGED <<seen, effects, settings, plans, dashboard, offer, exit, notice>>

TerminalNext ==
    \/ Request \/ Draw \/ Execute \/ HandleKey \/ Breaks
    \/ \E c \in Checkers : WorkerRuns(c)

TerminalSpec == TerminalInit /\ [][TerminalNext]_terminalVars

(* The loop goes round by itself, and every probe has its time limits.     *)
LoopGoesOn == Request \/ Draw \/ Execute \/ NoKey
TerminalFairness == WF_terminalVars(LoopGoesOn) /\ \A c \in Checkers : WF_terminalVars(WorkerRuns(c))
FairTerminalSpec == TerminalSpec /\ TerminalFairness
-----------------------------------------------------------------------------
TerminalTypeOK ==
    /\ CheckTypeOK
    /\ loop \in {"start", "draw", "act", "over"} /\ screen \in Screens /\ yes \in BOOLEAN
    /\ seen \in [screen : Screens \cup {"none"}, yes : BOOLEAN, job : Jobs \cup {NoJob},
                 plan : {"none", "plain", "conflict"}, offer : Found \cup {NoOutcome, Failure}]
    /\ {pending, retry} \subseteq [kind : Kinds \cup {"none"}, job : Jobs \cup {NoJob}]
    /\ draft \in Preferences /\ unreloaded \in BOOLEAN
    /\ {memory, disk} \subseteq [present : BOOLEAN, language : BOOLEAN, applied : BOOLEAN,
                                 prefs : Preferences]
    /\ plan \in {"none", "plain", "conflict"} /\ unplan \in BOOLEAN
    /\ listing \in {"loading", "empty", "ready", "error"} /\ listed \subseteq Jobs
    /\ cursor \in 0..Cardinality(Jobs) /\ {tail, target} \subseteq Jobs \cup {NoJob}
    /\ gate \in {"none", "startup", "page"} /\ {requested, notice} \subseteq BOOLEAN
    /\ {offer, exit} \subseteq Found \cup {NoOutcome, Failure}

(* execute_pending, save_settings, refresh_jobs, move_job_selection: after *)
(* any sequence of saves, failures and retries, the settings the terminal  *)
(* shows and writes back are those of the file (or a file is not there and *)
(* nothing counts as applied), the output shown is never that of another   *)
(* job than the one under the cursor, and no job stays marked to be killed *)
(* once its confirmation is gone.                                          *)
WhatIsShownIsTrue ==
    /\ TerminalTypeOK
    /\ OffersAreSound
    /\ ~unreloaded => IF disk.present THEN memory = disk ELSE ~memory.applied
    /\ Focused # NoJob => tail \in {NoJob, Focused}
    /\ target # NoJob => screen \in {"JobsKillConfirm", "JobsKilling", "JobsKillFailed"}

(* handle_apply_confirm, handle_unapply_confirm, handle_config_reset_confirm,*)
(* handle_jobs_kill_confirm, handle_update_confirm: what cannot be undone    *)
(* begins only with a key on its confirmation after the frame that showed    *)
(* "yes" was drawn, for the very plan, job or update that frame was about; a *)
(* commit that failed is planned, shown and confirmed again.                 *)
Answered(s) == seen.screen = s /\ seen.yes /\ loop = "act"
Begins(kind) == pending'.kind = kind /\ pending # pending'
CommitsWhatWasShown == [][
    /\ Begins("CommitApply") =>
          Answered("ApplyConfirm") /\ plan # "none" /\ seen.plan = plan
    /\ Begins("CommitUnapply") => Answered("UnapplyConfirm") /\ unplan
    /\ Begins("ResetConfig") =>
          Answered("ConfigResetConfirm") \/ retry.kind = "ResetConfig"
    /\ Begins("KillJob") =>
          \/ Answered("JobsKillConfirm") /\ seen.job = pending'.job
          \/ seen.screen = "JobsKillFailed" /\ seen.job = pending'.job
    /\ exit' # exit => Answered("UpdateConfirm") /\ seen.offer = exit'
  ]_terminalVars

(* execute_pending, poll_update_check_at: whatever fails, and however long  *)
(* an update check takes, a screen that takes no keys is left again.        *)
BlockingScreensEnd == (screen \in Blocking) ~> (screen \notin Blocking \/ loop = "over")
=============================================================================
