------------------------------- MODULE Update -------------------------------
(***************************************************************************)
(* Installing an update (update/helper.rs, cli/mod.rs, launcher.js).  The  *)
(* terminal interface ends itself into a helper, a copy of the program     *)
(* outside the installation.  The helper takes the update lock, replaces   *)
(* the binary or asks npm to, starts the new version and waits until that  *)
(* reports its health in a file; it then waits for the new session, or     *)
(* restores the previous version and opens that.  Meanwhile the shell      *)
(* waits for the process it started: the old interface for a release       *)
(* download, and the node launcher for npm, which follows a marker file.   *)
(*                                                                         *)
(* Several interfaces may update at once, of one installation or several:  *)
(* a release download, a global npm package, an npx session.  An update    *)
(* is one run of the protocol, with all its processes and private files.   *)
(***************************************************************************)
EXTENDS Naturals, FiniteSets

CONSTANTS
    Updates,        \* runs of the protocol
    Kinds,          \* the installations: "release", "global", "exec"
    KindsOf(_),     \* KindsOf(u): those that run u may be of
    Newest,         \* bound: versions are 1..Newest, and 1 is installed
    Applied,        \* whether there is an Apply copy of the program
    None,
    MaxTrouble      \* bound: failing operations, time-outs and crashes

ASSUME UpdateAssumption ==
    /\ Kinds \subseteq {"release", "global", "exec"}
    /\ \A u \in Updates : KindsOf(u) \subseteq Kinds
    /\ Applied \in BOOLEAN /\ Newest \in Nat \ {0} /\ MaxTrouble \in Nat
    /\ None \notin Updates \cup Nat

VARIABLES
    product,        \* product[k]: the version that installation k holds
    confirmed,      \* confirmed[k]: the versions of k that proved that they run
    copy,           \* the version of the Apply copy, None without one
    lock,           \* the update whose helper holds update.lock, or None
    up,             \* the runs
    trouble         \* how much of the bound is used up

vars == <<product, confirmed, copy, lock, up, trouble>>

Versions == 1..Newest
MayFail == trouble < MaxTrouble
Fault == trouble' = trouble + 1
NoFault == trouble' = trouble
-----------------------------------------------------------------------------
(* One run.  tui, launcher, helper, child (the new version) and fallback   *)
(* are where these processes stand; severed says that the launcher above   *)
(* the child was killed without it; request, health and handoff are the    *)
(* private files; original is what the helper keeps to restore; torn says  *)
(* that it could not, and swept that another update removed its files.     *)

Idle == [tui |-> "off", kind |-> None, version |-> 1, target |-> 1,
         launcher |-> "none", helper |-> "none", child |-> "none",
         severed |-> FALSE, fallback |-> "none", request |-> FALSE,
         health |-> "none", handoff |-> "none", original |-> 1,
         old |-> FALSE, swept |-> FALSE, torn |-> FALSE]

Npm(r) == r.kind \in {"global", "exec"}
(* What install, replacement and roll-back write: npx has its own cache.   *)
Persistent(r) == r.kind \in {"release", "global"}

Become(u, changed) == up' = [up EXCEPT ![u] = changed]
HelperAt(u, pc) == up[u].helper = pc
HelperOver(r) == r.helper \in {"ended", "dead"}
HelperGoes(u, pc) == Become(u, [up[u] EXCEPT !.helper = pc])

(* The guard that npm updates hold while the helper runs writes the last   *)
(* state of the marker, over whatever is there.                            *)
HelperEnded(r, verdict) ==
    [r EXCEPT !.helper = "ended",
        !.handoff = IF ~Npm(r) THEN @ ELSE IF verdict = "ok" THEN "done"
                    ELSE "failed"]
CleanedUp(r) == [r EXCEPT !.health = "none", !.request = FALSE]
-----------------------------------------------------------------------------
(* The old interface                                                       *)

OpenTui(u) ==
    /\ up[u].tui = "off"
    /\ \E k \in KindsOf(u) :
          /\ Become(u, [Idle EXCEPT !.tui = "session", !.kind = k,
                       !.version = product[k], !.launcher =
                          IF k = "release" THEN "none" ELSE "child"])
          /\ confirmed' = [confirmed EXCEPT ![k] = @ \cup {product[k]}]
    /\ UNCHANGED <<product, copy, lock, trouble>>

(* A plan must be newer than the running version.  Files of other updates  *)
(* that are older than a day are removed; then the helper is copied, the   *)
(* request written, the marker created as "starting", the helper started.  *)
SweptBy(u) == [v \in Updates |->
    IF v # u /\ up[v].old
    THEN [up[v] EXCEPT !.handoff = "none", !.old = FALSE, !.swept = TRUE]
    ELSE up[v]]

BeginUpdate(u) ==
    /\ up[u].tui = "session"
    /\ \E target \in Versions :
          /\ target > up[u].version
          /\ up' = [SweptBy(u) EXCEPT ![u] = [@ EXCEPT !.tui = "handing",
                !.target = target, !.helper = "loading", !.request = TRUE,
                !.handoff = IF Npm(up[u]) THEN "starting" ELSE "none"]]
    /\ UNCHANGED <<product, confirmed, copy, lock, trouble>>

(* One of these steps fails: what was written is removed again.            *)
BeginFails(u) ==
    /\ up[u].tui = "session" /\ MayFail /\ Fault
    /\ up' = [SweptBy(u) EXCEPT ![u].tui = "exited"]
    /\ UNCHANGED <<product, confirmed, copy, lock>>

(* npm: the marker says "running" and the interface exits with the code    *)
(* that tells the launcher to wait.                                        *)
HandOver_NoMarker(u) ==
    /\ up[u].tui = "handing"
    /\ Become(u, IF Npm(up[u])
                 THEN [up[u] EXCEPT !.tui = "exited", !.launcher = "polling"]
                 ELSE [up[u] EXCEPT !.tui = "waiting"])
    /\ UNCHANGED <<product, confirmed, copy, lock, trouble>>
HandOver(u) ==
    /\ up[u].tui = "handing"
    /\ Become(u, IF Npm(up[u])
                 THEN [up[u] EXCEPT !.tui = "exited", !.handoff = "running",
                                    !.launcher = "polling"]
                 ELSE [up[u] EXCEPT !.tui = "waiting"])
    /\ UNCHANGED <<product, confirmed, copy, lock, trouble>>

(* The marker cannot be written: the helper is killed, the files removed.  *)
HandOverFails(u) ==
    /\ up[u].tui = "handing" /\ Npm(up[u]) /\ MayFail /\ Fault
    /\ Become(u, [CleanedUp(up[u]) EXCEPT !.tui = "exited",
           !.handoff = "none",
           !.helper = IF @ = "ended" THEN @ ELSE "dead"])
    /\ UNCHANGED <<product, confirmed, copy, lock>>

(* Release download: the interface outlives its helper.                    *)
Waited(u) ==
    /\ up[u].tui = "waiting" /\ HelperOver(up[u])
    /\ Become(u, [CleanedUp(up[u]) EXCEPT !.tui = "exited"])
    /\ UNCHANGED <<product, confirmed, copy, lock, trouble>>
-----------------------------------------------------------------------------
(* The node launcher above the old interface.  It polls the marker: unless *)
(* that is missing or at its end, it looks whether the helper is alive.    *)

LauncherFrame == UNCHANGED <<product, confirmed, copy, lock, trouble>>
LauncherEnds(u) == Become(u, [up[u] EXCEPT !.launcher = "ended"])

LauncherFollows(u) ==
    /\ up[u].launcher = "child" /\ up[u].tui = "exited"
    /\ LauncherEnds(u) /\ LauncherFrame

MarkerMissing(u) ==
    /\ up[u].launcher = "polling"
    /\ up[u].handoff \notin {"running", "done", "failed"}
    /\ LauncherEnds(u) /\ LauncherFrame

LauncherPolls_MarkerOnly(u) ==
    /\ up[u].launcher = "polling" /\ up[u].handoff \in {"done", "failed"}
    /\ Become(u, [up[u] EXCEPT !.launcher = "ended", !.handoff = "none"])
    /\ LauncherFrame
LauncherPolls(u) ==
    /\ up[u].launcher = "polling"
    /\ \/ up[u].handoff \in {"done", "failed"}
       \/ up[u].handoff = "running" /\ HelperOver(up[u])
    /\ Become(u, [up[u] EXCEPT !.launcher = "ended", !.handoff = "none"])
    /\ LauncherFrame
-----------------------------------------------------------------------------
(* The helper                                                              *)

HelperLoads(u) ==
    /\ HelperAt(u, "loading")
    /\ \/ /\ up[u].request
          /\ HelperGoes(u, IF Npm(up[u]) THEN "parent_exit" ELSE "locking")
          /\ NoFault
       \/ /\ ((~up[u].request /\ NoFault) \/ (MayFail /\ Fault))
          /\ Become(u, [up[u] EXCEPT !.helper = "ended"])
    /\ UNCHANGED <<product, confirmed, copy, lock>>

(* npm replaces files that the old interface has open: wait for its exit.  *)
ParentExited(u) ==
    /\ HelperAt(u, "parent_exit")
    /\ \/ up[u].tui = "exited" /\ HelperGoes(u, "locking") /\ NoFault
       \/ /\ up[u].tui # "exited" /\ MayFail /\ Fault
          /\ Become(u, HelperEnded(up[u], "failed"))
    /\ UNCHANGED <<product, confirmed, copy, lock>>

(* Failed: the request is cleaned up, the previous version opened, the     *)
(* lock dropped; if it cannot be opened, the helper ends.                  *)
GivesUp(r) ==
    {[CleanedUp(r) EXCEPT !.helper = "fallback", !.fallback = "running"]}
      \cup IF MayFail THEN {HelperEnded(CleanedUp(r), "failed")} ELSE {}

TryLock(u) ==
    /\ HelperAt(u, "locking")
    /\ IF lock = None
       THEN /\ lock' = u
            /\ Become(u, [up[u] EXCEPT
                   !.helper = IF Persistent(up[u]) THEN "install" ELSE "start",
                   !.original = IF Npm(up[u]) THEN 1
                               ELSE product[up[u].kind]])
            /\ NoFault
       ELSE /\ \E r \in GivesUp(up[u]) :
                  /\ Become(u, r)
                  /\ IF r.fallback = "none" THEN Fault ELSE NoFault
            /\ UNCHANGED lock
    /\ UNCHANGED <<product, confirmed, copy>>

(* A release: download, check sums, extraction, probe of the version, and  *)
(* an atomic replacement.  npm: npm install of the exact version.          *)
Install(u) ==
    /\ HelperAt(u, "install")
    /\ product' = [product EXCEPT ![up[u].kind] = up[u].target]
    /\ HelperGoes(u, "start")
    /\ UNCHANGED <<confirmed, copy, lock, trouble>>

(* A failing npm install may have replaced the package or not.             *)
InstallFails(u) ==
    /\ HelperAt(u, "install") /\ MayFail /\ Fault
    /\ IF Npm(up[u])
       THEN /\ \E v \in {product[up[u].kind], up[u].target} :
                  product' = [product EXCEPT ![up[u].kind] = v]
            /\ HelperGoes(u, "restore")
       ELSE HelperGoes(u, "failed") /\ UNCHANGED product
    /\ UNCHANGED <<confirmed, copy, lock>>

StartChild(u) ==
    /\ HelperAt(u, "start")
    /\ Become(u, [up[u] EXCEPT !.helper = "health",
          !.child = IF Npm(up[u]) THEN "launcher" ELSE "loading"])
    /\ UNCHANGED <<product, confirmed, copy, lock, trouble>>

RestoreOrFail(r) == IF Persistent(r) THEN "restore" ELSE "failed"

StartFails(u) ==
    /\ HelperAt(u, "start") /\ MayFail /\ Fault
    /\ HelperGoes(u, RestoreOrFail(up[u]))
    /\ UNCHANGED <<product, confirmed, copy, lock>>

(* wait_for_health: what the file holds is read before anything else is    *)
(* looked at.  A file without its content yet is an invalid signal.        *)
ReadHealth(u) ==
    /\ HelperAt(u, "health")
    /\ IF up[u].health = "ok"
       THEN /\ Become(u, [CleanedUp(up[u]) EXCEPT !.helper = "session"])
            /\ lock' = None
            /\ confirmed' = [confirmed EXCEPT ![up[u].kind] =
                                @ \cup {up[u].target}]
       ELSE /\ HelperGoes(u, IF up[u].health = "none" THEN "unhealthy"
                             ELSE "kill")
            /\ UNCHANGED <<lock, confirmed>>
    /\ UNCHANGED <<product, copy, trouble>>

ChildGone(r) == r.child = "gone" \/ r.severed

(* No signal: the child's end is noticed next, then the time-out, which    *)
(* comes at any time.                                                      *)
StillUnhealthy_NothingToUndo(u) ==
    /\ HelperAt(u, "unhealthy")
    /\ IF ChildGone(up[u]) THEN HelperGoes(u, "failed") /\ NoFault
       ELSE \E next \in {"health", "kill"} : HelperGoes(u, next) /\ NoFault
    /\ UNCHANGED <<product, confirmed, copy, lock>>
StillUnhealthy(u) ==
    /\ HelperAt(u, "unhealthy")
    /\ IF ChildGone(up[u]) THEN HelperGoes(u, "kill") /\ NoFault
       ELSE \E next \in {"health", "kill"} : HelperGoes(u, next) /\ NoFault
    /\ UNCHANGED <<product, confirmed, copy, lock>>

(* The child is killed.  Of npm's two processes that is the launcher, and  *)
(* FastCtx below it runs on.                                               *)
KillChild(u) ==
    /\ HelperAt(u, "kill")
    /\ Become(u, [up[u] EXCEPT !.helper = RestoreOrFail(up[u]),
          !.child = IF Npm(up[u]) /\ @ # "launcher" THEN @ ELSE "gone",
          !.severed = Npm(up[u]) /\ up[u].child \notin {"launcher", "gone"}])
    /\ UNCHANGED <<product, confirmed, copy, lock, trouble>>

(* The bytes of before are put back; npm installs the version that the old *)
(* interface ran.                                                          *)
Previous(r) == IF r.kind = "release" THEN r.original ELSE r.version

Restore(u) ==
    /\ HelperAt(u, "restore")
    /\ product' = [product EXCEPT ![up[u].kind] = Previous(up[u])]
    /\ HelperGoes(u, "failed")
    /\ UNCHANGED <<confirmed, copy, lock, trouble>>

RestoreFails(u) ==
    /\ HelperAt(u, "restore") /\ MayFail /\ Fault
    /\ Become(u, [up[u] EXCEPT !.helper = "failed", !.torn = TRUE])
    /\ UNCHANGED <<product, confirmed, copy, lock>>

GiveUp(u) ==
    /\ HelperAt(u, "failed")
    /\ \E r \in GivesUp(up[u]) :
          Become(u, r) /\ (IF r.fallback = "none" THEN Fault ELSE NoFault)
    /\ lock' = None
    /\ UNCHANGED <<product, confirmed, copy>>

(* The helper waits for the session it opened, and ends.                   *)
SessionOver(u) ==
    /\ \/ HelperAt(u, "session") /\ ChildGone(up[u])
          /\ Become(u, HelperEnded(up[u], "ok"))
       \/ HelperAt(u, "fallback") /\ up[u].fallback = "gone"
          /\ Become(u, HelperEnded(up[u], "failed"))
    /\ UNCHANGED <<product, confirmed, copy, lock, trouble>>

(* The helper dies: its lock goes with it.                                 *)
HelperDies(u) ==
    /\ up[u].helper \notin {"none", "ended", "dead"} /\ MayFail /\ Fault
    /\ Become(u, [up[u] EXCEPT !.helper = "dead", !.torn = @ \/ lock = u])
    /\ lock' = IF lock = u THEN None ELSE lock
    /\ UNCHANGED <<product, confirmed, copy>>
-----------------------------------------------------------------------------
(* The new version                                                         *)

ChildFrame == UNCHANGED <<product, confirmed, lock>>
ChildGoes(u, pc) == Become(u, [up[u] EXCEPT !.child = pc])

LauncherStartsChild(u) ==
    /\ up[u].child = "launcher" /\ ChildGoes(u, "loading")
    /\ ChildFrame /\ UNCHANGED <<copy, trouble>>

(* It loads the request, checks its own version and origin, and creates    *)
(* the health file: its content follows.                                   *)
ChildLoads(u) ==
    /\ up[u].child = "loading"
    /\ \/ /\ up[u].request /\ NoFault
          /\ Become(u, [up[u] EXCEPT !.child = "created", !.health = "empty"])
       \/ ((~up[u].request /\ NoFault) \/ (MayFail /\ Fault))
          /\ ChildGoes(u, "gone")
    /\ ChildFrame /\ UNCHANGED copy

(* The content goes to the open file, whether it still has its name.       *)
WriteHealth(u) ==
    /\ up[u].child = "created"
    /\ Become(u, [up[u] EXCEPT !.child = "signalled",
                               !.health = IF @ = "empty" THEN "ok" ELSE @])
    /\ ChildFrame /\ UNCHANGED <<copy, trouble>>

WriteHealthFails(u) ==
    /\ up[u].child = "created" /\ MayFail /\ Fault /\ ChildGoes(u, "gone")
    /\ ChildFrame /\ UNCHANGED copy

(* The Apply copy follows, if there is one and it is as its receipt says;  *)
(* a refusal is a notice.  Then the interface opens.                       *)
SyncCopy(u) ==
    /\ up[u].child = "signalled" /\ ChildGoes(u, "tui")
    /\ copy' \in {copy} \cup IF Applied THEN {up[u].target} ELSE {}
    /\ ChildFrame /\ UNCHANGED trouble

QuitChild(u) ==
    /\ up[u].child = "tui" /\ ChildGoes(u, "gone")
    /\ ChildFrame /\ UNCHANGED <<copy, trouble>>

QuitFallback(u) ==
    /\ up[u].fallback = "running"
    /\ Become(u, [up[u] EXCEPT !.fallback = "gone"])
    /\ ChildFrame /\ UNCHANGED <<copy, trouble>>

(* A session stays open for more than a day: its files are old.            *)
Age(u) ==
    /\ up[u].helper \in {"session", "fallback"} /\ ~up[u].old
    /\ up[u].handoff = "running"
    /\ Become(u, [up[u] EXCEPT !.old = TRUE])
    /\ ChildFrame /\ UNCHANGED <<copy, trouble>>
-----------------------------------------------------------------------------
Init ==
    /\ product = [k \in Kinds |-> 1]
    /\ confirmed = [k \in Kinds |-> {1}]
    /\ copy = IF Applied THEN 1 ELSE None
    /\ lock = None
    /\ up = [u \in Updates |-> Idle]
    /\ trouble = 0

TuiActs(u) == BeginUpdate(u) \/ BeginFails(u) \/ HandOver(u)
                  \/ HandOverFails(u) \/ Waited(u)
LauncherActs(u) == LauncherFollows(u) \/ MarkerMissing(u) \/ LauncherPolls(u)
HelperActs(u) ==
    \/ HelperLoads(u) \/ ParentExited(u) \/ TryLock(u) \/ Install(u)
    \/ InstallFails(u) \/ StartChild(u) \/ StartFails(u) \/ ReadHealth(u)
    \/ StillUnhealthy(u) \/ KillChild(u) \/ Restore(u) \/ RestoreFails(u)
    \/ GiveUp(u) \/ SessionOver(u)
ChildActs(u) ==
    \/ LauncherStartsChild(u) \/ ChildLoads(u) \/ WriteHealth(u)
    \/ WriteHealthFails(u) \/ SyncCopy(u)

Next == \E u \in Updates :
    \/ OpenTui(u) \/ TuiActs(u) \/ LauncherActs(u) \/ HelperActs(u)
    \/ HelperDies(u) \/ ChildActs(u) \/ QuitChild(u) \/ QuitFallback(u)
    \/ Age(u)

HealthTimeout(u) == StillUnhealthy(u) /\ up'[u].helper = "kill"

(* Processes run; users may leave a session open for ever.  A new version  *)
(* may hang before it reports its health: the helper's clock does not.     *)
Fairness == \A u \in Updates :
    /\ WF_vars((up[u].tui # "session" /\ TuiActs(u)) \/ LauncherActs(u))
    /\ WF_vars(HelperActs(u))
    /\ SF_vars(HealthTimeout(u))
    /\ WF_vars(up[u].child = "signalled" /\ ChildActs(u))

Spec == Init /\ [][Next]_vars /\ Fairness
-----------------------------------------------------------------------------
(* Properties                                                              *)

Holding == {"install", "start", "health", "unhealthy", "kill", "restore",
            "failed"}
Runs == [tui : {"off", "session", "handing", "waiting", "exited"},
         kind : Kinds \cup {None}, version : Versions, target : Versions,
         launcher : {"none", "child", "polling", "ended"},
         helper : Holding \cup {"none", "loading", "parent_exit", "locking",
                     "session", "fallback", "ended", "dead"},
         child : {"none", "launcher", "loading", "created",
                  "signalled", "tui", "gone"},
         severed : BOOLEAN, fallback : {"none", "running", "gone"},
         request : BOOLEAN, health : {"none", "empty", "ok"},
         handoff : {"none", "starting", "running", "done", "failed"},
         original : Versions, old : BOOLEAN, swept : BOOLEAN,
         torn : BOOLEAN]

(* The lock is held from its acquisition to the confirmation or to the end *)
(* of the roll-back, and no file of a run outlives its success.            *)
TypeOK ==
    /\ product \in [Kinds -> Versions]
    /\ confirmed \in [Kinds -> SUBSET Versions]
    /\ copy \in Versions \cup {None} /\ lock \in Updates \cup {None}
    /\ up \in [Updates -> Runs] /\ trouble \in 0..MaxTrouble
    /\ \A u \in Updates : /\ lock = u <=> up[u].helper \in Holding
                          /\ HelperAt(u, "session") =>
                                ~up[u].request /\ up[u].health = "none"

(* replace_release_with_rollback, run_with_npm_rollback: when no update of *)
(* an installation is under way, it holds a version that has proved that   *)
(* it starts, whatever updates failed, ran into each other or into a       *)
(* time-out; only a crash or a failed restoration breaks it.               *)
OnlyHealthyVersionsStay ==
    /\ TypeOK
    /\ \A k \in Kinds :
          \/ product[k] \in confirmed[k]
          \/ lock # None /\ up[lock].kind = k
          \/ \E u \in Updates : up[u].kind = k /\ up[u].torn

(* UpdateStart: the process that the shell waits for outlives the helper   *)
(* and, for a release, the session that the helper opened; two sessions of *)
(* a release never share the terminal.  A swept marker is the exception.   *)
Foreground(r) == IF r.launcher = "none" THEN r.tui ELSE r.launcher
Live(r) == r.child \notin {"none", "gone"}
TerminalIsKept ==
    \A u \in Updates :
        /\ Foreground(up[u]) \in {"exited", "ended"} /\ ~up[u].swept =>
              up[u].helper \in {"none", "ended", "dead"}
        /\ up[u].kind = "release" =>
              /\ up[u].helper = "ended" =>
                    ~Live(up[u]) /\ up[u].fallback # "running"
              /\ ~(Live(up[u]) /\ up[u].fallback = "running")

(* Every update leads to an open session, with the lock free for the next  *)
(* one, or to the end of the process that the shell waits for; and when    *)
(* the session is closed, that process ends.  No marker, lock or time-out  *)
(* is waited for in vain, even when the helper dies or the new version     *)
(* hangs before it reports its health.                                     *)
Begun(u) == up[u].helper # "none"
Open(u) == lock # u /\ (up[u].child = "tui" \/ up[u].fallback = "running")
UpdatesSettle ==
    \A u \in Updates :
        Begun(u) ~> Open(u) \/ Foreground(up[u]) \in {"exited", "ended"}
=============================================================================
