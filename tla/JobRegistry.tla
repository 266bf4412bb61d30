---------------------------- MODULE JobRegistry ----------------------------
(***************************************************************************)
(* Background jobs of fastctx (src/src/shell/jobs/): the job directories   *)
(* under ~/.fastctx/jobs, the detached supervisor ("job host") that owns   *)
(* each job's command, the watchdog that guards against orphans, and the   *)
(* processes that share the directories: servers starting jobs under the   *)
(* cross-process admission lock, clients asking for a job's state or       *)
(* killing it without any lock, and Unapply.                               *)
(*                                                                         *)
(* The processes communicate through files alone, so every read of a       *)
(* record takes the steps it takes in the code: the metadata and the exit  *)
(* record are read first, the liveness of the supervisor and the existence *)
(* of the directory are looked at later.                                   *)
(***************************************************************************)
EXTENDS Integers, FiniteSets

CONSTANTS
    Jobs,          \* job ids, one per reservation
    Servers,       \* server processes; each has one start or cleanup under way
    Clients,       \* callers of job_output and job_kill
    Listers,       \* callers of job_list, and the Jobs dashboards
    Unappliers,    \* processes committing an Unapply
    MaxRunning,    \* fastshell.max_running_jobs
    MaxCrashes,    \* bound: crashes of servers and supervisors
    MaxGeneration, \* bound: how often Unapply fences older servers
    Timely,        \* no launch outlives STARTUP_TIMEOUT or PENDING_STALE_AFTER
    None

ASSUME RegistryAssumption ==
    /\ MaxRunning \in Nat \ {0} /\ MaxCrashes \in Nat /\ MaxGeneration \in Nat
    /\ Timely \in BOOLEAN
    /\ None \notin Jobs \cup Servers \cup Unappliers
    /\ Servers \cap (Clients \cup Listers \cup Unappliers) = {}
    /\ Clients \cap (Listers \cup Unappliers) = {}
    /\ Listers \cap Unappliers = {}

VARIABLES
    registry,     \* per job: the directory and the records in it
    host,         \* per job: where its supervisor is
    command,      \* per job: its command's process group
    watchdog,     \* per job: the orphan guard of the command
    ready,        \* per job: what the readiness pipe carries
    launcher,     \* per job: the server process that can read that pipe
    issued,       \* job ids ever reserved
    lock,         \* holder of the admission lock
    generation,   \* the admission generation on disk
    manager,      \* per server: the generation it observed when it started
    proc,         \* per process: the call it is in
    told,         \* per client and job: the last state it was told
    crashes

vars == <<registry, host, command, watchdog, ready, launcher, issued, lock,
          generation, manager, proc, told, crashes>>

supervision == <<host, command, watchdog, ready>>

Processes == Servers \cup Clients \cup Listers \cup Unappliers

-----------------------------------------------------------------------------
(***************************************************************************)
(* The files of a job.                                                     *)
(***************************************************************************)
ExitRecords == {"none", "exited", "killed"}

JobRecord == [dir : BOOLEAN, meta : BOOLEAN, exit : ExitRecords, kill : BOOLEAN]

NoDirectory == [dir |-> FALSE, meta |-> FALSE, exit |-> "none", kill |-> FALSE]

Reservation == [NoDirectory EXCEPT !.dir = TRUE]

(* JobStatus, plus the answer for a job without a record.                  *)
Ended == {"exited", "killed", "interrupted"}
Statuses == Ended \cup {"running", "missing"}

HostPC == {"none",                          \* not launched
           "boot",                          \* bootstrap or host without command
           "spawned", "armed", "published", \* starting up
           "failed",                        \* error exit, before reporting it
           "serving", "killing",            \* the control loop
           "exitedDraining", "killedDraining",
           "exitedDisarmed", "killedDisarmed",
           "leaving", "dead"}

CommandStates == {"none", "running",
                  "orphans",                \* root ended, descendants left
                  "gone"}

(* identity_is_alive of the supervisor.                                    *)
Alive_OnceReady(j) ==
    host[j] \notin {"none", "boot", "spawned", "armed", "published", "dead"}
Alive(j) == host[j] \notin {"none", "dead"}

ProcPC == {"down", "idle",
           "admitted", "reapScan", "evict", "reserve", "countScan", "launch",
           "await", "abort", "abortWait", "failed", "remove",
           "listScan", "find", "request", "poll",
           "sweepScan", "sweepKill", "swept"}

ScanPCs == {"reapScan", "countScan", "listScan", "sweepScan"}

Entries == [job : Jobs, meta : BOOLEAN, exit : ExitRecords, old : BOOLEAN]

ASSUME NoneIsNoEntry == None \notin Entries

Calls == [pc      : ProcPC,
          goal    : {"none", "start", "reap", "output", "kill"},
          job     : Jobs \cup {None},
          entry   : Entries \cup {None},  \* the record being read
          todo    : SUBSET Jobs,          \* scan: entries not looked at yet
          found   : SUBSET Jobs,          \* scan: terminal (reap) or running
          pending : SUBSET Jobs]          \* scan: pending reservations

Resting(pc) == [pc |-> pc, goal |-> "none", job |-> None, entry |-> None,
                todo |-> {}, found |-> {}, pending |-> {}]

Init ==
    /\ registry = [j \in Jobs |-> NoDirectory]
    /\ host = [j \in Jobs |-> "none"]
    /\ command = [j \in Jobs |-> "none"]
    /\ watchdog = [j \in Jobs |-> "none"]
    /\ ready = [j \in Jobs |-> "none"]
    /\ launcher = [j \in Jobs |-> None]
    /\ issued = {}
    /\ lock = None
    /\ generation = 0
    /\ manager = [s \in Servers |-> 0]
    /\ proc = [p \in Processes |-> Resting("idle")]
    /\ told = [c \in Clients |-> [j \in Jobs |-> "missing"]]
    /\ crashes = 0

At(p, pc) == proc[p].pc = pc

Step(p, call) == proc' = [proc EXCEPT ![p] = call]

Goto(p, pc) == Step(p, [proc[p] EXCEPT !.pc = pc])

StartScan(p, pc) ==
    Step(p, [proc[p] EXCEPT !.pc = pc, !.todo = Jobs, !.found = {}, !.pending = {}])

Scanned(p, pc) == At(p, pc) /\ proc[p].todo = {} /\ proc[p].entry = None

(* The call returns; the admission guard, if held, is dropped.             *)
Return_LeaksGuard(p) ==
    /\ Step(p, Resting("idle"))
    /\ UNCHANGED lock
Return(p) ==
    /\ Step(p, Resting("idle"))
    /\ lock' = IF lock = p THEN None ELSE lock

Remove_KeepsRecords(j) == registry' = [registry EXCEPT ![j].dir = FALSE]
Remove(j) == registry' = [registry EXCEPT ![j] = NoDirectory]

(* Sending SIGKILL to what is left of the command's process group.         *)
Terminated(j) == [command EXCEPT ![j] = IF @ = "none" THEN @ ELSE "gone"]

Disarmed(j) == [watchdog EXCEPT ![j] = IF @ = "armed" THEN "disarmed" ELSE @]

-----------------------------------------------------------------------------
(***************************************************************************)
(* scan_registry and find_record.                                          *)
(***************************************************************************)

(* A directory without metadata looks abandoned after a minute.  Under     *)
(* Timely it only does when no launch can still be working on it.          *)
MayLookAbandoned(j) ==
    \/ ~Timely
    \/ /\ ~Alive(j)
       /\ \A s \in Servers : proc[s].job # j

(* The first reads of an entry: metadata (and the directory's age) and the *)
(* exit record.                                                            *)
EntryOf(j, old) == [job |-> j, meta |-> registry[j].meta,
                    exit |-> registry[j].exit, old |-> old]

(* The last reads: liveness, asked only when there was no exit record, and *)
(* whether the directory is still there.                                   *)
Status(e) ==
    IF ~registry[e.job].dir THEN "missing"
    ELSE IF e.exit # "none" THEN e.exit
    ELSE IF Alive(e.job) THEN "running"
    ELSE "interrupted"

ScanRead(p) ==
    /\ proc[p].pc \in ScanPCs
    /\ proc[p].entry = None
    /\ \E j \in proc[p].todo, old \in BOOLEAN :
          /\ old => registry[j].dir /\ ~registry[j].meta /\ MayLookAbandoned(j)
          /\ Step(p, [proc[p] EXCEPT
                         !.todo = @ \ {j},
                         !.entry = IF registry[j].dir THEN EntryOf(j, old) ELSE None])
    /\ UNCHANGED <<registry, supervision, launcher, issued, lock, generation,
                   manager, told, crashes>>

(* A scan removes a stale reservation whoever runs it, with or without the *)
(* admission lock.                                                         *)
ScanRemovesStale(p) ==
    /\ proc[p].pc \in ScanPCs
    /\ proc[p].entry # None
    /\ ~proc[p].entry.meta /\ proc[p].entry.old
    /\ Remove(proc[p].entry.job)
    /\ Step(p, [proc[p] EXCEPT !.entry = None])
    /\ UNCHANGED <<supervision, launcher, issued, lock, generation, manager,
                   told, crashes>>

ScanCountsPending(p) ==
    /\ proc[p].pc \in ScanPCs
    /\ proc[p].entry # None
    /\ ~proc[p].entry.meta /\ ~proc[p].entry.old
    /\ Step(p, [proc[p] EXCEPT !.entry = None, !.pending = @ \cup {proc[p].entry.job}])
    /\ UNCHANGED <<registry, supervision, launcher, issued, lock, generation,
                   manager, told, crashes>>

(* reap wants the finished records, everyone else the running ones.        *)
Wanted_ReapsRunning(pc) ==
    IF pc = "reapScan" THEN Ended \cup {"running"} ELSE {"running"}
Wanted(pc) == IF pc = "reapScan" THEN Ended ELSE {"running"}

ScanResolves(p) ==
    /\ proc[p].pc \in ScanPCs
    /\ proc[p].entry # None
    /\ proc[p].entry.meta
    /\ Step(p, [proc[p] EXCEPT
                   !.entry = None,
                   !.found = IF Status(proc[p].entry) \in Wanted(proc[p].pc)
                             THEN @ \cup {proc[p].entry.job} ELSE @])
    /\ UNCHANGED <<registry, supervision, launcher, issued, lock, generation,
                   manager, told, crashes>>

-----------------------------------------------------------------------------
(***************************************************************************)
(* JobManager::start, which holds the admission lock to its end, and       *)
(* reap_history.                                                           *)
(***************************************************************************)

(* A server starts and observes the generation, under the lock.            *)
Boot(s) ==
    /\ At(s, "down")
    /\ lock = None
    /\ manager' = [manager EXCEPT ![s] = generation]
    /\ Goto(s, "idle")
    /\ UNCHANGED <<registry, supervision, launcher, issued, lock, generation,
                   told, crashes>>

Admit_AnyGeneration(s) ==
    /\ At(s, "idle")
    /\ lock = None
    /\ issued # Jobs
    /\ lock' = s
    /\ Step(s, [proc[s] EXCEPT !.pc = "admitted", !.goal = "start"])
    /\ UNCHANGED <<registry, supervision, launcher, issued, generation, manager,
                   told, crashes>>
Admit(s) ==
    /\ At(s, "idle")
    /\ lock = None
    /\ issued # Jobs
    /\ manager[s] = generation
    /\ lock' = s
    /\ Step(s, [proc[s] EXCEPT !.pc = "admitted", !.goal = "start"])
    /\ UNCHANGED <<registry, supervision, launcher, issued, generation, manager,
                   told, crashes>>

(* The control center's periodic cleanup; it compares no generation.       *)
ReapHistory(s) ==
    /\ At(s, "idle")
    /\ lock = None
    /\ \E j \in Jobs : registry[j].dir
    /\ lock' = s
    /\ Step(s, [proc[s] EXCEPT !.pc = "admitted", !.goal = "reap"])
    /\ UNCHANGED <<registry, supervision, launcher, issued, generation, manager,
                   told, crashes>>

(* What follows reap: a start goes on to reserve, a cleanup is over.       *)
Reaped(s) ==
    IF proc[s].goal = "start"
    THEN /\ Step(s, [proc[s] EXCEPT !.pc = "reserve", !.found = {}, !.pending = {}])
         /\ UNCHANGED lock
    ELSE Return(s)

WithinStorageLimit(s) ==
    /\ At(s, "admitted")
    /\ Reaped(s)
    /\ UNCHANGED <<registry, supervision, launcher, issued, generation, manager,
                   told, crashes>>

OverStorageLimit(s) ==
    /\ At(s, "admitted")
    /\ \E j \in Jobs : registry[j].dir
    /\ StartScan(s, "reapScan")
    /\ UNCHANGED <<registry, supervision, launcher, issued, lock, generation,
                   manager, told, crashes>>

(* Sizes are abstracted: reap may stop after any number of victims.        *)
ReapScanned(s) ==
    /\ Scanned(s, "reapScan")
    /\ Goto(s, "evict")
    /\ UNCHANGED <<registry, supervision, launcher, issued, lock, generation,
                   manager, told, crashes>>

Evict(s) ==
    /\ At(s, "evict")
    /\ \E j \in proc[s].found :
          /\ Remove(j)
          /\ Step(s, [proc[s] EXCEPT !.found = @ \ {j}])
    /\ UNCHANGED <<supervision, launcher, issued, lock, generation, manager,
                   told, crashes>>

EvictionDone(s) ==
    /\ At(s, "evict")
    /\ Reaped(s)
    /\ UNCHANGED <<registry, supervision, launcher, issued, generation, manager,
                   told, crashes>>

Reserve(s) ==
    /\ At(s, "reserve")
    /\ \E j \in Jobs \ issued :
          /\ registry' = [registry EXCEPT ![j] = Reservation]
          /\ issued' = issued \cup {j}
          /\ Step(s, [proc[s] EXCEPT !.pc = "countScan", !.job = j, !.todo = Jobs])
    /\ UNCHANGED <<supervision, launcher, lock, generation, manager, told, crashes>>

(* Running records and pending reservations count, the caller's included.  *)
Active_ForgetsPending(s) == Cardinality(proc[s].found)
Active(s) == Cardinality(proc[s].found) + Cardinality(proc[s].pending)

TooManyRunning(s) ==
    /\ Scanned(s, "countScan")
    /\ Active(s) > MaxRunning
    /\ Remove(proc[s].job)
    /\ Return(s)
    /\ UNCHANGED <<supervision, launcher, issued, generation, manager, told, crashes>>

WithinRunningLimit(s) ==
    /\ Scanned(s, "countScan")
    /\ Active(s) <= MaxRunning
    /\ Step(s, [proc[s] EXCEPT !.pc = "launch", !.found = {}, !.pending = {}])
    /\ UNCHANGED <<registry, supervision, launcher, issued, lock, generation,
                   manager, told, crashes>>

(* The supervisor process is spawned; the server keeps the read end of its *)
(* readiness pipe.                                                         *)
Launch(s) ==
    /\ At(s, "launch")
    /\ host' = [host EXCEPT ![proc[s].job] = "boot"]
    /\ launcher' = [launcher EXCEPT ![proc[s].job] = s]
    /\ Goto(s, "await")
    /\ UNCHANGED <<registry, command, watchdog, ready, issued, lock, generation,
                   manager, told, crashes>>

LaunchFails(s) ==
    /\ At(s, "launch")
    /\ Goto(s, "failed")
    /\ UNCHANGED <<registry, supervision, launcher, issued, lock, generation,
                   manager, told, crashes>>

AwaitReady(s) ==
    /\ At(s, "await")
    /\ ready[proc[s].job] = "ready"
    /\ Return(s)
    /\ UNCHANGED <<registry, supervision, launcher, issued, generation, manager,
                   told, crashes>>

AwaitError(s) ==
    /\ At(s, "await")
    /\ ready[proc[s].job] = "error"
    /\ Goto(s, "failed")
    /\ UNCHANGED <<registry, supervision, launcher, issued, lock, generation,
                   manager, told, crashes>>

(* End of file without an answer, or STARTUP_TIMEOUT.                      *)
LaunchAborts(s) ==
    /\ At(s, "await")
    /\ ready[proc[s].job] = "none"
    /\ ~Timely \/ ~Alive(proc[s].job)
    /\ Goto(s, "abort")
    /\ UNCHANGED <<registry, supervision, launcher, issued, lock, generation,
                   manager, told, crashes>>

(* abort_failed_launch kills the process it spawned, which on Unix is the  *)
(* bootstrap: a host that was already forked lives on.  Then it asks a     *)
(* published supervisor to kill its command.                               *)
AbortFailedLaunch(s) ==
    LET j == proc[s].job
        askToDie == registry[j].meta /\ Alive(j)
    IN  /\ At(s, "abort")
        /\ \/ host' = host
           \/ host[j] = "boot" /\ host' = [host EXCEPT ![j] = "dead"]
        /\ registry' = IF askToDie THEN [registry EXCEPT ![j].kill = TRUE] ELSE registry
        /\ Goto(s, IF askToDie THEN "abortWait" ELSE "failed")
        /\ UNCHANGED <<command, watchdog, ready, launcher, issued, lock,
                       generation, manager, told, crashes>>

(* The supervisor is gone or did not go within six seconds.                *)
AbortWaitEnds(s) ==
    /\ At(s, "abortWait")
    /\ Goto(s, "failed")
    /\ UNCHANGED <<registry, supervision, launcher, issued, lock, generation,
                   manager, told, crashes>>

(* start looks at the metadata once more before it gives up the directory. *)
Recheck(s) ==
    LET j == proc[s].job
        live == registry[j].meta /\ Alive(j)
    IN  /\ At(s, "failed")
        /\ IF live THEN Return(s) ELSE Goto(s, "remove") /\ UNCHANGED lock
        /\ UNCHANGED <<registry, supervision, launcher, issued, generation,
                       manager, told, crashes>>

RemoveReserved(s) ==
    /\ At(s, "remove")
    /\ Remove(proc[s].job)
    /\ Return(s)
    /\ UNCHANGED <<supervision, launcher, issued, generation, manager, told, crashes>>

(* A dead server releases the file lock and its ends of the pipes.         *)
ServerDies(s) ==
    /\ Step(s, Resting("down"))
    /\ lock' = IF lock = s THEN None ELSE lock
    /\ launcher' = [j \in Jobs |-> IF launcher[j] = s THEN None ELSE launcher[j]]
    /\ UNCHANGED <<registry, supervision, issued, generation, manager, told>>

ServerCrash(s) ==
    /\ ~At(s, "down")
    /\ crashes < MaxCrashes
    /\ crashes' = crashes + 1
    /\ ServerDies(s)

-----------------------------------------------------------------------------
(***************************************************************************)
(* The supervisor: run_job_host and supervise.                             *)
(***************************************************************************)
external == <<launcher, issued, lock, generation, manager, proc, told>>

HostGoto(j, pc) == host' = [host EXCEPT ![j] = pc]

HostSpawns(j) ==
    /\ host[j] = "boot"
    /\ HostGoto(j, "spawned")
    /\ command' = [command EXCEPT ![j] = "running"]
    /\ UNCHANGED <<registry, watchdog, ready, external, crashes>>

(* A command that ended before its identity could be read is terminated    *)
(* with its descendants and needs no watchdog.                             *)
HostArms(j) ==
    /\ host[j] = "spawned"
    /\ HostGoto(j, "armed")
    /\ IF command[j] = "running"
       THEN watchdog' = [watchdog EXCEPT ![j] = "armed"] /\ UNCHANGED command
       ELSE command' = Terminated(j) /\ UNCHANGED watchdog
    /\ UNCHANGED <<registry, ready, external, crashes>>

HostPublishes(j) ==
    /\ host[j] = "armed"
    /\ registry[j].dir
    /\ registry' = [registry EXCEPT ![j].meta = TRUE]
    /\ HostGoto(j, "published")
    /\ UNCHANGED <<command, watchdog, ready, external, crashes>>

(* Any error before the metadata is written: the command is terminated,    *)
(* then the watchdog released.  A missing directory always ends here.      *)
HostStartupFails(j) ==
    /\ host[j] \in {"boot", "spawned", "armed"}
    /\ HostGoto(j, "failed")
    /\ command' = Terminated(j)
    /\ watchdog' = Disarmed(j)
    /\ UNCHANGED <<registry, ready, external, crashes>>

HostReports(j) ==
    /\ host[j] = "failed"
    /\ HostGoto(j, "dead")
    /\ ready' = IF launcher[j] = None THEN ready ELSE [ready EXCEPT ![j] = "error"]
    /\ UNCHANGED <<registry, command, watchdog, external, crashes>>

HostReady(j) ==
    /\ host[j] = "published"
    /\ launcher[j] # None
    /\ HostGoto(j, "serving")
    /\ ready' = [ready EXCEPT ![j] = "ready"]
    /\ UNCHANGED <<registry, command, watchdog, external, crashes>>

(* Nobody reads the pipe any more: the launch is undone, the metadata stay.*)
HostUnheard(j) ==
    /\ host[j] = "published"
    /\ launcher[j] = None
    /\ HostGoto(j, "failed")
    /\ command' = Terminated(j)
    /\ watchdog' = Disarmed(j)
    /\ UNCHANGED <<registry, ready, external, crashes>>

(* try_wait has the status of the root: the rest of its tree is killed.    *)
HostSeesExit_SparesDescendants(j) ==
    /\ host[j] = "serving"
    /\ command[j] # "running"
    /\ HostGoto(j, "exitedDraining")
    /\ UNCHANGED <<registry, command, watchdog, ready, external, crashes>>
HostSeesExit(j) ==
    /\ host[j] = "serving"
    /\ command[j] # "running"
    /\ HostGoto(j, "exitedDraining")
    /\ command' = Terminated(j)
    /\ UNCHANGED <<registry, watchdog, ready, external, crashes>>

(* A kill request that comes after the root ended is cleared, not obeyed.  *)
HostSeesLateKill(j) ==
    /\ host[j] = "serving"
    /\ registry[j].kill
    /\ command[j] # "running"
    /\ HostGoto(j, "exitedDraining")
    /\ command' = Terminated(j)
    /\ registry' = [registry EXCEPT ![j].kill = FALSE]
    /\ UNCHANGED <<watchdog, ready, external, crashes>>

HostSeesKill_ClearsFirst(j) ==
    /\ host[j] = "serving"
    /\ registry[j].kill
    /\ command[j] = "running"
    /\ registry' = [registry EXCEPT ![j].kill = FALSE]
    /\ UNCHANGED <<host, command, watchdog, ready, external, crashes>>
HostSeesKill(j) ==
    /\ host[j] = "serving"
    /\ registry[j].kill
    /\ command[j] = "running"
    /\ HostGoto(j, "killing")
    /\ UNCHANGED <<registry, command, watchdog, ready, external, crashes>>

HostKills(j) ==
    /\ host[j] = "killing"
    /\ HostGoto(j, "killedDraining")
    /\ command' = Terminated(j)
    /\ registry' = [registry EXCEPT ![j].kill = FALSE]
    /\ UNCHANGED <<watchdog, ready, external, crashes>>

(* The reader is joined and the log finished before the watchdog goes.     *)
HostDisarms(j) ==
    /\ \/ host[j] = "exitedDraining" /\ HostGoto(j, "exitedDisarmed")
       \/ host[j] = "killedDraining" /\ HostGoto(j, "killedDisarmed")
    /\ watchdog' = Disarmed(j)
    /\ UNCHANGED <<registry, command, ready, external, crashes>>

ExitKind(j) == IF host[j] = "killedDisarmed" THEN "killed" ELSE "exited"

HostWritesExit(j) ==
    /\ host[j] \in {"exitedDisarmed", "killedDisarmed"}
    /\ registry' = IF registry[j].dir
                   THEN [registry EXCEPT ![j].exit = ExitKind(j)] ELSE registry
    /\ HostGoto(j, "leaving")
    /\ UNCHANGED <<command, watchdog, ready, external, crashes>>

HostLeaves(j) ==
    /\ host[j] = "leaving"
    /\ HostGoto(j, "dead")
    /\ UNCHANGED <<registry, command, watchdog, ready, external, crashes>>

HostCrash(j) ==
    /\ Alive(j)
    /\ crashes < MaxCrashes
    /\ crashes' = crashes + 1
    /\ HostGoto(j, "dead")
    /\ UNCHANGED <<registry, command, watchdog, ready, external>>

(* run_watchdog reads end of file: it kills the process group if the root  *)
(* of the command can still be identified.                                 *)
WatchdogFires_OnlyExits(j) ==
    /\ watchdog[j] = "armed"
    /\ host[j] = "dead"
    /\ watchdog' = [watchdog EXCEPT ![j] = "fired"]
    /\ UNCHANGED <<registry, host, command, ready, external, crashes>>
WatchdogFires(j) ==
    /\ watchdog[j] = "armed"
    /\ host[j] = "dead"
    /\ watchdog' = [watchdog EXCEPT ![j] = "fired"]
    /\ command' = IF command[j] = "running" THEN Terminated(j) ELSE command
    /\ UNCHANGED <<registry, host, ready, external, crashes>>

RootEnds(j) ==
    /\ command[j] = "running"
    /\ \E left \in {"orphans", "gone"} : command' = [command EXCEPT ![j] = left]
    /\ UNCHANGED <<registry, host, watchdog, ready, external, crashes>>

DescendantsEnd(j) ==
    /\ command[j] = "orphans"
    /\ command' = [command EXCEPT ![j] = "gone"]
    /\ UNCHANGED <<registry, host, watchdog, ready, external, crashes>>

HostSteps(j) ==
    \/ HostSpawns(j) \/ HostArms(j) \/ HostPublishes(j) \/ HostStartupFails(j)
    \/ HostReports(j) \/ HostReady(j) \/ HostUnheard(j) \/ HostSeesExit(j)
    \/ HostSeesLateKill(j) \/ HostSeesKill(j) \/ HostKills(j) \/ HostDisarms(j)
    \/ HostWritesExit(j) \/ HostLeaves(j)

-----------------------------------------------------------------------------
(***************************************************************************)
(* Lock-free callers: job_output, job_kill (terminate) and job_list.       *)
(***************************************************************************)
Ask(c, goal) ==
    /\ At(c, "idle")
    /\ \E j \in issued :
          Step(c, [proc[c] EXCEPT !.pc = "find", !.goal = goal, !.job = j])
    /\ UNCHANGED <<registry, supervision, launcher, issued, lock, generation,
                   manager, told, crashes>>

List(l) ==
    /\ At(l, "idle")
    /\ StartScan(l, "listScan")
    /\ UNCHANGED <<registry, supervision, launcher, issued, lock, generation,
                   manager, told, crashes>>

ListDone(l) ==
    /\ Scanned(l, "listScan")
    /\ Step(l, Resting("idle"))
    /\ UNCHANGED <<registry, supervision, launcher, issued, lock, generation,
                   manager, told, crashes>>

FindRead(p) ==
    /\ proc[p].pc \in {"find", "poll"}
    /\ proc[p].entry = None
    /\ registry[proc[p].job].meta
    /\ Step(p, [proc[p] EXCEPT !.entry = EntryOf(proc[p].job, FALSE)])
    /\ UNCHANGED <<registry, supervision, launcher, issued, lock, generation,
                   manager, told, crashes>>

(* The caller gets its answer.  Unapply goes on with its next job, and     *)
(* gives up, without touching any configuration, when a job is missing.    *)
Answer(p, status) ==
    IF p \in Clients
    THEN /\ told' = [told EXCEPT ![p][proc[p].job] = status]
         /\ Step(p, Resting("idle"))
         /\ UNCHANGED lock
    ELSE /\ UNCHANGED told
         /\ IF status = "missing" THEN Return(p)
            ELSE /\ Step(p, [Resting("sweepKill") EXCEPT
                                !.found = proc[p].found \ {proc[p].job}])
                 /\ UNCHANGED lock

FindMisses(p) ==
    /\ proc[p].pc \in {"find", "poll"}
    /\ proc[p].entry = None
    /\ ~registry[proc[p].job].meta
    /\ Answer(p, "missing")
    /\ UNCHANGED <<registry, supervision, launcher, issued, generation, manager,
                   crashes>>

FindAnswers(p) ==
    /\ proc[p].pc \in {"find", "poll"}
    /\ proc[p].entry # None
    /\ LET status == Status(proc[p].entry)
       IN  /\ status # "running" \/ proc[p].goal = "output"
           /\ Answer(p, status)
    /\ UNCHANGED <<registry, supervision, launcher, issued, generation, manager,
                   crashes>>

(* terminate finds the job running: the request is next, or another poll.  *)
FindsRunning(p) ==
    /\ proc[p].pc \in {"find", "poll"}
    /\ proc[p].entry # None
    /\ proc[p].goal = "kill"
    /\ Status(proc[p].entry) = "running"
    /\ Step(p, [proc[p] EXCEPT !.entry = None,
                               !.pc = IF @ = "find" THEN "request" ELSE @])
    /\ UNCHANGED <<registry, supervision, launcher, issued, lock, generation,
                   manager, told, crashes>>

RequestKill(p) ==
    /\ At(p, "request")
    /\ registry[proc[p].job].dir
    /\ registry' = [registry EXCEPT ![proc[p].job].kill = TRUE]
    /\ Goto(p, "poll")
    /\ UNCHANGED <<supervision, launcher, issued, lock, generation, manager,
                   told, crashes>>

(* The directory is gone, or no acknowledgement came within six seconds.   *)
TerminateFails(p) ==
    /\ \/ At(p, "request") /\ ~registry[proc[p].job].dir
       \/ At(p, "poll") /\ proc[p].entry = None
    /\ Return(p)
    /\ UNCHANGED <<registry, supervision, launcher, issued, generation, manager,
                   told, crashes>>

-----------------------------------------------------------------------------
(***************************************************************************)
(* commit_unapply and kill_all_running.                                    *)
(***************************************************************************)

(* Lock, validate, fence: older servers are refused from here on.          *)
Fence(u) ==
    /\ At(u, "idle")
    /\ lock = None
    /\ generation < MaxGeneration
    /\ lock' = u
    /\ generation' = generation + 1
    /\ StartScan(u, "sweepScan")
    /\ UNCHANGED <<registry, supervision, launcher, issued, manager, told, crashes>>

NothingRuns_ForgetsPending(u) == proc[u].found = {}
NothingRuns(u) == proc[u].found = {} /\ proc[u].pending = {}

SweepEnds(u) ==
    /\ Scanned(u, "sweepScan")
    /\ NothingRuns(u)
    /\ Goto(u, "swept")
    /\ UNCHANGED <<registry, supervision, launcher, issued, lock, generation,
                   manager, told, crashes>>

SweepFinds(u) ==
    /\ Scanned(u, "sweepScan")
    /\ ~NothingRuns(u)
    /\ Goto(u, "sweepKill")
    /\ UNCHANGED <<registry, supervision, launcher, issued, lock, generation,
                   manager, told, crashes>>

(* Thirty seconds went by and jobs are still there.                        *)
SweepExpires(u) ==
    /\ Scanned(u, "sweepScan")
    /\ ~NothingRuns(u)
    /\ Return(u)
    /\ UNCHANGED <<registry, supervision, launcher, issued, generation, manager,
                   told, crashes>>

SweepTerminates(u) ==
    /\ At(u, "sweepKill")
    /\ \E j \in proc[u].found :
          Step(u, [proc[u] EXCEPT !.pc = "find", !.goal = "kill", !.job = j])
    /\ UNCHANGED <<registry, supervision, launcher, issued, lock, generation,
                   manager, told, crashes>>

SweepAgain(u) ==
    /\ At(u, "sweepKill")
    /\ proc[u].found = {}
    /\ StartScan(u, "sweepScan")
    /\ UNCHANGED <<registry, supervision, launcher, issued, lock, generation,
                   manager, told, crashes>>

(* The remaining processes of the installation are killed, in the order of *)
(* their pids: servers, supervisors and watchdogs alike.                   *)
TerminateServer(u, s) ==
    /\ At(u, "swept")
    /\ ~At(s, "down")
    /\ ServerDies(s)
    /\ UNCHANGED crashes

TerminateHost(u, j) ==
    /\ At(u, "swept")
    /\ Alive(j)
    /\ HostGoto(j, "dead")
    /\ UNCHANGED <<registry, command, watchdog, ready, external, crashes>>

TerminateWatchdog(u, j) ==
    /\ At(u, "swept")
    /\ watchdog[j] = "armed"
    /\ watchdog' = [watchdog EXCEPT ![j] = "stopped"]
    /\ UNCHANGED <<registry, host, command, ready, external, crashes>>

(* A process that cannot be terminated, or configuration that changed: the *)
(* fence stays up, nothing is removed.                                     *)
UnapplyFails(u) ==
    /\ At(u, "swept")
    /\ Return(u)
    /\ UNCHANGED <<registry, supervision, launcher, issued, generation, manager,
                   told, crashes>>

RemoveInstallation(u) ==
    /\ At(u, "swept")
    /\ \A s \in Servers : At(s, "down")
    /\ \A j \in Jobs : ~Alive(j) /\ watchdog[j] # "armed"
    /\ registry' = [j \in Jobs |-> NoDirectory]
    /\ Return(u)
    /\ UNCHANGED <<supervision, launcher, issued, generation, manager, told, crashes>>

-----------------------------------------------------------------------------
(***************************************************************************)
(* The next-state relation and its fairness.                               *)
(***************************************************************************)
Scan(p) ==
    \/ ScanRead(p) \/ ScanRemovesStale(p) \/ ScanCountsPending(p) \/ ScanResolves(p)

Starting(s) ==
    \/ WithinStorageLimit(s) \/ OverStorageLimit(s) \/ ReapScanned(s)
    \/ Evict(s) \/ EvictionDone(s) \/ Reserve(s) \/ TooManyRunning(s)
    \/ WithinRunningLimit(s) \/ Launch(s) \/ LaunchFails(s) \/ AwaitReady(s)
    \/ AwaitError(s) \/ LaunchAborts(s) \/ AbortFailedLaunch(s)
    \/ AbortWaitEnds(s) \/ Recheck(s) \/ RemoveReserved(s)

Terminate(p) ==
    \/ FindRead(p) \/ FindMisses(p) \/ FindAnswers(p) \/ FindsRunning(p)
    \/ RequestKill(p) \/ TerminateFails(p)

Unapplying(u) ==
    \/ SweepEnds(u) \/ SweepFinds(u) \/ SweepExpires(u) \/ SweepTerminates(u)
    \/ SweepAgain(u) \/ RemoveInstallation(u) \/ UnapplyFails(u)
    \/ \E s \in Servers : TerminateServer(u, s)
    \/ \E j \in Jobs : TerminateHost(u, j) \/ TerminateWatchdog(u, j)

(* A call under the admission lock, once it has begun.                     *)
Locked(p) ==
    \/ p \in Servers /\ (Scan(p) \/ Starting(p))
    \/ p \in Unappliers /\ (Scan(p) \/ Terminate(p) \/ Unapplying(p))

Next ==
    \/ \E s \in Servers : Boot(s) \/ Admit(s) \/ ReapHistory(s) \/ ServerCrash(s)
    \/ \E u \in Unappliers : Fence(u)
    \/ \E p \in Servers \cup Unappliers : Locked(p)
    \/ \E c \in Clients :
          (\E goal \in {"output", "kill"} : Ask(c, goal)) \/ Terminate(c)
    \/ \E l \in Listers : List(l) \/ Scan(l) \/ ListDone(l)
    \/ \E j \in Jobs :
          \/ HostSteps(j) \/ HostCrash(j) \/ WatchdogFires(j)
          \/ RootEnds(j) \/ DescendantsEnd(j)

Spec == Init /\ [][Next]_vars

(* The supervisors and watchdogs are processes of their own and the locked *)
(* calls run to their end; nothing says that a command ends, that a call   *)
(* is made, or that a process crashes.  The deadlines of the two polling   *)
(* loops of Unapply are strong fairness: the loop cannot go round for ever *)
(* without its clock passing the deadline.                                 *)
Fairness ==
    /\ \A j \in Jobs : WF_vars(HostSteps(j)) /\ WF_vars(WatchdogFires(j))
    /\ \A p \in Servers \cup Unappliers : WF_vars(Locked(p))
    /\ \A u \in Unappliers : SF_vars(SweepExpires(u)) /\ SF_vars(TerminateFails(u))

FairSpec == Spec /\ Fairness

-----------------------------------------------------------------------------
(***************************************************************************)
(* Properties.                                                             *)
(***************************************************************************)

(* Every variable keeps its type; a job without a directory has no         *)
(* records, whatever order directories are removed and records published. *)
TypeOK ==
    /\ registry \in [Jobs -> JobRecord]
    /\ \A j \in Jobs : ~registry[j].dir => registry[j] = NoDirectory
    /\ host \in [Jobs -> HostPC]
    /\ command \in [Jobs -> CommandStates]
    /\ watchdog \in [Jobs -> {"none", "armed", "disarmed", "fired", "stopped"}]
    /\ ready \in [Jobs -> {"none", "ready", "error"}]
    /\ launcher \in [Jobs -> Servers \cup {None}]
    /\ issued \subseteq Jobs
    /\ lock \in Servers \cup Unappliers \cup {None}
    /\ generation \in Nat
    /\ manager \in [Servers -> Nat]
    /\ proc \in [Processes -> Calls]
    /\ told \in [Clients -> [Jobs -> Statuses]]
    /\ crashes \in Nat

(* Jobs whose supervisor lives and whose command runs.                     *)
RunningJobs == {j \in Jobs : Alive(j) /\ command[j] = "running"}

(* The running-job limit holds across all servers, though each counts by   *)
(* itself, reads the records one file at a time, and may crash in the      *)
(* middle of a launch, leaving a supervisor that still comes up.           *)
RunningLimit == Cardinality(RunningJobs) <= MaxRunning

(* No job that came up loses its directory while it runs: not to the eviction of finished     *)
(* records, to the removal of stale reservations by scans that hold no     *)
(* lock, to a start that gives up its reservation, or to Unapply.          *)
RunningJobIsRegistered ==
    \A j \in RunningJobs : host[j] \in {"serving", "killing"} => registry[j].dir

(* The limit holds, and not because running jobs are forgotten.            *)
LimitHolds == TypeOK /\ RunningLimit /\ RunningJobIsRegistered

(* Once Unapply has found nothing running, no job runs and none can begin  *)
(* to, until the installation is gone: also none that a crashed or fenced  *)
(* server had started to launch.                                           *)
SweptMeansNothingRuns ==
    \A u \in Unappliers : At(u, "swept") =>
        \A j \in Jobs : Alive(j) => command[j] # "running" /\ host[j] # "boot"

(* A server from before an Unapply starts no job after it: whoever is      *)
(* inside start, at any step up to its return, has the generation on disk. *)
FencedServersStartNothing ==
    \A s \in Servers : proc[s].goal = "start" => manager[s] = generation

(* No job outlives an Unapply, running or about to be started.             *)
UnapplyEndsJobs == SweptMeansNothingRuns /\ FencedServersStartNothing

(* An exit record is the end of the whole process tree, not of its root.   *)
ExitRecordMeansTreeGone ==
    \A j \in Jobs : registry[j].exit # "none" => command[j] = "gone"

(* A client that was told a job ended is never told later that it runs,    *)
(* in spite of the files being read one after the other without a lock.    *)
EndedStaysEnded ==
    [][\A c \in Clients, j \in Jobs :
          told[c][j] \in Ended => told'[c][j] # "running"]_vars

(* The command of a crashed supervisor does not stay behind: its watchdog  *)
(* ends it, if its root process is still there and no Unapply has stopped   *)
(* the watchdog itself.                                                    *)
CrashEndsCommand ==
    \A j \in Jobs :
        (host[j] = "dead" /\ watchdog[j] = "armed")
            ~> (command[j] # "running" \/ watchdog[j] = "stopped")

(* A kill request that a serving supervisor can see is acted on: the whole *)
(* tree goes, unless the supervisor itself dies first.                     *)
KillIsObeyed ==
    \A j \in Jobs :
        (registry[j].kill /\ host[j] = "serving")
            ~> (command[j] = "gone" \/ host[j] = "dead")

(* Admission is never blocked for good: whoever holds the lock, a launch   *)
(* that fails or crashes and a sweep that finds jobs again and again       *)
(* included, lets go of it.                                                *)
LockIsReleased ==
    \A p \in Servers \cup Unappliers : lock = p ~> lock # p

(* Kills and crashes end commands, and starts and sweeps end.              *)
JobsSettle == CrashEndsCommand /\ KillIsObeyed /\ LockIsReleased
=============================================================================
