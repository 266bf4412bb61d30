------------------------- MODULE JobRegistryProofs -------------------------
(***************************************************************************)
(* Proofs about JobRegistry for any number of jobs, servers, clients and   *)
(* Unappliers, any limit and any number of crashes; timely or not, except  *)
(* where a theorem assumes Timely.                                         *)
(***************************************************************************)
EXTENDS JobRegistry, FiniteSetTheorems, TLAPS

USE RegistryAssumption

-----------------------------------------------------------------------------
(***************************************************************************)
(* Typing.                                                                 *)
(***************************************************************************)
RecordsOK ==
    /\ registry \in [Jobs -> JobRecord]
    /\ \A j \in Jobs : ~registry[j].dir => registry[j] = NoDirectory

(* A call that reads or writes the records of one job has that job.        *)
FindPCs == {"find", "request", "poll"}
Finding == \A p \in Processes : proc[p].pc \in FindPCs => proc[p].job \in Jobs

LEMMA RestingType ==
    ASSUME NEW pc \in ProcPC
    PROVE  Resting(pc) \in Calls
  BY DEF Resting, Calls

(* One process moves to a well-formed call.                                *)
LEMMA StepType ==
    ASSUME TypeOK, NEW p \in Processes, NEW call \in Calls, Step(p, call)
    PROVE  proc' \in [Processes -> Calls]
  BY DEF TypeOK, Step

LEMMA ReturnType ==
    ASSUME TypeOK, NEW p \in Processes, Return(p)
    PROVE  /\ proc' \in [Processes -> Calls]
           /\ lock' \in Servers \cup Unappliers \cup {None}
  <1>1. "idle" \in ProcPC
    BY DEF ProcPC
  <1>2. Resting("idle") \in Calls
    BY <1>1, RestingType
  <1> QED
    BY <1>2, StepType DEF Return, TypeOK

LEMMA RemoveType ==
    ASSUME TypeOK, NEW j \in Jobs, Remove(j)
    PROVE  RecordsOK'
  BY DEF TypeOK, RecordsOK, Remove, NoDirectory, JobRecord, ExitRecords

(* A record of an existing directory is written, cleared or replaced.      *)
LEMMA FieldType ==
    ASSUME TypeOK, NEW j \in Jobs, NEW r \in JobRecord, r.dir,
           registry' = [registry EXCEPT ![j] = r]
    PROVE  RecordsOK'
  BY DEF TypeOK, RecordsOK

LEMMA WriteType ==
    ASSUME TypeOK, NEW j \in Jobs, registry[j].dir,
           NEW kill \in BOOLEAN, NEW exit \in ExitRecords,
           \/ registry' = [registry EXCEPT ![j].kill = kill]
           \/ registry' = [registry EXCEPT ![j].meta = TRUE]
           \/ registry' = [registry EXCEPT ![j].exit = exit]
    PROVE  RecordsOK'
  <1>1. registry[j] \in JobRecord
    BY DEF TypeOK
  <1>2. /\ [registry[j] EXCEPT !.kill = kill] \in JobRecord
        /\ [registry[j] EXCEPT !.meta = TRUE] \in JobRecord
        /\ [registry[j] EXCEPT !.exit = exit] \in JobRecord
    BY <1>1 DEF JobRecord
  <1>3. /\ [registry[j] EXCEPT !.kill = kill].dir
        /\ [registry[j] EXCEPT !.meta = TRUE].dir
        /\ [registry[j] EXCEPT !.exit = exit].dir
    BY <1>1 DEF JobRecord
  <1>4. \/ registry' = [registry EXCEPT ![j] = [registry[j] EXCEPT !.kill = kill]]
        \/ registry' = [registry EXCEPT ![j] = [registry[j] EXCEPT !.meta = TRUE]]
        \/ registry' = [registry EXCEPT ![j] = [registry[j] EXCEPT !.exit = exit]]
    OBVIOUS
  <1> QED
    BY <1>2, <1>3, <1>4, FieldType

(* Clearing a kill request that a missing directory does not hold.         *)
LEMMA ClearNothing ==
    ASSUME TypeOK, NEW j \in Jobs, ~registry[j].dir,
           registry' = [registry EXCEPT ![j].kill = FALSE]
    PROVE  registry' = registry
  <1>1. registry[j] = NoDirectory
    BY DEF TypeOK
  <1>2. [NoDirectory EXCEPT !.kill = FALSE] = NoDirectory
    <2> DEFINE r == [NoDirectory EXCEPT !.kill = FALSE]
    <2>1. NoDirectory \in JobRecord /\ r \in JobRecord
      BY DEF NoDirectory, JobRecord, ExitRecords
    <2>2. /\ r.dir = NoDirectory.dir /\ r.meta = NoDirectory.meta
          /\ r.exit = NoDirectory.exit /\ r.kill = NoDirectory.kill
      BY DEF NoDirectory
    <2>3. \A a, b \in JobRecord :
             a.dir = b.dir /\ a.meta = b.meta /\ a.exit = b.exit /\ a.kill = b.kill
                 => a = b
      BY DEF JobRecord
    <2> HIDE DEF r
    <2>4. r = NoDirectory
      BY <2>1, <2>2, <2>3
    <2> QED
      BY <2>4 DEF r
  <1>3. registry'[j] = registry[j] /\ registry' \in [Jobs -> JobRecord]
    <2>1. registry'[j] = [registry[j] EXCEPT !.kill = FALSE]
      BY DEF TypeOK
    <2>2. registry'[j] = NoDirectory
      BY <1>1, <1>2, <2>1
    <2> QED
      BY <1>1, <2>2 DEF TypeOK
  <1> QED
    BY <1>3 DEF TypeOK

LEMMA EntryType ==
    ASSUME TypeOK, NEW j \in Jobs, NEW old \in BOOLEAN
    PROVE  EntryOf(j, old) \in Entries
  BY DEF TypeOK, EntryOf, Entries, JobRecord

LEMMA ScanType ==
    ASSUME TypeOK, NEW p \in Processes, Scan(p)
    PROVE  TypeOK'
  <1>1. CASE ScanRead(p)
    <2>1. PICK j \in proc[p].todo, old \in BOOLEAN :
             Step(p, [proc[p] EXCEPT
                         !.todo = @ \ {j},
                         !.entry = IF registry[j].dir THEN EntryOf(j, old) ELSE None])
      BY <1>1 DEF ScanRead
    <2>2. proc[p] \in Calls
      BY DEF TypeOK
    <2>3. EntryOf(j, old) \in Entries
      BY <2>2, EntryType DEF Calls
    <2>4. [proc[p] EXCEPT !.todo = @ \ {j},
                          !.entry = IF registry[j].dir THEN EntryOf(j, old) ELSE None] \in Calls
      BY <2>2, <2>3 DEF Calls
    <2>5. proc' \in [Processes -> Calls]
      BY <2>1, <2>4, StepType
    <2> QED
      BY <1>1, <2>5 DEF ScanRead, TypeOK, supervision
  <1>2. CASE ScanRemovesStale(p)
    <2>1. proc[p] \in Calls /\ proc[p].entry \in Entries
      BY <1>2 DEF TypeOK, ScanRemovesStale, Calls
    <2>2. [proc[p] EXCEPT !.entry = None] \in Calls
      BY <2>1 DEF Calls
    <2>3. proc' \in [Processes -> Calls]
      BY <1>2, <2>2, StepType DEF ScanRemovesStale
    <2>4. RecordsOK'
      BY <1>2, <2>1, RemoveType DEF ScanRemovesStale, Entries
    <2> QED
      BY <1>2, <2>3, <2>4 DEF ScanRemovesStale, TypeOK, RecordsOK, supervision
  <1>3. CASE ScanCountsPending(p) \/ ScanResolves(p)
    <2>1. proc[p] \in Calls /\ proc[p].entry \in Entries
      BY <1>3 DEF TypeOK, ScanCountsPending, ScanResolves, Calls
    <2>2. \A S \in SUBSET Jobs :
             /\ [proc[p] EXCEPT !.entry = None, !.pending = S] \in Calls
             /\ [proc[p] EXCEPT !.entry = None, !.found = S] \in Calls
      BY <2>1 DEF Calls
    <2>3. proc[p].entry.job \in Jobs /\ proc[p].pending \in SUBSET Jobs
          /\ proc[p].found \in SUBSET Jobs
      BY <2>1 DEF Calls, Entries
    <2>4. CASE ScanCountsPending(p)
      <3>1. [proc[p] EXCEPT !.entry = None, !.pending = @ \cup {proc[p].entry.job}] \in Calls
        BY <2>2, <2>3
      <3>2. proc' \in [Processes -> Calls]
        BY <2>4, <3>1, StepType DEF ScanCountsPending
      <3> QED
        BY <2>4, <3>2 DEF ScanCountsPending, TypeOK, supervision
    <2>5. CASE ScanResolves(p)
      <3>1. [proc[p] EXCEPT
                   !.entry = None,
                   !.found = IF Status(proc[p].entry) \in Wanted(proc[p].pc)
                             THEN @ \cup {proc[p].entry.job} ELSE @] \in Calls
        BY <2>2, <2>3
      <3>2. proc' \in [Processes -> Calls]
        BY <2>5, <3>1, StepType DEF ScanResolves
      <3> QED
        BY <2>5, <3>2 DEF ScanResolves, TypeOK, supervision
    <2> QED
      BY <1>3, <2>4, <2>5
  <1> QED
    BY <1>1, <1>2, <1>3 DEF Scan

LEMMA GotoType ==
    ASSUME TypeOK, NEW p \in Processes, NEW pc \in ProcPC, Goto(p, pc)
    PROVE  proc' \in [Processes -> Calls]
  <1>1. proc[p] \in Calls
    BY DEF TypeOK
  <1>2. [proc[p] EXCEPT !.pc = pc] \in Calls
    BY <1>1 DEF Calls
  <1> QED
    BY <1>2, StepType DEF Goto

LEMMA StartScanType ==
    ASSUME TypeOK, NEW p \in Processes, NEW pc \in ProcPC, StartScan(p, pc)
    PROVE  proc' \in [Processes -> Calls]
  <1>1. proc[p] \in Calls
    BY DEF TypeOK
  <1>2. [proc[p] EXCEPT !.pc = pc, !.todo = Jobs, !.found = {}, !.pending = {}] \in Calls
    BY <1>1 DEF Calls
  <1> QED
    BY <1>2, StepType DEF StartScan

(* What the steps of a call leave typed when they change proc alone.       *)
others == <<registry, host, command, watchdog, ready, launcher, issued,
            generation, manager, told, crashes>>

LEMMA CallOnly ==
    ASSUME TypeOK, UNCHANGED others, proc' \in [Processes -> Calls],
           lock' \in Servers \cup Unappliers \cup {None}
    PROVE  TypeOK'
  BY DEF TypeOK, others

LEMMA CallAndRecords ==
    ASSUME TypeOK, RecordsOK', proc' \in [Processes -> Calls],
           lock' \in Servers \cup Unappliers \cup {None},
           UNCHANGED <<host, command, watchdog, ready, launcher, issued,
                       generation, manager, told, crashes>>
    PROVE  TypeOK'
  BY DEF TypeOK, RecordsOK

LEMMA StartingType ==
    ASSUME TypeOK, NEW s \in Servers, Starting(s)
    PROVE  TypeOK'
  <1> s \in Processes
    BY DEF Processes
  <1> DEFINE c == proc[s]
  <1>c. c \in Calls
    BY DEF TypeOK
  <1>l. lock \in Servers \cup Unappliers \cup {None}
    BY DEF TypeOK
  <1>pc. {"evict", "launch", "await", "failed", "abort", "abortWait", "remove",
          "reserve", "countScan", "reapScan"} \subseteq ProcPC
    BY DEF ProcPC
  <1>r. ASSUME Reaped(s)
        PROVE  /\ proc' \in [Processes -> Calls]
               /\ lock' \in Servers \cup Unappliers \cup {None}
    <2>1. CASE c.goal = "start"
      <3>1. [c EXCEPT !.pc = "reserve", !.found = {}, !.pending = {}] \in Calls
        BY <1>c, <1>pc DEF Calls
      <3>2. Step(s, [c EXCEPT !.pc = "reserve", !.found = {}, !.pending = {}])
            /\ lock' = lock
        BY <1>r, <2>1 DEF Reaped
      <3> QED
        BY <3>1, <3>2, <1>l, StepType
    <2>2. CASE c.goal # "start"
      BY <1>r, <2>2, ReturnType DEF Reaped
    <2> QED
      BY <2>1, <2>2
  <1>1. CASE WithinStorageLimit(s) \/ EvictionDone(s)
    BY <1>1, <1>r, CallOnly DEF WithinStorageLimit, EvictionDone, others, supervision
  <1>2. CASE OverStorageLimit(s)
    BY <1>2, <1>l, <1>pc, StartScanType, CallOnly DEF OverStorageLimit, others, supervision
  <1>3. CASE ReapScanned(s) \/ LaunchFails(s) \/ AwaitError(s) \/ LaunchAborts(s)
             \/ AbortWaitEnds(s)
    <2>1. proc' \in [Processes -> Calls]
      BY <1>3, <1>pc, GotoType
         DEF ReapScanned, LaunchFails, AwaitError, LaunchAborts, AbortWaitEnds
    <2> QED
      BY <1>3, <2>1, <1>l, CallOnly
         DEF ReapScanned, LaunchFails, AwaitError, LaunchAborts, AbortWaitEnds,
             others, supervision
  <1>4. CASE Evict(s)
    <2>1. PICK j \in c.found : Remove(j) /\ Step(s, [c EXCEPT !.found = @ \ {j}])
      BY <1>4 DEF Evict
    <2>2. j \in Jobs /\ [c EXCEPT !.found = @ \ {j}] \in Calls
      BY <1>c DEF Calls
    <2>3. RecordsOK'
      BY <2>1, <2>2, RemoveType
    <2> QED
      BY <1>4, <1>l, <2>1, <2>2, <2>3, StepType, CallAndRecords DEF Evict, supervision
  <1>5. CASE Reserve(s)
    <2>1. PICK j \in Jobs \ issued :
             /\ registry' = [registry EXCEPT ![j] = Reservation]
             /\ issued' = issued \cup {j}
             /\ Step(s, [c EXCEPT !.pc = "countScan", !.job = j, !.todo = Jobs])
      BY <1>5 DEF Reserve
    <2>2. [c EXCEPT !.pc = "countScan", !.job = j, !.todo = Jobs] \in Calls
      BY <1>c, <1>pc DEF Calls
    <2>3. proc' \in [Processes -> Calls]
      BY <2>1, <2>2, StepType
    <2>4. Reservation \in JobRecord /\ Reservation.dir
      BY DEF Reservation, NoDirectory, JobRecord, ExitRecords
    <2>5. RecordsOK'
      BY <2>1, <2>4 DEF RecordsOK, TypeOK
    <2>6. issued' \subseteq Jobs
      BY <2>1 DEF TypeOK
    <2> QED
      BY <1>5, <2>3, <2>5, <2>6 DEF Reserve, TypeOK, RecordsOK, supervision
  <1>6. CASE TooManyRunning(s) \/ RemoveReserved(s)
    <2>1. Remove(c.job) /\ Return(s)
      BY <1>6 DEF TooManyRunning, RemoveReserved
    <2>2. CASE c.job \in Jobs
      BY <1>6, <2>1, <2>2, RemoveType, ReturnType, CallAndRecords
         DEF TooManyRunning, RemoveReserved, supervision
    <2>3. CASE c.job \notin Jobs
      <3>1. registry' = registry
        BY <2>1, <2>3 DEF Remove, TypeOK
      <3> QED
        BY <1>6, <2>1, <3>1, ReturnType, CallOnly
           DEF TooManyRunning, RemoveReserved, supervision, others
    <2> QED
      BY <2>2, <2>3
  <1>7. CASE WithinRunningLimit(s)
    <2>1. [c EXCEPT !.pc = "launch", !.found = {}, !.pending = {}] \in Calls
      BY <1>c, <1>pc DEF Calls
    <2>2. proc' \in [Processes -> Calls]
      BY <1>7, <2>1, StepType DEF WithinRunningLimit
    <2> QED
      BY <1>7, <2>2, <1>l, CallOnly DEF WithinRunningLimit, others, supervision
  <1>8. CASE Launch(s)
    <2>1. proc' \in [Processes -> Calls]
      BY <1>8, <1>pc, GotoType DEF Launch
    <2>2. host' \in [Jobs -> HostPC] /\ launcher' \in [Jobs -> Servers \cup {None}]
      BY <1>8 DEF Launch, TypeOK, HostPC
    <2> QED
      BY <1>8, <2>1, <2>2 DEF Launch, TypeOK
  <1>9. CASE AwaitReady(s)
    BY <1>9, ReturnType, CallOnly DEF AwaitReady, others, supervision
  <1>10. CASE AbortFailedLaunch(s)
    <2>1. proc' \in [Processes -> Calls]
      BY <1>10, <1>pc, GotoType DEF AbortFailedLaunch
    <2>2. host' \in [Jobs -> HostPC]
      BY <1>10 DEF AbortFailedLaunch, TypeOK, HostPC
    <2>3. RecordsOK'
      <3>1. CASE registry' = registry
        BY <3>1 DEF TypeOK, RecordsOK
      <3>2. CASE registry' # registry
        <4>1. registry' = [registry EXCEPT ![c.job].kill = TRUE] /\ registry[c.job].meta
          BY <1>10, <3>2 DEF AbortFailedLaunch
        <4>2. c.job \in Jobs
          BY <3>2, <4>1 DEF TypeOK
        <4>3. registry[c.job].dir
          BY <4>1, <4>2 DEF TypeOK, NoDirectory
        <4> QED
          BY <4>1, <4>2, <4>3, WriteType DEF ExitRecords
      <3> QED
        BY <3>1, <3>2
    <2> QED
      BY <1>10, <2>1, <2>2, <2>3 DEF AbortFailedLaunch, TypeOK, RecordsOK
  <1>11. CASE Recheck(s)
    <2>1. CASE Return(s)
      BY <1>11, <2>1, ReturnType, CallOnly DEF Recheck, others, supervision
    <2>2. CASE Goto(s, "remove") /\ lock' = lock
      <3>1. proc' \in [Processes -> Calls]
        BY <2>2, <1>pc, GotoType
      <3> QED
        BY <1>11, <2>2, <3>1, <1>l, CallOnly DEF Recheck, others, supervision
    <2> QED
      BY <1>11, <2>1, <2>2 DEF Recheck
  <1> QED
    BY <1>1, <1>2, <1>3, <1>4, <1>5, <1>6, <1>7, <1>8, <1>9, <1>10, <1>11 DEF Starting

LEMMA TerminatedType ==
    ASSUME TypeOK, NEW j \in Jobs
    PROVE  /\ Terminated(j) \in [Jobs -> CommandStates]
           /\ Disarmed(j) \in [Jobs -> {"none", "armed", "disarmed", "fired", "stopped"}]
  BY DEF TypeOK, Terminated, Disarmed, CommandStates

(* The steps of a supervisor, a watchdog and a command.                    *)
LEMMA JobStepType ==
    ASSUME TypeOK, NEW j \in Jobs,
           \/ HostSteps(j) \/ HostCrash(j) \/ WatchdogFires(j)
           \/ RootEnds(j) \/ DescendantsEnd(j)
    PROVE  TypeOK'
  <1>0. UNCHANGED external
    BY DEF HostSteps, HostSpawns, HostArms, HostPublishes, HostStartupFails,
           HostReports, HostReady, HostUnheard, HostSeesExit, HostSeesLateKill,
           HostSeesKill, HostKills, HostDisarms, HostWritesExit, HostLeaves,
           HostCrash, WatchdogFires, RootEnds, DescendantsEnd
  <1>1. host' \in [Jobs -> HostPC]
    <2>1. \A pc \in HostPC : HostGoto(j, pc) => host' \in [Jobs -> HostPC]
      BY DEF HostGoto, TypeOK
    <2>2. \/ host' = host
          \/ \E pc \in HostPC : HostGoto(j, pc)
      BY DEF HostSteps, HostSpawns, HostArms, HostPublishes, HostStartupFails,
             HostReports, HostReady, HostUnheard, HostSeesExit, HostSeesLateKill,
             HostSeesKill, HostKills, HostDisarms, HostWritesExit, HostLeaves,
             HostCrash, WatchdogFires, RootEnds, DescendantsEnd, HostPC
    <2> QED
      BY <2>1, <2>2 DEF TypeOK
  <1>2. command' \in [Jobs -> CommandStates]
    <2>1. \/ command' = command \/ command' = Terminated(j)
          \/ \E s \in CommandStates : command' = [command EXCEPT ![j] = s]
      BY DEF HostSteps, HostSpawns, HostArms, HostPublishes, HostStartupFails,
             HostReports, HostReady, HostUnheard, HostSeesExit, HostSeesLateKill,
             HostSeesKill, HostKills, HostDisarms, HostWritesExit, HostLeaves,
             HostCrash, WatchdogFires, RootEnds, DescendantsEnd, CommandStates
    <2> QED
      BY ZenonT(40), <2>1, TerminatedType DEF TypeOK
  <1>3. watchdog' \in [Jobs -> {"none", "armed", "disarmed", "fired", "stopped"}]
    <2>1. \/ watchdog' = watchdog \/ watchdog' = Disarmed(j)
          \/ watchdog' = [watchdog EXCEPT ![j] = "armed"]
          \/ watchdog' = [watchdog EXCEPT ![j] = "fired"]
      BY DEF HostSteps, HostSpawns, HostArms, HostPublishes, HostStartupFails,
             HostReports, HostReady, HostUnheard, HostSeesExit, HostSeesLateKill,
             HostSeesKill, HostKills, HostDisarms, HostWritesExit, HostLeaves,
             HostCrash, WatchdogFires, RootEnds, DescendantsEnd
    <2> QED
      BY <2>1, TerminatedType DEF TypeOK
  <1>4. ready' \in [Jobs -> {"none", "ready", "error"}]
    <2>1. \/ ready' = ready
          \/ ready' = [ready EXCEPT ![j] = "ready"]
          \/ ready' = [ready EXCEPT ![j] = "error"]
      BY DEF HostSteps, HostSpawns, HostArms, HostPublishes, HostStartupFails,
             HostReports, HostReady, HostUnheard, HostSeesExit, HostSeesLateKill,
             HostSeesKill, HostKills, HostDisarms, HostWritesExit, HostLeaves,
             HostCrash, WatchdogFires, RootEnds, DescendantsEnd
    <2> QED
      BY <2>1 DEF TypeOK
  <1>5. RecordsOK'
    <2>1. \/ registry' = registry
          \/ registry' = [registry EXCEPT ![j].kill = FALSE]
          \/ registry[j].dir /\ registry' = [registry EXCEPT ![j].meta = TRUE]
          \/ registry[j].dir /\ registry' = [registry EXCEPT ![j].exit = ExitKind(j)]
      BY DEF HostSteps, HostSpawns, HostArms, HostPublishes, HostStartupFails,
             HostReports, HostReady, HostUnheard, HostSeesExit, HostSeesLateKill,
             HostSeesKill, HostKills, HostDisarms, HostWritesExit, HostLeaves,
             HostCrash, WatchdogFires, RootEnds, DescendantsEnd
    <2>2. ExitKind(j) \in ExitRecords
      BY DEF ExitKind, ExitRecords
    <2>3. CASE registry[j].dir
      BY <2>1, <2>2, <2>3, WriteType DEF TypeOK, RecordsOK
    <2>4. CASE ~registry[j].dir
      <3>1. registry' = registry
        BY <2>1, <2>4, ClearNothing
      <3> QED
        BY <3>1 DEF TypeOK, RecordsOK
    <2> QED
      BY <2>3, <2>4
  <1>6. crashes' \in Nat
    BY DEF HostSteps, HostSpawns, HostArms, HostPublishes, HostStartupFails,
           HostReports, HostReady, HostUnheard, HostSeesExit, HostSeesLateKill,
           HostSeesKill, HostKills, HostDisarms, HostWritesExit, HostLeaves,
           HostCrash, WatchdogFires, RootEnds, DescendantsEnd, TypeOK
  <1> QED
    BY <1>0, <1>1, <1>2, <1>3, <1>4, <1>5, <1>6 DEF TypeOK, RecordsOK, external

LEMMA TerminateType ==
    ASSUME TypeOK, Finding, NEW p \in Clients \cup Unappliers, Terminate(p)
    PROVE  TypeOK'
  <1> p \in Processes
    BY DEF Processes
  <1> DEFINE c == proc[p]
  <1>c. c \in Calls
    BY DEF TypeOK
  <1>l. lock \in Servers \cup Unappliers \cup {None}
    BY DEF TypeOK
  <1>pc. {"idle", "find", "poll", "request", "sweepKill"} \subseteq ProcPC
    BY DEF ProcPC
  <1>a. ASSUME NEW status \in Statuses, Answer(p, status)
        PROVE  /\ proc' \in [Processes -> Calls]
               /\ lock' \in Servers \cup Unappliers \cup {None}
               /\ told' \in [Clients -> [Jobs -> Statuses]]
    <2>1. CASE p \in Clients
      <3>1. Resting("idle") \in Calls
        BY <1>pc, RestingType
      <3>2. told' = [told EXCEPT ![p][c.job] = status]
            /\ Step(p, Resting("idle")) /\ lock' = lock
        BY <1>a, <2>1 DEF Answer
      <3>3. told' \in [Clients -> [Jobs -> Statuses]]
        BY <2>1, <3>2 DEF TypeOK
      <3> QED
        BY <1>l, <3>1, <3>2, <3>3, StepType
    <2>2. CASE p \notin Clients /\ status = "missing"
      BY <1>a, <2>2, ReturnType DEF Answer, TypeOK
    <2>3. CASE p \notin Clients /\ status # "missing"
      <3>1. [Resting("sweepKill") EXCEPT !.found = c.found \ {c.job}] \in Calls
        BY <1>c, <1>pc DEF Calls, Resting
      <3>2. Step(p, [Resting("sweepKill") EXCEPT !.found = c.found \ {c.job}])
            /\ lock' = lock /\ told' = told
        BY <1>a, <2>3 DEF Answer
      <3> QED
        BY <1>l, <3>1, <3>2, StepType DEF TypeOK
    <2> QED
      BY <2>1, <2>2, <2>3
  <1>s. \A e \in Entries : Status(e) \in Statuses
    BY DEF Entries, ExitRecords, Status, Statuses, Ended
  <1>1. CASE FindRead(p)
    <2>1. c.job \in Jobs
      BY <1>1 DEF FindRead, Finding, FindPCs
    <2>2. [c EXCEPT !.entry = EntryOf(c.job, FALSE)] \in Calls
      BY <1>c, <2>1, EntryType DEF Calls
    <2>3. proc' \in [Processes -> Calls]
      BY <1>1, <2>2, StepType DEF FindRead
    <2> QED
      BY <1>1, <2>3, <1>l, CallOnly DEF FindRead, others, supervision
  <1>2. CASE FindMisses(p)
    <2>1. Answer(p, "missing") /\ "missing" \in Statuses
      BY <1>2 DEF FindMisses, Statuses
    <2> QED
      BY <1>2, <1>a, <2>1 DEF FindMisses, TypeOK, supervision
  <1>3. CASE FindAnswers(p)
    <2>1. c.entry \in Entries
      BY <1>3, <1>c DEF FindAnswers, Calls
    <2>2. Answer(p, Status(c.entry)) /\ Status(c.entry) \in Statuses
      BY <1>3, <1>s, <2>1 DEF FindAnswers
    <2> QED
      BY <1>3, <1>a, <2>2 DEF FindAnswers, TypeOK, supervision
  <1>4. CASE FindsRunning(p)
    <2>1. \A pc \in ProcPC : [c EXCEPT !.entry = None, !.pc = pc] \in Calls
      BY <1>c DEF Calls
    <2>2. (IF c.pc = "find" THEN "request" ELSE c.pc) \in ProcPC
      BY <1>c, <1>pc DEF Calls
    <2>3. proc' \in [Processes -> Calls]
      BY <1>4, <2>1, <2>2, StepType DEF FindsRunning
    <2> QED
      BY <1>4, <2>3, <1>l, CallOnly DEF FindsRunning, others, supervision
  <1>5. CASE RequestKill(p)
    <2>1. proc' \in [Processes -> Calls]
      BY <1>5, <1>pc, GotoType DEF RequestKill
    <2>2. RecordsOK'
      <3>1. c.job \in Jobs
        BY <1>5 DEF RequestKill, At, Finding, FindPCs
      <3> QED
        BY <1>5, <3>1, WriteType DEF RequestKill, ExitRecords
    <2> QED
      BY <1>5, <1>l, <2>1, <2>2, CallAndRecords DEF RequestKill, supervision
  <1>6. CASE TerminateFails(p)
    BY <1>6, ReturnType, CallOnly DEF TerminateFails, others, supervision
  <1> QED
    BY <1>1, <1>2, <1>3, <1>4, <1>5, <1>6 DEF Terminate

LEMMA UnapplyingType ==
    ASSUME TypeOK, NEW u \in Unappliers, Unapplying(u) \/ Fence(u)
    PROVE  TypeOK'
  <1> u \in Processes
    BY DEF Processes
  <1> DEFINE c == proc[u]
  <1>c. c \in Calls
    BY DEF TypeOK
  <1>l. lock \in Servers \cup Unappliers \cup {None}
    BY DEF TypeOK
  <1>pc. {"swept", "sweepKill", "sweepScan", "find", "idle", "down"} \subseteq ProcPC
    BY DEF ProcPC
  <1>1. CASE SweepEnds(u) \/ SweepFinds(u)
    <2>1. proc' \in [Processes -> Calls]
      BY <1>1, <1>pc, GotoType DEF SweepEnds, SweepFinds
    <2> QED
      BY <1>1, <2>1, <1>l, CallOnly DEF SweepEnds, SweepFinds, others, supervision
  <1>2. CASE SweepExpires(u) \/ UnapplyFails(u)
    BY <1>2, ReturnType, CallOnly DEF SweepExpires, UnapplyFails, others, supervision
  <1>3. CASE SweepTerminates(u)
    <2>1. PICK j \in c.found : Step(u, [c EXCEPT !.pc = "find", !.goal = "kill", !.job = j])
      BY <1>3 DEF SweepTerminates
    <2>2. [c EXCEPT !.pc = "find", !.goal = "kill", !.job = j] \in Calls
      BY <1>c, <1>pc DEF Calls
    <2>3. proc' \in [Processes -> Calls]
      BY <2>1, <2>2, StepType
    <2> QED
      BY <1>3, <2>3, <1>l, CallOnly DEF SweepTerminates, others, supervision
  <1>4. CASE SweepAgain(u)
    BY <1>4, <1>l, <1>pc, StartScanType, CallOnly DEF SweepAgain, others, supervision
  <1>5. CASE RemoveInstallation(u)
    <2>1. NoDirectory \in JobRecord
      BY DEF NoDirectory, JobRecord, ExitRecords
    <2>2. RecordsOK'
      BY <1>5, <2>1 DEF RemoveInstallation, RecordsOK
    <2> QED
      BY <1>5, <2>2, ReturnType, CallAndRecords DEF RemoveInstallation, supervision
  <1>6. ASSUME NEW s \in Servers, TerminateServer(u, s)
        PROVE  TypeOK'
    <2>1. proc' \in [Processes -> Calls]
      BY <1>6, <1>pc, RestingType, StepType DEF TerminateServer, ServerDies, Processes
    <2>2. /\ lock' \in Servers \cup Unappliers \cup {None}
          /\ launcher' \in [Jobs -> Servers \cup {None}]
      BY <1>6, <1>l DEF TerminateServer, ServerDies, TypeOK
    <2> QED
      BY <1>6, <2>1, <2>2 DEF TerminateServer, ServerDies, TypeOK, supervision
  <1>7. ASSUME NEW j \in Jobs, TerminateHost(u, j) \/ TerminateWatchdog(u, j)
        PROVE  TypeOK'
    <2>1. /\ host' \in [Jobs -> HostPC]
          /\ watchdog' \in [Jobs -> {"none", "armed", "disarmed", "fired", "stopped"}]
      BY <1>7 DEF TerminateHost, TerminateWatchdog, HostGoto, TypeOK, HostPC
    <2> QED
      BY <1>7, <2>1 DEF TerminateHost, TerminateWatchdog, TypeOK, external
  <1>8. CASE Fence(u)
    <2>1. proc' \in [Processes -> Calls]
      BY <1>8, <1>pc, StartScanType DEF Fence
    <2>2. lock' = u /\ generation' \in Nat
      BY <1>8 DEF Fence, TypeOK
    <2> QED
      BY <1>8, <2>1, <2>2 DEF Fence, TypeOK, supervision
  <1> QED
    BY <1>1, <1>2, <1>3, <1>4, <1>5, <1>6, <1>7, <1>8 DEF Unapplying

(* How a call begins, and how a server dies.                               *)
LEMMA BeginningType ==
    ASSUME TypeOK,
           \/ \E s \in Servers : Boot(s) \/ Admit(s) \/ ReapHistory(s) \/ ServerCrash(s)
           \/ \E c \in Clients, goal \in {"output", "kill"} : Ask(c, goal)
           \/ \E l \in Listers : List(l) \/ ListDone(l)
    PROVE  TypeOK'
  <1>l. lock \in Servers \cup Unappliers \cup {None}
    BY DEF TypeOK
  <1>pc. {"idle", "down", "admitted", "find", "listScan"} \subseteq ProcPC
    BY DEF ProcPC
  <1>s. Servers \cup Clients \cup Listers \subseteq Processes
    BY DEF Processes
  <1>1. ASSUME NEW s \in Servers, Boot(s)
        PROVE  TypeOK'
    <2>1. proc' \in [Processes -> Calls]
      BY <1>1, <1>pc, <1>s, GotoType DEF Boot
    <2> QED
      BY <1>1, <2>1 DEF Boot, TypeOK, supervision
  <1>2. ASSUME NEW s \in Servers, Admit(s) \/ ReapHistory(s)
        PROVE  TypeOK'
    <2>1. proc[s] \in Calls
      BY <1>s DEF TypeOK
    <2>2. /\ [proc[s] EXCEPT !.pc = "admitted", !.goal = "start"] \in Calls
          /\ [proc[s] EXCEPT !.pc = "admitted", !.goal = "reap"] \in Calls
      BY <2>1, <1>pc DEF Calls
    <2>3. proc' \in [Processes -> Calls]
      BY <1>2, <1>s, <2>2, StepType DEF Admit, ReapHistory
    <2>4. lock' = s
      BY <1>2 DEF Admit, ReapHistory
    <2> QED
      BY <1>2, <2>3, <2>4, CallOnly DEF Admit, ReapHistory, others, supervision
  <1>3. ASSUME NEW s \in Servers, ServerCrash(s)
        PROVE  TypeOK'
    <2>1. proc' \in [Processes -> Calls]
      BY <1>3, <1>pc, <1>s, RestingType, StepType DEF ServerCrash, ServerDies
    <2>2. /\ lock' \in Servers \cup Unappliers \cup {None}
          /\ launcher' \in [Jobs -> Servers \cup {None}]
          /\ crashes' \in Nat
      BY <1>3, <1>l DEF ServerCrash, ServerDies, TypeOK
    <2> QED
      BY <1>3, <2>1, <2>2 DEF ServerCrash, ServerDies, TypeOK, supervision
  <1>4. ASSUME NEW c \in Clients, NEW goal \in {"output", "kill"}, Ask(c, goal)
        PROVE  TypeOK'
    <2>1. PICK j \in issued :
             Step(c, [proc[c] EXCEPT !.pc = "find", !.goal = goal, !.job = j])
      BY <1>4 DEF Ask
    <2>2. proc[c] \in Calls /\ j \in Jobs
      BY <1>s DEF TypeOK
    <2>3. [proc[c] EXCEPT !.pc = "find", !.goal = goal, !.job = j] \in Calls
      BY <2>2, <1>pc DEF Calls
    <2>4. proc' \in [Processes -> Calls]
      BY <1>s, <2>1, <2>3, StepType
    <2> QED
      BY <1>4, <1>l, <2>4, CallOnly DEF Ask, others, supervision
  <1>5. ASSUME NEW l \in Listers, List(l) \/ ListDone(l)
        PROVE  TypeOK'
    <2>1. proc' \in [Processes -> Calls]
      BY <1>5, <1>pc, <1>s, StartScanType, RestingType, StepType DEF List, ListDone
    <2> QED
      BY <1>5, <1>l, <2>1, CallOnly DEF List, ListDone, others, supervision
  <1> QED
    BY <1>1, <1>2, <1>3, <1>4, <1>5
-----------------------------------------------------------------------------
(***************************************************************************)
(* The inductive invariant.                                                *)
(***************************************************************************)
Lockers == Servers \cup Unappliers

InCall(p) == proc[p].pc \notin {"down", "idle"}

(* Whoever is inside a locked call holds the admission lock.               *)
Locking == \A p \in Lockers : InCall(p) => lock = p

(* The goal of a server belongs to a call, and a start to its generation.  *)
Fencing == \A s \in Servers :
    proc[s].goal = "start" => InCall(s) /\ manager[s] = generation

(* A job id that was not reserved, or not launched, has no supervisor.     *)
Launchable == \A s \in Servers : proc[s].pc \in {"countScan", "launch"} =>
    proc[s].job \in issued /\ host[proc[s].job] = "none"

Unissued == \A j \in Jobs : j \notin issued => host[j] = "none" /\ ~registry[j].dir

(* How far a supervisor has come says what its command and records are.    *)
Early == {"none", "boot", "spawned", "armed"}

Lifecycle(j) ==
    /\ host[j] \in {"none", "boot"} => command[j] = "none"
    /\ host[j] \in {"spawned", "armed", "published", "serving", "killing"} =>
           command[j] # "none"
    /\ host[j] \in {"exitedDraining", "killedDraining", "exitedDisarmed",
                    "killedDisarmed", "leaving"} => command[j] = "gone"
    /\ host[j] \in Early => ~registry[j].meta
    /\ registry[j].exit # "none" => host[j] \in {"leaving", "dead"} /\ command[j] = "gone"

Lifecycles == \A j \in Jobs : Lifecycle(j)

(* The supervisor of a job ended, or has written that it ends.             *)
Over(j) ==
    \/ host[j] = "dead"
    \/ host[j] = "leaving" /\ (registry[j].exit # "none" \/ ~registry[j].dir)

(* What a client has read is no older than what it was told before.        *)
Reading == \A c \in Clients :
    proc[c].entry # None =>
        LET e == proc[c].entry
        IN  /\ proc[c].pc \in FindPCs
            /\ proc[c].job = e.job
            /\ host[e.job] \notin Early
            /\ e.exit # "none" => Over(e.job)
            /\ told[c][e.job] \in Ended =>
                   host[e.job] = "dead" \/ e.exit # "none" \/ ~registry[e.job].dir

Telling == \A c \in Clients, j \in Jobs : told[c][j] \in Ended => Over(j)

IInv ==
    /\ TypeOK /\ Finding
    /\ Locking /\ Fencing
    /\ Launchable /\ Unissued /\ Lifecycles
    /\ Reading /\ Telling
(* One process moves.  Its call ends, or goes on with its goal.            *)
Moves(p) == \A q \in Processes \ {p} : proc'[q] = proc[q]

Ends(p) ==
    /\ proc'[p].pc \in {"idle", "down"} /\ proc'[p].goal = "none"
    /\ proc'[p].entry = None
    /\ lock' = IF lock = p THEN None ELSE lock

GoesOn(p) ==
    /\ InCall(p)
    /\ InCall(p)'
    /\ proc'[p].goal = "start" => proc[p].goal = "start"
    /\ lock' = lock

LEMMA StepMoves ==
    ASSUME TypeOK, NEW p \in Processes, NEW call, Step(p, call)
    PROVE  Moves(p) /\ proc'[p] = call
  BY DEF TypeOK, Step, Moves

LEMMA GotoMoves ==
    ASSUME TypeOK, NEW p \in Processes, NEW pc, Goto(p, pc)
    PROVE  /\ Moves(p)
           /\ proc'[p].pc = pc /\ proc'[p].goal = proc[p].goal
           /\ proc'[p].job = proc[p].job /\ proc'[p].entry = proc[p].entry
  <1>1. Moves(p) /\ proc'[p] = [proc[p] EXCEPT !.pc = pc]
    BY StepMoves DEF Goto
  <1>2. proc[p] \in Calls
    BY DEF TypeOK
  <1> QED
    BY <1>1, <1>2 DEF Calls

LEMMA StartScanMoves ==
    ASSUME TypeOK, NEW p \in Processes, NEW pc, StartScan(p, pc)
    PROVE  /\ Moves(p)
           /\ proc'[p].pc = pc /\ proc'[p].goal = proc[p].goal
           /\ proc'[p].job = proc[p].job /\ proc'[p].entry = proc[p].entry
  <1>1. Moves(p) /\ proc'[p] = [proc[p] EXCEPT !.pc = pc, !.todo = Jobs,
                                               !.found = {}, !.pending = {}]
    BY StepMoves DEF StartScan
  <1>2. proc[p] \in Calls
    BY DEF TypeOK
  <1> QED
    BY <1>1, <1>2 DEF Calls

LEMMA ReturnMoves ==
    ASSUME TypeOK, NEW p \in Processes, Return(p)
    PROVE  Moves(p) /\ Ends(p)
  BY StepMoves DEF Return, Resting, Ends

LEMMA StartingMoves ==
    ASSUME TypeOK, NEW s \in Servers, Starting(s)
    PROVE  /\ Moves(s)
           /\ \/ Ends(s)
              \/ GoesOn(s) /\ proc'[s].pc \notin FindPCs
  <1> s \in Processes
    BY DEF Processes
  <1>0. proc[s] \in Calls
    BY DEF TypeOK
  <1> DEFINE Goal == /\ Moves(s)
                     /\ \/ Ends(s)
                        \/ GoesOn(s) /\ proc'[s].pc \notin FindPCs
  <1>r. ASSUME Reaped(s), InCall(s)
        PROVE  Goal
    <2>1. CASE proc[s].goal = "start"
      <3>1. Step(s, [proc[s] EXCEPT !.pc = "reserve", !.found = {}, !.pending = {}])
            /\ lock' = lock
        BY <1>r, <2>1 DEF Reaped
      <3>2. Moves(s) /\ proc'[s] = [proc[s] EXCEPT !.pc = "reserve", !.found = {}, !.pending = {}]
        BY <3>1, StepMoves
      <3>3. proc'[s].pc = "reserve"
        BY <1>0, <3>2 DEF Calls
      <3> QED
        BY <1>r, <2>1, <3>1, <3>2, <3>3 DEF GoesOn, InCall, FindPCs
    <2>2. CASE proc[s].goal # "start"
      BY <1>r, <2>2, ReturnMoves DEF Reaped
    <2> QED
      BY <2>1, <2>2
  <1>1. CASE WithinStorageLimit(s) \/ EvictionDone(s)
    BY <1>1, <1>r DEF WithinStorageLimit, EvictionDone, At, InCall
  <1>2. CASE TooManyRunning(s) \/ AwaitReady(s) \/ RemoveReserved(s)
    BY <1>2, ReturnMoves DEF TooManyRunning, AwaitReady, RemoveReserved
  <1>3. CASE Recheck(s)
    BY <1>3, GotoMoves, ReturnMoves DEF Recheck, At, GoesOn, InCall, FindPCs
  <1>4. CASE OverStorageLimit(s)
    BY <1>4, StartScanMoves DEF OverStorageLimit, At, GoesOn, InCall, FindPCs
  <1>5. CASE \/ ReapScanned(s) \/ Launch(s) \/ LaunchFails(s) \/ AwaitError(s)
             \/ LaunchAborts(s) \/ AbortWaitEnds(s)
    BY <1>5, GotoMoves
       DEF ReapScanned, Launch, LaunchFails, AwaitError, LaunchAborts, AbortWaitEnds,
           At, Scanned, GoesOn, InCall, FindPCs
  <1>6. CASE AbortFailedLaunch(s)
    BY <1>6, GotoMoves DEF AbortFailedLaunch, At, GoesOn, InCall, FindPCs
  <1>7. CASE Evict(s)
    <2>1. PICK j : Step(s, [proc[s] EXCEPT !.found = @ \ {j}])
      BY <1>7 DEF Evict
    <2> QED
      BY <1>7, <1>0, <2>1, StepMoves DEF Evict, At, GoesOn, InCall, Calls, FindPCs
  <1>8. CASE Reserve(s)
    <2>1. PICK j : Step(s, [proc[s] EXCEPT !.pc = "countScan", !.job = j, !.todo = Jobs])
      BY <1>8 DEF Reserve
    <2>2. Moves(s) /\ proc'[s] = [proc[s] EXCEPT !.pc = "countScan", !.job = j, !.todo = Jobs]
      BY <2>1, StepMoves
    <2>3. proc'[s].pc = "countScan" /\ proc'[s].goal = proc[s].goal
      BY <1>0, <2>2 DEF Calls
    <2> QED
      BY <1>8, <2>2, <2>3 DEF Reserve, At, GoesOn, InCall, FindPCs
  <1>9. CASE WithinRunningLimit(s)
    <2>1. Step(s, [proc[s] EXCEPT !.pc = "launch", !.found = {}, !.pending = {}])
      BY <1>9 DEF WithinRunningLimit
    <2>2. Moves(s) /\ proc'[s] = [proc[s] EXCEPT !.pc = "launch", !.found = {}, !.pending = {}]
      BY <2>1, StepMoves
    <2>3. proc'[s].pc = "launch" /\ proc'[s].goal = proc[s].goal
      BY <1>0, <2>2 DEF Calls
    <2> QED
      BY <1>9, <2>2, <2>3 DEF WithinRunningLimit, Scanned, At, GoesOn, InCall, FindPCs
  <1> QED
    BY <1>1, <1>2, <1>3, <1>4, <1>5, <1>6, <1>7, <1>8, <1>9 DEF Starting

LEMMA ScanMoves ==
    ASSUME TypeOK, NEW p \in Processes, Scan(p)
    PROVE  /\ Moves(p) /\ GoesOn(p)
           /\ proc'[p].pc = proc[p].pc /\ proc'[p].job = proc[p].job
           /\ proc[p].pc \in ScanPCs
  <1>0. proc[p] \in Calls
    BY DEF TypeOK
  <1>1. /\ proc[p].pc \in ScanPCs
        /\ lock' = lock
    BY DEF Scan, ScanRead, ScanRemovesStale, ScanCountsPending, ScanResolves
  <1>2. \/ \E t, e : Step(p, [proc[p] EXCEPT !.todo = t, !.entry = e])
        \/ Step(p, [proc[p] EXCEPT !.entry = None])
        \/ \E S : Step(p, [proc[p] EXCEPT !.entry = None, !.pending = S])
        \/ \E S : Step(p, [proc[p] EXCEPT !.entry = None, !.found = S])
    BY DEF Scan, ScanRead, ScanRemovesStale, ScanCountsPending, ScanResolves
  <1>3. \A t, e, S :
          /\ [proc[p] EXCEPT !.todo = t, !.entry = e].pc = proc[p].pc
          /\ [proc[p] EXCEPT !.todo = t, !.entry = e].goal = proc[p].goal
          /\ [proc[p] EXCEPT !.todo = t, !.entry = e].job = proc[p].job
          /\ [proc[p] EXCEPT !.entry = None].pc = proc[p].pc
          /\ [proc[p] EXCEPT !.entry = None].goal = proc[p].goal
          /\ [proc[p] EXCEPT !.entry = None].job = proc[p].job
          /\ [proc[p] EXCEPT !.entry = None, !.pending = S].pc = proc[p].pc
          /\ [proc[p] EXCEPT !.entry = None, !.pending = S].goal = proc[p].goal
          /\ [proc[p] EXCEPT !.entry = None, !.pending = S].job = proc[p].job
          /\ [proc[p] EXCEPT !.entry = None, !.found = S].pc = proc[p].pc
          /\ [proc[p] EXCEPT !.entry = None, !.found = S].goal = proc[p].goal
          /\ [proc[p] EXCEPT !.entry = None, !.found = S].job = proc[p].job
    BY <1>0 DEF Calls
  <1> DEFINE Kept == /\ Moves(p)
                     /\ proc'[p].pc = proc[p].pc /\ proc'[p].goal = proc[p].goal
                     /\ proc'[p].job = proc[p].job
  <1>4. Kept
    <2>1. ASSUME NEW t, NEW e, Step(p, [proc[p] EXCEPT !.todo = t, !.entry = e])
          PROVE  Kept
      <3>1. Moves(p) /\ proc'[p] = [proc[p] EXCEPT !.todo = t, !.entry = e]
        BY <2>1, StepMoves
      <3> QED
        BY <1>3, <3>1
    <2>2. ASSUME Step(p, [proc[p] EXCEPT !.entry = None])
          PROVE  Kept
      BY <1>3, <2>2, StepMoves
    <2>3. ASSUME NEW S, \/ Step(p, [proc[p] EXCEPT !.entry = None, !.pending = S])
                        \/ Step(p, [proc[p] EXCEPT !.entry = None, !.found = S])
          PROVE  Kept
      <3>1. /\ Moves(p)
            /\ \/ proc'[p] = [proc[p] EXCEPT !.entry = None, !.pending = S]
               \/ proc'[p] = [proc[p] EXCEPT !.entry = None, !.found = S]
        BY <2>3, StepMoves
      <3> QED
        BY ZenonT(40), <1>3, <3>1
    <2> QED
      BY <1>2, <2>1, <2>2, <2>3
  <1> QED
    BY <1>1, <1>4 DEF GoesOn, InCall, ScanPCs

LEMMA TerminateMoves ==
    ASSUME TypeOK, NEW p \in Clients \cup Unappliers, Terminate(p)
    PROVE  /\ Moves(p)
           /\ Ends(p) \/ GoesOn(p)
           /\ proc'[p].pc \in FindPCs =>
                  proc'[p].job = proc[p].job /\ proc[p].pc \in FindPCs
  <1> p \in Processes
    BY DEF Processes
  <1>0. proc[p] \in Calls /\ lock \in Servers \cup Unappliers \cup {None}
    BY DEF TypeOK
  <1>a. ASSUME NEW status, Answer(p, status), InCall(p)
        PROVE  Moves(p) /\ (Ends(p) \/ GoesOn(p)) /\ proc'[p].pc \notin FindPCs
    <2>1. CASE p \in Clients
      <3>1. Step(p, Resting("idle")) /\ lock' = lock
        BY <1>a, <2>1 DEF Answer
      <3>2. lock = p => lock = None
        BY <1>0, <2>1
      <3> QED
        BY <3>1, <3>2, StepMoves DEF Resting, Ends, FindPCs
    <2>2. CASE p \notin Clients /\ status = "missing"
      BY <1>a, <2>2, ReturnMoves DEF Answer, Ends, FindPCs
    <2>3. CASE p \notin Clients /\ status # "missing"
      <3>1. PICK found : Step(p, [Resting("sweepKill") EXCEPT !.found = found])
        BY <1>a, <2>3 DEF Answer
      <3>2. lock' = lock
        BY <1>a, <2>3 DEF Answer
      <3> QED
        BY <1>a, <3>1, <3>2, StepMoves DEF Resting, GoesOn, InCall, FindPCs
    <2> QED
      BY <2>1, <2>2, <2>3
  <1>1. CASE FindMisses(p) \/ FindAnswers(p)
    BY <1>1, <1>a DEF FindMisses, FindAnswers, InCall
  <1>2. CASE TerminateFails(p)
    BY <1>2, ReturnMoves DEF TerminateFails, Ends, FindPCs
  <1>3. CASE RequestKill(p)
    BY <1>3, GotoMoves DEF RequestKill, At, GoesOn, InCall, FindPCs
  <1>4. CASE FindRead(p)
    <2>1. PICK e : Step(p, [proc[p] EXCEPT !.entry = e])
      BY <1>4 DEF FindRead
    <2> QED
      BY <1>4, <1>0, <2>1, StepMoves DEF FindRead, GoesOn, InCall, Calls, FindPCs
  <1>5. CASE FindsRunning(p)
    <2>1. PICK pc \in FindPCs : Step(p, [proc[p] EXCEPT !.entry = None, !.pc = pc])
      <3> DEFINE pc == IF proc[p].pc = "find" THEN "request" ELSE proc[p].pc
      <3>1. pc \in FindPCs /\ Step(p, [proc[p] EXCEPT !.entry = None, !.pc = pc])
        BY <1>5 DEF FindsRunning, FindPCs
      <3> QED
        BY <3>1
    <2>2. Moves(p) /\ proc'[p] = [proc[p] EXCEPT !.entry = None, !.pc = pc]
      BY <2>1, StepMoves
    <2>3. /\ proc'[p].pc \in FindPCs /\ proc'[p].goal = proc[p].goal
          /\ proc'[p].job = proc[p].job
      BY <1>0, <2>2 DEF Calls
    <2> QED
      BY <1>5, <2>2, <2>3 DEF FindsRunning, GoesOn, InCall, FindPCs
  <1> QED
    BY <1>1, <1>2, <1>3, <1>4, <1>5 DEF Terminate
LEMMA UnapplyingMoves ==
    ASSUME TypeOK, NEW u \in Unappliers, Unapplying(u)
    PROVE  \/ /\ Moves(u)
              /\ Ends(u) \/ GoesOn(u)
              /\ proc'[u].pc \in FindPCs => proc'[u].job \in Jobs
           \/ \E s \in Servers : Moves(s) /\ Ends(s)
           \/ UNCHANGED <<proc, lock>>
  <1> u \in Processes /\ Servers \subseteq Processes
    BY DEF Processes
  <1>0. proc[u] \in Calls
    BY DEF TypeOK
  <1>1. CASE SweepExpires(u) \/ UnapplyFails(u) \/ RemoveInstallation(u)
    BY <1>1, ReturnMoves DEF SweepExpires, UnapplyFails, RemoveInstallation, Ends, FindPCs
  <1>2. CASE SweepEnds(u) \/ SweepFinds(u)
    BY <1>2, GotoMoves DEF SweepEnds, SweepFinds, Scanned, At, GoesOn, InCall, FindPCs
  <1>3. CASE SweepAgain(u)
    BY <1>3, StartScanMoves DEF SweepAgain, At, GoesOn, InCall, FindPCs
  <1>4. CASE SweepTerminates(u)
    <2>1. PICK j \in proc[u].found :
             Step(u, [proc[u] EXCEPT !.pc = "find", !.goal = "kill", !.job = j])
      BY <1>4 DEF SweepTerminates
    <2>2. /\ Moves(u)
          /\ proc'[u] = [proc[u] EXCEPT !.pc = "find", !.goal = "kill", !.job = j]
      BY <2>1, StepMoves
    <2>3. proc'[u].pc = "find" /\ proc'[u].goal = "kill" /\ proc'[u].job \in Jobs
      BY <1>0, <2>2 DEF Calls
    <2> QED
      BY <1>4, <2>2, <2>3 DEF SweepTerminates, At, GoesOn, InCall, FindPCs
  <1>5. CASE \E s \in Servers : TerminateServer(u, s)
    BY <1>5, StepMoves DEF TerminateServer, ServerDies, Resting, Ends
  <1>6. CASE \E j \in Jobs : TerminateHost(u, j) \/ TerminateWatchdog(u, j)
    BY <1>6 DEF TerminateHost, TerminateWatchdog, external
  <1> QED
    BY <1>1, <1>2, <1>3, <1>4, <1>5, <1>6 DEF Unapplying

(* A call that ends or goes on disturbs neither lock nor generation.       *)
LEMMA CallKeeps ==
    ASSUME TypeOK, Finding, Locking, Fencing, NEW p \in Processes,
           Moves(p), Ends(p) \/ GoesOn(p),
           proc'[p].pc \in FindPCs => proc'[p].job \in Jobs,
           UNCHANGED <<generation, manager>>
    PROVE  Finding' /\ Locking' /\ Fencing'
  <1> Lockers \subseteq Processes /\ Servers \subseteq Lockers
    BY DEF Lockers, Processes
  <1>1. Finding'
    BY DEF Finding, Moves
  <1>2. Locking'
    BY DEF Locking, Moves, Ends, GoesOn, InCall, Lockers
  <1>3. Fencing'
    <2>1. ASSUME NEW s \in Servers, proc'[s].goal = "start"
          PROVE  InCall(s)' /\ manager'[s] = generation'
      BY <2>1 DEF Fencing, Moves, Ends, GoesOn, InCall
    <2> QED
      BY <2>1 DEF Fencing
  <1> QED
    BY <1>1, <1>2, <1>3

(* A call begins while nobody holds the lock, or needs none.               *)
LEMMA BeginningKeeps ==
    ASSUME TypeOK, Finding, Locking, Fencing,
           \/ \E s \in Servers : Boot(s) \/ Admit(s) \/ ReapHistory(s)
           \/ \E u \in Unappliers : Fence(u)
           \/ \E c \in Clients, goal \in {"output", "kill"} : Ask(c, goal)
           \/ \E l \in Listers : List(l) \/ ListDone(l)
    PROVE  Finding' /\ Locking' /\ Fencing'
  <1>s. Servers \cup Clients \cup Listers \cup Unappliers \subseteq Processes
    BY DEF Processes
  <1>c. \A p \in Processes : proc[p] \in Calls
    BY DEF TypeOK
  <1>1. ASSUME NEW s \in Servers, Boot(s)
        PROVE  Finding' /\ Locking' /\ Fencing'
    <2>1. /\ Moves(s) /\ proc'[s].pc = "idle" /\ proc'[s].goal = proc[s].goal
          /\ proc[s].goal # "start"
      BY <1>1, <1>s, GotoMoves DEF Boot, At, Fencing, InCall
    <2>2. Finding' /\ Locking'
      BY <1>1, <2>1 DEF Boot, Moves, Finding, FindPCs, Locking, InCall, Lockers, Processes
    <2>3. Fencing'
      <3>1. ASSUME NEW r \in Servers, proc'[r].goal = "start"
            PROVE  InCall(r)' /\ manager'[r] = generation'
        <4>1. r # s /\ proc'[r] = proc[r]
          BY <2>1, <3>1, <1>s DEF Moves
        <4>2. manager'[r] = manager[r] /\ generation' = generation
          BY <1>1, <4>1 DEF Boot, TypeOK
        <4> QED
          BY <3>1, <4>1, <4>2 DEF Fencing, InCall
      <3> QED
        BY <3>1 DEF Fencing
    <2> QED
      BY <2>2, <2>3
  <1>2. ASSUME NEW s \in Servers, Admit(s) \/ ReapHistory(s)
        PROVE  Finding' /\ Locking' /\ Fencing'
    <2>1. PICK goal \in {"start", "reap"} :
             /\ Step(s, [proc[s] EXCEPT !.pc = "admitted", !.goal = goal])
             /\ goal = "start" => manager[s] = generation
      BY <1>2 DEF Admit, ReapHistory
    <2>2. /\ Moves(s) /\ proc'[s] = [proc[s] EXCEPT !.pc = "admitted", !.goal = goal]
      BY <1>s, <2>1, StepMoves
    <2>3. proc'[s].pc = "admitted" /\ proc'[s].goal = goal
      BY <1>c, <1>s, <2>2 DEF Calls
    <2>4. lock = None /\ lock' = s /\ UNCHANGED <<generation, manager>>
      BY <1>2 DEF Admit, ReapHistory
    <2>5. Finding' /\ Locking'
      BY <2>2, <2>3, <2>4 DEF Moves, Finding, FindPCs, Locking, InCall, Lockers, Processes
    <2>6. Fencing'
      BY <2>1, <2>2, <2>3, <2>4, <1>s DEF Moves, Fencing, InCall
    <2> QED
      BY <2>5, <2>6
  <1>3. ASSUME NEW u \in Unappliers, Fence(u)
        PROVE  Finding' /\ Locking' /\ Fencing'
    <2>1. Moves(u) /\ proc'[u].pc = "sweepScan" /\ lock = None /\ lock' = u
          /\ u \notin Servers
      BY <1>3, <1>s, StartScanMoves DEF Fence
    <2>2. Finding' /\ Locking'
      BY <2>1 DEF Moves, Finding, FindPCs, Locking, InCall, Lockers, Processes
    <2>3. \A s \in Servers : ~InCall(s) /\ proc'[s] = proc[s]
      BY <2>1, <1>s DEF Moves, Locking, Lockers
    <2>4. Fencing'
      BY <2>3 DEF Fencing, InCall
    <2> QED
      BY <2>2, <2>4
  <1>4. ASSUME NEW c \in Clients, NEW goal \in {"output", "kill"}, Ask(c, goal)
        PROVE  Finding' /\ Locking' /\ Fencing'
    <2>1. PICK j \in issued :
             Step(c, [proc[c] EXCEPT !.pc = "find", !.goal = goal, !.job = j])
      BY <1>4 DEF Ask
    <2>2. Moves(c) /\ proc'[c] = [proc[c] EXCEPT !.pc = "find", !.goal = goal, !.job = j]
      BY <1>s, <2>1, StepMoves
    <2>3. proc'[c].job \in Jobs
      BY <1>c, <1>s, <2>1, <2>2 DEF Calls, TypeOK
    <2>4. c \notin Servers /\ c \notin Unappliers
      OBVIOUS
    <2>5. UNCHANGED <<lock, generation, manager>>
      BY <1>4 DEF Ask
    <2> QED
      BY <2>2, <2>3, <2>4, <2>5
         DEF Moves, Finding, Locking, Fencing, InCall, Lockers, Processes
  <1>5. ASSUME NEW l \in Listers, List(l) \/ ListDone(l)
        PROVE  Finding' /\ Locking' /\ Fencing'
    <2>1. Moves(l) /\ proc'[l].pc \in {"listScan", "idle"}
      BY <1>5, <1>s, StartScanMoves, StepMoves DEF List, ListDone, Resting
    <2>2. l \notin Servers /\ l \notin Unappliers
      OBVIOUS
    <2>3. UNCHANGED <<lock, generation, manager>>
      BY <1>5 DEF List, ListDone
    <2> QED
      BY <2>1, <2>2, <2>3
         DEF Moves, Finding, FindPCs, Locking, Fencing, InCall, Lockers, Processes
  <1> QED
    BY <1>1, <1>2, <1>3, <1>4, <1>5

LEMMA CallsInv ==
    ASSUME TypeOK, Finding, Locking, Fencing, [Next]_vars
    PROVE  Finding' /\ Locking' /\ Fencing'
  <1>s. Servers \cup Clients \cup Listers \cup Unappliers \subseteq Processes
    BY DEF Processes
  <1>1. ASSUME UNCHANGED <<proc, lock, generation, manager>>
        PROVE  Finding' /\ Locking' /\ Fencing'
    BY <1>1 DEF Finding, Locking, Fencing, InCall
  <1>2. ASSUME NEW s \in Servers, ServerCrash(s)
        PROVE  Finding' /\ Locking' /\ Fencing'
    <2>1. Moves(s) /\ Ends(s) /\ proc'[s].pc \notin FindPCs
      BY <1>2, <1>s, StepMoves DEF ServerCrash, ServerDies, Resting, Ends, FindPCs
    <2> QED
      BY <1>2, <1>s, <2>1, CallKeeps DEF ServerCrash, ServerDies
  <1>3. ASSUME NEW p \in Lockers, Scan(p) \/ (p \in Servers /\ Starting(p))
        PROVE  Finding' /\ Locking' /\ Fencing'
    <2>1. UNCHANGED <<generation, manager>>
      BY <1>3 DEF Scan, ScanRead, ScanRemovesStale, ScanCountsPending, ScanResolves,
             Starting, WithinStorageLimit, OverStorageLimit, ReapScanned, Evict,
             EvictionDone, Reserve, TooManyRunning, WithinRunningLimit, Launch,
             LaunchFails, AwaitReady, AwaitError, LaunchAborts, AbortFailedLaunch,
             AbortWaitEnds, Recheck, RemoveReserved
    <2>2. p \in Processes
      BY DEF Lockers, Processes
    <2>3. Moves(p) /\ (Ends(p) \/ GoesOn(p)) /\ proc'[p].pc \notin FindPCs
      BY <1>3, <2>2, ScanMoves, StartingMoves DEF Ends, FindPCs, ScanPCs
    <2> QED
      BY <2>1, <2>2, <2>3, CallKeeps
  <1>4. ASSUME NEW p \in Clients \cup Unappliers, Terminate(p)
        PROVE  Finding' /\ Locking' /\ Fencing'
    <2>1. UNCHANGED <<generation, manager>>
      BY <1>4 DEF Terminate, FindRead, FindMisses, FindAnswers, FindsRunning,
                  RequestKill, TerminateFails
    <2>2. p \in Processes
      BY DEF Processes
    <2>3. proc'[p].pc \in FindPCs => proc'[p].job \in Jobs
      BY <1>4, <2>2, TerminateMoves DEF Finding
    <2> QED
      BY <1>4, <2>1, <2>2, <2>3, TerminateMoves, CallKeeps
  <1>5. ASSUME NEW u \in Unappliers, Unapplying(u)
        PROVE  Finding' /\ Locking' /\ Fencing'
    <2>1. UNCHANGED <<generation, manager>>
      BY <1>5 DEF Unapplying, SweepEnds, SweepFinds, SweepExpires, SweepTerminates,
                  SweepAgain, RemoveInstallation, UnapplyFails, TerminateServer,
                  ServerDies, TerminateHost, TerminateWatchdog, external
    <2>2. \A s \in Servers : Ends(s) => proc'[s].pc \notin FindPCs
      BY DEF Ends, FindPCs
    <2> QED
      BY <1>1, <1>5, <1>s, <2>1, <2>2, UnapplyingMoves, CallKeeps
  <1>6. ASSUME NEW l \in Listers, Scan(l)
        PROVE  Finding' /\ Locking' /\ Fencing'
    <2>1. UNCHANGED <<generation, manager>>
      BY <1>6 DEF Scan, ScanRead, ScanRemovesStale, ScanCountsPending, ScanResolves
    <2>2. Moves(l) /\ GoesOn(l) /\ proc'[l].pc \notin FindPCs
      BY <1>6, <1>s, ScanMoves DEF FindPCs, ScanPCs
    <2> QED
      BY <1>s, <2>1, <2>2, CallKeeps
  <1>7. ASSUME NEW j \in Jobs, \/ HostSteps(j) \/ HostCrash(j) \/ WatchdogFires(j)
                               \/ RootEnds(j) \/ DescendantsEnd(j)
        PROVE  Finding' /\ Locking' /\ Fencing'
    <2>1. UNCHANGED external
      BY <1>7 DEF HostSteps, HostSpawns, HostArms, HostPublishes, HostStartupFails,
             HostReports, HostReady, HostUnheard, HostSeesExit, HostSeesLateKill,
             HostSeesKill, HostKills, HostDisarms, HostWritesExit, HostLeaves,
             HostCrash, WatchdogFires, RootEnds, DescendantsEnd
    <2> QED
      BY <1>1, <2>1 DEF external
  <1>8. CASE UNCHANGED vars
    BY <1>1, <1>8 DEF vars
  <1> QED
    BY <1>2, <1>3, <1>4, <1>5, <1>6, <1>7, <1>8, BeginningKeeps
       DEF Next, Locked, Lockers
-----------------------------------------------------------------------------
(***************************************************************************)
(* What the steps of the system do to one job.                             *)
(***************************************************************************)

(* The job does not come further: its supervisor or its command may end,   *)
(* its directory may be removed, a kill may be requested or cleared.       *)
Quiet(j) ==
    /\ host'[j] = host[j] \/ (host'[j] = "dead" /\ Alive(j))
    /\ \/ command'[j] = command[j]
       \/ command[j] \in {"running", "orphans"} /\ command'[j] \in {"orphans", "gone"}
    /\ \/ registry'[j] = NoDirectory
       \/ /\ registry'[j].dir = registry[j].dir
          /\ registry'[j].meta = registry[j].meta
          /\ registry'[j].exit = registry[j].exit

(* What every step preserves about a job, once it holds.                   *)
Later(j) ==
    /\ host[j] \notin Early => host'[j] \notin Early
    /\ host[j] = "dead" => host'[j] = "dead"
    /\ Over(j) => Over(j)'
    /\ host[j] # "none" /\ ~registry[j].dir => ~registry'[j].dir

LEMMA QuietKeeps ==
    ASSUME TypeOK, TypeOK', NEW j \in Jobs, Lifecycle(j), Quiet(j)
    PROVE  /\ Lifecycle(j)' /\ Later(j)
           /\ host[j] = "none" => host'[j] = "none"
           /\ ~registry[j].dir => ~registry'[j].dir
  <1>1. /\ host[j] = "none" => host'[j] = "none"
        /\ ~registry[j].dir => ~registry'[j].dir
    BY DEF Quiet, Alive, NoDirectory
  <1>2. Lifecycle(j)'
    BY DEF Quiet, Lifecycle, Early, Alive, NoDirectory
  <1>3. Later(j)
    BY <1>1 DEF Quiet, Later, Over, Early, Alive, NoDirectory
  <1> QED
    BY <1>1, <1>2, <1>3

LEMMA RemoveQuiet ==
    ASSUME TypeOK, NEW j, Remove(j), UNCHANGED supervision
    PROVE  \A k \in Jobs : Quiet(k)
  BY DEF TypeOK, Remove, Quiet, Alive, supervision

LEMMA KillQuiet ==
    ASSUME TypeOK, NEW j, NEW kill, registry' = [registry EXCEPT ![j].kill = kill]
    PROVE  \A k \in Jobs : /\ registry'[k].dir = registry[k].dir
                           /\ registry'[k].meta = registry[k].meta
                           /\ registry'[k].exit = registry[k].exit
  BY DEF TypeOK, JobRecord

LEMMA UnchangedQuiet ==
    ASSUME UNCHANGED <<registry, host, command>>
    PROVE  \A k \in Jobs : Quiet(k)
  <1>1. ASSUME NEW k \in Jobs
        PROVE  host'[k] = host[k] /\ command'[k] = command[k] /\ registry'[k] = registry[k]
    OBVIOUS
  <1> QED
    BY <1>1 DEF Quiet

LEMMA ScanQuiet ==
    ASSUME TypeOK, NEW p \in Processes, Scan(p)
    PROVE  (\A k \in Jobs : Quiet(k)) /\ issued' = issued
  <1>1. CASE ScanRemovesStale(p)
    BY <1>1, RemoveQuiet DEF ScanRemovesStale
  <1>2. CASE ScanRead(p) \/ ScanCountsPending(p) \/ ScanResolves(p)
    BY <1>2, UnchangedQuiet DEF ScanRead, ScanCountsPending, ScanResolves, supervision
  <1> QED
    BY <1>1, <1>2 DEF Scan

LEMMA StartingQuiet ==
    ASSUME TypeOK, NEW s \in Servers, Starting(s), ~Reserve(s), ~Launch(s)
    PROVE  (\A k \in Jobs : Quiet(k)) /\ issued' = issued
  <1>1. CASE \/ WithinStorageLimit(s) \/ OverStorageLimit(s) \/ ReapScanned(s)
             \/ EvictionDone(s) \/ WithinRunningLimit(s) \/ LaunchFails(s)
             \/ AwaitReady(s) \/ AwaitError(s) \/ LaunchAborts(s)
             \/ AbortWaitEnds(s) \/ Recheck(s)
    BY <1>1, UnchangedQuiet
       DEF WithinStorageLimit, OverStorageLimit, ReapScanned, EvictionDone,
           WithinRunningLimit, LaunchFails, AwaitReady, AwaitError, LaunchAborts,
           AbortWaitEnds, Recheck, supervision
  <1>2. CASE Evict(s) \/ TooManyRunning(s) \/ RemoveReserved(s)
    BY <1>2, RemoveQuiet DEF Evict, TooManyRunning, RemoveReserved
  <1>3. CASE AbortFailedLaunch(s)
    <2>1. \A k \in Jobs : host'[k] = host[k] \/ (host'[k] = "dead" /\ Alive(k))
      BY <1>3 DEF AbortFailedLaunch, Alive, TypeOK
    <2>2. \A k \in Jobs : /\ registry'[k].dir = registry[k].dir
                          /\ registry'[k].meta = registry[k].meta
                          /\ registry'[k].exit = registry[k].exit
      BY <1>3, KillQuiet DEF AbortFailedLaunch
    <2>3. command' = command /\ issued' = issued
      BY <1>3 DEF AbortFailedLaunch
    <2> QED
      BY <2>1, <2>2, <2>3 DEF Quiet
  <1> QED
    BY <1>1, <1>2, <1>3 DEF Starting

LEMMA TerminateQuiet ==
    ASSUME TypeOK, NEW p \in Processes, Terminate(p)
    PROVE  (\A k \in Jobs : Quiet(k)) /\ issued' = issued
  <1>1. CASE RequestKill(p)
    BY <1>1, KillQuiet DEF RequestKill, Quiet, Alive, supervision
  <1>2. CASE FindRead(p) \/ FindMisses(p) \/ FindAnswers(p) \/ FindsRunning(p)
             \/ TerminateFails(p)
    BY <1>2, UnchangedQuiet
       DEF FindRead, FindMisses, FindAnswers, FindsRunning, TerminateFails, supervision
  <1> QED
    BY <1>1, <1>2 DEF Terminate

LEMMA UnapplyingQuiet ==
    ASSUME TypeOK, NEW u \in Unappliers, Unapplying(u)
    PROVE  (\A k \in Jobs : Quiet(k)) /\ issued' = issued
  <1>1. CASE RemoveInstallation(u)
    BY <1>1 DEF RemoveInstallation, Quiet, Alive, supervision
  <1>2. CASE \E j \in Jobs : TerminateHost(u, j)
    BY <1>2 DEF TerminateHost, HostGoto, Quiet, Alive, external, TypeOK
  <1>3. CASE \/ SweepEnds(u) \/ SweepFinds(u) \/ SweepExpires(u) \/ SweepTerminates(u)
             \/ SweepAgain(u) \/ UnapplyFails(u)
             \/ \E s \in Servers : TerminateServer(u, s)
             \/ \E j \in Jobs : TerminateWatchdog(u, j)
    BY <1>3, UnchangedQuiet
       DEF SweepEnds, SweepFinds, SweepExpires, SweepTerminates, SweepAgain,
           UnapplyFails, TerminateServer, ServerDies, TerminateWatchdog, supervision,
           external
  <1> QED
    BY <1>1, <1>2, <1>3 DEF Unapplying

LEMMA BeginningQuiet ==
    ASSUME \/ \E s \in Servers : Boot(s) \/ Admit(s) \/ ReapHistory(s) \/ ServerCrash(s)
           \/ \E u \in Unappliers : Fence(u)
           \/ \E c \in Clients, goal \in {"output", "kill"} : Ask(c, goal)
           \/ \E l \in Listers : List(l) \/ ListDone(l)
           \/ UNCHANGED vars
    PROVE  (\A k \in Jobs : Quiet(k)) /\ issued' = issued
  BY UnchangedQuiet DEF Boot, Admit, ReapHistory, ServerCrash, ServerDies, Fence, Ask,
                        List, ListDone, supervision, vars

LEMMA EndingQuiet ==
    ASSUME TypeOK, NEW j \in Jobs,
           HostCrash(j) \/ WatchdogFires(j) \/ RootEnds(j) \/ DescendantsEnd(j)
    PROVE  (\A k \in Jobs : Quiet(k)) /\ issued' = issued
  BY DEF HostCrash, WatchdogFires, RootEnds, DescendantsEnd, HostGoto, Terminated,
         Quiet, Alive, TypeOK, CommandStates, external

(* A step of the supervisor of j.                                          *)
LEMMA HostQuiet ==
    ASSUME TypeOK, NEW j \in Jobs, HostSteps(j)
    PROVE  (\A k \in Jobs : k # j => Quiet(k)) /\ UNCHANGED external
  <1>1. UNCHANGED external
    BY DEF HostSteps, HostSpawns, HostArms, HostPublishes, HostStartupFails,
           HostReports, HostReady, HostUnheard, HostSeesExit, HostSeesLateKill,
           HostSeesKill, HostKills, HostDisarms, HostWritesExit, HostLeaves
  <1>2. \A k \in Jobs : k # j => host'[k] = host[k]
    BY DEF HostSteps, HostSpawns, HostArms, HostPublishes, HostStartupFails,
           HostReports, HostReady, HostUnheard, HostSeesExit, HostSeesLateKill,
           HostSeesKill, HostKills, HostDisarms, HostWritesExit, HostLeaves,
           HostGoto, TypeOK
  <1>3. \A k \in Jobs : k # j => command'[k] = command[k] /\ registry'[k] = registry[k]
    BY DEF HostSteps, HostSpawns, HostArms, HostPublishes, HostStartupFails,
           HostReports, HostReady, HostUnheard, HostSeesExit, HostSeesLateKill,
           HostSeesKill, HostKills, HostDisarms, HostWritesExit, HostLeaves,
           Terminated, TypeOK
  <1> QED
    BY <1>1, <1>2, <1>3 DEF Quiet, Alive

LEMMA HostKeeps ==
    ASSUME TypeOK, TypeOK', NEW j \in Jobs, Lifecycle(j), HostSteps(j)
    PROVE  /\ Lifecycle(j)' /\ Later(j)
           /\ host[j] = "none" => host'[j] = "none"
           /\ ~registry[j].dir => ~registry'[j].dir
  <1> DEFINE Kept == /\ Lifecycle(j)' /\ Later(j)
                     /\ host[j] = "none" => host'[j] = "none"
                     /\ ~registry[j].dir => ~registry'[j].dir
  <1>t. /\ registry \in [Jobs -> JobRecord] /\ host \in [Jobs -> HostPC]
        /\ command \in [Jobs -> CommandStates]
    BY DEF TypeOK
  <1>1. CASE HostSpawns(j) \/ HostStartupFails(j) \/ HostReports(j) \/ HostReady(j)
             \/ HostUnheard(j) \/ HostSeesExit(j) \/ HostSeesKill(j) \/ HostDisarms(j)
             \/ HostLeaves(j) \/ HostArms(j)
    BY <1>1, <1>t
       DEF HostSpawns, HostArms, HostStartupFails, HostReports, HostReady,
           HostUnheard, HostSeesExit, HostSeesKill, HostDisarms, HostLeaves,
           HostGoto, Terminated, Lifecycle, Later, Over, Early
  <1>2. CASE HostSeesLateKill(j) \/ HostKills(j)
    <2>1. /\ registry'[j].dir = registry[j].dir /\ registry'[j].meta = registry[j].meta
          /\ registry'[j].exit = registry[j].exit
      BY <1>2, KillQuiet DEF HostSeesLateKill, HostKills
    <2> QED
      BY <1>2, <1>t, <2>1
         DEF HostSeesLateKill, HostKills, HostGoto, Terminated, Lifecycle, Later,
             Over, Early
  <1>3. CASE HostPublishes(j)
    <2>1. registry'[j].exit = registry[j].exit /\ registry'[j].dir
      BY <1>3, <1>t DEF HostPublishes, JobRecord
    <2>2. host[j] = "armed" /\ host'[j] = "published" /\ command' = command
      BY <1>3, <1>t DEF HostPublishes, HostGoto
    <2>3. registry[j].dir
      BY <1>3 DEF HostPublishes
    <2> QED
      BY <2>1, <2>2, <2>3 DEF Lifecycle, Later, Over, Early
  <1>4. CASE HostWritesExit(j)
    <2>1. /\ host[j] \in {"exitedDisarmed", "killedDisarmed"} /\ host'[j] = "leaving"
          /\ command' = command
      BY <1>4, <1>t DEF HostWritesExit, HostGoto
    <2>2. /\ registry'[j].meta = registry[j].meta /\ registry'[j].dir = registry[j].dir
      BY <1>4, <1>t DEF HostWritesExit, JobRecord
    <2> QED
      BY <2>1, <2>2 DEF Lifecycle, Later, Over, Early
  <1> QED
    BY <1>1, <1>2, <1>3, <1>4 DEF HostSteps
(* Records, supervisors and reservations under one step of the system.     *)
LEMMA JobsInv ==
    ASSUME TypeOK, TypeOK', Locking, Launchable, Unissued, Lifecycles, [Next]_vars
    PROVE  Launchable' /\ Unissued' /\ Lifecycles' /\ (\A j \in Jobs : Later(j))
  <1> DEFINE Goal == Launchable' /\ Unissued' /\ Lifecycles' /\ (\A j \in Jobs : Later(j))
  <1>s. Servers \cup Clients \cup Listers \cup Unappliers \subseteq Processes
    BY DEF Processes
  (* Steps that take no job further, and do not reserve or launch.         *)
  <1>q. ASSUME \A k \in Jobs : Quiet(k), issued' = issued,
               \A s \in Servers : proc'[s].pc \in {"countScan", "launch"} =>
                   proc[s].pc \in {"countScan", "launch"} /\ proc'[s].job = proc[s].job
        PROVE  Goal
    <2>1. \A k \in Jobs : /\ Lifecycle(k)' /\ Later(k)
                          /\ host[k] = "none" => host'[k] = "none"
                          /\ ~registry[k].dir => ~registry'[k].dir
      BY <1>q, QuietKeeps DEF Lifecycles
    <2>2. Unissued'
      BY <1>q, <2>1 DEF Unissued
    <2>3. Launchable'
      BY <1>q, <2>1 DEF Launchable, TypeOK
    <2> QED
      BY <2>1, <2>2, <2>3 DEF Lifecycles
  (* One process moves, and is not going to launch a job.                  *)
  <1>m. ASSUME NEW p \in Processes, Moves(p),
               \/ p \notin Servers
               \/ proc'[p].pc \notin {"countScan", "launch"}
               \/ /\ proc[p].pc \in {"countScan", "launch"}
                  /\ proc'[p].job = proc[p].job
        PROVE  \A s \in Servers : proc'[s].pc \in {"countScan", "launch"} =>
                   proc[s].pc \in {"countScan", "launch"} /\ proc'[s].job = proc[s].job
    BY <1>m, <1>s DEF Moves
  <1>n. ASSUME proc' = proc
        PROVE  \A s \in Servers : proc'[s].pc \in {"countScan", "launch"} =>
                   proc[s].pc \in {"countScan", "launch"} /\ proc'[s].job = proc[s].job
    BY <1>n
  <1>1. ASSUME NEW p \in Processes, Scan(p)
        PROVE  Goal
    BY <1>1, <1>m, <1>q, ScanMoves, ScanQuiet
  <1>2. ASSUME NEW s \in Servers, Starting(s), ~Reserve(s), ~Launch(s)
        PROVE  Goal
    <2>0. proc[s] \in Calls
      BY <1>s DEF TypeOK
    <2>1. \/ proc'[s].pc \notin {"countScan", "launch"}
          \/ /\ proc[s].pc \in {"countScan", "launch"}
             /\ proc'[s].job = proc[s].job
      <3>1. CASE WithinRunningLimit(s)
        <4>1. Step(s, [proc[s] EXCEPT !.pc = "launch", !.found = {}, !.pending = {}])
              /\ proc[s].pc = "countScan"
          BY <3>1 DEF WithinRunningLimit, Scanned, At
        <4>2. proc'[s] = [proc[s] EXCEPT !.pc = "launch", !.found = {}, !.pending = {}]
          BY <1>s, <4>1, StepMoves
        <4> QED
          BY <2>0, <4>1, <4>2 DEF Calls
      <3>r. Return(s) => proc'[s].pc \notin {"countScan", "launch"}
        BY <1>s, ReturnMoves DEF Ends
      <3>2. CASE Reaped(s)
        <4>1. CASE proc[s].goal = "start"
          <5>1. Step(s, [proc[s] EXCEPT !.pc = "reserve", !.found = {}, !.pending = {}])
            BY <3>2, <4>1 DEF Reaped
          <5>2. proc'[s] = [proc[s] EXCEPT !.pc = "reserve", !.found = {}, !.pending = {}]
            BY <1>s, <5>1, StepMoves
          <5> QED
            BY <2>0, <5>2 DEF Calls
        <4>2. CASE proc[s].goal # "start"
          BY <3>2, <3>r, <4>2 DEF Reaped
        <4> QED
          BY <4>1, <4>2
      <3>3. CASE Evict(s)
        <4>1. PICK j : Step(s, [proc[s] EXCEPT !.found = @ \ {j}])
          BY <3>3 DEF Evict
        <4>2. proc'[s] = [proc[s] EXCEPT !.found = @ \ {j}]
          BY <1>s, <4>1, StepMoves
        <4> QED
          BY <3>3, <2>0, <4>2 DEF Calls, Evict, At
      <3>4. CASE OverStorageLimit(s)
        BY <3>4, <1>s, StartScanMoves DEF OverStorageLimit
      <3>5. CASE \/ ReapScanned(s) \/ LaunchFails(s) \/ AwaitError(s)
                 \/ LaunchAborts(s) \/ AbortWaitEnds(s) \/ AbortFailedLaunch(s)
        BY <3>5, <1>s, GotoMoves
           DEF ReapScanned, LaunchFails, AwaitError, LaunchAborts, AbortWaitEnds,
               AbortFailedLaunch
      <3>6. CASE Recheck(s)
        BY <3>6, <3>r, <1>s, GotoMoves DEF Recheck
      <3>7. CASE TooManyRunning(s) \/ RemoveReserved(s) \/ AwaitReady(s)
        BY <3>7, <3>r DEF TooManyRunning, RemoveReserved, AwaitReady
      <3> QED
        BY <1>2, <3>1, <3>2, <3>3, <3>4, <3>5, <3>6, <3>7
           DEF Starting, WithinStorageLimit, EvictionDone
    <2> QED
      BY <1>2, <1>s, <1>m, <1>q, <2>1, StartingMoves, StartingQuiet
  <1>3. ASSUME NEW s \in Servers, Reserve(s)
        PROVE  Goal
    <2>1. PICK j \in Jobs \ issued :
             /\ registry' = [registry EXCEPT ![j] = Reservation]
             /\ issued' = issued \cup {j}
             /\ Step(s, [proc[s] EXCEPT !.pc = "countScan", !.job = j, !.todo = Jobs])
      BY <1>3 DEF Reserve
    <2>2. /\ Moves(s)
          /\ proc'[s] = [proc[s] EXCEPT !.pc = "countScan", !.job = j, !.todo = Jobs]
      BY <1>s, <2>1, StepMoves
    <2>3. proc'[s].job = j
      BY <1>s, <2>2 DEF TypeOK, Calls
    <2>4. host' = host /\ command' = command
      BY <1>3 DEF Reserve, supervision
    <2>5. Launchable'
      BY ZenonT(40), <1>s, <2>1, <2>2, <2>3, <2>4 DEF Launchable, Unissued, Moves, TypeOK
    <2>6. \A k \in Jobs : k # j => registry'[k] = registry[k]
      BY <2>1 DEF TypeOK
    <2>7. Unissued'
      BY <2>1, <2>4, <2>6 DEF Unissued
    <2>8. ~Reservation.meta /\ Reservation.exit = "none"
      BY DEF Reservation, NoDirectory
    <2>9. registry'[j] = Reservation
      BY <2>1 DEF TypeOK
    <2>10. Lifecycles'
      BY <2>4, <2>6, <2>8, <2>9 DEF Lifecycles, Lifecycle
    <2>11. \A k \in Jobs : Later(k)
      BY <2>1, <2>4, <2>6 DEF Later, Over, Unissued
    <2> QED
      BY <2>5, <2>7, <2>10, <2>11
  <1>4. ASSUME NEW s \in Servers, Launch(s)
        PROVE  Goal
    <2>1. /\ Moves(s) /\ proc'[s].pc = "await"
      BY <1>4, <1>s, GotoMoves DEF Launch
    <2>2. proc[s].job \in issued /\ host[proc[s].job] = "none"
      BY <1>4 DEF Launch, At, Launchable
    <2>3. \A t \in Servers : t # s => ~InCall(t) /\ proc'[t] = proc[t]
      <3>1. InCall(s)
        BY <1>4 DEF Launch, At, InCall
      <3> QED
        BY <1>s, <2>1, <3>1 DEF Moves, Locking, Lockers
    <2>4. Launchable'
      BY <2>1, <2>3 DEF Launchable, InCall
    <2>5. /\ host' = [host EXCEPT ![proc[s].job] = "boot"]
          /\ UNCHANGED <<registry, command, issued>>
      BY <1>4 DEF Launch
    <2>6. Unissued'
      BY <2>2, <2>5 DEF Unissued, TypeOK
    <2>7. \A k \in Jobs : Lifecycle(k)' /\ Later(k)
      <3>1. ASSUME NEW k \in Jobs, k # proc[s].job
            PROVE  Lifecycle(k)' /\ Later(k)
        <4>1. host'[k] = host[k]
          BY <2>5, <3>1 DEF TypeOK
        <4> QED
          BY <2>5, <4>1 DEF Lifecycles, Lifecycle, Later, Over
      <3>2. ASSUME NEW k \in Jobs, k = proc[s].job
            PROVE  Lifecycle(k)' /\ Later(k)
        <4>1. host[k] = "none" /\ host'[k] = "boot"
          BY <2>2, <2>5, <3>2 DEF TypeOK
        <4> QED
          BY <2>5, <4>1 DEF Lifecycles, Lifecycle, Later, Over, Early
      <3> QED
        BY <3>1, <3>2
    <2> QED
      BY <2>4, <2>6, <2>7 DEF Lifecycles
  <1>5. ASSUME NEW p \in Clients \cup Unappliers, Terminate(p)
        PROVE  Goal
    <2>1. p \in Processes /\ p \notin Servers
      BY <1>s
    <2> QED
      BY <1>5, <1>m, <1>q, <2>1, TerminateMoves, TerminateQuiet
  <1>6. ASSUME NEW u \in Unappliers, Unapplying(u)
        PROVE  Goal
    <2>1. u \in Processes /\ u \notin Servers
      BY <1>s
    <2>2. \A s \in Servers : Ends(s) => proc'[s].pc \notin {"countScan", "launch"}
      BY DEF Ends
    <2> QED
      BY <1>6, <1>s, <1>m, <1>n, <1>q, <2>1, <2>2, UnapplyingMoves, UnapplyingQuiet
  <1>7. ASSUME NEW s \in Servers, Boot(s) \/ Admit(s) \/ ReapHistory(s) \/ ServerCrash(s)
        PROVE  Goal
    <2>1. Moves(s) /\ proc'[s].pc \notin {"countScan", "launch"}
      <3>1. CASE Boot(s)
        BY <3>1, <1>s, GotoMoves DEF Boot
      <3>2. CASE Admit(s) \/ ReapHistory(s)
        <4>1. PICK goal : Step(s, [proc[s] EXCEPT !.pc = "admitted", !.goal = goal])
          BY <3>2 DEF Admit, ReapHistory
        <4>2. Moves(s) /\ proc'[s] = [proc[s] EXCEPT !.pc = "admitted", !.goal = goal]
          BY <1>s, <4>1, StepMoves
        <4> QED
          BY <1>s, <4>2 DEF TypeOK, Calls
      <3>3. CASE ServerCrash(s)
        BY <3>3, <1>s, StepMoves DEF ServerCrash, ServerDies, Resting
      <3> QED
        BY <1>7, <3>1, <3>2, <3>3
    <2>2. (\A k \in Jobs : Quiet(k)) /\ issued' = issued
      BY <1>7, BeginningQuiet
    <2> QED
      BY <1>s, <1>m, <1>q, <2>1, <2>2
  <1>8. ASSUME \/ \E u \in Unappliers : Fence(u)
               \/ \E c \in Clients, goal \in {"output", "kill"} : Ask(c, goal)
               \/ \E l \in Listers : List(l) \/ ListDone(l)
        PROVE  Goal
    <2>1. \E p \in Processes : p \notin Servers /\ Moves(p)
      BY <1>8, <1>s, StartScanMoves, StepMoves DEF Fence, Ask, List, ListDone
    <2>2. (\A k \in Jobs : Quiet(k)) /\ issued' = issued
      BY <1>8, BeginningQuiet
    <2> QED
      BY <1>m, <1>q, <2>1, <2>2
  <1>9. ASSUME NEW j \in Jobs,
               HostCrash(j) \/ WatchdogFires(j) \/ RootEnds(j) \/ DescendantsEnd(j)
        PROVE  Goal
    <2>1. proc' = proc
      BY <1>9 DEF HostCrash, WatchdogFires, RootEnds, DescendantsEnd, external
    <2> QED
      BY <1>9, <1>n, <1>q, <2>1, EndingQuiet
  <1>10. ASSUME NEW j \in Jobs, HostSteps(j)
         PROVE  Goal
    <2>1. (\A k \in Jobs : k # j => Quiet(k)) /\ proc' = proc /\ issued' = issued
      BY <1>10, HostQuiet DEF external
    <2>2. \A k \in Jobs : /\ Lifecycle(k)' /\ Later(k)
                          /\ host[k] = "none" => host'[k] = "none"
                          /\ ~registry[k].dir => ~registry'[k].dir
      BY <1>10, <2>1, QuietKeeps, HostKeeps DEF Lifecycles
    <2>3. Unissued'
      BY <2>1, <2>2 DEF Unissued
    <2>4. Launchable'
      BY <2>1, <2>2 DEF Launchable, TypeOK
    <2> QED
      BY <2>2, <2>3, <2>4 DEF Lifecycles
  <1>11. ASSUME UNCHANGED vars
         PROVE  Goal
    <2>1. proc' = proc
      BY <1>11 DEF vars
    <2> QED
      BY <1>11, <1>n, <1>q, <2>1, BeginningQuiet
  <1> QED
    BY <1>s, <1>1, <1>2, <1>3, <1>4, <1>5, <1>6, <1>7, <1>8, <1>9, <1>10, <1>11
       DEF Next, Locked
(***************************************************************************)
(* What clients read and are told.                                         *)
(***************************************************************************)
ReadingOf(c) ==
    proc[c].entry # None =>
        LET e == proc[c].entry
        IN  /\ proc[c].pc \in FindPCs
            /\ proc[c].job = e.job
            /\ host[e.job] \notin Early
            /\ e.exit # "none" => Over(e.job)
            /\ told[c][e.job] \in Ended =>
                   host[e.job] = "dead" \/ e.exit # "none" \/ ~registry[e.job].dir

TellingOf(c) == \A j \in Jobs : told[c][j] \in Ended => Over(j)

LEMMA Bystander ==
    ASSUME TypeOK, \A j \in Jobs : Later(j), NEW c \in Clients,
           ReadingOf(c), TellingOf(c), proc'[c] = proc[c], told'[c] = told[c]
    PROVE  ReadingOf(c)' /\ TellingOf(c)'
  <1>1. TellingOf(c)'
    BY DEF TellingOf, Later
  <1>2. ASSUME proc[c].entry # None
        PROVE  proc[c].entry.job \in Jobs
    BY <1>2 DEF TypeOK, Calls, Entries, Processes
  <1>3. ReadingOf(c)'
    BY <1>2 DEF ReadingOf, Later, Early
  <1> QED
    BY <1>1, <1>3

LEMMA TerminateTells ==
    ASSUME TypeOK, TypeOK', Finding, Lifecycles, \A j \in Jobs : Later(j),
           NEW c \in Clients, ReadingOf(c), TellingOf(c), Terminate(c)
    PROVE  ReadingOf(c)' /\ TellingOf(c)'
  <1> c \in Processes
    BY DEF Processes
  <1> DEFINE call == proc[c]
             e == proc[c].entry
  <1>0. proc[c] \in Calls /\ told \in [Clients -> [Jobs -> Statuses]]
    BY DEF TypeOK
  <1>t. ASSUME told' = told
        PROVE  TellingOf(c)'
    BY <1>t DEF TellingOf, Later
  <1>1. CASE FindRead(c)
    <2>1. /\ call.job \in Jobs /\ call.pc \in FindPCs
          /\ registry[call.job].meta /\ told' = told
          /\ UNCHANGED <<registry, host, command>>
      BY <1>1 DEF FindRead, Finding, FindPCs, supervision
    <2>2. proc'[c] = [proc[c] EXCEPT !.entry = EntryOf(call.job, FALSE)]
      BY <1>1, StepMoves DEF FindRead
    <2>3. /\ proc'[c].pc = call.pc /\ proc'[c].job = call.job
          /\ proc'[c].entry = EntryOf(call.job, FALSE)
      BY <1>0, <2>2 DEF Calls
    <2>4. /\ EntryOf(call.job, FALSE).job = call.job
          /\ EntryOf(call.job, FALSE).exit = registry[call.job].exit
      BY DEF EntryOf
    <2>5. /\ host[call.job] \notin Early
          /\ registry[call.job].exit # "none" => Over(call.job)
      BY <2>1 DEF Lifecycles, Lifecycle, Over
    <2>6. told[c][call.job] \in Ended =>
             \/ host[call.job] = "dead" \/ registry[call.job].exit # "none"
             \/ ~registry[call.job].dir
      BY <2>1 DEF TellingOf, Over
    <2>7. PICK j \in Jobs : j = call.job
      BY <2>1
    <2>8. /\ host'[j] \notin Early
          /\ registry'[j].exit # "none" => Over(j)'
          /\ told'[c][j] \in Ended =>
                 \/ host'[j] = "dead" \/ registry'[j].exit # "none"
                 \/ ~registry'[j].dir
      BY <2>1, <2>5, <2>6, <2>7 DEF Over
    <2>9. /\ proc'[c].pc \in FindPCs /\ proc'[c].job = j
          /\ proc'[c].entry.job = j /\ proc'[c].entry.exit = registry'[j].exit
      BY <2>1, <2>3, <2>4, <2>7
    <2>10. ReadingOf(c)'
      BY <2>8, <2>9 DEF ReadingOf, Over
    <2> QED
      BY <1>t, <2>1, <2>10
  <1>2. CASE FindMisses(c) \/ FindAnswers(c)
    <2>1. PICK status \in Statuses :
             /\ Answer(c, status)
             /\ status \in Ended => FindAnswers(c) /\ status = Status(e)
      <3>1. CASE FindMisses(c)
        BY <3>1 DEF FindMisses, Statuses, Ended
      <3>2. CASE FindAnswers(c)
        <4>1. Status(e) \in Statuses
          BY <1>0, <3>2 DEF FindAnswers, Calls, Entries, ExitRecords, Status, Statuses, Ended
        <4> QED
          BY <3>2, <4>1 DEF FindAnswers
      <3> QED
        BY <1>2, <3>1, <3>2
    <2>2. /\ told' = [told EXCEPT ![c][call.job] = status]
          /\ proc'[c] = Resting("idle")
      BY <2>1, StepMoves DEF Answer
    <2>3. ReadingOf(c)'
      BY <2>2 DEF ReadingOf, Resting
    <2>4. ASSUME NEW j \in Jobs, told'[c][j] \in Ended
          PROVE  Over(j)
      <3>1. CASE told'[c][j] = told[c][j]
        BY <2>4, <3>1 DEF TellingOf
      <3>2. CASE told'[c][j] # told[c][j]
        <4>1. j = call.job /\ told'[c][j] = status
          BY <1>0, <2>2, <3>2
        <4>2. FindAnswers(c) /\ status = Status(e)
          BY <2>1, <2>4, <4>1
        <4>3. e # None /\ e.job = j /\ e \in Entries
          BY <1>0, <4>1, <4>2 DEF FindAnswers, ReadingOf, Calls
        <4>4. e.exit # "none" \/ ~Alive(j)
          BY <2>4, <4>1, <4>2, <4>3 DEF Status, Ended
        <4>5. (e.exit # "none" => Over(j)) /\ host[j] # "none"
          BY <4>3 DEF ReadingOf, Early
        <4> QED
          BY <4>4, <4>5 DEF Alive, Over
      <3> QED
        BY <3>1, <3>2
    <2>5. TellingOf(c)'
      BY <2>4 DEF TellingOf, Later
    <2> QED
      BY <2>3, <2>5
  <1>3. CASE FindsRunning(c)
    <2>1. PICK pc : Step(c, [proc[c] EXCEPT !.entry = None, !.pc = pc])
      <3>1. Step(c, [proc[c] EXCEPT !.entry = None,
                        !.pc = IF proc[c].pc = "find" THEN "request" ELSE proc[c].pc])
        BY <1>3 DEF FindsRunning
      <3> QED
        BY <3>1
    <2>2. proc'[c] = [proc[c] EXCEPT !.entry = None, !.pc = pc]
      BY <2>1, StepMoves
    <2>3. proc'[c].entry = None
      BY <1>0, <2>2 DEF Calls
    <2>4. told' = told
      BY <1>3 DEF FindsRunning
    <2> QED
      BY <1>t, <2>3, <2>4 DEF ReadingOf
  <1>4. CASE RequestKill(c)
    <2>1. /\ proc'[c].entry = proc[c].entry /\ proc'[c].job = proc[c].job
          /\ proc'[c].pc = "poll" /\ told' = told
      BY <1>4, GotoMoves DEF RequestKill
    <2>2. ASSUME e # None
          PROVE  e.job \in Jobs
      BY <1>0, <2>2 DEF Calls, Entries
    <2>3. ReadingOf(c)'
      <3>1. CASE e = None
        BY <2>1, <3>1 DEF ReadingOf
      <3>2. CASE e # None
        <4>1. PICK j \in Jobs : j = e.job
          BY <2>2, <3>2
        <4>2. /\ host[j] \notin Early /\ proc[c].job = j
              /\ e.exit # "none" => Over(j)
              /\ told[c][j] \in Ended =>
                     host[j] = "dead" \/ e.exit # "none" \/ ~registry[j].dir
          BY <3>2, <4>1 DEF ReadingOf
        <4>3. Later(j)
          OBVIOUS
        <4>4. /\ host'[j] \notin Early
              /\ e.exit # "none" => Over(j)'
              /\ told'[c][j] \in Ended =>
                     host'[j] = "dead" \/ e.exit # "none" \/ ~registry'[j].dir
          BY <2>1, <4>2, <4>3 DEF Later, Early
        <4>5. /\ proc'[c].pc \in FindPCs /\ proc'[c].job = j
              /\ proc'[c].entry.job = j /\ proc'[c].entry.exit = e.exit
          BY <2>1, <4>1, <4>2 DEF FindPCs
        <4> QED
          BY <4>4, <4>5 DEF ReadingOf, Over
      <3> QED
        BY <3>1, <3>2
    <2> QED
      BY <1>t, <2>1, <2>3
  <1>5. CASE TerminateFails(c)
    <2>1. proc'[c].entry = None /\ told' = told
      BY <1>5, ReturnMoves DEF TerminateFails, Ends
    <2> QED
      BY <1>t, <2>1 DEF ReadingOf
  <1> QED
    BY <1>1, <1>2, <1>3, <1>4, <1>5 DEF Terminate

LEMMA AskTells ==
    ASSUME TypeOK, \A j \in Jobs : Later(j), NEW c \in Clients, ReadingOf(c), TellingOf(c),
           NEW goal, Ask(c, goal)
    PROVE  ReadingOf(c)' /\ TellingOf(c)'
  <1> c \in Processes
    BY DEF Processes
  <1>1. proc[c].entry = None /\ told' = told
    BY DEF Ask, At, ReadingOf, FindPCs
  <1>2. PICK j : Step(c, [proc[c] EXCEPT !.pc = "find", !.goal = goal, !.job = j])
    BY DEF Ask
  <1>3. proc'[c] = [proc[c] EXCEPT !.pc = "find", !.goal = goal, !.job = j]
    BY <1>2, StepMoves
  <1>4. proc'[c].entry = None
    BY <1>1, <1>3 DEF TypeOK, Calls
  <1> QED
    BY <1>1, <1>4 DEF ReadingOf, TellingOf, Later

LEMMA TellingInv ==
    ASSUME IInv, TypeOK', \A j \in Jobs : Later(j), [Next]_vars
    PROVE  Reading' /\ Telling'
  <1>s. Servers \cup Clients \cup Listers \cup Unappliers \subseteq Processes
    BY DEF Processes
  <1>i. TypeOK /\ Finding /\ Lifecycles /\ (\A c \in Clients : ReadingOf(c) /\ TellingOf(c))
    BY DEF IInv, Reading, Telling, ReadingOf, TellingOf
  <1> SUFFICES ASSUME NEW c \in Clients
               PROVE  ReadingOf(c)' /\ TellingOf(c)'
    BY DEF Reading, Telling, ReadingOf, TellingOf
  <1> DEFINE Goal == ReadingOf(c)' /\ TellingOf(c)'
  <1>m. ASSUME NEW p \in Processes, p # c, Moves(p), told' = told
        PROVE  Goal
    BY <1>m, <1>s, <1>i, Bystander DEF Moves
  <1>n. ASSUME proc' = proc, told' = told
        PROVE  Goal
    BY <1>n, <1>i, Bystander
  <1>1. ASSUME NEW p \in Processes \ Clients, Scan(p)
        PROVE  Goal
    <2>1. told' = told
      BY <1>1 DEF Scan, ScanRead, ScanRemovesStale, ScanCountsPending, ScanResolves
    <2> QED
      BY <1>1, <1>i, <1>m, <2>1, ScanMoves
  <1>2. ASSUME NEW s \in Servers, Starting(s)
        PROVE  Goal
    <2>1. told' = told
      BY <1>2 DEF Starting, WithinStorageLimit, OverStorageLimit, ReapScanned, Evict,
             EvictionDone, Reserve, TooManyRunning, WithinRunningLimit, Launch,
             LaunchFails, AwaitReady, AwaitError, LaunchAborts, AbortFailedLaunch,
             AbortWaitEnds, Recheck, RemoveReserved
    <2> QED
      BY <1>2, <1>s, <1>i, <1>m, <2>1, StartingMoves
  <1>3. ASSUME NEW u \in Unappliers, Terminate(u)
        PROVE  Goal
    <2>1. told' = told
      BY <1>3 DEF Terminate, FindRead, FindMisses, FindAnswers, FindsRunning,
                  RequestKill, TerminateFails, Answer
    <2> QED
      BY <1>3, <1>s, <1>i, <1>m, <2>1, TerminateMoves
  <1>4. ASSUME NEW u \in Unappliers, Unapplying(u)
        PROVE  Goal
    <2>1. told' = told
      BY <1>4 DEF Unapplying, SweepEnds, SweepFinds, SweepExpires, SweepTerminates,
                  SweepAgain, RemoveInstallation, UnapplyFails, TerminateServer,
                  ServerDies, TerminateHost, TerminateWatchdog, external
    <2> QED
      BY <1>4, <1>s, <1>i, <1>m, <1>n, <2>1, UnapplyingMoves
  <1>5. ASSUME NEW p \in Clients, Terminate(p)
        PROVE  Goal
    <2>1. CASE p = c
      BY <1>5, <1>i, <2>1, TerminateTells
    <2>2. CASE p # c
      <3>1. proc'[c] = proc[c]
        BY <1>5, <1>s, <1>i, <2>2, TerminateMoves DEF Moves
      <3>2. told'[c] = told[c]
        BY <1>5, <1>i, <2>2 DEF Terminate, FindRead, FindMisses, FindAnswers,
                          FindsRunning, RequestKill, TerminateFails, Answer, TypeOK
      <3> QED
        BY <1>i, <3>1, <3>2, Bystander
    <2> QED
      BY <2>1, <2>2
  <1>6. ASSUME NEW p \in Clients, NEW goal \in {"output", "kill"}, Ask(p, goal)
        PROVE  Goal
    <2>1. CASE p = c
      BY <1>6, <1>i, <2>1, AskTells
    <2>2. CASE p # c
      BY <1>6, <1>s, <1>i, <1>m, <2>2, StepMoves DEF Ask
    <2> QED
      BY <2>1, <2>2
  <1>7. ASSUME \/ \E s \in Servers : Boot(s) \/ Admit(s) \/ ReapHistory(s) \/ ServerCrash(s)
               \/ \E u \in Unappliers : Fence(u)
               \/ \E l \in Listers : List(l) \/ ListDone(l)
        PROVE  Goal
    <2>1. told' = told
      BY <1>7 DEF Boot, Admit, ReapHistory, ServerCrash, ServerDies, Fence, List, ListDone
    <2>2. PICK p \in Servers \cup Unappliers \cup Listers : Moves(p)
      BY <1>7, <1>s, <1>i, GotoMoves, StartScanMoves, StepMoves
         DEF Boot, Admit, ReapHistory, ServerCrash, ServerDies, Fence, List, ListDone
    <2> QED
      BY <1>m, <1>s, <2>1, <2>2
  <1>8. ASSUME NEW j \in Jobs, \/ HostSteps(j) \/ HostCrash(j) \/ WatchdogFires(j)
                               \/ RootEnds(j) \/ DescendantsEnd(j)
        PROVE  Goal
    <2>1. proc' = proc /\ told' = told
      BY <1>8, <1>i, HostQuiet DEF HostCrash, WatchdogFires, RootEnds, DescendantsEnd, external
    <2> QED
      BY <1>n, <2>1
  <1>9. CASE UNCHANGED vars
    BY <1>9, <1>n DEF vars
  <1> QED
    BY <1>s, <1>1, <1>2, <1>3, <1>4, <1>5, <1>6, <1>7, <1>8, <1>9 DEF Next, Locked

-----------------------------------------------------------------------------
(***************************************************************************)
(* The theorems.                                                           *)
(***************************************************************************)
LEMMA TypeStep ==
    ASSUME TypeOK, Finding, [Next]_vars
    PROVE  TypeOK'
  <1>1. CASE UNCHANGED vars
    BY <1>1 DEF vars, TypeOK
  <1>2. CASE Next
    BY <1>2, ScanType, StartingType, TerminateType, UnapplyingType, BeginningType,
       JobStepType DEF Next, Locked, Processes
  <1> QED
    BY <1>1, <1>2

LEMMA InitInv ==
    ASSUME Init
    PROVE  IInv
  <1>1. Resting("idle") \in Calls
    BY RestingType DEF ProcPC
  <1>2. NoDirectory \in JobRecord /\ ~NoDirectory.meta /\ NoDirectory.exit = "none"
        /\ ~NoDirectory.dir
    BY DEF NoDirectory, JobRecord, ExitRecords
  <1>3. TypeOK
    BY <1>1, <1>2 DEF Init, TypeOK, HostPC, CommandStates, Statuses
  <1>4. Finding /\ Locking /\ Fencing /\ Launchable /\ Reading
    BY DEF Init, Resting, Finding, FindPCs, Locking, Fencing, Launchable, Reading,
           InCall, Lockers, Processes
  <1>5. Unissued /\ Lifecycles
    BY <1>2 DEF Init, Unissued, Lifecycles, Lifecycle, Early
  <1>6. Telling
    BY DEF Init, Telling, Ended
  <1> QED
    BY <1>3, <1>4, <1>5, <1>6 DEF IInv

LEMMA NextInv ==
    ASSUME IInv, [Next]_vars
    PROVE  IInv' /\ (\A j \in Jobs : Later(j))
  <1>1. TypeOK'
    BY TypeStep DEF IInv
  <1>2. Finding' /\ Locking' /\ Fencing'
    BY CallsInv DEF IInv
  <1>3. Launchable' /\ Unissued' /\ Lifecycles' /\ (\A j \in Jobs : Later(j))
    BY <1>1, JobsInv DEF IInv
  <1>4. Reading' /\ Telling'
    BY <1>1, <1>3, TellingInv
  <1> QED
    BY <1>1, <1>2, <1>3, <1>4 DEF IInv

THEOREM Inductive == Spec => []IInv
  BY InitInv, NextInv, PTL DEF Spec

(* The variables keep their types and a job without a directory has no     *)
(* records, in whatever order directories are removed and records written. *)
THEOREM Typing == Spec => []TypeOK
  <1>1. IInv => TypeOK
    BY DEF IInv
  <1> QED
    BY <1>1, Inductive, PTL

(* No two locked calls are under way at once, crashes included, and only   *)
(* the holder of the admission lock is inside one.                         *)
Exclusive == \A p, q \in Lockers : InCall(p) /\ InCall(q) => p = q

THEOREM MutualExclusion == Spec => []Exclusive
  <1>1. IInv => Exclusive
    BY DEF IInv, Locking, Exclusive
  <1> QED
    BY <1>1, Inductive, PTL

(* A server from before an Unapply starts no job after it.                 *)
THEOREM Fenced == Spec => []FencedServersStartNothing
  <1>1. IInv => FencedServersStartNothing
    BY DEF IInv, Fencing, FencedServersStartNothing
  <1> QED
    BY <1>1, Inductive, PTL

(* An exit record is written when the whole process tree of the job is     *)
(* gone, whoever crashes, kills or removes what in the meantime.           *)
THEOREM TreeGone == Spec => []ExitRecordMeansTreeGone
  <1>1. IInv => ExitRecordMeansTreeGone
    BY DEF IInv, Lifecycles, Lifecycle, ExitRecordMeansTreeGone
  <1> QED
    BY <1>1, Inductive, PTL

(* A client told that a job ended is never told later that it runs.        *)
THEOREM EndedForGood == Spec => EndedStaysEnded
  <1> DEFINE Told == \A c \in Clients, j \in Jobs :
                        told[c][j] \in Ended => told'[c][j] # "running"
  <1>1. ASSUME IInv, Next, NEW c \in Clients, NEW j \in Jobs,
               told[c][j] \in Ended, told'[c][j] = "running"
        PROVE  FALSE
    <2>0. TypeOK /\ c \in Processes
      BY <1>1 DEF IInv, Processes
    <2>1. told'[c][j] # told[c][j]
      BY <1>1 DEF Ended
    <2>2. \E p \in Clients \cup Unappliers : FindMisses(p) \/ FindAnswers(p)
      BY ZenonT(40), <1>1, <2>1 DEF Next, Locked, Scan, ScanRead, ScanRemovesStale,
           ScanCountsPending, ScanResolves, Starting, WithinStorageLimit,
           OverStorageLimit, ReapScanned, Evict, EvictionDone, Reserve, TooManyRunning,
           WithinRunningLimit, Launch, LaunchFails, AwaitReady, AwaitError, LaunchAborts,
           AbortFailedLaunch, AbortWaitEnds, Recheck, RemoveReserved, Terminate,
           FindRead, FindsRunning, RequestKill, TerminateFails, Unapplying, SweepEnds,
           SweepFinds, SweepExpires, SweepTerminates, SweepAgain, RemoveInstallation,
           UnapplyFails, TerminateServer, ServerDies, TerminateHost, TerminateWatchdog,
           Boot, Admit, ReapHistory, ServerCrash, Fence, Ask, List, ListDone, HostSteps,
           HostSpawns, HostArms, HostPublishes, HostStartupFails, HostReports, HostReady,
           HostUnheard, HostSeesExit, HostSeesLateKill, HostSeesKill, HostKills,
           HostDisarms, HostWritesExit, HostLeaves, HostCrash, WatchdogFires, RootEnds,
           DescendantsEnd, external
    <2>3. PICK p \in Clients \cup Unappliers : FindMisses(p) \/ FindAnswers(p)
      BY <2>2
    <2>4. PICK status : /\ Answer(p, status)
                        /\ \/ status = "missing"
                           \/ FindAnswers(p) /\ status = Status(proc[p].entry)
      BY <2>3 DEF FindMisses, FindAnswers
    <2>5. p = c /\ j = proc[p].job /\ told'[c][j] = status
      BY <2>0, <2>1, <2>4 DEF Answer, TypeOK
    <2>6. FindAnswers(c) /\ Status(proc[c].entry) = "running"
      BY <1>1, <2>4, <2>5
    <2> DEFINE e == proc[c].entry
    <2>7. e # None /\ e.job = j /\ e.exit \in ExitRecords
      BY <1>1, <2>0, <2>5, <2>6 DEF FindAnswers, IInv, Reading, TypeOK, Calls, Entries
    <2>8. registry[j].dir /\ e.exit = "none" /\ Alive(j)
      BY <2>6, <2>7 DEF Status, ExitRecords
    <2>9. host[j] = "dead" \/ e.exit # "none" \/ ~registry[j].dir
      BY <1>1, <2>7 DEF IInv, Reading
    <2> QED
      BY <2>8, <2>9 DEF Alive
  <1>2. IInv /\ [Next]_vars => [Told]_vars
    BY <1>1
  <1> QED
    BY <1>2, Inductive, PTL DEF Spec, EndedStaysEnded
-----------------------------------------------------------------------------
(***************************************************************************)
(* The running-job limit.  A job counts from its launch on: it is live     *)
(* when its supervisor is about to spawn the command, or has one running.  *)
(***************************************************************************)
Up == {"boot", "spawned", "armed", "published", "serving", "killing"}
Past == {"leaving", "dead"}

Live(j) == host[j] = "boot" \/ (Alive(j) /\ command[j] = "running")
LiveJobs == {j \in Jobs : Live(j)}

(* A failed start leaves no command, and only a dead supervisor reported.  *)
Failures == \A j \in Jobs : /\ host[j] = "failed" => command[j] # "running"
                            /\ ready[j] = "error" => host[j] = "dead"

(* A job on its way up, or reserved by a start, has its directory.         *)
Reserving(s, j) == proc[s].pc \in {"countScan", "launch"} /\ proc[s].job = j
Registered ==
    \A j \in Jobs :
       host[j] \in Up \/ (\E s \in Servers : Reserving(s, j)) => registry[j].dir

(* What was read of an entry still tells how far its supervisor is, and an *)
(* entry that looked abandoned is nobody's.                                *)
EntryOK(p) ==
    proc[p].entry # None =>
       LET e == proc[p].entry
       IN  /\ e.job \in issued
           /\ e.meta => host[e.job] \notin Early
           /\ e.exit # "none" => host[e.job] \in Past
           /\ e.old => /\ ~e.meta /\ ~Alive(e.job)
                       /\ \A s \in Servers : proc[s].job # e.job

(* A scan that counts jobs has seen every live one, or will.               *)
Seen(p, j) ==
    \/ j \in proc[p].todo \cup proc[p].found \cup proc[p].pending
    \/ proc[p].entry # None /\ proc[p].entry.job = j

ServerOK(s) ==
    LET cl == proc[s]
    IN  /\ cl.pc \in {"countScan", "launch", "await", "abort", "abortWait",
                      "failed", "remove"} => cl.job \in issued
        /\ cl.pc \in {"abort", "abortWait", "failed", "remove"} =>
              ~Alive(cl.job)
        /\ cl.pc \in {"reapScan", "evict"} =>
              \A j \in cl.found : host[j] \in Past
        /\ cl.pc \in {"reserve", "countScan"} =>
              cl.found \cup cl.pending \subseteq issued
        /\ cl.pc = "countScan" =>
              \A j \in Jobs : Live(j) \/ j = cl.job => Seen(s, j)
        /\ cl.pc = "launch" =>
              Cardinality(LiveJobs \cup {cl.job}) <= MaxRunning

UnapplierOK(u) ==
    /\ proc[u].pc = "sweepScan" => \A j \in LiveJobs : Seen(u, j)
    /\ proc[u].pc = "swept" => LiveJobs = {}

ProcsOK == /\ \A p \in Processes : EntryOK(p)
           /\ \A s \in Servers : ServerOK(s)
           /\ \A u \in Unappliers : UnapplierOK(u)

LInv == /\ IsFiniteSet(issued) /\ Cardinality(LiveJobs) <= MaxRunning
        /\ Failures /\ Registered /\ ProcsOK

(* A job that does not come nearer to running.                             *)
Fades(j) ==
    /\ Live(j)' => Live(j)
    /\ Alive(j)' => Alive(j)
    /\ host'[j] \in Up => host[j] \in Up
    /\ host[j] \in Past => host'[j] \in Past
    /\ host[j] \notin Early => host'[j] \notin Early

LEMMA QuietFades ==
    ASSUME TypeOK, NEW j \in Jobs, Quiet(j)
    PROVE  Fades(j)
  BY DEF Quiet, Fades, Live, Alive, Up, Past, Early

LEMMA HostFades ==
    ASSUME TypeOK, NEW j \in Jobs, HostSteps(j)
    PROVE  Fades(j)
  <1>1. \/ host'[j] = host[j] /\ host[j] \notin {"none", "dead"}
        \/ host[j] = "boot" /\ host'[j] = "spawned"
        \/ host[j] = "spawned" /\ host'[j] = "armed"
        \/ host[j] = "armed" /\ host'[j] = "published"
        \/ host[j] \in {"boot", "spawned", "armed", "published"} /\ host'[j] = "failed"
        \/ host[j] = "failed" /\ host'[j] = "dead"
        \/ host[j] = "published" /\ host'[j] = "serving"
        \/ host[j] = "serving" /\ host'[j] \in {"exitedDraining", "killing"}
        \/ host[j] = "killing" /\ host'[j] = "killedDraining"
        \/ host[j] = "exitedDraining" /\ host'[j] = "exitedDisarmed"
        \/ host[j] = "killedDraining" /\ host'[j] = "killedDisarmed"
        \/ host[j] \in {"exitedDisarmed", "killedDisarmed"} /\ host'[j] = "leaving"
        \/ host[j] = "leaving" /\ host'[j] = "dead"
    BY DEF HostSteps, HostSpawns, HostArms, HostPublishes, HostStartupFails,
           HostReports, HostReady, HostUnheard, HostSeesExit, HostSeesLateKill,
           HostSeesKill, HostKills, HostDisarms, HostWritesExit, HostLeaves,
           HostGoto, TypeOK
  <1>2. host[j] # "boot" /\ command'[j] = "running" => command[j] = "running"
    BY DEF HostSteps, HostSpawns, HostArms, HostPublishes, HostStartupFails,
           HostReports, HostReady, HostUnheard, HostSeesExit, HostSeesLateKill,
           HostSeesKill, HostKills, HostDisarms, HostWritesExit, HostLeaves,
           HostGoto, Terminated, TypeOK
  <1> QED
    BY <1>1, <1>2 DEF Fades, Live, Alive, Up, Past, Early

(* Only a launch brings a job to life; only a reservation issues an id.    *)
LEMMA StepFades ==
    ASSUME TypeOK, [Next]_vars
    PROVE  \/ (\A j \in Jobs : Fades(j)) /\ issued' = issued
           \/ \E s \in Servers : Reserve(s) \/ Launch(s)
  <1>s. Servers \cup Clients \cup Listers \cup Unappliers \subseteq Processes
    BY DEF Processes
  <1> DEFINE Calmly == (\A j \in Jobs : Fades(j)) /\ issued' = issued
  <1>q. ASSUME (\A j \in Jobs : Quiet(j)) /\ issued' = issued
        PROVE  Calmly
    BY <1>q, QuietFades
  <1>1. ASSUME NEW p \in Processes, Scan(p)
        PROVE  Calmly
    BY <1>1, <1>q, ScanQuiet
  <1>2. ASSUME NEW s \in Servers, Starting(s), ~Reserve(s), ~Launch(s)
        PROVE  Calmly
    BY <1>2, <1>q, StartingQuiet
  <1>3. ASSUME NEW p \in Clients \cup Unappliers, Terminate(p)
        PROVE  Calmly
    BY <1>3, <1>s, <1>q, TerminateQuiet
  <1>4. ASSUME NEW u \in Unappliers, Unapplying(u)
        PROVE  Calmly
    BY <1>4, <1>q, UnapplyingQuiet
  <1>5. ASSUME \/ \E s \in Servers : Boot(s) \/ Admit(s) \/ ReapHistory(s) \/ ServerCrash(s)
               \/ \E u \in Unappliers : Fence(u)
               \/ \E c \in Clients, goal \in {"output", "kill"} : Ask(c, goal)
               \/ \E l \in Listers : List(l) \/ ListDone(l)
               \/ UNCHANGED vars
        PROVE  Calmly
    BY <1>5, <1>q, BeginningQuiet
  <1>6. ASSUME NEW j \in Jobs, HostSteps(j)
        PROVE  Calmly
    BY <1>6, HostQuiet, HostFades, QuietFades DEF external
  <1>7. ASSUME NEW j \in Jobs,
               HostCrash(j) \/ WatchdogFires(j) \/ RootEnds(j) \/ DescendantsEnd(j)
        PROVE  Calmly
    BY <1>7, <1>q, EndingQuiet
  <1> QED
    BY <1>s, <1>1, <1>2, <1>3, <1>4, <1>5, <1>6, <1>7 DEF Next, Locked

LEMMA FailuresStep ==
    ASSUME IInv, Failures, [Next]_vars
    PROVE  Failures'
  <1>0. TypeOK /\ Lifecycles /\ Launchable
    BY DEF IInv
  <1>s. Servers \cup Clients \cup Listers \cup Unappliers \subseteq Processes
    BY DEF Processes
  <1>q. ASSUME (\A j \in Jobs : Quiet(j)) /\ ready' = ready
        PROVE  Failures'
    BY <1>q DEF Quiet, Failures, Alive
  <1>1. ASSUME NEW j \in Jobs, HostSteps(j)
        PROVE  Failures'
    <2>1. \A k \in Jobs \ {j} : Quiet(k) /\ ready'[k] = ready[k]
      BY <1>0, <1>1, HostQuiet
         DEF HostSteps, HostSpawns, HostArms, HostPublishes, HostStartupFails,
             HostReports, HostReady, HostUnheard, HostSeesExit, HostSeesLateKill,
             HostSeesKill, HostKills, HostDisarms, HostWritesExit, HostLeaves, TypeOK
    <2>2. /\ host'[j] = "failed" => command'[j] # "running"
          /\ ready'[j] = "error" => host'[j] = "dead"
      BY <1>0, <1>1
         DEF HostSteps, HostSpawns, HostArms, HostPublishes, HostStartupFails,
             HostReports, HostReady, HostUnheard, HostSeesExit, HostSeesLateKill,
             HostSeesKill, HostKills, HostDisarms, HostWritesExit, HostLeaves,
             HostGoto, Terminated, Failures, TypeOK
    <2>3. ASSUME NEW k \in Jobs \ {j}
          PROVE  /\ host'[k] = "failed" => command'[k] # "running"
                 /\ ready'[k] = "error" => host'[k] = "dead"
      BY <2>1, <2>3 DEF Quiet, Failures, Alive
    <2> QED
      BY <2>2, <2>3 DEF Failures
  <1>2. ASSUME NEW s \in Servers, Launch(s)
        PROVE  Failures'
    <2>1. proc[s].job \in Jobs /\ host[proc[s].job] = "none"
      BY <1>0, <1>2 DEF Launchable, Launch, At, TypeOK
    <2> QED
      BY <1>0, <1>2, <2>1 DEF Launch, Failures, TypeOK
  <1>3. ASSUME NEW s \in Servers, Reserve(s)
        PROVE  Failures'
    BY <1>3 DEF Reserve, supervision, Failures
  <1>4. ASSUME NEW s \in Servers, Starting(s), ~Reserve(s), ~Launch(s)
        PROVE  Failures'
    <2>1. ready' = ready
      BY <1>4 DEF Starting, WithinStorageLimit, OverStorageLimit, ReapScanned, Evict,
             EvictionDone, TooManyRunning, WithinRunningLimit, LaunchFails, AwaitReady,
             AwaitError, LaunchAborts, AbortFailedLaunch, AbortWaitEnds, Recheck,
             RemoveReserved, supervision
    <2> QED
      BY <1>0, <1>4, <1>q, <2>1, StartingQuiet
  <1>5. ASSUME NEW p \in Processes, Scan(p)
        PROVE  Failures'
    <2>1. ready' = ready
      BY <1>5 DEF Scan, ScanRead, ScanRemovesStale, ScanCountsPending, ScanResolves,
                  supervision
    <2> QED
      BY <1>0, <1>5, <1>q, <2>1, ScanQuiet
  <1>6. ASSUME NEW p \in Clients \cup Unappliers, Terminate(p)
        PROVE  Failures'
    <2>1. ready' = ready
      BY <1>6 DEF Terminate, FindRead, FindMisses, FindAnswers, FindsRunning,
                  RequestKill, TerminateFails, supervision
    <2> QED
      BY <1>0, <1>6, <1>s, <1>q, <2>1, TerminateQuiet
  <1>7. ASSUME NEW u \in Unappliers, Unapplying(u)
        PROVE  Failures'
    <2>1. ready' = ready
      BY <1>7 DEF Unapplying, SweepEnds, SweepFinds, SweepExpires, SweepTerminates,
                  SweepAgain, RemoveInstallation, UnapplyFails, TerminateServer,
                  ServerDies, TerminateHost, TerminateWatchdog, external, supervision
    <2> QED
      BY <1>0, <1>7, <1>q, <2>1, UnapplyingQuiet
  <1>8. ASSUME \/ \E s \in Servers : Boot(s) \/ Admit(s) \/ ReapHistory(s) \/ ServerCrash(s)
               \/ \E u \in Unappliers : Fence(u)
               \/ \E c \in Clients, goal \in {"output", "kill"} : Ask(c, goal)
               \/ \E l \in Listers : List(l) \/ ListDone(l)
               \/ UNCHANGED vars
        PROVE  Failures'
    <2>1. ready' = ready
      BY <1>8 DEF Boot, Admit, ReapHistory, ServerCrash, ServerDies, Fence, Ask, List,
                  ListDone, supervision, vars
    <2> QED
      BY <1>8, <1>q, <2>1, BeginningQuiet
  <1>9. ASSUME NEW j \in Jobs,
               HostCrash(j) \/ WatchdogFires(j) \/ RootEnds(j) \/ DescendantsEnd(j)
        PROVE  Failures'
    <2>1. ready' = ready
      BY <1>9 DEF HostCrash, WatchdogFires, RootEnds, DescendantsEnd
    <2> QED
      BY <1>0, <1>9, <1>q, <2>1, EndingQuiet
  <1> QED
    BY <1>s, <1>1, <1>2, <1>3, <1>4, <1>5, <1>6, <1>7, <1>8, <1>9 DEF Next, Locked

(* A job that must have its directory.                                     *)
Needed(j) == host[j] \in Up \/ \E s \in Servers : Reserving(s, j)

LEMMA LiveIsUp ==
    ASSUME TypeOK, Lifecycles, Failures, NEW j \in Jobs, Live(j)
    PROVE  host[j] \in Up
  BY DEF TypeOK, HostPC, Lifecycles, Lifecycle, Failures, Live, Alive, Up

LEMMA LiveIsIssued ==
    ASSUME TypeOK, Unissued
    PROVE  LiveJobs \subseteq issued
  BY DEF Unissued, LiveJobs, Live, Alive

(* No step but a launch adds to what counts against the limit.             *)
LEMMA Shrinks ==
    ASSUME TypeOK, Unissued, IsFiniteSet(issued), \A j \in Jobs : Fades(j), NEW S,
           Cardinality(LiveJobs \cup S) <= MaxRunning, IsFiniteSet(S)
    PROVE  Cardinality(LiveJobs' \cup S) <= MaxRunning
  <1> DEFINE A == LiveJobs \cup S
             B == LiveJobs' \cup S
  <1>1. LiveJobs' \subseteq LiveJobs
    BY DEF LiveJobs, Fades
  <1>2. IsFiniteSet(LiveJobs)
    BY LiveIsIssued, FS_Subset
  <1>3. IsFiniteSet(A)
    BY <1>2, FS_Union
  <1>4. B \subseteq A
    BY <1>1
  <1>5. Cardinality(A) <= MaxRunning
    OBVIOUS
  <1> HIDE DEF A, B
  <1>6. IsFiniteSet(B) /\ Cardinality(B) <= Cardinality(A)
    BY <1>3, <1>4, FS_Subset
  <1>7. Cardinality(B) \in Nat /\ Cardinality(A) \in Nat
    BY <1>3, <1>6, FS_CardinalityType
  <1>8. Cardinality(B) <= MaxRunning
    BY <1>5, <1>6, <1>7
  <1> QED
    BY <1>8 DEF B

(* A process that a step leaves alone.                                     *)
LEMMA EntryStays ==
    ASSUME TypeOK, NEW p \in Processes, EntryOK(p), proc'[p].entry = proc[p].entry,
           \A j \in Jobs : Fades(j), issued \subseteq issued',
           \A s \in Servers : proc'[s].job = proc[s].job \/ proc'[s].job \notin issued
    PROVE  EntryOK(p)'
  <1> SUFFICES ASSUME proc[p].entry # None
               PROVE  EntryOK(p)'
    BY DEF EntryOK
  <1> DEFINE e == proc[p].entry
  <1>1. e.job \in Jobs /\ e.job \in issued
    BY DEF EntryOK, TypeOK
  <1>2. Fades(e.job)
    BY <1>1
  <1> QED
    BY <1>1, <1>2 DEF EntryOK, Fades

LEMMA ServerStays ==
    ASSUME TypeOK, Unissued, IsFiniteSet(issued), NEW s \in Servers, ServerOK(s),
           proc'[s] = proc[s], \A j \in Jobs : Fades(j), issued \subseteq issued'
    PROVE  ServerOK(s)'
  <1> DEFINE cl == proc[s]
  <1>0. cl \in Calls
    BY DEF TypeOK, Processes
  <1>1. CASE cl.pc = "launch"
    <2>1. cl.job \in issued /\ Cardinality(LiveJobs \cup {cl.job}) <= MaxRunning
      BY <1>1 DEF ServerOK
    <2>2. Cardinality(LiveJobs' \cup {cl.job}) <= MaxRunning
      <3> DEFINE S == {cl.job}
      <3>1. IsFiniteSet(S)
        BY FS_Singleton
      <3>2. Cardinality(LiveJobs \cup S) <= MaxRunning
        BY <2>1
      <3> HIDE DEF S
      <3>3. Cardinality(LiveJobs' \cup S) <= MaxRunning
        BY <3>1, <3>2, Shrinks
      <3> QED
        BY <3>3 DEF S
    <2> QED
      BY <1>1, <2>1, <2>2 DEF ServerOK
  <1>2. CASE cl.pc = "countScan"
    <2>1. ASSUME NEW j \in Jobs, Live(j)' \/ j = cl.job
          PROVE  Seen(s, j)'
      <3>1. Seen(s, j)
        BY <1>2, <2>1 DEF ServerOK, Fades
      <3> QED
        BY <3>1 DEF Seen
    <2> QED
      BY <1>2, <2>1 DEF ServerOK
  <1>3. CASE cl.pc \notin {"launch", "countScan"}
    <2>1. cl.pc \in {"reapScan", "evict"} => \A j \in cl.found : host'[j] \in Past
      BY <1>0 DEF ServerOK, Fades, Calls
    <2>2. cl.pc \in {"abort", "abortWait", "failed", "remove"} =>
              cl.job \in issued' /\ ~Alive(cl.job)'
      BY DEF ServerOK, Fades, TypeOK
    <2>3. /\ cl.pc = "await" => cl.job \in issued'
          /\ cl.pc = "reserve" => cl.found \cup cl.pending \subseteq issued'
      BY DEF ServerOK
    <2> QED
      BY <1>3, <2>1, <2>2, <2>3 DEF ServerOK
  <1> QED
    BY <1>1, <1>2, <1>3

LEMMA UnapplierStays ==
    ASSUME TypeOK, NEW u \in Unappliers, UnapplierOK(u), proc'[u] = proc[u],
           \A j \in Jobs : Fades(j)
    PROVE  UnapplierOK(u)'
  <1>1. LiveJobs' \subseteq LiveJobs
    BY DEF LiveJobs, Fades
  <1>2. \A j : Seen(u, j) => Seen(u, j)'
    BY DEF Seen
  <1> QED
    BY <1>1, <1>2 DEF UnapplierOK

(* One process moves: what is to be shown of it, and of the directories.   *)
LEMMA MoverStep ==
    ASSUME TypeOK, Unissued, LInv, \A j \in Jobs : Fades(j), issued \subseteq issued',
           NEW p \in Processes, Moves(p),
           p \in Servers =>
              /\ proc'[p].job = proc[p].job \/ proc'[p].job \notin issued
              /\ \A j \in Jobs : Reserving(p, j)' => Reserving(p, j) \/ registry'[j].dir
              /\ ServerOK(p)',
           p \in Unappliers => UnapplierOK(p)',
           proc'[p].entry \in {None, proc[p].entry} \/ EntryOK(p)',
           \A j \in Jobs : registry[j].dir /\ ~registry'[j].dir => ~Needed(j) \/ ~Needed(j)'
    PROVE  Registered' /\ ProcsOK'
  <1>s. Servers \cup Unappliers \subseteq Processes
    BY DEF Processes
  <1>j. \A s \in Servers : proc'[s].job = proc[s].job \/ proc'[s].job \notin issued
    BY <1>s DEF Moves
  <1>1. ASSUME NEW q \in Processes
        PROVE  EntryOK(q)'
    <2>1. CASE proc'[q].entry = proc[q].entry
      BY <1>j, <2>1, EntryStays DEF LInv, ProcsOK
    <2>2. CASE proc'[q].entry # proc[q].entry
      BY <2>2 DEF Moves, EntryOK
    <2> QED
      BY <2>1, <2>2
  <1>2. ASSUME NEW s \in Servers
        PROVE  ServerOK(s)'
    BY <1>s, ServerStays DEF LInv, ProcsOK, Moves
  <1>3. ASSUME NEW u \in Unappliers
        PROVE  UnapplierOK(u)'
    BY <1>s, UnapplierStays DEF LInv, ProcsOK, Moves
  <1>4. ASSUME NEW j \in Jobs, Needed(j)'
        PROVE  registry'[j].dir
    <2>1. Needed(j) \/ registry'[j].dir
      <3>1. CASE host'[j] \in Up
        BY <3>1 DEF Needed, Fades
      <3>2. CASE host'[j] \notin Up
        <4>1. PICK s \in Servers : Reserving(s, j)'
          BY <1>4, <3>2 DEF Needed
        <4>2. s # p => Reserving(s, j)
          BY <1>s, <4>1 DEF Moves, Reserving
        <4> QED
          BY <4>1, <4>2 DEF Needed
      <3> QED
        BY <3>1, <3>2
    <2>2. Needed(j) => registry[j].dir
      BY DEF LInv, Registered, Needed
    <2> QED
      BY <1>4, <2>1, <2>2
  <1> QED
    BY <1>1, <1>2, <1>3, <1>4 DEF ProcsOK, Registered, Needed

(* No process moves.                                                       *)
LEMMA NobodyMoves ==
    ASSUME TypeOK, Unissued, LInv, \A j \in Jobs : Fades(j), issued' = issued, proc' = proc,
           \A j \in Jobs : registry[j].dir => registry'[j].dir
    PROVE  Registered' /\ ProcsOK'
  <1>s. Servers \cup Unappliers \subseteq Processes
    BY DEF Processes
  <1>1. ProcsOK'
    BY <1>s, EntryStays, ServerStays, UnapplierStays DEF LInv, ProcsOK
  <1>2. Registered'
    BY DEF LInv, Registered, Reserving, Fades
  <1> QED
    BY <1>1, <1>2
-----------------------------------------------------------------------------
(* What the four steps of a scan do to the call they belong to.            *)
LEMMA ReadFields ==
    ASSUME TypeOK, NEW p \in Processes, ScanRead(p)
    PROVE  \E j \in proc[p].todo, old \in BOOLEAN :
              /\ old => registry[j].dir /\ ~registry[j].meta /\ MayLookAbandoned(j)
              /\ proc'[p].todo = proc[p].todo \ {j}
              /\ proc'[p].entry = IF registry[j].dir THEN EntryOf(j, old) ELSE None
              /\ proc'[p].found = proc[p].found /\ proc'[p].pending = proc[p].pending
  <1>1. PICK j \in proc[p].todo, old \in BOOLEAN :
           /\ old => registry[j].dir /\ ~registry[j].meta /\ MayLookAbandoned(j)
           /\ Step(p, [proc[p] EXCEPT
                          !.todo = @ \ {j},
                          !.entry = IF registry[j].dir THEN EntryOf(j, old) ELSE None])
    BY DEF ScanRead
  <1> DEFINE t == proc[p].todo \ {j}
             e == IF registry[j].dir THEN EntryOf(j, old) ELSE None
  <1>2. proc'[p] = [proc[p] EXCEPT !.todo = t, !.entry = e]
    BY <1>1, StepMoves
  <1>3. proc[p] \in Calls
    BY DEF TypeOK
  <1> HIDE DEF t, e
  <1>4. /\ proc'[p].todo = t /\ proc'[p].entry = e
        /\ proc'[p].found = proc[p].found /\ proc'[p].pending = proc[p].pending
    BY <1>2, <1>3 DEF Calls
  <1> QED
    BY <1>1, <1>4 DEF t, e

LEMMA LookFields ==
    ASSUME TypeOK, NEW p \in Processes,
           ScanRemovesStale(p) \/ ScanCountsPending(p) \/ ScanResolves(p)
    PROVE  /\ proc'[p].todo = proc[p].todo /\ proc'[p].entry = None
           /\ ScanRemovesStale(p) => /\ proc'[p].found = proc[p].found
                                     /\ proc'[p].pending = proc[p].pending
           /\ ScanCountsPending(p) =>
                 /\ proc'[p].found = proc[p].found
                 /\ proc'[p].pending = proc[p].pending \cup {proc[p].entry.job}
           /\ ScanResolves(p) =>
                 /\ proc'[p].pending = proc[p].pending
                 /\ proc'[p].found =
                       IF Status(proc[p].entry) \in Wanted(proc[p].pc)
                       THEN proc[p].found \cup {proc[p].entry.job} ELSE proc[p].found
  <1>0. proc[p] \in Calls
    BY DEF TypeOK
  <1>1. CASE ScanRemovesStale(p)
    <2>1. proc'[p] = [proc[p] EXCEPT !.entry = None]
      BY <1>1, StepMoves DEF ScanRemovesStale
    <2> QED
      BY <1>0, <1>1, <2>1 DEF Calls, ScanRemovesStale, ScanCountsPending, ScanResolves
  <1>2. CASE ScanCountsPending(p)
    <2> DEFINE S == proc[p].pending \cup {proc[p].entry.job}
    <2>1. proc'[p] = [proc[p] EXCEPT !.entry = None, !.pending = S]
      BY <1>2, StepMoves DEF ScanCountsPending
    <2> HIDE DEF S
    <2>2. /\ proc'[p].todo = proc[p].todo /\ proc'[p].entry = None
          /\ proc'[p].found = proc[p].found /\ proc'[p].pending = S
      BY <1>0, <2>1 DEF Calls
    <2>3. ~ScanRemovesStale(p) /\ ~ScanResolves(p)
      BY <1>2 DEF ScanRemovesStale, ScanCountsPending, ScanResolves
    <2> QED
      BY <2>2, <2>3 DEF S
  <1>3. CASE ScanResolves(p)
    <2> DEFINE S == IF Status(proc[p].entry) \in Wanted(proc[p].pc)
                    THEN proc[p].found \cup {proc[p].entry.job} ELSE proc[p].found
    <2>1. proc'[p] = [proc[p] EXCEPT !.entry = None, !.found = S]
      BY <1>3, StepMoves DEF ScanResolves
    <2> HIDE DEF S
    <2>2. /\ proc'[p].todo = proc[p].todo /\ proc'[p].entry = None
          /\ proc'[p].pending = proc[p].pending /\ proc'[p].found = S
      BY <1>0, <2>1 DEF Calls
    <2>3. ~ScanRemovesStale(p) /\ ~ScanCountsPending(p)
      BY <1>3 DEF ScanRemovesStale, ScanCountsPending, ScanResolves
    <2> QED
      BY <2>2, <2>3 DEF S
  <1> QED
    BY <1>1, <1>2, <1>3

(* A scan passes over no job that must be counted.                         *)
LEMMA ScanSees ==
    ASSUME IInv, LInv, NEW p \in Processes, Scan(p), NEW j \in Jobs,
           \/ Live(j)
           \/ p \in Servers /\ proc[p].pc = "countScan" /\ j = proc[p].job,
           proc[p].pc # "reapScan", Seen(p, j)
    PROVE  Seen(p, j)'
  <1>0. /\ TypeOK /\ Lifecycle(j) /\ Launchable /\ Failures /\ Registered /\ EntryOK(p)
        /\ Lifecycles /\ proc[p].entry \in Entries \cup {None}
    BY DEF IInv, Lifecycles, LInv, ProcsOK, TypeOK, Calls
  <1>1. registry[j].dir
    <2>1. CASE Live(j)
      BY <1>0, <2>1, LiveIsUp DEF Registered
    <2>2. CASE p \in Servers /\ proc[p].pc = "countScan" /\ j = proc[p].job
      BY <1>0, <2>2 DEF Registered, Reserving
    <2> QED
      BY <2>1, <2>2
  <1>2. CASE ScanRead(p)
    <2>1. PICK k \in proc[p].todo, old \in BOOLEAN :
             /\ proc'[p].todo = proc[p].todo \ {k}
             /\ proc'[p].entry = IF registry[k].dir THEN EntryOf(k, old) ELSE None
             /\ proc'[p].found = proc[p].found /\ proc'[p].pending = proc[p].pending
      BY <1>0, <1>2, ReadFields
    <2>2. proc[p].entry = None
      BY <1>2 DEF ScanRead
    <2>3. CASE j = k
      <3>1. proc'[p].entry = EntryOf(j, old) /\ EntryOf(j, old) \in Entries
        BY <1>0, <1>1, <2>1, <2>3, EntryType
      <3>2. EntryOf(j, old) # None /\ EntryOf(j, old).job = j
        BY <3>1, NoneIsNoEntry DEF EntryOf
      <3> QED
        BY <3>1, <3>2 DEF Seen
    <2>4. CASE j # k
      BY <2>1, <2>2, <2>4 DEF Seen
    <2> QED
      BY <2>3, <2>4
  <1>3. CASE ScanRemovesStale(p) \/ ScanCountsPending(p) \/ ScanResolves(p)
    <2>1. \/ j \in proc[p].todo \cup proc[p].found \cup proc[p].pending
          \/ proc[p].entry # None /\ proc[p].entry.job = j
      BY DEF Seen
    <2>2. CASE j \in proc[p].todo \cup proc[p].found \cup proc[p].pending
      BY <1>0, <1>3, <2>2, LookFields DEF Seen
    <2>3. CASE proc[p].entry # None /\ proc[p].entry.job = j
      <3>1. CASE ScanRemovesStale(p)
        <4>1. ~Alive(j) /\ \A s \in Servers : proc[s].job # j
          BY <1>0, <2>3, <3>1 DEF ScanRemovesStale, EntryOK
        <4> QED
          BY <4>1 DEF Live, Alive
      <3>2. CASE ScanCountsPending(p)
        BY <1>0, <2>3, <3>2, LookFields DEF Seen
      <3>3. CASE ScanResolves(p)
        <4>1. host[j] \notin Early
          BY <1>0, <2>3, <3>3 DEF ScanResolves, EntryOK
        <4>2. Live(j)
          BY <1>0, <4>1 DEF Launchable, Early
        <4>3. host[j] \notin Past
          BY <1>0, <4>2 DEF Live, Alive, Past, Lifecycle
        <4>4. proc[p].entry.exit = "none"
          BY <1>0, <2>3, <4>3 DEF EntryOK
        <4>5. Status(proc[p].entry) = "running"
          BY <1>1, <2>3, <4>2, <4>4 DEF Status, Live, Alive
        <4>6. "running" \in Wanted(proc[p].pc)
          BY DEF Wanted
        <4> QED
          BY <1>0, <2>3, <3>3, <4>5, <4>6, LookFields DEF Seen
      <3> QED
        BY <1>3, <3>1, <3>2, <3>3
    <2> QED
      BY <2>1, <2>2, <2>3
  <1> QED
    BY <1>2, <1>3 DEF Scan

LEMMA ReadEntry ==
    ASSUME IInv, TypeOK', Timely, \A j \in Jobs : Fades(j), issued \subseteq issued',
           \A s \in Servers : proc'[s].job = proc[s].job,
           NEW p \in Processes, NEW j \in Jobs, NEW old \in BOOLEAN,
           registry[j].dir, old => ~registry[j].meta /\ MayLookAbandoned(j),
           proc'[p].entry = EntryOf(j, old)
    PROVE  EntryOK(p)'
  <1>1. /\ EntryOf(j, old).job = j /\ EntryOf(j, old).meta = registry[j].meta
        /\ EntryOf(j, old).exit = registry[j].exit /\ EntryOf(j, old).old = old
    BY DEF EntryOf
  <1>2. Lifecycle(j) /\ j \in issued /\ Fades(j)
    BY DEF IInv, Lifecycles, Unissued
  <1>3. old => ~Alive(j) /\ \A s \in Servers : proc[s].job # j
    BY DEF MayLookAbandoned
  <1>4. registry[j].meta => host'[j] \notin Early
    BY <1>2 DEF Lifecycle, Fades
  <1>5. registry[j].exit # "none" => host'[j] \in Past
    BY <1>2 DEF Lifecycle, Past, Fades
  <1>6. old => ~Alive(j)' /\ \A s \in Servers : proc'[s].job # j
    BY <1>2, <1>3 DEF Fades
  <1> QED
    BY <1>1, <1>2, <1>4, <1>5, <1>6 DEF EntryOK

(* Eviction and deletion of old reservations find only what they may.      *)
LEMMA ScanFinds ==
    ASSUME IInv, LInv, \A j \in Jobs : Fades(j), issued' = issued,
           NEW s \in Servers, Scan(s)
    PROVE  ServerOK(s)'
  <1>s. s \in Processes
    BY DEF Processes
  <1>0. /\ TypeOK /\ TypeOK' /\ Lifecycles /\ EntryOK(s) /\ ServerOK(s)
        /\ proc[s] \in Calls /\ proc[s].entry \in Entries \cup {None}
    <2>1. TypeOK'
      BY <1>s, ScanType DEF IInv
    <2> QED
      BY <1>s, <2>1 DEF IInv, LInv, ProcsOK, TypeOK, Calls
  <1>m. /\ proc'[s].pc = proc[s].pc /\ proc'[s].job = proc[s].job
        /\ proc[s].pc \in ScanPCs
    BY <1>0, <1>s, ScanMoves
  <1>1. /\ proc'[s].found = proc[s].found
           \/ /\ ScanResolves(s) /\ Status(proc[s].entry) \in Wanted(proc[s].pc)
              /\ proc'[s].found = proc[s].found \cup {proc[s].entry.job}
        /\ proc'[s].pending = proc[s].pending
           \/ /\ proc[s].entry # None
              /\ proc'[s].pending = proc[s].pending \cup {proc[s].entry.job}
    <2>1. CASE ScanRead(s)
      BY <1>0, <1>s, <2>1, ReadFields
    <2>2. CASE ScanRemovesStale(s)
      BY <1>0, <1>s, <2>2, LookFields
    <2>3. CASE ScanCountsPending(s)
      BY <1>0, <1>s, <2>3, LookFields DEF ScanCountsPending
    <2>4. CASE ScanResolves(s)
      BY <1>0, <1>s, <2>4, LookFields
    <2> QED
      BY <2>1, <2>2, <2>3, <2>4 DEF Scan
  <1>2. CASE proc[s].pc = "reapScan"
    <2>1. ASSUME ScanResolves(s), Status(proc[s].entry) \in Wanted(proc[s].pc)
          PROVE  host[proc[s].entry.job] \in Past
      <3> DEFINE e == proc[s].entry
      <3>1. e \in Entries /\ e.job \in Jobs /\ e.exit \in ExitRecords
            /\ host[e.job] \notin Early
        BY <1>0, <2>1 DEF ScanResolves, EntryOK, Entries
      <3>2. Status(e) \in Ended
        BY <1>2, <2>1 DEF Wanted
      <3>3. CASE e.exit # "none"
        BY <1>0, <2>1, <3>3 DEF ScanResolves, EntryOK
      <3>4. CASE e.exit = "none"
        <4>1. ~Alive(e.job)
          BY <3>2, <3>4 DEF Status, Ended
        <4> QED
          BY <3>1, <4>1 DEF Alive, Early, Past
      <3> QED
        BY <3>3, <3>4
    <2>2. \A j \in proc[s].found : j \in Jobs /\ host[j] \in Past
      BY <1>0, <1>2 DEF ServerOK, Calls
    <2>3. ASSUME NEW j \in proc'[s].found
          PROVE  host'[j] \in Past
      <3>1. j \in Jobs
        BY <1>s, <1>0 DEF TypeOK, Calls
      <3>2. host[j] \in Past
        BY <1>1, <2>1, <2>2
      <3> QED
        BY <3>1, <3>2 DEF Fades
    <2> QED
      BY <1>2, <1>m, <2>3 DEF ServerOK
  <1>3. CASE proc[s].pc = "countScan"
    <2>1. proc[s].entry # None => proc[s].entry.job \in issued
      BY <1>0 DEF EntryOK
    <2>2. proc'[s].found \cup proc'[s].pending \subseteq issued'
      <3>1. proc[s].found \cup proc[s].pending \subseteq issued
        BY <1>0, <1>3 DEF ServerOK
      <3>2. ScanResolves(s) => proc[s].entry # None
        BY DEF ScanResolves
      <3>3. proc'[s].found \subseteq issued
        BY <1>1, <2>1, <3>1, <3>2
      <3>4. proc'[s].pending \subseteq issued
        BY <1>1, <2>1, <3>1
      <3> QED
        BY <3>3, <3>4
    <2>3. ASSUME NEW j \in Jobs, Live(j)' \/ j = proc'[s].job
          PROVE  Seen(s, j)'
      <3>1. Live(j) \/ j = proc[s].job
        BY <1>m, <2>3 DEF Fades
      <3>2. Seen(s, j)
        BY <1>0, <1>3, <3>1 DEF ServerOK
      <3> QED
        BY <1>s, <1>3, <3>1, <3>2, ScanSees
    <2>4. proc'[s].job \in issued'
      BY <1>0, <1>3, <1>m DEF ServerOK
    <2> QED
      BY <1>3, <1>m, <2>2, <2>3, <2>4 DEF ServerOK
  <1>4. CASE proc[s].pc \in {"listScan", "sweepScan"}
    BY <1>4, <1>m DEF ServerOK
  <1> QED
    BY <1>m, <1>2, <1>3, <1>4 DEF ScanPCs

LEMMA ScanKeepsLimit ==
    ASSUME IInv, LInv, Timely, NEW p \in Processes, Scan(p)
    PROVE  Registered' /\ ProcsOK'
  <1>0. TypeOK /\ TypeOK' /\ Unissued
    BY ScanType DEF IInv
  <1>1. (\A j \in Jobs : Fades(j)) /\ issued' = issued
    BY <1>0, ScanQuiet, QuietFades
  <1>m. /\ Moves(p) /\ proc'[p].pc = proc[p].pc /\ proc'[p].job = proc[p].job
        /\ proc[p].pc \in ScanPCs
    BY <1>0, ScanMoves
  <1>2. \A s \in Servers : proc'[s].job = proc[s].job
    BY <1>m DEF Moves, Processes
  <1>3. proc'[p].entry \in {None, proc[p].entry} \/ EntryOK(p)'
    <2>1. CASE ScanRead(p)
      <3>1. PICK j \in proc[p].todo, old \in BOOLEAN :
               /\ old => registry[j].dir /\ ~registry[j].meta /\ MayLookAbandoned(j)
               /\ proc'[p].entry = IF registry[j].dir THEN EntryOf(j, old) ELSE None
        BY <1>0, <2>1, ReadFields
      <3>2. j \in Jobs
        BY <1>0 DEF TypeOK, Calls
      <3>3. CASE registry[j].dir
        <4>1. EntryOK(p)'
          BY <1>0, <1>1, <1>2, <3>1, <3>2, <3>3, ReadEntry
        <4> QED
          BY <4>1
      <3>4. CASE ~registry[j].dir
        BY <3>1, <3>4
      <3> QED
        BY <3>3, <3>4
    <2>2. CASE ~ScanRead(p)
      BY <1>0, <2>2, LookFields DEF Scan
    <2> QED
      BY <2>1, <2>2
  <1>4. p \in Servers => ServerOK(p)'
    BY <1>1, ScanFinds
  <1>5. ASSUME p \in Unappliers
        PROVE  UnapplierOK(p)'
    <2>1. ASSUME proc[p].pc = "sweepScan", NEW j \in LiveJobs'
          PROVE  Seen(p, j)'
      <3>1. j \in Jobs /\ Live(j)
        BY <1>1, <2>1 DEF LiveJobs, Fades
      <3>2. Seen(p, j)
        BY <1>5, <2>1, <3>1 DEF LInv, ProcsOK, UnapplierOK, LiveJobs
      <3> QED
        BY <2>1, <3>1, <3>2, ScanSees
    <2> QED
      BY <1>m, <2>1 DEF UnapplierOK, ScanPCs
  <1>6. \A j \in Jobs : registry[j].dir /\ ~registry'[j].dir => ~Needed(j)
    <2>1. CASE ScanRemovesStale(p)
      <3> DEFINE k == proc[p].entry.job
      <3>1. ~Alive(k) /\ \A s \in Servers : proc[s].job # k
        BY <2>1 DEF ScanRemovesStale, LInv, ProcsOK, EntryOK
      <3>2. ~Needed(k)
        BY <3>1 DEF Needed, Reserving, Alive, Up
      <3> HIDE DEF k
      <3>3. Remove(k)
        BY <2>1 DEF ScanRemovesStale, k
      <3>4. \A j \in Jobs : j # k => registry'[j] = registry[j]
        BY <1>0, <3>3 DEF Remove, TypeOK
      <3> QED
        BY <3>2, <3>4
    <2>2. CASE ~ScanRemovesStale(p)
      <3>1. registry' = registry
        BY <2>2 DEF Scan, ScanRead, ScanCountsPending, ScanResolves
      <3> QED
        BY <3>1
    <2> QED
      BY <2>1, <2>2
  <1>7. p \in Servers => \A j \in Jobs : Reserving(p, j)' => Reserving(p, j)
    BY <1>m DEF Reserving
  <1> QED
    BY <1>0, <1>1, <1>m, <1>3, <1>4, <1>5, <1>6, <1>7, MoverStep

(* Only one server is inside start or reap_history.                        *)
LEMMA OnlyOne ==
    ASSUME Locking, NEW s \in Servers, InCall(s), NEW r \in Servers, InCall(r)
    PROVE  r = s
  BY DEF Locking, Lockers

(* Running and pending jobs are counted apart, so no fewer than there are. *)
LEMMA CountsAll ==
    ASSUME IsFiniteSet(issued), NEW F, NEW P, F \subseteq issued, P \subseteq issued,
           Cardinality(F) + Cardinality(P) <= MaxRunning,
           NEW S, S \subseteq F \cup P
    PROVE  Cardinality(S) <= MaxRunning
  <1>1. IsFiniteSet(F) /\ IsFiniteSet(P)
    BY FS_Subset
  <1>2. /\ IsFiniteSet(F \cup P) /\ IsFiniteSet(F \cap P)
        /\ Cardinality(F \cup P) = Cardinality(F) + Cardinality(P) - Cardinality(F \cap P)
    BY <1>1, FS_Union, FS_Intersection
  <1>3. IsFiniteSet(S) /\ Cardinality(S) <= Cardinality(F \cup P)
    BY <1>2, FS_Subset
  <1> DEFINE u == Cardinality(F \cup P)
             f == Cardinality(F)
             q == Cardinality(P)
             i == Cardinality(F \cap P)
             c == Cardinality(S)
  <1>4. u \in Nat /\ f \in Nat /\ q \in Nat /\ i \in Nat /\ c \in Nat
    BY <1>1, <1>2, <1>3, FS_CardinalityType
  <1>5. u = f + q - i /\ c <= u /\ f + q <= MaxRunning
    BY <1>2, <1>3
  <1> HIDE DEF u, f, q, i, c
  <1>6. c <= MaxRunning
    BY <1>4, <1>5
  <1> QED
    BY <1>6 DEF c

LEMMA GotoFields ==
    ASSUME TypeOK, NEW p \in Processes, NEW pc, Goto(p, pc)
    PROVE  /\ proc'[p].found = proc[p].found /\ proc'[p].pending = proc[p].pending
           /\ proc'[p].todo = proc[p].todo
  <1>1. proc'[p] = [proc[p] EXCEPT !.pc = pc]
    BY StepMoves DEF Goto
  <1>2. proc[p] \in Calls
    BY DEF TypeOK
  <1> QED
    BY <1>1, <1>2 DEF Calls

LEMMA StartScanFields ==
    ASSUME TypeOK, NEW p \in Processes, NEW pc, StartScan(p, pc)
    PROVE  proc'[p].todo = Jobs /\ proc'[p].found = {} /\ proc'[p].pending = {}
  <1>1. proc'[p] = [proc[p] EXCEPT !.pc = pc, !.todo = Jobs, !.found = {}, !.pending = {}]
    BY StepMoves DEF StartScan
  <1>2. proc[p] \in Calls
    BY DEF TypeOK
  <1> QED
    BY <1>1, <1>2 DEF Calls

(* A server's step: its call is as it should be afterwards.                *)
StepOK(s) ==
    /\ proc'[s].job = proc[s].job \/ proc'[s].job \notin issued
    /\ proc'[s].entry \in {None, proc[s].entry}
    /\ \A j \in Jobs : Reserving(s, j)' => Reserving(s, j) \/ registry'[j].dir
    /\ ServerOK(s)'

LEMMA ReturnOK ==
    ASSUME TypeOK, NEW s \in Servers, Step(s, Resting("idle")) \/ Step(s, Resting("down"))
    PROVE  StepOK(s)
  <1>1. s \in Processes
    BY DEF Processes
  <1>2. proc'[s] = Resting("idle") \/ proc'[s] = Resting("down")
    BY <1>1, StepMoves
  <1>3. /\ proc'[s].pc \in {"idle", "down"} /\ proc'[s].job = None
        /\ proc'[s].entry = None
    BY <1>2 DEF Resting
  <1>4. None \notin issued
    BY DEF TypeOK
  <1> QED
    BY <1>3, <1>4 DEF StepOK, ServerOK, Reserving

LEMMA StartingOK ==
    ASSUME IInv, LInv, Timely, NEW s \in Servers, Starting(s), ~Launch(s),
           \A j \in Jobs : Fades(j), issued \subseteq issued'
    PROVE  StepOK(s)
  <1>s. s \in Processes
    BY DEF Processes
  <1>0. /\ TypeOK /\ Launchable /\ Failures /\ ServerOK(s) /\ EntryOK(s)
        /\ IsFiniteSet(issued) /\ proc[s] \in Calls /\ issued \subseteq Jobs
    BY <1>s DEF IInv, LInv, ProcsOK, TypeOK
  <1>r. ASSUME Return(s)
        PROVE  StepOK(s)
    BY <1>0, <1>r, ReturnOK DEF Return
  <1>g. ASSUME NEW pc \in {"abort", "abortWait", "failed", "remove"}, Goto(s, pc),
               proc[s].job \in issued, ~Alive(proc[s].job)
        PROVE  StepOK(s)
    <2>1. /\ proc'[s].pc = pc /\ proc'[s].job = proc[s].job
          /\ proc'[s].entry = proc[s].entry
      BY <1>0, <1>s, <1>g, GotoMoves
    <2>2. \A j \in Jobs : ~Alive(j) => ~Alive(j)'
      BY DEF Fades
    <2>3. proc[s].job \in Jobs /\ proc[s].job \in issued'
      BY <1>0, <1>g
    <2>4. ServerOK(s)'
      BY <1>g, <2>1, <2>2, <2>3 DEF ServerOK
    <2> QED
      BY <2>1, <2>4 DEF StepOK, Reserving
  <1>p. ASSUME Reaped(s)
        PROVE  StepOK(s)
    <2>1. CASE proc[s].goal = "start"
      <3>1. Step(s, [proc[s] EXCEPT !.pc = "reserve", !.found = {}, !.pending = {}])
        BY <1>p, <2>1 DEF Reaped
      <3>2. proc'[s] = [proc[s] EXCEPT !.pc = "reserve", !.found = {}, !.pending = {}]
        BY <1>0, <1>s, <3>1, StepMoves
      <3>3. /\ proc'[s].pc = "reserve" /\ proc'[s].job = proc[s].job
            /\ proc'[s].entry = proc[s].entry
            /\ proc'[s].found = {} /\ proc'[s].pending = {}
        BY <1>0, <3>2 DEF Calls
      <3> QED
        BY <3>3 DEF StepOK, ServerOK, Reserving
    <2>2. CASE proc[s].goal # "start"
      BY <1>p, <1>r, <2>2 DEF Reaped
    <2> QED
      BY <2>1, <2>2
  <1>1. CASE WithinStorageLimit(s) \/ EvictionDone(s)
    BY <1>1, <1>p DEF WithinStorageLimit, EvictionDone
  <1>2. CASE OverStorageLimit(s)
    <2>1. StartScan(s, "reapScan")
      BY <1>2 DEF OverStorageLimit
    <2>2. /\ proc'[s].pc = "reapScan" /\ proc'[s].job = proc[s].job
          /\ proc'[s].entry = proc[s].entry /\ proc'[s].found = {}
      BY <1>0, <1>s, <2>1, StartScanMoves, StartScanFields
    <2> QED
      BY <2>2 DEF StepOK, ServerOK, Reserving
  <1>3. CASE ReapScanned(s)
    <2>1. Goto(s, "evict") /\ proc[s].pc = "reapScan"
      BY <1>3 DEF ReapScanned, Scanned, At
    <2>2. /\ proc'[s].pc = "evict" /\ proc'[s].job = proc[s].job
          /\ proc'[s].entry = proc[s].entry /\ proc'[s].found = proc[s].found
      BY <1>0, <1>s, <2>1, GotoMoves, GotoFields
    <2>3. \A j \in proc[s].found : j \in Jobs /\ host[j] \in Past
      BY <1>0, <2>1 DEF ServerOK, Calls
    <2> QED
      BY <2>2, <2>3 DEF StepOK, ServerOK, Reserving, Fades
  <1>4. CASE Evict(s)
    <2>1. PICK j \in proc[s].found : Step(s, [proc[s] EXCEPT !.found = @ \ {j}])
      BY <1>4 DEF Evict
    <2>2. proc'[s] = [proc[s] EXCEPT !.found = @ \ {j}]
      BY <1>0, <1>s, <2>1, StepMoves
    <2>3. /\ proc'[s].pc = "evict" /\ proc'[s].job = proc[s].job
          /\ proc'[s].entry = proc[s].entry /\ proc'[s].found \subseteq proc[s].found
      BY <1>0, <1>4, <2>2 DEF Calls, Evict, At
    <2>4. \A k \in proc[s].found : k \in Jobs /\ host[k] \in Past
      BY <1>0, <1>4 DEF ServerOK, Calls, Evict, At
    <2> QED
      BY <2>3, <2>4 DEF StepOK, ServerOK, Reserving, Fades
  <1>5. CASE Reserve(s)
    <2>1. PICK j \in Jobs \ issued :
             /\ registry' = [registry EXCEPT ![j] = Reservation]
             /\ issued' = issued \cup {j}
             /\ Step(s, [proc[s] EXCEPT !.pc = "countScan", !.job = j, !.todo = Jobs])
      BY <1>5 DEF Reserve
    <2>2. proc'[s] = [proc[s] EXCEPT !.pc = "countScan", !.job = j, !.todo = Jobs]
      BY <1>0, <1>s, <2>1, StepMoves
    <2>3. /\ proc'[s].pc = "countScan" /\ proc'[s].job = j /\ proc'[s].todo = Jobs
          /\ proc'[s].entry = proc[s].entry
          /\ proc'[s].found = proc[s].found /\ proc'[s].pending = proc[s].pending
      BY <1>0, <2>2 DEF Calls
    <2>4. proc[s].found \cup proc[s].pending \subseteq issued
      BY <1>0, <1>5 DEF ServerOK, Reserve, At
    <2>5. registry'[j].dir
      BY <1>0, <2>1 DEF TypeOK, Reservation, NoDirectory
    <2>6. ServerOK(s)'
      BY <2>1, <2>3, <2>4 DEF ServerOK, Seen
    <2> QED
      BY <2>1, <2>3, <2>5, <2>6 DEF StepOK, Reserving
  <1>6. CASE TooManyRunning(s) \/ AwaitReady(s) \/ RemoveReserved(s)
    BY <1>6, <1>r DEF TooManyRunning, AwaitReady, RemoveReserved
  <1>7. CASE WithinRunningLimit(s)
    <2>1. /\ Step(s, [proc[s] EXCEPT !.pc = "launch", !.found = {}, !.pending = {}])
          /\ proc[s].pc = "countScan" /\ proc[s].todo = {} /\ proc[s].entry = None
          /\ Cardinality(proc[s].found) + Cardinality(proc[s].pending) <= MaxRunning
          /\ registry' = registry
      BY <1>7 DEF WithinRunningLimit, Scanned, At, Active
    <2>2. proc'[s] = [proc[s] EXCEPT !.pc = "launch", !.found = {}, !.pending = {}]
      BY <1>0, <1>s, <2>1, StepMoves
    <2>3. /\ proc'[s].pc = "launch" /\ proc'[s].job = proc[s].job
          /\ proc'[s].entry = proc[s].entry
      BY <1>0, <2>2 DEF Calls
    <2> DEFINE F == proc[s].found
               P == proc[s].pending
               S == LiveJobs' \cup {proc[s].job}
    <2>4. proc[s].job \in issued
      BY <1>0, <2>1 DEF ServerOK
    <2>5. F \subseteq issued /\ P \subseteq issued
      <3>1. F \cup P \subseteq issued
        BY <1>0, <2>1 DEF ServerOK
      <3> QED
        BY <3>1
    <2>6. S \subseteq F \cup P
      <3>1. ASSUME NEW j \in S
            PROVE  j \in F \cup P
        <4>1. j \in Jobs
          BY <1>0, <2>4 DEF LiveJobs
        <4>2. Live(j) \/ j = proc[s].job
          BY <4>1 DEF LiveJobs, Fades
        <4>3. Seen(s, j)
          BY <1>0, <2>1, <4>1, <4>2 DEF ServerOK
        <4> QED
          BY <2>1, <4>3 DEF Seen
      <3> QED
        BY <3>1
    <2>7. Cardinality(F) + Cardinality(P) <= MaxRunning
      BY <2>1
    <2> HIDE DEF F, P, S
    <2>8. Cardinality(S) <= MaxRunning
      BY <1>0, <2>5, <2>6, <2>7, CountsAll
    <2>9. ServerOK(s)'
      BY <2>3, <2>4, <2>8 DEF ServerOK, S
    <2>10. \A j \in Jobs : Reserving(s, j)' => Reserving(s, j)
      BY <2>1, <2>3 DEF Reserving
    <2> QED
      BY <2>3, <2>9, <2>10 DEF StepOK
  <1>8. CASE LaunchFails(s)
    BY <1>8, <1>0, <1>g DEF LaunchFails, At, Launchable, Alive
  <1>9. CASE AwaitError(s)
    <2>1. proc[s].job \in issued /\ ready[proc[s].job] = "error"
      BY <1>0, <1>9 DEF AwaitError, At, ServerOK
    <2> QED
      BY <1>9, <1>0, <1>g, <2>1 DEF AwaitError, Failures, Alive
  <1>10. CASE LaunchAborts(s)
    BY <1>10, <1>0, <1>g DEF LaunchAborts, At, ServerOK
  <1>11. CASE AbortFailedLaunch(s)
    <2>1. proc[s].job \in issued /\ ~Alive(proc[s].job)
      BY <1>0, <1>11 DEF AbortFailedLaunch, At, ServerOK
    <2>2. \E pc \in {"abortWait", "failed"} : Goto(s, pc)
      BY <1>11 DEF AbortFailedLaunch
    <2> QED
      BY <1>g, <2>1, <2>2
  <1>12. CASE AbortWaitEnds(s)
    BY <1>12, <1>0, <1>g DEF AbortWaitEnds, At, ServerOK
  <1>13. CASE Recheck(s)
    BY <1>13, <1>0, <1>g, <1>r DEF Recheck, At, ServerOK
  <1> QED
    BY <1>1, <1>2, <1>3, <1>4, <1>5, <1>6, <1>7, <1>8, <1>9, <1>10, <1>11, <1>12, <1>13
       DEF Starting

(* What starts and cleanups remove is neither coming up nor reserved.      *)
LEMMA StartingRemoves ==
    ASSUME IInv, LInv, NEW s \in Servers, Starting(s), \A j \in Jobs : Fades(j),
           NEW j \in Jobs, registry[j].dir, ~registry'[j].dir
    PROVE  ~Needed(j) \/ ~Needed(j)'
  <1>s. s \in Processes
    BY DEF Processes
  <1>0. /\ TypeOK /\ Launchable /\ Locking /\ ServerOK(s)
        /\ proc[s] \in Calls
    BY <1>s DEF IInv, LInv, ProcsOK, TypeOK
  <1>k. ASSUME NEW k, Remove(k)
        PROVE  j = k
    BY <1>0, <1>k DEF Remove, TypeOK
  <1>o. ASSUME InCall(s), NEW r \in Servers, Reserving(r, j)
        PROVE  r = s
    BY <1>0, <1>o, OnlyOne DEF Reserving, InCall
  <1>1. CASE Evict(s)
    <2>1. PICK k \in proc[s].found : Remove(k)
      BY <1>1 DEF Evict
    <2>2. j \in proc[s].found
      BY <1>k, <2>1
    <2>3. host[j] \in Past
      BY <1>0, <1>1, <2>2 DEF Evict, At, ServerOK
    <2>4. \A r \in Servers : ~Reserving(r, j)
      BY <1>0, <2>3 DEF Launchable, Reserving, Past
    <2> QED
      BY <2>3, <2>4 DEF Needed, Past, Up
  <1>2. CASE TooManyRunning(s)
    <2>1. Remove(proc[s].job) /\ Return(s) /\ host' = host /\ proc[s].pc = "countScan"
      BY <1>2 DEF TooManyRunning, supervision, Scanned, At
    <2>2. j = proc[s].job /\ host[j] = "none"
      BY <1>0, <1>k, <2>1 DEF Launchable
    <2>3. Moves(s) /\ proc'[s].pc = "idle"
      BY <1>0, <1>s, <2>1, StepMoves DEF Return, Resting
    <2>4. ASSUME NEW r \in Servers, Reserving(r, j)'
          PROVE  FALSE
      <3>1. r # s
        BY <2>3, <2>4 DEF Reserving
      <3>2. Reserving(r, j)
        BY <2>3, <2>4, <3>1 DEF Reserving, Moves, Processes
      <3> QED
        BY <1>o, <2>1, <3>1, <3>2 DEF InCall
    <2> QED
      BY <2>1, <2>2, <2>4 DEF Needed, Up
  <1>3. CASE RemoveReserved(s)
    <2>1. Remove(proc[s].job) /\ proc[s].pc = "remove"
      BY <1>3 DEF RemoveReserved, At
    <2>2. j = proc[s].job /\ ~Alive(j)
      BY <1>0, <1>k, <2>1 DEF ServerOK
    <2>3. \A r \in Servers : ~Reserving(r, j)
      BY <1>o, <2>1 DEF InCall, Reserving
    <2> QED
      BY <2>2, <2>3 DEF Needed, Alive, Up
  <1>4. CASE ~Evict(s) /\ ~TooManyRunning(s) /\ ~RemoveReserved(s)
    <2>1. CASE Reserve(s)
      BY <1>0, <2>1 DEF Reserve, TypeOK, Reservation, NoDirectory
    <2>2. CASE AbortFailedLaunch(s)
      <3>1. CASE registry' = registry
        BY <3>1
      <3>2. CASE registry' # registry
        BY <2>2, <3>2, <1>0, KillQuiet DEF AbortFailedLaunch
      <3> QED
        BY <3>1, <3>2
    <2>3. CASE ~Reserve(s) /\ ~AbortFailedLaunch(s)
      <3>1. registry' = registry
        BY <1>4, <2>3
           DEF Starting, WithinStorageLimit, OverStorageLimit, ReapScanned, EvictionDone,
               WithinRunningLimit, Launch, LaunchFails, AwaitReady, AwaitError,
               LaunchAborts, AbortWaitEnds, Recheck
      <3> QED
        BY <3>1
    <2> QED
      BY <2>1, <2>2, <2>3
  <1> QED
    BY <1>1, <1>2, <1>3, <1>4

LEMMA StartingKeepsLimit ==
    ASSUME IInv, LInv, Timely, NEW s \in Servers, Starting(s), ~Launch(s)
    PROVE  /\ Registered' /\ ProcsOK' /\ \A j \in Jobs : Fades(j)
           /\ issued \subseteq issued' /\ IsFiniteSet(issued')
  <1>s. s \in Processes
    BY DEF Processes
  <1>0. TypeOK /\ Unissued /\ IsFiniteSet(issued)
    BY DEF IInv, LInv
  <1>1. /\ \A j \in Jobs : Fades(j)
        /\ issued \subseteq issued' /\ IsFiniteSet(issued')
    <2>1. CASE Reserve(s)
      <3>1. PICK j \in Jobs : issued' = issued \cup {j}
        BY <2>1 DEF Reserve
      <3>2. IsFiniteSet(issued')
        BY <1>0, <3>1, FS_AddElement
      <3>3. \A k \in Jobs : Fades(k)
        BY <2>1 DEF Reserve, supervision, Fades, Live, Alive
      <3> QED
        BY <3>1, <3>2, <3>3
    <2>2. CASE ~Reserve(s)
      BY <1>0, <2>2, StartingQuiet, QuietFades
    <2> QED
      BY <2>1, <2>2
  <1>2. StepOK(s)
    BY <1>1, StartingOK
  <1>3. Moves(s) /\ s \notin Unappliers
    BY <1>0, StartingMoves
  <1>4. \A j \in Jobs : registry[j].dir /\ ~registry'[j].dir => ~Needed(j) \/ ~Needed(j)'
    BY <1>1, StartingRemoves
  <1>5. Registered' /\ ProcsOK'
    BY <1>s, <1>0, <1>1, <1>2, <1>3, <1>4, MoverStep DEF StepOK
  <1> QED
    BY <1>1, <1>5

(* The launch itself: nobody else is inside a locked call.                 *)
LEMMA LaunchKeepsLimit ==
    ASSUME IInv, LInv, NEW s \in Servers, Launch(s)
    PROVE  Registered' /\ ProcsOK' /\ issued' = issued /\ Cardinality(LiveJobs') <= MaxRunning
  <1>s. s \in Processes /\ Servers \cup Unappliers \subseteq Processes
    BY DEF Processes
  <1> DEFINE k == proc[s].job
  <1>0. /\ TypeOK /\ ServerOK(s) /\ Locking /\ proc[s] \in Calls
        /\ k \in issued /\ k \in Jobs /\ host[k] = "none" /\ command[k] = "none"
    <2>1. /\ TypeOK /\ ServerOK(s) /\ Locking /\ proc[s] \in Calls /\ Launchable /\ Lifecycles
      BY <1>s DEF IInv, LInv, ProcsOK, TypeOK
    <2>2. proc[s].pc = "launch"
      BY DEF Launch, At
    <2>3. k \in issued /\ host[k] = "none" /\ k \in Jobs
      BY <2>1, <2>2 DEF Launchable, TypeOK
    <2> QED
      BY <2>1, <2>3 DEF Lifecycles, Lifecycle
  <1>1. /\ proc[s].pc = "launch" /\ proc'[s].pc = "await" /\ proc'[s].job = k
        /\ proc'[s].entry = proc[s].entry /\ Moves(s)
        /\ host' = [host EXCEPT ![k] = "boot"]
        /\ UNCHANGED <<registry, command, issued>>
    BY <1>0, <1>s, GotoMoves DEF Launch, At
  <1>2. \A j \in Jobs : j # k => host'[j] = host[j]
    BY <1>0, <1>1 DEF TypeOK
  <1>3. host'[k] = "boot"
    BY <1>0, <1>1 DEF TypeOK
  <1>4. \A q \in Servers \cup Unappliers : q # s => ~InCall(q) /\ proc'[q] = proc[q]
    BY <1>0, <1>s, <1>1 DEF Locking, Lockers, InCall, Moves
  <1>5. \A r \in Servers : proc'[r].job = proc[r].job
    BY <1>1, <1>4
  <1> HIDE DEF k
  <1>6. ASSUME NEW p \in Processes
        PROVE  EntryOK(p)'
    <2>1. proc'[p].entry = proc[p].entry
      BY <1>1 DEF Moves
    <2>2. EntryOK(p)
      BY DEF LInv, ProcsOK
    <2> SUFFICES ASSUME proc[p].entry # None
                 PROVE  EntryOK(p)'
      BY <2>1 DEF EntryOK
    <2> DEFINE e == proc[p].entry
    <2>3. e.job \in issued /\ e.job \in Jobs
      BY <2>2, <1>0 DEF EntryOK, TypeOK
    <2>4. e.job = k => ~e.meta /\ e.exit = "none" /\ ~e.old
      BY <2>2, <1>0 DEF EntryOK, Early, Past, k
    <2>5. e.job # k => host'[e.job] = host[e.job]
      BY <1>2, <2>3
    <2>6. /\ e.meta => host'[e.job] \notin Early
          /\ e.exit # "none" => host'[e.job] \in Past
          /\ e.old => ~e.meta /\ ~Alive(e.job)' /\ \A r \in Servers : proc'[r].job # e.job
      BY <1>5, <2>1, <2>2, <2>4, <2>5 DEF EntryOK, Alive
    <2> QED
      BY <1>1, <2>1, <2>3, <2>6 DEF EntryOK
  <1>7. ASSUME NEW r \in Servers
        PROVE  ServerOK(r)'
    <2>1. CASE r = s
      BY <1>0, <1>1, <2>1 DEF ServerOK, k
    <2>2. CASE r # s
      BY <1>4, <2>2 DEF InCall, ServerOK
    <2> QED
      BY <2>1, <2>2
  <1>8. ASSUME NEW u \in Unappliers
        PROVE  UnapplierOK(u)'
    BY <1>4 DEF InCall, UnapplierOK
  <1>9. Registered'
    <2>1. ASSUME NEW j \in Jobs, host'[j] \in Up \/ \E r \in Servers : Reserving(r, j)'
          PROVE  registry[j].dir
      <3>1. host[j] \in Up \/ j = k \/ \E r \in Servers : Reserving(r, j)
        BY <1>1, <1>2, <1>4, <2>1 DEF Reserving
      <3>2. j = k => Reserving(s, j)
        BY <1>1 DEF Reserving, k
      <3> QED
        BY <3>1, <3>2 DEF LInv, Registered
    <2> QED
      BY <1>1, <2>1 DEF Registered
  <1>10. Cardinality(LiveJobs') <= MaxRunning
    <2>1. LiveJobs' = LiveJobs \cup {k}
      BY <1>0, <1>1, <1>2, <1>3 DEF LiveJobs, Live, Alive
    <2>2. Cardinality(LiveJobs \cup {k}) <= MaxRunning
      BY <1>0, <1>1 DEF ServerOK, k
    <2> QED
      BY <2>1, <2>2
  <1> QED
    BY <1>1, <1>6, <1>7, <1>8, <1>9, <1>10 DEF ProcsOK

(* A lookup or a kill, of a client or of Unapply.                          *)
LEMMA TerminateKeepsLimit ==
    ASSUME IInv, LInv, Timely, NEW p \in Clients \cup Unappliers, Terminate(p)
    PROVE  Registered' /\ ProcsOK'
  <1>s. p \in Processes /\ p \notin Servers
    BY DEF Processes
  <1>0. /\ TypeOK /\ TypeOK' /\ Unissued /\ Finding /\ proc[p] \in Calls
        /\ \A j \in Jobs : ~registry[j].dir => ~registry[j].meta
    BY <1>s, TerminateType DEF IInv, TypeOK, NoDirectory
  <1>1. (\A j \in Jobs : Fades(j)) /\ issued' = issued
    BY <1>0, <1>s, TerminateQuiet, QuietFades
  <1>2. Moves(p)
    BY <1>0, TerminateMoves
  <1>3. \A s \in Servers : proc'[s].job = proc[s].job
    BY <1>s, <1>2 DEF Moves, Processes
  <1>a. ASSUME NEW status, Answer(p, status)
        PROVE  proc'[p].pc \in {"idle", "sweepKill"} /\ proc'[p].entry = None
    <2>1. \/ Step(p, Resting("idle"))
          \/ \E F : Step(p, [Resting("sweepKill") EXCEPT !.found = F])
      BY <1>a DEF Answer, Return
    <2>2. CASE Step(p, Resting("idle"))
      <3>1. proc'[p] = Resting("idle")
        BY <1>0, <1>s, <2>2, StepMoves
      <3> QED
        BY <3>1 DEF Resting
    <2>3. ASSUME NEW F, Step(p, [Resting("sweepKill") EXCEPT !.found = F])
          PROVE  proc'[p].pc = "sweepKill" /\ proc'[p].entry = None
      <3>1. proc'[p] = [Resting("sweepKill") EXCEPT !.found = F]
        BY <1>0, <1>s, <2>3, StepMoves
      <3> QED
        BY <3>1 DEF Resting
    <2> QED
      BY <2>1, <2>2, <2>3
  <1>4. /\ proc'[p].pc \notin {"sweepScan", "swept"}
        /\ proc'[p].entry \in {None, proc[p].entry} \/ EntryOK(p)'
    <2>1. CASE FindRead(p)
      <3> DEFINE j == proc[p].job
      <3>1. Step(p, [proc[p] EXCEPT !.entry = EntryOf(j, FALSE)])
        BY <2>1 DEF FindRead
      <3>2. proc'[p] = [proc[p] EXCEPT !.entry = EntryOf(j, FALSE)]
        BY <1>0, <1>s, <3>1, StepMoves
      <3>3. proc'[p].pc = proc[p].pc /\ proc'[p].entry = EntryOf(j, FALSE)
        BY <1>0, <3>2 DEF Calls
      <3>4. j \in Jobs /\ registry[j].meta /\ proc[p].pc \in {"find", "poll"}
        BY <1>0, <1>s, <2>1 DEF FindRead, Finding, FindPCs
      <3>5. registry[j].dir
        BY <1>0, <3>4
      <3>6. EntryOK(p)'
        BY <1>0, <1>1, <1>3, <1>s, <3>3, <3>4, <3>5, ReadEntry
      <3> QED
        BY <3>3, <3>4, <3>6
    <2>2. CASE FindMisses(p) \/ FindAnswers(p)
      BY <2>2, <1>a DEF FindMisses, FindAnswers
    <2>3. CASE FindsRunning(p)
      <3> DEFINE pc == IF proc[p].pc = "find" THEN "request" ELSE proc[p].pc
      <3>1. Step(p, [proc[p] EXCEPT !.entry = None, !.pc = pc])
            /\ pc \in {"request", "poll"}
        BY <2>3 DEF FindsRunning
      <3> HIDE DEF pc
      <3>2. proc'[p] = [proc[p] EXCEPT !.entry = None, !.pc = pc]
        BY <1>0, <1>s, <3>1, StepMoves
      <3> QED
        BY <1>0, <3>1, <3>2 DEF Calls
    <2>4. CASE RequestKill(p)
      <3>1. proc'[p].pc = "poll" /\ proc'[p].entry = proc[p].entry
        BY <1>0, <1>s, <2>4, GotoMoves DEF RequestKill
      <3> QED
        BY <3>1
    <2>5. CASE TerminateFails(p)
      <3>1. proc'[p] = Resting("idle")
        BY <1>0, <1>s, <2>5, StepMoves DEF TerminateFails, Return
      <3> QED
        BY <3>1 DEF Resting
    <2> QED
      BY <2>1, <2>2, <2>3, <2>4, <2>5 DEF Terminate
  <1>5. UnapplierOK(p)'
    BY <1>4 DEF UnapplierOK
  <1>6. \A j \in Jobs : registry[j].dir => registry'[j].dir
    <2>1. CASE RequestKill(p)
      BY <1>0, <2>1, KillQuiet DEF RequestKill
    <2>2. CASE ~RequestKill(p)
      <3>1. registry' = registry
        BY <2>2 DEF Terminate, FindRead, FindMisses, FindAnswers, FindsRunning, TerminateFails
      <3> QED
        BY <3>1
    <2> QED
      BY <2>1, <2>2
  <1> QED
    BY <1>s, <1>0, <1>1, <1>2, <1>4, <1>5, <1>6, MoverStep

LEMMA UnapplyingKeepsLimit ==
    ASSUME IInv, LInv, NEW u \in Unappliers, Unapplying(u)
    PROVE  Registered' /\ ProcsOK'
  <1>s. /\ u \in Processes /\ u \notin Servers /\ Servers \subseteq Processes
        /\ Servers \cap Unappliers = {}
    BY DEF Processes
  <1>0. /\ TypeOK /\ Unissued /\ proc[u] \in Calls /\ UnapplierOK(u)
    BY <1>s DEF IInv, TypeOK, LInv, ProcsOK
  <1>1. (\A j \in Jobs : Fades(j)) /\ issued' = issued
    BY <1>0, UnapplyingQuiet, QuietFades
  <1>m. ASSUME Moves(u), UnapplierOK(u)', proc'[u].entry \in {None, proc[u].entry},
               \A j \in Jobs : registry[j].dir /\ ~registry'[j].dir => ~Needed(j)
        PROVE  Registered' /\ ProcsOK'
    BY <1>m, <1>s, <1>0, <1>1, MoverStep
  <1>r. ASSUME Return(u)
        PROVE  Moves(u) /\ UnapplierOK(u)' /\ proc'[u].entry \in {None, proc[u].entry}
    <2>1. Moves(u) /\ proc'[u] = Resting("idle")
      BY <1>0, <1>s, <1>r, StepMoves DEF Return
    <2> QED
      BY <2>1 DEF Resting, UnapplierOK
  <1>2. CASE SweepExpires(u) \/ UnapplyFails(u)
    BY <1>2, <1>r, <1>m DEF SweepExpires, UnapplyFails
  <1>3. CASE RemoveInstallation(u)
    <2>1. ASSUME NEW j \in Jobs
          PROVE  ~Needed(j)
      <3>1. ~Alive(j) /\ \A s \in Servers : proc[s].pc = "down"
        BY <1>3 DEF RemoveInstallation, At
      <3> QED
        BY <3>1 DEF Needed, Alive, Up, Reserving
    <2> QED
      BY <1>3, <1>r, <1>m, <2>1 DEF RemoveInstallation
  <1>4. CASE SweepEnds(u)
    <2>1. /\ Goto(u, "swept") /\ registry' = registry
          /\ proc[u].pc = "sweepScan" /\ proc[u].todo = {} /\ proc[u].entry = None
          /\ proc[u].found = {} /\ proc[u].pending = {}
      BY <1>4 DEF SweepEnds, Scanned, At, NothingRuns
    <2>2. Moves(u) /\ proc'[u].pc = "swept" /\ proc'[u].entry = None
      BY <1>0, <1>s, <2>1, GotoMoves
    <2>3. LiveJobs = {}
      BY <1>0, <2>1 DEF UnapplierOK, Seen
    <2>4. LiveJobs' = {}
      BY <1>1, <2>3 DEF LiveJobs, Fades
    <2> QED
      BY <1>m, <2>1, <2>2, <2>4 DEF UnapplierOK
  <1>5. CASE SweepFinds(u)
    <2>1. Goto(u, "sweepKill") /\ registry' = registry
      BY <1>5 DEF SweepFinds
    <2>2. Moves(u) /\ proc'[u].pc = "sweepKill" /\ proc'[u].entry = proc[u].entry
      BY <1>0, <1>s, <2>1, GotoMoves
    <2> QED
      BY <1>m, <2>1, <2>2 DEF UnapplierOK
  <1>6. CASE SweepTerminates(u)
    <2>1. PICK j : Step(u, [proc[u] EXCEPT !.pc = "find", !.goal = "kill", !.job = j])
      BY <1>6 DEF SweepTerminates
    <2>2. Moves(u) /\ proc'[u] = [proc[u] EXCEPT !.pc = "find", !.goal = "kill", !.job = j]
      BY <1>0, <1>s, <2>1, StepMoves
    <2>3. proc'[u].pc = "find" /\ proc'[u].entry = proc[u].entry
      BY <1>0, <2>2 DEF Calls
    <2> QED
      BY <1>6, <1>m, <2>2, <2>3 DEF UnapplierOK, SweepTerminates
  <1>7. CASE SweepAgain(u)
    <2>1. StartScan(u, "sweepScan") /\ registry' = registry
      BY <1>7 DEF SweepAgain
    <2>2. /\ Moves(u) /\ proc'[u].pc = "sweepScan" /\ proc'[u].entry = proc[u].entry
          /\ proc'[u].todo = Jobs
      BY <1>0, <1>s, <2>1, StartScanMoves, StartScanFields
    <2> QED
      BY <1>m, <2>1, <2>2 DEF UnapplierOK, Seen, LiveJobs
  <1>8. CASE \E s \in Servers : TerminateServer(u, s)
    <2>1. PICK s \in Servers : Step(s, Resting("down")) /\ registry' = registry
      BY <1>8 DEF TerminateServer, ServerDies
    <2>2. StepOK(s) /\ Moves(s) /\ s \in Processes /\ s \notin Unappliers
      BY <1>0, <1>s, <2>1, ReturnOK, StepMoves
    <2> QED
      BY <1>0, <1>1, <2>1, <2>2, MoverStep DEF StepOK
  <1>9. CASE \E j \in Jobs : TerminateHost(u, j) \/ TerminateWatchdog(u, j)
    <2>1. proc' = proc /\ registry' = registry
      BY <1>9 DEF TerminateHost, TerminateWatchdog, external
    <2> QED
      BY <1>0, <1>1, <2>1, NobodyMoves
  <1> QED
    BY <1>2, <1>3, <1>4, <1>5, <1>6, <1>7, <1>8, <1>9 DEF Unapplying

(* A call begins, a list ends, or a server goes down or comes up.          *)
LEMMA BeginningKeepsLimit ==
    ASSUME IInv, LInv,
           \/ \E s \in Servers : Boot(s) \/ Admit(s) \/ ReapHistory(s) \/ ServerCrash(s)
           \/ \E u \in Unappliers : Fence(u)
           \/ \E c \in Clients, goal \in {"output", "kill"} : Ask(c, goal)
           \/ \E l \in Listers : List(l) \/ ListDone(l)
           \/ UNCHANGED vars
    PROVE  Registered' /\ ProcsOK'
  <1>s. /\ Servers \cup Clients \cup Listers \cup Unappliers \subseteq Processes
        /\ Servers \cap Unappliers = {} /\ Clients \cap (Servers \cup Unappliers) = {}
        /\ Listers \cap (Servers \cup Unappliers) = {}
    BY DEF Processes
  <1>0. TypeOK /\ Unissued /\ \A p \in Processes : proc[p] \in Calls
    BY DEF IInv, TypeOK
  <1>1. /\ \A j \in Jobs : Fades(j)
        /\ issued' = issued
    BY <1>0, BeginningQuiet, QuietFades
  <1>2. registry' = registry
    BY DEF Boot, Admit, ReapHistory, ServerCrash, ServerDies, Fence, Ask, List, ListDone,
           vars
  <1>m. ASSUME NEW p \in Processes, Moves(p),
               p \in Servers => StepOK(p), p \in Unappliers => UnapplierOK(p)',
               proc'[p].entry \in {None, proc[p].entry}
        PROVE  Registered' /\ ProcsOK'
    BY <1>m, <1>0, <1>1, <1>2, MoverStep DEF StepOK
  <1>3. ASSUME NEW s \in Servers, Boot(s) \/ Admit(s) \/ ReapHistory(s)
        PROVE  Registered' /\ ProcsOK'
    <2>1. \/ Goto(s, "idle")
          \/ \E goal : Step(s, [proc[s] EXCEPT !.pc = "admitted", !.goal = goal])
      BY <1>3 DEF Boot, Admit, ReapHistory
    <2> DEFINE Kept == /\ Moves(s) /\ proc'[s].pc \in {"idle", "admitted"}
                       /\ proc'[s].job = proc[s].job /\ proc'[s].entry = proc[s].entry
    <2>2. Kept
      <3>1. CASE Goto(s, "idle")
        BY <1>0, <1>s, <3>1, GotoMoves
      <3>2. ASSUME NEW goal, Step(s, [proc[s] EXCEPT !.pc = "admitted", !.goal = goal])
            PROVE  Kept
        <4>1. Moves(s) /\ proc'[s] = [proc[s] EXCEPT !.pc = "admitted", !.goal = goal]
          BY <1>0, <1>s, <3>2, StepMoves
        <4>2. proc[s] \in Calls
          BY <1>0, <1>s
        <4> QED
          BY <4>1, <4>2 DEF Calls
      <3> QED
        BY <2>1, <3>1, <3>2
    <2>3. StepOK(s)
      BY <2>2 DEF StepOK, ServerOK, Reserving
    <2> QED
      BY <1>s, <1>m, <2>2, <2>3
  <1>4. ASSUME NEW s \in Servers, ServerCrash(s)
        PROVE  Registered' /\ ProcsOK'
    <2>1. Step(s, Resting("down"))
      BY <1>4 DEF ServerCrash, ServerDies
    <2>2. Moves(s) /\ StepOK(s)
      BY <1>0, <1>s, <2>1, ReturnOK, StepMoves
    <2> QED
      BY <1>s, <1>m, <2>2 DEF StepOK
  <1>5. ASSUME NEW u \in Unappliers, Fence(u)
        PROVE  Registered' /\ ProcsOK'
    <2>1. /\ Moves(u) /\ proc'[u].pc = "sweepScan" /\ proc'[u].entry = proc[u].entry
          /\ proc'[u].todo = Jobs
      BY <1>0, <1>s, <1>5, StartScanMoves, StartScanFields DEF Fence
    <2>2. UnapplierOK(u)'
      BY <2>1 DEF UnapplierOK, Seen, LiveJobs
    <2> QED
      BY <1>s, <1>m, <2>1, <2>2
  <1>6. ASSUME NEW c \in Clients, NEW goal, Ask(c, goal)
        PROVE  Registered' /\ ProcsOK'
    <2>1. PICK j : Step(c, [proc[c] EXCEPT !.pc = "find", !.goal = goal, !.job = j])
      BY <1>6 DEF Ask
    <2>2. Moves(c) /\ proc'[c] = [proc[c] EXCEPT !.pc = "find", !.goal = goal, !.job = j]
      BY <1>0, <1>s, <2>1, StepMoves
    <2>3. proc[c] \in Calls
      BY <1>0, <1>s
    <2>4. proc'[c].entry = proc[c].entry
      BY <2>2, <2>3 DEF Calls
    <2> QED
      BY <1>s, <1>m, <2>2, <2>4
  <1>7. ASSUME NEW l \in Listers, List(l) \/ ListDone(l)
        PROVE  Registered' /\ ProcsOK'
    <2>1. CASE List(l)
      <3>1. Moves(l) /\ proc'[l].entry = proc[l].entry
        BY <1>0, <1>s, <2>1, StartScanMoves DEF List
      <3> QED
        BY <1>s, <1>m, <3>1
    <2>2. CASE ListDone(l)
      <3>1. Moves(l) /\ proc'[l] = Resting("idle")
        BY <1>0, <1>s, <2>2, StepMoves DEF ListDone
      <3>2. proc'[l].entry = None
        BY <3>1 DEF Resting
      <3> QED
        BY <1>s, <1>m, <3>1, <3>2
    <2> QED
      BY <1>7, <2>1, <2>2
  <1>8. CASE UNCHANGED vars
    <2>1. proc' = proc
      BY <1>8 DEF vars
    <2> QED
      BY <1>0, <1>1, <1>2, <2>1, NobodyMoves
  <1> QED
    BY <1>3, <1>4, <1>5, <1>6, <1>7, <1>8

LEMMA JobStepKeepsLimit ==
    ASSUME IInv, LInv, NEW j \in Jobs,
           \/ HostSteps(j) \/ HostCrash(j) \/ WatchdogFires(j)
           \/ RootEnds(j) \/ DescendantsEnd(j)
    PROVE  Registered' /\ ProcsOK'
  <1>0. TypeOK /\ Unissued
    BY DEF IInv
  <1>1. UNCHANGED external
    BY HostQuiet, <1>0
       DEF HostCrash, WatchdogFires, RootEnds, DescendantsEnd
  <1>2. \A k \in Jobs : Fades(k)
    <2>1. CASE HostSteps(j)
      BY <1>0, <2>1, HostQuiet, HostFades, QuietFades
    <2>2. CASE ~HostSteps(j)
      BY <1>0, <2>2, EndingQuiet, QuietFades
    <2> QED
      BY <2>1, <2>2
  <1>3. \A k \in Jobs : registry[k].dir => registry'[k].dir
    <2>1. registry \in [Jobs -> JobRecord]
      BY <1>0 DEF TypeOK
    <2> QED
      BY <2>1 DEF HostSteps, HostSpawns, HostArms, HostPublishes, HostStartupFails,
             HostReports, HostReady, HostUnheard, HostSeesExit, HostSeesLateKill,
             HostSeesKill, HostKills, HostDisarms, HostWritesExit, HostLeaves,
             HostCrash, WatchdogFires, RootEnds, DescendantsEnd, JobRecord
  <1> QED
    BY <1>0, <1>1, <1>2, <1>3, NobodyMoves DEF external

LEMMA LimitInit ==
    ASSUME Init
    PROVE  LInv
  <1>1. LiveJobs = {}
    BY DEF Init, LiveJobs, Live, Alive
  <1>2. IsFiniteSet(issued) /\ Cardinality(LiveJobs) <= MaxRunning
    <2>1. issued = {} /\ IsFiniteSet(issued) /\ Cardinality({}) = 0
      BY FS_EmptySet DEF Init
    <2> QED
      BY <1>1, <2>1
  <1>3. \A p \in Processes : /\ proc[p].pc = "idle" /\ proc[p].entry = None
    BY DEF Init, Resting
  <1>4. ProcsOK
    BY <1>3 DEF ProcsOK, EntryOK, ServerOK, UnapplierOK, Processes
  <1>5. Failures /\ Registered
    BY <1>3 DEF Init, Failures, Registered, Reserving, Up, Processes
  <1> QED
    BY <1>2, <1>4, <1>5 DEF LInv

LEMMA LimitStep ==
    ASSUME Timely, IInv, LInv, [Next]_vars
    PROVE  LInv'
  <1>s. Servers \cup Clients \cup Listers \cup Unappliers \subseteq Processes
    BY DEF Processes
  <1>0. TypeOK /\ Unissued /\ IsFiniteSet(issued) /\ Cardinality(LiveJobs) <= MaxRunning
        /\ Failures
    BY DEF IInv, LInv
  <1>1. Failures'
    BY <1>0, FailuresStep
  <1>2. Registered' /\ ProcsOK'
    <2>1. ASSUME NEW p \in Processes, Scan(p)
          PROVE  Registered' /\ ProcsOK'
      BY <2>1, ScanKeepsLimit
    <2>2. ASSUME NEW s \in Servers, Starting(s)
          PROVE  Registered' /\ ProcsOK'
      BY <2>2, StartingKeepsLimit, LaunchKeepsLimit
    <2>3. ASSUME NEW p \in Clients \cup Unappliers, Terminate(p)
          PROVE  Registered' /\ ProcsOK'
      BY <2>3, TerminateKeepsLimit
    <2>4. ASSUME NEW u \in Unappliers, Unapplying(u)
          PROVE  Registered' /\ ProcsOK'
      BY <2>4, UnapplyingKeepsLimit
    <2>5. ASSUME \/ \E s \in Servers : Boot(s) \/ Admit(s) \/ ReapHistory(s) \/ ServerCrash(s)
                 \/ \E u \in Unappliers : Fence(u)
                 \/ \E c \in Clients, goal \in {"output", "kill"} : Ask(c, goal)
                 \/ \E l \in Listers : List(l) \/ ListDone(l)
                 \/ UNCHANGED vars
          PROVE  Registered' /\ ProcsOK'
      BY <2>5, BeginningKeepsLimit
    <2>6. ASSUME NEW j \in Jobs, \/ HostSteps(j) \/ HostCrash(j) \/ WatchdogFires(j)
                                 \/ RootEnds(j) \/ DescendantsEnd(j)
          PROVE  Registered' /\ ProcsOK'
      BY <2>6, JobStepKeepsLimit
    <2> QED
      BY <1>s, <2>1, <2>2, <2>3, <2>4, <2>5, <2>6 DEF Next, Locked
  <1>3. IsFiniteSet(issued') /\ Cardinality(LiveJobs') <= MaxRunning
    <2>1. ASSUME \A j \in Jobs : Fades(j)
          PROVE  Cardinality(LiveJobs') <= MaxRunning
      <3> DEFINE S == {}
      <3>1. IsFiniteSet(S) /\ LiveJobs \cup S = LiveJobs /\ LiveJobs' \cup S = LiveJobs'
        BY FS_EmptySet
      <3> HIDE DEF S
      <3>2. Cardinality(LiveJobs \cup S) <= MaxRunning
        BY <1>0, <3>1
      <3>3. Cardinality(LiveJobs' \cup S) <= MaxRunning
        BY <1>0, <2>1, <3>1, <3>2, Shrinks
      <3> QED
        BY <3>1, <3>3
    <2>2. CASE (\A j \in Jobs : Fades(j)) /\ issued' = issued
      BY <1>0, <2>1, <2>2
    <2>3. ASSUME NEW s \in Servers, Launch(s)
          PROVE  IsFiniteSet(issued') /\ Cardinality(LiveJobs') <= MaxRunning
      BY <1>0, <2>3, LaunchKeepsLimit
    <2>4. ASSUME NEW s \in Servers, Reserve(s)
          PROVE  IsFiniteSet(issued') /\ Cardinality(LiveJobs') <= MaxRunning
      <3>1. Starting(s) /\ ~Launch(s)
        BY <2>4 DEF Starting, Reserve, Launch, At
      <3> QED
        BY <2>1, <3>1, StartingKeepsLimit
    <2> QED
      BY <1>0, <2>2, <2>3, <2>4, StepFades
  <1> QED
    BY <1>1, <1>2, <1>3 DEF LInv

(* When launches are timely, no step breaks what the counting relies on.   *)
THEOREM CountingInductive ==
    ASSUME Timely
    PROVE  Spec => [](IInv /\ LInv)
  <1>1. Init => IInv /\ LInv
    BY InitInv, LimitInit
  <1>2. (IInv /\ LInv) /\ [Next]_vars => (IInv /\ LInv)'
    BY NextInv, LimitStep
  <1> QED
    BY <1>1, <1>2, PTL DEF Spec

(* However many servers start jobs at once, each counting by itself, and   *)
(* whatever crashes: no more jobs run than max_running_jobs, and none that *)
(* came up loses its directory.  This needs launches and scans that finish *)
(* within STARTUP_TIMEOUT and PENDING_STALE_AFTER.                         *)
THEOREM LimitKept ==
    ASSUME Timely
    PROVE  Spec => []LimitHolds
  <1>1. ASSUME IInv, LInv
        PROVE  LimitHolds
    <2>0. TypeOK /\ Unissued /\ IsFiniteSet(issued) /\ Cardinality(LiveJobs) <= MaxRunning
      BY <1>1 DEF IInv, LInv
    <2>1. RunningLimit
      <3>1. RunningJobs \subseteq LiveJobs
        BY DEF RunningJobs, LiveJobs, Live
      <3>2. IsFiniteSet(LiveJobs)
        BY <2>0, LiveIsIssued, FS_Subset
      <3>3. IsFiniteSet(RunningJobs) /\ Cardinality(RunningJobs) <= Cardinality(LiveJobs)
        BY <3>1, <3>2, FS_Subset
      <3>4. Cardinality(RunningJobs) \in Nat /\ Cardinality(LiveJobs) \in Nat
        BY <3>2, <3>3, FS_CardinalityType
      <3> QED
        BY <2>0, <3>3, <3>4 DEF RunningLimit
    <2>2. RunningJobIsRegistered
      BY <1>1 DEF LInv, Registered, Up, RunningJobIsRegistered, RunningJobs
    <2> QED
      BY <2>0, <2>1, <2>2 DEF LimitHolds
  <1> QED
    BY <1>1, CountingInductive, PTL

(* Once Unapply's scan has found neither a running job nor a pending       *)
(* reservation there is none and no server can begin one, also none that a *)
(* crashed or fenced server was launching, as long as launches are timely. *)
THEOREM UnapplySweeps ==
    ASSUME Timely
    PROVE  Spec => []UnapplyEndsJobs
  <1>1. ASSUME IInv, LInv
        PROVE  UnapplyEndsJobs
    <2>1. SweptMeansNothingRuns
      BY <1>1 DEF LInv, ProcsOK, UnapplierOK, LiveJobs, Live, SweptMeansNothingRuns, At
    <2>2. FencedServersStartNothing
      BY <1>1 DEF IInv, Fencing, FencedServersStartNothing
    <2> QED
      BY <2>1, <2>2 DEF UnapplyEndsJobs
  <1> QED
    BY <1>1, CountingInductive, PTL
=============================================================================
