# FastCtx: a verification development

FastCtx is a local tool runtime for AI agents: file reading, grep, glob, batch
replace and shell commands behind MCP, with a control terminal that installs,
configures and updates it. This directory holds TLA+ models of it, the TLC
configurations that check them on small instances, and TLAPS proofs of the
results that hold for every size. `PROJECT.json` maps each definition to the
source lines it was translated from; paths below are relative to the
repository's `src/`.

## 1. The system

| part | state it keeps | operations | what is hard |
|---|---|---|---|
| ordered window (`ordered_window.rs`) | window of slots, generation, next candidate, accepting flag | fill, claim, publish, take frontier, advance, retire, drop of a lease | runners of a retired generation, panics, cancellation at every point, the wait at the frontier |
| executor (`file_executor.rs`) | CPU credits, runner tickets, lazily built pool, disabled flag | try_burst, try_runner_tickets, try_spawn, drops | credits that change owner five times before they come home |
| cancellation (`operation.rs`) | a token per request | check, cancel on drop | seen late, at any step |
| job registry (`shell/jobs/{mod,store,admission}.rs`) | one directory per job: metadata, exit record, kill request, log; a lock with a generation | run_background, job_output, job_kill, job_list, reap, Unapply | several processes over one directory, most readers without a lock |
| supervisor (`shell/jobs/host.rs`) | the command's process tree, the log writer, a watchdog pipe | launch, drain, kill, record the exit | crashes between any two steps; launch timeouts |
| output log (`shell/jobs/output_log.rs`, `shell/normalize.rs`) | log and index files, byte quota | append, flush, finish; readers by line range | readers beside the writer, partial index, quota |
| background status (`shell/jobs/background.rs`) | the jobs a session started | track, snapshot, remove | a probe that runs unlocked |
| foreground commands (`shell/foreground.rs`, `buffer.rs`) | a bounded buffer | wait, time-out, kill, drain | what is kept and what is said of the rest |
| control center (`runtime/`) | instance lock, connection gate, request counts | connect or start, accept, idle shutdown, drain, proxy fallback | election, shutdown against new connections |
| output policy (`budget.rs`, `render_plan.rs`, `context_guard.rs`) | per-session burst pool | begin, claim, complete | overlapping calls of one burst |
| server admission (`server_support.rs`) | semaphores | bounded blocking work | cancellation against a started job |
| grep, glob, readers (`grep_tool.rs`, `traversal.rs`, `read_tool/`) | per-call data | walk, search, page, continue | windows cut by entries and by tokens |
| snapshots, encodings (`file_snapshot.rs`, `encoding/`) | a capture of one file | probe, decode in pieces, materialise | decisions before all is seen, files that change |
| PDF engine (`read_tool/pdf_engine.rs`) | a released library, one lock | release, load, call with a deadline | servers and calls that share it |
| replace (`edit/`) | name and identity locks, private lock files | analyse, lock, re-open, compare, commit | other processes and editors between the passes |
| configuration transaction (`control/transaction.rs`, `control/apply.rs`) | previewed file changes | validate, commit, roll back | partial failure, outside edits |
| settings and diagnosis (`control/settings.rs`, `doctor.rs`, `processes.rs`) | config documents, receipts, PIDs | save, status, repair, terminate | state that changes between two looks |
| updater (`update/`) | request, health and handoff files, check cache | discover, download, replace, restart, roll back | a late or failing restart |
| terminal interface (`tui/`) | screens, pending confirmations, workers | keys, effects, answers | answers that arrive on another screen |
| translations (`control/i18n.rs`) | tables of text | look up | nothing |

How they meet: a proxy (`fastctx serve`) connects to the user's one control
center or serves by itself. A session's requests pass the server's admission
and run on blocking threads; grep requests share the executor. Background jobs
are run by detached supervisors, so the only thing that servers, supervisors
and the control terminal share is the registry directory. The control terminal
edits the host's configuration, ends the processes of an installation and hands
itself over to the update helper.

`PROJECT.json` lists what can go wrong in each part ("hazards") and the
properties that would notice it. Three hazards have no property, because the
code is exposed to them: observations 1, 2 and 7 of section 6.

## 2. The modules

Three kinds of modules model the code.

*State machines*, one per component whose processes, threads or failures
interleave: **OrderedWindow** (with the executor), **JobRegistry**,
**OutputLog**, **ControlCenter**, **ServerCalls**, **Replace**, **HostConfig**,
**Update**, **Terminal** (which composes **UpdateCheck**). Each has a
configuration of its own, with constants and symmetry in an **MC** module where
it needs them.

*Abstract specifications* that a state machine is shown to implement:
**OrderedDelivery** (of OrderedWindow, checked and proved) and **SerialEdits**
(of Replace, checked and proved).

*Algorithms* without waiting, written as operators and recursive functions:
**GrepPages**, **JobPages**, **AnswerBudget**, **StreamNormalizer**,
**Foreground**, **Walk**, **Encodings**, **Snapshot**, **ReadPages**,
**CodexConfig**, **Doctor**, **Processes**, **PdfEngine**, **UpdateSource**.
**Inputs** holds the one input a behaviour chooses; **PageChecks**,
**CommandChecks**, **FileChecks** and **ControlChecks** enumerate the inputs
and compare results with what callers are promised, and **Algorithms** is
their common run.

*Proofs*: **OrderedWindowProofs**, **JobRegistryProofs**, **OutputLogProofs**,
**ControlProofs** (of ControlCenter and of Terminal), **ServerCallsProofs**,
**UpdateProofs**, **ReplaceProofs**, **HostConfigProofs**.

## 3. What is modelled

### OrderedWindow

One action is one critical section of the window's mutex, one access to an
atomic or a semaphore, or one run of the worker. The coordinator of each
request is the loop of `for_each_ordered`; its `pc` names the code between two
such steps. A runner is a ticket together with the leaf it is moved into.

| state | code |
|---|---|
| `burst`, `leaf_tasks` | the atomics of `CpuBurstCredits` and `ExtraTaskTickets` |
| `extra_pool`, `extra_disabled` | the `OnceLock` of the pool, the latch |
| `generation`, `next_reduce`, `accepting`, `live_slots`, `slots` | `RequestSpecState`; the atomic copy of the generation is written inside the same critical section |
| `plan` | `fill_epoch`'s snapshot: generation, tickets still to take |
| `value`, `delivered`, `result` | the value in the coordinator's hands, what the reducer was given, the outcome |
| `runner[r]` | where the leaf is, its request, generation and candidate |

A value is abstracted to the candidate and the generation it was computed in,
which is all that order, uniqueness and staleness depend on. A panic of the
worker is caught and is a value; a panic outside is the `unwind` branch. The
reducer is grep's: it goes on, breaks, or retires the generation and searches
the candidate again inline. The waits of `take_frontier` are time slices in the
code, so the model's wait is a loop and needs no notification.

`FairSpec` has weak fairness for each coordinator and each runner: they are OS
threads that never block on one another except at the sliced frontier wait, and
the search of one file terminates. Cancellation has no fairness.

### OrderedDelivery

The promise in the documentation of `for_each_ordered`: candidates 0, 1, 2, ...
each once, each from the generation current when it is delivered, until the
reducer breaks, the candidates run out or a cancellation is seen.

### JobRegistry

The processes that share `~/.fastctx/jobs`, as Unix runs them: servers (each
with one `start` or one periodic cleanup under way), the detached supervisor
and the watchdog of each job, clients in `job_output` or `job_kill`, callers of
`job_list` and the dashboards (`Listers`), and processes that commit an Unapply.
A step is one access to a file, one signal or one process start; no step reads
two files.

| state | code |
|---|---|
| `registry[j]` | the job directory: whether it exists, the metadata, the exit record, the kill request |
| `host[j]` | the supervisor, from the bootstrap to `leaving`, between its record and its exit |
| `command[j]` | the process group of the command: running, only descendants left (`orphans`), gone |
| `watchdog[j]` | armed, disarmed by the supervisor, fired at end of file, stopped by Unapply |
| `ready[j]`, `launcher[j]` | the readiness pipe and the server that holds its read end |
| `lock`, `generation`, `manager[s]` | the admission lock file, the generation in it, the one a server saw at its start |
| `proc[p]` | the call: its goal, job, the record it is reading, the scan's remaining entries, finished or running jobs and pending reservations |
| `told[c][j]` | the last state a client was told, a history variable |

A scan and a lookup read the metadata and the exit record in one step
(`ScanRead`, `FindRead`) and look at the liveness of the supervisor and at the
directory in a later one (`ScanResolves`, `FindAnswers`). That order is the
code's, and the reason for observation 3.

`Timely` names the two timing assumptions that the code makes without checking
them: a launch is over within `STARTUP_TIMEOUT`, and a reservation without
metadata for `PENDING_STALE_AFTER` has no launch behind it. The two runs of the
registry and the theorems about the limit and about Unapply assume them; the
other theorems do not.

Abstractions. The removal of a directory is one step. Sizes are left out: a
start may or may not find the storage limit exceeded and evicts any number of
finished jobs. Job ids are never reused. Output is OutputLog, the cursors are
ServerCalls. So are failures of the operating system other than crashes: a `wait`,
a signal or a scan that returns an error. Pids are not reused: identities
compare the start time. Windows job objects are not modelled.

`Fairness` is weak for each supervisor, each watchdog and each locked call, which
are processes of their own and wait for nobody; the deadlines of the two polling
loops of Unapply (thirty and six seconds) are strong fairness of the step that
gives up, since a loop cannot go round for ever before its deadline. No fairness
says that a command ends, a call is made or a process crashes.

### OutputLog

One job's `output.log` and `output.idx`, the control loop of its supervisor that
writes them, and a reader (a `job_output` call or a dashboard) in another
process. The loop's `pc` is between two writes to the disk; a write may take any
number of steps, so a reader or a crash sees every prefix the file system may
show.

| state | code |
|---|---|
| `log`, `index` | the two files; the 8 bytes of the index header are left out of `index` |
| `buffer` | the content of the `BufWriter` |
| `lines`, `durable_lines`, `index_written` | `total_lines` with the entries behind them, what is in the index, how far the running write of `pending_index` is |
| `current_start`, `current_has_content`, `encoding`, `bytes_since_flush`, `quota_exceeded` | the fields of `OutputLogWriter`; `position` is the length of `log` and `buffer` |
| `source`, `open_line`, `event` | the normalizer: how far the stream is, whether a line is open, the event the loop has received |
| `goal`, `writer`, `total` | what the running flush is for, `Option<OutputLogWriter>`, `total_lines` of the loop |
| `capture_error`, `output_truncation`, `exit` | the `after_seq` of the two notices, the `total_lines` of the exit record |
| `reader[r]` | status, notices and lengths read so far, the lines found, the dashboard's cursor |

Abstractions. A byte is one of six symbols. An entry is three numbers that count
as one byte each, so an index can be torn between numbers and not inside one. A
write never stops inside a byte-order mark. An event is smaller than the buffer, as it is in the code (16 KiB
against 64 KiB). The append goes on as soon as the buffer has room, where
`BufWriter` empties it first: a superset. What the drop of a `BufWriter` writes
is arbitrary up to its whole buffer. A reader reads the two notices in one step;
the failure to create the files or to write a notice is left out. Readers do
not disturb one another or the writer, so one of them stands for all. The
segmented logs of older versions are not modelled.

`FairSpec` is weak fairness of `Work`, the steps of the control loop, which polls
every 20 ms and waits for nobody. Nothing obliges the command to write or to
end, a write to fail, or a reader to read.

### ControlCenter

The proxies of one user and one build, the host processes that they start, the
two lock files and the Unix socket between them. A step is one system call on a
lock, the socket or a process, or one critical section of `RuntimeActivity`.

| state | code |
|---|---|
| `proxy[p]` | where `connect_or_start`, then `forward_stdio` is; `standalone` is the fallback of `run_server_with_options` |
| `link[p]`, `peer[p]` | the host a proxy connected to, and how far that host is with the connection: in the backlog, `serve_connection` before and after the handshake, closed |
| `request[p]` | the latest request of the session; `running` is a `RequestActivityGuard` |
| `starter`, `instance` | the holders of the startup lock and of the instance lock |
| `host[h]` | where `run_bootstrap_entry`, then `run_host_entry` is |
| `socket` | whose listener the socket file belongs to; a stale file is one whose owner is gone |
| `idle[h]` | `last_activity` is a full idle window old; the counts of `RuntimeActivity` are `Connected` and `InFlight` |
| `sessions[h]` | `control_paths` is set |
| `monitor[h]`, `failing[h]` | where `monitor_idle` is, `scan_failing_since` |
| `candidate[h]` | the channel of capacity one; what the proposal rests on is an annotation of the model |
| `jobs`, `damaged` | what a scan of the job registry finds: the hosts whose jobs run, whether it fails |
| `gaveUp` | history: some proxy stopped waiting for the host that it started |

Abstractions. A deadline may pass whenever its wait is under way. An idle window
passes only while the monitor sleeps and no proposal is under way: it lasts ten
minutes, and a scan and the way through the channel are short against it. A proxy makes one connection in its life, so many proxies stand for many
sessions. The handler of a request may outlive its session, because a blocking
tool does. A crash stands for error exits and kills alike and leaves the socket
file. The jobs that standalone servers start are left out: no host learns of
them but through the scan. Framing, the handshake's contents and Windows pipes
are left out. The five seconds that a leaving host would give to open
connections never begin, because `try_begin_shutdown` refuses while there is one
(`Deserted`).

`FairSpec`: proxies and hosts are processes, a handler returns, and every deadline
and window passes (the window of failing scans under strong fairness, since
the monitor keeps going round). There is none for clients that come or go, for
a start that fails, and for `Accept`: a host without file descriptors retries
for ever, and its proxies must manage.

### ServerCalls

The calls of one session whose output is guarded. A step is what a call does
under one lock, or with one reading of the registry, or between two of them;
`call[c].stage` names where it stands, `pool` is `BurstState`, `tracked` the
session's tracker, `cursor` the shared `after_seq`, `status`, `printed` and
`known` what the registry and its logs hold. `covered` is history: the lines
that some rendered page shows or counts as omitted, and those a caller's
`after_seq` leaves out. A page is rendered, and the cursor moved, before the
answer is delivered: a panic in between loses the page (observation 5).

Abstractions. A token is a small number, and how large an answer turns out is
chosen when it is delivered. Cancellation is nondeterministic where the code
looks at it. The pool's generation is not kept, since a pool without calls is
replaced by an equal one. `inspect_local_file`, `replace`, `run` and `job_list`
are one kind, "plain". Only logs that the caller can read directly.

### Replace and SerialEdits

Calls of the replace tool, in one server or several, over two names, a symbolic
link and a few inodes, and whoever else writes, moves or links these files. A
step is one opening, one lock, one comparison or one rename. SerialEdits is
what the calls promise together: each edit is made to the text that the file
has, one edit of a file at a time, and a call reports a file as replaced exactly
when it was. The matching, the bytes and the report are data.

### HostConfig

Apply, Unapply, the synchronisation after an update and the saving of
preferences, each a plan computed from what it read and then committed by the
file transaction: comparison, directories, one rename after the other,
roll-back. The user edits any file between two steps, an operation fails, the
process dies. A document is what it holds of the user's and of FastCtx's. No lock
is taken, so `taint` is history: what has happened that a receipt cannot be held
to (`Accountable`), each with the step that brings it about.

### Update, UpdateSource, UpdateCheck

Update is one run of the protocol per `u`: the old interface, its launcher, the
helper, the new version, the fallback and their three private files, over
installations that share one update lock. `torn` and `swept` are history: the
helper crashed with the lock or failed to restore, another update removed the
run's marker. UpdateSource is the choice of a version, registry and plan and
the validation of what is handed to the helper; UpdateCheck the cached check,
composed into Terminal. Download, unpacking and `npm install` are single steps.
Fairness: the launcher, the old interface and the helper are processes that wait for
nobody without looking again. The new version is not trusted to run until it has
reported its health; the helper's clock is (strong fairness of `HealthTimeout`,
which each look in between disables). A user may leave a session open for ever.

### Terminal

The one thread that draws, looks for the answer of an update check and then
executes the pending effect or handles one key; update checks run on workers.
`seen` is the last frame that asks something. Left out: scrolling, toasts, the texts of errors and
the cursors of menus, so that Enter may choose any row. Preferences are one
number. Quitting ends the loop at once; the expiry of the cache is
nondeterministic; the cache starts as any leftover of this version or the one
before.

### The algorithms

Each is a translation of the functions its "map" rows name, over inputs small
enough to enumerate. The constants of the code that bound something are scaled
down to sizes the inputs cross:

| module | scaled constants and simplifications |
|---|---|
| GrepPages | one token per line of an answer, a window of text per match; multi-line spans, decoding and the tokenizer abstracted |
| JobPages | a token is a byte; `MaxReadLines` is the budget, `MaxReadBytes` the budget and two |
| AnswerBudget | the token counter is the length of the text; where the status line is inserted is left out |
| StreamNormalizer, Foreground | bytes are symbols; a prefix of 3, a ring of 8, 2 characters shown of a long line; the encoding detector's verdict is an input |
| Walk | details for 2 failures, batches of 2, chunks of 2, limit 3; two threads with any distribution; the walker, its ignore rules and type filters are inputs |
| Encodings, Snapshot | a probe of 5 bytes, segments of 6, a memory limit of 6, evidence of 2 to 4; a dozen byte symbols; the external decoders' units and guesses are given; three of the five fixed legacy encodings; no surrogates; every change of a file changes its identity |
| ReadPages | 2 characters and 2 bytes to a line, 3 pages of hex and of PDF, 2 pixels a page, 4 a call, 3 entries a batch; page strings are ranges |
| CodexConfig, Doctor | a document is its keys with sentinels for a missing or malformed value; a hash is its content; the probe's deadlines are 5, 3, 4 and 1; relay text, running instances and the last update check only inform |
| Processes | a PID's fate is a sequence of up to 14 moments, one per call of the system; 3 attempts; a deadline is one moment; the platforms are Linux, macOS and Windows |
| PdfEngine | two servers release the library, three calls share it, one thing goes wrong; `late` and `unseen` are annotations |
| UpdateSource | a version is a number, a registry one of three names |

## 4. The runs

| run | instance | shows |
|---|---|---|
| `window` | 1 request, 4 candidates, width 3, 3 runners, 2 retirements | slots and leases agree; OrderedWindow implements OrderedDelivery |
| `shared_lanes` | 2 requests of 3 and 1 candidates, one extra lane, 2 runners, fair | credits and tickets are conserved, R + P - 1 lanes, a grep always returns, all lanes come back |
| `job_limit` | 2 jobs, 2 servers, 1 lister, limit 1, 1 crash, timely | the limit holds across servers; no running job loses its directory |
| `job_life` | 1 job, server, client and Unapply, 1 crash, timely, fair | what records mean, what a sweep guarantees, that kills, crashes and the lock come to an end |
| `log_files` | both encodings, limit of 12 bytes, buffer of 3, recovery of 4, 1 reader, 1 failing write, crashes, fair | the hard limit, readers beside the writer, true notices, lines and exits that arrive |
| `one_control_center` | 2 proxies, 2 hosts, crashes, fair | one host, started once, cutting no live session, leaving no job it could know of, and in the end gone |
| `server_calls` | 3 calls, 1 job of 2 lines, budget 2, hard limit 3, capacity 2, 1 panic | the burst stays inside, running jobs stay listed, the cursor follows the pages; no deadlock |
| `replace_calls` | 2 calls, 2 servers, 2 names and a link, 3 inodes, 1 trouble | edits are serial, a refused call writes nothing, locks form no circle |
| `host_config` | 2 commands, 3 operations, one beside another, 1 upset | the user's text survives, a failed commit is clean, Unapply gives back |
| `update_race` | 2 updates (release or npx; global npm), versions to 3, 1 trouble, fair | healthy versions stay, the terminal keeps its owner, updates settle |
| `terminal` | 2 jobs, 1 check, 1 trouble, 2 preferences, versions to 3, fair | what is committed was shown, what is shown is true, blocking screens end |
| `algorithms` | about 470,000 states, one per step of an input | every algorithm's result is what its caller is promised |

Bounds. Four candidates on a width of three make the window wrap round, so that
a position is reused by another candidate while a lease of the old one is
alive. Two retirements let a runner be two generations late. Three runners on
two tickets let a ticket be reused. `GenLimit` stands for `u64::MAX`; because it
is small, the exhaustion of the counter happens in every run.

Two jobs and a limit of one is the smallest instance in which a limit can be
exceeded, and two servers the smallest in which one counts what another has
reserved; one crash can hit a server in the middle of a launch or a supervisor.

Twelve bytes hold two short lines with their entries and end in the middle of a
third; a buffer of three makes a flush fall before, inside and after a line; a
recovery of four makes the flush that bounds the tail necessary. The two wide
units of the instance form a line feed across their boundary.

Two hosts are the smallest instance in which one is late, surplus or a
successor, and two proxies the smallest in which one starts what the other
waits for. Hosts are used up, as `SpawnFails` lets a proxy find.

Three calls on a hard limit of three with an allowance of two are enough for
two full claims, a partial one and a stub to meet. Two replace calls, two names
and one link are enough for locks to be wanted in both orders and for a file to
be reached by two names. Two updates are enough for one to find the lock taken,
to sweep the other's marker and to replace a version under it; with three
versions a later one can be downgraded to.

`MaxTrouble`, `MaxCrashes`, `MaxFaults` and `MaxUpsets` bound what goes wrong in
a run, and `MaxChecks`, `MaxOps` and `MaxBeside` what is begun. The theorems
hold without these bounds.

Fairness is stated in each module beside its reason: weak fairness of processes
and threads that wait for nobody, never of users, crashes, commands that end or
clients that come. Deadlock is not checked where everything may have come to
its end (all ids used, all requests finished, the session closed); it is checked
in `log_files` and `server_calls`.

What the passing properties leave out, on purpose, because the code does not
promise it:

- `RunningJobIsRegistered` and `RunningLimit` hold under `Timely`. After a launch
  slower than `STARTUP_TIMEOUT`, a supervisor that publishes its metadata between
  `start`'s last look (`shell/jobs/mod.rs:299`) and the removal of the directory
  would run on without one.
- `AnswersAreTrue` does not say that nothing of an answered foreground command
  runs any more. `terminate_tree` drops the error of its kill once the root is seen
  to have exited (`shell/process.rs:76`), and a descendant may have left the session.
  What it says: nobody holds the output of an answered command, and whoever is left
  had left the tree or could not be killed, by that call or when the process goes
  out of scope.
- `CursorFollowsPages` says that a page was rendered, not that it arrived, and not that
  a line is shown once.
- `UpdatesSettle` lets a new version hang until it reports its health, and supposes
  that one that has reported goes on to open its interface.
- `CrashEndsCommand` speaks of the root process. A watchdog that finds the root
  gone leaves its descendants alone (`shell/jobs/host.rs:815`).
- `LinesKeepTheirNumbers` excludes indexes torn as in observation 1, and tails of
  more than `MAX_RECOVERY_SCAN_BYTES`, which are recovered as one line
  (`shell/jobs/output_log.rs:726`). A tail can be that long and hold several lines
  only after a crash between the two writes of a flush.
- `HealthyIndex` is checked for content that does not begin like a byte-order
  mark: the reader guesses the encoding from the first bytes of the log
  (`shell/jobs/output_log.rs:704`), where the normalizer knew it from the raw
  stream.
- `ShutdownIsQuiet` speaks of hosts that scanned. A host that never completed a
  handshake knows no registry and leaves without a scan (`runtime/mod.rs:612`), and
  one whose scans failed for a whole window leaves on purpose.
- `LiveSessionsSurviveIdle` speaks of proxies in service. One whose handshake is
  still in the backlog when the host leaves falls back.
- `OnlyHealthyVersionsStay` excepts installations whose helper died with the lock
  or could not restore; `TerminalIsKept` excepts runs whose marker was swept.
- `PagesAreExact` leaves out files above the 64 MiB limit (observation 14), and
  `SerialEdits` the moment between the comparison and the rename
  (`edit/document.rs:195`): an outside save in it is lost. An edit that is not
  `direct`, because the call's symbolic link was turned after its first pass, is
  not kept apart from the edits of others (observation 15).

## 5. The proofs

Each theorem is about every value of the constants its module's ASSUME admits:
any number of processes, any bound, any number of failures. The bounds of the
runs are not in them. TLC checked each invariant before it was proved, on the
run of its module.

`OrderedWindowProofs` (the five assumptions of OrderedWindow: P is positive, Count
and GenLimit are naturals, requests and runners are finite, NoRequest is none). *What is counted*: `IInv` is the types, the range of the window,
the owners of tickets and of credits, and the equality of `live_slots` with the
number of occupied slots. The parts need each other. A claim never overwrites
a slot because two candidates of one window never share a position
(`ModUnique`), and that takes the window's range; without it a claim could
erase a ready slot and its credit. `SlotsInWindow` and `LanesAreShared` follow.
*Who owns*: `OwnersInv` adds that no slot is of a later generation than its
request (`GenBehind`), what a closed and a finished window look like
(`ClosedIsEmpty`, `DoneIsClosed`), and that a running slot and its runner point
at each other. `SlotsAreOwned` needs a count on top: the running slots are
injected into the permit holders and the ready ones into the credits in flight,
so that one lane always stays. *Refinement*: `DeliveryInv` says, for each place
of the coordinator, which candidate it carries and that all before it were
delivered; with it every step maps to a step of OrderedDelivery or a stutter
(`InOrder`).

`JobRegistryProofs` (`RegistryAssumption`, `NoneIsNoEntry`: None is nobody and no
record, a process has one part). `IInv` has three layers. The calls: who is inside a locked call holds the
lock, so that the server that reserved an id is the only one to launch it. The
jobs: a reserved id that was not launched has no supervisor, and how far a
supervisor has come says what its command and its records are (`Lifecycle`).
The clients: what a client is reading is no older than what it was told. The
argument of the second layer is that every step but those of the job's own
supervisor, `Reserve` and `Launch` takes no job further (`Quiet`); the third
needs of the second only what never goes back (`Later`).

`LimitHolds` and `UnapplyEndsJobs` need a second invariant, `LInv`, and `Timely`. A
job counts from its launch on, before its command runs (`Live`). `ServerOK` and
`UnapplierOK` say that a scan that counts has seen every live job, and the
caller's own reservation, or has it still before it (`Seen`), so that between the
count and the launch there is room for one more; that an evicted job is past; and
that a start gives up its directory only when nothing will come up in it. What
was read of an entry may be old, but it bounds how far the supervisor has come
(`EntryOK`), and a reservation that looks abandoned is nobody's: the only place
`Timely` is needed for, together with the launch that gives up. `Registered`, that
what is coming up or reserved has its directory, is what makes the scans complete.
All steps but `Launch` only let jobs fade (`Fades`), and at a launch the lock keeps
everyone else out of the count. That the admission lock is held to the end of
`start` is used twice, for the count and for the removal of the reservation.

`OutputLogProofs` (`LogAssumption`: the limit has room for the header and one
entry, as `with_limit` demands, and an event fits into the buffer;
`ContentAssumption`: the content of a line holds no line ending, since the normalizer
splits there, `shell/normalize.rs:239`; `EventAssumption`: None is no event). `HardLimit` is
not inductive: what makes it so is that a line with content keeps its entry and
its line ending in reserve (`RoomToSeal`), that nothing is written before the
encoding is known (`StartFirst`), and that the index holds no more numbers than
the committed lines have, as long as no index write was torn (`IndexIsCounted`).
`TailIsFinal` rests on a second invariant, `Ending`: a dropped writer holds nothing
and is handed no event (`DroppedIsIdle`), only a dropped writer has a capture
notice, and the append that meets the limit seals its line, so that after its flush
there is neither a byte nor an entry to write (`TruncationFlushed`). The attempt to
prove it showed an error of the model: the drop of a writer left the bytes that it
could not write in `buffer`, where a later crash could still write them. In the
code they are gone with the `BufWriter`. A run with one failure cannot show it; with two
failures TLC finds it.

`ReadersAgree` and `NoticesAreTrue` are about the bytes themselves. `Structured` speaks of
the text, what is in the log and behind it in the buffer, as one sequence: each
committed line begins where the one before it ends (`Chained`), a line ending stands on
a unit boundary exactly where a line says so (`BreaksMatch`), only the last line may
lack one, and then nothing more is written (`CutIsLast`), the first two bytes tell the
encoding (`Marked`), and each number in the index is that of a committed line whose
bytes are in the log (`IndexHolds`). `Whole` and `Handed` say that a writer in use has the
text of all its lines in whole units and what it is handed: whether a line is in
progress is known twice, by the normalizer and by the writer, and they must agree. The
lemma the theorems turn on is `AllLinesAre`: splitting the tail behind the index
at its line endings gives the lines that the log holds whole and, perhaps, the
beginning of one more (`Found`). Its two halves, that every line ending found is the
end of a line and that every whole line is found, need the order of a finite set
of positions, and with it the least-number principle, which the library gives as a
statement about sets where it gives induction only with an operator as a parameter.
`ReadersHold` adds what a read under way has sampled, and that a cursor is at the
start, behind a line that is in the index, or behind the last line there will
ever be. For the notices, `Concluded` and `TruncationTrue` say that nothing is held back
where one is recorded, `Kept` that the count of a dropped writer, a cardinality, is that
of lines in the log to their last byte, and `Full` that the reserve is all that is left.
Both theorems suppose `NoFalseMark`: no content of a stream without a byte-order mark
begins with the first byte of one, which no UTF-8 text does (see `HealthyIndex` above).

`ControlProofs`, on ControlCenter (`ControlCenterAssumption`: None is nobody). `Inv` has a part
for each argument. `InstanceHolds`: who is between lock and unlock is the holder.
`Deserted` and `Served`: a session is open on both sides or its host crashed,
since a host begins to leave only without connections and accepts none
afterwards. `QuietMeansNoJobs`: from the scan to the departure, a job can only be
started by a handler, and the handler's guard restarts the idle clock that
`try_begin_shutdown` reads again. `SoleHost`: while nobody has given up, the
starter holds the startup lock until its host is reachable, and everyone after
it finds that host.

`ControlProofs`, on Terminal (`TerminalAssumption`: the two checkers of a terminal are
different, the jobs are finitely many positive numbers, 0 is the default preference;
`CheckAssumption`: there is a version before the running one and one after it). The
specification of Terminal has names of its own (`TerminalInit`, `TerminalSpec`), so
that one module can speak of both. `Steady` has a part for each group of the state
that a step can disturb:

- `ChecksOK`: what the cache and the checkers hold for the running version is newer
  than it (`ChecksAreSound`). That a checker finds a generation nobody uses is a
  pigeonhole: two records and two checkers, five generations.
- `SettingsOK` and `DashboardOK`: the settings that were read back are those of the
  file, and the output shown is of the job under the cursor. That there is one job
  at each place of the list (`Places`) is a bijection of a finite set, not an induction.
- `ViewOK`: an effect waits only on the screen that ordered it (`EffectsFit`), a
  failure offers again only what may be repeated, a failed kill only the job that is
  marked (`RetriesFit`), and while the answer of a check is awaited nothing else is
  under way (`GateFits`). Without `GateFits` an answer that comes late could replace
  the confirmation of a kill and leave its job marked.
- `FrameOK`: when a key is handled the frame on the terminal is the one that the
  state calls for. The answer of a check that comes after drawing does not break
  this, because no confirmation is open while one is awaited.

`Confirmed` follows: a key on a confirmation answers the frame that was drawn, and
a step that is no such key begins nothing that cannot be undone (`OthersAreHarmless`,
`OtherKeysAreHarmless`).

`ServerCallsProofs` (`CallsAssumption`: finitely many calls, a stub fits the
budget, the budget the hard limit, NoJob is no job). `Books` says where the
burst pool's numbers come from: the reserved tokens are those of the claims that
are out, counted as a set of pairs, and the unclaimed and active counts are the
numbers of calls with a ticket and of calls with a ticket or a claim. A claim
that ends gives back at least what it spends, because it was granted no more than
was free. `JobsBegin`, `JobsEnd` and `Anchored` are about the status line: one
call begins a job, what a call concluded about a finished job stays true, and
every line before a call's anchor is one that a rendered page or a caller accounts
for. `CursorFollows` states no more than that, and that the cursor never goes back: two
overlapping calls that anchor at one cursor both show what is behind it.

`UpdateProofs` (`UpdateAssumption`). An update is a run of four processes that
meet in files. `RunOK` says what is true of one run by itself: what there is
before the helper starts (`Untouched`), which ways each kind of installation
takes (`Launched`), what the process that the shell waits for still waits for
(`Followed`), and which sessions there can be (`Alone`). A lemma for each kind of
step shows that a run stays in order, and one that a step changes one run and
only sweeps the markers of others; `TerminalIsKept` is read off `RunOK`. Across
runs there are the lock (`Locked`), that a version that ran was confirmed
(`Proven`), and `Settled`: every installation is healthy or the lock's holder
works on it, and at each stage of the holder its installation is as `Stage`
says. A healthy version stays healthy, so only the holder can disturb `Settled`.
The proof found an error of an earlier form of the model: a helper that died
after its restoration had failed made the record of the failure disappear.
TLC does not reach it with one trouble; with two it does.

`ReplaceProofs` (`ReplaceAssumption`: there are finitely many names and one more
identity than names, and the locks on names have other keys than those on
identities, as locks.rs makes them). `CallOK` is what one call knows by itself:
its budget (`Budgeted`), that the matches it has written and those its plan still holds
together stay within the cap, and that from the comparison on the text in its
hands is the text it analysed (`Holding`). A plan's weight is counted as a set of
pairs, so that it needs no induction. `Moves` sums up what any step of a call does
to that call; `LocksMove` what it does to the locks: it keeps them, drops them
all, or takes a free one, and `LocksOf` says which it has at each place. `NoMarks`
is needed across calls: a silent call has left no mark in a file, nor in a text
that another call is about to write. `BlastRadius` follows. `NoCircularWait` holds
because the four locks of a file are taken in one order of kinds and all dropped
before the next file (`WaitsForFurther`): the order of the plans, by identity,
which the code takes care of, is not even needed. `Serializable` shows that every
step of Replace is a step of SerialEdits or a stutter: the comparison begins an
edit, and no other call edits the file because both would hold the lock on its
name; the rename finishes it, on an identity that no other name uses; whatever
else a call does is that it has, or takes up, no edit. The attempt to prove it showed
that an earlier form of SerialEdits promised too much, and that the run could not
show it: with two changes by others two edits of one name do overlap, when a link
is turned and the file is moved along (observation 15). `direct` is what
is true for any number of changes.

`HostConfigProofs` (`HostConfigAssumption`: the limits that a user sets are
other than those of the tiers, because one that equals the receipt's is FastCtx's own
to Unapply; a missing file is told from every content). `Typing` holds beside the kinds of the contents what a plan is: made from
one reading of the files (`MadeFrom`), with a list of what it changes that names each
file once (`Lists`), for Unapply the binary last. `Carrying` says which files still
hold what a commit put there: those before its index on the way forward, those up to
it on the way back, so that none is left when the rollback reports that it was
clean. `Windows` is what the comparisons are for: between a comparison and the rename
that relies on it the file is what was compared, unless another write fell between;
with `PlansKeepText`, that no plan changes a text it has read, `TextSurvives` follows.
`ReceiptUndoesApply` (theorem `ReceiptSuffices`) speaks of moments at which nothing is
in flight, so its invariant, `Sound`, must say what holds in the middle of a commit:

- `RestHolds`: between commits the files are `AtRest`. Each of the user's files is held
  to the receipt (`CodexHeld`, `AgentsHeld`: what undoing the receipt would give is what
  the user has), the receipt is `True` to what is installed, and the directory is there
  for the user's sake or the receipt knows that Apply made it (`DirHeld`).
- `MidHolds`: within commit s, which has written the files W, every other file still
  agrees with what the plan had read, those in W agree with the plan, and each file of
  the user is held to the receipt that its content belongs to, the old one outside W and
  the new one in it (`UnderWay`). A commit that has written nothing yet is as good as
  at rest, which is what a refusal, a rollback and a death before the first rename need.
- `OneAtATime` and `AllAware`: no two commits at once, and every plan was read when none
  was under way (`ReadWell`), both unless `taint` says otherwise.

The argument has three parts. Contents (`CodexApplied`, `CodexUnapplied`,
`AgentsRefreshed`, ...): writing a file of a plan carries it from being held to the old
receipt to being held to the new one, and taking it back reverses that (`OneMore`,
`OneLess`). Order: a commit that has written everything is at rest under its new receipt
(`Completed`, `GivenUp`); an Unapply may stop anywhere, because `InTurn` has it give
the receipt up after the files that the receipt accounts for (`Abandoned`). Processes:
a step of another process touches at most the user's part of a file, which both
invariants survive (`Undisturbed`, `RestKept`, `MidKept`, `Apart`).

The proof showed that an earlier form of the property promised
too much: with two operations begun beside others, a commit may start while an
Unapply removes what is left, which takes the new binary along (observation 16). The
run begins one and could not show it; two commits at once are now among what the
receipt is not held to.

Only model-checked:

- liveness (`RequestsEnd`, `JobsSettle`, `OutputSettles`, `CentersComeAndGo`,
  `UpdatesSettle`, `BlockingScreensEnd`), which is out of the prover's reach;
- the algorithms: what a recursive function computes for every input needs
  induction over data, which the installed provers cannot instantiate.

Every other invariant and action property that a run checks is a theorem.

## 6. Observations

What the code does that a reader of its documentation, or of its other parts,
might not expect, met while it was modelled. The properties above hold with all
of this in the models, or name the exception.

Jobs and their output

1. After an index write that failed half way, the whole block is appended again,
   off the entry boundary, and the index is damaged for good
   (`shell/jobs/output_log.rs:335`, `:200`).
2. Unapply ends the installation's processes one by one, watchdogs included
   (`control/apply.rs:744`): when a supervisor has just crashed, its watchdog may
   be gone before it acted, and the command runs on.
3. `find_record` reads the exit record before it asks whether the supervisor is
   alive (`shell/jobs/mod.rs:994`). A supervisor that writes its record and leaves
   in between makes the answer "its process ended without an exit record", and
   `job_kill` speaks of a job that "had already been interrupted" (`README.md:367`).
   The order is harmless the other way: `EndedStaysEnded`.
4. A UTF-16 or UTF-32 stream that ends inside a code unit makes the job claim that
   it reached its disk limit (`output_log.rs:292` against `model.rs:100`).
5. The status snapshot may bring back a finished job that was removed while it
   probed (`background.rs:90`); the next snapshot drops it. An explicit `after_seq`
   beyond the cursor moves the shared cursor over lines never shown, and the
   cursor advances although the request was cancelled.
6. A foreground window with dropped lines says "first k of total" though the first
   line retained is later. A command whose shell exits while the kill of its
   remaining tree is refused is answered as if the tree were gone, contrary to
   `foreground.rs:45` ("must not leave them outside this tool's lifetime"): the error
   of the kill is used only when the root never exits (`process.rs:82`). `ESC BEL` inside an OSC does not end it. The join of the
   reader in `foreground.rs:95` has no time-out.

Control center

7. A leaving host drops the instance lock (`runtime/mod.rs:448`) before its
   listener, whose drop removes the socket file by name (`runtime/local_ipc.rs:97`).
   A host that takes the lock in between loses its socket: nobody reaches it until
   it leaves for idleness, and new proxies fall back. It takes a host that comes up
   late.

Answers and budgets

8. `validate_run_budget` (`shell/output.rs:58`) does not count the transcoding,
   garble and apply_patch notes, nor a timed-out window that lost lines: a command
   that ran is answered "... TOKEN_BUDGET ... too small ... retry".
   `ErrorBudgetAdapter` may shorten that error so that `retry_after_budget_starvation`
   misses it; a late cancellation is not adapted.
9. `replace` writes its files and may then fail to render its report within the
   budget (`edit/replace.rs`, about 938 to 963); an exhausted burst turns the report
   into a stub that asks for a retry. The edit is then applied twice.
10. A last line that saturates the counter is answered "Partial... Continue with
    offset=N+1" (`README.md:186`). A continuation drops the caller's limit once it is
    satisfied. A file of a batch that shrank between validation and streaming is
    answered "budget too small".
11. The first page of a PDF of which no line fits is shown as "(no text layer)".
    Time in the queue of the PDF engine counts as a time-out, which disables PDFs
    until a restart; the message says "aborted", but the thread runs on with the lock.

Searching

12. Beyond 256 distinct failures, which details are listed depends on the schedule
    of the walk, contrary to `traversal.rs:73`.
13. "byte-identical" (`grep_tool.rs`, about 575) is not true of context lines;
    context after the probe entry is silently missing at the end of a page; the
    normalisation of a multi-line pattern turns `[^\n]` into `[^\r?\n]`.
14. A file above 64 MiB may be skipped on one page and counted on another.

Replace, configuration, diagnosis

15. The identity of a file is looked up after it was read, and an outside save
    between the last comparison and the rename is lost (`edit/document.rs:195`).
    The name that is locked is the one of the first pass (`edit/replace.rs:278`),
    the name that is written that of the second: when a symbolic link is turned in
    between and the file itself is moved to where the link leads now, two calls may
    edit one name at once, and both report success (contrary to `edit/locks.rs:1`,
    "serialize edits across aliases").
16. A plan's unchanged files are not compared again at the commit; Unapply with an
    empty plan removes `~/.fastctx`; it creates an empty `config.toml` again and
    removes tables that were the user's and empty; a crash in the middle of Apply
    loses the previous limit; `create_parent_chain` leaves directories after an early
    error; `synchronize_applied_guidance` leaves a stale hash in the receipt, and a
    receipt with legacy guidance is never refreshed. The last step of Unapply removes
    `~/.fastctx` as it finds it (`apply.rs:771`), with the binary and the receipt that
    an Apply has put there since the commit ended.
17. Saving settings writes the receipt that was read earlier (`settings.rs:952`,
    `:1208`).
18. The remedy for a broken fastedit setting never repairs it (`doctor.rs:777` against
    `apply.rs`, about 430). Inline tables pass Status, and Apply refuses them;
    `enabled=false` and extra keys are no drift. A request of the server that carries
    the awaited id is taken for the response. Nothing checks
    `replace.max_file_size_mib`.
19. On Windows a failing `GetProcessTimes` counts as an exit, contrary to "Inspection
    failure is not proof of parent death", and a PID already gone at `OpenProcess`
    turns the watch off. On Linux an unreadable `/proc` is taken for a process no
    longer of the installation. On macOS and other systems a signal goes to the PID
    after the last look.

Updates

20. The new version may report its health between the helper's last look and the
    time-out (`helper.rs:1066`, `:1091`, against `:416`): a healthy version is undone.
21. npm's roll-back installs `request.current_version`, so a later helper with an
    older plan may downgrade. Killing npm's child kills the node launcher only. The
    clean-up of old files removes the marker of a session that lasted a day
    (`helper.rs:84`). The time-out of `parent_exit` leaves the request file. The
    launcher reads "running" and then looks for a PID that may be dead.
22. `stable_version` (`check.rs:902`) allows build metadata that `validate_plan`
    refuses. "npm pending" is cached for a day. `safe_key` may give two registries one
    cache file. The comment at `check.rs`, about 393, is not true when both the removal
    and `record_failure` fail.

Control terminal

23. After a failed save, Esc drops the edits; after a failed first save of the
    language, Esc reaches the main screen without one. After Unapply the memory keeps
    preferences that the disk has lost, and Apply after it resets them; a failed
    reload of the settings after Apply lets the next save write the old receipt. A key
    typed while the start-up gate resolves acts on a screen not yet drawn.

## 7. What is not modelled

Translations are tables of text. Left out of the parts that are modelled, with
the reason in the notes of `PROJECT.json`: Windows pipes and job objects, the
layout of documents and reports, tool schemas and argument parsing, drawing, the
tokenizer, the regular expressions, ignore rules, decoders and renderers of the
libraries, and the network. Where such a part decides something, its verdict is
an input of the model.
