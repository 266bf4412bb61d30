---------------------------- MODULE ControlCenter ----------------------------
(***************************************************************************)
(* The control center of fastctx (src/src/runtime/): the stdio proxies of  *)
(* one user and one build, the hidden host process that they share and     *)
(* start on demand, the two lock files and the Unix socket between them,   *)
(* and the host's decision to leave when it is idle.                       *)
(*                                                                         *)
(* Each proxy makes at most one connection in its life.  A step is one     *)
(* system call on a lock, the socket or a process, or one critical section *)
(* of RuntimeActivity.  Durations are not modelled: a deadline may pass    *)
(* whenever its wait is under way, and the idle window passes as described *)
(* at IdleWindowPasses.                                                    *)
(***************************************************************************)
EXTENDS Naturals

CONSTANTS
    Proxies,  \* proxy processes, each one session of a client
    Hosts,    \* bound: host processes that are ever started
    None

ASSUME ControlCenterAssumption == None \notin Proxies \cup Hosts

VARIABLES
    proxy,     \* per proxy: where connect_or_start or forward_stdio is
    link,      \* per proxy: the host it connected to
    peer,      \* per proxy: the host's side of that connection
    request,   \* per proxy: its latest request
    starter,   \* holder of the startup lock
    host,      \* per host: where run_host_entry is
    instance,  \* holder of the instance lock
    socket,    \* the host whose listener bound the socket file, None: no file
    idle,      \* per host: last_activity lies a full idle window back
    sessions,  \* per host: control_paths is set by a first session
    monitor,   \* per host: where monitor_idle is
    candidate, \* per host: the idle candidate in the channel, and its reason
    failing,   \* per host: scan_failing_since
    jobs,      \* hosts that started background jobs that still run
    damaged,   \* a record of the job registry fails every scan
    gaveUp     \* history: a proxy stopped waiting for the host it started

proxyVars == <<proxy, link, peer, request>>
monitorVars == <<monitor, candidate, failing>>
registryVars == <<jobs, damaged>>
hostVars == <<host, instance, socket, sessions>>

vars == <<proxyVars, starter, hostVars, idle, monitorVars, registryVars, gaveUp>>

-----------------------------------------------------------------------------
(***************************************************************************)
(* States.                                                                 *)
(***************************************************************************)
ProxyStates ==
    {"absent",                     \* not started
     "connect",                    \* before the first connect
     "wait",                       \* for the startup lock
     "retry", "spawn", "poll",     \* under the startup lock
     "handshake", "reply",         \* connected, and handshake written
     "served",                     \* forwarding stdin
     "draining",                   \* stdin closed, answers owed
     "standalone",                 \* fallen back to a server of its own
     "failed",                     \* connection lost, error exit
     "gone"}

(* The states under the startup lock; a proxy that connected at once went  *)
(* to "handshake" without it.                                              *)
Starting == {"retry", "spawn", "poll"}
Establishing == {"handshake", "reply"}

PeerStates ==
    {"none", "queued",             \* in the backlog of the listener
     "accepted",                   \* counted, its handshake being read
     "serving", "refused", "closed"}

HostStates ==
    {"none", "boot",               \* runtime-bootstrap, then runtime-host
     "surplus",                    \* left: another host has the lock
     "locked", "cleared",          \* stale socket file still there, removed
     "accepting", "leaving",       \* the select loop, and after it
     "unlocked",                   \* instance lock dropped, listener not yet
     "gone", "crashed"}

Listening == {"accepting", "leaving", "unlocked"}
Running == {"boot", "locked", "cleared"} \cup Listening

(* Why the monitor proposes to leave: no session ever told it which        *)
(* registry to scan, the scan found no job, scans failed for a window.     *)
Reasons == {"unscanned", "quiet", "forced"}

(* ConnectionActivityGuard and RequestActivityGuard, counted per host.     *)
Connected(h) == {p \in Proxies : link[p] = h /\ peer[p] \in {"accepted", "serving"}}
InFlight(h) == {p \in Proxies : link[p] = h /\ request[p] = "running"}

ShutdownEligible_OnlyRequests(h) == InFlight(h) = {} /\ idle[h]

ShutdownEligible(h) == Connected(h) = {} /\ InFlight(h) = {} /\ idle[h]

Init ==
    /\ proxy = [p \in Proxies |-> "absent"]
    /\ link = [p \in Proxies |-> None]
    /\ peer = [p \in Proxies |-> "none"]
    /\ request = [p \in Proxies |-> "never"]
    /\ starter = None
    /\ host = [h \in Hosts |-> "none"]
    /\ instance = None
    /\ socket = None
    /\ idle = [h \in Hosts |-> FALSE]
    /\ sessions = [h \in Hosts |-> FALSE]
    /\ monitor = [h \in Hosts |-> "sleep"]
    /\ candidate = [h \in Hosts |-> "none"]
    /\ failing = [h \in Hosts |-> "no"]
    /\ jobs = {}
    /\ damaged = FALSE
    /\ gaveUp = FALSE

-----------------------------------------------------------------------------
(***************************************************************************)
(* A proxy: connect_or_start.  Every return drops the startup lock.        *)
(***************************************************************************)
Reachable == socket # None /\ host[socket] \in Listening

Connect(p) ==
    /\ Reachable
    /\ proxy' = [proxy EXCEPT ![p] = "handshake"]
    /\ link' = [link EXCEPT ![p] = socket]
    /\ peer' = [peer EXCEPT ![p] = "queued"]
    /\ UNCHANGED <<request, starter, hostVars, idle, monitorVars, registryVars, gaveUp>>

Goto(p, state) ==
    /\ proxy' = [proxy EXCEPT ![p] = state]
    /\ UNCHANGED <<link, peer, request, hostVars, idle, monitorVars, registryVars>>

Unlocking(p) == starter' = IF starter = p THEN None ELSE starter

Start(p) ==
    /\ proxy[p] = "absent"
    /\ Goto(p, "connect") /\ UNCHANGED <<starter, gaveUp>>

(* No private directory, or no lock file that can be locked.               *)
StartFails(p) ==
    /\ proxy[p] \in {"connect", "wait"}
    /\ Goto(p, "standalone") /\ UNCHANGED <<starter, gaveUp>>

FirstConnect(p) ==
    /\ proxy[p] = "connect"
    /\ \/ Connect(p)
       \/ ~Reachable /\ Goto(p, "wait") /\ UNCHANGED <<starter, gaveUp>>

AcquireStartupLock(p) ==
    /\ proxy[p] = "wait" /\ starter = None
    /\ starter' = p
    /\ Goto(p, "retry") /\ UNCHANGED gaveUp

SecondConnect_Skipped(p) ==
    /\ proxy[p] = "retry"
    /\ Goto(p, "spawn") /\ UNCHANGED <<starter, gaveUp>>

SecondConnect(p) ==
    /\ proxy[p] = "retry"
    /\ \/ Connect(p)
       \/ ~Reachable /\ Goto(p, "spawn") /\ UNCHANGED <<starter, gaveUp>>

NewHost == CHOOSE h \in Hosts : host[h] = "none"

SpawnBootstrap(p) ==
    /\ proxy[p] = "spawn"
    /\ \E h \in Hosts : host[h] = "none"
    /\ host' = [host EXCEPT ![NewHost] = "boot"]
    /\ proxy' = [proxy EXCEPT ![p] = "poll"]
    /\ UNCHANGED <<link, peer, request, starter, instance, socket, sessions, idle,
                   monitorVars, registryVars, gaveUp>>

SpawnFails(p) ==
    /\ proxy[p] = "spawn"
    /\ Goto(p, "standalone") /\ Unlocking(p) /\ UNCHANGED gaveUp

Poll(p) == proxy[p] = "poll" /\ Connect(p)

WriteHandshake(p) ==
    /\ proxy[p] = "handshake" /\ peer[p] # "closed"
    /\ Goto(p, "reply") /\ UNCHANGED <<starter, gaveUp>>

ReadReply(p) ==
    /\ proxy[p] = "reply" /\ peer[p] = "serving"
    /\ Goto(p, "served") /\ Unlocking(p) /\ UNCHANGED gaveUp

(* The host refuses the session, or its end of the connection is closed.   *)
Rejected(p) ==
    /\ proxy[p] \in Establishing /\ peer[p] \in {"refused", "closed"}
    /\ Goto(p, "standalone") /\ Unlocking(p) /\ UNCHANGED gaveUp

TimesOut_NotEstablishing(p) ==
    /\ \/ proxy[p] = "wait" /\ starter # None
       \/ proxy[p] = "poll" /\ ~Reachable
    /\ Goto(p, "standalone") /\ Unlocking(p)
    /\ gaveUp' = (gaveUp \/ proxy[p] = "poll")

(* The ten seconds of a wait are over; the lock and the connection are     *)
(* tried once more before a proxy gives up.                                *)
TimesOut(p) ==
    /\ \/ proxy[p] = "wait" /\ starter # None
       \/ proxy[p] = "poll" /\ ~Reachable
       \/ proxy[p] \in Establishing
    /\ Goto(p, "standalone") /\ Unlocking(p)
    /\ gaveUp' = (gaveUp \/ proxy[p] = "poll")

(***************************************************************************)
(* A proxy: forward_stdio.  The request handler counts from "running" on;  *)
(* an answer is in the connection once the handler has returned.           *)
(***************************************************************************)
Forward(p) ==
    /\ proxy[p] = "served" /\ peer[p] = "serving"
    /\ request[p] \in {"never", "answered"}
    /\ request' = [request EXCEPT ![p] = "sent"]
    /\ UNCHANGED <<proxy, link, peer, starter, hostVars, idle, monitorVars, registryVars,
                   gaveUp>>

InputCloses(p) ==
    /\ proxy[p] = "served"
    /\ Goto(p, IF request[p] = "never" THEN "gone" ELSE "draining")
    /\ UNCHANGED <<starter, gaveUp>>

(* The host closes the connection, or five seconds are over.               *)
Drained(p) ==
    /\ proxy[p] = "draining"
    /\ Goto(p, "gone") /\ UNCHANGED <<starter, gaveUp>>

ConnectionLost(p) ==
    /\ proxy[p] = "served" /\ peer[p] = "closed"
    /\ Goto(p, "failed") /\ UNCHANGED <<starter, gaveUp>>

(* A signal, the exit of the parent, or the end of a standalone session.   *)
Exits(p) ==
    /\ proxy[p] \notin {"absent", "failed", "gone"}
    /\ Goto(p, "gone") /\ Unlocking(p)
    /\ gaveUp' = (gaveUp \/ proxy[p] = "poll")

-----------------------------------------------------------------------------
(***************************************************************************)
(* The host: run_host_entry up to its accept loop.                         *)
(***************************************************************************)
HostGoto(h, state) ==
    /\ host' = [host EXCEPT ![h] = state]
    /\ UNCHANGED <<proxyVars, starter, sessions, monitorVars, registryVars, gaveUp>>

LockInstance_Anyway(h) ==
    /\ host[h] = "boot"
    /\ instance' = h
    /\ HostGoto(h, "locked") /\ UNCHANGED <<socket, idle>>

LockInstance(h) ==
    /\ host[h] = "boot" /\ instance = None
    /\ instance' = h
    /\ HostGoto(h, "locked") /\ UNCHANGED <<socket, idle>>

FindLocked(h) ==
    /\ host[h] = "boot" /\ instance # None
    /\ HostGoto(h, "surplus") /\ UNCHANGED <<instance, socket, idle>>

RemoveStaleSocket(h) ==
    /\ host[h] = "locked"
    /\ socket' = None
    /\ HostGoto(h, "cleared") /\ UNCHANGED <<instance, idle>>

Bind(h) ==
    /\ host[h] = "cleared" /\ socket = None
    /\ socket' = h
    /\ idle' = [idle EXCEPT ![h] = FALSE]
    /\ HostGoto(h, "accepting") /\ UNCHANGED instance

-----------------------------------------------------------------------------
(***************************************************************************)
(* The host: connections and requests.                                     *)
(***************************************************************************)
PeerGoto(p, state) ==
    /\ peer' = [peer EXCEPT ![p] = state]
    /\ UNCHANGED <<proxy, link, starter, host, instance, socket, monitorVars, damaged, gaveUp>>

Touched_Not(h) == idle

Touched(h) == [idle EXCEPT ![h] = FALSE]

Accept(p) ==
    /\ peer[p] = "queued" /\ host[link[p]] = "accepting"
    /\ idle' = Touched(link[p])
    /\ PeerGoto(p, "accepted") /\ UNCHANGED <<request, sessions, jobs>>

(* The handshake can be read once it is written, also from a proxy that    *)
(* did not wait for the answer.                                            *)
OpenSession(p) ==
    /\ peer[p] = "accepted" /\ proxy[p] # "handshake"
    /\ sessions' = [sessions EXCEPT ![link[p]] = TRUE]
    /\ PeerGoto(p, "serving") /\ UNCHANGED <<request, idle, jobs>>

RefuseSession(p) ==
    /\ peer[p] = "accepted" /\ proxy[p] # "handshake"
    /\ idle' = Touched(link[p])
    /\ PeerGoto(p, "refused") /\ UNCHANGED <<request, sessions, jobs>>

ReceiveRequest(p) ==
    /\ peer[p] = "serving" /\ request[p] = "sent"
    /\ request' = [request EXCEPT ![p] = "running"]
    /\ idle' = Touched(link[p])
    /\ PeerGoto(p, "serving") /\ UNCHANGED <<sessions, jobs>>

(* A handler may outlive its session; it may start a background job.       *)
FinishRequest(p) ==
    /\ request[p] = "running" /\ host[link[p]] # "crashed"
    /\ request' = [request EXCEPT ![p] = "answered"]
    /\ idle' = Touched(link[p])
    /\ jobs' \in {jobs, jobs \cup {link[p]}}
    /\ PeerGoto(p, peer[p]) /\ UNCHANGED sessions

(* The client is gone or its input has ended; after the grace period the   *)
(* service is cancelled, whether or not the handler has returned.          *)
EndSession(p) ==
    /\ peer[p] = "serving" /\ proxy[p] \in {"draining", "standalone", "gone"}
    /\ idle' = Touched(link[p])
    /\ PeerGoto(p, "closed") /\ UNCHANGED <<request, sessions, jobs>>

-----------------------------------------------------------------------------
(***************************************************************************)
(* The host: idle shutdown.                                                *)
(***************************************************************************)
MonitorGoto(h, state) ==
    /\ monitor' = [monitor EXCEPT ![h] = state]
    /\ UNCHANGED <<proxyVars, starter, hostVars, idle, registryVars, gaveUp>>

MonitorWakes(h) ==
    /\ monitor[h] = "sleep"
    /\ MonitorGoto(h, IF ~ShutdownEligible(h) THEN "sleep"
                      ELSE IF sessions[h] THEN "scan" ELSE "unscanned")
    /\ failing' = [failing EXCEPT ![h] = IF ShutdownEligible(h) THEN @ ELSE "no"]
    /\ UNCHANGED candidate

ScanFindsJobs(h) ==
    /\ monitor[h] = "scan" /\ ~damaged /\ jobs # {}
    /\ failing' = [failing EXCEPT ![h] = "no"]
    /\ MonitorGoto(h, "sleep") /\ UNCHANGED candidate

ScanFindsNone(h) ==
    /\ monitor[h] = "scan" /\ ~damaged /\ jobs = {}
    /\ failing' = [failing EXCEPT ![h] = "no"]
    /\ MonitorGoto(h, "recheck") /\ UNCHANGED candidate

ScanFails_Closed(h) ==
    /\ monitor[h] = "scan" /\ damaged
    /\ MonitorGoto(h, "sleep") /\ UNCHANGED <<candidate, failing>>

ScanFails(h) ==
    /\ monitor[h] = "scan" /\ damaged
    /\ failing' = [failing EXCEPT ![h] = IF @ = "no" THEN "since" ELSE @]
    /\ MonitorGoto(h, IF failing[h] = "window" THEN "forced" ELSE "sleep")
    /\ UNCHANGED candidate

Recheck(h) ==
    /\ monitor[h] = "recheck"
    /\ MonitorGoto(h, IF ShutdownEligible(h) THEN "quiet" ELSE "sleep")
    /\ UNCHANGED <<candidate, failing>>

SendCandidate(h) ==
    /\ monitor[h] \in Reasons /\ candidate[h] = "none"
    /\ candidate' = [candidate EXCEPT ![h] = monitor[h]]
    /\ MonitorGoto(h, "sleep") /\ UNCHANGED failing

(* try_begin_shutdown decides under the mutex of the activity: from then   *)
(* on no connection is accepted.                                           *)
TakeCandidate(h) ==
    /\ host[h] = "accepting" /\ candidate[h] # "none"
    /\ host' = [host EXCEPT ![h] = IF ShutdownEligible(h) THEN "leaving" ELSE @]
    /\ candidate' = [candidate EXCEPT ![h] = "none"]
    /\ UNCHANGED <<proxyVars, starter, instance, socket, sessions, idle, monitor, failing,
                   registryVars, gaveUp>>

(* What the process kept in memory about being idle is gone with it.       *)
Forgets(h) ==
    /\ idle' = [idle EXCEPT ![h] = FALSE]
    /\ monitor' = [monitor EXCEPT ![h] = "sleep"]
    /\ candidate' = [candidate EXCEPT ![h] = "none"]
    /\ failing' = [failing EXCEPT ![h] = "no"]

DropInstanceLock(h) ==
    /\ host[h] = "leaving"
    /\ host' = [host EXCEPT ![h] = "unlocked"]
    /\ instance' = None
    /\ Forgets(h)
    /\ UNCHANGED <<proxyVars, starter, socket, sessions, registryVars, gaveUp>>

(* Listener::drop removes whatever file has the socket's name; connections *)
(* it never accepted are closed with it.                                   *)
Closing(h) == [p \in Proxies |-> IF link[p] = h THEN "closed" ELSE peer[p]]

DropListener(h) ==
    /\ host[h] = "unlocked"
    /\ socket' = None
    /\ peer' = Closing(h)
    /\ host' = [host EXCEPT ![h] = "gone"]
    /\ UNCHANGED <<proxy, link, request, starter, instance, sessions, idle, monitorVars,
                   registryVars, gaveUp>>

(* An error exit, a panic or a kill.  The socket file stays behind.        *)
Crash(h) ==
    /\ host[h] \in Running
    /\ host' = [host EXCEPT ![h] = "crashed"]
    /\ instance' = IF instance = h THEN None ELSE instance
    /\ peer' = Closing(h)
    /\ Forgets(h)
    /\ UNCHANGED <<proxy, link, request, starter, socket, sessions, registryVars, gaveUp>>

-----------------------------------------------------------------------------
(***************************************************************************)
(* Time and the job registry.  An idle window is long against a scan and   *)
(* the delivery of a candidate, between which the monitor sleeps, so it    *)
(* ends only while the monitor sleeps and no candidate is on its way.      *)
(***************************************************************************)
Waiting(h) == host[h] = "accepting" /\ monitor[h] = "sleep" /\ candidate[h] = "none"

IdleWindowPasses(h) ==
    /\ Waiting(h) /\ ~idle[h]
    /\ idle' = [idle EXCEPT ![h] = TRUE]
    /\ UNCHANGED <<proxyVars, starter, hostVars, monitorVars, registryVars, gaveUp>>

FailureWindowPasses(h) ==
    /\ Waiting(h) /\ failing[h] = "since"
    /\ failing' = [failing EXCEPT ![h] = "window"]
    /\ UNCHANGED <<proxyVars, starter, hostVars, idle, monitor, candidate, registryVars,
                   gaveUp>>

RegistryChanges ==
    /\ \/ damaged' = ~damaged /\ UNCHANGED jobs
       \/ \E s \in jobs : jobs' = jobs \ {s} /\ UNCHANGED damaged
    /\ UNCHANGED <<proxyVars, starter, hostVars, idle, monitorVars, gaveUp>>

-----------------------------------------------------------------------------
ConnectOrStart(p) ==
    \/ FirstConnect(p) \/ AcquireStartupLock(p) \/ SecondConnect(p)
    \/ SpawnBootstrap(p) \/ SpawnFails(p) \/ Poll(p)
    \/ WriteHandshake(p) \/ ReadReply(p) \/ Rejected(p)

ForwardStdio(p) == Drained(p) \/ ConnectionLost(p)

ServeConnection(p) == OpenSession(p) \/ RefuseSession(p) \/ ReceiveRequest(p) \/ EndSession(p)

HostStarts(h) == LockInstance(h) \/ FindLocked(h) \/ RemoveStaleSocket(h) \/ Bind(h)

HostLeaves(h) == TakeCandidate(h) \/ DropInstanceLock(h) \/ DropListener(h)

Scan(h) == ScanFindsJobs(h) \/ ScanFindsNone(h) \/ ScanFails(h)

MonitorIdle(h) ==
    /\ host[h] = "accepting"
    /\ MonitorWakes(h) \/ Scan(h) \/ Recheck(h) \/ SendCandidate(h)

Next ==
    \/ \E p \in Proxies :
          \/ Start(p) \/ ConnectOrStart(p) \/ StartFails(p) \/ TimesOut(p)
          \/ Forward(p) \/ InputCloses(p) \/ ForwardStdio(p) \/ Exits(p)
          \/ Accept(p) \/ ServeConnection(p) \/ FinishRequest(p)
    \/ \E h \in Hosts :
          \/ HostStarts(h) \/ HostLeaves(h) \/ MonitorIdle(h) \/ Crash(h)
          \/ IdleWindowPasses(h) \/ FailureWindowPasses(h)
    \/ RegistryChanges

Spec == Init /\ [][Next]_vars

(* Proxies and hosts are processes of their own, deadlines and windows     *)
(* pass, a handler returns.  Nothing makes a client come or go or a start  *)
(* fail, and nothing makes the host accept: it may be out of file          *)
(* descriptors.  The window of failing scans passes while the monitor goes *)
(* round, hence SF.                                                        *)
Fairness ==
    /\ \A p \in Proxies :
          /\ WF_vars(ConnectOrStart(p) \/ ForwardStdio(p)) /\ WF_vars(TimesOut(p))
          /\ WF_vars(ServeConnection(p)) /\ WF_vars(FinishRequest(p))
    /\ \A h \in Hosts :
          /\ WF_vars(HostStarts(h) \/ HostLeaves(h)) /\ WF_vars(MonitorIdle(h))
          /\ WF_vars(IdleWindowPasses(h)) /\ SF_vars(FailureWindowPasses(h))

FairSpec == Spec /\ Fairness

-----------------------------------------------------------------------------
(***************************************************************************)
(* Properties.                                                             *)
(***************************************************************************)

(* Every variable keeps its type, and only a proxy on its way to a server  *)
(* holds the startup lock: whichever way connect_or_start returns, the     *)
(* next proxy can have it.                                                 *)
TypeOK ==
    /\ proxy \in [Proxies -> ProxyStates]
    /\ link \in [Proxies -> Hosts \cup {None}]
    /\ peer \in [Proxies -> PeerStates]
    /\ request \in [Proxies -> {"never", "sent", "running", "answered"}]
    /\ starter \in Proxies \cup {None}
    /\ \A p \in Proxies : starter = p => proxy[p] \in Starting \cup Establishing
    /\ host \in [Hosts -> HostStates]
    /\ instance \in Hosts \cup {None}
    /\ socket \in Hosts \cup {None}
    /\ idle \in [Hosts -> BOOLEAN]
    /\ sessions \in [Hosts -> BOOLEAN]
    /\ monitor \in [Hosts -> {"sleep", "scan", "recheck"} \cup Reasons]
    /\ candidate \in [Hosts -> {"none"} \cup Reasons]
    /\ failing \in [Hosts -> {"no", "since", "window"}]
    /\ jobs \subseteq Hosts
    /\ damaged \in BOOLEAN
    /\ gaveUp \in BOOLEAN

(* However many bootstraps run at once, and in whatever state an earlier   *)
(* host left the socket file, one host at a time gets as far as the socket *)
(* and the accept loop.                                                    *)
OneHost ==
    \A g, h \in Hosts :
        host[g] \in {"locked", "cleared", "accepting", "leaving"}
            /\ host[h] \in {"locked", "cleared", "accepting", "leaving"} => g = h

(* A live proxy loses its connection only to a crash: no idle shutdown, at *)
(* whatever moment the connection was made or a request came, cuts a       *)
(* session whose proxy still forwards input.                               *)
LiveSessionsSurviveIdle ==
    \A p \in Proxies : proxy[p] = "failed" => host[link[p]] = "crashed"

(* A host that leaves because it found no job leaves none running that a   *)
(* control center started: though it scanned without any lock, and a       *)
(* session may have come, started a job and gone since.                    *)
ShutdownIsQuiet ==
    [][\A h \in Hosts :
          host[h] = "accepting" /\ host'[h] = "leaving" /\ candidate[h] = "quiet"
              => jobs = {}]_vars

(* Proxies that come at the same time start exactly one control center: a  *)
(* second host process, which finds the instance lock taken, is started    *)
(* only after some proxy has stopped waiting for the one it had started.   *)
StartsExactlyOne == (\E h \in Hosts : host[h] = "surplus") => gaveUp

(* One control center at a time, and no process started in vain.           *)
OneControlCenter == OneHost /\ StartsExactlyOne

(* Every proxy gets a server, the shared one or its own, whether hosts     *)
(* crash, never come up, accept nothing or leave at the wrong moment.      *)
EveryProxyIsServed ==
    \A p \in Proxies : proxy[p] = "connect" ~> proxy[p] \in {"served", "standalone", "gone"}

(* Once no proxy is connected and no job runs, no host stays: not for a    *)
(* damaged job record, nor for connections that nobody waits on.           *)
IdleHostExits ==
    (/\ <>[](\A p \in Proxies : proxy[p] \in {"absent", "standalone", "failed", "gone"})
     /\ <>[](jobs = {}))
        => <>[](\A h \in Hosts : host[h] \notin Running)

(* Proxies get their server, and servers that nobody needs go.             *)
CentersComeAndGo == EveryProxyIsServed /\ IdleHostExits
=============================================================================
