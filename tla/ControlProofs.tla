---------------------------- MODULE ControlProofs ----------------------------
(***************************************************************************)
(* Proofs about ControlCenter, the host process that the proxies share,    *)
(* for any number of proxies and of hosts; and about Terminal, the screens *)
(* that configure it, for any jobs and preferences.                        *)
(***************************************************************************)
EXTENDS ControlCenter, Terminal, FiniteSetTheorems, TLAPS

USE ControlCenterAssumption

-----------------------------------------------------------------------------
(***************************************************************************)
(* The inductive invariant.                                                *)
(***************************************************************************)
Owning == {"locked", "cleared", "accepting", "leaving"}

(* A proxy without a connection has nothing to do with any host, and a     *)
(* connection leads to a host that once listened; it is the only one.      *)
Linked ==
    \A p \in Proxies :
        /\ link[p] = None =>
              /\ peer[p] = "none" /\ request[p] = "never"
              /\ proxy[p] \notin Establishing \cup {"served", "draining", "failed"}
        /\ link[p] # None => /\ host[link[p]] \in Listening \cup {"gone", "crashed"}
                             /\ proxy[p] \notin {"absent", "connect", "wait"} \cup Starting

(* The two locks.                                                          *)
StarterHolds == \A p \in Proxies : proxy[p] \in Starting => starter = p

InstanceHolds == \A h \in Hosts : host[h] \in Owning <=> instance = h

(* A host that leaves has no session and no handler, and gets none.        *)
Deserted ==
    \A p \in Proxies :
        link[p] # None /\ host[link[p]] \in {"leaving", "unlocked", "gone"} =>
            peer[p] \notin {"accepted", "serving"} /\ request[p] # "running"

(* A proxy in service is served, unless its host has crashed.              *)
Served ==
    \A p \in Proxies :
        /\ proxy[p] = "served" => \/ peer[p] = "serving"
                                  \/ peer[p] = "closed" /\ host[link[p]] = "crashed"
        /\ proxy[p] = "failed" => host[link[p]] = "crashed"

(* Since a scan found no job, none was started or the idle clock restarted.*)
QuietMeansNoJobs ==
    \A h \in Hosts :
        (/\ host[h] = "accepting"
         /\ monitor[h] \in {"recheck", "quiet"} \/ candidate[h] = "quiet")
            => jobs = {} \/ ~idle[h]

(* As long as every starter waits for its host, there is one host process  *)
(* at most; while it comes up its starter polls, and then it is reachable. *)
SoleHost ==
    ~gaveUp =>
        /\ \A h \in Hosts : host[h] # "surplus"
        /\ \A g, h \in Hosts : host[g] \in Running /\ host[h] \in Running => g = h
        /\ \A h \in Hosts : host[h] \in {"boot", "locked", "cleared"} =>
              starter # None /\ proxy[starter] = "poll"
        /\ \A h \in Hosts : host[h] \in Listening => socket = h
        /\ \A p \in Proxies : proxy[p] = "spawn" => \A h \in Hosts : host[h] \notin Running

Inv ==
    /\ TypeOK /\ Linked /\ StarterHolds /\ InstanceHolds
    /\ Deserted /\ Served /\ QuietMeansNoJobs /\ SoleHost

-----------------------------------------------------------------------------
(***************************************************************************)
(* Each part is inductive relative to the parts before it.  The actions    *)
(* that do not touch its variables are one case.                           *)
(***************************************************************************)
(* Every action keeps the types.                                           *)
LEMMA TypedStep ==
    ASSUME TypeOK, Linked, Next
    PROVE  TypeOK'
  <1> USE DEF TypeOK, ProxyStates, PeerStates, HostStates, Reasons, Starting,
          Establishing, proxyVars, monitorVars, registryVars, hostVars, Linked
  <1>1. ASSUME NEW p \in Proxies, Start(p)
        PROVE  TypeOK'
    BY <1>1 DEF Start, Goto
  <1>2. ASSUME NEW p \in Proxies, StartFails(p)
        PROVE  TypeOK'
    BY <1>2 DEF StartFails, Goto
  <1>3. ASSUME NEW p \in Proxies, FirstConnect(p)
        PROVE  TypeOK'
    BY <1>3 DEF FirstConnect, Connect, Goto, Reachable
  <1>4. ASSUME NEW p \in Proxies, AcquireStartupLock(p)
        PROVE  TypeOK'
    BY <1>4 DEF AcquireStartupLock, Goto
  <1>5. ASSUME NEW p \in Proxies, SecondConnect(p)
        PROVE  TypeOK'
    BY <1>5 DEF SecondConnect, Connect, Goto, Reachable
  <1>6. ASSUME NEW p \in Proxies, SpawnBootstrap(p)
        PROVE  TypeOK'
    BY <1>6 DEF SpawnBootstrap, NewHost
  <1>7. ASSUME NEW p \in Proxies, SpawnFails(p)
        PROVE  TypeOK'
    BY <1>7 DEF SpawnFails, Goto, Unlocking
  <1>8. ASSUME NEW p \in Proxies, Poll(p)
        PROVE  TypeOK'
    BY <1>8 DEF Poll, Connect, Reachable
  <1>9. ASSUME NEW p \in Proxies, WriteHandshake(p)
        PROVE  TypeOK'
    BY <1>9 DEF WriteHandshake, Goto
  <1>10. ASSUME NEW p \in Proxies, ReadReply(p)
        PROVE  TypeOK'
    BY <1>10 DEF ReadReply, Goto, Unlocking
  <1>11. ASSUME NEW p \in Proxies, Rejected(p)
        PROVE  TypeOK'
    BY <1>11 DEF Rejected, Goto, Unlocking
  <1>12. ASSUME NEW p \in Proxies, TimesOut(p)
        PROVE  TypeOK'
    BY <1>12 DEF TimesOut, Goto, Unlocking, Reachable
  <1>13. ASSUME NEW p \in Proxies, Forward(p)
        PROVE  TypeOK'
    BY <1>13 DEF Forward
  <1>14. ASSUME NEW p \in Proxies, InputCloses(p)
        PROVE  TypeOK'
    BY <1>14 DEF InputCloses, Goto
  <1>15. ASSUME NEW p \in Proxies, Drained(p)
        PROVE  TypeOK'
    BY <1>15 DEF Drained, Goto
  <1>16. ASSUME NEW p \in Proxies, ConnectionLost(p)
        PROVE  TypeOK'
    BY <1>16 DEF ConnectionLost, Goto
  <1>17. ASSUME NEW p \in Proxies, Exits(p)
        PROVE  TypeOK'
    BY <1>17 DEF Exits, Goto, Unlocking
  <1>18. ASSUME NEW p \in Proxies, Accept(p)
        PROVE  TypeOK'
    BY <1>18 DEF Accept, PeerGoto, Touched
  <1>19. ASSUME NEW p \in Proxies, OpenSession(p)
        PROVE  TypeOK'
    BY <1>19 DEF OpenSession, PeerGoto
  <1>20. ASSUME NEW p \in Proxies, RefuseSession(p)
        PROVE  TypeOK'
    BY <1>20 DEF RefuseSession, PeerGoto, Touched
  <1>21. ASSUME NEW p \in Proxies, ReceiveRequest(p)
        PROVE  TypeOK'
    BY <1>21 DEF ReceiveRequest, PeerGoto, Touched
  <1>22. ASSUME NEW p \in Proxies, EndSession(p)
        PROVE  TypeOK'
    BY <1>22 DEF EndSession, PeerGoto, Touched
  <1>23. ASSUME NEW p \in Proxies, FinishRequest(p)
        PROVE  TypeOK'
    BY <1>23 DEF FinishRequest, PeerGoto, Touched
  <1>24. ASSUME NEW h \in Hosts, LockInstance(h)
        PROVE  TypeOK'
    BY <1>24 DEF LockInstance, HostGoto
  <1>25. ASSUME NEW h \in Hosts, FindLocked(h)
        PROVE  TypeOK'
    BY <1>25 DEF FindLocked, HostGoto
  <1>26. ASSUME NEW h \in Hosts, RemoveStaleSocket(h)
        PROVE  TypeOK'
    BY <1>26 DEF RemoveStaleSocket, HostGoto
  <1>27. ASSUME NEW h \in Hosts, Bind(h)
        PROVE  TypeOK'
    BY <1>27 DEF Bind, HostGoto
  <1>28. ASSUME NEW h \in Hosts, TakeCandidate(h)
        PROVE  TypeOK'
    BY <1>28 DEF TakeCandidate, ShutdownEligible, Connected, InFlight
  <1>29. ASSUME NEW h \in Hosts, DropInstanceLock(h)
        PROVE  TypeOK'
    BY <1>29 DEF DropInstanceLock, Forgets
  <1>30. ASSUME NEW h \in Hosts, DropListener(h)
        PROVE  TypeOK'
    BY <1>30 DEF DropListener, Closing
  <1>31. ASSUME NEW h \in Hosts, MonitorWakes(h)
        PROVE  TypeOK'
    BY <1>31 DEF MonitorWakes, MonitorGoto
  <1>32. ASSUME NEW h \in Hosts, ScanFindsJobs(h)
        PROVE  TypeOK'
    BY <1>32 DEF ScanFindsJobs, MonitorGoto
  <1>33. ASSUME NEW h \in Hosts, ScanFindsNone(h)
        PROVE  TypeOK'
    BY <1>33 DEF ScanFindsNone, MonitorGoto
  <1>34. ASSUME NEW h \in Hosts, ScanFails(h)
        PROVE  TypeOK'
    BY <1>34 DEF ScanFails, MonitorGoto
  <1>35. ASSUME NEW h \in Hosts, Recheck(h)
        PROVE  TypeOK'
    BY <1>35 DEF Recheck, MonitorGoto
  <1>36. ASSUME NEW h \in Hosts, SendCandidate(h)
        PROVE  TypeOK'
    BY <1>36 DEF SendCandidate, MonitorGoto
  <1>37. ASSUME NEW h \in Hosts, Crash(h)
        PROVE  TypeOK'
    BY <1>37 DEF Crash, Closing, Forgets, Running, Listening
  <1>38. ASSUME NEW h \in Hosts, IdleWindowPasses(h)
        PROVE  TypeOK'
    BY <1>38 DEF IdleWindowPasses, Waiting
  <1>39. ASSUME NEW h \in Hosts, FailureWindowPasses(h)
        PROVE  TypeOK'
    BY <1>39 DEF FailureWindowPasses, Waiting
  <1>40. CASE RegistryChanges
    BY <1>40 DEF RegistryChanges
  <1> HIDE DEF TypeOK, ProxyStates, PeerStates, HostStates, Reasons, Starting,
          Establishing, proxyVars, monitorVars, registryVars, hostVars, Linked
  <1> QED
    BY <1>1, <1>2, <1>3, <1>4, <1>5, <1>6, <1>7, <1>8, <1>9, <1>10, <1>11, <1>12, <1>13,
        <1>14, <1>15, <1>16, <1>17, <1>18, <1>19, <1>20, <1>21, <1>22, <1>23, <1>24,
        <1>25, <1>26, <1>27, <1>28, <1>29, <1>30, <1>31, <1>32, <1>33, <1>34, <1>35,
        <1>36, <1>37, <1>38, <1>39, <1>40 DEF Next, ConnectOrStart, ForwardStdio,
        ServeConnection, HostStarts, HostLeaves, MonitorIdle, Scan

(* A connection is made once, to a host that listens.                      *)
LEMMA LinkedStep ==
    ASSUME TypeOK, Linked, Next
    PROVE  Linked'
  <1> USE DEF TypeOK, Linked, Establishing, Listening, Starting, proxyVars,
          monitorVars, registryVars, hostVars
  <1>1. ASSUME NEW p \in Proxies, Start(p)
        PROVE  Linked'
    BY <1>1 DEF Start, Goto
  <1>2. ASSUME NEW p \in Proxies, StartFails(p)
        PROVE  Linked'
    BY <1>2 DEF StartFails, Goto
  <1>3. ASSUME NEW p \in Proxies, FirstConnect(p)
        PROVE  Linked'
    BY <1>3 DEF FirstConnect, Connect, Goto, Reachable
  <1>4. ASSUME NEW p \in Proxies, AcquireStartupLock(p)
        PROVE  Linked'
    BY <1>4 DEF AcquireStartupLock, Goto
  <1>5. ASSUME NEW p \in Proxies, SecondConnect(p)
        PROVE  Linked'
    BY <1>5 DEF SecondConnect, Connect, Goto, Reachable
  <1>6. ASSUME NEW p \in Proxies, SpawnBootstrap(p)
        PROVE  Linked'
    BY <1>6 DEF SpawnBootstrap, NewHost
  <1>7. ASSUME NEW p \in Proxies, SpawnFails(p)
        PROVE  Linked'
    BY <1>7 DEF SpawnFails, Goto, Unlocking
  <1>8. ASSUME NEW p \in Proxies, Poll(p)
        PROVE  Linked'
    BY <1>8 DEF Poll, Connect, Reachable
  <1>9. ASSUME NEW p \in Proxies, WriteHandshake(p)
        PROVE  Linked'
    BY <1>9 DEF WriteHandshake, Goto
  <1>10. ASSUME NEW p \in Proxies, ReadReply(p)
        PROVE  Linked'
    BY <1>10 DEF ReadReply, Goto, Unlocking
  <1>11. ASSUME NEW p \in Proxies, Rejected(p)
        PROVE  Linked'
    BY <1>11 DEF Rejected, Goto, Unlocking
  <1>12. ASSUME NEW p \in Proxies, TimesOut(p)
        PROVE  Linked'
    BY <1>12 DEF TimesOut, Goto, Unlocking, Reachable
  <1>13. ASSUME NEW p \in Proxies, Forward(p)
        PROVE  Linked'
    BY <1>13 DEF Forward
  <1>14. ASSUME NEW p \in Proxies, InputCloses(p)
        PROVE  Linked'
    BY <1>14 DEF InputCloses, Goto
  <1>15. ASSUME NEW p \in Proxies, Drained(p)
        PROVE  Linked'
    BY <1>15 DEF Drained, Goto
  <1>16. ASSUME NEW p \in Proxies, ConnectionLost(p)
        PROVE  Linked'
    BY <1>16 DEF ConnectionLost, Goto
  <1>17. ASSUME NEW p \in Proxies, Exits(p)
        PROVE  Linked'
    BY <1>17 DEF Exits, Goto, Unlocking
  <1>18. ASSUME NEW p \in Proxies, Accept(p)
        PROVE  Linked'
    BY <1>18 DEF Accept, PeerGoto, Touched
  <1>19. ASSUME NEW p \in Proxies, OpenSession(p)
        PROVE  Linked'
    BY <1>19 DEF OpenSession, PeerGoto
  <1>20. ASSUME NEW p \in Proxies, RefuseSession(p)
        PROVE  Linked'
    BY <1>20 DEF RefuseSession, PeerGoto, Touched
  <1>21. ASSUME NEW p \in Proxies, ReceiveRequest(p)
        PROVE  Linked'
    BY <1>21 DEF ReceiveRequest, PeerGoto, Touched
  <1>22. ASSUME NEW p \in Proxies, EndSession(p)
        PROVE  Linked'
    BY <1>22 DEF EndSession, PeerGoto, Touched
  <1>23. ASSUME NEW p \in Proxies, FinishRequest(p)
        PROVE  Linked'
    BY <1>23 DEF FinishRequest, PeerGoto, Touched
  <1>24. ASSUME NEW h \in Hosts, LockInstance(h)
        PROVE  Linked'
    BY <1>24 DEF LockInstance, HostGoto
  <1>25. ASSUME NEW h \in Hosts, FindLocked(h)
        PROVE  Linked'
    BY <1>25 DEF FindLocked, HostGoto
  <1>26. ASSUME NEW h \in Hosts, RemoveStaleSocket(h)
        PROVE  Linked'
    BY <1>26 DEF RemoveStaleSocket, HostGoto
  <1>27. ASSUME NEW h \in Hosts, Bind(h)
        PROVE  Linked'
    BY <1>27 DEF Bind, HostGoto
  <1>28. ASSUME NEW h \in Hosts, TakeCandidate(h)
        PROVE  Linked'
    BY <1>28 DEF TakeCandidate, ShutdownEligible, Connected, InFlight
  <1>29. ASSUME NEW h \in Hosts, DropInstanceLock(h)
        PROVE  Linked'
    BY <1>29 DEF DropInstanceLock, Forgets
  <1>30. ASSUME NEW h \in Hosts, DropListener(h)
        PROVE  Linked'
    BY <1>30 DEF DropListener, Closing
  <1>31. ASSUME NEW h \in Hosts, Crash(h)
        PROVE  Linked'
    BY <1>31 DEF Crash, Closing, Forgets, Running
  <1>32. ASSUME NEW h \in Hosts,
               MonitorWakes(h) \/ ScanFindsJobs(h) \/ ScanFindsNone(h) \/
               ScanFails(h) \/ Recheck(h) \/ SendCandidate(h) \/ IdleWindowPasses(h)
               \/ FailureWindowPasses(h)
        PROVE  Linked'
    <2>1. UNCHANGED <<proxy, link, peer, request, host>>
      BY <1>32 DEF MonitorWakes, ScanFindsJobs, ScanFindsNone, ScanFails, Recheck,
          SendCandidate, IdleWindowPasses, FailureWindowPasses, MonitorGoto
    <2> QED
      BY <2>1
  <1>33. CASE RegistryChanges
    <2>1. UNCHANGED <<proxy, link, peer, request, host>>
      BY <1>33 DEF RegistryChanges
    <2> QED
      BY <2>1
  <1> HIDE DEF TypeOK, Linked, Establishing, Listening, Starting, proxyVars,
          monitorVars, registryVars, hostVars
  <1> QED
    BY <1>1, <1>2, <1>3, <1>4, <1>5, <1>6, <1>7, <1>8, <1>9, <1>10, <1>11, <1>12, <1>13,
        <1>14, <1>15, <1>16, <1>17, <1>18, <1>19, <1>20, <1>21, <1>22, <1>23, <1>24,
        <1>25, <1>26, <1>27, <1>28, <1>29, <1>30, <1>31, <1>32, <1>33 DEF Next,
        ConnectOrStart, ForwardStdio, ServeConnection, HostStarts, HostLeaves,
        MonitorIdle, Scan

(* Whoever is between its two locks holds the first.                       *)
LEMMA StarterStep ==
    ASSUME TypeOK, StarterHolds, Next
    PROVE  StarterHolds'
  <1> USE DEF TypeOK, StarterHolds, Establishing, Starting, proxyVars, monitorVars,
          registryVars, hostVars
  <1>1. ASSUME NEW p \in Proxies, Start(p)
        PROVE  StarterHolds'
    BY <1>1 DEF Start, Goto
  <1>2. ASSUME NEW p \in Proxies, StartFails(p)
        PROVE  StarterHolds'
    BY <1>2 DEF StartFails, Goto
  <1>3. ASSUME NEW p \in Proxies, FirstConnect(p)
        PROVE  StarterHolds'
    BY <1>3 DEF FirstConnect, Connect, Goto, Reachable
  <1>4. ASSUME NEW p \in Proxies, AcquireStartupLock(p)
        PROVE  StarterHolds'
    BY <1>4 DEF AcquireStartupLock, Goto
  <1>5. ASSUME NEW p \in Proxies, SecondConnect(p)
        PROVE  StarterHolds'
    BY <1>5 DEF SecondConnect, Connect, Goto, Reachable
  <1>6. ASSUME NEW p \in Proxies, SpawnBootstrap(p)
        PROVE  StarterHolds'
    BY <1>6 DEF SpawnBootstrap
  <1>7. ASSUME NEW p \in Proxies, SpawnFails(p)
        PROVE  StarterHolds'
    BY <1>7 DEF SpawnFails, Goto, Unlocking
  <1>8. ASSUME NEW p \in Proxies, Poll(p)
        PROVE  StarterHolds'
    BY <1>8 DEF Poll, Connect, Reachable
  <1>9. ASSUME NEW p \in Proxies, WriteHandshake(p)
        PROVE  StarterHolds'
    BY <1>9 DEF WriteHandshake, Goto
  <1>10. ASSUME NEW p \in Proxies, ReadReply(p)
        PROVE  StarterHolds'
    BY <1>10 DEF ReadReply, Goto, Unlocking
  <1>11. ASSUME NEW p \in Proxies, Rejected(p)
        PROVE  StarterHolds'
    BY <1>11 DEF Rejected, Goto, Unlocking
  <1>12. ASSUME NEW p \in Proxies, TimesOut(p)
        PROVE  StarterHolds'
    BY <1>12 DEF TimesOut, Goto, Unlocking, Reachable
  <1>13. ASSUME NEW p \in Proxies, InputCloses(p)
        PROVE  StarterHolds'
    BY <1>13 DEF InputCloses, Goto
  <1>14. ASSUME NEW p \in Proxies, Drained(p)
        PROVE  StarterHolds'
    BY <1>14 DEF Drained, Goto
  <1>15. ASSUME NEW p \in Proxies, ConnectionLost(p)
        PROVE  StarterHolds'
    BY <1>15 DEF ConnectionLost, Goto
  <1>16. ASSUME NEW p \in Proxies, Exits(p)
        PROVE  StarterHolds'
    BY <1>16 DEF Exits, Goto, Unlocking
  <1>17. ASSUME NEW p \in Proxies,
               Forward(p) \/ Accept(p) \/ OpenSession(p) \/ RefuseSession(p) \/
               ReceiveRequest(p) \/ EndSession(p) \/ FinishRequest(p)
        PROVE  StarterHolds'
    <2>1. UNCHANGED <<proxy, starter>>
      BY <1>17 DEF Forward, Accept, OpenSession, RefuseSession, ReceiveRequest,
          EndSession, FinishRequest, PeerGoto, Touched
    <2> QED
      BY <2>1
  <1>18. ASSUME NEW h \in Hosts,
               LockInstance(h) \/ FindLocked(h) \/ RemoveStaleSocket(h) \/ Bind(h)
               \/ TakeCandidate(h) \/ DropInstanceLock(h) \/ DropListener(h) \/
               MonitorWakes(h) \/ ScanFindsJobs(h) \/ ScanFindsNone(h) \/
               ScanFails(h) \/ Recheck(h) \/ SendCandidate(h) \/ Crash(h) \/
               IdleWindowPasses(h) \/ FailureWindowPasses(h)
        PROVE  StarterHolds'
    <2>1. UNCHANGED <<proxy, starter>>
      BY <1>18 DEF LockInstance, FindLocked, RemoveStaleSocket, Bind, TakeCandidate,
          DropInstanceLock, DropListener, MonitorWakes, ScanFindsJobs,
          ScanFindsNone, ScanFails, Recheck, SendCandidate, Crash, IdleWindowPasses,
          FailureWindowPasses, Forgets, HostGoto, MonitorGoto
    <2> QED
      BY <2>1
  <1>19. CASE RegistryChanges
    <2>1. UNCHANGED <<proxy, starter>>
      BY <1>19 DEF RegistryChanges
    <2> QED
      BY <2>1
  <1> HIDE DEF TypeOK, StarterHolds, Establishing, Starting, proxyVars, monitorVars,
          registryVars, hostVars
  <1> QED
    BY <1>1, <1>2, <1>3, <1>4, <1>5, <1>6, <1>7, <1>8, <1>9, <1>10, <1>11, <1>12, <1>13,
        <1>14, <1>15, <1>16, <1>17, <1>18, <1>19 DEF Next, ConnectOrStart,
        ForwardStdio, ServeConnection, HostStarts, HostLeaves, MonitorIdle, Scan

(* Owner and owned: the instance lock and the host that holds it.          *)
LEMMA InstanceStep ==
    ASSUME TypeOK, InstanceHolds, Next
    PROVE  InstanceHolds'
  <1> USE DEF TypeOK, InstanceHolds, Owning, proxyVars, monitorVars, registryVars,
          hostVars
  <1>1. ASSUME NEW p \in Proxies, SpawnBootstrap(p)
        PROVE  InstanceHolds'
    BY <1>1 DEF SpawnBootstrap, NewHost
  <1>2. ASSUME NEW h \in Hosts, LockInstance(h)
        PROVE  InstanceHolds'
    BY <1>2 DEF LockInstance, HostGoto
  <1>3. ASSUME NEW h \in Hosts, FindLocked(h)
        PROVE  InstanceHolds'
    BY <1>3 DEF FindLocked, HostGoto
  <1>4. ASSUME NEW h \in Hosts, RemoveStaleSocket(h)
        PROVE  InstanceHolds'
    BY <1>4 DEF RemoveStaleSocket, HostGoto
  <1>5. ASSUME NEW h \in Hosts, Bind(h)
        PROVE  InstanceHolds'
    BY <1>5 DEF Bind, HostGoto
  <1>6. ASSUME NEW h \in Hosts, TakeCandidate(h)
        PROVE  InstanceHolds'
    BY <1>6 DEF TakeCandidate, ShutdownEligible, Connected, InFlight
  <1>7. ASSUME NEW h \in Hosts, DropInstanceLock(h)
        PROVE  InstanceHolds'
    BY <1>7 DEF DropInstanceLock, Forgets
  <1>8. ASSUME NEW h \in Hosts, DropListener(h)
        PROVE  InstanceHolds'
    BY <1>8 DEF DropListener, Closing
  <1>9. ASSUME NEW h \in Hosts, Crash(h)
        PROVE  InstanceHolds'
    BY <1>9 DEF Crash, Closing, Forgets, Running, Listening
  <1>10. ASSUME NEW p \in Proxies,
               Start(p) \/ StartFails(p) \/ FirstConnect(p) \/ AcquireStartupLock(p)
               \/ SecondConnect(p) \/ SpawnFails(p) \/ Poll(p) \/ WriteHandshake(p)
               \/ ReadReply(p) \/ Rejected(p) \/ TimesOut(p) \/ Forward(p) \/
               InputCloses(p) \/ Drained(p) \/ ConnectionLost(p) \/ Exits(p) \/
               Accept(p) \/ OpenSession(p) \/ RefuseSession(p) \/ ReceiveRequest(p)
               \/ EndSession(p) \/ FinishRequest(p)
        PROVE  InstanceHolds'
    <2>1. UNCHANGED <<host, instance>>
      BY <1>10 DEF Start, StartFails, FirstConnect, AcquireStartupLock, SecondConnect,
          SpawnFails, Poll, WriteHandshake, ReadReply, Rejected, TimesOut, Forward,
          InputCloses, Drained, ConnectionLost, Exits, Accept, OpenSession,
          RefuseSession, ReceiveRequest, EndSession, FinishRequest, Connect, Goto,
          PeerGoto, Touched, Unlocking
    <2> QED
      BY <2>1
  <1>11. ASSUME NEW h \in Hosts,
               MonitorWakes(h) \/ ScanFindsJobs(h) \/ ScanFindsNone(h) \/
               ScanFails(h) \/ Recheck(h) \/ SendCandidate(h) \/ IdleWindowPasses(h)
               \/ FailureWindowPasses(h)
        PROVE  InstanceHolds'
    <2>1. UNCHANGED <<host, instance>>
      BY <1>11 DEF MonitorWakes, ScanFindsJobs, ScanFindsNone, ScanFails, Recheck,
          SendCandidate, IdleWindowPasses, FailureWindowPasses, MonitorGoto
    <2> QED
      BY <2>1
  <1>12. CASE RegistryChanges
    <2>1. UNCHANGED <<host, instance>>
      BY <1>12 DEF RegistryChanges
    <2> QED
      BY <2>1
  <1> HIDE DEF TypeOK, InstanceHolds, Owning, proxyVars, monitorVars, registryVars,
          hostVars
  <1> QED
    BY <1>1, <1>2, <1>3, <1>4, <1>5, <1>6, <1>7, <1>8, <1>9, <1>10, <1>11, <1>12 DEF
        Next, ConnectOrStart, ForwardStdio, ServeConnection, HostStarts, HostLeaves,
        MonitorIdle, Scan

(* Nothing enters a host that has decided to leave.                        *)
LEMMA DesertedStep ==
    ASSUME TypeOK, Linked, Deserted, Next
    PROVE  Deserted'
  <1> USE DEF TypeOK, Linked, Listening, Starting, Deserted, proxyVars, monitorVars,
          registryVars, hostVars
  <1>1. ASSUME NEW p \in Proxies, FirstConnect(p)
        PROVE  Deserted'
    BY <1>1 DEF FirstConnect, Connect, Goto, Reachable
  <1>2. ASSUME NEW p \in Proxies, SecondConnect(p)
        PROVE  Deserted'
    BY <1>2 DEF SecondConnect, Connect, Goto, Reachable
  <1>3. ASSUME NEW p \in Proxies, SpawnBootstrap(p)
        PROVE  Deserted'
    BY <1>3 DEF SpawnBootstrap, NewHost
  <1>4. ASSUME NEW p \in Proxies, Poll(p)
        PROVE  Deserted'
    BY <1>4 DEF Poll, Connect, Reachable
  <1>5. ASSUME NEW p \in Proxies, Forward(p)
        PROVE  Deserted'
    BY <1>5 DEF Forward
  <1>6. ASSUME NEW p \in Proxies, Accept(p)
        PROVE  Deserted'
    BY <1>6 DEF Accept, PeerGoto, Touched
  <1>7. ASSUME NEW p \in Proxies, OpenSession(p)
        PROVE  Deserted'
    BY <1>7 DEF OpenSession, PeerGoto
  <1>8. ASSUME NEW p \in Proxies, RefuseSession(p)
        PROVE  Deserted'
    BY <1>8 DEF RefuseSession, PeerGoto, Touched
  <1>9. ASSUME NEW p \in Proxies, ReceiveRequest(p)
        PROVE  Deserted'
    BY <1>9 DEF ReceiveRequest, PeerGoto, Touched
  <1>10. ASSUME NEW p \in Proxies, EndSession(p)
        PROVE  Deserted'
    BY <1>10 DEF EndSession, PeerGoto, Touched
  <1>11. ASSUME NEW p \in Proxies, FinishRequest(p)
        PROVE  Deserted'
    BY <1>11 DEF FinishRequest, PeerGoto, Touched
  <1>12. ASSUME NEW h \in Hosts, LockInstance(h)
        PROVE  Deserted'
    BY <1>12 DEF LockInstance, HostGoto
  <1>13. ASSUME NEW h \in Hosts, FindLocked(h)
        PROVE  Deserted'
    BY <1>13 DEF FindLocked, HostGoto
  <1>14. ASSUME NEW h \in Hosts, RemoveStaleSocket(h)
        PROVE  Deserted'
    BY <1>14 DEF RemoveStaleSocket, HostGoto
  <1>15. ASSUME NEW h \in Hosts, Bind(h)
        PROVE  Deserted'
    BY <1>15 DEF Bind, HostGoto
  <1>16. ASSUME NEW h \in Hosts, TakeCandidate(h)
        PROVE  Deserted'
    BY <1>16 DEF TakeCandidate, ShutdownEligible, Connected, InFlight
  <1>17. ASSUME NEW h \in Hosts, DropInstanceLock(h)
        PROVE  Deserted'
    BY <1>17 DEF DropInstanceLock, Forgets
  <1>18. ASSUME NEW h \in Hosts, DropListener(h)
        PROVE  Deserted'
    BY <1>18 DEF DropListener, Closing
  <1>19. ASSUME NEW h \in Hosts, Crash(h)
        PROVE  Deserted'
    BY <1>19 DEF Crash, Closing, Forgets, Running
  <1>20. ASSUME NEW p \in Proxies,
               Start(p) \/ StartFails(p) \/ AcquireStartupLock(p) \/ SpawnFails(p)
               \/ WriteHandshake(p) \/ ReadReply(p) \/ Rejected(p) \/ TimesOut(p) \/
               InputCloses(p) \/ Drained(p) \/ ConnectionLost(p) \/ Exits(p)
        PROVE  Deserted'
    <2>1. UNCHANGED <<link, peer, request, host>>
      BY <1>20 DEF Start, StartFails, AcquireStartupLock, SpawnFails, WriteHandshake,
          ReadReply, Rejected, TimesOut, InputCloses, Drained, ConnectionLost,
          Exits, Goto, Unlocking
    <2> QED
      BY <2>1
  <1>21. ASSUME NEW h \in Hosts,
               MonitorWakes(h) \/ ScanFindsJobs(h) \/ ScanFindsNone(h) \/
               ScanFails(h) \/ Recheck(h) \/ SendCandidate(h) \/ IdleWindowPasses(h)
               \/ FailureWindowPasses(h)
        PROVE  Deserted'
    <2>1. UNCHANGED <<link, peer, request, host>>
      BY <1>21 DEF MonitorWakes, ScanFindsJobs, ScanFindsNone, ScanFails, Recheck,
          SendCandidate, IdleWindowPasses, FailureWindowPasses, MonitorGoto
    <2> QED
      BY <2>1
  <1>22. CASE RegistryChanges
    <2>1. UNCHANGED <<link, peer, request, host>>
      BY <1>22 DEF RegistryChanges
    <2> QED
      BY <2>1
  <1> HIDE DEF TypeOK, Linked, Listening, Starting, Deserted, proxyVars, monitorVars,
          registryVars, hostVars
  <1> QED
    BY <1>1, <1>2, <1>3, <1>4, <1>5, <1>6, <1>7, <1>8, <1>9, <1>10, <1>11, <1>12, <1>13,
        <1>14, <1>15, <1>16, <1>17, <1>18, <1>19, <1>20, <1>21, <1>22 DEF Next,
        ConnectOrStart, ForwardStdio, ServeConnection, HostStarts, HostLeaves,
        MonitorIdle, Scan

(* A served proxy meets a closed connection only after a crash.            *)
LEMMA ServedStep ==
    ASSUME TypeOK, Linked, Deserted, Served, Next
    PROVE  Served'
  <1> USE DEF TypeOK, Linked, Listening, Deserted, Served, Establishing, Starting,
          proxyVars, monitorVars, registryVars, hostVars
  <1>1. ASSUME NEW p \in Proxies, Start(p)
        PROVE  Served'
    BY <1>1 DEF Start, Goto
  <1>2. ASSUME NEW p \in Proxies, StartFails(p)
        PROVE  Served'
    BY <1>2 DEF StartFails, Goto
  <1>3. ASSUME NEW p \in Proxies, FirstConnect(p)
        PROVE  Served'
    BY <1>3 DEF FirstConnect, Connect, Goto, Reachable
  <1>4. ASSUME NEW p \in Proxies, AcquireStartupLock(p)
        PROVE  Served'
    BY <1>4 DEF AcquireStartupLock, Goto
  <1>5. ASSUME NEW p \in Proxies, SecondConnect(p)
        PROVE  Served'
    BY <1>5 DEF SecondConnect, Connect, Goto, Reachable
  <1>6. ASSUME NEW p \in Proxies, SpawnBootstrap(p)
        PROVE  Served'
    BY <1>6 DEF SpawnBootstrap, NewHost
  <1>7. ASSUME NEW p \in Proxies, SpawnFails(p)
        PROVE  Served'
    BY <1>7 DEF SpawnFails, Goto, Unlocking
  <1>8. ASSUME NEW p \in Proxies, Poll(p)
        PROVE  Served'
    BY <1>8 DEF Poll, Connect, Reachable
  <1>9. ASSUME NEW p \in Proxies, WriteHandshake(p)
        PROVE  Served'
    BY <1>9 DEF WriteHandshake, Goto
  <1>10. ASSUME NEW p \in Proxies, ReadReply(p)
        PROVE  Served'
    BY <1>10 DEF ReadReply, Goto, Unlocking
  <1>11. ASSUME NEW p \in Proxies, Rejected(p)
        PROVE  Served'
    BY <1>11 DEF Rejected, Goto, Unlocking
  <1>12. ASSUME NEW p \in Proxies, TimesOut(p)
        PROVE  Served'
    BY <1>12 DEF TimesOut, Goto, Unlocking, Reachable
  <1>13. ASSUME NEW p \in Proxies, InputCloses(p)
        PROVE  Served'
    BY <1>13 DEF InputCloses, Goto
  <1>14. ASSUME NEW p \in Proxies, Drained(p)
        PROVE  Served'
    BY <1>14 DEF Drained, Goto
  <1>15. ASSUME NEW p \in Proxies, ConnectionLost(p)
        PROVE  Served'
    BY <1>15 DEF ConnectionLost, Goto
  <1>16. ASSUME NEW p \in Proxies, Exits(p)
        PROVE  Served'
    BY <1>16 DEF Exits, Goto, Unlocking
  <1>17. ASSUME NEW p \in Proxies, Accept(p)
        PROVE  Served'
    BY <1>17 DEF Accept, PeerGoto, Touched
  <1>18. ASSUME NEW p \in Proxies, OpenSession(p)
        PROVE  Served'
    BY <1>18 DEF OpenSession, PeerGoto
  <1>19. ASSUME NEW p \in Proxies, RefuseSession(p)
        PROVE  Served'
    BY <1>19 DEF RefuseSession, PeerGoto, Touched
  <1>20. ASSUME NEW p \in Proxies, ReceiveRequest(p)
        PROVE  Served'
    BY <1>20 DEF ReceiveRequest, PeerGoto, Touched
  <1>21. ASSUME NEW p \in Proxies, EndSession(p)
        PROVE  Served'
    BY <1>21 DEF EndSession, PeerGoto, Touched
  <1>22. ASSUME NEW p \in Proxies, FinishRequest(p)
        PROVE  Served'
    BY <1>22 DEF FinishRequest, PeerGoto, Touched
  <1>23. ASSUME NEW h \in Hosts, LockInstance(h)
        PROVE  Served'
    BY <1>23 DEF LockInstance, HostGoto
  <1>24. ASSUME NEW h \in Hosts, FindLocked(h)
        PROVE  Served'
    BY <1>24 DEF FindLocked, HostGoto
  <1>25. ASSUME NEW h \in Hosts, RemoveStaleSocket(h)
        PROVE  Served'
    BY <1>25 DEF RemoveStaleSocket, HostGoto
  <1>26. ASSUME NEW h \in Hosts, Bind(h)
        PROVE  Served'
    BY <1>26 DEF Bind, HostGoto
  <1>27. ASSUME NEW h \in Hosts, TakeCandidate(h)
        PROVE  Served'
    BY <1>27 DEF TakeCandidate, ShutdownEligible, Connected, InFlight
  <1>28. ASSUME NEW h \in Hosts, DropInstanceLock(h)
        PROVE  Served'
    BY <1>28 DEF DropInstanceLock, Forgets
  <1>29. ASSUME NEW h \in Hosts, DropListener(h)
        PROVE  Served'
    BY <1>29 DEF DropListener, Closing
  <1>30. ASSUME NEW h \in Hosts, Crash(h)
        PROVE  Served'
    BY <1>30 DEF Crash, Closing, Forgets, Running
  <1>31. ASSUME NEW p \in Proxies,
               Forward(p)
        PROVE  Served'
    <2>1. UNCHANGED <<proxy, link, peer, host>>
      BY <1>31 DEF Forward
    <2> QED
      BY <2>1
  <1>32. ASSUME NEW h \in Hosts,
               MonitorWakes(h) \/ ScanFindsJobs(h) \/ ScanFindsNone(h) \/
               ScanFails(h) \/ Recheck(h) \/ SendCandidate(h) \/ IdleWindowPasses(h)
               \/ FailureWindowPasses(h)
        PROVE  Served'
    <2>1. UNCHANGED <<proxy, link, peer, host>>
      BY <1>32 DEF MonitorWakes, ScanFindsJobs, ScanFindsNone, ScanFails, Recheck,
          SendCandidate, IdleWindowPasses, FailureWindowPasses, MonitorGoto
    <2> QED
      BY <2>1
  <1>33. CASE RegistryChanges
    <2>1. UNCHANGED <<proxy, link, peer, host>>
      BY <1>33 DEF RegistryChanges
    <2> QED
      BY <2>1
  <1> HIDE DEF TypeOK, Linked, Listening, Deserted, Served, Establishing, Starting,
          proxyVars, monitorVars, registryVars, hostVars
  <1> QED
    BY <1>1, <1>2, <1>3, <1>4, <1>5, <1>6, <1>7, <1>8, <1>9, <1>10, <1>11, <1>12, <1>13,
        <1>14, <1>15, <1>16, <1>17, <1>18, <1>19, <1>20, <1>21, <1>22, <1>23, <1>24,
        <1>25, <1>26, <1>27, <1>28, <1>29, <1>30, <1>31, <1>32, <1>33 DEF Next,
        ConnectOrStart, ForwardStdio, ServeConnection, HostStarts, HostLeaves,
        MonitorIdle, Scan

(* The idle clock restarts with every job, and runs out only between scans. *)
LEMMA QuietStep ==
    ASSUME TypeOK, Linked, InstanceHolds, Deserted, QuietMeansNoJobs, Next
    PROVE  QuietMeansNoJobs'
  <1> USE DEF TypeOK, Linked, Listening, Deserted, InstanceHolds, Owning,
          QuietMeansNoJobs, Reasons, proxyVars, monitorVars, registryVars, hostVars
  <1>1. ASSUME NEW p \in Proxies, SpawnBootstrap(p)
        PROVE  QuietMeansNoJobs'
    BY <1>1 DEF SpawnBootstrap, NewHost
  <1>2. ASSUME NEW p \in Proxies, Accept(p)
        PROVE  QuietMeansNoJobs'
    BY <1>2 DEF Accept, PeerGoto, Touched
  <1>3. ASSUME NEW p \in Proxies, RefuseSession(p)
        PROVE  QuietMeansNoJobs'
    BY <1>3 DEF RefuseSession, PeerGoto, Touched
  <1>4. ASSUME NEW p \in Proxies, ReceiveRequest(p)
        PROVE  QuietMeansNoJobs'
    BY <1>4 DEF ReceiveRequest, PeerGoto, Touched
  <1>5. ASSUME NEW p \in Proxies, EndSession(p)
        PROVE  QuietMeansNoJobs'
    BY <1>5 DEF EndSession, PeerGoto, Touched
  <1>6. ASSUME NEW p \in Proxies, FinishRequest(p)
        PROVE  QuietMeansNoJobs'
    BY <1>6 DEF FinishRequest, PeerGoto, Touched
  <1>7. ASSUME NEW h \in Hosts, LockInstance(h)
        PROVE  QuietMeansNoJobs'
    BY <1>7 DEF LockInstance, HostGoto
  <1>8. ASSUME NEW h \in Hosts, FindLocked(h)
        PROVE  QuietMeansNoJobs'
    BY <1>8 DEF FindLocked, HostGoto
  <1>9. ASSUME NEW h \in Hosts, RemoveStaleSocket(h)
        PROVE  QuietMeansNoJobs'
    BY <1>9 DEF RemoveStaleSocket, HostGoto
  <1>10. ASSUME NEW h \in Hosts, Bind(h)
        PROVE  QuietMeansNoJobs'
    BY <1>10 DEF Bind, HostGoto
  <1>11. ASSUME NEW h \in Hosts, TakeCandidate(h)
        PROVE  QuietMeansNoJobs'
    BY <1>11 DEF TakeCandidate, ShutdownEligible, Connected, InFlight
  <1>12. ASSUME NEW h \in Hosts, DropInstanceLock(h)
        PROVE  QuietMeansNoJobs'
    BY <1>12 DEF DropInstanceLock, Forgets
  <1>13. ASSUME NEW h \in Hosts, DropListener(h)
        PROVE  QuietMeansNoJobs'
    BY <1>13 DEF DropListener, Closing
  <1>14. ASSUME NEW h \in Hosts, MonitorWakes(h)
        PROVE  QuietMeansNoJobs'
    BY <1>14 DEF MonitorWakes, MonitorGoto
  <1>15. ASSUME NEW h \in Hosts, ScanFindsJobs(h)
        PROVE  QuietMeansNoJobs'
    BY <1>15 DEF ScanFindsJobs, MonitorGoto
  <1>16. ASSUME NEW h \in Hosts, ScanFindsNone(h)
        PROVE  QuietMeansNoJobs'
    BY <1>16 DEF ScanFindsNone, MonitorGoto
  <1>17. ASSUME NEW h \in Hosts, ScanFails(h)
        PROVE  QuietMeansNoJobs'
    BY <1>17 DEF ScanFails, MonitorGoto
  <1>18. ASSUME NEW h \in Hosts, Recheck(h)
        PROVE  QuietMeansNoJobs'
    BY <1>18 DEF Recheck, MonitorGoto
  <1>19. ASSUME NEW h \in Hosts, SendCandidate(h)
        PROVE  QuietMeansNoJobs'
    BY <1>19 DEF SendCandidate, MonitorGoto
  <1>20. ASSUME NEW h \in Hosts, Crash(h)
        PROVE  QuietMeansNoJobs'
    BY <1>20 DEF Crash, Closing, Forgets, Running
  <1>21. ASSUME NEW h \in Hosts, IdleWindowPasses(h)
        PROVE  QuietMeansNoJobs'
    BY <1>21 DEF IdleWindowPasses, Waiting
  <1>22. CASE RegistryChanges
    BY <1>22 DEF RegistryChanges
  <1>23. ASSUME NEW p \in Proxies,
               Start(p) \/ StartFails(p) \/ FirstConnect(p) \/ AcquireStartupLock(p)
               \/ SecondConnect(p) \/ SpawnFails(p) \/ Poll(p) \/ WriteHandshake(p)
               \/ ReadReply(p) \/ Rejected(p) \/ TimesOut(p) \/ Forward(p) \/
               InputCloses(p) \/ Drained(p) \/ ConnectionLost(p) \/ Exits(p) \/
               OpenSession(p)
        PROVE  QuietMeansNoJobs'
    <2>1. UNCHANGED <<host, idle, monitor, candidate, jobs>>
      BY <1>23 DEF Start, StartFails, FirstConnect, AcquireStartupLock, SecondConnect,
          SpawnFails, Poll, WriteHandshake, ReadReply, Rejected, TimesOut, Forward,
          InputCloses, Drained, ConnectionLost, Exits, OpenSession, Connect, Goto,
          PeerGoto, Unlocking
    <2> QED
      BY <2>1
  <1>24. ASSUME NEW h \in Hosts,
               FailureWindowPasses(h)
        PROVE  QuietMeansNoJobs'
    <2>1. UNCHANGED <<host, idle, monitor, candidate, jobs>>
      BY <1>24 DEF FailureWindowPasses
    <2> QED
      BY <2>1
  <1> HIDE DEF TypeOK, Linked, Listening, Deserted, InstanceHolds, Owning,
          QuietMeansNoJobs, Reasons, proxyVars, monitorVars, registryVars, hostVars
  <1> QED
    BY <1>1, <1>2, <1>3, <1>4, <1>5, <1>6, <1>7, <1>8, <1>9, <1>10, <1>11, <1>12, <1>13,
        <1>14, <1>15, <1>16, <1>17, <1>18, <1>19, <1>20, <1>21, <1>22, <1>23, <1>24
        DEF Next, ConnectOrStart, ForwardStdio, ServeConnection, HostStarts,
        HostLeaves, MonitorIdle, Scan

(* While nobody gives up, hosts come one after the other.                  *)
LEMMA SoleStep ==
    ASSUME TypeOK, StarterHolds, InstanceHolds, SoleHost, Next
    PROVE  SoleHost'
  <1> USE DEF TypeOK, StarterHolds, InstanceHolds, Owning, SoleHost, Running,
          Listening, Starting, Establishing, proxyVars, monitorVars, registryVars,
          hostVars
  <1>1. ASSUME NEW p \in Proxies, Start(p)
        PROVE  SoleHost'
    BY <1>1 DEF Start, Goto
  <1>2. ASSUME NEW p \in Proxies, StartFails(p)
        PROVE  SoleHost'
    BY <1>2 DEF StartFails, Goto
  <1>3. ASSUME NEW p \in Proxies, FirstConnect(p)
        PROVE  SoleHost'
    BY <1>3 DEF FirstConnect, Connect, Goto, Reachable
  <1>4. ASSUME NEW p \in Proxies, AcquireStartupLock(p)
        PROVE  SoleHost'
    BY <1>4 DEF AcquireStartupLock, Goto
  <1>5. ASSUME NEW p \in Proxies, SecondConnect(p)
        PROVE  SoleHost'
    BY <1>5 DEF SecondConnect, Connect, Goto, Reachable
  <1>6. ASSUME NEW p \in Proxies, SpawnBootstrap(p)
        PROVE  SoleHost'
    <2>1. NewHost \in Hosts /\ host[NewHost] = "none"
      BY <1>6 DEF SpawnBootstrap, NewHost
    <2>2. starter = p /\ proxy'[p] = "poll"
      BY <1>6 DEF SpawnBootstrap
    <2>3. \A h \in Hosts : host'[h] = IF h = NewHost THEN "boot" ELSE host[h]
      BY <1>6, <2>1 DEF SpawnBootstrap
    <2>4. \A q \in Proxies : proxy'[q] = "spawn" => q # p /\ proxy[q] = "spawn"
      BY <1>6 DEF SpawnBootstrap
    <2>5. \A q \in Proxies : proxy[q] = "spawn" => q = p
      BY <1>6, <2>2 DEF SpawnBootstrap
    <2>6. UNCHANGED <<starter, socket, gaveUp>>
      BY <1>6 DEF SpawnBootstrap
    <2>7. ~gaveUp => \A h \in Hosts : host[h] \notin Running
      BY <1>6 DEF SpawnBootstrap
    <2> QED
      BY <2>1, <2>2, <2>3, <2>4, <2>5, <2>6, <2>7
  <1>7. ASSUME NEW p \in Proxies, SpawnFails(p)
        PROVE  SoleHost'
    BY <1>7 DEF SpawnFails, Goto, Unlocking
  <1>8. ASSUME NEW p \in Proxies, Poll(p)
        PROVE  SoleHost'
    BY <1>8 DEF Poll, Connect, Reachable
  <1>9. ASSUME NEW p \in Proxies, WriteHandshake(p)
        PROVE  SoleHost'
    BY <1>9 DEF WriteHandshake, Goto
  <1>10. ASSUME NEW p \in Proxies, ReadReply(p)
        PROVE  SoleHost'
    BY <1>10 DEF ReadReply, Goto, Unlocking
  <1>11. ASSUME NEW p \in Proxies, Rejected(p)
        PROVE  SoleHost'
    BY <1>11 DEF Rejected, Goto, Unlocking
  <1>12. ASSUME NEW p \in Proxies, TimesOut(p)
        PROVE  SoleHost'
    <2>1. CASE proxy[p] = "poll"
      BY <1>12, <2>1 DEF TimesOut
    <2>2. ASSUME proxy[p] # "poll", ~gaveUp
          PROVE  SoleHost'
      <3>1. \A h \in Hosts : host[h] \in {"boot", "locked", "cleared"} => starter # p
        BY <2>2
      <3>2. \A h \in Hosts : host[h] \in {"boot", "locked", "cleared"} =>
                 starter' = starter /\ starter # None /\ proxy'[starter] = "poll"
        BY <1>12, <2>2, <3>1 DEF TimesOut, Goto, Unlocking
      <3>3. \A q \in Proxies : proxy'[q] = "spawn" => proxy[q] = "spawn"
        BY <1>12 DEF TimesOut, Goto
      <3>4. UNCHANGED <<host, socket>>
        BY <1>12 DEF TimesOut, Goto
      <3> QED
        BY <2>2, <3>2, <3>3, <3>4
    <2>3. CASE gaveUp
      BY <1>12, <2>3 DEF TimesOut
    <2> QED
      BY <2>1, <2>2, <2>3
  <1>13. ASSUME NEW p \in Proxies, InputCloses(p)
        PROVE  SoleHost'
    BY <1>13 DEF InputCloses, Goto
  <1>14. ASSUME NEW p \in Proxies, Drained(p)
        PROVE  SoleHost'
    BY <1>14 DEF Drained, Goto
  <1>15. ASSUME NEW p \in Proxies, ConnectionLost(p)
        PROVE  SoleHost'
    BY <1>15 DEF ConnectionLost, Goto
  <1>16. ASSUME NEW p \in Proxies, Exits(p)
        PROVE  SoleHost'
    <2>1. CASE proxy[p] = "poll"
      BY <1>16, <2>1 DEF Exits
    <2>2. ASSUME proxy[p] # "poll", ~gaveUp
          PROVE  SoleHost'
      <3>1. \A h \in Hosts : host[h] \in {"boot", "locked", "cleared"} => starter # p
        BY <2>2
      <3>2. \A h \in Hosts : host[h] \in {"boot", "locked", "cleared"} =>
                 starter' = starter /\ starter # None /\ proxy'[starter] = "poll"
        BY <1>16, <2>2, <3>1 DEF Exits, Goto, Unlocking
      <3>3. \A q \in Proxies : proxy'[q] = "spawn" => proxy[q] = "spawn"
        BY <1>16 DEF Exits, Goto
      <3>4. UNCHANGED <<host, socket>>
        BY <1>16 DEF Exits, Goto
      <3> QED
        BY <2>2, <3>2, <3>3, <3>4
    <2>3. CASE gaveUp
      BY <1>16, <2>3 DEF Exits
    <2> QED
      BY <2>1, <2>2, <2>3
  <1>17. ASSUME NEW h \in Hosts, LockInstance(h)
        PROVE  SoleHost'
    BY <1>17 DEF LockInstance, HostGoto
  <1>18. ASSUME NEW h \in Hosts, FindLocked(h)
        PROVE  SoleHost'
    BY <1>18 DEF FindLocked, HostGoto
  <1>19. ASSUME NEW h \in Hosts, RemoveStaleSocket(h)
        PROVE  SoleHost'
    BY <1>19 DEF RemoveStaleSocket, HostGoto
  <1>20. ASSUME NEW h \in Hosts, Bind(h)
        PROVE  SoleHost'
    BY <1>20 DEF Bind, HostGoto
  <1>21. ASSUME NEW h \in Hosts, TakeCandidate(h)
        PROVE  SoleHost'
    BY <1>21 DEF TakeCandidate, ShutdownEligible, Connected, InFlight
  <1>22. ASSUME NEW h \in Hosts, DropInstanceLock(h)
        PROVE  SoleHost'
    BY <1>22 DEF DropInstanceLock, Forgets
  <1>23. ASSUME NEW h \in Hosts, DropListener(h)
        PROVE  SoleHost'
    BY <1>23 DEF DropListener, Closing
  <1>24. ASSUME NEW h \in Hosts, Crash(h)
        PROVE  SoleHost'
    BY <1>24 DEF Crash, Closing, Forgets
  <1>25. ASSUME NEW p \in Proxies,
               Forward(p) \/ Accept(p) \/ OpenSession(p) \/ RefuseSession(p) \/
               ReceiveRequest(p) \/ EndSession(p) \/ FinishRequest(p)
        PROVE  SoleHost'
    <2>1. UNCHANGED <<proxy, starter, host, instance, socket, gaveUp>>
      BY <1>25 DEF Forward, Accept, OpenSession, RefuseSession, ReceiveRequest,
          EndSession, FinishRequest, PeerGoto, Touched
    <2> QED
      BY <2>1
  <1>26. ASSUME NEW h \in Hosts,
               MonitorWakes(h) \/ ScanFindsJobs(h) \/ ScanFindsNone(h) \/
               ScanFails(h) \/ Recheck(h) \/ SendCandidate(h) \/ IdleWindowPasses(h)
               \/ FailureWindowPasses(h)
        PROVE  SoleHost'
    <2>1. UNCHANGED <<proxy, starter, host, instance, socket, gaveUp>>
      BY <1>26 DEF MonitorWakes, ScanFindsJobs, ScanFindsNone, ScanFails, Recheck,
          SendCandidate, IdleWindowPasses, FailureWindowPasses, MonitorGoto
    <2> QED
      BY <2>1
  <1>27. CASE RegistryChanges
    <2>1. UNCHANGED <<proxy, starter, host, instance, socket, gaveUp>>
      BY <1>27 DEF RegistryChanges
    <2> QED
      BY <2>1
  <1> HIDE DEF TypeOK, StarterHolds, InstanceHolds, Owning, SoleHost, Running,
          Listening, Starting, Establishing, proxyVars, monitorVars, registryVars,
          hostVars
  <1> QED
    BY <1>1, <1>2, <1>3, <1>4, <1>5, <1>6, <1>7, <1>8, <1>9, <1>10, <1>11, <1>12, <1>13,
        <1>14, <1>15, <1>16, <1>17, <1>18, <1>19, <1>20, <1>21, <1>22, <1>23, <1>24,
        <1>25, <1>26, <1>27 DEF Next, ConnectOrStart, ForwardStdio, ServeConnection,
        HostStarts, HostLeaves, MonitorIdle, Scan


-----------------------------------------------------------------------------
LEMMA Initially == Init => Inv
  <1> SUFFICES ASSUME Init PROVE Inv
    OBVIOUS
  <1> USE DEF Init
  <1>1. TypeOK
    BY DEF TypeOK, ProxyStates, PeerStates, HostStates
  <1>2. Linked /\ StarterHolds /\ InstanceHolds
    BY DEF Linked, StarterHolds, InstanceHolds, Starting, Establishing, Owning
  <1>3. Deserted /\ Served /\ QuietMeansNoJobs
    BY DEF Deserted, Served, QuietMeansNoJobs
  <1>4. SoleHost
    BY DEF SoleHost, Running, Listening
  <1> QED
    BY <1>1, <1>2, <1>3, <1>4 DEF Inv

LEMMA Stuttering == Inv /\ UNCHANGED vars => Inv'
  BY DEF Inv, vars, proxyVars, hostVars, monitorVars, registryVars, TypeOK, Linked,
         StarterHolds, InstanceHolds, Deserted, Served, QuietMeansNoJobs, SoleHost

LEMMA Inductive == Inv /\ [Next]_vars => Inv'
  <1> SUFFICES ASSUME Inv, Next PROVE Inv'
    BY Stuttering
  <1>1. TypeOK' /\ Linked' /\ StarterHolds' /\ InstanceHolds'
    BY TypedStep, LinkedStep, StarterStep, InstanceStep DEF Inv
  <1>2. Deserted' /\ Served' /\ QuietMeansNoJobs' /\ SoleHost'
    BY DesertedStep, ServedStep, QuietStep, SoleStep DEF Inv
  <1> QED
    BY <1>1, <1>2 DEF Inv

LEMMA Invariance == Spec => []Inv
  BY Initially, Inductive, PTL DEF Spec

-----------------------------------------------------------------------------
(***************************************************************************)
(* The theorems.                                                           *)
(***************************************************************************)

(* Types; the startup lock is only ever held on the way to a server.       *)
THEOREM Typing == Spec => []TypeOK
  <1>1. Inv => TypeOK
    BY DEF Inv
  <1> QED
    BY <1>1, Invariance, PTL

(* One host at a time reaches the socket and the accept loop, however many *)
(* are started and whichever crash (run_host_entry).                       *)
THEOREM HostsExclude == Spec => []OneHost
  <1>1. Inv => OneHost
    BY DEF Inv, InstanceHolds, Owning, OneHost
  <1> QED
    BY <1>1, Invariance, PTL

(* Only a crash of its host disconnects a live proxy (try_begin_shutdown). *)
THEOREM SessionsSurvive == Spec => []LiveSessionsSurviveIdle
  <1>1. Inv => LiveSessionsSurviveIdle
    BY DEF Inv, Served, LiveSessionsSurviveIdle
  <1> QED
    BY <1>1, Invariance, PTL

(* A host that leaves because it found no job leaves none running          *)
(* (monitor_idle, try_begin_shutdown).                                     *)
THEOREM LeavesQuietly == Spec => ShutdownIsQuiet
  <1> DEFINE Quiet == \A h \in Hosts :
                host[h] = "accepting" /\ host'[h] = "leaving" /\ candidate[h] = "quiet"
                    => jobs = {}
  <1>1. Inv /\ [Next]_vars => [Quiet]_vars
    <2> SUFFICES ASSUME Inv, Next, NEW h \in Hosts,
                        host[h] = "accepting", host'[h] = "leaving", candidate[h] = "quiet"
                 PROVE  jobs = {}
      OBVIOUS
    <2>1. host \in [Hosts -> HostStates]
      BY DEF Inv, TypeOK
    <2>2. ASSUME NEW p \in Proxies,
                 \/ Start(p) \/ ConnectOrStart(p) \/ StartFails(p) \/ TimesOut(p)
                 \/ Forward(p) \/ InputCloses(p) \/ ForwardStdio(p) \/ Exits(p)
                 \/ Accept(p) \/ ServeConnection(p) \/ FinishRequest(p)
          PROVE  FALSE
      BY <2>1, <2>2 DEF Start, StartFails, ConnectOrStart, TimesOut, Forward, InputCloses,
         ForwardStdio, Exits, Accept, ServeConnection, FinishRequest, FirstConnect,
         AcquireStartupLock, SecondConnect, SpawnBootstrap, SpawnFails, Poll,
         WriteHandshake, ReadReply, Rejected, Drained, ConnectionLost, OpenSession, RefuseSession, ReceiveRequest, EndSession, Connect, Goto,
         PeerGoto, hostVars
    <2>3. ASSUME NEW g \in Hosts,
                 \/ HostStarts(g) \/ DropInstanceLock(g) \/ DropListener(g) \/ MonitorIdle(g)
                 \/ Crash(g) \/ IdleWindowPasses(g) \/ FailureWindowPasses(g)
          PROVE  FALSE
      BY <2>1, <2>3 DEF HostStarts, LockInstance, FindLocked, RemoveStaleSocket, Bind,
         HostGoto, DropInstanceLock, DropListener, MonitorIdle, MonitorWakes, Scan, ScanFindsJobs,
         ScanFindsNone, ScanFails, Recheck, SendCandidate, MonitorGoto, Crash,
         IdleWindowPasses, FailureWindowPasses, hostVars
    <2>4. ASSUME NEW g \in Hosts, TakeCandidate(g)
          PROVE  ShutdownEligible(h)
      BY <2>1, <2>4 DEF TakeCandidate
    <2>5. ~RegistryChanges
      BY DEF RegistryChanges, hostVars
    <2>6. ShutdownEligible(h)
      BY <2>2, <2>3, <2>4, <2>5 DEF Next, HostLeaves
    <2> QED
      BY <2>6 DEF Inv, QuietMeansNoJobs, ShutdownEligible
  <1> QED
    BY <1>1, Invariance, PTL DEF Spec, ShutdownIsQuiet

(* No surplus host is ever started while every starter waits for its own   *)
(* (connect_or_start).                                                     *)
THEOREM ExactlyOneStarts == Spec => []StartsExactlyOne
  <1>1. Inv => StartsExactlyOne
    BY DEF Inv, SoleHost, StartsExactlyOne
  <1> QED
    BY <1>1, Invariance, PTL

(* One control center at a time, and none started in vain.                 *)
THEOREM OneCenter == Spec => []OneControlCenter
BY HostsExclude, ExactlyOneStarts, PTL DEF OneControlCenter

HIDE ControlCenterAssumption
-----------------------------------------------------------------------------
(***************************************************************************)
(* Terminal: the inductive invariant.                                      *)
(***************************************************************************)
(* What the cache and the checks hold for the running version is newer.   *)
Newer(record) ==
    record.version = Version /\ record.outcome.kind = "available" =>
        record.outcome.target \in (Version + 1)..Newest
ChecksAreSound ==
    /\ Newer(success)
    /\ \A c \in Checkers :
          /\ Newer(check[c].held)
          /\ check[c].pc \in {"writeLast", "writeSuccess"} => check[c].held.version = Version

(* Each effect is ordered on a screen of its own, which it finds again.   *)
EffectsFit ==
    /\ pending.kind = "RetryUpdate" => screen = "UpdateChecking"
    /\ pending.kind = "SaveFirstLanguage" => screen = "FirstLanguage"
    /\ pending.kind = "SaveLanguage" => screen = "Language"
    /\ pending.kind = "SaveConfig" => screen \in {"ConfigSaving", "Config"}
    /\ pending.kind = "ResetConfig" => screen = "ConfigResetting"
    /\ pending.kind = "PlanApply" => screen = "ApplyLoading"
    /\ pending.kind = "CommitApply" => screen = "ApplyRunning"
    /\ pending.kind = "PlanUnapply" => screen = "UnapplyLoading"
    /\ pending.kind = "CommitUnapply" => screen = "UnapplyRunning"
    /\ pending.kind = "RunDoctor" => screen = "Status"
    /\ pending.kind \in {"LoadJobs", "LoadJobTail"} => screen = "Jobs"
    /\ pending.kind = "RefreshJobCount" => screen = "Main"
    /\ pending.kind = "KillJob" => screen = "JobsKilling" /\ pending = Kill(target)
    /\ pending.kind = "none" => pending = NoEffect

(* Only a failed save or plan, or a failed kill of the marked job, is     *)
(* offered again.                                                         *)
RetriesFit ==
    /\ screen = "OperationFailed" =>
          retry.kind \in {"PlanApply", "PlanUnapply", "SaveConfig", "ResetConfig",
                          "SaveFirstLanguage", "SaveLanguage"}
    /\ screen = "JobsKillFailed" => retry = Kill(target)

(* While an answer is awaited nothing else goes on.                       *)
GateFits ==
    /\ gate # "none" =>
          /\ pending.kind = "none"
          /\ screen = "UpdateChecking" \/ (gate = "startup" /\ screen = "MigrationNotice")
    /\ loop = "start" =>
          /\ pending.kind = "none" /\ gate = "none"
          /\ screen = (IF ~memory.language THEN "FirstLanguage"
                       ELSE IF notice THEN "MigrationNotice" ELSE "Main")

PlansFit ==
    /\ screen \in {"ApplyPreview", "ApplyConflict", "ApplyConfirm"} => plan # "none"
    /\ screen \in {"UnapplyPreview", "UnapplyConfirm"} => unplan

FrameIsDrawn == loop = "act" => seen = Frame

-----------------------------------------------------------------------------
(* The invariant by what a step can disturb.                              *)
ChecksOK == CheckTypeOK /\ OffersAreSound /\ ChecksAreSound

Entries == [pc : {"idle", "gate", "invalidate", "readSuccess", "readLast", "probe",
                  "writeLast", "writeSuccess", "recordFailure", "done"},
            force : BOOLEAN, held : Records, result : Found \cup {NoOutcome, Failure}]
EntryOK(entry) ==
    /\ entry \in Entries /\ Newer(entry.held)
    /\ entry.result.kind = "available" => entry.result.target \in (Version + 1)..Newest
    /\ entry.pc \in {"writeLast", "writeSuccess"} => entry.held.version = Version
CheckOK == check \in [Checkers -> Entries] /\ \A c \in Checkers : EntryOK(check[c])

SettingsOK ==
    /\ draft \in Preferences /\ unreloaded \in BOOLEAN
    /\ memory \in [present : BOOLEAN, language : BOOLEAN, applied : BOOLEAN,
                   prefs : Preferences]
    /\ disk \in [present : BOOLEAN, language : BOOLEAN, applied : BOOLEAN,
                 prefs : Preferences]
    /\ ~unreloaded => IF disk.present THEN memory = disk ELSE ~memory.applied

DashboardOK ==
    /\ listing \in {"loading", "empty", "ready", "error"} /\ listed \subseteq Jobs
    /\ cursor \in 0..Cardinality(Jobs) /\ tail \in Jobs \cup {NoJob}
    /\ Focused # NoJob => tail \in {NoJob, Focused}

Offers == Found \cup {NoOutcome, Failure}
EffectType == [kind : Kinds \cup {"none"}, job : Jobs \cup {NoJob}]
ScreenOK ==
    loop \in {"start", "draw", "act", "over"} /\ screen \in Screens /\ yes \in BOOLEAN
OrdersOK == pending \in EffectType /\ retry \in EffectType
PlansOK == plan \in {"none", "plain", "conflict"} /\ unplan \in BOOLEAN /\ PlansFit
UpdatesOK ==
    /\ gate \in {"none", "startup", "page"} /\ requested \in BOOLEAN /\ notice \in BOOLEAN
    /\ offer \in Offers /\ exit \in Offers
TargetOK ==
    /\ target \in Jobs \cup {NoJob}
    /\ target # NoJob => screen \in {"JobsKillConfirm", "JobsKilling", "JobsKillFailed"}
ViewOK ==
    /\ ScreenOK /\ OrdersOK /\ PlansOK /\ UpdatesOK /\ TargetOK
    /\ EffectsFit /\ RetriesFit /\ GateFits

FrameOK ==
    /\ seen \in [screen : Screens \cup {"none"}, yes : BOOLEAN, job : Jobs \cup {NoJob},
                 plan : {"none", "plain", "conflict"}, offer : Offers]
    /\ FrameIsDrawn

Steady == ChecksOK /\ SettingsOK /\ DashboardOK /\ ViewOK /\ FrameOK

LEMMA SteadyImplies == Steady => WhatIsShownIsTrue
  BY DEF Steady, ChecksOK, SettingsOK, DashboardOK, ViewOK, FrameOK, Offers, ScreenOK,
         OrdersOK, PlansOK, UpdatesOK, TargetOK, EffectType,
         WhatIsShownIsTrue, TerminalTypeOK
-----------------------------------------------------------------------------
(* The checkers.                                                          *)
LEMMA Numbers ==
  /\ Version \in Nat /\ Newest \in Nat /\ Version < Newest /\ MaxChecks \in Nat
  /\ MaxTrouble \in Nat
  BY CheckAssumption

LEMMA GenerationsAreFive == Generations = 1..5
<1>1. IsFiniteSet({Startup}) /\ Cardinality({Startup}) = 1
  BY FS_Singleton, ZenonT(30)
<1>2. Cardinality({Startup} \cup {Page}) = 2
  BY <1>1, FS_AddElement, TerminalAssumption
<1>3. {Startup} \cup {Page} = Checkers
  BY TerminalAssumption
<1> QED
  BY <1>2, <1>3 DEF Generations

(* Two records and two checkers leave one of five generations free.       *)
LEMMA NewGenerationIsOne == NewGeneration \in Generations
<1> DEFINE Used(g) == \/ g = success.gen \/ g = last.gen
                      \/ \E c \in Checkers : g = check[c].held.gen
           Free(g) == /\ g # success.gen /\ g # last.gen
                      /\ \A c \in Checkers : g # check[c].held.gen
                      /\ \A h \in 1..(g - 1) : Used(h)
<1>1. \A g : Used(g) <=> g \in {success.gen, last.gen, check[Startup].held.gen,
                                check[Page].held.gen}
  BY TerminalAssumption
<1>2. \E g \in 1..5 : g \notin {success.gen, last.gen, check[Startup].held.gen,
                                check[Page].held.gen}
  BY SMT
<1>3. ~Used(1) \/ ~Used(2) \/ ~Used(3) \/ ~Used(4) \/ ~Used(5)
  <2>1. 1..5 = {1, 2, 3, 4, 5}
    BY SMT
  <2> QED
    BY <1>1, <1>2, <2>1 DEF Used
<1> HIDE DEF Used
<1>4. \E g \in 1..5 : ~Used(g) /\ \A h \in 1..(g - 1) : Used(h)
  <2>1. 1..0 = {} /\ 1..1 = {1} /\ 1..2 = {1, 2} /\ 1..3 = {1, 2, 3} /\ 1..4 = {1, 2, 3, 4}
    BY SMT
  <2>2. CASE ~Used(1)
    BY <2>2, <2>1
  <2>3. CASE Used(1) /\ ~Used(2)
    BY <2>3, <2>1
  <2>4. CASE Used(1) /\ Used(2) /\ ~Used(3)
    BY <2>4, <2>1
  <2>5. CASE Used(1) /\ Used(2) /\ Used(3) /\ ~Used(4)
    BY <2>5, <2>1
  <2>6. CASE Used(1) /\ Used(2) /\ Used(3) /\ Used(4) /\ ~Used(5)
    BY <2>6, <2>1
  <2> QED
    BY <2>2, <2>3, <2>4, <2>5, <2>6, <1>3
<1>5. \E g \in Generations : Free(g)
  BY <1>4, GenerationsAreFive DEF Used
<1>6. NewGeneration = CHOOSE g \in Generations : Free(g)
  BY DEF NewGeneration, Used
<1> HIDE DEF Free
<1> QED
  BY <1>5, <1>6

LEMMA OutcomeShapes ==
  /\ NoOutcome \in Offers /\ Failure \in Offers /\ Found \subseteq Offers
  /\ NoOutcome.kind = "none" /\ Failure.kind = "failed"
  /\ \A o \in Offers : o.kind = "available" => o.target \in 1..Newest
  BY DEF Offers, Outcome, NoOutcome, Failure, Found

LEMMA SplitChecks ==
  ChecksOK <=> /\ success \in Records /\ Newer(success) /\ last \in Records
               /\ CheckOK /\ begun \in 0..MaxChecks /\ trouble \in 0..MaxTrouble
  BY DEF ChecksOK, CheckTypeOK, OffersAreSound, ChecksAreSound, CheckOK, EntryOK, Entries

LEMMA SplitChecksNext ==
  ChecksOK' <=> /\ success' \in Records /\ Newer(success)' /\ (last \in Records)'
                /\ CheckOK' /\ (begun \in 0..MaxChecks)' /\ (trouble \in 0..MaxTrouble)'
  BY DEF ChecksOK, CheckTypeOK, OffersAreSound, ChecksAreSound, CheckOK, EntryOK, Entries

LEMMA EntryPut ==
  ASSUME CheckOK, NEW c \in Checkers, NEW entry, EntryOK(entry),
         check' = [check EXCEPT ![c] = entry]
  PROVE  CheckOK'
  BY DEF CheckOK, EntryOK, Newer

LEMMA RecordShapes ==
  /\ NoRecord \in Records /\ Newer(NoRecord)
  /\ \A r \in Records : r.outcome \in Found \cup {NoOutcome, Failure}
  /\ \A g \in Generations, o \in Offers :
        /\ Record(g, Version, o) \in Records /\ Record(g, Version, o).version = Version
        /\ Record(g, Version, o).outcome = o
<1>1. NoOutcome \in Found \cup {NoOutcome, Failure} /\ NoOutcome.kind # "available"
  BY OutcomeShapes
<1>2. 0 \in 0..Newest /\ Version \in 0..Newest
  BY Numbers
<1> QED
  BY <1>1, <1>2 DEF Records, NoRecord, Record, Newer, Offers

LEMMA EntryShapes ==
  /\ EntryOK(Idle)
  /\ \A force \in BOOLEAN : EntryOK([Idle EXCEPT !.pc = "gate", !.force = force])
  /\ \A o \in Offers :
        (o.kind = "available" => o.target \in (Version + 1)..Newest) =>
            EntryOK([Idle EXCEPT !.pc = "done", !.result = o])
<1>1. NoRecord \in Records /\ Newer(NoRecord) /\ NoOutcome \in Offers
      /\ NoOutcome.kind # "available"
  BY RecordShapes, OutcomeShapes
<1> QED
  BY <1>1 DEF EntryOK, Entries, Idle, Offers

LEMMA ChecksUnchanged == ChecksOK /\ UNCHANGED checks => ChecksOK'
  BY SplitChecks, SplitChecksNext DEF checks, CheckOK, EntryOK, Newer

(* Everything but the checks may fail.                                    *)
LEMMA ChecksTroubled ==
  ASSUME ChecksOK, Sound \/ Fault, UNCHANGED <<success, last, check, begun>>
  PROVE  ChecksOK'
<1>1. trouble' \in 0..MaxTrouble
  BY SplitChecks, Numbers DEF Sound, Fault
<1> QED
  BY <1>1, SplitChecks, SplitChecksNext DEF CheckOK, EntryOK, Newer

LEMMA ChecksBegin ==
  ASSUME ChecksOK, NEW c \in Checkers, NEW force \in BOOLEAN, Begin(c, force)
  PROVE  ChecksOK'
<1>1. CheckOK'
  BY SplitChecks, EntryPut, EntryShapes DEF Begin
<1>2. begun' \in 0..MaxChecks
  BY SplitChecks, Numbers DEF Begin
<1> QED
  BY <1>1, <1>2, SplitChecks, SplitChecksNext DEF Begin, Newer

LEMMA ChecksConsumed ==
  ASSUME ChecksOK, NEW c \in Checkers, Consumed(c),
         UNCHANGED <<success, last, begun, trouble>>
  PROVE  ChecksOK'
<1>1. CheckOK'
  BY SplitChecks, EntryPut, EntryShapes DEF Consumed
<1> QED
  BY <1>1, SplitChecks, SplitChecksNext DEF Newer

LEMMA ChecksPanic ==
  ASSUME ChecksOK, NEW c \in Checkers, Fault, Ends(c, Failure),
         UNCHANGED <<success, last, begun>>
  PROVE  ChecksOK'
<1>1. CheckOK'
  BY SplitChecks, EntryPut, EntryShapes, OutcomeShapes DEF Ends
<1>2. trouble' \in 0..MaxTrouble
  BY SplitChecks, Numbers DEF Fault
<1> QED
  BY <1>1, <1>2, SplitChecks, SplitChecksNext DEF Newer

LEMMA EntryGoes ==
  ASSUME CheckOK, NEW c \in Checkers, GoTo(c, "invalidate") \/ GoTo(c, "readSuccess")
           \/ GoTo(c, "probe") \/ GoTo(c, "recordFailure")
  PROVE  CheckOK'
  BY DEF CheckOK, EntryOK, Entries, Newer, GoTo

LEMMA ChecksWork ==
  ASSUME ChecksOK, NEW c \in Checkers, Work(c)
  PROVE  ChecksOK'
<1> DEFINE entry == check[c]
<1>1. EntryOK(entry) /\ entry \in Entries /\ check \in [Checkers -> Entries]
  BY SplitChecks DEF CheckOK
<1>2. success \in Records /\ Newer(success) /\ last \in Records
      /\ begun \in 0..MaxChecks /\ trouble \in 0..MaxTrouble /\ CheckOK
  BY SplitChecks
<1>3. begun' \in 0..MaxChecks
  BY <1>2 DEF Work
<1>4. trouble' \in 0..MaxTrouble
  BY <1>2, Numbers
     DEF Work, Gate, Invalidate, ReadSuccess, ReadLast, Probe, WriteLast, WriteSuccess,
         RecordFailure, Sound, Fault
<1>5. CheckOK' /\ success' \in Records /\ Newer(success)' /\ last' \in Records
  <2>1. CASE Gate(c)
    <3>1. CASE Ends(c, Failure) \/ Ends(c, NoOutcome)
      BY <3>1, <2>1, <1>2, EntryPut, EntryShapes, OutcomeShapes DEF Ends, Gate, Newer
    <3>2. CASE GoTo(c, IF check[c].force THEN "invalidate" ELSE "readSuccess")
      BY <3>2, <2>1, <1>2, EntryGoes DEF Gate, Newer
    <3> QED
      BY <2>1, <3>1, <3>2 DEF Gate
  <2>2. CASE Invalidate(c)
    BY <2>2, <1>2, EntryGoes, RecordShapes DEF Invalidate, Newer
  <2>3. CASE ReadSuccess(c)
    <3>1. CASE GoTo(c, "probe")
      BY <3>1, <2>3, <1>2, EntryGoes DEF ReadSuccess, Newer
    <3>2. CASE check' = [check EXCEPT ![c].pc = "readLast", ![c].held = success]
      <4> DEFINE new == [entry EXCEPT !.pc = "readLast", !.held = success]
      <4>1. check' = [check EXCEPT ![c] = new]
        BY <3>2, <1>1
      <4>2. EntryOK(new)
        BY <1>1, <1>2 DEF EntryOK, Entries
      <4> QED
        BY <4>1, <4>2, <2>3, <1>2, EntryPut DEF ReadSuccess, Newer
    <3> QED
      BY <2>3, <3>1, <3>2 DEF ReadSuccess
  <2>4. CASE ReadLast(c)
    <3>1. CASE UsableHit(check[c].held)
      <4>1. entry.held.outcome \in Offers /\ entry.held.version = Version
        BY <3>1, <1>1, RecordShapes DEF UsableHit, Entries, Offers
      <4>2. entry.held.outcome.kind = "available" =>
                entry.held.outcome.target \in (Version + 1)..Newest
        BY <4>1, <1>1 DEF EntryOK, Newer
      <4>3. Ends(c, entry.held.outcome)
        BY <3>1, <2>4 DEF ReadLast
      <4> QED
        BY <4>1, <4>2, <4>3, <2>4, <1>2, EntryPut, EntryShapes DEF ReadLast, Ends, Newer
    <3>2. CASE ~UsableHit(check[c].held)
      <4> DEFINE new == [entry EXCEPT !.pc = "probe", !.held = NoRecord]
      <4>1. check' = [check EXCEPT ![c] = new]
        BY <3>2, <2>4, <1>1 DEF ReadLast
      <4>2. EntryOK(new)
        BY <1>1, RecordShapes DEF EntryOK, Entries
      <4> QED
        BY <4>1, <4>2, <2>4, <1>2, EntryPut DEF ReadLast, Newer
    <3> QED
      BY <3>1, <3>2
  <2>5. CASE Probe(c)
    <3>1. CASE GoTo(c, "recordFailure")
      BY <3>1, <2>5, <1>2, EntryGoes DEF Probe, Newer
    <3>2. ASSUME NEW found \in Found, found.kind = "available" => found.target > Version,
                 check' = [check EXCEPT
                      ![c].pc = "writeLast",
                      ![c].held = Record(NewGeneration, Version, found)]
          PROVE  CheckOK'
      <4> DEFINE held == Record(NewGeneration, Version, found)
                 new == [entry EXCEPT !.pc = "writeLast", !.held = held]
      <4>1. held \in Records /\ held.version = Version /\ held.outcome = found
        BY NewGenerationIsOne, RecordShapes, OutcomeShapes
      <4>2. Newer(held)
        BY <4>1, <3>2, OutcomeShapes, Numbers DEF Newer
      <4>3. check' = [check EXCEPT ![c] = new]
        BY <3>2, <1>1
      <4> HIDE DEF held
      <4>4. EntryOK(new)
        BY <1>1, <4>1, <4>2 DEF EntryOK, Entries
      <4> QED
        BY <4>3, <4>4, <1>2, EntryPut
    <3> QED
      BY <2>5, <3>1, <3>2, <1>2 DEF Probe, Newer
  <2>6. CASE WriteLast(c)
    <3>1. CASE GoTo(c, "recordFailure") /\ UNCHANGED last
      BY <3>1, <2>6, <1>2, EntryGoes DEF WriteLast, Newer
    <3>2. CASE last' = check[c].held /\ GoTo(c, "writeSuccess")
      <4> DEFINE new == [entry EXCEPT !.pc = "writeSuccess"]
      <4>1. check' = [check EXCEPT ![c] = new]
        BY <3>2, <1>1 DEF GoTo
      <4>2. EntryOK(new)
        BY <1>1, <2>6 DEF EntryOK, Entries, WriteLast, At
      <4>3. last' \in Records
        BY <3>2, <1>1 DEF Entries
      <4> QED
        BY <4>1, <4>2, <4>3, <2>6, <1>2, EntryPut DEF WriteLast, Newer
    <3> QED
      BY <2>6, <3>1, <3>2 DEF WriteLast
  <2>7. CASE WriteSuccess(c)
    <3>1. CASE GoTo(c, "recordFailure") /\ UNCHANGED success
      BY <3>1, <2>7, <1>2, EntryGoes DEF WriteSuccess, Newer
    <3>2. CASE success' = check[c].held /\ Ends(c, check[c].held.outcome)
      <4>1. /\ entry.held \in Records /\ entry.held.version = Version /\ Newer(entry.held)
            /\ entry.held.outcome \in Offers
        BY <1>1, <2>7, RecordShapes DEF EntryOK, Entries, WriteSuccess, At, Offers
      <4>2. entry.held.outcome.kind = "available" =>
                entry.held.outcome.target \in (Version + 1)..Newest
        BY <4>1 DEF Newer
      <4> QED
        BY <4>1, <4>2, <3>2, <2>7, <1>2, EntryPut, EntryShapes DEF WriteSuccess, Ends, Newer
    <3> QED
      BY <2>7, <3>1, <3>2 DEF WriteSuccess
  <2>8. CASE RecordFailure(c)
    BY <2>8, <1>2, EntryPut, EntryShapes, OutcomeShapes, NewGenerationIsOne, RecordShapes
       DEF RecordFailure, Ends, Newer
  <2> QED
    BY <2>1, <2>2, <2>3, <2>4, <2>5, <2>6, <2>7, <2>8 DEF Work
<1> QED
  BY <1>3, <1>4, <1>5, SplitChecksNext
-----------------------------------------------------------------------------
(* The jobs on the dashboard.                                             *)
LEMMA JobsAreFinite == \A list \in SUBSET Jobs :
  IsFiniteSet(list) /\ Cardinality(list) \in Nat /\ Cardinality(list) <= Cardinality(Jobs)
  BY TerminalAssumption, FS_Subset, FS_CardinalityType

(* The places of the jobs of a list are 0, 1 and so on, without a gap.    *)
LEMMA Places ==
  ASSUME NEW list \in SUBSET Jobs
  PROVE  /\ \A j \in list : Place(list, j) \in 0..(Cardinality(list) - 1)
         /\ \A at \in 0..(Cardinality(list) - 1) : \E j \in list : Place(list, j) = at
<1> DEFINE n == Cardinality(list)
           Below(j) == {k \in list : k < j}
           f == [j \in list |-> Place(list, j)]
<1>1. IsFiniteSet(list) /\ n \in Nat /\ list \subseteq Nat
  BY JobsAreFinite, TerminalAssumption
<1>2. ASSUME NEW j \in list
      PROVE  IsFiniteSet(Below(j)) /\ Cardinality(Below(j)) \in Nat
             /\ Cardinality(Below(j)) < n
  <2>1. Below(j) \in SUBSET list /\ Below(j) # list
    BY <1>1
  <2>2. Cardinality(Below(j)) <= n /\ Cardinality(Below(j)) # n /\ IsFiniteSet(Below(j))
    BY <2>1, <1>1, FS_Subset
  <2>3. Cardinality(Below(j)) \in Nat
    BY <2>2, FS_CardinalityType
  <2> QED
    BY <2>2, <2>3, <1>1
<1>3. \A j \in list : Place(list, j) \in 0..(n - 1)
  BY <1>1, <1>2 DEF Place
<1>4. ASSUME NEW i \in list, NEW j \in list, i < j
      PROVE  Place(list, i) < Place(list, j)
  <2>1. Below(i) \in SUBSET Below(j) /\ i \in Below(j) /\ i \notin Below(i)
    <3>1. \A k \in list : k \in Int
      BY <1>1
    <3>2. \A k \in list : k < i => k < j
      BY <3>1, <1>4
    <3>3. ~(i < i)
      BY <3>1
    <3> QED
      BY <3>2, <3>3, <1>4
  <2>2. Below(i) # Below(j)
    BY <2>1
  <2>3. /\ IsFiniteSet(Below(j)) /\ Cardinality(Below(i)) \in Nat
        /\ Cardinality(Below(j)) \in Nat
    BY <1>2
  <2>4. /\ Cardinality(Below(i)) <= Cardinality(Below(j))
        /\ Cardinality(Below(i)) # Cardinality(Below(j))
    BY <2>1, <2>2, <2>3, FS_Subset
  <2> QED
    BY <2>3, <2>4 DEF Place
<1>5. f \in Injection(list, 0..(n - 1))
  <2>1. f \in [list -> 0..(n - 1)]
    BY <1>3
  <2>2. \A i, j \in list : f[i] = f[j] => i = j
    BY <1>1, <1>3, <1>4
  <2> QED
    BY <2>1, <2>2 DEF Injection, IsInjective
<1>6. IsFiniteSet(0..(n - 1)) /\ Cardinality(0..(n - 1)) = n
  <2>1. 0 \in Int /\ n - 1 \in Int /\ (IF 0 > n - 1 THEN 0 ELSE (n - 1) - 0 + 1) = n
    BY <1>1
  <2> HIDE DEF n
  <2> QED
    BY <2>1, FS_Interval
<1>7. f \in Surjection(list, 0..(n - 1))
  BY <1>5, <1>6, FS_Injection
<1>8. \A at \in 0..(n - 1) : \E j \in list : f[j] = at
  BY <1>7 DEF Surjection
<1> QED
  BY <1>3, <1>8

LEMMA FocusIsListed ==
  ASSUME NEW list \in SUBSET Jobs, NEW at \in Nat
  PROVE  /\ FocusedIn(list, at) \in list \cup {NoJob}
         /\ list = {} => FocusedIn(list, at) = NoJob
<1>1. Cardinality(list) \in Nat /\ (list = {} => Cardinality(list) = 0)
  BY JobsAreFinite, FS_EmptySet
<1>2. CASE at < Cardinality(list)
  <2>1. at \in 0..(Cardinality(list) - 1)
    BY <1>1, <1>2
  <2>2. \E j \in list : Place(list, j) = at
    BY <2>1, Places
  <2> QED
    BY <2>2, <1>1, <1>2 DEF FocusedIn
<1>3. CASE ~(at < Cardinality(list))
  BY <1>3 DEF FocusedIn
<1> QED
  BY <1>2, <1>3

LEMMA JobsAreNumbers == NoJob \notin Jobs /\ Cardinality(Jobs) \in Nat
  BY TerminalAssumption, FS_CardinalityType DEF NoJob

LEMMA FocusedIsListed == ASSUME DashboardOK PROVE Focused \in listed \cup {NoJob}
  BY FocusIsListed, JobsAreNumbers DEF DashboardOK, Focused

LEMMA DashboardUnchanged ==
  ASSUME DashboardOK, UNCHANGED <<listed, cursor, tail>>,
         listing' \in {"loading", "empty", "ready", "error"}
  PROVE  DashboardOK'
  BY DEF DashboardOK, Focused, FocusedIn, Place

(* Without a list nothing is under the cursor.                            *)
LEMMA DashboardCleared ==
  ASSUME DashboardOK, listed' = {}, cursor' \in {cursor, 0}, tail' \in {tail, NoJob},
         listing' \in {"loading", "empty", "ready", "error"}
  PROVE  DashboardOK'
<1>1. cursor' \in 0..Cardinality(Jobs) /\ cursor' \in Nat
  BY JobsAreNumbers DEF DashboardOK
<1>2. FocusedIn({}, cursor') = NoJob
  BY <1>1, FocusIsListed
<1> QED
  BY <1>1, <1>2 DEF DashboardOK, Focused

LEMMA DashboardRefreshed ==
  ASSUME DashboardOK, NEW running \in SUBSET Jobs, RefreshJobs(running)
  PROVE  DashboardOK'
<1> DEFINE lowest == Cardinality(running) - 1
<1>1. Cardinality(running) \in Nat /\ Cardinality(running) <= Cardinality(Jobs)
      /\ Cardinality(Jobs) \in Nat
  BY JobsAreFinite, JobsAreNumbers
<1>2. running # {} => Cardinality(running) # 0
  BY JobsAreFinite, FS_EmptySet
<1>3. CASE running = {}
  BY <1>1, <1>3 DEF RefreshJobs, DashboardOK, Focused, NoJob, FocusedIn
<1>4. CASE running # {} /\ Focused \in running
  <2>1. Place(running, Focused) \in 0..lowest
    BY <1>4, Places
  <2> QED
    BY <2>1, <1>1, <1>4 DEF RefreshJobs, DashboardOK, Focused
<1>5. CASE running # {} /\ Focused \notin running
  <2>1. (IF cursor < lowest THEN cursor ELSE lowest) \in 0..lowest
    BY <1>1, <1>2, <1>5 DEF DashboardOK
  <2> QED
    BY <2>1, <1>1, <1>5 DEF RefreshJobs, DashboardOK, Focused
<1> QED
  BY <1>3, <1>4, <1>5

LEMMA DashboardMoved ==
  ASSUME DashboardOK, NEW place \in 0..(Cardinality(listed) - 1), MoveCursor(place),
         UNCHANGED <<listing, listed>>
  PROVE  DashboardOK'
<1>1. Cardinality(listed) \in Nat /\ Cardinality(listed) <= Cardinality(Jobs)
      /\ Cardinality(Jobs) \in Nat
  BY JobsAreFinite, JobsAreNumbers DEF DashboardOK
<1>2. cursor' \in 0..Cardinality(Jobs)
  BY <1>1 DEF MoveCursor
<1>3. CASE place = cursor
  BY <1>2, <1>3 DEF MoveCursor, DashboardOK, Focused
<1>4. CASE place # cursor
  BY <1>2, <1>4 DEF MoveCursor, DashboardOK
<1> QED
  BY <1>3, <1>4

LEMMA DashboardTail ==
  ASSUME DashboardOK, NEW job, tail' = IF Focused = job THEN job ELSE tail,
         UNCHANGED <<listing, listed, cursor>>
  PROVE  DashboardOK'
<1>1. Focused \in Jobs \cup {NoJob} /\ Focused' = Focused
  BY FocusedIsListed DEF DashboardOK, Focused
<1> QED
  BY <1>1 DEF DashboardOK
-----------------------------------------------------------------------------
(* The checks, by every step.                                             *)
LEMMA KeysLeaveChecks == HandleKey => UNCHANGED checks
  BY DEF HandleKey, CloseMigrationNotice, UpdateKey, UpdateConfirmKey, LanguageKey,
         MainKey, ApplyHomeKey, ApplyPreviewKey, ApplyConflictKey, ApplyConfirmKey,
         UnapplyPreviewKey, UnapplyConfirmKey, ConfigKey, ConfigEditKey,
         ConfigConfirmKey, JobsKey, JobsKillConfirmKey, JobsKillFailedKey,
         StatusKey, CloseKey, OperationFailedKey, Interrupt, NoKey, Choose, Key,
         Quits, KeyTo

LEMMA ChecksKept == ASSUME ChecksOK, TerminalNext PROVE ChecksOK'
<1>1. {Startup, Page} = Checkers
  BY TerminalAssumption
<1>2. CASE Request
  BY <1>1, <1>2, ChecksBegin, ChecksUnchanged DEF Request, StartRequested
<1>3. CASE Draw
  <2>1. CASE UNCHANGED check
    BY <2>1, <1>3, ChecksUnchanged DEF Draw, checks
  <2>2. CASE \E c \in Checkers : Consumed(c)
    BY <2>2, <1>3, ChecksConsumed DEF Draw
  <2> QED
    BY <2>1, <2>2, <1>1, <1>3 DEF Draw, PollUpdateCheck
<1>4. CASE Execute
  <2>1. CASE ExecuteRetryUpdate
    BY <2>1, <1>1, ChecksBegin DEF ExecuteRetryUpdate
  <2>2. CASE SaveFirstLanguage
    <3>1. CASE StartRequested
      BY <3>1, <1>1, ChecksBegin, ChecksUnchanged DEF StartRequested
    <3>2. CASE Fault /\ UNCHANGED <<check, begun>>
      BY <3>2, <2>2, ChecksTroubled DEF SaveFirstLanguage
    <3> QED
      BY <3>1, <3>2, <2>2 DEF SaveFirstLanguage, SaveFails
  <2>3. CASE SaveLanguage
    BY <2>3, ChecksTroubled DEF SaveLanguage, SavedAs, SaveFails
  <2>4. CASE SaveConfig
    BY <2>4, ChecksTroubled DEF SaveConfig, SavedAs, SaveFails
  <2>5. CASE ResetConfig
    BY <2>5, ChecksTroubled DEF ResetConfig, SavedAs, SaveFails
  <2>6. CASE PlanApply
    BY <2>6, ChecksTroubled DEF PlanApply
  <2>7. CASE CommitApply
    BY <2>7, ChecksTroubled DEF CommitApply
  <2>8. CASE PlanUnapply
    BY <2>8, ChecksTroubled DEF PlanUnapply
  <2>9. CASE CommitUnapply
    BY <2>9, ChecksTroubled DEF CommitUnapply
  <2>10. CASE LoadJobs
    BY <2>10, ChecksTroubled DEF LoadJobs
  <2>11. CASE KillJob
    BY <2>11, ChecksTroubled DEF KillJob
  <2>12. CASE RunDoctor \/ LoadJobTail \/ RefreshJobCount
    BY <2>12, ChecksUnchanged DEF RunDoctor, LoadJobTail, RefreshJobCount
  <2> QED
    BY <1>4, <2>1, <2>2, <2>3, <2>4, <2>5, <2>6, <2>7, <2>8, <2>9, <2>10, <2>11, <2>12 DEF Execute
<1>5. CASE HandleKey
  BY <1>5, KeysLeaveChecks, ChecksUnchanged
<1>6. CASE Breaks
  BY <1>6, ChecksTroubled DEF Breaks
<1>7. ASSUME NEW c \in Checkers, WorkerRuns(c) PROVE ChecksOK'
  BY <1>7, ChecksWork, ChecksPanic DEF WorkerRuns
<1> QED
  BY <1>2, <1>3, <1>4, <1>5, <1>6, <1>7 DEF TerminalNext
-----------------------------------------------------------------------------
(* The settings, by every step.                                           *)
LEMMA SettingsUnchanged == SettingsOK /\ UNCHANGED settings => SettingsOK'
  BY DEF SettingsOK, settings

SettingsKeys == MainKey \/ ConfigKey \/ ConfigEditKey \/ ConfigConfirmKey

LEMMA QuietForSettings ==
  /\ Request \/ Draw \/ Breaks => UNCHANGED settings
  /\ \A c \in Checkers : WorkerRuns(c) => UNCHANGED settings
  /\ ExecuteRetryUpdate \/ PlanApply \/ PlanUnapply \/ RunDoctor \/ LoadJobs \/ LoadJobTail
     \/ RefreshJobCount \/ KillJob => UNCHANGED settings
  /\ HandleKey => SettingsKeys \/ UNCHANGED settings
<1>1. /\ Request \/ Draw \/ Breaks => UNCHANGED settings
      /\ \A c \in Checkers : WorkerRuns(c) => UNCHANGED settings
  BY DEF Request, Draw, Breaks, WorkerRuns
<1>2. ExecuteRetryUpdate \/ PlanApply \/ PlanUnapply \/ RunDoctor \/ LoadJobs
      \/ LoadJobTail \/ RefreshJobCount \/ KillJob => UNCHANGED settings
  BY DEF ExecuteRetryUpdate, PlanApply, PlanUnapply, RunDoctor, LoadJobs,
         LoadJobTail, RefreshJobCount, KillJob
<1>3. HandleKey => SettingsKeys \/ UNCHANGED settings
  BY DEF SettingsKeys, HandleKey, CloseMigrationNotice, UpdateKey,
         UpdateConfirmKey, LanguageKey, ApplyHomeKey, ApplyPreviewKey,
         ApplyConflictKey, ApplyConfirmKey, UnapplyPreviewKey, UnapplyConfirmKey,
         JobsKey, JobsKillConfirmKey, JobsKillFailedKey, StatusKey, CloseKey,
         OperationFailedKey, Interrupt, NoKey, Choose
<1> QED
  BY <1>1, <1>2, <1>3

LEMMA SettingsSaved ==
  ASSUME SettingsOK, NEW updated, updated.present = TRUE,
         updated \in [present : BOOLEAN, language : BOOLEAN, applied : BOOLEAN,
                      prefs : Preferences],
         \/ SavedAs(updated) /\ draft' \in Preferences
         \/ SaveFails(updated)
  PROVE  SettingsOK'
<1>1. CASE SavedAs(updated) /\ draft' \in Preferences
  BY <1>1 DEF SavedAs, SettingsOK
<1>2. CASE SaveFails(updated)
  <2>1. CASE UNCHANGED settings
    BY <2>1, SettingsUnchanged
  <2>2. CASE /\ disk' = updated /\ memory' = updated /\ draft' = updated.prefs
             /\ unreloaded' = FALSE
    <3>1. updated.prefs \in Preferences
      OBVIOUS
    <3> QED
      BY <2>2, <3>1 DEF SettingsOK
  <2> QED
    BY <1>2, <2>1, <2>2 DEF SaveFails
<1> QED
  BY <1>1, <1>2

LEMMA SettingsKept == ASSUME SettingsOK, TerminalNext PROVE SettingsOK'
<1> DEFINE Types == [present : BOOLEAN, language : BOOLEAN, applied : BOOLEAN,
                     prefs : Preferences]
<1>1. memory \in Types /\ disk \in Types /\ draft \in Preferences /\ 0 \in Preferences
  BY TerminalAssumption DEF SettingsOK
<1>2. CASE UNCHANGED settings
  BY <1>2, SettingsUnchanged
<1>3. CASE SaveFirstLanguage
  <2> DEFINE updated == [memory EXCEPT !.language = TRUE, !.present = TRUE]
  <2>1. updated \in Types /\ updated.present = TRUE
    BY <1>1
  <2>2. (SavedAs(updated) /\ UNCHANGED draft) \/ SaveFails(updated)
    BY <1>3 DEF SaveFirstLanguage
  <2> QED
    BY <2>1, <2>2, <1>1, SettingsSaved
<1>4. CASE SaveLanguage
  <2> DEFINE updated == [memory EXCEPT !.language = TRUE, !.present = TRUE]
  <2>1. updated \in Types /\ updated.present = TRUE
    BY <1>1
  <2>2. (SavedAs(updated) /\ UNCHANGED draft) \/ SaveFails(updated)
    BY <1>4 DEF SaveLanguage
  <2> QED
    BY <2>1, <2>2, <1>1, SettingsSaved
<1>5. CASE SaveConfig
  <2> DEFINE updated == [memory EXCEPT !.prefs = draft, !.present = TRUE]
  <2>1. updated \in Types /\ updated.present = TRUE /\ updated.prefs \in Preferences
    BY <1>1
  <2>2. (SavedAs(updated) /\ draft' = updated.prefs) \/ SaveFails(updated)
    BY <1>5 DEF SaveConfig
  <2> QED
    BY <2>1, <2>2, <1>1, SettingsSaved
<1>6. CASE ResetConfig
  <2> DEFINE updated == [memory EXCEPT !.language = FALSE, !.prefs = 0, !.present = TRUE]
  <2>1. updated \in Types /\ updated.present = TRUE
    BY <1>1
  <2>2. (SavedAs(updated) /\ draft' = 0) \/ SaveFails(updated)
    BY <1>6 DEF ResetConfig
  <2> QED
    BY <2>1, <2>2, <1>1, SettingsSaved
<1>7. CASE CommitApply
  <2> DEFINE written == [present |-> TRUE, language |-> disk.present /\ disk.language,
                         prefs |-> memory.prefs, applied |-> TRUE]
  <2>1. written \in Types /\ written.present = TRUE
    BY <1>1
  <2>2. \/ /\ disk' = written /\ UNCHANGED draft
           /\ \/ memory' = written /\ unreloaded' = FALSE
              \/ unreloaded' = TRUE /\ UNCHANGED memory
        \/ UNCHANGED settings
    BY <1>7 DEF CommitApply
  <2> HIDE DEF written
  <2>3. CASE disk' = written /\ UNCHANGED draft /\ memory' = written /\ unreloaded' = FALSE
    BY <2>3, <2>1, <1>1 DEF SettingsOK
  <2>4. CASE disk' = written /\ UNCHANGED draft /\ unreloaded' = TRUE /\ UNCHANGED memory
    BY <2>4, <2>1, <1>1 DEF SettingsOK
  <2> QED
    BY <2>2, <2>3, <2>4, <1>2
<1>8. CASE CommitUnapply
  <2>1. \/ /\ disk' = NoSettings /\ memory' = [memory EXCEPT !.applied = FALSE]
           /\ UNCHANGED <<draft, unreloaded>>
        \/ UNCHANGED settings
    BY <1>8 DEF CommitUnapply
  <2>2. CASE /\ disk' = NoSettings /\ memory' = [memory EXCEPT !.applied = FALSE]
             /\ UNCHANGED <<draft, unreloaded>>
    BY <2>2, <1>1 DEF SettingsOK, NoSettings
  <2> QED
    BY <2>1, <2>2, <1>2
<1>9. CASE SettingsKeys
  <2>1. draft' \in Preferences /\ UNCHANGED <<memory, disk, unreloaded>>
    BY <1>9, <1>1
       DEF SettingsKeys, MainKey, ConfigKey, ConfigEditKey, ConfigConfirmKey, Choose,
           settings
  <2> QED
    BY <2>1 DEF SettingsOK
<1> QED
  BY <1>2, <1>3, <1>4, <1>5, <1>6, <1>7, <1>8, <1>9, QuietForSettings
     DEF TerminalNext, Execute
-----------------------------------------------------------------------------
(* The dashboard, by every step.                                          *)
SameList ==
    /\ UNCHANGED <<listed, cursor, tail>>
    /\ listing' \in {"loading", "empty", "ready", "error"}
ListCleared ==
    /\ listed' = {} /\ cursor' \in {cursor, 0} /\ tail' \in {tail, NoJob}
    /\ listing' \in {"loading", "empty", "ready", "error"}

LEMMA SameOrCleared == DashboardOK /\ (SameList \/ ListCleared) => DashboardOK'
  BY DashboardUnchanged, DashboardCleared DEF SameList, ListCleared

LEMMA DashboardKept == ASSUME DashboardOK, TerminalNext PROVE DashboardOK'
<1>1. listing \in {"loading", "empty", "ready", "error"}
  BY DEF DashboardOK
<1>2. UNCHANGED dashboard => SameList
  BY <1>1 DEF dashboard, SameList
<1>3. BackToMain \/ EmptyDashboard => ListCleared
  BY DEF BackToMain, EmptyDashboard, ListCleared
<1>4. Request \/ Breaks \/ (\E c \in Checkers : WorkerRuns(c)) => SameList
  BY <1>2 DEF Request, Breaks, WorkerRuns
<1>5. Draw => SameList \/ ListCleared
  BY <1>2, <1>3 DEF Draw, PollUpdateCheck, Resolve
<1>6. CASE Execute
  <2>1. CASE LoadJobs
    <3>1. CASE \E running \in SUBSET Jobs : RefreshJobs(running)
      BY <3>1, DashboardRefreshed
    <3>2. CASE listing' = "error" /\ listed' = {} /\ UNCHANGED <<cursor, tail>>
      BY <3>2, SameOrCleared DEF ListCleared
    <3> QED
      BY <2>1, <3>1, <3>2 DEF LoadJobs
  <2>2. CASE LoadJobTail
    BY <2>2, DashboardTail DEF LoadJobTail
  <2>3. CASE KillJob
    BY <2>3, <1>2, SameOrCleared DEF KillJob, ListCleared
  <2>4. CASE ResetConfig
    BY <2>4, <1>1, <1>2, SameOrCleared DEF ResetConfig, SameList
  <2>5. ExecuteRetryUpdate \/ SaveFirstLanguage \/ SaveLanguage \/ SaveConfig \/ PlanApply
        \/ CommitApply \/ PlanUnapply \/ CommitUnapply \/ RunDoctor \/ RefreshJobCount
          => UNCHANGED dashboard
    BY DEF ExecuteRetryUpdate, SaveFirstLanguage, SaveLanguage, SaveConfig,
           PlanApply, CommitApply, PlanUnapply, CommitUnapply, RunDoctor,
           RefreshJobCount
  <2> QED
    BY <1>6, <1>2, <2>1, <2>2, <2>3, <2>4, <2>5, SameOrCleared DEF Execute
<1>7. CASE HandleKey
  <2>1. CASE JobsKey
    <3>1. CASE \E place \in 0..(Cardinality(listed) - 1) :
                 MoveCursor(place) /\ UNCHANGED <<listing, listed>>
      BY <3>1, DashboardMoved
    <3>2. CASE SameList \/ ListCleared
      BY <3>2, SameOrCleared
    <3> QED
      BY <2>1, <1>1, <1>3, <3>1, <3>2 DEF JobsKey, SameList
  <2>2. HandleKey => JobsKey \/ SameList \/ ListCleared
    <3>1. CloseMigrationNotice => SameList \/ ListCleared
      BY <1>1, <1>2, <1>3 DEF CloseMigrationNotice
    <3>2. UpdateKey => SameList \/ ListCleared
      BY <1>1, <1>2, <1>3 DEF UpdateKey
    <3>3. UpdateConfirmKey => SameList \/ ListCleared
      BY <1>1, <1>2, <1>3 DEF UpdateConfirmKey, Choose
    <3>4. LanguageKey => SameList \/ ListCleared
      BY <1>1, <1>2, <1>3 DEF LanguageKey
    <3>5. MainKey => SameList \/ ListCleared
      BY <1>1, <1>2, <1>3 DEF MainKey
    <3>6. ApplyHomeKey => SameList \/ ListCleared
      BY <1>1, <1>2, <1>3 DEF ApplyHomeKey
    <3>7. ApplyPreviewKey => SameList \/ ListCleared
      BY <1>1, <1>2, <1>3 DEF ApplyPreviewKey
    <3>8. ApplyConflictKey => SameList \/ ListCleared
      BY <1>1, <1>2, <1>3 DEF ApplyConflictKey, Choose
    <3>9. ApplyConfirmKey => SameList \/ ListCleared
      BY <1>1, <1>2, <1>3 DEF ApplyConfirmKey, Choose
    <3>10. UnapplyPreviewKey => SameList \/ ListCleared
      BY <1>1, <1>2, <1>3 DEF UnapplyPreviewKey
    <3>11. UnapplyConfirmKey => SameList \/ ListCleared
      BY <1>1, <1>2, <1>3 DEF UnapplyConfirmKey, Choose
    <3>12. ConfigKey => SameList \/ ListCleared
      BY <1>1, <1>2, <1>3 DEF ConfigKey
    <3>13. ConfigEditKey => SameList \/ ListCleared
      BY <1>1, <1>2, <1>3 DEF ConfigEditKey
    <3>14. ConfigConfirmKey => SameList \/ ListCleared
      BY <1>1, <1>2, <1>3 DEF ConfigConfirmKey, Choose
    <3>15. JobsKillConfirmKey => SameList \/ ListCleared
      BY <1>1, <1>2, <1>3 DEF JobsKillConfirmKey, Choose, dashboard, SameList
    <3>16. JobsKillFailedKey => SameList \/ ListCleared
      BY <1>1, <1>2, <1>3 DEF JobsKillFailedKey, dashboard, SameList
    <3>17. StatusKey => SameList \/ ListCleared
      BY <1>1, <1>2, <1>3 DEF StatusKey
    <3>18. CloseKey => SameList \/ ListCleared
      BY <1>1, <1>2, <1>3 DEF CloseKey
    <3>19. OperationFailedKey => SameList \/ ListCleared
      BY <1>1, <1>2, <1>3 DEF OperationFailedKey
    <3>20. Interrupt => SameList \/ ListCleared
      BY <1>1, <1>2, <1>3 DEF Interrupt
    <3>21. NoKey => SameList \/ ListCleared
      BY <1>1, <1>2, <1>3 DEF NoKey
    <3> QED
      BY <3>1, <3>2, <3>3, <3>4, <3>5, <3>6, <3>7, <3>8, <3>9, <3>10,
         <3>11, <3>12, <3>13, <3>14, <3>15, <3>16, <3>17, <3>18, <3>19, <3>20, <3>21 DEF HandleKey
  <2> QED
    BY <1>7, <2>1, <2>2, SameOrCleared
<1> QED
  BY <1>4, <1>5, <1>6, <1>7, SameOrCleared DEF TerminalNext
-----------------------------------------------------------------------------
(* The screens, the effects and the gate, by every key.                   *)
LEMMA EffectTypes ==
  /\ \A kind \in Kinds \cup {"none"} : Effect(kind) \in EffectType
  /\ \A j \in Jobs \cup {NoJob} : Kill(j) \in EffectType
  /\ \A e \in EffectType : RetryOf(e) \in EffectType
  BY DEF EffectType, Effect, Kill, RetryOf, Kinds

LEMMA RetryScreens ==
  ASSUME RetriesFit, screen = "OperationFailed"
  PROVE  \/ retry.kind = "PlanApply" /\ RetryScreen(retry.kind) = "ApplyLoading"
         \/ retry.kind = "PlanUnapply" /\ RetryScreen(retry.kind) = "UnapplyLoading"
         \/ retry.kind = "SaveConfig" /\ RetryScreen(retry.kind) = "Config"
         \/ retry.kind = "ResetConfig" /\ RetryScreen(retry.kind) = "ConfigResetting"
         \/ retry.kind = "SaveFirstLanguage" /\ RetryScreen(retry.kind) = "FirstLanguage"
         \/ retry.kind = "SaveLanguage" /\ RetryScreen(retry.kind) = "Language"
  BY DEF RetriesFit, RetryScreen

LEMMA ScreenOKAfterKey == ASSUME ViewOK, DashboardOK, HandleKey PROVE ScreenOK'
<1>1. CASE CloseMigrationNotice
  BY <1>1
     DEF ViewOK, ScreenOK, Screens, Confirmations, Blocking, CloseMigrationNotice,
         Key, KeyTo, Show, Idles, effects, view, settings, plans, dashboard,
         updates, EnterGate, BackToMain
<1>2. CASE UpdateKey
  BY <1>2
     DEF ViewOK, ScreenOK, Screens, Confirmations, Blocking, UpdateKey, Key, KeyTo,
         Show, Idles, effects, view, settings, plans, dashboard, updates, Orders,
         BackToMain
<1>3. CASE UpdateConfirmKey
  BY <1>3
     DEF ViewOK, ScreenOK, Screens, Confirmations, Blocking, UpdateConfirmKey, Key,
         KeyTo, Show, Idles, effects, view, settings, plans, dashboard, updates,
         Choose, Quits
<1>4. CASE LanguageKey
  BY <1>4
     DEF ViewOK, ScreenOK, Screens, Confirmations, Blocking, LanguageKey, Key,
         KeyTo, Show, Idles, effects, view, settings, plans, dashboard, updates,
         Orders, BackToMain
<1>5. CASE MainKey
  BY <1>5
     DEF ViewOK, ScreenOK, Screens, Confirmations, Blocking, MainKey, Key, KeyTo,
         Show, Idles, effects, view, settings, plans, dashboard, updates, Orders
<1>6. CASE ApplyHomeKey
  BY <1>6
     DEF ViewOK, ScreenOK, Screens, Confirmations, Blocking, ApplyHomeKey, Key,
         KeyTo, Show, Idles, effects, view, settings, plans, dashboard, updates,
         Orders, BackToMain
<1>7. CASE ApplyPreviewKey
  BY <1>7
     DEF ViewOK, ScreenOK, Screens, Confirmations, Blocking, ApplyPreviewKey, Key,
         KeyTo, Show, Idles, effects, view, settings, plans, dashboard, updates,
         NoPlan
<1>8. CASE ApplyConflictKey
  BY <1>8
     DEF ViewOK, ScreenOK, Screens, Confirmations, Blocking, ApplyConflictKey, Key,
         KeyTo, Show, Idles, effects, view, settings, plans, dashboard, updates,
         Choose, NoPlan
<1>9. CASE ApplyConfirmKey
  BY <1>9
     DEF ViewOK, ScreenOK, Screens, Confirmations, Blocking, ApplyConfirmKey, Key,
         KeyTo, Show, Idles, effects, view, settings, plans, dashboard, updates,
         Choose, Orders, NoPlan
<1>10. CASE UnapplyPreviewKey
  BY <1>10
     DEF ViewOK, ScreenOK, Screens, Confirmations, Blocking, UnapplyPreviewKey,
         Key, KeyTo, Show, Idles, effects, view, settings, plans, dashboard,
         updates, NoUnplan
<1>11. CASE UnapplyConfirmKey
  BY <1>11
     DEF ViewOK, ScreenOK, Screens, Confirmations, Blocking, UnapplyConfirmKey,
         Key, KeyTo, Show, Idles, effects, view, settings, plans, dashboard,
         updates, Choose, Orders, NoUnplan
<1>12. CASE ConfigKey
  BY <1>12
     DEF ViewOK, ScreenOK, Screens, Confirmations, Blocking, ConfigKey, Key, KeyTo,
         Show, Idles, effects, view, settings, plans, dashboard, updates, Orders,
         BackToMain
<1>13. CASE ConfigEditKey
  BY <1>13
     DEF ViewOK, ScreenOK, Screens, Confirmations, Blocking, ConfigEditKey, Key,
         KeyTo, Show, Idles, effects, view, settings, plans, dashboard, updates
<1>14. CASE ConfigConfirmKey
  BY <1>14
     DEF ViewOK, ScreenOK, Screens, Confirmations, Blocking, ConfigConfirmKey, Key,
         KeyTo, Show, Idles, effects, view, settings, plans, dashboard, updates,
         Choose, Orders, BackToMain
<1>15. CASE JobsKey
  BY <1>15
     DEF ViewOK, ScreenOK, Screens, Confirmations, Blocking, JobsKey, Key, KeyTo,
         Show, Idles, effects, view, settings, plans, dashboard, updates, Orders,
         BackToMain
<1>16. CASE JobsKillConfirmKey
  BY <1>16
     DEF ViewOK, ScreenOK, Screens, Confirmations, Blocking, JobsKillConfirmKey,
         Key, KeyTo, Show, Idles, effects, view, settings, plans, dashboard,
         updates, Choose
<1>17. CASE JobsKillFailedKey
  BY <1>17
     DEF ViewOK, ScreenOK, Screens, Confirmations, Blocking, JobsKillFailedKey,
         Key, KeyTo, Show, Idles, effects, view, settings, plans, dashboard,
         updates
<1>18. CASE StatusKey
  BY <1>18
     DEF ViewOK, ScreenOK, Screens, Confirmations, Blocking, StatusKey, Key, KeyTo,
         Show, Idles, effects, view, settings, plans, dashboard, updates, Orders,
         BackToMain
<1>19. CASE CloseKey
  BY <1>19
     DEF ViewOK, ScreenOK, Screens, Confirmations, Blocking, CloseKey, Key, KeyTo,
         Show, Idles, effects, view, settings, plans, dashboard, updates,
         BackToMain
<1>20. CASE OperationFailedKey
  BY <1>20, RetryScreens, RetryScreens
     DEF ViewOK, ScreenOK, Screens, Confirmations, Blocking, RetriesFit,
         OperationFailedKey, Key, KeyTo, Show, Idles, effects, view, settings,
         plans, dashboard, updates, BackToMain
<1>21. CASE Interrupt
  BY <1>21
     DEF ViewOK, ScreenOK, Screens, Confirmations, Blocking, Interrupt, Key, KeyTo,
         Show, Idles, effects, view, settings, plans, dashboard, updates, Quits
<1>22. CASE NoKey
  BY <1>22
     DEF ViewOK, ScreenOK, Screens, Confirmations, Blocking, NoKey, Key, KeyTo,
         Show, Idles, effects, view, settings, plans, dashboard, updates
<1> QED
  BY <1>1, <1>2, <1>3, <1>4, <1>5, <1>6, <1>7, <1>8, <1>9, <1>10, <1>11, <1>12,
     <1>13, <1>14, <1>15, <1>16, <1>17, <1>18, <1>19, <1>20, <1>21, <1>22 DEF HandleKey

LEMMA OrdersOKAfterKey == ASSUME ViewOK, DashboardOK, HandleKey PROVE OrdersOK'
<1>1. CASE CloseMigrationNotice
  BY <1>1, EffectTypes
     DEF ViewOK, OrdersOK, NoEffect, CloseMigrationNotice, Key, KeyTo, Show, Idles,
         effects, view, settings, plans, dashboard, updates, EnterGate, BackToMain
<1>2. CASE UpdateKey
  BY <1>2, EffectTypes
     DEF ViewOK, OrdersOK, NoEffect, Kinds, UpdateKey, Key, KeyTo, Show, Idles,
         effects, view, settings, plans, dashboard, updates, Orders, BackToMain
<1>3. CASE UpdateConfirmKey
  BY <1>3, EffectTypes
     DEF ViewOK, OrdersOK, NoEffect, UpdateConfirmKey, Key, KeyTo, Show, Idles,
         effects, view, settings, plans, dashboard, updates, Choose, Quits
<1>4. CASE LanguageKey
  BY <1>4, EffectTypes
     DEF ViewOK, OrdersOK, NoEffect, Kinds, LanguageKey, Key, KeyTo, Show, Idles,
         effects, view, settings, plans, dashboard, updates, Orders, BackToMain
<1>5. CASE MainKey
  BY <1>5, EffectTypes
     DEF ViewOK, OrdersOK, NoEffect, Kinds, MainKey, Key, KeyTo, Show, Idles,
         effects, view, settings, plans, dashboard, updates, Orders
<1>6. CASE ApplyHomeKey
  BY <1>6, EffectTypes
     DEF ViewOK, OrdersOK, NoEffect, Kinds, ApplyHomeKey, Key, KeyTo, Show, Idles,
         effects, view, settings, plans, dashboard, updates, Orders, BackToMain
<1>7. CASE ApplyPreviewKey
  BY <1>7, EffectTypes
     DEF ViewOK, OrdersOK, NoEffect, ApplyPreviewKey, Key, KeyTo, Show, Idles,
         effects, view, settings, plans, dashboard, updates, NoPlan
<1>8. CASE ApplyConflictKey
  BY <1>8, EffectTypes
     DEF ViewOK, OrdersOK, NoEffect, ApplyConflictKey, Key, KeyTo, Show, Idles,
         effects, view, settings, plans, dashboard, updates, Choose, NoPlan
<1>9. CASE ApplyConfirmKey
  BY <1>9, EffectTypes
     DEF ViewOK, OrdersOK, NoEffect, Kinds, ApplyConfirmKey, Key, KeyTo, Show,
         Idles, effects, view, settings, plans, dashboard, updates, Choose, Orders,
         NoPlan
<1>10. CASE UnapplyPreviewKey
  BY <1>10, EffectTypes
     DEF ViewOK, OrdersOK, NoEffect, UnapplyPreviewKey, Key, KeyTo, Show, Idles,
         effects, view, settings, plans, dashboard, updates, NoUnplan
<1>11. CASE UnapplyConfirmKey
  BY <1>11, EffectTypes
     DEF ViewOK, OrdersOK, NoEffect, Kinds, UnapplyConfirmKey, Key, KeyTo, Show,
         Idles, effects, view, settings, plans, dashboard, updates, Choose, Orders,
         NoUnplan
<1>12. CASE ConfigKey
  BY <1>12, EffectTypes
     DEF ViewOK, OrdersOK, NoEffect, Kinds, ConfigKey, Key, KeyTo, Show, Idles,
         effects, view, settings, plans, dashboard, updates, Orders, BackToMain
<1>13. CASE ConfigEditKey
  BY <1>13, EffectTypes
     DEF ViewOK, OrdersOK, NoEffect, ConfigEditKey, Key, KeyTo, Show, Idles,
         effects, view, settings, plans, dashboard, updates
<1>14. CASE ConfigConfirmKey
  BY <1>14, EffectTypes
     DEF ViewOK, OrdersOK, NoEffect, Kinds, ConfigConfirmKey, Key, KeyTo, Show,
         Idles, effects, view, settings, plans, dashboard, updates, Choose, Orders,
         BackToMain
<1>15. CASE JobsKey
  BY <1>15, EffectTypes
     DEF ViewOK, OrdersOK, NoEffect, Kinds, JobsKey, Key, KeyTo, Show, Idles,
         effects, view, settings, plans, dashboard, updates, Orders, BackToMain
<1>16. CASE JobsKillConfirmKey
  BY <1>16, EffectTypes
     DEF ViewOK, OrdersOK, NoEffect, Kinds, TargetOK, JobsKillConfirmKey, Key,
         KeyTo, Show, Idles, effects, view, settings, plans, dashboard, updates,
         Choose
<1>17. CASE JobsKillFailedKey
  BY <1>17, EffectTypes
     DEF ViewOK, OrdersOK, NoEffect, JobsKillFailedKey, Key, KeyTo, Show, Idles,
         effects, view, settings, plans, dashboard, updates
<1>18. CASE StatusKey
  BY <1>18, EffectTypes
     DEF ViewOK, OrdersOK, NoEffect, Kinds, StatusKey, Key, KeyTo, Show, Idles,
         effects, view, settings, plans, dashboard, updates, Orders, BackToMain
<1>19. CASE CloseKey
  BY <1>19, EffectTypes
     DEF ViewOK, OrdersOK, NoEffect, CloseKey, Key, KeyTo, Show, Idles, effects,
         view, settings, plans, dashboard, updates, BackToMain
<1>20. CASE OperationFailedKey
  BY <1>20, EffectTypes
     DEF ViewOK, OrdersOK, NoEffect, OperationFailedKey, Key, KeyTo, Show, Idles,
         effects, view, settings, plans, dashboard, updates, BackToMain
<1>21. CASE Interrupt
  BY <1>21, EffectTypes
     DEF ViewOK, OrdersOK, NoEffect, Interrupt, Key, KeyTo, Show, Idles, effects,
         view, settings, plans, dashboard, updates, Quits
<1>22. CASE NoKey
  BY <1>22, EffectTypes
     DEF ViewOK, OrdersOK, NoEffect, NoKey, Key, KeyTo, Show, Idles, effects, view,
         settings, plans, dashboard, updates
<1> QED
  BY <1>1, <1>2, <1>3, <1>4, <1>5, <1>6, <1>7, <1>8, <1>9, <1>10, <1>11, <1>12,
     <1>13, <1>14, <1>15, <1>16, <1>17, <1>18, <1>19, <1>20, <1>21, <1>22 DEF HandleKey

LEMMA PlansOKAfterKey == ASSUME ViewOK, DashboardOK, HandleKey PROVE PlansOK'
<1>1. CASE ApplyPreviewKey
  BY <1>1
     DEF ViewOK, PlansOK, PlansFit, ApplyPreviewKey, Key, KeyTo, Show, Idles,
         effects, view, settings, plans, dashboard, updates, NoPlan
<1>2. CASE ApplyConflictKey
  BY <1>2
     DEF ViewOK, PlansOK, PlansFit, ApplyConflictKey, Key, KeyTo, Show, Idles,
         effects, view, settings, plans, dashboard, updates, Choose, NoPlan
<1>3. CASE ApplyConfirmKey
  BY <1>3
     DEF ViewOK, PlansOK, PlansFit, ApplyConfirmKey, Key, KeyTo, Show, Idles,
         effects, view, settings, plans, dashboard, updates, Choose, Orders, NoPlan
<1>4. CASE UnapplyPreviewKey
  BY <1>4
     DEF ViewOK, PlansOK, PlansFit, UnapplyPreviewKey, Key, KeyTo, Show, Idles,
         effects, view, settings, plans, dashboard, updates, NoUnplan
<1>5. CASE UnapplyConfirmKey
  BY <1>5
     DEF ViewOK, PlansOK, PlansFit, UnapplyConfirmKey, Key, KeyTo, Show, Idles,
         effects, view, settings, plans, dashboard, updates, Choose, Orders,
         NoUnplan
<1>6. CASE OperationFailedKey
  BY <1>6, RetryScreens
     DEF ViewOK, PlansOK, PlansFit, RetriesFit, OperationFailedKey, Key, KeyTo,
         Show, Idles, effects, view, settings, plans, dashboard, updates,
         BackToMain
<1>7. CASE Interrupt
  BY <1>7
     DEF ViewOK, PlansOK, PlansFit, Interrupt, Key, KeyTo, Show, Idles, effects,
         view, settings, plans, dashboard, updates, Quits
<1>8. CASE NoKey
  BY <1>8
     DEF ViewOK, PlansOK, PlansFit, NoKey, Key, KeyTo, Show, Idles, effects, view,
         settings, plans, dashboard, updates
<1>9. CASE UpdateConfirmKey
  BY <1>9
     DEF ViewOK, PlansOK, PlansFit, UpdateConfirmKey, Key, KeyTo, Show, Idles,
         effects, view, settings, plans, dashboard, updates, Choose, Quits
<1>10. CASE ConfigConfirmKey
  BY <1>10
     DEF ViewOK, PlansOK, PlansFit, ConfigConfirmKey, Key, KeyTo, Show, Idles,
         effects, view, settings, plans, dashboard, updates, Choose, Orders,
         BackToMain
<1>11. CASE JobsKillConfirmKey
  BY <1>11
     DEF ViewOK, PlansOK, PlansFit, JobsKillConfirmKey, Key, KeyTo, Show, Idles,
         effects, view, settings, plans, dashboard, updates, Choose
<1>12. CASE CloseMigrationNotice \/ UpdateKey \/ LanguageKey \/ MainKey
          \/ ApplyHomeKey \/ ConfigKey \/ ConfigEditKey \/ JobsKey
          \/ JobsKillFailedKey \/ StatusKey \/ CloseKey
  BY <1>12
     DEF ViewOK, PlansOK, PlansFit, CloseMigrationNotice, UpdateKey, LanguageKey,
         MainKey, ApplyHomeKey, ConfigKey, ConfigEditKey, JobsKey,
         JobsKillFailedKey, StatusKey, CloseKey, Key, KeyTo, Show, EnterGate,
         BackToMain, view, plans
<1> QED
  BY <1>1, <1>2, <1>3, <1>4, <1>5, <1>6, <1>7, <1>8, <1>9, <1>10, <1>11, <1>12 DEF HandleKey

LEMMA UpdatesOKAfterKey == ASSUME ViewOK, DashboardOK, HandleKey PROVE UpdatesOK'
<1>1. CASE CloseMigrationNotice
  BY <1>1
     DEF ViewOK, UpdatesOK, CloseMigrationNotice, Key, KeyTo, Show, Idles, effects,
         view, settings, plans, dashboard, updates, EnterGate, BackToMain
<1>2. CASE UpdateConfirmKey
  BY <1>2
     DEF ViewOK, UpdatesOK, UpdateConfirmKey, Key, KeyTo, Show, Idles, effects,
         view, settings, plans, dashboard, updates, Choose, Quits
<1>3. CASE UpdateKey \/ LanguageKey \/ MainKey \/ ApplyHomeKey \/ ApplyPreviewKey
          \/ ApplyConflictKey \/ ApplyConfirmKey \/ UnapplyPreviewKey
          \/ UnapplyConfirmKey \/ ConfigKey \/ ConfigEditKey \/ ConfigConfirmKey
          \/ JobsKey \/ JobsKillConfirmKey \/ JobsKillFailedKey \/ StatusKey
          \/ CloseKey \/ OperationFailedKey \/ Interrupt \/ NoKey
  BY <1>3
     DEF ViewOK, UpdatesOK, UpdateKey, LanguageKey, MainKey, ApplyHomeKey,
         ApplyPreviewKey, ApplyConflictKey, ApplyConfirmKey, UnapplyPreviewKey,
         UnapplyConfirmKey, ConfigKey, ConfigEditKey, ConfigConfirmKey, JobsKey,
         JobsKillConfirmKey, JobsKillFailedKey, StatusKey, CloseKey,
         OperationFailedKey, Interrupt, NoKey, Choose, updates
<1> QED
  BY <1>1, <1>2, <1>3 DEF HandleKey

LEMMA TargetOKAfterKey == ASSUME ViewOK, DashboardOK, HandleKey PROVE TargetOK'
<1>1. CASE JobsKey
  BY <1>1, FocusedIsListed
     DEF ViewOK, TargetOK, DashboardOK, JobsKey, Key, KeyTo, Show, Idles, effects,
         view, settings, plans, dashboard, updates, Orders, BackToMain
<1>2. CASE JobsKillConfirmKey
  BY <1>2
     DEF ViewOK, TargetOK, JobsKillConfirmKey, Key, KeyTo, Show, Idles, effects,
         view, settings, plans, dashboard, updates, Choose
<1>3. CASE JobsKillFailedKey
  BY <1>3
     DEF ViewOK, TargetOK, JobsKillFailedKey, Key, KeyTo, Show, Idles, effects,
         view, settings, plans, dashboard, updates
<1>4. CASE Interrupt
  BY <1>4
     DEF ViewOK, TargetOK, Interrupt, Key, KeyTo, Show, Idles, effects, view,
         settings, plans, dashboard, updates, Quits
<1>5. CASE NoKey
  BY <1>5
     DEF ViewOK, TargetOK, NoKey, Key, KeyTo, Show, Idles, effects, view, settings,
         plans, dashboard, updates
<1>6. CASE UpdateConfirmKey
  BY <1>6
     DEF ViewOK, TargetOK, UpdateConfirmKey, Key, KeyTo, Show, Idles, effects,
         view, settings, plans, dashboard, updates, Choose, Quits
<1>7. CASE ConfigConfirmKey
  BY <1>7
     DEF ViewOK, TargetOK, ConfigConfirmKey, Key, KeyTo, Show, Idles, effects,
         view, settings, plans, dashboard, updates, Choose, Orders, BackToMain
<1>8. CASE OperationFailedKey
  BY <1>8
     DEF ViewOK, TargetOK, OperationFailedKey, Key, KeyTo, Show, Idles, effects,
         view, settings, plans, dashboard, updates, BackToMain
<1>9. CASE CloseMigrationNotice \/ UpdateKey \/ LanguageKey \/ MainKey
          \/ ApplyHomeKey \/ ApplyPreviewKey \/ ApplyConflictKey \/ ApplyConfirmKey
          \/ UnapplyPreviewKey \/ UnapplyConfirmKey \/ ConfigKey \/ ConfigEditKey
          \/ StatusKey \/ CloseKey
  BY <1>9
     DEF ViewOK, TargetOK, CloseMigrationNotice, UpdateKey, LanguageKey, MainKey,
         ApplyHomeKey, ApplyPreviewKey, ApplyConflictKey, ApplyConfirmKey,
         UnapplyPreviewKey, UnapplyConfirmKey, ConfigKey, ConfigEditKey, StatusKey,
         CloseKey, Choose, Key, Quits, KeyTo, BackToMain, dashboard
<1> QED
  BY <1>1, <1>2, <1>3, <1>4, <1>5, <1>6, <1>7, <1>8, <1>9 DEF HandleKey

LEMMA EffectsFitAfterKey == ASSUME ViewOK, DashboardOK, HandleKey PROVE EffectsFit'
<1>1. CASE CloseMigrationNotice
  BY <1>1
     DEF ViewOK, EffectsFit, Effect, NoEffect, CloseMigrationNotice, Key, KeyTo,
         Show, Idles, effects, view, settings, plans, dashboard, updates,
         EnterGate, BackToMain
<1>2. CASE UpdateKey
  BY <1>2
     DEF ViewOK, EffectsFit, Effect, NoEffect, UpdateKey, Key, KeyTo, Show, Idles,
         effects, view, settings, plans, dashboard, updates, Orders, BackToMain
<1>3. CASE UpdateConfirmKey
  BY <1>3
     DEF ViewOK, EffectsFit, Effect, NoEffect, UpdateConfirmKey, Key, KeyTo, Show,
         Idles, effects, view, settings, plans, dashboard, updates, Choose, Quits
<1>4. CASE LanguageKey
  BY <1>4
     DEF ViewOK, EffectsFit, Effect, NoEffect, LanguageKey, Key, KeyTo, Show,
         Idles, effects, view, settings, plans, dashboard, updates, Orders,
         BackToMain
<1>5. CASE MainKey
  BY <1>5
     DEF ViewOK, EffectsFit, Effect, NoEffect, MainKey, Key, KeyTo, Show, Idles,
         effects, view, settings, plans, dashboard, updates, Orders
<1>6. CASE ApplyHomeKey
  BY <1>6
     DEF ViewOK, EffectsFit, Effect, NoEffect, ApplyHomeKey, Key, KeyTo, Show,
         Idles, effects, view, settings, plans, dashboard, updates, Orders,
         BackToMain
<1>7. CASE ApplyPreviewKey
  BY <1>7
     DEF ViewOK, EffectsFit, Effect, NoEffect, ApplyPreviewKey, Key, KeyTo, Show,
         Idles, effects, view, settings, plans, dashboard, updates, NoPlan
<1>8. CASE ApplyConflictKey
  BY <1>8
     DEF ViewOK, EffectsFit, Effect, NoEffect, ApplyConflictKey, Key, KeyTo, Show,
         Idles, effects, view, settings, plans, dashboard, updates, Choose, NoPlan
<1>9. CASE ApplyConfirmKey
  BY <1>9
     DEF ViewOK, EffectsFit, Effect, NoEffect, ApplyConfirmKey, Key, KeyTo, Show,
         Idles, effects, view, settings, plans, dashboard, updates, Choose, Orders,
         NoPlan
<1>10. CASE UnapplyPreviewKey
  BY <1>10
     DEF ViewOK, EffectsFit, Effect, NoEffect, UnapplyPreviewKey, Key, KeyTo, Show,
         Idles, effects, view, settings, plans, dashboard, updates, NoUnplan
<1>11. CASE UnapplyConfirmKey
  BY <1>11
     DEF ViewOK, EffectsFit, Effect, NoEffect, UnapplyConfirmKey, Key, KeyTo, Show,
         Idles, effects, view, settings, plans, dashboard, updates, Choose, Orders,
         NoUnplan
<1>12. CASE ConfigKey
  BY <1>12
     DEF ViewOK, EffectsFit, Effect, NoEffect, ConfigKey, Key, KeyTo, Show, Idles,
         effects, view, settings, plans, dashboard, updates, Orders, BackToMain
<1>13. CASE ConfigEditKey
  BY <1>13
     DEF ViewOK, EffectsFit, Effect, NoEffect, ConfigEditKey, Key, KeyTo, Show,
         Idles, effects, view, settings, plans, dashboard, updates
<1>14. CASE ConfigConfirmKey
  BY <1>14
     DEF ViewOK, EffectsFit, Effect, NoEffect, ConfigConfirmKey, Key, KeyTo, Show,
         Idles, effects, view, settings, plans, dashboard, updates, Choose, Orders,
         BackToMain
<1>15. CASE JobsKey
  BY <1>15
     DEF ViewOK, EffectsFit, Effect, NoEffect, JobsKey, Key, KeyTo, Show, Idles,
         effects, view, settings, plans, dashboard, updates, Orders, BackToMain
<1>16. CASE JobsKillConfirmKey
  BY <1>16
     DEF ViewOK, EffectsFit, Effect, NoEffect, RetriesFit, Kill,
         JobsKillConfirmKey, Key, KeyTo, Show, Idles, effects, view, settings,
         plans, dashboard, updates, Choose
<1>17. CASE JobsKillFailedKey
  BY <1>17
     DEF ViewOK, EffectsFit, Effect, NoEffect, RetriesFit, Kill, JobsKillFailedKey,
         Key, KeyTo, Show, Idles, effects, view, settings, plans, dashboard,
         updates
<1>18. CASE StatusKey
  BY <1>18
     DEF ViewOK, EffectsFit, Effect, NoEffect, StatusKey, Key, KeyTo, Show, Idles,
         effects, view, settings, plans, dashboard, updates, Orders, BackToMain
<1>19. CASE CloseKey
  BY <1>19
     DEF ViewOK, EffectsFit, Effect, NoEffect, CloseKey, Key, KeyTo, Show, Idles,
         effects, view, settings, plans, dashboard, updates, BackToMain
<1>20. CASE OperationFailedKey
  BY <1>20, RetryScreens
     DEF ViewOK, EffectsFit, Effect, NoEffect, RetriesFit, OperationFailedKey, Key,
         KeyTo, Show, Idles, effects, view, settings, plans, dashboard, updates,
         BackToMain
<1>21. CASE Interrupt
  BY <1>21
     DEF ViewOK, EffectsFit, Effect, NoEffect, Interrupt, Key, KeyTo, Show, Idles,
         effects, view, settings, plans, dashboard, updates, Quits
<1>22. CASE NoKey
  BY <1>22
     DEF ViewOK, EffectsFit, Effect, NoEffect, NoKey, Key, KeyTo, Show, Idles,
         effects, view, settings, plans, dashboard, updates
<1> QED
  BY <1>1, <1>2, <1>3, <1>4, <1>5, <1>6, <1>7, <1>8, <1>9, <1>10, <1>11, <1>12,
     <1>13, <1>14, <1>15, <1>16, <1>17, <1>18, <1>19, <1>20, <1>21, <1>22 DEF HandleKey

LEMMA RetriesFitAfterKey == ASSUME ViewOK, DashboardOK, HandleKey PROVE RetriesFit'
<1>1. CASE CloseMigrationNotice
  BY <1>1
     DEF ViewOK, RetriesFit, CloseMigrationNotice, Key, KeyTo, Show, Idles,
         effects, view, settings, plans, dashboard, updates, EnterGate, BackToMain
<1>2. CASE UpdateKey
  BY <1>2
     DEF ViewOK, RetriesFit, UpdateKey, Key, KeyTo, Show, Idles, effects, view,
         settings, plans, dashboard, updates, Orders, BackToMain
<1>3. CASE UpdateConfirmKey
  BY <1>3
     DEF ViewOK, RetriesFit, UpdateConfirmKey, Key, KeyTo, Show, Idles, effects,
         view, settings, plans, dashboard, updates, Choose, Quits
<1>4. CASE LanguageKey
  BY <1>4
     DEF ViewOK, RetriesFit, LanguageKey, Key, KeyTo, Show, Idles, effects, view,
         settings, plans, dashboard, updates, Orders, BackToMain
<1>5. CASE MainKey
  BY <1>5
     DEF ViewOK, RetriesFit, MainKey, Key, KeyTo, Show, Idles, effects, view,
         settings, plans, dashboard, updates, Orders
<1>6. CASE ApplyHomeKey
  BY <1>6
     DEF ViewOK, RetriesFit, ApplyHomeKey, Key, KeyTo, Show, Idles, effects, view,
         settings, plans, dashboard, updates, Orders, BackToMain
<1>7. CASE ApplyPreviewKey
  BY <1>7
     DEF ViewOK, RetriesFit, ApplyPreviewKey, Key, KeyTo, Show, Idles, effects,
         view, settings, plans, dashboard, updates, NoPlan
<1>8. CASE ApplyConflictKey
  BY <1>8
     DEF ViewOK, RetriesFit, ApplyConflictKey, Key, KeyTo, Show, Idles, effects,
         view, settings, plans, dashboard, updates, Choose, NoPlan
<1>9. CASE ApplyConfirmKey
  BY <1>9
     DEF ViewOK, RetriesFit, ApplyConfirmKey, Key, KeyTo, Show, Idles, effects,
         view, settings, plans, dashboard, updates, Choose, Orders, NoPlan
<1>10. CASE UnapplyPreviewKey
  BY <1>10
     DEF ViewOK, RetriesFit, UnapplyPreviewKey, Key, KeyTo, Show, Idles, effects,
         view, settings, plans, dashboard, updates, NoUnplan
<1>11. CASE UnapplyConfirmKey
  BY <1>11
     DEF ViewOK, RetriesFit, UnapplyConfirmKey, Key, KeyTo, Show, Idles, effects,
         view, settings, plans, dashboard, updates, Choose, Orders, NoUnplan
<1>12. CASE ConfigKey
  BY <1>12
     DEF ViewOK, RetriesFit, ConfigKey, Key, KeyTo, Show, Idles, effects, view,
         settings, plans, dashboard, updates, Orders, BackToMain
<1>13. CASE ConfigEditKey
  BY <1>13
     DEF ViewOK, RetriesFit, ConfigEditKey, Key, KeyTo, Show, Idles, effects, view,
         settings, plans, dashboard, updates
<1>14. CASE ConfigConfirmKey
  BY <1>14
     DEF ViewOK, RetriesFit, ConfigConfirmKey, Key, KeyTo, Show, Idles, effects,
         view, settings, plans, dashboard, updates, Choose, Orders, BackToMain
<1>15. CASE JobsKey
  BY <1>15
     DEF ViewOK, RetriesFit, JobsKey, Key, KeyTo, Show, Idles, effects, view,
         settings, plans, dashboard, updates, Orders, BackToMain
<1>16. CASE JobsKillConfirmKey
  BY <1>16
     DEF ViewOK, RetriesFit, JobsKillConfirmKey, Key, KeyTo, Show, Idles, effects,
         view, settings, plans, dashboard, updates, Choose
<1>17. CASE JobsKillFailedKey
  BY <1>17
     DEF ViewOK, RetriesFit, JobsKillFailedKey, Key, KeyTo, Show, Idles, effects,
         view, settings, plans, dashboard, updates
<1>18. CASE StatusKey
  BY <1>18
     DEF ViewOK, RetriesFit, StatusKey, Key, KeyTo, Show, Idles, effects, view,
         settings, plans, dashboard, updates, Orders, BackToMain
<1>19. CASE CloseKey
  BY <1>19
     DEF ViewOK, RetriesFit, CloseKey, Key, KeyTo, Show, Idles, effects, view,
         settings, plans, dashboard, updates, BackToMain
<1>20. CASE OperationFailedKey
  BY <1>20, RetryScreens
     DEF ViewOK, RetriesFit, OperationFailedKey, Key, KeyTo, Show, Idles, effects,
         view, settings, plans, dashboard, updates, BackToMain
<1>21. CASE Interrupt
  BY <1>21
     DEF ViewOK, RetriesFit, Interrupt, Key, KeyTo, Show, Idles, effects, view,
         settings, plans, dashboard, updates, Quits
<1>22. CASE NoKey
  BY <1>22
     DEF ViewOK, RetriesFit, NoKey, Key, KeyTo, Show, Idles, effects, view,
         settings, plans, dashboard, updates
<1> QED
  BY <1>1, <1>2, <1>3, <1>4, <1>5, <1>6, <1>7, <1>8, <1>9, <1>10, <1>11, <1>12,
     <1>13, <1>14, <1>15, <1>16, <1>17, <1>18, <1>19, <1>20, <1>21, <1>22 DEF HandleKey

LEMMA GateFitsAfterKey == ASSUME ViewOK, DashboardOK, HandleKey PROVE GateFits'
<1>1. CASE CloseMigrationNotice
  BY <1>1
     DEF ViewOK, GateFits, CloseMigrationNotice, Key, KeyTo, Show, Idles, effects,
         view, settings, plans, dashboard, updates, EnterGate, BackToMain
<1>2. CASE UpdateKey
  BY <1>2
     DEF ViewOK, GateFits, UpdateKey, Key, KeyTo, Show, Idles, effects, view,
         settings, plans, dashboard, updates, Orders, BackToMain
<1>3. CASE Interrupt
  BY <1>3
     DEF ViewOK, GateFits, Interrupt, Key, KeyTo, Show, Idles, effects, view,
         settings, plans, dashboard, updates, Quits
<1>4. CASE NoKey
  BY <1>4
     DEF ViewOK, GateFits, NoKey, Key, KeyTo, Show, Idles, effects, view, settings,
         plans, dashboard, updates
<1>5. CASE UpdateConfirmKey \/ LanguageKey \/ MainKey \/ ApplyHomeKey
          \/ ApplyPreviewKey \/ ApplyConflictKey \/ ApplyConfirmKey
          \/ UnapplyPreviewKey \/ UnapplyConfirmKey \/ ConfigKey \/ ConfigEditKey
          \/ ConfigConfirmKey \/ JobsKey \/ JobsKillConfirmKey \/ JobsKillFailedKey
          \/ StatusKey \/ CloseKey \/ OperationFailedKey
  BY <1>5
     DEF ViewOK, GateFits, UpdateConfirmKey, LanguageKey, MainKey, ApplyHomeKey,
         ApplyPreviewKey, ApplyConflictKey, ApplyConfirmKey, UnapplyPreviewKey,
         UnapplyConfirmKey, ConfigKey, ConfigEditKey, ConfigConfirmKey, JobsKey,
         JobsKillConfirmKey, JobsKillFailedKey, StatusKey, CloseKey,
         OperationFailedKey, Choose, Key, Quits, KeyTo, updates
<1> QED
  BY <1>1, <1>2, <1>3, <1>4, <1>5 DEF HandleKey

-----------------------------------------------------------------------------
(* The same, by every effect.                                             *)
LEMMA ScreenOKAfterEffect == ASSUME ViewOK, Execute PROVE ScreenOK'
<1>1. CASE ExecuteRetryUpdate
  BY <1>1
     DEF ViewOK, ScreenOK, Screens, Confirmations, Blocking, ExecuteRetryUpdate,
         Executing, Done, Show, view, settings, plans, dashboard, updates,
         OperationFails, FailsTo
<1>2. CASE SaveFirstLanguage
  BY <1>2
     DEF ViewOK, ScreenOK, Screens, Confirmations, Blocking, StartRequested,
         SaveFirstLanguage, Executing, Done, Show, view, settings, plans,
         dashboard, updates, OperationFails, FailsTo
<1>3. CASE SaveLanguage
  BY <1>3
     DEF ViewOK, ScreenOK, Screens, Confirmations, Blocking, SaveLanguage,
         Executing, Done, Show, view, settings, plans, dashboard, updates,
         OperationFails, FailsTo
<1>4. CASE SaveConfig
  BY <1>4
     DEF ViewOK, ScreenOK, Screens, Confirmations, Blocking, SaveConfig, Executing,
         Done, Show, view, settings, plans, dashboard, updates, OperationFails,
         FailsTo
<1>5. CASE ResetConfig
  BY <1>5
     DEF ViewOK, ScreenOK, Screens, Confirmations, Blocking, ResetConfig,
         Executing, Done, Show, view, settings, plans, dashboard, updates,
         OperationFails, FailsTo
<1>6. CASE PlanApply
  BY <1>6
     DEF ViewOK, ScreenOK, Screens, Confirmations, Blocking, PlanApply, Executing,
         Done, Show, view, settings, plans, dashboard, updates, OperationFails,
         FailsTo
<1>7. CASE CommitApply
  BY <1>7
     DEF ViewOK, ScreenOK, Screens, Confirmations, Blocking, CommitApply,
         Executing, Done, Show, view, settings, plans, dashboard, updates,
         OperationFails, FailsTo
<1>8. CASE PlanUnapply
  BY <1>8
     DEF ViewOK, ScreenOK, Screens, Confirmations, Blocking, PlanUnapply,
         Executing, Done, Show, view, settings, plans, dashboard, updates,
         OperationFails, FailsTo
<1>9. CASE CommitUnapply
  BY <1>9
     DEF ViewOK, ScreenOK, Screens, Confirmations, Blocking, CommitUnapply,
         Executing, Done, Show, view, settings, plans, dashboard, updates,
         OperationFails, FailsTo
<1>10. CASE RunDoctor
  BY <1>10
     DEF ViewOK, ScreenOK, Screens, Confirmations, Blocking, RunDoctor, Executing,
         Done, Show, view, settings, plans, dashboard, updates, OperationFails,
         FailsTo
<1>11. CASE LoadJobs
  BY <1>11
     DEF ViewOK, ScreenOK, Screens, Confirmations, Blocking, LoadJobs, Executing,
         Done, Show, view, settings, plans, dashboard, updates, OperationFails,
         FailsTo
<1>12. CASE LoadJobTail
  BY <1>12
     DEF ViewOK, ScreenOK, Screens, Confirmations, Blocking, LoadJobTail,
         Executing, Done, Show, view, settings, plans, dashboard, updates,
         OperationFails, FailsTo
<1>13. CASE RefreshJobCount
  BY <1>13
     DEF ViewOK, ScreenOK, Screens, Confirmations, Blocking, RefreshJobCount,
         Executing, Done, Show, view, settings, plans, dashboard, updates,
         OperationFails, FailsTo
<1>14. CASE KillJob
  BY <1>14
     DEF ViewOK, ScreenOK, Screens, Confirmations, Blocking, KillJob, Executing,
         Done, Show, view, settings, plans, dashboard, updates, OperationFails,
         FailsTo
<1> QED
  BY <1>1, <1>2, <1>3, <1>4, <1>5, <1>6, <1>7, <1>8, <1>9, <1>10, <1>11, <1>12,
     <1>13, <1>14 DEF Execute

LEMMA OrdersOKAfterEffect == ASSUME ViewOK, Execute PROVE OrdersOK'
<1>1. CASE ExecuteRetryUpdate
  BY <1>1, EffectTypes
     DEF ViewOK, OrdersOK, NoEffect, Kinds, ExecuteRetryUpdate, Executing, Done,
         Show, view, settings, plans, dashboard, updates, OperationFails, FailsTo
<1>2. CASE SaveFirstLanguage
  BY <1>2, EffectTypes
     DEF ViewOK, OrdersOK, NoEffect, Kinds, SaveFirstLanguage, Executing, Done,
         Show, view, settings, plans, dashboard, updates, OperationFails, FailsTo
<1>3. CASE SaveLanguage
  BY <1>3, EffectTypes
     DEF ViewOK, OrdersOK, NoEffect, Kinds, SaveLanguage, Executing, Done, Show,
         view, settings, plans, dashboard, updates, OperationFails, FailsTo
<1>4. CASE SaveConfig
  BY <1>4, EffectTypes
     DEF ViewOK, OrdersOK, NoEffect, Kinds, SaveConfig, Executing, Done, Show,
         view, settings, plans, dashboard, updates, OperationFails, FailsTo
<1>5. CASE ResetConfig
  BY <1>5, EffectTypes
     DEF ViewOK, OrdersOK, NoEffect, Kinds, ResetConfig, Executing, Done, Show,
         view, settings, plans, dashboard, updates, OperationFails, FailsTo
<1>6. CASE PlanApply
  BY <1>6, EffectTypes
     DEF ViewOK, OrdersOK, NoEffect, Kinds, PlanApply, Executing, Done, Show, view,
         settings, plans, dashboard, updates, OperationFails, FailsTo
<1>7. CASE CommitApply
  BY <1>7, EffectTypes
     DEF ViewOK, OrdersOK, NoEffect, Kinds, CommitApply, Executing, Done, Show,
         view, settings, plans, dashboard, updates, OperationFails, FailsTo
<1>8. CASE PlanUnapply
  BY <1>8, EffectTypes
     DEF ViewOK, OrdersOK, NoEffect, Kinds, PlanUnapply, Executing, Done, Show,
         view, settings, plans, dashboard, updates, OperationFails, FailsTo
<1>9. CASE CommitUnapply
  BY <1>9, EffectTypes
     DEF ViewOK, OrdersOK, NoEffect, Kinds, CommitUnapply, Executing, Done, Show,
         view, settings, plans, dashboard, updates, OperationFails, FailsTo
<1>10. CASE RunDoctor
  BY <1>10, EffectTypes
     DEF ViewOK, OrdersOK, NoEffect, Kinds, RunDoctor, Executing, Done, Show, view,
         settings, plans, dashboard, updates, OperationFails, FailsTo
<1>11. CASE LoadJobs
  BY <1>11, EffectTypes
     DEF ViewOK, OrdersOK, NoEffect, Kinds, LoadJobs, Executing, Done, Show, view,
         settings, plans, dashboard, updates, OperationFails, FailsTo
<1>12. CASE LoadJobTail
  BY <1>12, EffectTypes
     DEF ViewOK, OrdersOK, NoEffect, Kinds, LoadJobTail, Executing, Done, Show,
         view, settings, plans, dashboard, updates, OperationFails, FailsTo
<1>13. CASE RefreshJobCount
  BY <1>13, EffectTypes
     DEF ViewOK, OrdersOK, NoEffect, Kinds, RefreshJobCount, Executing, Done, Show,
         view, settings, plans, dashboard, updates, OperationFails, FailsTo
<1>14. CASE KillJob
  BY <1>14, EffectTypes
     DEF ViewOK, OrdersOK, NoEffect, Kinds, KillJob, Executing, Done, Show, view,
         settings, plans, dashboard, updates, OperationFails, FailsTo
<1> QED
  BY <1>1, <1>2, <1>3, <1>4, <1>5, <1>6, <1>7, <1>8, <1>9, <1>10, <1>11, <1>12,
     <1>13, <1>14 DEF Execute

LEMMA PlansOKAfterEffect == ASSUME ViewOK, Execute PROVE PlansOK'
<1>1. CASE ExecuteRetryUpdate
  BY <1>1
     DEF ViewOK, PlansOK, PlansFit, EffectsFit, ExecuteRetryUpdate, Executing,
         Done, Show, view, settings, plans, dashboard, updates, OperationFails,
         FailsTo
<1>2. CASE SaveFirstLanguage
  BY <1>2
     DEF ViewOK, PlansOK, PlansFit, EffectsFit, SaveFirstLanguage, Executing, Done,
         Show, view, settings, plans, dashboard, updates, OperationFails, FailsTo
<1>3. CASE SaveLanguage
  BY <1>3
     DEF ViewOK, PlansOK, PlansFit, EffectsFit, SaveLanguage, Executing, Done,
         Show, view, settings, plans, dashboard, updates, OperationFails, FailsTo
<1>4. CASE SaveConfig
  BY <1>4
     DEF ViewOK, PlansOK, PlansFit, EffectsFit, SaveConfig, Executing, Done, Show,
         view, settings, plans, dashboard, updates, OperationFails, FailsTo
<1>5. CASE ResetConfig
  BY <1>5
     DEF ViewOK, PlansOK, PlansFit, EffectsFit, ResetConfig, Executing, Done, Show,
         view, settings, plans, dashboard, updates, OperationFails, FailsTo
<1>6. CASE PlanApply
  BY <1>6
     DEF ViewOK, PlansOK, PlansFit, EffectsFit, PlanApply, Executing, Done, Show,
         view, settings, plans, dashboard, updates, OperationFails, FailsTo
<1>7. CASE CommitApply
  BY <1>7
     DEF ViewOK, PlansOK, PlansFit, EffectsFit, CommitApply, Executing, Done, Show,
         view, settings, plans, dashboard, updates, OperationFails, FailsTo
<1>8. CASE PlanUnapply
  BY <1>8
     DEF ViewOK, PlansOK, PlansFit, EffectsFit, PlanUnapply, Executing, Done, Show,
         view, settings, plans, dashboard, updates, OperationFails, FailsTo
<1>9. CASE CommitUnapply
  BY <1>9
     DEF ViewOK, PlansOK, PlansFit, EffectsFit, CommitUnapply, Executing, Done,
         Show, view, settings, plans, dashboard, updates, OperationFails, FailsTo
<1>10. CASE RunDoctor
  BY <1>10
     DEF ViewOK, PlansOK, PlansFit, EffectsFit, RunDoctor, Executing, Done, Show,
         view, settings, plans, dashboard, updates, OperationFails, FailsTo
<1>11. CASE LoadJobs
  BY <1>11
     DEF ViewOK, PlansOK, PlansFit, EffectsFit, LoadJobs, Executing, Done, Show,
         view, settings, plans, dashboard, updates, OperationFails, FailsTo
<1>12. CASE LoadJobTail
  BY <1>12
     DEF ViewOK, PlansOK, PlansFit, EffectsFit, LoadJobTail, Executing, Done, Show,
         view, settings, plans, dashboard, updates, OperationFails, FailsTo
<1>13. CASE RefreshJobCount
  BY <1>13
     DEF ViewOK, PlansOK, PlansFit, EffectsFit, RefreshJobCount, Executing, Done,
         Show, view, settings, plans, dashboard, updates, OperationFails, FailsTo
<1>14. CASE KillJob
  BY <1>14
     DEF ViewOK, PlansOK, PlansFit, EffectsFit, KillJob, Executing, Done, Show,
         view, settings, plans, dashboard, updates, OperationFails, FailsTo
<1> QED
  BY <1>1, <1>2, <1>3, <1>4, <1>5, <1>6, <1>7, <1>8, <1>9, <1>10, <1>11, <1>12,
     <1>13, <1>14 DEF Execute

LEMMA UpdatesOKAfterEffect == ASSUME ViewOK, Execute PROVE UpdatesOK'
<1>1. CASE SaveFirstLanguage
  BY <1>1
     DEF ViewOK, UpdatesOK, StartRequested, SaveFirstLanguage, Executing, Done,
         Show, view, settings, plans, dashboard, updates, OperationFails, FailsTo
<1>2. CASE ExecuteRetryUpdate
  BY <1>2
     DEF ViewOK, UpdatesOK, ExecuteRetryUpdate, Executing, Done, Show, view,
         settings, plans, dashboard, updates, OperationFails, FailsTo
<1>3. CASE SaveLanguage \/ SaveConfig \/ ResetConfig \/ PlanApply \/ CommitApply
          \/ PlanUnapply \/ CommitUnapply \/ RunDoctor \/ LoadJobs \/ LoadJobTail
          \/ RefreshJobCount \/ KillJob
  BY <1>3
     DEF ViewOK, UpdatesOK, SaveLanguage, SaveConfig, ResetConfig, PlanApply,
         CommitApply, PlanUnapply, CommitUnapply, RunDoctor, LoadJobs, LoadJobTail,
         RefreshJobCount, KillJob, updates
<1> QED
  BY <1>1, <1>2, <1>3 DEF Execute

LEMMA TargetOKAfterEffect == ASSUME ViewOK, Execute PROVE TargetOK'
<1>1. CASE ExecuteRetryUpdate
  BY <1>1
     DEF ViewOK, TargetOK, EffectsFit, ExecuteRetryUpdate, Executing, Done, Show,
         view, settings, plans, dashboard, updates, OperationFails, FailsTo
<1>2. CASE SaveFirstLanguage
  BY <1>2
     DEF ViewOK, TargetOK, EffectsFit, SaveFirstLanguage, Executing, Done, Show,
         view, settings, plans, dashboard, updates, OperationFails, FailsTo
<1>3. CASE SaveLanguage
  BY <1>3
     DEF ViewOK, TargetOK, EffectsFit, SaveLanguage, Executing, Done, Show, view,
         settings, plans, dashboard, updates, OperationFails, FailsTo
<1>4. CASE SaveConfig
  BY <1>4
     DEF ViewOK, TargetOK, EffectsFit, SaveConfig, Executing, Done, Show, view,
         settings, plans, dashboard, updates, OperationFails, FailsTo
<1>5. CASE ResetConfig
  BY <1>5
     DEF ViewOK, TargetOK, EffectsFit, ResetConfig, Executing, Done, Show, view,
         settings, plans, dashboard, updates, OperationFails, FailsTo
<1>6. CASE PlanApply
  BY <1>6
     DEF ViewOK, TargetOK, EffectsFit, PlanApply, Executing, Done, Show, view,
         settings, plans, dashboard, updates, OperationFails, FailsTo
<1>7. CASE CommitApply
  BY <1>7
     DEF ViewOK, TargetOK, EffectsFit, CommitApply, Executing, Done, Show, view,
         settings, plans, dashboard, updates, OperationFails, FailsTo
<1>8. CASE PlanUnapply
  BY <1>8
     DEF ViewOK, TargetOK, EffectsFit, PlanUnapply, Executing, Done, Show, view,
         settings, plans, dashboard, updates, OperationFails, FailsTo
<1>9. CASE CommitUnapply
  BY <1>9
     DEF ViewOK, TargetOK, EffectsFit, CommitUnapply, Executing, Done, Show, view,
         settings, plans, dashboard, updates, OperationFails, FailsTo
<1>10. CASE RunDoctor
  BY <1>10
     DEF ViewOK, TargetOK, EffectsFit, RunDoctor, Executing, Done, Show, view,
         settings, plans, dashboard, updates, OperationFails, FailsTo
<1>11. CASE LoadJobs
  BY <1>11
     DEF ViewOK, TargetOK, EffectsFit, LoadJobs, Executing, Done, Show, view,
         settings, plans, dashboard, updates, OperationFails, FailsTo
<1>12. CASE LoadJobTail
  BY <1>12
     DEF ViewOK, TargetOK, EffectsFit, LoadJobTail, Executing, Done, Show, view,
         settings, plans, dashboard, updates, OperationFails, FailsTo
<1>13. CASE RefreshJobCount
  BY <1>13
     DEF ViewOK, TargetOK, EffectsFit, RefreshJobCount, Executing, Done, Show,
         view, settings, plans, dashboard, updates, OperationFails, FailsTo
<1>14. CASE KillJob
  BY <1>14
     DEF ViewOK, TargetOK, EffectsFit, KillJob, Executing, Done, Show, view,
         settings, plans, dashboard, updates, OperationFails, FailsTo
<1> QED
  BY <1>1, <1>2, <1>3, <1>4, <1>5, <1>6, <1>7, <1>8, <1>9, <1>10, <1>11, <1>12,
     <1>13, <1>14 DEF Execute

LEMMA EffectsFitAfterEffect == ASSUME ViewOK, Execute PROVE EffectsFit'
<1>1. CASE ExecuteRetryUpdate
  BY <1>1
     DEF ViewOK, EffectsFit, Effect, NoEffect, ExecuteRetryUpdate, Executing, Done,
         Show, view, settings, plans, dashboard, updates, OperationFails, FailsTo
<1>2. CASE SaveFirstLanguage
  BY <1>2
     DEF ViewOK, EffectsFit, Effect, NoEffect, SaveFirstLanguage, Executing, Done,
         Show, view, settings, plans, dashboard, updates, OperationFails, FailsTo
<1>3. CASE SaveLanguage
  BY <1>3
     DEF ViewOK, EffectsFit, Effect, NoEffect, SaveLanguage, Executing, Done, Show,
         view, settings, plans, dashboard, updates, OperationFails, FailsTo
<1>4. CASE SaveConfig
  BY <1>4
     DEF ViewOK, EffectsFit, Effect, NoEffect, SaveConfig, Executing, Done, Show,
         view, settings, plans, dashboard, updates, OperationFails, FailsTo
<1>5. CASE ResetConfig
  BY <1>5
     DEF ViewOK, EffectsFit, Effect, NoEffect, ResetConfig, Executing, Done, Show,
         view, settings, plans, dashboard, updates, OperationFails, FailsTo
<1>6. CASE PlanApply
  BY <1>6
     DEF ViewOK, EffectsFit, Effect, NoEffect, PlanApply, Executing, Done, Show,
         view, settings, plans, dashboard, updates, OperationFails, FailsTo
<1>7. CASE CommitApply
  BY <1>7
     DEF ViewOK, EffectsFit, Effect, NoEffect, CommitApply, Executing, Done, Show,
         view, settings, plans, dashboard, updates, OperationFails, FailsTo
<1>8. CASE PlanUnapply
  BY <1>8
     DEF ViewOK, EffectsFit, Effect, NoEffect, PlanUnapply, Executing, Done, Show,
         view, settings, plans, dashboard, updates, OperationFails, FailsTo
<1>9. CASE CommitUnapply
  BY <1>9
     DEF ViewOK, EffectsFit, Effect, NoEffect, CommitUnapply, Executing, Done,
         Show, view, settings, plans, dashboard, updates, OperationFails, FailsTo
<1>10. CASE RunDoctor
  BY <1>10
     DEF ViewOK, EffectsFit, Effect, NoEffect, RunDoctor, Executing, Done, Show,
         view, settings, plans, dashboard, updates, OperationFails, FailsTo
<1>11. CASE LoadJobs
  BY <1>11
     DEF ViewOK, EffectsFit, Effect, NoEffect, LoadJobs, Executing, Done, Show,
         view, settings, plans, dashboard, updates, OperationFails, FailsTo
<1>12. CASE LoadJobTail
  BY <1>12
     DEF ViewOK, EffectsFit, Effect, NoEffect, LoadJobTail, Executing, Done, Show,
         view, settings, plans, dashboard, updates, OperationFails, FailsTo
<1>13. CASE RefreshJobCount
  BY <1>13
     DEF ViewOK, EffectsFit, Effect, NoEffect, RefreshJobCount, Executing, Done,
         Show, view, settings, plans, dashboard, updates, OperationFails, FailsTo
<1>14. CASE KillJob
  BY <1>14
     DEF ViewOK, EffectsFit, Effect, NoEffect, KillJob, Executing, Done, Show,
         view, settings, plans, dashboard, updates, OperationFails, FailsTo
<1> QED
  BY <1>1, <1>2, <1>3, <1>4, <1>5, <1>6, <1>7, <1>8, <1>9, <1>10, <1>11, <1>12,
     <1>13, <1>14 DEF Execute

LEMMA RetriesFitAfterEffect == ASSUME ViewOK, Execute PROVE RetriesFit'
<1>1. CASE ExecuteRetryUpdate
  BY <1>1
     DEF ViewOK, RetriesFit, RetryOf, Effect, NoEffect, OrdersOK, EffectType,
         EffectsFit, ExecuteRetryUpdate, Executing, Done, Show, view, settings,
         plans, dashboard, updates, OperationFails, FailsTo
<1>2. CASE SaveFirstLanguage
  BY <1>2
     DEF ViewOK, RetriesFit, RetryOf, Effect, NoEffect, OrdersOK, EffectType,
         EffectsFit, SaveFirstLanguage, Executing, Done, Show, view, settings,
         plans, dashboard, updates, OperationFails, FailsTo
<1>3. CASE SaveLanguage
  BY <1>3
     DEF ViewOK, RetriesFit, RetryOf, Effect, NoEffect, OrdersOK, EffectType,
         EffectsFit, SaveLanguage, Executing, Done, Show, view, settings, plans,
         dashboard, updates, OperationFails, FailsTo
<1>4. CASE SaveConfig
  BY <1>4
     DEF ViewOK, RetriesFit, RetryOf, Effect, NoEffect, OrdersOK, EffectType,
         EffectsFit, SaveConfig, Executing, Done, Show, view, settings, plans,
         dashboard, updates, OperationFails, FailsTo
<1>5. CASE ResetConfig
  BY <1>5
     DEF ViewOK, RetriesFit, RetryOf, Effect, NoEffect, OrdersOK, EffectType,
         EffectsFit, ResetConfig, Executing, Done, Show, view, settings, plans,
         dashboard, updates, OperationFails, FailsTo
<1>6. CASE PlanApply
  BY <1>6
     DEF ViewOK, RetriesFit, RetryOf, Effect, NoEffect, OrdersOK, EffectType,
         EffectsFit, PlanApply, Executing, Done, Show, view, settings, plans,
         dashboard, updates, OperationFails, FailsTo
<1>7. CASE CommitApply
  BY <1>7
     DEF ViewOK, RetriesFit, RetryOf, Effect, NoEffect, OrdersOK, EffectType,
         EffectsFit, CommitApply, Executing, Done, Show, view, settings, plans,
         dashboard, updates, OperationFails, FailsTo
<1>8. CASE PlanUnapply
  BY <1>8
     DEF ViewOK, RetriesFit, RetryOf, Effect, NoEffect, OrdersOK, EffectType,
         EffectsFit, PlanUnapply, Executing, Done, Show, view, settings, plans,
         dashboard, updates, OperationFails, FailsTo
<1>9. CASE CommitUnapply
  BY <1>9
     DEF ViewOK, RetriesFit, RetryOf, Effect, NoEffect, OrdersOK, EffectType,
         EffectsFit, CommitUnapply, Executing, Done, Show, view, settings, plans,
         dashboard, updates, OperationFails, FailsTo
<1>10. CASE RunDoctor
  BY <1>10
     DEF ViewOK, RetriesFit, RetryOf, Effect, NoEffect, OrdersOK, EffectType,
         EffectsFit, RunDoctor, Executing, Done, Show, view, settings, plans,
         dashboard, updates, OperationFails, FailsTo
<1>11. CASE LoadJobs
  BY <1>11
     DEF ViewOK, RetriesFit, RetryOf, Effect, NoEffect, OrdersOK, EffectType,
         EffectsFit, LoadJobs, Executing, Done, Show, view, settings, plans,
         dashboard, updates, OperationFails, FailsTo
<1>12. CASE LoadJobTail
  BY <1>12
     DEF ViewOK, RetriesFit, RetryOf, Effect, NoEffect, OrdersOK, EffectType,
         EffectsFit, LoadJobTail, Executing, Done, Show, view, settings, plans,
         dashboard, updates, OperationFails, FailsTo
<1>13. CASE RefreshJobCount
  BY <1>13
     DEF ViewOK, RetriesFit, RetryOf, Effect, NoEffect, OrdersOK, EffectType,
         EffectsFit, RefreshJobCount, Executing, Done, Show, view, settings, plans,
         dashboard, updates, OperationFails, FailsTo
<1>14. CASE KillJob
  BY <1>14
     DEF ViewOK, RetriesFit, RetryOf, Effect, NoEffect, OrdersOK, EffectType,
         EffectsFit, Kill, KillJob, Executing, Done, Show, view, settings, plans,
         dashboard, updates, OperationFails, FailsTo
<1> QED
  BY <1>1, <1>2, <1>3, <1>4, <1>5, <1>6, <1>7, <1>8, <1>9, <1>10, <1>11, <1>12,
     <1>13, <1>14 DEF Execute

LEMMA GateFitsAfterEffect == ASSUME ViewOK, Execute PROVE GateFits'
<1>1. CASE ExecuteRetryUpdate
  BY <1>1
     DEF ViewOK, GateFits, NoEffect, Effect, EffectsFit, ExecuteRetryUpdate,
         Executing, Done, Show, view, settings, plans, dashboard, updates,
         OperationFails, FailsTo
<1>2. CASE SaveFirstLanguage
  <2>1. gate = "none" /\ loop' = "draw"
    BY <1>2 DEF ViewOK, GateFits, SaveFirstLanguage, Executing
  <2>2. CASE OperationFails /\ UNCHANGED gate
    BY <2>1, <2>2 DEF GateFits
  <2>3. CASE Done /\ gate' \in {"startup", gate}
             /\ Show(CASE notice -> "MigrationNotice"
                       [] ~notice /\ gate' = "startup" -> "UpdateChecking"
                       [] OTHER -> "Main")
    <3>1. CASE notice
      BY <3>1, <2>1, <2>3 DEF GateFits, Done, NoEffect, Effect, Show
    <3>2. CASE ~notice /\ gate' = "startup"
      BY <3>2, <2>1, <2>3 DEF GateFits, Done, NoEffect, Effect, Show
    <3>3. CASE ~notice /\ gate' # "startup"
      BY <3>3, <2>1, <2>3 DEF GateFits
    <3> QED
      BY <3>1, <3>2, <3>3
  <2> QED
    BY <1>2, <2>2, <2>3 DEF SaveFirstLanguage, StartRequested
<1>3. CASE SaveLanguage \/ SaveConfig \/ ResetConfig \/ PlanApply \/ CommitApply
          \/ PlanUnapply \/ CommitUnapply \/ RunDoctor \/ LoadJobs \/ LoadJobTail
          \/ RefreshJobCount \/ KillJob
  BY <1>3
     DEF ViewOK, GateFits, SaveLanguage, SaveConfig, ResetConfig, PlanApply,
         CommitApply, PlanUnapply, CommitUnapply, RunDoctor, LoadJobs, LoadJobTail,
         RefreshJobCount, KillJob, Executing, updates
<1> QED
  BY <1>1, <1>2, <1>3 DEF Execute

-----------------------------------------------------------------------------
(* The same, by the steps that are left.                                  *)
LEMMA ViewUnchanged ==
  ASSUME ViewOK, UNCHANGED <<view, effects, plans, dashboard, updates, memory>>,
         loop' \in {loop, "draw", "act", "over"}
  PROVE  ViewOK'
<1>1. UNCHANGED <<screen, yes, pending, retry, plan, unplan, target, gate, offer, exit,
                  requested, notice, memory>>
  BY DEF view, effects, plans, dashboard, updates
<1>2. ScreenOK' /\ OrdersOK' /\ PlansOK' /\ UpdatesOK' /\ TargetOK'
  BY <1>1 DEF ViewOK, ScreenOK, OrdersOK, PlansOK, PlansFit, UpdatesOK, TargetOK
<1>3. EffectsFit' /\ RetriesFit' /\ GateFits'
  BY <1>1 DEF ViewOK, EffectsFit, RetriesFit, GateFits, Kill
<1> QED
  BY <1>2, <1>3 DEF ViewOK

LEMMA ViewAfterRequest == ASSUME ViewOK, Request PROVE ViewOK'
<1>1. /\ gate = "none" /\ pending.kind = "none" /\ loop' = "draw"
      /\ gate' \in {"startup", gate} /\ requested' \in {FALSE, requested}
      /\ UNCHANGED <<pending, retry, plan, unplan, target, offer, exit, notice>>
  BY DEF ViewOK, GateFits, Request, StartRequested, effects, plans, dashboard
<1>2. CASE gate' = "startup" /\ ~notice
  <2>1. screen' = "UpdateChecking" /\ yes' = FALSE
    BY <1>2 DEF Request, Show
  <2>2. screen \in {"Main", "FirstLanguage", "MigrationNotice"}
    BY DEF ViewOK, GateFits, Request
  <2>3. target = NoJob
    BY <2>2 DEF ViewOK, TargetOK
  <2>4. ScreenOK' /\ OrdersOK' /\ PlansOK' /\ UpdatesOK' /\ TargetOK'
    BY <1>1, <2>1, <2>3
       DEF ViewOK, ScreenOK, Screens, Blocking, OrdersOK, PlansOK, PlansFit, UpdatesOK,
           TargetOK
  <2>5. EffectsFit' /\ RetriesFit' /\ GateFits'
    BY <1>1, <2>1 DEF ViewOK, EffectsFit, RetriesFit, GateFits
  <2> QED
    BY <2>4, <2>5 DEF ViewOK
<1>3. CASE ~(gate' = "startup" /\ ~notice)
  <2>1. UNCHANGED <<screen, yes>>
    BY <1>3 DEF Request, view
  <2>2. ScreenOK' /\ OrdersOK' /\ PlansOK' /\ UpdatesOK' /\ TargetOK'
    BY <1>1, <2>1
       DEF ViewOK, ScreenOK, OrdersOK, PlansOK, PlansFit, UpdatesOK, TargetOK
  <2>3. EffectsFit' /\ RetriesFit'
    BY <1>1, <2>1 DEF ViewOK, EffectsFit, RetriesFit, Kill
  <2>4. gate' = "startup" => screen' = "MigrationNotice"
    BY <1>1, <1>3, <2>1 DEF ViewOK, GateFits, Request, StartRequested, checks
  <2>5. GateFits'
    BY <1>1, <2>4 DEF GateFits
  <2> QED
    BY <2>2, <2>3, <2>5 DEF ViewOK
<1> QED
  BY <1>2, <1>3

LEMMA ViewAfterDraw == ASSUME ChecksOK, DashboardOK, ViewOK, Draw PROVE ViewOK'
<1>1. /\ loop' = "act" /\ UNCHANGED <<retry, plan, unplan, memory>>
      /\ Tick /\ PollUpdateCheck
  BY DEF Draw, plans, settings
<1>2. CASE UNCHANGED <<view, dashboard, updates>>
  <2>1. UNCHANGED <<screen, yes, target, gate, offer, exit, requested, notice>>
    BY <1>2 DEF view, dashboard, updates
  <2>2. \/ UNCHANGED pending
        \/ /\ pending = NoEffect
           /\ \/ screen = "Main" /\ pending' = Effect("RefreshJobCount")
              \/ screen = "Jobs" /\ pending' = Effect("LoadJobs")
              \/ screen = "Jobs" /\ pending' = [kind |-> "LoadJobTail", job |-> Focused]
    BY <1>1 DEF Tick
  <2>3. Focused \in Jobs \cup {NoJob}
    BY FocusedIsListed DEF DashboardOK
  <2>4. OrdersOK' /\ EffectsFit' /\ GateFits'
    BY <1>1, <2>1, <2>2, <2>3
       DEF ViewOK, OrdersOK, EffectType, Kinds, Effect, NoJob, EffectsFit, GateFits, Kill
  <2>5. ScreenOK' /\ PlansOK' /\ UpdatesOK' /\ TargetOK' /\ RetriesFit'
    BY <1>1, <2>1
       DEF ViewOK, ScreenOK, PlansOK, PlansFit, UpdatesOK, TargetOK, RetriesFit, Kill
  <2> QED
    BY <2>4, <2>5 DEF ViewOK
<1>3. CASE ~UNCHANGED <<view, dashboard, updates>>
  <2>1. gate # "none" /\ (gate = "startup" => screen = "UpdateChecking")
    BY <1>1, <1>3 DEF PollUpdateCheck
  <2>2. screen = "UpdateChecking" /\ pending.kind = "none"
    BY <2>1 DEF ViewOK, GateFits
  <2>3. UNCHANGED pending
    BY <1>1, <2>2 DEF Tick
  <2>4. target = NoJob
    BY <2>2 DEF ViewOK, TargetOK
  <2>5. \A c \in Checkers : check[c].result \in Offers
    BY SplitChecks DEF CheckOK, Entries, Offers
  <2>6. Startup \in Checkers /\ Page \in Checkers
    BY TerminalAssumption
  <2>7. /\ gate' = "none" /\ UNCHANGED <<exit, requested, notice>>
        /\ offer' \in Offers /\ target' = NoJob
        /\ screen' \in {"Update", "Main"} /\ yes' = FALSE
    <3>1. CASE \E c \in Checkers : Resolve(check[c].result)
      BY <3>1, <2>4, <2>5, OutcomeShapes DEF Resolve, Show, BackToMain, dashboard
    <3>2. CASE /\ gate' = "none" /\ offer' = NoOutcome /\ BackToMain
               /\ UNCHANGED <<exit, requested, notice>>
      BY <3>2, OutcomeShapes DEF Show, BackToMain
    <3> QED
      BY <1>1, <1>3, <2>1, <2>6, <3>1, <3>2 DEF PollUpdateCheck
  <2>8. ScreenOK' /\ OrdersOK' /\ PlansOK' /\ UpdatesOK' /\ TargetOK'
    BY <1>1, <2>3, <2>7
       DEF ViewOK, ScreenOK, Screens, OrdersOK, PlansOK, PlansFit, UpdatesOK, TargetOK
  <2>9. EffectsFit' /\ RetriesFit' /\ GateFits'
    BY <1>1, <2>2, <2>3, <2>7 DEF ViewOK, EffectsFit, RetriesFit, GateFits
  <2> QED
    BY <2>8, <2>9 DEF ViewOK
<1> QED
  BY <1>2, <1>3

LEMMA ViewKept == ASSUME ChecksOK, DashboardOK, ViewOK, TerminalNext PROVE ViewOK'
<1>1. CASE HandleKey
  BY <1>1, ScreenOKAfterKey, OrdersOKAfterKey, PlansOKAfterKey, UpdatesOKAfterKey,
     TargetOKAfterKey, EffectsFitAfterKey, RetriesFitAfterKey, GateFitsAfterKey DEF ViewOK
<1>2. CASE Execute
  BY <1>2, ScreenOKAfterEffect, OrdersOKAfterEffect, PlansOKAfterEffect,
     UpdatesOKAfterEffect, TargetOKAfterEffect, EffectsFitAfterEffect,
     RetriesFitAfterEffect, GateFitsAfterEffect DEF ViewOK
<1>3. CASE Breaks \/ \E c \in Checkers : WorkerRuns(c)
  BY <1>3, ViewUnchanged DEF Breaks, WorkerRuns, settings
<1> QED
  BY <1>1, <1>2, <1>3, ViewAfterRequest, ViewAfterDraw DEF TerminalNext
-----------------------------------------------------------------------------
(* The frame that was drawn.                                              *)
LEMMA FrameType ==
  ASSUME ViewOK
  PROVE  Frame \in [screen : Screens \cup {"none"}, yes : BOOLEAN, job : Jobs \cup {NoJob},
                    plan : {"none", "plain", "conflict"}, offer : Offers]
  BY OutcomeShapes
     DEF ViewOK, ScreenOK, PlansOK, UpdatesOK, TargetOK, Frame, NoFrame

LEMMA NoFrameType ==
  NoFrame \in [screen : Screens \cup {"none"}, yes : BOOLEAN, job : Jobs \cup {NoJob},
               plan : {"none", "plain", "conflict"}, offer : Offers]
  BY OutcomeShapes DEF NoFrame

LEMMA KeysAndEffectsClear ==
  HandleKey \/ Execute => seen' = NoFrame /\ loop' \in {"draw", "over"}
<1>1. HandleKey => seen' = NoFrame /\ loop' \in {"draw", "over"}
  BY DEF HandleKey, CloseMigrationNotice, UpdateKey, UpdateConfirmKey, LanguageKey,
         MainKey, ApplyHomeKey, ApplyPreviewKey, ApplyConflictKey, ApplyConfirmKey,
         UnapplyPreviewKey, UnapplyConfirmKey, ConfigKey, ConfigEditKey,
         ConfigConfirmKey, JobsKey, JobsKillConfirmKey, JobsKillFailedKey,
         StatusKey, CloseKey, OperationFailedKey, Interrupt, NoKey, Choose, Key,
         Quits, KeyTo
<1>2. Execute => seen' = NoFrame /\ loop' = "draw"
  BY DEF Execute, ExecuteRetryUpdate, SaveFirstLanguage, SaveLanguage, SaveConfig,
         ResetConfig, PlanApply, CommitApply, PlanUnapply, CommitUnapply,
         RunDoctor, LoadJobs, LoadJobTail, RefreshJobCount, KillJob, Executing
<1> QED
  BY <1>1, <1>2

LEMMA FrameKept == ASSUME ViewOK, FrameOK, TerminalNext PROVE FrameOK'
<1>1. CASE Draw
  <2>1. seen' = Frame
    BY <1>1 DEF Draw
  <2>2. Frame' = Frame
    <3>1. CASE UNCHANGED <<view, dashboard, updates>>
      BY <3>1, <1>1 DEF Frame, Draw, view, dashboard, updates, plans
    <3>2. CASE ~UNCHANGED <<view, dashboard, updates>>
      <4>1. gate # "none" /\ (gate = "startup" => screen = "UpdateChecking")
        BY <1>1, <3>2 DEF Draw, PollUpdateCheck
      <4>2. screen = "UpdateChecking"
        BY <4>1 DEF ViewOK, GateFits
      <4>3. screen' \in {"Update", "Main"}
        BY <1>1, <3>2 DEF Draw, PollUpdateCheck, Resolve, BackToMain, Show
      <4> QED
        BY <4>2, <4>3 DEF Frame, Confirmations
    <3> QED
      BY <3>1, <3>2
  <2> QED
    BY <2>1, <2>2, FrameType DEF FrameOK, FrameIsDrawn
<1>2. CASE HandleKey \/ Execute
  BY <1>2, KeysAndEffectsClear, NoFrameType DEF FrameOK, FrameIsDrawn
<1>3. CASE Breaks
  BY <1>3, NoFrameType DEF Breaks, FrameOK, FrameIsDrawn
<1>4. CASE Request
  BY <1>4 DEF Request, FrameOK, FrameIsDrawn
<1>5. CASE \E c \in Checkers : WorkerRuns(c)
  BY <1>5
     DEF WorkerRuns, FrameOK, FrameIsDrawn, Frame, view, plans, dashboard, updates
<1> QED
  BY <1>1, <1>2, <1>3, <1>4, <1>5 DEF TerminalNext
-----------------------------------------------------------------------------
LEMMA SteadyInit == TerminalInit => Steady
<1> SUFFICES ASSUME TerminalInit PROVE Steady
  OBVIOUS
<1>1. ChecksOK
  <2>1. Version - 1 \in 0..Newest /\ Version \in 0..Newest /\ Version \in Int
        /\ Newest \in Int
    BY CheckAssumption
  <2>2. \A old \in {Version - 1, Version} : Outcome("available", old + 1) \in Found
    BY CheckAssumption DEF Found, Outcome
  <2>3. 1 \in Generations /\ 2 \in Generations
    BY GenerationsAreFive
  <2>4. PICK old \in {Version - 1, Version} :
          /\ success \in {NoRecord, Record(1, old, Outcome("available", old + 1))}
          /\ last \in {success, Record(2, old, Failure)}
    BY DEF TerminalInit, CheckInit
  <2>5. /\ Record(1, old, Outcome("available", old + 1)) \in Records
        /\ Record(2, old, Failure) \in Records
    BY <2>1, <2>2, <2>3 DEF Records, Record
  <2>6. Newer(Record(1, old, Outcome("available", old + 1)))
    BY CheckAssumption DEF Newer, Record, Outcome
  <2>7. success \in Records /\ Newer(success) /\ last \in Records
    BY <2>4, <2>5, <2>6, RecordShapes
  <2>8. CheckOK
    BY EntryShapes DEF TerminalInit, CheckInit, CheckOK, EntryOK
  <2>9. begun \in 0..MaxChecks /\ trouble \in 0..MaxTrouble
    BY Numbers DEF TerminalInit, CheckInit
  <2> QED
    BY <2>7, <2>8, <2>9, SplitChecks
<1>2. SettingsOK
  BY TerminalAssumption DEF TerminalInit, SettingsOK
<1>3. DashboardOK
  BY FocusIsListed, JobsAreNumbers DEF TerminalInit, DashboardOK, Focused
<1>4. ViewOK
  <2>1. ScreenOK /\ PlansOK /\ TargetOK
    BY DEF TerminalInit, ScreenOK, Screens, PlansOK, PlansFit, TargetOK
  <2>2. OrdersOK /\ EffectsFit
    BY EffectTypes DEF TerminalInit, OrdersOK, NoEffect, EffectsFit, Effect
  <2>3. UpdatesOK
    BY OutcomeShapes DEF TerminalInit, UpdatesOK
  <2>4. RetriesFit /\ GateFits
    BY DEF TerminalInit, RetriesFit, GateFits, NoEffect, Effect
  <2> QED
    BY <2>1, <2>2, <2>3, <2>4 DEF ViewOK
<1>5. FrameOK
  BY NoFrameType DEF TerminalInit, FrameOK, FrameIsDrawn
<1> QED
  BY <1>1, <1>2, <1>3, <1>4, <1>5 DEF Steady

LEMMA SteadyStep == Steady /\ [TerminalNext]_terminalVars => Steady'
<1> SUFFICES ASSUME Steady, [TerminalNext]_terminalVars PROVE Steady'
  OBVIOUS
<1>1. ChecksOK /\ SettingsOK /\ DashboardOK /\ ViewOK /\ FrameOK
  BY DEF Steady
<1>2. CASE TerminalNext
  BY <1>1, <1>2, ChecksKept, SettingsKept, DashboardKept, ViewKept, FrameKept DEF Steady
<1>3. CASE UNCHANGED terminalVars
  <2>1. ChecksOK' /\ SettingsOK'
    BY <1>1, <1>3, ChecksUnchanged, SettingsUnchanged DEF terminalVars
  <2>2. DashboardOK'
    BY <1>1, <1>3, DashboardUnchanged DEF terminalVars, dashboard, DashboardOK
  <2>3. ViewOK'
    BY <1>1, <1>3, ViewUnchanged DEF terminalVars, settings
  <2>4. FrameOK'
    BY <1>1, <1>3
       DEF terminalVars, FrameOK, FrameIsDrawn, Frame, view, plans, dashboard, updates
  <2> QED
    BY <2>1, <2>2, <2>3, <2>4 DEF Steady
<1> QED
  BY <1>2, <1>3

LEMMA AlwaysSteady == TerminalSpec => []Steady
  BY SteadyInit, SteadyStep, PTL DEF TerminalSpec

(* Whatever is saved, fails and is retried, in any order, the settings, the *)
(* output and the offers that the terminal shows are true.                *)
THEOREM ShownIsTrue == TerminalSpec => []WhatIsShownIsTrue
  BY AlwaysSteady, SteadyImplies, PTL
-----------------------------------------------------------------------------
(* What cannot be undone is confirmed.                                    *)
Graves == {"CommitApply", "CommitUnapply", "ResetConfig", "KillJob"}
NothingGrave ==
    /\ pending' = pending \/ pending'.kind \notin Graves
    /\ exit' = exit

LEMMA OthersAreHarmless ==
  ASSUME ViewOK
  PROVE  /\ Request \/ Draw \/ Breaks \/ Execute => NothingGrave
         /\ \A c \in Checkers : WorkerRuns(c) => NothingGrave
<1>1. Request \/ Breaks => NothingGrave
  BY DEF Request, Breaks, NothingGrave, effects, updates
<1>2. \A c \in Checkers : WorkerRuns(c) => NothingGrave
  BY DEF WorkerRuns, NothingGrave, effects, updates
<1>3. Draw => NothingGrave
  BY DEF Draw, Tick, PollUpdateCheck, Resolve, NothingGrave, Graves, Effect, updates
<1>4. Execute => NothingGrave
  <2>1. ExecuteRetryUpdate => NothingGrave
    BY DEF ExecuteRetryUpdate, Done, NothingGrave, Graves, NoEffect, Effect, updates
  <2>2. SaveFirstLanguage => NothingGrave
    BY DEF SaveFirstLanguage, Done, OperationFails, FailsTo, NothingGrave, Graves,
           NoEffect, Effect, updates
  <2>3. SaveLanguage => NothingGrave
    BY DEF SaveLanguage, Done, OperationFails, FailsTo, NothingGrave, Graves,
           NoEffect, Effect, updates
  <2>4. SaveConfig => NothingGrave
    BY DEF SaveConfig, Done, OperationFails, FailsTo, NothingGrave, Graves,
           NoEffect, Effect, updates
  <2>5. ResetConfig => NothingGrave
    BY DEF ResetConfig, Done, OperationFails, FailsTo, NothingGrave, Graves,
           NoEffect, Effect, updates
  <2>6. PlanApply => NothingGrave
    BY DEF PlanApply, Done, OperationFails, FailsTo, NothingGrave, Graves,
           NoEffect, Effect, updates
  <2>7. CommitApply => NothingGrave
    BY DEF CommitApply, Done, OperationFails, FailsTo, NothingGrave, Graves,
           NoEffect, Effect, updates
  <2>8. PlanUnapply => NothingGrave
    BY DEF PlanUnapply, Done, OperationFails, FailsTo, NothingGrave, Graves,
           NoEffect, Effect, updates
  <2>9. CommitUnapply => NothingGrave
    BY DEF CommitUnapply, Done, OperationFails, FailsTo, NothingGrave, Graves,
           NoEffect, Effect, updates
  <2>10. RunDoctor => NothingGrave
    BY DEF RunDoctor, Done, NothingGrave, Graves, NoEffect, Effect, updates
  <2>11. LoadJobs => NothingGrave
    BY DEF LoadJobs, Done, NothingGrave, Graves, NoEffect, Effect, updates
  <2>12. LoadJobTail => NothingGrave
    BY DEF LoadJobTail, Done, NothingGrave, Graves, NoEffect, Effect, updates
  <2>13. RefreshJobCount => NothingGrave
    BY DEF RefreshJobCount, Done, NothingGrave, Graves, NoEffect, Effect, updates
  <2>14. KillJob => NothingGrave
    BY DEF KillJob, Done, OperationFails, FailsTo, NothingGrave, Graves, NoEffect,
           Effect, updates
  <2> QED
    BY <2>1, <2>2, <2>3, <2>4, <2>5, <2>6, <2>7, <2>8, <2>9, <2>10, <2>11, <2>12, <2>13,
       <2>14 DEF Execute
<1> QED
  BY <1>1, <1>2, <1>3, <1>4

GraveKeys ==
    \/ UpdateConfirmKey \/ ApplyConfirmKey \/ UnapplyConfirmKey \/ ConfigConfirmKey
    \/ JobsKillConfirmKey \/ JobsKillFailedKey \/ OperationFailedKey

LEMMA OtherKeysAreHarmless == HandleKey => GraveKeys \/ NothingGrave
<1>1. CloseMigrationNotice => NothingGrave
  BY DEF CloseMigrationNotice, NothingGrave, Graves, Idles, Orders, Effect,
         effects, updates
<1>2. UpdateKey => NothingGrave
  BY DEF UpdateKey, NothingGrave, Graves, Idles, Orders, Effect, effects, updates
<1>3. LanguageKey => NothingGrave
  BY DEF LanguageKey, NothingGrave, Graves, Idles, Orders, Effect, effects, updates
<1>4. MainKey => NothingGrave
  BY DEF MainKey, NothingGrave, Graves, Idles, Orders, Effect, effects, updates
<1>5. ApplyHomeKey => NothingGrave
  BY DEF ApplyHomeKey, NothingGrave, Graves, Idles, Orders, Effect, effects, updates
<1>6. ApplyPreviewKey => NothingGrave
  BY DEF ApplyPreviewKey, NothingGrave, Graves, Idles, Orders, Effect, effects,
         updates
<1>7. ApplyConflictKey => NothingGrave
  BY DEF ApplyConflictKey, NothingGrave, Graves, Idles, Orders, Effect, effects,
         updates, Choose
<1>8. UnapplyPreviewKey => NothingGrave
  BY DEF UnapplyPreviewKey, NothingGrave, Graves, Idles, Orders, Effect, effects,
         updates
<1>9. ConfigKey => NothingGrave
  BY DEF ConfigKey, NothingGrave, Graves, Idles, Orders, Effect, effects, updates
<1>10. ConfigEditKey => NothingGrave
  BY DEF ConfigEditKey, NothingGrave, Graves, Idles, Orders, Effect, effects,
         updates
<1>11. JobsKey => NothingGrave
  BY DEF JobsKey, NothingGrave, Graves, Idles, Orders, Effect, effects, updates
<1>12. StatusKey => NothingGrave
  BY DEF StatusKey, NothingGrave, Graves, Idles, Orders, Effect, effects, updates
<1>13. CloseKey => NothingGrave
  BY DEF CloseKey, NothingGrave, Graves, Idles, Orders, Effect, effects, updates
<1>14. Interrupt => NothingGrave
  BY DEF Interrupt, NothingGrave, Graves, Idles, Orders, Effect, effects, updates
<1>15. NoKey => NothingGrave
  BY DEF NoKey, NothingGrave, Graves, Idles, Orders, Effect, effects, updates
<1> QED
  BY <1>1, <1>2, <1>3, <1>4, <1>5, <1>6, <1>7, <1>8, <1>9, <1>10, <1>11,
     <1>12, <1>13, <1>14, <1>15 DEF HandleKey, GraveKeys

ConfirmedStep ==
    /\ Begins("CommitApply") =>
          Answered("ApplyConfirm") /\ plan # "none" /\ seen.plan = plan
    /\ Begins("CommitUnapply") => Answered("UnapplyConfirm") /\ unplan
    /\ Begins("ResetConfig") =>
          Answered("ConfigResetConfirm") \/ retry.kind = "ResetConfig"
    /\ Begins("KillJob") =>
          \/ Answered("JobsKillConfirm") /\ seen.job = pending'.job
          \/ seen.screen = "JobsKillFailed" /\ seen.job = pending'.job
    /\ exit' # exit => Answered("UpdateConfirm") /\ seen.offer = exit'

LEMMA StepsAreConfirmed ==
  ASSUME ViewOK, FrameOK, TerminalNext PROVE ConfirmedStep
<1>1. NothingGrave => ConfirmedStep
  BY DEF NothingGrave, Graves, ConfirmedStep, Begins
<1>2. ASSUME loop = "act", screen \in Confirmations \cup {"JobsKillFailed"}
      PROVE  /\ seen.screen = screen /\ seen.yes = yes /\ seen.job = target
             /\ screen = "ApplyConfirm" => seen.plan = plan
             /\ screen = "UpdateConfirm" => seen.offer = offer
  BY <1>2 DEF FrameOK, FrameIsDrawn, Frame
<1>3. CASE UpdateConfirmKey
  BY <1>3, <1>2
     DEF UpdateConfirmKey, Choose, Quits, Key, KeyTo, Idles, updates, effects,
         ConfirmedStep, Begins, Answered, Confirmations
<1>4. CASE ApplyConfirmKey
  BY <1>4, <1>2
     DEF ApplyConfirmKey, Choose, Key, KeyTo, Idles, Orders, updates, effects,
         Effect, ViewOK, PlansOK, PlansFit, ConfirmedStep, Begins, Answered,
         Confirmations
<1>5. CASE UnapplyConfirmKey
  BY <1>5, <1>2
     DEF UnapplyConfirmKey, Choose, Key, KeyTo, Idles, Orders, updates, effects,
         Effect, ViewOK, PlansOK, PlansFit, ConfirmedStep, Begins, Answered,
         Confirmations
<1>6. CASE ConfigConfirmKey
  BY <1>6, <1>2
     DEF ConfigConfirmKey, Choose, Key, KeyTo, Idles, Orders, updates, effects,
         Effect, ConfirmedStep, Begins, Answered, Confirmations
<1>7. CASE JobsKillConfirmKey
  BY <1>7, <1>2
     DEF JobsKillConfirmKey, Choose, Key, KeyTo, Idles, updates, effects, Kill,
         ConfirmedStep, Begins, Answered, Confirmations
<1>8. CASE JobsKillFailedKey
  BY <1>8, <1>2
     DEF JobsKillFailedKey, Key, KeyTo, updates, ViewOK, RetriesFit, Kill,
         ConfirmedStep, Begins, Answered, Confirmations
<1>9. CASE OperationFailedKey
  BY <1>9, <1>2
     DEF OperationFailedKey, Key, KeyTo, updates, ViewOK, RetriesFit,
         ConfirmedStep, Begins, Answered, Confirmations
<1> QED
  BY <1>1, <1>3, <1>4, <1>5, <1>6, <1>7, <1>8, <1>9, OthersAreHarmless,
     OtherKeysAreHarmless DEF TerminalNext, GraveKeys

(* What cannot be undone begins with the answer to a frame that was drawn *)
(* and is what that frame was about.                                      *)
THEOREM Confirmed == TerminalSpec => CommitsWhatWasShown
<1>1. Steady /\ [TerminalNext]_terminalVars => [ConfirmedStep]_terminalVars
  BY StepsAreConfirmed DEF Steady
<1>2. TerminalSpec => [][ConfirmedStep]_terminalVars
  BY <1>1, AlwaysSteady, PTL DEF TerminalSpec
<1> QED
  BY <1>2 DEF CommitsWhatWasShown, ConfirmedStep
=============================================================================
