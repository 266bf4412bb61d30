------------------------------ MODULE Processes ------------------------------
(* The processes of an installation: how they are found, ended, and waited *)
(* for, while the process may exit, may become another program, and its    *)
(* PID may be given to another process between any two calls of the system. *)
(* A world is what the PID stands for at one moment after the other: its   *)
(* holder ("it", "zombie": it has exited, "none", "other"), the program    *)
(* that runs, and whether the system lets it be looked at and acted on.    *)
EXTENDS Integers, Sequences

Platforms == {"linux", "macos", "windows"}
Moment(world, at) == world[IF at > Len(world) THEN Len(world) ELSE at]
Holder(world, at) == Moment(world, at).holder
Permitted(world, at) == Moment(world, at).permitted
(* A process that has exited is an object still, until it is collected.    *)
Object(world, at) == IF Holder(world, at) = "zombie" THEN "it" ELSE Holder(world, at)

(* What an inspection of the PID says.  On macOS a PID that is gone is told *)
(* from one that cannot be looked at; on Windows it is not.                *)
ProbeLinux(world, at) ==
    CASE ~Permitted(world, at) -> "unavailable"
      [] Holder(world, at) \in {"none", "zombie"} -> "exited"
      [] OTHER -> Holder(world, at)
ProbeMacos(world, at) == IF Holder(world, at) = "none" THEN "exited" ELSE ProbeLinux(world, at)
ProbeWindows(world, at) ==
    IF Permitted(world, at) /\ Object(world, at) # "none" THEN Object(world, at) ELSE "unavailable"
Probe(platform, world, at) ==
    CASE platform = "linux" -> ProbeLinux(world, at)
      [] platform = "macos" -> ProbeMacos(world, at)
      [] OTHER -> ProbeWindows(world, at)
ProcessIdentity(platform, world, at) ==
    IF Probe(platform, world, at) \in {"it", "other"} THEN Probe(platform, world, at) ELSE "nobody"

(* Where the system fails to answer a question is asked again, for a while. *)
Attempts == 3
LastOf(attempts, from) == from + attempts - 1
IdentityIsAlive(platform, world, at) ==
    LET answered == {t \in at..LastOf(Attempts, at) : Probe(platform, world, t) # "unavailable"}
        first == CHOOSE t \in answered : \A u \in answered : t <= u
    IN  IF platform # "macos" THEN ProcessIdentity(platform, world, at) = "it"
        ELSE answered # {} /\ Probe(platform, world, first) = "it"

(* Readable only while the process runs.                                   *)
Image(world, at) ==
    IF Permitted(world, at) /\ Holder(world, at) \in {"it", "other"} THEN Moment(world, at).image ELSE "unreadable"
Uninspectable == [identity |-> "nobody", image |-> "unreadable"]
(* On Unix the image is read between two looks at the identity, on Windows *)
(* through the handle the identity is read from.                           *)
InspectProcess(platform, world) ==
    LET before == ProcessIdentity(platform, world, 1)
        after == IF platform = "windows" THEN before ELSE ProcessIdentity(platform, world, 3)
        readable == Image(world, 2) # "unreadable"
                    /\ (platform = "windows" => Object(world, 2) = before)
    IN  IF before # "nobody" /\ before = after /\ readable
        THEN [identity |-> before, image |-> Image(world, 2)] ELSE Uninspectable
InstalledProcess(platform, world) ==
    IF InspectProcess(platform, world).image = "managed" THEN InspectProcess(platform, world) ELSE Uninspectable
-----------------------------------------------------------------------------
(* Ending a process that was found.  A signal goes to whom the handle, or  *)
(* the PID, stands for when it is sent, after a check made at a moment.    *)
Signal(kind, to, checked, at) == [kind |-> kind, to |-> to, checked |-> checked, at |-> at]
Result(outcome, signals, at) == [outcome |-> outcome, signals |-> signals, at |-> at]
ByHandle(world, handle, at) == IF Holder(world, at) = handle THEN handle ELSE "nobody"

Matches_ByImage(platform, world, at) == Image(world, at + 1) = "managed"
Matches(platform, world, at) == IdentityIsAlive(platform, world, at) /\ Image(world, at + 1) = "managed"
TerminateLinux(world) ==
    LET handle == Object(world, 1)
        term == Signal("TERM", ByHandle(world, handle, 4), 2, 4)
        kill == Signal("KILL", ByHandle(world, handle, 8), 6, 8)
        ended(at) == Holder(world, at) # handle
        refused(at) == ~Permitted(world, at) /\ Object(world, at) = handle
    IN  CASE handle = "none" \/ ~Permitted(world, 1) ->
                Result(IF IdentityIsAlive("linux", world, 2) THEN "failed" ELSE "no longer managed", <<>>, 2)
          [] ~Matches("linux", world, 2) -> Result("no longer managed", <<>>, 3)
          [] refused(4) -> Result("failed", <<>>, 4)
          [] ended(5) -> Result("terminated", <<term>>, 5)
          [] ~Matches("linux", world, 6) -> Result("no longer managed", <<term>>, 7)
          [] refused(8) -> Result("failed", <<term>>, 8)
          [] OTHER -> Result(IF ended(9) THEN "terminated" ELSE "failed", <<term, kill>>, 9)

TerminateWindows(world) ==
    LET handle == Object(world, 1)
        matches == /\ Permitted(world, 2) /\ handle = "it"
                   /\ Holder(world, 3) = "it" /\ Image(world, 3) = "managed"
        accepted == Permitted(world, 4) /\ Holder(world, 4) = handle
        sent == IF accepted THEN <<Signal("KILL", handle, 2, 4)>> ELSE <<>>
    IN  CASE handle = "none" \/ ~Permitted(world, 1) ->
                Result(IF IdentityIsAlive("windows", world, 2) THEN "failed" ELSE "no longer managed", <<>>, 2)
          [] ~matches -> Result("no longer managed", <<>>, 3)
          [] OTHER -> Result(IF Holder(world, 5) # handle THEN "terminated" ELSE "failed", sent, 5)

(* macOS has no handle to signal: a watcher tells of the exit of the process *)
(* that had the PID when it was registered, and the signal goes to the PID. *)
Exited(world, at) == Holder(world, at) # "it"
Register(world, at) ==
    CASE Holder(world, at) \in {"none", "zombie"} -> "gone"
      [] ~Permitted(world, at) -> "failed"
      [] Holder(world, at + 1) # Holder(world, at) -> "gone"
      [] Probe("macos", world, at + 2) = "it" -> "registered"
      [] Probe("macos", world, at + 2) = "unavailable" -> "failed"
      [] OTHER -> "gone"
ManagedState(world, at) ==
    CASE Probe("macos", world, at) = "other" -> "no longer managed"
      [] Probe("macos", world, at) # "it" -> Probe("macos", world, at)
      [] Image(world, at + 1) = "unreadable" -> "unavailable"
      [] Image(world, at + 1) = "managed" -> "managed"
      [] OTHER -> "no longer managed"
Revalidate(world, at) ==
    LET state(t) == IF Exited(world, t) THEN "exited" ELSE ManagedState(world, t + 1)
        answered == {i \in 0..Attempts - 1 : state(at + 3 * i) # "unavailable"}
        first == CHOOSE i \in answered : \A j \in answered : i <= j
        last == IF answered = {} THEN Attempts - 1 ELSE first
    IN  [state |-> state(at + 3 * last), checked |-> at + 3 * last + 1, next |-> at + 3 * last + 3]
ByPid(world, at) == IF Holder(world, at) \in {"it", "other"} THEN Holder(world, at) ELSE "nobody"
(* The PID is signalled; then either the watcher tells of the exit in time, *)
(* or what follows goes on.                                                *)
Refused(world, at) == Holder(world, at) # "none" /\ ~Permitted(world, at)
Gone(world, at) == Holder(world, at) = "none" \/ Exited(world, at + 1)
ForceAfter(world, before, check) ==
    LET sent == Append(before.signals, Signal("KILL", ByPid(world, check.next), check.checked, check.next))
        failed == Holder(world, check.next) = "none" \/ Refused(world, check.next)
    IN  CASE check.state = "exited" -> Result("terminated", before.signals, check.next)
          [] check.state # "managed" ->
                Result(IF check.state = "unavailable" THEN "failed" ELSE check.state, before.signals, check.next)
          [] failed -> Result(IF Gone(world, check.next) THEN "terminated" ELSE "failed", before.signals, check.next + 1)
          [] OTHER -> Result(IF Exited(world, check.next + 1) THEN "terminated" ELSE "failed", sent, check.next + 1)
ForceTerminate(world, before) == ForceAfter(world, before, Revalidate(world, before.at))
TerminateRegistered(world, check) ==
    LET term == Signal("TERM", ByPid(world, check.next), check.checked, check.next)
        failed == Holder(world, check.next) = "none" \/ Refused(world, check.next)
    IN  CASE check.state \in {"exited", "no longer managed"} -> Result("no longer managed", <<>>, check.next)
          [] check.state = "unavailable" -> Result("failed", <<>>, check.next)
          [] failed -> Result(IF Gone(world, check.next) THEN "terminated" ELSE "failed", <<>>, check.next + 1)
          [] Exited(world, check.next + 1) -> Result("terminated", <<term>>, check.next + 1)
          [] OTHER -> ForceTerminate(world, Result("signalled", <<term>>, check.next + 2))
TerminateMacos(world) ==
    LET tried == {i \in 0..Attempts - 1 : Register(world, 1 + 3 * i) # "failed"}
        first == CHOOSE i \in tried : \A j \in tried : i <= j
    IN  CASE tried = {} -> Result("failed", <<>>, 3 * Attempts)
          [] Register(world, 1 + 3 * first) = "gone" -> Result("no longer managed", <<>>, 3 + 3 * first)
          [] OTHER -> TerminateRegistered(world, Revalidate(world, 4 + 3 * first))
Terminate(platform, world, own) ==
    CASE own -> Result("no longer managed", <<>>, 1)
      [] platform = "linux" -> TerminateLinux(world)
      [] platform = "windows" -> TerminateWindows(world)
      [] OTHER -> TerminateMacos(world)
-----------------------------------------------------------------------------
(* Waiting for a process to exit, until that is cancelled: by a handle, or *)
(* by looking again and again where there is none.                         *)
Wait(outcome, at) == [outcome |-> outcome, at |-> at]
Least(moments) == CHOOSE t \in moments : \A u \in moments : t <= u
(* Until the first of some moments, or until it is cancelled.              *)
WaitUntil(world, from, cancelled, ends) ==
    LET last == Len(world) + from
        moments == {t \in from..last : t >= cancelled \/ t \in ends}
        first == Least(moments)
    IN  IF moments = {} THEN Wait("waiting", last)
        ELSE Wait(IF first >= cancelled THEN "cancelled" ELSE "exited", first)
WaitByPolling(platform, world, from, cancelled) ==
    WaitUntil(world, from, cancelled,
              {t \in from..(Len(world) + from) : Probe(platform, world, t) \in {"exited", "other"}})
HandleWait(world, wait) ==
    IF wait.outcome = "exited" /\ ~Permitted(world, wait.at) THEN [wait EXCEPT !.outcome = "failed"] ELSE wait
WaitByHandle(world, from, cancelled) ==
    HandleWait(world, WaitUntil(world, from, cancelled,
                          {t \in from..(Len(world) + from) : Exited(world, t) \/ ~Permitted(world, t)}))

WaitLinux(world, cancelled) ==
    CASE Object(world, 1) = "none" -> Wait("exited", 1)
      [] ~Permitted(world, 1) \/ Probe("linux", world, 2) = "unavailable" ->
            WaitByPolling("linux", world, 3, cancelled)
      [] Probe("linux", world, 2) # "it" -> Wait("exited", 2)
      [] OTHER -> WaitByHandle(world, 3, cancelled)
WaitWindows(world, cancelled) ==
    CASE Object(world, 1) = "none" \/ ~Permitted(world, 1) -> Wait("failed", 1)
      [] Object(world, 1) # "it" \/ ~Permitted(world, 2) -> Wait("exited", 2)
      [] OTHER -> WaitByHandle(world, 3, cancelled)
Watched(world, wait, cancelled) ==
    IF wait.outcome = "failed" THEN WaitByPolling("macos", world, wait.at + 1, cancelled) ELSE wait
WaitMacos(world, cancelled) ==
    CASE Register(world, 1) = "gone" -> Wait("exited", 3)
      [] Register(world, 1) = "failed" -> WaitByPolling("macos", world, 4, cancelled)
      [] OTHER -> Watched(world, WaitByHandle(world, 4, cancelled), cancelled)
WaitForExit(platform, world, cancelled) ==
    CASE platform = "linux" -> WaitLinux(world, cancelled)
      [] platform = "windows" -> WaitWindows(world, cancelled)
      [] OTHER -> WaitMacos(world, cancelled)

(* The parent at startup: its identity, "gone", or that it cannot be told. *)
CaptureParent(platform, world) ==
    LET answered == {t \in 1..LastOf(Attempts, 1) : Probe(platform, world, t) # "unavailable"}
        answer == Probe(platform, world, Least(answered))
    IN  CASE platform = "windows" -> IF ProcessIdentity(platform, world, 1) = "nobody" THEN "gone"
                                     ELSE ProcessIdentity(platform, world, 1)
          [] answered = {} -> "failed"
          [] answer = "exited" -> "gone"
          [] OTHER -> answer
=============================================================================
