---------------------------- MODULE UpdateProofs ----------------------------
(* Proofs about Update, for any number of updates, any kinds of them, any  *)
(* number of versions and any number of troubles.                          *)
EXTENDS Update, TLAPS

USE UpdateAssumption

(* What is true of one run by itself.  Which files and processes there can *)
(* be before the helper starts, and while it loads;                        *)
Over == {"none", "ended", "dead"}
Untouched(r) ==
    /\ r.tui = "off" => r.launcher = "none" /\ ~r.torn
    /\ r.tui \in {"off", "session"} => r.helper = "none"
    /\ r.tui \in {"handing", "waiting"} => r.helper # "none"
    /\ r.helper = "none" => /\ r.child = "none" /\ r.fallback = "none"
                            /\ r.handoff = "none" /\ ~r.request
                            /\ r.health = "none"
(* which paths of the helper a kind of installation takes;                 *)
Launched(r) ==
    /\ r.tui # "off" =>
          r.kind \in Kinds /\ (r.launcher = "none" <=> r.kind = "release")
    /\ Npm(r) /\ r.tui = "handing" =>
          r.helper \in {"loading", "parent_exit", "ended", "dead"}
    /\ r.helper = "parent_exit" => Npm(r)
    /\ r.helper \in {"install", "restore"} => Persistent(r)
    /\ r.severed => Npm(r)
(* what the process that the shell waits for still waits for itself;       *)
Followed(r) ==
    /\ r.launcher \in {"polling", "ended"} => r.tui = "exited"
    /\ r.kind = "release" /\ r.tui = "exited" => r.helper \in Over
    /\ r.launcher = "child" /\ r.tui = "exited" => r.helper \in Over
    /\ r.launcher = "polling" /\ ~r.swept =>
          r.handoff \in {"running", "done", "failed"}
    /\ r.launcher = "ended" /\ ~r.swept => r.helper \in Over
    /\ r.handoff \in {"done", "failed"} => r.helper \in Over
(* and which of the sessions that a helper opens there can be.             *)
Alone(r) ==
    /\ r.kind = "release"
       /\ r.helper \notin {"health", "unhealthy", "kill", "session", "dead"}
          => ~Live(r)
    /\ r.kind = "release" /\ r.fallback # "none" => ~Live(r)
    /\ r.fallback = "running" => r.helper \in {"fallback", "dead"}
    /\ r.fallback # "none" => r.helper \in {"fallback", "ended", "dead"}
    /\ r.helper = "session" => ~r.request /\ r.health = "none"
RunOK(r) ==
    r \in Runs /\ Untouched(r) /\ Launched(r) /\ Followed(r) /\ Alone(r)
(* A run keeps its installation and its version, and stays torn.           *)
Onward(r, s) == r.tui # "off" => /\ s.tui # "off" /\ s.kind = r.kind
                                 /\ s.version = r.version
                                 /\ r.torn => s.torn
-----------------------------------------------------------------------------
(* What a step does to its own run keeps that run in order.  First the old *)
(* interface: it opens,                                                    *)
LEMMA OpensOK ==
    ASSUME NEW r, RunOK(r), r.tui = "off", NEW k \in Kinds, NEW v \in Versions,
           NEW s, s = [Idle EXCEPT !.tui = "session", !.kind = k,
                          !.version = v, !.launcher =
                             IF k = "release" THEN "none" ELSE "child"]
    PROVE  RunOK(s) /\ Onward(r, s)
<1> DEFINE first == IF k = "release" THEN "none" ELSE "child"
<1>1. first \in {"none", "child"}
  OBVIOUS
<1>2. 1 \in Versions
  BY DEF Versions
<1>3. Idle \in Runs
  BY ZenonT(40), <1>2 DEF Idle, Runs, Holding
<1>4. s = [Idle EXCEPT !.tui = "session", !.kind = k, !.version = v,
                       !.launcher = first]
  OBVIOUS
<1>5. s \in Runs
  <2> HIDE DEF first
  <2>. QED  BY ZenonT(40), <1>1, <1>3, <1>4 DEF Runs
<1>6. /\ s.tui = "session" /\ s.kind = k /\ s.launcher = first
      /\ s.helper = "none" /\ s.child = "none" /\ ~s.severed
      /\ s.fallback = "none" /\ s.handoff = "none" /\ ~s.request
      /\ s.health = "none" /\ ~s.torn
  BY SMTT(40), <1>4 DEF Idle
<1>7. /\ Untouched(s) /\ Launched(s) /\ Followed(s) /\ Alone(s)
      /\ Onward(r, s)
  BY SMTT(40), <1>5, <1>6 DEF Onward, Untouched, Launched,
       Followed, Alone, Over, Npm, Persistent, Live
<1>. QED  BY <1>5, <1>7 DEF RunOK

(* begins,                                                                 *)
LEMMA BeginsOK ==
    ASSUME NEW r, RunOK(r), r.tui = "session", NEW t \in Versions,
           NEW s, s = [r EXCEPT !.tui = "handing", !.target = t,
                          !.helper = "loading", !.request = TRUE,
                          !.handoff = IF Npm(r) THEN "starting" ELSE "none"]
    PROVE  RunOK(s) /\ Onward(r, s)
<1>1. r \in Runs
  BY DEF RunOK
<1>2. s \in Runs
  BY ZenonT(120), <1>1 DEF Runs, Npm, Holding
<1>3. /\ Untouched(s) /\ Launched(s) /\ Followed(s) /\ Alone(s)
      /\ Onward(r, s)
  BY SMTT(40), <1>2 DEF RunOK, Runs, Onward, Untouched, Launched,
       Followed, Alone, Over, Npm, Persistent, Live, Holding
<1>. QED  BY <1>2, <1>3 DEF RunOK

(* or fails to,                                                            *)
LEMMA BeginFailsOK ==
    ASSUME NEW r, RunOK(r), r.tui = "session",
           NEW s, s = [r EXCEPT !.tui = "exited"]
    PROVE  RunOK(s) /\ Onward(r, s)
<1>1. r \in Runs
  BY DEF RunOK
<1>2. s \in Runs
  BY ZenonT(40), <1>1 DEF Runs
<1>3. /\ Untouched(s) /\ Launched(s) /\ Followed(s) /\ Alone(s)
      /\ Onward(r, s)
  BY SMTT(40), <1>2 DEF RunOK, Runs, Onward, Untouched, Launched,
       Followed, Alone, Over, Npm, Persistent, Live, Holding
<1>. QED  BY <1>2, <1>3 DEF RunOK

(* hands over to its helper,                                               *)
LEMMA HandsOverOK ==
    ASSUME NEW r, RunOK(r), r.tui = "handing", NEW s,
           s = IF Npm(r)
               THEN [r EXCEPT !.tui = "exited", !.handoff = "running",
                              !.launcher = "polling"]
               ELSE [r EXCEPT !.tui = "waiting"]
    PROVE  RunOK(s) /\ Onward(r, s)
<1>1. r \in Runs
  BY DEF RunOK
<1>2. s \in Runs
  <2>1. CASE Npm(r)
    BY ZenonT(120), <1>1, <2>1 DEF Runs
  <2>2. CASE ~Npm(r)
    BY ZenonT(40), <1>1, <2>2 DEF Runs
  <2>. QED  BY <2>1, <2>2
<1>3. /\ Untouched(s) /\ Launched(s) /\ Followed(s) /\ Alone(s)
      /\ Onward(r, s)
  BY SMTT(40), <1>2 DEF RunOK, Runs, Onward, Untouched, Launched,
       Followed, Alone, Over, Npm, Persistent, Live, Holding
<1>. QED  BY <1>2, <1>3 DEF RunOK

(* or kills it,                                                            *)
LEMMA HandOverFailsOK ==
    ASSUME NEW r, RunOK(r), r.tui = "handing", Npm(r),
           NEW s, s = [CleanedUp(r) EXCEPT !.tui = "exited",
                          !.handoff = "none",
                          !.helper = IF @ = "ended" THEN @ ELSE "dead"]
    PROVE  RunOK(s) /\ Onward(r, s)
<1>1. r \in Runs
  BY DEF RunOK
<1>2. s \in Runs
  BY ZenonT(40), <1>1 DEF Runs, Holding, CleanedUp
<1>3. /\ Untouched(s) /\ Launched(s) /\ Followed(s) /\ Alone(s)
      /\ Onward(r, s)
  BY SMTT(40), <1>2 DEF RunOK, Runs, Onward, Untouched, Launched,
       Followed, Alone, Over, Npm, Persistent, Live, Holding, CleanedUp
<1>. QED  BY <1>2, <1>3 DEF RunOK

(* and waits for it.                                                       *)
LEMMA WaitedOK ==
    ASSUME NEW r, RunOK(r), r.tui = "waiting", HelperOver(r),
           NEW s, s = [CleanedUp(r) EXCEPT !.tui = "exited"]
    PROVE  RunOK(s) /\ Onward(r, s)
<1>1. r \in Runs
  BY DEF RunOK
<1>2. s \in Runs
  BY ZenonT(40), <1>1 DEF Runs, CleanedUp
<1>3. /\ Untouched(s) /\ Launched(s) /\ Followed(s) /\ Alone(s)
      /\ Onward(r, s)
  BY SMTT(40), <1>2 DEF RunOK, Runs, Onward, Untouched, Launched,
       Followed, Alone, Over, Npm, Persistent, Live, Holding,
       CleanedUp, HelperOver
<1>. QED  BY <1>2, <1>3 DEF RunOK

(* The launcher above it ends.                                             *)
LEMMA LauncherEndsOK ==
    ASSUME NEW r, RunOK(r),
           \/ r.launcher = "child" /\ r.tui = "exited"
           \/ r.launcher = "polling"
              /\ r.handoff \notin {"running", "done", "failed"},
           NEW s, s = [r EXCEPT !.launcher = "ended"]
    PROVE  RunOK(s) /\ Onward(r, s)
<1>1. r \in Runs
  BY DEF RunOK
<1>2. s \in Runs
  BY ZenonT(40), <1>1 DEF Runs
<1>3. /\ Untouched(s) /\ Launched(s) /\ Followed(s) /\ Alone(s)
      /\ Onward(r, s)
  BY SMTT(40), <1>2 DEF RunOK, Runs, Onward, Untouched, Launched,
       Followed, Alone, Over, Npm, Persistent, Live, Holding
<1>. QED  BY <1>2, <1>3 DEF RunOK

LEMMA LauncherPollsOK ==
    ASSUME NEW r, RunOK(r), r.launcher = "polling",
           \/ r.handoff \in {"done", "failed"}
           \/ r.handoff = "running" /\ HelperOver(r),
           NEW s, s = [r EXCEPT !.launcher = "ended", !.handoff = "none"]
    PROVE  RunOK(s) /\ Onward(r, s)
<1>1. r \in Runs
  BY DEF RunOK
<1>2. s \in Runs
  BY ZenonT(40), <1>1 DEF Runs
<1>3. /\ Untouched(s) /\ Launched(s) /\ Followed(s) /\ Alone(s)
      /\ Onward(r, s)
  BY SMTT(40), <1>2 DEF RunOK, Runs, Onward, Untouched, Launched,
       Followed, Alone, Over, Npm, Persistent, Live, Holding, HelperOver
<1>. QED  BY <1>2, <1>3 DEF RunOK

(* Another update sweeps its marker, at any time.                          *)
LEMMA SweptOK ==
    ASSUME NEW r, RunOK(r), NEW s,
           s = [r EXCEPT !.handoff = "none", !.old = FALSE, !.swept = TRUE]
    PROVE  RunOK(s) /\ Onward(r, s)
<1>1. r \in Runs
  BY DEF RunOK
<1>2. s \in Runs
  BY ZenonT(40), <1>1 DEF Runs
<1>3. /\ Untouched(s) /\ Launched(s) /\ Followed(s) /\ Alone(s)
      /\ Onward(r, s)
  BY SMTT(40), <1>2 DEF RunOK, Runs, Onward, Untouched, Launched,
       Followed, Alone, Over, Npm, Persistent, Live, Holding
<1>. QED  BY <1>2, <1>3 DEF RunOK

(* The helper goes from one stage to another of the same standing;         *)
LEMMA GoesOK ==
    ASSUME NEW r, RunOK(r), NEW pc, NEW s, s = [r EXCEPT !.helper = pc],
           \/ /\ r.helper \in {"loading", "parent_exit"}
              /\ pc = "ended" \/ (pc = "parent_exit" /\ Npm(r))
                   \/ (pc = "locking" /\ (Npm(r) => r.tui = "exited"))
           \/ /\ r.helper \in Holding
              /\ pc \in Holding \ {"install"}
              /\ pc = "restore" => Persistent(r)
              /\ r.kind = "release" /\ Live(r)
                    => pc \in {"health", "unhealthy", "kill"}
    PROVE  RunOK(s) /\ Onward(r, s)
<1>1. r \in Runs
  BY DEF RunOK
<1>2. pc \in Holding \cup {"none", "loading", "parent_exit", "locking",
                "session", "fallback", "ended", "dead"}
  BY DEF Holding
<1>3. s \in Runs
  BY ZenonT(40), <1>1, <1>2 DEF Runs
<1>4. /\ Untouched(s) /\ Launched(s) /\ Followed(s) /\ Alone(s)
      /\ Onward(r, s)
  BY SMTT(40), <1>3 DEF RunOK, Runs, Onward, Untouched, Launched,
       Followed, Alone, Over, Npm, Persistent, Live, Holding
<1>. QED  BY <1>3, <1>4 DEF RunOK

(* cleans up,                                                              *)
LEMMA CleanedUpOK ==
    ASSUME NEW r, RunOK(r), NEW s, s = CleanedUp(r)
    PROVE  RunOK(s) /\ Onward(r, s)
<1>1. r \in Runs
  BY DEF RunOK
<1>2. s \in Runs
  BY ZenonT(40), <1>1 DEF Runs, CleanedUp
<1>3. /\ Untouched(s) /\ Launched(s) /\ Followed(s) /\ Alone(s)
      /\ Onward(r, s)
  BY SMTT(40), <1>2 DEF RunOK, Runs, Onward, Untouched, Launched,
       Followed, Alone, Over, Npm, Persistent, Live, Holding, CleanedUp
<1>. QED  BY <1>2, <1>3 DEF RunOK

(* ends,                                                                   *)
LEMMA EndsOK ==
    ASSUME NEW r, RunOK(r), r.helper # "none", r.fallback # "running",
           r.kind = "release" => ~Live(r),
           NEW verdict, NEW s, s = HelperEnded(r, verdict)
    PROVE  RunOK(s) /\ Onward(r, s)
<1> DEFINE last == IF ~Npm(r) THEN r.handoff
                   ELSE IF verdict = "ok" THEN "done" ELSE "failed"
<1>1. r \in Runs
  BY DEF RunOK
<1>2. last \in {"none", "starting", "running", "done", "failed"}
  BY <1>1 DEF Runs
<1>3. s = [r EXCEPT !.helper = "ended", !.handoff = last]
  BY SMTT(40), <1>1 DEF HelperEnded, Runs
<1>4. s \in Runs
  <2> HIDE DEF last
  <2>. QED  BY ZenonT(40), <1>1, <1>2, <1>3 DEF Runs
<1>5. /\ Untouched(s) /\ Launched(s) /\ Followed(s) /\ Alone(s)
      /\ Onward(r, s)
  BY SMTT(40), <1>3, <1>4 DEF RunOK, Runs, Onward, Untouched, Launched,
       Followed, Alone, Over, Npm, Persistent, Live, Holding
<1>. QED  BY <1>4, <1>5 DEF RunOK

(* opens the previous version,                                             *)
LEMMA FallsBackOK ==
    ASSUME NEW r, RunOK(r), r.helper \in {"locking", "failed"},
           NEW s, s = [r EXCEPT !.helper = "fallback", !.fallback = "running"]
    PROVE  RunOK(s) /\ Onward(r, s)
<1>1. r \in Runs
  BY DEF RunOK
<1>2. s \in Runs
  BY ZenonT(40), <1>1 DEF Runs, Holding
<1>3. /\ Untouched(s) /\ Launched(s) /\ Followed(s) /\ Alone(s)
      /\ Onward(r, s)
  BY SMTT(40), <1>2 DEF RunOK, Runs, Onward, Untouched, Launched,
       Followed, Alone, Over, Npm, Persistent, Live, Holding
<1>. QED  BY <1>2, <1>3 DEF RunOK

LEMMA GivesUpOK ==
    ASSUME NEW r, RunOK(r), r.helper \in {"locking", "failed"},
           NEW s \in GivesUp(r)
    PROVE  /\ RunOK(s) /\ Onward(r, s)
           /\ s.helper \in {"fallback", "ended"} /\ s.kind = r.kind
<1> DEFINE c == CleanedUp(r)
<1>1. RunOK(c) /\ Onward(r, c)
  BY CleanedUpOK
<1>2. /\ c.helper = r.helper /\ c.fallback = r.fallback /\ c.kind = r.kind
      /\ c.child = r.child /\ c.torn = r.torn /\ c.tui = r.tui
      /\ c.version = r.version
  BY SMTT(40) DEF CleanedUp, RunOK, Runs
<1>3. c.fallback = "none" /\ (c.kind = "release" => ~Live(c))
  BY <1>2 DEF RunOK, Alone, Live, Runs
<1> HIDE DEF c
<1>4. CASE s = [c EXCEPT !.helper = "fallback", !.fallback = "running"]
  <2>1. RunOK(s) /\ Onward(c, s)
    BY <1>1, <1>2, <1>4, FallsBackOK
  <2>. QED  BY SMTT(40), <1>1, <1>2, <1>4, <2>1 DEF RunOK, Runs, Onward
<1>5. CASE s = HelperEnded(c, "failed")
  <2>1. RunOK(s) /\ Onward(c, s)
    BY <1>1, <1>2, <1>3, <1>5, EndsOK
  <2>. QED  BY SMTT(40), <1>1, <1>2, <1>5, <2>1 DEF RunOK, Runs, Onward,
         HelperEnded
<1>. QED
  <2>1. [CleanedUp(r) EXCEPT !.helper = "fallback", !.fallback = "running"]
          = [c EXCEPT !.helper = "fallback", !.fallback = "running"]
    BY DEF c
  <2>. QED  BY <1>4, <1>5 DEF GivesUp, c

(* takes the lock,                                                         *)
LEMMA LocksOK ==
    ASSUME NEW r, RunOK(r), r.helper = "locking", NEW o \in Versions,
           NEW s, s = [r EXCEPT !.helper = IF Persistent(r) THEN "install"
                                           ELSE "start",
                                !.original = o]
    PROVE  RunOK(s) /\ Onward(r, s)
<1>1. r \in Runs
  BY DEF RunOK
<1>2. s \in Runs
  BY ZenonT(40), <1>1 DEF Runs, Holding, Persistent
<1>3. /\ Untouched(s) /\ Launched(s) /\ Followed(s) /\ Alone(s)
      /\ Onward(r, s)
  BY SMTT(40), <1>2 DEF RunOK, Runs, Onward, Untouched, Launched,
       Followed, Alone, Over, Npm, Persistent, Live, Holding
<1>. QED  BY <1>2, <1>3 DEF RunOK

(* starts the new version,                                                 *)
LEMMA StartsOK ==
    ASSUME NEW r, RunOK(r), r.helper = "start",
           NEW s, s = [r EXCEPT !.helper = "health",
                          !.child = IF Npm(r) THEN "launcher" ELSE "loading"]
    PROVE  RunOK(s) /\ Onward(r, s)
<1>1. r \in Runs
  BY DEF RunOK
<1>2. s \in Runs
  BY ZenonT(40), <1>1 DEF Runs, Holding, Npm
<1>3. /\ Untouched(s) /\ Launched(s) /\ Followed(s) /\ Alone(s)
      /\ Onward(r, s)
  BY SMTT(40), <1>2 DEF RunOK, Runs, Onward, Untouched, Launched,
       Followed, Alone, Over, Npm, Persistent, Live, Holding
<1>. QED  BY <1>2, <1>3 DEF RunOK

(* confirms it,                                                            *)
LEMMA ConfirmsOK ==
    ASSUME NEW r, RunOK(r), r.helper = "health",
           NEW s, s = [CleanedUp(r) EXCEPT !.helper = "session"]
    PROVE  RunOK(s) /\ Onward(r, s)
<1>1. r \in Runs
  BY DEF RunOK
<1>2. s \in Runs
  BY ZenonT(40), <1>1 DEF Runs, Holding, CleanedUp
<1>3. /\ Untouched(s) /\ Launched(s) /\ Followed(s) /\ Alone(s)
      /\ Onward(r, s)
  BY SMTT(40), <1>2 DEF RunOK, Runs, Onward, Untouched, Launched,
       Followed, Alone, Over, Npm, Persistent, Live, Holding, CleanedUp
<1>. QED  BY <1>2, <1>3 DEF RunOK

(* kills it,                                                               *)
LEMMA KillsOK ==
    ASSUME NEW r, RunOK(r), r.helper = "kill",
           NEW s, s = [r EXCEPT !.helper = RestoreOrFail(r),
              !.child = IF Npm(r) /\ @ # "launcher" THEN @ ELSE "gone",
              !.severed = Npm(r) /\ r.child \notin {"launcher", "gone"}]
    PROVE  RunOK(s) /\ Onward(r, s)
<1>1. r \in Runs
  BY DEF RunOK
<1>2. s \in Runs
  BY ZenonT(120), <1>1 DEF Runs, Holding, RestoreOrFail, Npm, Persistent
<1>3. /\ Untouched(s) /\ Launched(s) /\ Followed(s) /\ Alone(s)
      /\ Onward(r, s)
  BY SMTT(40), <1>2 DEF RunOK, Runs, Onward, Untouched, Launched,
       Followed, Alone, Over, Npm, Persistent, Live, Holding, RestoreOrFail
<1>. QED  BY <1>2, <1>3 DEF RunOK

(* cannot restore the previous one,                                        *)
LEMMA TearsOK ==
    ASSUME NEW r, RunOK(r), r.helper = "restore",
           NEW s, s = [r EXCEPT !.helper = "failed", !.torn = TRUE]
    PROVE  RunOK(s) /\ Onward(r, s)
<1>1. r \in Runs
  BY DEF RunOK
<1>2. s \in Runs
  BY ZenonT(40), <1>1 DEF Runs, Holding
<1>3. /\ Untouched(s) /\ Launched(s) /\ Followed(s) /\ Alone(s)
      /\ Onward(r, s)
  BY SMTT(40), <1>2 DEF RunOK, Runs, Onward, Untouched, Launched,
       Followed, Alone, Over, Npm, Persistent, Live, Holding
<1>. QED  BY <1>2, <1>3 DEF RunOK

(* or dies.                                                                *)
LEMMA DiesOK ==
    ASSUME NEW r, RunOK(r), r.helper # "none",
           NEW b \in BOOLEAN, r.torn => b,
           NEW s, s = [r EXCEPT !.helper = "dead", !.torn = b]
    PROVE  RunOK(s) /\ Onward(r, s)
<1>1. r \in Runs
  BY DEF RunOK
<1>2. s \in Runs
  BY ZenonT(40), <1>1 DEF Runs, Holding
<1>3. /\ Untouched(s) /\ Launched(s) /\ Followed(s) /\ Alone(s)
      /\ Onward(r, s)
  BY SMTT(40), <1>2 DEF RunOK, Runs, Onward, Untouched, Launched,
       Followed, Alone, Over, Npm, Persistent, Live, Holding
<1>. QED  BY <1>2, <1>3 DEF RunOK

(* The new version goes from stage to stage while it lives,                *)
LEMMA ChildGoesOK ==
    ASSUME NEW r, RunOK(r), Live(r),
           NEW pc \in {"loading", "tui", "gone"},
           NEW s, s = [r EXCEPT !.child = pc]
    PROVE  RunOK(s) /\ Onward(r, s)
<1>1. r \in Runs
  BY DEF RunOK
<1>2. s \in Runs
  BY ZenonT(40), <1>1 DEF Runs
<1>3. /\ Untouched(s) /\ Launched(s) /\ Followed(s) /\ Alone(s)
      /\ Onward(r, s)
  BY SMTT(40), <1>2 DEF RunOK, Runs, Onward, Untouched, Launched,
       Followed, Alone, Over, Npm, Persistent, Live, Holding
<1>. QED  BY <1>2, <1>3 DEF RunOK

(* creates the file of its health and writes it,                           *)
LEMMA SignalsOK ==
    ASSUME NEW r, RunOK(r), Live(r), NEW pc \in {"created", "signalled"},
           NEW h \in {"none", "empty", "ok"},
           r.request \/ (r.health = "none" => h = "none"),
           NEW s, s = [r EXCEPT !.child = pc, !.health = h]
    PROVE  RunOK(s) /\ Onward(r, s)
<1>1. r \in Runs
  BY DEF RunOK
<1>2. s \in Runs
  BY ZenonT(40), <1>1 DEF Runs
<1>3. /\ Untouched(s) /\ Launched(s) /\ Followed(s) /\ Alone(s)
      /\ Onward(r, s)
  BY SMTT(40), <1>2 DEF RunOK, Runs, Onward, Untouched, Launched,
       Followed, Alone, Over, Npm, Persistent, Live, Holding
<1>. QED  BY <1>2, <1>3 DEF RunOK

(* and so does what else is open.                                          *)
LEMMA QuitsOK ==
    ASSUME NEW r, RunOK(r), r.fallback = "running",
           NEW s, s = [r EXCEPT !.fallback = "gone"]
    PROVE  RunOK(s) /\ Onward(r, s)
<1>1. r \in Runs
  BY DEF RunOK
<1>2. s \in Runs
  BY ZenonT(40), <1>1 DEF Runs
<1>3. /\ Untouched(s) /\ Launched(s) /\ Followed(s) /\ Alone(s)
      /\ Onward(r, s)
  BY SMTT(40), <1>2 DEF RunOK, Runs, Onward, Untouched, Launched,
       Followed, Alone, Over, Npm, Persistent, Live, Holding
<1>. QED  BY <1>2, <1>3 DEF RunOK

LEMMA AgesOK ==
    ASSUME NEW r, RunOK(r), NEW s, s = [r EXCEPT !.old = TRUE]
    PROVE  RunOK(s) /\ Onward(r, s)
<1>1. r \in Runs
  BY DEF RunOK
<1>2. s \in Runs
  BY ZenonT(40), <1>1 DEF Runs
<1>3. /\ Untouched(s) /\ Launched(s) /\ Followed(s) /\ Alone(s)
      /\ Onward(r, s)
  BY SMTT(40), <1>2 DEF RunOK, Runs, Onward, Untouched, Launched,
       Followed, Alone, Over, Npm, Persistent, Live, Holding
<1>. QED  BY <1>2, <1>3 DEF RunOK

-----------------------------------------------------------------------------
RunsOK == up \in [Updates -> Runs] /\ \A u \in Updates : RunOK(up[u])

(* A step changes its own run, and of the others no more than a sweep.     *)
SameHelper(r, s) ==
    /\ s.kind = r.kind /\ s.version = r.version /\ s.target = r.target
    /\ s.helper = r.helper /\ s.original = r.original /\ s.torn = r.torn
Same(r, s) == s.tui = r.tui /\ SameHelper(r, s)
OneRun(u) == /\ RunsOK'
             /\ \A v \in Updates \ {u} : Same(up[v], up'[v])
             /\ Onward(up[u], up'[u])

LEMMA Becomes ==
    ASSUME RunsOK, NEW u \in Updates, NEW s, Become(u, s), RunOK(s),
           Onward(up[u], s)
    PROVE  OneRun(u)
<1>1. s \in Runs
  BY DEF RunOK
<1>2. up' = [up EXCEPT ![u] = s]
  BY DEF Become
<1>3. up' \in [Updates -> Runs] /\ up'[u] = s
  BY <1>1, <1>2 DEF RunsOK
<1>4. \A v \in Updates \ {u} : up'[v] = up[v]
  BY <1>2 DEF RunsOK
<1>5. RunsOK'
  BY <1>3, <1>4 DEF RunsOK
<1>. QED  BY <1>3, <1>4, <1>5 DEF OneRun, Same, SameHelper

LEMMA Sweeps ==
    ASSUME RunsOK, NEW u \in Updates, NEW s, RunOK(s), Onward(up[u], s),
           up' = [SweptBy(u) EXCEPT ![u] = s]
    PROVE  OneRun(u)
<1>1. \A v \in Updates : RunOK(SweptBy(u)[v]) /\ Same(up[v], SweptBy(u)[v])
  <2> SUFFICES ASSUME NEW v \in Updates
               PROVE  RunOK(SweptBy(u)[v]) /\ Same(up[v], SweptBy(u)[v])
    OBVIOUS
  <2>1. RunOK(up[v])
    BY DEF RunsOK
  <2>2. CASE SweptBy(u)[v] = up[v]
    BY <2>1, <2>2 DEF Same, SameHelper
  <2>3. CASE SweptBy(u)[v] = [up[v] EXCEPT !.handoff = "none", !.old = FALSE,
                                           !.swept = TRUE]
    <3>1. RunOK(SweptBy(u)[v])
      BY <2>1, <2>3, SweptOK
    <3>. QED  BY <2>1, <2>3, <3>1 DEF Same, SameHelper, RunOK, Runs
  <2>. QED  BY <2>2, <2>3 DEF SweptBy
<1>2. s \in Runs /\ \A v \in Updates : SweptBy(u)[v] \in Runs
  BY <1>1 DEF RunOK
<1>3. SweptBy(u) \in [Updates -> Runs]
  <2>1. DOMAIN SweptBy(u) = Updates
    BY DEF SweptBy
  <2>. QED  BY <1>2, <2>1 DEF SweptBy
<1>4. up' \in [Updates -> Runs] /\ up'[u] = s
  BY <1>2, <1>3
<1>5. \A v \in Updates \ {u} : up'[v] = SweptBy(u)[v]
  BY <1>3
<1>6. RunsOK'
  BY <1>1, <1>4, <1>5 DEF RunsOK
<1>. QED  BY <1>1, <1>4, <1>5, <1>6 DEF OneRun

LEMMA TuiRuns ==
    ASSUME RunsOK, NEW u \in Updates,
           OpenTui(u) \/ TuiActs(u), product \in [Kinds -> Versions]
    PROVE  OneRun(u)
<1>1. CASE OpenTui(u)
  <2>1. PICK k \in Kinds : Become(u, [Idle EXCEPT !.tui = "session",
             !.kind = k, !.version = product[k],
             !.launcher = IF k = "release" THEN "none" ELSE "child"])
    BY <1>1 DEF OpenTui
  <2> DEFINE s == [Idle EXCEPT !.tui = "session", !.kind = k,
                       !.version = product[k], !.launcher =
                          IF k = "release" THEN "none" ELSE "child"]
  <2>2. up[u].tui = "off" /\ RunOK(up[u]) /\ product[k] \in Versions
    BY <1>1 DEF OpenTui, RunsOK
  <2>3. RunOK(s) /\ Onward(up[u], s)
    <3>1. \A v \in Versions : \A t : t = [Idle EXCEPT !.tui = "session",
               !.kind = k, !.version = v, !.launcher =
                  IF k = "release" THEN "none" ELSE "child"]
             => RunOK(t) /\ Onward(up[u], t)
      BY <2>2, OpensOK
    <3>. QED  BY <2>2, <3>1
  <2> HIDE DEF s
  <2>4. Become(u, s)
    BY <2>1 DEF s
  <2>. QED  BY <2>3, <2>4, Becomes
<1>2. CASE HandOver(u)
  BY <1>2, HandsOverOK, Becomes DEF HandOver, RunsOK
<1>3. CASE HandOverFails(u)
  BY <1>3, HandOverFailsOK, Becomes DEF HandOverFails, RunsOK
<1>4. CASE Waited(u)
  BY <1>4, WaitedOK, Becomes DEF Waited, RunsOK
<1>5. CASE BeginUpdate(u)
  <2>1. PICK t \in Versions : up' = [SweptBy(u) EXCEPT ![u] =
           [@ EXCEPT !.tui = "handing", !.target = t, !.helper = "loading",
              !.request = TRUE,
              !.handoff = IF Npm(up[u]) THEN "starting" ELSE "none"]]
    BY <1>5 DEF BeginUpdate
  <2> DEFINE s == [up[u] EXCEPT !.tui = "handing", !.target = t,
                       !.helper = "loading", !.request = TRUE, !.handoff =
                          IF Npm(up[u]) THEN "starting" ELSE "none"]
  <2>2. RunOK(s) /\ Onward(up[u], s)
    BY <1>5, BeginsOK DEF BeginUpdate, RunsOK
  <2>3. SweptBy(u)[u] = up[u]
    BY DEF SweptBy
  <2>4. up' = [SweptBy(u) EXCEPT ![u] = s]
    BY <2>1, <2>3
  <2> HIDE DEF s
  <2>. QED  BY <2>2, <2>4, Sweeps
<1>6. CASE BeginFails(u)
  <2> DEFINE s == [up[u] EXCEPT !.tui = "exited"]
  <2>1. RunOK(s) /\ Onward(up[u], s)
    BY <1>6, BeginFailsOK DEF BeginFails, RunsOK
  <2>2. SweptBy(u)[u] = up[u]
    BY DEF SweptBy
  <2>3. up' = [SweptBy(u) EXCEPT ![u] = s]
    BY <1>6, <2>2 DEF BeginFails, SweptBy
  <2> HIDE DEF s
  <2>. QED  BY <2>1, <2>3, Sweeps
<1>. QED  BY <1>1, <1>2, <1>3, <1>4, <1>5, <1>6 DEF TuiActs

LEMMA LauncherRuns ==
    ASSUME RunsOK, NEW u \in Updates, LauncherActs(u)
    PROVE  OneRun(u)
<1>1. RunOK(up[u])
  BY DEF RunsOK
<1>2. CASE LauncherFollows(u)
  BY <1>1, <1>2, LauncherEndsOK, Becomes DEF LauncherFollows, LauncherEnds
<1>3. CASE MarkerMissing(u)
  BY <1>1, <1>3, LauncherEndsOK, Becomes DEF MarkerMissing, LauncherEnds
<1>4. CASE LauncherPolls(u)
  BY <1>1, <1>4, LauncherPollsOK, Becomes DEF LauncherPolls
<1>. QED  BY <1>2, <1>3, <1>4 DEF LauncherActs

LEMMA HelperRuns ==
    ASSUME RunsOK, NEW u \in Updates, HelperActs(u) \/ HelperDies(u),
           product \in [Kinds -> Versions]
    PROVE  OneRun(u)
<1>1. RunOK(up[u])
  BY DEF RunsOK
<1>2. CASE HelperLoads(u)
  BY <1>1, <1>2, GoesOK, Becomes DEF HelperLoads, HelperGoes, HelperAt
<1>3. CASE ParentExited(u)
  <2>1. CASE up[u].tui = "exited" /\ HelperGoes(u, "locking")
    BY <1>1, <1>3, <2>1, GoesOK, Becomes DEF ParentExited, HelperGoes, HelperAt
  <2>2. CASE Become(u, HelperEnded(up[u], "failed"))
    <3>1. up[u].helper # "none" /\ up[u].fallback # "running"
          /\ (up[u].kind = "release" => ~Live(up[u]))
      BY <1>1, <1>3 DEF ParentExited, HelperAt, RunOK, Alone
    <3>. QED  BY <1>1, <2>2, <3>1, EndsOK, Becomes
  <2>. QED  BY <1>3, <2>1, <2>2 DEF ParentExited
<1>4. CASE TryLock(u)
  <2>1. CASE lock = None
    <3> DEFINE o == IF Npm(up[u]) THEN 1 ELSE product[up[u].kind]
    <3> DEFINE s == [up[u] EXCEPT
               !.helper = IF Persistent(up[u]) THEN "install" ELSE "start",
               !.original = o]
    <3>1. up[u].helper = "locking" /\ Become(u, s)
      BY <1>4, <2>1 DEF TryLock, HelperAt
    <3>2. up[u].kind \in Kinds
      BY <1>1, <3>1 DEF RunOK, Untouched, Launched
    <3>3. o \in Versions
      <4>1. 1 \in Versions
        BY DEF Versions
      <4>. QED  BY <3>2, <4>1
    <3> HIDE DEF o
    <3>4. RunOK(s) /\ Onward(up[u], s)
      BY <1>1, <3>1, <3>3, LocksOK
    <3> HIDE DEF s
    <3>. QED  BY <3>1, <3>4, Becomes
  <2>2. CASE lock # None
    BY <1>1, <1>4, <2>2, GivesUpOK, Becomes DEF TryLock, HelperAt
  <2>. QED  BY <2>1, <2>2
<1>5. CASE Install(u)
  BY <1>1, <1>5, GoesOK, Becomes DEF Install, HelperGoes, HelperAt, Holding,
       RunOK, Alone
<1>6. CASE InstallFails(u)
  <2>1. /\ up[u].helper = "install"
        /\ \/ HelperGoes(u, "restore") /\ Npm(up[u])
           \/ HelperGoes(u, "failed")
    BY <1>6 DEF InstallFails, HelperAt
  <2>2. Persistent(up[u]) /\ ~(up[u].kind = "release" /\ Live(up[u]))
    BY <1>1, <2>1 DEF RunOK, Launched, Alone
  <2>. QED  BY <1>1, <2>1, <2>2, GoesOK, Becomes DEF HelperGoes, Holding
<1>7. CASE StartChild(u)
  BY <1>1, <1>7, StartsOK, Becomes DEF StartChild, HelperAt
<1>8. CASE StartFails(u)
  BY <1>1, <1>8, GoesOK, Becomes DEF StartFails, HelperGoes, HelperAt,
       Holding, RunOK, Alone, RestoreOrFail
<1>9. CASE ReadHealth(u)
  <2>1. CASE up[u].health = "ok"
    BY <1>1, <1>9, <2>1, ConfirmsOK, Becomes DEF ReadHealth, HelperAt
  <2>2. CASE up[u].health # "ok"
    BY <1>1, <1>9, <2>2, GoesOK, Becomes DEF ReadHealth, HelperGoes, HelperAt,
         Holding
  <2>. QED  BY <2>1, <2>2
<1>10. CASE StillUnhealthy(u)
  BY <1>1, <1>10, GoesOK, Becomes DEF StillUnhealthy, HelperGoes, HelperAt,
       Holding
<1>11. CASE KillChild(u)
  BY <1>1, <1>11, KillsOK, Becomes DEF KillChild, HelperAt
<1>12. CASE Restore(u)
  BY <1>1, <1>12, GoesOK, Becomes DEF Restore, HelperGoes, HelperAt, Holding,
       RunOK, Alone
<1>13. CASE RestoreFails(u)
  BY <1>1, <1>13, TearsOK, Becomes DEF RestoreFails, HelperAt
<1>14. CASE GiveUp(u)
  BY <1>1, <1>14, GivesUpOK, Becomes DEF GiveUp, HelperAt
<1>15. CASE SessionOver(u)
  <2>1. /\ up[u].helper \in {"session", "fallback"}
        /\ up[u].helper = "session" => ChildGone(up[u])
        /\ up[u].helper = "fallback" => up[u].fallback = "gone"
    BY <1>15 DEF SessionOver, HelperAt
  <2>2. up[u].fallback # "running" /\ (up[u].kind = "release" => ~Live(up[u]))
    BY <1>1, <2>1 DEF RunOK, Alone, Launched, Npm, ChildGone, Live
  <2>. QED  BY <1>1, <1>15, <2>1, <2>2, EndsOK, Becomes DEF SessionOver
<1>16. CASE HelperDies(u)
  <2> DEFINE b == up[u].torn \/ lock = u
  <2> DEFINE s == [up[u] EXCEPT !.helper = "dead", !.torn = b]
  <2>1. RunOK(s) /\ Onward(up[u], s)
    BY <1>1, <1>16, DiesOK DEF HelperDies
  <2>2. Become(u, s)
    BY <1>16 DEF HelperDies
  <2> HIDE DEF s
  <2>. QED  BY <2>1, <2>2, Becomes
<1>. QED  BY <1>2, <1>3, <1>4, <1>5, <1>6, <1>7, <1>8, <1>9, <1>10, <1>11,
             <1>12, <1>13, <1>14, <1>15, <1>16 DEF HelperActs

LEMMA ChildRuns ==
    ASSUME RunsOK, NEW u \in Updates,
           \/ ChildActs(u) \/ QuitChild(u) \/ QuitFallback(u) \/ Age(u)
    PROVE  OneRun(u)
<1>1. RunOK(up[u])
  BY DEF RunsOK
<1>2. CASE LauncherStartsChild(u)
  BY <1>1, <1>2, ChildGoesOK, Becomes DEF LauncherStartsChild, ChildGoes, Live
<1>3. CASE ChildLoads(u)
  <2>1. up[u].child = "loading" /\ Live(up[u])
    BY <1>3 DEF ChildLoads, Live
  <2>2. CASE ChildGoes(u, "gone")
    BY <1>1, <2>1, <2>2, ChildGoesOK, Becomes DEF ChildGoes
  <2>3. CASE up[u].request /\ Become(u, [up[u] EXCEPT !.child = "created",
                                                     !.health = "empty"])
    BY <1>1, <2>1, <2>3, SignalsOK, Becomes
  <2>. QED  BY <1>3, <2>2, <2>3 DEF ChildLoads
<1>4. CASE WriteHealth(u)
  <2> DEFINE h == IF up[u].health = "empty" THEN "ok" ELSE up[u].health
  <2> DEFINE s == [up[u] EXCEPT !.child = "signalled", !.health = h]
  <2>1. Become(u, s) /\ Live(up[u])
    BY <1>4 DEF WriteHealth, Live
  <2>2. h \in {"none", "empty", "ok"} /\ (up[u].health = "none" => h = "none")
    BY <1>1 DEF RunOK, Runs
  <2> HIDE DEF h
  <2>3. RunOK(s) /\ Onward(up[u], s)
    BY <1>1, <2>1, <2>2, SignalsOK
  <2> HIDE DEF s
  <2>. QED  BY <2>1, <2>3, Becomes
<1>5. CASE WriteHealthFails(u)
  BY <1>1, <1>5, ChildGoesOK, Becomes DEF WriteHealthFails, ChildGoes, Live
<1>6. CASE SyncCopy(u)
  BY <1>1, <1>6, ChildGoesOK, Becomes DEF SyncCopy, ChildGoes, Live
<1>7. CASE QuitChild(u)
  BY <1>1, <1>7, ChildGoesOK, Becomes DEF QuitChild, ChildGoes, Live
<1>8. CASE QuitFallback(u)
  BY <1>1, <1>8, QuitsOK, Becomes DEF QuitFallback
<1>9. CASE Age(u)
  BY <1>1, <1>9, AgesOK, Becomes DEF Age
<1>. QED  BY <1>2, <1>3, <1>4, <1>5, <1>6, <1>7, <1>8, <1>9 DEF ChildActs

-----------------------------------------------------------------------------
(* What is true of the runs together.  A version is healthy when it proved *)
(* that it runs, or when a helper could not finish what it had begun.      *)
Shapes ==
    /\ product \in [Kinds -> Versions]
    /\ confirmed \in [Kinds -> SUBSET Versions]
    /\ copy \in Versions \cup {None} /\ lock \in Updates \cup {None}
    /\ trouble \in 0..MaxTrouble
Locked == \A u \in Updates : lock = u <=> up[u].helper \in Holding
Proven == \A u \in Updates :
             up[u].tui # "off" => up[u].version \in confirmed[up[u].kind]

Torn(k) == \E u \in Updates : up[u].kind = k /\ up[u].torn
Healthy(k, v) == v \in confirmed[k] \/ Torn(k)
(* What the holder of the lock leaves in its installation at each stage;   *)
(* nothing else touches that.                                              *)
Stage(u) ==
    /\ up[u].helper \in {"install", "failed"} \/ ~Persistent(up[u]) =>
          Healthy(up[u].kind, product[up[u].kind])
    /\ up[u].helper \in {"start", "health", "unhealthy", "kill"}
          /\ Persistent(up[u]) => product[up[u].kind] = up[u].target
    /\ up[u].kind = "release" => Healthy(up[u].kind, up[u].original)
Settled ==
    /\ \A k \in Kinds : \/ Healthy(k, product[k])
                        \/ lock # None /\ up[lock].kind = k
    /\ \A u \in Updates : lock = u => Stage(u)

IInv == Shapes /\ RunsOK /\ Locked /\ Proven /\ Settled

(* What is healthy stays so.                                               *)
Grows == \A k \in Kinds : confirmed[k] \subseteq confirmed'[k]
LEMMA HealthStays ==
    ASSUME RunsOK, NEW u \in Updates, OneRun(u), Grows,
           NEW k \in Kinds, NEW v, Healthy(k, v)
    PROVE  Healthy(k, v)'
<1>1. CASE v \in confirmed[k]
  BY <1>1 DEF Grows, Healthy
<1>2. CASE Torn(k)
  <2>1. PICK w \in Updates : up[w].kind = k /\ up[w].torn
    BY <1>2 DEF Torn
  <2>2. up'[w].kind = k /\ up'[w].torn
    <3>1. CASE w = u
      BY <2>1, <3>1 DEF OneRun, Onward, RunsOK, RunOK, Untouched
    <3>2. CASE w # u
      BY <2>1, <3>2 DEF OneRun, Same, SameHelper
    <3>. QED  BY <3>1, <3>2
  <2>. QED  BY <2>2 DEF Healthy, Torn
<1>. QED  BY <1>1, <1>2 DEF Healthy

(* The versions that the interfaces run proved that they start.            *)
LEMMA ProvenStays ==
    ASSUME RunsOK, Proven, NEW u \in Updates, OneRun(u), Grows,
           up[u].tui = "off" /\ up'[u].tui # "off" =>
              up'[u].version \in confirmed'[up'[u].kind]
    PROVE  Proven'
<1> SUFFICES ASSUME NEW w \in Updates, up'[w].tui # "off"
             PROVE  up'[w].version \in confirmed'[up'[w].kind]
  BY DEF Proven
<1>1. CASE w = u /\ up[u].tui = "off"
  BY <1>1
<1>2. CASE w # u \/ up[u].tui # "off"
  <2>1. up[w].tui # "off" /\ up'[w].kind = up[w].kind
          /\ up'[w].version = up[w].version
    BY <1>2 DEF OneRun, Onward, Same, SameHelper
  <2>2. up[w].kind \in Kinds
    BY <2>1 DEF RunsOK, RunOK, Launched
  <2>. QED  BY <2>1, <2>2 DEF Proven, Grows
<1>. QED  BY <1>1, <1>2

(* A step beside the lock: no helper that holds it moves.                  *)
Beside(u) ==
    /\ product' = product /\ lock' = lock
    /\ up[u].helper \in Holding \/ up'[u].helper \in Holding =>
          SameHelper(up[u], up'[u])
LEMMA StepBeside ==
    ASSUME IInv, NEW u \in Updates, OneRun(u), Grows, Beside(u)
    PROVE  Locked' /\ Settled'
<1>1. \A w \in Updates :
         up[w].helper \in Holding \/ up'[w].helper \in Holding =>
            SameHelper(up[w], up'[w])
  BY DEF Beside, OneRun, Same
<1>2. Locked'
  BY <1>1 DEF IInv, Locked, Beside, SameHelper
<1>3. \A k \in Kinds : \A v : Healthy(k, v) => Healthy(k, v)'
  BY HealthStays DEF IInv
<1>4. ASSUME NEW w \in Updates, lock = w
      PROVE  /\ SameHelper(up[w], up'[w]) /\ up[w].kind \in Kinds
             /\ up'[w].kind = up[w].kind
  <2>1. up[w].helper \in Holding /\ RunOK(up[w])
    BY <1>4 DEF IInv, Locked, RunsOK
  <2>. QED  BY <1>1, <2>1 DEF SameHelper, RunOK, Untouched, Launched, Holding
<1>5. ASSUME NEW w \in Updates, lock' = w
      PROVE  Stage(w)'
  <2>1. lock = w /\ Stage(w)
    BY <1>5 DEF Beside, IInv, Settled
  <2>. QED  BY <1>3, <1>4, <2>1 DEF Stage, SameHelper, Beside, Persistent
<1>6. ASSUME NEW k \in Kinds
      PROVE  Healthy(k, product[k])' \/ (lock' # None /\ up'[lock'].kind = k)
  <2>1. CASE Healthy(k, product[k])
    <3>1. product'[k] = product[k]
      BY DEF Beside
    <3>2. Healthy(k, product[k]) => \A v : v = product[k] => Healthy(k, v)'
      BY <1>3
    <3>. QED  BY <2>1, <3>1, <3>2 DEF Healthy, Torn
  <2>2. CASE lock # None /\ up[lock].kind = k
    BY <1>4, <2>2 DEF Beside, IInv, Shapes
  <2>. QED  BY <2>1, <2>2 DEF IInv, Settled
<1>. QED  BY <1>2, <1>5, <1>6 DEF Settled

(* A step of the helper that holds the lock, or takes it: it leaves a      *)
(* version that its stage allows, or a healthy one when it lets the lock   *)
(* go.                                                                     *)
LEMMA StepOfHolder ==
    ASSUME IInv, NEW u \in Updates, OneRun(u), Grows, lock \in {u, None},
           up'[u].kind = up[u].kind, up[u].kind \in Kinds,
           \A k \in Kinds : k # up[u].kind => product'[k] = product[k],
           \/ lock' = u /\ up'[u].helper \in Holding /\ Stage(u)'
           \/ /\ lock' = None /\ up'[u].helper \notin Holding
              /\ Healthy(up[u].kind, product[up[u].kind])'
    PROVE  Locked' /\ Settled'
<1>1. Locked'
  <2> SUFFICES ASSUME NEW w \in Updates
               PROVE  lock' = w <=> up'[w].helper \in Holding
    BY DEF Locked
  <2>1. CASE w = u
    BY <2>1
  <2>2. CASE w # u
    BY <2>2 DEF OneRun, Same, SameHelper, IInv, Locked
  <2>. QED  BY <2>1, <2>2
<1>2. \A k \in Kinds : \A v : Healthy(k, v) => Healthy(k, v)'
  BY HealthStays DEF IInv
<1>3. ASSUME NEW k \in Kinds
      PROVE  Healthy(k, product[k])' \/ (lock' # None /\ up'[lock'].kind = k)
  <2>1. CASE k = up[u].kind
    <3>1. CASE lock' = u
      BY <2>1, <3>1
    <3>2. CASE lock' = None
      BY <2>1, <3>2 DEF Healthy, Torn
    <3>. QED  BY <3>1, <3>2
  <2>2. CASE k # up[u].kind
    <3>1. Healthy(k, product[k])
      BY <2>2 DEF IInv, Settled
    <3>2. \A v : v = product[k] => Healthy(k, v)'
      BY <1>2, <3>1
    <3>3. product'[k] = product[k]
      BY <2>2
    <3>. QED  BY <3>2, <3>3 DEF Healthy, Torn
  <2>. QED  BY <2>1, <2>2
<1>4. ASSUME NEW w \in Updates, lock' = w
      PROVE  Stage(w)'
  BY <1>4
<1>. QED  BY <1>1, <1>3, <1>4 DEF Settled

-----------------------------------------------------------------------------
Acts(u) ==
    \/ OpenTui(u) \/ TuiActs(u) \/ LauncherActs(u) \/ HelperActs(u)
    \/ HelperDies(u) \/ ChildActs(u) \/ QuitChild(u) \/ QuitFallback(u)
    \/ Age(u)

LEMMA OneRunMoves ==
    ASSUME Shapes, RunsOK, NEW u \in Updates, Acts(u)
    PROVE  OneRun(u)
BY TuiRuns, LauncherRuns, HelperRuns, ChildRuns DEF Acts, Shapes

LEMMA ConfirmedGrows ==
    ASSUME Shapes, RunsOK, NEW u \in Updates, Acts(u)
    PROVE  /\ Grows /\ product' \in [Kinds -> Versions]
           /\ confirmed' \in [Kinds -> SUBSET Versions]
           /\ copy' \in Versions \cup {None} /\ lock' \in Updates \cup {None}
           /\ trouble' \in 0..MaxTrouble
<1> USE DEF Shapes
<1>1. RunOK(up[u]) /\ up[u].target \in Versions /\ up[u].original \in Versions
        /\ up[u].version \in Versions
        /\ (up[u].tui # "off" => up[u].kind \in Kinds)
        /\ (up[u].helper # "none" => up[u].tui # "off")
  BY DEF RunsOK, RunOK, Runs, Launched, Untouched
<1>2. CASE OpenTui(u)
  BY <1>2 DEF OpenTui, Grows
<1>3. CASE TuiActs(u)
  <2>1. UNCHANGED <<product, confirmed, copy, lock>>
    BY <1>3 DEF TuiActs, BeginUpdate, BeginFails, HandOver, HandOverFails,
         Waited
  <2>2. trouble' = trouble \/ (MayFail /\ Fault)
    BY <1>3 DEF TuiActs, BeginUpdate, BeginFails, HandOver, HandOverFails,
         Waited
  <2>. QED  BY <2>1, <2>2 DEF Grows, MayFail, Fault
<1>4. CASE LauncherActs(u)
  BY <1>4 DEF LauncherActs, LauncherFollows, MarkerMissing, LauncherPolls,
       LauncherFrame, Grows
<1>5. CASE HelperActs(u)
  <2>1. CASE HelperLoads(u) \/ ParentExited(u)
    BY <2>1 DEF HelperLoads, ParentExited, Grows, MayFail, Fault, NoFault
  <2>2. CASE TryLock(u) \/ GiveUp(u)
    <3>1. /\ product' = product /\ confirmed' = confirmed /\ copy' = copy
          /\ lock' \in {lock, None, u}
      BY <2>2 DEF TryLock, GiveUp
    <3>2. \A r \in GivesUp(up[u]) : r.fallback = "none" => MayFail
      <4> DEFINE c == CleanedUp(up[u])
      <4>1. DOMAIN c = DOMAIN up[u] /\ "fallback" \in DOMAIN up[u]
        BY <1>1 DEF CleanedUp, RunOK, Runs
      <4> DEFINE b == [c EXCEPT !.helper = "fallback", !.fallback = "running"]
      <4>2. b.fallback = "running"
        BY <4>1
      <4> HIDE DEF b
      <4>. QED  BY <4>2 DEF GivesUp, b
    <3>3. trouble' \in 0..MaxTrouble
      BY <2>2, <3>2 DEF TryLock, GiveUp, MayFail, Fault, NoFault
    <3>. QED  BY <3>1, <3>3 DEF Grows
  <2>3. CASE Install(u) \/ Restore(u)
    BY <1>1, <2>3 DEF Install, Restore, Previous, HelperAt, Grows
  <2>4. CASE InstallFails(u)
    BY <1>1, <2>4 DEF InstallFails, HelperAt, Grows, MayFail, Fault
  <2>5. CASE StartChild(u) \/ StartFails(u) \/ StillUnhealthy(u)
             \/ KillChild(u) \/ RestoreFails(u) \/ SessionOver(u)
    BY <2>5 DEF StartChild, StartFails, StillUnhealthy, KillChild,
         RestoreFails, SessionOver, Grows, MayFail, Fault, NoFault
  <2>6. CASE ReadHealth(u)
    BY <1>1, <2>6 DEF ReadHealth, HelperAt, Grows
  <2>. QED  BY <1>5, <2>1, <2>2, <2>3, <2>4, <2>5, <2>6 DEF HelperActs
<1>6. CASE HelperDies(u)
  BY <1>6 DEF HelperDies, Grows, MayFail, Fault
<1>7. CASE ChildActs(u) \/ QuitChild(u) \/ QuitFallback(u) \/ Age(u)
  BY <1>1, <1>7 DEF ChildActs, LauncherStartsChild, ChildLoads, WriteHealth,
       WriteHealthFails, SyncCopy, QuitChild, QuitFallback, Age, ChildFrame,
       Grows, MayFail, Fault, NoFault
<1>. QED  BY <1>2, <1>3, <1>4, <1>5, <1>6, <1>7 DEF Acts

(* Steps of the interface, the launcher and the new version, and those of  *)
(* a helper before and after its lock.                                     *)
LEMMA OthersMoveBeside ==
    ASSUME IInv, NEW u \in Updates, OneRun(u),
           \/ OpenTui(u) \/ TuiActs(u) \/ LauncherActs(u) \/ ChildActs(u)
           \/ QuitChild(u) \/ QuitFallback(u) \/ Age(u)
    PROVE  Beside(u)
<1>1. RunOK(up[u]) /\ up[u] \in Runs /\ up \in [Updates -> Runs]
  BY DEF IInv, RunsOK, RunOK
<1>2. CASE OpenTui(u)
  <2>1. PICK k \in Kinds : Become(u, [Idle EXCEPT !.tui = "session",
             !.kind = k, !.version = product[k],
             !.launcher = IF k = "release" THEN "none" ELSE "child"])
    BY <1>2 DEF OpenTui
  <2>2. up'[u].helper = "none"
    BY <1>1, <2>1 DEF Become, Idle
  <2>3. up[u].helper = "none" /\ product' = product /\ lock' = lock
    BY <1>1, <1>2 DEF OpenTui, RunOK, Untouched
  <2>. QED  BY <2>2, <2>3 DEF Beside, Holding
<1>3. CASE BeginUpdate(u) \/ BeginFails(u)
  <2>1. /\ up[u].helper = "none" /\ product' = product /\ lock' = lock
    BY <1>1, <1>3 DEF BeginUpdate, BeginFails, RunOK, Untouched
  <2>2. SweptBy(u)[u] = up[u] /\ DOMAIN SweptBy(u) = Updates
    BY DEF SweptBy
  <2>3. up'[u].helper \in {"none", "loading"}
    <3>1. CASE BeginUpdate(u)
      BY <1>1, <2>2, <3>1 DEF BeginUpdate, Runs
    <3>2. CASE BeginFails(u)
      <4>1. up'[u] = [SweptBy(u)[u] EXCEPT !.tui = "exited"]
        BY <2>2, <3>2 DEF BeginFails
      <4>. QED  BY <1>1, <2>1, <2>2, <4>1 DEF Runs
    <3>. QED  BY <1>3, <3>1, <3>2
  <2>. QED  BY <2>1, <2>3 DEF Beside, Holding
<1>4. CASE HandOver(u)
  <2>1. SameHelper(up[u], up'[u])
    BY <1>1, <1>4 DEF HandOver, Become, SameHelper, Runs
  <2>. QED  BY <1>4, <2>1 DEF Beside, HandOver
<1>5. CASE HandOverFails(u)
  <2>1. up[u].helper \notin Holding
    BY <1>1, <1>5 DEF HandOverFails, RunOK, Launched, Holding
  <2>2. up'[u].helper \in {"ended", "dead"}
    BY <1>1, <1>5 DEF HandOverFails, Become, CleanedUp, Runs
  <2>. QED  BY <1>5, <2>1, <2>2 DEF Beside, HandOverFails, Holding
<1>6. CASE Waited(u)
  <2>1. SameHelper(up[u], up'[u])
    BY <1>1, <1>6 DEF Waited, Become, CleanedUp, SameHelper, Runs
  <2>. QED  BY <1>6, <2>1 DEF Beside, Waited
<1>7. CASE LauncherActs(u)
  <2>1. SameHelper(up[u], up'[u])
    <3>1. CASE LauncherFollows(u) \/ MarkerMissing(u)
      BY <1>1, <3>1 DEF LauncherFollows, MarkerMissing, LauncherEnds, Become,
           SameHelper, Runs
    <3>2. CASE LauncherPolls(u)
      BY <1>1, <3>2 DEF LauncherPolls, Become, SameHelper, Runs
    <3>. QED  BY <1>7, <3>1, <3>2 DEF LauncherActs
  <2>. QED  BY <1>7, <2>1 DEF Beside, LauncherActs, LauncherFollows,
              MarkerMissing, LauncherPolls, LauncherFrame
<1>8. CASE ChildActs(u)
  <2>1. SameHelper(up[u], up'[u])
    <3>1. CASE LauncherStartsChild(u)
      BY <1>1, <3>1 DEF LauncherStartsChild, ChildGoes, Become, SameHelper,
           Runs
    <3>2. CASE ChildLoads(u)
      <4>1. CASE ChildGoes(u, "gone")
        BY <1>1, <4>1 DEF ChildGoes, Become, SameHelper, Runs
      <4>2. CASE Become(u, [up[u] EXCEPT !.child = "created",
                                        !.health = "empty"])
        BY <1>1, <4>2 DEF Become, SameHelper, Runs
      <4>. QED  BY <3>2, <4>1, <4>2 DEF ChildLoads
    <3>3. CASE WriteHealth(u)
      BY <1>1, <3>3 DEF WriteHealth, Become, SameHelper, Runs
    <3>4. CASE WriteHealthFails(u)
      BY <1>1, <3>4 DEF WriteHealthFails, ChildGoes, Become, SameHelper, Runs
    <3>5. CASE SyncCopy(u)
      BY <1>1, <3>5 DEF SyncCopy, ChildGoes, Become, SameHelper, Runs
    <3>. QED  BY <1>8, <3>1, <3>2, <3>3, <3>4, <3>5 DEF ChildActs
  <2>. QED  BY <1>8, <2>1 DEF Beside, ChildActs, LauncherStartsChild,
              ChildLoads, WriteHealth, WriteHealthFails, SyncCopy, ChildFrame
<1>9. CASE QuitChild(u) \/ QuitFallback(u) \/ Age(u)
  <2>1. SameHelper(up[u], up'[u])
    BY <1>1, <1>9 DEF QuitChild, QuitFallback, Age, ChildGoes, Become,
         SameHelper, Runs
  <2>. QED  BY <1>9, <2>1 DEF Beside, QuitChild, QuitFallback, Age, ChildFrame
<1>. QED  BY <1>2, <1>3, <1>4, <1>5, <1>6, <1>7, <1>8, <1>9 DEF TuiActs

LEMMA EndedIsOver ==
    ASSUME NEW r \in Runs, NEW v
    PROVE  HelperEnded(r, v).helper = "ended"
BY DEF HelperEnded, Runs

(* A helper before, at and after its lock.                                 *)
LEMMA HelperMoves ==
    ASSUME IInv, NEW u \in Updates, OneRun(u), Grows, Shapes',
           HelperActs(u) \/ HelperDies(u)
    PROVE  Locked' /\ Settled'
<1>1. /\ RunOK(up[u]) /\ up[u] \in Runs /\ up \in [Updates -> Runs]
      /\ u # None /\ u \in Updates
  BY DEF IInv, RunsOK, RunOK
<1>2. \A k \in Kinds : \A v : Healthy(k, v) => Healthy(k, v)'
  BY HealthStays DEF IInv
<1>3. up[u].helper # "none" => up[u].kind \in Kinds /\ up[u].tui # "off"
         /\ up'[u].kind = up[u].kind /\ up'[u].version = up[u].version
  BY <1>1 DEF RunOK, Untouched, Launched, OneRun, Onward
<1>4. lock = u <=> up[u].helper \in Holding
  BY DEF IInv, Locked
<1>5. lock = u => Stage(u)
  BY DEF IInv, Settled
<1>6. ASSUME up[u].helper \notin Holding, up'[u].helper \notin Holding,
             product' = product, lock' = lock
      PROVE  Locked' /\ Settled'
  BY <1>6, StepBeside DEF Beside
<1>7. ASSUME up[u].helper # "none", lock \in {u, None},
             \A k \in Kinds : k # up[u].kind => product'[k] = product[k],
             \/ lock' = u /\ up'[u].helper \in Holding /\ Stage(u)'
             \/ /\ lock' = None /\ up'[u].helper \notin Holding
                /\ Healthy(up[u].kind, product[up[u].kind])'
      PROVE  Locked' /\ Settled'
  BY <1>3, <1>7, StepOfHolder
<1>8. CASE HelperLoads(u)
  <2>1. up[u].helper \notin Holding
    BY <1>8 DEF HelperLoads, HelperAt, Holding
  <2>2. up'[u].helper \in {"parent_exit", "locking", "ended"}
    BY <1>1, <1>8 DEF HelperLoads, HelperGoes, Become, Runs
  <2>. QED  BY <1>6, <1>8, <2>1, <2>2 DEF HelperLoads, Holding
<1>9. CASE ParentExited(u)
  <2>1. up[u].helper \notin Holding
    BY <1>9 DEF ParentExited, HelperAt, Holding
  <2>2. up'[u].helper \in {"locking", "ended"}
    <3>1. CASE HelperGoes(u, "locking")
      BY <1>1, <3>1 DEF HelperGoes, Become, Runs
    <3>2. CASE Become(u, HelperEnded(up[u], "failed"))
      <4>1. up'[u] = HelperEnded(up[u], "failed")
        BY <1>1, <3>2 DEF Become
      <4>. QED  BY <1>1, <4>1, EndedIsOver
    <3>. QED  BY <1>9, <3>1, <3>2 DEF ParentExited
  <2>. QED  BY <1>6, <1>9, <2>1, <2>2 DEF ParentExited, Holding
<1>10. CASE SessionOver(u)
  <2>1. up[u].helper \notin Holding
    BY <1>10 DEF SessionOver, HelperAt, Holding
  <2>2. up'[u].helper = "ended"
    <3>1. PICK v : Become(u, HelperEnded(up[u], v))
      BY <1>10 DEF SessionOver
    <3>2. up'[u] = HelperEnded(up[u], v)
      BY <1>1, <3>1 DEF Become
    <3>. QED  BY <1>1, <3>2, EndedIsOver
  <2>. QED  BY <1>6, <1>10, <2>1, <2>2 DEF SessionOver, Holding
<1>11. CASE TryLock(u)
  <2>1. /\ up[u].helper = "locking" /\ product' = product
        /\ confirmed' = confirmed
    BY <1>11 DEF TryLock, HelperAt
  <2>2. CASE lock = None
    <3>1. /\ lock' = u /\ up'[u].kind = up[u].kind
          /\ up'[u].helper = IF Persistent(up[u]) THEN "install" ELSE "start"
          /\ up'[u].original = IF Npm(up[u]) THEN 1 ELSE product[up[u].kind]
      <4>1. /\ lock' = u
            /\ up'[u] = [up[u] EXCEPT
                  !.helper = IF Persistent(up[u]) THEN "install" ELSE "start",
                  !.original = IF Npm(up[u]) THEN 1
                              ELSE product[up[u].kind]]
        BY <1>1, <1>11, <2>2 DEF TryLock, Become
      <4>. QED  BY <1>1, <4>1 DEF Runs
    <3>2. Healthy(up[u].kind, product[up[u].kind])'
      BY <1>2, <1>3, <2>1, <2>2 DEF IInv, Settled, Healthy, Torn
    <3>3. Stage(u)'
      BY <2>1, <3>1, <3>2 DEF Stage, Persistent, Npm
    <3>. QED  BY <1>7, <2>1, <2>2, <3>1, <3>3 DEF Holding
  <2>3. CASE lock # None
    <3>1. up[u].helper \notin Holding /\ lock' = lock
      BY <1>11, <2>1, <2>3 DEF TryLock, Holding
    <3>2. up'[u].helper \in {"fallback", "ended"}
      <4>1. PICK r \in GivesUp(up[u]) : Become(u, r)
        BY <1>11, <2>3 DEF TryLock
      <4>2. up'[u] = r
        BY <1>1, <4>1 DEF Become
      <4>. QED  BY <1>1, <2>1, <4>1, <4>2, GivesUpOK
    <3>. QED  BY <1>6, <2>1, <3>1, <3>2 DEF Holding
  <2>. QED  BY <2>2, <2>3
<1>12. CASE Install(u)
  <2>1. /\ up[u].helper = "install" /\ lock' = lock
        /\ product' = [product EXCEPT ![up[u].kind] = up[u].target]
    BY <1>12 DEF Install, HelperAt
  <2>2. lock = u /\ Persistent(up[u])
    BY <1>1, <1>4, <2>1 DEF Holding, RunOK, Launched
  <2>3. /\ up'[u].helper = "start" /\ up'[u].kind = up[u].kind
        /\ up'[u].target = up[u].target /\ up'[u].original = up[u].original
    BY <1>1, <1>12 DEF Install, HelperGoes, Become, Runs
  <2>4. /\ \A k \in Kinds : k # up[u].kind => product'[k] = product[k]
        /\ product'[up[u].kind] = up[u].target
    BY <1>3, <2>1 DEF IInv, Shapes
  <2>5. up[u].kind = "release" => Healthy(up[u].kind, up[u].original)'
    BY <1>2, <1>3, <1>5, <2>1, <2>2, <2>3 DEF Stage, Healthy, Torn
  <2>6. Stage(u)'
    BY <2>2, <2>3, <2>4, <2>5 DEF Stage, Persistent, Healthy, Torn
  <2>. QED  BY <1>7, <2>1, <2>2, <2>3, <2>4, <2>6 DEF Holding
<1>13. CASE InstallFails(u)
  <2>1. up[u].helper = "install" /\ lock' = lock
    BY <1>13 DEF InstallFails, HelperAt
  <2>2. lock = u /\ Persistent(up[u])
    BY <1>1, <1>4, <2>1 DEF Holding, RunOK, Launched
  <2>3. \A k \in Kinds : k # up[u].kind => product'[k] = product[k]
    BY <1>3, <1>13, <2>1 DEF InstallFails, IInv, Shapes
  <2>4. CASE Npm(up[u])
    <3>1. up'[u].helper = "restore" /\ up'[u].kind = up[u].kind
      BY <1>1, <1>13, <2>4 DEF InstallFails, HelperGoes, Become, Runs
    <3>2. Stage(u)'
      BY <2>2, <2>4, <3>1 DEF Stage, Persistent, Npm
    <3>. QED  BY <1>7, <2>1, <2>2, <2>3, <3>1, <3>2 DEF Holding
  <2>5. CASE ~Npm(up[u])
    <3>1. /\ up'[u].helper = "failed" /\ up'[u].kind = up[u].kind
          /\ up'[u].original = up[u].original /\ product' = product
      BY <1>1, <1>13, <2>5 DEF InstallFails, HelperGoes, Become, Runs
    <3>2. /\ Healthy(up[u].kind, product[up[u].kind])'
          /\ up[u].kind = "release" => Healthy(up[u].kind, up[u].original)'
      BY ZenonT(40), <1>2, <1>3, <1>5, <2>1, <2>2, <3>1 DEF Stage, Healthy, Torn
    <3>3. Stage(u)'
      BY <3>1, <3>2 DEF Stage, Healthy, Torn
    <3>. QED  BY <1>7, <2>1, <2>2, <2>3, <3>1, <3>3 DEF Holding
  <2>. QED  BY <2>4, <2>5
<1>14. ASSUME up[u].helper \in Holding, lock' = lock, product' = product,
              up'[u].kind = up[u].kind, up'[u].target = up[u].target,
              up'[u].original = up[u].original,
              \/ /\ up[u].helper \in {"start", "health", "unhealthy", "kill"}
                 /\ up'[u].helper \in {"health", "unhealthy", "kill"}
              \/ /\ up[u].helper \in {"start", "health", "unhealthy", "kill"}
                 /\ up'[u].helper = RestoreOrFail(up[u])
              \/ up'[u].helper = "failed"
                 /\ Healthy(up[u].kind, product[up[u].kind])'
       PROVE  Locked' /\ Settled'
  <2>1. lock = u /\ up[u].helper # "none" /\ Stage(u)
    BY <1>4, <1>5, <1>14 DEF Holding
  <2>2. /\ ~Persistent(up[u]) => Healthy(up[u].kind, product[up[u].kind])'
        /\ up[u].kind = "release" => Healthy(up[u].kind, up[u].original)'
    BY <1>2, <1>3, <1>14, <2>1 DEF Stage, Healthy, Torn
  <2>3. Stage(u)' /\ up'[u].helper \in Holding
    BY <1>14, <2>1, <2>2 DEF Stage, Persistent, RestoreOrFail, Holding,
         Healthy, Torn
  <2>. QED  BY <1>7, <1>14, <2>1, <2>3
<1>15. CASE StartChild(u)
  <2>1. /\ up[u].helper = "start" /\ lock' = lock /\ product' = product
        /\ up'[u].helper = "health" /\ up'[u].kind = up[u].kind
        /\ up'[u].target = up[u].target /\ up'[u].original = up[u].original
    BY <1>1, <1>15 DEF StartChild, HelperAt, Become, Runs
  <2>. QED  BY <1>14, <2>1 DEF Holding
<1>16. CASE StartFails(u)
  <2>1. /\ up[u].helper = "start" /\ lock' = lock /\ product' = product
        /\ up'[u].helper = RestoreOrFail(up[u]) /\ up'[u].kind = up[u].kind
        /\ up'[u].target = up[u].target /\ up'[u].original = up[u].original
    BY <1>1, <1>16 DEF StartFails, HelperGoes, HelperAt, Become, Runs
  <2>. QED  BY <1>14, <2>1 DEF Holding
<1>17. CASE ReadHealth(u)
  <2>1. up[u].helper = "health" /\ product' = product
    BY <1>17 DEF ReadHealth, HelperAt
  <2>2. CASE up[u].health = "ok"
    <3>1. lock' = None /\ up'[u].helper = "session"
      <4>1. /\ lock' = None
            /\ up'[u] = [CleanedUp(up[u]) EXCEPT !.helper = "session"]
        BY <1>1, <1>17, <2>2 DEF ReadHealth, Become
      <4>2. "helper" \in DOMAIN CleanedUp(up[u])
        BY <1>1 DEF CleanedUp, Runs
      <4>. QED  BY <4>1, <4>2
    <3>2. lock = u /\ Stage(u)
      BY <1>4, <1>5, <2>1 DEF Holding
    <3>3. up[u].target \in confirmed'[up[u].kind]
      BY <1>3, <1>17, <2>1, <2>2 DEF ReadHealth, IInv, Shapes
    <3>4. Healthy(up[u].kind, product[up[u].kind])'
      <4>1. CASE Persistent(up[u])
        BY <2>1, <3>2, <3>3, <4>1, <1>3 DEF Stage, Healthy
      <4>2. CASE ~Persistent(up[u])
        BY ZenonT(40), <1>2, <1>3, <2>1, <3>2, <4>2 DEF Stage, Healthy, Torn
      <4>. QED  BY <4>1, <4>2
    <3>. QED  BY <1>7, <2>1, <3>1, <3>2, <3>4 DEF Holding
  <2>3. CASE up[u].health # "ok"
    <3>1. /\ up'[u].helper \in {"unhealthy", "kill"}
          /\ up'[u].kind = up[u].kind
          /\ up'[u].target = up[u].target /\ up'[u].original = up[u].original
          /\ lock' = lock
      BY <1>1, <1>17, <2>3 DEF ReadHealth, HelperGoes, Become, Runs
    <3>. QED  BY <1>14, <2>1, <3>1 DEF Holding
  <2>. QED  BY <2>2, <2>3
<1>18. CASE StillUnhealthy(u)
  <2>1. /\ up[u].helper = "unhealthy" /\ lock' = lock /\ product' = product
        /\ up'[u].helper \in {"health", "kill"} /\ up'[u].kind = up[u].kind
        /\ up'[u].target = up[u].target /\ up'[u].original = up[u].original
    BY <1>1, <1>18 DEF StillUnhealthy, HelperGoes, HelperAt, Become, Runs
  <2>. QED  BY <1>14, <2>1 DEF Holding
<1>19. CASE KillChild(u)
  <2>1. /\ up[u].helper = "kill" /\ lock' = lock /\ product' = product
        /\ up'[u].helper = RestoreOrFail(up[u]) /\ up'[u].kind = up[u].kind
        /\ up'[u].target = up[u].target /\ up'[u].original = up[u].original
    BY <1>1, <1>19 DEF KillChild, HelperAt, Become, Runs
  <2>. QED  BY <1>14, <2>1 DEF Holding
<1>20. CASE Restore(u)
  <2>1. /\ up[u].helper = "restore" /\ lock' = lock
        /\ product' = [product EXCEPT ![up[u].kind] = Previous(up[u])]
    BY <1>20 DEF Restore, HelperAt
  <2>2. lock = u /\ Stage(u) /\ up[u].kind \in Kinds /\ up[u].tui # "off"
    BY <1>3, <1>4, <1>5, <2>1 DEF Holding
  <2>3. /\ up'[u].helper = "failed" /\ up'[u].kind = up[u].kind
        /\ up'[u].original = up[u].original
    BY <1>1, <1>20 DEF Restore, HelperGoes, Become, Runs
  <2>4. /\ \A k \in Kinds : k # up[u].kind => product'[k] = product[k]
        /\ product'[up[u].kind] = Previous(up[u])
    BY <2>1, <2>2 DEF IInv, Shapes
  <2>5. up[u].kind = "release" => Healthy(up[u].kind, up[u].original)'
    BY <1>2, <2>2, <2>3 DEF Stage, Healthy, Torn
  <2>6. Healthy(up[u].kind, product[up[u].kind])'
    <3>1. CASE up[u].kind = "release"
      BY <2>3, <2>4, <2>5, <3>1 DEF Previous, Healthy, Torn
    <3>2. CASE up[u].kind # "release"
      <4>1. up[u].version \in confirmed[up[u].kind]
        BY <2>2 DEF IInv, Proven
      <4>. QED  BY <2>2, <2>3, <2>4, <3>2, <4>1 DEF Previous, Healthy, Grows
    <3>. QED  BY <3>1, <3>2
  <2>7. Stage(u)'
    BY <2>3, <2>5, <2>6 DEF Stage, Healthy, Torn
  <2>. QED  BY <1>7, <2>1, <2>2, <2>3, <2>4, <2>7 DEF Holding
<1>21. CASE RestoreFails(u)
  <2>1. /\ up[u].helper = "restore" /\ lock' = lock /\ product' = product
        /\ up'[u].helper = "failed" /\ up'[u].kind = up[u].kind
        /\ up'[u].target = up[u].target /\ up'[u].original = up[u].original
        /\ up'[u].torn
    BY <1>1, <1>21 DEF RestoreFails, HelperAt, Become, Runs
  <2>2. Healthy(up[u].kind, product[up[u].kind])'
    BY <2>1 DEF Healthy, Torn
  <2>. QED  BY <1>14, <2>1, <2>2 DEF Holding
<1>22. CASE GiveUp(u)
  <2>1. up[u].helper = "failed" /\ lock' = None /\ product' = product
    BY <1>22 DEF GiveUp, HelperAt
  <2>2. up'[u].helper \in {"fallback", "ended"}
    <3>1. PICK r \in GivesUp(up[u]) : Become(u, r)
      BY <1>22 DEF GiveUp
    <3>2. up'[u] = r
      BY <1>1, <3>1 DEF Become
    <3>. QED  BY <1>1, <2>1, <3>1, <3>2, GivesUpOK
  <2>3. lock = u /\ Stage(u)
    BY <1>4, <1>5, <2>1 DEF Holding
  <2>4. Healthy(up[u].kind, product[up[u].kind])'
    BY ZenonT(40), <1>2, <1>3, <2>1, <2>3 DEF Stage, Healthy, Torn
  <2>. QED  BY <1>7, <2>1, <2>2, <2>3, <2>4 DEF Holding
<1>23. CASE HelperDies(u)
  <2>1. /\ up[u].helper # "none" /\ product' = product
        /\ lock' = IF lock = u THEN None ELSE lock
    BY <1>23 DEF HelperDies
  <2>2. /\ up'[u].helper = "dead" /\ up'[u].kind = up[u].kind
        /\ lock = u => up'[u].torn
    BY <1>1, <1>23 DEF HelperDies, Become, Runs
  <2>3. CASE lock = u
    <3>1. Healthy(up[u].kind, product[up[u].kind])'
      BY <2>2, <2>3 DEF Healthy, Torn
    <3>. QED  BY <1>7, <2>1, <2>2, <2>3, <3>1 DEF Holding
  <2>4. CASE lock # u
    BY <1>4, <1>6, <2>1, <2>2, <2>4 DEF Holding
  <2>. QED  BY <2>3, <2>4
<1>. QED  BY <1>8, <1>9, <1>10, <1>11, <1>12, <1>13, <1>15, <1>16, <1>17,
             <1>18, <1>19, <1>20, <1>21, <1>22, <1>23 DEF HelperActs

-----------------------------------------------------------------------------
LEMMA TypeOfIInv == IInv => TypeOK
<1> SUFFICES ASSUME IInv
             PROVE  TypeOK
  OBVIOUS
<1>1. ASSUME NEW u \in Updates
      PROVE  HelperAt(u, "session") => ~up[u].request /\ up[u].health = "none"
  BY DEF IInv, RunsOK, RunOK, Alone, HelperAt
<1>. QED  BY <1>1 DEF IInv, Shapes, RunsOK, Locked, TypeOK

LEMMA Begins == Init => IInv
<1> SUFFICES ASSUME Init
             PROVE  IInv
  OBVIOUS
<1>1. 1 \in Versions
  BY DEF Versions
<1>2. Shapes
  BY <1>1 DEF Init, Shapes
<1>3. Idle \in Runs
  BY ZenonT(40), <1>1 DEF Idle, Runs, Holding
<1>4. /\ Idle.tui = "off" /\ Idle.launcher = "none" /\ Idle.helper = "none"
      /\ Idle.child = "none" /\ Idle.fallback = "none" /\ ~Idle.severed
      /\ Idle.handoff = "none" /\ ~Idle.request /\ Idle.health = "none"
      /\ ~Idle.torn /\ Idle.kind = None
  BY DEF Idle
<1>5. RunOK(Idle)
  BY <1>3, <1>4 DEF RunOK, Untouched, Launched, Followed, Alone, Over, Npm,
       Persistent, Live
<1>6. RunsOK /\ \A u \in Updates : up[u] = Idle
  BY <1>3, <1>5 DEF Init, RunsOK
<1>7. Locked /\ Proven
  BY <1>4, <1>6 DEF Init, Locked, Proven, Holding
<1>8. Settled
  BY DEF Init, Settled, Healthy
<1>. QED  BY <1>2, <1>6, <1>7, <1>8 DEF IInv

(* An interface that opens proves that its version starts.                 *)
LEMMA OpensProven ==
    ASSUME Shapes, RunsOK, NEW u \in Updates, Acts(u), up[u].tui = "off"
    PROVE  up'[u].version \in confirmed'[up'[u].kind]
<1>1. /\ up[u].launcher = "none" /\ up[u].helper = "none"
      /\ up[u].child = "none" /\ up[u].fallback = "none"
  BY DEF RunsOK, RunOK, Untouched
<1>2. OpenTui(u)
  <2>1. ~TuiActs(u)
    BY DEF TuiActs, BeginUpdate, BeginFails, HandOver, HandOverFails, Waited
  <2>2. ~LauncherActs(u)
    BY <1>1 DEF LauncherActs, LauncherFollows, MarkerMissing, LauncherPolls
  <2>3. ~HelperActs(u) /\ ~HelperDies(u)
    BY <1>1 DEF HelperActs, HelperLoads, ParentExited, TryLock, Install,
         InstallFails, StartChild, StartFails, ReadHealth, StillUnhealthy,
         KillChild, Restore, RestoreFails, GiveUp, SessionOver, HelperAt,
         HelperDies
  <2>4. ~ChildActs(u) /\ ~QuitChild(u) /\ ~QuitFallback(u) /\ ~Age(u)
    BY <1>1 DEF ChildActs, LauncherStartsChild, ChildLoads, WriteHealth,
         WriteHealthFails, SyncCopy, QuitChild, QuitFallback, Age
  <2>. QED  BY <2>1, <2>2, <2>3, <2>4 DEF Acts
<1>3. PICK k \in Kinds :
         /\ Become(u, [Idle EXCEPT !.tui = "session", !.kind = k,
               !.version = product[k],
               !.launcher = IF k = "release" THEN "none" ELSE "child"])
         /\ confirmed' = [confirmed EXCEPT ![k] = @ \cup {product[k]}]
  BY <1>2 DEF OpenTui
<1>4. up'[u].kind = k /\ up'[u].version = product[k]
  BY <1>3 DEF Become, Idle, RunsOK
<1>. QED  BY <1>3, <1>4 DEF Shapes

LEMMA Keeps == IInv /\ [Next]_vars => IInv'
<1> SUFFICES ASSUME IInv, [Next]_vars
             PROVE  IInv'
  OBVIOUS
<1>1. CASE UNCHANGED vars
  BY <1>1 DEF vars, IInv, Shapes, RunsOK, Locked, Proven, Settled, Stage,
       Healthy, Torn
<1>2. ASSUME NEW u \in Updates, Acts(u)
      PROVE  IInv'
  <2>1. OneRun(u)
    BY <1>2, OneRunMoves DEF IInv
  <2>2. Grows /\ Shapes'
    BY <1>2, ConfirmedGrows DEF IInv, Shapes
  <2>3. Proven'
    <3>1. up[u].tui = "off" /\ up'[u].tui # "off" =>
             up'[u].version \in confirmed'[up'[u].kind]
      BY <1>2, OpensProven DEF IInv
    <3>. QED  BY <2>1, <2>2, <3>1, ProvenStays DEF IInv
  <2>4. Locked' /\ Settled'
    <3>1. CASE HelperActs(u) \/ HelperDies(u)
      BY <2>1, <2>2, <3>1, HelperMoves
    <3>2. CASE ~(HelperActs(u) \/ HelperDies(u))
      BY <1>2, <2>1, <2>2, <3>2, OthersMoveBeside, StepBeside DEF Acts
    <3>. QED  BY <3>1, <3>2
  <2>. QED  BY <2>1, <2>2, <2>3, <2>4 DEF IInv, OneRun
<1>. QED  BY <1>1, <1>2 DEF Next, Acts

LEMMA Invariance == Spec => []IInv
BY Begins, Keeps, PTL DEF Spec

(* Every variable keeps its type, a helper has the lock exactly from its   *)
(* acquisition to the confirmation or the end of the roll-back, and no     *)
(* file of a run outlives its success.                                     *)
THEOREM Typing == Spec => []TypeOK
BY Invariance, TypeOfIInv, PTL

(* replace_release_with_rollback, run_with_npm_rollback: whatever updates  *)
(* fail, run into each other or time out, an installation that no update   *)
(* is at work on holds a version that has proved that it starts, unless a  *)
(* helper crashed or could not restore it.                                 *)
THEOREM HealthyStay == Spec => []OnlyHealthyVersionsStay
<1>1. IInv => OnlyHealthyVersionsStay
  BY TypeOfIInv DEF IInv, Settled, Healthy, Torn, OnlyHealthyVersionsStay
<1>. QED  BY <1>1, Invariance, PTL

(* UpdateStart: the process that the shell waits for does not end before   *)
(* the helper, unless another update swept its marker, and two sessions of *)
(* a release never share the terminal.                                     *)
THEOREM TerminalKept == Spec => []TerminalIsKept
<1>1. IInv => TerminalIsKept
  <2> SUFFICES ASSUME IInv, NEW u \in Updates
               PROVE  /\ Foreground(up[u]) \in {"exited", "ended"}
                         /\ ~up[u].swept => up[u].helper \in {"none", "ended", "dead"}
                      /\ up[u].kind = "release" =>
                           /\ up[u].helper = "ended" =>
                                ~Live(up[u]) /\ up[u].fallback # "running"
                           /\ ~(Live(up[u]) /\ up[u].fallback = "running")
    BY DEF TerminalIsKept
  <2>1. RunOK(up[u])
    BY DEF IInv, RunsOK
  <2>. QED  BY <2>1 DEF RunOK, Runs, Untouched, Launched, Followed, Alone,
              Over, Foreground
<1>. QED  BY <1>1, Invariance, PTL
=============================================================================
