------------------------------ MODULE PdfEngine ------------------------------
(* The engine that reads PDFs (read_tool/pdf_engine.rs): how servers put   *)
(* the library they carry beside each other's in a cache and load it, and  *)
(* how the calls of one server share it.  Both are given as the states     *)
(* that may follow a state.                                                *)
EXTENDS Naturals, FiniteSets

(* Servers release the library to the cache, or else to a temporary        *)
(* directory.  A place may be taken by something that is no directory, its *)
(* lock by something that is no file; what is at the library's path is     *)
(* nothing, part of a library, a whole one, or no regular file.            *)
Places == {"cache", "temporary"}
Trouble == 1
Fresh(found, odd, servers) ==
    [file |-> found, odd |-> odd, trouble |-> 0,
     holder |-> [place \in Places |-> "nobody"],
     server |-> [s \in servers |-> [step |-> "prepare", place |-> "cache", unseen |-> FALSE]]]
FileHashMatches(state, place) == state.file[place] = "whole"

At(state, s, step) == [state EXCEPT !.server[s].step = step]
Unlocked(state, s) ==
    [state EXCEPT !.holder = [place \in Places |-> IF @[place] = s THEN "nobody" ELSE @[place]]]
GivesUp(state, s) ==
    IF state.server[s].place = "cache"
    THEN [At(Unlocked(state, s), s, "prepare") EXCEPT !.server[s].place = "temporary"]
    ELSE At(Unlocked(state, s), s, "failed")
Put(state, place, content) == [state EXCEPT !.file[place] = content]
Troubled(state) == [state EXCEPT !.trouble = @ + 1]

SecondLook_Trusting(state, s) == {At(state, s, "remove")}
SecondLook(state, s) ==
    {IF FileHashMatches(state, state.server[s].place) THEN At(Unlocked(state, s), s, "look again") ELSE At(state, s, "remove")}
EnsureLibraryIn(state, s) ==
    LET place == state.server[s].place
        step == state.server[s].step
    IN  CASE step = "prepare" ->
                {IF place \in state.odd.directories THEN GivesUp(state, s) ELSE At(state, s, "look")}
          [] step = "look" ->
                {At(state, s, IF FileHashMatches(state, place) THEN "look again" ELSE "lock")}
          [] step = "lock" ->
                CASE place \in state.odd.locks -> {GivesUp(state, s)}
                  [] state.holder[place] # "nobody" -> {}
                  [] OTHER -> {[At(state, s, "second look") EXCEPT !.holder[place] = s]}
          [] step = "second look" -> SecondLook(state, s)
          [] step = "remove" -> {Put(At(state, s, "write"), place, "nothing")}
          [] step = "write" ->
                {At(state, s, "rename")}
                    \cup IF state.trouble < Trouble THEN {GivesUp(Troubled(state), s)} ELSE {}
          [] step = "rename" -> {Put(At(state, s, "verify"), place, "whole")}
          [] step = "verify" ->
                {IF FileHashMatches(state, place) THEN At(Unlocked(state, s), s, "look again") ELSE GivesUp(state, s)}
          [] OTHER -> {}
(* The file that was released is looked at once more, and bound.           *)
InitializePdfium(state, s) ==
    LET place == state.server[s].place
    IN  CASE state.server[s].step = "look again" ->
                {At(state, s, IF FileHashMatches(state, place) THEN "bind" ELSE "failed")}
          [] state.server[s].step = "bind" ->
                {At(state, s, IF FileHashMatches(state, place) THEN "loaded" ELSE "loaded something else")}
          [] OTHER -> {}
(* A server may die, and the cache be cleaned, at any moment.              *)
Dies(state, s) ==
    IF state.server[s].step \in {"loaded", "loaded something else", "failed", "dead"} THEN {}
    ELSE {Troubled(At(Unlocked(state, s), s, "dead"))}
Cleaned(state, place) ==
    {[Troubled(Put(state, place, content)) EXCEPT !.server =
        [s \in DOMAIN @ |-> [@[s] EXCEPT !.unseen = state.server[s].step = "bind" /\ state.server[s].place = place]]] :
        content \in {"nothing", "part"}}
ReleaseSteps(state) ==
    UNION {EnsureLibraryIn(state, s) \cup InitializePdfium(state, s) : s \in DOMAIN state.server}
    \cup IF state.trouble = Trouble THEN {}
         ELSE UNION {Dies(state, s) : s \in DOMAIN state.server} \cup UNION {Cleaned(state, place) : place \in Places}
-----------------------------------------------------------------------------
(* The calls of a server: each has a thread of its own do its work, and    *)
(* waits for it no longer than a time.  A thread works on its document     *)
(* under a lock, as the library keeps global state, and may work forever;  *)
(* after a panic or a timeout no further work is begun (late: the lock was  *)
(* taken after that).                                                      *)
Calls(calls) ==
    [degraded |-> FALSE, poisoned |-> FALSE, initialized |-> FALSE, holder |-> "nobody",
     call |-> [c \in calls |-> [caller |-> "new", thread |-> "none", outcome |-> "none", late |-> FALSE]]]
Degrade(state) == [state EXCEPT !.degraded = TRUE]
Answered(state, c, answer) == [state EXCEPT !.call[c].caller = answer]
Thread(state, c, thread) == [state EXCEPT !.call[c].thread = thread]
Ends(state, c, outcome) ==
    [Thread(state, c, "ended") EXCEPT !.call[c].outcome = outcome,
                                      !.holder = IF @ = c THEN "nobody" ELSE @,
                                      !.poisoned = @ \/ (outcome = "panic" /\ state.holder = c)]

Run(state, c) ==
    CASE state.call[c].caller = "new" ->
            IF state.degraded THEN {Answered(state, c, "unavailable")}
            ELSE {Answered(state, c, "unavailable"), Thread(Answered(state, c, "waiting"), c, "start")}
      [] state.call[c].caller # "waiting" -> {}
      [] state.call[c].outcome = "none" -> {Degrade(Answered(state, c, "timed out"))}
      [] state.call[c].outcome = "panic" -> {Degrade(Answered(state, c, "unavailable"))}
      [] OTHER -> {Answered(state, c, state.call[c].outcome)}
BehindTheLock_Trusting(state, c) == Thread(state, c, "initialize")
BehindTheLock(state, c) ==
    IF state.degraded THEN Ends(state, c, "unavailable") ELSE Thread(state, c, "initialize")
PdfiumSession(state, c) ==
    CASE state.call[c].thread = "start" ->
            {IF state.degraded THEN Ends(state, c, "unavailable") ELSE Thread(state, c, "queued")}
      [] state.call[c].thread = "queued" /\ state.holder = "nobody" ->
            {IF state.poisoned THEN Ends(state, c, "unavailable")
             ELSE [Thread(state, c, "locked") EXCEPT !.holder = c, !.call[c].late = state.degraded]}
      [] state.call[c].thread = "locked" -> {BehindTheLock(state, c)}
      [] OTHER -> {}
Pdfium(state, c) ==
    IF state.call[c].thread # "initialize" THEN {}
    ELSE {[Thread(state, c, "working") EXCEPT !.initialized = TRUE]}
            \cup (IF state.initialized THEN {} ELSE {Ends(state, c, "unavailable")})
Work(state, c) ==
    IF state.call[c].thread # "working" THEN {}
    ELSE {Ends(state, c, outcome) : outcome \in {"document", "panic"}}
CallSteps(state) ==
    UNION {Run(state, c) \cup PdfiumSession(state, c) \cup Pdfium(state, c) \cup Work(state, c) :
              c \in DOMAIN state.call}
=============================================================================
