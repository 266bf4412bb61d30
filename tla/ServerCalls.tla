---------------------------- MODULE ServerCalls ----------------------------
(* The calls of one guarded session (server_support.rs): admission through *)
(* the permits of their lane, the output pool of a burst                   *)
(* (context_guard.rs), the background status every answer carries          *)
(* (jobs/background.rs) and the calls that move what the session knows of  *)
(* its jobs: run_background, job_output and job_kill (jobs/mod.rs).        *)
(*                                                                         *)
(* A step is what a call does under one lock, with one reading of the      *)
(* registry, or between two of them.  Tokens are small numbers.            *)
EXTENDS Integers, FiniteSets, FiniteSetsExt

CONSTANTS
    Calls, Jobs, NoJob,
    Lanes,            \* Lanes[k]: the semaphore of the calls of kind k
    Offers,           \* Offers[c]: the kinds of call c
    Capacity,         \* its permits
    TokenBudget,      \* the budget of the pool, which one call may ask for
    HardLimit,        \* BURST_HARD_TOKEN_LIMIT
    StubTokens,       \* STUB_TOKEN_BUDGET
    MaxLines,         \* bound: lines a job prints
    MaxTrouble        \* bound: panics of a worker

Kinds == {"search", "plain", "start", "output", "kill"}
ASSUME CallsAssumption ==
    /\ {TokenBudget, HardLimit, StubTokens, MaxLines, MaxTrouble} \subseteq Nat
    /\ IsFiniteSet(Calls) /\ NoJob \notin Jobs
    /\ StubTokens > 0 /\ StubTokens <= TokenBudget /\ TokenBudget <= HardLimit
    /\ Capacity \in Nat \ {0} /\ DOMAIN Lanes = Kinds
    /\ Offers \in [Calls -> SUBSET Kinds]

VARIABLES
    pool,             \* BurstState
    call,             \* call[c]: where a call is, with all it holds
    tracked,          \* the jobs of BackgroundTracker
    cursor,           \* cursor[j]: the session's place in the log of j
    status, printed,  \* of every job: its record, and the lines of its log
    known,            \* history: jobs this session started or has asked for
    covered,          \* history: covered[j], the lines that rendered pages show
                      \* or name, and those a caller asked to leave out
    trouble

vars == <<pool, call, tracked, cursor, status, printed, known, covered, trouble>>
world == <<status, printed>>
session == <<tracked, cursor, known, covered>>


(* Before it arrives, and again when it is answered, a call holds nothing. *)
NoCall == [stage |-> "waiting", kind |-> "search", job |-> NoJob,
           allowance |-> 0, exhausted |-> FALSE, probing |-> {}, missing |-> {},
           anchor |-> 0, page |-> 0, ended |-> FALSE, withheld |-> FALSE]

At(c, stage) == call[c].stage = stage
Is(c, kind) == call[c].kind = kind
Goes(c, stage) == call' = [call EXCEPT ![c].stage = stage]
Fault == trouble < MaxTrouble /\ trouble' = trouble + 1

(* The worker of a call has its permit; what is left of a search after its *)
(* worker, or of a call that has none, is done without.                    *)
Working == {"listed", "ready", "launched", "asking", "seen", "read", "rendered"}
HoldsPermit(c) == call[c].stage \in Working \cup {"admitted"}
HoldsTicket(c) == call[c].stage \in {"queued", "admitted", "early"}
HoldsClaim(c) == call[c].stage \in Working \cup {"answering"}

(* The tokens that the holders of claims may still answer with, one by one. *)
ClaimedTokens ==
    {t \in Calls \X (1..TokenBudget) : HoldsClaim(t[1]) /\ t[2] <= call[t[1]].allowance}
Free(lane) ==
    Cardinality({c \in Calls : HoldsPermit(c) /\ Lanes[call[c].kind] = lane}) < Capacity
-----------------------------------------------------------------------------
(* A call of an idle pool whose last completion is a second ago starts the *)
(* next burst.                                                             *)
Arrived == LET fresh == pool.active = 0 /\ pool.quiet
           IN  [pool EXCEPT !.spent = IF fresh THEN 0 ELSE @,
                            !.reserved = IF fresh THEN 0 ELSE @,
                            !.active = @ + 1, !.unclaimed = @ + 1]

Arrive(c, kind, j) ==
    /\ At(c, "waiting") /\ kind \in Offers[c]
    /\ (j = NoJob) = (kind \in {"search", "plain"})
    /\ (j # NoJob) => ((kind = "start") = (status[j] = "none"))
    /\ kind = "start" => \A d \in Calls : call[d].job # j
    /\ pool' = Arrived
    /\ call' = [call EXCEPT ![c] = [NoCall EXCEPT !.stage = "queued", !.kind = kind,
                                          !.job = j]]
    /\ UNCHANGED <<session, world, trouble>>

(* BURST_GAP has passed since the last completion: seen by an idle pool.   *)
Quiet == /\ ~pool.quiet /\ pool.active = 0 /\ pool' = [pool EXCEPT !.quiet = TRUE]
         /\ UNCHANGED <<call, session, world, trouble>>

Admit(c) ==
    /\ At(c, "queued") /\ Free(Lanes[call[c].kind])
    /\ Goes(c, "admitted") /\ UNCHANGED <<pool, session, world, trouble>>

(* A cancelled search is answered early, at the permit or just after it.   *)
(* A request may be cancelled at any time, so whoever looks may see it.    *)
AnswerEarly(c) ==
    /\ call[c].stage \in {"queued", "admitted"} /\ Is(c, "search")
    /\ Goes(c, "early") /\ UNCHANGED <<pool, session, world, trouble>>

(* Mutant: only the normal pool is looked at.                              *)
Allowance_SoftOnly ==
    LET used == pool.spent + pool.reserved
        remaining == Max({TokenBudget - used, 0})
    IN  Min({TokenBudget, Max({remaining \div pool.unclaimed, StubTokens})})
Allowance ==
    LET used == pool.spent + pool.reserved
        remaining == Max({TokenBudget - used, 0})
        hard == Max({HardLimit - used, 0})
    IN  Min({TokenBudget, Max({remaining \div pool.unclaimed, StubTokens}), hard})
Exhausted == {TokenBudget, HardLimit} \cap
             0..(pool.spent + pool.reserved + StubTokens - 1) # {}

Claimed == [pool EXCEPT !.unclaimed = @ - 1, !.reserved = @ + Allowance]
WithClaim(c, stage) ==
    [call[c] EXCEPT !.stage = stage, !.allowance = Allowance, !.exhausted = Exhausted]
-----------------------------------------------------------------------------
(* The worker claims its share and lists the jobs it is to report.         *)
Claim(c) ==
    /\ At(c, "admitted")
    /\ pool' = Claimed
    /\ call' = [call EXCEPT ![c] = [WithClaim(c, "listed") EXCEPT
                                      !.probing = tracked \ {call[c].job}]]
    /\ UNCHANGED <<session, world, trouble>>

(* Mutant: a record that cannot be read is taken for one that is gone.     *)
Probe_UnreadableIsGone(c, j) ==
    /\ At(c, "listed") /\ j \in call[c].probing
    /\ \/ /\ status[j] \in {"running", "ended"} /\ tracked' = tracked \cup {j}
          /\ call' = [call EXCEPT ![c].probing = @ \ {j}]
       \/ /\ UNCHANGED tracked
          /\ call' = [call EXCEPT ![c].probing = @ \ {j}, ![c].missing = @ \cup {j}]
    /\ UNCHANGED <<pool, cursor, known, covered, world, trouble>>

(* One record is read and the entry written back, whoever removed it; a    *)
(* record that cannot be read changes nothing.                             *)
Probe(c, j) ==
    /\ At(c, "listed") /\ j \in call[c].probing
    /\ \/ /\ status[j] \in {"running", "ended"} /\ tracked' = tracked \cup {j}
          /\ call' = [call EXCEPT ![c].probing = @ \ {j}]
       \/ /\ status[j] = "gone" /\ UNCHANGED tracked
          /\ call' = [call EXCEPT ![c].probing = @ \ {j}, ![c].missing = @ \cup {j}]
       \/ /\ call' = [call EXCEPT ![c].probing = @ \ {j}] /\ UNCHANGED tracked
    /\ UNCHANGED <<pool, cursor, known, covered, world, trouble>>

Forget(c) ==
    /\ At(c, "listed") /\ call[c].probing = {}
    /\ tracked' = tracked \ call[c].missing
    /\ call' = [call EXCEPT ![c].stage = "ready", ![c].missing = {}]
    /\ UNCHANGED <<pool, cursor, known, covered, world, trouble>>

(* What is left of a call once its answer is there: the answer fits the    *)
(* allowance, or is withheld for a stub that does because it exceeds it    *)
(* (images are counted apart) or because it says that nothing fitted in    *)
(* an exhausted pool.                                                      *)
Rendered(c, answer) ==
    [NoCall EXCEPT !.stage = IF Is(c, "search") THEN "answering" ELSE "rendered",
                   !.kind = call[c].kind, !.allowance = call[c].allowance,
                   !.withheld = \/ answer = "over"
                                \/ answer = "starved" /\ call[c].exhausted]
Answers(c, answer) == call' = [call EXCEPT ![c] = Rendered(c, answer)]

Work(c) ==
    /\ At(c, "ready") /\ call[c].kind \in {"search", "plain"}
    /\ \E answer \in {"fits", "starved"} \cup (IF Is(c, "plain") THEN {"over"} ELSE {}) :
          Answers(c, answer)
    /\ UNCHANGED <<pool, session, world, trouble>>

(* run_background makes sure that its answer fits before it launches, and  *)
(* the session learns of the job after that.                               *)
Launch(c) ==
    LET j == call[c].job IN
    /\ At(c, "ready") /\ Is(c, "start")
    /\ \/ status' = [status EXCEPT ![j] = "running"] /\ Goes(c, "launched")
       \/ Answers(c, "starved") /\ UNCHANGED status
    /\ UNCHANGED <<pool, session, printed, trouble>>
Track(c) ==
    /\ At(c, "launched") /\ tracked' = tracked \cup {call[c].job}
    /\ known' = known \cup {call[c].job} /\ Answers(c, "fits")
    /\ UNCHANGED <<pool, cursor, covered, world, trouble>>
-----------------------------------------------------------------------------
(* job_output anchors at the session's cursor, or where the caller says.   *)
Anchor(c) ==
    LET j == call[c].job IN
    /\ At(c, "ready") /\ Is(c, "output")
    /\ \/ call' = [call EXCEPT ![c].stage = "asking", ![c].anchor = cursor[j]]
          /\ UNCHANGED covered
       \/ \E after \in 0..MaxLines :
             /\ call' = [call EXCEPT ![c].stage = "asking", ![c].anchor = after]
             /\ covered' = [covered EXCEPT ![j] = @ \cup 1..after]
    /\ UNCHANGED <<pool, tracked, cursor, known, world, trouble>>

(* It asks for the record until the job has ended, the wait is over, the   *)
(* request is cancelled or a record cannot be read.                        *)
Ask(c) ==
    LET j == call[c].job IN
    /\ At(c, "asking")
    /\ \/ /\ status[j] \in {"running", "ended"}
          /\ tracked' = tracked \cup {j} /\ known' = known \cup {j}
          /\ \E over \in {TRUE, status[j] = "ended"} :
                call' = [call EXCEPT ![c].stage = IF over THEN "seen" ELSE "asking",
                                     ![c].ended = status[j] = "ended"]
          /\ UNCHANGED trouble
       \/ /\ status[j] = "gone" /\ tracked' = tracked \ {j}
          /\ Answers(c, "fits") /\ UNCHANGED <<known, trouble>>
       \/ /\ Answers(c, "fits") /\ UNCHANGED <<tracked, known>>
          /\ UNCHANGED trouble
    /\ UNCHANGED <<pool, cursor, covered, world>>

(* The log is read after the record.  The page shows or names every line   *)
(* after the anchor.                                                       *)
ReadLog(c) ==
    LET j == call[c].job IN
    /\ At(c, "seen")
    /\ \/ /\ status[j] # "gone"
          /\ call' = [call EXCEPT ![c].stage = "read", ![c].page = printed[j]]
       \/ Answers(c, "starved")
    /\ UNCHANGED <<pool, session, world, trouble>>

(* Mutant: the cursor moves to the end of the log as it is by now.         *)
MoveCursor_ToTheEnd(c) ==
    LET j == call[c].job
        page == call[c].page IN
    /\ At(c, "read")
    /\ IF page > call[c].anchor
       THEN /\ cursor' = [cursor EXCEPT ![j] = printed[j]]
            /\ covered' = [covered EXCEPT ![j] = @ \cup (call[c].anchor + 1)..page]
       ELSE UNCHANGED <<cursor, covered>>
    /\ tracked' = IF call[c].ended THEN tracked \ {j} ELSE tracked
    /\ Answers(c, "fits") /\ UNCHANGED <<pool, known, world, trouble>>

(* Mutant: the last answer to finish sets the cursor.                      *)
MoveCursor_LastWins(c) ==
    LET j == call[c].job
        page == call[c].page IN
    /\ At(c, "read")
    /\ IF page > call[c].anchor
       THEN /\ cursor' = [cursor EXCEPT ![j] = page]
            /\ covered' = [covered EXCEPT ![j] = @ \cup (call[c].anchor + 1)..page]
       ELSE UNCHANGED <<cursor, covered>>
    /\ tracked' = IF call[c].ended THEN tracked \ {j} ELSE tracked
    /\ Answers(c, "fits") /\ UNCHANGED <<pool, known, world, trouble>>

MoveCursor(c) ==
    LET j == call[c].job
        page == call[c].page IN
    /\ At(c, "read")
    /\ IF page > call[c].anchor
       THEN /\ cursor' = [cursor EXCEPT ![j] = Max({@, page})]
            /\ covered' = [covered EXCEPT ![j] = @ \cup (call[c].anchor + 1)..page]
       ELSE UNCHANGED <<cursor, covered>>
    /\ tracked' = IF call[c].ended THEN tracked \ {j} ELSE tracked
    /\ Answers(c, "fits") /\ UNCHANGED <<pool, known, world, trouble>>

(* job_kill sees its job ended, or gone, or gives up after six seconds.    *)
Kill(c) ==
    LET j == call[c].job IN
    /\ At(c, "ready") /\ Is(c, "kill")
    /\ tracked' = IF status[j] \in {"ended", "gone"} THEN tracked \ {j} ELSE tracked
    /\ Answers(c, "fits")
    /\ UNCHANGED <<pool, cursor, known, covered, world, trouble>>
-----------------------------------------------------------------------------
(* A panic drops the claim; the request claims again for its error.        *)
Panic(c) ==
    /\ call[c].stage \in Working /\ Fault
    /\ pool' = [pool EXCEPT !.reserved = Max({@ - call[c].allowance, 0}),
                            !.active = @ - 1, !.quiet = FALSE]
    /\ call' = [call EXCEPT ![c] = [NoCall EXCEPT !.stage = "failed", !.kind = call[c].kind]]
    /\ UNCHANGED <<session, world>>
Retake(c) ==
    /\ At(c, "failed") /\ pool' = Arrived
    /\ call' = [call EXCEPT ![c].stage = "early"]
    /\ UNCHANGED <<session, world, trouble>>
ClaimEarly(c) ==
    /\ At(c, "early") /\ pool' = Claimed
    /\ call' = [call EXCEPT ![c] = WithClaim(c, "answering")]
    /\ UNCHANGED <<session, world, trouble>>

Deliver(c) ==
    /\ call[c].stage \in {"rendered", "answering"}
    /\ \E tokens \in IF call[c].withheld THEN {Min({StubTokens, call[c].allowance})}
                                        ELSE 0..call[c].allowance :
          pool' = [pool EXCEPT !.reserved = Max({@ - call[c].allowance, 0}),
                               !.spent = @ + tokens, !.active = @ - 1, !.quiet = FALSE]
    /\ call' = [call EXCEPT ![c] = [NoCall EXCEPT !.stage = "answered"]]
    /\ UNCHANGED <<session, world, trouble>>

(* External: the jobs themselves, and the reaper of the registry.          *)
AddLine(j) ==
    /\ status[j] = "running" /\ printed[j] < MaxLines
    /\ printed' = [printed EXCEPT ![j] = @ + 1]
    /\ UNCHANGED <<pool, call, session, status, trouble>>
End(j) ==
    /\ status[j] = "running" /\ status' = [status EXCEPT ![j] = "ended"]
    /\ UNCHANGED <<pool, call, session, printed, trouble>>
Evict(j) ==
    /\ status[j] = "ended" /\ status' = [status EXCEPT ![j] = "gone"]
    /\ UNCHANGED <<pool, call, session, printed, trouble>>
-----------------------------------------------------------------------------
Init ==
    /\ pool = [active |-> 0, unclaimed |-> 0, spent |-> 0,
               reserved |-> 0, quiet |-> TRUE]
    /\ call = [c \in Calls |-> NoCall] /\ tracked = {} /\ known = {}
    /\ cursor = [j \in Jobs |-> 0] /\ printed = [j \in Jobs |-> 0]
    /\ covered = [j \in Jobs |-> {}]
    /\ status \in [Jobs -> {"none", "running"}] /\ trouble = 0

Step(c) ==
    \/ Admit(c) \/ AnswerEarly(c) \/ Claim(c) \/ (\E j \in Jobs : Probe(c, j)) \/ Forget(c)
    \/ Work(c) \/ Launch(c) \/ Track(c) \/ Anchor(c) \/ Ask(c) \/ ReadLog(c)
    \/ MoveCursor(c) \/ Kill(c) \/ Retake(c) \/ ClaimEarly(c) \/ Deliver(c)

Finished == (\A c \in Calls : call[c].stage \in {"waiting", "answered"}) /\ UNCHANGED vars

Next ==
    \/ \E c \in Calls :
          \/ \E kind \in Kinds, j \in Jobs \cup {NoJob} : Arrive(c, kind, j)
          \/ Step(c) \/ Panic(c)
    \/ \E j \in Jobs : AddLine(j) \/ End(j) \/ Evict(j)
    \/ Quiet \/ Finished

Spec == Init /\ [][Next]_vars
-----------------------------------------------------------------------------
TypeOK ==
    /\ pool \in [quiet : BOOLEAN,
                 active : 0..Cardinality(Calls), unclaimed : 0..Cardinality(Calls),
                 spent : 0..HardLimit, reserved : 0..HardLimit]
    /\ tracked \subseteq Jobs /\ known \subseteq Jobs /\ trouble \in 0..MaxTrouble
    /\ status \in [Jobs -> {"none", "running", "ended", "gone"}]
    /\ printed \in [Jobs -> 0..MaxLines] /\ cursor \in [Jobs -> 0..MaxLines]
    /\ covered \in [Jobs -> SUBSET (1..MaxLines)]
    /\ \A c \in Calls :
          /\ call[c].stage \in Working \cup {"waiting", "queued", "admitted", "early",
                                            "answering", "failed", "answered"}
          /\ call[c].kind \in Kinds /\ call[c].job \in Jobs \cup {NoJob}
          /\ call[c].allowance \in 0..TokenBudget

(* However the calls of a burst overlap, cancel or panic, what the session *)
(* answered in it and what its formatters may still answer stay inside the *)
(* host's compaction buffer, and the pool's books are those of the calls   *)
(* that are there (context_guard.rs).                                      *)
BurstStaysInside ==
    /\ TypeOK
    /\ pool.spent + pool.reserved <= HardLimit
    /\ pool.reserved = Cardinality(ClaimedTokens)
    /\ pool.unclaimed = Cardinality({c \in Calls : HoldsTicket(c)})
    /\ pool.active = Cardinality({c \in Calls : HoldsTicket(c) \/ HoldsClaim(c)})

(* A job this session started or asked for is named by every background    *)
(* status as long as it runs, whatever snapshots and removals overlap      *)
(* (jobs/background.rs).                                                   *)
RunningJobsStayListed == \A j \in known : status[j] = "running" => j \in tracked

(* The session's cursor is past a line only when some page that was        *)
(* rendered shows or names it, or a caller said to go on behind it; and a  *)
(* page that says the job has ended reaches the end of its log             *)
(* (jobs/mod.rs).  Whether the answer with the page arrives is another     *)
(* matter: the worker may panic once the cursor has moved.                 *)
NothingIsPassedOver ==
    /\ \A j \in Jobs : 1..cursor[j] \subseteq covered[j]
    /\ \A c \in Calls : At(c, "read") /\ call[c].ended => call[c].page = printed[call[c].job]

(* Answers that finish in another order than they read never move the      *)
(* cursor back.                                                            *)
CursorNeverGoesBack == [][\A j \in Jobs : cursor'[j] >= cursor[j]]_vars

(* Both together: the cursor follows the pages, forward and to no line     *)
(* that no page accounts for.  Lines may be shown twice, by two calls that *)
(* anchor at one place or by a caller that goes back.                      *)
CursorFollowsPages == []NothingIsPassedOver /\ CursorNeverGoesBack
=============================================================================
