---------------------------- MODULE AnswerBudget ----------------------------
(* How one answer shares its token budget with the line about background   *)
(* jobs and with the burst it belongs to (budget.rs, background_status.rs, *)
(* server_support.rs).                                                     *)
(*                                                                         *)
(* A call is [tool, settings, jobs, allowance, exhausted, need, size,      *)
(* note, image, cancelled]: need is the least its answer takes, size what  *)
(* all of it would take, note what a command adds that the check before it *)
(* did not count.  A text is as many tokens as it is long here.            *)
EXTENDS Integers, Sequences, SequencesExt, FiniteSetsExt

Unset == -2
Rejected == -1
Unguarded == 99
DefaultBudget == 9
RunNotes == 3
ImageTokens == 4

Smaller(a, b) == IF a < b THEN a ELSE b
Larger(a, b) == IF a > b THEN a ELSE b
-----------------------------------------------------------------------------
(* The budget a tool was given: its own setting may not exceed the global. *)
Parsed(value) == IF value > 0 THEN value ELSE Rejected

ConfiguredGlobal(settings) ==
    IF settings.global = Unset THEN DefaultBudget ELSE Parsed(settings.global)

Variable(tool) == IF tool \in {"start", "replace"} THEN "global" ELSE "tool"

ConfiguredBudget(settings, variable) ==
    LET global == ConfiguredGlobal(settings)
        own == Parsed(settings.tool)
    IN  CASE variable = "global" \/ global = Rejected \/ settings.tool = Unset -> global
          [] OTHER -> IF own <= global THEN own ELSE Rejected

ApplyCeiling(ceiling, budget) == Smaller(ceiling, budget)

(* A budget to word an error in, whatever the settings say.                *)
ErrorBudgetHint(settings, variable, ceiling) ==
    LET global == ConfiguredGlobal(settings)
        own == ConfiguredBudget(settings, variable)
    IN  ApplyCeiling(ceiling, CASE global = Rejected -> DefaultBudget
                                [] global # Rejected /\ own = Rejected -> global
                                [] OTHER -> own)
-----------------------------------------------------------------------------
(* The line about background jobs, and what is set aside for it.           *)
FullLine(jobs) == 1 + 2 * jobs
SummaryLine == 2
Separator == 1

NoReservation == [variable |-> "none", budget |-> 0, full |-> 0, summary |-> 0, level |-> "none"]

Install(call, ceiling) ==
    LET variable == Variable(call.tool)
        configured == ConfiguredBudget(call.settings, variable)
        budget == ApplyCeiling(ceiling, configured)
        full == FullLine(call.jobs) + Separator
        summary == SummaryLine + Separator
    IN  IF call.jobs = 0 \/ configured = Rejected THEN NoReservation
        ELSE [variable |-> variable, budget |-> budget, full |-> full, summary |-> summary,
              level |-> CASE full < budget -> "full"
                          [] full >= budget /\ summary < budget -> "summary"
                          [] OTHER -> "none"]

Reserved(reservation) ==
    CASE reservation.level = "full" -> reservation.full
      [] reservation.level = "summary" -> reservation.summary
      [] OTHER -> 0

(* From the full line to the summary, and from that to none.               *)
Downgrade_DropsTheLine(reservation) == [reservation EXCEPT !.level = "none"]
Downgrade(reservation) ==
    [reservation EXCEPT !.level =
        IF @ = "full" /\ reservation.summary < reservation.budget THEN "summary" ELSE "none"]

(* What is left for a tool to fill.                                        *)
ToolBudget(call, ceiling, reservation) ==
    LET variable == Variable(call.tool)
        configured == ConfiguredBudget(call.settings, variable)
    IN  CASE configured = Rejected -> Rejected
          [] configured # Rejected /\ reservation.variable = variable ->
               Larger(0, reservation.budget - Reserved(reservation))
          [] OTHER -> ApplyCeiling(ceiling, configured)

Tiers(reservation) ==
    <<reservation, Downgrade(reservation), Downgrade(Downgrade(reservation))>>

(* The first of the tiers that will do, or the last there is.              *)
FirstOf(tiers, good) == IF good = {} THEN tiers[3] ELSE tiers[Min(good)]

(* The first tier with room for what is required.                          *)
BudgetForRequired(call, ceiling, reservation, required) ==
    LET tiers == Tiers(reservation)
    IN  FirstOf(tiers, {i \in 1..3 : ToolBudget(call, ceiling, tiers[i]) >= required})
-----------------------------------------------------------------------------
(* Answers.  "starved" is an error a formatter may be run again after;     *)
(* "small" is one a burst recognises as lack of room.                      *)
TextOf(tokens, images) ==
    [error |-> FALSE, tokens |-> tokens, images |-> images, starved |-> FALSE, small |-> FALSE,
     line |-> "none", stub |-> FALSE]
ErrorOf(tokens, starved, small) ==
    [error |-> TRUE, tokens |-> tokens, images |-> 0, starved |-> starved, small |-> small,
     line |-> "none", stub |-> FALSE]

StarvedMessage == 5
ConfigMessage == 6

(* The first wording of an error that fits its budget.                     *)
Fallbacks(class) ==
    CASE class = "budget" -> <<4, 3, 1>>
      [] class = "cancelled" -> <<2, 1>>
      [] class = "other" -> <<3, 1>>

AdaptedError(class, response, budget) ==
    LET sizes == Fallbacks(class)
        fit == {i \in DOMAIN sizes : sizes[i] <= budget}
    IN  CASE response.tokens <= budget -> response
          [] response.tokens > budget /\ fit # {} ->
               ErrorOf(sizes[Min(fit)], FALSE, class = "budget" /\ Min(fit) < 3)
          [] OTHER -> ErrorOf(0, FALSE, FALSE)

Starved(call, budget) ==
    LET told == ErrorOf(StarvedMessage, TRUE, TRUE)
    IN  IF call.tool = "search" THEN AdaptedError("budget", told, budget) ELSE told

(* What a formatter makes of the room it has.                              *)
Format(call, budget) ==
    LET need == call.need + call.note
    IN  CASE budget = Rejected -> ErrorOf(ConfigMessage, FALSE, TRUE)
          [] budget # Rejected /\ budget < need -> Starved(call, budget)
          [] OTHER -> TextOf(Smaller(Larger(need, call.size), budget), IF call.image THEN 1 ELSE 0)

(* A reader is run again with less set aside for the line.                 *)
AnswerIn(call, ceiling, reservation) ==
    [ran |-> FALSE, reservation |-> reservation,
     response |-> Format(call, ToolBudget(call, ceiling, reservation))]
RetriedAnswer(call, ceiling, reservation) ==
    LET tiers == Tiers(reservation)
    IN  AnswerIn(call, ceiling,
            FirstOf(tiers, {i \in 1..3 : ~AnswerIn(call, ceiling, tiers[i]).response.starved}))

(* What has an effect first makes room for its last word.                  *)
CheckedIn(call, reservation, room, required) ==
    LET short == room # Rejected /\ room < required
    IN  [ran |-> room # Rejected /\ ~short, reservation |-> reservation,
         response |-> IF short THEN Starved(call, room) ELSE Format(call, room)]
CheckedWith(call, ceiling, reservation, required) ==
    CheckedIn(call, reservation, ToolBudget(call, ceiling, reservation), required)
CheckedAnswer(call, ceiling, reservation, required) ==
    CheckedWith(call, ceiling, BudgetForRequired(call, ceiling, reservation, required), required)

ValidatedRun(call, ceiling, reservation) == CheckedAnswer(call, ceiling, reservation, RunNotes)
StartedJob(call, ceiling, reservation) == CheckedAnswer(call, ceiling, reservation, call.need)

(* A replace has written its files by the time it finds out.               *)
ReportIn(call, reservation, room) ==
    [ran |-> room # Rejected, reservation |-> reservation, response |-> Format(call, room)]
ReportWith(call, ceiling, reservation) ==
    ReportIn(call, reservation, ToolBudget(call, ceiling, reservation))
RenderReport(call, ceiling, reservation) ==
    ReportWith(call, ceiling, BudgetForRequired(call, ceiling, reservation, call.need))

Formatted(call, ceiling, reservation) ==
    CASE call.tool \in {"read", "search", "output"} -> RetriedAnswer(call, ceiling, reservation)
      [] call.tool = "run" -> ValidatedRun(call, ceiling, reservation)
      [] call.tool = "start" -> StartedJob(call, ceiling, reservation)
      [] call.tool = "replace" -> RenderReport(call, ceiling, reservation)

(* The line goes in where it fits; the tool's own content is never cut.    *)
Decorate(response, reservation) ==
    LET cost == [full |-> reservation.full, summary |-> reservation.summary]
        lines == CASE reservation.level = "full" -> <<"full", "summary">>
                   [] reservation.level = "summary" -> <<"summary">>
                   [] OTHER -> <<>>
        fit == {i \in DOMAIN lines : response.tokens + cost[lines[i]] <= reservation.budget}
    IN  IF response.error \/ fit = {} THEN response
        ELSE [response EXCEPT !.line = lines[Min(fit)], !.tokens = @ + cost[lines[Min(fit)]]]
-----------------------------------------------------------------------------
(* In a guarded burst, what is over the allowance becomes a stub.          *)
AccountedTokens(response) == response.tokens + ImageTokens * response.images

FullStub == 6
CompactStub == 4..5
Emergencies == <<3, 2, 1, 0>>

GuardedBurstStub(allowance) ==
    LET compact == {n \in CompactStub : n <= allowance}
        tokens == CASE FullStub <= allowance -> FullStub
                    [] FullStub > allowance /\ compact # {} -> Max(compact)
                    [] OTHER -> Max({n \in ToSet(Emergencies) : n <= allowance})
    IN  [TextOf(tokens, 0) EXCEPT !.error = allowance < Min(CompactStub), !.stub = TRUE]

Deliver(call, response) ==
    LET guarded == call.allowance # Unguarded
        stubbed == IF guarded /\ call.exhausted /\ response.error /\ response.small
                   THEN GuardedBurstStub(call.allowance) ELSE response
    IN  IF guarded /\ AccountedTokens(stubbed) > call.allowance
        THEN GuardedBurstStub(call.allowance) ELSE stubbed

Cancelled == ErrorOf(2, FALSE, FALSE)

FinishEarly(call, class, response) ==
    LET hint == ErrorBudgetHint(call.settings, Variable(call.tool), call.allowance)
    IN  [ran |-> FALSE, response |-> Deliver(call, AdaptedError(class, response, hint))]

Decorated(call, formatted) ==
    [ran |-> formatted.ran,
     response |-> Deliver(call, Decorate(formatted.response, formatted.reservation))]
RunBlocking(call) ==
    Decorated(call, Formatted(call, call.allowance, Install(call, call.allowance)))

(* A search may be cancelled while it waits, or by the time it is done.    *)
RunCancellable(call) ==
    CASE call.cancelled = "early" -> FinishEarly(call, "cancelled", Cancelled)
      [] call.cancelled = "late" -> [ran |-> FALSE, response |-> Deliver(call, Cancelled)]
      [] OTHER -> RunBlocking(call)

Answered(call) == IF call.tool = "search" THEN RunCancellable(call) ELSE RunBlocking(call)
=============================================================================
