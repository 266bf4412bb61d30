----------------------------- MODULE GrepPages -----------------------------
(* A grep over a list of candidate files and the pages of its answer: the  *)
(* sink that captures matches and context inside a limit, the reduction of *)
(* the files' results to the window of entries a page asked for, and the   *)
(* choice of as many entries, as much context and as long a text around    *)
(* each match as the token budget holds.                                   *)
(*                                                                         *)
(* A file is the sequence of its lines' numbers of occurrences; trailing   *)
(* says that a line terminator follows the last one.  One token stands for *)
(* a line of the answer, and as many as its window for a match.            *)
EXTENDS Integers, Sequences, FiniteSets, SequencesExt, FiniteSetsExt

LongMatch == 2     \* MAX_MATCH_CHARS, the text shown around a match at most
Lower(a, b) == IF a < b THEN a ELSE b
Higher(a, b) == IF a > b THEN a ELSE b

TotalLines(file) == Len(file.hits) + (IF file.trailing THEN 1 ELSE 0)
OccurrenceTotal(file) == FoldLeft(LAMBDA sum, n : sum + n, 0, file.hits)

(* Whether entries are matching lines or single occurrences.               *)
ByLine(request) == ~request.only /\ ~request.multiline
EntriesOf(request, hits) == IF ByLine(request) /\ hits > 0 THEN 1 ELSE hits
-----------------------------------------------------------------------------
(* The content sink.  What it keeps is counted against request.valve: the  *)
(* lines, the recent ones it may need as context, and the occurrences.     *)
EmptySink == [entries |-> <<>>, lines |-> {}, kept |-> 0, recent |-> <<>>,
              until |-> 0, seen |-> 0, state |-> "reading"]

Reserve(request, sink, size) ==
    sink.kept + Len(sink.recent) + size <= request.valve
Overflow(sink) == [sink EXCEPT !.state = "overflow"]

StoreLine(request, sink, n) ==
    IF n \in sink.lines THEN sink
    ELSE IF ~Reserve(request, sink, 1) THEN Overflow(sink)
    ELSE [sink EXCEPT !.lines = @ \cup {n}, !.kept = @ + 1]

PushRecent(request, sink, n) ==
    IF request.before = 0 \/ n \in ToSet(sink.recent) THEN sink
    ELSE LET kept == SubSeq(sink.recent, Higher(1, Len(sink.recent) - request.before + 2),
                            Len(sink.recent))
             popped == [sink EXCEPT !.recent = kept]
         IN  IF ~Reserve(request, popped, 1) THEN Overflow(popped)
             ELSE [popped EXCEPT !.recent = Append(@, n)]

CommitRecent(sink) ==
    [sink EXCEPT !.lines = @ \cup ToSet(sink.recent), !.recent = <<>>,
                 !.kept = @ + Cardinality(ToSet(sink.recent) \ sink.lines)]

Capturing(sink) == sink.state = "reading"

(* Of the entries of a matching line, those inside the window, and whether *)
(* the window is full with them.                                           *)
Share(sink, count, room, first, last) ==
    LET full == first <= last /\ last - first + 1 >= room
    IN  [picked |-> [i \in 1..(last - first + 1) |-> first + i - 1], full |-> full,
         seen |-> sink.seen + (IF full THEN last ELSE count)]

Window(sink, count, skip, most) ==
    LET first == Higher(1, skip - sink.seen + 1)
        room == most - Len(sink.entries)
    IN  Share(sink, count, room, first, Lower(count, first + room - 1))

(* The selected occurrences are kept with the recent lines before them,    *)
(* then their own line, which may be context of a later one.               *)
Remember(request, line, n) ==
    IF Capturing(line) THEN PushRecent(request, line, n) ELSE line
Capture(request, sink, n, picked, size) ==
    LET selected == [CommitRecent(sink) EXCEPT
                        !.entries = @ \o [i \in DOMAIN picked |-> <<n, picked[i]>>],
                        !.until = Higher(@, n + request.after)]
    IN  IF ~Reserve(request, selected, size) THEN Overflow(selected)
        ELSE Remember(request, StoreLine(request, [selected EXCEPT !.kept = @ + size], n), n)

(* Line n matches; the search ends with the last entry the window wants.   *)
EndWhenFull(window, sink) ==
    IF Capturing(sink) /\ window.full THEN [sink EXCEPT !.state = "ended"] ELSE sink
Select(request, sink, n, hits, window) ==
    LET size == IF ByLine(request) THEN hits ELSE Len(window.picked)
    IN  EndWhenFull(window, IF window.picked = <<>> THEN sink
                            ELSE Capture(request, sink, n, window.picked, size))
SelectFrom(request, sink, n, hits, window) ==
    Select(request, [sink EXCEPT !.seen = window.seen], n, hits, window)
Matched(request, sink, n, hits, skip, most) ==
    SelectFrom(request, sink, n, hits, Window(sink, EntriesOf(request, hits), skip, most))

Context(request, sink, n) ==
    Remember(request, IF n <= sink.until THEN StoreLine(request, sink, n) ELSE sink, n)

ContextBreak(sink) == [sink EXCEPT !.recent = <<>>, !.until = 0]

(* The searcher: it shows the sink the lines that match and those within   *)
(* the wanted distance of one.                                             *)
IsContext(request, file, n) ==
    \E m \in DOMAIN file.hits :
       file.hits[m] > 0 /\ m - request.before <= n /\ n <= m + request.after

SearchContent(request, file, skip, most) ==
    FoldLeft(LAMBDA sink, n :
                 IF ~Capturing(sink) THEN sink
                 ELSE IF file.hits[n] > 0
                      THEN Matched(request, sink, n, file.hits[n], skip, most)
                 ELSE IF IsContext(request, file, n) THEN Context(request, sink, n)
                 ELSE ContextBreak(sink),
             EmptySink, [n \in DOMAIN file.hits |-> n])
-----------------------------------------------------------------------------
(* The ordered reduction of the candidates' outcomes to one page's window. *)
BudgetEntryLimit(request) == 4 * request.budget + 1
EffectiveHeadLimit(request) ==
    IF request.head_limit = 0 THEN BudgetEntryLimit(request)
    ELSE Lower(request.head_limit, BudgetEntryLimit(request))
ProbeEntryLimit(request) == EffectiveHeadLimit(request) + 1

EmptyScan(offset) ==
    [entries |-> <<>>, lines |-> <<>>, skip |-> offset, seen |-> 0, skipped |-> {},
     overflowed |-> FALSE, state |-> "scanning"]

Need(request, scan) == ProbeEntryLimit(request) - Len(scan.entries)
Found(index, entries) == [i \in DOMAIN entries |-> <<index, entries[i][1], entries[i][2]>>]

SkipFile(request, scan, index) ==
    IF request.single THEN [scan EXCEPT !.state = "failed"]
    ELSE [scan EXCEPT !.skipped = @ \cup {index}]

TrimEntries_CountsFromTheTop(request, scan, index, sink) ==
    LET available == Len(sink.entries)
        start == Lower(scan.skip, available)
        end == Lower(available, Need(request, scan))
    IN  [scan EXCEPT !.seen = @ + end, !.skip = @ - start,
                     !.entries = @ \o Found(index, SubSeq(sink.entries, start + 1, end))]

(* The content of a file is captured from its first entry, whatever the    *)
(* page's offset, and trimmed here to the page's share.                    *)
TrimEntries(request, scan, index, sink) ==
    LET available == Len(sink.entries)
        start == Lower(scan.skip, available)
        end == Lower(available, start + Need(request, scan))
    IN  [scan EXCEPT !.seen = @ + end, !.skip = @ - start,
                     !.entries = @ \o Found(index, SubSeq(sink.entries, start + 1, end))]

(* A file whose capture crossed the limit is searched again for exactly    *)
(* the entries that are missing.                                           *)
TakeExactly(request, scan, index, sink) ==
    IF sink.state = "overflow"
    THEN [SkipFile(request, scan, index) EXCEPT !.overflowed = TRUE]
    ELSE [scan EXCEPT !.seen = @ + sink.seen, !.skip = Higher(0, @ - sink.seen),
                      !.entries = @ \o Found(index, sink.entries),
                      !.lines[index] = sink.lines]
RetryExactly(request, scan, index, file) ==
    TakeExactly(request, scan, index, SearchContent(request, file, scan.skip, Need(request, scan)))

ReduceSink(request, scan, index, file, sink) ==
    IF sink.state = "overflow" THEN RetryExactly(request, scan, index, file)
    ELSE [TrimEntries(request, scan, index, sink) EXCEPT !.lines[index] = sink.lines]
ReduceContent(request, offset, scan, index, file) ==
    ReduceSink(request, scan, index, file,
               SearchContent(request, file, 0, offset + ProbeEntryLimit(request)))

ReduceFile(scan, index, file) ==
    IF OccurrenceTotal(file) = 0 THEN scan
    ELSE LET counted == [scan EXCEPT !.seen = @ + 1]
         IN  IF scan.skip > 0 THEN [counted EXCEPT !.skip = @ - 1]
             ELSE [counted EXCEPT !.entries = Append(@, <<index, 0, OccurrenceTotal(file)>>)]

StopWithEnough(request, scan) ==
    IF Len(scan.entries) >= ProbeEntryLimit(request)
    THEN [scan EXCEPT !.state = "stopped"] ELSE scan
Reduce(request, offset, scan, index) ==
    LET file == request.files[index]
    IN  IF scan.state # "scanning" THEN scan
        ELSE StopWithEnough(request,
                 CASE file.kind = "refused" -> SkipFile(request, scan, index)
                   [] file.kind = "text" /\ request.mode = "content" ->
                        ReduceContent(request, offset, scan, index, file)
                   [] OTHER -> ReduceFile(scan, index, file))

Scan(request, offset) ==
    FoldLeft(LAMBDA scan, index : Reduce(request, offset, scan, index),
             [EmptyScan(offset) EXCEPT !.lines = [i \in DOMAIN request.files |-> {}]],
             [i \in DOMAIN request.files |-> i])

(* The summary visits every candidate and pages nothing.                   *)
Summary(request) ==
    LET texts == SelectSeq(request.files, LAMBDA file : file.kind = "text")
        found == SelectSeq(texts, LAMBDA file : OccurrenceTotal(file) > 0)
    IN  IF request.single /\ texts = <<>> THEN [terminal |-> "failed"]
        ELSE [terminal |-> "complete", files |-> Len(found),
              skipped |-> Len(request.files) - Len(texts),
              occurrences |-> FoldLeft(LAMBDA sum, file : sum + OccurrenceTotal(file), 0, found)]
-----------------------------------------------------------------------------
(* The largest of low..high that a bisection finds good, or best.          *)
BinaryProbes(low, high, best, good) ==
    LET replay[l \in 0..(high + 1), h \in -1..high, b \in -1..high] ==
            LET middle == l + (h - l) \div 2
            IN  IF l > h THEN b
                ELSE IF good[middle] THEN replay[middle + 1, h, middle]
                ELSE IF middle = 0 THEN b
                ELSE replay[l, middle - 1, b]
    IN  IF low > high THEN best ELSE replay[low, high, best]

LargestPrefix(maximum, fits) ==
    IF maximum = 0 THEN -1
    ELSE IF fits[maximum] THEN maximum
    ELSE BinaryProbes(1, maximum - 1, -1, fits)

(* The terminal note, one token more when it counts what was skipped.      *)
TerminalCost(scan) == IF scan.skipped = {} THEN 1 ELSE 2
-----------------------------------------------------------------------------
(* The lines of a page's content.                                          *)
Line(kind, index, n, k) == [kind |-> kind, file |-> index, line |-> n, occurrence |-> k]

Around(file, n, before, after) ==
    Higher(1, n - before)..Lower(TotalLines(file), n + after)

Present(file, lines, n) == n \in lines \/ (n = TotalLines(file) /\ file.trailing)

PlanGroup(request, file, index, lines, entries, before, after) ==
    LET matched == {e[2] : e \in ToSet(entries)}
        covered == UNION {Around(file, n, before, after) : n \in matched}
        separator(n) == IF n - 1 \in covered \/ n = Min(covered) THEN <<>>
                        ELSE <<Line("separator", index, 0, 0)>>
        here(n) == SelectSeq(entries, LAMBDA e : e[2] = n)
        shown(n) ==
            CASE request.only /\ n \in matched ->
                   [i \in DOMAIN here(n) |-> Line("match", index, n, here(n)[i][3])]
              [] ~Present(file, lines, n) -> <<>>
              [] n \in matched -> <<Line("match", index, n, 0)>>
              [] OTHER -> <<Line("context", index, n, 0)>>
    IN  FoldLeft(LAMBDA plan, n : plan \o separator(n) \o shown(n), <<>>,
                 SetToSortSeq(covered, <))

BuildContentPlan(request, scan, entries, depth) ==
    LET group(index) == SelectSeq(entries, LAMBDA e : e[1] = index)
        header(plan, index) ==
            IF request.single THEN <<>>
            ELSE (IF plan = <<>> THEN <<>> ELSE <<Line("empty", index, 0, 0)>>)
                 \o <<Line("header", index, 0, 0)>>
    IN  FoldLeft(LAMBDA plan, index :
                     IF group(index) = <<>> THEN plan
                     ELSE plan \o header(plan, index)
                          \o PlanGroup(request, request.files[index], index,
                                       scan.lines[index], group(index),
                                       Lower(request.before, depth), Lower(request.after, depth)),
                 <<>>, [i \in DOMAIN request.files |-> i])

BodyCost(plan, window) ==
    FoldLeft(LAMBDA sum, l : sum + (IF l.kind = "match" THEN window ELSE 1), 0, plan)

BestView(request, note, plan, most) ==
    LET fits(depth, window) == BodyCost(plan[depth], window) + note <= request.budget
        depth == IF fits(most, LongMatch) THEN most
                 ELSE BinaryProbes(0, most, 0, [d \in 0..most |-> fits(d, LongMatch)])
        window == BinaryProbes(1, LongMatch - 1, 0, [w \in 1..LongMatch |-> fits(0, w)])
        view(d, w) == [fits |-> TRUE, plan |-> plan[d], depth |-> d, cost |-> BodyCost(plan[d], w)]
    IN  IF fits(most, LongMatch) \/ fits(0, LongMatch) THEN view(depth, LongMatch)
        ELSE IF window > 0 THEN view(0, window)
        ELSE [fits |-> FALSE]

(* A page of shown entries with as much context as fits; with none, as     *)
(* much of each match.                                                     *)
Degraded(request, scan, shown) ==
    LET entries == SubSeq(scan.entries, 1, shown)
        most == Higher(request.before, request.after)
        plans == [depth \in 0..most |-> BuildContentPlan(request, scan, entries, depth)]
    IN  BestView(request, TerminalCost(scan), plans, most)

PlainView(shown) == [fits |-> TRUE, plan |-> <<>>, depth |-> 0, cost |-> shown]

ViewOf(request, scan, shown) ==
    IF request.mode = "content" THEN Degraded(request, scan, shown)
    ELSE IF shown + TerminalCost(scan) <= request.budget THEN PlainView(shown)
    ELSE [fits |-> FALSE]

(* As many of the skipped files' lines as the rest of the budget holds.    *)
SkipDetails(request, scan, cost) ==
    LET total == Cardinality(scan.skipped)
        tokens(details) == cost + details + TerminalCost(scan)
    IN  IF tokens(total) <= request.budget THEN total
        ELSE IF tokens(0) > request.budget THEN -1
        ELSE BinaryProbes(1, total - 1, 0, [d \in 0..total |-> tokens(d) <= request.budget])

Answer(request, offset, scan, terminal, shown, view) ==
    LET details == SkipDetails(request, scan, view.cost)
    IN  IF details < 0 THEN [terminal |-> "too small"]
        ELSE [terminal |-> terminal, offset |-> offset, next |-> offset + shown,
              entries |-> SubSeq(scan.entries, 1, shown), plan |-> view.plan,
              depth |-> view.depth, total |-> scan.seen, details |-> details,
              skipped |-> scan.skipped, overflowed |-> scan.overflowed,
              tokens |-> view.cost + details + TerminalCost(scan)]

(* How many of the scanned entries the page shows; -1 if not even one fits. *)
ShownEntries(request, scan) ==
    LET initial == Lower(EffectiveHeadLimit(request), Len(scan.entries))
    IN  LargestPrefix(initial, [n \in 1..initial |-> ViewOf(request, scan, n).fits])

AnswerShowing(request, offset, scan, shown) ==
    LET more == shown < Len(scan.entries) \/ scan.state = "stopped"
    IN  IF shown < 0 THEN [terminal |-> "too small"]
        ELSE Answer(request, offset, scan, IF more THEN "partial" ELSE "complete",
                    shown, ViewOf(request, scan, shown))

PageOf(request, offset, scan) ==
    CASE scan.state = "failed" -> [terminal |-> "failed"]
      [] scan.state # "failed" /\ scan.entries = <<>> ->
           Answer(request, offset, scan,
                  IF scan.seen = 0 THEN "nothing" ELSE "exhausted", 0, PlainView(0))
      [] OTHER -> AnswerShowing(request, offset, scan, ShownEntries(request, scan))

Page(request, offset) == PageOf(request, offset, Scan(request, offset))
=============================================================================
