-------------------------------- MODULE Walk --------------------------------
(* How grep and glob find files: the walk of a tree by one thread or by    *)
(* several that hand their finds over in batches, the report of what the   *)
(* walk could not reach, the sort in chunks, the glob filter, and the      *)
(* pages of glob's answer.                                                 *)
(*                                                                         *)
(* A tree is the sequence of what the external walker yields; path is the  *)
(* number of a path in display order, key tells equal displays apart.      *)
EXTENDS Integers, Sequences, FiniteSets, SequencesExt, FiniteSetsExt

DetailCap == 2     \* SKIPPED_DETAIL_CAP
BatchItems == 2    \* TRAVERSAL_BATCH_ITEMS
ChunkItems == 2    \* SORT_CHUNK_ITEMS
-----------------------------------------------------------------------------
(* The filter: each pattern is the set of paths it matches.                *)
Compile(patterns) ==
    [ok |-> patterns # <<>> /\ \A i \in DOMAIN patterns : ~patterns[i].bad,
     inclusions |-> {patterns[i].paths : i \in {j \in DOMAIN patterns : ~patterns[j].excluded}},
     exclusions |-> {patterns[i].paths : i \in {j \in DOMAIN patterns : patterns[j].excluded}}]

IsMatch(filter, path) ==
    /\ filter.inclusions = {} \/ \E paths \in filter.inclusions : path \in paths
    /\ \A paths \in filter.exclusions : path \notin paths
-----------------------------------------------------------------------------
(* What could not be reached, identified by its path and cause.            *)
Failure(path, cause) == [path |-> path, cause |-> cause]
Ranked(a, b) == a.path < b.path \/ (a.path = b.path /\ a.cause < b.cause)
Lowest(failures) ==
    {f \in failures : \A g \in failures : f = g \/ Ranked(f, g)}

NothingSkipped == [entries |-> {}, beyond |-> 0, minimum |-> {}]
IsEmpty(skips) == skips.entries = {} /\ skips.beyond = 0
SkippedTotal(skips) == Cardinality(skips.entries) + skips.beyond

Insert(skips, failure) ==
    IF failure \in skips.entries THEN skips
    ELSE IF Cardinality(skips.entries) < DetailCap
    THEN [skips EXCEPT !.entries = @ \cup {failure}]
    ELSE [skips EXCEPT !.beyond = @ + 1]

RecordFailure(skips, failure) ==
    Insert([skips EXCEPT !.minimum = Lowest(@ \cup {failure})], failure)

MergeSkips(skips, other) ==
    LET merged == FoldLeft(Insert,
                           [skips EXCEPT !.minimum = Lowest(@ \cup other.minimum)],
                           SetToSortSeq(other.entries, Ranked))
    IN  [merged EXCEPT !.beyond = @ + other.beyond]

(* The failures in one error of the walker: 0 stands for the root.         *)
RECURSIVE ErrorFailures(_, _)
ErrorFailures(error, inherited) ==
    CASE error.is = "partial" ->
           FlattenSeq([i \in DOMAIN error.errors |-> ErrorFailures(error.errors[i], inherited)])
      [] error.is = "line" -> ErrorFailures(error.err, inherited)
      [] error.is = "path" -> ErrorFailures(error.err, error.path)
      [] error.is = "loop" -> <<Failure(error.child, 9)>>
      [] error.is = "io" -> <<Failure(inherited, error.cause)>>
      [] OTHER -> <<Failure(inherited, 9)>>
-----------------------------------------------------------------------------
(* One entry: its type, what a stat of it says and what a stat of what it  *)
(* points to says: "file", "other", "missing", "denied" or, of a file, that *)
(* its time cannot be read, "timeless".                                    *)
Nothing == [is |-> "nothing"]
Found(path, key, modified) ==
    [is |-> "item", item |-> [path |-> path, key |-> key, modified |-> modified]]
Failed(path, cause) == [is |-> "failure", failure |-> Failure(path, cause)]

FromMetadata(entry, wants_time, outcome) ==
    CASE outcome = "file" -> Found(entry.path, entry.key, IF wants_time THEN entry.modified ELSE 0)
      [] outcome = "timeless" /\ ~wants_time -> Found(entry.path, entry.key, 0)
      [] outcome = "timeless" /\ wants_time -> Failed(entry.path, 7)
      [] outcome = "denied" -> Failed(entry.path, 1)
      [] OTHER -> Nothing

FromEntry(entry, wants_time) ==
    FromMetadata(entry, wants_time,
                 IF entry.type = "link" \/ entry.stat \in {"denied", "missing"}
                 THEN entry.target ELSE entry.stat)

(* mode is "search" for grep and replace, else glob's sort.                *)
Evaluate(entry, filter, mode) ==
    IF entry.type \notin {"file", "link"} \/ ~IsMatch(filter, entry.path) THEN Nothing
    ELSE IF entry.panics THEN Failed(entry.path, 9)
    ELSE IF mode = "path" /\ entry.type = "file" THEN Found(entry.path, entry.key, 0)
    ELSE FromEntry(entry, mode # "path")
-----------------------------------------------------------------------------
Cancelled == [result |-> "cancelled"]
TooMany == [result |-> "too many"]

(* A walk that saw no entry never happened.                                *)
FinishCollection(run) ==
    IF run.over THEN TooMany
    ELSE IF run.seen = 0 /\ run.skipped.minimum # {}
    THEN [result |-> "failed", why |-> CHOOSE f \in run.skipped.minimum : TRUE]
    ELSE [result |-> "collected", items |-> run.items, skipped |-> run.skipped]

EmptyRun == [items |-> <<>>, skipped |-> NothingSkipped, seen |-> 0, over |-> FALSE]
RecordAll(skips, failures) == FoldLeft(RecordFailure, skips, failures)
AtLimit(items, limit) == limit > 0 /\ Len(items) >= limit

SerialStep(run, entry, filter, mode, limit) ==
    LET outcome == Evaluate(entry, filter, mode)
        seen == [run EXCEPT !.seen = @ + 1]
    IN  IF run.over THEN run
        ELSE IF entry.type = "error"
        THEN [run EXCEPT !.skipped = RecordAll(@, ErrorFailures(entry.error, 0))]
        ELSE CASE outcome.is = "nothing" -> seen
               [] outcome.is = "failure" -> [seen EXCEPT !.skipped = RecordFailure(@, outcome.failure)]
               [] outcome.is = "item" /\ AtLimit(run.items, limit) -> [seen EXCEPT !.over = TRUE]
               [] OTHER -> [seen EXCEPT !.items = Append(@, outcome.item)]

(* cancel is the number of entries after which the request is cancelled.   *)
CollectSerial(tree, filter, mode, limit, cancel) ==
    LET walked(n) == FoldLeft(LAMBDA run, entry : SerialStep(run, entry, filter, mode, limit),
                              EmptyRun, SubSeq(tree, 1, n))
    IN  IF cancel <= Len(tree) /\ ~walked(cancel).over THEN Cancelled
        ELSE FinishCollection(walked(Len(tree)))

(* The threads of a parallel walk and what they share.  limit 0 is none.   *)
Started(threads) ==
    [shared |-> EmptyRun, stop |-> FALSE, cancelled |-> FALSE,
     local |-> [t \in threads |-> EmptyRun]]
Stopped(walk) == [walk EXCEPT !.cancelled = TRUE, !.stop = TRUE]

ShareItems(shared, items, limit) ==
    LET room == IF limit = 0 THEN Len(items) ELSE limit - Len(shared.items)
    IN  [shared EXCEPT !.items = @ \o SubSeq(items, 1, IF room < Len(items) THEN room ELSE Len(items)),
                       !.over = @ \/ room < Len(items)]

Flush_OnlyItems(walk, t, limit, is_cancelled) ==
    LET local == walk.local[t]
        emptied == [walk EXCEPT !.local[t] = EmptyRun]
        shared == [walk.shared EXCEPT !.skipped = MergeSkips(@, local.skipped),
                                      !.seen = @ + local.seen]
        handed == ShareItems(shared, local.items, limit)
    IN  IF local.items = <<>> THEN walk
        ELSE IF is_cancelled THEN Stopped(emptied)
        ELSE [emptied EXCEPT !.shared = handed, !.stop = @ \/ handed.over]

Flush(walk, t, limit, is_cancelled) ==
    LET local == walk.local[t]
        emptied == [walk EXCEPT !.local[t] = EmptyRun]
        shared == [walk.shared EXCEPT !.skipped = MergeSkips(@, local.skipped),
                                      !.seen = @ + local.seen]
        handed == ShareItems(shared, local.items, limit)
    IN  IF local.items = <<>> /\ IsEmpty(local.skipped) /\ local.seen = 0 THEN walk
        ELSE IF is_cancelled THEN Stopped(emptied)
        ELSE [emptied EXCEPT !.shared = handed, !.stop = @ \/ handed.over]

ProcessEntry(walk, t, entry, filter, mode, limit, is_cancelled) ==
    LET next == SerialStep(walk.local[t], entry, filter, mode, 0)
        kept == [walk EXCEPT !.local[t] = next]
    IN  IF walk.stop THEN walk
        ELSE IF is_cancelled THEN Stopped(walk)
        ELSE IF Len(next.items) = BatchItems THEN Flush(kept, t, limit, is_cancelled)
        ELSE kept

Left(walk, is_cancelled) ==
    IF walk.cancelled \/ is_cancelled THEN Cancelled ELSE FinishCollection(walk.shared)

(* thread[i] is the thread that gets the i-th entry; at the end the        *)
(* threads hand over what they have left in the order of leaving.          *)
CollectParallel(tree, thread, leaving, filter, mode, limit, cancel) ==
    LET walked == FoldLeft(
            LAMBDA walk, i : ProcessEntry(walk, thread[i], tree[i], filter, mode, limit, cancel < i),
            Started(ToSet(leaving)), [i \in DOMAIN tree |-> i])
        left == FoldLeft(LAMBDA walk, t : Flush(walk, t, limit, cancel <= Len(tree)),
                         walked, leaving)
    IN  Left(left, cancel <= Len(tree))
-----------------------------------------------------------------------------
(* The order of an answer, and the sort of it.                             *)
ByPath(a, b) == a.path < b.path \/ (a.path = b.path /\ a.key < b.key)
Before(sort, a, b) ==
    IF sort = "path" \/ a.modified = b.modified THEN ByPath(a, b) ELSE a.modified > b.modified
SortedChunk(sort, items) == SortSeq(items, LAMBDA a, b : Before(sort, a, b))

ChunksOf(items) ==
    [c \in 1..((Len(items) + ChunkItems - 1) \div ChunkItems) |->
        SubSeq(items, (c - 1) * ChunkItems + 1,
               IF c * ChunkItems < Len(items) THEN c * ChunkItems ELSE Len(items))]

(* The heap of the streams that are not at their end.                      *)
StreamPrecedes(sort, streams, left, right) ==
    LET a == Head(streams[left])
        b == Head(streams[right])
    IN  Before(sort, a, b) \/ (~Before(sort, b, a) /\ left < right)
Swapped(heap, i, j) == [heap EXCEPT ![i] = heap[j], ![j] = heap[i]]

RECURSIVE SiftUp(_, _, _, _)
SiftUp(sort, streams, heap, child) ==
    LET parent == child \div 2
    IN  IF child = 1 \/ ~StreamPrecedes(sort, streams, heap[child], heap[parent]) THEN heap
        ELSE SiftUp(sort, streams, Swapped(heap, child, parent), parent)
HeapPush(sort, streams, heap, value) ==
    SiftUp(sort, streams, Append(heap, value), Len(heap) + 1)

RECURSIVE SiftDown(_, _, _, _)
SiftDown(sort, streams, heap, parent) ==
    LET left == 2 * parent
        right == left + 1
        child == IF right <= Len(heap) /\ StreamPrecedes(sort, streams, heap[right], heap[left])
                 THEN right ELSE left
    IN  IF left > Len(heap) \/ ~StreamPrecedes(sort, streams, heap[child], heap[parent]) THEN heap
        ELSE SiftDown(sort, streams, Swapped(heap, parent, child), child)
HeapPop(sort, streams, heap) ==
    LET rest == IF Len(heap) = 1 THEN <<>> ELSE <<Last(heap)>> \o SubSeq(heap, 2, Len(heap) - 1)
    IN  SiftDown(sort, streams, rest, 1)

RECURSIVE MergeStreams(_, _, _, _)
MergeStreams(sort, streams, heap, output) ==
    IF heap = <<>> THEN output
    ELSE LET from == Head(heap)
             rest == [streams EXCEPT ![from] = Tail(@)]
             popped == HeapPop(sort, streams, heap)
         IN  MergeStreams(sort, rest,
                          IF rest[from] = <<>> THEN popped ELSE HeapPush(sort, rest, popped, from),
                          Append(output, Head(streams[from])))

MergeSortedChunks(sort, chunks) ==
    MergeStreams(sort, chunks,
                 FoldLeft(LAMBDA heap, c : HeapPush(sort, chunks, heap, c), <<>>,
                          [c \in DOMAIN chunks |-> c]), <<>>)

(* The first chunk and those no worker can take are sorted by the caller;  *)
(* a worker answers, panics, or is gone without an answer.                 *)
SortCancelable(sort, items, fate, is_cancelled) ==
    LET chunks == ChunksOf(items)
        spawned == {fate[c] : c \in DOMAIN chunks \ {1}}
    IN  IF is_cancelled THEN Cancelled
        ELSE IF Len(items) <= ChunkItems
        THEN [result |-> "sorted", items |-> SortedChunk(sort, items)]
        ELSE IF spawned \cap {"panics", "gone"} # {} THEN [result |-> "failed"]
        ELSE [result |-> "sorted",
              items |-> MergeSortedChunks(sort, [c \in DOMAIN chunks |-> SortedChunk(sort, chunks[c])])]
-----------------------------------------------------------------------------
(* Glob's answer: a line of it is a token; the clause about unreachable    *)
(* paths is one, and one more when it has to say that details are missing. *)
Clause(report, details) ==
    IF report.unreachable = 0 THEN 0 ELSE IF details < report.listed THEN 2 ELSE 1
NoteTokens(shown, report, details) == shown + 1 + details + Clause(report, details)

SkipReport(skips) ==
    [unreachable |-> SkippedTotal(skips), listed |-> Cardinality(skips.entries)]

TooSmall == [kind |-> "too small", first |-> 1, shown |-> 0]

(* All the details, or as many as the bisection finds to fit.              *)
RECURSIVE DetailsThatFit(_, _, _, _, _, _)
DetailsThatFit(shown, report, budget, low, high, best) ==
    LET middle == low + (high - low) \div 2
    IN  IF low > high THEN best
        ELSE IF NoteTokens(shown, report, middle) <= budget
        THEN DetailsThatFit(shown, report, budget, middle + 1, high, middle)
        ELSE IF middle = 0 THEN best
        ELSE DetailsThatFit(shown, report, budget, low, middle - 1, best)

FinishWithSkips(status, shown, report, budget) ==
    LET full == report.listed
        best == IF NoteTokens(shown, report, full) <= budget THEN full
                ELSE IF full = 0 THEN -1
                ELSE DetailsThatFit(shown, report, budget, 0, full - 1, -1)
    IN  IF best = -1 THEN TooSmall
        ELSE [status EXCEPT !.details = best, !.tokens = NoteTokens(shown, report, best)]

Status(kind, first, shown, total) ==
    [kind |-> kind, first |-> first, shown |-> shown, total |-> total, details |-> 0, tokens |-> 0]
GlobTerminal(offset, shown, total) ==
    Status(IF offset + shown < total THEN "partial" ELSE "complete", offset + 1, shown, total)

FormatMatches(total, report, offset, limit, budget) ==
    LET maximum == IF limit < total - offset THEN limit ELSE total - offset
        fitting == {n \in 1..maximum : NoteTokens(n, report, 0) <= budget}
    IN  IF total = 0 \/ offset >= total
        THEN FinishWithSkips(Status("none", 0, 0, total), 0, report, budget)
        ELSE IF fitting = {} THEN TooSmall
        ELSE FinishWithSkips(GlobTerminal(offset, Max(fitting), total), Max(fitting), report, budget)

Request(limit, offset, sort, budget) ==
    [limit |-> limit, offset |-> offset, sort |-> sort, budget |-> budget]
MaxLimit == 3      \* MAX_LIMIT of a page

Answered(items, answer) ==
    [result |-> "answered", answer |-> answer,
     files |-> SubSeq(items, answer.first, answer.first + answer.shown - 1)]

(* The whole of a glob over what a walk came to; an error says why.        *)
GlobFiles(request, filter, walked, fate, is_cancelled) ==
    LET sorted == SortCancelable(request.sort, walked.items, fate, is_cancelled)
    IN  IF is_cancelled THEN Cancelled
        ELSE IF ~filter.ok \/ request.limit \notin 1..MaxLimit THEN [result |-> "invalid"]
        ELSE IF walked.result # "collected" THEN walked
        ELSE IF sorted.result # "sorted" THEN sorted
        ELSE Answered(sorted.items, FormatMatches(Len(sorted.items), SkipReport(walked.skipped),
                                                  request.offset, request.limit, request.budget))

(* The candidates of a grep or a replace: those of the walk, newest first, *)
(* or the one file that was named, if the filter lets it.                  *)
SearchCandidates(root, filter, walked, fate, is_cancelled) ==
    LET named == FromMetadata(root, TRUE, root.stat)
        found == IF root.type # "file" THEN walked
                 ELSE IF named.is = "failure" THEN [result |-> "failed", why |-> named.failure]
                 ELSE [result |-> "collected", skipped |-> NothingSkipped,
                       items |-> IF IsMatch(filter, root.path) THEN <<named.item>> ELSE <<>>]
        sorted == SortCancelable("modified", found.items, fate, is_cancelled)
    IN  IF is_cancelled THEN Cancelled
        ELSE IF found.result # "collected" THEN found
        ELSE IF sorted.result # "sorted" THEN sorted
        ELSE [found EXCEPT !.items = sorted.items]
=============================================================================
