------------------------------ MODULE JobPages ------------------------------
(* What job_output and job_list show of a job's log and of the registry    *)
(* when the token budget cannot hold all of it (shell/jobs/mod.rs).        *)
(*                                                                         *)
(* A log is [direct, oldest, cost]: whether the caller can read its files, *)
(* the first line that is still there, and the tokens of line i.  Every    *)
(* note and every terminal sentence is one token, as is a stored byte.     *)
EXTENDS Integers, Sequences, FiniteSets, SequencesExt, FiniteSetsExt

SumOf(costs) == FoldLeft(LAMBDA sum, n : sum + n, 0, costs)
Smaller(a, b) == IF a < b THEN a ELSE b
Larger(a, b) == IF a > b THEN a ELSE b

(* The largest of low..high that a bisection finds good, or -1.            *)
Bisect(low, high, good) ==
    LET find[l \in 0..(high + 1), h \in -1..high, best \in -1..high] ==
            LET middle == l + (h - l) \div 2
            IN  IF l > h THEN best
                ELSE IF good[middle] THEN find[middle + 1, h, middle]
                ELSE IF middle = low THEN best
                ELSE find[l, middle - 1, best]
    IN  IF low > high THEN -1 ELSE find[low, high, -1]
-----------------------------------------------------------------------------
(* The lines read for a call; how many depends on its budget.              *)
MaxReadLines(budget) == budget
MaxReadBytes(budget) == budget + 2

TotalLines(log) == Len(log.cost)
Bytes(log, first, last) == SumOf(SubSeq(log.cost, first, last))

(* As many lines from the first, or up to the last, as the bounds hold;    *)
(* one line is read whatever its size.                                     *)
ReadPrefix(log, first, budget) ==
    first..Max({last \in first..TotalLines(log) :
                   last = first \/ (/\ last - first < MaxReadLines(budget)
                                    /\ Bytes(log, first, last) <= MaxReadBytes(budget))})
ReadSuffix(log, first, budget) ==
    LET last == TotalLines(log)
    IN  Min({start \in first..last :
                start = last \/ (/\ last - start < MaxReadLines(budget)
                                 /\ Bytes(log, start, last) <= MaxReadBytes(budget))})..last

LoadOutputSnapshot_ForgetsEviction(log, anchor, budget) ==
    LET first == Larger(anchor + 1, log.oldest)
        prefix == IF first <= TotalLines(log) THEN ReadPrefix(log, first, budget) ELSE {}
        all == prefix = first..TotalLines(log)
        windowed == ~all /\ log.direct
        head == IF windowed /\ anchor # 0 THEN {} ELSE prefix
    IN  [anchor |-> anchor, head |-> head, first |-> first, last |-> TotalLines(log),
         tail |-> IF windowed THEN ReadSuffix(log, first, budget) \ head ELSE {},
         all |-> all, loss |-> log.lost]

LoadOutputSnapshot(log, anchor, budget) ==
    LET first == Larger(anchor + 1, log.oldest)
        prefix == IF first <= TotalLines(log) THEN ReadPrefix(log, first, budget) ELSE {}
        all == prefix = first..TotalLines(log)
        windowed == ~all /\ log.direct
        head == IF windowed /\ anchor # 0 THEN {} ELSE prefix
    IN  [anchor |-> anchor, head |-> head, first |-> first, last |-> TotalLines(log),
         tail |-> IF windowed THEN ReadSuffix(log, first, budget) \ head ELSE {},
         all |-> all, loss |-> log.lost \/ first > anchor + 1]

FirstOf(lines, n) == {l \in lines : Cardinality({k \in lines : k < l}) < n}
LastOf(lines, n) == {l \in lines : Cardinality({k \in lines : k > l}) < n}

SelectLines(snapshot, head, tail) ==
    LET first == FirstOf(snapshot.head, head)
        rest == IF snapshot.all THEN snapshot.head \ first ELSE snapshot.tail \ first
    IN  first \cup LastOf(rest, tail)

(* Of the unread lines those not selected, in ranges.                      *)
OmittedRanges(snapshot, selected) ==
    LET omitted == (snapshot.first..snapshot.last) \ selected
    IN  {r \in omitted \X omitted :
            /\ r[1] <= r[2] /\ r[1]..r[2] \subseteq omitted
            /\ r[1] - 1 \notin omitted /\ r[2] + 1 \notin omitted}

(* With no direct log the caller is told of the lines that are lost; only  *)
(* the end of a job ends its output.                                       *)
OutputTerminal(log, snapshot, running, selected) ==
    LET next == IF selected = {} THEN snapshot.anchor ELSE Max(selected)
        more == /\ next < snapshot.last
                /\ ~snapshot.all \/ \E l \in snapshot.head : l > next
    IN  CASE running -> [kind |-> "running", lines |-> Cardinality(selected)]
          [] ~running /\ log.direct -> [kind |-> "complete", total |-> snapshot.last]
          [] ~running /\ ~log.direct /\ more -> [kind |-> "partial", after_seq |-> next]
          [] OTHER -> [kind |-> "complete", total |-> snapshot.last]

RenderCandidate(log, snapshot, running, head, tail) ==
    LET selected == SelectLines(snapshot, head, tail)
        omitted == IF log.direct THEN OmittedRanges(snapshot, selected) ELSE {}
        notes == IF log.direct THEN Cardinality(omitted) ELSE IF snapshot.loss THEN 1 ELSE 0
        body == FoldSet(LAMBDA l, sum : sum + log.cost[l], 0, selected)
    IN  [lines |-> selected, omitted |-> omitted, noted |-> ~log.direct /\ snapshot.loss,
         terminal |-> OutputTerminal(log, snapshot, running, selected),
         tokens |-> body + notes + log.trouble + 1]

TooSmall == [kind |-> "too small"]
Shown(candidate, cursor) == [kind |-> "page", page |-> candidate, cursor |-> cursor]
LastSeq(candidate) == IF candidate.lines = {} THEN 0 ELSE Max(candidate.lines)

FormatLegacyPage(log, snapshot, running, budget) ==
    LET candidate(n) == RenderCandidate(log, snapshot, running, n, 0)
        size == Cardinality(snapshot.head)
        best == Bisect(1, size, [n \in 1..size |-> candidate(n).tokens <= budget])
    IN  IF best < 0 THEN TooSmall ELSE Shown(candidate(best), LastSeq(candidate(best)))

(* The head that takes a tenth of the budget, and at least one token.      *)
PreferredHeadCount(log, snapshot, available, budget) ==
    LET tokens(n) == FoldSet(LAMBDA l, sum : sum + log.cost[l], 0, SelectLines(snapshot, n, 0))
    IN  Bisect(0, available, [n \in 0..available |-> tokens(n) <= Larger(1, budget \div 10)])

WindowWithHead(log, snapshot, running, budget, head, limit) ==
    LET candidate(t) == RenderCandidate(log, snapshot, running, head, t)
        best == Bisect(1, limit, [t \in 1..limit |-> candidate(t).tokens <= budget])
    IN  IF best < 0 THEN TooSmall ELSE Shown(candidate(best), snapshot.last)
DirectWindow(log, snapshot, running, budget, tail, head) ==
    IF tail = 0 \/ head < 0 THEN TooSmall
    ELSE WindowWithHead(log, snapshot, running, budget, head,
                        IF snapshot.all THEN tail - head ELSE tail)
FormatDirectWindow(log, snapshot, running, budget) ==
    LET size == Cardinality(snapshot.head)
        tail == IF snapshot.all THEN size ELSE Cardinality(snapshot.tail)
        heads == CASE snapshot.anchor # 0 -> 0
                   [] snapshot.anchor = 0 /\ snapshot.all -> Larger(0, size - 1)
                   [] OTHER -> size
        preferred == PreferredHeadCount(log, snapshot, heads, budget)
        fits == [h \in 0..preferred |-> RenderCandidate(log, snapshot, running, h, 1).tokens <= budget]
    IN  DirectWindow(log, snapshot, running, budget, tail, Bisect(0, preferred, fits))

(* The page of all that was read; if it is too long or not all there was,  *)
(* a part of it.                                                           *)
WholeOrPart(log, snapshot, running, budget, whole) ==
    IF snapshot.head = {} /\ snapshot.tail = {}
    THEN IF whole.tokens > budget THEN TooSmall
         ELSE Shown(whole, IF snapshot.last > snapshot.anchor THEN snapshot.last ELSE 0)
    ELSE IF snapshot.all /\ whole.tokens <= budget
    THEN Shown(whole, IF log.direct THEN snapshot.last ELSE LastSeq(whole))
    ELSE IF log.direct THEN FormatDirectWindow(log, snapshot, running, budget)
    ELSE FormatLegacyPage(log, snapshot, running, budget)
FormatLoaded(log, snapshot, running, budget) ==
    WholeOrPart(log, snapshot, running, budget,
                RenderCandidate(log, snapshot, running, Cardinality(snapshot.head), 0))

(* One call of job_output after line anchor; a cursor of 0 moves nothing.  *)
FormatSnapshot(log, anchor, running, budget) ==
    FormatLoaded(log, LoadOutputSnapshot(log, anchor, budget), running, budget)
-----------------------------------------------------------------------------
(* The list of jobs: a record is [id, running, started, ended].            *)
Wanted(records, status) ==
    {r \in records : CASE status = "running" -> r.running
                       [] status = "finished" -> ~r.running
                       [] OTHER -> TRUE}

Before(a, b) ==
    IF a.running # b.running THEN a.running
    ELSE IF a.running
         THEN a.started > b.started \/ (a.started = b.started /\ a.id > b.id)
         ELSE a.ended > b.ended \/ (a.ended = b.ended /\ a.id > b.id)

(* The terminal of a partial list names the next offset and costs more.    *)
JobList(records, status, offset, limit, budget) ==
    LET sorted == SetToSortSeq(Wanted(records, status), Before)
        total == Len(sorted)
        start == Smaller(offset, total)
        end == Smaller(start + limit, total)
        part(n) == [kind |-> "partial", jobs |-> SubSeq(sorted, start + 1, start + n),
                    next |-> start + n]
        size == end - start
        best == Bisect(1, size, [n \in 1..size |-> n + 2 <= budget])
    IN  CASE start = total -> [kind |-> "complete", jobs |-> <<>>]
          [] start < total /\ end = total /\ size + 1 <= budget ->
               [kind |-> "complete", jobs |-> SubSeq(sorted, start + 1, end)]
          [] start < total /\ end < total /\ size + 2 <= budget -> part(size)
          [] OTHER -> IF best < 0 THEN TooSmall ELSE part(best)
=============================================================================
