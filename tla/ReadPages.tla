------------------------------ MODULE ReadPages ------------------------------
(* inspect_local_file: what one call answers of a file, and with what it   *)
(* tells the caller to go on (read_tool/).  A text is a sequence of        *)
(* characters "a", "cr" and "nl"; a line costs one token, one more for     *)
(* each character shown and one for a cut, and the newline before it one   *)
(* where the tokenizer does not merge it into its neighbours ("merges").   *)
EXTENDS Integers, Sequences, FiniteSets, SequencesExt, FiniteSetsExt, TLC

MaxLineChars == 2
Unset == -1
Default(value, default) == IF value = Unset THEN default ELSE value
UnboundedLineLimit == 99
TooSmall == [kind |-> "too small"]
Refused == [kind |-> "refused"]
Message(of) == [kind |-> of]
-----------------------------------------------------------------------------
(* Collecting the lines of a text, character by character.                 *)
NewCollector ==
    [line |-> 1, kept |-> <<>>, chars |-> 0, cr |-> FALSE, any |-> FALSE, rendered |-> <<>>,
     tokens |-> 0, saturated |-> FALSE, total |-> 0, stopped |-> FALSE, going |-> TRUE]

Rendered(c) ==
    LET total == c.chars - (IF c.cr THEN 1 ELSE 0)
    IN  [line |-> c.line,
         text |-> IF c.cr /\ c.chars <= MaxLineChars THEN Front(c.kept) ELSE c.kept,
         cut |-> IF total <= MaxLineChars THEN 0 ELSE total]
LineTokens(l) == 1 + Len(l.text) + (IF l.cut > 0 THEN 1 ELSE 0)
CountLine(c, rendered) == c.tokens + (IF c.rendered = <<>> THEN 0 ELSE 1) + LineTokens(rendered)
AssembledTokens(lines, merges) ==
    FoldLeft(LAMBDA sum, l : sum + LineTokens(l), 0, lines)
      + (IF merges \/ lines = <<>> THEN 0 ELSE Len(lines) - 1)

ResetLine(c) == [c EXCEPT !.line = @ + 1, !.kept = <<>>, !.chars = 0, !.cr = FALSE]
FinishLine(r, c) ==
    LET next == ResetLine([c EXCEPT !.total = c.line])
        tokens == CountLine(c, Rendered(c))
    IN  IF c.line > r.end THEN [next EXCEPT !.going = r.known]
        ELSE IF c.line < r.offset \/ c.saturated THEN next
        ELSE [next EXCEPT !.rendered = Append(@, Rendered(c)), !.tokens = tokens,
                          !.saturated = tokens > r.budget,
                          !.going = tokens <= r.budget \/ r.known]

ShouldCapture(r, c) == ~c.saturated /\ c.line \in r.offset..r.end
Push(r, c, ch) ==
    IF ~c.going THEN c
    ELSE IF c.line > r.end /\ ~r.known
    THEN [c EXCEPT !.any = TRUE, !.total = c.line, !.stopped = TRUE, !.going = FALSE]
    ELSE IF ch = "nl"
    THEN LET done == FinishLine(r, [c EXCEPT !.any = TRUE]) IN [done EXCEPT !.stopped = ~done.going]
    ELSE [c EXCEPT !.any = TRUE, !.chars = @ + 1, !.cr = ch = "cr",
                   !.kept = IF ShouldCapture(r, c) /\ c.chars < MaxLineChars THEN Append(@, ch) ELSE @]
FinishEof(r, c) == IF c.any THEN FinishLine(r, c) ELSE c
Collect(r, text) ==
    LET read == FoldLeft(LAMBDA c, ch : Push(r, c, ch), NewCollector, text)
    IN  IF read.going THEN FinishEof(r, read) ELSE read

(* The lines that fit together with the status line, and that line.        *)
ReadNotes(transcoded, truncated, shown) ==
    (IF transcoded THEN 1 ELSE 0) + (IF shown = 0 THEN 0 ELSE IF truncated THEN 2 ELSE 1)
IntoResponse(r, c, transcoded, merges) ==
    LET collected == Len(c.rendered)
        last(shown) == r.offset + shown - 1
        truncated(shown) == \/ c.stopped \/ c.saturated \/ shown < collected
                            \/ shown > 0 /\ last(shown) < c.total
        fits(shown) ==
            /\ shown = 0 => ~truncated(shown)
            /\ AssembledTokens(SubSeq(c.rendered, 1, shown), merges)
                 + ReadNotes(transcoded, truncated(shown), shown) <= r.budget
        fitting == {shown \in 0..collected : fits(shown)}
        shown == Max(fitting)
    IN  IF c.total < r.offset THEN [kind |-> "short", total |-> c.total]
        ELSE IF fitting = {} THEN TooSmall
        ELSE [kind |-> "lines", lines |-> SubSeq(c.rendered, 1, shown),
              total |-> IF truncated(shown) /\ ~r.known THEN Unset ELSE c.total,
              complete |-> ~truncated(shown), next |-> last(shown) + 1]

TotalLines(text) == IF text = <<>> THEN 0 ELSE 1 + Cardinality({i \in DOMAIN text : text[i] = "nl"})
Window(file, offset, limit, budget) ==
    [offset |-> offset, end |-> offset + limit - 1, budget |-> budget, known |-> file.known]
Validated(file) ==
    CASE file.is \in {"binary", "rejected"} -> file.is
      [] file.is = "text" /\ TotalLines(file.text) = 0 -> "empty"
      [] OTHER -> "ok"
ReadTextFile(file, offset, limit, budget, merges) ==
    LET window == Window(file, Default(offset, 1), Default(limit, UnboundedLineLimit), budget)
    IN  IF 0 \in {offset, limit} THEN Refused
        ELSE IF Validated(file) # "ok" THEN Message(Validated(file))
        ELSE IntoResponse(window, Collect(window, file.text), file.transcoded, merges)
-----------------------------------------------------------------------------
(* Sixteen bytes of any file on a line.                                    *)
BytesPerLine == 2
DefaultHexLineLimit == 3
HexLineTokens == 2
ReadHexFile(file, offset_value, limit_value, budget) ==
    LET offset == Default(offset_value, 1)
        limit == Default(limit_value, DefaultHexLineLimit)
        size == Len(file.text)
        total == size \div BytesPerLine + (IF size % BytesPerLine # 0 THEN 1 ELSE 0)
        candidates == Min({total - offset + 1, limit, budget * 4 + 1})
        last(shown) == offset + shown - 1
        fitting == {shown \in 1..candidates :
                       shown * HexLineTokens + (shown - 1) + (IF last(shown) < total THEN 2 ELSE 1) <= budget}
        shown == Max(fitting)
    IN  IF 0 \in {offset, limit} THEN Refused
        ELSE IF size = 0 THEN Message("empty")
        ELSE IF offset > total THEN [kind |-> "short", total |-> total]
        ELSE IF fitting = {} THEN TooSmall
        ELSE [kind |-> "hex", total |-> total, complete |-> last(shown) >= total, next |-> last(shown) + 1,
              lines |-> [i \in 1..shown |->
                           SubSeq(file.text, (offset + i - 2) * BytesPerLine + 1,
                                  Min({(offset + i - 1) * BytesPerLine, size}))]]
-----------------------------------------------------------------------------
(* The pages of a PDF: as text, or as images.                              *)
DefaultMaxPages == 3
DefaultImagePages == 2
MaxPagesPerCall == 4
MaxPagePixels == 2
MaxCallPixels == 4
MaxImagePayloadBytes == 3

ParsePages(pages, total, mode) ==
    CASE pages.of = "none" /\ mode = "text" /\ total > DefaultMaxPages -> <<>>
      [] pages.of = "none" -> [i \in 1..(IF mode = "text" THEN total ELSE Min({total, DefaultImagePages})) |-> i]
      [] pages.of = "range" /\ \/ pages.first > pages.last \/ pages.first = 0
                               \/ pages.last > total
                               \/ pages.last - pages.first + 1 > MaxPagesPerCall -> <<>>
      [] OTHER -> [i \in 1..(pages.last - pages.first + 1) |-> pages.first + i - 1]

PdfTerminalNote(first, last, total) ==
    IF last = total THEN [complete |-> TRUE, next |-> [of |-> "none"]]
    ELSE [complete |-> FALSE,
          next |-> [of |-> "range", first |-> last + 1, last |-> Min({2 * last - first + 1, total})]]
NoText(page) == page.lines = 0
PageTokens(page) == 1 + page.lines
RenderText(pages, total, no_text, truncated) ==
    LET note == PdfTerminalNote(Head(pages).number, Last(pages).number, total)
        shown == [kind |-> "pages", pages |-> pages, noted |-> no_text, truncated |-> truncated] @@ note
    IN  [tokens |-> FoldLeft(LAMBDA sum, p : sum + PageTokens(p), 0, pages)
                    + Cardinality({n \in {1} : no_text}) + Cardinality({n \in {1} : truncated})
                    + (IF note.complete THEN 1 ELSE 2),
         answer |-> shown]
TruncateFirstPage(page, total, budget) ==
    LET cut(count) == RenderText(<<[page EXCEPT !.lines = count]>>, total, FALSE, TRUE)
        fitting == {count \in 0..(page.lines - 1) : cut(count).tokens <= budget}
    IN  IF NoText(page) \/ fitting = {} THEN TooSmall ELSE cut(Max(fitting)).answer
FormatTextPages(pages, total, budget) ==
    LET no_text == \A i \in DOMAIN pages : NoText(pages[i])
        render(shown) == RenderText(SubSeq(pages, 1, shown), total, no_text, FALSE)
        fitting == {shown \in DOMAIN pages : render(shown).tokens <= budget}
    IN  IF fitting = {} THEN TruncateFirstPage(pages[1], total, budget) ELSE render(Max(fitting)).answer

PreflightFails(pages) ==
    \/ \E i \in DOMAIN pages : pages[i].pixels > MaxPagePixels
    \/ FoldLeft(LAMBDA sum, p : sum + p.pixels, 0, pages) > MaxCallPixels
CollectImages(pages, total) ==
    LET payload(shown) == FoldLeft(LAMBDA sum, p : sum + p.bytes, 0, SubSeq(pages, 1, shown))
        delivered == Max({shown \in 0..Len(pages) : payload(shown) <= MaxImagePayloadBytes})
    IN  IF delivered = 0 THEN Refused
        ELSE [kind |-> "images", pages |-> SubSeq(pages, 1, delivered)]
             @@ PdfTerminalNote(pages[1].number, pages[delivered].number, total)
ReadPdf(document, pages, mode, budget) ==
    LET total == Len(document)
        selected == ParsePages(pages, total, mode)
        chosen == [i \in DOMAIN selected |-> document[selected[i]]]
    IN  IF total = 0 THEN Message("corrupted")
        ELSE IF selected = <<>> THEN Refused
        ELSE IF mode = "text" THEN FormatTextPages(chosen, total, budget)
        ELSE IF PreflightFails(chosen) THEN Refused
        ELSE CollectImages(chosen, total)
-----------------------------------------------------------------------------
(* One file: what it is decides how it is read.                            *)
MaxImageBytes == 3
Problem(file) ==
    CASE file.is \in {"relative", "missing"} -> "missing"
      [] file.is \in {"directory", "special", "unreadable"} -> file.is
      [] OTHER -> "none"
ReadImage(file) ==
    IF Len(file.text) > MaxImageBytes THEN Message("too large")
    ELSE IF file.magic THEN [kind |-> "image", bytes |-> file.text] ELSE Message("unreadable image")
ReadFile(file, r, budget, merges) ==
    IF Problem(file) # "none" THEN Message(Problem(file))
    ELSE IF r.view = "hex"
    THEN IF r.present # {} THEN Refused ELSE ReadHexFile(file, r.offset, r.limit, budget)
    ELSE IF file.is = "pdf"
    THEN IF "encoding" \in r.present THEN Refused ELSE ReadPdf(file.pages, r.pages, r.mode, budget)
    ELSE IF r.present \cap {"pages", "pdf_mode"} # {} THEN Refused
    ELSE IF file.is = "image"
    THEN IF "encoding" \in r.present THEN Refused ELSE ReadImage(file)
    ELSE ReadTextFile(file, r.offset, r.limit, budget, merges)
-----------------------------------------------------------------------------
(* Several ranges of several texts in one answer.                          *)
MaxBatchEntries == 3
BatchContent(file, offset, total, read) ==
    [kind |-> "content", first |-> offset, lines |-> read.rendered, total |-> total,
     known |-> file.known, transcoded |-> file.transcoded, complete |-> ~read.saturated]
ReadBatchText(file, entry, budget) ==
    LET offset == Default(entry.offset, 1)
        window == Window(file, offset, Default(entry.limit, UnboundedLineLimit), budget)
        total == TotalLines(file.text)
    IN  IF Validated(file) # "ok" THEN Message(Validated(file))
        ELSE IF total < offset THEN [kind |-> "short", total |-> total]
        ELSE BatchContent(file, offset, total, Collect(window, file.text))
PrepareEntry(file, entry, budget) ==
    CASE Problem(file) # "none" -> Message(Problem(file))
      [] file.is \in {"pdf", "image"} -> Message("read apart")
      [] OTHER -> ReadBatchText(file, entry, budget)

NothingPending == [path |-> 0, offset |-> Unset, limit |-> Unset]
ProgressAfter_SameLine(entry, content, shown) ==
    LET last == content.first + shown - 1
    IN  IF last >= content.total THEN NothingPending
        ELSE [path |-> entry.path, offset |-> last,
              limit |-> IF entry.limit > shown THEN entry.limit - shown ELSE Unset]
ProgressAfter(entry, content, shown) ==
    LET last == content.first + shown - 1
    IN  IF last >= content.total THEN NothingPending
        ELSE [path |-> entry.path, offset |-> last + 1,
              limit |-> IF entry.limit > shown THEN entry.limit - shown ELSE Unset]
ContentSegment(entry, content, shown) ==
    [path |-> entry.path, kind |-> "content", first |-> content.first, lines |-> SubSeq(content.lines, 1, shown),
     noted |-> content.transcoded, total |-> IF content.known THEN content.total ELSE Unset]
MessageSegment(entry, message) ==
    [path |-> entry.path, kind |-> message.kind, first |-> 0, lines |-> <<>>, noted |-> FALSE, total |-> Unset]

Pending(progress) == SelectSeq(progress, LAMBDA p : p # NothingPending)
ResponseTokens(segments, progress, merges) ==
    FoldLeft(LAMBDA sum, s : sum + 2 + (IF s.noted THEN 1 ELSE 0) + AssembledTokens(s.lines, merges), 0, segments)
      + FoldLeft(LAMBDA sum, p : sum + 1 + (IF p.limit = Unset THEN 0 ELSE 1), 1, Pending(progress))
CandidateFits(b, segment, index, proposed, budget, merges) ==
    ResponseTokens(Append(b.segments, segment), [b.progress EXCEPT ![index] = proposed], merges) <= budget
LargestFittingPrefix(b, entry, content, index, budget, merges) ==
    LET maximum == Len(content.lines)
        fits(shown) == CandidateFits(b, ContentSegment(entry, content, shown), index,
                                     ProgressAfter(entry, content, shown), budget, merges)
        search[low \in 1..(maximum + 1), high \in 0..maximum, best \in 0..maximum] ==
            LET middle == low + (high - low) \div 2
            IN  IF low > high THEN best
                ELSE IF fits(middle) THEN search[middle + 1, high, Max({best, middle})]
                ELSE search[low, middle - 1, best]
    IN  IF fits(maximum) THEN maximum ELSE IF maximum <= 1 THEN 0 ELSE search[1, maximum - 1, 0]

(* The next entry is put into the answer, as much of it as fits: what does *)
(* not fit ends the answer.                                                *)
StopPacking(b) == [b EXCEPT !.going = FALSE, !.small = b.segments = <<>>]
PackLines(b, entry, content, index, shown) ==
    IF shown = 0 THEN StopPacking(b)
    ELSE [b EXCEPT !.segments = Append(@, ContentSegment(entry, content, shown)),
                   !.progress[index] = ProgressAfter(entry, content, shown),
                   !.going = shown = Len(content.lines) /\ content.complete]
PackPrepared(b, entry, prepared, index, budget, merges) ==
    IF prepared.kind = "content"
    THEN PackLines(b, entry, prepared, index,
                   LargestFittingPrefix(b, entry, prepared, index, budget, merges))
    ELSE IF CandidateFits(b, MessageSegment(entry, prepared), index, NothingPending, budget, merges)
    THEN [b EXCEPT !.segments = Append(@, MessageSegment(entry, prepared)),
                   !.progress[index] = NothingPending]
    ELSE StopPacking(b)
PackEntry(b, disk, entry, index, budget, merges) ==
    PackPrepared(b, entry, PrepareEntry(disk[entry.path], entry, budget), index, budget, merges)
Packed(b) ==
    IF b.small THEN TooSmall
    ELSE [kind |-> "batch", segments |-> b.segments, next |-> Pending(b.progress)]
PackEntries(disk, entries, budget, merges) ==
    Packed(FoldLeft(LAMBDA b, index : IF b.going THEN PackEntry(b, disk, entries[index], index, budget, merges) ELSE b,
                    [segments |-> <<>>, progress |-> entries, going |-> TRUE, small |-> FALSE],
                    [i \in DOMAIN entries |-> i]))
ReadTextFiles(disk, entries, present, budget, merges) ==
    IF \/ Len(entries) \notin 1..MaxBatchEntries \/ present # {}
       \/ \E i \in DOMAIN entries : 0 \in {entries[i].offset, entries[i].limit}
       \/ \E i, j \in DOMAIN entries :
             /\ i < j /\ disk[entries[i].path].canonical = disk[entries[j].path].canonical
             /\ entries[i].offset = entries[j].offset /\ entries[i].limit = entries[j].limit
    THEN Refused
    ELSE PackEntries(disk, entries, budget, merges)
=============================================================================
