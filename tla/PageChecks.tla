------------------------------ MODULE PageChecks ------------------------------
(* Answers that are asked for page by page, over bounded inputs: those of  *)
(* grep, of a background job, and of reading a file to its end.  What is   *)
(* chosen is an input, and with it go the answers it gets.                 *)
EXTENDS Integers, Sequences, FiniteSets, SequencesExt, FiniteSetsExt, Inputs
-----------------------------------------------------------------------------
(* A grep's answer, asked for page by page.                                *)
Grep == INSTANCE GrepPages

Text(hits, trailing) == [kind |-> "text", hits |-> hits, trailing |-> trailing]
Refused == [kind |-> "refused"]
Searched ==
    {Text(h, FALSE) : h \in {<<0>>, <<2>>, <<1, 0, 0, 1>>, <<0, 1, 1, 0>>}}
        \cup {Text(h, TRUE) : h \in {<<1, 2>>, <<0, 0, 1>>}} \cup {Refused}

Grepped ==
    [files : {<<f>> : f \in Searched} \cup {<<f, g>> : f, g \in Searched}, single : {FALSE},
     mode : {"count", "content"}, only : BOOLEAN, multiline : BOOLEAN, head_limit : {0, 1, 2},
     budget : {2, 4, 7, 20}, before : 0..1, after : 0..1, valve : {3, 50}]
\cup
    [files : {<<f>> : f \in Searched}, single : {TRUE},
     mode : {"content"}, only : BOOLEAN, multiline : BOOLEAN, head_limit : {0, 1, 2},
     budget : {2, 4, 7, 20}, before : 0..2, after : 0..2, valve : {3, 50}]

(* The pages that continue one another, from the first to one that does    *)
(* not say where to continue.                                              *)
Pages(request) ==
    LET followed(page, offset, rest) ==
            IF page.terminal = "partial" /\ page.next > offset
            THEN <<page>> \o rest[page.next] ELSE <<page>>
        from[offset \in 0..20] == followed(Grep!Page(request, offset), offset, from)
    IN  from[0]

ChoosePages ==
    /\ Unchosen("pages")
    /\ \E request \in Grepped :
          /\ request.mode = "count" =>
                /\ ~request.only /\ ~request.multiline
                /\ request.before + request.after = 0 /\ request.valve = 50
          /\ input' = [of |-> "pages", request |-> request, pages |-> Pages(request)]

AllEntries(request) ==
    LET entries(file) ==
            CASE file.kind = "refused" -> <<>>
              [] file.kind = "text" /\ request.mode = "count" ->
                   IF Grep!OccurrenceTotal(file) = 0 THEN <<>>
                   ELSE <<<<0, Grep!OccurrenceTotal(file)>>>>
              [] OTHER -> FlattenSeq([n \in DOMAIN file.hits |->
                   [k \in 1..Grep!EntriesOf(request, file.hits[n]) |-> <<n, k>>]])
    IN  FlattenSeq([i \in DOMAIN request.files |->
                        Grep!Found(i, entries(request.files[i]))])

(* What a page of content shows of one file: every selected entry's line   *)
(* as a match, each once, lines in order, a separator exactly where lines  *)
(* are left out between two blocks, and no context further than asked.     *)
Framed(request, page, index) ==
    LET here == SelectSeq(page.plan, LAMBDA l : l.file = index /\ l.kind \notin {"header", "empty"})
        entries == SelectSeq(page.entries, LAMBDA e : e[1] = index)
        wanted == {e[2] : e \in ToSet(entries)}
        shown == {l.line : l \in ToSet(here)} \ {0}
        near(n, before, after) == \E m \in wanted : m - before <= n /\ n <= m + after
        file == request.files[index]
    IN  /\ {l.line : l \in {k \in ToSet(here) : k.kind = "match"}} = wanted
        /\ request.only => Len(SelectSeq(here, LAMBDA l : l.kind = "match")) = Len(entries)
        /\ ~request.only => Cardinality(ToSet(here) \ {Grep!Line("separator", index, 0, 0)})
                              = Len(SelectSeq(here, LAMBDA l : l.kind # "separator"))
        /\ \A i \in 1..(Len(here) - 1) :
              /\ here[i].kind = "separator" => here[i + 1].kind # "separator"
              /\ here[i].line # 0 /\ here[i + 1].line # 0 => here[i].line <= here[i + 1].line
        /\ \A n \in shown : near(n, request.before, request.after)
        /\ page.terminal = "complete" /\ page.depth >= Grep!Higher(request.before, request.after)
             /\ request.valve = 50
           => shown = {n \in 1..Grep!TotalLines(file) : near(n, request.before, request.after)}

(* Following the pages shows every entry once and in order, whatever the   *)
(* budget, the limits and the searches that had to be made again; the last *)
(* page says so and names every file that was skipped; no page exceeds the *)
(* budget, and with room for one entry none is refused.                    *)
PagesAreExact ==
    Chosen("pages") =>
        LET request == input.request
            pages == input.pages
            last == pages[Len(pages)]
            all == AllEntries(request)
            answered == SelectSeq(pages, LAMBDA p : p.terminal \notin {"failed", "too small"})
            told == FlattenSeq([i \in DOMAIN answered |-> answered[i].entries])
            refused == {i \in DOMAIN request.files : request.files[i].kind = "refused"}
            exact == \A i \in DOMAIN answered : ~answered[i].overflowed
        IN  /\ exact => IsPrefix(told, all)
            /\ exact /\ last.terminal \in {"complete", "nothing"} =>
                  told = all /\ last.skipped = refused
            /\ exact /\ last.terminal = "exhausted" => FALSE
            /\ last.terminal # "partial"
            /\ last.terminal = "too small" => request.budget < 4
            /\ last.terminal = "failed" =>
                  request.single /\ (refused # {} \/ request.valve < 50)
            /\ request.mode = "count" /\ last.terminal \in {"complete", "nothing"} =>
                  LET summary == Grep!Summary(request)
                  IN  /\ summary.files = Len(told) /\ summary.skipped = Cardinality(refused)
                      /\ summary.occurrences = FoldLeft(LAMBDA sum, e : sum + e[3], 0, told)
            /\ \A i \in DOMAIN answered :
                  /\ answered[i].tokens <= request.budget
                  /\ answered[i].details <= Cardinality(answered[i].skipped)
                  /\ request.mode = "content" =>
                        \A index \in DOMAIN request.files \ refused :
                           Framed(request, answered[i], index)
-----------------------------------------------------------------------------
(* A job's output and the list of jobs.                                    *)
Job == INSTANCE JobPages

Logs ==
    {[direct |-> d, oldest |-> o, lost |-> l, cost |-> c, trouble |-> t] :
        d \in BOOLEAN, o \in 1..2, l \in BOOLEAN, t \in 0..1,
        c \in UNION {[1..n -> 1..2] : n \in 0..4} \cup {<<1, 1, 2, 1, 1, 2>>, <<1, 4, 1, 1, 5>>}}

OutputPages(log, anchor, budget) ==
    LET followed(next, after, rest) ==
            IF next.kind = "page" /\ next.page.terminal.kind = "partial"
               /\ next.page.terminal.after_seq > after
            THEN <<next>> \o rest[next.page.terminal.after_seq] ELSE <<next>>
        from[after \in 0..6] ==
            followed(Job!FormatSnapshot(log, after, FALSE, budget), after, from)
    IN  from[anchor]

ChooseOutput ==
    /\ Unchosen("output")
    /\ \E log \in Logs, anchor \in 0..5, running \in BOOLEAN, budget \in {1, 3, 4, 5, 6, 8, 20} :
          /\ log.direct => log.oldest = 1 /\ ~log.lost
          /\ log.oldest > 1 => Len(log.cost) > 0
          /\ input' = [of |-> "output", log |-> log, anchor |-> anchor, budget |-> budget,
                       answer |-> Job!FormatSnapshot(log, anchor, running, budget),
                       pages |-> OutputPages(log, anchor, budget)]

Job_(id, state) == [id |-> id, running |-> state = "running", started |-> id \div 2,
                    ended |-> IF state = "running" THEN 0 ELSE 3 - id \div 2]

ListPages(records, status, limit, budget) ==
    LET followed(page, offset, rest) ==
            IF page.kind = "partial" /\ page.next > offset
            THEN <<page>> \o rest[page.next] ELSE <<page>>
        from[offset \in 0..5] ==
            followed(Job!JobList(records, status, offset, limit, budget), offset, from)
    IN  from[0]

ChooseList ==
    /\ Unchosen("list")
    /\ \E states \in [1..4 -> {"absent", "running", "ended"}],
          status \in {"running", "finished", "all"}, limit \in 1..3, budget \in {2, 3, 4, 9} :
          LET records == {Job_(id, states[id]) : id \in {i \in 1..4 : states[i] # "absent"}}
          IN  input' = [of |-> "list", status |-> status, budget |-> budget, records |-> records,
                        pages |-> ListPages(records, status, limit, budget)]

(* An answer's lines, those it says it left out, and where the log can be  *)
(* read, are together everything unread, each line once; the newest line   *)
(* is always shown; and an answer that moves the cursor moves it over      *)
(* nothing else.  Of an older record, whose files the caller cannot read,  *)
(* nothing is left out: one answer after another shows every line.         *)
OutputIsAccounted ==
    LET log == input.log
        budget == input.budget
        unread == Job!Larger(input.anchor + 1, log.oldest)..Len(log.cost)
        answer == input.answer
        omitted == UNION {r[1]..r[2] : r \in answer.page.omitted}
        pages == input.pages
        last == pages[Len(pages)]
    IN  /\ answer.kind = "too small" =>
              \/ unread = {} /\ budget < 2 + log.trouble
              \/ \E l \in unread : /\ budget < 2 + log.trouble + log.cost[l]
                                   /\ log.direct => l = Len(log.cost)
        /\ answer.kind = "page" =>
              /\ answer.page.tokens <= budget
              /\ answer.cursor \in {0, Len(log.cost)} \cup answer.page.lines
              /\ log.direct => /\ answer.page.lines \cup omitted = unread
                               /\ answer.page.lines \cap omitted = {}
                               /\ unread # {} => Len(log.cost) \in answer.page.lines
              /\ ~log.direct => /\ unread # {} => answer.cursor = Max(answer.page.lines)
                                /\ answer.page.noted <=>
                                      log.lost \/ log.oldest > input.anchor + 1
        /\ ~log.direct /\ last.kind = "page" =>
              /\ last.page.terminal.kind = "complete"
              /\ UNION {pages[i].page.lines : i \in DOMAIN pages} = unread
              /\ \A i, j \in DOMAIN pages : i < j =>
                    \A a \in pages[i].page.lines, b \in pages[j].page.lines : a < b

(* The pages of a list show every job it was asked for once, the running   *)
(* ones first and the newest of each first.                                *)
ListIsComplete ==
    LET pages == input.pages
        last == pages[Len(pages)]
        jobs == FlattenSeq([i \in 1..(Len(pages) - 1) |-> pages[i].jobs])
                \o (IF last.kind = "complete" THEN last.jobs ELSE <<>>)
    IN  /\ last.kind = "too small" => input.budget < 3
        /\ last.kind = "complete" =>
              /\ ToSet(jobs) = Job!Wanted(input.records, input.status)
              /\ Len(jobs) = Cardinality(ToSet(jobs))
              /\ \A i, j \in DOMAIN jobs : i < j =>
                    /\ jobs[j].running => jobs[i].running
                    /\ jobs[i].running = jobs[j].running =>
                          IF jobs[i].running THEN jobs[i].started >= jobs[j].started
                          ELSE jobs[i].ended >= jobs[j].ended

JobsAreAccounted ==
    /\ Chosen("output") => OutputIsAccounted
    /\ Chosen("list") => ListIsComplete
-----------------------------------------------------------------------------
(* Reading files to their end by what each answer says to go on with.      *)
Read == INSTANCE ReadPages

Strings(symbols, length) == UNION {[1..n -> symbols] : n \in 0..length}
TextFile(text, known, transcoded) ==
    [is |-> "text", text |-> text, known |-> known, transcoded |-> transcoded, magic |-> FALSE, pages |-> <<>>,
     canonical |-> 1]
LongTexts == {<<"a", "a", "cr", "nl", "a", "a", "a", "cr", "nl", "a">>, <<"a", "nl", "nl", "a", "a", "a", "a">>,
              <<"nl", "a", "nl", "a", "a", "nl", "a", "nl">>}

ReadOn(file, offset, limit, budget, merges) ==
    LET followed(page, rest) ==
            IF page.kind = "lines" /\ ~page.complete THEN <<page>> \o rest[page.next] ELSE <<page>>
        from[at \in 1..20] == followed(Read!ReadTextFile(file, at, limit, budget, merges), from)
    IN  from[Read!Default(offset, 1)]

ChooseRead ==
    /\ Unchosen("read")
    /\ \E text \in Strings({"a", "cr", "nl"}, 4) \cup LongTexts, known \in BOOLEAN, merges \in BOOLEAN,
          offset \in {Read!Unset, 2}, limit \in {Read!Unset, 1, 2}, budget \in {3, 4, 5, 6, 7, 9, 30} :
          LET file == TextFile(text, known, merges)
          IN  input' = [of |-> "read", file |-> file, offset |-> offset, budget |-> budget, merges |-> merges,
                        pages |-> ReadOn(file, offset, limit, budget, merges)]

OtherKinds == {"missing", "directory", "unreadable", "binary", "rejected", "pdf", "image"}
SomeTexts == {<<>>, <<"a", "nl", "a", "a", "a", "nl", "cr", "nl", "a">>, <<"nl", "a", "a">>}
Disks ==
    {[path \in 1..3 |-> [(CASE path = 1 -> TextFile(first, known, known)
                           [] path = 2 -> [TextFile(second, TRUE, FALSE) EXCEPT !.is = is]
                           [] OTHER -> TextFile(<<"a", "nl", "nl">>, TRUE, FALSE)) EXCEPT !.canonical = path]] :
        first \in SomeTexts \ {<<>>}, known \in BOOLEAN,
        second \in SomeTexts \ {<<"nl", "a", "a">>}, is \in {"text"} \cup OtherKinds}
RangeEntry(path, offset, limit) == [path |-> path, offset |-> offset, limit |-> limit]
RECURSIVE BatchFrom(_, _, _, _, _)
BatchOnward(disk, page, calls, budget, merges) ==
    IF page.kind = "batch" /\ page.next # <<>> /\ calls > 0
    THEN <<page>> \o BatchFrom(disk, page.next, calls - 1, budget, merges) ELSE <<page>>
BatchFrom(disk, entries, calls, budget, merges) ==
    BatchOnward(disk, Read!ReadTextFiles(disk, entries, {}, budget, merges), calls, budget, merges)

ChooseBatch ==
    /\ Unchosen("batch")
    /\ \E disk \in Disks, merges \in BOOLEAN, budget \in {6, 8, 9, 11, 13, 15, 18, 50},
          offset \in {Read!Unset, 2, 5}, limit \in {Read!Unset, 1, 2} :
          /\ disk[2].is # "text" => disk[2].text = <<>> /\ offset # 5
          /\ \E paths \in {<<1, 2, 3>>, <<2, 3, 1>>} :
                LET entries == [i \in 1..3 |-> RangeEntry(paths[i], IF i = 1 THEN Read!Unset ELSE offset,
                                                          IF i = 3 THEN Read!Unset ELSE limit)]
                IN  input' = [of |-> "batch", disk |-> disk, budget |-> budget, merges |-> merges,
                              entries |-> entries, pages |-> BatchFrom(disk, entries, 20, budget, merges)]

DumpOn(file, offset, limit, budget) ==
    LET followed(page, rest) ==
            IF page.kind = "hex" /\ ~page.complete THEN <<page>> \o rest[page.next] ELSE <<page>>
        from[at \in 1..9] ==
            followed(Read!ReadFile(file, [view |-> "hex", present |-> {}, offset |-> at, limit |-> limit],
                                   budget, FALSE), from)
    IN  from[Read!Default(offset, 1)]

ChooseDump ==
    /\ Unchosen("dump")
    /\ \E size \in 0..9, offset \in {Read!Unset, 2, 7}, limit \in {Read!Unset, 1, 2}, budget \in {3, 4, 5, 7, 30} :
          LET file == [TextFile([i \in 1..size |-> i], TRUE, FALSE) EXCEPT !.is = "binary"]
          IN  input' = [of |-> "dump", offset |-> offset, limit |-> limit, budget |-> budget, file |-> file,
                        pages |-> DumpOn(file, offset, limit, budget)]

PdfPage(number, of) == [number |-> number, lines |-> of[1], pixels |-> of[2], bytes |-> of[3]]
RECURSIVE PdfFrom(_, _, _, _)
PdfOnward(document, page, mode, budget) ==
    IF page.kind \in {"pages", "images"} /\ ~page.complete
    THEN <<page>> \o PdfFrom(document, page.next, mode, budget) ELSE <<page>>
PdfFrom(document, selected, mode, budget) ==
    PdfOnward(document, Read!ReadPdf(document, selected, mode, budget), mode, budget)

ChoosePdf ==
    /\ Unchosen("pdf")
    /\ \E kinds \in Strings({<<0, 1, 1>>, <<1, 2, 2>>, <<3, 1, 3>>}, 5), mode \in {"text", "image"},
          first \in 0..2, last \in {0, 1, 3, 5}, budget \in {2, 3, 4, 6, 30} :
          /\ mode = "image" => budget = 30
          /\ first = 0 <=> last = 0
          /\ LET selected == IF first = 0 THEN [of |-> "none"]
                             ELSE [of |-> "range", first |-> first, last |-> last]
                 document == [i \in DOMAIN kinds |-> PdfPage(i, kinds[i])]
             IN  input' = [of |-> "pdf", budget |-> budget, selected |-> selected, document |-> document,
                           pages |-> PdfFrom(document, selected, mode, budget)]
-----------------------------------------------------------------------------
(* What the lines of a text are, and what is shown of each.                *)
ShownLine(number, line) ==
    LET text == IF line # <<>> /\ Last(line) = "cr" THEN Front(line) ELSE line
    IN  [line |-> number, text |-> SubSeq(text, 1, Min({Len(text), Read!MaxLineChars})),
         cut |-> IF Len(text) > Read!MaxLineChars THEN Len(text) ELSE 0]
TextLines(text) ==
    LET ends == SetToSortSeq({i \in DOMAIN text : text[i] = "nl"} \cup {0, Len(text) + 1}, <)
    IN  IF text = <<>> THEN <<>>
        ELSE [n \in 1..(Len(ends) - 1) |-> ShownLine(n, SubSeq(text, ends[n] + 1, ends[n + 1] - 1))]
From(lines, offset) == IF offset > Len(lines) THEN <<>> ELSE SubSeq(lines, offset, Len(lines))

(* Whoever reads a text on as each answer says reads every line once; the  *)
(* number of lines is right; and an answer that says to go on leaves       *)
(* something, unless newlines cost less together than one by one.          *)
TextIsReadThrough ==
    Chosen("read") =>
        LET file == input.file
            offset == Read!Default(input.offset, 1)
            lines == TextLines(file.text)
            pages == input.pages
            last == Last(pages)
            shown == FlattenSeq([i \in DOMAIN pages |-> IF pages[i].kind = "lines" THEN pages[i].lines ELSE <<>>])
        IN  /\ IsPrefix(shown, From(lines, offset))
            /\ last.kind \in {"lines", "empty", "short"} => shown = From(lines, offset)
            /\ last.kind = "empty" <=> lines = <<>>
            /\ last.kind = "short" => Len(pages) = 1 \/ input.merges
            /\ last.kind = "too small" => input.budget < 4 + 3
            /\ \A i \in DOMAIN pages :
                  /\ pages[i].kind = "lines" => pages[i].total \in {Len(lines)} \cup (IF file.known THEN {} ELSE {Read!Unset})
                  /\ pages[i].kind = "short" => pages[i].total = Len(lines)

(* So of several ranges in one answer: each entry goes on where it         *)
(* stopped, and is answered as if it had been asked for alone.             *)
BatchIsReadThrough ==
    Chosen("batch") =>
        LET pages == input.pages
            whole == Last(pages).kind = "batch" /\ Last(pages).next = <<>>
            segments == FlattenSeq([i \in DOMAIN pages |-> IF pages[i].kind = "batch" THEN pages[i].segments ELSE <<>>])
            of(path) == SelectSeq(segments, LAMBDA s : s.path = path)
            shown(path) == FlattenSeq([i \in DOMAIN of(path) |-> of(path)[i].lines])
        IN  /\ ~whole => input.budget < 8 + 2 * Len(input.entries)
            /\ \A e \in ToSet(input.entries) :
                  LET file == input.disk[e.path]
                      alone == Read!ReadTextFile(file, e.offset, e.limit, 90, input.merges)
                      asked == From(TextLines(file.text), Read!Default(e.offset, 1))
                      content == file.is = "text" /\ alone.kind = "lines"
                  IN  /\ content => IsPrefix(shown(e.path), asked) /\ (whole => shown(e.path) = asked)
                      /\ content /\ of(e.path) # <<>> /\ e.limit # Read!Unset => Len(Head(of(e.path)).lines) <= e.limit
                      /\ whole /\ ~content =>
                            /\ Len(of(e.path)) = 1
                            /\ file.is = "text" => of(e.path)[1].kind = alone.kind
                            /\ file.is \in {"binary", "rejected", "missing", "directory", "unreadable"}
                                 => of(e.path)[1].kind = Read!ReadFile(file, [view |-> "auto", present |-> {},
                                       offset |-> e.offset, limit |-> e.limit], 90, input.merges).kind

(* A dump shows every byte once.                                           *)
DumpIsReadThrough ==
    Chosen("dump") =>
        LET offset == Read!Default(input.offset, 1)
            pages == input.pages
            shown == FlattenSeq([i \in DOMAIN pages |-> IF pages[i].kind = "hex" THEN FlattenSeq(pages[i].lines) ELSE <<>>])
        IN  /\ IsPrefix(shown, From(input.file.text, Read!BytesPerLine * (offset - 1) + 1))
            /\ Last(pages).kind # "too small" => shown = From(input.file.text, Read!BytesPerLine * (offset - 1) + 1)
            /\ Last(pages).kind = "too small" => input.budget < 4

(* The pages of a PDF are each shown once, whole or with a word about what *)
(* is missing; only a page that cannot be shown at all ends the reading.   *)
PdfIsReadThrough ==
    Chosen("pdf") =>
        LET total == Len(input.document)
            pages == input.pages
            last == Last(pages)
            shown == FlattenSeq([i \in DOMAIN pages |-> IF pages[i].kind \in {"pages", "images"} THEN pages[i].pages ELSE <<>>])
            first == IF input.selected.of = "none" THEN 1 ELSE input.selected.first
        IN  /\ \A i \in DOMAIN shown : shown[i].number = first + i - 1
            /\ last.kind \in {"pages", "images"} => last.complete /\ Len(shown) = total - first + 1
            /\ \A i \in DOMAIN pages : pages[i].kind = "pages" =>
                  /\ \A j \in DOMAIN pages[i].pages :
                        LET page == pages[i].pages[j]
                        IN  page = input.document[page.number] \/ (pages[i].truncated /\ Len(pages[i].pages) = 1)
                  /\ pages[i].noted => \A j \in DOMAIN pages[i].pages : input.document[pages[i].pages[j].number].lines = 0
            /\ last.kind = "too small" => input.budget < 4

-----------------------------------------------------------------------------
(* The engine of PDFs: servers that release and load it, and calls that    *)
(* share it, one step at a time.                                           *)
Engine == INSTANCE PdfEngine

Found == [Engine!Places -> {"nothing", "part", "whole", "link"}]
Odd == [directories : SUBSET Engine!Places, locks : {{}, {"cache"}}]
ChooseEngine ==
    /\ Unchosen("engine")
    /\ \/ \E found \in Found, odd \in Odd :
             input' = [of |-> "engine", library |-> Engine!Fresh(found, odd, {"s1", "s2"}), calls |-> Engine!Calls({})]
       \/ input' = [of |-> "engine", library |-> Engine!Fresh([p \in Engine!Places |-> "nothing"], [directories |-> {}, locks |-> {}], {}),
                    calls |-> Engine!Calls({"c1", "c2", "c3"})]
ReleaseEngine ==
    /\ Chosen("engine") /\ DOMAIN input.library.server # {}
    /\ \E library \in Engine!ReleaseSteps(input.library) : input' = [input EXCEPT !.library = library]
UseEngine ==
    /\ Chosen("engine")
    /\ \E calls \in Engine!CallSteps(input.calls) : input' = [input EXCEPT !.calls = calls]

(* Only a whole library is loaded, unless it was damaged after the last    *)
(* look at it; and where nothing goes wrong, every server has it loaded,   *)
(* whatever was in its place before and whoever releases it beside it.     *)
LibrariesAreWhole ==
    Chosen("engine") =>
        LET library == input.library
            usable(place) == place \notin (library.odd.directories \cup library.odd.locks)
        IN  \A s \in DOMAIN library.server :
                /\ library.server[s].step = "loaded something else" => library.server[s].unseen
                /\ library.server[s].step = "failed" =>
                       (library.trouble > 0 \/ \A place \in Engine!Places : ~usable(place))
                /\ Engine!ReleaseSteps(library) = {} =>
                       library.server[s].step \in {"loaded", "loaded something else", "failed", "dead"}

(* One document is worked on at a time; none is begun once the engine is   *)
(* given up; only who was served has a document, and nobody waits for a    *)
(* thread that is stuck.                                                   *)
EnginesAreShared ==
    Chosen("engine") =>
        LET calls == input.calls
            working == {c \in DOMAIN calls.call : calls.call[c].thread \in {"initialize", "working"}}
        IN  /\ Cardinality(working) <= 1
            /\ \A c \in working : ~calls.call[c].late
            /\ \A c \in DOMAIN calls.call :
                   /\ calls.call[c].caller = "document" => calls.call[c].outcome = "document"
                   /\ calls.call[c].caller = "timed out" => calls.degraded
                   /\ calls.call[c].caller = "waiting" => Engine!Run(calls, c) # {}
                   /\ (calls.degraded /\ calls.call[c].caller = "new") =>
                          \A next \in Engine!Run(calls, c) : next.call[c].thread = "none"

ReadsAreExact ==
    /\ TextIsReadThrough /\ BatchIsReadThrough /\ DumpIsReadThrough /\ PdfIsReadThrough
    /\ LibrariesAreWhole /\ EnginesAreShared
=============================================================================
