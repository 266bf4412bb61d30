----------------------------- MODULE FileChecks ------------------------------
(* The finding of files, the pages of glob, and the texts of files, over   *)
(* bounded inputs.                                                         *)
EXTENDS Integers, Sequences, FiniteSets, SequencesExt, FiniteSetsExt, Inputs, TLC
-----------------------------------------------------------------------------
(* The finding of files and the pages of glob.                             *)
Search == INSTANCE Walk

Entry(path, type, stat, target) ==
    [path |-> path, key |-> 1, type |-> type, stat |-> stat, target |-> target,
     modified |-> path % 3, panics |-> FALSE]
Broken(error) == [Entry(0, "error", "other", "other") EXCEPT !.type = "error"] @@ [error |-> error]
Io(cause) == [is |-> "io", cause |-> cause]

Root == Entry(0, "directory", "other", "other")
NoRoot == Broken([is |-> "path", path |-> 0, err |-> Io(1)])

Entries ==
    {Entry(1, "file", "file", "file"), Entry(2, "file", "timeless", "file"),
     Entry(3, "link", "other", "file"), Entry(4, "link", "other", "missing"),
     Entry(5, "file", "denied", "denied"),
     [Entry(6, "file", "file", "file") EXCEPT !.panics = TRUE],
     [Entry(1, "file", "file", "file") EXCEPT !.key = 2],
     Broken([is |-> "partial",
             errors |-> <<[is |-> "line", err |-> [is |-> "glob"]],
                          [is |-> "path", path |-> 5, err |-> Io(1)]>>]),
     Broken([is |-> "loop", child |-> 2])}

Trees == {<<NoRoot>>, <<Root>>}
         \cup {<<Root, e>> : e \in Entries}
         \cup {<<Root>> \o tree : tree \in {t \in [1..3 -> Entries] : IsInjective(t)}}

Pattern(excluded, paths) == [bad |-> FALSE, excluded |-> excluded, paths |-> paths]
Filters == {<<Pattern(FALSE, 1..6)>>, <<Pattern(TRUE, {1})>>,
            <<Pattern(FALSE, 1..4), Pattern(TRUE, {2, 4}), Pattern(FALSE, {2, 5})>>}

ChooseWalk ==
    /\ Unchosen("walk")
    /\ \E tree \in Trees, filter \in Filters, mode \in {"search", "path"},
          limit \in {0, 1}, threads \in [1..2 -> {1, 2}], cancel \in {2, 5} :
          /\ mode = "search" => limit = 0
          /\ cancel = 2 => filter = <<Pattern(FALSE, 1..6)>>
          /\ \E thread \in {SubSeq(<<1, 1>> \o threads, 1, Len(tree))} :
                input' = [of |-> "walk", tree |-> tree, filter |-> filter, mode |-> mode,
                          limit |-> limit, cancel |-> cancel, thread |-> thread,
                          serial |-> Search!CollectSerial(tree, Search!Compile(filter), mode, limit, cancel),
                          parallel |-> [leaving \in {<<1, 2>>, <<2, 1>>} |->
                              Search!CollectParallel(tree, thread, leaving, Search!Compile(filter),
                                                     mode, limit, cancel)]]

Item(path, key, modified) == [path |-> path, key |-> key, modified |-> modified]
ChooseSort ==
    /\ Unchosen("sort")
    /\ \E n \in 0..7, seed \in 0..59, sort \in {"path", "modified"},
          fate \in [1..4 -> {"inline", "worker", "panics"}], cancelled \in BOOLEAN :
          /\ fate[1] = "inline" /\ (cancelled => fate[2] = "inline")
          /\ input' = [of |-> "sort", sort |-> sort, fate |-> fate, cancelled |-> cancelled,
                       items |-> [i \in 1..n |->
                           Item(((i * (2 * (seed % 4) + 1)) + seed \div 4) % 8, i % 2,
                                (i * i + seed) % 3)]]

ChooseGlobPage ==
    /\ Unchosen("glob")
    /\ \E total \in 0..6, listed \in 0..4, more \in {0, 3}, limit \in {1, 3, 9}, budget \in 1..12 :
          /\ more > 0 => listed = 4
          /\ input' = [of |-> "glob", total |-> total, limit |-> limit, budget |-> budget,
                       report |-> [unreachable |-> listed + more, listed |-> listed]]
-----------------------------------------------------------------------------
Increasing(sort, items) ==
    \A i, j \in DOMAIN items : i < j => ~Search!Before(sort, items[j], items[i])

(* However the entries fall to the threads, a parallel walk comes to what  *)
(* a serial one does: every file that passes the filter is found, or told  *)
(* unreachable, or is no regular file; a limit passed or a cancellation    *)
(* never passes for a result, and neither does a root that is not there.   *)
WalkIsComplete ==
    LET tree == input.tree
        filter == Search!Compile(input.filter)
        passes(path) ==
            /\ \E i \in DOMAIN input.filter :
                  input.filter[i].excluded => \A j \in DOMAIN input.filter : input.filter[j].excluded
            /\ \A i \in DOMAIN input.filter : input.filter[i].excluded => path \notin input.filter[i].paths
            /\ (\E i \in DOMAIN input.filter : ~input.filter[i].excluded) =>
                  \E i \in DOMAIN input.filter :
                     ~input.filter[i].excluded /\ path \in input.filter[i].paths
        sort == IF input.mode = "path" THEN "path" ELSE "modified"
        fate == [c \in 1..4 |-> "inline"]
        sorted(items) == Search!SortCancelable(sort, items, fate, FALSE).items
        candidates(outcome) == Search!SearchCandidates(Root, filter, outcome, fate, FALSE)
        glob(outcome) ==
            Search!GlobFiles(Search!Request(3, 0, "path", 9), filter, outcome, fate, FALSE)
        entries == {tree[i] : i \in DOMAIN tree}
        errors == UNION {ToSet(Search!ErrorFailures(e.error, 0)) : e \in {f \in entries : f.type = "error"}}
        files == {e \in entries : e.type \in {"file", "link"} /\ passes(e.path)}
        gone(e) == e.target \in {"other", "missing"}
        excused(e) == input.mode = "path" /\ e.type = "file"
        open(e) == ~e.panics /\ (excused(e) \/ (e.target = "file" /\ e.stat # "timeless"))
        failures == errors \cup
            {Search!Failure(e.path, IF e.panics THEN 9 ELSE IF e.stat = "timeless" THEN 7 ELSE 1) :
                e \in {f \in files : ~open(f) /\ ~gone(f)}}
        found == {[path |-> e.path, key |-> e.key,
                   modified |-> IF input.mode = "path" THEN 0 ELSE e.modified] :
                     e \in {f \in files : open(f)}}
        reported(skips) ==
            /\ skips.entries \subseteq failures
            /\ Search!SkippedTotal(skips) >= Cardinality(failures)
            /\ Cardinality(failures) <= Search!DetailCap =>
                  skips.entries = failures /\ skips.beyond = 0
        listed(told, items) == told.files = items /\ told.answer.total = Cardinality(found)
        same(outcome, items) ==
            IF input.cancel <= Len(tree) THEN outcome.result \in {"cancelled", "too many"}
            ELSE IF \A e \in entries : e.type = "error"
            THEN outcome.result = "failed" /\ {outcome.why} = Search!Lowest(failures)
            ELSE IF input.limit > 0 /\ Cardinality(found) > input.limit
            THEN outcome.result = "too many"
            ELSE /\ outcome.result = "collected"
                 /\ ToSet(outcome.items) = found /\ Len(outcome.items) = Cardinality(found)
                 /\ reported(outcome.skipped)
                 /\ Increasing(sort, sorted(outcome.items))
                 /\ sorted(outcome.items) = items
                 /\ IF input.mode = "search" THEN candidates(outcome).items = items
                    ELSE listed(glob(outcome), items)
        named(e) == Search!SearchCandidates(e, filter, input.serial, fate, FALSE)
        outcomes == {input.serial} \cup Range(input.parallel)
    IN  /\ \A outcome \in outcomes : same(outcome, sorted(input.serial.items))
        /\ \A e \in {f \in entries : f.type = "file"} :
              IF e.stat # "file" THEN named(e).result = "failed"
              ELSE named(e).items = IF passes(e.path) THEN <<Item(e.path, e.key, e.modified)>>
                                    ELSE <<>>

(* A sort gives all items in order, equal ones as they came, or nothing.   *)
SortIsStable ==
    LET outcome == Search!SortCancelable(input.sort, input.items, input.fate, input.cancelled)
        items == input.items
        rank(i) == Cardinality({j \in DOMAIN items :
            \/ Search!Before(input.sort, items[j], items[i])
            \/ ~Search!Before(input.sort, items[i], items[j]) /\ j < i})
    IN  IF input.cancelled THEN outcome.result = "cancelled"
        ELSE \/ outcome.result = "failed" /\ \E c \in 2..4 : input.fate[c] = "panics"
             \/ /\ outcome.result = "sorted" /\ Len(outcome.items) = Len(items)
                /\ \A i \in DOMAIN items : outcome.items[rank(i) + 1] = items[i]

(* Following the offsets of glob's pages shows every file once, in order,  *)
(* and with each page as many of the unreachable paths as the budget holds *)
(* and never a file fewer for their sake.                                  *)
GlobIsExact ==
    LET page(offset) ==
            Search!FormatMatches(input.total, input.report, offset, input.limit, input.budget)
        tokens(n, d) == Search!NoteTokens(n, input.report, d)
        fits(n) == tokens(n, 0) <= input.budget
        told(answer, room) ==
            /\ answer.tokens = tokens(answer.shown, answer.details)
            /\ answer.tokens <= input.budget
            /\ answer.total = input.total
            /\ answer.shown < room => ~fits(answer.shown + 1)
            /\ answer.details < input.report.listed =>
                  tokens(answer.shown, answer.details + 1) > input.budget
        follow[offset \in 0..(input.total + 1)] ==
            LET answer == page(offset)
                left == input.total - offset
            IN  IF offset >= input.total
                THEN IF answer.kind = "too small" THEN ~fits(0)
                     ELSE answer.kind = "none" /\ told(answer, 0)
                ELSE IF answer.kind = "too small" THEN ~fits(1)
                ELSE /\ answer.first = offset + 1 /\ answer.shown > 0
                     /\ told(answer, Min({left, input.limit}))
                     /\ IF answer.kind = "complete" THEN answer.shown = left
                        ELSE follow[offset + answer.shown]
    IN  follow[0] /\ follow[input.total]

FilesAreFound ==
    /\ Chosen("walk") => WalkIsComplete
    /\ Chosen("sort") => SortIsStable
    /\ Chosen("glob") => GlobIsExact
-----------------------------------------------------------------------------
(* Files of a few bytes, read in pieces of every size while they change,   *)
(* against what all of their bytes are, read at once.                      *)
File == INSTANCE Snapshot

Starts == {<<>>, <<"EF", "BB", "BF">>, <<"FF", "FE">>, <<"FF", "FE", "00", "00">>}
Pieces == {<<"a">>, <<"nl">>, <<"L", "T">>, <<"T">>, <<"00">>, <<"FE", "FE">>, <<"1B", "(">>, <<"MZ">>}
Contents(start) ==
    {start \o FlattenSeq(pieces) :
        pieces \in UNION {[1..n -> Pieces] : n \in 0..(IF start = <<>> THEN 3 ELSE 2)}}
       \cup {start \o FlattenSeq([i \in 1..4 |-> IF i = last THEN <<"T">> ELSE <<"L", "T">>]) : last \in 3..5}
Encodings == {<<"none", "none">>, <<"none", "gbk">>, <<"none", "utf16le">>,
              <<"gbk", "none">>, <<"utf8", "none">>, <<"utf16le", "none">>}

Still(bytes, chunk, guess) ==
    [bytes |-> bytes, other |-> bytes, at |-> 0, how |-> "nothing", hint |-> TRUE, chunk |-> chunk,
     guess |-> guess[1], segment_guess |-> guess[2]]
FileRead(bytes, chunk, guess) ==
    [bytes |-> bytes, chunk |-> chunk, guess |-> guess[1], segment_guess |-> guess[2]]
ChunkSizes == {1, 2, 20}

(* The detector's guess of the file, and of its segments.  With the bytes  *)
(* go the decisions for each size of a chunk, the last for all of the file,*)
(* and what a search makes of each.                                        *)
ChooseText ==
    /\ Unchosen("text")
    /\ \E start \in Starts, encoding \in Encodings, guess \in {<<"gbk", "gbk">>, <<"gbk", "shift_jis">>, <<"windows-1252", "gbk">>} :
          \E bytes \in Contents(start) :
             /\ encoding # <<"none", "none">> => guess[2] = "gbk"
             /\ encoding[1] # "none" \/ start # <<>> => guess[1] = "gbk"
             /\ input' =
                  [of |-> "text", bytes |-> bytes, explicit |-> encoding[1], fallback |-> encoding[2],
                   decided |-> [pair \in ChunkSizes \X {encoding[1], encoding[2]} |->
                                   File!Validate(FileRead(bytes, pair[1], guess), pair[2])],
                   found |-> [pair \in ChunkSizes \X BOOLEAN |->
                                 File!SearchCandidate(Still(bytes, pair[1], guess), encoding[1],
                                                      encoding[2], pair[2])]]

Versions == {<<"a", "nl">>, <<"a", "a", "a", "L", "T", "nl", "a", "a">>, <<"a", "00", "a", "a", "a", "a">>,
             <<"L", "T", "L", "T", "T", "a">>, <<"FF", "FE", "a", "00", "a", "00", "a">>}
ChooseCapture ==
    /\ Unchosen("capture")
    /\ \E first \in Versions, second \in Versions, at \in 0..8,
          how \in {"written", "replaced", "deleted"}, hint \in BOOLEAN, chunk \in {2, 5} :
             LET world == [bytes |-> first, other |-> second, at |-> at, how |-> how, hint |-> hint,
                           chunk |-> chunk, guess |-> "gbk", segment_guess |-> "gbk"]
                 still == Still(File!HandleAt(world, 2).bytes, chunk, <<"gbk", "gbk">>)
             IN  input' = [of |-> "capture", world |-> world,
                           outcome |-> [w \in {world, still} |-> File!SearchCandidate(w, "none", "none", FALSE)]]
-----------------------------------------------------------------------------
Decision(encoding) == input.decided[<<20, encoding>>]

(* What is told of a text is so: it decodes to its last byte, its lines    *)
(* are counted, and a legacy encoding nobody asked for holds alone.        *)
LinesAreRight(decision, bytes) ==
    LET content == SubSeq(bytes, decision.bom + 1, Len(bytes))
        units == File!Decoded(decision.kind, content)
        chars == [i \in DOMAIN units.units |-> File!CharOf(decision.kind, units.units[i])]
        newlines == Cardinality({i \in DOMAIN chars : chars[i] = "nl"})
    IN  /\ ~units.malformed /\ FlattenSeq(units.units) = content
        /\ decision.lines = (IF content = <<>> THEN 0 ELSE newlines + 1)
        /\ decision.trailing = (content # <<>> /\ Last(chars) = "nl")
HardValidEncodings(bytes) == {kind \in File!Legacy : File!HardValid(kind, bytes)}
DecisionIsSound(decision, explicit) ==
    /\ decision.is = "text" => LinesAreRight(decision, input.bytes)
    /\ decision.is = "text" /\ explicit = "none" /\ decision.kind \in File!Legacy
         => /\ File!HardValid(decision.kind, input.bytes)
            /\ File!Decoded("utf8", input.bytes).malformed
    /\ decision.is = "rejected" /\ Head(decision.why) \in {"ambiguous", "undecodable"}
         => HardValidEncodings(input.bytes) = (IF Len(decision.why) = 2 THEN decision.why[2] ELSE {})
    /\ decision.is = "text" /\ decision.warning
         => ~File!Decoded("utf8", input.bytes).malformed /\ explicit \in File!Legacy

(* An edit that changes nothing writes the file as it was, byte for byte.  *)
EditIsByteForByte(decision) ==
    LET units == File!DecodeEditable(decision, input.bytes)
        written == FlattenSeq([i \in DOMAIN units |-> File!Encoded(decision.kind, units[i])])
    IN  decision.is = "text" /\ units # <<File!None>>
          => SubSeq(input.bytes, 1, decision.bom) \o written = input.bytes

(* What grep does with a file, had it read all of it before it decided.    *)
Whole ==
    LET initial == Decision(input.explicit)
        other == Decision(input.fallback)
        falls_back == /\ initial.is = "rejected" /\ Head(initial.why) # "bom mismatch"
                      /\ input.explicit = "none" /\ input.fallback # "none" /\ other.is = "text"
        searched(decision) ==
            [is |-> "searched", decision |-> decision, used_fallback |-> falls_back,
             text |-> File!DecodeForSearch(decision, input.bytes)]
    IN  IF initial.is = "text" THEN searched(initial)
        ELSE IF falls_back THEN searched(other)
        ELSE IF initial.is = "binary" THEN File!Quietly ELSE File!Skip(initial.why)

(* A file is read as what all of it is: however it is cut into pieces, and *)
(* however early the reading stops (file_snapshot.rs, encoding.rs).        *)
PiecesDoNotMatter ==
    Chosen("text") =>
        /\ \A chunk \in ChunkSizes :
              /\ input.decided[<<chunk, input.explicit>>] = Decision(input.explicit)
              /\ \A captures \in BOOLEAN : input.found[<<chunk, captures>>] = Whole
        /\ DecisionIsSound(Decision(input.explicit), input.explicit)
        /\ EditIsByteForByte(Decision(input.explicit))

(* What is searched is one version of the file: the one that was there     *)
(* when it was found and opened, and that still is when it has been read.  *)
OneVersionIsSearched ==
    Chosen("capture") =>
        LET world == input.world
            outcome == input.outcome[world]
            opened == File!HandleAt(world, 2)
        IN  outcome # File!Skip(<<"changed">>) =>
              /\ world.hint => opened = File!PathAt(world, 0)
              /\ outcome = input.outcome[Still(opened.bytes, world.chunk, <<world.guess, world.segment_guess>>)]

TextIsKept == PiecesDoNotMatter /\ OneVersionIsSearched
==============================================================================
