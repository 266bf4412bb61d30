---------------------------- MODULE CommandChecks ---------------------------
(* The budget of one answer, and the output of a foreground command, over  *)
(* bounded inputs; with an input goes the answer it gets.                  *)
EXTENDS Integers, Sequences, SequencesExt, FiniteSetsExt, TLC, Inputs

Answer == INSTANCE AnswerBudget

Calls ==
    [tool : {"read", "search", "output", "start", "run", "replace"},
     settings : [global : {Answer!Unset, 0, 2, 4, 7}, tool : {Answer!Unset, 0, 3, 6, 8}],
     jobs : 0..2, allowance : {Answer!Unguarded, 0, 1, 3, 5, 8}, exhausted : BOOLEAN,
     need : {1, 3}, size : {1, 5, 12}, note : {0, 2}, image : BOOLEAN,
     cancelled : {"no", "early", "late"}]

ChooseCall ==
    /\ Unchosen("call")
    /\ \E call \in Calls :
          /\ call.exhausted => call.allowance <= 5
          /\ call.note > 0 => call.tool = "run"
          /\ call.image => call.tool = "read"
          /\ call.cancelled # "no" => call.tool = "search"
          /\ call.need <= call.size
          /\ Answer!Variable(call.tool) = "global" => call.settings.tool = Answer!Unset
          /\ input' = [of |-> "call", call |-> call, done |-> Answer!Answered(call),
                       alone |-> Answer!Answered([call EXCEPT !.jobs = 0]).response]

(* An answer keeps to its budget and, in a guarded burst, to its allowance.*)
(* The line about background jobs never costs an answer: what fits without *)
(* it is answered.  It is left out only where the answer leaves no room,   *)
(* and shortened only where all of it does not fit.  A command or a job    *)
(* that was started is answered, but for notes nobody counted before.      *)
AnswersFit ==
    LET call == input.call
        alone == input.alone
        done == input.done
        response == done.response
        configured == Answer!ConfiguredBudget(call.settings, Answer!Variable(call.tool))
        room == Answer!ApplyCeiling(call.allowance, configured)
        needed == IF call.tool = "run" THEN Answer!Larger(Answer!RunNotes, call.need + call.note)
                  ELSE call.need
        plain == ~response.error /\ ~response.stub
        told(budget) == call.tool # "search" \/ budget >= Answer!StarvedMessage
        summary == Answer!SummaryLine + Answer!Separator
        full == Answer!FullLine(call.jobs) + Answer!Separator
    IN  /\ Answer!AccountedTokens(response) <= call.allowance
        /\ plain => response.tokens <= room
        /\ call.tool = "search" /\ call.cancelled # "late" /\ response.error
              /\ configured # Answer!Rejected
           => response.tokens <= room
        /\ plain /\ call.jobs > 0 /\ ~call.image =>
              /\ response.line = "none" => needed + summary > room
              /\ response.line # "full" => needed + full > room
        /\ (/\ ~alone.error /\ ~alone.stub
            /\ ~call.image /\ call.note = 0
            /\ (/\ told(room - full) \/ full >= room \/ room - full >= call.need
                /\ told(room - summary) \/ summary >= room \/ room - summary >= call.need))
           => plain
        /\ done.ran /\ call.allowance = Answer!Unguarded /\ call.tool # "replace"
              /\ call.note = 0
           => plain

CallsAreAnswered == Chosen("call") => AnswersFit
-----------------------------------------------------------------------------
Stream == INSTANCE StreamNormalizer
Command == INSTANCE Foreground

Glyphs == {"a", "CR", "LF", "ESC", "[", "m", "x"}
Titles == {<<"ESC", "]", "a", "BEL", "a">>, <<"ESC", "]", "a", "ESC", "\\", "LF">>,
           <<"ESC", "]", "ESC", "ESC", "\\", "a">>, <<"a", "CR", "ESC", "[", "m", "LF", "a">>,
           <<"ESC", "]", "ESC", "a", "BEL", "x">>, <<"a", "a", "a", "a", "CR">>}

(* The text as it arrives: its units in the stream's encoding behind the   *)
(* mark, cut at the given places.                                          *)
Encoded(mode, symbol) ==
    LET pad == [i \in 1..(Stream!UnitBytes(mode) - 1) |-> IF symbol = "x" THEN "y" ELSE "00"]
    IN  IF mode \in {"utf16le", "utf32le", "bytes", "utf8"} THEN <<symbol>> \o pad
        ELSE pad \o <<symbol>>

Bytes(stream) ==
    (IF stream.mode = "bytes" THEN <<>> ELSE Stream!Marks[stream.mode])
    \o FlattenSeq([i \in DOMAIN stream.text |-> Encoded(stream.mode, stream.text[i])])
    \o (IF stream.ragged THEN <<"a">> ELSE <<>>)

Chunks(bytes, cuts) ==
    LET end(i) == IF i = 0 THEN 0 ELSE IF i > Len(cuts) THEN Len(bytes)
                  ELSE Min({cuts[i], Len(bytes)})
    IN  [i \in 1..(Len(cuts) + 1) |-> SubSeq(bytes, end(i - 1) + 1, end(i))]

ChooseStream ==
    /\ Unchosen("stream")
    /\ \E text \in UNION {[1..n -> Glyphs] : n \in 0..3} \cup Titles,
          mode \in {"bytes"} \cup DOMAIN Stream!Marks, ragged \in BOOLEAN,
          cuts \in {<<1>>, <<2>>, <<3>>, <<4>>, <<1, 5>>, <<2, 3>>, <<1, 2, 3, 4, 5, 6, 7>>} :
          /\ ragged => mode \notin {"bytes", "utf8"}
          /\ LET stream == [of |-> "stream", text |-> text, mode |-> mode, ragged |-> ragged]
             IN  input' = stream @@ [lines |-> Stream!Normalized(Chunks(Bytes(stream), cuts))]

Shapes == {<<>>, <<"a">>, <<"a", "x">>, <<"y", "a", "a">>}
Line(bytes, more, mode) ==
    [bytes |-> bytes, total |-> Len(bytes) + more, mode |-> mode, terminated |-> TRUE]
Outputs ==
    UNION {[1..n -> {Line(b, 0, "bytes") : b \in Shapes}] : n \in 0..4}
        \cup [1..2 -> {Line(b, m, e) : b \in Shapes, m \in {0, 2}, e \in {"bytes", "utf16le"}}]

ChooseOutputLines ==
    /\ Unchosen("lines")
    /\ \E lines \in Outputs, requested \in {"none", "utf8", "gbk"}, detected \in {"none", "gbk"},
          misuse \in 0..1, timed_out \in BOOLEAN, budget \in {1, 3, 5, 7, 9, 16, 30} :
          /\ timed_out => misuse = 0
          /\ detected # "none" => requested = "none"
          /\ LET ring == Command!Captured(lines)
                 plan == Command!RunPlan(ring.lines, requested, detected)
             IN  input' = [of |-> "lines", lines |-> lines, misuse |-> misuse,
                           timed_out |-> timed_out, budget |-> budget, ring |-> ring, plan |-> plan,
                           answer |-> Command!FormatForeground(ring, plan, misuse, timed_out, budget)]

Looks == [status : {"running", "exited", "unknown"}, cancelled : BOOLEAN, elapsed : BOOLEAN]

Descendants == [in_tree : BOOLEAN, pipe : BOOLEAN]

ChooseRun ==
    /\ Unchosen("run")
    /\ \E looks \in [1..2 -> Looks], rest \in SUBSET Descendants,
          granted \in SUBSET {"terminate", "drop"}, root \in {"exits", "stays", "unknown"},
          readable \in BOOLEAN :
          /\ looks[2].elapsed
          /\ input' = [of |-> "run", looks |-> looks, rest |-> rest, granted |-> granted,
                       root |-> root, readable |-> readable]
-----------------------------------------------------------------------------
(* Where the text goes on after what begins at i.                          *)
After(text, i) ==
    LET n == Len(text)
        from(k, good(_)) == {j \in k..n : good(j)}
        final == from(i + 2, LAMBDA j : text[j] \in {"m", "[", "]", "\\"})
        title == from(i + 2, LAMBDA j : \/ text[j] = "BEL" /\ text[j - 1] # "ESC"
                                        \/ text[j] = "\\" /\ text[j - 1] = "ESC")
    IN  CASE text[i] # "ESC" \/ i = n -> i + 1
          [] text[i] = "ESC" /\ i < n /\ text[i + 1] = "[" ->
               IF final = {} THEN n + 1 ELSE Min(final) + 1
          [] text[i] = "ESC" /\ i < n /\ text[i + 1] = "]" ->
               IF title = {} THEN n + 1 ELSE Min(title) + 1
          [] OTHER -> i + 2

Visible(text) ==
    LET from[i \in 1..(Len(text) + 2)] ==
            IF i > Len(text) THEN <<>>
            ELSE (IF text[i] = "ESC" THEN <<>> ELSE <<text[i]>>) \o from[After(text, i)]
    IN  from[1]

(* The lines of a text: they end in CR LF, CR or LF.                       *)
LinesOf(text) ==
    LET n == Len(text)
        ends == {j \in 1..n : \/ text[j] = "LF"
                              \/ text[j] = "CR" /\ (j = n \/ text[j + 1] # "LF")}
        first == [j \in 1..n |-> IF {k \in ends : k < j} = {} THEN 1
                                 ELSE Max({k \in ends : k < j}) + 1]
        body(j) == SelectSeq(SubSeq(text, first[j], j), LAMBDA s : s \notin {"CR", "LF"})
        at == SetToSortSeq(ends \cup (IF n = 0 THEN {} ELSE {n}), LAMBDA a, b : a < b)
    IN  [i \in DOMAIN at |-> [text |-> body(at[i]), terminated |-> at[i] \in ends]]

(* However the output arrives, its lines are those of its text, with no    *)
(* escapes, each with its length and its first bytes.                      *)
StreamIsKept ==
    LET lines == input.lines
        mode == IF input.mode = "utf8" THEN "bytes" ELSE input.mode
        text == Visible(input.text) \o (IF input.ragged THEN <<"odd">> ELSE <<>>)
        raw(symbol) == IF symbol = "odd" THEN <<"a">> ELSE Encoded(mode, symbol)
        told(line) == FlattenSeq([i \in DOMAIN line.text |-> raw(line.text[i])])
        wanted == LinesOf(text)
    IN  /\ Len(lines) = Len(wanted)
        /\ \A i \in DOMAIN lines :
              /\ lines[i].mode = mode
              /\ lines[i].terminated = wanted[i].terminated
              /\ lines[i].total = Len(told(wanted[i]))
              /\ IsPrefix(lines[i].bytes, told(wanted[i]))
              /\ Len(lines[i].bytes) = Min({Stream!MaxLinePrefixBytes, lines[i].total})

(* What an answer says of the output is true: the lines it shows, those it *)
(* leaves out and those the ring lost are all of them, it is called        *)
(* complete only if it is, and no larger tail would fit.                   *)
WindowIsTrue ==
    LET ring == input.ring
        plan == input.plan
        answer == input.answer
        window == [lines |-> Command!DecodeRun(ring.lines, plan),
                   dropped |-> Command!DroppedLines(ring),
                   trailing |-> Command!One(plan # "utf8") + input.misuse]
        shown == SubSeq(ring.lines, 1, answer.first)
                 \o SubSeq(ring.lines, Len(ring.lines) - answer.last + 1, Len(ring.lines))
        bad == FoldLeft(LAMBDA sum, line : sum + line.invalid, 0, Command!DecodeRun(shown, plan))
    IN  /\ IsSuffix(ring.lines, input.lines)
        /\ Command!SizeOf(ring.lines) <= Command!OutputBufferBytes
        /\ Command!DroppedLines(ring) > 0 =>
              Command!SizeOf(SubSeq(input.lines, Command!DroppedLines(ring), Len(input.lines)))
                > Command!OutputBufferBytes
        /\ answer.kind = "too small" =>
              Command!WindowCandidate(window, 0, 0).tokens > input.budget
        /\ answer.kind # "too small" =>
              /\ answer.tokens <= input.budget
              /\ answer.first + answer.last <= Len(ring.lines)
              /\ answer.first + answer.last + answer.omitted = Len(input.lines)
              /\ answer.garbled = bad
              /\ ~answer.partial =>
                    /\ answer.omitted = 0 /\ ~input.timed_out
                    /\ \A i \in DOMAIN input.lines :
                          /\ Len(input.lines[i].bytes) <= Command!MaxPresentedChars
                          /\ input.lines[i].total = Len(input.lines[i].bytes)
        /\ answer.kind = "window" /\ answer.first + answer.last < Len(ring.lines) =>
              \/ Command!WindowCandidate(window, answer.first, answer.last + 1).tokens
                   > input.budget
              \/ answer.first + answer.last + 1 = Len(ring.lines) /\ ring.total = Len(ring.lines)

(* An answer with output is whole: nobody holds the output any more.  It   *)
(* says that the command was timed out exactly if the command was.  It     *)
(* does not mean that nothing of the command runs: a process that left its *)
(* tree does, and so does one whose kill was refused each time; nothing    *)
(* else.  A call says that the tree may be left only when it never saw the *)
(* root exit, and only a process with the output in hand that the first    *)
(* kill did not end keeps a call from ending.                              *)
RunIsTrue ==
    LET ending == Command!Run(input)
        seen(i) == input.looks[i].status = "exited"
        exited == seen(1) \/ (seen(2) /\ ~Command!Looked(input.looks[1]))
    IN  /\ ending.kind = "answer" =>
              /\ input.readable /\ (exited \/ input.root = "exits")
              /\ ending.timed_out <=> ~exited
              /\ \A p \in ending.left : ~p.pipe
        /\ ending.kind # "never" /\ input.granted # {} => \A p \in ending.left : ~p.in_tree
        /\ ending.kind = "tree left" => ~exited /\ input.root # "exits"
        /\ ending.kind = "never" =>
              \E p \in input.rest : p.pipe /\ (p.in_tree => "terminate" \notin input.granted)

CommandsAreShown ==
    /\ Chosen("stream") => StreamIsKept
    /\ Chosen("lines") => WindowIsTrue
    /\ Chosen("run") => RunIsTrue
=============================================================================
