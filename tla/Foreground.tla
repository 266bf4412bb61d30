----------------------------- MODULE Foreground -----------------------------
(* A foreground command: how it ends, what is kept of its output and what  *)
(* of that is shown (shell/foreground.rs, buffer.rs, encoding.rs and       *)
(* output.rs).                                                             *)
EXTENDS Integers, Sequences, SequencesExt, FiniteSetsExt

(* The supervisor looks at the command again and again.  A look is         *)
(* [status, cancelled, elapsed].  A call also has what the system does     *)
(* then: rest, the processes of the command besides its root, each in the  *)
(* tree that is killed or not, with or without the output in hand;         *)
(* granted, which of the two kills the system carries out; root, what the  *)
(* waits of five seconds after the first see of the root; readable,        *)
(* whether the output could be read.                                       *)
Looked(look) == look.status # "running" \/ look.cancelled \/ look.elapsed

(* The processes that a kill by any of the given calls leaves behind.      *)
Survivors(call, kills) == {p \in call.rest : ~p.in_tree \/ call.granted \cap kills = {}}

(* A root that is seen to have exited is all that terminate_tree asks for: *)
(* the error of its kill counts only in the message when the waits end.    *)
TerminateTree(call, look) == look.status = "exited" \/ call.root = "exits"

(* Mutant: the output is drained before the tree is killed.                *)
ReaderEnds_BeforeTheKill(call) ==
    ~call.readable \/ \A p \in Survivors(call, {}) : ~p.pipe

(* The reader stops at an error, or when nobody holds the output any more. *)
ReaderEnds(call) ==
    ~call.readable \/ \A p \in Survivors(call, {"terminate"}) : ~p.pipe

(* A process that goes out of scope is killed once more.                   *)
Ending(call, kind, timed_out) ==
    [kind |-> kind, timed_out |-> timed_out,
     left |-> Survivors(call, {"terminate"} \cup (IF kind = "never" THEN {} ELSE {"drop"}))]

Collected(call, kind, timed_out) ==
    Ending(call, IF ReaderEnds(call) THEN kind ELSE "never", timed_out)

Run(call) ==
    LET look == call.looks[Min({i \in DOMAIN call.looks : Looked(call.looks[i])})]
        stopped == look.status = "running" /\ look.cancelled
        timed_out == look.status = "running" /\ ~look.cancelled
        kind == CASE look.status = "unknown" -> "unmonitored"
                  [] stopped -> "cancelled"
                  [] OTHER -> IF call.readable THEN "answer" ELSE "unreadable"
    IN  IF TerminateTree(call, look) THEN Collected(call, kind, timed_out)
        ELSE Ending(call, "tree left", FALSE)
-----------------------------------------------------------------------------
(* The ring of whole lines; the sizes of lines are their bytes.            *)
OutputBufferBytes == 8
LineOverhead == 1

Stored(line) == Len(line.bytes) + LineOverhead
SizeOf(lines) == FoldLeft(LAMBDA sum, line : sum + Stored(line), 0, lines)

RingPush(ring, line) ==
    LET kept == CHOOSE n \in 0..Len(ring.lines) :
                    LET left == SubSeq(ring.lines, n + 1, Len(ring.lines))
                        fits(m) == SizeOf(SubSeq(ring.lines, m + 1, Len(ring.lines)))
                                     + Stored(line) <= OutputBufferBytes
                    IN  (fits(n) \/ left = <<>>) /\ \A m \in 0..(n - 1) : ~fits(m)
        left == SubSeq(ring.lines, kept + 1, Len(ring.lines))
    IN  [lines |-> IF Stored(line) > OutputBufferBytes THEN left ELSE Append(left, line),
         total |-> ring.total + 1]

Captured(lines) == FoldLeft(RingPush, [lines |-> <<>>, total |-> 0], lines)
DroppedLines(ring) == ring.total - Len(ring.lines)
-----------------------------------------------------------------------------
(* The encoding a capture is shown in: the one that was asked for, the     *)
(* stream's own mark, or one that all of its bytes agree with.             *)
MaxPresentedChars == 2

MarkedLines(lines) == {i \in DOMAIN lines : lines[i].mode # "bytes"}

AutomaticRunPlan(lines, detected) ==
    CASE MarkedLines(lines) # {} -> lines[Min(MarkedLines(lines))].mode
      [] MarkedLines(lines) = {} /\ detected # "none" -> detected
      [] OTHER -> "utf8"

RunPlan(lines, requested, detected) ==
    IF requested # "none" THEN requested ELSE AutomaticRunPlan(lines, detected)

(* A line's characters: "x" alone is no UTF-8 and "y" no GBK.              *)
Invalid(plan, byte) == (plan = "utf8" /\ byte = "x") \/ (plan = "gbk" /\ byte = "y")

PresentLine(line, plan) ==
    LET cut == Len(line.bytes) > MaxPresentedChars
        shown == SubSeq(line.bytes, 1, Min({MaxPresentedChars, Len(line.bytes)}))
        truncated == cut \/ line.total > Len(line.bytes)
    IN  [cost |-> Len(shown) + (IF truncated THEN 1 ELSE 0), truncated |-> truncated,
         invalid |-> Len(SelectSeq(shown, LAMBDA byte : Invalid(plan, byte)))]

DecodeRun(lines, plan) == [i \in DOMAIN lines |-> PresentLine(lines[i], plan)]
-----------------------------------------------------------------------------
(* The answer: all lines, or a head and a tail as large as fits.           *)
One(condition) == IF condition THEN 1 ELSE 0
CostOf(lines) == FoldLeft(LAMBDA sum, line : sum + line.cost, 0, lines)
InvalidIn(lines) == FoldLeft(LAMBDA sum, line : sum + line.invalid, 0, lines)

(* The largest of 0..limit that a bisection finds to fit.                  *)
LargestThatFits(limit, fits) ==
    LET find[low \in 0..(limit + 1), high \in -1..limit, best \in 0..limit] ==
            LET middle == low + (high - low) \div 2
            IN  IF low > high THEN best
                ELSE IF fits[middle] THEN find[middle + 1, high, middle]
                ELSE IF middle = 0 THEN best
                ELSE find[low, middle - 1, best]
    IN  find[0, limit, 0]

(* The head of first lines and the tail of last ones, and what is said of  *)
(* the lines that are left out or were lost.                               *)
WindowCandidate(window, first, last) ==
    LET n == Len(window.lines)
        shown == SubSeq(window.lines, 1, first) \o SubSeq(window.lines, n - last + 1, n)
        omitted == n + window.dropped - (first + last)
        garbled == InvalidIn(shown)
    IN  [kind |-> "window", first |-> first, last |-> last, omitted |-> omitted,
         garbled |-> garbled, partial |-> TRUE,
         tokens |-> CostOf(shown) + One(omitted > 0) + One(garbled > 0)
                      + One(window.dropped > 0) + window.trailing + 1]

LargestPrefixWithin(lines, target) ==
    IF target = 0 THEN 0
    ELSE LargestThatFits(Len(lines),
             [n \in 0..Len(lines) |-> CostOf(SubSeq(lines, 1, n)) <= target])

TooSmall == [kind |-> "too small"]

LargestTail(window, budget, base, first) ==
    LET remaining == Len(window.lines) - first
        candidate == [last \in 0..remaining |-> WindowCandidate(window, first, last)]
        fits == [last \in 0..remaining |-> candidate[last].tokens <= budget]
        best == LargestThatFits(remaining, fits)
    IN  IF fits[best] THEN candidate[best] ELSE base
HeadTail(window, budget, base) ==
    IF base.tokens > budget THEN TooSmall
    ELSE LargestTail(window, budget, base,
                     LargestPrefixWithin(window.lines, (budget - base.tokens) \div 10))
LargestHeadTail(window, budget) == HeadTail(window, budget, WindowCandidate(window, 0, 0))

FullAnswer(window, timed_out) ==
    LET truncated == \E i \in DOMAIN window.lines : window.lines[i].truncated
        garbled == InvalidIn(window.lines)
    IN  [kind |-> "full", first |-> Len(window.lines), last |-> 0, omitted |-> 0,
         garbled |-> garbled, partial |-> timed_out \/ truncated,
         tokens |-> CostOf(window.lines) + One(garbled > 0) + window.trailing + 1]

FormatForeground(ring, plan, misuse, timed_out, budget) ==
    LET window == [lines |-> DecodeRun(ring.lines, plan), dropped |-> DroppedLines(ring),
                   trailing |-> One(plan # "utf8") + misuse]
        full == FullAnswer(window, timed_out)
    IN  IF window.dropped = 0 /\ full.tokens <= budget THEN full
        ELSE LargestHeadTail(window, budget)
=============================================================================
