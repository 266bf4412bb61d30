-------------------------- MODULE StreamNormalizer --------------------------
(* A command's output, cut into lines as it arrives (shell/normalize.rs):  *)
(* byte order marks, code units, terminal escapes and line ends may all be *)
(* split between two reads.  A byte is a symbol; "x" and "y" stand for     *)
(* bytes that are no ASCII.                                                *)
EXTENDS Integers, Sequences, SequencesExt

Marks == [utf8 |-> <<"EF", "BB", "BF">>, utf16le |-> <<"FF", "FE">>,
          utf16be |-> <<"FE", "FF">>, utf32le |-> <<"FF", "FE", "00", "00">>,
          utf32be |-> <<"00", "00", "FE", "FF">>]

UnitBytes(mode) ==
    CASE mode \in {"utf16le", "utf16be"} -> 2
      [] mode \in {"utf32le", "utf32be"} -> 4
      [] OTHER -> 1

(* The ASCII a code unit stands for, if any.                               *)
AsciiUnit(mode, unit) ==
    LET low == IF mode \in {"utf16le", "utf32le", "bytes"} THEN unit[1] ELSE Last(unit)
        rest == IF mode \in {"utf16le", "utf32le", "bytes"} THEN Tail(unit) ELSE Front(unit)
    IN  IF ToSet(rest) \subseteq {"00"} /\ low \notin {"x", "y"} THEN low ELSE "none"

(* What the first bytes of a stream decide: its mode and how long its mark *)
(* is, or nothing yet.                                                     *)
DetectStreamMode(bytes, final) ==
    LET marked(m) == IsPrefix(Marks[m], bytes)
        found(mode, length) == [decided |-> TRUE, mode |-> mode, mark |-> length]
        settled == (Len(bytes) >= 3 /\ bytes[3] # "00") \/ Len(bytes) >= 4 \/ final
        possible == \E m \in DOMAIN Marks : IsPrefix(bytes, Marks[m])
        waiting == [decided |-> FALSE, mode |-> "bytes", mark |-> 0]
    IN  CASE marked("utf32be") -> found("utf32be", 4)
          [] marked("utf32le") -> found("utf32le", 4)
          [] marked("utf8") -> found("bytes", 3)
          [] marked("utf16be") -> found("utf16be", 2)
          [] marked("utf16le") /\ ~marked("utf32le") ->
               IF settled THEN found("utf16le", 2) ELSE waiting
          [] OTHER -> IF possible /\ ~final THEN waiting ELSE found("bytes", 0)
-----------------------------------------------------------------------------
MaxLinePrefixBytes == 3

NewNormalizer ==
    [mode |-> "none", probe |-> <<>>, pending |-> <<>>, escape |-> "text", cr |-> FALSE,
     line |-> <<>>, total |-> 0, content |-> FALSE, out |-> <<>>]

EmitLine(n, terminated) ==
    [n EXCEPT !.line = <<>>, !.total = 0, !.content = FALSE,
              !.out = Append(@, [bytes |-> n.line, total |-> n.total, mode |-> n.mode,
                                 terminated |-> terminated])]

(* Only a line's first bytes are kept, and how many it had.                *)
Accumulate(n, raw) ==
    LET room == MaxLinePrefixBytes - Len(n.line)
        kept == IF room < Len(raw) THEN SubSeq(raw, 1, room) ELSE raw
    IN  [n EXCEPT !.line = @ \o kept, !.total = @ + Len(raw), !.content = TRUE]

PushTextUnit_ForgetsTheReturn(n, raw, ascii) ==
    CASE ascii = "CR" -> EmitLine(n, TRUE)
      [] ascii = "LF" -> EmitLine(n, TRUE)
      [] OTHER -> Accumulate(n, raw)

PushTextUnit(n, raw, ascii) ==
    LET ended == IF n.cr THEN [EmitLine(n, TRUE) EXCEPT !.cr = FALSE] ELSE n
    IN  CASE n.cr /\ ascii = "LF" -> ended
          [] ascii = "CR" -> [ended EXCEPT !.cr = TRUE]
          [] ~n.cr /\ ascii = "LF" -> EmitLine(ended, TRUE)
          [] OTHER -> Accumulate(ended, raw)

(* Colours and titles are swallowed whatever they are split by.            *)
ProcessUnit(n, raw, ascii) ==
    LET goto(escape) == [n EXCEPT !.escape = escape]
    IN  CASE n.escape = "text" ->
               IF ascii = "ESC" THEN goto("escape") ELSE PushTextUnit(n, raw, ascii)
          [] n.escape = "escape" ->
               goto(CASE ascii = "[" -> "csi" [] ascii = "]" -> "osc" [] OTHER -> "text")
          [] n.escape = "csi" ->
               goto(IF ascii \in {"m", "[", "]", "\\"} THEN "text" ELSE "csi")
          [] n.escape = "osc" ->
               goto(CASE ascii = "BEL" -> "text" [] ascii = "ESC" -> "osc escape"
                      [] OTHER -> "osc")
          [] n.escape = "osc escape" ->
               goto(CASE ascii = "\\" -> "text" [] ascii = "ESC" -> "osc escape"
                      [] OTHER -> "osc")

Process(n, bytes) ==
    LET take(m, byte) ==
            LET unit == Append(m.pending, byte)
            IN  IF Len(unit) < UnitBytes(m.mode) THEN [m EXCEPT !.pending = unit]
                ELSE ProcessUnit([m EXCEPT !.pending = <<>>], unit, AsciiUnit(m.mode, unit))
    IN  FoldLeft(take, n, bytes)

EnterMode(n, found) ==
    IF ~found.decided THEN n
    ELSE Process([n EXCEPT !.mode = found.mode, !.probe = <<>>],
                 SubSeq(n.probe, found.mark + 1, Len(n.probe)))
SelectMode(n, final) == EnterMode(n, DetectStreamMode(n.probe, final))

Push(n, bytes) ==
    IF n.mode = "none" THEN SelectMode([n EXCEPT !.probe = @ \o bytes], FALSE)
    ELSE Process(n, bytes)

(* The end of the stream: a unit cut short is text, a line may lack its    *)
(* end.                                                                    *)
FlushPending(n) ==
    IF n.pending = <<>> THEN n ELSE PushTextUnit([n EXCEPT !.pending = <<>>], n.pending, "none")
EndLine(n) ==
    CASE n.cr -> [EmitLine(n, TRUE) EXCEPT !.cr = FALSE]
      [] ~n.cr /\ n.content -> EmitLine(n, FALSE)
      [] OTHER -> n
Finish(n) == EndLine(FlushPending(IF n.mode = "none" THEN SelectMode(n, TRUE) ELSE n))

Normalized(chunks) == Finish(FoldLeft(Push, NewNormalizer, chunks)).out
=============================================================================
