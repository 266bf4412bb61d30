----------------------------- MODULE Encodings -----------------------------
(* The trust in a file's encoding: explicit intent, byte order mark,       *)
(* strict UTF-8, then a legacy encoding that all of the file confirms.     *)
(* Files are read in chunks, so every decoder carries what a chunk cuts.   *)
(*                                                                         *)
(* A byte is one of a dozen that stand for the classes the decoders tell   *)
(* apart: a (0x61), nl, 00, 1B, "(", MZ (a magic in one byte), L (0xC3), T *)
(* (0x81) and EF, BB, BF, FE, FF.  The external decoders' units and the    *)
(* external detector's guesses are given.                                  *)
EXTENDS Integers, Sequences, FiniteSets, SequencesExt, FiniteSetsExt

ProbeBytes == 5        \* BINARY_PROBE_BYTES, PREFLIGHT_BYTES
LegacyEvidence == 2    \* LEGACY_EVIDENCE_BYTES
StrongBytes == 4       \* UTF8_SEGMENT_MIN_BYTES
StrongWide == 2        \* UTF8_SEGMENT_MIN_NON_ASCII_BYTES
SegmentMax == 6        \* LEGACY_SEGMENT_MAX_BYTES
None == "none"

Ascii == {"a", "nl", "00", "1B", "(", "MZ"}
Trail == {"T", "BB", "BF"}
GbkLead == {"L", "T", "EF", "BB", "BF", "FE"}
Legacy == {"gbk", "shift_jis", "windows-1252"}
SingleByte == {"windows-1252"}
Labels == Legacy \cup {"utf8", "utf16le", "utf16be", "utf32le", "utf32be"}

(* The units of an encoding, and what can still become one.                *)
Unit(kind, u) ==
    LET n == Len(u) IN
    CASE kind = "utf8" -> \/ n = 1 /\ u[1] \in Ascii
                          \/ n = 2 /\ u[1] = "L" /\ u[2] \in Trail
                          \/ n = 3 /\ u[1] = "EF" /\ {u[2], u[3]} \subseteq Trail
      [] kind \in {"utf16le", "utf16be"} -> n = 2
      [] kind = "utf32le" -> n = 4 /\ u[4] = "00" /\ u[3] \in {"00", "nl"}
      [] kind = "utf32be" -> n = 4 /\ u[1] = "00" /\ u[2] \in {"00", "nl"}
      [] kind = "windows-1252" -> n = 1
      [] kind = "gbk" -> \/ n = 1 /\ u[1] \in Ascii
                         \/ n = 2 /\ u[1] \in GbkLead /\ u[2] \in GbkLead \cup {"a", "MZ"}
      [] OTHER -> \/ n = 1 /\ u[1] \in Ascii \cup {"L", "BB", "BF"}
                  \/ n = 2 /\ u[1] \in {"T", "EF"}
                           /\ u[2] \in {"a", "MZ", "T", "L", "EF", "BB", "BF"}

Begun(kind, u) ==
    LET n == Len(u) IN
    CASE kind = "utf8" -> \/ n = 1 /\ u[1] \in {"L", "EF"}
                          \/ n = 2 /\ u[1] = "EF" /\ u[2] \in Trail
      [] kind \in {"utf16le", "utf16be"} -> n = 1
      [] kind \in {"utf32le", "utf32be"} -> n < 4
      [] kind = "windows-1252" -> FALSE
      [] kind = "gbk" -> n = 1 /\ u[1] \in GbkLead
      [] OTHER -> n = 1 /\ u[1] \in {"T", "EF"}

CharOf(kind, u) ==
    LET narrow == CASE kind = "utf16le" -> u[2] = "00"
                    [] kind = "utf16be" -> u[1] = "00"
                    [] kind = "utf32le" -> {u[2], u[3]} = {"00"}
                    [] kind = "utf32be" -> {u[2], u[3]} = {"00"}
                    [] OTHER -> Len(u) = 1
        byte == IF kind \in {"utf16be", "utf32be"} THEN Last(u) ELSE Head(u)
    IN  IF narrow /\ byte \in Ascii THEN byte ELSE "wide"

(* Two bytes of gbk read as a character that is written otherwise.         *)
Encoded(kind, u) == IF kind = "gbk" /\ u = <<"FE", "FE">> THEN <<"T", "T">> ELSE u
Disallowed(kind, u) ==
    CharOf(kind, u) \in {"00", "1B"} \/ (kind = "windows-1252" /\ u = <<"T">>)
-----------------------------------------------------------------------------
(* A strict decoder: what it carries, what it decoded of this chunk.       *)
NewDecoder == [carry |-> <<>>, units |-> <<>>, malformed |-> FALSE]

DecodeByte(kind, decoder, byte) ==
    LET unit == Append(decoder.carry, byte)
    IN  CASE decoder.malformed -> decoder
          [] ~decoder.malformed /\ Unit(kind, unit) ->
               [decoder EXCEPT !.carry = <<>>, !.units = Append(@, unit)]
          [] ~decoder.malformed /\ ~Unit(kind, unit) /\ Begun(kind, unit) ->
               [decoder EXCEPT !.carry = unit]
          [] OTHER -> [decoder EXCEPT !.malformed = TRUE]

DecodeEnd(decoder, is_last) ==
    IF is_last /\ decoder.carry # <<>> THEN [decoder EXCEPT !.malformed = TRUE] ELSE decoder
DecodeChunk(kind, decoder, bytes, is_last) ==
    DecodeEnd(FoldLeft(LAMBDA d, byte : DecodeByte(kind, d, byte),
                       [decoder EXCEPT !.units = <<>>], bytes), is_last)

Boms == [utf32be |-> <<"00", "00", "FE", "FF">>, utf32le |-> <<"FF", "FE", "00", "00">>,
         utf8 |-> <<"EF", "BB", "BF">>, utf16le |-> <<"FF", "FE">>, utf16be |-> <<"FE", "FF">>]
BomDetected(prefix) ==
    LET found == {k \in DOMAIN Boms : IsPrefix(Boms[k], prefix)}
    IN  IF found = {} THEN None ELSE CHOOSE k \in found : \A j \in found : Len(Boms[j]) <= Len(Boms[k])
BomLength(kind, prefix) ==
    IF kind \in DOMAIN Boms /\ IsPrefix(Boms[kind], prefix) THEN Len(Boms[kind]) ELSE 0

HasNul(prefix) == "00" \in ToSet(prefix)
BinaryMagic(prefix) == prefix # <<>> /\ Head(prefix) = "MZ"
WideBytes(bytes) == Len(SelectSeq(bytes, LAMBDA b : b \notin Ascii))
-----------------------------------------------------------------------------
(* The first byte that breaks UTF-8 behind a clear stretch of it.          *)
NewScanner == [decoder |-> NewDecoder, valid |-> 0, wide |-> 0, at |-> 0, conflict |-> 0]
ClearPrefix(scanner) == scanner.valid >= StrongBytes /\ scanner.wide >= StrongWide

ScanDecoded(scanner, next) ==
    LET unit == FlattenSeq(next.units)
        begin == scanner.at - Len(scanner.decoder.carry)
    IN  [scanner EXCEPT !.decoder = next, !.at = @ + 1,
                        !.valid = @ + Len(unit), !.wide = @ + WideBytes(unit),
                        !.conflict = IF next.malformed /\ ClearPrefix(scanner)
                                     THEN begin + 1 ELSE @]
ScanByte(scanner, byte) ==
    IF scanner.decoder.malformed THEN scanner
    ELSE ScanDecoded(scanner, DecodeByte("utf8", [scanner.decoder EXCEPT !.units = <<>>], byte))
ScanChunk(scanner, bytes) == FoldLeft(ScanByte, scanner, bytes)
ScanEnd(scanner) ==
    IF scanner.decoder.malformed \/ scanner.decoder.carry = <<>> \/ ~ClearPrefix(scanner)
    THEN scanner.conflict
    ELSE scanner.at - Len(scanner.decoder.carry) + 1
-----------------------------------------------------------------------------
(* Segments of a legacy file: one that is clear UTF-8, or that the detector *)
(* takes for another multi-byte encoding which holds, contradicts the file. *)
Decoded(kind, bytes) == DecodeChunk(kind, NewDecoder, bytes, TRUE)
HardDecoded(kind, decoded, bytes) ==
    /\ ~decoded.malformed
    /\ \A i \in DOMAIN decoded.units : ~Disallowed(kind, decoded.units[i])
    /\ FlattenSeq([i \in DOMAIN decoded.units |-> Encoded(kind, decoded.units[i])]) = bytes
HardValid(kind, bytes) == HardDecoded(kind, Decoded(kind, bytes), bytes)

StrongUtf8(bytes) ==
    Len(bytes) >= StrongBytes /\ WideBytes(bytes) >= StrongWide /\ ~Decoded("utf8", bytes).malformed
HasEvidence(bytes) == WideBytes(bytes) >= LegacyEvidence \/ StrongUtf8(bytes)
Disagrees(kind, guess, bytes) ==
    StrongUtf8(bytes) \/ (guess \notin SingleByte \cup {kind} /\ HardValid(guess, bytes))

Inspect(kind, guess, bytes) ==
    IF ~HasEvidence(bytes) THEN "continue"
    ELSE IF ~HardValid(kind, bytes) THEN "invalid"
    ELSE IF Disagrees(kind, guess, bytes) THEN "inconsistent" ELSE "continue"

AlignedPrefixes(kind, bytes) ==
    {n \in Len(bytes) - 4..Len(bytes) : n >= 0 /\ HardValid(kind, SubSeq(bytes, 1, n))}

CutSegment(kind, guess, segment, pending, aligned) ==
    IF aligned = {} THEN [segment EXCEPT !.told = "invalid"]
    ELSE IF Disagrees(kind, guess, SubSeq(pending, 1, Max(aligned)))
    THEN [segment EXCEPT !.told = "inconsistent"]
    ELSE [segment EXCEPT !.pending = SubSeq(pending, Max(aligned) + 1, Len(pending))]
SegmentPending(kind, guess, segment, byte, pending) ==
    IF byte = "nl" /\ HasEvidence(pending)
    THEN [pending |-> <<>>, told |-> Inspect(kind, guess, pending)]
    ELSE IF Len(pending) < SegmentMax THEN [segment EXCEPT !.pending = pending]
    ELSE CutSegment(kind, guess, segment, pending, AlignedPrefixes(kind, pending))
SegmentByte(kind, guess, segment, byte) ==
    IF segment.told # "continue" THEN segment
    ELSE SegmentPending(kind, guess, segment, byte, Append(segment.pending, byte))
SegmentEnd(kind, guess, segment, is_last) ==
    IF is_last /\ segment.told = "continue"
    THEN [segment EXCEPT !.told = Inspect(kind, guess, segment.pending)] ELSE segment
-----------------------------------------------------------------------------
(* What is counted of the decoded text.                                    *)
NoStats == [any |-> FALSE, newlines |-> 0, trailing |-> FALSE, escape |-> FALSE, last |-> "a"]
ObserveChar(stats, char) ==
    [any |-> TRUE, newlines |-> stats.newlines + (IF char = "nl" THEN 1 ELSE 0),
     trailing |-> char = "nl", escape |-> stats.escape \/ (stats.last = "1B" /\ char = "("),
     last |-> char]
TotalLines(stats) == IF stats.any THEN stats.newlines + 1 ELSE 0

Options(hard, segments, probe) == [hard |-> hard, segments |-> segments, probe |-> probe]
Plain == Options(FALSE, FALSE, FALSE)

(* Every character, encoded again, must give the bytes it came from.       *)
RoundTrips(encoded, expected, is_last) ==
    IF is_last THEN encoded = expected ELSE IsPrefix(encoded, expected)

(* Whether the bytes, the mark included, are also UTF-8.                   *)
Probed(raw, decoder) ==
    [decoder |-> decoder, wide |-> raw.wide \/ \E i \in DOMAIN decoder.units : Len(decoder.units[i]) > 1]
ProbeRaw(raw, bytes, is_last) == Probed(raw, DecodeChunk("utf8", raw.decoder, bytes, is_last))
IsMultibyteUtf8(raw) == ~raw.decoder.malformed /\ raw.wide

(* One pass over the file; guess is the detector's of its segments.        *)
StartPass(skip) ==
    [valid |-> TRUE, skip |-> skip, decoder |-> NewDecoder, raw |-> [decoder |-> NewDecoder, wide |-> FALSE],
     expected |-> <<>>, encoded |-> <<>>, segment |-> [pending |-> <<>>, told |-> "continue"],
     stats |-> NoStats]

PassDecoded(kind, options, pass, raw, is_last, skipped, content, decoder, segment) ==
    LET encoded == pass.encoded \o FlattenSeq([i \in DOMAIN decoder.units |->
                                                  Encoded(kind, decoder.units[i])])
        expected == pass.expected \o content
        sound == /\ ~decoder.malformed /\ segment.told # "invalid"
                 /\ options.hard =>
                       /\ \A i \in DOMAIN decoder.units : ~Disallowed(kind, decoder.units[i])
                       /\ RoundTrips(encoded, expected, is_last)
    IN  [valid |-> sound, skip |-> pass.skip - skipped, decoder |-> decoder,
         raw |-> IF options.probe THEN ProbeRaw(pass.raw, raw, is_last) ELSE pass.raw,
         expected |-> expected, encoded |-> encoded, segment |-> segment,
         stats |-> FoldLeft(ObserveChar, pass.stats,
                            [i \in DOMAIN decoder.units |-> CharOf(kind, decoder.units[i])])]

PassChunk(kind, options, guess, pass, raw, is_last) ==
    LET skipped == IF pass.skip < Len(raw) THEN pass.skip ELSE Len(raw)
        content == SubSeq(raw, skipped + 1, Len(raw))
    IN  IF ~pass.valid THEN pass
        ELSE PassDecoded(kind, options, pass, raw, is_last, skipped, content,
                 DecodeChunk(kind, pass.decoder, content, is_last),
                 IF ~options.segments THEN pass.segment
                 ELSE SegmentEnd(kind, guess,
                          FoldLeft(LAMBDA s, byte : SegmentByte(kind, guess, s, byte),
                                   pass.segment, content), is_last))

ChunksOf(bytes, size) ==
    [c \in 1..((Len(bytes) + size - 1) \div size) |->
        SubSeq(bytes, (c - 1) * size + 1, IF c * size < Len(bytes) THEN c * size ELSE Len(bytes))]

(* The end of the file is one more chunk, with nothing in it.              *)
ValidateSelected(kind, bom, options, file) ==
    LET chunks == ChunksOf(file.bytes, file.chunk)
    IN  FoldLeft(LAMBDA pass, i : PassChunk(kind, options, file.segment_guess, pass,
                                            IF i > Len(chunks) THEN <<>> ELSE chunks[i], i > Len(chunks)),
                 StartPass(bom), [i \in 1..(Len(chunks) + 1) |-> i])
-----------------------------------------------------------------------------
Rejected(why) == [is |-> "rejected", why |-> why]
Binary == [is |-> "binary"]
Text(kind, bom, pass, warning) ==
    [is |-> "text", kind |-> kind, bom |-> bom, lines |-> TotalLines(pass.stats),
     trailing |-> pass.stats.trailing, warning |-> warning]
Mixed(at) == <<"mixed", at>>

(* What a pass in the encoding that was asked for, or that a mark names,   *)
(* says of the file.                                                       *)
Passed(kind, bom, pass, why, warning) ==
    IF ~pass.valid THEN Rejected(<<why, kind>>) ELSE Text(kind, bom, pass, warning)
PassedExplicit(label, bom, pass) == Passed(label, bom, pass, "malformed", IsMultibyteUtf8(pass.raw))

ValidateExplicit(label, file, prefix) ==
    LET bom == BomLength(label, prefix)
    IN  IF label \notin Labels THEN Rejected(<<"invalid label">>)
        ELSE PassedExplicit(label, bom,
                 ValidateSelected(label, bom, Options(FALSE, FALSE, label \in Legacy), file))

ValidateBom(kind, file, prefix) ==
    LET bom == Len(Boms[kind])
    IN  IF kind = "utf8" /\ HasNul(prefix) THEN Binary
        ELSE Passed(kind, bom, ValidateSelected(kind, bom, Plain, file), "bom mismatch", FALSE)

(* The fixed encodings that hold, unless the nominated one has evidence.   *)
LegacyPass(file, kind, segments) == ValidateSelected(kind, 0, Options(TRUE, segments, FALSE), file)
FixedEncodings(file) ==
    {k \in Legacy : LegacyPass(file, k, k = file.guess /\ WideBytes(file.bytes) >= LegacyEvidence).valid}
Undecided(fixed) == IF fixed = {} THEN Rejected(<<"undecodable">>) ELSE Rejected(<<"ambiguous", fixed>>)
Nominated(file, pass) ==
    LET trusted == WideBytes(file.bytes) >= LegacyEvidence /\ pass.valid
    IN  IF trusted /\ pass.segment.told = "inconsistent" THEN Rejected(Mixed(0))
        ELSE IF trusted /\ file.guess \notin SingleByte THEN Text(file.guess, 0, pass, FALSE)
        ELSE Undecided(FixedEncodings(file))
ValidateUnmixed(file, conflict) ==
    IF conflict > 0 THEN Rejected(Mixed(conflict))
    ELSE Nominated(file, LegacyPass(file, file.guess, TRUE))
ValidateLegacy(file) ==
    ValidateUnmixed(file, ScanEnd(FoldLeft(ScanChunk, NewScanner, ChunksOf(file.bytes, file.chunk))))

PrefixOf(bytes) == SubSeq(bytes, 1, IF Len(bytes) < ProbeBytes THEN Len(bytes) ELSE ProbeBytes)

(* A file without a mark: UTF-8 if all of it is.                           *)
ValidateUnmarked(file, prefix, utf8) ==
    IF utf8.valid
    THEN IF utf8.stats.escape THEN Rejected(<<"iso-2022">>) ELSE Text("utf8", 0, utf8, FALSE)
    ELSE IF BinaryMagic(prefix) THEN Binary
    ELSE ValidateLegacy(file)

Validate(file, explicit) ==
    LET prefix == PrefixOf(file.bytes)
    IN  IF explicit # None THEN ValidateExplicit(explicit, file, prefix)
        ELSE IF BomDetected(prefix) # None THEN ValidateBom(BomDetected(prefix), file, prefix)
        ELSE IF HasNul(prefix) THEN Binary
        ELSE ValidateUnmarked(file, prefix, ValidateSelected("utf8", 0, Plain, file))

(* The text of a file an edit is to change: only if each of its characters *)
(* is written back as it was read.                                         *)
DecodeEditable(decision, bytes) ==
    LET content == SubSeq(bytes, decision.bom + 1, Len(bytes))
        units == Decoded(decision.kind, content).units
    IN  IF \A i \in DOMAIN units : Encoded(decision.kind, units[i]) = units[i] THEN units
        ELSE <<None>>
=============================================================================
