------------------------------ MODULE Snapshot ------------------------------
(* What grep searches of a file: the bytes of one opening of it, kept while *)
(* the file may be written, replaced or deleted, and not read further once  *)
(* no byte to come can make it text.  Stops and failures of the disk end a  *)
(* capture without a result and are left out.                               *)
EXTENDS Encodings

MemoryLimit == 6       \* MEMORY_SNAPSHOT_LIMIT, MEMORY_TEXT_LIMIT
BomSettled == 4

(* The decoders a capture feeds, and the first bytes they share.           *)
NewClassifier(explicit, fallback) ==
    [explicit |-> explicit, fallback |-> fallback, probe |-> <<>>, mode |-> None,
     kind |-> None, decoder |-> NewDecoder, conflict |-> NewScanner, other |-> NewDecoder]
ProbeIsSettled(classifier) == Len(classifier.probe) = ProbeBytes

FeedDecoder(kind, decoder, bytes) == DecodeChunk(kind, decoder, bytes, FALSE)
FeedInitialized(classifier, bytes) ==
    LET c == classifier IN
    [c EXCEPT !.decoder = FeedDecoder(c.kind, @, bytes),
              !.conflict = IF c.mode = "automatic" THEN ScanChunk(@, bytes) ELSE @,
              !.other = IF c.mode = "automatic" /\ c.fallback # None
                        THEN FeedDecoder(c.fallback, @, bytes) ELSE @]

(* How the decoder is chosen: [mode, kind, bom].                           *)
ModeOf(explicit, probe) ==
    LET found == BomDetected(probe)
    IN  IF explicit # None
        THEN [mode |-> "explicit", kind |-> explicit, bom |-> BomLength(explicit, probe)]
        ELSE IF found # None THEN [mode |-> "bom", kind |-> found, bom |-> Len(Boms[found])]
        ELSE [mode |-> "automatic", kind |-> "utf8", bom |-> 0]
Enter(classifier, chosen) ==
    FeedInitialized([classifier EXCEPT !.mode = chosen.mode, !.kind = chosen.kind],
                    SubSeq(classifier.probe, chosen.bom + 1, Len(classifier.probe)))
Initialize(classifier) == Enter(classifier, ModeOf(classifier.explicit, classifier.probe))

Feed(classifier, bytes) ==
    LET room == ProbeBytes - Len(classifier.probe)
        fed == [classifier EXCEPT !.probe = @ \o SubSeq(bytes, 1, IF Len(bytes) < room THEN Len(bytes) ELSE room)]
    IN  IF classifier.mode # None THEN FeedInitialized(fed, bytes)
        ELSE IF Len(fed.probe) < BomSettled THEN fed ELSE Initialize(fed)

(* What no byte to come can change.                                        *)
Unsettled == [is |-> "unsettled"]
AutomaticProof_AnyFallback(c) ==
    IF HasNul(c.probe) THEN Binary
    ELSE IF ~ProbeIsSettled(c) THEN Unsettled
    ELSE IF c.decoder.malformed /\ BinaryMagic(c.probe) THEN Binary
    ELSE IF c.conflict.conflict # 0 THEN Rejected(Mixed(c.conflict.conflict))
    ELSE Unsettled
AutomaticProof(c) ==
    IF HasNul(c.probe) THEN Binary
    ELSE IF ~ProbeIsSettled(c) THEN Unsettled
    ELSE IF c.decoder.malformed /\ BinaryMagic(c.probe) THEN Binary
    ELSE IF c.conflict.conflict # 0 /\ (c.fallback = None \/ c.other.malformed)
    THEN Rejected(Mixed(c.conflict.conflict))
    ELSE Unsettled
BomProof(c) ==
    IF c.kind = "utf8" /\ HasNul(c.probe) THEN Binary
    ELSE IF c.decoder.malformed /\ (c.kind # "utf8" \/ ProbeIsSettled(c))
    THEN Rejected(<<"bom mismatch", c.kind>>)
    ELSE Unsettled
TerminalProof(c) ==
    CASE c.mode = None -> Unsettled
      [] c.mode = "explicit" -> IF c.decoder.malformed THEN Rejected(<<"malformed", c.kind>>)
                                ELSE Unsettled
      [] c.mode = "bom" -> BomProof(c)
      [] c.mode = "automatic" -> AutomaticProof(c)
-----------------------------------------------------------------------------
(* Bytes move to a temporary file once memory holds too many.              *)
InMemory == [kept |-> "memory", bytes |-> <<>>]
AppendTo(store, bytes) ==
    IF store.kept = "memory" /\ Len(store.bytes) + Len(bytes) > MemoryLimit
    THEN [kept |-> "file", bytes |-> store.bytes \o bytes]
    ELSE [store EXCEPT !.bytes = @ \o bytes]

(* The file at the moments of a capture: 0 the walk, 1 its opening, 2 its  *)
(* first identity, then one read after the other, its last identity and    *)
(* that of its path.  It may change once, before moment world.at.          *)
Original(world) == [id |-> 1, stamp |-> 1, bytes |-> world.bytes]
PathAt(world, m) ==
    IF m < world.at \/ world.how = "nothing" THEN Original(world)
    ELSE CASE world.how = "written" -> [id |-> 1, stamp |-> 2, bytes |-> world.other]
           [] world.how = "replaced" -> [id |-> 2, stamp |-> 1, bytes |-> world.other]
           [] world.how = "deleted" -> [id |-> 0, stamp |-> 0, bytes |-> <<>>]
HandleAt(world, m) ==
    IF PathAt(world, m).id = PathAt(world, 1).id THEN PathAt(world, m) ELSE PathAt(world, 1)
Identity(version) == [id |-> version.id, stamp |-> version.stamp]

RECURSIVE CaptureReader(_, _, _, _, _)
NextBytes(world, m, read) ==
    LET bytes == HandleAt(world, m).bytes
        most == IF read < ProbeBytes /\ ProbeBytes - read < world.chunk THEN ProbeBytes - read ELSE world.chunk
    IN  SubSeq(bytes, read + 1, IF Len(bytes) < read + most THEN Len(bytes) ELSE read + most)
CaptureFed(world, m, read, next, classifier, store, proof) ==
    IF next = <<>> \/ proof # Unsettled THEN [m |-> m + 1, proof |-> proof, store |-> store]
    ELSE CaptureReader(world, m + 1, read + Len(next), classifier, AppendTo(store, next))
CaptureNext(world, m, read, next, classifier, store) ==
    CaptureFed(world, m, read, next, classifier, store, TerminalProof(classifier))
CaptureReader(world, m, read, classifier, store) ==
    LET next == NextBytes(world, m, read)
    IN  CaptureNext(world, m, read, next, IF next = <<>> THEN classifier ELSE Feed(classifier, next), store)

FileChanged == [is |-> "changed"]
Hinted(world, version) == ~world.hint \/ Identity(version) = Identity(PathAt(world, 0))
Captured(world, capture) ==
    LET before == HandleAt(world, 2)
        after == HandleAt(world, capture.m)
        path == PathAt(world, capture.m + 1)
    IN  IF Identity(before) # Identity(after) \/ Identity(after) # Identity(path) \/ ~Hinted(world, after)
        THEN FileChanged
        ELSE IF capture.proof # Unsettled THEN capture.proof
        ELSE [is |-> "searchable", store |-> capture.store]
CaptureClassify(world, explicit, fallback) ==
    IF PathAt(world, 1).id = 0 \/ ~Hinted(world, HandleAt(world, 2)) THEN FileChanged
    ELSE Captured(world, CaptureReader(world, 3, 0, NewClassifier(explicit, fallback), InMemory))
-----------------------------------------------------------------------------
(* The text that is searched: that of the bytes, or decoded once more, in  *)
(* pieces, from where they are kept.                                       *)
DecodeForSearch(decision, bytes) ==
    LET content == SubSeq(bytes, decision.bom + 1, Len(bytes))
    IN  Decoded(decision.kind, content).units
ReadUtf8(decision, bytes, chunk) ==
    LET content == SubSeq(bytes, decision.bom + 1, Len(bytes))
        decoded(reader, decoder) == [decoder |-> decoder, text |-> Append(reader.text, decoder.units)]
        piece(reader, raw, is_last) ==
            decoded(reader, DecodeChunk(decision.kind, reader.decoder, raw, is_last))
        all == FoldLeft(LAMBDA reader, raw : piece(reader, raw, FALSE),
                        [decoder |-> NewDecoder, text |-> <<>>], ChunksOf(content, chunk))
    IN  piece(all, <<>>, TRUE).text
CaptureText(chunks) ==
    LET append(text, chunk) ==
            IF text.kept = "memory" /\ Len(text.bytes) + Len(chunk) > MemoryLimit
            THEN [kept |-> "file", bytes |-> text.bytes \o chunk]
            ELSE [text EXCEPT !.bytes = @ \o chunk]
    IN  FoldLeft(append, InMemory, chunks).bytes
TextOf(decision, store, captures, chunk) ==
    IF captures /\ decision.kind # "utf8" THEN CaptureText(ReadUtf8(decision, store.bytes, chunk))
    ELSE IF store.kept = "memory" \/ decision.kind = "utf8" THEN DecodeForSearch(decision, store.bytes)
    ELSE FlattenSeq(ReadUtf8(decision, store.bytes, chunk))

Skip(why) == [is |-> "skipped", why |-> why]
Quietly == Skip(<<"nothing">>)
SearchAs(decision, used_fallback, store, captures, chunk) ==
    [is |-> "searched", decision |-> decision, used_fallback |-> used_fallback,
     text |-> TextOf(decision, store, captures, chunk)]
(* The decision searched with: the first, or the fallback where that holds.*)
SearchDecided(first, other, may_fall_back, store, captures, chunk) ==
    CASE first.is = "binary" -> Quietly
      [] first.is = "text" -> SearchAs(first, FALSE, store, captures, chunk)
      [] first.is = "rejected" ->
           IF may_fall_back /\ Head(first.why) # "bom mismatch" /\ other.is = "text"
           THEN SearchAs(other, TRUE, store, captures, chunk) ELSE Skip(first.why)
SearchCaptured(world, explicit, fallback, captures, capture) ==
    LET file == [bytes |-> capture.store.bytes, chunk |-> world.chunk, guess |-> world.guess,
                 segment_guess |-> world.segment_guess]
    IN  CASE capture.is = "binary" -> Quietly
          [] capture.is = "rejected" -> Skip(capture.why)
          [] capture.is = "changed" -> Skip(<<"changed">>)
          [] capture.is = "searchable" ->
               SearchDecided(Validate(file, explicit), Validate(file, fallback), fallback # None /\ explicit = None,
                             capture.store, captures, world.chunk)
SearchCandidate(world, explicit, fallback, captures) ==
    SearchCaptured(world, explicit, fallback, captures, CaptureClassify(world, explicit, fallback))
=============================================================================
