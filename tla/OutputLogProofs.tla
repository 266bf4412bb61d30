-------------------------- MODULE OutputLogProofs --------------------------
(***************************************************************************)
(* Proofs about OutputLog for any limit, any size of the buffer and of the *)
(* recovered tail, any contents, any number of readers, failures and       *)
(* crashes.                                                                *)
(***************************************************************************)
EXTENDS OutputLog, FiniteSetTheorems, SequenceTheorems, WellFoundedInduction, TLAPS

USE LogAssumption DEF HeaderBytes, EntryBytes

-----------------------------------------------------------------------------
(***************************************************************************)
(* Sequences and the writer's arithmetic.                                  *)
(***************************************************************************)
LEMMA PrefixType ==
    ASSUME NEW S, NEW s \in Seq(S), NEW k \in 0..Len(s)
    PROVE  /\ SubSeq(s, 1, k) \in Seq(S)
           /\ Len(SubSeq(s, 1, k)) = k
           /\ SubSeq(s, k + 1, Len(s)) \in Seq(S)
           /\ Len(SubSeq(s, k + 1, Len(s))) = Len(s) - k
  OBVIOUS

LEMMA ConcatLength ==
    ASSUME NEW S, NEW s \in Seq(S), NEW t \in Seq(S)
    PROVE  s \o t \in Seq(S) /\ Len(s \o t) = Len(s) + Len(t)
  OBVIOUS

LEMMA BomType ==
    ASSUME NEW e
    PROVE  /\ StreamBom(e) \in Seq(Symbols)
           /\ Len(StreamBom(e)) = IF e = "wide" THEN 2 ELSE 0
           /\ LineEnding(e) \in Seq(Symbols)
           /\ Len(LineEnding(e)) = UnitBytes(e)
           /\ UnitBytes(e) \in {1, 2}
  <1>1. <<"F", "E">> \in Seq(Symbols) /\ <<"n", "o">> \in Seq(Symbols)
    BY DEF Symbols
  <1>2. <<>> \in Seq(Symbols) /\ <<"n">> \in Seq(Symbols)
    BY DEF Symbols
  <1>3. CASE e = "wide"
    BY <1>1, <1>3 DEF StreamBom, LineEnding, UnitBytes
  <1>4. CASE e # "wide"
    BY <1>2, <1>4 DEF StreamBom, LineEnding, UnitBytes
  <1> QED
    BY <1>3, <1>4

(* What is written of a chunk is a prefix of it and leaves the reserve.    *)
LEMMA AcceptedType ==
    ASSUME WriterTypeOK, NEW bytes \in Seq(Symbols)
    PROVE  /\ Accepted(bytes) \in Seq(Symbols)
           /\ \/ Accepted(bytes) = <<>>
              \/ CombinedBytes + Len(Accepted(bytes)) + Reserve <= ByteLimit
  <1> DEFINE n == IF Len(bytes) < Available THEN Len(bytes) ELSE Available
             m == n - (n % UnitBytes(encoding))
  <1>1. UnitBytes(encoding) \in {1, 2} /\ Reserve \in Nat
    BY BomType DEF Reserve
  <1>2. CombinedBytes \in Nat /\ Available \in Nat
    BY <1>1 DEF CombinedBytes, Position, Available, WriterTypeOK
  <1>3. n \in 0..Len(bytes) /\ n <= Available
    BY <1>2
  <1>4. m \in 0..n
    BY <1>1, <1>3
  <1>5. Accepted(bytes) = SubSeq(bytes, 1, m)
    BY DEF Accepted
  <1>6. SubSeq(bytes, 1, m) \in Seq(Symbols) /\ Len(SubSeq(bytes, 1, m)) = m
    BY <1>3, <1>4, PrefixType
  <1>7. Available = 0 \/ CombinedBytes + Available + Reserve <= ByteLimit
    BY <1>1, <1>2 DEF Available
  <1>8. m = 0 => SubSeq(bytes, 1, m) = <<>>
    BY <1>6
  <1> HIDE DEF n, m
  <1> QED
    BY <1>1, <1>2, <1>3, <1>4, <1>5, <1>6, <1>7, <1>8

LEMMA WrittenType ==
    ASSUME WriterTypeOK, event # None
    PROVE  Written(event) \in Seq(Symbols)
  <1>1. event \in Events
    BY DEF WriterTypeOK
  <1>2. CASE event.kind = "Start"
    BY <1>2, BomType DEF Written
  <1>3. CASE event.kind = "Bytes"
    <2>1. event.bytes \in Seq(Symbols)
      BY <1>1, <1>3 DEF Events
    <2>2. Accepted(event.bytes) \in Seq(Symbols)
      BY <2>1, AcceptedType
    <2>3. Written(event) = IF quota_exceeded THEN <<>> ELSE Accepted(event.bytes)
      BY <1>3 DEF Written
    <2>4. <<>> \in Seq(Symbols)
      OBVIOUS
    <2> QED
      BY <2>2, <2>3, <2>4
  <1>4. CASE event.kind = "LineEnd"
    <2>1. Written(event) = IF ~quota_exceeded /\ event.terminated /\ LineFits(TRUE)
                           THEN LineEnding(encoding) ELSE <<>>
      BY <1>4 DEF Written
    <2>2. <<>> \in Seq(Symbols)
      OBVIOUS
    <2> QED
      BY <2>1, <2>2, BomType
  <1> QED
    BY <1>1, <1>2, <1>3, <1>4 DEF Events

(* What is not written stays in the buffer, or is lost with the writer.    *)
Writes(k) == /\ log' = log \o SubSeq(buffer, 1, k)
             /\ buffer' \in {SubSeq(buffer, k + 1, Len(buffer)), <<>>}

LEMMA WritesType ==
    ASSUME WriterTypeOK, NEW k \in 0..Len(buffer), Writes(k)
    PROVE  /\ log' \in Seq(Symbols) /\ buffer' \in Seq(Symbols)
           /\ Position' \in Nat /\ Position' <= Position
           /\ Len(log') >= Len(log)
  <1>0. <<>> \in Seq(Symbols) /\ Len(<<>>) = 0
    OBVIOUS
  <1>1. /\ SubSeq(buffer, 1, k) \in Seq(Symbols) /\ Len(SubSeq(buffer, 1, k)) = k
        /\ buffer' \in Seq(Symbols) /\ Len(buffer') <= Len(buffer) - k
        /\ Len(buffer') \in Nat
    <2> DEFINE head == SubSeq(buffer, 1, k)
               rest == SubSeq(buffer, k + 1, Len(buffer))
    <2>1. /\ head \in Seq(Symbols) /\ Len(head) = k
          /\ rest \in Seq(Symbols) /\ Len(rest) = Len(buffer) - k
      BY PrefixType DEF WriterTypeOK
    <2>2. Len(buffer) \in Nat /\ buffer' \in {rest, <<>>}
      BY DEF Writes, WriterTypeOK
    <2> HIDE DEF head, rest
    <2>3. buffer' \in Seq(Symbols) /\ Len(buffer') <= Len(buffer) - k /\ Len(buffer') \in Nat
      <3>1. CASE buffer' = rest
        BY <3>1, <2>1, <2>2
      <3>2. CASE buffer' = <<>>
        <4>1. k \in Nat /\ k <= Len(buffer)
          BY <2>2
        <4> QED
          BY <1>0, <3>2, <4>1, <2>2
      <3> QED
        BY <2>2, <3>1, <3>2
    <2> QED
      BY <2>1, <2>3 DEF head
  <1>2. /\ log' \in Seq(Symbols)
        /\ Len(log') = Len(log) + Len(SubSeq(buffer, 1, k))
    BY <1>1 DEF Writes, WriterTypeOK
  <1>3. Len(log) \in Nat /\ Len(buffer) \in Nat
    BY DEF WriterTypeOK
  <1>4. Position' = Len(log') + Len(buffer')
    BY DEF Position
  <1> QED
    BY <1>1, <1>2, <1>3, <1>4 DEF Position

LEMMA NumberType ==
    ASSUME WriterTypeOK, NEW k \in 1..PendingNumbers
    PROVE  Number(k) \in Nat
  <1> DEFINE at == durable_lines + 1 + ((k - 1) \div EntryBytes)
             f == 1 + ((k - 1) % EntryBytes)
  <1>1. at \in 1..Len(lines) /\ f \in {1, 2, 3}
    BY DEF WriterTypeOK, PendingNumbers
  <1>2. lines[at] \in LineEntry
    BY <1>1 DEF WriterTypeOK
  <1>3. Number(k) = <<lines[at].start, lines[at].content_end, lines[at].record_end>>[f]
    BY DEF Number
  <1> HIDE DEF at, f
  <1> QED
    BY <1>1, <1>2, <1>3 DEF LineEntry

-----------------------------------------------------------------------------
(***************************************************************************)
(* Typing.                                                                 *)
(***************************************************************************)
EventAtHand ==
    /\ pc = "append" => event # None
    /\ pc = "flush_log" => goal # "none"
    /\ event # None => source # "probing"

Typed == WriterTypeOK /\ EventAtHand

LEMMA TypedInit == Init => Typed
  <1> SUFFICES ASSUME Init PROVE Typed
    OBVIOUS
  <1>1. <<>> \in Seq(Symbols) /\ <<>> \in Seq(Nat) /\ <<>> \in Seq(LineEntry)
    OBVIOUS
  <1>2. /\ log \in Seq(Symbols) /\ index \in Seq(Nat) /\ buffer \in Seq(Symbols)
        /\ lines \in Seq(LineEntry) /\ Len(lines) = 0
    BY <1>1 DEF Init
  <1>3. PendingNumbers = 0
    BY <1>2 DEF PendingNumbers, Init
  <1>4. durable_lines \in 0..Len(lines) /\ index_written \in 0..PendingNumbers
    BY <1>2, <1>3 DEF Init
  <1>5. faults \in 0..MaxFaults
    BY DEF Init
  <1> QED
    BY <1>2, <1>4, <1>5 DEF Init, Typed, WriterTypeOK, EventAtHand

LEMMA ReceiveTyped ==
    ASSUME Typed, NEW e \in Events, NEW next \in {"open", "closing", "ended"},
           NEW open \in BOOLEAN, Receive(Hand(e), next, open)
    PROVE  Typed'
  BY DEF Typed, WriterTypeOK, EventAtHand, Receive, Hand, PendingNumbers,
         files, progress, notices, history

LEMMA NothingReceivedTyped ==
    ASSUME Typed, Receive(None, "ended", FALSE)
    PROVE  Typed'
  BY ZenonT(40) DEF Typed, WriterTypeOK, EventAtHand, Receive, PendingNumbers,
         files, progress, notices, history

LEMMA InputTyped ==
    ASSUME Typed, Input
    PROVE  Typed'
  <1>1. CASE ReceiveStart
    <2>1. PICK e \in Encodings : Receive(Hand(StartEvent(e)), "open", FALSE)
      BY <1>1 DEF ReceiveStart
    <2>2. StartEvent(e) \in Events
      BY DEF StartEvent, Events
    <2> QED
      BY <2>1, <2>2, ReceiveTyped
  <1>2. CASE ReceiveBytes
    <2>1. PICK c \in Chunks[encoding] : Receive(Hand(BytesEvent(c)), "open", TRUE)
      BY <1>2 DEF ReceiveBytes
    <2>2. encoding \in Encodings
      BY <1>2 DEF ReceiveBytes, Typed, WriterTypeOK
    <2>3. BytesEvent(c) \in Events
      BY <2>2 DEF BytesEvent, Events
    <2> QED
      BY <2>1, <2>3, ReceiveTyped
  <1>3. CASE ReceiveLineEnd
    <2>1. LineEndEvent(TRUE) \in Events
      BY DEF LineEndEvent, Events
    <2> QED
      BY <1>3, <2>1, ReceiveTyped DEF ReceiveLineEnd
  <1>4. CASE ReceiveHalfUnit
    <2>1. <<"x">> \in Seq(Symbols)
      BY DEF Symbols
    <2>2. BytesEvent(<<"x">>) \in Events
      BY <2>1 DEF BytesEvent, Events
    <2> QED
      BY <1>4, <2>2, ReceiveTyped DEF ReceiveHalfUnit
  <1>5. CASE ReceiveEnd
    <2>1. LineEndEvent(FALSE) \in Events
      BY DEF LineEndEvent, Events
    <2>2. CASE Receive(Hand(LineEndEvent(FALSE)), "ended", FALSE)
      BY <2>1, <2>2, ReceiveTyped
    <2>3. CASE Receive(None, "ended", FALSE)
      BY <2>3, NothingReceivedTyped
    <2> QED
      BY <1>5, <2>2, <2>3 DEF ReceiveEnd
  <1> QED
    BY <1>1, <1>2, <1>3, <1>4, <1>5 DEF Input

(* A line is added to the committed ones, or none is.                      *)
LinesGrow ==
    /\ lines' \in Seq(LineEntry) /\ Len(lines') \in Len(lines)..(Len(lines) + 1)
    /\ current_start' \in Nat /\ current_has_content' \in BOOLEAN

LEMMA CommitTyped ==
    ASSUME Typed, NEW a \in Nat, NEW b \in Nat, CommitLine(a, b)
    PROVE  LinesGrow
  <1>1. [start |-> current_start, content_end |-> a, record_end |-> b] \in LineEntry
    BY DEF Typed, WriterTypeOK, LineEntry
  <1>2. lines \in Seq(LineEntry)
    BY DEF Typed, WriterTypeOK
  <1>3. lines' \in Seq(LineEntry) /\ Len(lines') = Len(lines) + 1
    BY <1>1, <1>2 DEF CommitLine
  <1>4. Len(lines) \in Nat /\ Len(lines') \in Len(lines)..(Len(lines) + 1)
    BY <1>2, <1>3
  <1> QED
    BY <1>3, <1>4 DEF CommitLine, LinesGrow

LEMMA KeepTyped ==
    ASSUME Typed, KeepLine
    PROVE  LinesGrow
  BY DEF Typed, WriterTypeOK, KeepLine, LinesGrow

LEMMA GrowthTyped ==
    ASSUME Typed, LinesGrow, UNCHANGED <<durable_lines, index_written>>
    PROVE  /\ durable_lines' \in 0..Len(lines')
           /\ index_written' \in 0..PendingNumbers'
  <1>1. Len(lines) \in Nat /\ Len(lines') \in Nat /\ Len(lines') >= Len(lines)
    BY DEF Typed, WriterTypeOK, LinesGrow
  <1>2. PendingNumbers' = EntryBytes * (Len(lines') - durable_lines)
    BY DEF PendingNumbers
  <1> QED
    BY <1>1, <1>2 DEF Typed, WriterTypeOK, PendingNumbers

LEMMA PositionType ==
    ASSUME Typed
    PROVE  /\ Position \in Nat /\ CombinedBytes \in Nat /\ Len(lines) \in Nat
           /\ PendingNumbers \in Nat
  BY DEF Typed, WriterTypeOK, Position, CombinedBytes, PendingNumbers

(* The writes of append, whatever the event.                               *)
LEMMA AppendTyped ==
    ASSUME Typed, pc = "append", WriteBuffered(Written(event)), AfterAppend,
           quota_exceeded' \in BOOLEAN, LinesGrow,
           encoding' \in Encodings \cup {None}
    PROVE  Typed'
  <1>1. event # None
    BY DEF Typed, EventAtHand
  <1>2. Written(event) \in Seq(Symbols)
    BY <1>1, WrittenType DEF Typed
  <1>3. buffer' \in Seq(Symbols) /\ bytes_since_flush' \in Nat
    BY <1>2 DEF WriteBuffered, Typed, WriterTypeOK
  <1>4. durable_lines' \in 0..Len(lines') /\ index_written' \in 0..PendingNumbers'
    BY GrowthTyped DEF AfterAppend
  <1>5. /\ pc' \in {"flush_log", "ready"} /\ goal' \in {"append", "none"}
        /\ pc' = "flush_log" => goal' = "append"
        /\ event' = None /\ total' \in Nat
    BY DEF AfterAppend, LinesGrow, Typed, WriterTypeOK
  <1>6. UNCHANGED <<files, source, open_line, writer, capture_error, output_truncation,
                    exit, history>>
    BY DEF AfterAppend
  <1> QED
    BY <1>3, <1>4, <1>5, <1>6
    DEF Typed, WriterTypeOK, EventAtHand, LinesGrow, files, history

LEMMA AppendEventTyped ==
    ASSUME Typed, AppendStart \/ AppendBytes \/ AppendLineEnd
    PROVE  Typed'
  <1>0. event # None /\ event \in Events /\ quota_exceeded \in BOOLEAN
        /\ encoding \in Encodings \cup {None}
    BY DEF AppendStart, AppendBytes, AppendLineEnd, Typed, EventAtHand, WriterTypeOK
  <1>1. Written(event) \in Seq(Symbols) /\ Position \in Nat
    BY <1>0, WrittenType, PositionType DEF Typed
  <1>2. Position + Len(Written(event)) \in Nat
    BY <1>1
  <1>3. CASE AppendStart
    <2>1. event.encoding \in Encodings
      BY <1>0, <1>3 DEF AppendStart, Events
    <2>2. LinesGrow
      BY <1>2, <1>3 DEF AppendStart, LinesGrow, Typed, WriterTypeOK
    <2>3. quota_exceeded' \in BOOLEAN /\ encoding' \in Encodings \cup {None}
      BY <1>3, <2>1 DEF AppendStart
    <2> QED
      BY <1>3, <2>2, <2>3, AppendTyped DEF AppendStart
  <1>4. CASE AppendBytes
    <2>1. LinesGrow
      <3>1. CASE CommitLine(Position + Len(Written(event)), Position + Len(Written(event)))
        BY <1>2, <3>1, CommitTyped
      <3>2. CASE /\ current_has_content' = (current_has_content \/ Written(event) # <<>>)
                 /\ UNCHANGED <<lines, current_start>>
        BY <3>2 DEF LinesGrow, Typed, WriterTypeOK
      <3> QED
        BY <1>4, <3>1, <3>2 DEF AppendBytes
    <2>2. quota_exceeded' \in BOOLEAN
      BY <1>0, <1>4 DEF AppendBytes
    <2>3. encoding' \in Encodings \cup {None}
      BY <1>0, <1>4 DEF AppendBytes
    <2> QED
      BY <1>4, <2>1, <2>2, <2>3, AppendTyped DEF AppendBytes
  <1>5. CASE AppendLineEnd
    <2>1. LinesGrow
      <3>1. CASE CommitLine(Position, Position + Len(Written(event)))
        BY <1>1, <1>2, <3>1, CommitTyped
      <3>2. CASE KeepLine
        BY <3>2, KeepTyped
      <3> QED
        BY <1>5, <3>1, <3>2 DEF AppendLineEnd
    <2>2. quota_exceeded' \in BOOLEAN
      BY <1>5 DEF AppendLineEnd
    <2>3. encoding' \in Encodings \cup {None}
      BY <1>0, <1>5 DEF AppendLineEnd
    <2> QED
      BY <1>5, <2>1, <2>2, <2>3, AppendTyped DEF AppendLineEnd
  <1> QED
    BY <1>3, <1>4, <1>5

(* A part of the buffer goes to the log.                                   *)
LEMMA PrefixesType ==
    ASSUME Typed, NEW k \in {0, Len(buffer)} \cup Prefixes
    PROVE  k \in 0..Len(buffer)
  BY DEF Prefixes, Typed, WriterTypeOK

LEMMA WritingTyped ==
    ASSUME Typed, Spill \/ FlushLog \/ Crash \/ DropWriter
    PROVE  Typed'
  <1>1. PICK k \in 0..Len(buffer) : Writes(k)
    BY PrefixesType DEF Spill, FlushLog, Crash, DropWriter, WriteOut, Writes
  <1>2. log' \in Seq(Symbols) /\ buffer' \in Seq(Symbols)
    BY <1>1, WritesType DEF Typed
  <1>3. UNCHANGED <<index, progress, bytes_since_flush, stream, goal, capture_error,
                    output_truncation, exit, history>>
    BY DEF Spill, FlushLog, Crash, DropWriter, notices
  <1>4. PendingNumbers' = PendingNumbers
    BY <1>3 DEF PendingNumbers, progress
  <1>5. PreservedLines \in Nat
    <2>1. IsFiniteSet((durable_lines + 1)..Len(lines))
      <3>1. durable_lines + 1 \in Int /\ Len(lines) \in Int
        BY DEF Typed, WriterTypeOK
      <3> QED
        BY <3>1, FS_Interval
    <2>2. IsFiniteSet({i \in (durable_lines + 1)..Len(lines) : lines[i].record_end <= Len(log)})
      BY <2>1, FS_Subset
    <2> QED
      BY <2>2, FS_CardinalityType DEF PreservedLines, Typed, WriterTypeOK
  <1>6. /\ pc' \in {"append", "flush_log", "gone", "record"}
        /\ pc' = "append" => pc = "append"
        /\ pc' = "flush_log" => pc = "flush_log"
        /\ writer' \in {"open", "dropped"} /\ total' \in Nat
    BY <1>5 DEF Spill, FlushLog, Crash, DropWriter, notices, Typed, WriterTypeOK
  <1> QED
    BY <1>2, <1>3, <1>4, <1>6
    DEF Typed, WriterTypeOK, EventAtHand, progress, stream, history

LEMMA FlushIndexTyped ==
    ASSUME Typed, FlushIndex
    PROVE  Typed'
  <1>1. PICK k \in (index_written + 1)..PendingNumbers :
            /\ index' = index \o [i \in 1..(k - index_written) |-> Number(index_written + i)]
            /\ index_written' = k
    BY DEF FlushIndex
  <1>2. /\ index_written \in Nat /\ PendingNumbers \in Nat /\ k \in Nat
        /\ k - index_written \in Nat
    BY <1>1, PositionType DEF Typed, WriterTypeOK
  <1>3. \A i \in 1..(k - index_written) : Number(index_written + i) \in Nat
    BY <1>2, NumberType DEF Typed
  <1>4. [i \in 1..(k - index_written) |-> Number(index_written + i)] \in Seq(Nat)
    BY <1>2, <1>3
  <1>5. index' \in Seq(Nat)
    BY <1>1, <1>4 DEF Typed, WriterTypeOK
  <1>6. /\ UNCHANGED <<log, buffer, lines, durable_lines, current_start,
                       current_has_content, encoding, quota_exceeded,
                       bytes_since_flush, stream, pc, goal, writer, notices, history>>
        /\ PendingNumbers' = PendingNumbers
    BY DEF FlushIndex, PendingNumbers
  <1>7. index_written' \in 0..PendingNumbers'
    BY <1>1, <1>2, <1>6
  <1> QED
    BY <1>5, <1>6, <1>7
    DEF Typed, WriterTypeOK, EventAtHand, stream, notices, history

LEMMA FlushDoneTyped ==
    ASSUME Typed, FlushDone
    PROVE  Typed'
  <1>1. PendingNumbers' = 0 /\ durable_lines' \in 0..Len(lines') /\ index_written' = 0
    BY DEF FlushDone, PendingNumbers, Typed, WriterTypeOK
  <1>2. goal \in {"append", "idle", "finish", "capture"} =>
            AfterFlush \in {"notice", "ready", "exit", "drop"}
    BY DEF AfterFlush
  <1>3. goal \in {"append", "idle", "finish", "capture"}
    BY DEF FlushDone, Typed, WriterTypeOK, EventAtHand
  <1> QED
    BY <1>1, <1>2, <1>3
    DEF FlushDone, Typed, WriterTypeOK, EventAtHand, files, stream, notices, history

(* The steps of the control loop that touch neither file nor line.         *)
LEMMA ControlTyped ==
    ASSUME Typed, FlushIfIdle \/ RecordTruncation \/ RecordCapture \/ RecordExit
    PROVE  Typed'
  <1>1. UNCHANGED <<files, buffer, progress, bytes_since_flush, stream, writer, history>>
    BY DEF FlushIfIdle, RecordTruncation, RecordCapture, RecordExit
  <1>2. PendingNumbers' = PendingNumbers
    BY <1>1 DEF PendingNumbers, progress
  <1>3. /\ pc' \in {"flush_log", "ready", "exit", "gone"}
        /\ goal' \in {"append", "idle", "finish", "capture", "none"}
        /\ pc' = "flush_log" => goal' = "idle"
    BY DEF FlushIfIdle, RecordTruncation, RecordCapture, RecordExit, Typed, WriterTypeOK
  <1>4. Len(lines) \in Nat
    BY PositionType
  <1>5. /\ capture_error' \in Nat \cup {None} /\ output_truncation' \in Nat \cup {None}
        /\ exit' \in Nat \cup {None} /\ total' \in Nat
    BY <1>4 DEF FlushIfIdle, RecordTruncation, RecordCapture, RecordExit, notices,
                Typed, WriterTypeOK
  <1> QED
    BY <1>1, <1>2, <1>3, <1>5
    DEF Typed, WriterTypeOK, EventAtHand, files, progress, stream, history

LEMMA SealTyped ==
    ASSUME Typed, NEW why, Seal(why)
    PROVE  LinesGrow
  <1>1. Position \in Nat
    BY PositionType
  <1> QED
    BY <1>1, CommitTyped, KeepTyped DEF Seal

LEMMA SealingTyped ==
    ASSUME Typed, CaptureFails \/ WriteFails \/ Finish
    PROVE  Typed'
  <1>1. LinesGrow
    BY SealTyped, KeepTyped DEF CaptureFails, WriteFails, Finish
  <1>2. UNCHANGED <<files, buffer, durable_lines, encoding, quota_exceeded,
                    bytes_since_flush, writer, notices>>
    BY DEF CaptureFails, WriteFails, Finish
  <1>3. durable_lines' \in 0..Len(lines') /\ index_written' \in 0..PendingNumbers'
    <2>1. CASE UNCHANGED index_written
      BY <1>1, <1>2, <2>1, GrowthTyped
    <2>2. CASE index_written' = 0
      <3>1. durable_lines' \in 0..Len(lines') /\ Len(lines') \in Nat
        BY <1>1, <1>2 DEF LinesGrow, Typed, WriterTypeOK
      <3>2. PendingNumbers' = EntryBytes * (Len(lines') - durable_lines')
        BY DEF PendingNumbers
      <3> QED
        BY <2>2, <3>1, <3>2
    <2> QED
      BY <2>1, <2>2 DEF CaptureFails, WriteFails, Finish
  <1>4. /\ open_line' \in BOOLEAN /\ event' \in Events \cup {None}
        /\ source' \in {"probing", "open", "closing", "ended", "finishing"}
    BY DEF CaptureFails, WriteFails, Finish, Typed, WriterTypeOK
  <1>6. faults' \in 0..MaxFaults
    BY DEF CaptureFails, WriteFails, Finish, Typed, WriterTypeOK, history
  <1>7. index_torn' \in BOOLEAN
    BY DEF CaptureFails, WriteFails, Finish, Typed, WriterTypeOK, history
  <1>5. /\ pc' \in {"flush_log", "drop", "exit"}
        /\ goal' \in {"append", "idle", "finish", "capture", "none"}
        /\ pc' = "flush_log" => goal' # "none"
    BY DEF CaptureFails, WriteFails, Finish, Seal, Typed, WriterTypeOK
  <1>8. event' # None => source' # "probing"
    BY DEF CaptureFails, WriteFails, Finish, Typed, EventAtHand
  <1> QED
    BY <1>1, <1>2, <1>3, <1>4, <1>5, <1>6, <1>7, <1>8
    DEF Typed, WriterTypeOK, EventAtHand, LinesGrow, files, notices

LEMMA ReadingTyped ==
    ASSUME Typed, NEW r \in Readers, Reading(r)
    PROVE  Typed'
  <1>1. UNCHANGED <<files, buffer, progress, bytes_since_flush, stream, pc, goal, writer,
                    notices, history>>
    BY DEF Reading, FindStatus, ReadNotices, SampleIndex, OpenLog, Close, ReaderSteps
  <1> QED
    BY <1>1
    DEF Typed, WriterTypeOK, EventAtHand, PendingNumbers, files, progress, stream, notices,
        history

LEMMA TypedStep ==
    ASSUME Typed, [Next]_vars
    PROVE  Typed'
  <1>1. CASE Work
    BY <1>1, WritingTyped, AppendEventTyped, FlushIndexTyped, FlushDoneTyped,
       ControlTyped, SealingTyped DEF Work
  <1>2. CASE Input
    BY <1>2, InputTyped
  <1>3. CASE Failure
    BY <1>3, WritingTyped, SealingTyped DEF Failure
  <1>4. CASE \E r \in Readers : Reading(r)
    BY <1>4, ReadingTyped
  <1>5. CASE UNCHANGED vars
    BY <1>5 DEF vars, Typed, WriterTypeOK, EventAtHand, PendingNumbers
  <1> QED
    BY <1>1, <1>2, <1>3, <1>4, <1>5 DEF Next

(* Every value of the supervisor's state keeps its type, and the writer    *)
(* never has put more lines into the index than it has committed.          *)
THEOREM Typing == Spec => []WriterTypeOK
  <1>1. Typed => WriterTypeOK
    BY DEF Typed
  <1> QED
    BY TypedInit, TypedStep, <1>1, PTL DEF Spec

-----------------------------------------------------------------------------
(***************************************************************************)
(* The hard limit.                                                         *)
(***************************************************************************)
(* Nothing is written before the Start event has been appended.            *)
BeforeStart == source = "probing" \/ (event # None /\ event.kind = "Start")

StartFirst ==
    BeforeStart =>
        /\ log = <<>> /\ buffer = <<>> /\ lines = <<>> /\ index = <<>>
        /\ encoding = None /\ ~current_has_content /\ current_start = 0

(* A line that has begun can be sealed, with its ending.                   *)
RoomToSeal == current_has_content => CombinedBytes + Reserve <= ByteLimit

IndexIsCounted ==
    ~index_torn => Len(index) = EntryBytes * durable_lines + index_written

Limited ==
    /\ Typed /\ StartFirst
    /\ CombinedBytes <= ByteLimit
    /\ RoomToSeal
    /\ IndexIsCounted

LEMMA LimitedInit == Init => Limited
  <1> SUFFICES ASSUME Init PROVE Limited
    OBVIOUS
  <1>1. Len(<<>>) = 0
    OBVIOUS
  <1> QED
    BY <1>1, TypedInit
    DEF Init, Limited, StartFirst, RoomToSeal, IndexIsCounted, CombinedBytes, Position

LEMMA LimitedMeansLimit == Limited => HardLimit
  <1> SUFFICES ASSUME Limited PROVE HardLimit
    OBVIOUS
  <1>1. Len(log) \in Nat /\ Len(buffer) \in Nat /\ Len(lines) \in Nat
        /\ durable_lines \in 0..Len(lines)
        /\ index_written \in 0..PendingNumbers
    BY DEF Limited, Typed, WriterTypeOK
  <1>2. Reserve \in Nat /\ Reserve >= EntryBytes
    BY BomType DEF Reserve
  <1>3. CombinedBytes \in Nat
    BY <1>1 DEF CombinedBytes, Position
  <1>4. current_has_content => CombinedBytes + EntryBytes <= ByteLimit
    BY <1>2, <1>3 DEF Limited, RoomToSeal
  <1>5. ~index_torn => Len(index) <= EntryBytes * Len(lines)
    BY <1>1 DEF Limited, IndexIsCounted, PendingNumbers
  <1>6. ~index_torn => Len(log) + HeaderBytes + Len(index) <= ByteLimit
    BY <1>1, <1>5 DEF Limited, CombinedBytes, Position, Typed, WriterTypeOK
  <1> QED
    BY <1>4, <1>6 DEF HardLimit, Limited

(* A step that leaves the files and the line in progress alone.            *)
LEMMA QuietLimited ==
    ASSUME Limited, Typed', BeforeStart' => BeforeStart,
           UNCHANGED <<log, index, buffer, lines, durable_lines, index_written,
                       current_start, current_has_content, encoding, index_torn>>
    PROVE  Limited'
  <1>1. CombinedBytes' = CombinedBytes /\ Reserve' = Reserve
    BY DEF CombinedBytes, Position, Reserve
  <1> QED
    BY <1>1 DEF Limited, StartFirst, RoomToSeal, IndexIsCounted

LEMMA QuietStepLimited ==
    ASSUME Limited, Typed',
           \/ Input \/ FlushIfIdle \/ RecordTruncation \/ RecordCapture \/ RecordExit
           \/ \E r \in Readers : Reading(r)
           \/ UNCHANGED vars
    PROVE  Limited'
  <1>1. UNCHANGED <<log, index, buffer, lines, durable_lines, index_written,
                    current_start, current_has_content, encoding, index_torn>>
    BY DEF Input, ReceiveStart, ReceiveBytes, ReceiveLineEnd, ReceiveHalfUnit, ReceiveEnd,
           Receive, FlushIfIdle, RecordTruncation, RecordCapture, RecordExit, Reading,
           FindStatus, ReadNotices, SampleIndex, OpenLog, Close, ReaderSteps, vars,
           files, progress, history
  <1>2. CASE ~Input
    <2>1. UNCHANGED <<source, event>>
      BY <1>2 DEF FlushIfIdle, RecordTruncation, RecordCapture, RecordExit, Reading,
           FindStatus, ReadNotices, SampleIndex, OpenLog, Close, ReaderSteps, vars, stream
    <2> QED
      BY <1>1, <2>1, QuietLimited DEF BeforeStart
  <1>3. CASE Input
    <2>1. CASE source = "probing"
      BY <1>1, <2>1, QuietLimited DEF BeforeStart
    <2>2. CASE source # "probing"
      <3>1. ~BeforeStart'
        BY <1>3, <2>2 DEF Input, ReceiveStart, ReceiveBytes, ReceiveLineEnd,
           ReceiveHalfUnit, ReceiveEnd, Receive, BeforeStart, Hand, BytesEvent, LineEndEvent
      <3> QED
        BY <1>1, <3>1, QuietLimited
    <2> QED
      BY <2>1, <2>2
  <1> QED
    BY <1>2, <1>3

(* Bytes pass from the buffer to the log: their sum does not grow.         *)
LEMMA WritingLimited ==
    ASSUME Limited, Typed', Spill \/ FlushLog \/ Crash \/ DropWriter
    PROVE  Limited'
  <1>1. PICK k \in 0..Len(buffer) : Writes(k)
    BY PrefixesType DEF Spill, FlushLog, Crash, DropWriter, WriteOut, Writes, Limited
  <1>2. Position' \in Nat /\ Position' <= Position /\ Position \in Nat
    BY <1>1, WritesType DEF Limited, Typed, WriterTypeOK, Position
  <1>3. UNCHANGED <<index, progress, stream, history>>
    BY DEF Spill, FlushLog, Crash, DropWriter
  <1>4. CombinedBytes' <= CombinedBytes /\ Reserve' = Reserve /\ Reserve \in Nat
        /\ CombinedBytes' \in Nat /\ CombinedBytes \in Nat
    <2>1. Len(lines) \in Nat /\ lines' = lines /\ encoding' = encoding
      BY <1>3 DEF Limited, Typed, WriterTypeOK, progress
    <2>2. Reserve \in Nat
      BY BomType DEF Reserve
    <2> QED
      BY <1>2, <2>1, <2>2 DEF CombinedBytes, Reserve
  <1>5. BeforeStart' => BeforeStart
    BY <1>3 DEF BeforeStart, stream
  <1>6. BeforeStart => log' = <<>> /\ buffer' = <<>>
    <2> SUFFICES ASSUME BeforeStart PROVE log' = <<>> /\ buffer' = <<>>
      OBVIOUS
    <2>1. log = <<>> /\ buffer = <<>>
      BY DEF Limited, StartFirst
    <2>2. Len(log') + Len(buffer') = 0
      BY <1>2, <2>1 DEF Position
    <2>3. log' \in Seq(Symbols) /\ buffer' \in Seq(Symbols)
      BY DEF Typed, WriterTypeOK
    <2> QED
      BY <2>2, <2>3
  <1> QED
    BY <1>3, <1>4, <1>5, <1>6
    DEF Limited, StartFirst, RoomToSeal, IndexIsCounted, progress, history

LEMMA FlushIndexLimited ==
    ASSUME Limited, Typed', FlushIndex
    PROVE  Limited'
  <1>1. PICK k \in (index_written + 1)..PendingNumbers :
            /\ index' = index \o [i \in 1..(k - index_written) |-> Number(index_written + i)]
            /\ index_written' = k
    BY DEF FlushIndex
  <1>2. /\ index_written \in Nat /\ PendingNumbers \in Nat /\ k \in Nat
        /\ k - index_written \in Nat /\ durable_lines \in Nat /\ Len(index) \in Nat
    BY <1>1, PositionType DEF Limited, Typed, WriterTypeOK
  <1> DEFINE new == [i \in 1..(k - index_written) |-> Number(index_written + i)]
  <1>3. \A i \in 1..(k - index_written) : Number(index_written + i) \in Nat
    BY <1>2, NumberType DEF Limited, Typed
  <1>4. new \in Seq(Nat) /\ Len(new) = k - index_written
    BY <1>2, <1>3
  <1>5. index \in Seq(Nat) /\ index' = index \o new
    BY <1>1 DEF Limited, Typed, WriterTypeOK
  <1> HIDE DEF new
  <1>6. Len(index') = Len(index) + (k - index_written)
    BY ZenonT(40), <1>2, <1>4, <1>5, ConcatLength
  <1>7. UNCHANGED <<log, buffer, lines, durable_lines, current_start,
                    current_has_content, encoding, stream, history>>
    BY DEF FlushIndex
  <1>8. CombinedBytes' = CombinedBytes /\ Reserve' = Reserve
    BY <1>7 DEF CombinedBytes, Position, Reserve
  <1>9. IndexIsCounted'
    <2> SUFFICES ASSUME ~index_torn'
                 PROVE  Len(index') = EntryBytes * durable_lines' + index_written'
      BY DEF IndexIsCounted
    <2>1. ~index_torn /\ durable_lines' = durable_lines
      BY <1>7 DEF history
    <2>2. Len(index) = EntryBytes * durable_lines + index_written
      BY <2>1 DEF Limited, IndexIsCounted
    <2> QED
      BY <1>1, <1>2, <1>6, <2>1, <2>2
  <1>10. ~BeforeStart
    <2> SUFFICES ASSUME BeforeStart PROVE FALSE
      OBVIOUS
    <2>1. Len(lines) = 0
      BY DEF Limited, StartFirst
    <2>2. PendingNumbers = 0
      BY <2>1 DEF PendingNumbers, Limited, Typed, WriterTypeOK
    <2> QED
      BY <1>1, <1>2, <2>2
  <1>11. ~BeforeStart'
    BY <1>7, <1>10 DEF BeforeStart, stream
  <1> QED
    BY <1>7, <1>8, <1>9, <1>11 DEF Limited, StartFirst, RoomToSeal

LEMMA FlushDoneLimited ==
    ASSUME Limited, Typed', FlushDone
    PROVE  Limited'
  <1>1. UNCHANGED <<files, buffer, lines, current_start, current_has_content, encoding,
                    stream, history>>
    BY DEF FlushDone
  <1>2. CombinedBytes' = CombinedBytes /\ Reserve' = Reserve
    BY <1>1 DEF CombinedBytes, Position, Reserve, files
  <1>3. /\ index_written = PendingNumbers /\ index_written' = 0
        /\ durable_lines' = Len(lines)
    BY DEF FlushDone
  <1>4. Len(lines) \in Nat /\ durable_lines \in Nat
    BY DEF Limited, Typed, WriterTypeOK
  <1>5. IndexIsCounted'
    BY <1>1, <1>3, <1>4 DEF Limited, IndexIsCounted, PendingNumbers, files, history
  <1>6. BeforeStart' => BeforeStart
    BY <1>1 DEF BeforeStart, stream
  <1> QED
    BY <1>1, <1>2, <1>5, <1>6 DEF Limited, StartFirst, RoomToSeal, files

LEMMA ReserveType ==
    ASSUME NEW e
    PROVE  /\ EntryBytes + Len(LineEnding(e)) \in Nat
           /\ EntryBytes + Len(LineEnding(e)) >= EntryBytes + 1
  BY BomType

(* Sealing writes no byte; its entry was reserved.                         *)
LEMMA SealingLimited ==
    ASSUME Limited, Typed', CaptureFails \/ WriteFails \/ Finish
    PROVE  Limited'
  <1>1. UNCHANGED <<log, buffer, index, durable_lines, encoding>>
    BY DEF CaptureFails, WriteFails, Finish, files
  <1>2. Position' = Position /\ Reserve' = Reserve
    BY <1>1 DEF Position, Reserve
  <1>3. \/ CommitLine(Position, Position) /\ current_has_content
        \/ KeepLine
    BY DEF CaptureFails, WriteFails, Finish, Seal
  <1>4. /\ Position \in Nat /\ Len(lines) \in Nat
        /\ Reserve \in Nat /\ Reserve >= EntryBytes + 1
    BY PositionType, ReserveType DEF Limited, Reserve
  <1>5. CombinedBytes' <= ByteLimit /\ RoomToSeal'
    <2>1. CASE CommitLine(Position, Position) /\ current_has_content
      <3>1. Len(lines') = Len(lines) + 1 /\ ~current_has_content'
        BY <2>1 DEF CommitLine, Limited, Typed, WriterTypeOK
      <3>2. CombinedBytes' = CombinedBytes + EntryBytes
        BY <1>2, <1>4, <3>1 DEF CombinedBytes
      <3>3. CombinedBytes + Reserve <= ByteLimit /\ CombinedBytes \in Nat
        BY <2>1, PositionType DEF Limited, RoomToSeal
      <3> QED
        BY <1>4, <3>1, <3>2, <3>3 DEF RoomToSeal
    <2>2. CASE KeepLine
      <3>1. CombinedBytes' = CombinedBytes
        BY <1>2, <2>2 DEF CombinedBytes, KeepLine
      <3> QED
        BY <1>2, <2>2, <3>1 DEF KeepLine, RoomToSeal, Limited
    <2> QED
      BY <1>3, <2>1, <2>2
  <1>6. IndexIsCounted'
    <2>1. CASE UNCHANGED <<index_written, index_torn>>
      BY <1>1, <2>1 DEF IndexIsCounted, Limited
    <2>2. CASE WriteFails
      <3> SUFFICES ASSUME ~index_torn'
                   PROVE  Len(index') = EntryBytes * durable_lines' + index_written'
        BY DEF IndexIsCounted
      <3>1. ~index_torn /\ ~(index_written > 0) /\ index_written' = 0
        BY <2>2 DEF WriteFails
      <3>2. index_written = 0
        BY <3>1 DEF Limited, Typed, WriterTypeOK, PendingNumbers
      <3> QED
        BY <1>1, <3>1, <3>2 DEF Limited, IndexIsCounted
    <2> QED
      BY <2>1, <2>2 DEF CaptureFails, Finish, history
  <1>7. BeforeStart' => BeforeStart
    BY DEF CaptureFails, WriteFails, Finish, BeforeStart
  <1>8. BeforeStart => KeepLine
    BY <1>3 DEF Limited, StartFirst
  <1> QED
    BY <1>1, <1>5, <1>6, <1>7, <1>8 DEF Limited, StartFirst, KeepLine

(* What append writes has been checked against the limit.                  *)
LEMMA WriteBufferedLength ==
    ASSUME Limited, event # None, WriteBuffered(Written(event)), UNCHANGED log
    PROVE  /\ Position' = Position + Len(Written(event))
           /\ Len(Written(event)) \in Nat
  <1>1. Written(event) \in Seq(Symbols) /\ buffer \in Seq(Symbols) /\ log \in Seq(Symbols)
    BY WrittenType DEF Limited, Typed, WriterTypeOK
  <1>2. Len(buffer') = Len(buffer) + Len(Written(event))
    BY <1>1, ConcatLength DEF WriteBuffered
  <1> QED
    BY <1>1, <1>2 DEF Position

LEMMA AppendFrame ==
    ASSUME Limited, Typed', pc = "append", AfterAppend
    PROVE  /\ event # None /\ event \in Events
           /\ UNCHANGED <<log, index, durable_lines, index_written, index_torn>>
           /\ IndexIsCounted'
           /\ ~BeforeStart'
  <1>1. event # None /\ event \in Events /\ source # "probing"
    BY DEF Limited, Typed, EventAtHand, WriterTypeOK
  <1>2. UNCHANGED <<log, index, durable_lines, index_written, index_torn, source>>
        /\ event' = None
    BY DEF AfterAppend, files, history
  <1> QED
    BY <1>1, <1>2 DEF BeforeStart, IndexIsCounted, Limited

LEMMA AppendStartLimited ==
    ASSUME Limited, Typed', AppendStart
    PROVE  Limited'
  <1>1. /\ event # None /\ event \in Events /\ UNCHANGED log
        /\ IndexIsCounted' /\ ~BeforeStart'
    BY AppendFrame DEF AppendStart
  <1>2. /\ Position' = Position + Len(Written(event))
        /\ Len(Written(event)) \in Nat /\ Position \in Nat /\ Len(lines) \in Nat
    BY <1>1, WriteBufferedLength, PositionType DEF AppendStart, Limited
  <1>3. ~current_has_content' /\ lines' = lines
    BY DEF AppendStart, Limited, StartFirst, BeforeStart, Typed, EventAtHand
  <1>4. CombinedBytes' = CombinedBytes + Len(Written(event))
    BY <1>2, <1>3 DEF CombinedBytes
  <1>5. \/ Len(Written(event)) = 0
        \/ CombinedBytes + Len(Written(event)) <= ByteLimit
    BY DEF AppendStart, Written
  <1>6. CombinedBytes' <= ByteLimit
    BY <1>2, <1>4, <1>5, PositionType DEF Limited
  <1> QED
    BY <1>1, <1>3, <1>6 DEF Limited, StartFirst, RoomToSeal

LEMMA AppendBytesLimited ==
    ASSUME Limited, Typed', AppendBytes
    PROVE  Limited'
  <1>1. /\ event # None /\ event \in Events /\ UNCHANGED log
        /\ IndexIsCounted' /\ ~BeforeStart'
    BY AppendFrame DEF AppendBytes
  <1>2. /\ Position' = Position + Len(Written(event))
        /\ Len(Written(event)) \in Nat /\ Position \in Nat /\ Len(lines) \in Nat
    BY <1>1, WriteBufferedLength, PositionType DEF AppendBytes, Limited
  <1>3. event.bytes \in Seq(Symbols)
    BY <1>1 DEF AppendBytes, Events
  <1>4. \/ Written(event) = <<>>
        \/ CombinedBytes + Len(Written(event)) + Reserve <= ByteLimit
    <2>1. Written(event) = IF quota_exceeded THEN <<>> ELSE Accepted(event.bytes)
      BY DEF AppendBytes, Written
    <2> QED
      BY <1>3, <2>1, AcceptedType DEF Limited, Typed
  <1>5. /\ Reserve \in Nat /\ Reserve >= EntryBytes + 1 /\ Reserve' = Reserve
    BY ReserveType DEF Reserve, AppendBytes
  <1> DEFINE content == current_has_content \/ Written(event) # <<>>
  <1>6. CombinedBytes \in Nat /\ CombinedBytes <= ByteLimit
    BY PositionType DEF Limited
  <1>7. content => CombinedBytes + Len(Written(event)) + Reserve <= ByteLimit
    <2>1. CASE Written(event) = <<>>
      <3>1. Len(Written(event)) = 0
        BY <2>1
      <3> QED
        BY <1>6, <2>1, <3>1 DEF Limited, RoomToSeal
    <2>2. CASE Written(event) # <<>>
      BY <1>4, <2>2
    <2> QED
      BY <2>1, <2>2
  <1>8. CASE /\ content
             /\ CommitLine(Position + Len(Written(event)), Position + Len(Written(event)))
    <2>1. Len(lines') = Len(lines) + 1 /\ ~current_has_content'
      BY <1>8 DEF CommitLine, Limited, Typed, WriterTypeOK
    <2>2. CombinedBytes' = CombinedBytes + Len(Written(event)) + EntryBytes
      BY <1>2, <2>1 DEF CombinedBytes
    <2>3. CombinedBytes' <= ByteLimit
      BY <1>2, <1>5, <1>6, <1>7, <1>8, <2>2
    <2> QED
      BY <1>1, <2>1, <2>3 DEF Limited, StartFirst, RoomToSeal
  <1>9. CASE current_has_content' = content /\ UNCHANGED <<lines, current_start>>
    <2>1. CombinedBytes' = CombinedBytes + Len(Written(event))
      BY <1>2, <1>9 DEF CombinedBytes
    <2>2. CombinedBytes' <= ByteLimit
      <3>1. Written(event) = <<>> => Len(Written(event)) = 0
        OBVIOUS
      <3> QED
        BY <1>2, <1>4, <1>5, <1>6, <2>1, <3>1
    <2>3. RoomToSeal'
      BY <1>5, <1>7, <1>9, <2>1 DEF RoomToSeal
    <2> QED
      BY <1>1, <2>2, <2>3 DEF Limited, StartFirst
  <1> QED
    BY <1>8, <1>9 DEF AppendBytes

LEMMA AppendLineEndLimited ==
    ASSUME Limited, Typed', AppendLineEnd
    PROVE  Limited'
  <1>1. /\ event # None /\ event \in Events /\ UNCHANGED log
        /\ IndexIsCounted' /\ ~BeforeStart'
    BY AppendFrame DEF AppendLineEnd
  <1>2. /\ Position' = Position + Len(Written(event))
        /\ Len(Written(event)) \in Nat /\ Position \in Nat /\ Len(lines) \in Nat
    BY <1>1, WriteBufferedLength, PositionType DEF AppendLineEnd, Limited
  <1> DEFINE fits == ~quota_exceeded /\ LineFits(event.terminated)
             ending == Len(LineEnding(encoding))
  <1>3. ending \in Nat /\ Reserve = EntryBytes + ending /\ Reserve' = Reserve
    BY BomType DEF Reserve, AppendLineEnd
  <1>4. Len(Written(event)) = IF fits /\ event.terminated THEN ending ELSE 0
    <2>1. Written(event) = IF ~quota_exceeded /\ event.terminated /\ LineFits(TRUE)
                           THEN LineEnding(encoding) ELSE <<>>
      BY DEF AppendLineEnd, Written
    <2>2. event.terminated \in BOOLEAN
      BY <1>1 DEF AppendLineEnd, Events
    <2>3. event.terminated => event.terminated = TRUE
      BY <2>2
    <2> QED
      BY <2>1, <2>3
  <1>5. fits => CombinedBytes + EntryBytes + Len(Written(event)) <= ByteLimit
    BY <1>4, PositionType DEF LineFits, Limited
  <1>6. CombinedBytes \in Nat /\ CombinedBytes <= ByteLimit
    BY PositionType DEF Limited
  <1> HIDE DEF ending
  <1>7. CASE fits \/ current_has_content
    <2>1. CommitLine(Position, Position + Len(Written(event)))
      BY <1>7 DEF AppendLineEnd
    <2>2. Len(lines') = Len(lines) + 1 /\ ~current_has_content'
      BY <2>1 DEF CommitLine, Limited, Typed, WriterTypeOK
    <2>3. CombinedBytes' = CombinedBytes + Len(Written(event)) + EntryBytes
      BY <1>2, <2>2 DEF CombinedBytes
    <2>4. CombinedBytes' <= ByteLimit
      <3>1. CASE fits
        BY <1>2, <1>5, <1>6, <2>3, <3>1
      <3>2. CASE ~fits
        <4>1. CombinedBytes + Reserve <= ByteLimit
          BY <1>7, <3>2 DEF Limited, RoomToSeal
        <4>2. Len(Written(event)) = 0
          BY <1>4, <3>2
        <4> QED
          BY <1>3, <1>6, <2>3, <4>1, <4>2
      <3> QED
        BY <3>1, <3>2
    <2> QED
      BY <1>1, <2>2, <2>4 DEF Limited, StartFirst, RoomToSeal
  <1>8. CASE ~(fits \/ current_has_content)
    <2>1. KeepLine
      BY <1>8 DEF AppendLineEnd
    <2>2. Len(Written(event)) = 0
      BY <1>4, <1>8
    <2>3. CombinedBytes' = CombinedBytes
      BY <1>2, <2>1, <2>2 DEF CombinedBytes, KeepLine
    <2> QED
      BY <1>1, <1>3, <2>1, <2>3 DEF Limited, StartFirst, RoomToSeal, KeepLine
  <1> QED
    BY <1>7, <1>8

LEMMA LimitedStep ==
    ASSUME Limited, [Next]_vars
    PROVE  Limited'
  <1>1. Typed'
    BY TypedStep DEF Limited
  <1>2. CASE Work
    BY <1>1, <1>2, WritingLimited, AppendStartLimited, AppendBytesLimited,
       AppendLineEndLimited, FlushIndexLimited, FlushDoneLimited, QuietStepLimited,
       SealingLimited DEF Work
  <1>3. CASE Input \/ UNCHANGED vars \/ \E r \in Readers : Reading(r)
    BY <1>1, <1>3, QuietStepLimited
  <1>4. CASE Failure
    BY <1>1, <1>4, WritingLimited, SealingLimited DEF Failure
  <1> QED
    BY <1>2, <1>3, <1>4 DEF Next

(* OutputLogWriter: log and index never exceed the byte limit of the job,  *)
(* for every content, size of the buffer and failure of a write.           *)
THEOREM Limit == Spec => []HardLimit
  BY LimitedInit, LimitedStep, LimitedMeansLimit, PTL DEF Spec

-----------------------------------------------------------------------------
(***************************************************************************)
(* The tail is final.                                                      *)
(***************************************************************************)
(* What a reader takes for the sign that nobody adds to the log any more.  *)
Final == pc = "gone" \/ capture_error # None \/ output_truncation # None

(* Nothing is held back: neither bytes nor entries.                        *)
NothingHeld == buffer = <<>> /\ PendingNumbers = 0

(* A dropped writer has lost or written what it held and gets no event.    *)
DroppedIsIdle ==
    writer = "dropped" =>
        buffer = <<>> /\ event = None /\ pc \in {"ready", "record", "exit", "gone"}

CaptureDropped == capture_error # None \/ pc = "record" => writer = "dropped"

(* The append that meets the limit seals the line it was in.               *)
FullIsSealed == quota_exceeded => ~current_has_content /\ ~BeforeStart

TruncationFlushed ==
    output_truncation # None \/ pc = "notice" => quota_exceeded /\ NothingHeld

(* An event is in hand only while it is appended.                          *)
HandFree == event # None => pc \in {"append", "gone"}

Settled ==
    HandFree /\ DroppedIsIdle /\ CaptureDropped /\ FullIsSealed /\ TruncationFlushed

(* The fields of a reader that the decision on the tail rests on.          *)
ReadersShaped ==
    /\ DOMAIN reader = Readers
    /\ \A r \in Readers : {"pc", "running", "tail"} \subseteq DOMAIN reader[r]

TailsAreFinal ==
    \A r \in Readers : /\ reader[r].running \/ pc = "gone"
                       /\ reader[r].tail => Final

Ending == Limited /\ Settled /\ ReadersShaped /\ TailsAreFinal

LEMMA EndingInit == Init => Ending
  <1> SUFFICES ASSUME Init PROVE Ending
    OBVIOUS
  <1>1. Settled
    BY DEF Init, Settled, HandFree, DroppedIsIdle, CaptureDropped, FullIsSealed, TruncationFlushed
  <1>2. ReadersShaped /\ TailsAreFinal
    BY DEF Init, IdleReader, ReadersShaped, TailsAreFinal
  <1> QED
    BY <1>1, <1>2, LimitedInit DEF Ending

-----------------------------------------------------------------------------
(* A write of nothing.                                                     *)
LEMMA NothingToWrite ==
    ASSUME WriterTypeOK, buffer = <<>>
    PROVE  /\ Len(buffer) = 0 /\ Prefixes = {}
           /\ log \o SubSeq(buffer, 1, 0) = log
           /\ SubSeq(buffer, 1, Len(buffer)) = <<>>
  <1>1. Len(buffer) = 0 /\ SubSeq(buffer, 1, 0) = <<>> /\ log \in Seq(Symbols)
    BY DEF WriterTypeOK
  <1>2. log \o <<>> = log
    BY <1>1
  <1>3. Prefixes = {}
    BY <1>1 DEF Prefixes
  <1> QED
    BY <1>1, <1>2, <1>3

(* A full log takes nothing of an event.                                   *)
LEMMA NothingWritten ==
    ASSUME Limited, Settled, quota_exceeded,
           AppendStart \/ AppendBytes \/ AppendLineEnd
    PROVE  /\ AppendBytes \/ AppendLineEnd
           /\ Written(event) = <<>> /\ quota_exceeded' /\ KeepLine
           /\ buffer' = buffer /\ ~current_has_content
  <1>1. ~current_has_content /\ ~BeforeStart /\ buffer \in Seq(Symbols)
    BY DEF Settled, FullIsSealed, Limited, Typed, WriterTypeOK
  <1>2. event # None
    BY DEF Limited, Typed, EventAtHand, AppendStart, AppendBytes, AppendLineEnd
  <1>3. ~AppendStart
    BY <1>1, <1>2 DEF AppendStart, BeforeStart
  <1>4. Written(event) = <<>>
    BY <1>3 DEF AppendBytes, AppendLineEnd, Written
  <1>5. buffer \o <<>> = buffer
    BY <1>1
  <1>6. buffer' = buffer
    BY <1>3, <1>4, <1>5 DEF AppendBytes, AppendLineEnd, WriteBuffered
  <1>7. CASE AppendBytes
    <2>1. current_has_content = FALSE
      BY <1>1 DEF Limited, Typed, WriterTypeOK
    <2>2. quota_exceeded' /\ current_has_content' = (current_has_content \/ Written(event) # <<>>)
          /\ UNCHANGED <<lines, current_start>>
      BY <1>7 DEF AppendBytes
    <2>3. current_has_content' = FALSE
      BY <1>4, <2>1, <2>2
    <2> QED
      BY <1>1, <1>3, <1>4, <1>6, <1>7, <2>1, <2>2, <2>3 DEF KeepLine
  <1>8. CASE AppendLineEnd
    BY <1>1, <1>3, <1>4, <1>6, <1>8 DEF AppendLineEnd
  <1> QED
    BY <1>3, <1>7, <1>8

-----------------------------------------------------------------------------
(* Steps of the supervisor leave the readers alone, and what is final      *)
(* stays final.                                                            *)
LEMMA FinalStays ==
    ASSUME Ending, Work \/ Input \/ Failure
    PROVE  /\ capture_error # None => capture_error' # None
           /\ output_truncation # None => output_truncation' # None
           /\ pc # "gone" /\ (Final => Final')
  <1>1. capture_error # None => capture_error' # None
    <2>1. total \in Nat
      BY DEF Ending, Limited, Typed, WriterTypeOK
    <2>2. CASE RecordCapture
      BY <2>1, <2>2 DEF RecordCapture
    <2>3. CASE ~RecordCapture
      BY <2>3 DEF Work, Input, Failure, Spill, AppendStart, AppendBytes, AppendLineEnd,
       AfterAppend, FlushLog, FlushIndex, FlushDone, FlushIfIdle, RecordTruncation,
       DropWriter, Finish, RecordExit, ReceiveStart, ReceiveBytes, ReceiveLineEnd,
       ReceiveHalfUnit, ReceiveEnd, Receive, CaptureFails, WriteFails, Crash, notices
    <2> QED
      BY <2>2, <2>3
  <1>2. output_truncation # None => output_truncation' # None
    <2>1. Len(lines) \in Nat
      BY DEF Ending, Limited, Typed, WriterTypeOK
    <2>2. CASE RecordTruncation
      BY <2>1, <2>2 DEF RecordTruncation
    <2>3. CASE ~RecordTruncation
      BY <2>3 DEF Work, Input, Failure, Spill, AppendStart, AppendBytes, AppendLineEnd,
       AfterAppend, FlushLog, FlushIndex, FlushDone, FlushIfIdle, RecordCapture,
       DropWriter, Finish, RecordExit, ReceiveStart, ReceiveBytes, ReceiveLineEnd,
       ReceiveHalfUnit, ReceiveEnd, Receive, CaptureFails, WriteFails, Crash, notices
    <2> QED
      BY <2>2, <2>3
  <1>3. pc # "gone"
    BY DEF Work, Input, Failure, Spill, AppendStart, AppendBytes, AppendLineEnd, AfterAppend,
       FlushLog, FlushIndex, FlushDone, FlushIfIdle, RecordTruncation, DropWriter,
       RecordCapture, Finish, RecordExit, ReceiveStart, ReceiveBytes, ReceiveLineEnd,
       ReceiveHalfUnit, ReceiveEnd, Receive, CaptureFails, WriteFails, Crash
  <1> QED
    BY <1>1, <1>2, <1>3 DEF Final

LEMMA SupervisorReaders ==
    ASSUME Ending, Work \/ Input \/ Failure
    PROVE  ReadersShaped' /\ TailsAreFinal'
  <1>1. reader' = reader
    BY DEF Work, Input, Failure, Spill, AppendStart, AppendBytes, AppendLineEnd, AfterAppend,
       FlushLog, FlushIndex, FlushDone, FlushIfIdle, RecordTruncation, DropWriter,
       RecordCapture, Finish, RecordExit, ReceiveStart, ReceiveBytes, ReceiveLineEnd,
       ReceiveHalfUnit, ReceiveEnd, Receive, CaptureFails, WriteFails, Crash
  <1>2. pc # "gone" /\ (Final => Final')
    BY FinalStays
  <1>3. ReadersShaped'
    BY <1>1 DEF ReadersShaped, Ending
  <1>4. TailsAreFinal'
    BY <1>1, <1>2 DEF TailsAreFinal, Ending
  <1> QED
    BY <1>3, <1>4

LEMMA ReadingEnding ==
    ASSUME Ending, NEW r \in Readers, Reading(r)
    PROVE  Settled' /\ ReadersShaped' /\ TailsAreFinal'
  <1>1. UNCHANGED <<buffer, progress, stream, pc, writer, notices>>
    BY DEF Reading, FindStatus, ReadNotices, SampleIndex, OpenLog, Close, ReaderSteps
  <1>2. Settled' /\ Final' = Final
    BY <1>1 DEF Ending, Settled, HandFree, DroppedIsIdle, CaptureDropped, FullIsSealed,
       TruncationFlushed, NothingHeld, PendingNumbers, BeforeStart, Final,
       progress, stream, notices
  <1>3. PICK f : /\ reader' = [reader EXCEPT ![r] = f]
                 /\ {"pc", "running", "tail"} \subseteq DOMAIN f
                 /\ f.running \/ pc = "gone"
                 /\ f.tail => Final
    <2> DEFINE was == reader[r]
    <2>0. /\ {"pc", "running", "tail"} \subseteq DOMAIN was
          /\ was.running \/ pc = "gone"
          /\ was.tail => Final
      BY DEF Ending, ReadersShaped, TailsAreFinal
    <2>1. CASE FindStatus(r)
      <3> DEFINE f == [was EXCEPT !.pc = "notices", !.running = (pc # "gone")]
      <3>1. /\ {"pc", "running", "tail"} \subseteq DOMAIN f
            /\ f.running = (pc # "gone") /\ f.tail = was.tail
        BY <2>0
      <3>2. reader' = [reader EXCEPT ![r] = f]
        BY <2>1 DEF FindStatus, ReaderSteps
      <3> HIDE DEF f
      <3> QED
        BY <2>0, <3>1, <3>2
    <2>2. CASE ReadNotices(r)
      <3> DEFINE end == \/ ~was.running \/ capture_error # None
                        \/ output_truncation # None
                 f == [was EXCEPT !.pc = "index", !.tail = end]
      <3>1. /\ {"pc", "running", "tail"} \subseteq DOMAIN f
            /\ f.running = was.running /\ f.tail = end
        BY <2>0
      <3>2. reader' = [reader EXCEPT ![r] = f]
        BY <2>2 DEF ReadNotices, ReaderSteps
      <3>3. end => Final
        BY <2>0 DEF Final
      <3> HIDE DEF f, end
      <3> QED
        BY <2>0, <3>1, <3>2, <3>3
    <2>3. CASE SampleIndex(r)
      <3> DEFINE f == [was EXCEPT !.pc = "log", !.cells = Len(index)]
      <3>1. /\ {"pc", "running", "tail"} \subseteq DOMAIN f
            /\ f.running = was.running /\ f.tail = was.tail
        BY <2>0
      <3>2. reader' = [reader EXCEPT ![r] = f]
        BY <2>3 DEF SampleIndex, ReaderSteps
      <3> HIDE DEF f
      <3> QED
        BY <2>0, <3>1, <3>2
    <2>4. CASE OpenLog(r)
      <3> DEFINE damaged == IsDamaged(was.cells, Len(log))
                 seen == IF damaged THEN <<>> ELSE OpenedLines(was.tail, was.cells, Len(log))
                 f == [was EXCEPT !.pc = "open", !.damaged = damaged, !.seen = seen]
      <3>1. reader' = [reader EXCEPT ![r] = f]
        BY <2>4 DEF OpenLog, ReaderSteps
      <3> HIDE DEF damaged, seen
      <3>2. /\ {"pc", "running", "tail"} \subseteq DOMAIN f
            /\ f.running = was.running /\ f.tail = was.tail
        BY <2>0
      <3> HIDE DEF f
      <3> QED
        BY <2>0, <3>1, <3>2
    <2>5. CASE Close(r)
      <3>1. \A a, b : LET f == [IdleReader EXCEPT !.last_seq = a, !.offset = b]
                      IN /\ {"pc", "running", "tail"} \subseteq DOMAIN f
                         /\ f.running = TRUE /\ f.tail = FALSE
        BY DEF IdleReader
      <3>2. \E a, b : reader' = [reader EXCEPT ![r] = [IdleReader EXCEPT !.last_seq = a,
                                                                        !.offset = b]]
        BY <2>5 DEF Close, ReaderSteps
      <3> QED
        BY <3>1, <3>2
    <2> QED
      BY <2>1, <2>2, <2>3, <2>4, <2>5 DEF Reading
  <1>4. pc' = pc
    BY <1>1
  <1>5. DOMAIN reader = Readers
    BY DEF Ending, ReadersShaped
  <1>6. ReadersShaped'
    BY <1>3, <1>5 DEF ReadersShaped, Ending
  <1>7. TailsAreFinal'
    <2> SUFFICES ASSUME NEW s \in Readers
                 PROVE  /\ reader'[s].running \/ pc = "gone"
                        /\ reader'[s].tail => Final
      BY <1>2, <1>4 DEF TailsAreFinal
    <2>1. CASE s = r
      BY <1>3, <1>5, <2>1
    <2>2. CASE s # r
      BY <1>3, <1>5, <2>2 DEF Ending, TailsAreFinal
    <2> QED
      BY <2>1, <2>2
  <1> QED
    BY <1>2, <1>6, <1>7

-----------------------------------------------------------------------------
LEMMA WritingSettled ==
    ASSUME Ending, Spill \/ FlushLog \/ DropWriter \/ Crash
    PROVE  Settled'
  <1>1. WriterTypeOK
    BY DEF Ending, Limited, Typed
  <1>2. buffer = <<>> => buffer' = <<>>
    <2> SUFFICES ASSUME buffer = <<>> PROVE buffer' = <<>>
      OBVIOUS
    <2>1. SubSeq(buffer, 1, Len(buffer)) = <<>> /\ Len(buffer) = 0
      BY <1>1, NothingToWrite
    <2>2. SubSeq(buffer, 1, 0) = <<>> /\ SubSeq(buffer, 0 + 1, Len(buffer)) = <<>>
      BY <2>1
    <2> QED
      BY <2>1, <2>2 DEF Spill, FlushLog, DropWriter, Crash, WriteOut
  <1>3. UNCHANGED <<progress, stream, capture_error, output_truncation>>
    BY DEF Spill, FlushLog, DropWriter, Crash, notices
  <1>4. BeforeStart' = BeforeStart /\ PendingNumbers' = PendingNumbers
    BY <1>3 DEF BeforeStart, PendingNumbers, progress, stream
  <1>5. FullIsSealed'
    BY <1>3, <1>4 DEF Ending, Settled, FullIsSealed, progress
  <1>6. /\ pc' \in {pc, "record", "gone"} /\ writer' \in {writer, "dropped"}
        /\ pc' = "record" => DropWriter \/ pc = "record"
    BY DEF Spill, FlushLog, DropWriter, Crash
  <1>7. TruncationFlushed'
    BY <1>2, <1>3, <1>4, <1>6 DEF Ending, Settled, TruncationFlushed, NothingHeld, progress
  <1>8. CASE Spill \/ FlushLog \/ Crash
    <2>1. UNCHANGED writer /\ (pc' = pc \/ pc' = "gone")
      BY <1>8 DEF Spill, FlushLog, Crash
    <2> QED
      BY <1>2, <1>3, <1>5, <1>7, <2>1
      DEF Ending, Settled, HandFree, DroppedIsIdle, CaptureDropped, stream
  <1>9. CASE DropWriter
    <2>1. event = None
      BY <1>9 DEF DropWriter, Ending, Settled, HandFree
    <2> QED
      BY <1>3, <1>5, <1>7, <1>9, <2>1
      DEF DropWriter, Settled, HandFree, DroppedIsIdle, CaptureDropped, stream
  <1> QED
    BY <1>8, <1>9

LEMMA AppendSettled ==
    ASSUME Ending, AppendStart \/ AppendBytes \/ AppendLineEnd
    PROVE  Settled'
  <1>1. pc = "append" /\ writer # "dropped" /\ capture_error = None
    BY DEF AppendStart, AppendBytes, AppendLineEnd, Ending, Settled, DroppedIsIdle,
       CaptureDropped
  <1>2. /\ event' = None /\ pc' \in {"flush_log", "ready"}
        /\ UNCHANGED <<durable_lines, source, writer, capture_error, output_truncation>>
    BY DEF AppendStart, AppendBytes, AppendLineEnd, AfterAppend
  <1>3. event # None /\ source # "probing"
    BY <1>1 DEF Ending, Limited, Typed, EventAtHand
  <1>4. ~BeforeStart'
    BY <1>2, <1>3 DEF BeforeStart
  <1>5. FullIsSealed'
    <2> SUFFICES ASSUME quota_exceeded' PROVE ~current_has_content'
      BY <1>4 DEF FullIsSealed
    <2>1. CASE quota_exceeded
      BY <2>1, NothingWritten DEF Ending, KeepLine
    <2>2. CASE ~quota_exceeded /\ AppendStart
      BY <1>3, <2>2 DEF AppendStart, Ending, Limited, StartFirst, BeforeStart
    <2>3. CASE ~quota_exceeded /\ AppendBytes
      BY <2>3 DEF AppendBytes, CommitLine
    <2>4. CASE ~quota_exceeded /\ AppendLineEnd
      <3>1. CASE current_has_content
        BY <2>4, <3>1 DEF AppendLineEnd, CommitLine
      <3>2. CASE ~current_has_content
        BY <2>4, <3>2 DEF AppendLineEnd, CommitLine, KeepLine
      <3> QED
        BY <3>1, <3>2
    <2> QED
      BY <2>1, <2>2, <2>3, <2>4
  <1>6. TruncationFlushed'
    <2> SUFFICES ASSUME output_truncation # None
                 PROVE  quota_exceeded' /\ buffer' = <<>> /\ PendingNumbers' = 0
      BY <1>2 DEF TruncationFlushed, NothingHeld
    <2>1. quota_exceeded /\ buffer = <<>> /\ PendingNumbers = 0
      BY DEF Ending, Settled, TruncationFlushed, NothingHeld
    <2>2. quota_exceeded' /\ KeepLine /\ buffer' = buffer
      BY <2>1, NothingWritten DEF Ending
    <2> QED
      BY <1>2, <2>1, <2>2 DEF PendingNumbers, KeepLine
  <1> QED
    BY <1>1, <1>2, <1>5, <1>6 DEF Settled, HandFree, DroppedIsIdle, CaptureDropped

LEMMA FlushSettled ==
    ASSUME Ending, FlushIndex \/ FlushDone \/ FlushIfIdle
    PROVE  Settled'
  <1>1. writer # "dropped" /\ event = None /\ capture_error = None
    BY DEF FlushIndex, FlushDone, FlushIfIdle, Ending, Settled, HandFree, DroppedIsIdle,
       CaptureDropped
  <1>2. UNCHANGED <<buffer, lines, current_has_content, quota_exceeded, source, event, writer,
                    capture_error, output_truncation>>
    BY DEF FlushIndex, FlushDone, FlushIfIdle, progress, stream, notices
  <1>3. FullIsSealed'
    BY <1>2 DEF Ending, Settled, FullIsSealed, BeforeStart
  <1>4. CASE FlushIndex \/ FlushIfIdle
    <2>1. durable_lines' = durable_lines /\ pc' = "flush_log"
      BY <1>4 DEF FlushIndex, FlushIfIdle, progress
    <2>2. PendingNumbers' = PendingNumbers
      BY <1>2, <2>1 DEF PendingNumbers
    <2> QED
      BY <1>1, <1>2, <1>3, <2>1, <2>2
      DEF Ending, Settled, HandFree, DroppedIsIdle, CaptureDropped, TruncationFlushed,
          NothingHeld
  <1>5. CASE FlushDone
    <2>1. /\ pc' \in {"notice", "ready", "exit", "drop"}
          /\ pc' = "notice" => quota_exceeded
      BY <1>5 DEF FlushDone, AfterFlush, Ending, Limited, Typed, WriterTypeOK, EventAtHand
    <2>2. PendingNumbers' = 0 /\ buffer' = <<>>
      <3>1. Len(lines) \in Nat
        BY DEF Ending, Limited, Typed, WriterTypeOK
      <3> QED
        BY <1>5, <3>1 DEF FlushDone, PendingNumbers
    <2> QED
      BY <1>1, <1>2, <1>3, <2>1, <2>2
      DEF Ending, Settled, HandFree, DroppedIsIdle, CaptureDropped, TruncationFlushed,
          NothingHeld
  <1> QED
    BY <1>4, <1>5

LEMMA RecordSettled ==
    ASSUME Ending, RecordTruncation \/ RecordCapture \/ RecordExit
    PROVE  Settled'
  <1>1. UNCHANGED <<buffer, progress, stream, writer>>
    BY DEF RecordTruncation, RecordCapture, RecordExit
  <1>2. BeforeStart' = BeforeStart /\ NothingHeld' = NothingHeld
    BY <1>1 DEF BeforeStart, NothingHeld, PendingNumbers, progress, stream
  <1>3. event = None
    BY DEF RecordTruncation, RecordCapture, RecordExit, Ending, Settled, HandFree
  <1>4. CASE RecordTruncation
    BY <1>1, <1>2, <1>3, <1>4
    DEF RecordTruncation, Ending, Settled, HandFree, DroppedIsIdle, CaptureDropped,
        FullIsSealed, TruncationFlushed, progress, stream
  <1>5. CASE RecordCapture
    BY <1>1, <1>2, <1>3, <1>5
    DEF RecordCapture, Ending, Settled, HandFree, DroppedIsIdle, CaptureDropped,
        FullIsSealed, TruncationFlushed, progress, stream
  <1>6. CASE RecordExit
    BY <1>1, <1>2, <1>3, <1>6
    DEF RecordExit, Ending, Settled, HandFree, DroppedIsIdle, CaptureDropped,
        FullIsSealed, TruncationFlushed, progress, stream
  <1> QED
    BY <1>4, <1>5, <1>6

LEMMA SealSettled ==
    ASSUME Ending, Finish \/ CaptureFails \/ WriteFails
    PROVE  Settled'
  <1>1. /\ event' = None
        /\ source' = "probing" => source = "probing"
        /\ UNCHANGED <<buffer, durable_lines, quota_exceeded, writer, capture_error,
                       output_truncation>>
    BY DEF Finish, CaptureFails, WriteFails, notices
  <1>2. /\ CommitLine(Position, Position) /\ current_has_content
        \/ KeepLine
    BY DEF Finish, CaptureFails, WriteFails, Seal
  <1>3. quota_exceeded => KeepLine /\ ~current_has_content /\ ~BeforeStart
    BY <1>2 DEF Ending, Settled, FullIsSealed
  <1>4. FullIsSealed'
    BY <1>1, <1>3 DEF FullIsSealed, BeforeStart, KeepLine
  <1>5. output_truncation # None => NothingHeld'
    BY <1>1, <1>3
    DEF Ending, Settled, TruncationFlushed, NothingHeld, PendingNumbers, KeepLine
  <1>6. CASE WriteFails
    <2>1. writer # "dropped" /\ capture_error = None /\ pc' \in {"drop", "flush_log"}
      BY <1>6 DEF WriteFails, Seal, Ending, Settled, DroppedIsIdle, CaptureDropped
    <2> QED
      BY <1>1, <1>4, <1>5, <2>1
      DEF Ending, Settled, HandFree, DroppedIsIdle, CaptureDropped, TruncationFlushed
  <1>7. CASE CaptureFails
    <2>1. writer # "dropped" /\ capture_error = None /\ pc' = "flush_log"
      BY <1>7 DEF CaptureFails, Seal, Ending, Settled, CaptureDropped
    <2> QED
      BY <1>1, <1>4, <1>5, <2>1
      DEF Ending, Settled, HandFree, DroppedIsIdle, CaptureDropped, TruncationFlushed
  <1>8. CASE Finish
    <2>1. /\ writer = "open" => pc' = "flush_log" /\ capture_error = None
          /\ writer # "open" => pc' = "exit"
      BY <1>8 DEF Finish, Seal, Ending, Settled, CaptureDropped
    <2>2. writer \in {"open", "dropped"}
      BY DEF Ending, Limited, Typed, WriterTypeOK
    <2> QED
      BY <1>1, <1>4, <1>5, <2>1, <2>2
      DEF Ending, Settled, HandFree, DroppedIsIdle, CaptureDropped, TruncationFlushed
  <1> QED
    BY <1>6, <1>7, <1>8

LEMMA InputSettled ==
    ASSUME Ending, Input
    PROVE  Settled'
  <1>1. PICK e, next, open : Receive(Hand(e), next, open) \/ Receive(None, next, open)
    BY DEF Input, ReceiveStart, ReceiveBytes, ReceiveLineEnd, ReceiveHalfUnit, ReceiveEnd
  <1>2. /\ pc = "ready"
        /\ UNCHANGED <<buffer, progress, writer, capture_error, output_truncation>>
    BY <1>1 DEF Receive, notices
  <1>3. /\ writer = "dropped" => event' = None /\ pc' = "ready"
        /\ event' # None => pc' = "append"
        /\ pc' \in {"ready", "append"}
    BY <1>1 DEF Receive, Hand
  <1>4. ~BeforeStart => ~BeforeStart'
    BY DEF Input, ReceiveStart, ReceiveBytes, ReceiveLineEnd, ReceiveHalfUnit, ReceiveEnd,
       Receive, BeforeStart, Hand, BytesEvent, LineEndEvent
  <1>5. NothingHeld' = NothingHeld
    BY <1>2 DEF NothingHeld, PendingNumbers, progress
  <1> QED
    BY <1>2, <1>3, <1>4, <1>5
    DEF Ending, Settled, HandFree, DroppedIsIdle, CaptureDropped, FullIsSealed,
        TruncationFlushed, progress

LEMMA EndingStep ==
    ASSUME Ending, [Next]_vars
    PROVE  Ending'
  <1>1. Limited'
    BY LimitedStep DEF Ending
  <1>2. CASE Work
    <2>1. Settled'
      BY <1>2, WritingSettled, AppendSettled, FlushSettled, RecordSettled, SealSettled
      DEF Work
    <2> QED
      BY <1>1, <1>2, <2>1, SupervisorReaders DEF Ending
  <1>3. CASE Input
    BY <1>1, <1>3, InputSettled, SupervisorReaders DEF Ending
  <1>4. CASE Failure
    <2>1. Settled'
      BY <1>4, WritingSettled, SealSettled DEF Failure
    <2> QED
      BY <1>1, <1>4, <2>1, SupervisorReaders DEF Ending
  <1>5. CASE \E r \in Readers : Reading(r)
    BY <1>1, <1>5, ReadingEnding DEF Ending
  <1>6. CASE UNCHANGED vars
    BY <1>1, <1>6 DEF vars, Ending, Settled, HandFree, DroppedIsIdle, CaptureDropped,
       FullIsSealed, TruncationFlushed, NothingHeld, PendingNumbers, BeforeStart,
       ReadersShaped, TailsAreFinal, Final
  <1> QED
    BY <1>2, <1>3, <1>4, <1>5, <1>6 DEF Next

LEMMA FinalFiles ==
    ASSUME Ending, [Next]_vars, Final
    PROVE  UNCHANGED files
  <1>1. WriterTypeOK
    BY DEF Ending, Limited, Typed
  <1>2. /\ pc = "gone" \/ buffer = <<>>
        /\ pc = "flush_log" => NothingHeld
    BY DEF Final, Ending, Settled, CaptureDropped, DroppedIsIdle, TruncationFlushed,
       NothingHeld
  <1>3. CASE Spill \/ FlushLog
    BY <1>2, <1>3 DEF Spill, FlushLog
  <1>4. CASE DropWriter \/ Crash
    <2>1. buffer = <<>>
      BY <1>2, <1>4 DEF DropWriter, Crash
    <2>2. /\ Len(buffer) = 0 /\ Prefixes = {} /\ log \o SubSeq(buffer, 1, 0) = log
      BY <1>1, <2>1, NothingToWrite
    <2>3. log' = log
      BY <1>4, <2>2 DEF DropWriter, Crash, WriteOut
    <2> QED
      BY <1>4, <2>3 DEF DropWriter, Crash, files
  <1>5. CASE FlushIndex
    <2>1. PendingNumbers = 0 /\ index_written < PendingNumbers /\ index_written \in Nat
      BY <1>1, <1>2, <1>5 DEF FlushIndex, NothingHeld, WriterTypeOK
    <2> QED
      BY <2>1
  <1>6. CASE Input \/ (\E r \in Readers : Reading(r)) \/ UNCHANGED vars
    BY <1>6 DEF Input, ReceiveStart, ReceiveBytes, ReceiveLineEnd, ReceiveHalfUnit,
       ReceiveEnd, Receive, Reading, FindStatus, ReadNotices, SampleIndex, OpenLog, Close,
       ReaderSteps, vars, files
  <1>7. CASE AppendStart \/ AppendBytes \/ AppendLineEnd
    BY <1>7 DEF AppendStart, AppendBytes, AppendLineEnd, AfterAppend
  <1>8. CASE \/ FlushDone \/ FlushIfIdle \/ RecordTruncation \/ RecordCapture \/ RecordExit
             \/ Finish \/ CaptureFails \/ WriteFails
    BY <1>8 DEF FlushDone, FlushIfIdle, RecordTruncation, RecordCapture, RecordExit, Finish,
       CaptureFails, WriteFails
  <1> QED
    BY <1>3, <1>4, <1>5, <1>6, <1>7, <1>8 DEF Next, Work, Failure

(* OutputLogReader::open: once a reader has decided to take the unindexed  *)
(* tail for lines, nobody adds to the files, though it decided on a status *)
(* and on notices read one after the other.                                *)
THEOREM TailStaysFinal == Spec => TailIsFinal
  <1>1. Ending /\ [Next]_vars => [(\E r \in Readers : reader[r].tail) => UNCHANGED files]_vars
    BY FinalFiles DEF Ending, TailsAreFinal
  <1> QED
    BY EndingInit, EndingStep, <1>1, PTL DEF Spec, TailIsFinal

-----------------------------------------------------------------------------
(***************************************************************************)
(* Least numbers.                                                          *)
(***************************************************************************)
(* A set of natural numbers has a least one: what the library gives in     *)
(* place of induction, without an operator for a parameter.                *)
LEMMA LeastNatural ==
    ASSUME NEW T \in SUBSET Nat, T # {}
    PROVE  \E m \in T : \A k \in T : m <= k
  <1> DEFINE R == OpToRel(<, Nat)
  <1>1. IsWellFoundedOn(R, Nat)
    BY NatLessThanWellFounded
  <1>2. \A a, b \in Nat : a < b => <<a, b>> \in R
    BY DEF OpToRel
  <1> HIDE DEF R
  <1>3. PICK m \in T : \A y \in T : ~ (<<y, m>> \in R)
    BY <1>1, WFMin
  <1>4. \A y \in T : ~ (y < m)
    BY <1>2, <1>3
  <1>5. \A y \in T : m <= y
    BY <1>4
  <1> QED
    BY <1>5

Below(B, c) == {d \in B : d < c}

LEMMA BelowCount ==
    ASSUME NEW B \in SUBSET Nat, IsFiniteSet(B), NEW c \in B
    PROVE  /\ IsFiniteSet(Below(B, c)) /\ Cardinality(Below(B, c)) \in Nat
           /\ IsFiniteSet(Below(B, c) \cup {c})
           /\ Cardinality(Below(B, c) \cup {c}) = Cardinality(Below(B, c)) + 1
           /\ Cardinality(Below(B, c)) < Cardinality(B)
  <1> DEFINE b == Below(B, c)
  <1>1. b \in SUBSET B /\ c \notin b /\ b \cup {c} \in SUBSET B
    BY DEF Below
  <1> HIDE DEF b
  <1>2. IsFiniteSet(b)
    BY <1>1, FS_Subset
  <1>3. Cardinality(b) \in Nat /\ Cardinality(B) \in Nat
    BY <1>2, FS_CardinalityType
  <1>4. IsFiniteSet(b \cup {c}) /\ Cardinality(b \cup {c}) = Cardinality(b) + 1
    BY <1>1, <1>2, FS_AddElement
  <1>5. Cardinality(b \cup {c}) <= Cardinality(B)
    BY <1>1, FS_Subset
  <1> QED
    BY <1>2, <1>3, <1>4, <1>5 DEF b

(* Different elements have different numbers of elements below them.       *)
LEMMA BelowDiffers ==
    ASSUME NEW B \in SUBSET Nat, IsFiniteSet(B), NEW c \in B, NEW d \in B, c < d
    PROVE  Cardinality(Below(B, c)) < Cardinality(Below(B, d))
  <1>1. ASSUME NEW x \in Below(B, c) \cup {c} PROVE x \in Below(B, d)
    <2>1. x \in B /\ (x < c \/ x = c)
      BY DEF Below
    <2>2. x \in Nat /\ c \in Nat /\ d \in Nat
      BY <2>1
    <2> QED
      BY <2>1, <2>2 DEF Below
  <1>2. IsFiniteSet(Below(B, d)) /\ Cardinality(Below(B, d)) \in Nat
    BY BelowCount
  <1>3. Cardinality(Below(B, c) \cup {c}) <= Cardinality(Below(B, d))
    BY <1>1, <1>2, FS_Subset
  <1>4. /\ Cardinality(Below(B, c) \cup {c}) = Cardinality(Below(B, c)) + 1
        /\ Cardinality(Below(B, c)) \in Nat
    BY BelowCount
  <1> QED
    BY <1>2, <1>3, <1>4

(* One element after another: the k-th has k - 1 below it.                 *)
LEMMA EachHasRank ==
    ASSUME NEW B \in SUBSET Nat, IsFiniteSet(B)
    PROVE  \A i \in 1..Cardinality(B) : \E c \in B : Cardinality(Below(B, c)) = i - 1
  <1>0. Cardinality(B) \in Nat
    BY FS_CardinalityType
  <1> DEFINE T == {i \in 1..Cardinality(B) : ~ \E c \in B : Cardinality(Below(B, c)) = i - 1}
  <1> SUFFICES ASSUME T # {} PROVE FALSE
    BY <1>0
  <1>1. T \in SUBSET Nat
    BY <1>0
  <1>2. PICK m \in T : \A k \in T : m <= k
    BY <1>1, LeastNatural
  <1>3. m \in 1..Cardinality(B) /\ ~ \E c \in B : Cardinality(Below(B, c)) = m - 1
    BY <1>2
  <1>4. \A i \in 1..(m - 1) : \E c \in B : Cardinality(Below(B, c)) = i - 1
    <2> SUFFICES ASSUME NEW i \in 1..(m - 1), ~ \E c \in B : Cardinality(Below(B, c)) = i - 1
                 PROVE  FALSE
      OBVIOUS
    <2>1. i \in 1..Cardinality(B) /\ ~ (m <= i)
      BY <1>0, <1>3
    <2>2. i \in T
      BY <2>1
    <2> QED
      BY <1>2, <2>1, <2>2
  <1> HIDE DEF T
  <1>5. CASE m = 1
    <2>1. B # {}
      BY <1>0, <1>3, FS_EmptySet
    <2>2. PICK c \in B : \A d \in B : c <= d
      BY <2>1, LeastNatural
    <2>3. \A d \in B : ~ (d < c)
      BY <2>2
    <2>6. Below(B, c) = {}
      BY <2>3 DEF Below
    <2>4. Cardinality(Below(B, c)) = 0
      BY <2>6, FS_EmptySet
    <2> QED
      BY <1>3, <1>5, <2>4
  <1>6. CASE m > 1
    <2>1. PICK c \in B : Cardinality(Below(B, c)) = m - 2
      BY <1>0, <1>3, <1>4, <1>6
    <2> DEFINE above == {d \in B : c < d}
    <2>2. above # {}
      <3> SUFFICES ASSUME above = {} PROVE FALSE
        OBVIOUS
      <3>0. \A d \in B : d = c \/ d < c
        OBVIOUS
      <3>1. B = Below(B, c) \cup {c}
        BY <3>0 DEF Below
      <3>2. Cardinality(Below(B, c) \cup {c}) = Cardinality(Below(B, c)) + 1
        BY BelowCount
      <3>3. Cardinality(B) = (m - 2) + 1
        BY <2>1, <3>1, <3>2
      <3> QED
        BY <1>0, <1>3, <3>3
    <2>3. PICK e \in above : \A d \in above : e <= d
      BY <2>2, LeastNatural
    <2>4. e \in B /\ Below(B, e) = Below(B, c) \cup {c}
      <3>1. e \in B /\ c < e
        OBVIOUS
      <3>2. \A d \in B : d < e <=> d < c \/ d = c
        BY <2>3, <3>1
      <3> QED
        BY <3>1, <3>2 DEF Below
    <2>5. Cardinality(Below(B, e)) = m - 1
      <3>1. Cardinality(Below(B, c) \cup {c}) = Cardinality(Below(B, c)) + 1
        BY BelowCount
      <3>2. Cardinality(Below(B, e)) = (m - 2) + 1
        BY <2>1, <2>4, <3>1
      <3>3. m \in Int
        BY <1>0, <1>3
      <3> QED
        BY <3>2, <3>3
    <2> QED
      BY <1>3, <2>4, <2>5
  <1> QED
    BY <1>0, <1>3, <1>5, <1>6

(* The ranks of an ascending enumeration.                                  *)
LEMMA AscendingRanks ==
    ASSUME NEW B \in SUBSET Nat, NEW n \in Nat, NEW f,
           \A j \in 1..n : f[j] \in B,
           \A c \in B : \E j \in 1..n : c = f[j],
           \A i, j \in 1..n : i < j => f[i] < f[j],
           IsFiniteSet(B)
    PROVE  /\ \A j \in 1..n : Cardinality(Below(B, f[j])) = j - 1
           /\ Cardinality(B) = n
  <1>1. \A j \in 1..n : Cardinality(Below(B, f[j])) = j - 1
    <2> DEFINE T == {j \in 1..n : Cardinality(Below(B, f[j])) # j - 1}
    <2> SUFFICES ASSUME T # {} PROVE FALSE
      OBVIOUS
    <2>1. T \in SUBSET Nat
      OBVIOUS
    <2>2. PICK m \in T : \A k \in T : m <= k
      BY <2>1, LeastNatural
    <2>3. m \in 1..n /\ Cardinality(Below(B, f[m])) # m - 1
      BY <2>2
    <2>4. m > 1 => Cardinality(Below(B, f[m - 1])) = m - 2
      BY <2>2, <2>3
    <2> HIDE DEF T
    <2>5. CASE m = 1
      <3>0. \A j \in 1..n : ~ (f[j] < f[m])
        <4> SUFFICES ASSUME NEW j \in 1..n, f[j] < f[m] PROVE FALSE
          OBVIOUS
        <4>1. f[j] \in Nat /\ f[m] \in Nat
          BY <2>3
        <4>2. m < j => f[m] < f[j]
          BY <2>3
        <4> QED
          BY <2>3, <2>5, <4>1, <4>2
      <3>1. Below(B, f[m]) = {}
        <4>1. \A d \in B : ~ (d < f[m])
          BY <3>0
        <4> QED
          BY <4>1 DEF Below
      <3> QED
        BY <2>3, <2>5, <3>1, FS_EmptySet
    <2>6. CASE m > 1
      <3>1. m - 1 \in 1..n
        BY <2>3, <2>6
      <3>2. f[m - 1] < f[m]
        BY <2>3, <3>1
      <3>3. ASSUME NEW d \in Below(B, f[m]) PROVE d \in Below(B, f[m - 1]) \cup {f[m - 1]}
        <4>1. PICK j \in 1..n : d = f[j]
          BY DEF Below
        <4>2. f[j] < f[m]
          BY <4>1 DEF Below
        <4>3. j < m
          <5>1. m < j => f[m] < f[j]
            BY <2>3
          <5>2. f[j] \in Nat /\ f[m] \in Nat
            BY <2>3
          <5> QED
            BY <2>3, <4>2, <5>1, <5>2
        <4>4. j = m - 1 \/ j < m - 1
          BY <2>3, <4>3
        <4>5. j < m - 1 => f[j] < f[m - 1]
          BY <3>1
        <4> QED
          BY <4>1, <4>4, <4>5 DEF Below
      <3>4. Below(B, f[m]) = Below(B, f[m - 1]) \cup {f[m - 1]}
        <4>1. f[m] \in Nat /\ f[m - 1] \in B /\ f[m - 1] \in Nat
          BY <2>3, <3>1
        <4>2. \A d \in B : d < f[m - 1] => d < f[m]
          BY <3>2, <4>1
        <4>3. Below(B, f[m - 1]) \cup {f[m - 1]} \subseteq Below(B, f[m])
          BY <3>2, <4>1, <4>2 DEF Below
        <4> QED
          BY <3>3, <4>3
      <3>5. Cardinality(Below(B, f[m])) = Cardinality(Below(B, f[m - 1])) + 1
        BY <3>1, <3>4, BelowCount
      <3> QED
        BY <2>3, <2>4, <2>6, <3>5
    <2> QED
      BY <2>3, <2>5, <2>6
  <1>2. CASE n = 0
    <2>1. B = {}
      BY <1>2
    <2> QED
      BY <1>1, <1>2, <2>1, FS_EmptySet
  <1>3. CASE n > 0
    <2>1. n \in 1..n
      BY <1>3
    <2>2. B = Below(B, f[n]) \cup {f[n]}
      <3> SUFFICES ASSUME NEW d \in B PROVE d = f[n] \/ d < f[n]
        BY <2>1 DEF Below
      <3>1. PICK j \in 1..n : d = f[j]
        OBVIOUS
      <3>2. j = n \/ j < n
        OBVIOUS
      <3> QED
        BY <2>1, <3>1, <3>2
    <2>3. Cardinality(B) = Cardinality(Below(B, f[n])) + 1
      BY <2>1, <2>2, BelowCount
    <2> QED
      BY <1>1, <2>1, <2>3
  <1> QED
    BY <1>1, <1>2, <1>3

-----------------------------------------------------------------------------
(***************************************************************************)
(* What a reader recovers of the tail.                                     *)
(***************************************************************************)
(* Short sequences.                                                        *)
LEMMA ShortEqual ==
    ASSUME NEW s \in Seq(Symbols)
    PROVE  /\ \A a : Len(s) = 1 /\ s[1] = a => s = <<a>>
           /\ \A a, b : Len(s) = 2 /\ s[1] = a /\ s[2] = b => s = <<a, b>>
  <1>1. ASSUME NEW a, Len(s) = 1, s[1] = a PROVE s = <<a>>
    <2>1. a \in Symbols
      BY <1>1
    <2>2. <<a>> \in Seq(Symbols) /\ Len(<<a>>) = 1
      BY <2>1
    <2> QED
      BY <1>1, <2>2, SeqEqual
  <1>2. ASSUME NEW a, NEW b, Len(s) = 2, s[1] = a, s[2] = b PROVE s = <<a, b>>
    <2>1. a \in Symbols /\ b \in Symbols
      BY <1>2
    <2>2. <<a, b>> \in Seq(Symbols) /\ Len(<<a, b>>) = 2
      BY <2>1
    <2>3. \A i \in 1..2 : s[i] = <<a, b>>[i]
      BY <1>2
    <2> QED
      BY <1>2, <2>2, <2>3, SeqEqual
  <1> QED
    BY <1>1, <1>2

Ranked(B, i) == CHOOSE c \in B : Cardinality({d \in B : d < c}) = i - 1

LEMMA RankedIs ==
    ASSUME NEW B \in SUBSET Nat, IsFiniteSet(B), NEW i \in 1..Cardinality(B)
    PROVE  Ranked(B, i) \in B /\ Cardinality(Below(B, Ranked(B, i))) = i - 1
  <1>1. \E c \in B : Cardinality({d \in B : d < c}) = i - 1
    BY EachHasRank DEF Below
  <1> QED
    BY <1>1 DEF Ranked, Below

(* There is one element of each rank.                                      *)
LEMMA RankedUnique ==
    ASSUME NEW B \in SUBSET Nat, IsFiniteSet(B), NEW c \in B, NEW i,
           Cardinality(Below(B, c)) = i - 1
    PROVE  Ranked(B, i) = c
  <1>1. \E d \in B : Cardinality({x \in B : x < d}) = i - 1
    BY DEF Below
  <1> DEFINE r == Ranked(B, i)
  <1>2. r \in B /\ Cardinality(Below(B, r)) = i - 1
    BY <1>1 DEF Ranked, Below
  <1> HIDE DEF r
  <1>3. ~ (r < c) /\ ~ (c < r)
    <2>1. r < c => Cardinality(Below(B, r)) < Cardinality(Below(B, c))
      BY <1>2, BelowDiffers
    <2>2. c < r => Cardinality(Below(B, c)) < Cardinality(Below(B, r))
      BY <1>2, BelowDiffers
    <2>3. Cardinality(Below(B, c)) \in Nat
      BY BelowCount
    <2> QED
      BY <1>2, <2>1, <2>2, <2>3
  <1>4. r \in Nat /\ c \in Nat
    BY <1>2
  <1>5. r = c
    BY <1>3, <1>4
  <1> QED
    BY <1>5 DEF r

(* The ends of lines that a reader finds in the tail.                      *)
LEMMA BreaksType ==
    ASSUME NEW from \in Nat, NEW to \in Nat
    PROVE  /\ Breaks(from, to) \in SUBSET (from..to) /\ Breaks(from, to) \in SUBSET Nat
           /\ IsFiniteSet(Breaks(from, to)) /\ Cardinality(Breaks(from, to)) \in Nat
           /\ Len(LineEnding(DetectedEncoding(to))) \in {1, 2}
           /\ \A c \in Breaks(from, to) : c + Len(LineEnding(DetectedEncoding(to))) <= to
  <1> DEFINE ending == LineEnding(DetectedEncoding(to))
  <1>1. Len(ending) \in {1, 2}
    <2>1. Len(<<"n">>) = 1 /\ Len(<<"n", "o">>) = 2
      OBVIOUS
    <2> QED
      BY <2>1 DEF LineEnding
  <1>2. Breaks(from, to) \in SUBSET (from..(to - Len(ending)))
    BY DEF Breaks
  <1> HIDE DEF ending
  <1>3. \A c \in Breaks(from, to) : c \in Nat /\ c \in from..to /\ c + Len(ending) <= to
    BY <1>1, <1>2
  <1>4. IsFiniteSet(from..to)
    BY FS_Interval
  <1>5. IsFiniteSet(Breaks(from, to))
    BY <1>3, <1>4, FS_Subset
  <1> QED
    BY <1>1, <1>3, <1>5, FS_CardinalityType DEF ending

(* The pieces that the definition of Recovered puts together.              *)
TailWidth(to) == Len(LineEnding(DetectedEncoding(to)))

PieceBegin(from, to, i) ==
    IF i = 1 THEN from ELSE Ranked(Breaks(from, to), i - 1) + TailWidth(to)

Piece(from, to, i) ==
    [start |-> PieceBegin(from, to, i), content_end |-> Ranked(Breaks(from, to), i),
     record_end |-> Ranked(Breaks(from, to), i) + TailWidth(to)]

Pieces(from, to) == [i \in 1..Cardinality(Breaks(from, to)) |-> Piece(from, to, i)]

PiecesEnd(from, to) == PieceBegin(from, to, Cardinality(Breaks(from, to)) + 1)

LEMMA RecoveredIs ==
    ASSUME NEW from, NEW to
    PROVE  Recovered(from, to) =
             CASE from = to -> <<>>
               [] to - from > MaxRecovery ->
                    <<[start |-> from,
                       content_end |-> to - (IF EndsWithBreak(to) THEN TailWidth(to) ELSE 0),
                       record_end |-> to]>>
               [] OTHER ->
                    IF PiecesEnd(from, to) < to
                    THEN Append(Pieces(from, to),
                                [start |-> PiecesEnd(from, to), content_end |-> to, record_end |-> to])
                    ELSE Pieces(from, to)
  BY DEF Recovered, PiecesEnd, Pieces, Piece, PieceBegin, TailWidth, Ranked

LEMMA PiecesType ==
    ASSUME NEW from \in Nat, NEW to \in Nat
    PROVE  /\ Pieces(from, to) \in Seq(LineEntry)
           /\ Len(Pieces(from, to)) = Cardinality(Breaks(from, to))
           /\ PiecesEnd(from, to) \in Nat
  <1> DEFINE n == Cardinality(Breaks(from, to))
  <1>1. n \in Nat /\ TailWidth(to) \in {1, 2}
    BY BreaksType DEF TailWidth
  <1>2. \A i \in 1..n : Ranked(Breaks(from, to), i) \in Nat
    BY BreaksType, RankedIs
  <1> HIDE DEF n
  <1>3. \A i \in 1..(n + 1) : PieceBegin(from, to, i) \in Nat
    BY <1>1, <1>2 DEF PieceBegin
  <1>4. \A i \in 1..n : Piece(from, to, i) \in LineEntry
    BY <1>1, <1>2, <1>3 DEF Piece, LineEntry
  <1>5. Pieces(from, to) \in Seq(LineEntry) /\ Len(Pieces(from, to)) = n
    BY <1>1, <1>4 DEF Pieces, n
  <1> QED
    BY <1>1, <1>3, <1>5 DEF PiecesEnd, n

LEMMA RecoveredType ==
    ASSUME NEW from \in Nat, NEW to \in Nat
    PROVE  Recovered(from, to) \in Seq(LineEntry)
  <1>1. CASE from = to
    <2>0. ~ (to - from > MaxRecovery)
      BY <1>1
    <2>1. Recovered(from, to) = <<>>
      BY <1>1, <2>0, RecoveredIs
    <2> QED
      BY <2>1
  <1>2. CASE from # to /\ to - from > MaxRecovery
    <2> DEFINE cut == to - (IF EndsWithBreak(to) THEN TailWidth(to) ELSE 0)
    <2>1. TailWidth(to) \in {1, 2}
      BY BreaksType DEF TailWidth
    <2>2. EndsWithBreak(to) => TailWidth(to) <= to
      BY <2>1 DEF EndsWithBreak, TailWidth
    <2>3. cut \in Nat
      BY <2>1, <2>2
    <2>4. Recovered(from, to) = <<[start |-> from, content_end |-> cut, record_end |-> to]>>
      BY <1>2, RecoveredIs
    <2> HIDE DEF cut
    <2>5. [start |-> from, content_end |-> cut, record_end |-> to] \in LineEntry
      BY <2>3 DEF LineEntry
    <2> QED
      BY <2>4, <2>5
  <1>3. CASE from # to /\ ~ (to - from > MaxRecovery)
    <2>1. [start |-> PiecesEnd(from, to), content_end |-> to, record_end |-> to] \in LineEntry
      BY PiecesType DEF LineEntry
    <2>2. Recovered(from, to) =
            IF PiecesEnd(from, to) < to
            THEN Append(Pieces(from, to),
                        [start |-> PiecesEnd(from, to), content_end |-> to, record_end |-> to])
            ELSE Pieces(from, to)
      BY <1>3, RecoveredIs
    <2> QED
      BY <2>1, <2>2, PiecesType
  <1> QED
    BY <1>1, <1>2, <1>3

-----------------------------------------------------------------------------
(***************************************************************************)
(* The structure of the text.                                              *)
(***************************************************************************)
(* The text: what is in the log and, behind it, in the buffer.             *)
At(p) == IF p <= Len(log) THEN log[p] ELSE buffer[p - Len(log)]

Width == UnitBytes(encoding)

MarkLen == Len(StreamBom(encoding))

Aligned(p) == encoding = "wide" => p % 2 = 0

(* A line ending stands at p.                                              *)
BreakAt(p) ==
    p + Width <= Position /\ At(p + 1) = "n" /\ (encoding = "wide" => At(p + 2) = "o")

(* Where line i + 1 begins.                                                *)
EndOf(i) == IF i = 0 THEN MarkLen ELSE lines[i].record_end

Terminated(i) == lines[i].record_end = lines[i].content_end + Width

(* Each line begins where the one before it ends.                          *)
Chained ==
    /\ \A i \in 1..Len(lines) :
          /\ lines[i].start = EndOf(i - 1) /\ MarkLen <= lines[i].start
          /\ lines[i].start <= lines[i].content_end
          /\ lines[i].record_end \in {lines[i].content_end, lines[i].content_end + Width}
          /\ lines[i].record_end <= current_start
          /\ Aligned(lines[i].start) /\ Aligned(lines[i].content_end)
    /\ \A i, j \in 1..Len(lines) : i < j => lines[i].record_end <= lines[j].start
    /\ current_start = EndOf(Len(lines))

(* No event is appended any more, or it adds nothing.                      *)
Closed == \/ quota_exceeded
          \/ (source \in {"ended", "finishing"} /\ event = None)
          \/ goal = "capture"
          \/ pc \in {"drop", "record", "gone"}
          \/ writer = "dropped"

(* A line without its ending is the last one.                              *)
CutIsLast ==
    \A i \in 1..Len(lines) : Terminated(i) \/
        /\ i = Len(lines) /\ Closed /\ ~current_has_content
        /\ lines[i].start < lines[i].content_end /\ Position <= current_start

(* A line ending stands where a line says, and nowhere else.               *)
BreaksMatch ==
    /\ \A i \in 1..Len(lines), p \in Nat :
          Aligned(p) /\ lines[i].start <= p /\ p < lines[i].content_end => ~BreakAt(p)
    /\ \A i \in 1..Len(lines) :
          Terminated(i) /\ lines[i].record_end <= Position => BreakAt(lines[i].content_end)
    /\ \A p \in Nat : Aligned(p) /\ current_start <= p => ~BreakAt(p)

(* The log says which encoding it has.                                     *)
Marked ==
    /\ Position > 0 => 
         /\ encoding # None
         /\ encoding = "wide" => Position >= 2 /\ At(1) = "F" /\ At(2) = "E"
         /\ encoding # "wide" => At(1) # "F"
    /\ encoding = "wide" /\ log # <<>> => Len(log) >= 2

(* The index lists the committed lines, the listed ones are in the log.    *)
IndexHolds ==
    ~index_torn => \A k \in 1..Len(lines) :
        /\ 3 * k - 2 <= Len(index) =>
              index[3 * k - 2] = lines[k].start /\ lines[k].record_end <= Len(log)
        /\ 3 * k - 1 <= Len(index) => index[3 * k - 1] = lines[k].content_end
        /\ 3 * k <= Len(index) => index[3 * k] = lines[k].record_end

Counted == ~index_torn => Len(index) <= 3 * Len(lines)

Structured == /\ WriterTypeOK /\ Chained /\ CutIsLast /\ BreaksMatch /\ Marked
              /\ IndexHolds /\ Counted

LEMMA EncodingFacts ==
    ASSUME Structured
    PROVE  /\ Width \in {1, 2} /\ MarkLen \in {0, 2} /\ Aligned(MarkLen)
           /\ encoding = "wide" => Width = 2 /\ MarkLen = 2
           /\ encoding # "wide" => Width = 1 /\ MarkLen = 0
  <1>1. Len(<<>>) = 0 /\ Len(<<"F", "E">>) = 2
    OBVIOUS
  <1> QED
    BY <1>1 DEF Width, MarkLen, Aligned, UnitBytes, StreamBom

(* What a reader takes for the encoding.                                   *)
LEMMA DetectedIs ==
    ASSUME Structured, log # <<>>
    PROVE  /\ encoding \in Encodings
           /\ DetectedEncoding(Len(log)) = encoding
           /\ TailWidth(Len(log)) = Width /\ BomLen(Len(log)) = MarkLen
  <1>1. log \in Seq(Symbols) /\ Len(log) \in Nat /\ Len(log) > 0 /\ Len(buffer) \in Nat
    BY DEF Structured, WriterTypeOK
  <1>2. Position > 0
    BY <1>1 DEF Position
  <1>3. encoding \in Encodings
    BY <1>2 DEF Structured, Marked, WriterTypeOK
  <1>4. encoding \in {"bytes", "wide"}
    BY <1>3 DEF Encoded
  <1>5. Len(log) >= 2 => (SubSeq(log, 1, 2) = <<"F", "E">> <=> log[1] = "F" /\ log[2] = "E")
    <2> SUFFICES ASSUME Len(log) >= 2
                 PROVE  SubSeq(log, 1, 2) = <<"F", "E">> <=> log[1] = "F" /\ log[2] = "E"
      OBVIOUS
    <2>1. /\ SubSeq(log, 1, 2) \in Seq(Symbols) /\ Len(SubSeq(log, 1, 2)) = 2
          /\ SubSeq(log, 1, 2)[1] = log[1] /\ SubSeq(log, 1, 2)[2] = log[2]
      BY <1>1
    <2> QED
      BY <2>1, ShortEqual
  <1>6. CASE encoding = "wide"
    <2>1. Len(log) >= 2 /\ log[1] = "F" /\ log[2] = "E"
      BY <1>1, <1>2, <1>6 DEF Structured, Marked, At
    <2>2. DetectedEncoding(Len(log)) = "wide"
      BY <1>5, <2>1 DEF DetectedEncoding, StreamBom
    <2> QED
      BY <1>3, <1>6, <2>2 DEF TailWidth, BomLen, Width, MarkLen, UnitBytes, LineEnding
  <1>7. CASE encoding = "bytes"
    <2>1. log[1] # "F"
      BY <1>1, <1>2, <1>7 DEF Structured, Marked, At
    <2>2. DetectedEncoding(Len(log)) = "bytes"
      BY <1>5, <2>1 DEF DetectedEncoding, StreamBom
    <2> QED
      BY <1>3, <1>7, <2>2 DEF TailWidth, BomLen, Width, MarkLen, UnitBytes, LineEnding
  <1> QED
    BY <1>4, <1>6, <1>7

(* The ends of lines that a reader finds are those of the text.            *)
LEMMA FoundBreaks ==
    ASSUME Structured, log # <<>>, NEW from \in Nat, Aligned(from), NEW c \in Nat
    PROVE  c \in Breaks(from, Len(log)) <=>
             from <= c /\ c + Width <= Len(log) /\ Aligned(c) /\ BreakAt(c)
  <1> DEFINE to == Len(log)
             ending == LineEnding(DetectedEncoding(to))
  <1>1. log \in Seq(Symbols) /\ to \in Nat /\ Position >= to /\ Position \in Nat
    BY DEF Structured, WriterTypeOK, Position
  <1>2. encoding \in {"bytes", "wide"} /\ DetectedEncoding(to) = encoding
    BY DetectedIs DEF Encoded
  <1>3. ending = IF encoding = "wide" THEN <<"n", "o">> ELSE <<"n">>
    BY <1>2 DEF LineEnding
  <1>4. Len(ending) = Width
    BY <1>3, <1>2, EncodingFacts
  <1>5. c \in Breaks(from, to) <=>
          /\ c \in from..(to - Width)
          /\ (c - from) % Width = 0
          /\ SubSeq(log, c + 1, c + Width) = ending
    BY <1>4 DEF Breaks
  <1>6. from <= c => ((c - from) % Width = 0 <=> Aligned(c))
    BY <1>2, EncodingFacts DEF Aligned
  <1>7. c + Width <= to => (SubSeq(log, c + 1, c + Width) = ending <=> BreakAt(c))
    <2> SUFFICES ASSUME c + Width <= to
                 PROVE  SubSeq(log, c + 1, c + Width) = ending <=> BreakAt(c)
      OBVIOUS
    <2>1. CASE encoding = "wide"
      <3>1. Width = 2
        BY <2>1, EncodingFacts
      <3>2. /\ Len(SubSeq(log, c + 1, c + 2)) = 2
            /\ SubSeq(log, c + 1, c + 2) \in Seq(Symbols)
            /\ SubSeq(log, c + 1, c + 2)[1] = log[c + 1]
            /\ SubSeq(log, c + 1, c + 2)[2] = log[c + 2]
        BY <1>1, <3>1
      <3>3. SubSeq(log, c + 1, c + 2) = <<"n", "o">> <=> log[c + 1] = "n" /\ log[c + 2] = "o"
        BY <3>2, ShortEqual
      <3>4. BreakAt(c) <=> log[c + 1] = "n" /\ log[c + 2] = "o"
        BY <1>1, <2>1, <3>1 DEF BreakAt, At
      <3> QED
        BY <1>3, <2>1, <3>1, <3>3, <3>4
    <2>2. CASE encoding # "wide"
      <3>1. Width = 1
        BY <2>2, EncodingFacts
      <3>2. /\ Len(SubSeq(log, c + 1, c + 1)) = 1
            /\ SubSeq(log, c + 1, c + 1) \in Seq(Symbols)
            /\ SubSeq(log, c + 1, c + 1)[1] = log[c + 1]
        BY <1>1, <3>1
      <3>3. SubSeq(log, c + 1, c + 1) = <<"n">> <=> log[c + 1] = "n"
        BY <3>2, ShortEqual
      <3>4. BreakAt(c) <=> log[c + 1] = "n"
        BY <1>1, <2>2, <3>1 DEF BreakAt, At
      <3> QED
        BY <1>3, <2>2, <3>1, <3>3, <3>4
    <2> QED
      BY <2>1, <2>2
  <1> HIDE DEF to, ending
  <1>8. Width \in Nat
    BY EncodingFacts
  <1> QED
    BY <1>1, <1>5, <1>6, <1>7, <1>8 DEF to

-----------------------------------------------------------------------------
(***************************************************************************)
(* The entries and the lines.                                              *)
(***************************************************************************)
Indexed == Len(index) \div 3

LEMMA LineFacts ==
    ASSUME Structured
    PROVE  /\ Len(lines) \in Nat /\ current_start \in Nat
           /\ \A i \in 1..Len(lines) :
                /\ lines[i] \in LineEntry
                /\ lines[i].start \in Nat /\ lines[i].content_end \in Nat
                /\ lines[i].record_end \in Nat
                /\ lines[i] = [start |-> lines[i].start, content_end |-> lines[i].content_end,
                               record_end |-> lines[i].record_end]
           /\ \A i \in 0..Len(lines) : EndOf(i) \in Nat /\ EndOf(i) <= current_start
           /\ EndOf(0) = MarkLen
           /\ \A i \in 1..Len(lines) : EndOf(i) = lines[i].record_end
  <1>1. Len(lines) \in Nat /\ current_start \in Nat /\ lines \in Seq(LineEntry)
    BY DEF Structured, WriterTypeOK
  <1>2. \A i \in 1..Len(lines) : lines[i] \in LineEntry
    BY <1>1
  <1>3. \A i \in 1..Len(lines) :
            /\ lines[i].start \in Nat /\ lines[i].content_end \in Nat
            /\ lines[i].record_end \in Nat
            /\ lines[i] = [start |-> lines[i].start, content_end |-> lines[i].content_end,
                           record_end |-> lines[i].record_end]
    BY <1>2 DEF LineEntry
  <1>4. MarkLen \in Nat
    BY EncodingFacts
  <1>5. MarkLen <= current_start
    <2>1. CASE Len(lines) = 0
      BY <1>4, <2>1 DEF Structured, Chained, EndOf
    <2>2. CASE Len(lines) > 0
      <3>1. MarkLen <= lines[1].start /\ lines[1].start <= lines[1].content_end
            /\ lines[1].record_end \in {lines[1].content_end, lines[1].content_end + Width}
            /\ lines[1].record_end <= current_start
        BY <1>1, <2>2 DEF Structured, Chained
      <3>2. lines[1].start \in Nat /\ lines[1].content_end \in Nat /\ lines[1].record_end \in Nat
        <4>1. 1 \in 1..Len(lines)
          BY <1>1, <2>2
        <4> QED
          BY <1>3, <4>1
      <3> QED
        BY <1>1, <1>4, <3>1, <3>2, EncodingFacts
    <2> QED
      BY <1>1, <2>1, <2>2
  <1>6. ASSUME NEW i \in 0..Len(lines) PROVE EndOf(i) \in Nat /\ EndOf(i) <= current_start
    <2>1. CASE i = 0
      BY <1>4, <1>5, <2>1 DEF EndOf
    <2>2. CASE i # 0
      <3>1. i \in 1..Len(lines)
        BY <1>1, <2>2
      <3>2. lines[i].record_end \in Nat /\ lines[i].record_end <= current_start
        BY <1>3, <3>1 DEF Structured, Chained
      <3> QED
        BY <2>2, <3>2 DEF EndOf
    <2> QED
      BY <2>1, <2>2
  <1> QED
    BY <1>1, <1>2, <1>3, <1>6 DEF EndOf

(* The entries in the index are those of the lines.                        *)
LEMMA DecodedIs ==
    ASSUME Structured, ~index_torn
    PROVE  /\ Indexed \in 0..Len(lines)
           /\ \A k \in 1..Indexed : /\ Decoded(k) = lines[k]
                                    /\ lines[k].record_end <= Len(log)
           /\ Indexed > 0 => log # <<>>
           /\ IndexedLines(Len(index)) = Indexed
           /\ log # <<>> => IndexedEnd(Len(index), Len(log)) = EndOf(Indexed)
  <1>1. Len(index) \in Nat /\ Len(index) <= 3 * Len(lines)
    BY DEF Structured, WriterTypeOK, Counted
  <1>2. Indexed \in 0..Len(lines)
    BY <1>1, LineFacts DEF Indexed
  <1>3. ASSUME NEW k \in 1..Indexed
        PROVE  Decoded(k) = lines[k] /\ lines[k].record_end <= Len(log)
    <2>1. k \in 1..Len(lines) /\ 3 * k <= Len(index)
      BY <1>1, <1>2 DEF Indexed
    <2>0. 3 * k - 2 <= Len(index) /\ 3 * k - 1 <= Len(index)
      BY <1>1, <2>1
    <2>2. /\ index[3 * k - 2] = lines[k].start /\ lines[k].record_end <= Len(log)
          /\ index[3 * k - 1] = lines[k].content_end
          /\ index[3 * k] = lines[k].record_end
      BY <2>0, <2>1 DEF Structured, IndexHolds
    <2>3. 3 * (k - 1) + 1 = 3 * k - 2 /\ 3 * (k - 1) + 2 = 3 * k - 1 /\ 3 * (k - 1) + 3 = 3 * k
      BY <2>1
    <2>4. Decoded(k) = [start |-> lines[k].start, content_end |-> lines[k].content_end,
                        record_end |-> lines[k].record_end]
      BY <2>2, <2>3 DEF Decoded
    <2> QED
      BY <2>1, <2>2, <2>4, LineFacts
  <1>4. Indexed > 0 => log # <<>>
    <2> SUFFICES ASSUME Indexed > 0, log = <<>> PROVE FALSE
      OBVIOUS
    <2>1. 1 \in 1..Indexed /\ 1 \in 1..Len(lines)
      BY <1>2
    <2>2. lines[1].record_end <= 0
      <3>1. Len(log) = 0
        OBVIOUS
      <3> QED
        BY <1>3, <2>1, <3>1
    <2>3. lines[1].start \in Nat /\ lines[1].content_end \in Nat /\ lines[1].record_end \in Nat
      BY <2>1, LineFacts
    <2>4. /\ lines[1].start <= lines[1].content_end
          /\ lines[1].record_end \in {lines[1].content_end, lines[1].content_end + Width}
      BY <2>1 DEF Structured, Chained
    <2>5. lines[1].record_end = 0 /\ lines[1].content_end = 0 /\ lines[1].start = 0
      BY <2>2, <2>3, <2>4, EncodingFacts
    <2> QED
      BY <2>1, <2>5, EncodingFacts, LineFacts DEF Structured, CutIsLast, Terminated
  <1>5. IndexedLines(Len(index)) = Indexed
    BY DEF IndexedLines, Indexed
  <1>6. log # <<>> => IndexedEnd(Len(index), Len(log)) = EndOf(Indexed)
    <2> SUFFICES ASSUME log # <<>> PROVE IndexedEnd(Len(index), Len(log)) = EndOf(Indexed)
      OBVIOUS
    <2>1. BomLen(Len(log)) = MarkLen
      BY DetectedIs
    <2>2. CASE Indexed = 0
      BY <1>5, <2>1, <2>2 DEF IndexedEnd, EndOf
    <2>3. CASE Indexed # 0
      <3>1. Indexed \in 1..Indexed
        BY <1>2, <2>3
      <3> QED
        BY <1>3, <1>5, <2>3, <3>1 DEF IndexedEnd, EndOf
    <2> QED
      BY <2>2, <2>3
  <1> QED
    BY <1>2, <1>3, <1>4, <1>5, <1>6

(* A position behind the first d lines is in a line or behind them all.    *)
LEMMA LineAt ==
    ASSUME Structured, NEW d \in 0..Len(lines), NEW c \in Nat, EndOf(d) <= c, c < current_start
    PROVE  \E i \in (d + 1)..Len(lines) : lines[i].start <= c /\ c < lines[i].record_end
  <1> DEFINE T == {i \in (d + 1)..Len(lines) : c < lines[i].record_end}
  <1>1. Len(lines) \in Nat /\ current_start = EndOf(Len(lines))
    BY LineFacts DEF Structured, Chained
  <1>2. d < Len(lines)
    <2>1. d # Len(lines)
      BY <1>1, LineFacts
    <2> QED
      BY <1>1, <2>1
  <1>3. Len(lines) \in T
    BY <1>1, <1>2, LineFacts
  <1>4. T \in SUBSET Nat /\ T # {}
    BY <1>1, <1>3
  <1>5. PICK i \in T : \A k \in T : i <= k
    BY <1>4, LeastNatural
  <1>6. i \in (d + 1)..Len(lines) /\ c < lines[i].record_end
    BY <1>5
  <1>7. i - 1 \notin T
    BY <1>1, <1>5, <1>6
  <1>8. EndOf(i - 1) <= c
    <2>1. CASE i = d + 1
      BY <2>1
    <2>2. CASE i # d + 1
      <3>1. i - 1 \in (d + 1)..Len(lines) /\ i - 1 \in 1..Len(lines)
        BY <1>1, <1>6, <2>2
      <3>2. ~ (c < lines[i - 1].record_end)
        BY <1>7, <3>1
      <3> QED
        BY <3>1, <3>2, LineFacts
    <2> QED
      BY <2>1, <2>2
  <1>9. lines[i].start = EndOf(i - 1)
    BY <1>1, <1>6 DEF Structured, Chained
  <1> QED
    BY <1>6, <1>8, <1>9

(* How many lines the log holds to the last byte.                          *)
LEMMA WholeLines ==
    ASSUME Structured, NEW d \in 0..Len(lines),
           \A i \in 1..d : lines[i].record_end <= Len(log),
           d = 0 \/ EndOf(d) < Len(log)
    PROVE  \E m \in d..Len(lines) :
              /\ \A i \in 1..m : Terminated(i) /\ lines[i].record_end <= Len(log)
              /\ m < Len(lines) => \/ lines[m + 1].record_end > Len(log)
                                   \/ (m + 1 = Len(lines) /\ ~Terminated(m + 1))
  <1> DEFINE good(i) == Terminated(i) /\ lines[i].record_end <= Len(log)
             T == {i \in 1..Len(lines) : ~ good(i)}
  <1>1. Len(lines) \in Nat /\ Len(log) \in Nat /\ Len(buffer) \in Nat
    BY LineFacts DEF Structured, WriterTypeOK
  <1>2. \A i \in 1..d : good(i)
    <2> SUFFICES ASSUME NEW i \in 1..d, ~Terminated(i) PROVE FALSE
      OBVIOUS
    <2>1. i = Len(lines) /\ Position <= current_start
      BY <1>1 DEF Structured, CutIsLast
    <2>2. i = d /\ current_start = EndOf(d) /\ EndOf(d) < Len(log)
      BY <1>1, <2>1 DEF Structured, Chained
    <2> QED
      BY <1>1, <2>1, <2>2, LineFacts DEF Position
  <1>3. CASE T = {}
    <2>1. \A i \in 1..Len(lines) : good(i)
      BY <1>3
    <2> QED
      BY <1>1, <2>1
  <1>4. CASE T # {}
    <2>1. T \in SUBSET Nat
      OBVIOUS
    <2>2. PICK k \in T : \A j \in T : k <= j
      BY <1>4, <2>1, LeastNatural
    <2>3. k \in 1..Len(lines) /\ ~ good(k)
      OBVIOUS
    <2>4. \A i \in 1..(k - 1) : good(i)
      BY <1>1, <2>2, <2>3
    <2>5. d <= k - 1
      BY <1>1, <1>2, <2>3
    <2>6. lines[k].record_end > Len(log) \/ (k = Len(lines) /\ ~Terminated(k))
      BY <1>1, <2>3, LineFacts DEF Structured, CutIsLast
    <2>7. k - 1 \in d..Len(lines) /\ (k - 1) + 1 = k
      BY <1>1, <2>3, <2>5
    <2> QED
      BY <2>4, <2>6, <2>7
  <1> QED
    BY <1>3, <1>4

-----------------------------------------------------------------------------
(***************************************************************************)
(* The breaks of the tail.                                                 *)
(***************************************************************************)
LEMMA Apart ==
    \A a, r, s, b, w \in Nat : w > 0 /\ r = a + w /\ r <= s /\ s <= b => a < b
  OBVIOUS

LEMMA EvenNeighbours ==
    \A c, e \in Nat : c % 2 = 0 /\ e % 2 = 0 /\ e <= c /\ c < e + 2 => c = e
  OBVIOUS

(* The ends of lines in the tail are those of the lines it holds whole.    *)
LEMMA TailBreaks ==
    ASSUME Structured, log # <<>>, NEW d \in 0..Len(lines), NEW m \in d..Len(lines),
           \A i \in 1..m : Terminated(i) /\ lines[i].record_end <= Len(log),
           m < Len(lines) => \/ lines[m + 1].record_end > Len(log)
                             \/ (m + 1 = Len(lines) /\ ~Terminated(m + 1))
    PROVE  /\ \A j \in 1..(m - d) : lines[d + j].content_end \in Breaks(EndOf(d), Len(log))
           /\ \A c \in Breaks(EndOf(d), Len(log)) :
                 \E j \in 1..(m - d) : c = lines[d + j].content_end
           /\ \A i, j \in 1..(m - d) :
                 i < j => lines[d + i].content_end < lines[d + j].content_end
  <1>1. /\ Len(lines) \in Nat /\ Len(log) \in Nat /\ Len(buffer) \in Nat
        /\ current_start \in Nat /\ Width \in {1, 2} /\ Width \in Nat /\ Width > 0
        /\ d \in Nat /\ m \in Nat
    BY LineFacts, EncodingFacts DEF Structured, WriterTypeOK
  <1>2. EndOf(d) \in Nat /\ Aligned(EndOf(d))
    <2>1. CASE d = 0
      BY <2>1, LineFacts, EncodingFacts
    <2>2. CASE d # 0
      <3>1. d \in 1..Len(lines) /\ EndOf(d) = lines[d].record_end /\ EndOf(d) \in Nat
        BY <1>1, <2>2, LineFacts
      <3>2. d \in 1..m
        BY <1>1, <2>2
      <3>3. lines[d].content_end \in Nat
        BY <3>1, LineFacts
      <3>4. /\ lines[d].record_end = lines[d].content_end + Width
            /\ Aligned(lines[d].content_end) /\ lines[d].content_end \in Nat
        BY <3>2, <3>1, <3>3 DEF Structured, Chained, Terminated
      <3> QED
        BY <3>1, <3>4, EncodingFacts DEF Aligned
    <2> QED
      BY <2>1, <2>2
  <1>3. \A i \in (d + 1)..Len(lines) : EndOf(d) <= lines[i].start
    <2> SUFFICES ASSUME NEW i \in (d + 1)..Len(lines) PROVE EndOf(d) <= lines[i].start
      OBVIOUS
    <2>1. i \in 1..Len(lines)
      BY <1>1
    <2>2. CASE d = 0
      BY <2>1, <2>2, LineFacts DEF Structured, Chained
    <2>3. CASE d # 0
      <3>1. d \in 1..Len(lines) /\ d < i
        BY <1>1, <2>3
      <3>2. lines[d].record_end <= lines[i].start
        BY <2>1, <3>1 DEF Structured, Chained
      <3> QED
        BY <3>1, <3>2, LineFacts
    <2> QED
      BY <2>2, <2>3
  <1>4. ASSUME NEW j \in 1..(m - d)
        PROVE  lines[d + j].content_end \in Breaks(EndOf(d), Len(log))
    <2>1. d + j \in 1..Len(lines) /\ d + j \in 1..m /\ d + j \in (d + 1)..Len(lines)
      BY <1>1
    <2>2. /\ lines[d + j].content_end \in Nat /\ lines[d + j].start \in Nat
          /\ lines[d + j].record_end \in Nat
      BY <2>1, LineFacts
    <2>3. /\ lines[d + j].record_end = lines[d + j].content_end + Width
          /\ lines[d + j].record_end <= Len(log)
      BY <2>1 DEF Terminated
    <2>4. lines[d + j].record_end <= Position
      BY <1>1, <2>2, <2>3 DEF Position
    <2>5. BreakAt(lines[d + j].content_end)
      BY <2>1, <2>4 DEF Structured, BreaksMatch
    <2>6. EndOf(d) <= lines[d + j].start /\ lines[d + j].start <= lines[d + j].content_end
          /\ Aligned(lines[d + j].content_end)
      BY <1>3, <2>1 DEF Structured, Chained
    <2> QED
      BY <1>2, <2>2, <2>3, <2>5, <2>6, FoundBreaks
  <1>5. ASSUME NEW c \in Breaks(EndOf(d), Len(log))
        PROVE  \E j \in 1..(m - d) : c = lines[d + j].content_end
    <2>1. c \in Nat
      BY <1>1, <1>2, BreaksType
    <2>2. EndOf(d) <= c /\ c + Width <= Len(log) /\ Aligned(c) /\ BreakAt(c)
      BY <1>2, <2>1, FoundBreaks
    <2>3. c < current_start
      <3>1. ~ (current_start <= c)
        BY <2>1, <2>2 DEF Structured, BreaksMatch
      <3> QED
        BY <1>1, <2>1, <3>1
    <2>4. PICK i \in (d + 1)..Len(lines) : lines[i].start <= c /\ c < lines[i].record_end
      BY <2>1, <2>2, <2>3, LineAt
    <2>5. /\ i \in 1..Len(lines) /\ i \in Nat
          /\ lines[i].content_end \in Nat /\ lines[i].record_end \in Nat
      <3>1. i \in 1..Len(lines) /\ i \in Nat
        BY <1>1
      <3> QED
        BY <3>1, LineFacts
    <2>6. lines[i].content_end <= c
      <3>1. ~ (c < lines[i].content_end)
        BY <2>1, <2>2, <2>4, <2>5 DEF Structured, BreaksMatch
      <3> QED
        BY <2>1, <2>5, <3>1
    <2>7. lines[i].record_end = lines[i].content_end + Width
      BY <1>1, <2>1, <2>4, <2>5, <2>6 DEF Structured, Chained
    <2>8. c = lines[i].content_end
      <3>1. Aligned(lines[i].content_end)
        BY <2>5 DEF Structured, Chained
      <3>2. c < lines[i].content_end + Width
        BY <2>4, <2>7
      <3>3. CASE encoding = "wide"
        <4>1. c % 2 = 0 /\ lines[i].content_end % 2 = 0 /\ Width = 2
          BY <2>2, <3>1, <3>3, EncodingFacts DEF Aligned
        <4>2. c < lines[i].content_end + 2
          BY <3>2, <4>1
        <4> QED
          BY <2>1, <2>5, <2>6, <4>1, <4>2, EvenNeighbours
      <3>4. CASE encoding # "wide"
        BY <2>1, <2>5, <2>6, <3>2, <3>4, EncodingFacts
      <3> QED
        BY <3>3, <3>4
    <2>9. Terminated(i) /\ lines[i].record_end <= Len(log)
      BY <2>2, <2>7, <2>8 DEF Terminated
    <2>10. i <= m
      <3> SUFFICES ASSUME m < i PROVE FALSE
        BY <1>1, <2>5
      <3>1. m \in Nat /\ m + 1 \in 1..Len(lines) /\ m < Len(lines) /\ m + 1 <= i
        BY <1>1, <2>5
      <3>2. ~ (m + 1 = Len(lines) /\ ~Terminated(m + 1))
        <4>1. m + 1 = Len(lines) => m + 1 = i
          BY <1>1, <2>5, <3>1
        <4> QED
          BY <2>9, <4>1
      <3>3. lines[m + 1].record_end > Len(log) /\ m + 1 # i
        BY <1>1, <2>5, <2>9, <3>1, <3>2
      <3>4. lines[m + 1].record_end <= lines[i].start
        BY <2>5, <3>1, <3>3 DEF Structured, Chained
      <3>5. lines[m + 1].record_end \in Nat /\ lines[i].start \in Nat
        BY <2>5, <3>1, LineFacts
      <3> QED
        BY <1>1, <2>1, <2>2, <2>4, <3>3, <3>4, <3>5
    <2>11. i - d \in 1..(m - d) /\ d + (i - d) = i
      BY <1>1, <2>4, <2>5, <2>10
    <2> QED
      BY <2>8, <2>11
  <1>6. ASSUME NEW i \in 1..(m - d), NEW j \in 1..(m - d), i < j
        PROVE  lines[d + i].content_end < lines[d + j].content_end
    <2>1. d + i \in 1..Len(lines) /\ d + j \in 1..Len(lines) /\ d + i < d + j /\ d + i \in 1..m
      BY <1>1, <1>6
    <2>2. lines[d + i].record_end <= lines[d + j].start
      BY <2>1 DEF Structured, Chained
    <2>3. lines[d + i].record_end = lines[d + i].content_end + Width
      BY <2>1 DEF Terminated
    <2>4. lines[d + j].start <= lines[d + j].content_end
      BY <2>1 DEF Structured, Chained
    <2>5. /\ lines[d + i].content_end \in Nat /\ lines[d + j].start \in Nat
          /\ lines[d + j].content_end \in Nat
      BY <2>1, LineFacts
    <2>6. lines[d + i].record_end \in Nat
      BY <2>1, LineFacts
    <2> QED
      BY <1>1, <2>2, <2>3, <2>4, <2>5, <2>6, Apart
  <1> QED
    BY <1>4, <1>5, <1>6

-----------------------------------------------------------------------------
(***************************************************************************)
(* The lines a reader finds.                                               *)
(***************************************************************************)
(* The tail falls into the lines it holds whole and the rest.              *)
LEMMA RecoveredLines ==
    ASSUME Structured, log # <<>>, NEW d \in 0..Len(lines), NEW m \in d..Len(lines),
           \A i \in 1..m : Terminated(i) /\ lines[i].record_end <= Len(log),
           m < Len(lines) => \/ lines[m + 1].record_end > Len(log)
                             \/ (m + 1 = Len(lines) /\ ~Terminated(m + 1))
    PROVE  /\ Pieces(EndOf(d), Len(log)) = [j \in 1..(m - d) |-> lines[d + j]]
           /\ PiecesEnd(EndOf(d), Len(log)) = EndOf(m)
  <1> DEFINE from == EndOf(d)
             to == Len(log)
             B == Breaks(from, to)
             f == [j \in 1..(m - d) |-> lines[d + j].content_end]
             n == m - d
  <1>1. /\ from \in Nat /\ to \in Nat /\ n \in Nat /\ d \in Nat /\ m \in Nat
        /\ Len(lines) \in Nat
    BY LineFacts DEF Structured, WriterTypeOK
  <1>2. /\ \A j \in 1..n : f[j] \in B
        /\ \A c \in B : \E j \in 1..n : c = f[j]
        /\ \A i, j \in 1..n : i < j => f[i] < f[j]
    BY TailBreaks
  <1>3. /\ B \in SUBSET Nat /\ IsFiniteSet(B) /\ TailWidth(to) = Width
    BY <1>1, BreaksType, DetectedIs
  <1>4. \A j \in 1..n : f[j] = lines[d + j].content_end
    OBVIOUS
  <1> HIDE DEF from, to, B, f
  <1>5. /\ \A j \in 1..n : Cardinality(Below(B, f[j])) = j - 1
        /\ Cardinality(B) = n
    BY <1>1, <1>2, <1>3, AscendingRanks
  <1>6. \A j \in 1..n : Ranked(B, j) = f[j]
    <2> SUFFICES ASSUME NEW j \in 1..n PROVE Ranked(B, j) = f[j]
      OBVIOUS
    <2>1. f[j] \in B /\ Cardinality(Below(B, f[j])) = j - 1
      BY <1>2, <1>5
    <2> QED
      BY <1>3, <2>1, RankedUnique
  <1>7. ASSUME NEW j \in 1..n
        PROVE  /\ d + j \in 1..Len(lines) /\ d + j \in 1..m
               /\ lines[d + j].content_end + Width = lines[d + j].record_end
               /\ lines[d + j].start = EndOf(d + j - 1)
               /\ EndOf(d + j) = lines[d + j].record_end
    <2>1. d + j \in 1..Len(lines) /\ d + j \in 1..m
      BY <1>1
    <2>2. lines[d + j].content_end + Width = lines[d + j].record_end
      BY <2>1 DEF Terminated
    <2>3. lines[d + j].start = EndOf(d + j - 1)
      BY <2>1 DEF Structured, Chained
    <2>4. EndOf(d + j) = lines[d + j].record_end
      BY <2>1 DEF EndOf
    <2> QED
      BY <2>1, <2>2, <2>3, <2>4
  <1>8. \A j \in 1..(n + 1) : PieceBegin(from, to, j) = EndOf(d + j - 1)
    <2> SUFFICES ASSUME NEW j \in 1..(n + 1)
                 PROVE  PieceBegin(from, to, j) = EndOf(d + j - 1)
      OBVIOUS
    <2>1. CASE j = 1
      BY <1>1, <2>1 DEF PieceBegin, from
    <2>2. CASE j # 1
      <3>1. j - 1 \in 1..n /\ d + (j - 1) = d + j - 1
        BY <1>1, <2>2
      <3>2. Ranked(B, j - 1) = lines[d + (j - 1)].content_end
        BY <1>4, <1>6, <3>1
      <3>3. PieceBegin(from, to, j) = lines[d + (j - 1)].content_end + Width
        BY <1>3, <2>2, <3>2 DEF PieceBegin, B
      <3> QED
        BY <1>7, <3>1, <3>3
    <2> QED
      BY <2>1, <2>2
  <1>9. \A j \in 1..n : Piece(from, to, j) = lines[d + j]
    <2> SUFFICES ASSUME NEW j \in 1..n PROVE Piece(from, to, j) = lines[d + j]
      OBVIOUS
    <2>1. PieceBegin(from, to, j) = lines[d + j].start
      BY <1>1, <1>7, <1>8
    <2>2. Ranked(Breaks(from, to), j) = lines[d + j].content_end
      BY <1>4, <1>6 DEF B
    <2>3. Piece(from, to, j) = [start |-> lines[d + j].start,
                                content_end |-> lines[d + j].content_end,
                                record_end |-> lines[d + j].record_end]
      BY <1>3, <1>7, <2>1, <2>2 DEF Piece
    <2> QED
      BY <1>7, <2>3, LineFacts
  <1>10. Pieces(from, to) = [j \in 1..n |-> lines[d + j]]
    BY <1>5, <1>9 DEF Pieces, B
  <1>11. PiecesEnd(from, to) = EndOf(m)
    <2>1. n + 1 \in 1..(n + 1) /\ d + (n + 1) - 1 = m
      BY <1>1
    <2> QED
      BY <1>5, <1>8, <2>1 DEF PiecesEnd, B
  <1> QED
    BY <1>10, <1>11 DEF from, to

(* No line is empty of bytes.                                              *)
LEMMA LinesTakeRoom ==
    ASSUME Structured, NEW i \in 1..Len(lines)
    PROVE  lines[i].start < lines[i].record_end
  <1>1. /\ lines[i].start \in Nat /\ lines[i].content_end \in Nat
        /\ lines[i].record_end \in Nat
    BY LineFacts
  <1>2. /\ lines[i].start <= lines[i].content_end
        /\ lines[i].record_end \in {lines[i].content_end, lines[i].content_end + Width}
        /\ Terminated(i) \/ lines[i].start < lines[i].content_end
    BY DEF Structured, Chained, CutIsLast
  <1>3. Width \in Nat /\ Width > 0
    BY EncodingFacts
  <1> QED
    BY <1>1, <1>2, <1>3 DEF Terminated

LEMMA LaterBegins ==
    ASSUME Structured, NEW d \in 0..Len(lines), NEW i \in 1..Len(lines), d < i
    PROVE  EndOf(d) <= lines[i].start /\ EndOf(d) < lines[i].record_end
  <1>1. EndOf(d) \in Nat /\ lines[i].start \in Nat /\ lines[i].record_end \in Nat
    BY LineFacts
  <1>2. EndOf(d) <= lines[i].start
    <2>1. CASE d = 0
      BY <2>1, LineFacts DEF Structured, Chained
    <2>2. CASE d # 0
      <3>1. d \in 1..Len(lines)
        BY <2>2, LineFacts
      <3> QED
        BY <3>1, LineFacts DEF Structured, Chained
    <2> QED
      BY <2>1, <2>2
  <1> QED
    BY <1>1, <1>2, LinesTakeRoom

RestOf(m) == [start |-> EndOf(m), content_end |-> Len(log), record_end |-> Len(log)]

(* What a reader with the tail finds: m lines as they are and, perhaps,    *)
(* the beginning of one more.                                              *)
Found(m, more) ==
    /\ Len(AllLines) = IF more THEN m + 1 ELSE m
    /\ \A i \in 1..m : AllLines[i] = lines[i]
    /\ more => /\ AllLines[m + 1] = RestOf(m) /\ EndOf(m) < Len(log)
               /\ m < Len(lines) => Len(log) <= lines[m + 1].record_end
    /\ \A i \in 1..Len(lines) : lines[i].record_end <= Len(log) => i <= Len(AllLines)
    /\ EndOf(Indexed) = Len(log) => m = Indexed /\ ~more

TailIsShort == Len(log) - IndexedEnd(Len(index), Len(log)) <= MaxRecovery

LEMMA AllLinesAre ==
    ASSUME Structured, ~index_torn, TailIsShort
    PROVE  \E m \in Indexed..Len(lines), more \in BOOLEAN : Found(m, more)
  <1> DEFINE D == Indexed
             to == Len(log)
             from == IndexedEnd(Len(index), to)
             head == [k \in 1..D |-> Decoded(k)]
  <1>1. /\ Len(lines) \in Nat /\ Len(log) \in Nat /\ Len(buffer) \in Nat
        /\ current_start \in Nat /\ log \in Seq(Symbols) /\ MarkLen \in Nat
        /\ Indexed \in 0..Len(lines) /\ Indexed \in Nat /\ EndOf(Indexed) \in Nat
    BY LineFacts, DecodedIs, EncodingFacts DEF Structured, WriterTypeOK
  <1>2. AllLines = head \o Recovered(from, to)
    BY DecodedIs DEF AllLines, OpenedLines
  <1>3. /\ \A k \in 1..D : head[k] = lines[k]
        /\ head \in Seq(LineEntry) /\ Len(head) = D
    <2>1. \A k \in 1..D : Decoded(k) = lines[k] /\ lines[k] \in LineEntry
      <3> SUFFICES ASSUME NEW k \in 1..Indexed
                   PROVE  Decoded(k) = lines[k] /\ lines[k] \in LineEntry
        OBVIOUS
      <3>1. k \in 1..Len(lines)
        BY <1>1
      <3>2. Decoded(k) = lines[k]
        BY DecodedIs
      <3>3. lines[k] \in LineEntry
        BY <3>1, LineFacts
      <3> QED
        BY <3>2, <3>3
    <2> HIDE DEF D
    <2>2. D \in Nat
      BY <1>1 DEF D
    <2> QED
      BY <2>1, <2>2
  <1> HIDE DEF head
  <1>4. CASE log = <<>> \/ EndOf(Indexed) = Len(log)
    <2>1. from = to /\ from \in Nat
      <3>1. CASE log = <<>>
        <4>1. Len(log) = 0 /\ Indexed = 0
          BY <1>1, <3>1, DecodedIs
        <4>2. BomLen(0) = 0
          BY DEF BomLen, DetectedEncoding, StreamBom
        <4> QED
          BY <4>1, <4>2, DecodedIs DEF IndexedEnd
      <3>2. CASE log # <<>>
        BY <1>1, <1>4, <3>2, DecodedIs
      <3> QED
        BY <3>1, <3>2
    <2>2. Recovered(from, to) = <<>>
      <3>1. ~ (to - from > MaxRecovery)
        BY <2>1
      <3> QED
        BY <2>1, <3>1, RecoveredIs
    <2>3. AllLines = head
      BY <1>2, <1>3, <2>2
    <2>4. ASSUME NEW i \in 1..Len(lines), lines[i].record_end <= Len(log)
          PROVE  i <= D
      <3> SUFFICES ASSUME D < i PROVE FALSE
        BY <1>1
      <3>1. EndOf(D) < lines[i].record_end
        BY <1>1, LaterBegins
      <3>2. lines[i].record_end \in Nat
        BY LineFacts
      <3>3. CASE log = <<>>
        <4>1. Len(log) = 0
          BY <3>3
        <4> QED
          BY <1>1, <2>4, <3>1, <3>2, <4>1
      <3>4. CASE EndOf(Indexed) = Len(log)
        BY <1>1, <2>4, <3>1, <3>2, <3>4
      <3> QED
        BY <1>4, <3>3, <3>4
    <2>5. Found(D, FALSE)
      BY <1>3, <2>3, <2>4 DEF Found
    <2>6. D \in Indexed..Len(lines) /\ FALSE \in BOOLEAN
      BY <1>1
    <2> HIDE DEF D
    <2> QED
      BY <2>5, <2>6
  <1>5. CASE log # <<>> /\ EndOf(Indexed) # Len(log)
    <2>1. from = EndOf(D) /\ TailWidth(to) = Width
      BY <1>5, DecodedIs, DetectedIs
    <2>2. \A i \in 1..D : lines[i].record_end <= Len(log)
      BY DecodedIs
    <2>3. D = 0 \/ EndOf(D) < Len(log)
      <3>1. D # 0 => EndOf(D) <= Len(log)
        BY <1>1, <2>2, LineFacts
      <3> QED
        BY <1>1, <1>5, <3>1
    <2>4. PICK m \in D..Len(lines) :
              /\ \A i \in 1..m : Terminated(i) /\ lines[i].record_end <= Len(log)
              /\ m < Len(lines) => \/ lines[m + 1].record_end > Len(log)
                                   \/ (m + 1 = Len(lines) /\ ~Terminated(m + 1))
      BY <1>1, <2>2, <2>3, WholeLines
    <2>5. /\ Pieces(from, to) = [j \in 1..(m - D) |-> lines[D + j]]
          /\ PiecesEnd(from, to) = EndOf(m)
      BY <1>1, <1>5, <2>1, <2>4, RecoveredLines
    <2>6. from # to /\ ~ (to - from > MaxRecovery)
      BY <1>1, <1>5, <2>1 DEF TailIsShort
    <2>7. Recovered(from, to) =
            IF EndOf(m) < to THEN Append(Pieces(from, to), RestOf(m)) ELSE Pieces(from, to)
      BY <2>5, <2>6, RecoveredIs DEF RestOf
    <2>8. /\ m \in Nat /\ m - D \in Nat /\ EndOf(m) \in Nat
      BY <1>1, <2>4, LineFacts
    <2>9. /\ Pieces(from, to) \in Seq(LineEntry) /\ Len(Pieces(from, to)) = m - D
          /\ \A j \in 1..(m - D) : Pieces(from, to)[j] = lines[D + j]
      <3>1. \A j \in 1..(m - D) : lines[D + j] \in LineEntry
        <4> SUFFICES ASSUME NEW j \in 1..(m - D) PROVE lines[D + j] \in LineEntry
          OBVIOUS
        <4>1. D + j \in 1..Len(lines)
          BY <1>1, <2>4, <2>8
        <4> QED
          BY <4>1, LineFacts
      <3> HIDE DEF from, to, D
      <3> QED
        BY <2>5, <2>8, <3>1
    <2>10. RestOf(m) \in LineEntry
      BY <1>1, <2>8 DEF RestOf, LineEntry
    <2> DEFINE more == EndOf(m) < to
               tail == Recovered(from, to)
    <2>11. /\ tail \in Seq(LineEntry) /\ Len(tail) = IF more THEN m - D + 1 ELSE m - D
           /\ \A j \in 1..(m - D) : tail[j] = lines[D + j]
           /\ more => tail[m - D + 1] = RestOf(m)
      <3>1. CASE more
        <4>1. tail = Append(Pieces(from, to), RestOf(m))
          BY <2>7, <3>1
        <4> HIDE DEF from, to, D, tail
        <4> QED
          BY <2>8, <2>9, <2>10, <3>1, <4>1, AppendProperties
      <3>2. CASE ~more
        BY <2>7, <2>9, <3>2
      <3> QED
        BY <3>1, <3>2
    <2> HIDE DEF tail, from, to, more
    <2>12. AllLines = head \o tail
      BY <1>2 DEF tail
    <2>13. Len(AllLines) = IF more THEN m + 1 ELSE m
      <3>1. Len(AllLines) = Len(head) + Len(tail)
        BY <1>3, <2>11, <2>12, ConcatProperties
      <3>2. CASE more
        BY <1>1, <1>3, <2>8, <2>11, <3>1, <3>2
      <3>3. CASE ~more
        BY <1>1, <1>3, <2>8, <2>11, <3>1, <3>3
      <3> QED
        BY <3>2, <3>3
    <2>14. \A i \in 1..m : AllLines[i] = lines[i]
      <3> SUFFICES ASSUME NEW i \in 1..m PROVE AllLines[i] = lines[i]
        OBVIOUS
      <3>1. CASE i <= D
        <4>1. i \in 1..D /\ i \in 1..(Len(head) + Len(tail))
          BY <1>1, <1>3, <2>8, <2>11, <3>1
        <4> QED
          BY <1>3, <2>11, <2>12, <3>1, <4>1, ConcatProperties
      <3>2. CASE i > D
        <4>1. i - D \in 1..(m - D) /\ D + (i - D) = i /\ i \in 1..(Len(head) + Len(tail))
          BY <1>1, <1>3, <2>8, <2>11, <3>2
        <4>2. AllLines[i] = tail[i - D]
          BY <1>3, <2>11, <2>12, <3>2, <4>1, ConcatProperties
        <4> QED
          BY <2>11, <4>1, <4>2
      <3> QED
        BY <1>1, <2>8, <3>1, <3>2
    <2>15. more => /\ AllLines[m + 1] = RestOf(m) /\ EndOf(m) < Len(log)
                   /\ m < Len(lines) => Len(log) <= lines[m + 1].record_end
      <3> SUFFICES ASSUME more
                   PROVE  /\ AllLines[m + 1] = RestOf(m) /\ EndOf(m) < Len(log)
                          /\ m < Len(lines) => Len(log) <= lines[m + 1].record_end
        OBVIOUS
      <3>1. AllLines[m + 1] = RestOf(m)
        <4>1. m + 1 \in 1..(Len(head) + Len(tail)) /\ m + 1 > D /\ m + 1 - D = m - D + 1
          BY <1>1, <1>3, <2>8, <2>11
        <4>2. AllLines[m + 1] = tail[m + 1 - D]
          BY <1>3, <2>11, <2>12, <4>1, ConcatProperties
        <4> QED
          BY <2>11, <4>1, <4>2
      <3>2. ASSUME m < Len(lines) PROVE Len(log) <= lines[m + 1].record_end
        <4>1. m + 1 \in 1..Len(lines) /\ lines[m + 1].record_end \in Nat
          BY <1>1, <2>8, <3>2, LineFacts
        <4>2. CASE lines[m + 1].record_end > Len(log)
          BY <1>1, <4>1, <4>2
        <4>3. CASE m + 1 = Len(lines) /\ ~Terminated(m + 1)
          <5>1. Position <= current_start
            BY <4>1, <4>3 DEF Structured, CutIsLast
          <5>2. current_start = lines[m + 1].record_end
            BY <1>1, <4>1, <4>3, LineFacts DEF Structured, Chained
          <5> QED
            BY <1>1, <5>1, <5>2 DEF Position
        <4> QED
          BY <2>4, <3>2, <4>2, <4>3
      <3> QED
        BY <3>1, <3>2 DEF more, to
    <2>16. ASSUME NEW i \in 1..Len(lines), lines[i].record_end <= Len(log)
           PROVE  i <= Len(AllLines)
      <3>1. CASE i <= m
        BY <1>1, <2>8, <2>13, <3>1
      <3>2. CASE m < i
        <4>1. /\ m < Len(lines) /\ m + 1 \in 1..Len(lines) /\ m + 1 <= i
              /\ lines[m + 1].record_end \in Nat /\ lines[i].record_end \in Nat
          BY <1>1, <2>8, <3>2, LineFacts
        <4>2. lines[m + 1].record_end <= lines[i].record_end
          <5>1. CASE m + 1 = i
            BY <4>1, <5>1
          <5>2. CASE m + 1 # i
            <6>1. EndOf(m + 1) < lines[i].record_end
              BY <1>1, <2>8, <4>1, <5>2, LaterBegins
            <6> QED
              BY <4>1, <6>1, LineFacts
          <5> QED
            BY <5>1, <5>2
        <4>3. m + 1 = Len(lines)
          BY <1>1, <2>4, <2>16, <4>1, <4>2
        <4>4. i = m + 1
          BY <1>1, <2>8, <3>2, <4>3
        <4>5. EndOf(m) < lines[m + 1].record_end
          BY <1>1, <2>4, <2>8, <4>1, LaterBegins
        <4>6. more
          BY <1>1, <2>8, <2>16, <4>1, <4>4, <4>5 DEF more, to
        <4> QED
          BY <2>13, <4>4, <4>6
      <3> QED
        BY <1>1, <2>8, <3>1, <3>2
    <2>17. Found(m, more)
      BY <1>5, <2>13, <2>14, <2>15, <2>16 DEF Found
    <2>18. more \in BOOLEAN
      BY DEF more
    <2> QED
      BY <2>4, <2>17, <2>18
  <1> QED
    BY <1>4, <1>5

-----------------------------------------------------------------------------
(***************************************************************************)
(* Steps that keep the text or add to it.                                  *)
(***************************************************************************)
(* The text after the step is a beginning of the text before it.           *)
TextKept == Position' <= Position /\ \A p \in 1..Position' : At(p)' = At(p)

LEMMA TextPrefix ==
    ASSUME WriterTypeOK, NEW k \in 0..Len(buffer), Writes(k)
    PROVE  /\ TextKept
           /\ buffer' = SubSeq(buffer, k + 1, Len(buffer)) => Position' = Position
           /\ Len(log') = Len(log) + k
           /\ \A p \in 1..Len(log) : log'[p] = log[p]
  <1> DEFINE head == SubSeq(buffer, 1, k)
             rest == SubSeq(buffer, k + 1, Len(buffer))
  <1>1. /\ log \in Seq(Symbols) /\ buffer \in Seq(Symbols) /\ Len(log) \in Nat
        /\ Len(buffer) \in Nat /\ k \in Nat
    BY DEF WriterTypeOK
  <1>2. /\ head \in Seq(Symbols) /\ Len(head) = k
        /\ rest \in Seq(Symbols) /\ Len(rest) = Len(buffer) - k
        /\ \A i \in 1..k : head[i] = buffer[i]
        /\ \A i \in 1..(Len(buffer) - k) : rest[i] = buffer[k + i]
    BY <1>1
  <1>3. log' = log \o head /\ buffer' \in {rest, <<>>}
    BY DEF Writes
  <1> HIDE DEF head, rest
  <1>4. /\ Len(log') = Len(log) + k
        /\ \A p \in 1..Len(log) : log'[p] = log[p]
        /\ \A i \in 1..k : log'[Len(log) + i] = head[i]
    <2>0. /\ Len(log') = Len(log) + Len(head)
          /\ \A p \in 1..(Len(log) + Len(head)) :
                log'[p] = IF p <= Len(log) THEN log[p] ELSE head[p - Len(log)]
      BY <1>1, <1>2, <1>3, ConcatProperties
    <2>1. ASSUME NEW p \in 1..Len(log) PROVE log'[p] = log[p]
      <3>1. p \in 1..(Len(log) + Len(head)) /\ p <= Len(log)
        BY <1>1, <1>2
      <3> QED
        BY <2>0, <3>1
    <2>2. ASSUME NEW i \in 1..k PROVE log'[Len(log) + i] = head[i]
      <3>1. /\ Len(log) + i \in 1..(Len(log) + Len(head)) /\ Len(log) + i > Len(log)
            /\ Len(log) + i - Len(log) = i
        BY <1>1, <1>2
      <3>2. ~ (Len(log) + i <= Len(log))
        BY <1>1
      <3> QED
        BY <2>0, <3>1, <3>2
    <2> QED
      BY <1>2, <2>0, <2>1, <2>2
  <1>5. ASSUME NEW p \in 1..(Len(log) + k) PROVE log'[p] = At(p)
    <2>1. CASE p <= Len(log)
      BY <1>1, <1>4, <2>1 DEF At
    <2>2. CASE p > Len(log)
      <3>1. p - Len(log) \in 1..k /\ Len(log) + (p - Len(log)) = p
        BY <1>1, <2>2
      <3> QED
        BY <1>1, <1>2, <1>4, <2>2, <3>1 DEF At
    <2> QED
      BY <1>1, <2>1, <2>2
  <1>6. CASE buffer' = <<>>
    <2>1. Len(buffer') = 0
      BY <1>6
    <2>2. Position' = Len(log) + k
      BY <1>1, <1>4, <2>1 DEF Position
    <2>3. TextKept
      BY <1>1, <1>4, <1>5, <2>2 DEF TextKept, At, Position
    <2>4. buffer' = rest => Position' = Position
      BY <1>1, <1>2, <2>1, <2>2 DEF Position
    <2> QED
      BY <1>4, <2>3, <2>4 DEF rest
  <1>7. CASE buffer' = rest
    <2>0. Len(buffer') = Len(buffer) - k
      BY <1>2, <1>7
    <2>1. Position' = Position
      BY <1>1, <1>4, <2>0 DEF Position
    <2>2. ASSUME NEW p \in 1..Position PROVE At(p)' = At(p)
      <3>1. CASE p <= Len(log) + k
        BY <1>1, <1>4, <1>5, <3>1 DEF At
      <3>2. CASE p > Len(log) + k
        <4>1. /\ p - (Len(log) + k) \in 1..(Len(buffer) - k)
              /\ k + (p - (Len(log) + k)) = p - Len(log)
          BY <1>1, <3>2 DEF Position
        <4>2. rest[p - (Len(log) + k)] = buffer[p - Len(log)]
          BY <1>2, <4>1
        <4> QED
          BY <1>1, <1>4, <1>7, <3>2, <4>2 DEF At
      <3> QED
        BY <1>1, <3>1, <3>2 DEF Position
    <2> QED
      BY <1>1, <1>4, <2>1, <2>2 DEF TextKept, Position
  <1> QED
    BY <1>3, <1>6, <1>7

(* The text after the step has b behind it.                                *)
TextGrows(b) == log' = log /\ buffer' = buffer \o b /\ encoding' = encoding

LEMMA TextLonger ==
    ASSUME WriterTypeOK, NEW b \in Seq(Symbols), TextGrows(b)
    PROVE  /\ Position' = Position + Len(b) /\ Position \in Nat /\ Len(b) \in Nat
           /\ \A p \in 1..Position : At(p)' = At(p)
           /\ \A p \in (Position + 1)..(Position + Len(b)) : At(p)' = b[p - Position]
  <1>1. /\ log \in Seq(Symbols) /\ buffer \in Seq(Symbols) /\ Len(log) \in Nat
        /\ Len(buffer) \in Nat /\ Len(b) \in Nat
    BY DEF WriterTypeOK
  <1>2. /\ Len(buffer') = Len(buffer) + Len(b)
        /\ \A i \in 1..Len(buffer) : buffer'[i] = buffer[i]
        /\ \A i \in 1..Len(b) : buffer'[Len(buffer) + i] = b[i]
    BY <1>1 DEF TextGrows
  <1>3. Position' = Position + Len(b)
    BY <1>1, <1>2 DEF Position, TextGrows
  <1>4. ASSUME NEW p \in 1..Position PROVE At(p)' = At(p)
    <2>1. CASE p <= Len(log)
      BY <1>1, <2>1 DEF At, TextGrows
    <2>2. CASE p > Len(log)
      <3>1. p - Len(log) \in 1..Len(buffer)
        BY <1>1, <2>2 DEF Position
      <3> QED
        BY <1>1, <1>2, <2>2, <3>1 DEF At, TextGrows
    <2> QED
      BY <1>1, <2>1, <2>2
  <1>5. ASSUME NEW p \in (Position + 1)..(Position + Len(b)) PROVE At(p)' = b[p - Position]
    <2>1. /\ p > Len(log) /\ p - Position \in 1..Len(b) /\ p \in Nat
          /\ p - Len(log) = Len(buffer) + (p - Position)
      BY <1>1 DEF Position
    <2> QED
      BY <1>1, <1>2, <2>1 DEF At, TextGrows
  <1> QED
    BY <1>1, <1>3, <1>4, <1>5 DEF Position

-----------------------------------------------------------------------------
(***************************************************************************)
(* What is kept when bytes are written out.                                *)
(***************************************************************************)
LEMMA PositionFacts ==
    ASSUME WriterTypeOK
    PROVE  /\ Position \in Nat /\ Len(log) \in Nat /\ Len(buffer) \in Nat
           /\ Position = Len(log) + Len(buffer) /\ Len(index) \in Nat /\ Len(lines) \in Nat
           /\ current_start \in Nat
  BY DEF WriterTypeOK, Position

LEMMA BreaksKept ==
    ASSUME Structured, WriterTypeOK', TextKept, encoding' = encoding, NEW p \in Nat
    PROVE  /\ BreakAt(p)' => BreakAt(p)
           /\ BreakAt(p) /\ p + Width <= Position' => BreakAt(p)'
  <1>1. Position \in Nat /\ Position' \in Nat /\ Position' <= Position
    BY PositionFacts DEF Structured, WriterTypeOK, TextKept, Position
  <1>2. Width' = Width /\ Width \in {1, 2} /\ (encoding = "wide" => Width = 2)
    BY EncodingFacts DEF Width
  <1>3. ASSUME p + Width <= Position'
        PROVE  /\ At(p + 1)' = At(p + 1)
               /\ encoding = "wide" => At(p + 2)' = At(p + 2)
    <2>1. p + 1 \in 1..Position' /\ (encoding = "wide" => p + 2 \in 1..Position')
      BY <1>1, <1>2, <1>3
    <2> QED
      BY <2>1 DEF TextKept
  <1>4. p + Width <= Position' => p + Width <= Position
    BY <1>1, <1>2
  <1> QED
    BY <1>2, <1>3, <1>4 DEF BreakAt

(* Lines are only added.                                                   *)
LinesKept ==
    /\ Len(lines') >= Len(lines)
    /\ \A i \in 1..Len(lines) : lines'[i] = lines[i]

LEMMA IndexKept ==
    ASSUME Structured, WriterTypeOK', LinesKept, index' = index, Len(log') >= Len(log),
           index_torn => index_torn'
    PROVE  IndexHolds' /\ Counted'
  <1>1. /\ Len(lines) \in Nat /\ Len(lines') \in Nat /\ Len(index) \in Nat
        /\ Len(log) \in Nat /\ Len(log') \in Nat
    <2>1. WriterTypeOK
      BY DEF Structured
    <2>2. lines \in Seq(LineEntry) /\ index \in Seq(Nat) /\ log \in Seq(Symbols)
      BY <2>1 DEF WriterTypeOK
    <2>3. lines' \in Seq(LineEntry) /\ log' \in Seq(Symbols)
      BY DEF WriterTypeOK
    <2> QED
      BY <2>2, <2>3
  <1>2. Counted'
    BY <1>1 DEF Structured, Counted, LinesKept
  <1>3. ASSUME ~index_torn', NEW k \in 1..Len(lines')
        PROVE  /\ 3 * k - 2 <= Len(index) =>
                     index[3 * k - 2] = lines'[k].start /\ lines'[k].record_end <= Len(log')
               /\ 3 * k - 1 <= Len(index) => index[3 * k - 1] = lines'[k].content_end
               /\ 3 * k <= Len(index) => index[3 * k] = lines'[k].record_end
    <2>1. Len(index) <= 3 * Len(lines) /\ ~index_torn
      BY <1>3 DEF Structured, Counted
    <2>2. CASE k <= Len(lines)
      <3>1. k \in 1..Len(lines) /\ lines'[k] = lines[k] /\ lines[k].record_end \in Nat
        BY <1>1, <2>2, LineFacts DEF LinesKept
      <3>2. /\ 3 * k - 2 <= Len(index) =>
                  index[3 * k - 2] = lines[k].start /\ lines[k].record_end <= Len(log)
            /\ 3 * k - 1 <= Len(index) => index[3 * k - 1] = lines[k].content_end
            /\ 3 * k <= Len(index) => index[3 * k] = lines[k].record_end
        BY <2>1, <3>1 DEF Structured, IndexHolds
      <3>3. \A a, b, c \in Nat : a <= b /\ b <= c => a <= c
        OBVIOUS
      <3>4. lines[k].record_end <= Len(log) => lines[k].record_end <= Len(log')
        BY <1>1, <3>1, <3>3
      <3> QED
        BY <3>1, <3>2, <3>4
    <2>3. CASE k > Len(lines)
      BY <1>1, <2>1, <2>3
    <2> QED
      BY <1>1, <2>2, <2>3
  <1> QED
    BY <1>2, <1>3 DEF IndexHolds

LEMMA ChainedKept ==
    ASSUME Chained, UNCHANGED <<lines, current_start, encoding>>
    PROVE  Chained'
  BY DEF Chained, EndOf, MarkLen, Width, Aligned

LEMMA CutKept ==
    ASSUME Structured, WriterTypeOK', UNCHANGED <<lines, current_start, encoding>>,
           Closed /\ ~current_has_content =>
               Closed' /\ ~current_has_content' /\ Position' <= Position
    PROVE  CutIsLast'
  <1>1. \A i \in 1..Len(lines) : Terminated(i)' <=> Terminated(i)
    BY DEF Terminated, Width
  <1>2. Position \in Nat /\ Position' \in Nat /\ current_start \in Nat
    BY PositionFacts DEF Structured, WriterTypeOK, Position
  <1> SUFFICES ASSUME NEW i \in 1..Len(lines), ~Terminated(i)
               PROVE  /\ i = Len(lines) /\ Closed' /\ ~current_has_content'
                      /\ lines[i].start < lines[i].content_end /\ Position' <= current_start
    BY <1>1 DEF CutIsLast
  <1>3. /\ i = Len(lines) /\ Closed /\ ~current_has_content
        /\ lines[i].start < lines[i].content_end /\ Position <= current_start
    BY DEF Structured, CutIsLast
  <1> QED
    BY <1>2, <1>3

LEMMA BreaksMatchKept ==
    ASSUME Structured, WriterTypeOK', TextKept, UNCHANGED <<lines, current_start, encoding>>
    PROVE  BreaksMatch'
  <1>1. Position \in Nat /\ Position' \in Nat /\ Position' <= Position /\ Width' = Width
    BY PositionFacts DEF Structured, WriterTypeOK, TextKept, Position, Width
  <1>2. \A p \in Nat : Aligned(p)' <=> Aligned(p)
    BY DEF Aligned
  <1>3. ASSUME NEW i \in 1..Len(lines), NEW p \in Nat,
               Aligned(p), lines[i].start <= p, p < lines[i].content_end
        PROVE  ~BreakAt(p)'
    BY <1>3, BreaksKept DEF Structured, BreaksMatch
  <1>4. ASSUME NEW i \in 1..Len(lines), Terminated(i), lines[i].record_end <= Position',
               NEW c \in Nat, c = lines[i].content_end
        PROVE  BreakAt(c)'
    <2>1. lines[i].record_end \in Nat /\ lines[i].record_end = c + Width
      BY <1>4, LineFacts DEF Terminated
    <2>2. lines[i].record_end <= Position
      BY <1>1, <1>4, <2>1
    <2>3. BreakAt(c)
      BY <1>4, <2>2 DEF Structured, BreaksMatch
    <2> QED
      BY <1>4, <2>1, <2>3, BreaksKept
  <1>5. ASSUME NEW p \in Nat, Aligned(p), current_start <= p
        PROVE  ~BreakAt(p)'
    BY <1>5, BreaksKept DEF Structured, BreaksMatch
  <1>6. \A i \in 1..Len(lines) : Terminated(i)' <=> Terminated(i)
    BY <1>1 DEF Terminated
  <1>7. \A i \in 1..Len(lines) :
            Terminated(i)' /\ lines[i].record_end <= Position' => BreakAt(lines[i].content_end)'
    <2> SUFFICES ASSUME NEW i \in 1..Len(lines), Terminated(i),
                        lines[i].record_end <= Position'
                 PROVE  BreakAt(lines[i].content_end)'
      BY <1>6
    <2>1. PICK c \in Nat : c = lines[i].content_end
      BY LineFacts
    <2>2. BreakAt(c)'
      BY <1>4, <2>1
    <2> QED
      BY <2>1, <2>2 DEF BreakAt, At
  <1> QED
    BY <1>2, <1>3, <1>5, <1>7 DEF BreaksMatch

LEMMA MarkedKept ==
    ASSUME Structured, WriterTypeOK', TextKept, encoding' = encoding,
           encoding = "wide" => /\ Position' > 0 => Position' >= 2
                                /\ log' # <<>> => Len(log') >= 2
    PROVE  Marked'
  <1>1. Position \in Nat /\ Position' \in Nat /\ Position' <= Position
    BY PositionFacts DEF Structured, WriterTypeOK, TextKept, Position
  <1>2. ASSUME Position' > 0 PROVE At(1)' = At(1) /\ Position > 0
    <2>1. 1 \in 1..Position'
      BY <1>1, <1>2
    <2> QED
      BY <1>1, <1>2, <2>1 DEF TextKept
  <1>3. ASSUME Position' >= 2 PROVE At(2)' = At(2)
    <2>1. 2 \in 1..Position'
      BY <1>1, <1>3
    <2> QED
      BY <2>1 DEF TextKept
  <1> QED
    BY <1>1, <1>2, <1>3 DEF Structured, Marked

(* A step that only writes out, or leaves the text alone.                  *)
LEMMA StructuredKept ==
    ASSUME Structured, WriterTypeOK', TextKept, UNCHANGED <<lines, current_start, encoding>>,
           Closed => Closed', current_has_content' => current_has_content,
           encoding = "wide" => /\ Position' > 0 => Position' >= 2
                                /\ log' # <<>> => Len(log') >= 2,
           IndexHolds' /\ Counted'
    PROVE  Structured'
  <1>1. Position' <= Position
    BY DEF TextKept
  <1> QED
    BY <1>1, ChainedKept, CutKept, BreaksMatchKept, MarkedKept DEF Structured

(* The text and the lines stay as they are.                                *)
LEMMA StructuredQuiet ==
    ASSUME Structured, WriterTypeOK',
           UNCHANGED <<log, buffer, index, lines, current_start, encoding>>,
           Closed => Closed', current_has_content' => current_has_content,
           index_torn => index_torn'
    PROVE  Structured'
  <1>1. Position' = Position /\ Position \in Nat /\ Len(log) \in Nat
    BY PositionFacts DEF Position, Structured
  <1>2. TextKept
    BY <1>1 DEF TextKept, At
  <1>3. LinesKept
    BY PositionFacts DEF LinesKept, Structured
  <1>4. IndexHolds' /\ Counted'
    BY <1>1, <1>3, IndexKept
  <1>5. encoding = "wide" => /\ Position' > 0 => Position' >= 2
                             /\ log' # <<>> => Len(log') >= 2
    BY <1>1 DEF Structured, Marked
  <1> QED
    BY <1>2, <1>4, <1>5, StructuredKept

LEMMA WritingStructured ==
    ASSUME Typed, Structured, WriterTypeOK', Spill \/ FlushLog \/ DropWriter \/ Crash
    PROVE  Structured'
  <1>1. PICK k \in 0..Len(buffer) :
            /\ Writes(k) /\ k \in {0, Len(buffer)} \cup Prefixes
            /\ buffer' = SubSeq(buffer, k + 1, Len(buffer)) \/ buffer' = <<>>
    <2>1. PICK k \in {0, Len(buffer)} \cup Prefixes :
              /\ log' = log \o SubSeq(buffer, 1, k)
              /\ buffer' = SubSeq(buffer, k + 1, Len(buffer)) \/ buffer' = <<>>
      BY DEF Spill, FlushLog, DropWriter, Crash, WriteOut
    <2> QED
      BY <2>1, PrefixesType DEF Writes
  <1>2. /\ TextKept /\ Len(log') = Len(log) + k
        /\ buffer' = SubSeq(buffer, k + 1, Len(buffer)) => Position' = Position
    BY <1>1, TextPrefix DEF Structured
  <1>3. /\ Len(log) \in Nat /\ Len(buffer) \in Nat /\ k \in Nat
        /\ Position = Len(log) + Len(buffer) /\ Position' = Len(log') + Len(buffer')
    BY PositionFacts DEF Structured, Position
  <1>4. UNCHANGED <<index, lines, current_start, encoding, current_has_content, index_torn,
                    quota_exceeded, source, event>>
    BY DEF Spill, FlushLog, DropWriter, Crash, progress, stream, history
  <1>5. Closed => Closed'
    <2>1. UNCHANGED <<quota_exceeded, source, event, goal>>
      BY <1>4 DEF Spill, FlushLog, DropWriter, Crash
    <2>2. pc \in {"drop", "record", "gone"} => pc' \in {"drop", "record", "gone"}
      BY DEF Spill, FlushLog, DropWriter, Crash
    <2>3. writer = "dropped" => writer' = "dropped"
      BY DEF Spill, FlushLog, DropWriter, Crash
    <2> QED
      BY <2>1, <2>2, <2>3 DEF Closed
  <1>6. encoding = "wide" /\ log' # <<>> => Len(log') >= 2
    <2> SUFFICES ASSUME encoding = "wide", log' # <<>> PROVE Len(log') >= 2
      OBVIOUS
    <2>1. CASE log # <<>>
      BY <1>2, <1>3, <2>1 DEF Structured, Marked
    <2>2. CASE log = <<>>
      <3>1. Len(log) = 0 /\ log' \in Seq(Symbols) /\ Len(log') > 0
        BY <2>2 DEF WriterTypeOK
      <3>2. k # 0
        BY <1>2, <3>1
      <3>3. CASE k = Len(buffer)
        BY <1>2, <1>3, <3>1, <3>2, <3>3 DEF Structured, Marked
      <3>4. CASE k \in Prefixes
        <4>1. Len(StreamBom(encoding)) = 2
          BY BomType
        <4>2. k >= 2
          BY <2>2, <3>4, <4>1 DEF Prefixes
        <4> QED
          BY <1>2, <1>3, <4>2
      <3> QED
        BY <1>1, <3>2, <3>3, <3>4
    <2> QED
      BY <2>1, <2>2
  <1>7. encoding = "wide" /\ Position' > 0 => Position' >= 2
    <2>1. CASE buffer' = SubSeq(buffer, k + 1, Len(buffer))
      BY <1>2, <1>3, <2>1 DEF Structured, Marked
    <2>2. CASE buffer' = <<>>
      <3>1. Len(buffer') = 0 /\ (Len(log') > 0 => log' # <<>>) /\ Len(log') \in Nat
        BY <2>2 DEF WriterTypeOK
      <3> QED
        BY <1>3, <1>6, <3>1
    <2> QED
      BY <1>1, <2>1, <2>2
  <1>8. IndexHolds' /\ Counted'
    <2>1. LinesKept /\ Len(log') >= Len(log) /\ index' = index
      BY <1>2, <1>3, <1>4, PositionFacts DEF LinesKept, Structured
    <2> QED
      BY <1>4, <2>1, IndexKept
  <1> QED
    BY <1>2, <1>4, <1>5, <1>6, <1>7, <1>8, StructuredKept

-----------------------------------------------------------------------------
(***************************************************************************)
(* Committing a line.                                                      *)
(***************************************************************************)
(* A writer in use has the text of all lines, in whole units.              *)
Whole ==
    writer = "open" =>
        /\ current_start <= Position /\ Aligned(Position)
        /\ current_has_content <=> current_start < Position

(* No line ending stands in b.                                             *)
Content(b) ==
    \A p \in Nat : Aligned(p) /\ p + Width <= Len(b) =>
        ~ (b[p + 1] = "n" /\ (encoding = "wide" => b[p + 2] = "o"))

LEMMA EvenSteps ==
    \A p, q \in Nat :
        /\ p % 2 = 0 /\ q % 2 = 0 /\ p < q => p + 2 <= q
        /\ p % 2 = 0 /\ q % 2 = 0 /\ p <= q => (q - p) % 2 = 0
        /\ p % 2 = 0 /\ q % 2 = 0 => (p + q) % 2 = 0
  OBVIOUS

LEMMA GrownBreaks ==
    ASSUME Structured, WriterTypeOK', Aligned(Position), NEW b \in Seq(Symbols), TextGrows(b),
           NEW p \in Nat, Aligned(p)
    PROVE  /\ p < Position => (BreakAt(p)' <=> BreakAt(p)) /\ p + Width <= Position
           /\ p >= Position /\ Content(b) => ~BreakAt(p)'
           /\ p = Position /\ b = LineEnding(encoding) => BreakAt(p)'
  <1>1. /\ Position' = Position + Len(b) /\ Position \in Nat /\ Len(b) \in Nat
        /\ \A q \in 1..Position : At(q)' = At(q)
        /\ \A q \in (Position + 1)..(Position + Len(b)) : At(q)' = b[q - Position]
    BY TextLonger DEF Structured
  <1>2. /\ Width' = Width /\ Width \in {1, 2} /\ (encoding = "wide" => Width = 2)
        /\ (encoding # "wide" => Width = 1) /\ encoding' = encoding
    BY EncodingFacts DEF Width, TextGrows
  <1>3. p < Position => p + Width <= Position
    <2>1. CASE encoding = "wide"
      BY <1>1, <1>2, <2>1, EvenSteps DEF Aligned
    <2>2. CASE encoding # "wide"
      BY <1>1, <1>2, <2>2
    <2> QED
      BY <2>1, <2>2
  <1>4. ASSUME p < Position PROVE BreakAt(p)' <=> BreakAt(p)
    <2>1. p + 1 \in 1..Position /\ (encoding = "wide" => p + 2 \in 1..Position)
      BY <1>1, <1>2, <1>3, <1>4
    <2>2. At(p + 1)' = At(p + 1) /\ (encoding = "wide" => At(p + 2)' = At(p + 2))
      BY <1>1, <2>1
    <2>3. p + Width <= Position /\ p + Width' <= Position'
      BY <1>1, <1>2, <1>3, <1>4
    <2> QED
      BY <1>2, <2>2, <2>3 DEF BreakAt
  <1>5. ASSUME p >= Position, Content(b), BreakAt(p)' PROVE FALSE
    <2> DEFINE q == p - Position
    <2>1. q \in Nat /\ p + Width <= Position + Len(b) /\ q + Width <= Len(b)
      BY <1>1, <1>2, <1>5 DEF BreakAt
    <2>2. Aligned(q)
      BY <1>1, <1>5, EvenSteps DEF Aligned
    <2>3. /\ p + 1 \in (Position + 1)..(Position + Len(b)) /\ (p + 1) - Position = q + 1
          /\ encoding = "wide" => /\ p + 2 \in (Position + 1)..(Position + Len(b))
                                  /\ (p + 2) - Position = q + 2
      BY <1>1, <1>2, <1>5, <2>1
    <2>4. At(p + 1)' = b[q + 1] /\ (encoding = "wide" => At(p + 2)' = b[q + 2])
      BY <1>1, <2>3
    <2> HIDE DEF q
    <2> QED
      BY <1>2, <1>5, <2>1, <2>2, <2>4 DEF BreakAt, Content
  <1>6. ASSUME p = Position, b = LineEnding(encoding) PROVE BreakAt(p)'
    <2>1. Len(b) = Width /\ b[1] = "n" /\ (encoding = "wide" => b[2] = "o")
      BY <1>2, <1>6, BomType DEF LineEnding, Width
    <2>2. /\ p + 1 \in (Position + 1)..(Position + Len(b)) /\ (p + 1) - Position = 1
          /\ encoding = "wide" => /\ p + 2 \in (Position + 1)..(Position + Len(b))
                                  /\ (p + 2) - Position = 2
      BY <1>1, <1>2, <1>6, <2>1
    <2>3. At(p + 1)' = b[1] /\ (encoding = "wide" => At(p + 2)' = b[2])
      BY <1>1, <2>2
    <2>4. p + Width' <= Position'
      BY <1>1, <1>2, <1>6, <2>1
    <2> QED
      BY <1>2, <2>1, <2>3, <2>4 DEF BreakAt
  <1> QED
    BY <1>3, <1>4, <1>5, <1>6

LEMMA StartAligned ==
    ASSUME Structured
    PROVE  Aligned(current_start)
  <1>1. CASE Len(lines) = 0
    BY <1>1, EncodingFacts DEF Structured, Chained, EndOf
  <1>2. CASE Len(lines) # 0
    <2> DEFINE n == Len(lines)
    <2>1. n \in 1..Len(lines)
      BY <1>2, LineFacts
    <2>2. /\ current_start = lines[n].record_end /\ lines[n].content_end \in Nat
          /\ lines[n].record_end \in {lines[n].content_end, lines[n].content_end + Width}
          /\ Aligned(lines[n].content_end)
      BY <2>1, LineFacts DEF Structured, Chained
    <2> HIDE DEF n
    <2> QED
      BY <2>2, EncodingFacts, EvenSteps DEF Aligned
  <1> QED
    BY <1>1, <1>2

LEMMA Committed ==
    ASSUME Structured, NEW a \in Nat, NEW c \in Nat, CommitLine(a, c)
    PROVE  /\ Len(lines') = Len(lines) + 1 /\ LinesKept
           /\ lines'[Len(lines) + 1] =
                 [start |-> current_start, content_end |-> a, record_end |-> c]
           /\ current_start' = c /\ ~current_has_content'
  <1>1. [start |-> current_start, content_end |-> a, record_end |-> c] \in LineEntry
    BY LineFacts DEF LineEntry
  <1>2. lines \in Seq(LineEntry) /\ Len(lines) \in Nat
    BY DEF Structured, WriterTypeOK
  <1> QED
    BY <1>1, <1>2 DEF CommitLine, LinesKept

LEMMA CommitChained ==
    ASSUME Structured, NEW a \in Nat, NEW c \in Nat, CommitLine(a, c), encoding' = encoding,
           current_start <= a, c \in {a, a + Width}, Aligned(a)
    PROVE  Chained'
  <1> DEFINE n == Len(lines)
  <1>1. /\ Len(lines') = n + 1 /\ n \in Nat /\ current_start' = c
        /\ \A i \in 1..n : lines'[i] = lines[i]
        /\ lines'[n + 1].start = current_start /\ lines'[n + 1].content_end = a
        /\ lines'[n + 1].record_end = c
    <2>1. /\ Len(lines') = n + 1 /\ LinesKept /\ current_start' = c
          /\ lines'[n + 1] =
                [start |-> current_start, content_end |-> a, record_end |-> c]
      BY Committed
    <2>2. n \in Nat
      BY LineFacts
    <2> HIDE DEF n
    <2>3. /\ lines'[n + 1].start = current_start /\ lines'[n + 1].content_end = a
          /\ lines'[n + 1].record_end = c
      BY <2>1
    <2> QED
      BY <2>1, <2>2, <2>3 DEF LinesKept, n
  <1>2. MarkLen' = MarkLen /\ Width' = Width /\ Width \in Nat /\ MarkLen \in Nat
    BY EncodingFacts DEF MarkLen, Width
  <1>3. current_start \in Nat /\ MarkLen <= current_start /\ current_start <= c
    <2>1. EndOf(0) <= current_start /\ EndOf(0) = MarkLen /\ current_start \in Nat
      BY LineFacts
    <2> QED
      BY <1>2, <2>1
  <1>4. \A p \in Nat : Aligned(p)' <=> Aligned(p)
    BY DEF Aligned
  <1>5. ASSUME NEW i \in 1..(n + 1)
        PROVE  /\ lines'[i].start = (IF i = 1 THEN MarkLen ELSE lines'[i - 1].record_end)
               /\ MarkLen <= lines'[i].start
               /\ lines'[i].start <= lines'[i].content_end
               /\ lines'[i].record_end \in {lines'[i].content_end, lines'[i].content_end + Width}
               /\ lines'[i].record_end <= c
               /\ Aligned(lines'[i].start) /\ Aligned(lines'[i].content_end)
    <2>1. CASE i = n + 1
      <3>1. current_start = IF n = 0 THEN MarkLen ELSE lines[n].record_end
        BY DEF Structured, Chained, EndOf
      <3>2. n # 0 => n \in 1..n /\ n + 1 # 1 /\ (n + 1) - 1 = n
        BY <1>1
      <3> HIDE DEF n
      <3> QED
        BY <1>1, <1>2, <1>3, <2>1, <3>1, <3>2, StartAligned
    <2>2. CASE i # n + 1
      <3>1. i \in 1..n /\ (i # 1 => i - 1 \in 1..n)
        BY <1>1, <2>2
      <3>2. /\ lines[i].start = (IF i = 1 THEN MarkLen ELSE lines[i - 1].record_end)
            /\ MarkLen <= lines[i].start
            /\ lines[i].start <= lines[i].content_end
            /\ lines[i].record_end \in {lines[i].content_end, lines[i].content_end + Width}
            /\ lines[i].record_end <= current_start
            /\ Aligned(lines[i].start) /\ Aligned(lines[i].content_end)
        BY <3>1 DEF Structured, Chained, EndOf
      <3>3. lines[i].record_end \in Nat
        BY <3>1, LineFacts
      <3>4. lines[i].record_end <= c
        BY <1>3, <3>2, <3>3
      <3>5. lines'[i] = lines[i] /\ (i # 1 => lines'[i - 1] = lines[i - 1])
        BY <1>1, <3>1
      <3> HIDE DEF n
      <3> QED
        BY <3>2, <3>4, <3>5
    <2> QED
      BY <2>1, <2>2
  <1>6. ASSUME NEW i \in 1..(n + 1), NEW j \in 1..(n + 1), i < j
        PROVE  lines'[i].record_end <= lines'[j].start
    <2>1. i \in 1..n /\ lines'[i] = lines[i]
      BY <1>1, <1>6
    <2>2. CASE j = n + 1
      BY <1>1, <2>1, <2>2 DEF Structured, Chained
    <2>3. CASE j # n + 1
      <3>1. j \in 1..n /\ lines'[j] = lines[j]
        BY <1>1, <2>3
      <3> QED
        BY <1>6, <2>1, <3>1 DEF Structured, Chained
    <2> QED
      BY <2>2, <2>3
  <1>7. c = IF n + 1 = 0 THEN MarkLen ELSE lines'[n + 1].record_end
    BY <1>1
  <1> HIDE DEF n
  <1> QED
    BY <1>1, <1>2, <1>4, <1>5, <1>6, <1>7 DEF Chained, EndOf, Aligned

-----------------------------------------------------------------------------
(***************************************************************************)
(* Adding bytes to the text.                                               *)
(***************************************************************************)
(* What appending b may do to the lines.                                   *)
KeepsLines(b) ==
    /\ Content(b) /\ UNCHANGED <<lines, current_start>>
    /\ Closed /\ ~current_has_content => Closed' /\ ~current_has_content' /\ b = <<>>

CutsLine(b) ==
    /\ Content(b) /\ CommitLine(Position + Len(b), Position + Len(b))
    /\ \A i \in 1..Len(lines) : Terminated(i)
    /\ Closed' /\ current_start < Position + Len(b)

EndsLine(b) ==
    /\ b = LineEnding(encoding) /\ CommitLine(Position, Position + Len(b))
    /\ \A i \in 1..Len(lines) : Terminated(i)

Adding(b) ==
    /\ TextGrows(b) /\ index' = index /\ (index_torn => index_torn')
    /\ Aligned(Len(b)) /\ (b # <<>> => encoding # None)
    /\ b # <<>> /\ encoding = "bytes" => b[1] # "F"
    /\ KeepsLines(b) \/ CutsLine(b) \/ EndsLine(b)

LEMMA AddingFacts ==
    ASSUME Structured, Whole, writer = "open", NEW b \in Seq(Symbols), Adding(b)
    PROVE  /\ Position \in Nat /\ Len(b) \in Nat /\ Position' = Position + Len(b)
           /\ current_start \in Nat /\ current_start <= Position /\ Aligned(Position)
           /\ Len(LineEnding(encoding)) = Width /\ Width' = Width /\ Width \in Nat /\ Width > 0
           /\ encoding' = encoding /\ MarkLen' = MarkLen /\ Aligned(Position + Len(b))
           /\ \A p \in Nat : Aligned(p)' <=> Aligned(p)
  <1>1. TextGrows(b)
    BY DEF Adding
  <1>2. Position \in Nat /\ Len(b) \in Nat /\ Position' = Position + Len(b)
    BY <1>1, TextLonger DEF Structured
  <1>3. current_start \in Nat /\ current_start <= Position /\ Aligned(Position)
    BY LineFacts DEF Whole
  <1>4. Len(LineEnding(encoding)) = Width /\ Width \in Nat /\ Width > 0
    BY BomType DEF Width
  <1>5. encoding' = encoding
    BY <1>1 DEF TextGrows
  <1>6. Aligned(Position + Len(b))
    BY <1>2, <1>3, EvenSteps DEF Adding, Aligned
  <1> QED
    BY <1>2, <1>3, <1>4, <1>5, <1>6 DEF Width, MarkLen, Aligned

LEMMA AddingLines ==
    ASSUME Structured, Whole, writer = "open", NEW b \in Seq(Symbols), Adding(b)
    PROVE  LinesKept /\ Chained'
  <1>1. CASE KeepsLines(b)
    BY <1>1, AddingFacts, ChainedKept, PositionFacts DEF KeepsLines, LinesKept, Structured
  <1>2. CASE CutsLine(b)
    <2> DEFINE a == Position + Len(b)
    <2>1. CommitLine(a, a) /\ a \in Nat /\ current_start <= a /\ Aligned(a)
          /\ encoding' = encoding /\ a \in {a, a + Width}
      BY <1>2, AddingFacts DEF CutsLine
    <2> HIDE DEF a
    <2> QED
      BY <2>1, Committed, CommitChained
  <1>3. CASE EndsLine(b)
    <2> DEFINE a == Position
               c == Position + Len(b)
    <2>1. CommitLine(a, c) /\ a \in Nat /\ c \in Nat /\ current_start <= a /\ Aligned(a)
          /\ encoding' = encoding /\ c \in {a, a + Width}
      BY <1>3, AddingFacts DEF EndsLine
    <2> HIDE DEF a, c
    <2> QED
      BY <2>1, Committed, CommitChained
  <1> QED
    BY <1>1, <1>2, <1>3 DEF Adding

LEMMA AddingCut ==
    ASSUME Structured, Whole, writer = "open", WriterTypeOK', NEW b \in Seq(Symbols), Adding(b)
    PROVE  CutIsLast'
  <1>1. CASE KeepsLines(b)
    <2>1. b = <<>> => Position' <= Position
      <3>1. b = <<>> => Len(b) = 0
        OBVIOUS
      <3>2. b = <<>> => Position' = Position + 0 /\ Position \in Nat
        BY <3>1, AddingFacts
      <3> QED
        BY <3>2
    <2> QED
      BY <1>1, <2>1, AddingFacts, CutKept DEF KeepsLines
  <1>2. CASE CutsLine(b) \/ EndsLine(b)
    <2>1. PICK a \in {Position, Position + Len(b)} : CommitLine(a, Position + Len(b))
      BY <1>2 DEF CutsLine, EndsLine
    <2>2. a \in Nat /\ Position + Len(b) \in Nat
      BY <2>1, AddingFacts
    <2>3. /\ Len(lines') = Len(lines) + 1 /\ Len(lines) \in Nat /\ ~current_has_content'
          /\ \A i \in 1..Len(lines) : lines'[i] = lines[i]
          /\ lines'[Len(lines) + 1] = [start |-> current_start, content_end |-> a,
                                      record_end |-> Position + Len(b)]
          /\ current_start' = Position + Len(b)
      BY <2>1, <2>2, Committed, LineFacts DEF LinesKept
    <2> SUFFICES ASSUME NEW i \in 1..Len(lines')
                 PROVE  Terminated(i)' \/
                          /\ i = Len(lines') /\ Closed' /\ ~current_has_content'
                          /\ lines'[i].start < lines'[i].content_end
                          /\ Position' <= current_start'
      BY DEF CutIsLast
    <2>4. CASE i # Len(lines')
      <3>1. i \in 1..Len(lines) /\ lines'[i] = lines[i]
        BY <2>3, <2>4
      <3>2. Terminated(i)
        BY <1>2, <3>1 DEF CutsLine, EndsLine
      <3> QED
        BY <3>1, <3>2, AddingFacts DEF Terminated
    <2>5. CASE i = Len(lines')
      <3>1. lines'[i] = [start |-> current_start, content_end |-> a,
                         record_end |-> Position + Len(b)]
        BY <2>3, <2>5
      <3>2. /\ lines'[i].start = current_start /\ lines'[i].content_end = a
            /\ lines'[i].record_end = Position + Len(b)
        BY <3>1
      <3>3. CASE EndsLine(b)
        <4>1. CommitLine(Position, Position + Len(b)) /\ Len(b) = Width
          BY <3>3, AddingFacts DEF EndsLine
        <4>2. lines'[Len(lines) + 1] = [start |-> current_start, content_end |-> Position,
                                       record_end |-> Position + Len(b)]
          BY <2>2, <4>1, AddingFacts, Committed
        <4>3. lines'[i].content_end = Position
          BY <2>3, <2>5, <4>2
        <4> QED
          BY <3>2, <4>1, <4>3, AddingFacts DEF Terminated
      <3>4. CASE CutsLine(b)
        <4>1. lines'[Len(lines) + 1] = [start |-> current_start,
                content_end |-> Position + Len(b), record_end |-> Position + Len(b)]
          BY <2>2, <3>4, Committed DEF CutsLine
        <4>2. lines'[i].content_end = Position + Len(b)
          BY <2>3, <2>5, <4>1
        <4>3. Position' <= current_start'
          BY <2>2, <2>3, AddingFacts
        <4> QED
          BY <2>3, <2>5, <3>2, <3>4, <4>2, <4>3 DEF CutsLine
      <3> QED
        BY <1>2, <3>3, <3>4
    <2> QED
      BY <2>4, <2>5
  <1> QED
    BY <1>1, <1>2 DEF Adding

LEMMA AddingBreaks ==
    ASSUME Structured, Whole, writer = "open", WriterTypeOK', NEW b \in Seq(Symbols), Adding(b)
    PROVE  BreaksMatch'
  <1>1. /\ Position \in Nat /\ Len(b) \in Nat /\ Position' = Position + Len(b)
        /\ current_start \in Nat /\ current_start <= Position /\ Aligned(Position)
        /\ Width' = Width /\ Width \in Nat /\ Width > 0
        /\ \A p \in Nat : Aligned(p)' <=> Aligned(p)
    BY AddingFacts
  <1>2. TextGrows(b)
    BY DEF Adding
  <1>3. ASSUME NEW p \in Nat, Aligned(p)
        PROVE  /\ p < Position => (BreakAt(p)' <=> BreakAt(p)) /\ p + Width <= Position
               /\ p >= Position /\ Content(b) => ~BreakAt(p)'
               /\ p = Position /\ b = LineEnding(encoding) => BreakAt(p)'
    BY <1>1, <1>2, <1>3, GrownBreaks
  <1>4. ASSUME NEW i \in 1..Len(lines), NEW p \in Nat,
               Aligned(p), lines[i].start <= p, p < lines[i].content_end
        PROVE  ~BreakAt(p)'
    <2>0. lines[i].content_end \in Nat /\ lines[i].record_end \in Nat
      BY LineFacts
    <2>1. lines[i].content_end <= Position
      <3>1. /\ lines[i].record_end <= current_start
            /\ lines[i].record_end \in {lines[i].content_end, lines[i].content_end + Width}
        BY DEF Structured, Chained
      <3> QED
        BY <1>1, <2>0, <3>1
    <2>2. p < Position
      BY <1>1, <1>4, <2>0, <2>1
    <2>3. ~BreakAt(p)
      BY <1>4 DEF Structured, BreaksMatch
    <2> QED
      BY <1>3, <1>4, <2>2, <2>3
  <1>5. ASSUME NEW i \in 1..Len(lines), Terminated(i),
               NEW c \in Nat, c = lines[i].content_end
        PROVE  BreakAt(c)'
    <2>1. /\ lines[i].record_end <= current_start /\ lines[i].record_end = c + Width
          /\ lines[i].record_end \in Nat /\ Aligned(c)
      BY <1>5, LineFacts DEF Structured, Chained, Terminated
    <2>2. lines[i].record_end <= Position /\ c < Position
      BY <1>1, <1>5, <2>1
    <2>3. BreakAt(c)
      BY <1>5, <2>2 DEF Structured, BreaksMatch
    <2> QED
      BY <1>3, <1>5, <2>1, <2>2, <2>3
  <1>6. ASSUME NEW p \in Nat, Aligned(p), current_start <= p, p < Position
        PROVE  ~BreakAt(p)'
    <2>1. ~BreakAt(p)
      BY <1>6 DEF Structured, BreaksMatch
    <2> QED
      BY <1>3, <1>6, <2>1
  <1>7. ASSUME NEW p \in Nat, p >= Position'
        PROVE  ~BreakAt(p)'
    BY <1>1, <1>7 DEF BreakAt
  <1>8. CASE KeepsLines(b)
    <2>1. lines' = lines /\ current_start' = current_start /\ Content(b)
      BY <1>8 DEF KeepsLines
    <2>2. ASSUME NEW p \in Nat, Aligned(p), current_start <= p
          PROVE  ~BreakAt(p)'
      BY <1>1, <1>3, <1>6, <2>1, <2>2
    <2>3. \A i \in 1..Len(lines) : Terminated(i)' => BreakAt(lines[i].content_end)'
      <3> SUFFICES ASSUME NEW i \in 1..Len(lines), Terminated(i)'
                   PROVE  BreakAt(lines[i].content_end)'
        OBVIOUS
      <3>1. PICK c \in Nat : c = lines[i].content_end
        BY LineFacts
      <3>2. Terminated(i)
        BY <1>1, <2>1 DEF Terminated
      <3>3. BreakAt(c)'
        BY <1>5, <3>1, <3>2
      <3> QED
        BY <2>1, <3>1, <3>3 DEF BreakAt, At
    <2> QED
      BY <1>1, <1>4, <2>1, <2>2, <2>3 DEF BreaksMatch
  <1>9. CASE CutsLine(b) \/ EndsLine(b)
    <2>1. PICK a \in {Position, Position + Len(b)} :
              /\ CommitLine(a, Position + Len(b))
              /\ EndsLine(b) => a = Position
              /\ ~EndsLine(b) => a = Position + Len(b)
      <3>1. CASE EndsLine(b)
        BY <3>1 DEF EndsLine
      <3>2. CASE ~EndsLine(b)
        BY <1>9, <3>2 DEF CutsLine
      <3> QED
        BY <3>1, <3>2
    <2>2. a \in Nat /\ Position + Len(b) \in Nat
      BY <1>1, <2>1
    <2>3. /\ Len(lines') = Len(lines) + 1 /\ Len(lines) \in Nat
          /\ \A i \in 1..Len(lines) : lines'[i] = lines[i]
          /\ lines'[Len(lines) + 1] = [start |-> current_start, content_end |-> a,
                                      record_end |-> Position + Len(b)]
          /\ current_start' = Position'
      BY <1>1, <2>1, <2>2, Committed, LineFacts DEF LinesKept
    <2>4. ASSUME NEW p \in Nat, Aligned(p), current_start <= p, p < a
          PROVE  ~BreakAt(p)'
      <3>1. CASE EndsLine(b)
        BY <1>6, <2>1, <2>4, <3>1
      <3>2. CASE ~EndsLine(b)
        <4>1. Content(b)
          BY <1>9, <3>2 DEF CutsLine
        <4> QED
          BY <1>1, <1>3, <1>6, <2>4, <4>1
      <3> QED
        BY <3>1, <3>2
    <2>5. ASSUME NEW i \in 1..Len(lines')
          PROVE  /\ \A p \in Nat : Aligned(p)' /\ lines'[i].start <= p
                                     /\ p < lines'[i].content_end => ~BreakAt(p)'
                 /\ Terminated(i)' => \A c \in Nat : c = lines'[i].content_end => BreakAt(c)'
      <3>1. CASE i # Len(lines')
        <4>1. i \in 1..Len(lines) /\ lines'[i] = lines[i]
          BY <2>3, <3>1
        <4>2. Terminated(i)' => Terminated(i)
          BY <1>1, <4>1 DEF Terminated
        <4> QED
          BY <1>1, <1>4, <1>5, <4>1, <4>2
      <3>2. CASE i = Len(lines')
        <4>1. lines'[i] = [start |-> current_start, content_end |-> a,
                           record_end |-> Position + Len(b)]
          BY <2>3, <3>2
        <4>2. /\ lines'[i].start = current_start /\ lines'[i].content_end = a
              /\ lines'[i].record_end = Position + Len(b)
          BY <4>1
        <4>3. \A p \in Nat : Aligned(p)' /\ lines'[i].start <= p
                                     /\ p < lines'[i].content_end => ~BreakAt(p)'
          BY <1>1, <2>4, <4>2
        <4>4. ASSUME Terminated(i)', NEW c \in Nat, c = lines'[i].content_end
              PROVE  BreakAt(c)'
          <5>1. Position + Len(b) = a + Width
            BY <1>1, <4>2, <4>4 DEF Terminated
          <5>2. EndsLine(b)
            BY <1>1, <2>1, <5>1
          <5>3. c = Position /\ b = LineEnding(encoding)
            BY <2>1, <4>2, <4>4, <5>2 DEF EndsLine
          <5> QED
            BY <1>1, <1>3, <5>3
        <4> QED
          BY <4>3, <4>4
      <3> QED
        BY <3>1, <3>2
    <2>6. \A i \in 1..Len(lines') : Terminated(i)' => BreakAt(lines[i].content_end)'
      <3> SUFFICES ASSUME NEW i \in 1..Len(lines'), Terminated(i)'
                   PROVE  BreakAt(lines[i].content_end)'
        OBVIOUS
      <3>1. PICK c \in Nat : c = lines'[i].content_end
        <4>1. lines'[i] \in LineEntry
          BY DEF WriterTypeOK
        <4> QED
          BY <4>1 DEF LineEntry
      <3>2. BreakAt(c)'
        BY <2>5, <3>1
      <3> QED
        BY <3>1, <3>2 DEF BreakAt, At
    <2>7. ASSUME NEW p \in Nat, current_start' <= p PROVE ~BreakAt(p)'
      BY <1>7, <2>3, <2>7
    <2> QED
      BY <2>5, <2>6, <2>7 DEF BreaksMatch
  <1> QED
    BY <1>8, <1>9 DEF Adding

LEMMA AddingMarked ==
    ASSUME Structured, Whole, writer = "open", WriterTypeOK', NEW b \in Seq(Symbols), Adding(b)
    PROVE  Marked'
  <1>1. /\ Position \in Nat /\ Len(b) \in Nat /\ Position' = Position + Len(b)
        /\ encoding' = encoding /\ log' = log
        /\ current_start \in Nat /\ current_start <= Position
    BY AddingFacts DEF Adding, TextGrows
  <1>2. /\ \A p \in 1..Position : At(p)' = At(p)
        /\ \A p \in (Position + 1)..(Position + Len(b)) : At(p)' = b[p - Position]
    BY TextLonger DEF Structured, Adding
  <1>3. Len(b) > 0 => b # <<>>
    OBVIOUS
  <1>4. encoding = "wide" => Position >= 2
    <2>1. encoding = "wide" => MarkLen = 2 /\ MarkLen <= current_start
      BY EncodingFacts, LineFacts
    <2> QED
      BY <1>1, <2>1
  <1>5. CASE Position > 0
    <2>1. At(1)' = At(1) /\ (Position >= 2 => At(2)' = At(2))
      BY <1>1, <1>2, <1>5
    <2> QED
      BY <1>1, <1>5, <2>1 DEF Structured, Marked
  <1>6. CASE Position = 0
    <2>1. encoding # "wide"
      BY <1>4, <1>6
    <2>2. ASSUME Position' > 0 PROVE encoding = "bytes" /\ At(1)' # "F"
      <3>1. b # <<>> /\ 1 \in (Position + 1)..(Position + Len(b)) /\ 1 - Position = 1
        BY <1>1, <1>3, <1>6, <2>2
      <3>2. encoding = "bytes"
        <4>1. encoding # None /\ encoding \in Encodings \cup {None}
          BY <3>1 DEF Adding, Structured, WriterTypeOK
        <4> QED
          BY <2>1, <4>1 DEF Encoded
      <3>3. At(1)' = b[1]
        BY <1>2, <3>1
      <3> QED
        BY <3>1, <3>2, <3>3 DEF Adding
    <2>3. encoding = "bytes" => encoding # None
      BY DEF Encoded
    <2> QED
      BY <1>1, <2>1, <2>2, <2>3 DEF Marked
  <1> QED
    BY <1>1, <1>5, <1>6

LEMMA AddingStructured ==
    ASSUME Structured, Whole, writer = "open", WriterTypeOK', NEW b \in Seq(Symbols), Adding(b)
    PROVE  Structured'
  <1>1. IndexHolds' /\ Counted'
    <2>1. /\ index' = index /\ Len(log') >= Len(log) /\ (index_torn => index_torn')
      BY PositionFacts DEF Adding, TextGrows, Structured
    <2> QED
      BY <2>1, AddingLines, IndexKept
  <1> QED
    BY <1>1, AddingLines, AddingCut, AddingBreaks, AddingMarked DEF Structured

LEMMA AddingWhole ==
    ASSUME Structured, Whole, writer = "open", NEW b \in Seq(Symbols), Adding(b),
           KeepsLines(b) => current_has_content' = (current_has_content \/ b # <<>>)
    PROVE  Whole'
  <1>1. /\ Position \in Nat /\ Len(b) \in Nat /\ Position' = Position + Len(b)
        /\ current_start \in Nat /\ current_start <= Position
        /\ current_has_content <=> current_start < Position
        /\ Aligned(Position)'
    <2>1. Aligned(Position + Len(b)) /\ Position' = Position + Len(b) /\ encoding' = encoding
      BY AddingFacts
    <2>2. Aligned(Position)'
      BY <2>1 DEF Aligned
    <2> QED
      BY <2>2, AddingFacts DEF Whole
  <1>2. CASE KeepsLines(b)
    <2>1. b = <<>> <=> Len(b) = 0
      OBVIOUS
    <2>2. /\ current_start' = current_start
          /\ current_has_content' = (current_has_content \/ b # <<>>)
      BY <1>2 DEF KeepsLines
    <2>3. current_start < Position' <=> (current_start < Position \/ b # <<>>)
      BY <1>1, <2>1
    <2>4. current_start' <= Position' /\ (current_has_content' <=> current_start' < Position')
      <3>1. current_start' <= Position'
        BY <1>1, <2>2
      <3>2. current_has_content' <=> current_start < Position'
        BY <1>1, <2>2, <2>3
      <3> QED
        BY <2>2, <3>1, <3>2
    <2> QED
      BY <1>1, <2>4 DEF Whole
  <1>3. CASE CutsLine(b) \/ EndsLine(b)
    <2>1. current_start' = Position' /\ ~current_has_content'
      BY <1>1, <1>3 DEF CutsLine, EndsLine, CommitLine
    <2> QED
      BY <1>1, <2>1 DEF Whole
  <1> QED
    BY <1>2, <1>3 DEF Adding

-----------------------------------------------------------------------------
(***************************************************************************)
(* What the normalizer hands over.                                         *)
(***************************************************************************)
(* Content in the bytes encoding does not begin like a byte-order mark.    *)
NoFalseMark == "bytes" \in Encodings => \A c \in Chunks["bytes"] : c[1] # "F"

(* What the normalizer hands over belongs to the stream and its line.      *)
BytesFit ==
    event # None /\ event.kind = "Bytes" =>
        /\ encoding \in Encodings
        /\ \/ event.bytes \in Chunks[encoding]
           \/ encoding = "wide" /\ event.bytes = <<"x">> /\ source # "open"

EndFits ==
    event # None /\ event.kind = "LineEnd" =>
        /\ encoding \in Encodings /\ ~open_line
        /\ ~event.terminated =>
              source \in {"ended", "finishing"} /\ (current_has_content \/ quota_exceeded)

OpenLineHeld ==
    open_line =>
        /\ encoding \in Encodings
        /\ event # None => event.kind = "Bytes"
        /\ event = None => current_has_content \/ Closed

GoalAtFlush == goal # "none" => pc \in {"flush_log", "gone"}

Handed == BytesFit /\ EndFits /\ OpenLineHeld /\ GoalAtFlush

LEMMA AppendOpen ==
    ASSUME Ending, GoalAtFlush, pc = "append"
    PROVE  writer = "open" /\ event # None /\ event \in Events /\ (Closed <=> quota_exceeded)
  <1>1. event # None /\ event \in Events
    BY DEF Ending, Limited, Typed, EventAtHand, WriterTypeOK
  <1>2. writer = "open"
    BY DEF Ending, Limited, Typed, WriterTypeOK, Settled, DroppedIsIdle
  <1>3. goal = "none"
    BY DEF GoalAtFlush
  <1> QED
    BY <1>1, <1>2, <1>3 DEF Closed

LEMMA AcceptedIs ==
    ASSUME WriterTypeOK, NEW bytes \in Seq(Symbols)
    PROVE  \E m \in 0..Len(bytes) :
              /\ Accepted(bytes) = SubSeq(bytes, 1, m)
              /\ Aligned(m) /\ m <= Available
              /\ m < Len(bytes) => Available < m + UnitBytes(encoding) \/ ~Aligned(Len(bytes))
              /\ Available \in Nat
  <1> DEFINE n == IF Len(bytes) < Available THEN Len(bytes) ELSE Available
             m == n - (n % UnitBytes(encoding))
  <1>1. UnitBytes(encoding) \in {1, 2} /\ Reserve \in Nat
    BY BomType DEF Reserve
  <1>2. CombinedBytes \in Nat /\ Available \in Nat
    BY <1>1 DEF CombinedBytes, Position, Available, WriterTypeOK
  <1>3. n \in 0..Len(bytes) /\ n <= Available /\ (n < Len(bytes) => n = Available)
    BY <1>2
  <1>4. m \in 0..n /\ n < m + UnitBytes(encoding) /\ m % UnitBytes(encoding) = 0
    BY <1>1, <1>3
  <1>5. Accepted(bytes) = SubSeq(bytes, 1, m)
    BY DEF Accepted
  <1>6. Len(bytes) \in Nat
    OBVIOUS
  <1> HIDE DEF n
  <1>7. Aligned(m)
    BY <1>4 DEF Aligned, UnitBytes
  <1>8. n = Len(bytes) /\ Aligned(Len(bytes)) => m = n
    <2> SUFFICES ASSUME n = Len(bytes), Aligned(Len(bytes)) PROVE m = n
      OBVIOUS
    <2>1. CASE encoding = "wide"
      BY <1>3, <1>6, <2>1 DEF Aligned, UnitBytes
    <2>2. CASE encoding # "wide"
      BY <1>3, <1>6, <2>2 DEF UnitBytes
    <2> QED
      BY <2>1, <2>2
  <1> HIDE DEF m
  <1>9. m < Len(bytes) => Available < m + UnitBytes(encoding) \/ ~Aligned(Len(bytes))
    BY <1>1, <1>2, <1>3, <1>4, <1>6, <1>8
  <1>10. m \in 0..Len(bytes) /\ m <= Available
    BY <1>2, <1>3, <1>4, <1>6
  <1> QED
    BY <1>2, <1>5, <1>7, <1>9, <1>10

LEMMA ChunkContent ==
    ASSUME Structured, encoding \in Encodings, NEW c \in Chunks[encoding],
           NEW m \in 0..Len(c)
    PROVE  Content(SubSeq(c, 1, m)) /\ c \in Seq(Symbols) /\ Len(c) \in Nat /\ Len(c) > 0
           /\ Aligned(Len(c))
  <1>1. /\ c \in Seq(Symbols) /\ Len(c) \in Nat /\ Len(c) > 0
        /\ Len(c) % UnitBytes(encoding) = 0
    OBVIOUS
  <1>2. SubSeq(c, 1, m) \in Seq(Symbols) /\ Len(SubSeq(c, 1, m)) = m
        /\ \A i \in 1..m : SubSeq(c, 1, m)[i] = c[i]
    BY <1>1
  <1>3. Width \in {1, 2} /\ (encoding = "wide" => Width = 2) /\ (encoding # "wide" => Width = 1)
        /\ Width = UnitBytes(encoding)
    BY EncodingFacts DEF Width
  <1>4. ASSUME NEW p \in Nat, Aligned(p), p + Width <= m,
               c[p + 1] = "n", encoding = "wide" => c[p + 2] = "o"
        PROVE  FALSE
    <2>1. p \in 0..(Len(c) - 1) /\ p % Width = 0
      BY <1>1, <1>3, <1>4 DEF Aligned
    <2>2. SubSeq(c, p + 1, p + Width) # LineEnding(encoding)
      BY <1>3, <2>1, ContentAssumption
    <2>3. CASE encoding = "wide"
      <3>1. /\ Len(SubSeq(c, p + 1, p + 2)) = 2
            /\ SubSeq(c, p + 1, p + 2) \in Seq(Symbols)
            /\ SubSeq(c, p + 1, p + 2)[1] = c[p + 1]
            /\ SubSeq(c, p + 1, p + 2)[2] = c[p + 2]
        BY <1>1, <1>3, <1>4, <2>3
      <3>2. SubSeq(c, p + 1, p + 2) = <<"n", "o">>
        BY <1>4, <2>3, <3>1, ShortEqual
      <3> QED
        BY <1>3, <2>2, <2>3, <3>2 DEF LineEnding
    <2>4. CASE encoding # "wide"
      <3>1. /\ Len(SubSeq(c, p + 1, p + 1)) = 1
            /\ SubSeq(c, p + 1, p + 1) \in Seq(Symbols)
            /\ SubSeq(c, p + 1, p + 1)[1] = c[p + 1]
        BY <1>1, <1>3, <1>4, <2>4
      <3>2. SubSeq(c, p + 1, p + 1) = <<"n">>
        BY <1>4, <3>1, ShortEqual
      <3> QED
        BY <1>3, <2>2, <2>4, <3>2 DEF LineEnding
    <2> QED
      BY <2>3, <2>4
  <1>5. ASSUME NEW p \in Nat, Aligned(p), p + Width <= m
        PROVE  ~ (SubSeq(c, 1, m)[p + 1] = "n" /\
                    (encoding = "wide" => SubSeq(c, 1, m)[p + 2] = "o"))
    <2>1. p + 1 \in 1..m /\ (encoding = "wide" => p + 2 \in 1..m)
      BY <1>3, <1>5
    <2>2. /\ SubSeq(c, 1, m)[p + 1] = c[p + 1]
          /\ encoding = "wide" => SubSeq(c, 1, m)[p + 2] = c[p + 2]
      BY <1>2, <2>1
    <2> QED
      BY <1>4, <1>5, <2>2
  <1>6. Content(SubSeq(c, 1, m))
    BY <1>2, <1>5 DEF Content
  <1> QED
    BY <1>1, <1>3, <1>6 DEF Aligned

LEMMA EmptyContent ==
    ASSUME Structured
    PROVE  Content(<<>>) /\ <<>> \in Seq(Symbols) /\ Len(<<>>) = 0 /\ Aligned(0)
  BY EncodingFacts DEF Content, Aligned

(* What is written of a chunk is content.                                  *)
LEMMA WrittenContent ==
    ASSUME Ending, Structured, Handed, NoFalseMark, event # None, event.kind = "Bytes",
           NEW b, b = Written(event)
    PROVE  /\ b \in Seq(Symbols) /\ Content(b) /\ Aligned(Len(b))
           /\ encoding \in Encodings
           /\ b # <<>> /\ encoding = "bytes" => b[1] # "F"
           /\ event.bytes # <<>>
           /\ quota_exceeded => b = <<>>
  <1>1. /\ encoding \in Encodings
        /\ \/ event.bytes \in Chunks[encoding]
           \/ encoding = "wide" /\ event.bytes = <<"x">>
    BY DEF Handed, BytesFit
  <1>2. WriterTypeOK
    BY DEF Structured
  <1>3. b = IF quota_exceeded THEN <<>> ELSE Accepted(event.bytes)
    BY DEF Written
  <1>4. <<"x">> \in Seq(Symbols) /\ Len(<<"x">>) = 1 /\ <<"x">> # <<>>
    BY DEF Symbols
  <1>5. event.bytes \in Seq(Symbols) /\ event.bytes # <<>>
    <2>1. CASE event.bytes \in Chunks[encoding]
      <3>1. Len(event.bytes) \in 1..(FlushBytes - 1) /\ event.bytes \in Seq(Symbols)
        BY <1>1, <2>1
      <3> QED
        BY <3>1
    <2>2. CASE event.bytes = <<"x">>
      BY <1>4, <2>2
    <2> QED
      BY <1>1, <2>1, <2>2
  <1>6. CASE b = <<>>
    BY <1>1, <1>5, <1>6, EmptyContent
  <1>7. CASE b # <<>>
    <2>1. PICK m \in 0..Len(event.bytes) :
              Accepted(event.bytes) = SubSeq(event.bytes, 1, m) /\ Aligned(m)
      BY <1>2, <1>5, AcceptedIs
    <2>2. b = SubSeq(event.bytes, 1, m) /\ ~quota_exceeded
      BY <1>3, <1>7, <2>1
    <2>3. m # 0
      BY <1>5, <1>7, <2>2
    <2>4. event.bytes \in Chunks[encoding]
      <3> SUFFICES ASSUME encoding = "wide", event.bytes = <<"x">> PROVE FALSE
        BY <1>1
      <3>1. m = 0 \/ m = 1
        BY <1>4, <2>1
      <3> QED
        BY <2>1, <2>3, <3>1 DEF Aligned
    <2>5. /\ b \in Seq(Symbols) /\ Len(b) = m /\ b[1] = event.bytes[1]
      BY <1>5, <2>1, <2>2, <2>3
    <2>6. Content(b)
      BY <1>1, <2>1, <2>2, <2>4, ChunkContent
    <2>7. encoding = "bytes" => b[1] # "F"
      BY <1>1, <2>4, <2>5 DEF NoFalseMark
    <2> QED
      BY <1>1, <1>5, <2>1, <2>2, <2>5, <2>6, <2>7
  <1> QED
    BY <1>6, <1>7

LEMMA AppendBytesAdding ==
    ASSUME Ending, Structured, Whole, Handed, NoFalseMark, AppendBytes,
           NEW b, b = Written(event)
    PROVE  /\ b \in Seq(Symbols) /\ Adding(b) /\ writer = "open"
           /\ KeepsLines(b) => current_has_content' = (current_has_content \/ b # <<>>)
  <1>1. /\ pc = "append" /\ event.kind = "Bytes"
        /\ buffer' = buffer \o b /\ encoding' = encoding
        /\ quota_exceeded' = (quota_exceeded \/ b # event.bytes)
    BY DEF AppendBytes, WriteBuffered
  <1>2. writer = "open" /\ event # None /\ (Closed <=> quota_exceeded)
    BY <1>1, AppendOpen DEF Handed
  <1>3. /\ b \in Seq(Symbols) /\ Content(b) /\ Aligned(Len(b)) /\ encoding \in Encodings
        /\ b # <<>> /\ encoding = "bytes" => b[1] # "F"
        /\ quota_exceeded => b = <<>>
    BY <1>1, <1>2, WrittenContent
  <1>4. log' = log /\ index' = index /\ index_torn' = index_torn
    BY DEF AppendBytes, AfterAppend, files, history
  <1>5. TextGrows(b)
    BY <1>1, <1>4 DEF TextGrows
  <1>6. encoding # None
    BY <1>3
  <1>7. /\ current_start \in Nat /\ Position \in Nat /\ Len(b) \in Nat
        /\ current_start <= Position
        /\ current_has_content <=> current_start < Position
        /\ b # <<>> => Len(b) > 0
    BY <1>2, <1>3, PositionFacts DEF Structured, Whole
  <1> DEFINE content == current_has_content \/ b # <<>>
             end == Position + Len(b)
  <1>8. CASE quota_exceeded' /\ ~quota_exceeded /\ content
    <2>1. CommitLine(end, end)
      BY <1>1, <1>8 DEF AppendBytes
    <2>2. \A i \in 1..Len(lines) : Terminated(i)
      BY <1>2, <1>8 DEF Structured, CutIsLast
    <2>3. current_start < end
      BY <1>7, <1>8
    <2>4. Closed'
      BY <1>8 DEF Closed
    <2>5. CutsLine(b)
      BY <1>3, <2>1, <2>2, <2>3, <2>4 DEF CutsLine
    <2>6. Adding(b)
      BY <1>3, <1>4, <1>5, <1>6, <2>5 DEF Adding
    <2>7. ~KeepsLines(b)
      <3>1. current_start' = end
        BY <2>1 DEF CommitLine
      <3> QED
        BY <1>7, <2>3, <3>1 DEF KeepsLines
    <2> QED
      BY <1>2, <1>3, <2>6, <2>7
  <1>9. CASE ~(quota_exceeded' /\ ~quota_exceeded /\ content)
    <2>1. current_has_content' = content /\ UNCHANGED <<lines, current_start>>
      BY <1>1, <1>9 DEF AppendBytes
    <2>2. Closed /\ ~current_has_content => Closed' /\ ~current_has_content' /\ b = <<>>
      <3> SUFFICES ASSUME Closed, ~current_has_content
                   PROVE  Closed' /\ ~current_has_content' /\ b = <<>>
        OBVIOUS
      <3>1. quota_exceeded /\ b = <<>>
        BY <1>2, <1>3
      <3>2. quota_exceeded'
        BY <1>1, <3>1
      <3>3. ~current_has_content'
        BY <2>1, <3>1
      <3> QED
        BY <3>1, <3>2, <3>3 DEF Closed
    <2>3. KeepsLines(b)
      BY <1>3, <2>1, <2>2 DEF KeepsLines
    <2> QED
      BY <1>2, <1>3, <1>4, <1>5, <1>6, <2>1, <2>3 DEF Adding
  <1> QED
    BY <1>8, <1>9

LEMMA AppendLineEndAdding ==
    ASSUME Ending, Structured, Whole, Handed, AppendLineEnd, NEW b, b = Written(event)
    PROVE  /\ b \in Seq(Symbols) /\ Adding(b) /\ writer = "open"
           /\ KeepsLines(b) => current_has_content' = (current_has_content \/ b # <<>>)
  <1> DEFINE fits == ~quota_exceeded /\ LineFits(event.terminated)
  <1>1. /\ pc = "append" /\ event.kind = "LineEnd"
        /\ buffer' = buffer \o b /\ encoding' = encoding
        /\ quota_exceeded' = ~fits
        /\ IF fits \/ current_has_content
           THEN CommitLine(Position, Position + Len(b)) ELSE KeepLine
        /\ event' = None /\ source' = source
    BY DEF AppendLineEnd, WriteBuffered, AfterAppend
  <1>2. writer = "open" /\ event # None /\ event \in Events /\ (Closed <=> quota_exceeded)
    BY <1>1, AppendOpen DEF Handed
  <1>3. /\ encoding \in Encodings /\ encoding # None
        /\ ~event.terminated =>
              source \in {"ended", "finishing"} /\ (current_has_content \/ quota_exceeded)
        /\ event.terminated \in BOOLEAN
    BY <1>1, <1>2 DEF Handed, EndFits, Events
  <1>4. b = IF ~quota_exceeded /\ event.terminated /\ LineFits(TRUE)
            THEN LineEnding(encoding) ELSE <<>>
    BY <1>1 DEF Written
  <1>5. log' = log /\ index' = index /\ index_torn' = index_torn
    BY DEF AppendLineEnd, AfterAppend, files, history
  <1>6. TextGrows(b)
    BY <1>1, <1>5 DEF TextGrows
  <1>7. /\ current_start \in Nat /\ Position \in Nat
        /\ current_start <= Position
        /\ current_has_content <=> current_start < Position
    BY <1>2, PositionFacts DEF Structured, Whole
  <1>8. current_has_content \/ ~quota_exceeded => \A i \in 1..Len(lines) : Terminated(i)
    BY <1>2 DEF Structured, CutIsLast
  <1>9. CASE fits /\ event.terminated
    <2>1. LineFits(TRUE)
      BY <1>3, <1>9
    <2>2. b = LineEnding(encoding) /\ CommitLine(Position, Position + Len(b))
      BY <1>1, <1>4, <1>9, <2>1
    <2>3. EndsLine(b)
      BY <1>8, <1>9, <2>2 DEF EndsLine
    <2>4. /\ b \in Seq(Symbols) /\ Len(b) = UnitBytes(encoding) /\ UnitBytes(encoding) \in {1, 2}
          /\ encoding = "wide" => UnitBytes(encoding) = 2
          /\ encoding = "bytes" => b[1] = "n"
      BY <2>2, BomType DEF LineEnding, UnitBytes
    <2>5. Aligned(Len(b))
      BY <2>4 DEF Aligned
    <2>6. Adding(b)
      BY <1>3, <1>5, <1>6, <2>3, <2>4, <2>5 DEF Adding
    <2>7. ~KeepsLines(b)
      <3>1. current_start' = Position + Len(b)
        BY <2>2 DEF CommitLine
      <3> QED
        BY <1>7, <2>4, <3>1 DEF KeepsLines
    <2> QED
      BY <1>2, <2>4, <2>6, <2>7
  <1>10. CASE ~(fits /\ event.terminated)
    <2>1. b = <<>>
      <3>1. event.terminated /\ LineFits(TRUE) => LineFits(event.terminated)
        BY <1>3
      <3> QED
        BY <1>4, <1>10, <3>1
    <2>2. Content(b) /\ b \in Seq(Symbols) /\ Len(b) = 0 /\ Aligned(Len(b))
      BY <2>1, EmptyContent
    <2>3. Closed'
      <3>1. CASE ~fits
        BY <1>1, <3>1 DEF Closed
      <3>2. CASE fits
        BY <1>1, <1>3, <1>10, <3>2 DEF Closed
      <3> QED
        BY <3>1, <3>2
    <2>4. CASE fits \/ current_has_content
      <3>1. current_has_content
        BY <1>3, <1>10, <2>4
      <3>2. Position + Len(b) = Position
        BY <1>7, <2>2
      <3>3. CommitLine(Position + Len(b), Position + Len(b))
        BY <1>1, <2>4, <3>2
      <3>4. CutsLine(b)
        BY <1>7, <1>8, <2>2, <2>3, <3>1, <3>2, <3>3 DEF CutsLine
      <3>5. ~KeepsLines(b)
        <4>1. current_start' = Position
          BY <3>2, <3>3 DEF CommitLine
        <4> QED
          BY <1>7, <3>1, <4>1 DEF KeepsLines
      <3> QED
        BY <1>2, <1>3, <1>5, <1>6, <2>1, <2>2, <3>4, <3>5 DEF Adding
    <2>5. CASE ~(fits \/ current_has_content)
      <3>1. KeepLine
        BY <1>1, <2>5
      <3>2. KeepsLines(b)
        BY <2>1, <2>2, <2>3, <2>5, <3>1 DEF KeepsLines, KeepLine
      <3>3. current_has_content' = (current_has_content \/ b # <<>>)
        <4>1. current_has_content \in BOOLEAN
          BY DEF Structured, WriterTypeOK
        <4> QED
          BY <2>1, <3>1, <4>1 DEF KeepLine
      <3> QED
        BY <1>2, <1>3, <1>5, <1>6, <2>1, <2>2, <3>2, <3>3 DEF Adding
    <2> QED
      BY <2>4, <2>5
  <1> QED
    BY <1>9, <1>10

-----------------------------------------------------------------------------
(***************************************************************************)
(* Sealing and starting.                                                   *)
(***************************************************************************)
LEMMA SealAdding ==
    ASSUME Ending, Structured, Whole, writer = "open", Finish \/ CaptureFails \/ WriteFails
    PROVE  /\ Adding(<<>>) /\ Closed'
           /\ KeepsLines(<<>>) => current_has_content' = (current_has_content \/ <<>> # <<>>)
  <1>1. /\ UNCHANGED <<log, buffer, index, encoding>> /\ (index_torn => index_torn')
        /\ \/ CommitLine(Position, Position) /\ current_has_content
           \/ KeepLine
    <2>1. UNCHANGED <<log, buffer, index, encoding>> /\ (index_torn => index_torn')
      <3>1. Finish => UNCHANGED <<log, buffer, index, encoding, index_torn>>
        BY DEF Finish, files, history
      <3>2. CaptureFails => UNCHANGED <<log, buffer, index, encoding, index_torn>>
        BY DEF CaptureFails, files
      <3>3. WriteFails => UNCHANGED <<log, buffer, index, encoding>> /\ (index_torn => index_torn')
        <4>1. WriteFails => UNCHANGED <<log, buffer, index, encoding>>
          BY DEF WriteFails, files
        <4>2. WriteFails => (index_torn => index_torn')
          BY Zenon DEF WriteFails
        <4> QED
          BY <4>1, <4>2
      <3> QED
        BY <3>1, <3>2, <3>3
    <2>2. (\E why : Seal(why)) \/ KeepLine
      BY DEF Finish, CaptureFails, WriteFails
    <2> QED
      BY <2>1, <2>2 DEF Seal
  <1>2. Closed'
    BY DEF Finish, CaptureFails, WriteFails, Seal, Closed
  <1>3. Content(<<>>) /\ <<>> \in Seq(Symbols) /\ Len(<<>>) = 0 /\ Aligned(0)
    BY EmptyContent
  <1>4. TextGrows(<<>>)
    <2>1. buffer \o <<>> = buffer
      BY DEF Structured, WriterTypeOK
    <2> QED
      BY <1>1, <2>1 DEF TextGrows
  <1>5. /\ current_start \in Nat /\ Position \in Nat /\ current_has_content \in BOOLEAN
        /\ current_has_content <=> current_start < Position
    BY PositionFacts DEF Structured, Whole, WriterTypeOK
  <1>6. CASE KeepLine
    <2>1. KeepsLines(<<>>)
      BY <1>2, <1>3, <1>6 DEF KeepsLines, KeepLine
    <2>2. current_has_content' = (current_has_content \/ <<>> # <<>>)
      BY <1>5, <1>6 DEF KeepLine
    <2> QED
      BY <1>1, <1>2, <1>3, <1>4, <2>1, <2>2 DEF Adding
  <1>7. CASE CommitLine(Position, Position) /\ current_has_content
    <2>1. Position + Len(<<>>) = Position
      BY <1>3, <1>5
    <2>2. \A i \in 1..Len(lines) : Terminated(i)
      BY <1>7 DEF Structured, CutIsLast
    <2>3. CutsLine(<<>>)
      BY <1>2, <1>3, <1>5, <1>7, <2>1, <2>2 DEF CutsLine
    <2>4. ~KeepsLines(<<>>)
      BY <1>5, <1>7 DEF KeepsLines, CommitLine
    <2> QED
      BY <1>1, <1>2, <1>3, <1>4, <2>3, <2>4 DEF Adding
  <1> QED
    BY <1>1, <1>6, <1>7

LEMMA StartStructured ==
    ASSUME Ending, WriterTypeOK', AppendStart
    PROVE  Structured' /\ Whole' /\ encoding' \in Encodings /\ ~current_has_content'
  <1> DEFINE e == event.encoding
             bom == StreamBom(e)
  <1>1. /\ pc = "append" /\ event.kind = "Start" /\ event # None /\ event \in Events
        /\ buffer' = buffer \o Written(event) /\ encoding' = e
        /\ current_start' = Position + Len(Written(event))
        /\ UNCHANGED <<lines, current_has_content, log, index>>
    BY DEF AppendStart, WriteBuffered, AfterAppend, files, Ending, Limited, Typed,
       EventAtHand, WriterTypeOK
  <1>2. e \in Encodings
    BY <1>1 DEF Events
  <1>3. /\ log = <<>> /\ buffer = <<>> /\ lines = <<>> /\ index = <<>> /\ ~current_has_content
    BY <1>1 DEF Ending, Limited, StartFirst, BeforeStart
  <1>4. Len(<<>>) = 0
    OBVIOUS
  <1>5. Position = 0 /\ CombinedBytes = 1
    BY <1>3, <1>4 DEF Position, CombinedBytes
  <1>6. bom \in Seq(Symbols) /\ Len(bom) = (IF e = "wide" THEN 2 ELSE 0)
    BY BomType
  <1>7. Written(event) = bom
    BY <1>1, <1>5, <1>6 DEF Written
  <1>8. bom = <<"F", "E">> \/ e # "wide"
    BY DEF StreamBom
  <1> HIDE DEF bom, e
  <1>9. buffer' = bom /\ log' = <<>> /\ lines' = <<>> /\ index' = <<>> /\ encoding' = e
    BY <1>1, <1>3, <1>6, <1>7
  <1>10. current_start' = Len(bom) /\ Position' = Len(bom) /\ ~current_has_content'
    BY <1>1, <1>3, <1>4, <1>5, <1>6, <1>7, <1>9 DEF Position
  <1>11. MarkLen' = Len(bom)
    BY <1>9 DEF MarkLen, bom, e
  <1>12. Width' \in {1, 2}
    BY BomType DEF Width, UnitBytes
  <1>13. Chained' /\ CutIsLast' /\ IndexHolds' /\ Counted'
    BY <1>4, <1>9, <1>10, <1>11 DEF Chained, EndOf, CutIsLast, IndexHolds, Counted
  <1>14. BreaksMatch'
    <2>1. ASSUME NEW p \in Nat, current_start' <= p PROVE ~BreakAt(p)'
      <3>1. Len(bom) \in Nat /\ Len(bom) <= p
        BY <1>6, <1>10, <2>1
      <3>2. ~ (p + Width' <= Position')
        BY <1>10, <1>12, <3>1
      <3> QED
        BY <3>2 DEF BreakAt
    <2> QED
      BY <1>4, <1>9, <2>1 DEF BreaksMatch
  <1>15. Marked'
    <2>1. CASE e = "wide"
      <3>1. Len(bom) = 2 /\ bom[1] = "F" /\ bom[2] = "E"
        BY <1>6, <1>8, <2>1
      <3>2. At(1)' = "F" /\ At(2)' = "E"
        BY <1>4, <1>9, <3>1 DEF At
      <3> QED
        BY <1>2, <1>9, <1>10, <2>1, <3>1, <3>2 DEF Marked
    <2>2. CASE e # "wide"
      BY <1>6, <1>9, <1>10, <2>2 DEF Marked
    <2> QED
      BY <2>1, <2>2
  <1>16. Whole'
    <2>1. Aligned(Position)'
      BY <1>6, <1>9, <1>10 DEF Aligned
    <2> QED
      BY <1>6, <1>10, <2>1 DEF Whole
  <1> QED
    BY <1>2, <1>9, <1>10, <1>13, <1>14, <1>15, <1>16 DEF Structured

LEMMA NumberAt ==
    ASSUME WriterTypeOK, NEW k \in (durable_lines + 1)..Len(lines), NEW f \in 1..3
    PROVE  /\ 3 * (k - durable_lines - 1) + f \in 1..PendingNumbers
           /\ Number(3 * (k - durable_lines - 1) + f) =
                <<lines[k].start, lines[k].content_end, lines[k].record_end>>[f]
  <1> DEFINE x == 3 * (k - durable_lines - 1) + f
  <1>1. durable_lines \in Nat /\ Len(lines) \in Nat /\ k \in Nat /\ k - durable_lines - 1 \in Nat
    BY DEF WriterTypeOK
  <1>2. \A n \in Nat : (3 * n + f - 1) \div 3 = n /\ (3 * n + f - 1) % 3 = f - 1
    OBVIOUS
  <1>3. (x - 1) \div 3 = k - durable_lines - 1 /\ (x - 1) % 3 = f - 1
    BY <1>1, <1>2
  <1>4. durable_lines + 1 + (k - durable_lines - 1) = k /\ 1 + (f - 1) = f
    BY <1>1
  <1>5. x \in 1..PendingNumbers
    BY <1>1 DEF PendingNumbers
  <1> HIDE DEF x
  <1>6. Number(x) = <<lines[k].start, lines[k].content_end, lines[k].record_end>>[f]
    BY <1>3, <1>4 DEF Number
  <1> QED
    BY <1>5, <1>6 DEF x

-----------------------------------------------------------------------------
(***************************************************************************)
(* Writing the index.                                                      *)
(***************************************************************************)
(* Where a number of a line lies in the index.                             *)
LEMMA IndexPlace ==
    ASSUME NEW d \in Nat, NEW n \in Nat, n > 0, NEW f \in 1..3, NEW w \in Nat, NEW k \in Nat, w <= k,
           3 * (n - 1) + f > 3 * d + w, 3 * (n - 1) + f <= 3 * d + k
    PROVE  /\ n >= d + 1
           /\ 3 * (n - 1) + f - (3 * d + w) \in 1..(k - w)
           /\ w + (3 * (n - 1) + f - (3 * d + w)) = 3 * (n - d - 1) + f
  OBVIOUS

LEMMA FlushedNumber ==
    ASSUME WriterTypeOK, FlushIndex, Len(index) = 3 * durable_lines + index_written,
           NEW n \in 1..Len(lines), NEW f \in 1..3, 3 * (n - 1) + f <= Len(index')
    PROVE  \/ 3 * (n - 1) + f <= Len(index) /\ index'[3 * (n - 1) + f] = index[3 * (n - 1) + f]
           \/ index'[3 * (n - 1) + f] =
                <<lines[n].start, lines[n].content_end, lines[n].record_end>>[f]
  <1> DEFINE x == 3 * (n - 1) + f
  <1>1. PICK k \in (index_written + 1)..PendingNumbers :
            index' = index \o [i \in 1..(k - index_written) |-> Number(index_written + i)]
    BY DEF FlushIndex
  <1>2. /\ index_written \in Nat /\ PendingNumbers \in Nat /\ k \in Nat /\ index_written <= k
        /\ k - index_written \in Nat /\ durable_lines \in Nat /\ Len(index) \in Nat
        /\ n \in Nat /\ n > 0 /\ Len(lines) \in Nat
    <2>1. durable_lines \in 0..Len(lines) /\ Len(lines) \in Nat /\ index_written \in Nat
          /\ Len(index) \in Nat
      BY DEF WriterTypeOK
    <2>2. PendingNumbers \in Nat
      BY <2>1 DEF PendingNumbers
    <2> QED
      BY <1>1, <2>1, <2>2
  <1> DEFINE new == [i \in 1..(k - index_written) |-> Number(index_written + i)]
  <1>3. \A i \in 1..(k - index_written) : Number(index_written + i) \in Nat
    BY <1>2, NumberType
  <1>4. /\ new \in Seq(Nat) /\ Len(new) = k - index_written
        /\ \A i \in 1..(k - index_written) : new[i] = Number(index_written + i)
    BY <1>2, <1>3
  <1>5. index \in Seq(Nat) /\ index' = index \o new
    BY <1>1 DEF WriterTypeOK
  <1> HIDE DEF new
  <1>6. /\ Len(index') = Len(index) + (k - index_written)
        /\ \A i \in 1..Len(index) : index'[i] = index[i]
        /\ \A i \in 1..Len(new) : index'[Len(index) + i] = new[i]
    <2>1. /\ Len(index') = Len(index) + Len(new)
          /\ \A i \in 1..(Len(index) + Len(new)) :
                index'[i] = IF i <= Len(index) THEN index[i] ELSE new[i - Len(index)]
      <3>1. new \in Seq(Nat) /\ index \in Seq(Nat)
        BY <1>4, <1>5
      <3>2. /\ Len(index \o new) = Len(index) + Len(new)
            /\ \A i \in 1..(Len(index) + Len(new)) :
                  (index \o new)[i] = IF i <= Len(index) THEN index[i] ELSE new[i - Len(index)]
        BY <3>1, ConcatProperties, ZenonT(30)
      <3> QED
        BY <1>5, <3>2
    <2>2. ASSUME NEW i \in 1..Len(index) PROVE index'[i] = index[i]
      <3>1. i \in 1..(Len(index) + Len(new)) /\ i <= Len(index)
        BY <1>2, <1>4
      <3> QED
        BY <2>1, <3>1
    <2>3. ASSUME NEW i \in 1..Len(new) PROVE index'[Len(index) + i] = new[i]
      <3>1. /\ Len(index) + i \in 1..(Len(index) + Len(new)) /\ ~ (Len(index) + i <= Len(index))
            /\ (Len(index) + i) - Len(index) = i
        BY <1>2, <1>4
      <3> QED
        BY <2>1, <3>1
    <2> QED
      BY <1>2, <1>4, <2>1, <2>2, <2>3
  <1>7. x \in Nat /\ x > 0
    BY <1>2
  <1>8. CASE x <= Len(index)
    BY <1>2, <1>6, <1>7, <1>8
  <1>9. CASE x > Len(index)
    <2> DEFINE i == x - (3 * durable_lines + index_written)
    <2>1. /\ n >= durable_lines + 1 /\ i \in 1..(k - index_written)
          /\ index_written + i = 3 * (n - durable_lines - 1) + f
      BY <1>2, <1>6, <1>9, IndexPlace
    <2>2. n \in (durable_lines + 1)..Len(lines)
      BY <1>2, <2>1
    <2>3. Number(3 * (n - durable_lines - 1) + f) =
            <<lines[n].start, lines[n].content_end, lines[n].record_end>>[f]
      BY <2>2, NumberAt
    <2>4. Len(index) + i = x /\ i \in 1..Len(new)
      BY <1>2, <1>4, <1>7, <2>1
    <2> HIDE DEF i, x
    <2>5. index'[x] = Number(index_written + i)
      BY <1>4, <1>6, <2>1, <2>4
    <2>6. index'[x] = <<lines[n].start, lines[n].content_end, lines[n].record_end>>[f]
      BY <2>1, <2>3, <2>5
    <2> QED
      BY <2>6 DEF x
  <1> QED
    BY <1>2, <1>7, <1>8, <1>9

LEMMA FlushIndexStructured ==
    ASSUME Ending, Limited', Structured, Whole, FlushIndex
    PROVE  Structured'
  <1>1. UNCHANGED <<log, buffer, lines, durable_lines, current_start, current_has_content,
                    encoding, quota_exceeded, stream, pc, goal, writer, history>>
        /\ buffer = <<>> /\ pc = "flush_log"
    BY DEF FlushIndex
  <1>2. WriterTypeOK /\ WriterTypeOK'
    BY DEF Structured, Limited, Typed
  <1>3. writer = "open"
    BY <1>1, <1>2 DEF Ending, Settled, DroppedIsIdle, WriterTypeOK
  <1>4. Position = Len(log) /\ current_start <= Len(log) /\ Len(log) \in Nat
    <2>1. Len(buffer) = 0
      BY <1>1
    <2> QED
      BY <1>2, <1>3, <2>1, PositionFacts DEF Whole
  <1>5. Counted'
    <2> SUFFICES ASSUME ~index_torn' PROVE Len(index') <= 3 * Len(lines')
      BY DEF Counted
    <2>1. Len(index') = 3 * durable_lines' + index_written'
      BY DEF Limited, IndexIsCounted
    <2>2. durable_lines' \in 0..Len(lines') /\ Len(lines') \in Nat
          /\ index_written' \in 0..(3 * (Len(lines') - durable_lines'))
      BY <1>2 DEF WriterTypeOK, PendingNumbers
    <2> QED
      BY <2>1, <2>2
  <1>6. IndexHolds'
    <2> SUFFICES ASSUME ~index_torn', NEW k \in 1..Len(lines')
                 PROVE  /\ 3 * k - 2 <= Len(index') =>
                              index'[3 * k - 2] = lines'[k].start /\ lines'[k].record_end <= Len(log')
                        /\ 3 * k - 1 <= Len(index') => index'[3 * k - 1] = lines'[k].content_end
                        /\ 3 * k <= Len(index') => index'[3 * k] = lines'[k].record_end
      BY DEF IndexHolds
    <2>1. ~index_torn /\ lines' = lines /\ log' = log /\ k \in 1..Len(lines) /\ k \in Nat
      BY <1>1 DEF history
    <2>2. Len(index) = 3 * durable_lines + index_written
      BY <2>1 DEF Ending, Limited, IndexIsCounted
    <2>3. /\ 3 * k - 2 <= Len(index) => index[3 * k - 2] = lines[k].start
          /\ 3 * k - 1 <= Len(index) => index[3 * k - 1] = lines[k].content_end
          /\ 3 * k <= Len(index) => index[3 * k] = lines[k].record_end
      BY <2>1 DEF Structured, IndexHolds
    <2>4. lines[k].record_end <= Len(log)
      <3>1. lines[k].record_end <= current_start /\ lines[k].record_end \in Nat
        BY <2>1, LineFacts DEF Structured, Chained
      <3> QED
        BY <1>2, <1>4, <3>1, PositionFacts
    <2>5. 3 * (k - 1) + 1 = 3 * k - 2 /\ 3 * (k - 1) + 2 = 3 * k - 1 /\ 3 * (k - 1) + 3 = 3 * k
      BY <2>1
    <2>6. ASSUME NEW f \in 1..3, 3 * (k - 1) + f <= Len(index')
          PROVE  \/ 3 * (k - 1) + f <= Len(index)
                    /\ index'[3 * (k - 1) + f] = index[3 * (k - 1) + f]
                 \/ index'[3 * (k - 1) + f] =
                      <<lines[k].start, lines[k].content_end, lines[k].record_end>>[f]
      BY <1>2, <2>1, <2>2, <2>6, FlushedNumber
    <2>7. 1 \in 1..3 /\ 2 \in 1..3 /\ 3 \in 1..3
      OBVIOUS
    <2>8. 3 * k - 2 <= Len(index') => index'[3 * k - 2] = lines[k].start
      BY <2>3, <2>5, <2>6, <2>7
    <2>9. 3 * k - 1 <= Len(index') => index'[3 * k - 1] = lines[k].content_end
      BY <2>3, <2>5, <2>6, <2>7
    <2>10. 3 * k <= Len(index') => index'[3 * k] = lines[k].record_end
      BY <2>3, <2>5, <2>6, <2>7
    <2> QED
      BY <2>1, <2>4, <2>8, <2>9, <2>10
  <1>7. TextKept /\ Closed' = Closed
    <2>1. Position' = Position /\ Position \in Nat
      BY <1>1, <1>2, PositionFacts DEF Position
    <2>2. Closed' = Closed
      BY <1>1 DEF Closed, stream
    <2>3. \A p \in 1..Position' : At(p)' = At(p)
      BY <1>1 DEF At
    <2> QED
      BY <2>1, <2>2, <2>3 DEF TextKept
  <1>8. encoding = "wide" => /\ Position' > 0 => Position' >= 2
                             /\ log' # <<>> => Len(log') >= 2
    BY <1>1 DEF Structured, Marked, Position
  <1> QED
    BY <1>1, <1>2, <1>5, <1>6, <1>7, <1>8, StructuredKept

-----------------------------------------------------------------------------
(***************************************************************************)
(* Every step keeps the structure.                                         *)
(***************************************************************************)
(* Once no event adds anything to the log, none ever will.                 *)
LEMMA ClosedStays ==
    ASSUME Ending, GoalAtFlush, Closed, Work \/ Input \/ Failure
    PROVE  Closed'
  <1>1. CASE Spill \/ FlushLog \/ FlushIndex \/ FlushIfIdle \/ RecordTruncation \/ RecordExit
    <2>1. UNCHANGED <<quota_exceeded, source, event, writer>>
      BY <1>1 DEF Spill, FlushLog, FlushIndex, FlushIfIdle, RecordTruncation, RecordExit,
         progress, stream
    <2>2. (goal = "capture" => goal' = "capture") /\ pc \notin {"drop", "record", "gone"}
      BY <1>1 DEF Spill, FlushLog, FlushIndex, FlushIfIdle, RecordTruncation, RecordExit,
         GoalAtFlush
    <2> QED
      BY <2>1, <2>2 DEF Closed
  <1>2. CASE FlushDone
    <2>1. UNCHANGED <<quota_exceeded, source, event, writer>> /\ pc = "flush_log"
      BY <1>2 DEF FlushDone, stream
    <2>2. goal = "capture" => pc' = "drop"
      BY <1>2 DEF FlushDone, AfterFlush
    <2> QED
      BY <2>1, <2>2 DEF Closed
  <1>3. CASE AppendStart \/ AppendBytes \/ AppendLineEnd
    <2>1. pc = "append" /\ event # None
      BY <1>3 DEF AppendStart, AppendBytes, AppendLineEnd, Ending, Limited, Typed, EventAtHand
    <2>2. quota_exceeded
      BY <2>1, AppendOpen
    <2>3. quota_exceeded'
      BY <1>3, <2>2, NothingWritten DEF Ending
    <2> QED
      BY <2>3 DEF Closed
  <1>4. CASE DropWriter \/ RecordCapture
    <2>1. writer' = "dropped"
      BY <1>4 DEF DropWriter, RecordCapture, Ending, Settled, CaptureDropped
    <2> QED
      BY <2>1 DEF Closed
  <1>5. CASE Finish \/ CaptureFails
    <2>1. source' \in {"ended", "finishing"} /\ event' = None
      BY <1>5 DEF Finish, CaptureFails
    <2> QED
      BY <2>1 DEF Closed
  <1>6. CASE WriteFails
    <2>1. pc' = "drop" \/ goal' = "capture"
      BY <1>6 DEF WriteFails, Seal
    <2> QED
      BY <2>1 DEF Closed
  <1>7. CASE Crash
    BY <1>7 DEF Crash, Closed
  <1>8. CASE Input
    <2>1. /\ pc = "ready" /\ source \in {"probing", "open", "closing"}
          /\ UNCHANGED <<quota_exceeded, goal, writer>>
      BY <1>8 DEF Input, ReceiveStart, ReceiveBytes, ReceiveLineEnd, ReceiveHalfUnit,
         ReceiveEnd, Receive, progress
    <2> QED
      BY <2>1 DEF Closed, GoalAtFlush
  <1> QED
    BY <1>1, <1>2, <1>3, <1>4, <1>5, <1>6, <1>7, <1>8 DEF Work, Failure

(* One step of the supervisor keeps the structure of the text.             *)
LEMMA StructuredStep ==
    ASSUME Ending, Ending', Structured, Whole, Handed, NoFalseMark, Work \/ Input \/ Failure
    PROVE  Structured'
  <1>1. Typed /\ WriterTypeOK /\ WriterTypeOK' /\ Limited'
    BY DEF Ending, Limited, Typed
  <1>2. CASE Spill \/ FlushLog \/ DropWriter \/ Crash
    BY <1>1, <1>2, WritingStructured
  <1>3. CASE AppendStart
    BY <1>1, <1>3, StartStructured
  <1>4. CASE AppendBytes
    <2> DEFINE b == Written(event)
    <2>1. b \in Seq(Symbols) /\ Adding(b) /\ writer = "open"
      BY <1>4, AppendBytesAdding
    <2> HIDE DEF b
    <2> QED
      BY <1>1, <2>1, AddingStructured
  <1>5. CASE AppendLineEnd
    <2> DEFINE b == Written(event)
    <2>1. b \in Seq(Symbols) /\ Adding(b) /\ writer = "open"
      BY <1>5, AppendLineEndAdding
    <2> HIDE DEF b
    <2> QED
      BY <1>1, <2>1, AddingStructured
  <1>6. CASE FlushIndex
    BY <1>1, <1>6, FlushIndexStructured
  <1>7. CASE (Finish \/ CaptureFails \/ WriteFails) /\ writer = "open"
    <2>1. Adding(<<>>) /\ <<>> \in Seq(Symbols)
      BY <1>7, SealAdding, EmptyContent
    <2> QED
      BY <1>1, <1>7, <2>1, AddingStructured
  <1>8. ASSUME UNCHANGED <<log, buffer, index, lines, current_start, encoding,
                           current_has_content, index_torn>>
        PROVE  Structured'
    <2>1. Closed => Closed'
      BY ClosedStays DEF Handed
    <2> QED
      BY <1>1, <1>8, <2>1, StructuredQuiet
  <1>9. CASE (Finish \/ CaptureFails \/ WriteFails) /\ writer # "open"
    <2>1. writer = "dropped" /\ pc \notin {"append", "flush_log"}
      BY <1>1, <1>9 DEF WriterTypeOK, Ending, Settled, DroppedIsIdle
    <2>2. Finish
      BY <1>9, <2>1 DEF CaptureFails, WriteFails
    <2>3. UNCHANGED <<log, buffer, index, lines, current_start, encoding,
                      current_has_content, index_torn>>
      BY <1>9, <2>2 DEF Finish, KeepLine, files, history
    <2> QED
      BY <1>8, <2>3
  <1>10. CASE FlushDone \/ FlushIfIdle \/ RecordTruncation \/ RecordCapture \/ RecordExit
    <2>1. UNCHANGED <<log, buffer, index, lines, current_start, encoding,
                      current_has_content, index_torn>>
      BY <1>10 DEF FlushDone, FlushIfIdle, RecordTruncation, RecordCapture, RecordExit,
         files, progress, history
    <2> QED
      BY <1>8, <2>1
  <1>11. CASE Input
    <2>1. UNCHANGED <<log, buffer, index, lines, current_start, encoding,
                      current_has_content, index_torn>>
      BY <1>11 DEF Input, ReceiveStart, ReceiveBytes, ReceiveLineEnd, ReceiveHalfUnit,
         ReceiveEnd, Receive, files, progress, history
    <2> QED
      BY <1>8, <2>1
  <1> QED
    BY <1>2, <1>3, <1>4, <1>5, <1>6, <1>7, <1>9, <1>10, <1>11 DEF Work, Failure

LEMMA WholeStep ==
    ASSUME Ending, Ending', Structured, Whole, Handed, NoFalseMark, Work \/ Input \/ Failure
    PROVE  Whole'
  <1>1. Typed /\ WriterTypeOK /\ WriterTypeOK' /\ Limited'
    BY DEF Ending, Limited, Typed
  <1>2. CASE Spill \/ FlushLog \/ Crash
    <2>1. PICK k \in 0..Len(buffer) :
              Writes(k) /\ buffer' = SubSeq(buffer, k + 1, Len(buffer))
      <3>1. PICK k \in {0, Len(buffer)} \cup Prefixes : WriteOut(k)
        BY <1>2 DEF Spill, FlushLog, Crash
      <3> QED
        BY <1>1, <3>1, PrefixesType DEF Writes, WriteOut
    <2>2. Position' = Position
      BY <1>1, <2>1, TextPrefix
    <2>3. UNCHANGED <<writer, current_start, current_has_content, encoding>>
      BY <1>2 DEF Spill, FlushLog, Crash, progress
    <2> QED
      BY <2>2, <2>3 DEF Whole, Aligned
  <1>3. CASE DropWriter
    BY <1>3 DEF DropWriter, Whole
  <1>4. CASE AppendStart
    BY <1>1, <1>4, StartStructured
  <1>5. CASE AppendBytes
    <2> DEFINE b == Written(event)
    <2>1. /\ b \in Seq(Symbols) /\ Adding(b) /\ writer = "open"
          /\ KeepsLines(b) => current_has_content' = (current_has_content \/ b # <<>>)
      BY <1>5, AppendBytesAdding
    <2> HIDE DEF b
    <2> QED
      BY <1>1, <2>1, AddingWhole
  <1>6. CASE AppendLineEnd
    <2> DEFINE b == Written(event)
    <2>1. /\ b \in Seq(Symbols) /\ Adding(b) /\ writer = "open"
          /\ KeepsLines(b) => current_has_content' = (current_has_content \/ b # <<>>)
      BY <1>6, AppendLineEndAdding
    <2> HIDE DEF b
    <2> QED
      BY <1>1, <2>1, AddingWhole
  <1>7. CASE (Finish \/ CaptureFails \/ WriteFails) /\ writer = "open"
    <2>1. /\ Adding(<<>>) /\ <<>> \in Seq(Symbols)
          /\ KeepsLines(<<>>) => current_has_content' = (current_has_content \/ <<>> # <<>>)
      BY <1>7, SealAdding, EmptyContent
    <2> QED
      BY <1>1, <1>7, <2>1, AddingWhole
  <1>8. ASSUME UNCHANGED <<log, buffer, current_start, encoding, current_has_content, writer>>
        PROVE  Whole'
    BY <1>8 DEF Whole, Position, Aligned
  <1>9. CASE (Finish \/ CaptureFails \/ WriteFails) /\ writer # "open"
    <2>1. writer' = writer
      BY <1>9 DEF Finish, CaptureFails, WriteFails
    <2> QED
      BY <1>9, <2>1 DEF Whole
  <1>10. CASE FlushIndex \/ FlushDone \/ FlushIfIdle \/ RecordTruncation \/ RecordCapture
              \/ RecordExit
    <2>1. UNCHANGED <<log, buffer, current_start, encoding, current_has_content, writer>>
      BY <1>10 DEF FlushIndex, FlushDone, FlushIfIdle, RecordTruncation, RecordCapture,
         RecordExit, files, progress
    <2> QED
      BY <1>8, <2>1
  <1>11. CASE Input
    <2>1. UNCHANGED <<log, buffer, current_start, encoding, current_has_content, writer>>
      BY <1>11 DEF Input, ReceiveStart, ReceiveBytes, ReceiveLineEnd, ReceiveHalfUnit,
         ReceiveEnd, Receive, files, progress
    <2> QED
      BY <1>8, <2>1
  <1> QED
    BY <1>2, <1>3, <1>4, <1>5, <1>6, <1>7, <1>9, <1>10, <1>11 DEF Work, Failure

-----------------------------------------------------------------------------
(***************************************************************************)
(* Every step keeps the line in progress with its stream.                  *)
(***************************************************************************)
LEMMA EventIsSome == \A e \in Events : e # None
  BY EventAssumption

LEMMA GoalStep ==
    ASSUME WriterTypeOK, GoalAtFlush, Work \/ Input \/ Failure
    PROVE  GoalAtFlush'
  <1>1. CASE Input
    <2>1. goal' = goal /\ pc = "ready"
      BY <1>1 DEF Input, ReceiveStart, ReceiveBytes, ReceiveLineEnd, ReceiveHalfUnit,
         ReceiveEnd, Receive
    <2> QED
      BY <2>1 DEF GoalAtFlush
  <1>2. CASE AppendStart \/ AppendBytes \/ AppendLineEnd
    BY <1>2 DEF AppendStart, AppendBytes, AppendLineEnd, AfterAppend, GoalAtFlush
  <1>3. CASE Finish \/ CaptureFails \/ WriteFails \/ Crash \/ FlushDone
    BY <1>3 DEF Finish, CaptureFails, WriteFails, Seal, Crash, FlushDone, GoalAtFlush
  <1>4. CASE Spill \/ FlushLog \/ FlushIndex \/ FlushIfIdle \/ RecordTruncation
             \/ DropWriter \/ RecordCapture \/ RecordExit
    BY <1>4 DEF Spill, FlushLog, FlushIndex, FlushIfIdle, RecordTruncation, DropWriter,
       RecordCapture, RecordExit, GoalAtFlush
  <1> QED
    BY <1>1, <1>2, <1>3, <1>4 DEF Work, Failure

(* A step in which the normalizer hands nothing over, before which the     *)
(* line in progress was held.                                              *)
LEMMA QuietHanded ==
    ASSUME Ending, Handed, GoalAtFlush', Closed => Closed',
           UNCHANGED <<event, source, open_line, encoding, quota_exceeded>>,
           current_has_content => current_has_content' \/ (event = None /\ Closed')
    PROVE  Handed'
  BY DEF Handed, BytesFit, EndFits, OpenLineHeld

LEMMA AppendHanded ==
    ASSUME Ending, Handed, GoalAtFlush', Structured,
           AppendStart \/ AppendBytes \/ AppendLineEnd
    PROVE  Handed'
  <1>1. event' = None /\ open_line' = open_line /\ pc = "append" /\ event # None
    BY DEF AppendStart, AppendBytes, AppendLineEnd, AfterAppend, Ending, Limited, Typed, EventAtHand
  <1>2. ~AppendBytes => ~open_line
    BY <1>1 DEF AppendStart, AppendLineEnd, Handed, OpenLineHeld, EndFits
  <1>3. CASE AppendBytes /\ open_line
    <2>1. encoding' = encoding /\ encoding \in Encodings
      BY <1>3 DEF AppendBytes, Handed, OpenLineHeld
    <2>2. event.kind = "Bytes"
      BY <1>3 DEF AppendBytes
    <2>3. event.bytes # <<>>
      <3>1. \/ event.bytes \in Chunks[encoding]
            \/ event.bytes = <<"x">>
        BY <1>1, <2>2 DEF Handed, BytesFit
      <3>2. \A c \in Chunks[encoding] : Len(c) \in 1..(FlushBytes - 1)
        BY <2>1
      <3>3. Len(<<>>) = 0 /\ <<"x">> # <<>>
        OBVIOUS
      <3> QED
        BY <3>1, <3>2, <3>3
    <2>4. CASE quota_exceeded'
      BY <1>1, <2>1, <2>4 DEF Handed, BytesFit, EndFits, OpenLineHeld, Closed
    <2>5. CASE ~quota_exceeded'
      <3>1. Written(event) = event.bytes
        BY <1>3, <2>5 DEF AppendBytes
      <3>2. current_has_content' = (current_has_content \/ Written(event) # <<>>)
        BY <1>3, <2>5 DEF AppendBytes
      <3> QED
        BY <1>1, <2>1, <2>3, <3>1, <3>2 DEF Handed, BytesFit, EndFits, OpenLineHeld
    <2> QED
      BY <2>4, <2>5
  <1>4. CASE ~open_line
    BY <1>1, <1>4 DEF Handed, BytesFit, EndFits, OpenLineHeld
  <1> QED
    BY <1>2, <1>3, <1>4

LEMMA InputHanded ==
    ASSUME Ending, Handed, GoalAtFlush', Input
    PROVE  Handed'
  <1>1. /\ pc = "ready" /\ event = None /\ source \in {"probing", "open", "closing"}
        /\ UNCHANGED <<encoding, quota_exceeded, current_has_content, writer, goal>>
    BY DEF Input, ReceiveStart, ReceiveBytes, ReceiveLineEnd, ReceiveHalfUnit, ReceiveEnd,
       Receive, progress
  <1>2. encoding \in Encodings \cup {None}
    BY DEF Ending, Limited, Typed, WriterTypeOK
  <1>3. Closed => quota_exceeded \/ writer = "dropped"
    BY <1>1 DEF Closed, Handed, GoalAtFlush
  <1>4. CASE ReceiveStart
    <2>1. PICK e \in Encodings : event' = Hand(StartEvent(e)) /\ open_line' = FALSE
      BY <1>4 DEF ReceiveStart, Receive
    <2>2. event' # None => event'.kind = "Start"
      BY <2>1 DEF Hand, StartEvent
    <2> QED
      BY <2>1, <2>2 DEF Handed, BytesFit, EndFits, OpenLineHeld
  <1>5. CASE ReceiveBytes
    <2>1. PICK c \in Chunks[encoding] :
             event' = Hand(BytesEvent(c)) /\ open_line' = TRUE
      BY <1>5 DEF ReceiveBytes, Receive
    <2>2. encoding \in Encodings /\ encoding' = encoding
      BY <1>1, <1>2, <1>5 DEF ReceiveBytes
    <2>3. event' # None => event'.kind = "Bytes" /\ event'.bytes \in Chunks[encoding]
      BY <2>1 DEF Hand, BytesEvent
    <2>4. event' = None => writer' = "dropped"
      <3>1. BytesEvent(c) # None
        <4>1. BytesEvent(c) \in Events
          BY <2>1, <2>2 DEF BytesEvent, Events
        <4> QED
          BY <4>1, EventIsSome
      <3> QED
        BY <1>1, <2>1, <3>1 DEF Hand
    <2> QED
      BY <2>1, <2>2, <2>3, <2>4 DEF Handed, BytesFit, EndFits, OpenLineHeld, Closed
  <1>6. CASE ReceiveLineEnd
    <2>1. event' = Hand(LineEndEvent(TRUE)) /\ open_line' = FALSE
      BY <1>6 DEF ReceiveLineEnd, Receive
    <2>2. encoding \in Encodings /\ encoding' = encoding
      BY <1>1, <1>2, <1>6 DEF ReceiveLineEnd
    <2>3. event' # None => event'.kind = "LineEnd" /\ event'.terminated = TRUE
      BY <2>1 DEF Hand, LineEndEvent
    <2> QED
      BY <2>1, <2>2, <2>3 DEF Handed, BytesFit, EndFits, OpenLineHeld
  <1>7. CASE ReceiveHalfUnit
    <2>1. event' = Hand(BytesEvent(<<"x">>)) /\ open_line' = TRUE /\ source' = "closing"
          /\ encoding = "wide"
      BY <1>7 DEF ReceiveHalfUnit, Receive
    <2>2. encoding \in Encodings /\ encoding' = encoding
      BY <1>1, <1>2, <2>1 DEF Encoded
    <2>3. event' # None => event'.kind = "Bytes" /\ event'.bytes = <<"x">>
      BY <2>1 DEF Hand, BytesEvent
    <2>4. event' = None => writer' = "dropped"
      <3>1. BytesEvent(<<"x">>) # None
        <4>1. BytesEvent(<<"x">>) \in Events
          BY DEF BytesEvent, Events, Symbols
        <4> QED
          BY <4>1, EventIsSome
      <3> QED
        BY <1>1, <2>1, <3>1 DEF Hand
    <2> QED
      BY <2>1, <2>2, <2>3, <2>4 DEF Handed, BytesFit, EndFits, OpenLineHeld, Closed
  <1>8. CASE ReceiveEnd /\ open_line
    <2>1. event' = Hand(LineEndEvent(FALSE)) /\ open_line' = FALSE /\ source' = "ended"
      BY <1>8 DEF ReceiveEnd, Receive
    <2>2. encoding \in Encodings /\ encoding' = encoding
          /\ (current_has_content \/ quota_exceeded \/ writer = "dropped")
      BY <1>1, <1>3, <1>8 DEF Handed, OpenLineHeld
    <2>3. event' # None => event'.kind = "LineEnd" /\ writer # "dropped"
      BY <2>1 DEF Hand, LineEndEvent
    <2> QED
      BY <1>1, <2>1, <2>2, <2>3 DEF Handed, BytesFit, EndFits, OpenLineHeld
  <1>9. CASE ReceiveEnd /\ ~open_line
    <2>1. event' = None /\ open_line' = FALSE
      BY <1>9 DEF ReceiveEnd, Receive
    <2> QED
      BY <2>1 DEF Handed, BytesFit, EndFits, OpenLineHeld
  <1> QED
    BY <1>4, <1>5, <1>6, <1>7, <1>8, <1>9 DEF Input

LEMMA HandedStep ==
    ASSUME Ending, Handed, Structured, Work \/ Input \/ Failure
    PROVE  Handed'
  <1>1. GoalAtFlush' /\ (Closed => Closed')
    BY GoalStep, ClosedStays DEF Handed, Structured
  <1>2. CASE AppendStart \/ AppendBytes \/ AppendLineEnd
    BY <1>1, <1>2, AppendHanded
  <1>3. CASE Input
    BY <1>1, <1>3, InputHanded
  <1>4. CASE Spill \/ FlushLog \/ FlushIndex \/ FlushDone \/ FlushIfIdle \/ RecordTruncation
             \/ DropWriter \/ RecordCapture \/ RecordExit \/ Crash
    <2>1. UNCHANGED <<event, source, open_line, encoding, quota_exceeded, current_has_content>>
      BY <1>4 DEF Spill, FlushLog, FlushIndex, FlushDone, FlushIfIdle, RecordTruncation,
         DropWriter, RecordCapture, RecordExit, Crash, stream, progress
    <2> QED
      BY <1>1, <2>1, QuietHanded
  <1>5. CASE CaptureFails
    <2>1. event' = None /\ open_line' = FALSE
      BY <1>5 DEF CaptureFails
    <2> QED
      BY <1>1, <2>1 DEF Handed, BytesFit, EndFits, OpenLineHeld
  <1>6. CASE WriteFails \/ Finish
    <2>1. event' = None /\ open_line' = open_line /\ encoding' = encoding
      BY <1>6 DEF WriteFails, Finish
    <2>2. Closed'
      BY <1>6, <2>1 DEF WriteFails, Finish, Seal, Closed
    <2> QED
      BY <1>1, <2>1, <2>2 DEF Handed, BytesFit, EndFits, OpenLineHeld
  <1> QED
    BY <1>2, <1>3, <1>4, <1>5, <1>6 DEF Work, Failure

-----------------------------------------------------------------------------
(***************************************************************************)
(* What a reader of healthy files finds.                                   *)
(***************************************************************************)
(* The reader that sampled the index finds it in order.                    *)
LEMMA HealthyLog ==
    ASSUME Structured, ~index_torn, NEW cells \in Nat, cells <= Len(index)
    PROVE  ~IsDamaged(cells, Len(log))
  <1> DEFINE D == IndexedLines(cells)
  <1>1. /\ D \in Nat /\ D <= Indexed /\ Len(index) \in Nat /\ Indexed \in 0..Len(lines)
        /\ Len(lines) \in Nat /\ Len(log) \in Nat
    <2>1. Len(index) \in Nat
      BY DEF Structured, WriterTypeOK
    <2>2. D \in Nat /\ D <= Indexed
      BY <2>1 DEF IndexedLines, Indexed
    <2> QED
      BY <2>1, <2>2, DecodedIs, LineFacts DEF Structured, WriterTypeOK
  <1> HIDE DEF D
  <1>2. \A k \in 1..D : k \in 1..Indexed /\ k \in 1..Len(lines)
    BY <1>1
  <1>3. D > 0 => BomLen(Len(log)) = MarkLen
    BY <1>1, DecodedIs, DetectedIs
  <1>4. ASSUME NEW k \in 1..D PROVE EntryIsValid(k, Len(log))
    <2>1. Decoded(k) = lines[k] /\ lines[k].record_end <= Len(log)
      BY <1>2, DecodedIs
    <2>2. /\ lines[k].start = EndOf(k - 1) /\ lines[k].start <= lines[k].content_end
          /\ lines[k].record_end \in {lines[k].content_end, lines[k].content_end + Width}
      BY <1>2 DEF Structured, Chained
    <2>3. lines[k].content_end <= lines[k].record_end
      <3>1. lines[k].content_end \in Nat /\ Width \in {1, 2}
        BY <1>2, LineFacts, EncodingFacts
      <3> QED
        BY <2>2, <3>1
    <2>4. lines[k].start = IF k = 1 THEN BomLen(Len(log)) ELSE Decoded(k - 1).record_end
      <3>1. CASE k = 1
        BY <1>1, <1>3, <2>2, <3>1 DEF EndOf
      <3>2. CASE k # 1
        <4>1. k - 1 \in 1..D /\ k - 1 \in 1..Indexed /\ k - 1 # 0
          BY <1>1, <3>2
        <4>2. Decoded(k - 1) = lines[k - 1]
          BY <4>1, DecodedIs
        <4> QED
          BY <2>2, <3>2, <4>1, <4>2 DEF EndOf
      <3> QED
        BY <3>1, <3>2
    <2> QED
      BY <2>1, <2>2, <2>3, <2>4 DEF EntryIsValid, Ordered
  <1>5. IndexedEnd(cells, Len(log)) <= Len(log)
    <2>1. CASE D = 0
      <3>1. Len(StreamBom("wide")) = 2 /\ Len(StreamBom("bytes")) = 0
        BY BomType DEF StreamBom
      <3>2. BomLen(Len(log)) <= Len(log)
        <4>1. CASE DetectedEncoding(Len(log)) = "wide"
          <5>1. Len(log) >= 2
            BY <4>1 DEF DetectedEncoding
          <5> QED
            BY <1>1, <3>1, <4>1, <5>1 DEF BomLen
        <4>2. CASE DetectedEncoding(Len(log)) = "bytes"
          BY <1>1, <3>1, <4>2 DEF BomLen
        <4> QED
          BY <4>1, <4>2 DEF DetectedEncoding
      <3> QED
        BY <2>1, <3>2 DEF IndexedEnd, D
    <2>2. CASE D # 0
      <3>1. D \in 1..D /\ D \in 1..Indexed
        BY <1>1, <2>2
      <3>2. Decoded(D) = lines[D] /\ lines[D].record_end <= Len(log)
        BY <3>1, DecodedIs
      <3> QED
        BY <2>2, <3>2 DEF IndexedEnd, D
    <2> QED
      BY <2>1, <2>2
  <1>6. IndexedEnd(cells, Len(log)) \in Nat
    <2>1. CASE D = 0
      <3>1. BomLen(Len(log)) \in Nat
        BY BomType DEF BomLen, DetectedEncoding
      <3> QED
        BY <2>1, <3>1 DEF IndexedEnd, D
    <2>2. CASE D # 0
      <3>1. D \in 1..Indexed /\ D \in 1..Len(lines)
        BY <1>1, <2>2
      <3> QED
        BY <2>2, <3>1, DecodedIs, LineFacts DEF IndexedEnd, D
    <2> QED
      BY <2>1, <2>2
  <1> QED
    BY <1>1, <1>4, <1>5, <1>6 DEF IsDamaged, D

(* What the first cells of the index and so many bytes of the log say      *)
(* depends on nothing else.                                                *)
LEMMA OpenedKept ==
    ASSUME log' = log, index' = index, NEW tail, NEW cells, NEW bytes
    PROVE  OpenedLines(tail, cells, bytes)' = OpenedLines(tail, cells, bytes)
  <1>1. \A k : Decoded(k)' = Decoded(k)
    BY DEF Decoded
  <1>2. DetectedEncoding(bytes)' = DetectedEncoding(bytes)
    BY DEF DetectedEncoding
  <1>3. BomLen(bytes)' = BomLen(bytes)
    BY <1>2 DEF BomLen
  <1>4. IndexedEnd(cells, bytes)' = IndexedEnd(cells, bytes)
    BY <1>1, <1>3 DEF IndexedEnd
  <1>5. ASSUME NEW from PROVE Recovered(from, bytes)' = Recovered(from, bytes)
    BY <1>2 DEF Recovered, Breaks, EndsWithBreak, DetectedEncoding
  <1>6. Recovered(IndexedEnd(cells, bytes), bytes)' = Recovered(IndexedEnd(cells, bytes), bytes)
    BY <1>4, <1>5
  <1> QED
    BY <1>1, <1>6 DEF OpenedLines

LEMMA OpenedType ==
    ASSUME WriterTypeOK, NEW tail \in BOOLEAN, NEW cells \in Nat, cells <= Len(index)
    PROVE  /\ OpenedLines(tail, cells, Len(log)) \in Seq(LineEntry)
           /\ Len(OpenedLines(tail, cells, Len(log))) \in Nat
           /\ cells \div 3 \in Nat
           /\ cells \div 3 <= Len(OpenedLines(tail, cells, Len(log)))
           /\ \A k \in 1..(cells \div 3) :
                 OpenedLines(tail, cells, Len(log))[k] = Decoded(k)
           /\ ~tail => OpenedLines(tail, cells, Len(log)) = [k \in 1..(cells \div 3) |-> Decoded(k)]
  <1> DEFINE D == cells \div 3
             head == [k \in 1..D |-> Decoded(k)]
             rest == IF tail THEN Recovered(IndexedEnd(cells, Len(log)), Len(log)) ELSE <<>>
  <1>1. D \in Nat /\ 3 * D <= cells /\ Len(index) \in Nat /\ Len(log) \in Nat
    BY DEF WriterTypeOK
  <1> HIDE DEF D
  <1>2. \A k \in 1..D : Decoded(k) \in LineEntry
    <2> SUFFICES ASSUME NEW k \in 1..D PROVE Decoded(k) \in LineEntry
      OBVIOUS
    <2>1. /\ 3 * (k - 1) + 1 \in 1..Len(index) /\ 3 * (k - 1) + 2 \in 1..Len(index)
          /\ 3 * (k - 1) + 3 \in 1..Len(index)
      BY <1>1
    <2>2. \A i \in 1..Len(index) : index[i] \in Nat
      BY DEF WriterTypeOK
    <2> QED
      BY <2>1, <2>2 DEF Decoded, LineEntry
  <1>3. /\ head \in Seq(LineEntry) /\ Len(head) = D /\ \A k \in 1..D : head[k] = Decoded(k)
    BY <1>1, <1>2
  <1>4. IndexedEnd(cells, Len(log)) \in Nat
    <2>1. BomLen(Len(log)) \in Nat
      BY BomType DEF BomLen, DetectedEncoding
    <2>2. D # 0 => D \in 1..D
      BY <1>1
    <2> QED
      BY <1>2, <2>1, <2>2 DEF IndexedEnd, IndexedLines, D, LineEntry
  <1>5. rest \in Seq(LineEntry) /\ (~tail => rest = <<>>)
    BY <1>1, <1>4, RecoveredType
  <1>6. OpenedLines(tail, cells, Len(log)) = head \o rest
    BY DEF OpenedLines, IndexedLines, D
  <1> HIDE DEF head, rest
  <1>7. /\ head \o rest \in Seq(LineEntry) /\ Len(head \o rest) = Len(head) + Len(rest)
        /\ Len(rest) \in Nat
        /\ \A i \in 1..(Len(head) + Len(rest)) :
              (head \o rest)[i] = IF i <= Len(head) THEN head[i] ELSE rest[i - Len(head)]
    <2>1. head \in Seq(LineEntry) /\ rest \in Seq(LineEntry)
      BY <1>3, <1>5
    <2> QED
      BY <2>1, ConcatProperties
  <1>8. \A k \in 1..D : (head \o rest)[k] = Decoded(k)
    <2> SUFFICES ASSUME NEW k \in 1..D PROVE (head \o rest)[k] = Decoded(k)
      OBVIOUS
    <2>1. k \in 1..(Len(head) + Len(rest)) /\ k <= Len(head)
      BY <1>1, <1>3, <1>7
    <2> QED
      BY <1>3, <1>7, <2>1
  <1>9. ~tail => head \o rest = head
    BY <1>3, <1>5
  <1>10. Len(head \o rest) \in Nat /\ D <= Len(head \o rest)
    BY <1>1, <1>3, <1>7
  <1> QED
    BY <1>1, <1>6, <1>7, <1>8, <1>9, <1>10 DEF D, head

(* The index is only added to.                                             *)
LEMMA IndexGrows ==
    ASSUME WriterTypeOK, Work \/ Input \/ Failure
    PROVE  /\ Len(index) \in Nat /\ Len(index') \in Nat /\ Len(index') >= Len(index)
           /\ \A i \in 1..Len(index) : index'[i] = index[i]
           /\ \A k \in 1..Indexed : Decoded(k)' = Decoded(k)
           /\ Indexed \in Nat /\ Indexed' \in Nat /\ Indexed' >= Indexed
  <1>1. Len(index) \in Nat /\ index \in Seq(Nat)
    BY DEF WriterTypeOK
  <1>2. FlushIndex => Len(index') \in Nat /\ Len(index') >= Len(index)
                      /\ \A i \in 1..Len(index) : index'[i] = index[i]
    <2> SUFFICES ASSUME FlushIndex
                 PROVE  Len(index') \in Nat /\ Len(index') >= Len(index)
                        /\ \A i \in 1..Len(index) : index'[i] = index[i]
      OBVIOUS
    <2>1. PICK k \in (index_written + 1)..PendingNumbers :
              index' = index \o [i \in 1..(k - index_written) |-> Number(index_written + i)]
      BY DEF FlushIndex
    <2>2. /\ durable_lines \in 0..Len(lines) /\ Len(lines) \in Nat /\ index_written \in Nat
      BY DEF WriterTypeOK
    <2>3. PendingNumbers \in Nat
      BY <2>2 DEF PendingNumbers
    <2>4. k \in Nat /\ k - index_written \in Nat
      BY <2>1, <2>2, <2>3
    <2> DEFINE new == [i \in 1..(k - index_written) |-> Number(index_written + i)]
    <2>5. \A i \in 1..(k - index_written) : Number(index_written + i) \in Nat
      BY <2>1, <2>2, <2>3, <2>4, NumberType
    <2>6. new \in Seq(Nat) /\ index' = index \o new
      <3>1. new \in Seq(Nat)
        BY <2>4, <2>5
      <3> QED
        BY <2>1, <3>1
    <2> HIDE DEF new
    <2>7. /\ Len(index \o new) = Len(index) + Len(new) /\ Len(new) \in Nat
          /\ \A i \in 1..(Len(index) + Len(new)) :
                (index \o new)[i] = IF i <= Len(index) THEN index[i] ELSE new[i - Len(index)]
      BY <1>1, <2>6, ConcatProperties
    <2>8. ASSUME NEW i \in 1..Len(index) PROVE index'[i] = index[i]
      <3>1. i \in 1..(Len(index) + Len(new)) /\ i <= Len(index)
        BY <1>1, <2>7
      <3> QED
        BY <2>6, <2>7, <3>1
    <2>9. Len(index') \in Nat /\ Len(index') >= Len(index)
      BY <1>1, <2>6, <2>7
    <2> QED
      BY <2>8, <2>9
  <1>3. ~FlushIndex => Len(index') \in Nat /\ Len(index') >= Len(index)
                       /\ \A i \in 1..Len(index) : index'[i] = index[i]
    <2>1. ~FlushIndex => index' = index
      BY DEF Work, Input, Failure, Spill, AppendStart, AppendBytes, AppendLineEnd,
       AfterAppend, FlushLog, FlushDone, FlushIfIdle, RecordTruncation, RecordCapture,
       DropWriter, Finish, RecordExit, ReceiveStart, ReceiveBytes, ReceiveLineEnd,
       ReceiveHalfUnit, ReceiveEnd, Receive, CaptureFails, WriteFails, Crash, files
    <2> QED
      BY <1>1, <2>1
  <1>4. Len(index') \in Nat /\ Len(index') >= Len(index)
        /\ \A i \in 1..Len(index) : index'[i] = index[i]
    BY <1>1, <1>2, <1>3
  <1>5. Indexed \in Nat /\ Indexed' \in Nat /\ Indexed' >= Indexed /\ 3 * Indexed <= Len(index)
    BY <1>1, <1>4 DEF Indexed
  <1>6. ASSUME NEW k \in 1..Indexed PROVE Decoded(k)' = Decoded(k)
    <2>0. k \in Nat /\ 1 <= k /\ 3 * k <= Len(index)
      BY <1>1, <1>5
    <2>1. /\ 3 * (k - 1) + 1 \in 1..Len(index) /\ 3 * (k - 1) + 2 \in 1..Len(index)
          /\ 3 * (k - 1) + 3 \in 1..Len(index)
      BY <1>1, <2>0
    <2> QED
      BY <1>4, <2>1 DEF Decoded
  <1> QED
    BY <1>1, <1>4, <1>5, <1>6

-----------------------------------------------------------------------------
(***************************************************************************)
(* The reads under way.                                                    *)
(***************************************************************************)
(* What a read under way has found: a part of the index, all of it if the  *)
(* tail is included, and its lines.                                        *)
Samples(s) ==
    /\ s.pc \in {"log", "open"} => /\ s.cells <= Len(index)
                                   /\ s.tail => s.cells = Len(index)
    /\ s.damaged => index_torn
    /\ s.pc = "open" /\ ~s.damaged => s.seen = OpenedLines(s.tail, s.cells, Len(log))

(* A cursor is at the start, behind a line that is in the index, or behind *)
(* the last line there will ever be. Then the next read includes the tail. *)
AtStart(s) == s.last_seq = 0 /\ s.offset = 0

AtIndexed(s) ==
    /\ s.last_seq \in 1..Indexed /\ s.offset = Decoded(s.last_seq).record_end
    /\ s.pc \in {"log", "open"} => s.last_seq <= s.cells \div 3

AtEnd(s) ==
    /\ Final /\ s.last_seq = Len(AllLines) /\ s.offset = RecordEnd(AllLines, s.last_seq)
    /\ s.pc \in {"index", "log", "open"} => s.tail
    /\ s.pc = "notices" => ~s.running \/ capture_error # None \/ output_truncation # None

ReaderHolds(s) == s \in ReadTypes /\ Samples(s) /\ (AtStart(s) \/ AtIndexed(s) \/ AtEnd(s))

ReadersHold == reader \in [Readers -> ReadTypes] /\ \A r \in Readers : ReaderHolds(reader[r])

LEMMA ReadFields ==
    ASSUME NEW s \in ReadTypes
    PROVE  /\ s.pc \in {"idle", "notices", "index", "log", "open"} /\ s.running \in BOOLEAN
           /\ s.tail \in BOOLEAN /\ s.cells \in Nat /\ s.damaged \in BOOLEAN
           /\ s.seen \in Seq(LineEntry) /\ s.last_seq \in Nat /\ s.offset \in Nat
  BY DEF ReadTypes

LEMMA TornStays == ASSUME Work \/ Input \/ Failure, index_torn PROVE index_torn'
  <1>1. CASE WriteFails
    BY Zenon, <1>1 DEF WriteFails
  <1>2. CASE ~WriteFails
    <2>1. index_torn' = index_torn
      BY <1>2 DEF Work, Input, Failure, Spill, AppendStart, AppendBytes, AppendLineEnd,
       AfterAppend, FlushLog, FlushIndex, FlushDone, FlushIfIdle, RecordTruncation,
       RecordCapture, DropWriter, Finish, RecordExit, ReceiveStart, ReceiveBytes,
       ReceiveLineEnd, ReceiveHalfUnit, ReceiveEnd, Receive, CaptureFails, Crash, history
    <2> QED
      BY <2>1
  <1> QED
    BY <1>1, <1>2

LEMMA SamplesKept ==
    ASSUME Ending, WriterTypeOK', NEW s \in ReadTypes, Samples(s), s.tail => Final,
           Work \/ Input \/ Failure
    PROVE  Samples(s)'
  <1>1. WriterTypeOK
    BY DEF Ending, Limited, Typed
  <1>2. /\ s.pc \in {"idle", "notices", "index", "log", "open"} /\ s.tail \in BOOLEAN
        /\ s.cells \in Nat /\ s.damaged \in BOOLEAN
    BY ReadFields
  <1>3. s.tail => log' = log /\ index' = index
    <2>1. Next
      BY DEF Next
    <2> QED
      BY <2>1, FinalFiles DEF files
  <1>4. /\ Len(index) \in Nat /\ Len(index') \in Nat /\ Len(index') >= Len(index)
        /\ \A k \in 1..Indexed : Decoded(k)' = Decoded(k)
    BY <1>1, IndexGrows
  <1>5. s.pc \in {"log", "open"} => /\ s.cells <= Len(index')
                                    /\ s.tail => s.cells = Len(index')
    BY <1>2, <1>3, <1>4 DEF Samples
  <1>6. s.damaged => index_torn'
    BY TornStays DEF Samples
  <1>7. ASSUME s.pc = "open", ~s.damaged
        PROVE  s.seen = OpenedLines(s.tail, s.cells, Len(log))'
    <2>1. s.seen = OpenedLines(s.tail, s.cells, Len(log))
      BY <1>7 DEF Samples
    <2>2. CASE s.tail
      <3>1. log' = log /\ index' = index
        BY <1>3, <2>2
      <3>2. PICK bytes \in {Len(log)} : bytes = Len(log)
        OBVIOUS
      <3>3. OpenedLines(s.tail, s.cells, bytes)' = OpenedLines(s.tail, s.cells, bytes)
        BY <3>1, OpenedKept
      <3>4. bytes = Len(log')
        BY <3>1, <3>2
      <3>5. OpenedLines(s.tail, s.cells, Len(log))' = OpenedLines(s.tail, s.cells, bytes)'
        BY <3>4
      <3> QED
        BY <2>1, <3>2, <3>3, <3>5
    <2>3. CASE ~s.tail
      <3>1. s.cells <= Len(index) /\ s.cells <= Len(index')
        BY <1>5, <1>7 DEF Samples
      <3>2. OpenedLines(s.tail, s.cells, Len(log)) = [k \in 1..(s.cells \div 3) |-> Decoded(k)]
        BY <1>1, <1>2, <2>3, <3>1, OpenedType
      <3>3. OpenedLines(s.tail, s.cells, Len(log))' =
                [k \in 1..(s.cells \div 3) |-> Decoded(k)']
        BY <2>3 DEF OpenedLines, IndexedLines
      <3>4. OpenedLines(s.tail, s.cells, Len(log))' = [k \in 1..(s.cells \div 3) |-> Decoded(k)']
        BY <3>3
      <3>5. \A k \in 1..(s.cells \div 3) : k \in 1..Indexed
        BY <1>2, <1>4, <3>1 DEF Indexed
      <3> QED
        BY <1>4, <2>1, <3>2, <3>4, <3>5
    <2> QED
      BY <2>2, <2>3
  <1> QED
    BY <1>5, <1>6, <1>7 DEF Samples

LEMMA CursorKept ==
    ASSUME Ending, WriterTypeOK', NEW s \in ReadTypes, AtStart(s) \/ AtIndexed(s) \/ AtEnd(s),
           Work \/ Input \/ Failure
    PROVE  (AtStart(s) \/ AtIndexed(s) \/ AtEnd(s))'
  <1>1. WriterTypeOK
    BY DEF Ending, Limited, Typed
  <1>2. CASE AtStart(s)
    BY <1>2 DEF AtStart
  <1>3. CASE AtIndexed(s)
    <2>1. /\ \A k \in 1..Indexed : Decoded(k)' = Decoded(k)
          /\ Indexed \in Nat /\ Indexed' \in Nat /\ Indexed' >= Indexed
      BY <1>1, IndexGrows
    <2>2. PICK n \in 1..Indexed : n = s.last_seq
      BY <1>3 DEF AtIndexed
    <2>3. s.last_seq \in 1..Indexed' /\ s.offset = Decoded(n)'.record_end
      BY <1>3, <2>1, <2>2 DEF AtIndexed
    <2>4. Decoded(s.last_seq)' = Decoded(n)'
      BY <2>2
    <2>5. AtIndexed(s)'
      BY <1>3, <2>3, <2>4 DEF AtIndexed
    <2> QED
      BY <2>5
  <1>4. CASE AtEnd(s)
    <2>1. /\ capture_error # None => capture_error' # None
          /\ output_truncation # None => output_truncation' # None
          /\ Final /\ Final'
      BY <1>4, FinalStays DEF AtEnd
    <2>2. log' = log /\ index' = index
      BY <2>1, FinalFiles DEF files, Next
    <2>3. AllLines' = AllLines
      <3>1. PICK bytes \in {Len(log)}, cells \in {Len(index)} : bytes = Len(log) /\ cells = Len(index)
        OBVIOUS
      <3>2. OpenedLines(TRUE, cells, bytes)' = OpenedLines(TRUE, cells, bytes)
        BY <2>2, OpenedKept
      <3>3. AllLines = OpenedLines(TRUE, cells, bytes)
        BY <3>1 DEF AllLines
      <3>4. bytes = Len(log') /\ cells = Len(index')
        BY <2>2, <3>1
      <3>5. AllLines' = OpenedLines(TRUE, cells, bytes)'
        BY <3>4 DEF AllLines
      <3> QED
        BY <3>2, <3>3, <3>5
    <2>4. s.last_seq = Len(AllLines') /\ s.offset = RecordEnd(AllLines', s.last_seq)
      BY <1>4, <2>3 DEF AtEnd
    <2>5. AtEnd(s)'
      BY <1>4, <2>1, <2>4 DEF AtEnd, RecordEnd
    <2> QED
      BY <2>5
  <1> QED
    BY <1>2, <1>3, <1>4

LEMMA SupervisorHold ==
    ASSUME Ending, WriterTypeOK', ReadersHold, Work \/ Input \/ Failure
    PROVE  ReadersHold'
  <1>1. reader' = reader
    BY DEF Work, Input, Failure, Spill, AppendStart, AppendBytes, AppendLineEnd, AfterAppend,
       FlushLog, FlushIndex, FlushDone, FlushIfIdle, RecordTruncation, DropWriter,
       RecordCapture, Finish, RecordExit, ReceiveStart, ReceiveBytes, ReceiveLineEnd,
       ReceiveHalfUnit, ReceiveEnd, Receive, CaptureFails, WriteFails, Crash
  <1>2. ASSUME NEW s, ReaderHolds(s), s.tail => Final PROVE ReaderHolds(s)'
    BY <1>2, SamplesKept, CursorKept DEF ReaderHolds
  <1>3. ASSUME NEW r \in Readers PROVE ReaderHolds(reader[r])'
    <2>1. PICK s \in {reader[r]} : s = reader[r]
      OBVIOUS
    <2>2. s.tail => Final
      BY <2>1 DEF Ending, TailsAreFinal
    <2>3. ReaderHolds(s)'
      BY <1>2, <2>1, <2>2 DEF ReadersHold
    <2>4. s = reader'[r]
      BY <1>1, <2>1
    <2> QED
      BY <2>3, <2>4
  <1> QED
    BY <1>1, <1>3 DEF ReadersHold

-----------------------------------------------------------------------------
(***************************************************************************)
(* The steps of a reader.                                                  *)
(***************************************************************************)
(* A read of one process does not disturb that of another.                 *)
LEMMA HoldsQuiet ==
    ASSUME UNCHANGED <<log, index, index_torn, pc, capture_error, output_truncation>>,
           NEW s, ReaderHolds(s)
    PROVE  ReaderHolds(s)'
  <1>1. PICK bytes \in {Len(log)}, cells \in {Len(index)} : bytes = Len(log) /\ cells = Len(index)
    OBVIOUS
  <1>2. bytes = Len(log') /\ cells = Len(index')
    BY <1>1
  <1>3. \A t, c : OpenedLines(t, c, bytes)' = OpenedLines(t, c, bytes)
    <2> SUFFICES ASSUME NEW t, NEW c
                 PROVE  OpenedLines(t, c, bytes)' = OpenedLines(t, c, bytes)
      OBVIOUS
    <2> QED
      BY OpenedKept
  <1>4. OpenedLines(s.tail, s.cells, Len(log))' = OpenedLines(s.tail, s.cells, Len(log))
    <2>1. OpenedLines(s.tail, s.cells, Len(log))' = OpenedLines(s.tail, s.cells, bytes)'
      BY <1>2
    <2> QED
      BY <1>1, <1>3, <2>1
  <1>5. AllLines' = AllLines
    <2>1. AllLines' = OpenedLines(TRUE, cells, bytes)'
      BY <1>2 DEF AllLines
    <2> QED
      BY <1>1, <1>3, <2>1 DEF AllLines
  <1>6. Samples(s)'
    BY <1>4 DEF ReaderHolds, Samples
  <1>7. CASE AtStart(s)
    BY <1>6, <1>7 DEF AtStart, ReaderHolds
  <1>8. CASE AtIndexed(s)
    <2>1. PICK n \in {s.last_seq} : n = s.last_seq
      OBVIOUS
    <2>2. Decoded(n)' = Decoded(n) /\ Indexed' = Indexed
      BY DEF Decoded, Indexed
    <2>3. Decoded(s.last_seq)' = Decoded(n)'
      BY <2>1
    <2>4. s.offset = Decoded(s.last_seq)'.record_end
      BY <1>8, <2>1, <2>2, <2>3 DEF AtIndexed
    <2>5. AtIndexed(s)'
      BY <1>8, <2>2, <2>4 DEF AtIndexed
    <2> QED
      BY <1>6, <2>5 DEF ReaderHolds
  <1>9. CASE AtEnd(s)
    <2>1. Final' = Final
      BY DEF Final
    <2>2. s.last_seq = Len(AllLines') /\ s.offset = RecordEnd(AllLines', s.last_seq)
      BY <1>5, <1>9 DEF AtEnd
    <2>3. AtEnd(s)'
      BY <1>9, <2>1, <2>2 DEF AtEnd, RecordEnd
    <2> QED
      BY <1>6, <2>3 DEF ReaderHolds
  <1> QED
    BY <1>7, <1>8, <1>9 DEF ReaderHolds

LEMMA FindHolds ==
    ASSUME NEW was, ReaderHolds(was), was.pc = "idle", NEW f,
           f = [was EXCEPT !.pc = "notices", !.running = (pc # "gone")]
    PROVE  ReaderHolds(f)
  <1>1. was \in ReadTypes
    BY DEF ReaderHolds
  <1>2. /\ f \in ReadTypes
        /\ f.pc = "notices" /\ f.running = (pc # "gone") /\ f.tail = was.tail
        /\ f.cells = was.cells /\ f.damaged = was.damaged /\ f.seen = was.seen
        /\ f.last_seq = was.last_seq /\ f.offset = was.offset
    BY <1>1 DEF ReadTypes
  <1>3. Samples(f)
    BY <1>2 DEF ReaderHolds, Samples
  <1>4. AtStart(was) => AtStart(f)
    BY <1>2 DEF AtStart
  <1>5. AtIndexed(was) => AtIndexed(f)
    BY <1>2 DEF AtIndexed
  <1>6. AtEnd(was) => AtEnd(f)
    BY <1>2 DEF AtEnd, Final
  <1> QED
    BY <1>2, <1>3, <1>4, <1>5, <1>6 DEF ReaderHolds

LEMMA NoticesHold ==
    ASSUME NEW was, ReaderHolds(was), was.pc = "notices", NEW f,
           f = [was EXCEPT !.pc = "index",
                   !.tail = \/ ~was.running \/ capture_error # None \/ output_truncation # None]
    PROVE  ReaderHolds(f)
  <1> DEFINE end == ~was.running \/ capture_error # None \/ output_truncation # None
  <1>1. was \in ReadTypes /\ end \in BOOLEAN
    BY DEF ReaderHolds
  <1>2. f = [was EXCEPT !.pc = "index", !.tail = end]
    OBVIOUS
  <1>3. AtEnd(was) => end
    BY DEF AtEnd
  <1> HIDE DEF end
  <1>4. /\ f \in ReadTypes
        /\ f.pc = "index" /\ f.running = was.running /\ f.tail = end
        /\ f.cells = was.cells /\ f.damaged = was.damaged /\ f.seen = was.seen
        /\ f.last_seq = was.last_seq /\ f.offset = was.offset
    BY <1>1, <1>2 DEF ReadTypes
  <1>5. Samples(f)
    BY <1>4 DEF ReaderHolds, Samples
  <1>6. AtStart(was) => AtStart(f)
    BY <1>4 DEF AtStart
  <1>7. AtIndexed(was) => AtIndexed(f)
    BY <1>4 DEF AtIndexed
  <1>8. AtEnd(was) => AtEnd(f)
    BY <1>3, <1>4 DEF AtEnd
  <1> QED
    BY <1>4, <1>5, <1>6, <1>7, <1>8 DEF ReaderHolds

LEMMA SampleHolds ==
    ASSUME WriterTypeOK, NEW was, ReaderHolds(was), was.pc = "index", NEW f,
           f = [was EXCEPT !.pc = "log", !.cells = Len(index)]
    PROVE  ReaderHolds(f)
  <1>1. was \in ReadTypes /\ Len(index) \in Nat
    BY DEF ReaderHolds, WriterTypeOK
  <1>2. /\ f \in ReadTypes
        /\ f.pc = "log" /\ f.running = was.running /\ f.tail = was.tail
        /\ f.cells = Len(index) /\ f.damaged = was.damaged /\ f.seen = was.seen
        /\ f.last_seq = was.last_seq /\ f.offset = was.offset
    BY <1>1 DEF ReadTypes
  <1>3. Samples(f)
    BY <1>1, <1>2 DEF ReaderHolds, Samples
  <1>4. AtStart(was) => AtStart(f)
    BY <1>2 DEF AtStart
  <1>5. AtIndexed(was) => AtIndexed(f)
    <2> SUFFICES ASSUME AtIndexed(was) PROVE AtIndexed(f)
      OBVIOUS
    <2>1. was.last_seq \in 1..Indexed /\ was.offset = Decoded(was.last_seq).record_end
      BY DEF AtIndexed
    <2>2. Indexed = f.cells \div 3 /\ Indexed \in Nat
      BY <1>1, <1>2 DEF Indexed
    <2>3. was.last_seq <= f.cells \div 3
      BY <2>1, <2>2
    <2> QED
      BY <1>2, <2>1, <2>3 DEF AtIndexed
  <1>6. AtEnd(was) => AtEnd(f)
    BY <1>2 DEF AtEnd
  <1> QED
    BY <1>2, <1>3, <1>4, <1>5, <1>6 DEF ReaderHolds

LEMMA OpenHolds ==
    ASSUME Structured, NEW was, ReaderHolds(was), was.pc = "log",
           NEW damaged \in BOOLEAN, damaged <=> IsDamaged(was.cells, Len(log)),
           NEW seen, seen = IF damaged THEN <<>>
                            ELSE OpenedLines(was.tail, was.cells, Len(log)),
           NEW f, f = [was EXCEPT !.pc = "open", !.damaged = damaged, !.seen = seen]
    PROVE  ReaderHolds(f)
  <1>1. /\ was \in ReadTypes /\ was.cells \in Nat /\ was.tail \in BOOLEAN
        /\ was.cells <= Len(index) /\ (was.tail => was.cells = Len(index))
    BY ReadFields DEF ReaderHolds, Samples
  <1>2. seen \in Seq(LineEntry)
    BY <1>1, OpenedType DEF Structured
  <1>3. /\ f \in ReadTypes
        /\ f.pc = "open" /\ f.running = was.running /\ f.tail = was.tail
        /\ f.cells = was.cells /\ f.damaged = damaged /\ f.seen = seen
        /\ f.last_seq = was.last_seq /\ f.offset = was.offset
    BY <1>1, <1>2 DEF ReadTypes
  <1>4. damaged => index_torn
    BY <1>1, HealthyLog
  <1>5. Samples(f)
    BY <1>1, <1>3, <1>4 DEF Samples
  <1>6. AtStart(was) => AtStart(f)
    BY <1>3 DEF AtStart
  <1>7. AtIndexed(was) => AtIndexed(f)
    BY <1>3 DEF AtIndexed
  <1>8. AtEnd(was) => AtEnd(f)
    BY <1>3 DEF AtEnd
  <1> QED
    BY <1>3, <1>5, <1>6, <1>7, <1>8 DEF ReaderHolds

(* A reader between two reads.                                             *)
Resting(a, b) == [IdleReader EXCEPT !.last_seq = a, !.offset = b]

LEMMA IdleFields ==
    /\ IdleReader \in ReadTypes /\ IdleReader.pc = "idle" /\ IdleReader.tail = FALSE
    /\ IdleReader.damaged = FALSE /\ IdleReader.last_seq = 0 /\ IdleReader.offset = 0
  <1>1. /\ "idle" \in {"idle", "notices", "index", "log", "open"}
        /\ TRUE \in BOOLEAN /\ FALSE \in BOOLEAN
        /\ <<>> \in Seq(LineEntry) /\ 0 \in Nat
    OBVIOUS
  <1>2. IdleReader \in ReadTypes
    BY <1>1, ZenonT(40) DEF ReadTypes, IdleReader
  <1> QED
    BY <1>2 DEF IdleReader

LEMMA ClosedFields ==
    ASSUME NEW a \in Nat, NEW b \in Nat
    PROVE  /\ Resting(a, b) \in ReadTypes
           /\ Resting(a, b).pc = "idle" /\ Resting(a, b).tail = FALSE
           /\ Resting(a, b).damaged = FALSE
           /\ Resting(a, b).last_seq = a /\ Resting(a, b).offset = b
  BY IdleFields DEF Resting, ReadTypes

LEMMA CloseHolds ==
    ASSUME WriterTypeOK, NEW was, ReaderHolds(was), was.pc = "open", was.tail => Final, NEW f,
           f = IF was.damaged THEN Resting(was.last_seq, was.offset)
               ELSE Resting(Len(was.seen), RecordEnd(was.seen, Len(was.seen)))
    PROVE  ReaderHolds(f)
  <1>0. \A a, b \in Nat :
            /\ Resting(a, b) \in ReadTypes
            /\ Resting(a, b).pc = "idle" /\ Resting(a, b).tail = FALSE
            /\ Resting(a, b).damaged = FALSE
            /\ Resting(a, b).last_seq = a /\ Resting(a, b).offset = b
    BY ClosedFields
  <1>1. was \in ReadTypes
    BY DEF ReaderHolds
  <1>2. /\ was.tail \in BOOLEAN /\ was.cells \in Nat /\ was.damaged \in BOOLEAN
        /\ was.seen \in Seq(LineEntry) /\ was.last_seq \in Nat /\ was.offset \in Nat
    BY <1>1, ReadFields
  <1>3. CASE was.damaged
    <2>1. /\ f \in ReadTypes /\ f.pc = "idle" /\ f.tail = FALSE /\ f.damaged = FALSE
          /\ f.last_seq = was.last_seq /\ f.offset = was.offset
      <3>1. f = Resting(was.last_seq, was.offset)
        BY <1>3
      <3> QED
        <4>1. /\ Resting(was.last_seq, was.offset) \in ReadTypes
              /\ Resting(was.last_seq, was.offset).pc = "idle"
              /\ Resting(was.last_seq, was.offset).tail = FALSE
              /\ Resting(was.last_seq, was.offset).damaged = FALSE
              /\ Resting(was.last_seq, was.offset).last_seq = was.last_seq
              /\ Resting(was.last_seq, was.offset).offset = was.offset
          BY <1>0, <1>2
        <4> QED
          BY <3>1, <4>1
    <2>2. Samples(f)
      BY <2>1 DEF Samples
    <2>3. AtStart(was) => AtStart(f)
      BY <2>1 DEF AtStart
    <2>4. AtIndexed(was) => AtIndexed(f)
      BY <2>1 DEF AtIndexed
    <2>5. AtEnd(was) => AtEnd(f)
      BY <2>1 DEF AtEnd
    <2> QED
      BY <2>1, <2>2, <2>3, <2>4, <2>5 DEF ReaderHolds
  <1>4. CASE ~was.damaged
    <2> DEFINE n == Len(was.seen)
               end == RecordEnd(was.seen, n)
    <2>1. n \in Nat
      BY <1>2
    <2>2. end \in Nat
      <3>1. CASE n = 0
        BY <3>1 DEF RecordEnd
      <3>2. CASE n # 0
        <4>1. was.seen[n] \in LineEntry
          BY <1>2, <2>1, <3>2
        <4> QED
          BY <3>2, <4>1 DEF RecordEnd, LineEntry
      <3> QED
        BY <3>1, <3>2
    <2>3. /\ was.cells <= Len(index) /\ (was.tail => was.cells = Len(index))
          /\ was.seen = OpenedLines(was.tail, was.cells, Len(log))
      BY <1>4 DEF ReaderHolds, Samples
    <2>4. end = RecordEnd(was.seen, n)
      OBVIOUS
    <2> HIDE DEF end
    <2>5. /\ f \in ReadTypes /\ f.pc = "idle" /\ f.tail = FALSE /\ f.damaged = FALSE
          /\ f.last_seq = n /\ f.offset = end
      <3>1. f = Resting(n, end)
        BY <1>4, <2>4
      <3> QED
        <4>1. /\ Resting(n, end) \in ReadTypes
              /\ Resting(n, end).pc = "idle" /\ Resting(n, end).tail = FALSE
              /\ Resting(n, end).damaged = FALSE
              /\ Resting(n, end).last_seq = n /\ Resting(n, end).offset = end
          BY <1>0, <2>1, <2>2
        <4> QED
          BY <3>1, <4>1
    <2>6. Samples(f)
      BY <2>5 DEF Samples
    <2>7. CASE was.tail
      <3>1. was.seen = AllLines
        BY <2>3, <2>7 DEF AllLines
      <3>2. AtEnd(f)
        BY <2>4, <2>5, <2>7, <3>1 DEF AtEnd
      <3> QED
        BY <2>5, <2>6, <3>2 DEF ReaderHolds
    <2>8. CASE ~was.tail
      <3>1. was.seen = [k \in 1..(was.cells \div 3) |-> Decoded(k)] /\ was.cells \div 3 \in Nat
        BY <1>2, <2>3, <2>8, OpenedType
      <3>2. n = was.cells \div 3
        BY <3>1
      <3>3. CASE n = 0
        <4>1. AtStart(f)
          BY <2>4, <2>5, <3>3 DEF AtStart, RecordEnd
        <4> QED
          BY <2>5, <2>6, <4>1 DEF ReaderHolds
      <3>4. CASE n # 0
        <4>1. n \in 1..Indexed
          <5>1. Len(index) \in Nat
            BY DEF WriterTypeOK
          <5> QED
            BY <1>2, <2>1, <2>3, <3>2, <3>4, <5>1 DEF Indexed
        <4>2. was.seen[n] = Decoded(n)
          BY <2>1, <3>1, <3>2, <3>4
        <4>3. end = Decoded(n).record_end
          BY <2>4, <3>4, <4>2 DEF RecordEnd
        <4>4. AtIndexed(f)
          BY <2>5, <4>1, <4>3 DEF AtIndexed
        <4> QED
          BY <2>5, <2>6, <4>4 DEF ReaderHolds
      <3> QED
        BY <3>3, <3>4
    <2> QED
      BY <1>2, <2>7, <2>8
  <1> QED
    BY <1>2, <1>3, <1>4

LEMMA ReadingHold ==
    ASSUME Ending, Structured, ReadersHold, NEW r \in Readers, Reading(r)
    PROVE  ReadersHold'
  <1> DEFINE was == reader[r]
  <1>1. UNCHANGED <<log, index, index_torn, pc, capture_error, output_truncation>>
    BY DEF Reading, FindStatus, ReadNotices, SampleIndex, OpenLog, Close, ReaderSteps,
       files, notices, history
  <1>2. ReaderHolds(was) /\ (was.tail => Final) /\ WriterTypeOK
    BY DEF ReadersHold, Ending, TailsAreFinal, Structured
  <1>4. \E f : reader' = [reader EXCEPT ![r] = f] /\ ReaderHolds(f)
    <2>1. CASE FindStatus(r)
      <3>1. was.pc = "idle" /\ reader' = [reader EXCEPT ![r] =
                [was EXCEPT !.pc = "notices", !.running = (pc # "gone")]]
        BY <2>1 DEF FindStatus, ReaderSteps
      <3> HIDE DEF was
      <3> QED
        BY <1>2, <3>1, FindHolds
    <2>2. CASE ReadNotices(r)
      <3>1. was.pc = "notices" /\ reader' = [reader EXCEPT ![r] = [was EXCEPT !.pc = "index",
               !.tail = \/ ~was.running \/ capture_error # None \/ output_truncation # None]]
        BY <2>2 DEF ReadNotices, ReaderSteps
      <3> HIDE DEF was
      <3> QED
        BY <1>2, <3>1, NoticesHold
    <2>3. CASE SampleIndex(r)
      <3>1. was.pc = "index" /\ reader' = [reader EXCEPT ![r] =
                [was EXCEPT !.pc = "log", !.cells = Len(index)]]
        BY <2>3 DEF SampleIndex, ReaderSteps
      <3> HIDE DEF was
      <3> QED
        BY <1>2, <3>1, SampleHolds
    <2>4. CASE OpenLog(r)
      <3> DEFINE damaged == IsDamaged(was.cells, Len(log))
                 seen == IF damaged THEN <<>> ELSE OpenedLines(was.tail, was.cells, Len(log))
      <3>1. was.pc = "log" /\ reader' = [reader EXCEPT ![r] =
                [was EXCEPT !.pc = "open", !.damaged = damaged, !.seen = seen]]
        BY <2>4 DEF OpenLog, ReaderSteps
      <3>2. damaged \in BOOLEAN
        BY DEF IsDamaged
      <3>3. PICK d \in BOOLEAN, s \in {seen} : d = damaged /\ s = seen
        BY <3>2
      <3>4. /\ d <=> IsDamaged(was.cells, Len(log))
            /\ s = IF d THEN <<>> ELSE OpenedLines(was.tail, was.cells, Len(log))
            /\ reader' = [reader EXCEPT ![r] =
                  [was EXCEPT !.pc = "open", !.damaged = d, !.seen = s]]
        BY <3>1, <3>3
      <3> HIDE DEF was, damaged, seen
      <3> QED
        BY <1>2, <3>1, <3>4, OpenHolds
    <2>5. CASE Close(r)
      <3> DEFINE f == IF was.damaged THEN Resting(was.last_seq, was.offset)
                      ELSE Resting(Len(was.seen), RecordEnd(was.seen, Len(was.seen)))
      <3>1. was.pc = "open" /\ reader' = [reader EXCEPT ![r] = f]
        BY <2>5 DEF Close, ReaderSteps, Resting
      <3> HIDE DEF was
      <3>2. ReaderHolds(f)
        BY <1>2, <3>1, CloseHolds
      <3> QED
        BY <3>1, <3>2
    <2> QED
      BY <2>1, <2>2, <2>3, <2>4, <2>5 DEF Reading
  <1>3. PICK f \in ReadTypes : reader' = [reader EXCEPT ![r] = f] /\ ReaderHolds(f)
    BY <1>4 DEF ReaderHolds
  <1>5. reader' \in [Readers -> ReadTypes]
    BY <1>3 DEF ReadersHold
  <1>6. ASSUME NEW t \in Readers PROVE ReaderHolds(reader[t])'
    <2>1. PICK s \in {reader'[t]} : s = reader'[t]
      OBVIOUS
    <2>2. s = IF t = r THEN f ELSE reader[t]
      BY <1>3, <2>1 DEF ReadersHold
    <2>3. ReaderHolds(s)
      BY <1>3, <2>2 DEF ReadersHold
    <2>4. ReaderHolds(s)'
      BY <1>1, <2>3, HoldsQuiet
    <2> QED
      BY <2>1, <2>4
  <1> QED
    BY <1>5, <1>6 DEF ReadersHold

-----------------------------------------------------------------------------
(***************************************************************************)
(* Readers agree.                                                          *)
(***************************************************************************)
Agreed == Ending /\ Structured /\ Whole /\ Handed /\ ReadersHold

LEMMA AgreedInit == Init => Agreed
  <1> SUFFICES ASSUME Init PROVE Agreed
    OBVIOUS
  <1>1. Ending /\ WriterTypeOK
    BY EndingInit DEF Ending, Limited, Typed
  <1>2. Len(<<>>) = 0 /\ encoding # "wide"
    BY DEF Init, Encoded
  <1>3. Position = 0 /\ MarkLen = 0 /\ Width = 1 /\ Len(lines) = 0 /\ Len(index) = 0
        /\ current_start = 0 /\ lines = <<>> /\ log = <<>>
    BY <1>2 DEF Init, Position, MarkLen, StreamBom, Width, UnitBytes
  <1>4. Structured
    <2>1. Chained /\ CutIsLast /\ IndexHolds /\ Counted
      BY <1>3 DEF Chained, EndOf, CutIsLast, IndexHolds, Counted
    <2>2. \A p \in Nat : ~BreakAt(p)
      BY <1>3 DEF BreakAt
    <2>3. BreaksMatch
      BY <1>3, <2>2 DEF BreaksMatch
    <2>4. Marked
      BY <1>3 DEF Marked
    <2> QED
      BY <1>1, <2>1, <2>3, <2>4 DEF Structured
  <1>5. Whole
    BY <1>2, <1>3 DEF Whole, Aligned, Init
  <1>6. Handed
    BY DEF Init, Handed, BytesFit, EndFits, OpenLineHeld, GoalAtFlush
  <1>7. ReadersHold
    <2>1. ReaderHolds(IdleReader)
      BY IdleFields DEF ReaderHolds, Samples, AtStart
    <2>2. reader = [r \in Readers |-> IdleReader]
      BY DEF Init
    <2> QED
      BY <2>1, <2>2, IdleFields DEF ReadersHold
  <1> QED
    BY <1>1, <1>4, <1>5, <1>6, <1>7 DEF Agreed

LEMMA AgreedStep ==
    ASSUME NoFalseMark, Agreed, [Next]_vars
    PROVE  Agreed'
  <1>1. Ending'
    BY EndingStep DEF Agreed
  <1>2. WriterTypeOK'
    BY <1>1 DEF Ending, Limited, Typed
  <1>3. CASE Work \/ Input \/ Failure
    BY <1>1, <1>2, <1>3, StructuredStep, WholeStep, HandedStep, SupervisorHold DEF Agreed
  <1>4. CASE (\E r \in Readers : Reading(r)) \/ UNCHANGED vars
    <2>1. UNCHANGED <<files, buffer, progress, bytes_since_flush, stream, pc, goal, writer,
                      notices, history>>
      BY <1>4 DEF Reading, FindStatus, ReadNotices, SampleIndex, OpenLog, Close, ReaderSteps,
         vars, files, progress, stream, notices, history
    <2>2. UNCHANGED <<log, index, buffer, lines, current_start, current_has_content, encoding,
                      quota_exceeded, source, open_line, event, pc, goal, writer,
                      capture_error, output_truncation, index_torn>>
      BY <2>1 DEF files, progress, stream, notices, history
    <2>3. Closed' = Closed
      BY <2>2 DEF Closed
    <2>4. Structured'
      BY <1>2, <2>2, <2>3, StructuredQuiet DEF Agreed
    <2>5. Whole'
      BY <2>2 DEF Agreed, Whole, Position, Aligned
    <2>6. GoalAtFlush'
      BY <2>2 DEF Agreed, Handed, GoalAtFlush
    <2>7. Handed'
      BY <2>2, <2>3, <2>6, QuietHanded DEF Agreed
    <2>8. CASE \E r \in Readers : Reading(r)
      BY <1>1, <2>4, <2>5, <2>7, <2>8, ReadingHold DEF Agreed
    <2>9. CASE UNCHANGED vars
      <3>1. reader' = reader
        BY <2>9 DEF vars
      <3>2. ASSUME NEW r \in Readers PROVE ReaderHolds(reader[r])'
        <4>1. PICK s \in {reader[r]} : s = reader[r]
          OBVIOUS
        <4>2. ReaderHolds(s)'
          BY <2>2, <4>1, HoldsQuiet DEF Agreed, ReadersHold
        <4> QED
          BY <3>1, <4>1, <4>2
      <3>3. ReadersHold'
        BY <3>1, <3>2 DEF Agreed, ReadersHold
      <3> QED
        BY <1>1, <2>4, <2>5, <2>7, <3>3 DEF Agreed
    <2> QED
      BY <1>4, <2>8, <2>9
  <1> QED
    BY <1>3, <1>4 DEF Next

LEMMA SameLinesSeen ==
    ASSUME Structured, ~index_torn, NEW s, ReaderHolds(s), s.pc = "open", ~s.damaged,
           s.tail => Len(log) - IndexedEnd(s.cells, Len(log)) <= MaxRecovery
    PROVE  SameLines(s.seen, s.tail)
  <1>1. /\ s.tail \in BOOLEAN /\ s.cells \in Nat /\ s.cells <= Len(index)
        /\ s.tail => s.cells = Len(index)
        /\ s.seen = OpenedLines(s.tail, s.cells, Len(log))
    BY ReadFields DEF ReaderHolds, Samples
  <1>2. /\ Indexed \in 0..Len(lines) /\ Len(lines) \in Nat /\ Len(index) \in Nat
        /\ \A k \in 1..Indexed : Decoded(k) = lines[k]
    BY DecodedIs, LineFacts DEF Structured, WriterTypeOK
  <1>3. CASE ~s.tail
    <2>1. s.seen = [k \in 1..(s.cells \div 3) |-> Decoded(k)] /\ s.cells \div 3 \in Nat
      BY <1>1, <1>3, OpenedType DEF Structured
    <2>2. s.cells \div 3 <= Indexed
      BY <1>1, <1>2 DEF Indexed
    <2>3. Len(s.seen) = s.cells \div 3 /\ Len(s.seen) <= Len(lines)
      BY <1>2, <2>1, <2>2
    <2>4. ASSUME NEW i \in 1..Len(s.seen) PROVE s.seen[i] = lines[i]
      <3>1. i \in 1..(s.cells \div 3) /\ i \in 1..Indexed
        BY <1>2, <2>1, <2>2, <2>3
      <3> QED
        BY <1>2, <2>1, <3>1
    <2> QED
      BY <1>2, <1>3, <2>3, <2>4 DEF SameLines
  <1>4. CASE s.tail
    <2>1. s.seen = AllLines /\ TailIsShort
      BY <1>1, <1>4 DEF AllLines, TailIsShort
    <2>2. PICK m \in Indexed..Len(lines), more \in BOOLEAN : Found(m, more)
      BY <2>1, AllLinesAre
    <2>3. m \in Nat /\ m <= Len(lines) /\ Len(s.seen) = IF more THEN m + 1 ELSE m
      BY <1>2, <2>1, <2>2 DEF Found
    <2>4. Len(s.seen) <= Len(lines) + 1
      BY <1>2, <2>3
    <2>5. ASSUME NEW i \in 1..Len(s.seen), i <= Len(lines)
          PROVE  \/ s.seen[i] = lines[i]
                 \/ s.tail /\ i = Len(s.seen) /\ CutFrom(s.seen[i], lines[i])
      <3>1. CASE i <= m
        <4>1. i \in 1..m
          BY <2>3, <3>1
        <4> QED
          BY <2>1, <2>2, <4>1 DEF Found
      <3>2. CASE ~ (i <= m)
        <4>1. more /\ i = m + 1 /\ i = Len(s.seen) /\ m < Len(lines) /\ i \in 1..Len(lines)
              /\ i - 1 = m
          BY <1>2, <2>3, <2>5, <3>2
        <4>2. s.seen[i] = RestOf(m) /\ Len(log) <= lines[i].record_end
          BY <2>1, <2>2, <4>1 DEF Found
        <4>3. lines[i].start = EndOf(m)
          BY <4>1 DEF Structured, Chained
        <4> QED
          BY <1>4, <4>1, <4>2, <4>3 DEF CutFrom, RestOf
      <3> QED
        BY <3>1, <3>2
    <2> QED
      BY <1>4, <2>4, <2>5 DEF SameLines
  <1> QED
    BY <1>1, <1>3, <1>4

LEMMA CursorIsFresh ==
    ASSUME WriterTypeOK, NEW s, ReaderHolds(s), s.pc = "open", ~s.damaged
    PROVE  s.last_seq <= Len(s.seen) /\ RecordEnd(s.seen, s.last_seq) = s.offset
  <1>1. /\ s.tail \in BOOLEAN /\ s.cells \in Nat /\ s.cells <= Len(index)
        /\ s.tail => s.cells = Len(index)
        /\ s.seen = OpenedLines(s.tail, s.cells, Len(log)) /\ s.last_seq \in Nat
    BY ReadFields DEF ReaderHolds, Samples
  <1>2. /\ Len(s.seen) \in Nat /\ s.cells \div 3 \in Nat /\ s.cells \div 3 <= Len(s.seen)
        /\ \A k \in 1..(s.cells \div 3) : s.seen[k] = Decoded(k)
    BY <1>1, OpenedType
  <1>3. CASE AtStart(s)
    BY <1>2, <1>3 DEF AtStart, RecordEnd
  <1>4. CASE AtIndexed(s)
    <2>1. s.last_seq \in 1..Indexed /\ s.offset = Decoded(s.last_seq).record_end
          /\ s.last_seq <= s.cells \div 3
      BY <1>4 DEF AtIndexed
    <2>2. s.last_seq \in 1..(s.cells \div 3) /\ s.last_seq # 0
      BY <1>1, <1>2, <2>1
    <2>3. RecordEnd(s.seen, s.last_seq) = s.offset
      BY <1>2, <2>1, <2>2 DEF RecordEnd
    <2> QED
      BY <1>1, <1>2, <2>1, <2>3
  <1>5. CASE AtEnd(s)
    <2>1. s.tail
      BY <1>5 DEF AtEnd
    <2>2. s.seen = AllLines
      BY <1>1, <2>1 DEF AllLines
    <2> QED
      BY <1>1, <1>2, <1>5, <2>2 DEF AtEnd
  <1> QED
    BY <1>3, <1>4, <1>5 DEF ReaderHolds

(* Every reader sees one and the same log, however its reads fall between  *)
(* the writes of the supervisor.                                           *)
LEMMA AgreedMeansAgree == Agreed => ReadersAgree
  <1> SUFFICES ASSUME Agreed PROVE ReadersAgree
    OBVIOUS
  <1>1. TypeOK
    BY DEF Agreed, Structured, ReadersHold, TypeOK
  <1>2. HealthyIndex
    BY DEF Agreed, ReadersHold, ReaderHolds, Samples, HealthyIndex
  <1>3. LinesKeepTheirNumbers
    BY SameLinesSeen DEF Agreed, ReadersHold, LinesKeepTheirNumbers, TailLength
  <1>4. CursorsStayValid
    <2> SUFFICES ASSUME NEW r \in Readers, reader[r].pc = "open", ~reader[r].damaged
                 PROVE  ~CursorIsStale(r)
      BY DEF CursorsStayValid
    <2>1. PICK s \in {reader[r]} : s = reader[r]
      OBVIOUS
    <2>2. ReaderHolds(s) /\ WriterTypeOK
      BY <2>1 DEF Agreed, ReadersHold, Structured
    <2>3. s.last_seq <= Len(s.seen) /\ RecordEnd(s.seen, s.last_seq) = s.offset
      BY <2>1, <2>2, CursorIsFresh
    <2>4. s.last_seq \in Nat /\ Len(s.seen) \in Nat
      BY <2>2, ReadFields DEF ReaderHolds
    <2> QED
      BY <2>1, <2>3, <2>4 DEF CursorIsStale
  <1> QED
    BY <1>1, <1>2, <1>3, <1>4 DEF ReadersAgree

THEOREM Agreement == ASSUME NoFalseMark PROVE Spec => []ReadersAgree
  <1>1. Init => Agreed
    BY AgreedInit
  <1>2. Agreed /\ [Next]_vars => Agreed'
    BY AgreedStep
  <1>3. Agreed => ReadersAgree
    BY AgreedMeansAgree
  <1> QED
    BY <1>1, <1>2, <1>3, PTL DEF Spec

-----------------------------------------------------------------------------
(***************************************************************************)
(* What the end of the job leaves behind.                                  *)
(***************************************************************************)
(* The writer seals the line in progress before it flushes for the end.    *)
FinishSealed == pc = "flush_log" /\ goal = "finish" => ~current_has_content

(* The exit is recorded after everything has been written, or after the    *)
(* notice that something has not.                                          *)
ExitHolds == pc = "exit" /\ writer = "open" => NothingHeld /\ ~current_has_content

DroppedTold == writer = "dropped" /\ pc \notin {"record", "gone"} => capture_error # None

ExitTrue ==
    exit # None =>
        /\ pc = "gone"
        /\ capture_error = None =>
              writer = "open" /\ exit = Len(lines) /\ NothingHeld /\ ~current_has_content

Concluded == FinishSealed /\ ExitHolds /\ DroppedTold /\ ExitTrue

LEMMA ConcludedStep ==
    ASSUME Ending, GoalAtFlush, Concluded, Work \/ Input \/ Failure
    PROVE  Concluded'
  <1>1. pc # "gone" /\ WriterTypeOK
    BY FinalStays DEF Ending, Limited, Typed
  <1>2. exit = None
    BY <1>1 DEF Concluded, ExitTrue
  <1>3. ASSUME exit' = exit, pc' \notin {"flush_log", "exit"}, writer' = writer,
               capture_error' = capture_error,
               pc \in {"record", "gone"} => pc' \in {"record", "gone"}
        PROVE  Concluded'
    BY <1>2, <1>3 DEF Concluded, FinishSealed, ExitHolds, DroppedTold, ExitTrue
  <1>4. CASE Input
    BY <1>3, <1>4 DEF Input, ReceiveStart, ReceiveBytes, ReceiveLineEnd, ReceiveHalfUnit,
       ReceiveEnd, Receive, notices
  <1>5. CASE Spill \/ RecordTruncation \/ Crash
    BY <1>3, <1>5 DEF Spill, RecordTruncation, Crash, notices
  <1>6. CASE AppendStart \/ AppendBytes \/ AppendLineEnd
    <2>1. /\ exit' = exit /\ writer' = writer /\ capture_error' = capture_error
          /\ pc = "append" /\ pc' \in {"ready", "flush_log"}
          /\ pc' = "flush_log" => goal' = "append"
      BY <1>6 DEF AppendStart, AppendBytes, AppendLineEnd, AfterAppend
    <2> QED
      BY <1>2, <2>1 DEF Concluded, FinishSealed, ExitHolds, DroppedTold, ExitTrue
  <1>7. CASE FlushLog \/ FlushIndex \/ FlushIfIdle
    <2>1. /\ exit' = exit /\ writer' = writer /\ capture_error' = capture_error
          /\ current_has_content' = current_has_content /\ pc' = "flush_log"
          /\ \/ goal' = goal /\ pc = "flush_log"
             \/ goal' = "idle" /\ writer = "open"
      BY <1>7 DEF FlushLog, FlushIndex, FlushIfIdle, notices, progress
    <2> QED
      BY <1>2, <2>1 DEF Concluded, FinishSealed, ExitHolds, DroppedTold, ExitTrue
  <1>8. CASE FlushDone
    <2>1. /\ exit' = exit /\ writer' = writer /\ capture_error' = capture_error
          /\ current_has_content' = current_has_content /\ pc = "flush_log"
          /\ buffer' = <<>> /\ durable_lines' = Len(lines) /\ lines' = lines
          /\ pc' = AfterFlush
      BY <1>8 DEF FlushDone, notices
    <2>2. Len(lines) \in Nat
      BY <1>1 DEF WriterTypeOK
    <2>3. NothingHeld'
      <3>1. PendingNumbers' = 3 * (Len(lines) - Len(lines))
        BY <2>1 DEF PendingNumbers
      <3> QED
        BY <2>1, <2>2, <3>1 DEF NothingHeld
    <2>4. goal \in {"append", "idle", "finish", "capture"}
      BY <1>1, <2>1 DEF Ending, Limited, Typed, EventAtHand, WriterTypeOK
    <2>5. pc' \in {"notice", "ready", "exit", "drop"} /\ (pc' = "exit" => goal = "finish")
      BY <2>1, <2>4 DEF AfterFlush
    <2>6. exit' = None /\ FinishSealed' /\ DroppedTold'
      BY <1>2, <2>1, <2>5 DEF Concluded, FinishSealed, DroppedTold
    <2>7. ExitHolds'
      BY <2>1, <2>3, <2>5 DEF Concluded, FinishSealed, ExitHolds
    <2> QED
      BY <2>6, <2>7 DEF Concluded, ExitTrue
  <1>9. CASE DropWriter
    <2>1. exit' = exit /\ pc' = "record"
      BY <1>9 DEF DropWriter
    <2> QED
      BY <1>2, <2>1 DEF Concluded, FinishSealed, ExitHolds, DroppedTold, ExitTrue
  <1>10. CASE RecordCapture
    <2>1. exit' = exit /\ pc' # "flush_log" /\ writer' = writer /\ writer = "dropped"
          /\ capture_error' # None
      BY <1>1, <1>10 DEF RecordCapture, Ending, Settled, CaptureDropped, WriterTypeOK
    <2> QED
      BY <1>2, <2>1 DEF Concluded, FinishSealed, ExitHolds, DroppedTold, ExitTrue
  <1>11. CASE Finish
    <2>1. exit' = exit /\ writer' = writer /\ capture_error' = capture_error /\ pc = "ready"
      BY <1>11 DEF Finish, notices
    <2>2. CASE writer = "open"
      <3>1. pc' = "flush_log" /\ goal' = "finish" /\ ~current_has_content'
        BY <1>1, <1>11, <2>2 DEF Finish, Seal, CommitLine, KeepLine, WriterTypeOK
      <3> QED
        BY <1>2, <2>1, <2>2, <3>1 DEF Concluded, FinishSealed, ExitHolds, DroppedTold, ExitTrue
    <2>3. CASE writer # "open"
      <3>1. pc' = "exit"
        BY <1>11, <2>3 DEF Finish
      <3> QED
        BY <1>2, <2>1, <2>3, <3>1 DEF Concluded, FinishSealed, ExitHolds, DroppedTold, ExitTrue
    <2> QED
      BY <2>2, <2>3
  <1>12. CASE CaptureFails \/ WriteFails
    <2>1. /\ exit' = exit /\ writer' = writer /\ capture_error' = capture_error
          /\ pc' \in {"flush_log", "drop"} /\ (pc' = "flush_log" => goal' = "capture")
          /\ pc \notin {"record", "gone"}
      BY <1>12 DEF CaptureFails, WriteFails, Seal, notices
    <2> QED
      BY <1>2, <2>1 DEF Concluded, FinishSealed, ExitHolds, DroppedTold, ExitTrue
  <1>13. CASE RecordExit
    <2>1. /\ pc = "exit" /\ pc' = "gone" /\ UNCHANGED <<writer, capture_error, buffer, lines,
                                         durable_lines, current_has_content>>
          /\ writer = "open" => exit' = Len(lines)
      BY <1>13 DEF RecordExit, progress
    <2>2. NothingHeld' = NothingHeld
      BY <2>1 DEF NothingHeld, PendingNumbers
    <2>3. capture_error = None => writer = "open" /\ NothingHeld /\ ~current_has_content
      BY <1>1, <2>1 DEF Concluded, DroppedTold, ExitHolds, WriterTypeOK
    <2> QED
      BY <2>1, <2>2, <2>3 DEF Concluded, FinishSealed, ExitHolds, DroppedTold, ExitTrue
  <1> QED
    BY <1>4, <1>5, <1>6, <1>7, <1>8, <1>9, <1>10, <1>11, <1>12, <1>13 DEF Work, Failure

(* What the truncation notice counts are all lines, and nothing follows.   *)
TruncationTrue ==
    output_truncation # None => output_truncation = Len(lines) /\ Position = current_start

LEMMA NothingAdded ==
    ASSUME Ending, quota_exceeded, NothingHeld, Work \/ Input \/ Failure
    PROVE  UNCHANGED <<lines, current_start>> /\ Position' = Position
  <1>1. WriterTypeOK /\ ~current_has_content /\ buffer = <<>>
    BY DEF Ending, Limited, Typed, Settled, FullIsSealed, NothingHeld
  <1>2. ASSUME log' = log, buffer' = buffer PROVE Position' = Position
    BY <1>2 DEF Position
  <1>3. CASE Spill \/ FlushLog
    BY <1>1, <1>3 DEF Spill, FlushLog
  <1>4. CASE AppendStart \/ AppendBytes \/ AppendLineEnd
    <2>1. KeepLine /\ buffer' = buffer
      BY <1>4, NothingWritten DEF Ending
    <2>2. log' = log
      BY <1>4 DEF AppendStart, AppendBytes, AppendLineEnd, AfterAppend, files
    <2> QED
      BY <1>2, <2>1, <2>2 DEF KeepLine
  <1>5. CASE DropWriter \/ Crash
    <2>1. Len(buffer) = 0 /\ Prefixes = {} /\ log \o SubSeq(buffer, 1, 0) = log
          /\ SubSeq(buffer, 1, Len(buffer)) = <<>>
      BY <1>1, NothingToWrite
    <2>2. log' = log
      BY <1>5, <2>1 DEF DropWriter, Crash, WriteOut
    <2>3. buffer' = <<>>
      <3>1. SubSeq(buffer, 1, 0) = <<>>
        BY <2>1
      <3> QED
        BY <1>1, <1>5, <2>1, <3>1 DEF DropWriter, Crash, WriteOut
    <2> QED
      BY <1>1, <1>2, <1>5, <2>2, <2>3 DEF DropWriter, Crash, progress
  <1>6. CASE Finish \/ CaptureFails \/ WriteFails
    <2>1. KeepLine /\ log' = log /\ buffer' = buffer
      BY <1>1, <1>6 DEF Finish, CaptureFails, WriteFails, Seal, files
    <2> QED
      BY <1>2, <2>1 DEF KeepLine
  <1>7. CASE FlushIndex \/ FlushDone \/ FlushIfIdle \/ RecordTruncation \/ RecordCapture
             \/ RecordExit \/ Input
    BY <1>2, <1>7 DEF FlushIndex, FlushDone, FlushIfIdle, RecordTruncation, RecordCapture,
       RecordExit, Input, ReceiveStart, ReceiveBytes, ReceiveLineEnd, ReceiveHalfUnit,
       ReceiveEnd, Receive, files, progress
  <1> QED
    BY <1>3, <1>4, <1>5, <1>6, <1>7 DEF Work, Failure

LEMMA TruncationStep ==
    ASSUME Ending, Structured, Whole, TruncationTrue, Work \/ Input \/ Failure
    PROVE  TruncationTrue'
  <1>1. output_truncation # None \/ pc = "notice" => quota_exceeded /\ NothingHeld
    BY DEF Ending, Settled, TruncationFlushed
  <1>2. CASE RecordTruncation
    <2>1. quota_exceeded /\ NothingHeld /\ output_truncation' = Len(lines)
      BY <1>1, <1>2 DEF RecordTruncation
    <2>2. UNCHANGED <<lines, current_start>> /\ Position' = Position
      BY <2>1, NothingAdded
    <2>3. writer = "open" /\ ~current_has_content
      BY <1>2, <2>1 DEF RecordTruncation, Ending, Limited, Typed, WriterTypeOK, Settled,
         DroppedIsIdle, FullIsSealed
    <2>4. Position = current_start
      BY <2>3, PositionFacts DEF Structured, Whole
    <2> QED
      BY <2>1, <2>2, <2>4 DEF TruncationTrue
  <1>3. CASE ~RecordTruncation
    <2>1. output_truncation' = output_truncation
      BY <1>3 DEF Work, Input, Failure, Spill, AppendStart, AppendBytes, AppendLineEnd,
       AfterAppend, FlushLog, FlushIndex, FlushDone, FlushIfIdle, RecordCapture,
       DropWriter, Finish, RecordExit, ReceiveStart, ReceiveBytes, ReceiveLineEnd,
       ReceiveHalfUnit, ReceiveEnd, Receive, CaptureFails, WriteFails, Crash, notices
    <2>2. output_truncation # None =>
             UNCHANGED <<lines, current_start>> /\ Position' = Position
      BY <1>1, NothingAdded
    <2> QED
      BY <2>1, <2>2 DEF TruncationTrue
  <1> QED
    BY <1>2, <1>3

-----------------------------------------------------------------------------
(***************************************************************************)
(* The count of a failed capture.                                          *)
(***************************************************************************)
LEMMA LogGrows ==
    ASSUME Ending, Structured, Work \/ Input \/ Failure
    PROVE  /\ LinesKept /\ Len(log') >= Len(log) /\ Len(log) \in Nat /\ Len(log') \in Nat
           /\ Len(lines) \in Nat
  <1>1. Len(log) \in Nat /\ Len(lines) \in Nat /\ Position \in Nat /\ WriterTypeOK /\ Typed
    BY PositionFacts DEF Structured, Ending, Limited
  <1>2. LinesKept
    <2>1. KeepLine \/ lines' = lines => LinesKept
      BY <1>1 DEF KeepLine, LinesKept
    <2>2. ASSUME NEW a \in Nat, NEW c \in Nat, CommitLine(a, c) PROVE LinesKept
      BY <2>2, Committed
    <2>3. ASSUME NEW why, Seal(why) PROVE LinesKept
      BY <1>1, <2>1, <2>2, <2>3 DEF Seal
    <2>4. CASE AppendStart \/ AppendBytes \/ AppendLineEnd
      <3>1. Written(event) \in Seq(Symbols) /\ Len(Written(event)) \in Nat
        BY <1>1, <2>4, WrittenType DEF AppendStart, AppendBytes, AppendLineEnd, Typed, EventAtHand
      <3>2. Position + Len(Written(event)) \in Nat
        BY <1>1, <3>1
      <3> QED
        BY <1>1, <2>1, <2>2, <2>4, <3>2 DEF AppendStart, AppendBytes, AppendLineEnd
    <2>5. CASE Finish \/ CaptureFails \/ WriteFails
      BY <2>1, <2>3, <2>5 DEF Finish, CaptureFails, WriteFails
    <2>6. CASE Input \/ Spill \/ FlushLog \/ FlushIndex \/ FlushDone \/ FlushIfIdle
               \/ RecordTruncation \/ DropWriter \/ RecordCapture \/ RecordExit \/ Crash
      BY <2>1, <2>6 DEF Input, ReceiveStart, ReceiveBytes, ReceiveLineEnd, ReceiveHalfUnit,
         ReceiveEnd, Receive, Spill, FlushLog, FlushIndex, FlushDone, FlushIfIdle,
         RecordTruncation, DropWriter, RecordCapture, RecordExit, Crash, progress
    <2> QED
      BY <2>4, <2>5, <2>6 DEF Work, Failure
  <1>3. Len(log') >= Len(log) /\ Len(log') \in Nat
    <2>1. CASE Spill \/ FlushLog \/ DropWriter \/ Crash
      <3>1. PICK k \in 0..Len(buffer) : Writes(k)
        <4>1. \A k \in {0, Len(buffer)} \cup Prefixes : k \in 0..Len(buffer)
          BY <1>1, PrefixesType
        <4> QED
          BY <2>1, <4>1 DEF Spill, FlushLog, DropWriter, Crash, WriteOut, Writes
      <3>2. log' \in Seq(Symbols) /\ Len(log') >= Len(log)
        BY <1>1, <3>1, WritesType
      <3> QED
        BY <3>2
    <2>2. CASE Input \/ AppendStart \/ AppendBytes \/ AppendLineEnd \/ FlushIndex \/ FlushDone
               \/ FlushIfIdle \/ RecordTruncation \/ RecordCapture \/ Finish \/ RecordExit
               \/ CaptureFails \/ WriteFails
      <3>1. log' = log
        BY <2>2 DEF Input, ReceiveStart, ReceiveBytes, ReceiveLineEnd, ReceiveHalfUnit,
           ReceiveEnd, Receive, AppendStart, AppendBytes, AppendLineEnd, AfterAppend,
           FlushIndex, FlushDone, FlushIfIdle, RecordTruncation, RecordCapture, Finish,
           RecordExit, CaptureFails, WriteFails, files
      <3> QED
        BY <1>1, <3>1
    <2> QED
      BY <2>1, <2>2 DEF Work, Failure
  <1> QED
    BY <1>1, <1>2, <1>3

(* So many lines are in the log to their last byte.                        *)
Preserved(t) ==
    ~index_torn => t \in 0..Len(lines) /\ (t >= 1 => lines[t].record_end <= Len(log))

(* The notice of a failed capture counts lines that are in the log.        *)
Kept == /\ pc = "record" => Preserved(total)
        /\ capture_error # None => Preserved(capture_error)

LEMMA PreservedStays ==
    ASSUME Ending, Structured, Work \/ Input \/ Failure, NEW t, Preserved(t)
    PROVE  Preserved(t)'
  <1>1. /\ LinesKept /\ Len(log') >= Len(log) /\ Len(log) \in Nat /\ Len(log') \in Nat
        /\ Len(lines) \in Nat
    BY LogGrows
  <1>2. SUFFICES ASSUME ~index_torn' PROVE Preserved(t)'
    BY DEF Preserved
  <1>3. t \in 0..Len(lines) /\ (t >= 1 => lines[t].record_end <= Len(log))
    BY <1>2, TornStays DEF Preserved
  <1>4. Len(lines') \in Nat /\ t \in 0..Len(lines')
    <2>1. Ending'
      BY EndingStep DEF Next
    <2>2. Len(lines') \in Nat
      BY <2>1 DEF Ending, Limited, Typed, WriterTypeOK
    <2> QED
      BY <1>1, <1>3, <2>2 DEF LinesKept
  <1>5. ASSUME t >= 1 PROVE lines'[t].record_end <= Len(log')
    <2>1. t \in 1..Len(lines) /\ lines'[t] = lines[t] /\ lines[t].record_end \in Nat
      BY <1>1, <1>3, <1>5, LineFacts DEF LinesKept
    <2> QED
      BY <1>1, <1>3, <1>5, <2>1
  <1> QED
    BY <1>4, <1>5 DEF Preserved

LEMMA DropPreserves ==
    ASSUME Ending, Structured, DropWriter
    PROVE  Preserved(PreservedLines)
  <1> SUFFICES ASSUME ~index_torn PROVE Preserved(PreservedLines)
    BY DEF Preserved
  <1> DEFINE d == durable_lines
             S == {i \in (d + 1)..Len(lines) : lines[i].record_end <= Len(log)}
             n == Cardinality(S)
             t == d + n
  <1>1. d \in 0..Len(lines) /\ Len(lines) \in Nat /\ Len(log) \in Nat /\ Len(index) \in Nat
        /\ index_written \in Nat
    BY PositionType, PositionFacts DEF Structured, WriterTypeOK, Ending, Limited
  <1>2. d >= 1 => lines[d].record_end <= Len(log)
    <2>1. Len(index) = 3 * d + index_written
      BY DEF Ending, Limited, IndexIsCounted
    <2>2. d >= 1 => d \in 1..Indexed
      BY <1>1, <2>1 DEF Indexed
    <2> QED
      BY <2>2, DecodedIs
  <1>3. IsFiniteSet(S) /\ n \in Nat /\ n <= Len(lines) - d
    <2>0. d + 1 \in Int /\ Len(lines) \in Int
      BY <1>1
    <2>1. IsFiniteSet((d + 1)..Len(lines))
      BY <2>0, FS_Interval
    <2>4. Cardinality((d + 1)..Len(lines)) =
             IF d + 1 > Len(lines) THEN 0 ELSE Len(lines) - (d + 1) + 1
      BY <2>0, FS_Interval
    <2>2. Cardinality((d + 1)..Len(lines)) = Len(lines) - d
      BY <1>1, <2>4
    <2>3. IsFiniteSet(S) /\ n <= Cardinality((d + 1)..Len(lines))
      BY <2>1, FS_Subset
    <2> QED
      BY <2>2, <2>3, FS_CardinalityType
  <1> HIDE DEF n
  <1>4. t \in 0..Len(lines)
    BY <1>1, <1>3
  <1>5. ASSUME t >= 1 PROVE lines[t].record_end <= Len(log)
    <2>1. CASE n = 0
      BY <1>1, <1>2, <1>5, <2>1
    <2>2. CASE n # 0
      <3>1. t \in 1..Len(lines) /\ t \in (d + 1)..Len(lines) /\ t - 1 \in Int /\ t \in Nat
        BY <1>1, <1>3, <1>4, <1>5, <2>2
      <3>2. SUFFICES ASSUME ~(lines[t].record_end <= Len(log)) PROVE FALSE
        OBVIOUS
      <3> HIDE DEF t, d
      <3>3. ASSUME NEW i \in S PROVE i \in (d + 1)..(t - 1)
        <4>1. i \in (d + 1)..Len(lines) /\ lines[i].record_end <= Len(log)
          OBVIOUS
        <4>2. i \in 1..Len(lines)
          BY <1>1, <4>1
        <4>3. lines[i].record_end \in Nat /\ lines[t].record_end \in Nat
              /\ EndOf(t) = lines[t].record_end
          BY <3>1, <4>2, LineFacts
        <4>4. i # t
          BY <3>2, <4>1
        <4>5. ~(t < i)
          <5>1. ASSUME t < i PROVE FALSE
            <6>1. t \in 0..Len(lines)
              BY <3>1
            <6>2. EndOf(t) < lines[i].record_end
              BY <4>2, <5>1, <6>1, LaterBegins
            <6> QED
              BY <1>1, <3>2, <4>1, <4>3, <6>2
          <5> QED
            BY <5>1
        <4> QED
          BY <1>1, <3>1, <4>1, <4>4, <4>5
      <3>4. S \subseteq (d + 1)..(t - 1)
        BY <3>3
      <3>5. IsFiniteSet((d + 1)..(t - 1)) /\ Cardinality((d + 1)..(t - 1)) = t - 1 - d
        <4>1. d + 1 \in Int /\ t - 1 \in Int
          BY <1>1, <3>1
        <4>2. IsFiniteSet((d + 1)..(t - 1))
          BY <4>1, FS_Interval
        <4>3. Cardinality((d + 1)..(t - 1)) =
                 IF d + 1 > t - 1 THEN 0 ELSE t - 1 - (d + 1) + 1
          BY <4>1, FS_Interval
        <4> QED
          BY <1>1, <3>1, <4>2, <4>3
      <3>6. n <= t - 1 - d
        BY <3>4, <3>5, FS_Subset DEF n
      <3>7. t = d + n
        BY DEF t
      <3> QED
        BY <1>1, <1>3, <3>6, <3>7
    <2> QED
      BY <2>1, <2>2
  <1>6. PreservedLines = t
    BY DEF PreservedLines, n
  <1> QED
    BY <1>4, <1>5, <1>6 DEF Preserved

LEMMA KeptStep ==
    ASSUME Ending, Structured, Kept, Work \/ Input \/ Failure
    PROVE  Kept'
  <1>1. \A t : Preserved(t) => Preserved(t)'
    BY PreservedStays
  <1>2. CASE DropWriter
    <2>1. PICK t \in {PreservedLines} : t = PreservedLines
      OBVIOUS
    <2>2. Preserved(t)'
      BY <1>1, <1>2, <2>1, DropPreserves
    <2>3. total' = t /\ capture_error' = capture_error
      BY <1>2, <2>1 DEF DropWriter
    <2>4. PICK u \in {capture_error} : u = capture_error
      OBVIOUS
    <2>5. capture_error # None => Preserved(u)'
      BY <1>1, <2>4 DEF Kept
    <2>6. Preserved(total)'
      BY <2>2, <2>3 DEF Preserved
    <2>7. capture_error' # None => Preserved(capture_error)'
      BY <2>3, <2>4, <2>5 DEF Preserved
    <2> QED
      BY <2>6, <2>7 DEF Kept
  <1>3. CASE RecordCapture
    <2>1. PICK t \in {total} : t = total
      OBVIOUS
    <2>2. Preserved(t)' /\ capture_error' = t /\ pc' # "record"
      BY <1>1, <1>3, <2>1 DEF RecordCapture, Kept
    <2>3. Preserved(capture_error)'
      BY <2>2 DEF Preserved
    <2> QED
      BY <2>2, <2>3 DEF Kept
  <1>4. CASE ~DropWriter /\ ~RecordCapture
    <2>1. capture_error' = capture_error /\ (pc' = "record" => pc = "record" /\ total' = total)
      <3>1. CASE Input
        BY <3>1 DEF Input, ReceiveStart, ReceiveBytes, ReceiveLineEnd,
           ReceiveHalfUnit, ReceiveEnd, Receive, notices
      <3>2. CASE AppendStart \/ AppendBytes \/ AppendLineEnd
        BY <3>2 DEF AppendStart, AppendBytes, AppendLineEnd, AfterAppend
      <3>3. CASE FlushDone
        <4>1. goal \in {"append", "idle", "finish", "capture"}
          BY <3>3 DEF FlushDone, Ending, Limited, Typed, EventAtHand, WriterTypeOK
        <4> QED
          BY <3>3, <4>1 DEF FlushDone, AfterFlush, notices
      <3>4. CASE Spill \/ FlushLog \/ FlushIndex \/ FlushIfIdle \/ RecordTruncation
                 \/ Finish \/ RecordExit \/ Failure
        BY <3>4 DEF Spill, FlushLog, FlushIndex, FlushIfIdle, RecordTruncation, Finish,
           RecordExit, Failure, CaptureFails, WriteFails, Crash, Seal, notices
      <3> QED
        BY <1>4, <3>1, <3>2, <3>3, <3>4 DEF Work
    <2>2. PICK t \in {total} : t = total
      OBVIOUS
    <2>3. PICK u \in {capture_error} : u = capture_error
      OBVIOUS
    <2>4. pc' = "record" => Preserved(t)' /\ total' = t
      BY <1>1, <2>1, <2>2 DEF Kept
    <2>5. capture_error' # None => Preserved(u)' /\ capture_error' = u
      BY <1>1, <2>1, <2>3 DEF Kept
    <2> QED
      BY <2>4, <2>5 DEF Kept, Preserved
  <1> QED
    BY <1>2, <1>3, <1>4

-----------------------------------------------------------------------------
(***************************************************************************)
(* A job at its limit is full.                                             *)
(***************************************************************************)
(* The two files together only grow while there is a writer.               *)
LEMMA CombinedGrows ==
    ASSUME Ending, Structured, Work \/ Input \/ Failure, ~DropWriter
    PROVE  /\ CombinedBytes \in Nat /\ CombinedBytes' \in Nat
           /\ Position \in Nat /\ Position' \in Nat /\ Position' >= Position
           /\ CombinedBytes' >= CombinedBytes + (Position' - Position)
           /\ CombinedBytes' >= CombinedBytes
  <1>1. LinesKept /\ Typed /\ WriterTypeOK /\ Limited
    BY LogGrows DEF Ending, Limited, Structured
  <1>2. Ending'
    BY EndingStep DEF Next
  <1>3. /\ Position \in Nat /\ CombinedBytes \in Nat /\ Len(lines) \in Nat
        /\ Position' \in Nat /\ CombinedBytes' \in Nat /\ Len(lines') \in Nat
    <2>1. Position \in Nat /\ CombinedBytes \in Nat /\ Len(lines) \in Nat
      BY <1>1, PositionType
    <2>2. Len(log') \in Nat /\ Len(buffer') \in Nat /\ Len(lines') \in Nat
      <3>1. WriterTypeOK'
        BY <1>2 DEF Ending, Limited, Typed
      <3>2. log' \in Seq(Symbols) /\ buffer' \in Seq(Symbols) /\ lines' \in Seq(LineEntry)
        BY <3>1 DEF WriterTypeOK
      <3> QED
        BY <3>2
    <2>3. Position' = Len(log') + Len(buffer')
      BY DEF Position
    <2>4. CombinedBytes' = Position' + 1 + 3 * Len(lines')
      BY DEF CombinedBytes
    <2> QED
      BY <2>1, <2>2, <2>3, <2>4
  <1>4. Position' >= Position
    <2>1. CASE Spill \/ FlushLog \/ Crash
      <3>1. PICK k \in 0..Len(buffer) :
               Writes(k) /\ buffer' = SubSeq(buffer, k + 1, Len(buffer))
        <4>1. \A k \in {0, Len(buffer)} \cup Prefixes : k \in 0..Len(buffer)
          BY <1>1, PrefixesType
        <4> QED
          BY <2>1, <4>1 DEF Spill, FlushLog, Crash, WriteOut, Writes
      <3>2. Position' = Position
        BY <1>1, <3>1, TextPrefix
      <3> QED
        BY <1>3, <3>2
    <2>2. CASE AppendStart \/ AppendBytes \/ AppendLineEnd
      <3>1. event # None /\ WriteBuffered(Written(event)) /\ UNCHANGED log
        BY <1>1, <2>2 DEF AppendStart, AppendBytes, AppendLineEnd, AfterAppend, files, Typed,
           EventAtHand
      <3> QED
        BY <1>1, <1>3, <3>1, WriteBufferedLength
    <2>3. CASE Input \/ FlushIndex \/ FlushDone \/ FlushIfIdle \/ RecordTruncation
               \/ RecordCapture \/ Finish \/ RecordExit \/ CaptureFails \/ WriteFails
      <3>1. log' = log /\ buffer' = buffer
        BY <2>3 DEF Input, ReceiveStart, ReceiveBytes, ReceiveLineEnd, ReceiveHalfUnit,
           ReceiveEnd, Receive, FlushIndex, FlushDone, FlushIfIdle, RecordTruncation,
           RecordCapture, Finish, RecordExit, CaptureFails, WriteFails, files
      <3> QED
        BY <1>3, <3>1 DEF Position
    <2> QED
      BY <2>1, <2>2, <2>3 DEF Work, Failure
  <1>5. Len(lines') >= Len(lines)
    BY <1>1 DEF LinesKept
  <1>7. \A p, q, m, n \in Nat : q >= p /\ n >= m =>
           q + 1 + 3 * n >= p + 1 + 3 * m + (q - p) /\ q + 1 + 3 * n >= p + 1 + 3 * m
    OBVIOUS
  <1>6. CombinedBytes = Position + 1 + 3 * Len(lines)
        /\ CombinedBytes' = Position' + 1 + 3 * Len(lines')
    BY DEF CombinedBytes
  <1> QED
    BY <1>3, <1>4, <1>5, <1>6, <1>7

(* Not one more unit and the entry of its line would fit.                  *)
Roomless == CombinedBytes + EntryBytes + Len(LineEnding(encoding)) + UnitBytes(encoding) > ByteLimit

(* A stream that ended inside a unit may leave room for that half unit.    *)
Full == encoding = "bytes" \/ source = "open" => TruncatedOnlyWhenFull

LEMMA FullBytes ==
    ASSUME Ending, Structured, Handed, AppendBytes, ~quota_exceeded, quota_exceeded',
           encoding = "bytes" \/ source = "open"
    PROVE  Roomless'
  <1>1. /\ pc = "append" /\ event.kind = "Bytes" /\ WriteBuffered(Written(event))
        /\ Written(event) # event.bytes /\ encoding' = encoding /\ log' = log
    BY DEF AppendBytes, AfterAppend, files
  <1>2. event # None /\ event \in Events /\ WriterTypeOK /\ Limited
    BY <1>1, AppendOpen DEF Handed, Ending, Limited, Typed
  <1>3. event.bytes \in Seq(Symbols)
    BY <1>1, <1>2 DEF Events
  <1>4. Written(event) = Accepted(event.bytes)
    BY <1>1 DEF Written
  <1>5. PICK m \in 0..Len(event.bytes) :
              /\ Accepted(event.bytes) = SubSeq(event.bytes, 1, m)
              /\ m < Len(event.bytes) =>
                   Available < m + UnitBytes(encoding) \/ ~Aligned(Len(event.bytes))
              /\ Available \in Nat
    BY <1>2, <1>3, AcceptedIs
  <1>6. Len(event.bytes) \in Nat
    BY <1>3
  <1>7. m < Len(event.bytes)
    <2>1. m = Len(event.bytes) => SubSeq(event.bytes, 1, m) = event.bytes
      BY <1>3
    <2> QED
      BY <1>1, <1>4, <1>5, <1>6, <2>1
  <1>8. Aligned(Len(event.bytes))
    <2>1. encoding \in Encodings /\
             \/ event.bytes \in Chunks[encoding]
             \/ encoding = "wide" /\ source # "open"
      BY <1>1, <1>2 DEF Handed, BytesFit
    <2>2. event.bytes \in Chunks[encoding]
      BY <2>1
    <2>3. 0 \in 0..Len(event.bytes)
      BY <1>6
    <2> QED
      BY <2>1, <2>2, <2>3, ChunkContent
  <1>9. Len(Written(event)) = m
    BY <1>3, <1>4, <1>5, <1>6, PrefixType
  <1>10. Position' = Position + m
    BY <1>1, <1>2, <1>9, WriteBufferedLength
  <1>11. ~DropWriter
    BY <1>1 DEF DropWriter
  <1>12. /\ CombinedBytes \in Nat /\ CombinedBytes' \in Nat /\ Position \in Nat
         /\ CombinedBytes' >= CombinedBytes + (Position' - Position)
    BY <1>11, CombinedGrows DEF Work
  <1>13. CombinedBytes' >= CombinedBytes + m /\ m \in Nat
    BY <1>5, <1>6, <1>10, <1>12
  <1>14. Available < m + UnitBytes(encoding)
    BY <1>5, <1>7, <1>8
  <1>15. /\ Reserve \in Nat /\ UnitBytes(encoding) \in Nat /\ UnitBytes(encoding) > 0
         /\ Len(LineEnding(encoding)) \in Nat /\ Reserve = 3 + Len(LineEnding(encoding))
    BY BomType DEF Reserve
  <1>16. CombinedBytes + m + Reserve + UnitBytes(encoding) > ByteLimit
    <2>1. CASE CombinedBytes + Reserve > ByteLimit
      BY <1>12, <1>13, <1>15, <2>1
    <2>2. CASE ~(CombinedBytes + Reserve > ByteLimit)
      <3>1. Available = ByteLimit - CombinedBytes - Reserve
        BY <2>2 DEF Available
      <3> QED
        BY <1>12, <1>13, <1>14, <1>15, <3>1
    <2> QED
      BY <2>1, <2>2
  <1>17. CombinedBytes' + 3 + Len(LineEnding(encoding)) + UnitBytes(encoding) > ByteLimit
    BY <1>12, <1>13, <1>15, <1>16
  <1> QED
    BY <1>1, <1>17 DEF Roomless

LEMMA FullLineEnd ==
    ASSUME Ending, Structured, AppendLineEnd, ~quota_exceeded, quota_exceeded'
    PROVE  Roomless'
  <1>1. pc = "append" /\ encoding' = encoding /\ ~LineFits(event.terminated)
    BY DEF AppendLineEnd
  <1>2. ~DropWriter
    BY <1>1 DEF DropWriter
  <1>3. CombinedBytes \in Nat /\ CombinedBytes' \in Nat
    BY <1>2, CombinedGrows DEF Work
  <1>4. CombinedBytes' >= CombinedBytes
    BY <1>2, CombinedGrows DEF Work
  <1>5. /\ UnitBytes(encoding) \in Nat /\ UnitBytes(encoding) > 0
        /\ Len(LineEnding(encoding)) \in Nat
    BY BomType
  <1>6. CombinedBytes + 3 + Len(LineEnding(encoding)) > ByteLimit
    <2>1. CASE event.terminated
      BY <1>1, <1>3, <1>5, <2>1 DEF LineFits
    <2>2. CASE ~event.terminated
      BY <1>1, <1>3, <1>5, <2>2 DEF LineFits
    <2> QED
      BY <2>1, <2>2
  <1>7. CombinedBytes' + 3 + Len(LineEnding(encoding)) + UnitBytes(encoding) > ByteLimit
    BY <1>3, <1>4, <1>5, <1>6
  <1> QED
    BY <1>1, <1>7 DEF Roomless

LEMMA StartFits ==
    ASSUME Ending, AppendStart
    PROVE  ~quota_exceeded'
  <1>1. /\ event.kind = "Start" /\ pc = "append"
        /\ quota_exceeded' = (Written(event) # StreamBom(event.encoding))
    BY DEF AppendStart
  <1>2. event # None /\ BeforeStart
    BY <1>1 DEF Ending, Limited, Typed, EventAtHand, BeforeStart
  <1>3. log = <<>> /\ buffer = <<>> /\ lines = <<>>
    BY <1>2 DEF Ending, Limited, StartFirst
  <1>4. Len(<<>>) = 0
    OBVIOUS
  <1>5. CombinedBytes = 1
    BY <1>3, <1>4 DEF CombinedBytes, Position
  <1>6. Len(StreamBom(event.encoding)) \in {0, 2}
    BY BomType
  <1>7. CombinedBytes + Len(StreamBom(event.encoding)) <= ByteLimit
    <2>1. ByteLimit \in Nat /\ ByteLimit >= 4
      OBVIOUS
    <2>2. CASE Len(StreamBom(event.encoding)) = 0
      BY <1>5, <2>1, <2>2
    <2>3. CASE Len(StreamBom(event.encoding)) = 2
      BY <1>5, <2>1, <2>3
    <2> QED
      BY <1>6, <2>2, <2>3
  <1>8. Written(event) = StreamBom(event.encoding)
    BY <1>1, <1>7 DEF Written
  <1> QED
    BY <1>1, <1>8

LEMMA FullStep ==
    ASSUME Ending, Structured, Handed, Full, Work \/ Input \/ Failure
    PROVE  Full'
  <1> SUFFICES ASSUME encoding' = "bytes" \/ source' = "open", quota_exceeded', writer' = "open"
               PROVE  Roomless'
    BY DEF Full, TruncatedOnlyWhenFull, Roomless
  <1>1. ~DropWriter
    BY DEF DropWriter
  <1>2. writer = "open"
    BY <1>1 DEF Work, Input, Failure, Spill, AppendStart, AppendBytes, AppendLineEnd,
       AfterAppend, FlushLog, FlushIndex, FlushDone, FlushIfIdle, RecordTruncation,
       RecordCapture, Finish, RecordExit, ReceiveStart, ReceiveBytes, ReceiveLineEnd,
       ReceiveHalfUnit, ReceiveEnd, Receive, CaptureFails, WriteFails, Crash
  <1>3. ~AppendStart
    BY StartFits
  <1>4. encoding' = encoding
    BY <1>1, <1>3 DEF Work, Input, Failure, Spill, AppendBytes, AppendLineEnd,
       FlushLog, FlushIndex, FlushDone, FlushIfIdle, RecordTruncation,
       RecordCapture, Finish, RecordExit, ReceiveStart, ReceiveBytes, ReceiveLineEnd,
       ReceiveHalfUnit, ReceiveEnd, Receive, CaptureFails, WriteFails, Crash, progress
  <1>5. source' = "open" => source = "open" \/ source = "probing"
    BY <1>1, <1>3 DEF Work, Input, Failure, Spill, AppendBytes, AppendLineEnd, AfterAppend,
       FlushLog, FlushIndex, FlushDone, FlushIfIdle, RecordTruncation,
       RecordCapture, Finish, RecordExit, ReceiveStart, ReceiveBytes, ReceiveLineEnd,
       ReceiveHalfUnit, ReceiveEnd, Receive, CaptureFails, WriteFails, Crash, stream
  <1>6. CASE quota_exceeded
    <2>1. source # "probing"
      BY <1>6 DEF Ending, Settled, FullIsSealed, BeforeStart
    <2>2. Roomless
      BY <1>2, <1>4, <1>5, <1>6, <2>1 DEF Full, TruncatedOnlyWhenFull, Roomless
    <2>3. CombinedBytes \in Nat /\ CombinedBytes' \in Nat /\ CombinedBytes' >= CombinedBytes
      BY <1>1, CombinedGrows
    <2>4. UnitBytes(encoding) \in Nat /\ Len(LineEnding(encoding)) \in Nat
      BY BomType
    <2>5. CombinedBytes' + 3 + Len(LineEnding(encoding)) + UnitBytes(encoding) > ByteLimit
      BY <2>2, <2>3, <2>4 DEF Roomless
    <2> QED
      BY <1>4, <2>5 DEF Roomless
  <1>7. CASE ~quota_exceeded
    <2>1. AppendBytes \/ AppendLineEnd
      BY <1>1, <1>3, <1>7 DEF Work, Input, Failure, Spill,
         FlushLog, FlushIndex, FlushDone, FlushIfIdle, RecordTruncation,
         RecordCapture, Finish, RecordExit, ReceiveStart, ReceiveBytes, ReceiveLineEnd,
         ReceiveHalfUnit, ReceiveEnd, Receive, CaptureFails, WriteFails, Crash, progress
    <2>2. source' = source
      BY <2>1 DEF AppendBytes, AppendLineEnd, AfterAppend
    <2> QED
      BY <1>4, <1>7, <2>1, <2>2, FullBytes, FullLineEnd
  <1> QED
    BY <1>6, <1>7

-----------------------------------------------------------------------------
(***************************************************************************)
(* Notices are true.                                                       *)
(***************************************************************************)
Noticed == Agreed /\ Concluded /\ TruncationTrue /\ Kept /\ Full

LEMMA NoticedInit == Init => Noticed
  <1> SUFFICES ASSUME Init PROVE Noticed
    OBVIOUS
  <1>1. Agreed
    BY AgreedInit
  <1>2. Concluded
    BY DEF Init, Concluded, FinishSealed, ExitHolds, DroppedTold, ExitTrue
  <1>3. TruncationTrue
    BY DEF Init, TruncationTrue
  <1>4. Kept
    BY DEF Init, Kept
  <1>5. Full
    BY DEF Init, Full, TruncatedOnlyWhenFull
  <1> QED
    BY <1>1, <1>2, <1>3, <1>4, <1>5 DEF Noticed

LEMMA NoticedStep ==
    ASSUME NoFalseMark, Noticed, [Next]_vars
    PROVE  Noticed'
  <1>1. Agreed'
    BY AgreedStep DEF Noticed
  <1>2. CASE Work \/ Input \/ Failure
    BY <1>1, <1>2, ConcludedStep, TruncationStep, KeptStep, FullStep
       DEF Noticed, Agreed, Handed
  <1>3. CASE (\E r \in Readers : Reading(r)) \/ UNCHANGED vars
    <2>1. UNCHANGED <<files, buffer, progress, bytes_since_flush, stream, pc, goal, writer,
                      notices, history>>
      BY <1>3 DEF Reading, FindStatus, ReadNotices, SampleIndex, OpenLog, Close, ReaderSteps,
         vars, files, progress, stream, notices, history
    <2>2. UNCHANGED <<log, index, buffer, lines, durable_lines, current_start,
                      current_has_content, encoding, quota_exceeded, source, event, pc, goal,
                      writer, capture_error, output_truncation, exit, total, index_torn>>
      BY <2>1 DEF files, progress, stream, notices, history
    <2>3. Concluded'
      <3>1. NothingHeld' = NothingHeld
        BY <2>2 DEF NothingHeld, PendingNumbers
      <3> QED
        BY <2>2, <3>1 DEF Noticed, Concluded, FinishSealed, ExitHolds, DroppedTold, ExitTrue
    <2>4. TruncationTrue'
      BY <2>2 DEF Noticed, TruncationTrue, Position
    <2>5. Kept'
      BY <2>2 DEF Noticed, Kept, Preserved
    <2>6. Full'
      BY <2>2 DEF Noticed, Full, TruncatedOnlyWhenFull, CombinedBytes, Position
    <2> QED
      BY <1>1, <2>3, <2>4, <2>5, <2>6 DEF Noticed
  <1> QED
    BY <1>2, <1>3 DEF Next

(* When nothing is held back and the last line is sealed, a reader of the  *)
(* whole log finds the lines and no other.                                 *)
LEMMA AllAreThere ==
    ASSUME Limited, Structured, ~index_torn, TailIsShort, NothingHeld, Position = current_start
    PROVE  AllLines = lines /\ Len(AllLines) = Len(lines)
  <1>1. /\ Len(lines) \in Nat /\ Len(index) \in Nat /\ Len(log) \in Nat /\ lines \in Seq(LineEntry)
        /\ durable_lines \in 0..Len(lines) /\ index_written \in 0..PendingNumbers
    BY DEF Structured, WriterTypeOK
  <1>2. durable_lines = Len(lines)
    BY <1>1 DEF NothingHeld, PendingNumbers
  <1>3. index_written = 0
    BY <1>1 DEF NothingHeld
  <1>4. Len(index) = 3 * Len(lines)
    BY <1>1, <1>2, <1>3 DEF Limited, IndexIsCounted
  <1>5. Indexed = Len(lines)
    BY <1>1, <1>4 DEF Indexed
  <1>6. EndOf(Indexed) = Len(log)
    <2>1. Len(buffer) = 0
      BY DEF NothingHeld
    <2>2. Position = Len(log)
      BY <1>1, <2>1 DEF Position
    <2> QED
      BY <1>5, <2>2 DEF Structured, Chained
  <1>7. PICK m \in Indexed..Len(lines), more \in BOOLEAN : Found(m, more)
    BY AllLinesAre
  <1>8. m = Len(lines) /\ ~more
    BY <1>5, <1>6, <1>7 DEF Found
  <1>9. Len(AllLines) = Len(lines) /\ \A i \in 1..Len(lines) : AllLines[i] = lines[i]
    BY <1>7, <1>8 DEF Found
  <1>10. AllLines \in Seq(LineEntry)
    <2>1. TRUE \in BOOLEAN /\ Len(index) <= Len(index)
      BY <1>1
    <2> QED
      BY <1>1, <2>1, OpenedType DEF AllLines, Structured
  <1> QED
    BY <1>1, <1>9, <1>10, SeqEqual

(* The notice of a failed capture counts no line that cannot be read.      *)
LEMMA CapturedAreThere ==
    ASSUME Structured, Kept, ~index_torn, TailIsShort, capture_error # None
    PROVE  Len(AllLines) \in capture_error..(Len(lines) + 1)
  <1>1. PICK m \in Indexed..Len(lines), more \in BOOLEAN : Found(m, more)
    BY AllLinesAre
  <1>2. Indexed \in Nat /\ Len(lines) \in Nat
    BY DecodedIs, LineFacts
  <1>3. m \in Nat /\ m <= Len(lines) /\ Len(AllLines) = IF more THEN m + 1 ELSE m
    BY <1>1, <1>2 DEF Found
  <1>4. /\ capture_error \in 0..Len(lines)
        /\ capture_error >= 1 => lines[capture_error].record_end <= Len(log)
    BY DEF Kept, Preserved
  <1>5. capture_error <= Len(AllLines)
    <2>1. CASE capture_error = 0
      BY <1>3, <2>1
    <2>2. CASE capture_error # 0
      <3>1. capture_error \in 1..Len(lines) /\ capture_error >= 1
        BY <1>2, <1>4, <2>2
      <3> QED
        BY <1>1, <1>4, <3>1 DEF Found
    <2> QED
      BY <2>1, <2>2
  <1>6. Len(AllLines) \in Nat /\ Len(AllLines) <= Len(lines) + 1
    BY <1>2, <1>3
  <1> QED
    BY <1>2, <1>4, <1>5, <1>6

LEMMA NoticedMeansTrue == Noticed => NoticesAreTrue
  <1> SUFFICES ASSUME Noticed PROVE NoticesAreTrue
    OBVIOUS
  <1>1. Limited /\ Structured /\ Settled /\ Whole /\ Kept
    BY DEF Noticed, Agreed, Ending
  <1>2. encoding = "bytes" \/ source = "open" => TruncatedOnlyWhenFull
    BY DEF Noticed, Full
  <1>3. ASSUME ~index_torn, TailIsShort
        PROVE  /\ output_truncation # None => Len(AllLines) = output_truncation
               /\ capture_error # None => Len(AllLines) \in capture_error..(Len(lines) + 1)
               /\ exit # None /\ capture_error = None => AllLines = lines /\ exit = Len(lines)
    <2>1. ASSUME output_truncation # None PROVE Len(AllLines) = output_truncation
      <3>1. output_truncation = Len(lines) /\ Position = current_start /\ NothingHeld
        BY <1>1, <2>1 DEF Noticed, TruncationTrue, Settled, TruncationFlushed
      <3> QED
        BY <1>1, <1>3, <3>1, AllAreThere
    <2>2. capture_error # None => Len(AllLines) \in capture_error..(Len(lines) + 1)
      BY <1>1, <1>3, CapturedAreThere
    <2>3. ASSUME exit # None, capture_error = None PROVE AllLines = lines /\ exit = Len(lines)
      <3>1. writer = "open" /\ exit = Len(lines) /\ NothingHeld /\ ~current_has_content
        BY <2>3 DEF Noticed, Concluded, ExitTrue
      <3>2. Position = current_start
        <4>1. current_start <= Position /\ ~(current_start < Position)
          BY <1>1, <3>1 DEF Whole
        <4> QED
          BY <1>1, <4>1, PositionFacts DEF Structured
      <3> QED
        BY <1>1, <1>3, <3>1, <3>2, AllAreThere
    <2> QED
      BY <2>1, <2>2, <2>3
  <1> QED
    BY <1>2, <1>3 DEF NoticesAreTrue, NoticesAreExact, TailIsShort

(* drain_output_events, supervise: whatever is written before, between or  *)
(* after them, the notices on disk count the lines that a reader of the    *)
(* whole log finds, and a job is said to have reached its limit only when  *)
(* no more fits.                                                           *)
THEOREM TrueNotices == ASSUME NoFalseMark PROVE Spec => []NoticesAreTrue
  <1>1. Init => Noticed
    BY NoticedInit
  <1>2. Noticed /\ [Next]_vars => Noticed'
    BY NoticedStep
  <1>3. Noticed => NoticesAreTrue
    BY NoticedMeansTrue
  <1> QED
    BY <1>1, <1>2, <1>3, PTL DEF Spec
=============================================================================
