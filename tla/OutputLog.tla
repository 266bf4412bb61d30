----------------------------- MODULE OutputLog -----------------------------
(***************************************************************************)
(* The output of one background job: the append-only log and the index of  *)
(* its lines (src/src/shell/jobs/output_log.rs), the supervisor that       *)
(* writes them (host.rs), the events the normalizer hands it               *)
(* (shell/normalize.rs), and readers in other processes that look at both  *)
(* files without a lock (store.rs).                                        *)
(*                                                                         *)
(* A byte of the log is one of a few symbols: "n" is a line feed, "o" fills *)
(* up a wide line feed, "F" and "E" form a byte-order mark, all others are *)
(* content. The wide encoding has two bytes a unit, as UTF-16. The index   *)
(* is a sequence of numbers, three to an entry; a number counts as one     *)
(* byte. A write to a disk takes as many steps as the file system likes,   *)
(* and may fail or be cut by a crash after any of them.                    *)
(***************************************************************************)
EXTENDS Integers, Sequences, FiniteSets

CONSTANTS
    Readers,       \* processes with one job_output or dashboard read under way
    ByteLimit,     \* byte_limit: log and index together
    FlushBytes,    \* FLUSH_BYTES, also the capacity of the BufWriter
    MaxRecovery,   \* MAX_RECOVERY_SCAN_BYTES
    Encodings,     \* the encodings a stream may start with
    Chunks,        \* per encoding: the contents of one Bytes event
    Ragged,        \* a wide stream may end inside a code unit
    MaxFaults,     \* bound: failed writes and failures of the capture
    Crashes,       \* the supervisor may be killed
    None

HeaderBytes == 1
EntryBytes == 3

Symbols == {"F", "E", "n", "o", "x", "y"}

Encoded == {"bytes", "wide"}

UnitBytes(encoding) == IF encoding = "wide" THEN 2 ELSE 1

StreamBom(encoding) == IF encoding = "wide" THEN <<"F", "E">> ELSE <<>>

LineEnding(encoding) == IF encoding = "wide" THEN <<"n", "o">> ELSE <<"n">>

ASSUME LogAssumption ==
    /\ FlushBytes \in Nat \ {0} /\ MaxRecovery \in Nat /\ MaxFaults \in Nat
    /\ ByteLimit \in Nat /\ ByteLimit >= HeaderBytes + EntryBytes
    /\ Encodings \subseteq Encoded
    /\ Ragged \in BOOLEAN /\ Crashes \in BOOLEAN
    /\ \A e \in Encodings : \A c \in Chunks[e] :
          /\ c \in Seq(Symbols) /\ Len(c) \in 1..(FlushBytes - 1)
          /\ Len(c) % UnitBytes(e) = 0
    /\ None \notin Nat \cup Encoded

(* normalize.rs: the content of a line holds no line ending.               *)
ASSUME ContentAssumption ==
    \A e \in Encodings : \A c \in Chunks[e] : \A p \in 0..(Len(c) - 1) :
        p % UnitBytes(e) = 0 => SubSeq(c, p + 1, p + UnitBytes(e)) # LineEnding(e)

VARIABLES
    log, index,      \* the two files
    buffer,          \* what the BufWriter has not written yet
    lines,           \* the entries of the lines committed so far
    durable_lines,   \* how many of them the last flush put into the index
    index_written,   \* numbers of pending_index already written by this flush
    current_start, current_has_content,
    encoding,        \* stream_encoding; None before the Start event
    bytes_since_flush, quota_exceeded,
    source, open_line,  \* the normalizer: where the stream is, line_has_content
    event,           \* the event in the hands of the control loop
    pc, goal,        \* where the control loop is, and what it flushes for
    writer,          \* "open", "dropped"
    total,           \* total_lines of the control loop
    capture_error, output_truncation,  \* the two notices on disk
    exit,            \* the exit record: None or its total_lines
    reader,          \* per reader: the read it is in
    faults, index_torn  \* history: failures; an index write failed half way

files == <<log, index>>
progress == <<lines, durable_lines, index_written, current_start,
              current_has_content, encoding, quota_exceeded>>
stream == <<source, open_line, event>>
notices == <<capture_error, output_truncation, exit, total>>
history == <<faults, index_torn>>
vars == <<log, index, buffer, lines, durable_lines, index_written, current_start,
          current_has_content, encoding, bytes_since_flush, quota_exceeded,
          source, open_line, event, pc, goal, writer, total, capture_error,
          output_truncation, exit, reader, faults, index_torn>>

-----------------------------------------------------------------------------
(***************************************************************************)
(* The writer's arithmetic.                                                *)
(***************************************************************************)
LineEntry == [start : Nat, content_end : Nat, record_end : Nat]

Position == Len(log) + Len(buffer)

CombinedBytes == Position + HeaderBytes + EntryBytes * Len(lines)

CommittedPosition == IF lines = <<>> THEN 0 ELSE lines[Len(lines)].record_end

IndexedPosition == IF durable_lines = 0 THEN 0 ELSE lines[durable_lines].record_end

(* pending_index: the entries no flush has put into the index.             *)
PendingNumbers == EntryBytes * (Len(lines) - durable_lines)

Number(k) ==
    LET e == lines[durable_lines + 1 + ((k - 1) \div EntryBytes)]
    IN <<e.start, e.content_end, e.record_end>>[1 + ((k - 1) % EntryBytes)]

Reserve_ForgetsEntry == Len(LineEnding(encoding))

(* What write_content may still take: an entry and a line ending stay free. *)
Reserve == EntryBytes + Len(LineEnding(encoding))

Available_ReservesTwice ==
    IF CombinedBytes + 2 * Reserve > ByteLimit THEN 0 ELSE ByteLimit - CombinedBytes - 2 * Reserve

Available == IF CombinedBytes + Reserve > ByteLimit
             THEN 0
             ELSE ByteLimit - CombinedBytes - Reserve

Accepted(bytes) ==
    LET n == IF Len(bytes) < Available THEN Len(bytes) ELSE Available
    IN SubSeq(bytes, 1, n - (n % UnitBytes(encoding)))

(* How much of the buffer one write to the disk may take. It never stops   *)
(* inside the byte-order mark, which goes out with the first page.         *)
Prefixes == {k \in 1..Len(buffer) : log = <<>> => k >= Len(StreamBom(encoding))}

WriteOut(k) ==
    /\ log' = log \o SubSeq(buffer, 1, k)
    /\ buffer' = SubSeq(buffer, k + 1, Len(buffer))

HasBufferedData == buffer # <<>> \/ PendingNumbers > 0

(* The bytes that appending the event writes into the BufWriter.           *)
StartEvent(e) == [kind |-> "Start", encoding |-> e]
BytesEvent(c) == [kind |-> "Bytes", bytes |-> c]
LineEndEvent(t) == [kind |-> "LineEnd", terminated |-> t]

LineFits(terminated) ==
    CombinedBytes + EntryBytes + (IF terminated THEN Len(LineEnding(encoding)) ELSE 0)
        <= ByteLimit

Written(e) ==
    CASE e.kind = "Start" ->
            IF CombinedBytes + Len(StreamBom(e.encoding)) <= ByteLimit
            THEN StreamBom(e.encoding) ELSE <<>>
      [] e.kind = "Bytes" -> IF quota_exceeded THEN <<>> ELSE Accepted(e.bytes)
      [] e.kind = "LineEnd" ->
            IF ~quota_exceeded /\ e.terminated /\ LineFits(TRUE)
            THEN LineEnding(encoding) ELSE <<>>

-----------------------------------------------------------------------------
(***************************************************************************)
(* A reader's snapshot: the first `cells` numbers of the index and the     *)
(* first `bytes` bytes of the log. Both files only grow, so the lengths    *)
(* determine what the reader finds.                                        *)
(***************************************************************************)
Decoded(k) ==
    LET at == EntryBytes * (k - 1)
    IN [start |-> index[at + 1], content_end |-> index[at + 2], record_end |-> index[at + 3]]

Ordered(e) == e.start <= e.content_end /\ e.content_end <= e.record_end

DetectedEncoding(length) ==
    IF length >= 2 /\ SubSeq(log, 1, 2) = StreamBom("wide") THEN "wide" ELSE "bytes"

BomLen(length) == Len(StreamBom(DetectedEncoding(length)))

EntryIsValid(k, bytes) ==
    /\ Ordered(Decoded(k))
    /\ Decoded(k).start = IF k = 1 THEN BomLen(bytes) ELSE Decoded(k - 1).record_end
    /\ Decoded(k).record_end <= bytes

IndexedLines(cells) == cells \div EntryBytes

IndexedEnd(cells, bytes) ==
    IF IndexedLines(cells) = 0 THEN BomLen(bytes) ELSE Decoded(IndexedLines(cells)).record_end

IsDamaged(cells, bytes) ==
    \/ \E k \in 1..IndexedLines(cells) : ~EntryIsValid(k, bytes)
    \/ IndexedEnd(cells, bytes) > bytes

Breaks_OffUnit(from, to) ==
    LET ending == LineEnding(DetectedEncoding(to))
    IN {c \in from..(to - Len(ending)) : SubSeq(log, c + 1, c + Len(ending)) = ending}

(* recover_tail_entries: the unindexed bytes split at line endings that lie *)
(* on unit boundaries, or taken as one line when there are too many.       *)
Breaks(from, to) ==
    LET ending == LineEnding(DetectedEncoding(to))
    IN {c \in from..(to - Len(ending)) :
            /\ (c - from) % Len(ending) = 0
            /\ SubSeq(log, c + 1, c + Len(ending)) = ending}

EndsWithBreak(to) ==
    LET ending == LineEnding(DetectedEncoding(to))
    IN to >= Len(ending) /\ SubSeq(log, to - Len(ending) + 1, to) = ending

Recovered(from, to) ==
    LET width == Len(LineEnding(DetectedEncoding(to)))
        breaks == Breaks(from, to)
        Break(i) == CHOOSE c \in breaks : Cardinality({d \in breaks : d < c}) = i - 1
        Begin(i) == IF i = 1 THEN from ELSE Break(i - 1) + width
        whole == [i \in 1..Cardinality(breaks) |->
                    [start |-> Begin(i), content_end |-> Break(i), record_end |-> Break(i) + width]]
        last == Begin(Cardinality(breaks) + 1)
    IN CASE from = to -> <<>>
         [] to - from > MaxRecovery ->
                <<[start |-> from,
                   content_end |-> to - (IF EndsWithBreak(to) THEN width ELSE 0),
                   record_end |-> to]>>
         [] OTHER ->
                IF last < to
                THEN Append(whole, [start |-> last, content_end |-> to, record_end |-> to])
                ELSE whole

OpenedLines(tail, cells, bytes) ==
    [k \in 1..IndexedLines(cells) |-> Decoded(k)]
        \o (IF tail THEN Recovered(IndexedEnd(cells, bytes), bytes) ELSE <<>>)

IdleReader == [pc |-> "idle", running |-> TRUE, tail |-> FALSE, cells |-> 0,
               damaged |-> FALSE, seen |-> <<>>, last_seq |-> 0, offset |-> 0]

-----------------------------------------------------------------------------
Init ==
    /\ log = <<>> /\ index = <<>> /\ buffer = <<>>
    /\ lines = <<>> /\ durable_lines = 0 /\ index_written = 0
    /\ current_start = 0 /\ current_has_content = FALSE
    /\ encoding = None /\ bytes_since_flush = 0 /\ quota_exceeded = FALSE
    /\ source = "probing" /\ open_line = FALSE /\ event = None
    /\ pc = "ready" /\ goal = "none" /\ writer = "open" /\ total = 0
    /\ capture_error = None /\ output_truncation = None /\ exit = None
    /\ reader = [r \in Readers |-> IdleReader]
    /\ faults = 0 /\ index_torn = FALSE

-----------------------------------------------------------------------------
(***************************************************************************)
(* The normalizer, as far as the order of its events goes.                 *)
(***************************************************************************)
Receive(e, next, open) ==
    /\ pc = "ready" /\ event = None
    /\ event' = e /\ source' = next /\ open_line' = open
    /\ pc' = IF e = None \/ writer = "dropped" THEN pc ELSE "append"
    /\ UNCHANGED <<files, buffer, progress, bytes_since_flush, goal, writer,
                   notices, reader, history>>

(* With a dropped writer, an event is received and forgotten.              *)
Hand(e) == IF writer = "dropped" THEN None ELSE e

ReceiveStart ==
    /\ source = "probing"
    /\ \E e \in Encodings : Receive(Hand(StartEvent(e)), "open", FALSE)

ReceiveBytes ==
    /\ source = "open" /\ encoding # None
    /\ \E c \in Chunks[encoding] : Receive(Hand(BytesEvent(c)), "open", TRUE)

ReceiveLineEnd ==
    /\ source = "open" /\ encoding # None
    /\ Receive(Hand(LineEndEvent(TRUE)), "open", FALSE)

(* The last, incomplete unit of a wide stream is an event of its own.      *)
ReceiveHalfUnit ==
    /\ Ragged /\ source = "open" /\ encoding = "wide"
    /\ Receive(Hand(BytesEvent(<<"x">>)), "closing", TRUE)

ReceiveEnd ==
    /\ source \in {"probing", "open", "closing"}
    /\ source = "probing" => writer = "dropped"
    /\ IF open_line
       THEN Receive(Hand(LineEndEvent(FALSE)), "ended", FALSE)
       ELSE Receive(None, "ended", FALSE)

-----------------------------------------------------------------------------
(***************************************************************************)
(* OutputLogWriter::append.                                                *)
(***************************************************************************)
NeedsSpill(bytes) == Len(buffer) + Len(bytes) > FlushBytes

(* BufWriter makes room: it writes out what it holds.                      *)
Spill ==
    /\ pc = "append" /\ buffer # <<>> /\ NeedsSpill(Written(event))
    /\ \E k \in Prefixes : WriteOut(k)
    /\ UNCHANGED <<index, progress, bytes_since_flush, stream, pc, goal, writer,
                   notices, reader, history>>

(* Commits the current line, `after` being the position after its ending.  *)
CommitLine(content_end, after) ==
    /\ lines' = Append(lines, [start |-> current_start, content_end |-> content_end,
                               record_end |-> after])
    /\ current_start' = after
    /\ current_has_content' = FALSE

KeepLine == UNCHANGED <<lines, current_start, current_has_content>>

(* The end of append: flush on the quota, on many bytes, on a long tail.   *)
AfterAppend ==
    /\ event' = None
    /\ IF \/ quota_exceeded' /\ ~quota_exceeded
          \/ bytes_since_flush' >= FlushBytes
          \/ LET committed == IF lines' = <<>> THEN 0 ELSE lines'[Len(lines')].record_end
             IN committed - IndexedPosition >= MaxRecovery
       THEN pc' = "flush_log" /\ goal' = "append"
       ELSE pc' = "ready" /\ goal' = "none"
    /\ total' = IF lines' = lines THEN total ELSE Len(lines')
    /\ UNCHANGED <<files, durable_lines, index_written, source, open_line, writer,
                   capture_error, output_truncation, exit, reader, history>>

WriteBuffered(bytes) ==
    /\ buffer' = buffer \o bytes
    /\ bytes_since_flush' = bytes_since_flush + Len(bytes)

AppendStart ==
    /\ pc = "append" /\ event.kind = "Start" /\ ~NeedsSpill(Written(event))
    /\ encoding' = event.encoding
    /\ WriteBuffered(Written(event))
    /\ quota_exceeded' = (Written(event) # StreamBom(event.encoding))
    /\ current_start' = Position + Len(Written(event))
    /\ UNCHANGED <<lines, current_has_content>>
    /\ AfterAppend

AppendBytes_LeavesLineOpen ==
    /\ pc = "append" /\ event.kind = "Bytes" /\ ~NeedsSpill(Written(event))
    /\ WriteBuffered(Written(event))
    /\ quota_exceeded' = (quota_exceeded \/ Written(event) # event.bytes)
    /\ current_has_content' = (current_has_content \/ Written(event) # <<>>)
    /\ UNCHANGED <<lines, current_start, encoding>>
    /\ AfterAppend

AppendBytes ==
    /\ pc = "append" /\ event.kind = "Bytes" /\ ~NeedsSpill(Written(event))
    /\ WriteBuffered(Written(event))
    /\ quota_exceeded' = (quota_exceeded \/ Written(event) # event.bytes)
    /\ LET content == current_has_content \/ Written(event) # <<>>
           end == Position + Len(Written(event))
       IN IF quota_exceeded' /\ ~quota_exceeded /\ content
          THEN CommitLine(end, end)
          ELSE /\ current_has_content' = content
               /\ UNCHANGED <<lines, current_start>>
    /\ UNCHANGED encoding
    /\ AfterAppend

AppendLineEnd ==
    /\ pc = "append" /\ event.kind = "LineEnd" /\ ~NeedsSpill(Written(event))
    /\ LET fits == ~quota_exceeded /\ LineFits(event.terminated)
       IN /\ WriteBuffered(Written(event))
          /\ quota_exceeded' = ~fits
          /\ IF fits \/ current_has_content
             THEN CommitLine(Position, Position + Len(Written(event)))
             ELSE KeepLine
    /\ UNCHANGED encoding
    /\ AfterAppend

-----------------------------------------------------------------------------
(***************************************************************************)
(* OutputLogWriter::flush: the log first, then the index.                  *)
(***************************************************************************)
AfterFlush ==
    CASE goal = "append" ->
            IF quota_exceeded /\ output_truncation = None THEN "notice" ELSE "ready"
      [] goal = "idle" -> "ready"
      [] goal = "finish" -> "exit"
      [] goal = "capture" -> "drop"

FlushLog ==
    /\ pc = "flush_log" /\ buffer # <<>>
    /\ \E k \in Prefixes : WriteOut(k)
    /\ UNCHANGED <<index, progress, bytes_since_flush, stream, pc, goal, writer,
                   notices, reader, history>>

FlushIndex_BeforeLog ==
    /\ pc = "flush_log" /\ index_written < PendingNumbers
    /\ \E k \in (index_written + 1)..PendingNumbers :
        /\ index' = index \o [i \in 1..(k - index_written) |-> Number(index_written + i)]
        /\ index_written' = k
    /\ UNCHANGED <<log, buffer, lines, durable_lines, current_start,
                   current_has_content, encoding, quota_exceeded,
                   bytes_since_flush, stream, pc, goal, writer, notices, reader, history>>

FlushIndex ==
    /\ pc = "flush_log" /\ buffer = <<>> /\ index_written < PendingNumbers
    /\ \E k \in (index_written + 1)..PendingNumbers :
        /\ index' = index \o [i \in 1..(k - index_written) |-> Number(index_written + i)]
        /\ index_written' = k
    /\ UNCHANGED <<log, buffer, lines, durable_lines, current_start,
                   current_has_content, encoding, quota_exceeded,
                   bytes_since_flush, stream, pc, goal, writer, notices, reader, history>>

FlushDone ==
    /\ pc = "flush_log" /\ buffer = <<>> /\ index_written = PendingNumbers
    /\ durable_lines' = Len(lines) /\ index_written' = 0
    /\ bytes_since_flush' = 0
    /\ pc' = AfterFlush
    /\ goal' = "none"
    /\ UNCHANGED <<files, buffer, lines, current_start, current_has_content, encoding,
                   quota_exceeded, stream, writer, notices, reader, history>>

FlushIfIdle_OnlyWhenFull ==
    /\ pc = "ready" /\ writer = "open" /\ event = None /\ Len(buffer) >= FlushBytes
    /\ pc' = "flush_log" /\ goal' = "idle"
    /\ UNCHANGED <<files, buffer, progress, bytes_since_flush, stream, writer,
                   notices, reader, history>>

FlushIfIdle ==
    /\ pc = "ready" /\ writer = "open" /\ event = None /\ HasBufferedData
    /\ pc' = "flush_log" /\ goal' = "idle"
    /\ UNCHANGED <<files, buffer, progress, bytes_since_flush, stream, writer,
                   notices, reader, history>>

-----------------------------------------------------------------------------
(***************************************************************************)
(* The control loop around the writer.                                     *)
(***************************************************************************)
RecordTruncation ==
    /\ pc = "notice"
    /\ output_truncation' = Len(lines)
    /\ pc' = "ready"
    /\ UNCHANGED <<files, buffer, progress, bytes_since_flush, stream, goal, writer,
                   capture_error, exit, total, reader, history>>

(* finish: what is there of the current line is sealed, then flushed.      *)
Seal(why) ==
    /\ pc' = "flush_log" /\ goal' = why
    /\ IF current_has_content THEN CommitLine(Position, Position) ELSE KeepLine

(* capture_failure, entered from an error of the source.                   *)
CaptureFails ==
    /\ faults < MaxFaults /\ pc = "ready" /\ event = None /\ writer = "open"
    /\ exit = None
    /\ faults' = faults + 1
    /\ source' = "ended" /\ open_line' = FALSE
    /\ Seal("capture")
    /\ UNCHANGED <<files, buffer, durable_lines, index_written, encoding,
                   quota_exceeded, bytes_since_flush, event, writer, notices, reader,
                   index_torn>>

(* A write to the disk fails. The event at hand is lost; capture_failure   *)
(* finishes the writer, which tries the same flush once more, from the     *)
(* first pending entry.                                                    *)
WriteFails ==
    /\ faults < MaxFaults
    /\ faults' = faults + 1
    /\ \/ pc = "append" /\ buffer # <<>> /\ NeedsSpill(Written(event))
       \/ pc = "flush_log" /\ HasBufferedData
    /\ event' = None
    /\ index_torn' = (index_torn \/ index_written > 0)
    /\ index_written' = 0
    /\ IF goal = "capture"
       THEN /\ pc' = "drop" /\ goal' = "none"
            /\ KeepLine
       ELSE Seal("capture")
    /\ UNCHANGED <<files, buffer, durable_lines, encoding, quota_exceeded,
                   bytes_since_flush, source, open_line, writer, notices, reader>>

(* The lines whose bytes have reached the log, counted before the writer   *)
(* is dropped; the BufWriter's drop tries to write what it still holds, and *)
(* what it cannot write is lost.                                           *)
PreservedLines ==
    durable_lines + Cardinality({i \in (durable_lines + 1)..Len(lines) :
                                    lines[i].record_end <= Len(log)})

DropWriter ==
    /\ pc = "drop"
    /\ total' = PreservedLines
    /\ writer' = "dropped"
    /\ \E k \in {0, Len(buffer)} \cup Prefixes : log' = log \o SubSeq(buffer, 1, k)
    /\ buffer' = <<>>
    /\ pc' = "record"
    /\ UNCHANGED <<index, progress, bytes_since_flush, stream, goal, capture_error,
                   output_truncation, exit, reader, history>>

RecordCapture_ForgetsExit ==
    /\ pc = "record"
    /\ capture_error' = total
    /\ pc' = "ready"
    /\ UNCHANGED <<files, buffer, progress, bytes_since_flush, stream, goal, writer,
                   output_truncation, exit, total, reader, history>>

RecordCapture ==
    /\ pc = "record"
    /\ capture_error' = total
    /\ pc' = IF source = "finishing" THEN "exit" ELSE "ready"
    /\ UNCHANGED <<files, buffer, progress, bytes_since_flush, stream, goal, writer,
                   output_truncation, exit, total, reader, history>>

(* The stream is over and the command has exited: finish and the record.   *)
Finish ==
    /\ pc = "ready" /\ event = None /\ source = "ended"
    /\ source' = "finishing"
    /\ IF writer = "open"
       THEN Seal("finish")
       ELSE pc' = "exit" /\ goal' = goal /\ KeepLine
    /\ UNCHANGED <<files, buffer, durable_lines, index_written, encoding,
                   quota_exceeded, bytes_since_flush, open_line, event, writer, notices,
                   reader, history>>

RecordExit ==
    /\ pc = "exit"
    /\ exit' = IF writer = "open" THEN Len(lines) ELSE total
    /\ total' = exit'
    /\ pc' = "gone"
    /\ UNCHANGED <<files, buffer, progress, bytes_since_flush, stream, goal, writer,
                   capture_error, output_truncation, reader, history>>

(* The supervisor is killed, or leaves with an error when it cannot end    *)
(* the process tree; then the drop of the writer still empties its buffer. *)
Crash ==
    /\ Crashes /\ pc # "gone"
    /\ pc' = "gone"
    /\ \E k \in {0, Len(buffer)} : WriteOut(k)
    /\ UNCHANGED <<index, progress, bytes_since_flush, stream, goal, writer, notices,
                   reader, history>>

-----------------------------------------------------------------------------
(***************************************************************************)
(* A read: the status of the job, the two notices, then the files, the     *)
(* index before the log.                                                   *)
(***************************************************************************)
ReaderSteps(r, f) ==
    /\ reader' = [reader EXCEPT ![r] = f]
    /\ UNCHANGED <<files, buffer, progress, bytes_since_flush, stream, pc, goal, writer,
                   notices, history>>

FindStatus(r) ==
    /\ reader[r].pc = "idle"
    /\ ReaderSteps(r, [reader[r] EXCEPT !.pc = "notices", !.running = (pc # "gone")])

ReadNotices_AlwaysTail(r) ==
    /\ reader[r].pc = "notices"
    /\ ReaderSteps(r, [reader[r] EXCEPT !.pc = "index", !.tail = TRUE])

ReadNotices(r) ==
    /\ reader[r].pc = "notices"
    /\ ReaderSteps(r, [reader[r] EXCEPT !.pc = "index",
                        !.tail = \/ ~reader[r].running
                                 \/ capture_error # None
                                 \/ output_truncation # None])

SampleIndex(r) ==
    /\ reader[r].pc = "index"
    /\ ReaderSteps(r, [reader[r] EXCEPT !.pc = "log", !.cells = Len(index)])

(* The rest of open, and the reading of lines.                             *)
OpenLog(r) ==
    /\ reader[r].pc = "log"
    /\ LET damaged == IsDamaged(reader[r].cells, Len(log))
       IN ReaderSteps(r, [reader[r] EXCEPT !.pc = "open", !.damaged = damaged,
            !.seen = IF damaged THEN <<>>
                     ELSE OpenedLines(reader[r].tail, reader[r].cells, Len(log))])

RecordEnd(seen, seq) == IF seq = 0 THEN 0 ELSE seen[seq].record_end

CursorIsStale(r) ==
    \/ reader[r].last_seq > Len(reader[r].seen)
    \/ RecordEnd(reader[r].seen, reader[r].last_seq) # reader[r].offset

Close_AtContentEnd(r) ==
    /\ reader[r].pc = "open"
    /\ LET seen == reader[r].seen
       IN ReaderSteps(r,
            IF reader[r].damaged
            THEN [IdleReader EXCEPT !.last_seq = reader[r].last_seq, !.offset = reader[r].offset]
            ELSE [IdleReader EXCEPT !.last_seq = Len(seen),
                    !.offset = IF seen = <<>> THEN 0 ELSE seen[Len(seen)].content_end])

(* read_log_delta: the new lines are shown and the cursor moves to the end. *)
Close(r) ==
    /\ reader[r].pc = "open"
    /\ LET seen == reader[r].seen
       IN ReaderSteps(r,
            IF reader[r].damaged
            THEN [IdleReader EXCEPT !.last_seq = reader[r].last_seq, !.offset = reader[r].offset]
            ELSE [IdleReader EXCEPT !.last_seq = Len(seen), !.offset = RecordEnd(seen, Len(seen))])

-----------------------------------------------------------------------------
Work ==
    \/ Spill \/ AppendStart \/ AppendBytes \/ AppendLineEnd
    \/ FlushLog \/ FlushIndex \/ FlushDone \/ FlushIfIdle
    \/ RecordTruncation \/ DropWriter \/ RecordCapture \/ Finish \/ RecordExit

Input == ReceiveStart \/ ReceiveBytes \/ ReceiveLineEnd \/ ReceiveHalfUnit \/ ReceiveEnd

Failure == CaptureFails \/ WriteFails \/ Crash

Reading(r) ==
    FindStatus(r) \/ ReadNotices(r) \/ SampleIndex(r) \/ OpenLog(r) \/ Close(r)

Next == Work \/ Input \/ Failure \/ \E r \in Readers : Reading(r)

Spec == Init /\ [][Next]_vars

(* The control loop runs on; nothing obliges the command to write or end,  *)
(* or a reader to read.                                                    *)
FairSpec == Spec /\ WF_vars(Work)

-----------------------------------------------------------------------------
ReadTypes ==
    [pc : {"idle", "notices", "index", "log", "open"}, running : BOOLEAN, tail : BOOLEAN,
     cells : Nat, damaged : BOOLEAN, seen : Seq(LineEntry), last_seq : Nat, offset : Nat]

Events ==
    [kind : {"Start"}, encoding : Encodings] \cup [kind : {"Bytes"}, bytes : Seq(Symbols)]
        \cup [kind : {"LineEnd"}, terminated : BOOLEAN]

ASSUME EventAssumption == None \notin Events

WriterTypeOK ==
    /\ log \in Seq(Symbols) /\ index \in Seq(Nat) /\ buffer \in Seq(Symbols)
    /\ lines \in Seq(LineEntry) /\ durable_lines \in 0..Len(lines)
    /\ index_written \in 0..PendingNumbers
    /\ current_start \in Nat /\ current_has_content \in BOOLEAN
    /\ encoding \in Encodings \cup {None} /\ quota_exceeded \in BOOLEAN
    /\ bytes_since_flush \in Nat
    /\ source \in {"probing", "open", "closing", "ended", "finishing"}
    /\ open_line \in BOOLEAN /\ event \in Events \cup {None}
    /\ pc \in {"ready", "append", "flush_log", "notice", "drop", "record", "exit", "gone"}
    /\ goal \in {"append", "idle", "finish", "capture", "none"}
    /\ writer \in {"open", "dropped"} /\ total \in Nat
    /\ capture_error \in Nat \cup {None} /\ output_truncation \in Nat \cup {None}
    /\ exit \in Nat \cup {None}
    /\ faults \in 0..MaxFaults /\ index_torn \in BOOLEAN

(* Types, and the bounds of the writer's counters.                         *)
TypeOK ==
    /\ WriterTypeOK
    /\ reader \in [Readers -> ReadTypes]

(* with_limit, write_content, try_commit_line: log and index together never *)
(* take more bytes than the limit, whatever is still buffered, and an      *)
(* unfinished line leaves room for the entry that will seal it.            *)
HardLimit ==
    /\ CombinedBytes <= ByteLimit
    /\ current_has_content => CombinedBytes + EntryBytes <= ByteLimit
    /\ ~index_torn => Len(log) + HeaderBytes + Len(index) <= ByteLimit

(* drain_output_events: the job is said to have reached its limit only when *)
(* not another unit of output and the entry of its line would fit.         *)
TruncatedOnlyWhenFull ==
    quota_exceeded /\ writer = "open" =>
        CombinedBytes + EntryBytes + Len(LineEnding(encoding)) + UnitBytes(encoding)
            > ByteLimit

(* OutputLogReader::open: a reader that samples the index before the log   *)
(* finds every sampled entry in order and within the log, however the      *)
(* supervisor's writes fall between its steps, and does not report "a      *)
(* healthy index as damaged". (For content that does not itself begin like *)
(* a byte-order mark: see Chunks.)                                         *)
HealthyIndex == \A r \in Readers : reader[r].damaged => index_torn

(* A recovered line may have lost its end, never its beginning.            *)
CutFrom(short, e) ==
    short.start = e.start /\ short.content_end <= e.record_end /\ short.record_end <= e.record_end

TailLength(r) ==
    LET cells == reader[r].cells IN Len(log) - IndexedEnd(cells, Len(log))

SameLines(seen, tail) ==
    /\ Len(seen) <= Len(lines) + (IF tail THEN 1 ELSE 0)
    /\ \A i \in 1..Len(seen) : i <= Len(lines) =>
          \/ seen[i] = lines[i]
          \/ tail /\ i = Len(seen) /\ CutFrom(seen[i], lines[i])

(* read_range, recover_tail_entries: line n is the same line for every     *)
(* reader, while the job runs, after it ended and after a crash; a live    *)
(* reader shows committed lines only. Except where a reader recovers more  *)
(* than MAX_RECOVERY_SCAN_BYTES.                                           *)
LinesKeepTheirNumbers ==
    \A r \in Readers :
        /\ reader[r].pc = "open" /\ ~reader[r].damaged /\ ~index_torn
        /\ reader[r].tail => TailLength(r) <= MaxRecovery
        => SameLines(reader[r].seen, reader[r].tail)

(* What a reader that starts now and includes the tail would find.         *)
AllLines == OpenedLines(TRUE, Len(index), Len(log))

(* open: the unindexed tail is taken for lines only when nobody can add to *)
(* them any more, though the decision rests on reads made earlier.         *)
TailIsFinal ==
    [][(\E r \in Readers : reader[r].tail) => UNCHANGED files]_vars

(* drain_output_events, supervise: a reader of the whole log finds exactly *)
(* the lines that the truncation notice or the exit record counts. The     *)
(* notice of a failed capture counts no line that cannot be read; the drop *)
(* of the writer may bring more of them to the log after the count.        *)
NoticesAreExact ==
    ~index_torn /\ Len(log) - IndexedEnd(Len(index), Len(log)) <= MaxRecovery =>
        /\ output_truncation # None /\ capture_error = None => Len(AllLines) = output_truncation
        /\ capture_error # None => Len(AllLines) \in capture_error..(Len(lines) + 1)
        /\ exit # None /\ capture_error = None => AllLines = lines /\ exit = Len(lines)

(* What the notices say of the output is true: the job reached its limit,  *)
(* unless its stream ended inside a unit, and so many lines are there.     *)
NoticesAreTrue ==
    /\ encoding = "bytes" \/ source = "open" => TruncatedOnlyWhenFull
    /\ NoticesAreExact

(* read_log_delta: a dashboard's cursor never goes stale, so no line is    *)
(* shown twice and none passes unobserved.                                 *)
CursorsStayValid ==
    \A r \in Readers :
        reader[r].pc = "open" /\ ~reader[r].damaged => ~CursorIsStale(r)

(* Every reader sees one and the same log: a healthy index is never taken  *)
(* for a damaged one, a line has one number for ever, and no cursor is     *)
(* lost.                                                                   *)
ReadersAgree == TypeOK /\ HealthyIndex /\ LinesKeepTheirNumbers /\ CursorsStayValid

(* flush_if_idle, flush, finish: a committed line reaches the index while  *)
(* the job runs on, unless the capture fails or the supervisor dies.       *)
LinesReachTheIndex ==
    \A n \in 1..(ByteLimit \div EntryBytes) :
        Len(lines) >= n ~> \/ Len(index) >= EntryBytes * n
                           \/ writer = "dropped" \/ pc = "gone"

(* supervise: once the output is over, the exit record follows, whatever   *)
(* fails in the capture.                                                   *)
ExitIsRecorded == (source = "ended") ~> (pc = "gone")

(* What the command printed becomes visible, and so does its end.          *)
OutputSettles == LinesReachTheIndex /\ ExitIsRecorded
=============================================================================
