---------------------------- MODULE SegmentedLog ----------------------------
(***************************************************************************)
(* The log of one partition: segments of records with a sparse index each, *)
(* rotation, retention, flushing, and recovery after a crash               *)
(* (internal/storage/log.go, segment.go, index.go).                        *)
(*                                                                         *)
(* Every operation of Log runs under the log's lock, so one call is one    *)
(* action.  A record is reduced to its identity, its offset and its        *)
(* encoded size; a byte position is the sum of the sizes before it.  Age   *)
(* limits are nondeterministic: segments age in the order they were        *)
(* created.  A crash keeps, of each .log file, any prefix that holds what  *)
(* was synced, and of an index file, which is never synced, any entries.   *)
(***************************************************************************)
EXTENDS Integers, Sequences, SequencesExt

CONSTANTS
    Sizes,               \* encoded sizes of records
    SegmentBytes,        \* Config.SegmentBytes
    IndexIntervalBytes,  \* Config.IndexIntervalBytes
    IndexMaxEntries,     \* Config.IndexMaxBytes / entrySize
    FlushMessages,       \* Config.FlushMessages
    RetentionBytes,      \* Config.RetentionBytes; 0 means no limit
    MaxBatch,            \* bound: records in one AppendBatch
    MaxRecords,          \* bound: records ever appended
    MaxCrashes,          \* bound: crashes
    MaxRemoveFailures    \* bound: segments whose files cannot be removed

ASSUME LogAssumption ==
    /\ Sizes \subseteq Nat \ {0}
    /\ SegmentBytes \in Nat \ {0}
    /\ IndexIntervalBytes \in Nat \ {0}
    /\ IndexMaxEntries \in Nat \ {0}
    /\ FlushMessages \in Nat
    /\ RetentionBytes \in Int

VARIABLES
    segments,            \* Log.segments; the last one is active
    messagesSinceFlush,
    status,              \* "open", or "down" between Close or crash and NewLog
    appended,            \* records ever appended: their identities
    crashes,
    removeFailures

vars == <<segments, messagesSinceFlush, status, appended, crashes,
          removeFailures>>

Bytes(recs) == FoldLeft(LAMBDA sum, r : sum + r.size, 0, recs)

Position(recs, i) == Bytes(SubSeq(recs, 1, i - 1))

-----------------------------------------------------------------------------
(* Index.  An entry is <<relativeOffset, position>>.                       *)

ZeroEntry == <<0, 0>>

(* sort.Search: bisection, also over keys that are not sorted.             *)
Search(test) ==
    LET n == Len(test)
        bisect[i, j \in 0..n] ==
            IF i >= j THEN i
            ELSE LET h == (i + j) \div 2
                 IN  IF test[h + 1] THEN bisect[i, h] ELSE bisect[h + 1, j]
    IN  bisect[0, n]

(* The position of an exact match, or of the nearest lower entry, or 0.    *)
Lookup(index, relativeOffset) ==
    LET n == Len(index)
        idx == Search([j \in 1..n |-> index[j][1] >= relativeOffset])
    IN  IF idx < n /\ index[idx + 1][1] = relativeOffset THEN index[idx + 1][2]
        ELSE IF idx > 0 THEN index[idx][2]
        ELSE 0

(* NewIndex drops trailing zero entries, except the first.                 *)
TrimZeroes(index) ==
    LET used == {i \in 1..Len(index) : i = 1 \/ index[i] # ZeroEntry}
    IN  IF used = {} THEN <<>> ELSE SubSeq(index, 1, Max(used))

-----------------------------------------------------------------------------
(* Segment.  `flushed` and `synced` count the records that have left the   *)
(* buffered writer and that an fsync has covered.                          *)

NewSegment(base) ==
    [BaseOffset |-> base, NextOffset |-> base, recs |-> <<>>, flushed |-> 0,
     synced |-> 0, index |-> <<>>, sinceIndex |-> 0, sealed |-> FALSE,
     closed |-> FALSE]

Flush(s) == [s EXCEPT !.flushed = Len(s.recs), !.synced = Len(s.recs)]

FlushWriter(s) == [s EXCEPT !.flushed = Len(s.recs)]

(* An index entry is due for the first record and after every              *)
(* IndexIntervalBytes.                                                     *)
IndexDue(s, size) == s.index = <<>> \/ s.sinceIndex + size >= IndexIntervalBytes

(* Index.Seal leaves no room for another entry.                            *)
IndexHasRoom(s) == ~ s.sealed /\ Len(s.index) + 1 <= IndexMaxEntries

(* A fault: only the bytes of the .log file count.                         *)
FaultyIgnoresIndex(s) == s.closed \/ Bytes(s.recs) >= SegmentBytes

IsFull(s) ==
    \/ s.closed
    \/ Bytes(s.recs) >= SegmentBytes
    \/ ~ IndexHasRoom(s)

Write(s, rec) ==
    LET entry == <<rec.offset - s.BaseOffset, Bytes(s.recs)>>
        indexed == IndexDue(s, rec.size) /\ IndexHasRoom(s)
    IN  [s EXCEPT !.recs = Append(@, rec),
                  !.index = IF indexed THEN Append(@, entry) ELSE @,
                  !.sinceIndex = IF indexed THEN 0 ELSE @ + rec.size]

(* Segment.Append.  If an entry is due and the index has no room, the      *)
(* bytes are written but the offset is not consumed.                       *)
SegmentAppend(s, id, size) ==
    LET rec == [id |-> id, offset |-> s.NextOffset, size |-> size]
    IN  [Write(s, rec) EXCEPT
            !.NextOffset = IF IndexDue(s, size) /\ ~ IndexHasRoom(s) THEN @
                           ELSE @ + 1]

(* Decoding the .log file from a byte position: nothing if no record       *)
(* starts there.                                                           *)
DecodeFrom(s, position) ==
    LET starts == {i \in 1..s.flushed : Position(s.recs, i) = position}
    IN  IF starts = {} THEN <<>>
        ELSE SubSeq(s.recs, CHOOSE i \in starts : TRUE, s.flushed)

(* The records from an offset on, found through the index.                 *)
ScanFrom(s, offset) ==
    SelectSeq(DecodeFrom(s, Lookup(s.index, offset - s.BaseOffset)),
              LAMBDA r : r.offset >= offset)

(* A fault: the first record has to fit too.                               *)
FaultyStrictBudget(s, offset, maxBytes) ==
    LET found == ScanFrom(s, offset)
        fits == {k \in 0..Len(found) : Bytes(SubSeq(found, 1, k)) <= maxBytes}
    IN  SubSeq(found, 1, Max(fits))

(* Segment.ReadFrom takes records while they fit, the first one always.    *)
SegmentReadFrom(s, offset, maxBytes) ==
    LET found == ScanFrom(s, offset)
        fits == {k \in 0..Len(found) :
                    k <= 1 \/ Bytes(SubSeq(found, 1, k)) <= maxBytes}
    IN  IF maxBytes <= 0 THEN <<>> ELSE SubSeq(found, 1, Max(fits))

-----------------------------------------------------------------------------
(* Log, with its lock held.  `l` holds the segments and the flush counter  *)
(* while a batch is being appended.                                        *)

Active(segs) == Last(segs)

SetActive(segs, s) == ReplaceAt(segs, Len(segs), s)

(* A fault: the outgoing segment is not fsynced.                           *)
FaultyNoSync(l) ==
    LET sealed == [FlushWriter(Active(l.segments)) EXCEPT !.sealed = TRUE]
    IN  [l EXCEPT
            !.segments = Append(SetActive(@, sealed), NewSegment(sealed.NextOffset)),
            !.messagesSinceFlush = 0]

rotateLocked(l) ==
    LET sealed == [Flush(Active(l.segments)) EXCEPT !.sealed = TRUE]
    IN  [l EXCEPT
            !.segments = Append(SetActive(@, sealed), NewSegment(sealed.NextOffset)),
            !.messagesSinceFlush = 0]

(* `aged`: the segment has reached SegmentMs, which counts only if it has  *)
(* a record.                                                               *)
shouldRotateLocked(l, aged) ==
    LET a == Active(l.segments)
    IN  IsFull(a) \/ (aged /\ a.NextOffset > a.BaseOffset)

maybeRotateLocked(l, aged) ==
    IF shouldRotateLocked(l, aged) THEN rotateLocked(l) ELSE l

(* One record of a batch.  Encode rejects a record of size 0, which stands *)
(* for one that is too large; the first error ends the batch.              *)
AppendRecord(l, r) ==
    LET ready == maybeRotateLocked(l, r.aged)
        before == Active(ready.segments)
        after == SegmentAppend(before, l.appended + 1, r.size)
        stored == after.NextOffset # before.NextOffset
        counted == ready.messagesSinceFlush
                       + (IF stored /\ FlushMessages > 0 THEN 1 ELSE 0)
        flush == stored /\ FlushMessages > 0 /\ counted >= FlushMessages
    IN  IF l.failed THEN l
        ELSE IF r.size = 0 THEN [ready EXCEPT !.failed = TRUE]
        ELSE [segments |-> SetActive(ready.segments,
                               IF flush THEN Flush(after) ELSE after),
              messagesSinceFlush |-> IF flush THEN 0 ELSE counted,
              appended |-> l.appended + 1,
              failed |-> ~ stored]

Batches ==
    BoundedSeq([size : Sizes \cup {0}, aged : BOOLEAN], MaxBatch) \ {<<>>}

AppendBatch(batch) ==
    LET l == FoldLeft(AppendRecord,
                      [segments |-> segments, appended |-> appended,
                       messagesSinceFlush |-> messagesSinceFlush,
                       failed |-> FALSE], batch)
    IN  /\ status = "open"
        /\ appended + Len(batch) <= MaxRecords
        /\ segments' = l.segments
        /\ messagesSinceFlush' = l.messagesSinceFlush
        /\ appended' = l.appended
        /\ UNCHANGED <<status, crashes, removeFailures>>

(* A fault: reads do not flush the buffered writer.                        *)
FaultyUnflushed == segments

(* Reads leave the active segment's buffered writer empty.                 *)
Readable == SetActive(segments, IF Active(segments).closed THEN Active(segments)
                                ELSE FlushWriter(Active(segments)))

Read ==
    /\ status = "open"
    /\ segments' = Readable
    /\ UNCHANGED <<messagesSinceFlush, status, appended, crashes, removeFailures>>

findSegmentLocked(segs, offset) ==
    segs[Max({i \in 1..Len(segs) : segs[i].BaseOffset <= offset})]

(* Log.Read: what it finds at an offset, as a sequence of at most one.     *)
ReadAt(offset) ==
    LET s == findSegmentLocked(Readable, offset)
        found == ScanFrom(s, offset)
    IN  IF s.closed \/ found = <<>> \/ found[1].offset # offset THEN <<>>
        ELSE <<found[1]>>

(* Log.ReadFrom: the loop over the segments.                               *)
ReadFrom(from, maxBytes) ==
    LET segs == Readable
        Visit(a, i) ==
            LET s == segs[i]
                recs == SegmentReadFrom(s, a.offset, maxBytes - Bytes(a.out))
                out == a.out \o recs
            IN  IF a.stop \/ (i < Len(segs) /\ a.offset >= segs[i + 1].BaseOffset)
                THEN a
                ELSE IF a.offset < s.BaseOffset \/ s.closed
                THEN [a EXCEPT !.stop = TRUE]
                ELSE [out |-> out,
                      stop |-> Bytes(out) >= maxBytes \/ s.NextOffset <= a.offset,
                      offset |-> s.NextOffset]
    IN  FoldLeft(Visit, [out |-> <<>>, stop |-> FALSE, offset |-> from],
                 [i \in 1..Len(segs) |-> i]).out

LowestOffset == segments[1].BaseOffset

HighestOffset == Active(segments).NextOffset

-----------------------------------------------------------------------------
(* The background goroutine.                                               *)

runFlush ==
    /\ status = "open"
    /\ segments' = SetActive(segments, Flush(Active(segments)))
    /\ messagesSinceFlush' = 0
    /\ UNCHANGED <<status, appended, crashes, removeFailures>>

totalSizeLocked(segs) == FoldLeft(LAMBDA sum, s : sum + Bytes(s.recs), 0, segs)

(* The k oldest segments are past RetentionMs.  One whose files cannot be  *)
(* removed stays in the list, closed.                                      *)
DropExpired(segs, k, failing) ==
    LET kept == SelectSeq([i \in 1..Len(segs) |-> i],
                          LAMBDA i : i > k \/ i \in failing)
    IN  [j \in 1..Len(kept) |->
            IF kept[j] \in failing THEN [segs[kept[j]] EXCEPT !.closed = TRUE]
            ELSE segs[kept[j]]]

(* How many of the oldest have to go for the rest to be within             *)
(* RetentionBytes; the active one stays.                                   *)
Oversize(segs) ==
    LET n == Len(segs)
    IN  IF RetentionBytes <= 0 THEN 0
        ELSE Min({d \in 0..(n - 1) :
                    \/ d = n - 1
                    \/ totalSizeLocked(SubSeq(segs, d + 1, n)) <= RetentionBytes})

(* They go one by one; the first that cannot be removed ends the loop.     *)
DropOversize(segs, removable) ==
    IF removable = Oversize(segs)
    THEN SubSeq(segs, Oversize(segs) + 1, Len(segs))
    ELSE [SubSeq(segs, removable + 1, Len(segs)) EXCEPT ![1].closed = TRUE]

runRetention ==
    \E k \in 0..(Len(segments) - 1) : \E failing \in SUBSET (1..k) :
        LET young == DropExpired(segments, k, failing)
            failed == removeFailures + Cardinality(failing)
        IN  /\ status = "open"
            /\ Len(segments) > 1
            /\ failed <= MaxRemoveFailures
            /\ \E removable \in 0..Oversize(young) :
                  /\ segments' = DropOversize(young, removable)
                  /\ removeFailures' =
                        IF removable < Oversize(young) THEN failed + 1 ELSE failed
                  /\ removeFailures' <= MaxRemoveFailures
            /\ UNCHANGED <<messagesSinceFlush, status, appended, crashes>>

-----------------------------------------------------------------------------
(* Close, crash and recovery.                                              *)

Close ==
    /\ status = "open"
    /\ status' = "down"
    /\ segments' = [i \in 1..Len(segments) |-> FlushWriter(segments[i])]
    /\ UNCHANGED <<messagesSinceFlush, appended, crashes, removeFailures>>

(* What a crash may leave of a segment.                                    *)
Survivors(s) ==
    {[s EXCEPT !.recs = SubSeq(@, 1, k),
               !.index = [j \in DOMAIN @ |-> IF j \in zeroed THEN ZeroEntry
                                             ELSE @[j]]] :
        k \in s.synced..Len(s.recs), zeroed \in SUBSET DOMAIN s.index}

Crash ==
    LET Extended(lists, s) ==
            {Append(list, left) : list \in lists, left \in Survivors(s)}
    IN  /\ crashes < MaxCrashes
        /\ segments' \in FoldLeft(Extended, {<<>>}, segments)
        /\ status' = "down"
        /\ crashes' = crashes + 1
        /\ UNCHANGED <<messagesSinceFlush, appended, removeFailures>>

(* NewSegment on files that exist.                                         *)
Reopened(s) ==
    [NewSegment(s.BaseOffset) EXCEPT
        !.recs = s.recs, !.flushed = Len(s.recs), !.synced = s.synced,
        !.index = TrimZeroes(s.index)]

(* rebuildSegment reads the records back and indexes them afresh.          *)
rebuildSegment(s) ==
    LET Scan(seg, rec) ==
            [Write(seg, rec) EXCEPT !.NextOffset = rec.offset + 1]
        scanned == FoldLeft(Scan, NewSegment(s.BaseOffset), s.recs)
    IN  [scanned EXCEPT !.flushed = Len(s.recs), !.synced = s.synced]

NewLog ==
    /\ status = "down"
    /\ status' = "open"
    /\ segments' = [i \in 1..Len(segments) |->
                        IF i = Len(segments) THEN rebuildSegment(segments[i])
                        ELSE Reopened(segments[i])]
    /\ messagesSinceFlush' = 0
    /\ UNCHANGED <<appended, crashes, removeFailures>>

Init ==
    /\ segments = <<NewSegment(0)>>
    /\ messagesSinceFlush = 0
    /\ status = "open"
    /\ appended = 0
    /\ crashes = 0
    /\ removeFailures = 0

Next ==
    \/ \E batch \in Batches : AppendBatch(batch)
    \/ Read \/ runFlush \/ runRetention \/ Close \/ Crash \/ NewLog

Spec == Init /\ [][Next]_vars

-----------------------------------------------------------------------------
(* Properties.                                                             *)

TypeOK ==
    /\ Len(segments) > 0
    /\ \A i \in 1..Len(segments) :
         LET s == segments[i]
         IN  /\ s.BaseOffset \in Nat /\ s.NextOffset \in Nat
             /\ s.synced <= s.flushed \/ status = "down"
             /\ s.synced <= Len(s.recs)
             /\ Len(s.index) <= IndexMaxEntries
             /\ s.closed => i < Len(segments)
    /\ messagesSinceFlush \in Nat
    /\ status \in {"open", "down"}

(* All records of the log, oldest first.                                   *)
Records == FlattenSeq([i \in 1..Len(segments) |-> segments[i].recs])

(* While no removal has failed, the records of the log carry consecutive   *)
(* offsets from LowestOffset up to HighestOffset, across rotations,        *)
(* retention and recovery: no offset is lost, skipped or used twice.       *)
OffsetsDense ==
    removeFailures = 0 =>
        /\ \A i \in 1..Len(Records) : Records[i].offset = LowestOffset + i - 1
        /\ status = "open" => HighestOffset = LowestOffset + Len(Records)

(* Log.Read finds every record that is in a readable segment, whatever a   *)
(* crash left of the sparse index.                                         *)
ReadFindsRecord ==
    status = "open" =>
        \A i \in 1..Len(segments) :
            ~ segments[i].closed =>
                \A r \in Range(segments[i].recs) : ReadAt(r.offset) = <<r>>

(* Log.ReadFrom makes progress: for every record in a readable segment and *)
(* every positive budget it returns that record first.                     *)
ReadFromProgress ==
    status = "open" =>
        \A i \in 1..Len(segments), maxBytes \in 1..SegmentBytes :
            ~ segments[i].closed =>
                \A r \in Range(segments[i].recs) :
                    LET out == ReadFrom(r.offset, maxBytes)
                    IN  out # <<>> /\ out[1] = r

(* log.go, lines 258 to 260: ReadFrom reads "forward across segment        *)
(* boundaries until at most maxBytes of encoded record data have been      *)
(* accumulated".  What it returns has no gap.                              *)
ReadFromContiguous ==
    status = "open" =>
        \A r \in Range(Records), maxBytes \in 1..(2 * SegmentBytes) :
            LET out == ReadFrom(r.offset, maxBytes)
            IN  \A j \in 1..(Len(out) - 1) : out[j + 1].offset = out[j].offset + 1

(* docs/STORAGE.md, line 200: the NextOffset of a sealed segment "is set   *)
(* by the upper-level Log from the next segment's BaseOffset" on open.     *)
SealedNextOffset ==
    status = "open" =>
        \A i \in 1..(Len(segments) - 1) :
            segments[i].NextOffset = segments[i + 1].BaseOffset

(* The segmented log implements a plain log that is extended at its end,   *)
(* trimmed at its beginning, and loses in a crash no record that a flush   *)
(* or a rotation has synced.  A failed removal may leave a hole, but only  *)
(* among the synced records.                                               *)
Synced == FoldLeft(LAMBDA sum, s : sum + s.synced, 0, segments)

Log == INSTANCE AbstractLog
       WITH start <- LowestOffset, entries <- Records, durable <- Synced,
            stuck <- removeFailures > 0

ImplementsLog == Log!Spec

=============================================================================
