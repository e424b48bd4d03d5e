-------------------------------- MODULE Wire --------------------------------
(***************************************************************************)
(* The bytes of the protocol: primitive types (internal/protocol/codec.go),*)
(* frames (frame.go), the bodies of requests and responses (requests.go,   *)
(* responses.go), the replica fetch (internal/replication/replication.go), *)
(* member assignments (internal/coordinator/assignor.go) and records       *)
(* (internal/storage/record.go).                                           *)
(*                                                                         *)
(* Every message of the code has an Encode and a Decode written by hand,   *)
(* one call per field.  Here each is the list of the fields it puts or     *)
(* reads, in the order of its calls, so that the two may disagree.  A byte *)
(* is a number below 256, a string the sequence of its bytes, a nil slice  *)
(* Nil, a write or read that fails Err.  An int64 has its eight bytes, but *)
(* values beyond 32 bits are outside TLC's arithmetic.                     *)
(*                                                                         *)
(* A definition whose name starts with Faulty is the one that follows it   *)
(* with a defect; no specification uses it.                                *)
(***************************************************************************)
EXTENDS Integers, Sequences, SequencesExt, TLC

CONSTANTS
    Nil, Err,
    MaxStringLength,    \* longest string: math.MaxInt16
    MaxBytesLength,     \* longest byte slice that is decoded
    MaxElements,        \* most elements a request's array may announce
    MaxFrameSize,       \* largest frame
    MaxRecordSize       \* largest record

Failed == [ok |-> FALSE, val |-> Err, rest |-> <<>>]
Read(v, rest) == [ok |-> TRUE, val |-> v, rest |-> rest]

Drop(n, in) == SubSeq(in, n + 1, Len(in))

-----------------------------------------------------------------------------
(* Primitive types.                                                        *)

(* The writers stop at the first error.                                    *)
Then(w, bytes) == IF Err \in {w, bytes} THEN Err ELSE w \o bytes

(* Big-endian two's complement.                                            *)
PutInt(width, v) ==
    [i \in 1..width |->
        IF width - i >= 4 THEN (IF v < 0 THEN 255 ELSE 0)
        ELSE (v \div (256 ^ (width - i))) % 256]

PutString(v) ==
    IF Len(v) > MaxStringLength THEN Err ELSE PutInt(2, Len(v)) \o v

PutBytes(v) == IF v = Nil THEN PutInt(4, 0) ELSE PutInt(4, Len(v)) \o v

GetInt(width, in) ==
    LET sign == IF in[1] >= 128 THEN -1 ELSE 0
        v[i \in 0..width] == IF i = 0 THEN sign ELSE v[i - 1] * 256 + in[i]
    IN  IF Len(in) < width THEN Failed ELSE Read(v[width], Drop(width, in))

FaultyShortRead(n, in) ==
    LET m == IF Len(in) < n THEN Len(in) ELSE n
    IN  Read(SubSeq(in, 1, m), Drop(m, in))

(* io.ReadFull.                                                            *)
ReadFull(n, in) ==
    IF Len(in) < n THEN Failed ELSE Read(SubSeq(in, 1, n), Drop(n, in))

(* A null string is read as the empty one.                                 *)
String(in) ==
    LET length == GetInt(2, in)
    IN  IF ~length.ok THEN Failed
        ELSE IF length.val <= 0 THEN Read(<<>>, length.rest)
        ELSE ReadFull(length.val, length.rest)

Bytes(in) ==
    LET length == GetInt(4, in)
    IN  IF ~length.ok THEN Failed
        ELSE IF length.val < 0 THEN Read(Nil, length.rest)
        ELSE IF length.val > MaxBytesLength THEN Failed
        ELSE ReadFull(length.val, length.rest)

ArrayHeader(in) == GetInt(4, in)

(* Requests are decoded with a limit on the elements of an array.          *)
ReadArrayHeader(in) ==
    LET count == ArrayHeader(in)
    IN  IF count.ok /\ count.val > MaxElements THEN Failed ELSE count

-----------------------------------------------------------------------------
(* Fields.  An Array holds structures and a List holds plain values; both  *)
(* are read without a limit, and with one as ReadArray and ReadList.  Only *)
(* a NullableList writes nil as null.                                      *)

Field(kind, name) == [name |-> name, kind |-> kind, of |-> <<>>]
Int16(name) == Field("Int16", name)
Int32(name) == Field("Int32", name)
Int64(name) == Field("Int64", name)
Str(name) == Field("String", name)
Raw(name) == Field("Bytes", name)
Array(name, of) == [name |-> name, kind |-> "Array", of |-> of]
ReadArray(name, of) == [name |-> name, kind |-> "ReadArray", of |-> of]
List(name, element(_)) == [name |-> name, kind |-> "List", of |-> <<element("")>>]
ReadList(name, element(_)) == [name |-> name, kind |-> "ReadList", of |-> <<element("")>>]
NullableList(name, element(_)) ==
    [name |-> name, kind |-> "NullableList", of |-> <<element("")>>]

Elements(v) == IF v = Nil THEN <<>> ELSE v

RECURSIVE Encode(_, _)

RECURSIVE PutElements(_, _)

PutElements(f, v) ==
    IF v = <<>> THEN <<>>
    ELSE Then(Encode(f.of, IF f.kind = "Array" THEN Head(v) ELSE "" :> Head(v)),
              PutElements(f, Tail(v)))

Put(f, v) ==
    CASE f.kind = "Int16" -> PutInt(2, v)
      [] f.kind = "Int32" -> PutInt(4, v)
      [] f.kind = "Int64" -> PutInt(8, v)
      [] f.kind = "String" -> PutString(v)
      [] f.kind = "Bytes" -> PutBytes(v)
      [] f.kind = "NullableList" /\ v = Nil -> PutInt(4, -1)
      [] OTHER -> Then(PutInt(4, Len(Elements(v))), PutElements(f, Elements(v)))

Encode(fields, m) ==
    IF fields = <<>> THEN <<>>
    ELSE Then(Put(Head(fields), m[Head(fields).name]), Encode(Tail(fields), m))

RECURSIVE Decode(_, _)

RECURSIVE GetElements(_, _, _)

(* n elements.                                                             *)
GetElements(f, n, in) ==
    IF n = 0 THEN Read(<<>>, in)
    ELSE LET first == Decode(f.of, in)
             others == GetElements(f, n - 1, first.rest)
             v == IF f.kind \in {"List", "ReadList"} THEN first.val[""] ELSE first.val
         IN  IF ~first.ok THEN Failed
             ELSE IF ~others.ok THEN Failed
             ELSE Read(<<v>> \o others.val, others.rest)

Get(f, in) ==
    CASE f.kind = "Int16" -> GetInt(2, in)
      [] f.kind = "Int32" -> GetInt(4, in)
      [] f.kind = "Int64" -> GetInt(8, in)
      [] f.kind = "String" -> String(in)
      [] f.kind = "Bytes" -> Bytes(in)
      [] OTHER ->
            LET count == IF f.kind \in {"ReadArray", "ReadList"}
                         THEN ReadArrayHeader(in) ELSE ArrayHeader(in)
            IN  IF ~count.ok THEN Failed
                ELSE IF count.val < 0 THEN Read(Nil, count.rest)
                ELSE GetElements(f, count.val, count.rest)

Decode(fields, in) ==
    IF fields = <<>> THEN Read([n \in {} |-> 0], in)
    ELSE LET first == Get(Head(fields), in)
             others == Decode(Tail(fields), first.rest)
         IN  IF ~first.ok THEN Failed
             ELSE IF ~others.ok THEN Failed
             ELSE Read((Head(fields).name :> first.val) @@ others.val, others.rest)

-----------------------------------------------------------------------------
(* Frames: the size of the body and the body.                              *)

RequestFrameWrites ==
    <<Int16("ApiKey"), Int16("ApiVersion"), Int32("CorrelationID"), Str("ClientID"),
      Raw("Payload")>>
RequestFrameReads ==
    <<Int16("ApiKey"), Int16("ApiVersion"), Int32("CorrelationID"), Str("ClientID"),
      Raw("Payload")>>
ResponseFrameWrites == <<Int32("CorrelationID"), Int16("ErrorCode"), Raw("Payload")>>
ResponseFrameReads == <<Int32("CorrelationID"), Int16("ErrorCode"), Raw("Payload")>>

Write(fields, frame) ==
    LET body == Encode(fields, frame)
    IN  IF body = Err THEN Err ELSE PutInt(4, Len(body)) \o body

(* The fields are read from at most size bytes, and nothing may be left of *)
(* them.                                                                   *)
ReadBody(fields, size, in) ==
    LET n == IF size < Len(in) THEN size ELSE Len(in)
        d == Decode(fields, SubSeq(in, 1, n))
    IN  IF d.ok /\ d.rest = <<>> THEN Read(d.val, Drop(n, in)) ELSE Failed

(* ReadRequestFrameWithLimit.  A frame above the server's limit is skipped *)
(* before the error is returned.                                           *)
ReadRequestFrame(limit, in) ==
    LET size == GetInt(4, in)
    IN  IF ~size.ok THEN Failed
        ELSE IF size.val < 0 \/ size.val > MaxFrameSize THEN Failed
        ELSE IF limit > 0 /\ size.val > limit
             THEN [ok |-> FALSE, val |-> Err, rest |-> Drop(size.val, size.rest)]
        ELSE ReadBody(RequestFrameReads, size.val, size.rest)

ReadResponseFrame(in) ==
    LET size == GetInt(4, in)
    IN  IF ~size.ok THEN Failed
        ELSE IF size.val < 0 \/ size.val > MaxFrameSize THEN Failed
        ELSE ReadBody(ResponseFrameReads, size.val, size.rest)

-----------------------------------------------------------------------------
(* Records.                                                                *)

(* Stands for CRC-32C: any change of a single byte changes it.             *)
Checksum(bytes) == PutInt(4, FoldLeft(LAMBDA sum, b : (sum * 3 + b) % 65521, 7, bytes))

PutSlice(v) == IF v = Nil THEN PutInt(4, -1) ELSE PutInt(4, Len(v)) \o v

EncodeRecord(r) ==
    LET covered == PutInt(1, r.Attributes) \o PutSlice(r.Key) \o PutSlice(r.Value)
        payload == PutInt(8, r.Offset) \o PutInt(8, r.Timestamp)
                       \o Checksum(covered) \o covered
    IN  IF 4 + Len(payload) > MaxRecordSize THEN Err
        ELSE PutInt(4, Len(payload)) \o payload

(* The key or the value: a length other than -1 may not be negative, nor   *)
(* reach beyond the record.                                                *)
GetSlice(in) ==
    LET length == GetInt(4, in)
    IN  IF ~length.ok \/ length.val < -1 THEN Failed
        ELSE IF length.val = -1 THEN Read(Nil, length.rest)
        ELSE ReadFull(length.val, length.rest)

FaultyNoChecksum(payload) ==
    LET covered == Drop(20, payload)
        key == GetSlice(Drop(1, covered))
        value == IF key.ok THEN GetSlice(key.rest) ELSE Failed
    IN  IF Len(payload) < 29 THEN Failed
        ELSE IF ~value.ok THEN Failed
        ELSE Read([Offset |-> GetInt(8, payload).val,
                   Timestamp |-> GetInt(8, Drop(8, payload)).val,
                   Attributes |-> GetInt(1, covered).val,
                   Key |-> key.val, Value |-> value.val], <<>>)

(* The fields of a payload that is complete.  What follows the value is    *)
(* not looked at.                                                          *)
DecodePayload(payload) ==
    LET covered == Drop(20, payload)
        key == GetSlice(Drop(1, covered))
        value == IF key.ok THEN GetSlice(key.rest) ELSE Failed
    IN  IF Len(payload) < 29 THEN Failed
        ELSE IF Checksum(covered) # SubSeq(payload, 17, 20) THEN Failed
        ELSE IF ~value.ok THEN Failed
        ELSE Read([Offset |-> GetInt(8, payload).val,
                   Timestamp |-> GetInt(8, Drop(8, payload)).val,
                   Attributes |-> GetInt(1, covered).val,
                   Key |-> key.val, Value |-> value.val], <<>>)

DecodeRecord(in) ==
    LET length == GetInt(4, in)
        payload == ReadFull(length.val, length.rest)
    IN  IF ~length.ok THEN Failed
        ELSE IF length.val < 0 \/ length.val > MaxRecordSize THEN Failed
        ELSE IF ~payload.ok THEN Failed
        ELSE LET d == DecodePayload(payload.val)
             IN  IF d.ok THEN Read(d.val, payload.rest) ELSE Failed

RECURSIVE DecodeRecords(_)

(* The records of an answer to a follower: what does not decode ends them. *)
DecodeRecords(in) ==
    LET r == DecodeRecord(in)
    IN  IF in = <<>> \/ ~r.ok THEN <<>> ELSE <<r.val>> \o DecodeRecords(r.rest)

EncodeReplicaFetchResponse(code, hw, records) ==
    FoldLeft(LAMBDA w, r : Then(w, EncodeRecord(r)),
             PutInt(2, code) \o PutInt(8, hw), records)

DecodeReplicaFetchResponse(in) ==
    LET code == GetInt(2, in)
        hw == GetInt(8, code.rest)
    IN  IF ~code.ok THEN Failed
        ELSE IF ~hw.ok THEN Failed
        ELSE Read([ErrorCode |-> code.val, HighWatermark |-> hw.val,
                   Records |-> DecodeRecords(hw.rest)], <<>>)

=============================================================================
