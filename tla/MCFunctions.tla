---------------------------- MODULE MCFunctions -----------------------------
(***************************************************************************)
(* Walks through the inputs of the pure functions.  For the assignors a    *)
(* step adds a member, a topic or a partition.  For the wire format a step *)
(* chooses a message and its shape: the length of its strings, byte slices *)
(* and arrays, and the sign of its numbers.  Every field of a message is   *)
(* given a value of its own.                                               *)
(***************************************************************************)
EXTENDS Assignors, Messages

CONSTANTS
    MaxMembers,     \* bound: members of the group
    MaxTopics,      \* bound: subscribed topics
    MaxPartitions   \* bound: partitions of a topic

VARIABLES
    n,          \* members
    parts,      \* partitions of each topic
    message,    \* the kind of the message, or "none"
    decode,     \* the fields its receiver reads
    shape,
    expected,   \* what its receiver should see
    payload     \* its bytes

codecVars == <<message, decode, shape, expected, payload>>
vars == <<n, parts, codecVars>>

Codec(m, put, get) == [message |-> m, put |-> put, get |-> get]

Requests == {
    Codec("Produce", EncodeProduceRequest, DecodeProduceRequest),
    Codec("Fetch", EncodeFetchRequest, DecodeFetchRequest),
    Codec("ApiVersions", EncodeApiVersionsRequest, DecodeApiVersionsRequest),
    Codec("Metadata", EncodeMetadataRequest, DecodeMetadataRequest),
    Codec("CreateTopics", EncodeCreateTopicsRequest, DecodeCreateTopicsRequest),
    Codec("JoinGroup", EncodeJoinGroupRequest, DecodeJoinGroupRequest),
    Codec("SyncGroup", EncodeSyncGroupRequest, DecodeSyncGroupRequest),
    Codec("Heartbeat", EncodeHeartbeatRequest, DecodeHeartbeatRequest),
    Codec("LeaveGroup", EncodeLeaveGroupRequest, DecodeLeaveGroupRequest),
    Codec("OffsetCommit", EncodeOffsetCommitRequest, DecodeOffsetCommitRequest),
    Codec("OffsetFetch", EncodeOffsetFetchRequest, DecodeOffsetFetchRequest),
    Codec("ListOffsets", EncodeListOffsetsRequest, DecodeListOffsetsRequest),
    Codec("ReplicaFetch", EncodeReplicaFetchRequest, DecodeReplicaFetchRequest)}

Responses == {
    Codec("ProduceResponse", EncodeProduceResponse, DecodeProduceResponse),
    Codec("FetchResponse", EncodeFetchResponse, DecodeFetchResponse),
    Codec("ApiVersionsResponse", EncodeApiVersionsResponse, DecodeApiVersionsResponse),
    Codec("MetadataResponse", EncodeMetadataResponse, DecodeMetadataResponse),
    Codec("CreateTopicsResponse", EncodeCreateTopicsResponse, DecodeCreateTopicsResponse),
    Codec("JoinGroupResponse", EncodeJoinGroupResponse, DecodeJoinGroupResponse),
    Codec("SyncGroupResponse", EncodeSyncGroupResponse, DecodeSyncGroupResponse),
    Codec("HeartbeatResponse", EncodeHeartbeatResponse, DecodeHeartbeatResponse),
    Codec("LeaveGroupResponse", EncodeLeaveGroupResponse, DecodeLeaveGroupResponse),
    Codec("OffsetCommitResponse", EncodeOffsetCommitResponse, DecodeOffsetCommitResponse),
    Codec("OffsetFetchResponse", EncodeOffsetFetchResponse, DecodeOffsetFetchResponse),
    Codec("ListOffsetsResponse", EncodeListOffsetsResponse, DecodeListOffsetsResponse),
    Codec("Assignment", EncodeAssignment, DecodeAssignment)}

RequestKinds ==
    {"Produce", "Fetch", "ApiVersions", "Metadata", "CreateTopics", "JoinGroup", "SyncGroup",
     "Heartbeat", "LeaveGroup", "OffsetCommit", "OffsetFetch", "ListOffsets", "ReplicaFetch"}

Shapes == [string : {0, 2, 3}, slice : {-1, 0, 2}, array : {-1, 0, 1, 2},
           negative : BOOLEAN]

Number(s, seed) == IF s.negative THEN -((seed % 300) * 100 + 1) ELSE (seed % 300) * 100 + 1

Slice(length, seed) == [i \in 1..length |-> (seed * 3 + i) % 256]

RECURSIVE Sample(_, _, _)

SampleField(f, s, seed) ==
    CASE f.kind \in {"Int16", "Int32", "Int64"} -> Number(s, seed)
      [] f.kind = "String" -> Slice(s.string, seed)
      [] f.kind = "Bytes" -> IF s.slice < 0 THEN Nil ELSE Slice(s.slice, seed)
      [] s.array < 0 -> Nil
      [] f.kind = "Array" -> [i \in 1..s.array |-> Sample(f.of, s, seed * 3 + i)]
      [] OTHER -> [i \in 1..s.array |-> Sample(f.of, s, seed * 3 + i)[""]]

Sample(fields, s, seed) ==
    [name \in {fields[i].name : i \in DOMAIN fields} |->
        LET i == CHOOSE j \in DOMAIN fields : fields[j].name = name
        IN  SampleField(fields[i], s, seed * 7 + i)]

RECURSIVE Normal(_, _)

NormalField(f, v) ==
    IF f.kind \in {"Bytes", "List"} THEN Elements(v)
    ELSE IF f.kind = "Array" THEN [i \in DOMAIN Elements(v) |-> Normal(f.of, v[i])]
    ELSE v

(* What must arrive: the message, with nil as empty where the encoder does *)
(* not tell them apart.                                                    *)
Normal(fields, m) ==
    [name \in DOMAIN m |->
        LET i == CHOOSE j \in DOMAIN fields : fields[j].name = name
        IN  NormalField(fields[i], m[name])]

-----------------------------------------------------------------------------
Init ==
    /\ n = 1
    /\ parts = <<>>
    /\ message = "none"
    /\ decode = <<>>
    /\ shape = [string |-> 0, slice |-> 0, array |-> 0, negative |-> FALSE]
    /\ expected = <<>>
    /\ payload = <<>>

AddMember ==
    /\ message = "none"
    /\ n < MaxMembers
    /\ n' = n + 1
    /\ UNCHANGED <<parts, codecVars>>

AddTopic ==
    /\ message = "none"
    /\ Len(parts) < MaxTopics
    /\ parts' = Append(parts, 0)
    /\ UNCHANGED <<n, codecVars>>

AddPartition ==
    \E t \in 1..Len(parts) :
        /\ message = "none"
        /\ parts[t] < MaxPartitions
        /\ parts' = [parts EXCEPT ![t] = @ + 1]
        /\ UNCHANGED <<n, codecVars>>

EncodeMessage ==
    \E c \in Requests \cup Responses, s \in Shapes :
        LET sent == Sample(c.put, s, 1)
        IN  /\ message = "none"
            /\ n = 1 /\ parts = <<>>
            /\ message' = c.message
            /\ decode' = c.get
            /\ shape' = s
            /\ expected' = Normal(c.put, sent)
            /\ payload' = Encode(c.put, sent)
            /\ UNCHANGED <<n, parts>>

Next == AddMember \/ AddTopic \/ AddPartition \/ EncodeMessage

Spec == Init /\ [][Next]_vars

-----------------------------------------------------------------------------
(* Both assignors give every topic-partition exactly one owner, also with  *)
(* more members than partitions and topics without any.  RangeAssignor is  *)
(* balanced within every topic, though not over all of them together, and  *)
(* RoundRobinAssignor over all topics.                                     *)
AssignmentsAreFair ==
    LET ranges == RangeAssign(n, parts)
        dealt == RoundRobinAssign(n, parts)
    IN  /\ IsExactCover(ranges, parts)
        /\ \A t \in 1..Len(parts) : IsBalanced(OfTopic(ranges, t))
        /\ IsExactCover(dealt, parts)
        /\ IsBalanced(dealt)

-----------------------------------------------------------------------------
Framed ==
    IF message \in RequestKinds
    THEN Write(RequestFrameWrites,
               [ApiKey |-> 11, ApiVersion |-> 1, CorrelationID |-> Number(shape, 9),
                ClientID |-> <<67, 68>>, Payload |-> payload])
    ELSE Write(ResponseFrameWrites,
               [CorrelationID |-> Number(shape, 9), ErrorCode |-> 3, Payload |-> payload])

ReadFrame(in) ==
    IF message \in RequestKinds THEN ReadRequestFrame(0, in) ELSE ReadResponseFrame(in)

(* Every message arrives as it was sent: Decode reads the fields in the    *)
(* order, with the width and with the meaning of nil that Encode wrote     *)
(* them with, up to the last byte, and the frame read first from a         *)
(* connection that already holds the next one leaves that one whole.       *)
(* Encode refuses only strings its length prefix cannot hold.  The         *)
(* server's limit counts the body of a request: one of that size is read,  *)
(* a larger one is refused and taken off the connection.                   *)
MessagesArrive ==
    message # "none" =>
        LET framed == Framed
            frame == ReadFrame(framed \o framed)
            body == Decode(decode, frame.val.Payload)
        IN  IF payload = Err THEN shape.string > MaxStringLength
            ELSE /\ frame.ok
                 /\ frame.rest = framed
                 /\ frame.val.CorrelationID = Number(shape, 9)
                 /\ body.ok
                 /\ body.rest = <<>>
                 /\ body.val = expected
                 /\ message \in RequestKinds =>
                        LET size == Len(framed) - 4
                            refused == ReadRequestFrame(size - 1, framed \o framed)
                        IN  /\ ReadRequestFrame(size, framed).ok
                            /\ ~refused.ok
                            /\ refused.rest = framed

(* No message and no frame that was cut short is taken for a complete one. *)
(* DecodeAssignment alone accepts the empty input, as no assignment.       *)
CutIsNoticed ==
    message # "none" /\ payload # Err =>
        LET framed == Framed
        IN  /\ \A k \in 0..(Len(payload) - 1) :
                  Decode(decode, SubSeq(payload, 1, k)).ok => message = "Assignment" /\ k = 0
            /\ \A k \in 0..(Len(framed) - 1) : ~ReadFrame(SubSeq(framed, 1, k)).ok

Records ==
    [i \in 1..(IF shape.array < 0 THEN 0 ELSE shape.array) |->
        [Offset |-> i, Timestamp |-> Number(shape, i), Attributes |-> 0,
         Key |-> IF shape.slice < 0 THEN Nil ELSE Slice(shape.slice, i),
         Value |-> Slice(shape.string, i)]]

(* The answer to a follower carries records without a count, and the       *)
(* decoder stops where one does not decode: of an answer cut anywhere the  *)
(* follower gets exactly the records that are complete, and of one with a  *)
(* damaged record exactly those before it.                                 *)
FollowerGetsPrefix ==
    message = "ReplicaFetch" =>
        LET answer == EncodeReplicaFetchResponse(0, 5, Records)
            End(i) == Len(EncodeReplicaFetchResponse(0, 5, SubSeq(Records, 1, i)))
            Complete(k) == CHOOSE i \in 0..Len(Records) :
                              End(i) <= k /\ (i = Len(Records) \/ End(i + 1) > k)
            damaged(i) == [answer EXCEPT ![End(i)] = (@ + 1) % 256]
        IN  /\ \A k \in 0..Len(answer) :
                  LET d == DecodeReplicaFetchResponse(SubSeq(answer, 1, k))
                  IN  /\ d.ok <=> k >= 10
                      /\ d.ok => d.val.Records = SubSeq(Records, 1, Complete(k))
            /\ \A i \in 1..Len(Records) :
                  DecodeReplicaFetchResponse(damaged(i)).val.Records
                      = SubSeq(Records, 1, i - 1)

=============================================================================
