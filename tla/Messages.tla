------------------------------ MODULE Messages ------------------------------
(***************************************************************************)
(* The fields that Encode puts and that Decode reads, for every request    *)
(* and response (internal/protocol/requests.go, responses.go), the replica *)
(* fetch request and the member assignment.                                *)
(***************************************************************************)
EXTENDS Wire

-----------------------------------------------------------------------------
(* Requests.                                                               *)

EncodeProduceRequest ==
    <<Int16("Acks"), Int32("TimeoutMs"),
      Array("Topics", <<Str("Name"),
          Array("Partitions", <<Int32("PartitionID"), Raw("RecordSet")>>)>>)>>
DecodeProduceRequest ==
    <<Int16("Acks"), Int32("TimeoutMs"),
      ReadArray("Topics", <<Str("Name"),
          ReadArray("Partitions", <<Int32("PartitionID"), Raw("RecordSet")>>)>>)>>

EncodeFetchRequest ==
    <<Int32("MaxWaitMs"), Int32("MinBytes"), Int32("MaxBytes"),
      Array("Topics", <<Str("Name"),
          Array("Partitions",
                <<Int32("PartitionID"), Int64("FetchOffset"), Int32("MaxBytes")>>)>>)>>
DecodeFetchRequest ==
    <<Int32("MaxWaitMs"), Int32("MinBytes"), Int32("MaxBytes"),
      ReadArray("Topics", <<Str("Name"),
          ReadArray("Partitions",
                <<Int32("PartitionID"), Int64("FetchOffset"), Int32("MaxBytes")>>)>>)>>

EncodeApiVersionsRequest == <<>>
DecodeApiVersionsRequest == <<>>

EncodeMetadataRequest == <<NullableList("Topics", Str)>>
DecodeMetadataRequest == <<ReadList("Topics", Str)>>

EncodeCreateTopicsRequest ==
    <<Array("Topics", <<Str("Name"), Int32("NumPartitions"), Int16("ReplicationFactor")>>)>>
DecodeCreateTopicsRequest ==
    <<ReadArray("Topics",
                <<Str("Name"), Int32("NumPartitions"), Int16("ReplicationFactor")>>)>>

EncodeJoinGroupRequest ==
    <<Str("GroupID"), Int32("SessionTimeoutMs"), Str("MemberID"), Str("ProtocolType"),
      Array("Protocols", <<Str("Name"), Raw("Metadata")>>)>>
DecodeJoinGroupRequest ==
    <<Str("GroupID"), Int32("SessionTimeoutMs"), Str("MemberID"), Str("ProtocolType"),
      ReadArray("Protocols", <<Str("Name"), Raw("Metadata")>>)>>

EncodeSyncGroupRequest ==
    <<Str("GroupID"), Int32("GenerationID"), Str("MemberID"),
      Array("Assignments", <<Str("MemberID"), Raw("Assignment")>>)>>
DecodeSyncGroupRequest ==
    <<Str("GroupID"), Int32("GenerationID"), Str("MemberID"),
      ReadArray("Assignments", <<Str("MemberID"), Raw("Assignment")>>)>>

EncodeHeartbeatRequest == <<Str("GroupID"), Int32("GenerationID"), Str("MemberID")>>
DecodeHeartbeatRequest == <<Str("GroupID"), Int32("GenerationID"), Str("MemberID")>>

EncodeLeaveGroupRequest == <<Str("GroupID"), Str("MemberID")>>
DecodeLeaveGroupRequest == <<Str("GroupID"), Str("MemberID")>>

EncodeOffsetCommitRequest ==
    <<Str("GroupID"), Int32("GenerationID"), Str("MemberID"),
      Array("Topics", <<Str("Name"),
          Array("Partitions",
                <<Int32("PartitionID"), Int64("Offset"), Str("Metadata")>>)>>)>>
DecodeOffsetCommitRequest ==
    <<Str("GroupID"), Int32("GenerationID"), Str("MemberID"),
      ReadArray("Topics", <<Str("Name"),
          ReadArray("Partitions",
                <<Int32("PartitionID"), Int64("Offset"), Str("Metadata")>>)>>)>>

EncodeOffsetFetchRequest ==
    <<Str("GroupID"), Array("Topics", <<Str("Name"), List("Partitions", Int32)>>)>>
DecodeOffsetFetchRequest ==
    <<Str("GroupID"), ReadArray("Topics", <<Str("Name"), ReadList("Partitions", Int32)>>)>>

EncodeListOffsetsRequest ==
    <<Array("Topics", <<Str("Name"),
          Array("Partitions", <<Int32("PartitionID"), Int64("Timestamp")>>)>>)>>
DecodeListOffsetsRequest ==
    <<ReadArray("Topics", <<Str("Name"),
          ReadArray("Partitions", <<Int32("PartitionID"), Int64("Timestamp")>>)>>)>>

EncodeReplicaFetchRequest ==
    <<Int32("ReplicaID"), Int32("MaxWaitMs"), Str("Topic"), Int32("Partition"),
      Int64("FetchOffset")>>
DecodeReplicaFetchRequest ==
    <<Int32("ReplicaID"), Int32("MaxWaitMs"), Str("Topic"), Int32("Partition"),
      Int64("FetchOffset")>>

-----------------------------------------------------------------------------
(* Responses, and the assignment a SyncGroup response carries.             *)

EncodeProduceResponse ==
    <<Array("Topics", <<Str("Name"),
          Array("Partitions", <<Int32("PartitionID"), Int16("ErrorCode"),
                                Int64("BaseOffset"), Int64("LogAppendTime")>>)>>)>>
DecodeProduceResponse ==
    <<Array("Topics", <<Str("Name"),
          Array("Partitions", <<Int32("PartitionID"), Int16("ErrorCode"),
                                Int64("BaseOffset"), Int64("LogAppendTime")>>)>>)>>

EncodeFetchResponse ==
    <<Array("Topics", <<Str("Name"),
          Array("Partitions", <<Int32("PartitionID"), Int16("ErrorCode"),
                                Int64("HighWatermark"), Int64("LogStartOffset"),
                                Raw("RecordSet")>>)>>)>>
DecodeFetchResponse ==
    <<Array("Topics", <<Str("Name"),
          Array("Partitions", <<Int32("PartitionID"), Int16("ErrorCode"),
                                Int64("HighWatermark"), Int64("LogStartOffset"),
                                Raw("RecordSet")>>)>>)>>

EncodeApiVersionsResponse ==
    <<Array("ApiKeys", <<Int16("ApiKey"), Int16("MinVersion"), Int16("MaxVersion")>>)>>
DecodeApiVersionsResponse ==
    <<Array("ApiKeys", <<Int16("ApiKey"), Int16("MinVersion"), Int16("MaxVersion")>>)>>

EncodeMetadataResponse ==
    <<Array("Brokers", <<Int32("NodeID"), Str("Host"), Int32("Port")>>),
      Array("Topics", <<Str("Name"), Int16("ErrorCode"),
          Array("Partitions", <<Int32("PartitionID"), Int32("Leader"),
                                List("Replicas", Int32), List("ISR", Int32)>>)>>)>>
DecodeMetadataResponse ==
    <<Array("Brokers", <<Int32("NodeID"), Str("Host"), Int32("Port")>>),
      Array("Topics", <<Str("Name"), Int16("ErrorCode"),
          Array("Partitions", <<Int32("PartitionID"), Int32("Leader"),
                                List("Replicas", Int32), List("ISR", Int32)>>)>>)>>

EncodeCreateTopicsResponse == <<Array("Topics", <<Str("Name"), Int16("ErrorCode")>>)>>
DecodeCreateTopicsResponse == <<Array("Topics", <<Str("Name"), Int16("ErrorCode")>>)>>

EncodeJoinGroupResponse ==
    <<Int16("ErrorCode"), Int32("GenerationID"), Str("ProtocolName"), Str("LeaderID"),
      Str("MemberID"), Array("Members", <<Str("MemberID"), Raw("Metadata")>>)>>
DecodeJoinGroupResponse ==
    <<Int16("ErrorCode"), Int32("GenerationID"), Str("ProtocolName"), Str("LeaderID"),
      Str("MemberID"), Array("Members", <<Str("MemberID"), Raw("Metadata")>>)>>

EncodeSyncGroupResponse == <<Int16("ErrorCode"), Raw("Assignment")>>
DecodeSyncGroupResponse == <<Int16("ErrorCode"), Raw("Assignment")>>

EncodeHeartbeatResponse == <<Int16("ErrorCode")>>
DecodeHeartbeatResponse == <<Int16("ErrorCode")>>

EncodeLeaveGroupResponse == <<Int16("ErrorCode")>>
DecodeLeaveGroupResponse == <<Int16("ErrorCode")>>

EncodeOffsetCommitResponse ==
    <<Array("Topics", <<Str("Name"),
          Array("Partitions", <<Int32("PartitionID"), Int16("ErrorCode")>>)>>)>>
DecodeOffsetCommitResponse ==
    <<Array("Topics", <<Str("Name"),
          Array("Partitions", <<Int32("PartitionID"), Int16("ErrorCode")>>)>>)>>

EncodeOffsetFetchResponse ==
    <<Array("Topics", <<Str("Name"),
          Array("Partitions",
                <<Int32("PartitionID"), Int64("Offset"), Int16("ErrorCode")>>)>>)>>

FaultyCodeFirst ==
    <<Array("Topics", <<Str("Name"),
          Array("Partitions",
                <<Int32("PartitionID"), Int16("ErrorCode"), Int64("Offset")>>)>>)>>

DecodeOffsetFetchResponse ==
    <<Array("Topics", <<Str("Name"),
          Array("Partitions",
                <<Int32("PartitionID"), Int64("Offset"), Int16("ErrorCode")>>)>>)>>

EncodeListOffsetsResponse ==
    <<Array("Topics", <<Str("Name"),
          Array("Partitions",
                <<Int32("PartitionID"), Int16("ErrorCode"), Int64("Offset")>>)>>)>>
DecodeListOffsetsResponse ==
    <<Array("Topics", <<Str("Name"),
          Array("Partitions",
                <<Int32("PartitionID"), Int16("ErrorCode"), Int64("Offset")>>)>>)>>

EncodeAssignment ==
    <<Array("Topics", <<Str("Topic"), List("Partitions", Int32)>>)>>
DecodeAssignment ==
    <<Array("Topics", <<Str("Topic"), List("Partitions", Int32)>>)>>

=============================================================================
