------------------------------- MODULE AcksAll ------------------------------
(***************************************************************************)
(* The leader of one partition: concurrent Produce handlers, concurrent    *)
(* ReplicaFetch handlers, the partition's published high watermark, the    *)
(* tracker and the purgatory in which acks=all producers wait              *)
(* (internal/broker/broker.go handleProduce and handleReplicaFetch,        *)
(* internal/broker/broker_replication.go waitForAcksAll,                   *)
(* internal/replication/replication.go Purgatory).                         *)
(*                                                                         *)
(* A handler is a goroutine.  It takes the log's, the tracker's, the       *)
(* partition's and the purgatory's lock one after the other and holds none *)
(* in between, so each critical section is an action, and whatever the     *)
(* handler read in one section may be stale in the next.                   *)
(*                                                                         *)
(* Followers fetch over a connection they close after ten seconds.  A      *)
(* follower that gave up never sees the answer, but the handler runs on.   *)
(* The log is reduced to its end offset: records are never rewritten here. *)
(***************************************************************************)
EXTENDS ISRTracker

CONSTANTS
    Producers,      \* Produce requests (one handler goroutine each)
    FetchHandlers,  \* goroutines that serve ReplicaFetch
    MinISR,         \* min.insync.replicas
    MaxBatch,       \* bound: records in a produce batch
    MaxFailures,    \* bound: how many fetches fail or are abandoned
    NoHandler       \* a follower that is not waiting for an answer

ASSUME HandlersAssumption ==
    /\ Producers \cap FetchHandlers = {}
    /\ NoHandler \notin FetchHandlers
    /\ Brokers = ReplicaIDs
    /\ MinISR \in Nat \ {0}
    /\ MaxBatch \in Nat \ {0}
    /\ MaxFailures \in Nat

Followers == ReplicaIDs \ {LeaderID}
Threads == Producers \cup FetchHandlers

VARIABLES
    logEndOffset,   \* end of the leader's log
    partitionHW,    \* Partition.highWatermark, which bounds consumer reads
    purgatory,      \* producers with an item in Purgatory.items
    respCh,         \* producers whose response channel holds a nil
    pc,             \* where each goroutine is
    acks,           \* the request's Acks field
    batchEnd,       \* offset after the producer's own batch
    leaderLEO,      \* handler local: log end offset it read
    hw,             \* handler local: high watermark it was given
    result,         \* error code of the produce response
    replica,        \* the follower a fetch handler serves
    followerLEO,    \* handler local: offset it credits the follower with
    followerLog,    \* end of each follower's own log
    awaiting,       \* the handler each follower waits for
    failures        \* fetches that failed or were abandoned so far

partitionVars == <<logEndOffset, partitionHW>>
purgatoryVars == <<purgatory, respCh>>
produceVars == <<acks, batchEnd, result>>
followerVars == <<followerLog, awaiting, failures>>
fetchVars == <<replica, followerLEO>>
vars == <<trackerVars, partitionVars, purgatoryVars, produceVars, followerVars,
          fetchVars, pc, leaderLEO, hw>>

ProducerSteps == {"start", "append", "leo", "update", "setHW", "complete",
                  "fast", "watch", "recheck", "completeOwn", "wait", "cancel",
                  "done"}
FetchSteps == {"idle", "read", "leo", "update", "updateReplica", "setHW",
               "complete", "respond"}

TypeOK ==
    /\ replicas \in [ReplicaIDs -> ReplicaState]
    /\ highWatermark \in Nat
    /\ now \in Nat
    /\ logEndOffset \in Nat
    /\ partitionHW \in Nat
    /\ purgatory \subseteq Producers
    /\ respCh \subseteq Producers
    /\ pc \in [Threads -> ProducerSteps \cup FetchSteps]
    /\ \A p \in Producers : pc[p] \in ProducerSteps
    /\ \A h \in FetchHandlers : pc[h] \in FetchSteps
    /\ acks \in [Producers -> {-1, 1}]
    /\ batchEnd \in [Producers -> Nat]
    /\ leaderLEO \in [Threads -> Nat]
    /\ hw \in [Threads -> Nat]
    /\ result \in [Producers -> {"pending", "None", "NotEnoughReplicas",
                                 "RequestTimedOut", "Invalid", "Unknown"}]
    /\ replica \in [FetchHandlers -> Brokers]
    /\ followerLEO \in [FetchHandlers -> Nat]
    /\ followerLog \in [Brokers -> Nat]
    /\ awaiting \in [Brokers -> FetchHandlers \cup {NoHandler}]
    /\ failures \in Nat

Init ==
    /\ TrackerInit
    /\ logEndOffset = 0
    /\ partitionHW = 0
    /\ purgatory = {}
    /\ respCh = {}
    /\ pc = [t \in Threads |-> IF t \in Producers THEN "start" ELSE "idle"]
    /\ acks \in [Producers -> {-1, 1}]
    /\ batchEnd = [p \in Producers |-> 0]
    /\ leaderLEO = [t \in Threads |-> 0]
    /\ hw = [t \in Threads |-> 0]
    /\ result = [p \in Producers |-> "pending"]
    /\ replica = [h \in FetchHandlers |-> LeaderID]
    /\ followerLEO = [h \in FetchHandlers |-> 0]
    /\ followerLog = [b \in Brokers |-> 0]
    /\ awaiting = [b \in Brokers |-> NoHandler]
    /\ failures = 0

Goto(t, from, to) ==
    /\ pc[t] = from
    /\ pc' = [pc EXCEPT ![t] = to]

Answer(p, from, code) ==
    /\ Goto(p, from, "done")
    /\ result' = [result EXCEPT ![p] = code]

-----------------------------------------------------------------------------
(* handleProduce, phase one: the in-sync check, the append, and the        *)
(* critical sections that follow it.                                       *)

ProduceRejected(p) ==
    /\ acks[p] = -1
    /\ Cardinality(GetISR) < MinISR
    /\ Answer(p, "start", "NotEnoughReplicas")
    /\ UNCHANGED <<trackerVars, partitionVars, purgatoryVars, acks, batchEnd,
                   followerVars, fetchVars, leaderLEO, hw>>

ProduceAccepted(p) ==
    /\ acks[p] = -1 => ~ (Cardinality(GetISR) < MinISR)
    /\ Goto(p, "start", "append")
    /\ UNCHANGED <<trackerVars, partitionVars, purgatoryVars, produceVars,
                   followerVars, fetchVars, leaderLEO, hw>>

(* A record set that is empty is answered with success, one that is too    *)
(* large or does not decode with an error; neither reaches the log.        *)
NothingToAppend(p) ==
    /\ \E code \in {"None", "Invalid"} : Answer(p, "append", code)
    /\ UNCHANGED <<trackerVars, partitionVars, purgatoryVars, acks, batchEnd,
                   followerVars, fetchVars, leaderLEO, hw>>

(* The partition's writer goroutine appends the batch.                     *)
AppendBatch(p) ==
    \E n \in 1..MaxBatch :
        /\ logEndOffset + n <= MaxLEO
        /\ Goto(p, "append", "leo")
        /\ logEndOffset' = logEndOffset + n
        /\ batchEnd' = [batchEnd EXCEPT ![p] = logEndOffset + n]
        /\ UNCHANGED <<trackerVars, partitionHW, purgatoryVars, acks, result,
                       followerVars, fetchVars, leaderLEO, hw>>

(* The log fails part of the way: the records before the failure stay.     *)
AppendBatchFails(p) ==
    \E n \in 0..(MaxBatch - 1) :
        /\ logEndOffset + n <= MaxLEO
        /\ Answer(p, "append", "Unknown")
        /\ logEndOffset' = logEndOffset + n
        /\ UNCHANGED <<trackerVars, partitionHW, purgatoryVars, acks, batchEnd,
                       followerVars, fetchVars, leaderLEO, hw>>

(* Both kinds of handler read the log end offset, report it as the         *)
(* leader's, publish the high watermark and run the purgatory.             *)
ReadLEO(t) ==
    /\ Goto(t, "leo", "update")
    /\ leaderLEO' = [leaderLEO EXCEPT ![t] = logEndOffset]
    /\ UNCHANGED <<trackerVars, partitionVars, purgatoryVars, produceVars,
                   followerVars, fetchVars, hw>>

UpdateLeaderLEO(t) ==
    /\ Goto(t, "update", IF t \in Producers THEN "setHW" ELSE "updateReplica")
    /\ UpdateLEO(LeaderID, leaderLEO[t], leaderLEO[t])
    /\ hw' = [hw EXCEPT ![t] = highWatermark']
    /\ UNCHANGED <<partitionVars, purgatoryVars, produceVars, followerVars,
                   fetchVars, leaderLEO>>

FaultyPublishesOlder(t) ==
    /\ Goto(t, "setHW", "complete")
    /\ partitionHW' = hw[t]
    /\ UNCHANGED <<trackerVars, logEndOffset, purgatoryVars, produceVars,
                   followerVars, fetchVars, leaderLEO, hw>>

SetHighWatermark(t) ==
    /\ Goto(t, "setHW", "complete")
    /\ partitionHW' = IF hw[t] > partitionHW THEN hw[t] ELSE partitionHW
    /\ UNCHANGED <<trackerVars, logEndOffset, purgatoryVars, produceVars,
                   followerVars, fetchVars, leaderLEO, hw>>

FaultyReleasesEarly(currentHW) ==
    LET released == {p \in purgatory : currentHW >= leaderLEO[p] - 1}
    IN  /\ purgatory' = purgatory \ released
        /\ respCh' = respCh \cup released

(* Purgatory.CheckAndComplete.  An item's required high watermark is the   *)
(* log end offset its producer read.  The channel has room for one nil.    *)
CheckAndComplete(currentHW) ==
    LET released == {p \in purgatory : currentHW >= leaderLEO[p]}
    IN  /\ purgatory' = purgatory \ released
        /\ respCh' = respCh \cup released

(* The local high watermark is not used again after the purgatory ran.     *)
Forget(t) == hw' = [hw EXCEPT ![t] = 0]

(* Requests other than acks=all are answered right away.                   *)
Complete(t) ==
    /\ CheckAndComplete(hw[t])
    /\ \/ /\ t \in FetchHandlers
          /\ Goto(t, "complete", "respond")
          /\ UNCHANGED result
       \/ /\ t \in Producers
          /\ acks[t] = -1
          /\ Goto(t, "complete", "fast")
          /\ UNCHANGED result
       \/ /\ t \in Producers
          /\ acks[t] # -1
          /\ Answer(t, "complete", "None")
    /\ Forget(t)
    /\ UNCHANGED <<trackerVars, partitionVars, acks, batchEnd, followerVars,
                   fetchVars, leaderLEO>>

-----------------------------------------------------------------------------
(* handleProduce, phase two: waitForAcksAll.                               *)

FastPath(p) ==
    /\ leaderLEO[p] <= 0 \/ highWatermark >= leaderLEO[p]
    /\ Answer(p, "fast", "None")
    /\ UNCHANGED <<trackerVars, partitionVars, purgatoryVars, acks, batchEnd,
                   followerVars, fetchVars, leaderLEO, hw>>

NotYetReplicated(p) ==
    /\ ~ (leaderLEO[p] <= 0 \/ highWatermark >= leaderLEO[p])
    /\ Goto(p, "fast", "watch")
    /\ UNCHANGED <<trackerVars, partitionVars, purgatoryVars, produceVars,
                   followerVars, fetchVars, leaderLEO, hw>>

Watch(p) ==
    /\ Goto(p, "watch", "recheck")
    /\ purgatory' = purgatory \cup {p}
    /\ UNCHANGED <<trackerVars, partitionVars, respCh, produceVars,
                   followerVars, fetchVars, leaderLEO, hw>>

FaultyNoRecheck(p) ==
    /\ Goto(p, "recheck", "wait")
    /\ UNCHANGED <<trackerVars, partitionVars, purgatoryVars, produceVars,
                   followerVars, fetchVars, leaderLEO, hw>>

(* The re-check reads the high watermark before it runs the purgatory.     *)
Recheck(p) ==
    /\ Goto(p, "recheck",
            IF highWatermark >= leaderLEO[p] THEN "completeOwn" ELSE "wait")
    /\ hw' = [hw EXCEPT ![p] = IF highWatermark >= leaderLEO[p]
                               THEN highWatermark ELSE @]
    /\ UNCHANGED <<trackerVars, partitionVars, purgatoryVars, produceVars,
                   followerVars, fetchVars, leaderLEO>>

CompleteOwn(p) ==
    /\ Goto(p, "completeOwn", "wait")
    /\ CheckAndComplete(hw[p])
    /\ Forget(p)
    /\ UNCHANGED <<trackerVars, partitionVars, produceVars, followerVars,
                   fetchVars, leaderLEO>>

Released(p) ==
    /\ p \in respCh
    /\ Answer(p, "wait", "None")
    /\ respCh' = respCh \ {p}
    /\ UNCHANGED <<trackerVars, partitionVars, purgatory, acks, batchEnd,
                   followerVars, fetchVars, leaderLEO, hw>>

(* The shared deadline may already be over when the wait begins.           *)
DeadlinePasses(p) ==
    /\ Goto(p, "wait", "cancel")
    /\ UNCHANGED <<trackerVars, partitionVars, purgatoryVars, produceVars,
                   followerVars, fetchVars, leaderLEO, hw>>

Cancel(p) ==
    /\ Answer(p, "cancel", "RequestTimedOut")
    /\ purgatory' = purgatory \ {p}
    /\ UNCHANGED <<trackerVars, partitionVars, respCh, acks, batchEnd,
                   followerVars, fetchVars, leaderLEO, hw>>

-----------------------------------------------------------------------------
(* followerFetchOnce on the follower, handleReplicaFetch on the leader.    *)

(* The follower asks from the end of its own log.                          *)
SendReplicaFetch(r, h) ==
    /\ awaiting[r] = NoHandler
    /\ Goto(h, "idle", "read")
    /\ awaiting' = [awaiting EXCEPT ![r] = h]
    /\ replica' = [replica EXCEPT ![h] = r]
    /\ followerLEO' = [followerLEO EXCEPT ![h] = followerLog[r]]
    /\ UNCHANGED <<trackerVars, partitionVars, purgatoryVars, produceVars,
                   followerLog, failures, leaderLEO, hw>>

FaultyStrictBudget(h) ==
    /\ Goto(h, "read", "leo")
    /\ UNCHANGED <<trackerVars, partitionVars, purgatoryVars, produceVars,
                   followerVars, fetchVars, leaderLEO, hw>>

(* ReadFrom returns at least one record if there is one, and at most what  *)
(* the byte budget allows.  The handler credits the follower with them.    *)
ReadFrom(h) ==
    /\ Goto(h, "read", "leo")
    /\ \E end \in followerLEO[h]..logEndOffset :
          /\ end = followerLEO[h] => end = logEndOffset
          /\ followerLEO' = [followerLEO EXCEPT ![h] = end]
    /\ UNCHANGED <<trackerVars, partitionVars, purgatoryVars, produceVars,
                   followerVars, replica, leaderLEO, hw>>

(* The goroutine's locals end with it.                                     *)
Finish(h) ==
    /\ replica' = [replica EXCEPT ![h] = LeaderID]
    /\ followerLEO' = [followerLEO EXCEPT ![h] = 0]
    /\ leaderLEO' = [leaderLEO EXCEPT ![h] = 0]

(* A read error is answered with an error code, which the follower skips.  *)
ReadFromFails(h) ==
    /\ Goto(h, "read", "idle")
    /\ failures < MaxFailures
    /\ failures' = failures + 1
    /\ awaiting' = [r \in Brokers |->
                        IF awaiting[r] = h THEN NoHandler ELSE awaiting[r]]
    /\ Finish(h)
    /\ UNCHANGED <<trackerVars, partitionVars, purgatoryVars, produceVars,
                   followerLog, hw>>

FaultyKeepsOldHW(h) ==
    /\ Goto(h, "updateReplica", "setHW")
    /\ replicas' = Updated(replica[h], followerLEO[h], leaderLEO[h])
    /\ hw' = [hw EXCEPT ![h] = highWatermark]
    /\ UNCHANGED <<highWatermark, now, partitionVars, purgatoryVars,
                   produceVars, followerVars, fetchVars, leaderLEO>>

UpdateReplicaLEO(h) ==
    /\ Goto(h, "updateReplica", "setHW")
    /\ UpdateLEO(replica[h], followerLEO[h], leaderLEO[h])
    /\ hw' = [hw EXCEPT ![h] = highWatermark']
    /\ UNCHANGED <<partitionVars, purgatoryVars, produceVars, followerVars,
                   fetchVars, leaderLEO>>

(* The follower appends what it was sent, unless it has gone.              *)
Respond(h) ==
    /\ Goto(h, "respond", "idle")
    /\ followerLog' = [r \in Brokers |->
            IF awaiting[r] = h THEN followerLEO[h] ELSE followerLog[r]]
    /\ awaiting' = [r \in Brokers |->
            IF awaiting[r] = h THEN NoHandler ELSE awaiting[r]]
    /\ Finish(h)
    /\ UNCHANGED <<trackerVars, partitionVars, purgatoryVars, produceVars,
                   failures, hw>>

FollowerGivesUp(r) ==
    /\ awaiting[r] # NoHandler
    /\ failures < MaxFailures
    /\ failures' = failures + 1
    /\ awaiting' = [awaiting EXCEPT ![r] = NoHandler]
    /\ UNCHANGED <<trackerVars, partitionVars, purgatoryVars, produceVars,
                   followerLog, fetchVars, pc, leaderLEO, hw>>

-----------------------------------------------------------------------------
Handler(t) == ReadLEO(t) \/ UpdateLeaderLEO(t) \/ SetHighWatermark(t) \/ Complete(t)

Produce(p) ==
    \/ ProduceRejected(p) \/ ProduceAccepted(p)
    \/ NothingToAppend(p) \/ AppendBatch(p) \/ AppendBatchFails(p)
    \/ FastPath(p) \/ NotYetReplicated(p) \/ Watch(p) \/ Recheck(p)
    \/ CompleteOwn(p) \/ Released(p) \/ DeadlinePasses(p) \/ Cancel(p)

ServeFetch(h) ==
    ReadFrom(h) \/ ReadFromFails(h) \/ UpdateReplicaLEO(h) \/ Respond(h)

Clock == Tick /\ UNCHANGED <<partitionVars, purgatoryVars, produceVars,
                             followerVars, fetchVars, pc, leaderLEO, hw>>

Next ==
    \/ \E t \in Threads : Handler(t)
    \/ \E p \in Producers : Produce(p)
    \/ \E h \in FetchHandlers : ServeFetch(h)
    \/ \E r \in Followers, h \in FetchHandlers : SendReplicaFetch(r, h)
    \/ \E r \in Followers : FollowerGivesUp(r)
    \/ Clock

Spec == Init /\ [][Next]_vars

(* Goroutines that can run do run, the produce deadline passes, and the    *)
(* follower's ticker keeps sending fetches.                                *)
Fairness ==
    /\ \A t \in Threads : WF_vars(Handler(t))
    /\ \A p \in Producers : WF_vars(Produce(p))
    /\ \A h \in FetchHandlers : WF_vars(ServeFetch(h))
    /\ \A r \in Followers :
            WF_vars(\E h \in FetchHandlers : SendReplicaFetch(r, h))

FairSpec == Spec /\ Fairness

-----------------------------------------------------------------------------
(* Properties.                                                             *)

(* A successful acks=all answer means the high watermark covers the whole  *)
(* batch of that producer, whichever handler moved it and whichever path   *)
(* of waitForAcksAll (fast path, purgatory, re-check) returned nil.        *)
AckedBelowHW ==
    \A p \in Producers :
        acks[p] = -1 /\ result[p] = "None" => highWatermark >= batchEnd[p]

(* No lost wake-up: an item that the high watermark already satisfies sits *)
(* in the purgatory only while some goroutine is still on its way to       *)
(* CheckAndComplete with a high watermark that releases it.                *)
WillRelease(t, p) ==
    \/ pc[t] \in {"setHW", "complete", "completeOwn"} /\ hw[t] >= leaderLEO[p]
    \/ pc[t] = "updateReplica"
    \/ t = p /\ pc[t] \in {"recheck", "cancel"}

NoLostWakeup ==
    \A p \in purgatory :
        highWatermark >= leaderLEO[p] => \E t \in Threads : WillRelease(t, p)

(* What consumers may read (Partition.highWatermark) is at most the        *)
(* tracker's high watermark, which is within the leader's log; and when    *)
(* it lags, a goroutine that will publish the newer value is under way.    *)
PublishedHW ==
    /\ partitionHW <= highWatermark
    /\ highWatermark <= logEndOffset
    /\ partitionHW < highWatermark =>
         \E t \in Threads : \/ pc[t] = "setHW" /\ hw[t] = highWatermark
                            \/ pc[t] = "updateReplica"

(* Every accepted produce request is answered: the wait in the purgatory   *)
(* ends with a release or with the deadline.                               *)
EveryProduceAnswered ==
    \A p \in Producers : pc[p] = "leo" ~> pc[p] = "done"

(* With followers that keep fetching, the high watermark catches up with   *)
(* every record of the leader's log, also after lost answers.              *)
HWReachesLEO ==
    \A n \in 1..MaxLEO : (logEndOffset >= n) ~> (highWatermark >= n)

(* The tracker's own specification is what this module implements: every   *)
(* handler step is one call of UpdateLEO, a clock tick, or leaves the      *)
(* tracker alone.                                                          *)
ImplementsTracker == TrackerSpec

(* docs/PROTOCOL.md, line 127: acks = -1 means "all ISR".  Once the leader *)
(* has answered such a request with success, every follower it counts as   *)
(* in sync and that waits for no answer holds the batch in its own log.    *)
AckedHeldByISR ==
    \A p \in Producers, r \in Followers :
        acks[p] = -1 /\ result[p] = "None" /\ replicas[r].inSync
        /\ awaiting[r] = NoHandler
            => followerLog[r] >= batchEnd[p]

=============================================================================
