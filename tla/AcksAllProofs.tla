--------------------------- MODULE AcksAllProofs ----------------------------
(***************************************************************************)
(* Proofs about the leader's produce and replica-fetch handlers, for any   *)
(* number of producers, handlers and followers and for every bound.        *)
(***************************************************************************)
EXTENDS AcksAll, ISRTrackerProofs

(* The constants as the provers need them.                                 *)
LEMMA ConstantFacts ==
    /\ LeaderID \in ReplicaIDs /\ Brokers = ReplicaIDs
    /\ Producers \cap FetchHandlers = {} /\ NoHandler \notin FetchHandlers
    /\ MaxLEO \in Nat /\ MaxBatch \in Nat /\ MaxBatch > 0
  BY BrokersAssumption, BoundsAssumption, HandlersAssumption

(* The handlers' type invariant contains the tracker's.                    *)
LEMMA TypeOKImpliesTracker == TypeOK => TrackerTypeOK
  BY ConstantFacts DEF TypeOK, TrackerTypeOK

(* What UpdateLEO does to the tracker when a configured replica reports.   *)
LEMMA ReportFacts ==
    ASSUME TypeOK, NEW b \in Brokers, NEW leo \in Nat, NEW lleo \in Nat,
           UpdateLEO(b, leo, lleo)
    PROVE  /\ replicas' \in [ReplicaIDs -> ReplicaState]
           /\ now' = now
           /\ highWatermark' \in Nat
           /\ highWatermark' >= highWatermark
           /\ \/ replicas'[LeaderID].logEndOffset = replicas[LeaderID].logEndOffset
              \/ replicas'[LeaderID].logEndOffset = leo
  <1>1. TrackerTypeOK /\ DOMAIN replicas = ReplicaIDs
        /\ DOMAIN replicas \cup {b} = ReplicaIDs /\ LeaderID \in DOMAIN replicas
    BY TypeOKImpliesTracker, ConstantFacts DEF TypeOK
  <1> QED
    BY <1>1, UpdateLEOFacts

-----------------------------------------------------------------------------
(* Every variable starts within its type.                                  *)
LEMMA TypeOKInit == Init => TypeOK
  BY ConstantFacts
  DEF Init, TrackerInit, NewISRTracker, NewReplicaState, TypeOK, ReplicaState,
      Threads, ProducerSteps, FetchSteps

(* Every handler step keeps every variable within its type.                *)
LEMMA TypeOKStep == TypeOK /\ [Next]_vars => TypeOK'
  <1> SUFFICES ASSUME TypeOK, [Next]_vars
               PROVE  TypeOK'
    OBVIOUS
  <1> USE ConstantFacts DEF TypeOK, Threads, ProducerSteps, FetchSteps
  <1> USE DEF trackerVars, partitionVars, purgatoryVars, produceVars,
              followerVars, fetchVars, Goto, Answer
  <1>1. ASSUME NEW t \in Threads, ReadLEO(t)
        PROVE  TypeOK'
    BY <1>1 DEF ReadLEO
  <1>2. ASSUME NEW t \in Threads, UpdateLeaderLEO(t)
        PROVE  TypeOK'
    <2>1. UpdateLEO(LeaderID, leaderLEO[t], leaderLEO[t]) /\ leaderLEO[t] \in Nat
      BY <1>2 DEF UpdateLeaderLEO
    <2>2. /\ replicas' \in [ReplicaIDs -> ReplicaState]
          /\ highWatermark' \in Nat /\ now' = now
      BY <2>1, ReportFacts
    <2> QED
      BY <1>2, <2>2 DEF UpdateLeaderLEO
  <1>3. ASSUME NEW t \in Threads, SetHighWatermark(t)
        PROVE  TypeOK'
    BY <1>3 DEF SetHighWatermark
  <1>4. ASSUME NEW t \in Threads, Complete(t)
        PROVE  TypeOK'
    BY <1>4 DEF Complete, CheckAndComplete, Forget
  <1>5. ASSUME NEW p \in Producers, Produce(p)
        PROVE  TypeOK'
    <2>1. CASE ProduceRejected(p)
      BY <2>1 DEF ProduceRejected
    <2>2. CASE ProduceAccepted(p) \/ NothingToAppend(p)
      BY <2>2 DEF ProduceAccepted, NothingToAppend
    <2>3. CASE AppendBatch(p)
      BY <2>3 DEF AppendBatch
    <2>4. CASE AppendBatchFails(p)
      BY <2>4 DEF AppendBatchFails
    <2>5. CASE FastPath(p)
      BY <2>5 DEF FastPath
    <2>6. CASE NotYetReplicated(p)
      BY <2>6 DEF NotYetReplicated
    <2>7. CASE Watch(p)
      BY <2>7 DEF Watch
    <2>8. CASE Recheck(p)
      BY <2>8 DEF Recheck
    <2>9. CASE CompleteOwn(p)
      BY <2>9 DEF CompleteOwn, CheckAndComplete, Forget
    <2>10. CASE Released(p)
      BY <2>10 DEF Released
    <2>11. CASE DeadlinePasses(p)
      BY <2>11 DEF DeadlinePasses
    <2>12. CASE Cancel(p)
      BY <2>12 DEF Cancel
    <2> QED
      BY <1>5, <2>1, <2>2, <2>3, <2>4, <2>5, <2>6, <2>7, <2>8, <2>9, <2>10,
         <2>11, <2>12, Zenon DEF Produce
  <1>6. ASSUME NEW h \in FetchHandlers, ServeFetch(h)
        PROVE  TypeOK'
    <2>1. CASE ReadFrom(h)
      BY <2>1 DEF ReadFrom
    <2>2. CASE ReadFromFails(h)
      BY <2>2 DEF ReadFromFails, Finish
    <2>3. CASE UpdateReplicaLEO(h)
      <3>1. /\ UpdateLEO(replica[h], followerLEO[h], leaderLEO[h])
            /\ replica[h] \in Brokers
            /\ followerLEO[h] \in Nat /\ leaderLEO[h] \in Nat
        BY <2>3 DEF UpdateReplicaLEO
      <3>2. /\ replicas' \in [ReplicaIDs -> ReplicaState]
            /\ highWatermark' \in Nat /\ now' = now
        BY <3>1, ReportFacts
      <3> QED
        BY <2>3, <3>2 DEF UpdateReplicaLEO
    <2>4. CASE Respond(h)
      BY <2>4 DEF Respond, Finish
    <2> QED
      BY <1>6, <2>1, <2>2, <2>3, <2>4 DEF ServeFetch
  <1>7. ASSUME NEW r \in Followers, NEW h \in FetchHandlers,
               SendReplicaFetch(r, h)
        PROVE  TypeOK'
    BY <1>7 DEF SendReplicaFetch, Followers
  <1>8. ASSUME NEW r \in Followers, FollowerGivesUp(r)
        PROVE  TypeOK'
    BY <1>8 DEF FollowerGivesUp, Followers
  <1>9. CASE Clock
    BY <1>9 DEF Clock, Tick
  <1>10. CASE UNCHANGED vars
    BY <1>10 DEF vars
  <1> HIDE DEF TypeOK, Threads, vars
  <1> QED
    BY <1>1, <1>2, <1>3, <1>4, <1>5, <1>6, <1>7, <1>8, <1>9, <1>10, Zenon
    DEF Next, Handler

(* The leader's handlers keep their shared and local state well typed.     *)
THEOREM TypeCorrect == Spec => []TypeOK
  BY TypeOKInit, TypeOKStep, PTL DEF Spec

-----------------------------------------------------------------------------
(* No offset a handler carries is ahead of what it was read from.          *)
OffsetInv ==
    /\ logEndOffset <= MaxLEO
    /\ replicas[LeaderID].logEndOffset <= logEndOffset
    /\ \A t \in Threads : leaderLEO[t] <= logEndOffset
    /\ \A h \in FetchHandlers : followerLEO[h] <= logEndOffset
    /\ \A b \in Brokers : followerLog[b] <= logEndOffset
    /\ \A p \in Producers : batchEnd[p] <= logEndOffset

(* The offsets agree in the initial state: all are zero.                   *)
LEMMA OffsetInvInit == Init => OffsetInv
  BY ConstantFacts
  DEF Init, TrackerInit, NewISRTracker, NewReplicaState, OffsetInv

(* Handlers copy offsets from the log or from each other, never ahead.     *)
LEMMA OffsetInvStep == TypeOK /\ OffsetInv /\ [Next]_vars => OffsetInv'
  <1> SUFFICES ASSUME TypeOK, OffsetInv, [Next]_vars
               PROVE  OffsetInv'
    OBVIOUS
  <1> USE ConstantFacts DEF OffsetInv
  <1>0. /\ replicas \in [ReplicaIDs -> ReplicaState]
        /\ replicas[LeaderID].logEndOffset \in Nat
        /\ logEndOffset \in Nat
        /\ batchEnd \in [Producers -> Nat]
        /\ leaderLEO \in [Threads -> Nat]
        /\ replica \in [FetchHandlers -> Brokers]
        /\ followerLEO \in [FetchHandlers -> Nat]
        /\ followerLog \in [Brokers -> Nat]
        /\ Threads = Producers \cup FetchHandlers
    BY DEF TypeOK, ReplicaState, Threads
  <1>1. ASSUME NEW t \in Threads, ReadLEO(t)
        PROVE  OffsetInv'
    BY <1>0, <1>1 DEF ReadLEO, trackerVars, partitionVars, produceVars,
                      followerVars, fetchVars
  <1>2. ASSUME NEW t \in Threads, UpdateLeaderLEO(t)
        PROVE  OffsetInv'
    <2>1. UpdateLEO(LeaderID, leaderLEO[t], leaderLEO[t]) /\ leaderLEO[t] \in Nat
      BY <1>0, <1>2 DEF UpdateLeaderLEO
    <2>2. \/ replicas'[LeaderID].logEndOffset = replicas[LeaderID].logEndOffset
          \/ replicas'[LeaderID].logEndOffset = leaderLEO[t]
      BY <2>1, ReportFacts
    <2> QED
      BY <1>0, <1>2, <2>2 DEF UpdateLeaderLEO, partitionVars, produceVars,
                              followerVars, fetchVars
  <1>3. ASSUME NEW h \in FetchHandlers, UpdateReplicaLEO(h)
        PROVE  OffsetInv'
    <2>1. /\ UpdateLEO(replica[h], followerLEO[h], leaderLEO[h])
          /\ replica[h] \in Brokers
          /\ followerLEO[h] \in Nat /\ leaderLEO[h] \in Nat
      BY <1>0, <1>3 DEF UpdateReplicaLEO
    <2>2. \/ replicas'[LeaderID].logEndOffset = replicas[LeaderID].logEndOffset
          \/ replicas'[LeaderID].logEndOffset = followerLEO[h]
      BY <2>1, ReportFacts
    <2> QED
      BY <1>0, <1>3, <2>2 DEF UpdateReplicaLEO, partitionVars, produceVars,
                              followerVars, fetchVars
  <1>4. ASSUME NEW p \in Producers, AppendBatch(p)
        PROVE  OffsetInv'
    BY <1>0, <1>4 DEF AppendBatch, trackerVars, followerVars, fetchVars
  <1>5. ASSUME NEW p \in Producers, AppendBatchFails(p)
        PROVE  OffsetInv'
    BY <1>0, <1>5 DEF AppendBatchFails, trackerVars, followerVars, fetchVars
  <1>6. ASSUME NEW h \in FetchHandlers, ReadFrom(h)
        PROVE  OffsetInv'
    BY <1>0, <1>6 DEF ReadFrom, trackerVars, partitionVars, produceVars,
                      followerVars
  <1>7. ASSUME NEW h \in FetchHandlers, ReadFromFails(h) \/ Respond(h)
        PROVE  OffsetInv'
    BY <1>0, <1>7 DEF ReadFromFails, Respond, Finish, trackerVars,
                      partitionVars, produceVars
  <1>8. ASSUME NEW r \in Followers, NEW h \in FetchHandlers,
               SendReplicaFetch(r, h)
        PROVE  OffsetInv'
    BY <1>0, <1>8 DEF SendReplicaFetch, trackerVars, partitionVars,
                      produceVars, Followers
  <1>9. CASE UNCHANGED <<replicas, logEndOffset, leaderLEO, followerLEO,
                         followerLog, batchEnd>>
    BY <1>9
  <1>10. ASSUME NEW t \in Threads, SetHighWatermark(t) \/ Complete(t)
         PROVE  UNCHANGED <<replicas, logEndOffset, leaderLEO, followerLEO,
                            followerLog, batchEnd>>
    BY <1>10 DEF SetHighWatermark, Complete, trackerVars, partitionVars,
                 produceVars, followerVars, fetchVars
  <1>11. ASSUME NEW p \in Producers, Produce(p), ~ AppendBatch(p),
                ~ AppendBatchFails(p)
         PROVE  UNCHANGED <<replicas, logEndOffset, leaderLEO, followerLEO,
                            followerLog, batchEnd>>
    BY <1>11 DEF Produce, ProduceRejected, ProduceAccepted, NothingToAppend, FastPath,
                 NotYetReplicated, Watch, Recheck, CompleteOwn, Released,
                 DeadlinePasses, Cancel, trackerVars, partitionVars,
                 produceVars, followerVars, fetchVars
  <1>12. ASSUME (\E r \in Followers : FollowerGivesUp(r)) \/ Clock
                  \/ UNCHANGED vars
         PROVE  UNCHANGED <<replicas, logEndOffset, leaderLEO, followerLEO,
                            followerLog, batchEnd>>
    BY <1>12 DEF FollowerGivesUp, Clock, Tick, vars, trackerVars,
                 partitionVars, produceVars, followerVars, fetchVars
  <1> HIDE DEF OffsetInv
  <1> QED
    BY <1>1, <1>2, <1>3, <1>4, <1>5, <1>6, <1>7, <1>8, <1>9, <1>10, <1>11,
       <1>12, Zenon DEF Next, Handler, ServeFetch

-----------------------------------------------------------------------------
(* Every step of the handlers is a step of the tracker's own specification *)
(* or leaves the tracker alone.                                            *)
LEMMA TrackerSimulation ==
    TypeOK /\ OffsetInv /\ [Next]_vars => [TrackerNext]_trackerVars
  <1> SUFFICES ASSUME TypeOK, OffsetInv, [Next]_vars
               PROVE  [TrackerNext]_trackerVars
    OBVIOUS
  <1>1. ASSUME NEW t \in Threads, UpdateLeaderLEO(t)
        PROVE  TrackerNext
    <2>1. leaderLEO[t] \in 0..MaxLEO /\ LeaderID \in Brokers
      BY ConstantFacts DEF TypeOK, OffsetInv
    <2> QED
      BY <1>1, <2>1 DEF UpdateLeaderLEO, TrackerNext
  <1>2. ASSUME NEW h \in FetchHandlers, UpdateReplicaLEO(h)
        PROVE  TrackerNext
    <2>1. /\ leaderLEO[h] \in 0..MaxLEO /\ followerLEO[h] \in 0..MaxLEO
          /\ replica[h] \in Brokers
      BY ConstantFacts DEF TypeOK, OffsetInv, Threads
    <2> QED
      BY <1>2, <2>1 DEF UpdateReplicaLEO, TrackerNext
  <1>3. CASE Clock
    BY <1>3 DEF Clock, TrackerNext
  <1>4. ASSUME NEW t \in Threads, ReadLEO(t) \/ SetHighWatermark(t) \/ Complete(t)
        PROVE  UNCHANGED trackerVars
    BY <1>4 DEF ReadLEO, SetHighWatermark, Complete
  <1>5. ASSUME NEW p \in Producers, Produce(p)
        PROVE  UNCHANGED trackerVars
    BY <1>5 DEF Produce, ProduceRejected, ProduceAccepted, NothingToAppend, AppendBatch,
                AppendBatchFails, FastPath, NotYetReplicated, Watch, Recheck,
                CompleteOwn, Released, DeadlinePasses, Cancel
  <1>6. ASSUME NEW h \in FetchHandlers, ReadFrom(h) \/ ReadFromFails(h) \/ Respond(h)
        PROVE  UNCHANGED trackerVars
    BY <1>6 DEF ReadFrom, ReadFromFails, Respond
  <1>7. ASSUME NEW r \in Followers,
               FollowerGivesUp(r) \/ \E h \in FetchHandlers : SendReplicaFetch(r, h)
        PROVE  UNCHANGED trackerVars
    BY <1>7 DEF FollowerGivesUp, SendReplicaFetch
  <1>8. CASE UNCHANGED vars
    BY <1>8 DEF vars
  <1> QED
    BY <1>1, <1>2, <1>3, <1>4, <1>5, <1>6, <1>7, <1>8, Zenon
    DEF Next, Handler, ServeFetch

(* The produce and replica-fetch handlers implement the tracker's          *)
(* specification: whatever interleaving of handlers runs, the tracker is   *)
(* only ever driven through legal UpdateLEO calls.                         *)
THEOREM HandlersImplementTracker == Spec => ImplementsTracker
  <1>1. Init => TrackerInit
    BY DEF Init
  <1> QED
    BY <1>1, TypeOKInit, TypeOKStep, OffsetInvInit, OffsetInvStep,
       TrackerSimulation, PTL DEF Spec, ImplementsTracker, TrackerSpec

-----------------------------------------------------------------------------
(* Where a producer is while its item may be in the purgatory.             *)
Waiting == {"recheck", "completeOwn", "wait", "cancel"}

(* Where a producer has read the log end offset its answer depends on.     *)
HasLEO == {"update", "setHW", "complete", "fast", "watch"} \cup Waiting

(* The strengthening of AckedBelowHW.  The acknowledgement rests on the    *)
(* log end offset the producer read after its append, which covers its     *)
(* batch, and on the fact that a nil is only sent for an item the high     *)
(* watermark had reached.                                                  *)
AckInv ==
    /\ \A t \in Threads : hw[t] <= highWatermark
    /\ \A p \in Producers :
         /\ pc[p] \in HasLEO => batchEnd[p] <= leaderLEO[p]
         /\ pc[p] \in {"start", "append"} => batchEnd[p] = 0
         /\ result[p] # "pending" => pc[p] = "done"
    /\ \A p \in purgatory : pc[p] \in Waiting
    /\ \A p \in respCh : /\ pc[p] \in Waiting \cup {"done"}
                          /\ leaderLEO[p] <= highWatermark
                          /\ p \notin purgatory
    /\ AckedBelowHW

(* Before the first request there is nothing to acknowledge.               *)
LEMMA AckInvInit == Init => AckInv
  BY ConstantFacts
  DEF Init, TrackerInit, NewISRTracker, AckInv, AckedBelowHW, HasLEO, Waiting,
      Threads

(* A step of a handler that calls UpdateLEO: the high watermark and the    *)
(* handler's copy of it move forward together.                             *)
LEMMA AckInvUpdate ==
    ASSUME TypeOK, AckInv, NEW t \in Threads,
           UpdateLeaderLEO(t) \/ (t \in FetchHandlers /\ UpdateReplicaLEO(t))
    PROVE  AckInv' /\ highWatermark' >= highWatermark
                   /\ highWatermark' \in Nat
                   /\ hw' = [hw EXCEPT ![t] = highWatermark']
  <1> USE ConstantFacts
  <1>1. /\ highWatermark' \in Nat /\ highWatermark' >= highWatermark
        /\ hw' = [hw EXCEPT ![t] = highWatermark']
    <2>1. CASE UpdateLeaderLEO(t)
      <3>1. /\ UpdateLEO(LeaderID, leaderLEO[t], leaderLEO[t])
            /\ leaderLEO[t] \in Nat
        BY <2>1 DEF UpdateLeaderLEO, TypeOK
      <3> QED
        BY <2>1, <3>1, ReportFacts DEF UpdateLeaderLEO
    <2>2. CASE t \in FetchHandlers /\ UpdateReplicaLEO(t)
      <3>1. /\ UpdateLEO(replica[t], followerLEO[t], leaderLEO[t])
            /\ replica[t] \in Brokers
            /\ followerLEO[t] \in Nat /\ leaderLEO[t] \in Nat
        BY <2>2 DEF UpdateReplicaLEO, TypeOK
      <3> QED
        BY <2>2, <3>1, ReportFacts DEF UpdateReplicaLEO
    <2> QED
      BY <2>1, <2>2
  <1>2. /\ UNCHANGED <<purgatory, respCh, acks, batchEnd, result, leaderLEO>>
        /\ pc[t] \in {"update", "updateReplica"}
        /\ \E to \in {"setHW", "updateReplica"} :
             /\ pc' = [pc EXCEPT ![t] = to]
             /\ t \in Producers => pc[t] = "update" /\ to = "setHW"
    BY DEF UpdateLeaderLEO, UpdateReplicaLEO, Goto, purgatoryVars, produceVars
  <1>3. /\ highWatermark \in Nat /\ purgatory \subseteq Producers
        /\ respCh \subseteq Producers
        /\ DOMAIN pc = Threads /\ hw \in [Threads -> Nat]
        /\ leaderLEO \in [Threads -> Nat] /\ batchEnd \in [Producers -> Nat]
        /\ Threads = Producers \cup FetchHandlers
    BY DEF TypeOK, Threads
  <1> HIDE DEF Threads
  <1>4. (\A u \in Threads : hw[u] <= highWatermark)'
    BY <1>1, <1>2, <1>3 DEF AckInv
  <1>5. (\A p \in Producers :
            /\ pc[p] \in HasLEO => batchEnd[p] <= leaderLEO[p]
            /\ pc[p] \in {"start", "append"} => batchEnd[p] = 0
            /\ result[p] # "pending" => pc[p] = "done")'
    BY <1>2, <1>3 DEF AckInv, HasLEO, Waiting
  <1>6. (\A p \in purgatory : pc[p] \in Waiting)'
    BY <1>2, <1>3 DEF AckInv, Waiting
  <1>7. (\A p \in respCh : /\ pc[p] \in Waiting \cup {"done"}
                           /\ leaderLEO[p] <= highWatermark
                           /\ p \notin purgatory)'
    BY <1>1, <1>2, <1>3 DEF AckInv, Waiting
  <1>8. AckedBelowHW'
    BY <1>1, <1>2, <1>3 DEF AckInv, AckedBelowHW
  <1> QED
    BY <1>1, <1>4, <1>5, <1>6, <1>7, <1>8 DEF AckInv

(* Every step preserves what an acknowledgement rests on.                  *)
LEMMA AckInvStep == TypeOK /\ OffsetInv /\ AckInv /\ [Next]_vars => AckInv'
  <1> SUFFICES ASSUME TypeOK, OffsetInv, AckInv, [Next]_vars
               PROVE  AckInv'
    OBVIOUS
  <1>0. /\ highWatermark \in Nat /\ logEndOffset \in Nat
        /\ purgatory \subseteq Producers /\ respCh \subseteq Producers
        /\ DOMAIN pc = Threads /\ hw \in [Threads -> Nat]
        /\ leaderLEO \in [Threads -> Nat] /\ batchEnd \in [Producers -> Nat]
        /\ DOMAIN result = Producers
        /\ Threads = Producers \cup FetchHandlers
        /\ Producers \cap FetchHandlers = {}
    BY ConstantFacts DEF TypeOK, Threads
  <1> USE DEF AckInv, AckedBelowHW, HasLEO, Waiting, Goto, Answer,
              trackerVars, purgatoryVars, produceVars
  <1>1. ASSUME NEW t \in Threads, ReadLEO(t)
        PROVE  AckInv'
    BY <1>0, <1>1 DEF ReadLEO, OffsetInv
  <1>2. ASSUME NEW t \in Threads, SetHighWatermark(t)
        PROVE  AckInv'
    BY <1>0, <1>2 DEF SetHighWatermark
  <1>3. ASSUME NEW t \in Threads, Complete(t)
        PROVE  AckInv'
    BY <1>0, <1>3 DEF Complete, CheckAndComplete, Forget
  <1>4. ASSUME NEW p \in Producers, Produce(p)
        PROVE  AckInv'
    <2>1. CASE ProduceRejected(p) \/ ProduceAccepted(p) \/ NothingToAppend(p)
      BY <1>0, <2>1 DEF ProduceRejected, ProduceAccepted, NothingToAppend
    <2>2. CASE AppendBatch(p)
      BY <1>0, <2>2 DEF AppendBatch
    <2>3. CASE AppendBatchFails(p)
      BY <1>0, <2>3 DEF AppendBatchFails
    <2>4. CASE FastPath(p)
      BY <1>0, <2>4 DEF FastPath
    <2>5. CASE NotYetReplicated(p) \/ DeadlinePasses(p)
      BY <1>0, <2>5 DEF NotYetReplicated, DeadlinePasses
    <2>6. CASE Watch(p)
      BY <1>0, <2>6 DEF Watch
    <2>7. CASE Recheck(p)
      BY <1>0, <2>7 DEF Recheck
    <2>8. CASE CompleteOwn(p)
      BY <1>0, <2>8 DEF CompleteOwn, CheckAndComplete, Forget
    <2>9. CASE Released(p)
      BY <1>0, <2>9 DEF Released
    <2>10. CASE Cancel(p)
      BY <1>0, <2>10 DEF Cancel
    <2> HIDE DEF AckInv
    <2> QED
      BY <1>4, <2>1, <2>2, <2>3, <2>4, <2>5, <2>6, <2>7, <2>8, <2>9, <2>10,
         Zenon DEF Produce
  <1>5. ASSUME NEW h \in FetchHandlers,
               ReadFrom(h) \/ ReadFromFails(h) \/ Respond(h)
        PROVE  AckInv'
    BY <1>0, <1>5 DEF ReadFrom, ReadFromFails, Respond, Finish
  <1>6. ASSUME NEW r \in Followers, NEW h \in FetchHandlers,
               SendReplicaFetch(r, h)
        PROVE  AckInv'
    BY <1>0, <1>6 DEF SendReplicaFetch
  <1>7. ASSUME (\E r \in Followers : FollowerGivesUp(r)) \/ Clock
                  \/ UNCHANGED vars
        PROVE  AckInv'
    BY <1>0, <1>7 DEF FollowerGivesUp, Clock, Tick, vars
  <1> HIDE DEF AckInv
  <1>8. ASSUME NEW t \in Threads,
               UpdateLeaderLEO(t) \/ (t \in FetchHandlers /\ UpdateReplicaLEO(t))
        PROVE  AckInv'
    BY <1>8, AckInvUpdate
  <1>9. ASSUME NEW h \in FetchHandlers
        PROVE  h \in Threads
    BY <1>9 DEF Threads
  <1> QED
    BY <1>1, <1>2, <1>3, <1>4, <1>5, <1>6, <1>7, <1>8, <1>9, Zenon
    DEF Next, Handler, ServeFetch

(* A successful acks=all answer of handleProduce implies that the high     *)
(* watermark covers the producer's batch, in every interleaving.           *)
THEOREM AcksAreBelowHW == Spec => []AckedBelowHW
  <1>1. AckInv => AckedBelowHW
    BY DEF AckInv
  <1> QED
    BY <1>1, TypeOKInit, TypeOKStep, OffsetInvInit, OffsetInvStep, AckInvInit,
       AckInvStep, PTL DEF Spec

-----------------------------------------------------------------------------
(* Whoever raises the high watermark runs the purgatory afterwards, and a  *)
(* producer that enters the purgatory looks at the high watermark again,   *)
(* so the pending release survives every step until it happens.            *)
LEMMA NoLostWakeupStep ==
    TypeOK /\ AckInv /\ NoLostWakeup /\ [Next]_vars => NoLostWakeup'
  <1> SUFFICES ASSUME TypeOK, AckInv, NoLostWakeup, [Next]_vars,
                      NEW p \in purgatory', highWatermark' >= leaderLEO'[p]
               PROVE  \E t \in Threads : WillRelease(t, p)'
    BY DEF NoLostWakeup
  <1>0. /\ highWatermark \in Nat
        /\ purgatory \subseteq Producers
        /\ DOMAIN pc = Threads /\ hw \in [Threads -> Nat]
        /\ leaderLEO \in [Threads -> Nat]
        /\ Threads = Producers \cup FetchHandlers
        /\ Producers \cap FetchHandlers = {}
        /\ \A q \in purgatory : pc[q] \in Waiting
    BY ConstantFacts DEF TypeOK, Threads, AckInv
  <1> USE DEF NoLostWakeup, WillRelease, Waiting, Goto, Answer, trackerVars,
              purgatoryVars
  <1>1. ASSUME NEW t \in Threads, ReadLEO(t) \/ SetHighWatermark(t)
        PROVE  \E u \in Threads : WillRelease(u, p)'
    <2>1. p \in purgatory /\ pc[t] \in {"leo", "setHW"} /\ p # t
          /\ leaderLEO'[p] = leaderLEO[p] /\ highWatermark' = highWatermark
      BY <1>0, <1>1 DEF ReadLEO, SetHighWatermark
    <2>2. PICK u \in Threads : WillRelease(u, p)
      BY <1>0, <2>1
    <2>3. WillRelease(u, p)'
      BY <1>0, <1>1, <2>1, <2>2 DEF ReadLEO, SetHighWatermark
    <2> QED
      BY <2>3
  <1>2. ASSUME NEW t \in Threads,
               UpdateLeaderLEO(t) \/ (t \in FetchHandlers /\ UpdateReplicaLEO(t))
        PROVE  \E u \in Threads : WillRelease(u, p)'
    <2>1. /\ highWatermark' \in Nat
          /\ hw' = [hw EXCEPT ![t] = highWatermark']
      BY <1>2, AckInvUpdate
    <2>2. WillRelease(t, p)'
      BY <1>0, <1>2, <2>1 DEF UpdateLeaderLEO, UpdateReplicaLEO
    <2> QED
      BY <2>2
  <1>3. ASSUME NEW t \in Threads,
               Complete(t) \/ (t \in Producers /\ CompleteOwn(t))
        PROVE  \E u \in Threads : WillRelease(u, p)'
    <2>1. /\ p \in purgatory /\ ~ (hw[t] >= leaderLEO[p])
          /\ leaderLEO' = leaderLEO /\ highWatermark' = highWatermark
          /\ pc[t] \in {"complete", "completeOwn"}
      BY <1>0, <1>3 DEF Complete, CompleteOwn, CheckAndComplete
    <2>2. PICK u \in Threads : WillRelease(u, p)
      BY <1>0, <2>1
    <2>3. u # t
      BY <2>1, <2>2
    <2>4. pc'[u] = pc[u] /\ hw'[u] = hw[u]
      BY <1>0, <1>3, <2>3 DEF Complete, CompleteOwn, Forget
    <2>5. WillRelease(u, p)'
      BY <2>1, <2>2, <2>4
    <2> QED
      BY <2>5
  <1>4. ASSUME NEW q \in Producers, Watch(q) \/ Recheck(q)
        PROVE  \E u \in Threads : WillRelease(u, p)'
    <2>1. leaderLEO' = leaderLEO /\ highWatermark' = highWatermark
      BY <1>4 DEF Watch, Recheck
    <2>2. CASE p = q
      BY <1>0, <1>4, <2>1, <2>2 DEF Watch, Recheck
    <2>3. CASE p # q
      <3>1. PICK u \in Threads : WillRelease(u, p)
        BY <1>0, <1>4, <2>1, <2>3 DEF Watch, Recheck
      <3>2. u # q
        BY <1>4, <2>3, <3>1 DEF Watch, Recheck
      <3>3. WillRelease(u, p)'
        BY <1>0, <1>4, <2>1, <3>1, <3>2 DEF Watch, Recheck
      <3> QED
        BY <3>3
    <2> QED
      BY <2>2, <2>3
  <1>5. ASSUME NEW q \in Producers,
               \/ ProduceRejected(q) \/ ProduceAccepted(q)
               \/ NothingToAppend(q) \/ AppendBatch(q)
               \/ AppendBatchFails(q) \/ FastPath(q) \/ NotYetReplicated(q)
               \/ Released(q) \/ DeadlinePasses(q) \/ Cancel(q)
        PROVE  \E u \in Threads : WillRelease(u, p)'
    <2>1. /\ p \in purgatory /\ leaderLEO' = leaderLEO
          /\ highWatermark' = highWatermark /\ hw' = hw
          /\ pc[q] \in {"start", "append", "fast", "wait", "cancel"}
          /\ pc[q] = "cancel" => p # q
          /\ \E to : pc' = [pc EXCEPT ![q] = to]
      BY <1>0, <1>5 DEF ProduceRejected, ProduceAccepted, NothingToAppend, AppendBatch,
         AppendBatchFails, FastPath, NotYetReplicated, Released,
         DeadlinePasses, Cancel
    <2>2. PICK u \in Threads : WillRelease(u, p)
      BY <1>0, <2>1
    <2>3. u # q
      BY <2>1, <2>2
    <2>4. WillRelease(u, p)'
      BY <1>0, <2>1, <2>2, <2>3
    <2> QED
      BY <2>4
  <1>6. ASSUME NEW h \in FetchHandlers,
               \/ ReadFrom(h) \/ ReadFromFails(h) \/ Respond(h)
               \/ \E r \in Followers : SendReplicaFetch(r, h)
        PROVE  \E u \in Threads : WillRelease(u, p)'
    <2>1. /\ p \in purgatory /\ leaderLEO'[p] = leaderLEO[p] /\ p # h
          /\ highWatermark' = highWatermark /\ hw' = hw
          /\ pc[h] \in {"idle", "read", "respond"}
          /\ \E to : pc' = [pc EXCEPT ![h] = to]
      BY <1>0, <1>6 DEF ReadFrom, ReadFromFails, Respond, Finish,
                        SendReplicaFetch
    <2>2. PICK u \in Threads : WillRelease(u, p)
      BY <1>0, <2>1
    <2>3. u # h
      BY <2>1, <2>2
    <2>4. WillRelease(u, p)'
      BY <1>0, <2>1, <2>2, <2>3
    <2> QED
      BY <2>4
  <1>7. ASSUME (\E r \in Followers : FollowerGivesUp(r)) \/ Clock
                  \/ UNCHANGED vars
        PROVE  \E u \in Threads : WillRelease(u, p)'
    BY <1>7 DEF FollowerGivesUp, Clock, Tick, vars
  <1>8. ASSUME NEW h \in FetchHandlers \cup Producers
        PROVE  h \in Threads
    BY <1>8 DEF Threads
  <1> HIDE DEF WillRelease, NoLostWakeup
  <1> QED
    BY <1>1, <1>2, <1>3, <1>4, <1>5, <1>6, <1>7, <1>8, Zenon
    DEF Next, Handler, ServeFetch, Produce

(* No wake-up of an acks=all producer is ever lost, for any number of      *)
(* concurrent handlers: CheckAndComplete with a sufficient high watermark  *)
(* is still to come whenever a satisfied item is in the purgatory.         *)
THEOREM NoWakeupIsLost == Spec => []NoLostWakeup
  <1>1. Init => NoLostWakeup
    BY DEF Init, NoLostWakeup
  <1> QED
    BY <1>1, TypeOKInit, TypeOKStep, OffsetInvInit, OffsetInvStep, AckInvInit,
       AckInvStep, NoLostWakeupStep, PTL DEF Spec

-----------------------------------------------------------------------------
(* The goroutine that is about to publish the current high watermark.      *)
WillPublish(t) ==
    \/ pc[t] = "setHW" /\ hw[t] = highWatermark
    \/ pc[t] = "updateReplica"

(* The published high watermark follows the tracker's: it never passes it, *)
(* and it lags only while a goroutine that will publish is under way.      *)
PublishInv ==
    /\ partitionHW <= highWatermark
    /\ partitionHW < highWatermark => \E t \in Threads : WillPublish(t)

(* Every step keeps the published high watermark on its way.               *)
LEMMA PublishInvStep ==
    TypeOK /\ AckInv /\ PublishInv /\ [Next]_vars => PublishInv'
  <1> SUFFICES ASSUME TypeOK, AckInv, PublishInv, [Next]_vars
               PROVE  PublishInv'
    OBVIOUS
  <1>0. /\ highWatermark \in Nat /\ partitionHW \in Nat
        /\ DOMAIN pc = Threads /\ hw \in [Threads -> Nat]
        /\ Threads = Producers \cup FetchHandlers
        /\ Producers \cap FetchHandlers = {}
        /\ \A t \in Threads : hw[t] <= highWatermark
    BY ConstantFacts DEF TypeOK, Threads, AckInv
  <1> USE DEF PublishInv, WillPublish, Goto, Answer, trackerVars, partitionVars
  <1>1. ASSUME NEW t \in Threads,
               UpdateLeaderLEO(t) \/ (t \in FetchHandlers /\ UpdateReplicaLEO(t))
        PROVE  PublishInv'
    <2>1. /\ highWatermark' \in Nat /\ highWatermark' >= highWatermark
          /\ hw' = [hw EXCEPT ![t] = highWatermark']
      BY <1>1, AckInvUpdate
    <2>2. WillPublish(t)' /\ partitionHW' = partitionHW
      BY <1>0, <1>1, <2>1 DEF UpdateLeaderLEO, UpdateReplicaLEO
    <2> QED
      BY <1>0, <2>1, <2>2
  <1>2. ASSUME NEW t \in Threads, SetHighWatermark(t)
        PROVE  PublishInv'
    <2>1. /\ partitionHW' = (IF hw[t] > partitionHW THEN hw[t] ELSE partitionHW)
          /\ highWatermark' = highWatermark /\ hw' = hw
          /\ pc[t] = "setHW" /\ pc' = [pc EXCEPT ![t] = "complete"]
          /\ hw[t] \in Nat /\ hw[t] <= highWatermark
      BY <1>0, <1>2 DEF SetHighWatermark
    <2>2. partitionHW' <= highWatermark' /\ partitionHW' \in Nat
      BY <1>0, <2>1
    <2>3. ASSUME partitionHW' < highWatermark'
          PROVE  \E u \in Threads : WillPublish(u)'
      <3>1. hw[t] # highWatermark /\ partitionHW < highWatermark
        BY <1>0, <2>1, <2>3
      <3>2. PICK u \in Threads : WillPublish(u)
        BY <3>1
      <3>3. u # t
        BY <2>1, <3>1, <3>2
      <3>4. WillPublish(u)'
        BY <1>0, <2>1, <3>2, <3>3
      <3> QED
        BY <3>4
    <2> QED
      BY <2>2, <2>3
  <1>3. ASSUME NEW t \in Threads, pc[t] \notin {"setHW", "updateReplica"},
               UNCHANGED <<partitionHW, highWatermark>>,
               \E to : pc' = [pc EXCEPT ![t] = to],
               \A u \in Threads \ {t} : hw'[u] = hw[u]
        PROVE  PublishInv'
    BY <1>0, <1>3
  <1>4. ASSUME NEW t \in Threads, ReadLEO(t) \/ Complete(t)
        PROVE  PublishInv'
    BY <1>0, <1>3, <1>4 DEF ReadLEO, Complete, Forget
  <1>5. ASSUME NEW p \in Producers, Produce(p)
        PROVE  PublishInv'
    <2>1. /\ pc[p] \notin {"setHW", "updateReplica"}
          /\ UNCHANGED <<partitionHW, highWatermark>>
          /\ \E to : pc' = [pc EXCEPT ![p] = to]
      BY <1>0, <1>5
      DEF Produce, ProduceRejected, ProduceAccepted, NothingToAppend, AppendBatch,
          AppendBatchFails, FastPath, NotYetReplicated, Watch, Recheck,
          CompleteOwn, Released, DeadlinePasses, Cancel
    <2>2. \A u \in Threads \ {p} : hw'[u] = hw[u]
      BY <1>0, <1>5
      DEF Produce, ProduceRejected, ProduceAccepted, NothingToAppend, AppendBatch,
          AppendBatchFails, FastPath, NotYetReplicated, Watch, Recheck,
          CompleteOwn, Released, DeadlinePasses, Cancel, Forget
    <2> QED
      BY <1>0, <1>3, <2>1, <2>2
  <1>6. ASSUME NEW h \in FetchHandlers,
               \/ ReadFrom(h) \/ ReadFromFails(h) \/ Respond(h)
               \/ \E r \in Followers : SendReplicaFetch(r, h)
        PROVE  PublishInv'
    BY <1>0, <1>3, <1>6 DEF ReadFrom, ReadFromFails, Respond, SendReplicaFetch
  <1>7. ASSUME (\E r \in Followers : FollowerGivesUp(r)) \/ Clock
                  \/ UNCHANGED vars
        PROVE  PublishInv'
    BY <1>7 DEF FollowerGivesUp, Clock, Tick, vars
  <1>8. ASSUME NEW h \in FetchHandlers
        PROVE  h \in Threads
    BY <1>8 DEF Threads
  <1> HIDE DEF PublishInv
  <1> QED
    BY <1>1, <1>2, <1>4, <1>5, <1>6, <1>7, <1>8, Zenon
    DEF Next, Handler, ServeFetch

(* What SetHighWatermark publishes to consumers is within the tracker's    *)
(* high watermark, which is within the leader's log, and every advance of  *)
(* the tracker is on its way to the consumers.                             *)
THEOREM PublishedHWIsSafe == Spec => []PublishedHW
  <1>1. Init => PublishInv
    BY ConstantFacts DEF Init, TrackerInit, NewISRTracker, PublishInv
  <1>2. TypeOK /\ OffsetInv /\ HWWithinLeaderLEO /\ PublishInv => PublishedHW
    <2> SUFFICES ASSUME TypeOK, OffsetInv, HWWithinLeaderLEO, PublishInv
                 PROVE  PublishedHW
      OBVIOUS
    <2>1. /\ highWatermark \in Nat /\ logEndOffset \in Nat
          /\ replicas[LeaderID].logEndOffset \in Nat
      BY ConstantFacts DEF TypeOK, ReplicaState
    <2> QED
      BY <2>1 DEF OffsetInv, HWWithinLeaderLEO, PublishInv, PublishedHW,
                  WillPublish
  <1>3. Spec => []HWWithinLeaderLEO
    BY HandlersImplementTracker, HWStaysWithinLeaderLEO, PTL
    DEF ImplementsTracker
  <1> QED
    BY <1>1, <1>2, <1>3, TypeOKInit, TypeOKStep, OffsetInvInit, OffsetInvStep,
       AckInvInit, AckInvStep, PublishInvStep, PTL DEF Spec

=============================================================================
