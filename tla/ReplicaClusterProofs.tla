------------------------ MODULE ReplicaClusterProofs ------------------------
(***************************************************************************)
(* Proofs about the copies of a partition, for any number of brokers, any  *)
(* budget of a fetch and any number of faults.                             *)
(***************************************************************************)
EXTENDS ReplicaCluster, ISRTrackerProofs, SequenceTheorems

(* The state, as far as the proofs need its types.                         *)
Fetches == [stage : {"idle", "credit", "answered"}, records : Seq(Nat),
            leo : Nat, hw : Nat, lost : BOOLEAN]

Types ==
    /\ log \in [ReplicaIDs -> Seq(Nat)]
    /\ start \in Nat
    /\ hw \in [ReplicaIDs -> Nat]
    /\ fetch \in [Followers -> Fetches]
    /\ produced \in Nat

(* The leader is a replica and no follower of itself; who reports is a     *)
(* broker.                                                                 *)
LEMMA ConstantFacts ==
    /\ LeaderID \in ReplicaIDs /\ LeaderID \in Brokers /\ LeaderID \notin Followers
    /\ \A f \in Followers : f \in ReplicaIDs /\ f \in Brokers /\ f # LeaderID
  BY BrokersAssumption DEF Followers

(* What a fetch at an offset returns: the records of the leader from that  *)
(* offset on, none past its log end.                                       *)
LEMMA RecordsFacts ==
    ASSUME Types, NEW off \in Nat
    PROVE  /\ Records(off) \in Seq(Nat)
           /\ off <= LEO(LeaderID) => off + Len(Records(off)) <= LEO(LeaderID)
           /\ \A i \in 1..Len(Records(off)) :
                Records(off)[i] = log[LeaderID][off + i]
  <1> DEFINE s == log[LeaderID]
             n == Smaller(off + MaxFetch, Len(s))
  <1>1. s \in Seq(Nat)
    BY ConstantFacts DEF Types
  <1>2. Records(off) = SubSeq(s, off + 1, n)
    BY DEF Records, LEO
  <1>3. Len(s) \in Nat
    BY <1>1
  <1>4. n \in Nat /\ n <= Len(s)
    BY <1>3, ClusterAssumption DEF Smaller
  <1> HIDE DEF s, n
  <1>5. CASE off + 1 <= n
    BY <1>1, <1>2, <1>3, <1>4, <1>5 DEF LEO, s
  <1>6. CASE off + 1 > n
    <2>1. SubSeq(s, off + 1, n) = <<>>
      BY <1>1, <1>3, <1>4, <1>6
    <2>a. Records(off) = <<>>
      BY <1>2, <2>1, Zenon
    <2>b. Len(<<>>) = 0 /\ <<>> \in Seq(Nat)
      OBVIOUS
    <2>2. Len(Records(off)) = 0 /\ Records(off) \in Seq(Nat)
      BY <2>a, <2>b, Zenon
    <2>3. 1..Len(Records(off)) = {}
      BY <2>2
    <2> QED
      BY <2>2, <2>3
  <1> QED
    BY <1>4, <1>5, <1>6

-----------------------------------------------------------------------------
(* Types, the tracker's own invariant, and the link between the two: the   *)
(* tracker knows of no more records of the leader than its log holds.      *)
ClusterInv ==
    /\ Types
    /\ TrackerInv
    /\ replicas[LeaderID].logEndOffset <= LEO(LeaderID)

(* Empty logs and a fresh tracker.                                         *)
LEMMA ClusterInvInit == Init => ClusterInv
  <1> SUFFICES ASSUME Init PROVE ClusterInv
    OBVIOUS
  <1>1. TrackerInv
    BY TrackerInvInit DEF Init
  <1>2. <<>> \in Seq(Nat) /\ Len(<<>>) = 0
    OBVIOUS
  <1>3. NoFetch \in Fetches
    BY <1>2 DEF NoFetch, Fetches
  <1>4. Types
    BY <1>2, <1>3 DEF Init, Types
  <1>5. replicas[LeaderID].logEndOffset = 0 /\ LEO(LeaderID) = 0
    BY <1>2, ConstantFacts DEF Init, TrackerInit, NewISRTracker, NewReplicaState, LEO
  <1> QED
    BY <1>1, <1>4, <1>5 DEF ClusterInv

(* A report to the tracker, as the handlers make it: the invariant of the  *)
(* tracker stays, only the reporter's entry moves, and only to what was    *)
(* reported.                                                               *)
LEMMA ReportFacts ==
    ASSUME ClusterInv, NEW b \in ReplicaIDs, NEW leo \in Nat, NEW leaderLEO \in Nat,
           UpdateLEO(b, leo, leaderLEO)
    PROVE  /\ TrackerInv'
           /\ highWatermark \in Nat /\ highWatermark' \in Nat
           /\ highWatermark' >= highWatermark
           /\ highWatermark' <= replicas'[LeaderID].logEndOffset
           /\ \A r \in ReplicaIDs :
                /\ replicas[r].logEndOffset \in Nat
                /\ replicas'[r].logEndOffset \in Nat
                /\ \/ replicas'[r].logEndOffset = replicas[r].logEndOffset
                   \/ r = b /\ replicas'[r].logEndOffset = leo
  <1>1. b \in Brokers
    BY BrokersAssumption
  <1>2. TrackerInv /\ TrackerTypeOK
    BY DEF ClusterInv, TrackerInv
  <1>3. TrackerInv'
    BY <1>1, <1>2, UpdateLEOPreservesInv
  <1>4. TrackerTypeOK' /\ HWWithinLeaderLEO'
    BY <1>3 DEF TrackerInv
  <1>5. ReplicaIDs \subseteq DOMAIN replicas
    BY <1>2 DEF TrackerTypeOK
  <1>6. /\ highWatermark' >= highWatermark
        /\ \A r \in ReplicaIDs :
             \/ replicas'[r].logEndOffset = replicas[r].logEndOffset
             \/ r = b /\ replicas'[r].logEndOffset = leo
    BY <1>1, <1>2, <1>5, UpdateLEOFacts
  <1>7. \A r \in ReplicaIDs : /\ replicas[r].logEndOffset \in Nat
                              /\ replicas'[r].logEndOffset \in Nat
    BY <1>2, <1>4 DEF TrackerTypeOK, ReplicaState
  <1> QED
    BY <1>2, <1>3, <1>4, <1>6, <1>7 DEF TrackerTypeOK, HWWithinLeaderLEO

(* The tracker of a leader that has just started.                          *)
LEMMA FreshTracker ==
    ASSUME ClusterInv, now' = now, highWatermark' = 0,
           replicas' = [r \in ReplicaIDs |-> NewReplicaState(0)]
    PROVE  /\ TrackerInv'
           /\ \A r \in ReplicaIDs : replicas'[r].logEndOffset = 0
  <1>1. now \in Nat
    BY DEF ClusterInv, TrackerInv, TrackerTypeOK
  <1> QED
    BY <1>1, BrokersAssumption
    DEF NewReplicaState, TrackerInv, TrackerTypeOK, ReplicaState, EvictedIsLagging,
        HWWithinLeaderLEO, InSyncReplicasReachHW, GetISR

(* Every step of the cluster preserves it.                                 *)
LEMMA ClusterInvStep == ClusterInv /\ [Next]_vars => ClusterInv'
  <1> SUFFICES ASSUME ClusterInv, [Next]_vars PROVE ClusterInv'
    OBVIOUS
  <1> USE ConstantFacts
  <1>1. /\ Types /\ TrackerInv
        /\ LEO(LeaderID) \in Nat
        /\ replicas[LeaderID].logEndOffset \in Nat
        /\ replicas[LeaderID].logEndOffset <= LEO(LeaderID)
    BY DEF ClusterInv, Types, LEO, TrackerInv, TrackerTypeOK, ReplicaState
  <1>2. \A b \in ReplicaIDs : log[b] \in Seq(Nat) /\ LEO(b) \in Nat /\ hw[b] \in Nat
    BY <1>1 DEF Types, LEO
  <1>3. NoFetch \in Fetches
    BY DEF NoFetch, Fetches
  <1>4. ASSUME NEW b \in ReplicaIDs, NEW v \in Nat, SetHighWatermark(b, v)
        PROVE  hw' \in [ReplicaIDs -> Nat]
    BY <1>1, <1>2, <1>4 DEF Types, SetHighWatermark, Larger
  <1>5. CASE Produce
    <2>1. /\ TrackerInv' /\ highWatermark' \in Nat
          /\ replicas'[LeaderID].logEndOffset <= LEO(LeaderID) + 1
      BY <1>1, <1>5, ReportFacts DEF Produce
    <2>2. produced' \in Nat
      BY <1>1, <1>5 DEF Produce, Types
    <2>3. log' \in [ReplicaIDs -> Seq(Nat)] /\ Len(log'[LeaderID]) = LEO(LeaderID) + 1
      BY <1>1, <1>2, <1>5, <2>2 DEF Produce, Types, LEO
    <2>4. hw' \in [ReplicaIDs -> Nat]
      BY <1>4, <1>5, <2>1 DEF Produce
    <2> QED
      BY <1>1, <1>5, <2>1, <2>2, <2>3, <2>4 DEF Produce, ClusterInv, Types, LEO
  <1>6. CASE Retention
    <2>1. start' \in Nat
      BY <1>1, <1>6 DEF Retention, Types
    <2>2. UNCHANGED trackerVars
      BY <1>6 DEF Retention
    <2>3. TrackerInv'
      BY <1>1, <2>2, TrackerInvStep
    <2> QED
      BY <1>1, <1>6, <2>1, <2>2, <2>3 DEF Retention, ClusterInv, Types, LEO, trackerVars
  <1>7. CASE LeaderRestarts
    <2>1. PICK n \in start..LEO(LeaderID) : Reopen(LeaderID, n)
      BY <1>7 DEF LeaderRestarts
    <2>2. n \in Nat /\ n <= LEO(LeaderID)
      BY <1>1, <2>1 DEF Types
    <2>3. SubSeq(log[LeaderID], 1, n) \in Seq(Nat)
      BY <1>2, <2>2 DEF LEO
    <2>4. log' \in [ReplicaIDs -> Seq(Nat)] /\ hw' \in [ReplicaIDs -> Nat]
      BY <1>1, <2>1, <2>2, <2>3 DEF Reopen, Types
    <2>5. fetch' \in [Followers -> Fetches] /\ start' = start /\ produced' = produced
      BY <1>3, <1>7 DEF LeaderRestarts
    <2>6. TrackerInv' /\ replicas'[LeaderID].logEndOffset = 0
      BY <1>7, FreshTracker DEF LeaderRestarts
    <2>7. LEO(LeaderID)' \in Nat
      BY <2>4 DEF LEO
    <2> QED
      BY <1>1, <2>4, <2>5, <2>6, <2>7 DEF ClusterInv, Types
  <1>8. CASE Clock
    <2>1. TrackerInv'
      BY <1>1, <1>8, TrackerInvStep DEF Clock, TrackerNext
    <2> QED
      BY <1>1, <1>8, <2>1 DEF Clock, Tick, clusterVars, ClusterInv, Types, LEO
  <1>9. ASSUME NEW f \in Followers, ServeFetch(f)
        PROVE  ClusterInv'
    <2>1. /\ TrackerInv'
          /\ replicas'[LeaderID].logEndOffset <= LEO(LeaderID)
      BY <1>1, <1>9, ReportFacts DEF ServeFetch
    <2>2. FetchOffset(f) \in Nat
      BY <1>2 DEF FetchOffset
    <2>3. Records(FetchOffset(f)) \in Seq(Nat)
      BY <1>1, <2>2, RecordsFacts
    <2>4. FollowerLEO(FetchOffset(f)) \in Nat
      BY <2>2, <2>3 DEF FollowerLEO
    <2>5. fetch' \in [Followers -> Fetches]
      BY <1>1, <1>9, <2>3, <2>4 DEF ServeFetch, Types, Fetches
    <2> QED
      BY <1>1, <1>9, <2>1, <2>5 DEF ServeFetch, ClusterInv, Types, LEO
  <1>10. ASSUME NEW f \in Followers, Credit(f)
         PROVE  ClusterInv'
    <2>1. fetch[f] \in Fetches /\ fetch[f].leo \in Nat
      BY <1>1 DEF Types, Fetches
    <2>2. /\ TrackerInv' /\ highWatermark' \in Nat
          /\ replicas'[LeaderID].logEndOffset <= LEO(LeaderID)
      BY <1>1, <1>10, <2>1, ReportFacts DEF Credit
    <2>3. hw' \in [ReplicaIDs -> Nat]
      BY <1>4, <1>10, <2>2 DEF Credit
    <2>4. fetch' \in [Followers -> Fetches]
      BY <1>1, <1>3, <1>10, <2>1, <2>2 DEF Credit, Types, Fetches
    <2> QED
      BY <1>1, <1>10, <2>2, <2>3, <2>4 DEF Credit, ClusterInv, Types, LEO
  <1>11. ASSUME NEW f \in Followers, Receive(f)
         PROVE  ClusterInv'
    <2>1. /\ fetch[f].records \in Seq(Nat) /\ Len(fetch[f].records) \in Nat
          /\ fetch[f].hw \in Nat
      BY <1>1 DEF Types, Fetches
    <2>2. Capped(f, fetch[f].hw) \in Nat
      BY <1>2, <2>1 DEF Capped, Smaller
    <2>3. hw' \in [ReplicaIDs -> Nat]
      BY <1>4, <1>11, <2>2 DEF Receive
    <2>4. log[f] \o fetch[f].records \in Seq(Nat)
      BY <1>2, <2>1
    <2>5. log' \in [ReplicaIDs -> Seq(Nat)] /\ log'[LeaderID] = log[LeaderID]
      BY <1>1, <1>11, <2>4 DEF Receive, Types
    <2>6. fetch' \in [Followers -> Fetches]
      BY <1>1, <1>3, <1>11 DEF Receive, Types
    <2>7. UNCHANGED trackerVars
      BY <1>11 DEF Receive
    <2>8. TrackerInv'
      BY <1>1, <2>7, TrackerInvStep
    <2> QED
      BY <1>1, <1>11, <2>3, <2>5, <2>6, <2>7, <2>8
      DEF Receive, ClusterInv, Types, LEO, trackerVars
  <1>12. ASSUME NEW f \in Followers, AnswerLost(f)
         PROVE  ClusterInv'
    <2>1. fetch' \in [Followers -> Fetches]
      BY <1>1, <1>3, <1>12 DEF AnswerLost, Types
    <2>2. UNCHANGED trackerVars
      BY <1>12 DEF AnswerLost
    <2>3. TrackerInv'
      BY <1>1, <2>2, TrackerInvStep
    <2> QED
      BY <1>1, <1>12, <2>1, <2>2, <2>3
      DEF AnswerLost, ClusterInv, Types, LEO, trackerVars
  <1>13. ASSUME NEW f \in Followers, FollowerRestarts(f)
         PROVE  ClusterInv'
    <2>1. PICK n \in 0..LEO(f) : Reopen(f, n)
      BY <1>13 DEF FollowerRestarts
    <2>2. n \in Nat /\ SubSeq(log[f], 1, n) \in Seq(Nat)
      BY <1>2, <2>1 DEF LEO
    <2>3. /\ log' \in [ReplicaIDs -> Seq(Nat)] /\ hw' \in [ReplicaIDs -> Nat]
          /\ log'[LeaderID] = log[LeaderID]
      BY <1>1, <2>1, <2>2 DEF Reopen, Types
    <2>4. fetch' \in [Followers -> Fetches]
      <3>1. fetch[f] \in Fetches
        BY <1>1 DEF Types
      <3>2. [fetch[f] EXCEPT !.lost = TRUE] \in Fetches
        BY <3>1 DEF Fetches
      <3> QED
        BY <1>1, <1>3, <1>13, <3>2 DEF FollowerRestarts, Types
    <2>5. UNCHANGED <<trackerVars, start, produced>>
      BY <1>13 DEF FollowerRestarts
    <2>6. TrackerInv'
      BY <1>1, <2>5, TrackerInvStep
    <2> QED
      BY <1>1, <2>3, <2>4, <2>5, <2>6 DEF ClusterInv, Types, LEO, trackerVars
  <1>14. CASE UNCHANGED vars
    <2>1. TrackerInv'
      BY <1>1, <1>14, TrackerInvStep DEF vars
    <2> QED
      BY <1>1, <1>14, <2>1 DEF vars, clusterVars, trackerVars, ClusterInv, Types, LEO
  <1> QED
    BY <1>5, <1>6, <1>7, <1>8, <1>9, <1>10, <1>11, <1>12, <1>13, <1>14
    DEF Next, Replicate

-----------------------------------------------------------------------------
(* What consumers see.                                                     *)

(* A high watermark is taken from a log end when a broker opens its log,   *)
(* from the tracker at the leader, and is cut to the log at a follower.    *)
LEMMA VisibleStep ==
    ClusterInv /\ VisibleWithinLog /\ [Next]_vars => VisibleWithinLog'
  <1> SUFFICES ASSUME ClusterInv, VisibleWithinLog, [Next]_vars,
                      NEW b \in ReplicaIDs
               PROVE  hw'[b] <= Len(log'[b])
    BY DEF VisibleWithinLog, LEO
  <1> USE ConstantFacts
  <1>1. ClusterInv'
    BY ClusterInvStep
  <1>2. /\ log \in [ReplicaIDs -> Seq(Nat)] /\ hw \in [ReplicaIDs -> Nat]
        /\ log' \in [ReplicaIDs -> Seq(Nat)] /\ hw' \in [ReplicaIDs -> Nat]
    BY <1>1 DEF ClusterInv, Types
  <1>3. /\ hw[b] \in Nat /\ hw'[b] \in Nat /\ Len(log[b]) \in Nat
        /\ Len(log'[b]) \in Nat /\ hw[b] <= Len(log[b])
    BY <1>2 DEF VisibleWithinLog, LEO
  <1>4. highWatermark' \in Nat /\ highWatermark' <= Len(log'[LeaderID])
    <2>1. /\ replicas'[LeaderID].logEndOffset <= Len(log'[LeaderID])
          /\ Len(log'[LeaderID]) \in Nat
      BY <1>1, <1>2 DEF ClusterInv, LEO
    <2>2. /\ replicas'[LeaderID].logEndOffset \in Nat /\ highWatermark' \in Nat
          /\ highWatermark' <= replicas'[LeaderID].logEndOffset
      BY <1>1 DEF ClusterInv, TrackerInv, TrackerTypeOK, ReplicaState, HWWithinLeaderLEO
    <2> QED
      BY <2>1, <2>2
  <1>5. ASSUME SetHighWatermark(LeaderID, highWatermark'), Len(log[b]) <= Len(log'[b])
        PROVE  hw'[b] <= Len(log'[b])
    BY <1>2, <1>3, <1>4, <1>5 DEF SetHighWatermark, Larger
  <1>6. CASE Produce
    <2>1. Len(log[b]) <= Len(log'[b])
      BY <1>2, <1>3, <1>6 DEF Produce
    <2> QED
      BY <1>5, <1>6, <2>1 DEF Produce
  <1>7. CASE Retention
    BY <1>3, <1>7 DEF Retention
  <1>8. ASSUME NEW x \in ReplicaIDs, NEW n \in 0..LEO(x), Reopen(x, n)
        PROVE  hw'[b] <= Len(log'[b])
    <2>1. CASE b = x
      <3>1. n \in Nat /\ n <= Len(log[b]) /\ log[b] \in Seq(Nat)
        BY <1>2, <1>3, <2>1 DEF LEO
      <3>2. Len(SubSeq(log[b], 1, n)) = n
        BY <1>3, <3>1
      <3> QED
        BY <1>2, <1>8, <2>1, <3>1, <3>2 DEF Reopen
    <2>2. CASE b # x
      BY <1>2, <1>3, <1>8, <2>2 DEF Reopen
    <2> QED
      BY <2>1, <2>2
  <1>9. CASE LeaderRestarts
    <2>1. PICK n \in start..LEO(LeaderID) : Reopen(LeaderID, n)
      BY <1>9 DEF LeaderRestarts
    <2>2. n \in 0..LEO(LeaderID)
      BY <1>2, <2>1 DEF ClusterInv, Types, LEO
    <2> QED
      BY <1>8, <2>1, <2>2
  <1>10. CASE Clock
    BY <1>3, <1>10 DEF Clock, clusterVars
  <1>11. ASSUME NEW f \in Followers, ServeFetch(f)
         PROVE  hw'[b] <= Len(log'[b])
    BY <1>3, <1>11 DEF ServeFetch
  <1>12. ASSUME NEW f \in Followers, Credit(f)
         PROVE  hw'[b] <= Len(log'[b])
    BY <1>3, <1>5, <1>12 DEF Credit
  <1>13. ASSUME NEW f \in Followers, Receive(f)
         PROVE  hw'[b] <= Len(log'[b])
    <2>1. CASE b = f
      <3>1. fetch[f].records \in Seq(Nat) /\ fetch[f].hw \in Nat
        BY DEF ClusterInv, Types, Fetches
      <3> DEFINE m == Len(fetch[f].records)
      <3>2. m \in Nat /\ Len(log'[f]) = Len(log[f]) + m
        BY <1>2, <1>13, <3>1 DEF Receive
      <3> HIDE DEF m
      <3>a. Capped(f, fetch[f].hw) = IF fetch[f].hw < Len(log[f]) + m
                                     THEN fetch[f].hw ELSE Len(log[f]) + m
        BY DEF Capped, Smaller, LEO, m
      <3>3. Capped(f, fetch[f].hw) \in Nat /\ Capped(f, fetch[f].hw) <= Len(log[f]) + m
        BY <1>3, <2>1, <3>1, <3>2, <3>a
      <3>4. hw'[f] = Larger(hw[f], Capped(f, fetch[f].hw))
        BY <1>2, <1>13 DEF Receive, SetHighWatermark
      <3> QED
        BY <1>3, <2>1, <3>2, <3>3, <3>4 DEF Larger
    <2>2. CASE b # f
      BY <1>2, <1>3, <1>13, <2>2 DEF Receive, SetHighWatermark
    <2> QED
      BY <2>1, <2>2
  <1>14. ASSUME NEW f \in Followers, AnswerLost(f)
         PROVE  hw'[b] <= Len(log'[b])
    BY <1>3, <1>14 DEF AnswerLost
  <1>15. ASSUME NEW f \in Followers, FollowerRestarts(f)
         PROVE  hw'[b] <= Len(log'[b])
    BY <1>8, <1>15 DEF FollowerRestarts
  <1>16. CASE UNCHANGED vars
    BY <1>3, <1>16 DEF vars, clusterVars
  <1> QED
    BY <1>6, <1>7, <1>9, <1>10, <1>11, <1>12, <1>13, <1>14, <1>15, <1>16
    DEF Next, Replicate

(* No broker shows consumers more than its log holds, through restarts     *)
(* that cut logs and high watermarks a follower learns before it has the   *)
(* records.                                                                *)
THEOREM VisibleIsHeld == Spec => []VisibleWithinLog
  <1>1. Init => VisibleWithinLog
    BY DEF Init, VisibleWithinLog, LEO
  <1> QED
    BY <1>1, ClusterInvInit, ClusterInvStep, VisibleStep, PTL DEF Spec

(* Why VisibleIsCommitted holds: an answer on its way carries a high       *)
(* watermark that the tracker has reached.                                 *)
CommittedInv ==
    LeaderID \notin restarted =>
        /\ \A b \in ReplicaIDs \ restarted : hw[b] <= highWatermark
        /\ \A f \in Followers : fetch[f].hw <= highWatermark

(* A copy of an earlier high watermark, or none, is below a later one.     *)
LEMMA StaysBelow ==
    ASSUME NEW x, NEW y \in Nat, NEW h \in Nat, NEW k \in Nat,
           y <= h, h <= k, x = 0 \/ x = y \/ x = k
    PROVE  x <= k
  OBVIOUS

(* While the leader runs, the tracker's high watermark only rises, and     *)
(* every other one is a copy of an earlier value of it.                    *)
LEMMA CommittedStep == ClusterInv /\ CommittedInv /\ [Next]_vars => CommittedInv'
  <1> SUFFICES ASSUME ClusterInv, CommittedInv, [Next]_vars,
                      LeaderID \notin restarted'
               PROVE  /\ \A b \in ReplicaIDs \ restarted' : hw'[b] <= highWatermark'
                      /\ \A f \in Followers : fetch'[f].hw <= highWatermark'
    BY DEF CommittedInv
  <1> USE ConstantFacts
  <1>1. ClusterInv'
    BY ClusterInvStep
  <1>2. /\ hw \in [ReplicaIDs -> Nat] /\ hw' \in [ReplicaIDs -> Nat]
        /\ fetch \in [Followers -> Fetches] /\ fetch' \in [Followers -> Fetches]
        /\ log \in [ReplicaIDs -> Seq(Nat)]
        /\ highWatermark \in Nat /\ highWatermark' \in Nat
    BY <1>1 DEF ClusterInv, Types, TrackerInv, TrackerTypeOK
  <1>3. \A f \in Followers : fetch[f].hw \in Nat /\ fetch'[f].hw \in Nat
    BY <1>2 DEF Fetches
  <1>4. NoFetch.hw = 0
    BY DEF NoFetch
  <1>5. ASSUME restarted' = restarted, UNCHANGED <<hw, fetch>>,
               highWatermark' >= highWatermark
        PROVE  /\ \A b \in ReplicaIDs \ restarted' : hw'[b] <= highWatermark'
               /\ \A f \in Followers : fetch'[f].hw <= highWatermark'
    BY <1>2, <1>3, <1>5 DEF CommittedInv
  <1>6. CASE Produce
    <2>1. highWatermark' >= highWatermark
      <3>1. LEO(LeaderID) + 1 \in Nat
        BY <1>2 DEF LEO
      <3> QED
        BY <1>6, <3>1, ReportFacts DEF Produce
    <2> QED
      BY <1>2, <1>3, <1>6, <2>1 DEF Produce, CommittedInv, SetHighWatermark, Larger
  <1>7. CASE Retention
    BY <1>2, <1>5, <1>7 DEF Retention, trackerVars
  <1>8. CASE LeaderRestarts
    BY <1>8 DEF LeaderRestarts, Reopen
  <1>9. CASE Clock
    BY <1>2, <1>5, <1>9 DEF Clock, Tick, clusterVars
  <1>10. ASSUME NEW f \in Followers, ServeFetch(f)
         PROVE  /\ \A b \in ReplicaIDs \ restarted' : hw'[b] <= highWatermark'
                /\ \A g \in Followers : fetch'[g].hw <= highWatermark'
    <2>1. highWatermark' >= highWatermark
      <3>1. LEO(LeaderID) \in Nat
        BY <1>2 DEF LEO
      <3> QED
        BY <1>10, <3>1, ReportFacts DEF ServeFetch
    <2>2. \A g \in Followers : fetch'[g].hw = IF g = f THEN 0 ELSE fetch[g].hw
      BY <1>2, <1>10 DEF ServeFetch
    <2> QED
      BY <1>2, <1>3, <1>10, <2>1, <2>2 DEF ServeFetch, CommittedInv
  <1>11. ASSUME NEW f \in Followers, Credit(f)
         PROVE  /\ \A b \in ReplicaIDs \ restarted' : hw'[b] <= highWatermark'
                /\ \A g \in Followers : fetch'[g].hw <= highWatermark'
    <2>1. highWatermark <= highWatermark'
      <3>1. fetch[f].leo \in Nat /\ replicas[LeaderID].logEndOffset \in Nat
        BY <1>2 DEF Fetches, ClusterInv, TrackerInv, TrackerTypeOK, ReplicaState
      <3> QED
        BY <1>11, <3>1, ReportFacts DEF Credit
    <2>2. \A g \in Followers : \/ fetch'[g].hw = 0
                              \/ fetch'[g].hw = highWatermark'
                              \/ fetch'[g].hw = fetch[g].hw
      BY <1>2, <1>4, <1>11 DEF Credit, Fetches
    <2>3. restarted' = restarted
      BY <1>11 DEF Credit
    <2>4a. \A b \in ReplicaIDs \ restarted : hw[b] <= highWatermark
      BY <2>3 DEF CommittedInv
    <2>4b. \A g \in Followers : fetch[g].hw <= highWatermark
      BY <2>3 DEF CommittedInv
    <2>5. \A b \in ReplicaIDs : hw'[b] = highWatermark' \/ hw'[b] = hw[b]
      BY <1>2, <1>11 DEF Credit, SetHighWatermark, Larger
    <2>6. \A b \in ReplicaIDs \ restarted' : hw'[b] <= highWatermark'
      <3> SUFFICES ASSUME NEW b \in ReplicaIDs, b \notin restarted
                   PROVE  hw'[b] <= highWatermark'
        BY <2>3
      <3>1. hw[b] \in Nat
        BY <1>2
      <3>2. hw[b] <= highWatermark
        BY <2>4a
      <3> QED
        BY <1>2, <2>1, <2>5, <3>1, <3>2, StaysBelow
    <2>7. \A g \in Followers : fetch'[g].hw <= highWatermark'
      <3> TAKE g \in Followers
      <3>1. fetch[g].hw \in Nat
        BY <1>3
      <3>2. fetch[g].hw <= highWatermark
        BY <2>4b
      <3>3. \/ fetch'[g].hw = 0 \/ fetch'[g].hw = fetch[g].hw
            \/ fetch'[g].hw = highWatermark'
        BY <2>2
      <3> QED
        BY <1>2, <2>1, <3>1, <3>2, <3>3, StaysBelow
    <2> QED
      BY <2>6, <2>7
  <1>12. ASSUME NEW f \in Followers, Receive(f)
         PROVE  /\ \A b \in ReplicaIDs \ restarted' : hw'[b] <= highWatermark'
                /\ \A g \in Followers : fetch'[g].hw <= highWatermark'
    <2>1. Capped(f, fetch[f].hw) \in Nat /\ Capped(f, fetch[f].hw) <= fetch[f].hw
      <3>a. Len(log[f]) \in Nat
        BY <1>2
      <3>b. Len(fetch[f].records) \in Nat
        BY <1>2 DEF Fetches
      <3> DEFINE m == Len(fetch[f].records)
      <3> HIDE DEF m
      <3>d. m \in Nat
        BY <3>b DEF m
      <3>c. Len(log[f]) + m \in Nat
        BY <3>a, <3>d
      <3>1. LEO(f) + Len(fetch[f].records) \in Nat
        BY <3>c DEF LEO, m
      <3> QED
        BY <1>3, <3>1 DEF Capped, Smaller
    <2>2. \A g \in Followers : fetch'[g].hw = IF g = f THEN 0 ELSE fetch[g].hw
      BY <1>2, <1>4, <1>12 DEF Receive
    <2>3. \A b \in ReplicaIDs : \/ hw'[b] = hw[b]
                              \/ hw'[b] = Capped(f, fetch[f].hw)
      BY <1>2, <1>12 DEF Receive, SetHighWatermark, Larger
    <2>4. highWatermark' = highWatermark /\ restarted' = restarted
      BY <1>12 DEF Receive, trackerVars
    <2>5a. \A b \in ReplicaIDs \ restarted : hw[b] <= highWatermark
      BY <2>4 DEF CommittedInv
    <2>5b. \A g \in Followers : fetch[g].hw <= highWatermark
      BY <2>4 DEF CommittedInv
    <2>6. \A b \in ReplicaIDs \ restarted' : hw'[b] <= highWatermark'
      <3>1. fetch[f].hw <= highWatermark /\ fetch[f].hw \in Nat
        BY <1>3, <2>5b
      <3>2. Capped(f, fetch[f].hw) <= highWatermark
        BY <1>2, <2>1, <3>1
      <3> QED
        BY <1>2, <2>3, <2>4, <2>5a, <3>2
    <2>8. highWatermark <= highWatermark'
      BY <1>2, <2>4
    <2>7. \A g \in Followers : fetch'[g].hw <= highWatermark'
      <3> TAKE g \in Followers
      <3>1. fetch[g].hw \in Nat
        BY <1>3
      <3>2. fetch[g].hw <= highWatermark
        BY <2>5b
      <3>3. \/ fetch'[g].hw = 0 \/ fetch'[g].hw = fetch[g].hw
            \/ fetch'[g].hw = highWatermark'
        BY <2>2
      <3> QED
        BY <1>2, <2>8, <3>1, <3>2, <3>3, StaysBelow
    <2> QED
      BY <2>6, <2>7
  <1>13. ASSUME NEW f \in Followers, AnswerLost(f)
         PROVE  /\ \A b \in ReplicaIDs \ restarted' : hw'[b] <= highWatermark'
                /\ \A g \in Followers : fetch'[g].hw <= highWatermark'
    <2>1. \A g \in Followers : fetch'[g].hw = IF g = f THEN 0 ELSE fetch[g].hw
      BY <1>2, <1>4, <1>13 DEF AnswerLost
    <2> QED
      BY <1>2, <1>3, <1>13, <2>1 DEF AnswerLost, trackerVars, CommittedInv
  <1>14. ASSUME NEW f \in Followers, FollowerRestarts(f)
         PROVE  /\ \A b \in ReplicaIDs \ restarted' : hw'[b] <= highWatermark'
                /\ \A g \in Followers : fetch'[g].hw <= highWatermark'
    <2>1. \A g \in Followers : fetch'[g].hw = 0 \/ fetch'[g].hw = fetch[g].hw
      BY <1>2, <1>4, <1>14 DEF FollowerRestarts, Fetches
    <2>2. PICK n \in 0..LEO(f) : Reopen(f, n)
      BY <1>14 DEF FollowerRestarts
    <2>3. /\ restarted' = restarted \cup {f} /\ highWatermark' = highWatermark
          /\ \A b \in ReplicaIDs \ {f} : hw'[b] = hw[b]
      BY <1>2, <1>14, <2>2 DEF Reopen, FollowerRestarts, trackerVars
    <2>4a. \A b \in ReplicaIDs \ restarted : hw[b] <= highWatermark
      BY <2>3 DEF CommittedInv
    <2>4b. \A g \in Followers : fetch[g].hw <= highWatermark
      BY <2>3 DEF CommittedInv
    <2>5. \A b \in ReplicaIDs \ restarted' : hw'[b] <= highWatermark'
      BY <2>3, <2>4a
    <2>7. highWatermark <= highWatermark'
      BY <1>2, <2>3
    <2>6. \A g \in Followers : fetch'[g].hw <= highWatermark'
      <3> TAKE g \in Followers
      <3>1. fetch[g].hw \in Nat
        BY <1>3
      <3>2. fetch[g].hw <= highWatermark
        BY <2>4b
      <3>3. \/ fetch'[g].hw = 0 \/ fetch'[g].hw = fetch[g].hw
            \/ fetch'[g].hw = highWatermark'
        BY <2>1
      <3> QED
        BY <1>2, <2>7, <3>1, <3>2, <3>3, StaysBelow
    <2> QED
      BY <2>5, <2>6
  <1>15. CASE UNCHANGED vars
    BY <1>2, <1>5, <1>15 DEF vars, clusterVars, trackerVars
  <1> QED
    BY <1>6, <1>7, <1>8, <1>9, <1>10, <1>11, <1>12, <1>13, <1>14, <1>15
    DEF Next, Replicate

(* A broker that has not been restarted, at a leader that has not been,    *)
(* shows consumers only records below the tracker's high watermark.        *)
THEOREM OnlyCommittedIsShown == Spec => []VisibleIsCommitted
  <1>1. Init => CommittedInv
    BY ConstantFacts DEF Init, TrackerInit, NewISRTracker, NoFetch, CommittedInv
  <1>2. CommittedInv => VisibleIsCommitted
    BY DEF CommittedInv, VisibleIsCommitted
  <1> QED
    BY <1>1, <1>2, ClusterInvInit, ClusterInvStep, CommittedStep, PTL DEF Spec

-----------------------------------------------------------------------------
(* What the leader takes a follower to hold.                               *)

(* Why CreditIsHeld holds.  A handler about to credit a follower credits   *)
(* the end of its answer; only a follower that is excused has a handler    *)
(* that nobody waits for.                                                  *)
CreditInv ==
    \A f \in Followers :
        /\ f \notin missed =>
              replicas[f].logEndOffset <= LEO(f) + Len(fetch[f].records)
        /\ f \notin missed /\ fetch[f].stage = "credit" =>
              fetch[f].leo <= LEO(f) + Len(fetch[f].records)
        /\ f \notin missed => fetch[f].lost = FALSE
        /\ fetch[f].stage = "idle" => Len(fetch[f].records) = 0

(* The part of CreditInv about one follower, in terms of what the tracker  *)
(* holds for it, the length of its log and its fetch.                      *)
CreditOf(excused, credited, leo, fe) ==
    /\ ~excused => credited <= leo + Len(fe.records)
    /\ ~excused /\ fe.stage = "credit" => fe.leo <= leo + Len(fe.records)
    /\ ~excused => fe.lost = FALSE
    /\ fe.stage = "idle" => Len(fe.records) = 0

(* A follower between two fetches that holds all it is credited with.      *)
LEMMA CreditOfIdle ==
    ASSUME NEW e, NEW c \in Nat, NEW l \in Nat, e \/ c <= l
    PROVE  CreditOf(e, c, l, NoFetch)
  BY DEF CreditOf, NoFetch

(* Every step keeps it.                                                    *)
LEMMA CreditStep == ClusterInv /\ CreditInv /\ [Next]_vars => CreditInv'
  <1> SUFFICES ASSUME ClusterInv, CreditInv, [Next]_vars, NEW f \in Followers
               PROVE  CreditOf(f \in missed', replicas'[f].logEndOffset, Len(log'[f]), fetch'[f])
    BY DEF CreditInv, CreditOf, LEO
  <1> DEFINE Goal == CreditOf(f \in missed', replicas'[f].logEndOffset, Len(log'[f]), fetch'[f])
             c == replicas[f].logEndOffset
             l == Len(log[f])
  <1> HIDE DEF Goal
  <1> SUFFICES Goal
    BY DEF Goal
  <1> USE ConstantFacts
  <1>1. CreditOf(f \in missed, c, l, fetch[f])
    BY DEF CreditInv, CreditOf, LEO
  <1>2. ClusterInv'
    BY ClusterInvStep
  <1>3. /\ log \in [ReplicaIDs -> Seq(Nat)] /\ fetch \in [Followers -> Fetches]
        /\ c \in Nat /\ l \in Nat
        /\ replicas'[f].logEndOffset \in Nat /\ Len(log'[f]) \in Nat
    <2>1. c \in Nat /\ replicas'[f].logEndOffset \in Nat
      BY <1>2 DEF ClusterInv, TrackerInv, TrackerTypeOK, ReplicaState
    <2>2. /\ log \in [ReplicaIDs -> Seq(Nat)] /\ log' \in [ReplicaIDs -> Seq(Nat)]
          /\ fetch \in [Followers -> Fetches]
      BY <1>2 DEF ClusterInv, Types
    <2>3. l \in Nat /\ Len(log'[f]) \in Nat
      BY <2>2
    <2> QED
      BY <2>1, <2>2, <2>3
  <1>4. /\ fetch[f] \in Fetches /\ fetch[f].records \in Seq(Nat)
        /\ Len(fetch[f].records) \in Nat /\ fetch[f].leo \in Nat
    BY <1>3 DEF Fetches
  <1> HIDE DEF c, l
  <1>5. ASSUME missed' = missed, replicas'[f].logEndOffset = c, Len(log'[f]) = l,
               fetch'[f] = fetch[f]
        PROVE  Goal
    BY <1>1, <1>5, Zenon DEF Goal
  <1>6. CASE Produce
    <2>1. LEO(LeaderID) + 1 \in Nat
      BY <1>3 DEF LEO
    <2>2. replicas'[f].logEndOffset = c
      BY <1>6, <2>1, ReportFacts DEF Produce, c
    <2>3. log'[f] = log[f] /\ fetch' = fetch /\ missed' = missed
      BY <1>3, <1>6 DEF Produce
    <2> QED
      BY <1>5, <2>2, <2>3 DEF l
  <1>7. CASE Retention
    BY <1>5, <1>7 DEF Retention, trackerVars, c, l
  <1>8. CASE LeaderRestarts
    <2>1. replicas'[f].logEndOffset = 0
      BY <1>8, FreshTracker DEF LeaderRestarts
    <2>2. fetch'[f] = NoFetch
      BY <1>8 DEF LeaderRestarts
    <2>3. CreditOf(f \in missed', 0, Len(log'[f]), NoFetch)
      <3>1. Len(log'[f]) \in Nat /\ 0 <= Len(log'[f]) /\ 0 \in Nat
        BY <1>3
      <3> QED
        BY <3>1, CreditOfIdle
    <2> QED
      BY <2>1, <2>2, <2>3, Zenon DEF Goal
  <1>9. CASE Clock
    BY <1>5, <1>9 DEF Clock, Tick, clusterVars, c, l
  <1>10. ASSUME NEW g \in Followers, ServeFetch(g)
         PROVE  Goal
    <2>1. LEO(LeaderID) \in Nat
      BY <1>3 DEF LEO
    <2>2. replicas'[f].logEndOffset = c
      BY <1>10, <2>1, ReportFacts DEF ServeFetch, c
    <2>3. log' = log /\ missed' = missed
      BY <1>10 DEF ServeFetch
    <2>4. CASE g # f
      BY <1>3, <1>5, <1>10, <2>2, <2>3, <2>4 DEF ServeFetch, l
    <2>5. CASE g = f
      <3> DEFINE R == Records(l)
      <3>1. R \in Seq(Nat)
        BY <1>3, RecordsFacts DEF ClusterInv
      <3>2. fetch'[f] = [stage |-> "credit", records |-> R, leo |-> l + Len(R), hw |-> 0,
                         lost |-> FALSE]
        BY <1>3, <1>10, <2>5 DEF ServeFetch, FetchOffset, FollowerLEO, LEO, l
      <3>3. fetch[f].stage = "idle"
        BY <1>10, <2>5 DEF ServeFetch
      <3>4. f \notin missed => c <= l
        BY <1>1, <1>3, <3>3 DEF CreditOf
      <3> HIDE DEF R
      <3>5. Len(R) \in Nat
        BY <3>1
      <3>6. CreditOf(f \in missed, c, l, fetch'[f])
        BY <1>3, <3>2, <3>4, <3>5 DEF CreditOf
      <3> QED
        BY <2>2, <2>3, <3>6, Zenon DEF Goal, l
    <2> QED
      BY <2>4, <2>5
  <1>11. ASSUME NEW g \in Followers, Credit(g)
         PROVE  Goal
    <2>1. fetch[g].leo \in Nat /\ replicas[LeaderID].logEndOffset \in Nat
      BY <1>3 DEF Fetches, ClusterInv, TrackerInv, TrackerTypeOK, ReplicaState
    <2>2. \/ replicas'[f].logEndOffset = c
          \/ f = g /\ replicas'[f].logEndOffset = fetch[f].leo
      BY <1>11, <2>1, ReportFacts DEF Credit, c
    <2>3. log' = log /\ missed' = missed
      BY <1>11 DEF Credit
    <2>4. CASE g # f
      BY <1>3, <1>5, <1>11, <2>2, <2>3, <2>4 DEF Credit, l
    <2>5. CASE g = f /\ fetch[f].lost
      <3>1. fetch'[f] = NoFetch
        BY <1>3, <1>11, <2>5 DEF Credit
      <3>2. f \in missed
        BY <1>1, <2>5, Zenon DEF CreditOf
      <3>3. CreditOf(f \in missed, replicas'[f].logEndOffset, l, NoFetch)
        BY <1>3, <3>2, CreditOfIdle
      <3> QED
        BY <2>3, <3>1, <3>3, Zenon DEF Goal, l
    <2>6. CASE g = f /\ ~fetch[f].lost
      <3>1. fetch'[f] = [fetch[f] EXCEPT !.stage = "answered", !.leo = 0,
                                         !.hw = highWatermark']
        BY <1>3, <1>11, <2>6 DEF Credit
      <3>2. /\ fetch'[f].stage = "answered" /\ fetch'[f].records = fetch[f].records
            /\ fetch'[f].lost = fetch[f].lost
        BY <1>4, <3>1 DEF Fetches
      <3>3. fetch[f].stage = "credit"
        BY <1>11, <2>6 DEF Credit
      <3>4. f \notin missed => /\ c <= l + Len(fetch[f].records)
                              /\ fetch[f].leo <= l + Len(fetch[f].records)
                              /\ fetch[f].lost = FALSE
        BY <1>1, <3>3, Zenon DEF CreditOf
      <3>5. f \notin missed => replicas'[f].logEndOffset <= l + Len(fetch[f].records)
        BY <2>2, <3>4, Zenon
      <3>6. CreditOf(f \in missed, replicas'[f].logEndOffset, l, fetch'[f])
        <4>1. "answered" # "credit" /\ "answered" # "idle"
          OBVIOUS
        <4> QED
          BY <3>2, <3>4, <3>5, <4>1, Zenon DEF CreditOf
      <3> QED
        BY <2>3, <3>6, Zenon DEF Goal, l
    <2> QED
      BY <2>4, <2>5, <2>6
  <1>12. ASSUME NEW g \in Followers, Receive(g)
         PROVE  Goal
    <2>1. replicas' = replicas
      BY <1>12 DEF Receive, trackerVars
    <2>2. CASE g # f
      <3>1. log'[f] = log[f] /\ fetch'[f] = fetch[f] /\ (f \in missed' <=> f \in missed)
        BY <1>3, <1>12, <2>2 DEF Receive
      <3>2. CreditOf(f \in missed', c, l, fetch[f])
        BY <1>1, <3>1, Zenon DEF CreditOf
      <3> QED
        BY <2>1, <3>1, <3>2, Zenon DEF Goal, c, l
    <2>3. CASE g = f
      <3> DEFINE m == Len(fetch[f].records)
      <3>1. log'[f] = log[f] \o fetch[f].records /\ fetch'[f] = NoFetch
        BY <1>3, <1>12, <2>3 DEF Receive
      <3>2. Len(log'[f]) = l + m
        BY <1>3, <1>4, <3>1 DEF l
      <3>3. f \notin missed' => f \notin missed \/ ~ (l + m < c)
        BY <1>12, <2>3, Zenon DEF Receive, LEO, c, l
      <3>4. f \notin missed => c <= l + m
        BY <1>1, Zenon DEF CreditOf
      <3>5. m \in Nat
        BY <1>4
      <3> HIDE DEF m
      <3>6. f \in missed' \/ c <= l + m
        BY <1>3, <3>3, <3>4, <3>5
      <3>7. l + m \in Nat
        BY <1>3, <3>5
      <3>8. CreditOf(f \in missed', c, l + m, NoFetch)
        BY <1>3, <3>6, <3>7, CreditOfIdle
      <3> QED
        BY <2>1, <3>1, <3>2, <3>8, Zenon DEF Goal, c
    <2> QED
      BY <2>2, <2>3
  <1>13. ASSUME NEW g \in Followers, AnswerLost(g)
         PROVE  Goal
    <2>1. replicas' = replicas /\ log' = log /\ missed' = missed \cup {g}
      BY <1>13 DEF AnswerLost, trackerVars
    <2>2. CASE g # f
      <3>1. fetch'[f] = fetch[f] /\ (f \in missed' <=> f \in missed)
        BY <1>3, <1>13, <2>1, <2>2 DEF AnswerLost
      <3>2. CreditOf(f \in missed', c, l, fetch[f])
        BY <1>1, <3>1, Zenon DEF CreditOf
      <3> QED
        BY <2>1, <3>1, <3>2, Zenon DEF Goal, c, l
    <2>3. CASE g = f
      <3>1. fetch'[f] = NoFetch /\ f \in missed'
        BY <1>3, <1>13, <2>1, <2>3 DEF AnswerLost
      <3>2. CreditOf(f \in missed', c, l, NoFetch)
        BY <1>3, <3>1, CreditOfIdle
      <3> QED
        BY <2>1, <3>1, <3>2, Zenon DEF Goal, c, l
    <2> QED
      BY <2>2, <2>3
  <1>14. ASSUME NEW g \in Followers, FollowerRestarts(g)
         PROVE  Goal
    <2>1. PICK n \in 0..LEO(g) : Reopen(g, n)
      BY <1>14 DEF FollowerRestarts
    <2>2. replicas' = replicas /\ missed' = missed \cup {g}
      BY <1>14 DEF FollowerRestarts, trackerVars
    <2>3. CASE g # f
      <3>1. log'[f] = log[f] /\ fetch'[f] = fetch[f] /\ (f \in missed' <=> f \in missed)
        BY <1>3, <1>14, <2>1, <2>2, <2>3 DEF FollowerRestarts, Reopen
      <3>2. CreditOf(f \in missed', c, l, fetch[f])
        BY <1>1, <3>1, Zenon DEF CreditOf
      <3> QED
        BY <2>2, <3>1, <3>2, Zenon DEF Goal, c, l
    <2>4. CASE g = f
      <3>1. f \in missed'
        BY <2>2, <2>4
      <3>2. CASE fetch[f].stage = "credit"
        <4>1. fetch'[f] = [fetch[f] EXCEPT !.lost = TRUE]
          BY <1>3, <1>14, <2>4, <3>2 DEF FollowerRestarts
        <4>2. fetch'[f].stage = "credit" /\ "credit" # "idle"
          BY <1>4, <3>2, <4>1 DEF Fetches
        <4> QED
          BY <3>1, <4>2, Zenon DEF Goal, CreditOf
      <3>3. CASE fetch[f].stage # "credit"
        <4>1. fetch'[f] = NoFetch
          BY <1>3, <1>14, <2>4, <3>3 DEF FollowerRestarts
        <4>2. CreditOf(f \in missed', replicas'[f].logEndOffset, Len(log'[f]), NoFetch)
          BY <1>3, <3>1, CreditOfIdle
        <4> QED
          BY <4>1, <4>2, Zenon DEF Goal
      <3> QED
        BY <3>2, <3>3
    <2> QED
      BY <2>3, <2>4
  <1>15. CASE UNCHANGED vars
    BY <1>5, <1>15 DEF vars, clusterVars, trackerVars, c, l
  <1> QED
    BY <1>6, <1>7, <1>8, <1>9, <1>10, <1>11, <1>12, <1>13, <1>14, <1>15
    DEF Next, Replicate, Goal

(* The leader credits a follower with no more than it holds or is being    *)
(* sent, unless an answer to it was lost or a restart cut its log.         *)
THEOREM CreditsAreHeld == Spec => []CreditIsHeld
  <1>1. Init => CreditInv
    BY ConstantFacts
    DEF Init, TrackerInit, NewISRTracker, NewReplicaState, NoFetch, CreditInv, LEO
  <1>2. CreditInv => CreditIsHeld
    BY DEF CreditInv, CreditIsHeld
  <1> QED
    BY <1>1, <1>2, ClusterInvInit, ClusterInvStep, CreditStep, PTL DEF Spec

-----------------------------------------------------------------------------
(* What a follower's log holds.                                            *)

(* s is what t holds from position k on, as far as s goes.                 *)
Segment(s, t, k) ==
    /\ k + Len(s) <= Len(t)
    /\ \A i \in 1..Len(s) : s[i] = t[k + i]

(* It stays so when t grows,                                               *)
LEMMA SegmentOfLonger ==
    ASSUME NEW s \in Seq(Nat), NEW t \in Seq(Nat), NEW k \in Nat, NEW x \in Nat,
           Segment(s, t, k)
    PROVE  Segment(s, Append(t, x), k)
  <1> DEFINE u == Append(t, x)
  <1>1. Len(u) = Len(t) + 1 /\ \A j \in 1..Len(t) : u[j] = t[j]
    BY AppendProperties
  <1>2. Len(s) \in Nat /\ Len(t) \in Nat
    OBVIOUS
  <1> HIDE DEF u
  <1>3. \A i \in 1..Len(s) : k + i \in 1..Len(t)
    BY <1>2 DEF Segment
  <1>4. Segment(s, u, k)
    BY <1>1, <1>2, <1>3 DEF Segment
  <1> QED
    BY <1>4 DEF u

(* when s is cut,                                                          *)
LEMMA SegmentCut ==
    ASSUME NEW s \in Seq(Nat), NEW t \in Seq(Nat), NEW n \in 0..Len(s),
           Segment(s, t, 0)
    PROVE  Segment(SubSeq(s, 1, n), t, 0)
  <1> DEFINE u == SubSeq(s, 1, n)
  <1>1. Len(s) \in Nat /\ Len(t) \in Nat /\ n \in Nat /\ n <= Len(s)
    OBVIOUS
  <1>2. Len(u) = n /\ \A i \in 1..n : u[i] = s[i]
    BY <1>1
  <1> HIDE DEF u
  <1>3. Segment(u, t, 0)
    BY <1>1, <1>2 DEF Segment
  <1> QED
    BY <1>3 DEF u

(* and when the part of t that comes next is added to s.                   *)
LEMMA SegmentConcat ==
    ASSUME NEW s \in Seq(Nat), NEW t \in Seq(Nat), NEW r \in Seq(Nat),
           Segment(s, t, 0), Segment(r, t, Len(s))
    PROVE  Segment(s \o r, t, 0)
  <1> DEFINE u == s \o r
  <1>1. /\ Len(u) = Len(s) + Len(r)
        /\ \A i \in 1..Len(u) : u[i] = IF i <= Len(s) THEN s[i] ELSE r[i - Len(s)]
    BY ConcatProperties
  <1>2. Len(s) \in Nat /\ Len(t) \in Nat /\ Len(r) \in Nat
    OBVIOUS
  <1> HIDE DEF u
  <1>3. ASSUME NEW i \in 1..Len(u)
        PROVE  u[i] = t[0 + i]
    <2>1. CASE i <= Len(s)
      BY <1>1, <1>2, <2>1 DEF Segment
    <2>2. CASE i > Len(s)
      <3>1. i - Len(s) \in 1..Len(r) /\ Len(s) + (i - Len(s)) = i /\ 0 + i = i
        BY <1>1, <1>2, <2>2
      <3>2. u[i] = r[i - Len(s)]
        BY <1>1, <1>2, <2>2
      <3>3. r[i - Len(s)] = t[Len(s) + (i - Len(s))]
        BY <3>1, Zenon DEF Segment
      <3> QED
        BY <3>1, <3>2, <3>3, Zenon
    <2> QED
      BY <1>1, <1>2, <2>1, <2>2
  <1>4. 0 + Len(u) <= Len(t)
    BY <1>1, <1>2 DEF Segment
  <1>5. Segment(u, t, 0)
    BY <1>3, <1>4, Zenon DEF Segment
  <1> QED
    BY <1>5 DEF u

(* A segment from the beginning is a prefix.                               *)
LEMMA SegmentIsPrefix ==
    ASSUME NEW s \in Seq(Nat), NEW t \in Seq(Nat), Segment(s, t, 0)
    PROVE  Len(s) <= Len(t) /\ s = SubSeq(t, 1, Len(s))
  <1>1. Len(s) \in Nat /\ Len(t) \in Nat /\ Len(s) <= Len(t)
    BY DEF Segment
  <1> DEFINE v == SubSeq(t, 1, Len(s))
  <1>2. v \in Seq(Nat) /\ Len(v) = Len(s) /\ \A i \in 1..Len(s) : v[i] = t[i]
    BY <1>1
  <1>3. \A i \in 1..Len(s) : s[i] = t[i]
    BY <1>1 DEF Segment
  <1> HIDE DEF v
  <1>4. s = v
    BY <1>2, <1>3, SeqEqual
  <1> QED
    BY <1>1, <1>4 DEF v

(* Why FollowerIsPrefix holds: an answer that will be taken holds what     *)
(* follows the follower's log at the leader.                               *)
Holds(lg, fe, t) ==
    /\ Segment(lg, t, 0)
    /\ fe.stage # "idle" /\ fe.lost = FALSE => Segment(fe.records, t, Len(lg))

PrefixInv ==
    /\ \A f \in Followers : fetch[f].stage = "answered" => fetch[f].lost = FALSE
    /\ ~lostTail => \A f \in Followers : Holds(log[f], fetch[f], log[LeaderID])

(* An answer is only taken from a handler that was not abandoned.          *)
LEMMA AnsweredStep ==
    ASSUME ClusterInv, PrefixInv, [Next]_vars, NEW f \in Followers
    PROVE  fetch'[f].stage = "answered" => fetch'[f].lost = FALSE
  <1>1. fetch \in [Followers -> Fetches] /\ fetch[f] \in Fetches
    BY DEF ClusterInv, Types
  <1>2. fetch[f].stage = "answered" => fetch[f].lost = FALSE
    BY DEF PrefixInv
  <1>3. NoFetch.lost = FALSE
    BY DEF NoFetch
  <1>4. CASE fetch'[f] = fetch[f] \/ fetch'[f] = NoFetch
    BY <1>2, <1>3, <1>4
  <1>5. ASSUME NEW g \in Followers, ServeFetch(g)
        PROVE  fetch'[f] = fetch[f] \/ fetch'[f].stage = "credit"
    BY <1>1, <1>5 DEF ServeFetch
  <1>6. ASSUME NEW g \in Followers, Credit(g)
        PROVE  fetch'[f] = fetch[f] \/ fetch'[f] = NoFetch \/ fetch'[f].lost = FALSE
    <2>1. CASE g # f
      BY <1>1, <1>6, <2>1 DEF Credit
    <2>2. CASE g = f /\ fetch[f].lost
      BY <1>1, <1>6, <2>2 DEF Credit
    <2>3. CASE g = f /\ ~fetch[f].lost
      <3>1. fetch'[f] = [fetch[f] EXCEPT !.stage = "answered", !.leo = 0,
                                         !.hw = highWatermark']
        BY <1>1, <1>6, <2>3 DEF Credit
      <3>2. fetch'[f].lost = fetch[f].lost
        BY <1>1, <3>1 DEF Fetches
      <3>3. fetch[f].lost \in BOOLEAN
        BY <1>1 DEF Fetches
      <3>4. fetch[f].lost = FALSE
        BY <2>3, <3>3, Zenon
      <3> QED
        BY <3>2, <3>4, Zenon
    <2> QED
      BY <2>1, <2>2, <2>3
  <1>7. ASSUME NEW g \in Followers, FollowerRestarts(g)
        PROVE  fetch'[f] = fetch[f] \/ fetch'[f] = NoFetch \/ fetch'[f].stage = "credit"
    BY <1>1, <1>7 DEF FollowerRestarts, Fetches
  <1>8. ASSUME NEW g \in Followers, Receive(g) \/ AnswerLost(g)
        PROVE  fetch'[f] = fetch[f] \/ fetch'[f] = NoFetch
    BY <1>1, <1>8 DEF Receive, AnswerLost
  <1>9. CASE Produce \/ Retention \/ LeaderRestarts \/ Clock \/ UNCHANGED vars
    <2>1. fetch'[f] = fetch[f] \/ fetch'[f] = NoFetch
      BY <1>9 DEF Produce, Retention, LeaderRestarts, Clock, vars, clusterVars
    <2> QED
      BY <1>4, <2>1
  <1>10. "credit" # "answered"
    OBVIOUS
  <1> QED
    BY <1>4, <1>5, <1>6, <1>7, <1>8, <1>9, <1>10 DEF Next, Replicate

(* A follower's own log, the answer to it and the leader's log change in   *)
(* step.                                                                   *)
LEMMA HoldsStep ==
    ASSUME ClusterInv, PrefixInv, [Next]_vars, NEW f \in Followers, ~lostTail'
    PROVE  Holds(log'[f], fetch'[f], log'[LeaderID])
  <1> DEFINE Goal == Holds(log'[f], fetch'[f], log'[LeaderID])
             t == log[LeaderID]
  <1> HIDE DEF Goal
  <1> SUFFICES Goal
    BY DEF Goal
  <1> USE ConstantFacts
  <1>1. /\ log \in [ReplicaIDs -> Seq(Nat)] /\ fetch \in [Followers -> Fetches]
        /\ log[f] \in Seq(Nat) /\ t \in Seq(Nat)
    BY DEF ClusterInv, Types
  <1>2. /\ fetch[f] \in Fetches /\ fetch[f].records \in Seq(Nat)
        /\ Len(log[f]) \in Nat /\ Len(t) \in Nat
    BY <1>1 DEF Fetches
  <1>3. ASSUME lostTail' = lostTail
        PROVE  Holds(log[f], fetch[f], t)
    BY <1>3, Zenon DEF PrefixInv
  <1> HIDE DEF t
  <1>4. ASSUME lostTail' = lostTail, log'[f] = log[f], log'[LeaderID] = t,
               fetch'[f] = fetch[f]
        PROVE  Goal
    BY <1>3, <1>4, Zenon DEF Goal
  <1>5. NoFetch.stage = "idle"
    BY DEF NoFetch
  <1>6. ASSUME lostTail' = lostTail, log'[f] = log[f], log'[LeaderID] = t,
               fetch'[f] = NoFetch
        PROVE  Goal
    BY <1>3, <1>5, <1>6, Zenon DEF Goal, Holds
  <1>7. CASE Produce
    <2> DEFINE x == produced'
    <2>1. x \in Nat
      BY <1>7 DEF Produce, ClusterInv, Types
    <2>2. /\ log'[f] = log[f] /\ log'[LeaderID] = Append(t, x)
          /\ fetch' = fetch /\ lostTail' = lostTail
      BY <1>1, <1>7 DEF Produce, t
    <2> HIDE DEF x
    <2>3. Holds(log[f], fetch[f], t)
      BY <1>3, <2>2
    <2>4. Segment(log[f], Append(t, x), 0)
      BY <1>1, <2>1, <2>3, SegmentOfLonger DEF Holds
    <2>5. fetch[f].stage # "idle" /\ fetch[f].lost = FALSE
            => Segment(fetch[f].records, Append(t, x), Len(log[f]))
      BY <1>1, <1>2, <2>1, <2>3, SegmentOfLonger DEF Holds
    <2> QED
      BY <2>2, <2>4, <2>5, Zenon DEF Goal, Holds
  <1>8. CASE Retention
    BY <1>4, <1>8 DEF Retention, t
  <1>9. CASE LeaderRestarts
    <2>1. PICK n \in start..LEO(LeaderID) :
            Reopen(LeaderID, n) /\ lostTail' = (lostTail \/ n < LEO(LeaderID))
      BY <1>9, Zenon DEF LeaderRestarts
    <2>2. ~lostTail /\ ~ (n < LEO(LeaderID))
      BY <2>1, Zenon
    <2>3. n = Len(t)
      BY <1>2, <2>1, <2>2 DEF LEO, t, ClusterInv, Types
    <2>4. SubSeq(t, 1, Len(t)) = t
      BY <1>1, <1>2
    <2>5. log'[LeaderID] = t /\ log'[f] = log[f]
      BY <1>1, <2>1, <2>3, <2>4 DEF Reopen, t
    <2>6. fetch'[f] = NoFetch
      BY <1>9 DEF LeaderRestarts
    <2>7. Holds(log[f], fetch[f], t)
      BY <2>2, Zenon DEF PrefixInv, t
    <2> QED
      BY <1>5, <2>5, <2>6, <2>7, Zenon DEF Goal, Holds
  <1>10. CASE Clock
    BY <1>4, <1>10 DEF Clock, clusterVars, t
  <1>11. ASSUME NEW g \in Followers, ServeFetch(g)
         PROVE  Goal
    <2>1. log' = log /\ lostTail' = lostTail
      BY <1>11 DEF ServeFetch
    <2>2. CASE g # f
      BY <1>1, <1>4, <1>11, <2>1, <2>2 DEF ServeFetch, t
    <2>3. CASE g = f
      <3> DEFINE k == Len(log[f])
                 R == Records(k)
      <3>1. Segment(log[f], t, 0)
        BY <1>3, <2>1 DEF Holds
      <3>2. k \in Nat /\ k <= LEO(LeaderID)
        BY <1>2, <3>1 DEF Segment, LEO, t
      <3>3. Segment(R, t, k)
        <4>1. /\ k + Len(R) <= LEO(LeaderID)
              /\ \A i \in 1..Len(R) : R[i] = log[LeaderID][k + i]
          BY <3>2, RecordsFacts DEF ClusterInv
        <4> QED
          BY <4>1, Zenon DEF Segment, LEO, t
      <3>4. fetch'[f].records = R
        BY <1>1, <1>11, <2>3 DEF ServeFetch, FetchOffset, LEO
      <3> QED
        BY <2>1, <3>1, <3>3, <3>4, Zenon DEF Goal, Holds, t
    <2> QED
      BY <2>2, <2>3
  <1>12. ASSUME NEW g \in Followers, Credit(g)
         PROVE  Goal
    <2>1. log' = log /\ lostTail' = lostTail
      BY <1>12 DEF Credit
    <2>2. CASE g # f
      BY <1>1, <1>4, <1>12, <2>1, <2>2 DEF Credit, t
    <2>3. CASE g = f /\ fetch[f].lost
      <3>1. fetch'[f] = NoFetch
        BY <1>1, <1>12, <2>3 DEF Credit
      <3> QED
        BY <1>6, <2>1, <3>1 DEF t
    <2>4. CASE g = f /\ ~fetch[f].lost
      <3>1. fetch'[f] = [fetch[f] EXCEPT !.stage = "answered", !.leo = 0,
                                         !.hw = highWatermark']
        BY <1>1, <1>12, <2>4 DEF Credit
      <3>2. fetch'[f].records = fetch[f].records /\ fetch'[f].lost = fetch[f].lost
        BY <1>2, <3>1 DEF Fetches
      <3>3. fetch[f].stage # "idle"
        BY <1>12, <2>4 DEF Credit
      <3>4. Holds(log[f], fetch[f], t)
        BY <1>3, <2>1
      <3> QED
        BY <2>1, <3>2, <3>3, <3>4, Zenon DEF Goal, Holds, t
    <2> QED
      BY <2>2, <2>3, <2>4
  <1>13. ASSUME NEW g \in Followers, Receive(g)
         PROVE  Goal
    <2>1. lostTail' = lostTail /\ log'[LeaderID] = t
      BY <1>1, <1>13 DEF Receive, t
    <2>2. CASE g # f
      BY <1>1, <1>4, <1>13, <2>1, <2>2 DEF Receive
    <2>3. CASE g = f
      <3>1. log'[f] = log[f] \o fetch[f].records /\ fetch'[f] = NoFetch
        BY <1>1, <1>13, <2>3 DEF Receive
      <3>2. fetch[f].stage # "idle" /\ fetch[f].lost = FALSE
        BY <1>13, <2>3 DEF Receive, PrefixInv
      <3>3. Segment(log[f], t, 0) /\ Segment(fetch[f].records, t, Len(log[f]))
        BY <1>3, <2>1, <3>2, Zenon DEF Holds
      <3>4. Segment(log[f] \o fetch[f].records, t, 0)
        BY <1>1, <1>2, <3>3, SegmentConcat
      <3> QED
        BY <1>5, <2>1, <3>1, <3>4, Zenon DEF Goal, Holds
    <2> QED
      BY <2>2, <2>3
  <1>14. ASSUME NEW g \in Followers, AnswerLost(g)
         PROVE  Goal
    <2>1. fetch'[f] = fetch[f] \/ fetch'[f] = NoFetch
      BY <1>1, <1>14 DEF AnswerLost
    <2>2. lostTail' = lostTail /\ log' = log
      BY <1>14 DEF AnswerLost
    <2> QED
      BY <1>4, <1>6, <2>1, <2>2 DEF t
  <1>15. ASSUME NEW g \in Followers, FollowerRestarts(g)
         PROVE  Goal
    <2>1. PICK n \in 0..LEO(g) : Reopen(g, n)
      BY <1>15 DEF FollowerRestarts
    <2>2. lostTail' = lostTail /\ log'[LeaderID] = t
      BY <1>1, <1>15, <2>1 DEF FollowerRestarts, Reopen, t
    <2>3. CASE g # f
      <3>1. log'[f] = log[f] /\ fetch'[f] = fetch[f]
        BY <1>1, <1>15, <2>1, <2>3 DEF FollowerRestarts, Reopen
      <3> QED
        BY <1>4, <2>2, <3>1
    <2>4. CASE g = f
      <3>1. log'[f] = SubSeq(log[f], 1, n)
        BY <1>1, <2>1, <2>4 DEF Reopen
      <3>2. Segment(log[f], t, 0)
        BY <1>3, <2>2 DEF Holds
      <3>3. Segment(SubSeq(log[f], 1, n), t, 0)
        BY <1>1, <2>1, <2>4, <3>2, SegmentCut DEF LEO
      <3>4. fetch'[f].stage = "idle" \/ fetch'[f].lost = TRUE
        <4>1. CASE fetch[f].stage = "credit"
          <5>1. fetch'[f] = [fetch[f] EXCEPT !.lost = TRUE]
            BY <1>1, <1>15, <2>4, <4>1 DEF FollowerRestarts
          <5> QED
            BY <1>2, <5>1 DEF Fetches
        <4>2. CASE fetch[f].stage # "credit"
          BY <1>1, <1>5, <1>15, <2>4, <4>2 DEF FollowerRestarts
        <4> QED
          BY <4>1, <4>2
      <3> QED
        BY <2>2, <3>1, <3>3, <3>4, Zenon DEF Goal, Holds
    <2> QED
      BY <2>3, <2>4
  <1>16. CASE UNCHANGED vars
    BY <1>4, <1>16 DEF vars, clusterVars, t
  <1> QED
    BY <1>7, <1>8, <1>9, <1>10, <1>11, <1>12, <1>13, <1>14, <1>15, <1>16
    DEF Next, Replicate

(* As long as the leader has lost no records, every follower's log is a    *)
(* prefix of its log, whatever answers are lost and whoever restarts.      *)
THEOREM FollowersHoldPrefixes == Spec => []FollowerIsPrefix
  <1>1. Init => PrefixInv
    <2> SUFFICES ASSUME Init, NEW f \in Followers
                 PROVE  /\ fetch[f].lost = FALSE
                        /\ Holds(log[f], fetch[f], log[LeaderID])
      BY Zenon DEF PrefixInv
    <2>1. log[f] = <<>> /\ log[LeaderID] = <<>> /\ fetch[f] = NoFetch
      BY ConstantFacts DEF Init
    <2>2. NoFetch.stage = "idle" /\ NoFetch.lost = FALSE
      BY DEF NoFetch
    <2>3. Segment(<<>>, <<>>, 0)
      BY DEF Segment
    <2> QED
      BY <2>1, <2>2, <2>3, Zenon DEF Holds
  <1>2. ClusterInv /\ PrefixInv /\ [Next]_vars => PrefixInv'
    BY AnsweredStep, HoldsStep, Zenon DEF PrefixInv
  <1>3. ClusterInv /\ PrefixInv => FollowerIsPrefix
    <2> SUFFICES ASSUME ClusterInv, PrefixInv, ~lostTail, NEW f \in Followers
                 PROVE  /\ Len(log[f]) <= Len(log[LeaderID])
                        /\ log[f] = SubSeq(log[LeaderID], 1, Len(log[f]))
      BY DEF FollowerIsPrefix, LEO
    <2>1. log[f] \in Seq(Nat) /\ log[LeaderID] \in Seq(Nat)
      BY ConstantFacts DEF ClusterInv, Types
    <2>2. Segment(log[f], log[LeaderID], 0)
      BY Zenon DEF PrefixInv, Holds
    <2> QED
      BY <2>1, <2>2, SegmentIsPrefix
  <1> QED
    BY <1>1, <1>2, <1>3, ClusterInvInit, ClusterInvStep, PTL DEF Spec

=============================================================================
