-------------------------- MODULE ISRTrackerProofs --------------------------
(***************************************************************************)
(* Proofs about the in-sync replica tracker, for every replica set, every  *)
(* lag limit and offsets and times without bound.                          *)
(***************************************************************************)
EXTENDS ISRTracker, WellFoundedInduction, TLAPS

-----------------------------------------------------------------------------
(* The minimum that calculateHWLocked computes exists: a non-empty set of  *)
(* offsets has a least element.                                            *)
LEMMA MinOfNats ==
    ASSUME NEW S, S \subseteq Nat, S # {}
    PROVE  Min(S) \in S /\ \A x \in S : Min(S) <= x
  <1> DEFINE R == {ss \in Nat \X Nat : ss[1] < ss[2]}
  <1>1. OpToRel(<, Nat) = R
    BY Zenon DEF OpToRel
  <1>2. IsWellFoundedOn(R, Nat)
    BY <1>1, NatLessThanWellFounded, Zenon
  <1>3. \A x, y \in Nat : x < y => <<x, y>> \in R
    <2> SUFFICES ASSUME NEW x \in Nat, NEW y \in Nat, x < y
                 PROVE  <<x, y>> \in R
      OBVIOUS
    <2>1. <<x, y>>[1] < <<x, y>>[2]
      OBVIOUS
    <2>2. <<x, y>> \in Nat \X Nat
      OBVIOUS
    <2> QED
      BY <2>1, <2>2, Zenon
  <1> HIDE DEF R
  <1>4. PICK x \in S : \A y \in S : ~ (<<y, x>> \in R)
    BY WFMin, <1>2
  <1>5. \A y \in S : ~ (y < x)
    <2> TAKE y \in S
    <2>1. x \in Nat /\ y \in Nat
      OBVIOUS
    <2> QED
      BY <1>3, <1>4, <2>1, Zenon
  <1>6. \A y \in S : x <= y
    BY <1>5
  <1> QED
    BY <1>6 DEF Min

-----------------------------------------------------------------------------
(* What the stages of UpdateLEO do to the replica map.                     *)

(* Recording a report keeps every entry but the reporter's, and moves the  *)
(* reporter's offset forward only.                                         *)
LEMMA ReportedFacts ==
    ASSUME TrackerTypeOK, NEW b \in Brokers, NEW leo \in Nat
    PROVE  /\ Reported(b, leo) \in [DOMAIN replicas \cup {b} -> ReplicaState]
           /\ \A r \in DOMAIN replicas :
                /\ r # b => Reported(b, leo)[r] = replicas[r]
                /\ Reported(b, leo)[r].logEndOffset >= replicas[r].logEndOffset
                /\ \/ Reported(b, leo)[r].logEndOffset = replicas[r].logEndOffset
                   \/ r = b /\ Reported(b, leo)[r].logEndOffset = leo
                /\ Reported(b, leo)[r].lastCaughtUpTime
                     = replicas[r].lastCaughtUpTime
  BY DEF TrackerTypeOK, Reported, ReportedState, NewReplicaState, ReplicaState

(* The caught-up credit changes one time stamp, and only of a reporter     *)
(* whose offset has reached the leader's.                                  *)
LEMMA CreditedFacts ==
    ASSUME now \in Nat, NEW D, NEW reps \in [D -> ReplicaState],
           LeaderID \in D, NEW b \in D, NEW leaderLEO \in Nat
    PROVE  /\ Credited(reps, b, leaderLEO) \in [D -> ReplicaState]
           /\ \A r \in D :
                /\ Credited(reps, b, leaderLEO)[r].logEndOffset
                     = reps[r].logEndOffset
                /\ \/ Credited(reps, b, leaderLEO)[r].lastCaughtUpTime
                        = reps[r].lastCaughtUpTime
                   \/ reps[r].logEndOffset >= reps[LeaderID].logEndOffset
  BY DEF Credited, EffectiveLeaderLEO, ReplicaState

(* The flag is recomputed for every replica; nothing else changes.         *)
LEMMA UpdateISRFacts ==
    ASSUME now \in Nat, NEW D, NEW reps \in [D -> ReplicaState]
    PROVE  /\ updateISRLocked(reps) \in [D -> ReplicaState]
           /\ \A r \in D :
                /\ updateISRLocked(reps)[r].logEndOffset = reps[r].logEndOffset
                /\ updateISRLocked(reps)[r].lastCaughtUpTime
                     = reps[r].lastCaughtUpTime
                /\ updateISRLocked(reps)[r].inSync
                     <=> \/ r = LeaderID
                         \/ ~ (now - reps[r].lastCaughtUpTime > MaxLag)
  BY BoundsAssumption DEF updateISRLocked, ReplicaState

(* calculateHWLocked never lowers the high watermark, and a raised one is  *)
(* at most the offset of every in-sync replica.                            *)
LEMMA CalculateHWFacts ==
    ASSUME highWatermark \in Nat, NEW D, NEW reps \in [D -> ReplicaState]
    PROVE  /\ calculateHWLocked(reps) \in Nat
           /\ calculateHWLocked(reps) >= highWatermark
           /\ \A r \in D : reps[r].inSync =>
                \/ calculateHWLocked(reps) = highWatermark
                \/ calculateHWLocked(reps) <= reps[r].logEndOffset
  <1> DEFINE S == InSyncLEOs(reps)
  <1>1. S \subseteq Nat
    BY DEF InSyncLEOs, ReplicaState
  <1>2. \A r \in D : reps[r].inSync => reps[r].logEndOffset \in S
    BY DEF InSyncLEOs, ReplicaState
  <1> HIDE DEF S
  <1>3. CASE S = {}
    BY <1>2, <1>3 DEF calculateHWLocked, S
  <1>4. CASE S # {}
    <2>1. Min(S) \in S /\ \A x \in S : Min(S) <= x
      BY <1>1, <1>4, MinOfNats
    <2>2. calculateHWLocked(reps)
            = IF Min(S) > highWatermark THEN Min(S) ELSE highWatermark
      BY <1>4 DEF calculateHWLocked, S
    <2> DEFINE c == calculateHWLocked(reps)
    <2> HIDE DEF c
    <2>3. Min(S) \in Nat
      BY <1>1, <2>1
    <2>4. /\ c \in Nat
          /\ c >= highWatermark
          /\ c = highWatermark \/ c = Min(S)
      BY <2>2, <2>3 DEF c
    <2>5. ASSUME NEW r \in D, reps[r].inSync, c = Min(S)
          PROVE  c <= reps[r].logEndOffset
      <3>1. reps[r].logEndOffset \in S
        BY <1>2, <2>5
      <3> QED
        BY <2>1, <2>5, <3>1
    <2> QED
      BY <2>4, <2>5 DEF c
  <1> QED
    BY <1>3, <1>4

-----------------------------------------------------------------------------
(* One call of UpdateLEO, from the caller's point of view.                 *)
LEMMA UpdateLEOFacts ==
    ASSUME TrackerTypeOK, NEW b \in Brokers, NEW leo \in Nat,
           NEW leaderLEO \in Nat, UpdateLEO(b, leo, leaderLEO)
    PROVE  /\ replicas' \in [DOMAIN replicas \cup {b} -> ReplicaState]
           /\ now' = now
           /\ highWatermark' \in Nat
           /\ highWatermark' >= highWatermark
           /\ \A r \in DOMAIN replicas :
                /\ replicas'[r].logEndOffset >= replicas[r].logEndOffset
                /\ \/ replicas'[r].logEndOffset = replicas[r].logEndOffset
                   \/ r = b /\ replicas'[r].logEndOffset = leo
                /\ \/ replicas'[r].lastCaughtUpTime = replicas[r].lastCaughtUpTime
                   \/ replicas'[r].logEndOffset >= replicas'[LeaderID].logEndOffset
           /\ \A r \in DOMAIN replicas \cup {b} :
                /\ replicas'[r].inSync
                     <=> \/ r = LeaderID
                         \/ ~ (now - replicas'[r].lastCaughtUpTime > MaxLag)
                /\ replicas'[r].inSync =>
                     \/ highWatermark' = highWatermark
                     \/ highWatermark' <= replicas'[r].logEndOffset
  <1> DEFINE D == DOMAIN replicas \cup {b}
             R1 == Reported(b, leo)
             R2 == Credited(R1, b, leaderLEO)
             R3 == updateISRLocked(R2)
  <1>1. now \in Nat /\ highWatermark \in Nat /\ LeaderID \in DOMAIN replicas
    BY BrokersAssumption DEF TrackerTypeOK
  <1>2. /\ R1 \in [D -> ReplicaState]
        /\ \A r \in DOMAIN replicas :
             /\ R1[r].logEndOffset >= replicas[r].logEndOffset
             /\ \/ R1[r].logEndOffset = replicas[r].logEndOffset
                \/ r = b /\ R1[r].logEndOffset = leo
             /\ R1[r].lastCaughtUpTime = replicas[r].lastCaughtUpTime
    BY ReportedFacts
  <1>3. replicas' = R3 /\ highWatermark' = calculateHWLocked(R3) /\ now' = now
    BY DEF UpdateLEO, Updated
  <1> HIDE DEF R1
  <1>4. LeaderID \in D /\ b \in D
    BY <1>1
  <1> HIDE DEF D
  <1>5. /\ R2 \in [D -> ReplicaState]
        /\ \A r \in D :
             /\ R2[r].logEndOffset = R1[r].logEndOffset
             /\ \/ R2[r].lastCaughtUpTime = R1[r].lastCaughtUpTime
                \/ R1[r].logEndOffset >= R1[LeaderID].logEndOffset
    BY <1>1, <1>2, <1>4, CreditedFacts
  <1> HIDE DEF R2
  <1>6. /\ R3 \in [D -> ReplicaState]
        /\ \A r \in D :
             /\ R3[r].logEndOffset = R2[r].logEndOffset
             /\ R3[r].lastCaughtUpTime = R2[r].lastCaughtUpTime
             /\ R3[r].inSync <=> \/ r = LeaderID
                                \/ ~ (now - R2[r].lastCaughtUpTime > MaxLag)
    BY <1>1, <1>5, UpdateISRFacts
  <1> HIDE DEF R3
  <1>7. /\ calculateHWLocked(R3) \in Nat
        /\ calculateHWLocked(R3) >= highWatermark
        /\ \A r \in D : R3[r].inSync =>
             \/ calculateHWLocked(R3) = highWatermark
             \/ calculateHWLocked(R3) <= R3[r].logEndOffset
    BY <1>1, <1>6, CalculateHWFacts
  <1> USE DEF D
  <1>8. \A r \in DOMAIN replicas :
          /\ R3[r].logEndOffset >= replicas[r].logEndOffset
          /\ \/ R3[r].logEndOffset = replicas[r].logEndOffset
             \/ r = b /\ R3[r].logEndOffset = leo
          /\ \/ R3[r].lastCaughtUpTime = replicas[r].lastCaughtUpTime
             \/ R3[r].logEndOffset >= R3[LeaderID].logEndOffset
    BY <1>2, <1>5, <1>6, <1>4
  <1> QED
    BY <1>3, <1>6, <1>7, <1>8

-----------------------------------------------------------------------------
(* A replica outside the in-sync set has been silent for longer than the   *)
(* lag limit.  The clock only moves that further away, so the flag cannot  *)
(* come back without a new caught-up credit.                               *)
EvictedIsLagging ==
    \A r \in DOMAIN replicas :
        ~ replicas[r].inSync => now - replicas[r].lastCaughtUpTime > MaxLag

(* The inductive invariant.  InSyncReplicasReachHW alone is not inductive: *)
(* a replica that re-enters the in-sync set could be short of the high     *)
(* watermark unless it had to reach the leader's offset first, and that    *)
(* offset had to be at or above the high watermark already.                *)
TrackerInv ==
    /\ TrackerTypeOK
    /\ EvictedIsLagging
    /\ HWWithinLeaderLEO
    /\ Brokers = ReplicaIDs => InSyncReplicasReachHW

(* A fresh tracker: every replica in sync at offset zero.                  *)
LEMMA TrackerInvInit == TrackerInit => TrackerInv
  BY BrokersAssumption
  DEF TrackerInit, NewISRTracker, NewReplicaState, TrackerInv, TrackerTypeOK,
      ReplicaState, EvictedIsLagging, HWWithinLeaderLEO, InSyncReplicasReachHW,
      GetISR

(* One report, of any offset for any broker, preserves the invariant.      *)
LEMMA UpdateLEOPreservesInv ==
    ASSUME TrackerInv, NEW b \in Brokers, NEW leo \in Nat,
           NEW leaderLEO \in Nat, UpdateLEO(b, leo, leaderLEO)
    PROVE  TrackerInv'
  <1> USE DEF ReplicaState
  <1>1. TrackerTypeOK /\ LeaderID \in DOMAIN replicas
    BY BrokersAssumption DEF TrackerInv, TrackerTypeOK
  <1>2. /\ replicas' \in [DOMAIN replicas \cup {b} -> ReplicaState]
        /\ now' = now
        /\ highWatermark' \in Nat
        /\ highWatermark' >= highWatermark
    BY <1>1, UpdateLEOFacts
  <1>3. \A r \in DOMAIN replicas :
          /\ replicas'[r].logEndOffset >= replicas[r].logEndOffset
          /\ \/ replicas'[r].lastCaughtUpTime = replicas[r].lastCaughtUpTime
             \/ replicas'[r].logEndOffset >= replicas'[LeaderID].logEndOffset
    BY <1>1, UpdateLEOFacts
  <1>4. \A r \in DOMAIN replicas \cup {b} :
          /\ replicas'[r].inSync
               <=> \/ r = LeaderID
                   \/ ~ (now - replicas'[r].lastCaughtUpTime > MaxLag)
          /\ replicas'[r].inSync =>
               \/ highWatermark' = highWatermark
               \/ highWatermark' <= replicas'[r].logEndOffset
    BY <1>1, UpdateLEOFacts
  <1>5. TrackerTypeOK'
    BY <1>1, <1>2 DEF TrackerTypeOK
  <1>6. EvictedIsLagging'
    BY <1>2, <1>4 DEF EvictedIsLagging
  <1>7. HWWithinLeaderLEO'
    <2>1. replicas'[LeaderID].inSync
      BY <1>1, <1>4
    <2>2. /\ highWatermark <= replicas[LeaderID].logEndOffset
          /\ highWatermark \in Nat
          /\ replicas[LeaderID].logEndOffset \in Nat
          /\ replicas'[LeaderID].logEndOffset \in Nat
      BY <1>1, <1>2 DEF TrackerInv, TrackerTypeOK, HWWithinLeaderLEO
    <2> QED
      BY <1>1, <1>3, <1>4, <2>1, <2>2 DEF HWWithinLeaderLEO
  <1>8. ASSUME Brokers = ReplicaIDs
        PROVE  InSyncReplicasReachHW'
    <2> SUFFICES ASSUME NEW r \in DOMAIN replicas', replicas'[r].inSync,
                        highWatermark' = highWatermark, r # LeaderID
                 PROVE  replicas'[r].logEndOffset >= highWatermark
      BY <1>2, <1>4, <1>7 DEF InSyncReplicasReachHW, GetISR, HWWithinLeaderLEO
    <2>1. r \in DOMAIN replicas
      BY <1>1, <1>2, <1>8 DEF TrackerTypeOK
    <2>2. /\ highWatermark \in Nat /\ now \in Nat
          /\ replicas[r] \in ReplicaState
          /\ replicas'[r] \in ReplicaState
          /\ replicas'[LeaderID] \in ReplicaState
      BY <1>1, <1>2, <2>1 DEF TrackerTypeOK
    <2>3. CASE replicas'[r].lastCaughtUpTime = replicas[r].lastCaughtUpTime
      <3>1. replicas[r].inSync
        BY <1>4, <2>1, <2>3 DEF TrackerInv, EvictedIsLagging
      <3>2. replicas[r].logEndOffset >= highWatermark
        BY <1>8, <2>1, <3>1 DEF TrackerInv, InSyncReplicasReachHW, GetISR
      <3> QED
        BY <1>3, <2>1, <2>2, <3>2
    <2>4. CASE replicas'[r].logEndOffset >= replicas'[LeaderID].logEndOffset
      BY <1>7, <2>2, <2>4 DEF HWWithinLeaderLEO
    <2> QED
      BY <1>3, <2>1, <2>3, <2>4
  <1> QED
    BY <1>5, <1>6, <1>7, <1>8 DEF TrackerInv

(* So does every step of the tracker.                                      *)
LEMMA TrackerInvStep == TrackerInv /\ [TrackerNext]_trackerVars => TrackerInv'
  <1> SUFFICES ASSUME TrackerInv, [TrackerNext]_trackerVars
               PROVE  TrackerInv'
    OBVIOUS
  <1>1. ASSUME NEW b \in Brokers, NEW leo \in 0..MaxLEO,
               NEW leaderLEO \in 0..MaxLEO, UpdateLEO(b, leo, leaderLEO)
        PROVE  TrackerInv'
    <2>1. leo \in Nat /\ leaderLEO \in Nat
      BY BoundsAssumption
    <2> QED
      BY <1>1, <2>1, UpdateLEOPreservesInv
  <1>2. CASE Tick
    BY <1>2, BoundsAssumption
    DEF Tick, TrackerInv, TrackerTypeOK, ReplicaState, EvictedIsLagging,
        HWWithinLeaderLEO, InSyncReplicasReachHW, GetISR
  <1>3. CASE UNCHANGED trackerVars
    BY <1>3
    DEF trackerVars, TrackerInv, TrackerTypeOK, EvictedIsLagging,
        HWWithinLeaderLEO, InSyncReplicasReachHW, GetISR
  <1> QED
    BY <1>1, <1>2, <1>3 DEF TrackerNext

-----------------------------------------------------------------------------
(* Theorems.                                                               *)

(* The inductive invariant holds in every reachable state of the tracker.  *)
THEOREM TrackerInvariant == TrackerSpec => []TrackerInv
  BY TrackerInvInit, TrackerInvStep, PTL DEF TrackerSpec

(* The tracker's state stays well typed, whatever its callers report.      *)
THEOREM TrackerTypeCorrect == TrackerSpec => []TrackerTypeOK
  BY TrackerInvariant, PTL DEF TrackerInv

(* UpdateLEO never lifts the high watermark over the leader's own offset,  *)
(* whoever reports.                                                        *)
THEOREM HWStaysWithinLeaderLEO == TrackerSpec => []HWWithinLeaderLEO
  BY TrackerInvariant, PTL DEF TrackerInv

(* When only configured replicas report, every replica in the in-sync set  *)
(* has reached the high watermark.                                         *)
THEOREM ISRReachesHW ==
    ASSUME Brokers = ReplicaIDs
    PROVE  TrackerSpec => []InSyncReplicasReachHW
  <1>1. TrackerInv => InSyncReplicasReachHW
    BY DEF TrackerInv
  <1> QED
    BY <1>1, TrackerInvariant, PTL

(* Stale reports never move the high watermark or a replica's recorded     *)
(* offset back.                                                            *)
THEOREM OffsetsAreMonotonic == TrackerSpec => OffsetsNeverRegress
  <1> DEFINE A == /\ highWatermark' >= highWatermark
                  /\ \A r \in DOMAIN replicas :
                       /\ r \in DOMAIN replicas'
                       /\ replicas'[r].logEndOffset >= replicas[r].logEndOffset
  <1>1. TrackerTypeOK /\ [TrackerNext]_trackerVars => [A]_trackerVars
    <2> SUFFICES ASSUME TrackerTypeOK, TrackerNext
                 PROVE  A
      OBVIOUS
    <2>1. ASSUME NEW b \in Brokers, NEW leo \in 0..MaxLEO,
                 NEW leaderLEO \in 0..MaxLEO, UpdateLEO(b, leo, leaderLEO)
          PROVE  A
      <3>1. leo \in Nat /\ leaderLEO \in Nat
        BY BoundsAssumption
      <3>2. /\ replicas' \in [DOMAIN replicas \cup {b} -> ReplicaState]
            /\ highWatermark' >= highWatermark
            /\ \A r \in DOMAIN replicas :
                 replicas'[r].logEndOffset >= replicas[r].logEndOffset
        BY <2>1, <3>1, UpdateLEOFacts
      <3> QED
        BY <3>2
    <2>2. CASE Tick
      BY <2>2 DEF Tick, TrackerTypeOK, ReplicaState
    <2> QED
      BY <2>1, <2>2 DEF TrackerNext
  <1> QED
    BY <1>1, TrackerTypeCorrect, PTL DEF TrackerSpec, OffsetsNeverRegress

(* An evicted replica is re-admitted only after it has reached the         *)
(* leader's recorded offset.                                               *)
THEOREM ReadmissionIsEarned == TrackerSpec => ReadmittedOnlyWhenCaughtUp
  <1> DEFINE A == \A r \in DOMAIN replicas :
                    ~ replicas[r].inSync /\ replicas'[r].inSync
                      => replicas'[r].logEndOffset
                           >= replicas'[LeaderID].logEndOffset
  <1>1. TrackerInv /\ [TrackerNext]_trackerVars => [A]_trackerVars
    <2> SUFFICES ASSUME TrackerInv, TrackerNext
                 PROVE  A
      OBVIOUS
    <2>1. ASSUME NEW b \in Brokers, NEW leo \in 0..MaxLEO,
                 NEW leaderLEO \in 0..MaxLEO, UpdateLEO(b, leo, leaderLEO)
          PROVE  A
      <3> SUFFICES ASSUME NEW r \in DOMAIN replicas, ~ replicas[r].inSync,
                          replicas'[r].inSync
                   PROVE  replicas'[r].logEndOffset
                            >= replicas'[LeaderID].logEndOffset
        OBVIOUS
      <3>1. leo \in Nat /\ leaderLEO \in Nat /\ TrackerTypeOK
        BY BoundsAssumption DEF TrackerInv
      <3>2. /\ replicas' \in [DOMAIN replicas \cup {b} -> ReplicaState]
            /\ \/ replicas'[r].lastCaughtUpTime = replicas[r].lastCaughtUpTime
               \/ replicas'[r].logEndOffset >= replicas'[LeaderID].logEndOffset
            /\ \/ r = LeaderID
               \/ ~ (now - replicas'[r].lastCaughtUpTime > MaxLag)
        BY <2>1, <3>1, UpdateLEOFacts
      <3>3. now - replicas[r].lastCaughtUpTime > MaxLag
        BY DEF TrackerInv, EvictedIsLagging
      <3>4. replicas'[LeaderID].logEndOffset \in Nat
        BY <3>1, <3>2, BrokersAssumption DEF TrackerTypeOK, ReplicaState
      <3> QED
        BY <3>2, <3>3, <3>4
    <2>2. CASE Tick
      BY <2>2 DEF Tick
    <2> QED
      BY <2>1, <2>2 DEF TrackerNext
  <1> QED
    BY <1>1, TrackerInvariant, PTL DEF TrackerSpec, ReadmittedOnlyWhenCaughtUp

=============================================================================
