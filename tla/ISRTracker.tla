----------------------------- MODULE ISRTracker -----------------------------
(***************************************************************************)
(* The in-sync replica tracker of one partition, as the partition leader   *)
(* keeps it (internal/replication/isr.go).  Every method of the Go type    *)
(* runs under the tracker's mutex, so one call is one action.  The callers *)
(* are the environment: they may report any log end offset for any         *)
(* replica, in any order, because concurrent handlers read the log end     *)
(* offset before they take the mutex.                                      *)
(*                                                                         *)
(* Time is a counter.  The tracker reads the clock inside UpdateLEO and    *)
(* nowhere else: no timer re-evaluates the in-sync set between calls.      *)
(***************************************************************************)
EXTENDS Integers, FiniteSetsExt

CONSTANTS
    Brokers,     \* every broker that may report a log end offset
    ReplicaIDs,  \* the statically configured replica set
    LeaderID,    \* the leader the tracker was created for
    MaxLag,      \* replicaLagTimeMaxMs
    MaxLEO,      \* bound: largest log end offset ever reported
    MaxTime      \* bound: largest clock reading

ASSUME BrokersAssumption ==
    /\ ReplicaIDs \subseteq Brokers
    /\ LeaderID \in ReplicaIDs

ASSUME BoundsAssumption ==
    /\ MaxLag \in Nat
    /\ MaxLEO \in Nat
    /\ MaxTime \in Nat

VARIABLES
    replicas,       \* the map from broker to ReplicaState
    highWatermark,  \* the tracker's high watermark
    now             \* the clock

trackerVars == <<replicas, highWatermark, now>>

ReplicaState == [logEndOffset : Nat, lastCaughtUpTime : Nat, inSync : BOOLEAN]

TrackerTypeOK ==
    /\ DOMAIN replicas \in SUBSET Brokers
    /\ ReplicaIDs \subseteq DOMAIN replicas
    /\ replicas \in [DOMAIN replicas -> ReplicaState]
    /\ highWatermark \in Nat
    /\ now \in Nat

-----------------------------------------------------------------------------
(* NewISRTracker.  The checkpoint file it looks for is never written by    *)
(* the broker, so the high watermark starts at zero.                       *)
NewReplicaState(leo) ==
    [logEndOffset |-> leo, lastCaughtUpTime |-> now, inSync |-> TRUE]

NewISRTracker ==
    /\ replicas = [r \in ReplicaIDs |-> NewReplicaState(0)]
    /\ highWatermark = 0

TrackerInit ==
    /\ now = 0
    /\ NewISRTracker

-----------------------------------------------------------------------------
(* The actions and helpers.  A definition whose name starts with Faulty is *)
(* the one that follows it with a defect that the code guards against; it  *)
(* is used by no specification, only to see that a property notices.       *)

(* The reporting replica's entry: created if unknown, otherwise only ever  *)
(* moved forward.                                                          *)
ReportedState(b, leo) ==
    IF b \notin DOMAIN replicas THEN NewReplicaState(leo)
    ELSE IF leo > replicas[b].logEndOffset
         THEN [replicas[b] EXCEPT !.logEndOffset = leo]
         ELSE replicas[b]

Reported(b, leo) ==
    [r \in DOMAIN replicas \cup {b} |->
        IF r = b THEN ReportedState(b, leo) ELSE replicas[r]]

FaultyTrustsCaller(reps, leaderLEO) == leaderLEO

EffectiveLeaderLEO(reps, leaderLEO) ==
    IF LeaderID \in DOMAIN reps /\ reps[LeaderID].logEndOffset > leaderLEO
    THEN reps[LeaderID].logEndOffset
    ELSE leaderLEO

FaultyCreditedAtHW(reps, b, leaderLEO) ==
    IF reps[b].logEndOffset >= highWatermark
    THEN [reps EXCEPT ![b].lastCaughtUpTime = now]
    ELSE reps

(* The caught-up credit of the reporting replica.                          *)
Credited(reps, b, leaderLEO) ==
    IF reps[b].logEndOffset >= EffectiveLeaderLEO(reps, leaderLEO)
    THEN [reps EXCEPT ![b].lastCaughtUpTime = now]
    ELSE reps

updateISRLocked(reps) ==
    [r \in DOMAIN reps |->
        [reps[r] EXCEPT !.inSync =
            \/ r = LeaderID
            \/ ~ (now - reps[r].lastCaughtUpTime > MaxLag)]]

(* The offsets of the replicas flagged in sync; the high watermark is      *)
(* raised to their minimum and never lowered.                              *)
InSyncLEOs(reps) ==
    {reps[r].logEndOffset : r \in {x \in DOMAIN reps : reps[x].inSync}}

calculateHWLocked(reps) ==
    LET minLEO == IF InSyncLEOs(reps) = {} THEN -1 ELSE Min(InSyncLEOs(reps))
    IN  IF minLEO > highWatermark THEN minLEO ELSE highWatermark

(* The replica map that one call of UpdateLEO leaves behind.               *)
Updated(b, leo, leaderLEO) ==
    updateISRLocked(Credited(Reported(b, leo), b, leaderLEO))

UpdateLEO(b, leo, leaderLEO) ==
    /\ replicas' = Updated(b, leo, leaderLEO)
    /\ highWatermark' = calculateHWLocked(Updated(b, leo, leaderLEO))
    /\ UNCHANGED now

GetISR == {r \in DOMAIN replicas : replicas[r].inSync}

Tick ==
    /\ now < MaxTime
    /\ now' = now + 1
    /\ UNCHANGED <<replicas, highWatermark>>

TrackerNext ==
    \/ \E b \in Brokers, leo \in 0..MaxLEO, leaderLEO \in 0..MaxLEO :
            UpdateLEO(b, leo, leaderLEO)
    \/ Tick

TrackerSpec == TrackerInit /\ [][TrackerNext]_trackerVars

-----------------------------------------------------------------------------
(* Properties.                                                             *)

(* The high watermark never passes the log end offset that the leader has  *)
(* recorded for any replica it reports as in sync.  calculateHWLocked only *)
(* takes the minimum when it raises the high watermark, and UpdateLEO      *)
(* re-admits replicas without looking at it, so this has to survive        *)
(* evictions, re-admissions and stale reports.                             *)
InSyncReplicasReachHW ==
    \A r \in GetISR : replicas[r].logEndOffset >= highWatermark

(* The high watermark never passes the leader's recorded log end offset,   *)
(* even when a broker outside the configured replica set reports.          *)
HWWithinLeaderLEO ==
    highWatermark <= replicas[LeaderID].logEndOffset

(* Neither the high watermark nor any recorded log end offset ever moves   *)
(* back, whatever stale offset a slow handler passes to UpdateLEO.         *)
OffsetsNeverRegress ==
    [][/\ highWatermark' >= highWatermark
       /\ \A r \in DOMAIN replicas :
            /\ r \in DOMAIN replicas'
            /\ replicas'[r].logEndOffset >= replicas[r].logEndOffset
      ]_trackerVars

(* A replica that updateISRLocked has dropped from the in-sync set comes   *)
(* back only in a step that leaves its recorded log end offset at or above *)
(* the leader's.                                                           *)
ReadmittedOnlyWhenCaughtUp ==
    [][\A r \in DOMAIN replicas :
          ~ replicas[r].inSync /\ replicas'[r].inSync
             => replicas'[r].logEndOffset >= replicas'[LeaderID].logEndOffset
      ]_trackerVars

=============================================================================
