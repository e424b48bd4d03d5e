--------------------------- MODULE ReplicaCluster ---------------------------
(***************************************************************************)
(* The copies of one partition on a leader and its followers               *)
(* (internal/broker/broker_replication.go followerFetchOnce, broker.go     *)
(* handleReplicaFetch), through crashes and restarts of any broker.        *)
(*                                                                         *)
(* AcksAll interleaves the handlers of one leader step by step; here they  *)
(* are coarser and the logs have contents.  A crash leaves some prefix of  *)
(* a log: only sealed segments are sure to be on disk, and syncing the     *)
(* active one would only leave fewer outcomes.  A follower gives the       *)
(* records it receives offsets of its own.  Leadership is static: nothing  *)
(* in the broker calls PromoteLeader.                                      *)
(*                                                                         *)
(* A definition whose name starts with Faulty is the one that follows it   *)
(* with a defect; no specification uses it.                                *)
(***************************************************************************)
EXTENDS ISRTracker, Sequences

CONSTANTS
    MaxFetch,       \* records that fit into an answer to a follower
    MaxFaults       \* bound: crashes, lost answers and retention, together

(* A read returns at least one record, whatever its budget.                *)
ASSUME ClusterAssumption == MaxFetch \in Nat \ {0} /\ MaxFaults \in Nat

Followers == ReplicaIDs \ {LeaderID}

VARIABLES
    log,            \* the records of each broker's copy
    start,          \* lowest offset of the leader's copy
    hw,             \* Partition.highWatermark of each broker
    fetch,          \* what has become of each follower's fetch
    produced,       \* records produced so far; each is a new number
    faults,
    lostTail,       \* history: the leader has lost records in a crash
    restarted,      \* history: brokers that have been restarted
    missed          \* history: followers that lost an answer or records and
                    \* have not made up for it

clusterVars == <<log, start, hw, fetch, produced, faults, lostTail, restarted,
                 missed>>
vars == <<trackerVars, clusterVars>>

NoFetch == [stage |-> "idle", records |-> <<>>, leo |-> 0, hw |-> 0, lost |-> FALSE]

TypeOK ==
    /\ TrackerTypeOK
    /\ log \in [ReplicaIDs -> Seq(1..MaxLEO)]
    /\ start \in 0..Len(log[LeaderID])
    /\ hw \in [ReplicaIDs -> 0..MaxLEO]
    /\ \A f \in Followers :
          /\ fetch[f].stage \in {"idle", "credit", "answered"}
          /\ Len(fetch[f].records) <= MaxFetch
    /\ produced \in 0..MaxLEO

Init ==
    /\ TrackerInit
    /\ log = [b \in ReplicaIDs |-> <<>>]
    /\ start = 0
    /\ hw = [b \in ReplicaIDs |-> 0]
    /\ fetch = [f \in Followers |-> NoFetch]
    /\ produced = 0
    /\ faults = 0
    /\ lostTail = FALSE
    /\ restarted = {}
    /\ missed = {}

LEO(b) == Len(log[b])

Larger(a, b) == IF a > b THEN a ELSE b
Smaller(a, b) == IF a < b THEN a ELSE b

Fault ==
    /\ faults < MaxFaults
    /\ faults' = faults + 1

-----------------------------------------------------------------------------
(* The leader.                                                             *)

(* SetHighWatermark only ever raises it.                                   *)
SetHighWatermark(b, v) == hw' = [hw EXCEPT ![b] = Larger(@, v)]

Produce ==
    /\ produced < MaxLEO
    /\ produced' = produced + 1
    /\ log' = [log EXCEPT ![LeaderID] = Append(@, produced')]
    /\ UpdateLEO(LeaderID, LEO(LeaderID) + 1, LEO(LeaderID) + 1)
    /\ SetHighWatermark(LeaderID, highWatermark')
    /\ UNCHANGED <<start, fetch, faults, lostTail, restarted, missed>>

FaultyFromCredit(f) == Larger(LEO(f), replicas[f].logEndOffset)

(* The offset a follower asks for: its own log end.                        *)
FetchOffset(f) == LEO(f)

FaultyOneShort(off) ==
    SubSeq(log[LeaderID], off + 1, Smaller(off + MaxFetch, LEO(LeaderID) - 1))

(* What ReadFrom returns within the byte budget; nothing at or past the    *)
(* log end.                                                                *)
Records(off) ==
    SubSeq(log[LeaderID], off + 1, Smaller(off + MaxFetch, LEO(LeaderID)))

FaultyCreditsAll(off) == LEO(LeaderID)

(* What the leader takes the follower to have: the end of the answer, or   *)
(* where it asked from.                                                    *)
FollowerLEO(off) == off + Len(Records(off))

(* followerFetchOnce sends the request, and handleReplicaFetch reads the   *)
(* log and records its own log end.  An offset below the log start is an   *)
(* error: nothing is sent and the follower will ask the same again.        *)
ServeFetch(f) ==
    /\ fetch[f].stage = "idle"
    /\ FetchOffset(f) >= start
    /\ fetch' = [fetch EXCEPT ![f] =
                    [stage |-> "credit", records |-> Records(FetchOffset(f)),
                     leo |-> FollowerLEO(FetchOffset(f)), hw |-> 0, lost |-> FALSE]]
    /\ UpdateLEO(LeaderID, LEO(LeaderID), LEO(LeaderID))
    /\ UNCHANGED <<log, start, hw, produced, faults, lostTail, restarted, missed>>

(* The second half of handleReplicaFetch.  It passes on the log end that   *)
(* the first half read; the tracker prefers the one it has recorded, which *)
(* is never older.                                                         *)
Credit(f) ==
    /\ fetch[f].stage = "credit"
    /\ UpdateLEO(f, fetch[f].leo, replicas[LeaderID].logEndOffset)
    /\ SetHighWatermark(LeaderID, highWatermark')
    /\ fetch' = [fetch EXCEPT ![f] =
                    IF fetch[f].lost THEN NoFetch
                    ELSE [@ EXCEPT !.stage = "answered", !.leo = 0, !.hw = highWatermark']]
    /\ UNCHANGED <<log, start, produced, faults, lostTail, restarted, missed>>

-----------------------------------------------------------------------------
(* A follower.                                                             *)

FaultyUncapped(f, v) == v

FaultyOwnEnd(f, v) == LEO(f) + Len(fetch[f].records)

Capped(f, v) == Smaller(v, LEO(f) + Len(fetch[f].records))

Receive(f) ==
    /\ fetch[f].stage = "answered"
    /\ log' = [log EXCEPT ![f] = @ \o fetch[f].records]
    /\ SetHighWatermark(f, Capped(f, fetch[f].hw))
    /\ fetch' = [fetch EXCEPT ![f] = NoFetch]
    /\ missed' = IF LEO(f) + Len(fetch[f].records) < replicas[f].logEndOffset
                 THEN missed ELSE missed \ {f}
    /\ UNCHANGED <<trackerVars, start, produced, faults, lostTail, restarted>>

(* The answer is lost, comes after the deadline, or cannot be appended.    *)
AnswerLost(f) ==
    /\ fetch[f].stage = "answered"
    /\ Fault
    /\ fetch' = [fetch EXCEPT ![f] = NoFetch]
    /\ missed' = missed \cup {f}
    /\ UNCHANGED <<trackerVars, log, start, hw, produced, lostTail, restarted>>

-----------------------------------------------------------------------------
(* Storage.                                                                *)

(* Retention removes sealed segments of the leader.                        *)
Retention ==
    /\ Fault
    /\ start' \in start + 1 .. LEO(LeaderID) - 1
    /\ UNCHANGED <<trackerVars, log, hw, fetch, produced, lostTail, restarted,
                   missed>>

(* NewPartition opens what is left of the log and takes its end for the    *)
(* high watermark.                                                         *)
Reopen(b, n) ==
    /\ log' = [log EXCEPT ![b] = SubSeq(@, 1, n)]
    /\ hw' = [hw EXCEPT ![b] = n]
    /\ restarted' = restarted \cup {b}

(* A follower stops, by a crash or a shutdown, and comes back.  A handler  *)
(* at the leader that serves it goes on.                                   *)
FollowerRestarts(f) ==
    \E n \in 0..LEO(f) :
        /\ Fault
        /\ Reopen(f, n)
        /\ fetch' = [fetch EXCEPT ![f] =
                        IF @.stage = "credit" THEN [@ EXCEPT !.lost = TRUE] ELSE NoFetch]
        /\ missed' = missed \cup {f}
        /\ UNCHANGED <<trackerVars, start, produced, lostTail>>

(* The leader stops and comes back with a new tracker.                     *)
LeaderRestarts ==
    \E n \in start..LEO(LeaderID) :
        /\ Fault
        /\ Reopen(LeaderID, n)
        /\ replicas' = [r \in ReplicaIDs |-> NewReplicaState(0)]
        /\ highWatermark' = 0
        /\ fetch' = [f \in Followers |-> NoFetch]
        /\ lostTail' = (lostTail \/ n < LEO(LeaderID))
        /\ UNCHANGED <<now, start, produced, missed>>

Clock ==
    /\ Tick
    /\ UNCHANGED clusterVars

Replicate(f) == ServeFetch(f) \/ Credit(f) \/ Receive(f)

Next ==
    \/ Produce \/ Retention \/ LeaderRestarts \/ Clock
    \/ \E f \in Followers : Replicate(f) \/ AnswerLost(f) \/ FollowerRestarts(f)

Spec == Init /\ [][Next]_vars

(* A fetch below the leader's log start is refused, time and again.        *)
Refused(f) == fetch[f].stage = "idle" /\ LEO(f) < start

(* A follower's fetch loop runs on a ticker, and a handler it reaches      *)
(* answers: weak fairness of Replicate(f), which is enabled unless the     *)
(* fetch is refused, written out because TLC is slow on its ENABLED.       *)
FairSpec ==
    /\ Spec
    /\ \A f \in Followers : []<>Refused(f) \/ []<><<Replicate(f)>>_fetch

-----------------------------------------------------------------------------
(* Properties.                                                             *)

(* A follower's log is a prefix of the leader's, through lost and repeated *)
(* answers, restarts of both and retention: a follower asks from the end   *)
(* of its own log.  Only a leader that lost records in a crash breaks it.  *)
FollowerIsPrefix ==
    ~lostTail => \A f \in Followers :
                    /\ LEO(f) <= LEO(LeaderID)
                    /\ log[f] = SubSeq(log[LeaderID], 1, LEO(f))

(* Two copies never hold different records at one offset.  Not so after    *)
(* the leader lost records: nothing makes a follower drop them, and it     *)
(* goes on fetching behind them.                                           *)
NeverDiverges ==
    \A f \in Followers : \A i \in 1..Smaller(LEO(f), LEO(LeaderID)) :
        log[f][i] = log[LeaderID][i]

(* The leader credits a follower with no more than the follower holds, or  *)
(* is about to receive, or would hold had no answer been lost and no       *)
(* restart cut its log.                                                    *)
CreditIsHeld ==
    \A f \in Followers \ missed :
        replicas[f].logEndOffset <= LEO(f) + Len(fetch[f].records)

(* No broker shows consumers more than its own log holds, even a follower  *)
(* out of sync that learns a high watermark beyond its log end.            *)
VisibleWithinLog == \A b \in ReplicaIDs : hw[b] <= LEO(b)

(* broker.go, line 678: consumers observe only records below the high      *)
(* watermark that the tracker has computed.  Here for brokers that run     *)
(* since the beginning; handleFetch serves consumers on followers too.     *)
VisibleIsCommitted ==
    LeaderID \notin restarted =>
        \A b \in ReplicaIDs \ restarted : hw[b] <= highWatermark

(* The same for brokers that have been restarted as well.                  *)
OnlyCommittedVisible ==
    LeaderID \notin restarted => \A b \in ReplicaIDs : hw[b] <= highWatermark

(* Every follower that the leader's log start has not passed catches up    *)
(* with the leader again and again.                                        *)
CatchesUp ==
    \A f \in Followers : []<>(LEO(f) >= LEO(LeaderID) \/ LEO(f) < start)

=============================================================================
