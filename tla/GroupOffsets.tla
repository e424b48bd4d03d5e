---------------------------- MODULE GroupOffsets ----------------------------
(***************************************************************************)
(* How the consumers of a group move their positions                       *)
(* (pkg/client/group_consumer.go Poll, Commit, CommitOffset,               *)
(* fetchInitialOffsets, resolveUnsetOffsets) over the offset store.        *)
(*                                                                         *)
(* Three goroutines of a consumer share partitionOffsets: the              *)
(* application's, the one that takes over a new share after a rebalance,   *)
(* and the automatic committer.  Each holds the mutex only to copy or to   *)
(* store offsets, and asks the broker in between; reqMu lets one of them   *)
(* wait for an answer at a time.  ConsumerGroup models how shares come     *)
(* about; here a rebalance hands out any shares, and a consumer notices    *)
(* when it does.  A consumer's requests are committed by the handler of    *)
(* the same name.                                                          *)
(*                                                                         *)
(* A definition whose name starts with Faulty is the one that follows it   *)
(* with a defect; no specification uses it.                                *)
(***************************************************************************)
EXTENDS OffsetStore, TLC

CONSTANTS
    LogEnd,         \* bound: records of every partition
    MaxRecords,     \* bound: records of a partition in a fetch answer
    MaxRebalances,  \* bound: rebalances
    MaxEvents,      \* bound: OffsetCommit requests, joins that fail, consumers
                    \* and brokers that stop, together
    MaxAutoCommits  \* bound: OffsetCommit requests of automatic committers

Consumers == Handlers

VARIABLES
    autoCommit,         \* GroupConsumerConfig.AutoCommit
    owner,              \* the coordinator's assignment
    rebalances,
    unaware,            \* consumers that have not noticed the last rebalance
    assigned,           \* GroupConsumer.assignedPartitions
    partitionOffsets,   \* GroupConsumer.partitionOffsets
    joinPC,             \* where joinAndSync is
    answer,             \* joinAndSync local: offsets it was told
    pollPC,             \* where Poll is
    polled,             \* Poll local: what it asks for, then what is left to apply
    messages,           \* Poll local: the records it will return
    snapshot,           \* Commit local: offsets it will send
    fetched,            \* records some Poll has passed
    delivered,          \* records some Poll has returned
    stopped,            \* consumers that have ended
    requests,
    failures

joinVars == <<autoCommit, owner, rebalances, unaware, joinPC, answer>>
pollVars == <<pollPC, polled, messages, fetched, delivered>>
vars == <<storeVars, joinVars, pollVars, assigned, partitionOffsets, snapshot,
          stopped, requests, failures>>

NoRecords == [p \in Partitions |-> {}]

TypeOK ==
    /\ StoreTypeOK
    /\ autoCommit \in BOOLEAN
    /\ owner \in [Partitions -> Consumers]
    /\ unaware \subseteq Consumers \ stopped
    /\ assigned \in [Consumers -> SUBSET Partitions]
    /\ \A c \in Consumers :
          /\ DOMAIN partitionOffsets[c] \subseteq Partitions
          /\ \A p \in DOMAIN partitionOffsets[c] : partitionOffsets[c][p] \in -1..LogEnd
    /\ joinPC \in [Consumers -> {"off", "ask", "apply", "resolve", "list"}]
    /\ pollPC \in [Consumers -> {"off", "fetch", "apply"}]
    /\ fetched \in [Partitions -> SUBSET (0..LogEnd - 1)]
    /\ delivered \in [Partitions -> SUBSET (0..LogEnd - 1)]

Init ==
    /\ StoreInit
    /\ autoCommit \in BOOLEAN
    /\ owner \in [Partitions -> Consumers]
    /\ rebalances = 1
    /\ unaware = Consumers
    /\ assigned = [c \in Consumers |-> {}]
    /\ partitionOffsets = [c \in Consumers |-> Nothing]
    /\ joinPC = [c \in Consumers |-> "off"]
    /\ answer = [c \in Consumers |-> Nothing]
    /\ pollPC = [c \in Consumers |-> "off"]
    /\ polled = [c \in Consumers |-> Nothing]
    /\ messages = [c \in Consumers |-> NoRecords]
    /\ snapshot = [c \in Consumers |-> Nothing]
    /\ fetched = NoRecords
    /\ delivered = NoRecords
    /\ stopped = {}
    /\ requests = 0
    /\ failures = 0

(* reqMu is free: the broker is not working on a request of the consumer.  *)
CanSend(c) == c \notin stopped /\ Idle(c)

Fail ==
    /\ requests + failures < MaxEvents
    /\ failures' = failures + 1

(* Offsets that are tracked and resolved.                                  *)
NonNegative(offsets) ==
    [p \in {q \in DOMAIN offsets : offsets[q] >= 0} |-> offsets[p]]

-----------------------------------------------------------------------------
(* A rebalance, and the end of joinAndSync.                                *)

Rebalance ==
    /\ rebalances < MaxRebalances
    /\ rebalances' = rebalances + 1
    /\ owner' \in [Partitions -> Consumers]
    /\ unaware' = Consumers \ stopped
    /\ UNCHANGED <<storeVars, autoCommit, joinPC, answer, pollVars,
                   assigned, partitionOffsets, snapshot, stopped, requests, failures>>

Assigned(c) ==
    LET share == {p \in Partitions : owner[p] = c}
    IN  /\ joinPC[c] = "off"
        /\ c \in unaware
        /\ unaware' = unaware \ {c}
        /\ assigned' = [assigned EXCEPT ![c] = share]
        /\ joinPC' = [joinPC EXCEPT ![c] = IF share = {} THEN "off" ELSE "ask"]
        /\ UNCHANGED <<storeVars, autoCommit, owner, rebalances, answer, pollVars,
                       partitionOffsets, snapshot, stopped, requests, failures>>

OffsetFetch(c) ==
    /\ joinPC[c] = "ask"
    /\ CanSend(c)
    /\ answer' = [answer EXCEPT ![c] = [p \in assigned[c] |-> cache[p]]]
    /\ joinPC' = [joinPC EXCEPT ![c] = "apply"]
    /\ UNCHANGED <<storeVars, autoCommit, owner, rebalances, unaware, pollVars,
                   assigned, partitionOffsets, snapshot, stopped, requests, failures>>

fetchInitialOffsets(c) ==
    /\ joinPC[c] = "apply"
    /\ partitionOffsets' = [partitionOffsets EXCEPT ![c] = answer[c] @@ @]
    /\ answer' = [answer EXCEPT ![c] = Nothing]
    /\ joinPC' = [joinPC EXCEPT ![c] = "resolve"]
    /\ UNCHANGED <<storeVars, autoCommit, owner, rebalances, unaware, pollVars,
                   assigned, snapshot, stopped, requests, failures>>

(* resolveUnsetOffsets with auto.offset.reset = earliest: the partitions   *)
(* without an offset get the start of their log.                           *)
Resolve(c) ==
    LET unset == {p \in DOMAIN partitionOffsets[c] : partitionOffsets[c][p] < 0}
    IN  /\ joinPC[c] = "resolve"
        /\ answer' = [answer EXCEPT ![c] = [p \in unset |-> 0]]
        /\ joinPC' = [joinPC EXCEPT ![c] = IF unset = {} THEN "off" ELSE "list"]
        /\ UNCHANGED <<storeVars, autoCommit, owner, rebalances, unaware, pollVars,
                       assigned, partitionOffsets, snapshot, stopped, requests, failures>>

ListOffsets(c) ==
    /\ joinPC[c] = "list"
    /\ CanSend(c)
    /\ partitionOffsets' = [partitionOffsets EXCEPT ![c] = answer[c] @@ @]
    /\ answer' = [answer EXCEPT ![c] = Nothing]
    /\ joinPC' = [joinPC EXCEPT ![c] = "off"]
    /\ UNCHANGED <<storeVars, autoCommit, owner, rebalances, unaware, pollVars,
                   assigned, snapshot, stopped, requests, failures>>

JoinFails(c) ==
    /\ joinPC[c] \in {"ask", "list"}
    /\ CanSend(c)
    /\ Fail
    /\ answer' = [answer EXCEPT ![c] = Nothing]
    /\ joinPC' = [joinPC EXCEPT ![c] = "off"]
    /\ UNCHANGED <<storeVars, autoCommit, owner, rebalances, unaware, pollVars,
                   assigned, partitionOffsets, snapshot, stopped, requests>>

joinAndSync(c) ==
    \/ Assigned(c) \/ OffsetFetch(c) \/ fetchInitialOffsets(c) \/ Resolve(c)
    \/ ListOffsets(c) \/ JoinFails(c)

-----------------------------------------------------------------------------
(* Poll.                                                                   *)

(* The application calls one method at a time; without the automatic       *)
(* committer Commit is one of them.                                        *)
AppIdle(c) ==
    /\ c \notin stopped
    /\ pollPC[c] = "off"
    /\ autoCommit \/ (snapshot[c] = Nothing /\ Idle(c))

PollStart(c) ==
    LET tracked == NonNegative(partitionOffsets[c])
    IN  /\ AppIdle(c)
        /\ assigned[c] # {}
        /\ polled' = [polled EXCEPT ![c] =
              [p \in assigned[c] |-> IF p \in DOMAIN tracked THEN tracked[p] ELSE 0]]
        /\ pollPC' = [pollPC EXCEPT ![c] = "fetch"]
        /\ UNCHANGED <<storeVars, joinVars, messages, fetched, delivered, assigned,
                       partitionOffsets, snapshot, stopped, requests, failures>>

(* The broker answers with records that start at the offset asked for.     *)
PollFetch(c) ==
    /\ pollPC[c] = "fetch"
    /\ CanSend(c)
    /\ \E n \in [DOMAIN polled[c] -> 0..MaxRecords] :
          /\ \E p \in DOMAIN n : n[p] > 0
          /\ \A p \in DOMAIN n : polled[c][p] + n[p] <= LogEnd
          /\ messages' = [messages EXCEPT ![c] = [p \in Partitions |->
                IF p \in DOMAIN n THEN polled[c][p]..(polled[c][p] + n[p] - 1) ELSE {}]]
    /\ pollPC' = [pollPC EXCEPT ![c] = "apply"]
    /\ UNCHANGED <<storeVars, joinVars, polled, fetched, delivered, assigned,
                   partitionOffsets, snapshot, stopped, requests, failures>>

(* The request fails, or the answer has no records.                        *)
PollNothing(c) ==
    /\ pollPC[c] = "fetch"
    /\ CanSend(c)
    /\ polled' = [polled EXCEPT ![c] = Nothing]
    /\ pollPC' = [pollPC EXCEPT ![c] = "off"]
    /\ UNCHANGED <<storeVars, joinVars, messages, fetched, delivered, assigned,
                   partitionOffsets, snapshot, stopped, requests, failures>>

(* Poll takes the mutex for every record and moves the partition's offset  *)
(* past it.                                                                *)
FaultyAdvanceTwice(c) ==
    \E p \in DOMAIN polled[c] :
        LET offset == polled[c][p]
        IN  /\ pollPC[c] = "apply"
            /\ offset \in messages[c][p]
            /\ partitionOffsets' = [partitionOffsets EXCEPT ![c] = (p :> offset + 2) @@ @]
            /\ polled' = [polled EXCEPT ![c][p] = offset + 1]
            /\ fetched' = [fetched EXCEPT ![p] = @ \cup {offset}]
            /\ UNCHANGED <<storeVars, joinVars, pollPC, messages, delivered, assigned,
                           snapshot, stopped, requests, failures>>

PollAdvance(c) ==
    \E p \in DOMAIN polled[c] :
        LET offset == polled[c][p]
        IN  /\ pollPC[c] = "apply"
            /\ offset \in messages[c][p]
            /\ partitionOffsets' = [partitionOffsets EXCEPT ![c] = (p :> offset + 1) @@ @]
            /\ polled' = [polled EXCEPT ![c][p] = offset + 1]
            /\ fetched' = [fetched EXCEPT ![p] = @ \cup {offset}]
            /\ UNCHANGED <<storeVars, joinVars, pollPC, messages, delivered, assigned,
                           snapshot, stopped, requests, failures>>

(* Poll returns what it has read, whatever has been taken away meanwhile.  *)
FaultyDropsRevoked(c) ==
    /\ pollPC[c] = "apply"
    /\ \A p \in DOMAIN polled[c] : polled[c][p] \notin messages[c][p]
    /\ delivered' = [p \in Partitions |->
            IF p \in assigned[c] THEN delivered[p] \cup messages[c][p] ELSE delivered[p]]
    /\ messages' = [messages EXCEPT ![c] = NoRecords]
    /\ polled' = [polled EXCEPT ![c] = Nothing]
    /\ pollPC' = [pollPC EXCEPT ![c] = "off"]
    /\ UNCHANGED <<storeVars, joinVars, fetched, assigned, partitionOffsets, snapshot,
                   stopped, requests, failures>>

PollReturn(c) ==
    /\ pollPC[c] = "apply"
    /\ \A p \in DOMAIN polled[c] : polled[c][p] \notin messages[c][p]
    /\ delivered' = [p \in Partitions |-> delivered[p] \cup messages[c][p]]
    /\ messages' = [messages EXCEPT ![c] = NoRecords]
    /\ polled' = [polled EXCEPT ![c] = Nothing]
    /\ pollPC' = [pollPC EXCEPT ![c] = "off"]
    /\ UNCHANGED <<storeVars, joinVars, fetched, assigned, partitionOffsets, snapshot,
                   stopped, requests, failures>>

Poll(c) ==
    PollStart(c) \/ PollFetch(c) \/ PollNothing(c) \/ PollAdvance(c) \/ PollReturn(c)

-----------------------------------------------------------------------------
(* Commit and CommitOffset.                                                *)

CanCommit(c) ==
    /\ c \notin stopped
    /\ snapshot[c] = Nothing
    /\ Idle(c)
    /\ autoCommit \/ pollPC[c] = "off"
    /\ requests + failures < MaxEvents
    /\ autoCommit => requests < MaxAutoCommits
    /\ requests' = requests + 1

(* Commit copies every offset it tracks, also those of partitions that     *)
(* were taken away.                                                        *)
Commit(c) ==
    LET offsets == NonNegative(partitionOffsets[c])
    IN  /\ CanCommit(c)
        /\ offsets # Nothing
        /\ snapshot' = [snapshot EXCEPT ![c] = offsets]
        /\ UNCHANGED <<storeVars, joinVars, pollVars, assigned, partitionOffsets,
                       stopped, failures>>

(* The application commits the offset after a record it was given.         *)
CommitOffset(c) ==
    \E p \in Partitions : \E offset \in delivered[p] :
        /\ ~autoCommit
        /\ CanCommit(c)
        /\ partitionOffsets' = [partitionOffsets EXCEPT ![c] = (p :> offset + 1) @@ @]
        /\ snapshot' = [snapshot EXCEPT ![c] = (p :> offset + 1)]
        /\ UNCHANGED <<storeVars, joinVars, pollVars, assigned, stopped, failures>>

SendCommit(c) ==
    /\ snapshot[c] # Nothing
    /\ CanSend(c)
    /\ handleOffsetCommit(c, snapshot[c])
    /\ snapshot' = [snapshot EXCEPT ![c] = Nothing]
    /\ UNCHANGED <<joinVars, pollVars, assigned, partitionOffsets, stopped, requests,
                   failures>>

CommitFails(c) ==
    /\ snapshot[c] # Nothing
    /\ CanSend(c)
    /\ snapshot' = [snapshot EXCEPT ![c] = Nothing]
    /\ UNCHANGED <<storeVars, joinVars, pollVars, assigned, partitionOffsets, stopped,
                   requests, failures>>

(* The consumer's process ends; the broker still serves what it was sent.  *)
Stop(c) ==
    /\ c \notin stopped
    /\ Fail
    /\ stopped' = stopped \cup {c}
    /\ unaware' = unaware \ {c}
    /\ assigned' = [assigned EXCEPT ![c] = {}]
    /\ partitionOffsets' = [partitionOffsets EXCEPT ![c] = Nothing]
    /\ joinPC' = [joinPC EXCEPT ![c] = "off"]
    /\ answer' = [answer EXCEPT ![c] = Nothing]
    /\ pollPC' = [pollPC EXCEPT ![c] = "off"]
    /\ polled' = [polled EXCEPT ![c] = Nothing]
    /\ messages' = [messages EXCEPT ![c] = NoRecords]
    /\ snapshot' = [snapshot EXCEPT ![c] = Nothing]
    /\ UNCHANGED <<storeVars, autoCommit, owner, rebalances, fetched,
                   delivered, requests>>

(* The broker at work, or restarting.  It never flushes here, so that a    *)
(* restart may lose any commits.                                           *)
Store ==
    /\ \/ \E c \in Consumers : OffsetCommit(c) /\ UNCHANGED failures
       \/ Restart /\ Fail
    /\ UNCHANGED <<joinVars, pollVars, assigned, partitionOffsets, snapshot, stopped,
                   requests>>

Next ==
    \/ Rebalance
    \/ \E c \in Consumers : joinAndSync(c) \/ Poll(c)
    \/ \E c \in Consumers : Commit(c) \/ CommitOffset(c) \/ SendCommit(c) \/ CommitFails(c)
    \/ \E c \in Consumers : Stop(c)
    \/ Store

Spec == Init /\ [][Next]_vars

-----------------------------------------------------------------------------
(* Properties.                                                             *)

(* At least once: when the application commits between its calls of Poll,  *)
(* every record below a committed offset was returned to an application,   *)
(* although rebalances move positions under a running Poll, consumers      *)
(* commit partitions they have lost, and broker and consumers stop.        *)
CommittedWasDelivered ==
    ~autoCommit =>
        \A p \in Partitions : \A offset \in 0..(cache[p] - 1) : offset \in delivered[p]

(* With the automatic committer a committed offset may be ahead of what    *)
(* Poll has returned, but never of what it has fetched.                    *)
CommittedWasFetched ==
    \A p \in Partitions : \A offset \in 0..(cache[p] - 1) : offset \in fetched[p]

=============================================================================
