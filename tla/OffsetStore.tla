---------------------------- MODULE OffsetStore -----------------------------
(***************************************************************************)
(* The committed offsets of one consumer group                             *)
(* (internal/coordinator/offsets.go) and the OffsetCommit handlers that    *)
(* write them (internal/broker/broker.go handleOffsetCommit).              *)
(*                                                                         *)
(* A commit writes the cache under the lock, appends to the group's log    *)
(* without it, and takes the lock again to undo the cache write if the     *)
(* append failed.  The log is what AbstractLog promises of it: a crash     *)
(* keeps a prefix that holds at least what was flushed.                    *)
(*                                                                         *)
(* A definition whose name starts with Faulty is the one that follows it   *)
(* with a defect; no specification uses it.                                *)
(***************************************************************************)
EXTENDS Integers, Sequences, FiniteSetsExt

CONSTANTS
    Partitions,     \* the topic-partitions the group consumes
    Handlers,       \* connections that commit offsets
    MaxAppendErrors \* bound: appends that fail

VARIABLES
    cache,          \* OffsetStore.cache; -1 stands for an absent key
    records,        \* the log of the group's commits
    flushed,        \* how many of its records are on disk
    started,        \* OffsetStore.started
    todo,           \* offsets of each handler's request not yet committed
    current,        \* the partition each handler is appending, if any
    oldVal,         \* handler local: the cached offset it replaced
    undoing,        \* handlers whose append failed
    appendErrors

storeVars == <<cache, records, flushed, started, todo, current, oldVal, undoing,
               appendErrors>>

None == {}
Nothing == [p \in {} |-> -1]

CommitRecord == [partition : Partitions, offset : Nat]

StoreTypeOK ==
    /\ cache \in [Partitions -> Nat \cup {-1}]
    /\ records \in Seq(CommitRecord)
    /\ flushed \in 0..Len(records)
    /\ started \in BOOLEAN
    /\ todo = [h \in Handlers |-> todo[h]]
    /\ current \in [Handlers -> SUBSET Partitions]
    /\ \A h \in Handlers :
          /\ DOMAIN todo[h] \subseteq Partitions /\ todo[h] \in [DOMAIN todo[h] -> Nat]
          /\ current[h] \subseteq DOMAIN todo[h] /\ \A p, q \in current[h] : p = q
    /\ oldVal \in [Handlers -> Nat \cup {-1}]
    /\ undoing \subseteq Handlers
    /\ appendErrors \in Nat

(* What Start rebuilds from a log: the last record of a key wins.          *)
Replay(log) ==
    [p \in Partitions |->
        LET at == {i \in DOMAIN log : log[i].partition = p}
        IN  IF at = {} THEN -1 ELSE log[Max(at)].offset]

StoreInit ==
    /\ records = <<>>
    /\ cache = Replay(records)
    /\ flushed = 0
    /\ started = TRUE
    /\ todo = [h \in Handlers |-> Nothing]
    /\ current = [h \in Handlers |-> None]
    /\ oldVal = [h \in Handlers |-> -1]
    /\ undoing = {}
    /\ appendErrors = 0

Idle(h) == todo[h] = Nothing

-----------------------------------------------------------------------------
(* handleOffsetCommit commits the partitions of its request one by one and *)
(* answers without an error code whatever became of them.                  *)

handleOffsetCommit(h, offsets) ==
    /\ Idle(h)
    /\ todo' = [todo EXCEPT ![h] = offsets]
    /\ UNCHANGED <<cache, records, flushed, started, current, oldVal, undoing,
                   appendErrors>>

(* The handler turns to the next partition of its request.                 *)
Done(h, p) ==
    /\ todo' = [todo EXCEPT ![h] = [q \in DOMAIN @ \ {p} |-> @[q]]]
    /\ current' = [current EXCEPT ![h] = None]
    /\ oldVal' = [oldVal EXCEPT ![h] = -1]

(* The first critical section of OffsetStore.Commit.  A store that is not  *)
(* started has no log, and the commit is done.                             *)
CommitCache(h) ==
    \E p \in DOMAIN todo[h] :
        /\ current[h] = None
        /\ cache' = [cache EXCEPT ![p] = todo[h][p]]
        /\ IF started
           THEN /\ oldVal' = [oldVal EXCEPT ![h] = cache[p]]
                /\ current' = [current EXCEPT ![h] = {p}]
                /\ UNCHANGED todo
           ELSE Done(h, p)
        /\ UNCHANGED <<records, flushed, started, undoing, appendErrors>>

CommitAppend(h) ==
    \E p \in current[h] :
        /\ started
        /\ h \notin undoing
        /\ records' = Append(records, [partition |-> p, offset |-> todo[h][p]])
        /\ Done(h, p)
        /\ UNCHANGED <<cache, flushed, started, undoing, appendErrors>>

(* The append fails if the log has been closed meanwhile, or on its own.   *)
CommitAppendFails(h) ==
    /\ current[h] # None
    /\ h \notin undoing
    /\ \/ ~started /\ UNCHANGED appendErrors
       \/ /\ started
          /\ appendErrors < MaxAppendErrors
          /\ appendErrors' = appendErrors + 1
    /\ undoing' = undoing \cup {h}
    /\ UNCHANGED <<cache, records, flushed, started, todo, current, oldVal>>

FaultyKeepsCache(h) ==
    \E p \in current[h] :
        /\ h \in undoing
        /\ Done(h, p)
        /\ undoing' = undoing \ {h}
        /\ UNCHANGED <<cache, records, flushed, started, appendErrors>>

CommitUndo(h) ==
    \E p \in current[h] :
        /\ h \in undoing
        /\ cache' = [cache EXCEPT ![p] = oldVal[h]]
        /\ Done(h, p)
        /\ undoing' = undoing \ {h}
        /\ UNCHANGED <<records, flushed, started, appendErrors>>

OffsetCommit(h) ==
    CommitCache(h) \/ CommitAppend(h) \/ CommitAppendFails(h) \/ CommitUndo(h)

-----------------------------------------------------------------------------
(* The life of the store.                                                  *)

Flush ==
    /\ started
    /\ flushed # Len(records)
    /\ flushed' = Len(records)
    /\ UNCHANGED <<cache, records, started, todo, current, oldVal, undoing, appendErrors>>

(* Closing the logs flushes them.  The broker closes the store before it   *)
(* stops its server, so handlers may still be at work.                     *)
Close ==
    /\ started
    /\ started' = FALSE
    /\ flushed' = Len(records)
    /\ UNCHANGED <<cache, records, todo, current, oldVal, undoing, appendErrors>>

(* The process ends, by a crash or after Close, and the next one opens the *)
(* log that is left and replays it.                                        *)
Restart ==
    \E n \in flushed..Len(records) :
        /\ records' = SubSeq(records, 1, n)
        /\ flushed' = n
        /\ cache' = Replay(records')
        /\ started' = TRUE
        /\ todo' = [h \in Handlers |-> Nothing]
        /\ current' = [h \in Handlers |-> None]
        /\ oldVal' = [h \in Handlers |-> -1]
        /\ undoing' = {}
        /\ UNCHANGED appendErrors

-----------------------------------------------------------------------------
(* Properties.                                                             *)

Settled(p) == \A h \in Handlers : p \notin current[h]

(* Once every commit of a partition has returned, OffsetFetch answers what *)
(* a restart would recover: the cache holds the last record of the log.    *)
CacheMatchesLog ==
    started => \A p \in Partitions : Settled(p) => cache[p] = Replay(records)[p]

(* README.md, line 11: committed offsets are written to a storage log, so  *)
(* a commit that was answered is in the log, before and after Close.       *)
AnsweredCommitsLogged ==
    \A p \in Partitions : Settled(p) => cache[p] = Replay(records)[p]

=============================================================================
