-------------------------- MODULE BrokerLifecycle ---------------------------
(***************************************************************************)
(* A broker process from New to Shutdown or a crash: the topic metadata    *)
(* (internal/broker/metadata.go), the open topics (topic.go, broker.go     *)
(* getOrCreateTopic, handleCreateTopics), the writer goroutine of each     *)
(* partition (partition.go), the offset store, and Shutdown.               *)
(*                                                                         *)
(* Opened topics are objects.  b.topics names at most one object of a      *)
(* topic; others may still be in use or never be closed.  A topic has one  *)
(* partition here.  b.mu is held throughout getOrCreateTopic and the last  *)
(* section of handleCreateTopics, which are single steps, and by Shutdown  *)
(* while it closes the topics.  AcksAll has what handleProduce does after  *)
(* the append, Server how connections end.                                 *)
(*                                                                         *)
(* A definition whose name starts with Faulty is the one that follows it   *)
(* with a defect; no specification uses it.                                *)
(***************************************************************************)
EXTENDS OffsetStore

CONSTANTS
    Names,          \* topics
    QueueCap,       \* capacity of Partition.appendCh
    AutoCreates,    \* the values of Topic.AutoCreate that are looked at
    MaxOffset,      \* bound: largest committed offset
    MaxRequests,    \* bound: requests
    MaxFailures,    \* bound: metadata saves and opens that fail
    MaxRestarts     \* bound: restarts

ASSUME BrokerAssumption == QueueCap \in Nat /\ AutoCreates \subseteq BOOLEAN

VARIABLES
    autoCreate,     \* config Topic.AutoCreate
    meta,           \* MetadataManager.topics
    metaFile,       \* topics.json
    topics,         \* Broker.topics: name -> index of an object
    objects,        \* every Topic the process has opened
    unopened,       \* topics whose creation could not open the log
    pc,             \* what each connection's handler does
    topic, object,  \* handler locals
    phase,          \* where Shutdown is
    expired,        \* Shutdown's context ended before the connections did
    requests, failures, restarts

registryVars == <<meta, metaFile, topics, objects, unopened>>
handlerVars == <<pc, topic, object>>
shutdownVars == <<phase, expired>>
counters == <<requests, failures, restarts>>
vars == <<storeVars, autoCreate, registryVars, handlerVars, shutdownVars, counters>>

NoTopic == "none"

Object ==
    [name : Names, closeCh : BOOLEAN, writer : {"loop", "drain", "stopped"},
     appendCh : Seq([by : Handlers, late : BOOLEAN]), log : {"open", "closed"}]

TypeOK ==
    /\ StoreTypeOK
    /\ autoCreate \in BOOLEAN
    /\ meta \subseteq Names /\ metaFile \subseteq Names /\ unopened \subseteq meta
    /\ objects \in Seq(Object)
    /\ \A o \in DOMAIN objects : Len(objects[o].appendCh) <= QueueCap
    /\ topics \in [DOMAIN topics -> DOMAIN objects]
    /\ \A t \in DOMAIN topics : objects[topics[t]].name = t
    /\ pc \in [Handlers -> {"idle", "find", "append", "wait", "open"}]
    /\ topic \in [Handlers -> Names \cup {NoTopic}]
    /\ object \in [Handlers -> Nat]
    /\ \A h \in Handlers :
          /\ pc[h] \in {"find", "open"} => topic[h] \in Names
          /\ pc[h] \in {"append", "wait"} => object[h] \in DOMAIN objects
    /\ phase \in {"up", "stopping", "locked", "down"}
    /\ expired \in BOOLEAN

(* NewTopic and NewPartition: an open log and a writer goroutine.          *)
NewTopic(t) ==
    [name |-> t, closeCh |-> FALSE, writer |-> "loop", appendCh |-> <<>>, log |-> "open"]

Init ==
    /\ StoreInit
    /\ autoCreate \in AutoCreates
    /\ meta = {} /\ metaFile = {} /\ unopened = {}
    /\ objects = <<>>
    /\ topics = [t \in {} |-> 0]
    /\ pc = [h \in Handlers |-> "idle"]
    /\ topic = [h \in Handlers |-> NoTopic]
    /\ object = [h \in Handlers |-> 0]
    /\ phase = "up"
    /\ expired = FALSE
    /\ requests = 0 /\ failures = 0 /\ restarts = 0

-----------------------------------------------------------------------------
(* Requests and the handlers' local state.                                 *)

(* A connection can send its next request.  Shutdown waits for connections *)
(* to end unless its context does; nothing tells a connection to stop.     *)
CanRequest(h) ==
    /\ pc[h] = "idle" /\ Idle(h)
    /\ phase \in {"up", "stopping"} \/ expired
    /\ requests < MaxRequests

Request == requests' = requests + 1 /\ UNCHANGED restarts
NoRequest == UNCHANGED <<requests, restarts>>

Fault ==
    /\ failures < MaxFailures
    /\ failures' = failures + 1

Goto(h, where, t, o) ==
    /\ pc' = [pc EXCEPT ![h] = where]
    /\ topic' = [topic EXCEPT ![h] = t]
    /\ object' = [object EXCEPT ![h] = o]

Answer(h) == Goto(h, "idle", NoTopic, 0)

BMuFree == phase # "locked"

-----------------------------------------------------------------------------
(* MetadataManager.CreateTopic: one critical section.  An entry that could *)
(* not be saved is deleted again.                                          *)

FaultyNotExclusive(t) ==
    /\ meta' = meta \cup {t}
    /\ metaFile' = meta'
    /\ UNCHANGED failures

FaultyNotSaved(t) ==
    /\ t \notin meta
    /\ meta' = meta \cup {t}
    /\ UNCHANGED <<metaFile, failures>>

Created(t) ==
    /\ t \notin meta
    /\ meta' = meta \cup {t}
    /\ metaFile' = meta'
    /\ UNCHANGED failures

Exists(t) ==
    /\ t \in meta
    /\ UNCHANGED <<meta, metaFile, failures>>

SaveFails(t) ==
    /\ t \notin meta
    /\ Fault
    /\ UNCHANGED <<meta, metaFile>>

-----------------------------------------------------------------------------
(* The registry of open topics.                                            *)

Register(t) ==
    /\ objects' = Append(objects, NewTopic(t))
    /\ topics' = [x \in DOMAIN topics \cup {t} |-> IF x = t THEN Len(objects') ELSE topics[x]]
    /\ unopened' = unopened \ {t}

(* getOrCreateTopic for a produce goes on to append; for a metadata        *)
(* request it only had to create the topic.                                *)
Opened(h, o) ==
    IF pc[h] = "find" THEN Answer(h) ELSE Goto(h, "append", NoTopic, o)

getOrCreateTopic(h, t) ==
    /\ BMuFree
    /\ \/ /\ t \in DOMAIN topics
          /\ Opened(h, topics[t])
          /\ UNCHANGED <<registryVars, failures>>
       \/ /\ t \notin DOMAIN topics
          /\ ~autoCreate
          /\ Answer(h)
          /\ UNCHANGED <<registryVars, failures>>
       \/ /\ t \notin DOMAIN topics
          /\ autoCreate
          /\ \/ /\ Created(t) \/ Exists(t)
                /\ Register(t)
                /\ Opened(h, Len(objects'))
             \/ /\ SaveFails(t)
                /\ Answer(h)
                /\ UNCHANGED <<topics, objects, unopened>>
             \/ /\ Fault
                /\ meta' = meta \cup {t} /\ metaFile' = meta'
                /\ unopened' = unopened \cup {t}
                /\ Answer(h)
                /\ UNCHANGED <<topics, objects>>
    /\ UNCHANGED <<storeVars, autoCreate, shutdownVars>>

(* handleProduce, up to the append.                                        *)
handleProduce(h, t) ==
    /\ CanRequest(h)
    /\ Request
    /\ getOrCreateTopic(h, t)

(* handleMetadata looks in the metadata first.  Only a topic that is not   *)
(* there, with automatic creation, changes anything.                       *)
handleMetadata(h, t) ==
    /\ CanRequest(h)
    /\ t \notin meta /\ autoCreate
    /\ Request
    /\ Goto(h, "find", t, 0)
    /\ UNCHANGED <<storeVars, autoCreate, registryVars, shutdownVars, failures>>

MetadataCreates(h) ==
    /\ pc[h] = "find"
    /\ NoRequest
    /\ getOrCreateTopic(h, topic[h])

(* handleCreateTopics records the topic without b.mu, and then opens it    *)
(* with b.mu held, whatever b.topics holds by then.                        *)
handleCreateTopics(h, t) ==
    /\ CanRequest(h)
    /\ Request
    /\ \/ Created(t) /\ Goto(h, "open", t, 0)
       \/ (Exists(t) \/ SaveFails(t)) /\ Answer(h)
    /\ UNCHANGED <<storeVars, autoCreate, topics, objects, unopened, shutdownVars>>

OpenCreated(h) ==
    /\ pc[h] = "open"
    /\ BMuFree
    /\ \/ Register(topic[h]) /\ UNCHANGED failures
       \/ /\ Fault
          /\ unopened' = unopened \cup ({topic[h]} \ DOMAIN topics)
          /\ UNCHANGED <<topics, objects>>
    /\ Answer(h)
    /\ NoRequest
    /\ UNCHANGED <<storeVars, autoCreate, meta, metaFile, shutdownVars>>

-----------------------------------------------------------------------------
(* Partition.AppendBatch and the writer goroutine.                         *)

(* The select of AppendBatch takes either branch when both are ready: the  *)
(* queue may accept a request although the partition is closed, even when  *)
(* the writer has stopped.                                                 *)
Enqueue(h) ==
    LET o == object[h]
    IN  /\ pc[h] = "append"
        /\ Len(objects[o].appendCh) < QueueCap
        /\ objects' = [objects EXCEPT ![o].appendCh =
                          Append(@, [by |-> h, late |-> objects[o].closeCh])]
        /\ Goto(h, "wait", NoTopic, o)
        /\ UNCHANGED <<storeVars, autoCreate, meta, metaFile, topics, unopened,
                       shutdownVars, counters>>

AppendRefused(h) ==
    /\ pc[h] = "append"
    /\ objects[object[h]].closeCh
    /\ Answer(h)
    /\ UNCHANGED <<storeVars, autoCreate, registryVars, shutdownVars, counters>>

(* The writer appends the records of the next request to the log and sends *)
(* the outcome, an offset or an error, to the handler, which answers.      *)
WriterAppend(o) ==
    /\ objects[o].writer \in {"loop", "drain"}
    /\ objects[o].appendCh # <<>>
    /\ objects' = [objects EXCEPT ![o].appendCh = Tail(@)]
    /\ Answer(Head(objects[o].appendCh).by)
    /\ UNCHANGED <<storeVars, autoCreate, meta, metaFile, topics, unopened,
                   shutdownVars, counters>>

WriterMoves(o, from, to) ==
    /\ objects[o].writer = from
    /\ objects' = [objects EXCEPT ![o].writer = to]
    /\ UNCHANGED <<storeVars, autoCreate, meta, metaFile, topics, unopened,
                   handlerVars, shutdownVars, counters>>

FaultyNeverLooks(o) == FALSE

FaultyStopsAtOnce(o) ==
    /\ objects[o].closeCh
    /\ WriterMoves(o, "loop", "stopped")

WriterDrains(o) ==
    /\ objects[o].closeCh
    /\ WriterMoves(o, "loop", "drain")

WriterStops(o) ==
    /\ objects[o].appendCh = <<>>
    /\ WriterMoves(o, "drain", "stopped")

Writer(o) == WriterAppend(o) \/ WriterDrains(o) \/ WriterStops(o)

-----------------------------------------------------------------------------
(* Commits.  The members of a group keep to their shares: a partition is   *)
(* committed by one connection at a time.                                  *)

Commit(h) ==
    \E p \in Partitions, v \in 0..MaxOffset :
        /\ CanRequest(h)
        /\ \A g \in Handlers : p \notin DOMAIN todo[g]
        /\ Request
        /\ handleOffsetCommit(h, [q \in {p} |-> v])
        /\ UNCHANGED <<autoCreate, registryVars, handlerVars, shutdownVars, failures>>

Store ==
    /\ Flush \/ \E h \in Handlers : OffsetCommit(h)
    /\ UNCHANGED <<autoCreate, registryVars, handlerVars, shutdownVars, counters>>

-----------------------------------------------------------------------------
(* Shutdown: the coordinator and its store, the server, the topics.        *)

ShutdownBegins ==
    /\ phase = "up"
    /\ Close
    /\ phase' = "stopping"
    /\ UNCHANGED <<autoCreate, registryVars, handlerVars, expired, counters>>

FaultyIgnoresAppends ==
    /\ phase = "stopping"
    /\ \A h \in Handlers : pc[h] \in {"idle", "append", "wait"} /\ Idle(h)
    /\ phase' = "locked"
    /\ UNCHANGED <<storeVars, autoCreate, registryVars, handlerVars, expired, counters>>

(* server.Shutdown returns when the last connection has ended.             *)
ConnectionsEnded ==
    /\ phase = "stopping"
    /\ \A h \in Handlers : pc[h] = "idle" /\ Idle(h)
    /\ phase' = "locked"
    /\ UNCHANGED <<storeVars, autoCreate, registryVars, handlerVars, expired, counters>>

ContextExpires ==
    /\ phase = "stopping"
    /\ phase' = "locked"
    /\ expired' = TRUE
    /\ UNCHANGED <<storeVars, autoCreate, registryVars, handlerVars, counters>>

Closing(o) == objects[o].closeCh /\ objects[o].log = "open"

(* Topic.Close and Partition.Close, one topic after the other.             *)
CloseTopic(t) ==
    /\ phase = "locked"
    /\ \A o \in DOMAIN objects : ~Closing(o)
    /\ ~objects[topics[t]].closeCh
    /\ objects' = [objects EXCEPT ![topics[t]].closeCh = TRUE]
    /\ UNCHANGED <<storeVars, autoCreate, meta, metaFile, topics, unopened,
                   handlerVars, shutdownVars, counters>>

CloseLog(o) ==
    /\ Closing(o)
    /\ objects[o].writer = "stopped"
    /\ objects' = [objects EXCEPT ![o].log = "closed"]
    /\ UNCHANGED <<storeVars, autoCreate, meta, metaFile, topics, unopened,
                   handlerVars, shutdownVars, counters>>

ShutdownReturns ==
    /\ phase = "locked"
    /\ \A t \in DOMAIN topics : objects[topics[t]].log = "closed"
    /\ phase' = "down"
    /\ UNCHANGED <<storeVars, autoCreate, registryVars, handlerVars, expired, counters>>

Shutdown ==
    \/ ConnectionsEnded \/ ContextExpires \/ ShutdownReturns
    \/ \E t \in DOMAIN topics : CloseTopic(t)
    \/ \E o \in DOMAIN objects : CloseLog(o)

(* The process ends, by a crash or after Shutdown, and New opens what the  *)
(* files hold.                                                             *)
RestartBroker ==
    LET names == CHOOSE s \in Injection(1..Cardinality(metaFile), metaFile) : TRUE
    IN  /\ restarts < MaxRestarts
        /\ restarts' = restarts + 1
        /\ Restart
        /\ meta' = metaFile
        /\ objects' = [i \in DOMAIN names |-> NewTopic(names[i])]
        /\ topics' = [t \in metaFile |-> CHOOSE i \in DOMAIN names : names[i] = t]
        /\ unopened' = {}
        /\ pc' = [h \in Handlers |-> "idle"]
        /\ topic' = [h \in Handlers |-> NoTopic]
        /\ object' = [h \in Handlers |-> 0]
        /\ phase' = "up"
        /\ expired' = FALSE
        /\ UNCHANGED <<autoCreate, metaFile, requests, failures>>

Handler(h) ==
    \/ Enqueue(h) \/ AppendRefused(h) \/ MetadataCreates(h) \/ OpenCreated(h)

Next ==
    \/ \E h \in Handlers, t \in Names :
          handleProduce(h, t) \/ handleMetadata(h, t) \/ handleCreateTopics(h, t)
    \/ \E h \in Handlers : Handler(h) \/ Commit(h)
    \/ \E o \in DOMAIN objects : Writer(o)
    \/ Store \/ ShutdownBegins \/ Shutdown \/ RestartBroker

Spec == Init /\ [][Next]_vars

(* Handlers, writers and Shutdown are goroutines that run whenever they    *)
(* can, and Shutdown's context has a deadline.                             *)
FairSpec ==
    /\ Spec
    /\ WF_vars(\E h \in Handlers : Handler(h))
    /\ WF_vars(\E o \in DOMAIN objects : Writer(o))
    /\ WF_vars(Store)
    /\ WF_vars(Shutdown)

-----------------------------------------------------------------------------
(* Properties.                                                             *)

OpenObjects(t) == {o \in DOMAIN objects : objects[o].name = t /\ objects[o].writer # "stopped"}

(* partition.go, line 63: a single writer goroutine processes the append   *)
(* requests of a partition.                                                *)
OneWriter == \A t \in Names : Cardinality(OpenObjects(t)) <= 1

(* What the two ways to create a topic guarantee together: CreateTopics    *)
(* opens a topic once because the metadata records it once, and            *)
(* getOrCreateTopic because b.topics holds it, so a topic never has more   *)
(* than one writer for each way, and one if automatic creation is off.     *)
WritersPerTopic ==
    \A t \in Names : Cardinality(OpenObjects(t)) <= IF autoCreate THEN 2 ELSE 1

(* A topic that can be written to is in topics.json, so that the next      *)
(* process opens it again, however creations, failed saves and crashes     *)
(* interleave.                                                             *)
ServedIsSaved == \A o \in DOMAIN objects : objects[o].name \in metaFile

(* A topic of the metadata is open, about to be opened by the request that *)
(* created it, or could not be opened.                                     *)
MetadataIsServed ==
    \A t \in meta :
        \/ t \in DOMAIN topics \cup unopened
        \/ \E h \in Handlers : pc[h] = "open" /\ topic[h] = t

(* Partition.Close does not leave an append request behind that was queued *)
(* before it began, whatever Shutdown, writer and handlers do in which     *)
(* order.                                                                  *)
QueuedBeforeCloseDrained ==
    \A o \in DOMAIN objects : objects[o].writer = "stopped" =>
        \A i \in DOMAIN objects[o].appendCh : objects[o].appendCh[i].late

Stranded(h) == pc[h] = "wait" /\ objects[object[h]].writer = "stopped"

(* A handler waits for a writer that has stopped, and so forever, only if  *)
(* Shutdown's context expired before the connections had ended.            *)
StrandedOnlyAfterExpiry == (\E h \in Handlers : Stranded(h)) => expired

(* A log is closed only when its writer is done with it.                   *)
LogClosedLast ==
    \A o \in DOMAIN objects :
        objects[o].log = "closed" => objects[o].writer = "stopped"

Displaced(o) == topics[objects[o].name] # o

(* A Shutdown whose connections ended in time has closed every log, but    *)
(* for a topic that CreateTopics opened a second time.                     *)
ShutdownClosesRegistered ==
    phase = "down" /\ ~expired =>
        \A o \in DOMAIN objects : objects[o].log = "closed" \/ Displaced(o)

(* Once begun, Shutdown returns: no writer it waits for is stuck.          *)
ShutdownCompletes == phase = "stopping" ~> phase \in {"down", "up"}

(* An append that waits for its writer is answered, unless the broker is   *)
(* restarted.                                                              *)
AppendsAnswered == \A h \in Handlers : pc[h] = "wait" ~> pc[h] # "wait"

=============================================================================
