----------------------- MODULE BrokerLifecycleProofs ------------------------
(***************************************************************************)
(* Theorems about the broker process, for every set of topics, partitions  *)
(* and handlers and every bound: the offset store's cache and log, the     *)
(* registry of topics and its file, and what Shutdown leaves behind.       *)
(***************************************************************************)
EXTENDS BrokerStateProofs

-----------------------------------------------------------------------------
(* The queues.  A request in a queue is one its handler waits for, and a   *)
(* writer leaves its loop only once Shutdown has closed its partition.     *)

QueueOK(o) ==
    /\ objects[o].writer # "loop" => objects[o].closeCh
    /\ objects[o].closeCh => phase \in {"locked", "down"}
    /\ \A i \in DOMAIN objects[o].appendCh :
          pc[objects[o].appendCh[i].by] = "wait" /\ object[objects[o].appendCh[i].by] = o
    /\ \A i, j \in DOMAIN objects[o].appendCh :
          objects[o].appendCh[i].by = objects[o].appendCh[j].by => i = j
    /\ objects[o].writer = "stopped" =>
          \A i \in DOMAIN objects[o].appendCh : objects[o].appendCh[i].late
    /\ objects[o].log = "closed" => objects[o].writer = "stopped"

Ended == phase \in {"locked", "down"} /\ ~expired

EndedInTime == Ended => \A h \in Handlers : pc[h] = "idle"

QueueInv == (\A o \in DOMAIN objects : QueueOK(o)) /\ EndedInTime

BrokerInv ==
    /\ RegistryTypeOK /\ HandlerTypeOK /\ ShutdownTypeOK
    /\ NamesInv /\ QueueInv /\ ShutdownClosesRegistered

(* An element of a sequence.                                               *)
LEMMA ElementOfSeq ==
    ASSUME NEW S, NEW s \in Seq(S), NEW i \in DOMAIN s
    PROVE  s[i] \in S
  OBVIOUS

(* The requests of a queue come from handlers.                             *)
LEMMA ObjectFacts ==
    ASSUME objects \in Seq(Object), NEW o \in DOMAIN objects
    PROVE  /\ objects[o] \in Object
           /\ objects[o].name \in Names /\ objects[o].closeCh \in BOOLEAN
           /\ objects[o].writer \in {"loop", "drain", "stopped"}
           /\ objects[o].log \in {"open", "closed"}
           /\ objects[o].appendCh \in Seq([by : Handlers, late : BOOLEAN])
           /\ \A i \in DOMAIN objects[o].appendCh : objects[o].appendCh[i].by \in Handlers
<1>1. objects[o] \in Object
  OBVIOUS
<1>2. /\ objects[o].name \in Names /\ objects[o].closeCh \in BOOLEAN
      /\ objects[o].writer \in {"loop", "drain", "stopped"}
      /\ objects[o].log \in {"open", "closed"}
      /\ objects[o].appendCh \in Seq([by : Handlers, late : BOOLEAN])
  BY <1>1 DEF Object
<1>3. ASSUME NEW i \in DOMAIN objects[o].appendCh
      PROVE  objects[o].appendCh[i].by \in Handlers
  <2>1. objects[o].appendCh[i] \in [by : Handlers, late : BOOLEAN]
    BY <1>2, ElementOfSeq, Zenon
  <2> QED
    BY <2>1
<1> QED
  BY <1>1, <1>2, <1>3

(* A step on one object.                                                   *)
LEMMA ObjectChanged ==
    ASSUME objects \in Seq(Object), NEW o \in DOMAIN objects, NEW v \in Object,
           objects' = [objects EXCEPT ![o] = v]
    PROVE  /\ objects' \in Seq(Object) /\ DOMAIN objects' = DOMAIN objects
           /\ objects'[o] = v
           /\ \A p \in DOMAIN objects : p # o => objects'[p] = objects[p]
  OBVIOUS

(* A queue that a step does not touch, while its handlers stay in it.      *)
LEMMA QueueUntouched ==
    ASSUME objects \in Seq(Object), NEW o \in DOMAIN objects, QueueOK(o), objects'[o] = objects[o],
           phase' = phase \/ phase' \in {"locked", "down"},
           \A h \in Handlers :
              pc[h] = "wait" /\ object[h] = o => pc'[h] = "wait" /\ object'[h] = o
    PROVE  QueueOK(o)'
<1>1. \A i \in DOMAIN objects[o].appendCh : objects[o].appendCh[i].by \in Handlers
  BY ObjectFacts
<1> QED
  BY <1>1 DEF QueueOK

(* A step that changes no topic in its part of the registry's state.       *)
LEMMA SameRegistryType ==
    ASSUME RegistryTypeOK, UNCHANGED <<autoCreate, meta, metaFile, topics, unopened>>,
           SameNames, objects' \in Seq(Object),
           \A o \in DOMAIN objects' : Len(objects'[o].appendCh) <= QueueCap
    PROVE  RegistryTypeOK'
  BY DEF RegistryTypeOK, SameNames

(* A step in which only the handler h moves, to or from neither opening    *)
(* a topic nor waiting for a writer.                                       *)
LEMMA HandlerMoves ==
    ASSUME BrokerInv, NEW h \in Handlers, pc[h] \in {"idle", "find", "append"},
           phase \in {"up", "stopping"} \/ expired, NEW t \in Names \cup {NoTopic}, NEW o,
           NEW where \in {"idle", "find", "append"}, Goto(h, where, t, o),
           o = 0 \/ o \in DOMAIN objects,
           where = "find" => t \in Names, where = "append" => o \in DOMAIN objects,
           UNCHANGED <<autoCreate, registryVars, shutdownVars>>
    PROVE  BrokerInv'
<1>1. /\ RegistryTypeOK /\ HandlerTypeOK /\ ShutdownTypeOK
      /\ NamesInv /\ QueueInv /\ ShutdownClosesRegistered
  BY DEF BrokerInv
<1>2. UNCHANGED <<autoCreate, meta, metaFile, topics, objects, unopened, phase, expired>>
  BY DEF registryVars, shutdownVars
<1>3. o \in Nat
  BY <1>1 DEF RegistryTypeOK
<1>4. /\ HandlerTypeOK' /\ pc'[h] = where
      /\ \A g \in Handlers :
            g # h => pc'[g] = pc[g] /\ topic'[g] = topic[g] /\ object'[g] = object[g]
  BY <1>1, <1>2, <1>3, GotoFacts
<1>5. RegistryTypeOK' /\ ShutdownTypeOK'
  BY <1>1, <1>2 DEF RegistryTypeOK, ShutdownTypeOK
<1>6. NamesInv'
  <2>1. SameNames /\ SameOpeners
    BY <1>2, <1>4 DEF SameNames, SameOpeners
  <2> QED
    BY <1>1, <1>2, <2>1, SameRegistry
<1>7. QueueInv'
  <2>1. ASSUME NEW q \in DOMAIN objects'
        PROVE  QueueOK(q)'
    <3>1. \A g \in Handlers :
            pc[g] = "wait" /\ object[g] = q => pc'[g] = "wait" /\ object'[g] = q
      BY <1>4
    <3>2. objects \in Seq(Object) /\ q \in DOMAIN objects /\ QueueOK(q) /\ objects'[q] = objects[q]
      BY <1>1, <1>2 DEF RegistryTypeOK, QueueInv
    <3> QED
      BY <1>2, <3>1, <3>2, QueueUntouched
  <2>2. EndedInTime'
    BY <1>2 DEF EndedInTime, Ended
  <2> QED
    BY <2>1, <2>2 DEF QueueInv
<1>8. ShutdownClosesRegistered'
  BY <1>1, <1>2 DEF ShutdownClosesRegistered, Displaced
<1> QED
  BY <1>4, <1>5, <1>6, <1>7, <1>8 DEF BrokerInv

(* Before Shutdown has waited for its connections in vain or in time.      *)
LEMMA NotEnded ==
    ASSUME ~Ended, UNCHANGED shutdownVars
    PROVE  EndedInTime' /\ ShutdownClosesRegistered'
  BY DEF Ended, shutdownVars, EndedInTime, ShutdownClosesRegistered

(* A new topic's queue is empty.                                           *)
LEMMA RegisterKeepsQueues ==
    ASSUME RegistryTypeOK, QueueInv, ~Ended, UNCHANGED shutdownVars,
           NEW t \in Names, Register(t),
           \A g \in Handlers : pc[g] = "wait" => pc'[g] = "wait" /\ object'[g] = object[g]
    PROVE  QueueInv' /\ ShutdownClosesRegistered'
<1>1. PICK n :
        /\ DOMAIN objects' = DOMAIN objects \cup {n}
        /\ objects'[n] = NewTopic(t)
        /\ \A o \in DOMAIN objects : objects'[o] = objects[o]
        /\ objects \in Seq(Object)
  BY RegisterFacts, Zenon DEF RegistryTypeOK
<1>2. ASSUME NEW o \in DOMAIN objects
      PROVE  QueueOK(o)'
  BY <1>1, QueueUntouched DEF QueueInv, shutdownVars
<1>3. QueueOK(n)'
  BY <1>1 DEF NewTopic, QueueOK
<1> QED
  BY <1>1, <1>2, <1>3, NotEnded DEF QueueInv

(* getOrCreateTopic.                                                       *)
LEMMA GetOrCreateStep ==
    ASSUME BrokerInv, NEW h \in Handlers, NEW t \in Names, pc[h] \in {"idle", "find"},
           phase \in {"up", "stopping"} \/ expired, getOrCreateTopic(h, t)
    PROVE  BrokerInv'
<1>1. /\ RegistryTypeOK /\ HandlerTypeOK /\ ShutdownTypeOK
      /\ NamesInv /\ QueueInv /\ ShutdownClosesRegistered
  BY DEF BrokerInv
<1>2. UNCHANGED <<autoCreate, shutdownVars>>
  BY DEF getOrCreateTopic
<1>3. ASSUME NEW o, Opened(h, o)
      PROVE  Goto(h, "idle", NoTopic, 0) \/ Goto(h, "append", NoTopic, o)
  BY <1>3 DEF Opened, Answer
<1>4. ShutdownTypeOK' /\ ~Ended
  BY <1>1, <1>2 DEF ShutdownTypeOK, Ended, shutdownVars
<1>5. CASE t \in DOMAIN topics /\ Opened(h, topics[t]) /\ UNCHANGED registryVars
  <2>1. topics[t] \in DOMAIN objects
    BY <1>1, <1>5 DEF RegistryTypeOK
  <2>2. CASE Goto(h, "idle", NoTopic, 0)
    BY <1>2, <1>5, <2>2, HandlerMoves
  <2>3. CASE Goto(h, "append", NoTopic, topics[t])
    BY <1>2, <1>5, <2>1, <2>3, HandlerMoves
  <2> QED
    BY <1>3, <1>5, <2>2, <2>3
<1>6. CASE Answer(h) /\ UNCHANGED registryVars
  <2>1. Goto(h, "idle", NoTopic, 0)
    BY <1>6 DEF Answer
  <2> QED
    BY <1>2, <1>6, <2>1, HandlerMoves
<1>7. CASE /\ t \notin DOMAIN topics /\ autoCreate /\ (Created(t) \/ Exists(t))
           /\ Register(t) /\ Opened(h, Len(objects'))
  <2>1. meta' = meta \cup {t} /\ metaFile' = meta'
    BY <1>1, <1>7 DEF Created, Exists, NamesInv, RegistryInv
  <2>2. /\ objects' \in Seq(Object) /\ DOMAIN objects \subseteq DOMAIN objects'
        /\ Len(objects') \in DOMAIN objects' /\ Len(objects') \in Nat
        /\ \A o \in DOMAIN objects' : Len(objects'[o].appendCh) <= QueueCap
        /\ topics' \in [DOMAIN topics' -> DOMAIN objects']
        /\ \A x \in DOMAIN topics' : objects'[topics'[x]].name = x
    BY <1>1, <1>7, RegisterFacts, Zenon
  <2>3. /\ HandlerTypeOK' /\ pc'[h] \in {"idle", "append"}
        /\ \A g \in Handlers :
              g # h => pc'[g] = pc[g] /\ topic'[g] = topic[g] /\ object'[g] = object[g]
    <3>1. CASE Goto(h, "idle", NoTopic, 0)
      BY <1>1, <2>2, <3>1, GotoFacts, Zenon
    <3>2. CASE Goto(h, "append", NoTopic, Len(objects'))
      BY <1>1, <2>2, <3>2, GotoFacts
    <3> QED
      BY <1>3, <1>7, <3>1, <3>2
  <2>4. SameOpeners
    BY <2>3 DEF SameOpeners
  <2>5. NamesInv'
    BY <1>1, <1>2, <1>7, <2>1, <2>4, RegisterMissing
  <2>6. RegistryTypeOK'
    <3>1. unopened' \subseteq meta'
      BY <1>1, <1>7, <2>1 DEF Register, RegistryTypeOK
    <3>2. autoCreate' \in BOOLEAN /\ meta' \subseteq Names /\ metaFile' \subseteq Names
      BY <1>1, <1>2, <2>1 DEF RegistryTypeOK
    <3> QED
      BY <2>2, <3>1, <3>2 DEF RegistryTypeOK
  <2>7. \A g \in Handlers : pc[g] = "wait" => pc'[g] = "wait" /\ object'[g] = object[g]
    BY <2>3
  <2>8. QueueInv' /\ ShutdownClosesRegistered'
    BY <1>1, <1>2, <1>4, <1>7, <2>7, RegisterKeepsQueues
  <2> QED
    BY <1>4, <2>3, <2>5, <2>6, <2>8 DEF BrokerInv
<1>8. CASE SaveFails(t) /\ Answer(h) /\ UNCHANGED <<topics, objects, unopened>>
  <2>1. UNCHANGED registryVars
    BY <1>8 DEF SaveFails, registryVars
  <2> QED
    BY <1>6, <1>8, <2>1
<1>9. CASE /\ meta' = meta \cup {t} /\ metaFile' = meta'
           /\ unopened' = unopened \cup {t} /\ Answer(h) /\ UNCHANGED <<topics, objects>>
  <2>1. Goto(h, "idle", NoTopic, 0)
    BY <1>9 DEF Answer
  <2>2. /\ HandlerTypeOK' /\ pc'[h] = "idle"
        /\ \A g \in Handlers :
              g # h => pc'[g] = pc[g] /\ topic'[g] = topic[g] /\ object'[g] = object[g]
    BY <1>1, <1>9, <2>1, GotoFacts
  <2>3. SameOpeners
    BY <2>2 DEF SameOpeners
  <2>4. NamesInv'
    BY <1>1, <1>2, <1>9, <2>3, MissingNotOpened
  <2>5. RegistryTypeOK'
    BY <1>1, <1>2, <1>9 DEF RegistryTypeOK
  <2>6. QueueInv'
    <3>1. ASSUME NEW q \in DOMAIN objects'
          PROVE  QueueOK(q)'
      <4>1. objects \in Seq(Object) /\ q \in DOMAIN objects /\ QueueOK(q) /\ objects'[q] = objects[q]
        BY <1>1, <1>9 DEF RegistryTypeOK, QueueInv
      <4>2. \A g \in Handlers :
              pc[g] = "wait" /\ object[g] = q => pc'[g] = "wait" /\ object'[g] = q
        BY <2>2
      <4>3. phase' = phase
        BY <1>2 DEF shutdownVars
      <4> QED
        BY <4>1, <4>2, <4>3, QueueUntouched
    <3> QED
      BY <1>2, <1>4, <3>1, NotEnded DEF QueueInv
  <2> QED
    BY <1>2, <1>4, <2>2, <2>4, <2>5, <2>6, NotEnded DEF BrokerInv
<1> QED
  BY <1>5, <1>6, <1>7, <1>8, <1>9 DEF getOrCreateTopic

(* A handler that is at work has a connection Shutdown has not waited for. *)
LEMMA BusyNotEnded ==
    ASSUME BrokerInv, NEW h \in Handlers, pc[h] # "idle"
    PROVE  ~Ended /\ (phase \in {"up", "stopping"} \/ expired)
  BY DEF BrokerInv, QueueInv, EndedInTime, Ended, ShutdownTypeOK

(* A step that leaves the objects alone, and those who wait in them.       *)
LEMMA SameObjects ==
    ASSUME RegistryTypeOK, QueueInv, ~Ended, UNCHANGED <<objects, shutdownVars>>,
           \A g \in Handlers : pc[g] = "wait" => pc'[g] = "wait" /\ object'[g] = object[g]
    PROVE  QueueInv' /\ ShutdownClosesRegistered'
<1>1. ASSUME NEW o \in DOMAIN objects
      PROVE  QueueOK(o)'
  <2>1. objects \in Seq(Object) /\ QueueOK(o) /\ objects'[o] = objects[o] /\ phase' = phase
    BY DEF RegistryTypeOK, QueueInv, shutdownVars
  <2> QED
    BY <2>1, QueueUntouched
<1> QED
  BY <1>1, NotEnded DEF QueueInv

(* handleCreateTopics.                                                     *)
LEMMA CreateTopicsStep ==
    ASSUME BrokerInv, NEW h \in Handlers, NEW t \in Names, handleCreateTopics(h, t)
    PROVE  BrokerInv'
<1>1. /\ RegistryTypeOK /\ HandlerTypeOK /\ ShutdownTypeOK
      /\ NamesInv /\ QueueInv /\ ShutdownClosesRegistered
  BY DEF BrokerInv
<1>2. /\ pc[h] = "idle" /\ (phase \in {"up", "stopping"} \/ expired)
      /\ UNCHANGED <<autoCreate, topics, objects, unopened, shutdownVars>>
  BY DEF handleCreateTopics, CanRequest
<1>3. ~Ended /\ ShutdownTypeOK'
  BY <1>1, <1>2 DEF Ended, ShutdownTypeOK, shutdownVars
<1>4. CASE Created(t) /\ Goto(h, "open", t, 0)
  <2>1. /\ HandlerTypeOK' /\ pc'[h] = "open" /\ topic'[h] = t
        /\ \A g \in Handlers :
              g # h => pc'[g] = pc[g] /\ topic'[g] = topic[g] /\ object'[g] = object[g]
    BY <1>1, <1>2, <1>4, GotoFacts
  <2>2. t \notin meta /\ meta' = meta \cup {t} /\ metaFile' = meta'
    BY <1>4 DEF Created
  <2>3. NamesInv'
    BY <1>1, <1>2, <2>1, <2>2, CreatedToOpen
  <2>4. RegistryTypeOK'
    BY <1>1, <1>2, <2>2 DEF RegistryTypeOK
  <2>5. QueueInv' /\ ShutdownClosesRegistered'
    BY <1>1, <1>2, <1>3, <2>1, SameObjects
  <2> QED
    BY <1>3, <2>1, <2>3, <2>4, <2>5 DEF BrokerInv
<1>5. CASE (Exists(t) \/ SaveFails(t)) /\ Answer(h)
  <2>1. UNCHANGED registryVars /\ Goto(h, "idle", NoTopic, 0)
    BY <1>2, <1>5 DEF Exists, SaveFails, Answer, registryVars
  <2> QED
    BY <1>2, <2>1, HandlerMoves
<1> QED
  BY <1>4, <1>5 DEF handleCreateTopics

(* The last section of handleCreateTopics.                                 *)
LEMMA OpenCreatedStep ==
    ASSUME BrokerInv, NEW h \in Handlers, OpenCreated(h)
    PROVE  BrokerInv'
<1>1. /\ RegistryTypeOK /\ HandlerTypeOK /\ ShutdownTypeOK
      /\ NamesInv /\ QueueInv /\ ShutdownClosesRegistered
  BY DEF BrokerInv
<1>2. /\ pc[h] = "open" /\ Goto(h, "idle", NoTopic, 0)
      /\ UNCHANGED <<autoCreate, meta, metaFile, shutdownVars>>
  BY DEF OpenCreated, Answer
<1>3. topic[h] \in Names /\ topic[h] \in meta
  BY <1>1, <1>2 DEF HandlerTypeOK, NamesInv, RegistryInv
<1>4. ~Ended /\ ShutdownTypeOK'
  BY <1>1, <1>2, BusyNotEnded DEF ShutdownTypeOK, shutdownVars
<1>5. ASSUME DOMAIN objects \subseteq DOMAIN objects'
      PROVE  /\ HandlerTypeOK' /\ pc'[h] = "idle"
             /\ \A g \in Handlers :
                   g # h => pc'[g] = pc[g] /\ topic'[g] = topic[g] /\ object'[g] = object[g]
  BY <1>1, <1>2, <1>5, GotoFacts
<1>6. CASE Register(topic[h])
  <2>1. /\ objects' \in Seq(Object) /\ DOMAIN objects \subseteq DOMAIN objects'
        /\ \A o \in DOMAIN objects' : Len(objects'[o].appendCh) <= QueueCap
        /\ topics' \in [DOMAIN topics' -> DOMAIN objects']
        /\ \A x \in DOMAIN topics' : objects'[topics'[x]].name = x
    BY <1>1, <1>3, <1>6, RegisterFacts, Zenon
  <2>2. /\ HandlerTypeOK' /\ pc'[h] = "idle"
        /\ \A g \in Handlers :
              g # h => pc'[g] = pc[g] /\ topic'[g] = topic[g] /\ object'[g] = object[g]
    BY <1>5, <2>1
  <2>3. NamesInv'
    BY <1>1, <1>2, <1>3, <1>6, <2>2, RegisterCreated
  <2>4. RegistryTypeOK'
    <3>1. unopened' \subseteq meta'
      BY <1>1, <1>2, <1>6 DEF Register, RegistryTypeOK
    <3> QED
      BY <1>1, <1>2, <2>1, <3>1 DEF RegistryTypeOK
  <2>5. QueueInv' /\ ShutdownClosesRegistered'
    BY <1>1, <1>2, <1>3, <1>4, <1>6, <2>2, RegisterKeepsQueues
  <2> QED
    BY <1>4, <2>2, <2>3, <2>4, <2>5 DEF BrokerInv
<1>7. CASE /\ unopened' = unopened \cup ({topic[h]} \ DOMAIN topics)
           /\ UNCHANGED <<topics, objects>>
  <2>1. /\ HandlerTypeOK' /\ pc'[h] = "idle"
        /\ \A g \in Handlers :
              g # h => pc'[g] = pc[g] /\ topic'[g] = topic[g] /\ object'[g] = object[g]
    BY <1>5, <1>7
  <2>2. NamesInv'
    BY <1>1, <1>2, <1>7, <2>1, CreatedNotOpened
  <2>3. RegistryTypeOK'
    BY <1>1, <1>2, <1>3, <1>7 DEF RegistryTypeOK
  <2>4. QueueInv' /\ ShutdownClosesRegistered'
    BY <1>1, <1>2, <1>4, <1>7, <2>1, SameObjects
  <2> QED
    BY <1>4, <2>1, <2>2, <2>3, <2>4 DEF BrokerInv
<1> QED
  BY <1>6, <1>7 DEF OpenCreated

(* AppendBatch puts a request into the queue.                              *)
LEMMA EnqueueStep ==
    ASSUME BrokerInv, NEW h \in Handlers, Enqueue(h)
    PROVE  BrokerInv'
<1>0. PICK o : o = object[h]
  OBVIOUS
<1> DEFINE r == [by |-> h, late |-> objects[o].closeCh]
           q == objects[o].appendCh
           v == [objects[o] EXCEPT !.appendCh = Append(q, r)]
<1>1. /\ RegistryTypeOK /\ HandlerTypeOK /\ ShutdownTypeOK
      /\ NamesInv /\ QueueInv /\ ShutdownClosesRegistered
  BY DEF BrokerInv
<1>2. /\ pc[h] = "append" /\ Len(q) < QueueCap
      /\ objects' = [objects EXCEPT ![o] = v]
      /\ Goto(h, "wait", NoTopic, o)
      /\ UNCHANGED <<autoCreate, meta, metaFile, topics, unopened, phase, expired>>
  BY <1>0 DEF Enqueue, shutdownVars
<1>3. ~Ended /\ ShutdownTypeOK' /\ UNCHANGED shutdownVars
  BY <1>1, <1>2, BusyNotEnded DEF ShutdownTypeOK, shutdownVars
<1>4. o \in DOMAIN objects /\ o \in Nat /\ objects \in Seq(Object)
  BY <1>0, <1>1, <1>2 DEF HandlerTypeOK, RegistryTypeOK
<1>5. /\ objects[o] \in Object /\ objects[o].closeCh \in BOOLEAN
      /\ q \in Seq([by : Handlers, late : BOOLEAN])
  BY <1>4, ObjectFacts, Zenon
<1>6. r \in [by : Handlers, late : BOOLEAN] /\ r.by = h /\ r.late = objects[o].closeCh
  BY <1>5
<1> HIDE DEF q, r
<1>7. /\ Append(q, r) \in Seq([by : Handlers, late : BOOLEAN])
      /\ Len(Append(q, r)) = Len(q) + 1 /\ Len(q) \in Nat
      /\ DOMAIN Append(q, r) = DOMAIN q \cup {Len(q) + 1} /\ Len(q) + 1 \notin DOMAIN q
      /\ \A i \in DOMAIN q : Append(q, r)[i] = q[i]
      /\ Append(q, r)[Len(q) + 1] = r
  BY <1>5, <1>6
<1>8. v \in Object
  BY <1>5, <1>7, Zenon DEF Object
<1>9. /\ v.name = objects[o].name /\ v.closeCh = objects[o].closeCh
      /\ v.writer = objects[o].writer /\ v.log = objects[o].log
      /\ v.appendCh = Append(q, r)
  BY <1>5 DEF Object
<1> HIDE DEF v
<1>10. /\ objects' \in Seq(Object) /\ DOMAIN objects' = DOMAIN objects
       /\ objects'[o] = v
       /\ \A p \in DOMAIN objects : p # o => objects'[p] = objects[p]
  BY <1>2, <1>4, <1>8, ObjectChanged
<1>11. /\ HandlerTypeOK' /\ pc'[h] = "wait" /\ object'[h] = o
       /\ \A g \in Handlers :
             g # h => pc'[g] = pc[g] /\ topic'[g] = topic[g] /\ object'[g] = object[g]
  BY <1>1, <1>2, <1>4, <1>10, GotoFacts
<1>12. SameNames /\ SameOpeners
  BY <1>2, <1>9, <1>10, <1>11 DEF SameNames, SameOpeners
<1>13. NamesInv'
  BY <1>1, <1>2, <1>12, SameRegistry
<1>14. RegistryTypeOK'
  <2>1. Len(v.appendCh) <= QueueCap
    BY <1>2, <1>7, <1>9, BrokerAssumption
  <2>2. \A p \in DOMAIN objects' : Len(objects'[p].appendCh) <= QueueCap
    BY <1>1, <1>10, <2>1 DEF RegistryTypeOK
  <2> QED
    BY <1>1, <1>2, <1>10, <1>12, <2>2, SameRegistryType
<1>15. ASSUME NEW p \in DOMAIN objects, p # o
       PROVE  QueueOK(p)'
  <2>1. QueueOK(p) /\ objects'[p] = objects[p]
    BY <1>1, <1>10, <1>15 DEF QueueInv
  <2>2. \A g \in Handlers :
          pc[g] = "wait" /\ object[g] = p => pc'[g] = "wait" /\ object'[g] = p
    BY <1>2, <1>11, SMTT(20)
  <2> QED
    BY <1>2, <1>4, <2>1, <2>2, QueueUntouched
<1>16. QueueOK(o)'
  <2>1. /\ objects[o].writer # "loop" => objects[o].closeCh
        /\ objects[o].closeCh => phase \in {"locked", "down"}
        /\ \A i \in DOMAIN q : pc[q[i].by] = "wait" /\ object[q[i].by] = o
        /\ \A i, j \in DOMAIN q : q[i].by = q[j].by => i = j
        /\ objects[o].writer = "stopped" => \A i \in DOMAIN q : q[i].late
        /\ objects[o].log = "closed" => objects[o].writer = "stopped"
        /\ \A i \in DOMAIN q : q[i].by \in Handlers
    BY <1>1, <1>4, ObjectFacts DEF QueueInv, QueueOK, q
  <2>2. \A i \in DOMAIN q : q[i].by # h
    BY <1>2, <2>1
  <2> DEFINE w == Append(q, r)
  <2>3. ASSUME NEW i \in DOMAIN w
        PROVE  /\ pc'[w[i].by] = "wait" /\ object'[w[i].by] = o
               /\ objects[o].writer = "stopped" => w[i].late
    <3>1. CASE i \in DOMAIN q
      BY <1>7, <1>11, <2>1, <2>2, <3>1
    <3>2. CASE i = Len(q) + 1
      BY <1>6, <1>7, <1>11, <2>1, <3>2
    <3> QED
      BY <1>7, <3>1, <3>2, Zenon
  <2>4. \A i, j \in DOMAIN w : w[i].by = w[j].by => i = j
    BY <1>6, <1>7, <2>1, <2>2
  <2> HIDE DEF w
  <2>5. objects'[o].appendCh = w
    BY <1>9, <1>10 DEF w
  <2> QED
    BY <1>2, <1>9, <1>10, <2>1, <2>3, <2>4, <2>5 DEF QueueOK
<1>17. QueueInv' /\ ShutdownClosesRegistered'
  BY <1>3, <1>10, <1>15, <1>16, NotEnded DEF QueueInv
<1> QED
  BY <1>3, <1>11, <1>13, <1>14, <1>17 DEF BrokerInv

(* A step of a writer or of Close on one object, its queue aside.          *)
LEMMA ObjectStep ==
    ASSUME BrokerInv, NEW o \in DOMAIN objects, NEW v \in Object,
           objects' = [objects EXCEPT ![o] = v],
           v.name = objects[o].name, v.appendCh = objects[o].appendCh,
           v.writer # "loop" => v.closeCh,
           v.closeCh => phase \in {"locked", "down"},
           v.writer = "stopped" =>
              \A i \in DOMAIN objects[o].appendCh : objects[o].appendCh[i].late,
           v.log = "closed" => v.writer = "stopped",
           objects[o].log = "closed" => v.log = "closed",
           UNCHANGED <<autoCreate, meta, metaFile, topics, unopened, handlerVars, shutdownVars>>
    PROVE  BrokerInv'
<1>1. /\ RegistryTypeOK /\ HandlerTypeOK /\ ShutdownTypeOK
      /\ NamesInv /\ QueueInv /\ ShutdownClosesRegistered /\ objects \in Seq(Object)
  BY DEF BrokerInv, RegistryTypeOK
<1>2. UNCHANGED <<pc, topic, object, phase, expired>>
  BY DEF handlerVars, shutdownVars
<1>3. /\ objects' \in Seq(Object) /\ DOMAIN objects' = DOMAIN objects
      /\ objects'[o] = v
      /\ \A p \in DOMAIN objects : p # o => objects'[p] = objects[p]
  BY <1>1, ObjectChanged
<1>4. HandlerTypeOK' /\ ShutdownTypeOK'
  BY <1>1, <1>2, <1>3 DEF HandlerTypeOK, ShutdownTypeOK
<1>5. SameNames /\ SameOpeners
  BY <1>2, <1>3 DEF SameNames, SameOpeners
<1>6. NamesInv'
  BY <1>1, <1>5, SameRegistry
<1>7. RegistryTypeOK'
  <2>1. \A p \in DOMAIN objects' : Len(objects'[p].appendCh) <= QueueCap
    BY <1>1, <1>3 DEF RegistryTypeOK
  <2> QED
    BY <1>1, <1>3, <1>5, <2>1, SameRegistryType
<1>8. ASSUME NEW p \in DOMAIN objects, p # o
      PROVE  QueueOK(p)'
  <2>1. QueueOK(p) /\ objects'[p] = objects[p]
    BY <1>1, <1>3, <1>8 DEF QueueInv
  <2> QED
    BY <1>1, <1>2, <2>1, QueueUntouched
<1>9. QueueOK(o)'
  <2>1. QueueOK(o)
    BY <1>1 DEF QueueInv
  <2> QED
    BY <1>2, <1>3, <2>1 DEF QueueOK
<1>10. EndedInTime'
  BY <1>1, <1>2 DEF QueueInv, EndedInTime, Ended
<1>11. ShutdownClosesRegistered'
  BY <1>1, <1>2, <1>3 DEF ShutdownClosesRegistered, Displaced
<1> QED
  BY <1>3, <1>4, <1>6, <1>7, <1>8, <1>9, <1>10, <1>11 DEF BrokerInv, QueueInv

(* The writer leaves its loop, and stops once its queue is empty.          *)
LEMMA WriterMovesStep ==
    ASSUME BrokerInv, NEW o \in DOMAIN objects, WriterDrains(o) \/ WriterStops(o)
    PROVE  BrokerInv'
<1>1. objects[o] \in Object /\ QueueOK(o)
  BY ObjectFacts DEF BrokerInv, RegistryTypeOK, QueueInv
<1>2. PICK to \in {"drain", "stopped"} :
        /\ objects' = [objects EXCEPT ![o] = [objects[o] EXCEPT !.writer = to]]
        /\ UNCHANGED <<autoCreate, meta, metaFile, topics, unopened, handlerVars, shutdownVars>>
        /\ objects[o].writer = "loop" => objects[o].closeCh /\ to = "drain"
        /\ to = "stopped" => objects[o].appendCh = <<>>
        /\ objects[o].writer \in {"loop", "drain"}
  BY DEF WriterDrains, WriterStops, WriterMoves
<1> DEFINE v == [objects[o] EXCEPT !.writer = to]
<1>3. /\ v \in Object
      /\ v.name = objects[o].name /\ v.appendCh = objects[o].appendCh
      /\ v.closeCh = objects[o].closeCh /\ v.log = objects[o].log /\ v.writer = to
  BY <1>1 DEF Object
<1> HIDE DEF v
<1>4. objects' = [objects EXCEPT ![o] = v]
  BY <1>2 DEF v
<1>5. /\ v.closeCh /\ (v.closeCh => phase \in {"locked", "down"})
      /\ v.log # "closed"
  BY <1>1, <1>2, <1>3 DEF QueueOK
<1>6. v.writer = "stopped" =>
        \A i \in DOMAIN objects[o].appendCh : objects[o].appendCh[i].late
  BY <1>2, <1>3
<1> QED
  BY <1>2, <1>3, <1>4, <1>5, <1>6, ObjectStep, Zenon

(* Partition.Close closes closeCh, waits for the writer and closes the log. *)
LEMMA CloseStep ==
    ASSUME BrokerInv,
           \/ \E t \in DOMAIN topics : CloseTopic(t)
           \/ \E o \in DOMAIN objects : CloseLog(o)
    PROVE  BrokerInv'
<1>1. CASE \E t \in DOMAIN topics : CloseTopic(t)
  <2>1. PICK t \in DOMAIN topics : CloseTopic(t)
    BY <1>1
  <2>2. PICK o : o = topics[t]
    OBVIOUS
  <2>3. o \in DOMAIN objects
    BY <2>2 DEF BrokerInv, RegistryTypeOK
  <2> DEFINE v == [objects[o] EXCEPT !.closeCh = TRUE]
  <2>4. /\ phase = "locked" /\ objects' = [objects EXCEPT ![o] = v]
        /\ UNCHANGED <<autoCreate, meta, metaFile, topics, unopened, handlerVars, shutdownVars>>
    BY <2>1, <2>2 DEF CloseTopic
  <2>5. objects[o] \in Object /\ QueueOK(o)
    BY <2>3, ObjectFacts DEF BrokerInv, RegistryTypeOK, QueueInv
  <2>6. /\ v \in Object /\ v.closeCh
        /\ v.name = objects[o].name /\ v.appendCh = objects[o].appendCh
        /\ v.writer = objects[o].writer /\ v.log = objects[o].log
    BY <2>5, Zenon DEF Object
  <2> HIDE DEF v
  <2>7. /\ v.writer = "stopped" =>
             \A i \in DOMAIN objects[o].appendCh : objects[o].appendCh[i].late
        /\ v.log = "closed" => v.writer = "stopped"
    BY <2>5, <2>6 DEF QueueOK
  <2> QED
    BY <2>3, <2>4, <2>6, <2>7, ObjectStep, Zenon
<1>2. CASE \E o \in DOMAIN objects : CloseLog(o)
  <2>1. PICK o \in DOMAIN objects : CloseLog(o)
    BY <1>2
  <2> DEFINE v == [objects[o] EXCEPT !.log = "closed"]
  <2>2. /\ objects[o].closeCh /\ objects[o].writer = "stopped"
        /\ objects' = [objects EXCEPT ![o] = v]
        /\ UNCHANGED <<autoCreate, meta, metaFile, topics, unopened, handlerVars, shutdownVars>>
    BY <2>1 DEF CloseLog, Closing
  <2>3. objects[o] \in Object /\ QueueOK(o)
    BY ObjectFacts DEF BrokerInv, RegistryTypeOK, QueueInv
  <2>4. /\ v \in Object /\ v.log = "closed"
        /\ v.name = objects[o].name /\ v.appendCh = objects[o].appendCh
        /\ v.writer = objects[o].writer /\ v.closeCh = objects[o].closeCh
    BY <2>3 DEF Object
  <2> HIDE DEF v
  <2>5. /\ v.closeCh => phase \in {"locked", "down"}
        /\ v.writer = "stopped" =>
             \A i \in DOMAIN objects[o].appendCh : objects[o].appendCh[i].late
    BY <2>3, <2>4 DEF QueueOK
  <2> QED
    BY <2>2, <2>4, <2>5, ObjectStep, Zenon
<1> QED
  BY <1>1, <1>2

(* The writer takes the first request of the queue; its handler answers.   *)
LEMMA WriterAppendStep ==
    ASSUME BrokerInv, NEW o \in DOMAIN objects, WriterAppend(o)
    PROVE  BrokerInv'
<1>1. /\ RegistryTypeOK /\ HandlerTypeOK /\ ShutdownTypeOK
      /\ NamesInv /\ QueueInv /\ ShutdownClosesRegistered
      /\ objects \in Seq(Object) /\ QueueOK(o)
  BY DEF BrokerInv, RegistryTypeOK, QueueInv
<1> DEFINE q == objects[o].appendCh
           v == [objects[o] EXCEPT !.appendCh = Tail(q)]
<1>2. PICK h : h = Head(q).by
  OBVIOUS
<1>3. /\ objects[o].writer \in {"loop", "drain"} /\ q # <<>>
      /\ objects' = [objects EXCEPT ![o] = v]
      /\ Goto(h, "idle", NoTopic, 0)
      /\ UNCHANGED <<autoCreate, meta, metaFile, topics, unopened, phase, expired>>
  BY <1>2 DEF WriterAppend, Answer, shutdownVars
<1>4. /\ objects[o] \in Object /\ q \in Seq([by : Handlers, late : BOOLEAN])
      /\ \A i \in DOMAIN q : q[i].by \in Handlers
  BY <1>1, ObjectFacts, Zenon
<1>5. /\ \A i \in DOMAIN q : pc[q[i].by] = "wait" /\ object[q[i].by] = o
      /\ \A i, j \in DOMAIN q : q[i].by = q[j].by => i = j
      /\ objects[o].writer # "loop" => objects[o].closeCh
      /\ objects[o].closeCh => phase \in {"locked", "down"}
      /\ objects[o].log = "closed" => objects[o].writer = "stopped"
  BY <1>1 DEF QueueOK
<1> HIDE DEF q
<1>6. /\ Tail(q) \in Seq([by : Handlers, late : BOOLEAN]) /\ Len(Tail(q)) = Len(q) - 1
      /\ Len(q) \in Nat /\ Len(q) >= 1 /\ DOMAIN q = 1..Len(q)
      /\ DOMAIN Tail(q) = 1..(Len(q) - 1)
      /\ \A i \in DOMAIN Tail(q) : Tail(q)[i] = q[i + 1]
      /\ Head(q) = q[1]
  BY <1>3, <1>4
<1>7. h = q[1].by /\ 1 \in DOMAIN q /\ h \in Handlers /\ pc[h] = "wait" /\ object[h] = o
  BY <1>2, <1>4, <1>5, <1>6
<1>8. /\ v \in Object /\ v.name = objects[o].name /\ v.appendCh = Tail(q)
      /\ v.closeCh = objects[o].closeCh /\ v.log = objects[o].log
      /\ v.writer = objects[o].writer
  BY <1>4, <1>6, Zenon DEF Object
<1> HIDE DEF v
<1>9. /\ objects' \in Seq(Object) /\ DOMAIN objects' = DOMAIN objects
      /\ objects'[o] = v
      /\ \A p \in DOMAIN objects : p # o => objects'[p] = objects[p]
  BY <1>1, <1>3, <1>8, ObjectChanged
<1>10. /\ HandlerTypeOK' /\ pc'[h] = "idle"
       /\ \A g \in Handlers :
             g # h => pc'[g] = pc[g] /\ topic'[g] = topic[g] /\ object'[g] = object[g]
  BY <1>1, <1>3, <1>7, <1>9, GotoFacts, Zenon
<1>11. SameNames /\ SameOpeners
  BY <1>7, <1>8, <1>9, <1>10, Zenon DEF SameNames, SameOpeners
<1>12. NamesInv'
  BY <1>1, <1>3, <1>11, SameRegistry
<1>13. RegistryTypeOK'
  <2>1. Len(v.appendCh) <= QueueCap
    <3>1. Len(q) <= QueueCap
      BY <1>1 DEF RegistryTypeOK, q
    <3> QED
      BY <1>6, <1>8, <3>1, BrokerAssumption
  <2>2. \A p \in DOMAIN objects' : Len(objects'[p].appendCh) <= QueueCap
    BY <1>1, <1>9, <2>1 DEF RegistryTypeOK
  <2> QED
    BY <1>1, <1>3, <1>9, <1>11, <2>2, SameRegistryType
<1>14. ASSUME NEW p \in DOMAIN objects, p # o
       PROVE  QueueOK(p)'
  <2>1. QueueOK(p) /\ objects'[p] = objects[p]
    BY <1>1, <1>9, <1>14 DEF QueueInv
  <2>2. \A g \in Handlers :
          pc[g] = "wait" /\ object[g] = p => pc'[g] = "wait" /\ object'[g] = p
    BY <1>7, <1>10, <1>14
  <2> QED
    BY <1>1, <1>3, <2>1, <2>2, QueueUntouched
<1>15. QueueOK(o)'
  <2> DEFINE w == Tail(q)
  <2>1. ASSUME NEW i \in DOMAIN w
        PROVE  i + 1 \in DOMAIN q /\ i + 1 # 1 /\ w[i] = q[i + 1] /\ i \in Nat
    BY <1>6
  <2>2. ASSUME NEW i \in DOMAIN w
        PROVE  pc'[w[i].by] = "wait" /\ object'[w[i].by] = o
    <3>1. w[i].by # h /\ w[i].by \in Handlers /\ pc[w[i].by] = "wait" /\ object[w[i].by] = o
      BY <1>4, <1>5, <1>7, <2>1
    <3> QED
      BY <1>10, <3>1, Zenon
  <2>3. ASSUME NEW i \in DOMAIN w, NEW j \in DOMAIN w, w[i].by = w[j].by
        PROVE  i = j
    <3>1. i + 1 = j + 1
      BY <1>5, <2>1, <2>3
    <3> QED
      BY <2>1, <3>1
  <2> HIDE DEF w
  <2>4. objects'[o].appendCh = w
    BY <1>8, <1>9 DEF w
  <2> QED
    BY <1>3, <1>5, <1>8, <1>9, <2>2, <2>3, <2>4 DEF QueueOK
<1>16. ~Ended /\ UNCHANGED shutdownVars /\ ShutdownTypeOK'
  BY <1>1, <1>3, <1>7, BusyNotEnded DEF shutdownVars, ShutdownTypeOK
<1>17. QueueInv' /\ ShutdownClosesRegistered'
  BY <1>9, <1>14, <1>15, <1>16, NotEnded DEF QueueInv
<1> QED
  BY <1>10, <1>12, <1>13, <1>16, <1>17 DEF BrokerInv

(* Shutdown's own steps.                                                   *)
LEMMA PhaseStep ==
    ASSUME BrokerInv, ShutdownBegins \/ ConnectionsEnded \/ ContextExpires \/ ShutdownReturns
    PROVE  BrokerInv'
<1>1. /\ RegistryTypeOK /\ HandlerTypeOK /\ ShutdownTypeOK
      /\ NamesInv /\ QueueInv /\ ShutdownClosesRegistered /\ objects \in Seq(Object)
  BY DEF BrokerInv, RegistryTypeOK
<1>2. /\ UNCHANGED <<autoCreate, meta, metaFile, topics, objects, unopened, pc, topic, object>>
      /\ \/ phase = "up" /\ phase' = "stopping" /\ expired' = expired
         \/ /\ phase = "stopping" /\ phase' = "locked" /\ expired' = expired
            /\ \A h \in Handlers : pc[h] = "idle"
         \/ phase = "stopping" /\ phase' = "locked" /\ expired' = TRUE
         \/ /\ phase = "locked" /\ phase' = "down" /\ expired' = expired
            /\ \A t \in DOMAIN topics : objects[topics[t]].log = "closed"
  BY DEF ShutdownBegins, ConnectionsEnded, ContextExpires, ShutdownReturns, registryVars,
         handlerVars
<1>3. RegistryTypeOK' /\ HandlerTypeOK' /\ ShutdownTypeOK'
  BY <1>1, <1>2, Zenon DEF RegistryTypeOK, HandlerTypeOK, ShutdownTypeOK
<1>4. NamesInv'
  <2>1. SameNames /\ SameOpeners
    BY <1>2 DEF SameNames, SameOpeners
  <2> QED
    BY <1>1, <1>2, <2>1, SameRegistry
<1>5. QueueInv'
  <2>1. ASSUME NEW o \in DOMAIN objects
        PROVE  QueueOK(o)'
    BY <1>1, <1>2 DEF QueueInv, QueueOK
  <2>2. EndedInTime'
    BY <1>1, <1>2 DEF QueueInv, EndedInTime, Ended
  <2> QED
    BY <1>2, <2>1, <2>2 DEF QueueInv
<1>6. ShutdownClosesRegistered'
  <2> SUFFICES ASSUME phase' = "down", NEW o \in DOMAIN objects
               PROVE  objects[o].log = "closed" \/ topics[objects[o].name] # o
    BY <1>2 DEF ShutdownClosesRegistered, Displaced
  <2>1. \A t \in DOMAIN topics : objects[topics[t]].log = "closed"
    BY <1>2
  <2>2. objects[o].name \in DOMAIN topics
    BY <1>1 DEF NamesInv, RegistryInv
  <2> QED
    BY <2>1, <2>2
<1> QED
  BY <1>3, <1>4, <1>5, <1>6 DEF BrokerInv

(* A broker that opens the topics of its file and nothing else.            *)
Reopened ==
    /\ autoCreate \in BOOLEAN
    /\ meta \subseteq Names /\ IsFiniteSet(meta) /\ metaFile = meta /\ unopened = {}
    /\ objects \in Seq(Object)
    /\ \A o \in DOMAIN objects : objects[o] = NewTopic(objects[o].name)
    /\ \A o, p \in DOMAIN objects : objects[o].name = objects[p].name => o = p
    /\ \A o \in DOMAIN objects : objects[o].name \in meta
    /\ topics \in [meta -> DOMAIN objects]
    /\ \A t \in meta : objects[topics[t]].name = t
    /\ pc = [h \in Handlers |-> "idle"]
    /\ topic = [h \in Handlers |-> NoTopic]
    /\ object = [h \in Handlers |-> 0]
    /\ phase = "up" /\ expired = FALSE

(* Such a broker satisfies the invariant.                                  *)
LEMMA ReopenedInv == Reopened => BrokerInv
<1> SUFFICES ASSUME Reopened PROVE BrokerInv
  OBVIOUS
<1>1. /\ autoCreate \in BOOLEAN
      /\ meta \subseteq Names /\ IsFiniteSet(meta) /\ metaFile = meta /\ unopened = {}
      /\ objects \in Seq(Object)
      /\ \A o \in DOMAIN objects : objects[o] = NewTopic(objects[o].name)
      /\ \A o, p \in DOMAIN objects : objects[o].name = objects[p].name => o = p
      /\ \A o \in DOMAIN objects : objects[o].name \in meta
      /\ topics \in [meta -> DOMAIN objects] /\ DOMAIN topics = meta
      /\ \A t \in meta : objects[topics[t]].name = t
      /\ phase = "up" /\ expired = FALSE
  BY DEF Reopened
<1>2. /\ pc \in [Handlers -> {"idle", "find", "append", "wait", "open"}]
      /\ topic \in [Handlers -> Names \cup {NoTopic}]
      /\ object \in [Handlers -> Nat]
      /\ \A h \in Handlers : pc[h] = "idle"
  BY DEF Reopened
<1>3. \A o \in DOMAIN objects :
        /\ objects[o].appendCh = <<>> /\ objects[o].writer = "loop"
        /\ objects[o].closeCh = FALSE /\ objects[o].log = "open"
  BY <1>1 DEF NewTopic
<1>4. RegistryTypeOK
  <2>1. \A o \in DOMAIN objects : Len(objects[o].appendCh) <= QueueCap
    <3>1. Len(<<>>) <= QueueCap
      BY BrokerAssumption
    <3> QED
      BY <1>3, <3>1
  <2> QED
    BY <1>1, <2>1 DEF RegistryTypeOK
<1>5. HandlerTypeOK /\ ShutdownTypeOK
  BY <1>1, <1>2, Zenon DEF HandlerTypeOK, ShutdownTypeOK
<1>6. RegistryInv
  BY <1>1, <1>2 DEF RegistryInv
<1>7. CountInv
  <2>1. \A t : ~Opening(t)
    BY <1>2 DEF Opening
  <2>2. \A t : AtMostOne(t) /\ AtMostTwo(t)
    BY <1>1 DEF AtMostOne, AtMostTwo
  <2> QED
    BY <2>1, <2>2 DEF CountInv
<1>8. MetadataIsServed
  BY <1>1, SMTT(20) DEF MetadataIsServed
<1>9. QueueInv
  BY <1>1, <1>2, <1>3 DEF QueueInv, QueueOK, EndedInTime, Ended
<1>10. ShutdownClosesRegistered
  BY <1>1, Zenon DEF ShutdownClosesRegistered
<1> QED
  BY <1>4, <1>5, <1>6, <1>7, <1>8, <1>9, <1>10 DEF BrokerInv, NamesInv

(* The same of the state after a step.                                     *)
LEMMA ReopenedInvNext == Reopened' => BrokerInv'
  BY ReopenedInv, PTL

(* New opens each topic of topics.json once.                               *)
LEMMA RestartStep ==
    ASSUME BrokerInv, RestartBroker
    PROVE  BrokerInv'
<1> DEFINE n == Cardinality(metaFile)
           names == CHOOSE s \in Injection(1..n, metaFile) : TRUE
<1>1. /\ metaFile \subseteq Names /\ IsFiniteSet(metaFile) /\ autoCreate \in BOOLEAN
  BY DEF BrokerInv, RegistryTypeOK, NamesInv, RegistryInv
<1>2. /\ meta' = metaFile /\ metaFile' = metaFile /\ unopened' = {} /\ autoCreate' = autoCreate
      /\ objects' = [i \in DOMAIN names |-> NewTopic(names[i])]
      /\ topics' = [t \in metaFile |-> CHOOSE i \in DOMAIN names : names[i] = t]
      /\ pc' = [h \in Handlers |-> "idle"]
      /\ topic' = [h \in Handlers |-> NoTopic]
      /\ object' = [h \in Handlers |-> 0]
      /\ phase' = "up" /\ expired' = FALSE
  BY DEF RestartBroker
<1>3. n \in Nat /\ ExistsBijection(1..n, metaFile)
  BY <1>1, FS_CardinalityType
<1>4. Injection(1..n, metaFile) # {}
  BY <1>3 DEF ExistsBijection, Bijection
<1>5. names \in Injection(1..n, metaFile)
  BY <1>4
<1> HIDE DEF names
<1>6. names \in Surjection(1..n, metaFile)
  <2>1. Cardinality(1..n) = n
    BY <1>3, FS_Interval
  <2> QED
    BY <1>1, <1>5, <2>1, FS_Injection
<1> HIDE DEF n
<1>7. /\ names \in [1..n -> metaFile] /\ DOMAIN names = 1..n
      /\ \A i, j \in 1..n : names[i] = names[j] => i = j
      /\ \A t \in metaFile : \E i \in 1..n : names[i] = t
  BY <1>5, <1>6 DEF Injection, Surjection, IsInjective
<1>8. /\ DOMAIN objects' = 1..n
      /\ \A i \in 1..n : objects'[i] = NewTopic(names[i]) /\ objects'[i].name = names[i]
  BY <1>2, <1>7 DEF NewTopic
<1>9. objects' \in Seq(Object)
  <2>1. \A i \in 1..n : NewTopic(names[i]) \in Object
    BY <1>1, <1>7 DEF NewTopic, Object
  <2>2. objects' = [i \in 1..n |-> NewTopic(names[i])]
    BY <1>2, <1>7
  <2> QED
    BY <1>3, <2>1, <2>2 DEF n
<1>10. \A t \in metaFile : topics'[t] \in 1..n /\ names[topics'[t]] = t
  BY <1>2, <1>7
<1>11. topics' \in [metaFile -> DOMAIN objects']
  <2>1. topics' = [t \in metaFile |-> topics'[t]]
    BY <1>2, SMTT(20)
  <2> QED
    BY <1>8, <1>10, <2>1
<1>12. Reopened'
  BY <1>1, <1>2, <1>7, <1>8, <1>9, <1>10, <1>11 DEF Reopened
<1> QED
  BY <1>12, ReopenedInvNext

-----------------------------------------------------------------------------
(* The theorems.                                                           *)

Inv == StoreInv /\ BrokerInv

(* A new broker has no topics and an empty log of commits.                 *)
LEMMA InitInv == Init => Inv
<1> SUFFICES ASSUME Init PROVE Inv
  OBVIOUS
<1>1. Fresh
  <2>1. records = <<>> /\ flushed = 0 /\ appendErrors = 0
    BY DEF Init, StoreInit
  <2>2. records \in Seq(CommitRecord) /\ flushed = Len(records) /\ appendErrors \in Nat
    BY <2>1
  <2> QED
    BY <2>2 DEF Fresh, Init, StoreInit
<1>2. Reopened
  <2>1. /\ meta = {} /\ metaFile = {} /\ unopened = {} /\ objects = <<>>
        /\ topics = [t \in {} |-> 0]
        /\ autoCreate \in BOOLEAN
    BY BrokerAssumption DEF Init
  <2>2. objects \in Seq(Object) /\ DOMAIN objects = {} /\ IsFiniteSet(meta)
    BY <2>1, FS_EmptySet
  <2>3. topics \in [{} -> DOMAIN objects]
    BY <2>1
  <2> QED
    BY <2>1, <2>2, <2>3 DEF Reopened, Init
<1> QED
  BY <1>1, <1>2, FreshStore, ReopenedInv DEF Inv

(* Every step keeps the offset store in order.                             *)
LEMMA StoreStep == StoreInv /\ [Next]_vars => StoreInv'
<1> SUFFICES ASSUME StoreInv, [Next]_vars
             PROVE  StoreInv'
  OBVIOUS
<1>1. ASSUME UNCHANGED storeVars
      PROVE  StoreInv'
  <2>1. UNCHANGED <<cache, records, flushed, started, todo, current, oldVal, undoing,
                    appendErrors>>
    BY <1>1 DEF storeVars
  <2> QED
    BY <2>1 DEF StoreInv, StoreTypeOK, OwnPartitions, CommitsAtWork, CacheMatchesLog, Settled
<1>2. ASSUME NEW h \in Handlers, NEW t \in Names,
             handleProduce(h, t) \/ handleMetadata(h, t) \/ handleCreateTopics(h, t)
      PROVE  StoreInv'
  BY <1>1, <1>2 DEF handleProduce, handleMetadata, handleCreateTopics, getOrCreateTopic
<1>3. ASSUME NEW h \in Handlers, Handler(h)
      PROVE  StoreInv'
  BY <1>1, <1>3 DEF Handler, Enqueue, AppendRefused, MetadataCreates, OpenCreated,
                    getOrCreateTopic
<1>4. ASSUME NEW h \in Handlers, Commit(h)
      PROVE  StoreInv'
  <2>1. PICK p \in Partitions, v \in 0..MaxOffset :
          /\ \A g \in Handlers : p \notin DOMAIN todo[g]
          /\ handleOffsetCommit(h, [q \in {p} |-> v])
    BY <1>4, Zenon DEF Commit
  <2>2. v \in Nat
    OBVIOUS
  <2> QED
    BY <2>1, <2>2, CommitRequestKeepsStore, Zenon
<1>5. ASSUME NEW o \in DOMAIN objects, Writer(o)
      PROVE  StoreInv'
  BY <1>1, <1>5 DEF Writer, WriterAppend, WriterDrains, WriterStops, WriterMoves
<1>6. ASSUME Store
      PROVE  StoreInv'
  <2>1. CASE Flush
    BY <2>1, FlushKeepsStore
  <2>2. ASSUME NEW h \in Handlers, OffsetCommit(h)
        PROVE  StoreInv'
    BY <2>2, CommitCacheKeepsStore, CommitAppendKeepsStore, CommitAppendFailsKeepsStore,
       CommitUndoKeepsStore DEF OffsetCommit
  <2> QED
    BY <1>6, <2>1, <2>2 DEF Store
<1>7. ASSUME ShutdownBegins
      PROVE  StoreInv'
  BY <1>7, FlushKeepsStore DEF ShutdownBegins
<1>8. ASSUME Shutdown
      PROVE  StoreInv'
  BY <1>1, <1>8 DEF Shutdown, ConnectionsEnded, ContextExpires, ShutdownReturns, CloseTopic,
                    CloseLog
<1>9. ASSUME RestartBroker
      PROVE  StoreInv'
  BY <1>9, RestartKeepsStore DEF RestartBroker
<1>10. CASE UNCHANGED vars
  BY <1>1, <1>10 DEF vars
<1> QED
  BY <1>2, <1>3, <1>4, <1>5, <1>6, <1>7, <1>8, <1>9, <1>10 DEF Next

(* Every step keeps the registry, the handlers and the queues in order.    *)
LEMMA BrokerStep == BrokerInv /\ [Next]_vars => BrokerInv'
<1> SUFFICES ASSUME BrokerInv, [Next]_vars
             PROVE  BrokerInv'
  OBVIOUS
<1>1. ASSUME UNCHANGED <<autoCreate, registryVars, handlerVars, shutdownVars>>
      PROVE  BrokerInv'
  <2>1. UNCHANGED <<autoCreate, meta, metaFile, topics, objects, unopened, pc, topic, object,
                    phase, expired>>
    BY <1>1 DEF registryVars, handlerVars, shutdownVars
  <2>2. RegistryTypeOK' /\ HandlerTypeOK' /\ ShutdownTypeOK'
    BY <2>1, Zenon DEF BrokerInv, RegistryTypeOK, HandlerTypeOK, ShutdownTypeOK
  <2>3. SameNames /\ SameOpeners
    BY <2>1 DEF SameNames, SameOpeners
  <2>4. NamesInv'
    BY <2>1, <2>3, SameRegistry, SMTT(20) DEF BrokerInv
  <2>5. QueueInv'
    BY <2>1, SMTT(20) DEF BrokerInv, QueueInv, QueueOK, EndedInTime, Ended
  <2>6. ShutdownClosesRegistered'
    BY <2>1, SMTT(20) DEF BrokerInv, ShutdownClosesRegistered, Displaced
  <2> QED
    BY <2>2, <2>4, <2>5, <2>6 DEF BrokerInv
<1>2. ASSUME NEW h \in Handlers, NEW t \in Names, handleProduce(h, t)
      PROVE  BrokerInv'
  BY <1>2, GetOrCreateStep DEF handleProduce, CanRequest
<1>3. ASSUME NEW h \in Handlers, NEW t \in Names, handleMetadata(h, t)
      PROVE  BrokerInv'
  BY <1>3, HandlerMoves DEF handleMetadata, CanRequest
<1>4. ASSUME NEW h \in Handlers, NEW t \in Names, handleCreateTopics(h, t)
      PROVE  BrokerInv'
  BY <1>4, CreateTopicsStep
<1>5. ASSUME NEW h \in Handlers, Handler(h)
      PROVE  BrokerInv'
  <2>1. CASE Enqueue(h)
    BY <2>1, EnqueueStep
  <2>2. CASE AppendRefused(h)
    <3>1. /\ pc[h] = "append" /\ Goto(h, "idle", NoTopic, 0)
          /\ UNCHANGED <<autoCreate, registryVars, shutdownVars>>
      BY <2>2 DEF AppendRefused, Answer
    <3> QED
      BY <3>1, BusyNotEnded, HandlerMoves
  <2>3. CASE MetadataCreates(h)
    <3>1. pc[h] = "find" /\ getOrCreateTopic(h, topic[h])
      BY <2>3 DEF MetadataCreates
    <3>2. topic[h] \in Names /\ (phase \in {"up", "stopping"} \/ expired)
      BY <3>1, BusyNotEnded DEF BrokerInv, HandlerTypeOK
    <3> QED
      BY <3>1, <3>2, GetOrCreateStep
  <2>4. CASE OpenCreated(h)
    BY <2>4, OpenCreatedStep
  <2> QED
    BY <1>5, <2>1, <2>2, <2>3, <2>4 DEF Handler
<1>6. ASSUME NEW h \in Handlers, Commit(h)
      PROVE  BrokerInv'
  BY <1>1, <1>6 DEF Commit
<1>7. ASSUME NEW o \in DOMAIN objects, Writer(o)
      PROVE  BrokerInv'
  BY <1>7, WriterAppendStep, WriterMovesStep DEF Writer
<1>8. ASSUME Store
      PROVE  BrokerInv'
  BY <1>1, <1>8 DEF Store
<1>9. ASSUME ShutdownBegins \/ Shutdown
      PROVE  BrokerInv'
  BY <1>9, PhaseStep, CloseStep DEF Shutdown
<1>10. ASSUME RestartBroker
       PROVE  BrokerInv'
  BY <1>10, RestartStep
<1>11. CASE UNCHANGED vars
  BY <1>1, <1>11 DEF vars
<1> QED
  BY <1>2, <1>3, <1>4, <1>5, <1>6, <1>7, <1>8, <1>9, <1>10, <1>11 DEF Next

(* The invariant of the broker.                                            *)
LEMMA Invariant == Spec => []Inv
<1>1. Inv /\ [Next]_vars => Inv'
  BY StoreStep, BrokerStep DEF Inv
<1> QED
  BY InitInv, <1>1, PTL DEF Spec

(* Every state the broker reaches is well formed.                          *)
THEOREM TypeInvariant == Spec => []TypeOK
<1>1. Inv => TypeOK
  BY DEF Inv, StoreInv, BrokerInv, RegistryTypeOK, HandlerTypeOK, ShutdownTypeOK, TypeOK
<1> QED
  BY Invariant, <1>1, PTL

(* Whatever appends fail and wherever the process crashes: once a commit   *)
(* of a partition has returned, OffsetFetch answers what a restart would   *)
(* recover (offsets.go, Commit and Start), as long as no two handlers      *)
(* commit one partition at a time, which is how this module commits.       *)
THEOREM CacheAlwaysMatchesLog == Spec => []CacheMatchesLog
<1>1. Inv => CacheMatchesLog
  BY DEF Inv, StoreInv
<1> QED
  BY Invariant, <1>1, PTL

(* A topic that can be written to is in topics.json, whatever requests     *)
(* create it, whatever saves and opens fail (broker.go, getOrCreateTopic   *)
(* and handleCreateTopics; metadata.go, CreateTopic).                      *)
THEOREM ServedIsAlwaysSaved == Spec => []ServedIsSaved
<1>1. Inv => ServedIsSaved
  BY DEF Inv, BrokerInv, NamesInv, RegistryInv, ServedIsSaved
<1> QED
  BY Invariant, <1>1, PTL

(* And the other way round: a topic of the metadata is open, about to be   *)
(* opened by the request that created it, or could not be opened.          *)
THEOREM MetadataIsAlwaysServed == Spec => []MetadataIsServed
<1>1. Inv => MetadataIsServed
  BY DEF Inv, BrokerInv, NamesInv
<1> QED
  BY Invariant, <1>1, PTL

(* At most two elements.                                                   *)
LEMMA PairCardinality ==
    ASSUME NEW S, IsFiniteSet(S), NEW k \in {1, 2},
           \A x, y, z \in S : x = y \/ y = z \/ x = z,
           k = 1 => \A x, y \in S : x = y
    PROVE  Cardinality(S) <= k
<1>1. CASE S = {}
  BY <1>1, FS_EmptySet
<1>2. CASE S # {}
  <2>1. PICK x : x \in S
    BY <1>2
  <2>2. CASE S = {x}
    BY <2>2, FS_Singleton
  <2>3. CASE S # {x}
    <3>1. PICK y \in S : y # x
      BY <2>1, <2>3
    <3>2. S = {x} \cup {y} /\ k = 2
      BY <2>1, <3>1
    <3>3. IsFiniteSet({x}) /\ Cardinality({x}) = 1
      BY FS_Singleton, Zenon
    <3>4. Cardinality({x} \cup {y}) = 2
      BY <3>1, <3>3, FS_AddElement
    <3> QED
      BY <3>2, <3>4
  <2> QED
    BY <2>2, <2>3
<1> QED
  BY <1>1, <1>2

(* However creations interleave, a topic has at most one writer goroutine  *)
(* for each of the two ways to open it: two with automatic creation, one   *)
(* without (broker.go, getOrCreateTopic and handleCreateTopics).           *)
THEOREM WritersPerTopicAlways == Spec => []WritersPerTopic
<1>1. Inv => WritersPerTopic
  <2> SUFFICES ASSUME Inv, NEW t \in Names
               PROVE  Cardinality(OpenObjects(t)) <= IF autoCreate THEN 2 ELSE 1
    BY DEF WritersPerTopic
  <2>1. IsFiniteSet(OpenObjects(t))
    <3>1. objects \in Seq(Object)
      BY DEF Inv, BrokerInv, RegistryTypeOK
    <3>2. Len(objects) \in Nat /\ OpenObjects(t) \in SUBSET (1..Len(objects))
      BY <3>1 DEF OpenObjects
    <3>3. IsFiniteSet(1..Len(objects))
      BY <3>2, FS_Interval
    <3> QED
      BY <3>2, <3>3, FS_Subset
  <2>2. (autoCreate => AtMostTwo(t)) /\ (~autoCreate => AtMostOne(t))
    BY DEF Inv, BrokerInv, NamesInv, CountInv
  <2>3. /\ \A x, y, z \in OpenObjects(t) : x = y \/ y = z \/ x = z
        /\ ~autoCreate => \A x, y \in OpenObjects(t) : x = y
    BY <2>2 DEF AtMostOne, AtMostTwo, OpenObjects
  <2>4. CASE autoCreate
    BY <2>1, <2>3, <2>4, PairCardinality
  <2>5. CASE ~autoCreate
    BY <2>1, <2>3, <2>5, PairCardinality
  <2> QED
    BY <2>4, <2>5
<1> QED
  BY Invariant, <1>1, PTL

(* Partition.Close leaves no append request behind that was queued before  *)
(* it began, and a log is closed only when its writer is done with it      *)
(* (partition.go, writerLoop and Close).                                   *)
THEOREM QueuedBeforeCloseAlwaysDrained == Spec => [](QueuedBeforeCloseDrained /\ LogClosedLast)
<1>1. Inv => QueuedBeforeCloseDrained /\ LogClosedLast
  BY DEF Inv, BrokerInv, QueueInv, QueueOK, QueuedBeforeCloseDrained, LogClosedLast
<1> QED
  BY Invariant, <1>1, PTL

(* A handler waits for a writer that has stopped only if Shutdown's        *)
(* context expired before the connections had ended (server.go, Shutdown;  *)
(* partition.go, AppendBatch).                                             *)
THEOREM StrandedAlwaysAfterExpiry == Spec => []StrandedOnlyAfterExpiry
<1>1. Inv => StrandedOnlyAfterExpiry
  <2> SUFFICES ASSUME Inv, NEW h \in Handlers, Stranded(h)
               PROVE  expired
    BY DEF StrandedOnlyAfterExpiry
  <2>1. pc[h] = "wait" /\ objects[object[h]].writer = "stopped"
    BY DEF Stranded
  <2>2. object[h] \in DOMAIN objects
    BY <2>1 DEF Inv, BrokerInv, HandlerTypeOK
  <2>3. phase \in {"locked", "down"}
    BY <2>1, <2>2 DEF Inv, BrokerInv, QueueInv, QueueOK
  <2> QED
    BY <2>1, <2>3 DEF Inv, BrokerInv, QueueInv, EndedInTime, Ended, ShutdownTypeOK
<1> QED
  BY Invariant, <1>1, PTL

(* A Shutdown whose connections ended in time has closed every log it      *)
(* still knows of (broker.go, Shutdown).                                   *)
THEOREM ShutdownAlwaysClosesRegistered == Spec => []ShutdownClosesRegistered
<1>1. Inv => ShutdownClosesRegistered
  BY DEF Inv, BrokerInv
<1> QED
  BY Invariant, <1>1, PTL

=============================================================================
