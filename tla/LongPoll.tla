------------------------------ MODULE LongPoll ------------------------------
(***************************************************************************)
(* Long-poll fetches of a broker (internal/broker/broker.go handleFetch,   *)
(* registerListenerOn, notifyAppended, unregisterListener,                 *)
(* fetchTargetHasNewData) and the produce requests that wake them.         *)
(*                                                                         *)
(* A fetch registers one channel with room for one signal on every         *)
(* partition it asks for, looks for data, waits, and removes the channel.  *)
(* The channels of a partition are kept in a Go slice.  notifyAppended     *)
(* copies the slice under the lock and walks through it without, while     *)
(* registering and removing channels write to the array that both share;   *)
(* so the model keeps the arrays.  Reading an element while another        *)
(* goroutine writes it yields the old or the new channel.                  *)
(*                                                                         *)
(* A definition whose name starts with Faulty is the one that follows it   *)
(* with a defect; no specification uses it.                                *)
(***************************************************************************)
EXTENDS Naturals, FiniteSets, SequencesExt

CONSTANTS
    Partitions,
    Fetches,        \* connections that fetch, one handler goroutine each
    Producers,      \* connections that produce, one handler goroutine each
    TargetSets,     \* the sets of partitions a fetch may ask for
    Replicated,     \* whether the high watermark waits for followers
    MaxLEO,         \* bound: records of a partition
    MaxFetches,     \* bound: requests of a fetching connection
    Nil             \* an empty array element, or no partition

ASSUME LongPollAssumption ==
    /\ TargetSets \subseteq (SUBSET Partitions \ {{}})
    /\ Nil \notin Fetches \cup Partitions

VARIABLES
    leo,            \* log end offset of each partition
    hw,             \* Partition.highWatermark
    arrays,         \* the arrays behind the slices, in order of allocation
    listeners,      \* Broker.listeners: a slice for each partition
    signal,         \* how many signals each fetch's channel holds
    fetchPC,        \* where each fetch handler is
    targets,        \* the partitions its request names
    left,           \* those its current loop has still to visit
    offset,         \* the offset its request names for each partition
    late,           \* fetches whose deadline has passed
    got,            \* fetches whose answer has records
    count,          \* requests of each fetching connection so far
    producePC,      \* where each produce handler is
    part,           \* the partition it appends to
    ownLEO,         \* handler local: the log end offset it read
    list,           \* handler local: its copy of the slice
    next            \* handler local: the element it signals next

partitionVars == <<leo, hw>>
listenerVars == <<arrays, listeners>>
fetchVars == <<fetchPC, targets, left, offset, late, got, count>>
produceVars == <<producePC, part, ownLEO, list, next>>
vars == <<partitionVars, listenerVars, signal, fetchVars, produceVars>>

(* A slice: the first `len` elements of an array.                          *)
NoSlice == [array |-> 0, len |-> 0]
Elements(slice) == [i \in 1..slice.len |-> arrays[slice.array][i]]

TypeOK ==
    /\ leo \in [Partitions -> 0..MaxLEO]
    /\ hw \in [Partitions -> 0..MaxLEO]
    /\ \A p \in Partitions :
          \/ listeners[p] = NoSlice
          \/ /\ listeners[p].array \in DOMAIN arrays
             /\ listeners[p].len \in 1..Len(arrays[listeners[p].array])
    /\ signal \in [Fetches -> 0..1]
    /\ fetchPC \in [Fetches -> {"idle", "register", "check", "wait", "unregister", "read"}]
    /\ targets \in [Fetches -> SUBSET Partitions]
    /\ \A f \in Fetches : left[f] \subseteq targets[f]
    /\ late \subseteq Fetches
    /\ producePC \in [Producers -> {"idle", "update", "notify", "send"}]

Init ==
    /\ leo = [p \in Partitions |-> 0]
    /\ hw = leo
    /\ arrays = <<>>
    /\ listeners = [p \in Partitions |-> NoSlice]
    /\ signal = [f \in Fetches |-> 0]
    /\ fetchPC = [f \in Fetches |-> "idle"]
    /\ targets = [f \in Fetches |-> {}]
    /\ left = [f \in Fetches |-> {}]
    /\ offset = [f \in Fetches |-> [p \in Partitions |-> 0]]
    /\ late = {}
    /\ got = {}
    /\ count = [f \in Fetches |-> 0]
    /\ producePC = [h \in Producers |-> "idle"]
    /\ part = [h \in Producers |-> Nil]
    /\ ownLEO = [h \in Producers |-> 0]
    /\ list = [h \in Producers |-> NoSlice]
    /\ next = [h \in Producers |-> 1]

-----------------------------------------------------------------------------
(* The listener slices.                                                    *)

(* append: in place while the array has room, else into a larger copy.     *)
registerListenerOn(p, ch) ==
    LET s == listeners[p]
        cap == IF s = NoSlice THEN 0 ELSE Len(arrays[s.array])
        larger == [i \in 1..(IF cap = 0 THEN 1 ELSE 2 * cap) |->
                      IF i <= s.len THEN arrays[s.array][i]
                      ELSE IF i = s.len + 1 THEN ch ELSE Nil]
    IN  IF s.len < cap
        THEN /\ arrays' = [arrays EXCEPT ![s.array][s.len + 1] = ch]
             /\ listeners' = [listeners EXCEPT ![p].len = @ + 1]
        ELSE /\ arrays' = Append(arrays, larger)
             /\ listeners' = [listeners EXCEPT ![p] =
                                [array |-> Len(arrays'), len |-> s.len + 1]]

(* The last element takes the place of the one that is removed.            *)
FaultyDropsLast(p, ch) ==
    LET s == listeners[p]
    IN  IF ch \in ToSet(Elements(s))
        THEN /\ arrays' = [arrays EXCEPT ![s.array][s.len] = Nil]
             /\ listeners' = [listeners EXCEPT ![p] =
                   IF s.len = 1 THEN NoSlice ELSE [s EXCEPT !.len = @ - 1]]
        ELSE UNCHANGED listenerVars

unregisterListener(p, ch) ==
    LET s == listeners[p]
        at == SelectInSeq(Elements(s), LAMBDA c : c = ch)
        last == arrays[s.array][s.len]
    IN  IF at = 0
        THEN UNCHANGED listenerVars
        ELSE /\ arrays' = [arrays EXCEPT ![s.array] = [@ EXCEPT ![at] = last, ![s.len] = Nil]]
             /\ listeners' = [listeners EXCEPT ![p] =
                   IF s.len = 1 THEN NoSlice ELSE [s EXCEPT !.len = @ - 1]]

-----------------------------------------------------------------------------
(* handleFetch.                                                            *)

Goto(f, l) == fetchPC' = [fetchPC EXCEPT ![f] = l]

(* Every request makes a channel of its own.                               *)
notifyCh(f) == <<f, count[f]>>

(* A signal that comes later finds nobody to receive it.                   *)
Listening(f) == fetchPC[f] \in {"register", "check", "wait"}

HasNewData(f, p) == leo[p] > offset[f][p]

(* A request whose MaxWaitMs is 0 goes on to the answer at once.           *)
FetchStart(f) ==
    \E ps \in TargetSets, waits \in BOOLEAN :
        /\ fetchPC[f] = "idle"
        /\ count[f] < MaxFetches
        /\ count' = [count EXCEPT ![f] = @ + 1]
        /\ targets' = [targets EXCEPT ![f] = ps]
        /\ left' = [left EXCEPT ![f] = ps]
        /\ late' = IF waits THEN late \ {f} ELSE late \cup {f}
        /\ got' = got \ {f}
        /\ Goto(f, IF waits THEN "register" ELSE "read")
        /\ UNCHANGED <<partitionVars, listenerVars, signal, offset, produceVars>>

(* A loop over the targets: the next one is visited, and after the last    *)
(* one the handler continues at `then`.                                    *)
Visit(f, p, loop, then) ==
    /\ fetchPC[f] = loop
    /\ p \in left[f]
    /\ IF left[f] = {p}
       THEN left' = [left EXCEPT ![f] = targets[f]] /\ Goto(f, then)
       ELSE left' = [left EXCEPT ![f] = @ \ {p}] /\ UNCHANGED fetchPC

FaultyNoCheck(f) ==
    \E p \in left[f] :
        /\ Visit(f, p, "register", "wait")
        /\ registerListenerOn(p, notifyCh(f))
        /\ UNCHANGED <<partitionVars, signal, targets, offset, late, got, count,
                       produceVars>>

Register(f) ==
    \E p \in left[f] :
        /\ Visit(f, p, "register", "check")
        /\ registerListenerOn(p, notifyCh(f))
        /\ UNCHANGED <<partitionVars, signal, targets, offset, late, got, count,
                       produceVars>>

CheckFinds(f) ==
    \E p \in left[f] :
        /\ fetchPC[f] = "check"
        /\ HasNewData(f, p)
        /\ left' = [left EXCEPT ![f] = targets[f]]
        /\ Goto(f, "unregister")
        /\ UNCHANGED <<partitionVars, listenerVars, signal, targets, offset, late, got,
                       count, produceVars>>

CheckFindsNothing(f) ==
    \E p \in left[f] :
        /\ ~HasNewData(f, p)
        /\ Visit(f, p, "check", IF f \in late THEN "unregister" ELSE "wait")
        /\ UNCHANGED <<partitionVars, listenerVars, signal, targets, offset, late, got,
                       count, produceVars>>

Woken(f) ==
    /\ fetchPC[f] = "wait"
    /\ signal[f] = 1
    /\ signal' = [signal EXCEPT ![f] = 0]
    /\ Goto(f, "check")
    /\ UNCHANGED <<partitionVars, listenerVars, targets, left, offset, late, got, count,
                   produceVars>>

(* The deadline passes; a fetch that waits is woken by its timer.  Nothing *)
(* looks at the deadline before the check.                                 *)
Deadline(f) ==
    /\ fetchPC[f] \in {"check", "wait"}
    /\ f \notin late
    /\ late' = late \cup {f}
    /\ Goto(f, IF fetchPC[f] = "wait" THEN "check" ELSE fetchPC[f])
    /\ UNCHANGED <<partitionVars, listenerVars, signal, targets, left, offset, got,
                   count, produceVars>>

Unregister(f) ==
    \E p \in left[f] :
        /\ Visit(f, p, "unregister", "read")
        /\ unregisterListener(p, notifyCh(f))
        /\ signal' = [signal EXCEPT ![f] = 0]
        /\ UNCHANGED <<partitionVars, targets, offset, late, got, count,
                       produceVars>>

(* The answer has the partition's records below the high watermark; the    *)
(* consumer will ask for the ones after them.                              *)
Read(f) ==
    \E p \in left[f] :
        /\ Visit(f, p, "read", "idle")
        /\ IF offset[f][p] < hw[p]
           THEN /\ got' = got \cup {f}
                /\ offset' = [offset EXCEPT ![f][p] = hw[p]]
           ELSE UNCHANGED <<got, offset>>
        /\ UNCHANGED <<partitionVars, listenerVars, signal, targets, late, count,
                       produceVars>>

handleFetch(f) ==
    \/ Register(f) \/ CheckFinds(f) \/ CheckFindsNothing(f) \/ Woken(f)
    \/ Deadline(f) \/ Unregister(f) \/ Read(f)

-----------------------------------------------------------------------------
(* The part of handleProduce that concerns fetches.                        *)

ProduceAppend(h) ==
    \E p \in Partitions :
        /\ producePC[h] = "idle"
        /\ leo[p] < MaxLEO
        /\ leo' = [leo EXCEPT ![p] = @ + 1]
        /\ part' = [part EXCEPT ![h] = p]
        /\ ownLEO' = [ownLEO EXCEPT ![h] = leo'[p]]
        /\ producePC' = [producePC EXCEPT ![h] = "update"]
        /\ UNCHANGED <<hw, listenerVars, signal, fetchVars, list, next>>

(* The high watermark follows at once if the leader is alone in the ISR.   *)
ProduceUpdate(h) ==
    /\ producePC[h] = "update"
    /\ hw' = IF Replicated \/ ownLEO[h] < hw[part[h]] THEN hw
             ELSE [hw EXCEPT ![part[h]] = ownLEO[h]]
    /\ producePC' = [producePC EXCEPT ![h] = "notify"]
    /\ UNCHANGED <<leo, listenerVars, signal, fetchVars, part, ownLEO, list, next>>

(* notifyAppended copies the slice,                                        *)
NotifyCopy(h) ==
    /\ producePC[h] = "notify"
    /\ list' = [list EXCEPT ![h] = listeners[part[h]]]
    /\ next' = [next EXCEPT ![h] = 1]
    /\ producePC' = [producePC EXCEPT ![h] = "send"]
    /\ UNCHANGED <<partitionVars, listenerVars, signal, fetchVars, part, ownLEO>>

(* and sends to its elements, if their channels have room.                 *)
NotifySend(h) ==
    LET ch == arrays[list[h].array][next[h]]
    IN  /\ producePC[h] = "send"
        /\ next[h] <= list[h].len
        /\ signal' = [f \in Fetches |->
              IF notifyCh(f) = ch /\ Listening(f) THEN 1 ELSE signal[f]]
        /\ next' = [next EXCEPT ![h] = @ + 1]
        /\ UNCHANGED <<partitionVars, listenerVars, fetchVars, producePC, part, ownLEO,
                       list>>

ProduceDone(h) ==
    /\ producePC[h] = "send"
    /\ next[h] > list[h].len
    /\ producePC' = [producePC EXCEPT ![h] = "idle"]
    /\ part' = [part EXCEPT ![h] = Nil]
    /\ ownLEO' = [ownLEO EXCEPT ![h] = 0]
    /\ list' = [list EXCEPT ![h] = NoSlice]
    /\ next' = [next EXCEPT ![h] = 1]
    /\ UNCHANGED <<partitionVars, listenerVars, signal, fetchVars>>

handleProduce(h) ==
    \/ ProduceUpdate(h) \/ NotifyCopy(h) \/ NotifySend(h) \/ ProduceDone(h)

(* A follower's fetch advances the high watermark and wakes no consumer.   *)
handleReplicaFetch ==
    \E p \in Partitions :
        /\ Replicated
        /\ hw[p] < leo[p]
        /\ hw' = [hw EXCEPT ![p] = @ + 1]
        /\ UNCHANGED <<leo, listenerVars, signal, fetchVars, produceVars>>

Next ==
    \/ \E f \in Fetches : FetchStart(f) \/ handleFetch(f)
    \/ \E h \in Producers : ProduceAppend(h) \/ handleProduce(h)
    \/ handleReplicaFetch

Spec == Init /\ [][Next]_vars

-----------------------------------------------------------------------------
(* Properties.                                                             *)

Registered(f, p) ==
    \/ fetchPC[f] = "register" /\ p \in targets[f] \ left[f]
    \/ fetchPC[f] \in {"check", "wait"} /\ p \in targets[f]
    \/ fetchPC[f] = "unregister" /\ p \in left[f]

(* Through concurrent registrations and removals that move each other's    *)
(* elements, a partition's slice holds the channels of exactly the fetches *)
(* that have registered on it and not left, each once; none accumulates.   *)
ListenersExact ==
    \A p \in Partitions :
        /\ IsInjective(Elements(listeners[p]))
        /\ ToSet(Elements(listeners[p])) = {notifyCh(f) : f \in {g \in Fetches : Registered(g, p)}}

(* A produce handler that has still to wake the fetch.                     *)
WillWake(h, f) ==
    \/ producePC[h] \in {"update", "notify"} /\ Registered(f, part[h])
    \/ /\ producePC[h] = "send"
       /\ \E i \in next[h]..list[h].len : arrays[list[h].array][i] = notifyCh(f)

(* broker.go, line 589: a produce that races with the check "still buffers *)
(* a signal we will receive".  A fetch never waits for a partition that    *)
(* has data unless a signal is there or on its way.                        *)
NoMissedWakeup ==
    \A f \in Fetches :
        fetchPC[f] = "wait" /\ (\E p \in targets[f] : HasNewData(f, p))
            => signal[f] = 1 \/ \E h \in Producers : WillWake(h, f)

(* For a fetch whose arrays no other fetch has shared, which is when they  *)
(* have not grown, that is so: the channel is registered everywhere before *)
(* the check, and every append after it is signalled.                      *)
Alone(f) == \A p \in targets[f] : Len(arrays[listeners[p].array]) = 1

AloneIsWoken ==
    \A f \in Fetches :
        fetchPC[f] = "wait" /\ Alone(f) /\ (\E p \in targets[f] : HasNewData(f, p))
            => signal[f] = 1 \/ \E h \in Producers : WillWake(h, f)

(* CHANGELOG.md, line 35: a fetch "blocks until minBytes available or      *)
(* maxWaitMs expires", so one that is answered early brings records.       *)
DataOrDeadline ==
    \A f \in Fetches :
        fetchPC[f] = "idle" /\ count[f] > 0 /\ f \notin late => f \in got

=============================================================================
