--------------------------- MODULE ProducerProofs ---------------------------
(***************************************************************************)
(* Proofs about Producer: what a caller of Send is told, and what reaches  *)
(* the broker, whatever the number of callers, closers and partitions, the *)
(* size of a batch and the number of failures.                             *)
(*                                                                         *)
(* The actions change the batches in six ways only (Moved, Rejected,       *)
(* Started, Joined, Written, Finished); the invariant about the records,   *)
(* RecordInv, is shown to survive each of them, and then every action is   *)
(* shown to be one of them.                                                *)
(***************************************************************************)
EXTENDS Producer, TLAPS

Early == {"pending", "detached", "write"}   \* before the request is written
Late == {"sent", "read", "done"}

(* A caller is in one place of one batch at most.                          *)
OneBatchEach ==
    \A b, c \in DOMAIN batches :
        \A i \in DOMAIN batches[b].waiters, j \in DOMAIN batches[c].waiters :
            batches[b].waiters[i] = batches[c].waiters[j] => b = c /\ i = j

(* A caller is in a batch only after it has entered its call.              *)
WaitersCalled ==
    \A b \in DOMAIN batches : \A i \in DOMAIN batches[b].waiters :
        callPC[batches[b].waiters[i]] \in {"waiting", "returned"}

(* A caller has a result only from its batch when that is done, or because *)
(* it was rejected.                                                        *)
ResultsInv ==
    /\ \A s \in Callers : Len(results[s]) <= 1
    /\ \A s \in Callers : callPC[s] \in {"idle", "enqueue"} => results[s] = <<>>
    /\ \A b \in DOMAIN batches : batches[b].pc # "done" =>
          \A i \in DOMAIN batches[b].waiters : results[batches[b].waiters[i]] = <<>>

LogOnce ==
    \A p, q \in Partitions : \A i \in DOMAIN log[p], j \in DOMAIN log[q] :
        log[p][i] = log[q][j] => p = q /\ i = j

(* Every record in the broker is one of a batch that has been written.     *)
LogFromBatches ==
    \A p \in Partitions : \A k \in DOMAIN log[p] :
        \E b \in DOMAIN batches :
            /\ batches[b].pc \in Late
            /\ \E i \in DOMAIN batches[b].waiters : log[p][k] = batches[b].waiters[i]

(* The records of a batch with a base offset follow each other from there. *)
BaseInv ==
    \A b \in DOMAIN batches :
        /\ batches[b].pc \in Early => batches[b].base = Failure
        /\ batches[b].base # Failure =>
              \A i \in DOMAIN batches[b].waiters :
                  LET p == batches[b].partition
                      k == batches[b].base + i - 1
                  IN  k \in DOMAIN log[p] /\ log[p][k] = batches[b].waiters[i]

RecordInv ==
    /\ OneBatchEach /\ WaitersCalled /\ ResultsInv
    /\ LogOnce /\ LogFromBatches /\ BaseInv /\ OffsetsAreTheirs

(* What the batcher calls pending is a batch of that partition that no     *)
(* one flushes yet.                                                        *)
PendingInv ==
    \A p \in Partitions : pending[p] # 0 =>
        batches[pending[p]].pc = "pending" /\ batches[pending[p]].partition = p

(* After closed is set no batch is started, and the closer that set it     *)
(* empties pending.                                                        *)
DrainInv ==
    /\ closed /\ ~(\E c \in Closers : closePC[c] = "drain")
          => \A p \in Partitions : pending[p] = 0
    /\ ~Linger => \A p \in Partitions : pending[p] = 0

Inv == TypeOK /\ RecordInv /\ PendingInv /\ DrainInv

-----------------------------------------------------------------------------
(* The six ways in which the batches change.                               *)

(* Nothing but how far batches and callers have come.                      *)
Moved ==
    /\ DOMAIN batches' = DOMAIN batches
    /\ \A b \in DOMAIN batches :
          /\ batches'[b].waiters = batches[b].waiters
          /\ batches'[b].partition = batches[b].partition
          /\ batches'[b].base = batches[b].base
          /\ batches[b].pc = "done" => batches'[b].pc = "done"
          /\ batches[b].pc \in Late => batches'[b].pc \in Late
    /\ \A s \in Callers : callPC[s] \in {"waiting", "returned"}
                              => callPC'[s] \in {"waiting", "returned"}
    /\ results' = results /\ log' = log

(* Caller s is turned away with an error.                                  *)
Rejected(s) ==
    /\ callPC[s] \in {"idle", "enqueue"}
    /\ callPC' = [callPC EXCEPT ![s] = "returned"]
    /\ results' = [results EXCEPT ![s] = Append(@, Failure)]
    /\ batches' = batches /\ log' = log

(* Caller s starts a batch.                                                *)
Started(s) ==
    /\ callPC[s] = "enqueue"
    /\ callPC' = [callPC EXCEPT ![s] = "waiting"]
    /\ DOMAIN batches' = 1..(Len(batches) + 1)
    /\ \A c \in DOMAIN batches : batches'[c] = batches[c]
    /\ batches'[Len(batches) + 1].waiters = <<s>>
    /\ batches'[Len(batches) + 1].base = Failure
    /\ batches'[Len(batches) + 1].pc \in {"pending", "detached"}
    /\ results' = results /\ log' = log

(* Caller s joins batch b.                                                 *)
Joined(s, b) ==
    /\ callPC[s] = "enqueue"
    /\ callPC' = [callPC EXCEPT ![s] = "waiting"]
    /\ DOMAIN batches' = DOMAIN batches
    /\ \A c \in DOMAIN batches \ {b} : batches'[c] = batches[c]
    /\ batches[b].pc = "pending"
    /\ batches'[b].waiters = Append(batches[b].waiters, s)
    /\ batches'[b].base = batches[b].base
    /\ batches'[b].pc \in {"pending", "detached"}
    /\ results' = results /\ log' = log

(* The broker appends the records of batch b.                              *)
Written(b) ==
    /\ batches[b].pc = "write"
    /\ DOMAIN batches' = DOMAIN batches
    /\ \A c \in DOMAIN batches \ {b} : batches'[c] = batches[c]
    /\ batches'[b].waiters = batches[b].waiters
    /\ batches'[b].partition = batches[b].partition
    /\ batches'[b].base = Len(log[batches[b].partition]) + 1
    /\ batches'[b].pc = "sent"
    /\ log' = [log EXCEPT ![batches[b].partition] = @ \o batches[b].waiters]
    /\ callPC' = callPC /\ results' = results

(* The waiters of batch b are given their results.                         *)
Finished(b, base) ==
    /\ batches[b].pc # "done"
    /\ base \in {Failure, batches[b].base}
    /\ DOMAIN batches' = DOMAIN batches
    /\ \A c \in DOMAIN batches \ {b} : batches'[c] = batches[c]
    /\ batches'[b].waiters = batches[b].waiters
    /\ batches'[b].partition = batches[b].partition
    /\ batches'[b].base = batches[b].base
    /\ batches'[b].pc = "done"
    /\ \A s \in Callers \ Range(batches[b].waiters) : results'[s] = results[s]
    /\ \A i \in DOMAIN batches[b].waiters :
          LET s == batches[b].waiters[i]
          IN  results'[s] = Append(results[s],
                               IF base = Failure THEN Failure ELSE base + i - 1)
    /\ callPC' = callPC /\ log' = log

-----------------------------------------------------------------------------

(* What the type invariant says of one batch.                              *)
LEMMA BatchTypes ==
    ASSUME batches \in Seq(Batch), NEW b \in DOMAIN batches
    PROVE  /\ batches[b] \in Batch
           /\ batches[b].partition \in Partitions
           /\ batches[b].waiters \in Seq(Callers)
           /\ batches[b].pc \in Early \cup Late
           /\ batches[b].base \in Nat
           /\ DOMAIN batches[b].waiters = 1..Len(batches[b].waiters)
           /\ \A i \in DOMAIN batches[b].waiters : batches[b].waiters[i] \in Callers
  <1>1. batches[b] \in Batch  OBVIOUS
  <1>2. /\ batches[b].partition \in Partitions
        /\ batches[b].waiters \in Seq(Callers)
        /\ batches[b].pc \in Early \cup Late
        /\ batches[b].base \in Nat
    BY <1>1 DEF Batch, Early, Late
  <1> QED  BY <1>1, <1>2

(* The same of a batch in the next state.                                  *)
LEMMA BatchTypesNext ==
    (batches \in Seq(Batch))' =>
        \A b \in DOMAIN batches' :
           /\ batches'[b] \in Batch
           /\ batches'[b].partition \in Partitions
           /\ batches'[b].waiters \in Seq(Callers)
           /\ batches'[b].pc \in Early \cup Late
           /\ batches'[b].base \in Nat
           /\ DOMAIN batches'[b].waiters = 1..Len(batches'[b].waiters)
           /\ \A i \in DOMAIN batches'[b].waiters : batches'[b].waiters[i] \in Callers
  <1> SUFFICES ASSUME batches' \in Seq(Batch), NEW b \in DOMAIN batches'
               PROVE  /\ batches'[b] \in Batch
                      /\ batches'[b].partition \in Partitions
                      /\ batches'[b].waiters \in Seq(Callers)
                      /\ batches'[b].pc \in Early \cup Late
                      /\ batches'[b].base \in Nat
                      /\ DOMAIN batches'[b].waiters = 1..Len(batches'[b].waiters)
                      /\ \A i \in DOMAIN batches'[b].waiters :
                            batches'[b].waiters[i] \in Callers
    BY DEF Batch
  <1>1. batches'[b] \in Batch  OBVIOUS
  <1>2. /\ batches'[b].partition \in Partitions
        /\ batches'[b].waiters \in Seq(Callers)
        /\ batches'[b].pc \in Early \cup Late
        /\ batches'[b].base \in Nat
    BY <1>1 DEF Batch, Early, Late
  <1> QED  BY <1>1, <1>2

(* RecordInv survives a step that only moves batches and callers on.       *)
LEMMA MovedKeepsRecords ==
    ASSUME TypeOK, TypeOK', RecordInv, Moved
    PROVE  RecordInv'
  <1> USE DEF RecordInv, Moved
  <1>1. \A b \in DOMAIN batches :
            /\ batches[b].pc \in Early \cup Late
            /\ batches'[b].pc \in Early \cup Late
            /\ \A i \in DOMAIN batches[b].waiters : batches[b].waiters[i] \in Callers
    BY BatchTypes, BatchTypesNext DEF TypeOK
  <1>2. OneBatchEach'  BY DEF OneBatchEach
  <1>3. WaitersCalled'  BY <1>1 DEF WaitersCalled
  <1>4. ResultsInv'
    <2>1. \A s \in Callers : callPC'[s] \in {"idle", "enqueue"}
                                  => callPC[s] \in {"idle", "enqueue"}
      BY Zenon DEF TypeOK
    <2>2. \A s \in Callers : callPC'[s] \in {"idle", "enqueue"} => results'[s] = <<>>
      BY <2>1 DEF ResultsInv
    <2>3. \A b \in DOMAIN batches' : batches'[b].pc # "done" =>
             \A i \in DOMAIN batches'[b].waiters : results'[batches'[b].waiters[i]] = <<>>
      BY DEF ResultsInv
    <2> QED  BY <2>2, <2>3 DEF ResultsInv
  <1>5. LogOnce'  BY DEF LogOnce
  <1>6. LogFromBatches'  BY DEF LogFromBatches
  <1>7. BaseInv'
    <2>1. \A b \in DOMAIN batches : batches'[b].pc \in Early => batches[b].pc \in Early
      BY <1>1 DEF Early, Late
    <2> QED  BY <2>1 DEF BaseInv
  <1>8. OffsetsAreTheirs'  BY DEF OffsetsAreTheirs
  <1> QED  BY <1>2, <1>3, <1>4, <1>5, <1>6, <1>7, <1>8

(* RecordInv survives the rejection of a call, which is in no batch.       *)
LEMMA RejectedKeepsRecords ==
    ASSUME TypeOK, TypeOK', RecordInv, NEW s \in Callers, Rejected(s)
    PROVE  RecordInv'
  <1> USE DEF RecordInv, Rejected
  <1>1. \A b \in DOMAIN batches : \A i \in DOMAIN batches[b].waiters :
            batches[b].waiters[i] \in Callers \ {s}
    BY BatchTypes, Zenon DEF TypeOK, WaitersCalled
  <1>2. results[s] = <<>>  BY DEF ResultsInv
  <1>3. results' = [results EXCEPT ![s] = <<Failure>>]  BY <1>2
  <1>4. /\ results'[s] = <<Failure>>
        /\ \A r \in Callers \ {s} : results'[r] = results[r] /\ callPC'[r] = callPC[r]
        /\ callPC'[s] = "returned"
    BY <1>3, Zenon DEF TypeOK
  <1>5. OneBatchEach'  BY DEF OneBatchEach
  <1>6. WaitersCalled'  BY <1>1, <1>4 DEF WaitersCalled
  <1>7. ResultsInv'
    <2>1. \A r \in Callers : Len(results'[r]) <= 1
      BY <1>4 DEF ResultsInv
    <2>2. \A r \in Callers : callPC'[r] \in {"idle", "enqueue"} => results'[r] = <<>>
      BY <1>4 DEF ResultsInv
    <2>3. \A b \in DOMAIN batches' : batches'[b].pc # "done" =>
             \A i \in DOMAIN batches'[b].waiters : results'[batches'[b].waiters[i]] = <<>>
      BY <1>1, <1>4 DEF ResultsInv
    <2> QED  BY <2>1, <2>2, <2>3 DEF ResultsInv
  <1>8. LogOnce' /\ LogFromBatches' /\ BaseInv'
    BY DEF LogOnce, LogFromBatches, BaseInv
  <1>9. OffsetsAreTheirs'
    <2> SUFFICES ASSUME NEW r \in Callers, NEW i \in DOMAIN results'[r],
                        results'[r][i] # Failure
                 PROVE  \E p \in Partitions : results'[r][i] \in DOMAIN log[p]
                                              /\ log[p][results'[r][i]] = r
      BY DEF OffsetsAreTheirs
    <2>1. r # s  BY <1>4
    <2> QED  BY <2>1, <1>4 DEF OffsetsAreTheirs
  <1> QED  BY <1>5, <1>6, <1>7, <1>8, <1>9

(* RecordInv survives the start of a batch by a caller that is in none.    *)
LEMMA StartedKeepsRecords ==
    ASSUME TypeOK, TypeOK', RecordInv, NEW s \in Callers, Started(s)
    PROVE  RecordInv'
  <1> USE DEF RecordInv
  <1> PICK n : n = Len(batches) + 1  OBVIOUS
  <1>1. /\ DOMAIN batches' = DOMAIN batches \cup {n}
        /\ n \notin DOMAIN batches
        /\ batches'[n].waiters = <<s>> /\ batches'[n].base = Failure
        /\ batches'[n].pc \in {"pending", "detached"}
        /\ \A b \in DOMAIN batches : batches'[b] = batches[b]
        /\ callPC[s] = "enqueue" /\ results' = results /\ log' = log
    BY DEF TypeOK, Started
  <1>2. \A b \in DOMAIN batches : \A i \in DOMAIN batches[b].waiters :
            batches[b].waiters[i] \in Callers \ {s}
    BY <1>1, BatchTypes, Zenon DEF TypeOK, WaitersCalled
  <1>3. callPC'[s] = "waiting" /\ \A r \in Callers \ {s} : callPC'[r] = callPC[r]
    BY DEF TypeOK, Started
  <1>4. DOMAIN batches'[n].waiters = {1} /\ batches'[n].waiters[1] = s
    BY <1>1
  <1>5. results[s] = <<>>  BY <1>1 DEF ResultsInv
  <1>6. OneBatchEach'
    <2> SUFFICES ASSUME NEW b \in DOMAIN batches \cup {n}, NEW c \in DOMAIN batches \cup {n},
                        NEW i \in DOMAIN batches'[b].waiters,
                        NEW j \in DOMAIN batches'[c].waiters,
                        batches'[b].waiters[i] = batches'[c].waiters[j]
                 PROVE  b = c /\ i = j
      BY <1>1 DEF OneBatchEach
    <2>1. CASE b = n /\ c = n  BY <2>1, <1>4
    <2>2. CASE b = n /\ c # n  BY <2>2, <1>1, <1>2, <1>4
    <2>3. CASE b # n /\ c = n  BY <2>3, <1>1, <1>2, <1>4
    <2>4. CASE b # n /\ c # n  BY <2>4, <1>1 DEF OneBatchEach
    <2> QED  BY <2>1, <2>2, <2>3, <2>4
  <1>7. WaitersCalled'  BY <1>1, <1>2, <1>3, <1>4 DEF WaitersCalled
  <1>8. ResultsInv'
    <2>1. \A r \in Callers : callPC'[r] \in {"idle", "enqueue"} => results'[r] = <<>>
      BY <1>1, <1>3 DEF ResultsInv
    <2>2. ASSUME NEW b \in DOMAIN batches \cup {n}, batches'[b].pc # "done",
                 NEW i \in DOMAIN batches'[b].waiters
          PROVE  results'[batches'[b].waiters[i]] = <<>>
      <3>1. CASE b = n  BY <3>1, <1>1, <1>4, <1>5
      <3>2. CASE b # n  BY <3>2, <2>2, <1>1 DEF ResultsInv
      <3> QED  BY <3>1, <3>2
    <2> QED  BY <1>1, <2>1, <2>2 DEF ResultsInv
  <1>9. LogOnce' /\ OffsetsAreTheirs'  BY <1>1 DEF LogOnce, OffsetsAreTheirs
  <1>10. LogFromBatches'
    <2> SUFFICES ASSUME NEW p \in Partitions, NEW k \in DOMAIN log[p]
                 PROVE  \E b \in DOMAIN batches' :
                           /\ batches'[b].pc \in Late
                           /\ \E i \in DOMAIN batches'[b].waiters :
                                 log[p][k] = batches'[b].waiters[i]
      BY <1>1 DEF LogFromBatches
    <2>1. PICK b \in DOMAIN batches :
             /\ batches[b].pc \in Late
             /\ \E i \in DOMAIN batches[b].waiters : log[p][k] = batches[b].waiters[i]
      BY DEF LogFromBatches
    <2>2. b \in DOMAIN batches' /\ batches'[b] = batches[b]  BY <1>1
    <2> QED  BY <2>1, <2>2
  <1>11. BaseInv'  BY <1>1 DEF BaseInv
  <1> QED  BY <1>6, <1>7, <1>8, <1>9, <1>10, <1>11

(* RecordInv survives a caller, in no batch so far, joining one that is    *)
(* pending.                                                                *)
LEMMA JoinedKeepsRecords ==
    ASSUME TypeOK, TypeOK', RecordInv, NEW s \in Callers, NEW d \in DOMAIN batches,
           Joined(s, d)
    PROVE  RecordInv'
  <1> USE DEF RecordInv, Joined
  <1>1. /\ \A b \in DOMAIN batches : \A i \in DOMAIN batches[b].waiters :
               batches[b].waiters[i] \in Callers \ {s}
        /\ batches[d].waiters \in Seq(Callers)
    BY BatchTypes, Zenon DEF TypeOK, WaitersCalled
  <1> PICK n : n = Len(batches[d].waiters) + 1  OBVIOUS
  <1>2. /\ DOMAIN batches'[d].waiters = DOMAIN batches[d].waiters \cup {n}
        /\ n \notin DOMAIN batches[d].waiters
        /\ batches'[d].waiters[n] = s
        /\ \A i \in DOMAIN batches[d].waiters :
              batches'[d].waiters[i] = batches[d].waiters[i]
    BY <1>1
  <1>3. callPC'[s] = "waiting" /\ \A r \in Callers \ {s} : callPC'[r] = callPC[r]
    BY DEF TypeOK
  <1>4. results[s] = <<>>  BY DEF ResultsInv
  <1>5. \A b \in DOMAIN batches : \A i \in DOMAIN batches'[b].waiters :
            \/ i \in DOMAIN batches[b].waiters
                  /\ batches'[b].waiters[i] = batches[b].waiters[i]
            \/ b = d /\ i = n /\ batches'[b].waiters[i] = s
    BY <1>2
  <1>6. OneBatchEach'
    <2> SUFFICES ASSUME NEW b \in DOMAIN batches, NEW c \in DOMAIN batches,
                        NEW i \in DOMAIN batches'[b].waiters,
                        NEW j \in DOMAIN batches'[c].waiters,
                        batches'[b].waiters[i] = batches'[c].waiters[j]
                 PROVE  b = c /\ i = j
      BY DEF OneBatchEach
    <2> QED  BY <1>1, <1>5 DEF OneBatchEach
  <1>7. WaitersCalled'  BY <1>1, <1>3, <1>5 DEF WaitersCalled
  <1>8. ResultsInv'
    <2>1. \A r \in Callers : callPC'[r] \in {"idle", "enqueue"} => results'[r] = <<>>
      BY <1>3 DEF ResultsInv
    <2>2. \A b \in DOMAIN batches' : batches'[b].pc # "done" =>
             \A i \in DOMAIN batches'[b].waiters : results'[batches'[b].waiters[i]] = <<>>
      BY <1>4, <1>5 DEF ResultsInv
    <2> QED  BY <2>1, <2>2 DEF ResultsInv
  <1>9. LogOnce' /\ OffsetsAreTheirs'  BY DEF LogOnce, OffsetsAreTheirs
  <1>10. LogFromBatches'
    <2>1. \A b \in DOMAIN batches : batches[b].pc \in Late => b # d
      BY DEF Late
    <2> QED  BY <2>1 DEF LogFromBatches
  <1>11. BaseInv'
    <2>1. batches'[d].base = Failure  BY DEF BaseInv, Early
    <2> QED  BY <2>1 DEF BaseInv
  <1> QED  BY <1>6, <1>7, <1>8, <1>9, <1>10, <1>11

(* Where the elements of a are in l, and those of w after them.            *)
Spliced(a, w, l) ==
    /\ \A k \in DOMAIN a : k \in DOMAIN l /\ l[k] = a[k]
    /\ \A i \in DOMAIN w : Len(a) + i \in DOMAIN l /\ l[Len(a) + i] = w[i]
    /\ \A k \in DOMAIN l : k \in DOMAIN a \/ \E i \in DOMAIN w : k = Len(a) + i

(* An appended sequence keeps the old elements and puts the new ones after *)
(* them.                                                                   *)
LEMMA Appended ==
    ASSUME NEW a \in Seq(Callers), NEW w \in Seq(Callers), NEW l, l = a \o w
    PROVE  Spliced(a, w, l)
  <1>1. /\ Len(a) \in Nat /\ DOMAIN a = 1..Len(a)
        /\ Len(w) \in Nat /\ DOMAIN w = 1..Len(w)
        /\ l \in Seq(Callers) /\ Len(l) = Len(a) + Len(w) /\ DOMAIN l = 1..(Len(a) + Len(w))
    OBVIOUS
  <1>2. \A k \in DOMAIN a : k \in DOMAIN l /\ l[k] = a[k]
    BY <1>1
  <1>3. ASSUME NEW i \in DOMAIN w
        PROVE  Len(a) + i \in DOMAIN l /\ l[Len(a) + i] = w[i]
    <2>1. Len(a) + i \in 1..(Len(a) + Len(w)) /\ Len(a) + i > Len(a)
          /\ (Len(a) + i) - Len(a) = i
      BY <1>1
    <2> QED  BY <2>1, <1>1
  <1>4. ASSUME NEW k \in DOMAIN l, k \notin DOMAIN a
        PROVE  \E i \in DOMAIN w : k = Len(a) + i
    <2>1. k - Len(a) \in 1..Len(w) /\ k = Len(a) + (k - Len(a))  BY <1>1, <1>4
    <2> QED  BY <2>1, <1>1
  <1> QED  BY <1>2, <1>3, <1>4 DEF Spliced

(* Its type.                                                               *)
LEMMA ConcatType ==
    ASSUME NEW a \in Seq(Callers), NEW w \in Seq(Callers)
    PROVE  a \o w \in Seq(Callers)
  OBVIOUS

(* RecordInv survives the append of a batch's records: they are in no log, *)
(* since the batch was not written before, and keep their order there.     *)
LEMMA WrittenKeepsRecords ==
    ASSUME TypeOK, TypeOK', RecordInv, NEW d \in DOMAIN batches, Written(d)
    PROVE  RecordInv'
  <1> USE DEF RecordInv
  <1> PICK p, w, n : p = batches[d].partition /\ w = batches[d].waiters /\ n = Len(log[p])
    BY Zenon
  <1>1. /\ p \in Partitions /\ w \in Seq(Callers)
        /\ log[p] \in Seq(Callers) /\ n \in Nat /\ DOMAIN w \subseteq Nat
    <2>1. p \in Partitions /\ w \in Seq(Callers)  BY BatchTypes, Zenon DEF TypeOK
    <2>2. log \in [Partitions -> Seq(Callers)]  BY DEF TypeOK
    <2>3. log[p] \in Seq(Callers)  BY <2>1, <2>2, Zenon
    <2>4. Len(log[p]) \in Nat /\ DOMAIN w \subseteq Nat  BY <2>1, <2>3
    <2> QED  BY <2>1, <2>3, <2>4, Zenon
  <1>2. /\ batches[d].pc = "write"
        /\ DOMAIN batches' = DOMAIN batches
        /\ \A c \in DOMAIN batches : c # d => batches'[c] = batches[c]
        /\ \A c \in DOMAIN batches : batches'[c].waiters = batches[c].waiters
        /\ batches'[d].partition = p
        /\ batches'[d].base = n + 1
        /\ batches'[d].pc = "sent"
        /\ callPC' = callPC /\ results' = results
    BY DEF Written
  <1>3. /\ log'[p] = log[p] \o w
        /\ \A q \in Partitions : q # p => log'[q] = log[q]
    <2>1. log' = [log EXCEPT ![p] = log[p] \o w]  BY DEF Written
    <2>2. log \in [Partitions -> Seq(Callers)]  BY DEF TypeOK
    <2> QED  BY <1>1, <2>1, <2>2, Zenon
  <1>4. /\ \A k \in DOMAIN log[p] : k \in DOMAIN log'[p] /\ log'[p][k] = log[p][k]
        /\ \A i \in DOMAIN w : n + i \in DOMAIN log'[p] /\ log'[p][n + i] = w[i]
        /\ \A k \in DOMAIN log'[p] : \/ k \in DOMAIN log[p]
                                     \/ \E i \in DOMAIN w : k = n + i
    <2>1. Spliced(log[p], w, log'[p])  BY <1>1, <1>3, Appended, Zenon
    <2> QED  BY <2>1 DEF Spliced
  <1>5. \A q \in Partitions : \A k \in DOMAIN log[q] :
            k \in DOMAIN log'[q] /\ log'[q][k] = log[q][k]
    BY <1>3, <1>4, Zenon
  <1>6. \A q \in Partitions : \A k \in DOMAIN log'[q] :
            \/ k \in DOMAIN log[q] /\ log'[q][k] = log[q][k]
            \/ q = p /\ \E i \in DOMAIN w : k = n + i /\ log'[q][k] = w[i]
    <2> SUFFICES ASSUME NEW q \in Partitions, NEW k \in DOMAIN log'[q]
                 PROVE  \/ k \in DOMAIN log[q] /\ log'[q][k] = log[q][k]
                        \/ q = p /\ \E i \in DOMAIN w : k = n + i /\ log'[q][k] = w[i]
      OBVIOUS
    <2>1. CASE k \in DOMAIN log[q]  BY <2>1, <1>5
    <2>2. CASE k \notin DOMAIN log[q]
      <3>1. q = p  BY <2>2, <1>3
      <3>2. PICK i \in DOMAIN w : k = n + i  BY <2>2, <3>1, <1>4
      <3>3. log'[q][k] = w[i]  BY <3>1, <3>2, <1>4
      <3> QED  BY <3>1, <3>2, <3>3
    <2> QED  BY <2>1, <2>2
  <1>7. \A q \in Partitions : \A k \in DOMAIN log[q] : \A i \in DOMAIN w : log[q][k] # w[i]
    <2> SUFFICES ASSUME NEW q \in Partitions, NEW k \in DOMAIN log[q], NEW i \in DOMAIN w,
                        log[q][k] = w[i]
                 PROVE  FALSE
      OBVIOUS
    <2>1. PICK b \in DOMAIN batches :
             /\ batches[b].pc \in Late
             /\ \E j \in DOMAIN batches[b].waiters : log[q][k] = batches[b].waiters[j]
      BY DEF LogFromBatches
    <2>2. b = d  BY <2>1, Zenon DEF OneBatchEach
    <2> QED  BY <2>1, <2>2, <1>2 DEF Late
  <1>8. OneBatchEach' /\ WaitersCalled' BY <1>2, SMTT(20) DEF OneBatchEach, WaitersCalled
  <1>9. ResultsInv'
    <2>1. \A b \in DOMAIN batches : batches'[b].pc # "done" => batches[b].pc # "done"
      BY <1>2
    <2> QED  BY <1>2, <2>1 DEF ResultsInv
  <1>10. LogOnce'
    <2> SUFFICES ASSUME NEW q \in Partitions, NEW r \in Partitions,
                        NEW i \in DOMAIN log'[q], NEW j \in DOMAIN log'[r],
                        log'[q][i] = log'[r][j]
                 PROVE  q = r /\ i = j
      BY DEF LogOnce
    <2>1. CASE i \in DOMAIN log[q] /\ j \in DOMAIN log[r]
      BY <2>1, <1>5 DEF LogOnce
    <2>2. CASE i \in DOMAIN log[q] /\ j \notin DOMAIN log[r]
      BY <2>2, <1>5, <1>6, <1>7
    <2>3. CASE i \notin DOMAIN log[q] /\ j \in DOMAIN log[r]
      BY <2>3, <1>5, <1>6, <1>7, SMTT(20)
    <2>4. CASE i \notin DOMAIN log[q] /\ j \notin DOMAIN log[r]
      <3>1. /\ q = p /\ \E x \in DOMAIN w : i = n + x /\ log'[q][i] = w[x]
            /\ r = p /\ \E y \in DOMAIN w : j = n + y /\ log'[r][j] = w[y]
        BY <2>4, <1>6
      <3>2. PICK x \in DOMAIN w : i = n + x /\ log'[q][i] = w[x]  BY <3>1
      <3>3. PICK y \in DOMAIN w : j = n + y /\ log'[r][j] = w[y]  BY <3>1
      <3>4. x = y  BY <3>2, <3>3, SMTT(20) DEF OneBatchEach
      <3> QED  BY <3>1, <3>2, <3>3, <3>4
    <2> QED  BY <2>1, <2>2, <2>3, <2>4
  <1>11. LogFromBatches'
    <2> SUFFICES ASSUME NEW q \in Partitions, NEW k \in DOMAIN log'[q]
                 PROVE  \E b \in DOMAIN batches :
                           /\ batches'[b].pc \in Late
                           /\ \E i \in DOMAIN batches[b].waiters :
                                 log'[q][k] = batches[b].waiters[i]
      BY <1>2 DEF LogFromBatches
    <2>1. CASE k \in DOMAIN log[q] /\ log'[q][k] = log[q][k]
      <3>1. PICK b \in DOMAIN batches :
               /\ batches[b].pc \in Late
               /\ \E i \in DOMAIN batches[b].waiters : log[q][k] = batches[b].waiters[i]
        BY <2>1, Zenon DEF LogFromBatches
      <3>2. b # d  BY <3>1, <1>2 DEF Late
      <3> QED  BY <2>1, <3>1, <3>2, <1>2
    <2>2. CASE \E i \in DOMAIN w : log'[q][k] = w[i]
      <3>1. batches'[d].pc \in Late  BY <1>2, Zenon DEF Late
      <3> QED  BY <2>2, <3>1
    <2> QED  BY <2>1, <2>2, <1>6, Zenon
  <1>12. BaseInv'
    <2>1. ASSUME NEW b \in DOMAIN batches
          PROVE  batches'[b].pc \in Early => batches'[b].base = Failure
      BY <1>2 DEF BaseInv, Early
    <2>2. ASSUME NEW b \in DOMAIN batches, batches'[b].base # Failure,
                 NEW i \in DOMAIN batches'[b].waiters
          PROVE  /\ batches'[b].base + i - 1 \in DOMAIN log'[batches'[b].partition]
                 /\ log'[batches'[b].partition][batches'[b].base + i - 1]
                       = batches'[b].waiters[i]
      <3>1. CASE b = d
        <4>1. i \in DOMAIN w /\ i \in Nat /\ batches'[b].waiters[i] = w[i]
          BY <2>2, <3>1, <1>1, <1>2
        <4>2. batches'[b].base + i - 1 = n + i  BY <3>1, <4>1, <1>1, <1>2
        <4> QED  BY <3>1, <4>1, <4>2, <1>2, <1>4, Zenon
      <3>2. CASE b # d
        <4>1. batches'[b] = batches[b] /\ batches[b].partition \in Partitions
          BY <3>2, <1>2, BatchTypes, Zenon DEF TypeOK
        <4> QED  BY <2>2, <4>1, <1>5, SMTT(20) DEF BaseInv
      <3> QED  BY <3>1, <3>2, Zenon
    <2> QED  BY <1>2, <2>1, <2>2, Zenon DEF BaseInv
  <1>13. OffsetsAreTheirs'
    <2> SUFFICES ASSUME NEW s \in Callers, NEW i \in DOMAIN results[s],
                        results[s][i] # Failure
                 PROVE  \E q \in Partitions : results[s][i] \in DOMAIN log'[q]
                                              /\ log'[q][results[s][i]] = s
      BY <1>2 DEF OffsetsAreTheirs
    <2>1. PICK q \in Partitions : results[s][i] \in DOMAIN log[q]
                                  /\ log[q][results[s][i]] = s
      BY DEF OffsetsAreTheirs
    <2> QED  BY <2>1, <1>5, Zenon
  <1> QED  BY <1>8, <1>9, <1>10, <1>11, <1>12, <1>13

(* RecordInv survives the end of a round trip: the waiters had no result   *)
(* yet, and the offset each is given is its record's.                      *)
LEMMA FinishedKeepsRecords ==
    ASSUME TypeOK, TypeOK', RecordInv, NEW d \in DOMAIN batches, NEW base, Finished(d, base)
    PROVE  RecordInv'
  <1> USE DEF RecordInv
  <1> PICK w : w = batches[d].waiters  BY Zenon
  <1>1. /\ w \in Seq(Callers) /\ DOMAIN w = 1..Len(w) /\ \A i \in DOMAIN w : w[i] \in Callers
        /\ batches[d].base \in Nat /\ batches[d].partition \in Partitions
    BY BatchTypes, Zenon DEF TypeOK
  <1>2. /\ DOMAIN batches' = DOMAIN batches
        /\ \A c \in DOMAIN batches : c # d => batches'[c] = batches[c]
        /\ \A c \in DOMAIN batches : /\ batches'[c].waiters = batches[c].waiters
                                     /\ batches'[c].partition = batches[c].partition
                                     /\ batches'[c].base = batches[c].base
        /\ batches[d].pc # "done" /\ batches'[d].pc = "done"
        /\ callPC' = callPC /\ log' = log
        /\ base \in {Failure, batches[d].base}
    BY Zenon DEF Finished
  <1>3. \A i \in DOMAIN w : results[w[i]] = <<>>  BY <1>2, Zenon DEF ResultsInv
  <1>4. \A i \in DOMAIN w :
           results'[w[i]] = <<IF base = Failure THEN Failure ELSE base + i - 1>>
    BY <1>3, SMTT(20) DEF Finished
  <1>5. \A s \in Callers : (\E i \in DOMAIN w : w[i] = s) \/ results'[s] = results[s]
    BY DEF Finished, Range
  <1>6. OneBatchEach' /\ WaitersCalled' /\ LogOnce'
    BY <1>2, SMTT(20) DEF OneBatchEach, WaitersCalled, LogOnce
  <1>7. ResultsInv'
    <2>1. ASSUME NEW s \in Callers PROVE Len(results'[s]) <= 1
      <3>1. CASE results'[s] = results[s]  BY <3>1 DEF ResultsInv
      <3>2. CASE \E i \in DOMAIN w : w[i] = s
        <4>1. PICK x : results'[s] = <<x>>  BY <3>2, <1>4, Zenon
        <4> QED  BY <4>1
      <3> QED  BY <3>1, <3>2, <1>5
    <2>2. ASSUME NEW s \in Callers, callPC'[s] \in {"idle", "enqueue"}
          PROVE  results'[s] = <<>>
      <3>1. ~ \E i \in DOMAIN w : w[i] = s  BY <2>2, <1>2 DEF WaitersCalled
      <3> QED  BY <2>2, <3>1, <1>2, <1>5 DEF ResultsInv
    <2>3. ASSUME NEW b \in DOMAIN batches, batches'[b].pc # "done",
                 NEW i \in DOMAIN batches[b].waiters
          PROVE  results'[batches[b].waiters[i]] = <<>>
      <3>1. b # d /\ batches[b].pc # "done"  BY <2>3, <1>2, Zenon
      <3>2. batches[b].waiters[i] \in Callers  BY BatchTypes DEF TypeOK
      <3>3. ~ \E j \in DOMAIN w : w[j] = batches[b].waiters[i]
        BY <3>1, Zenon DEF OneBatchEach
      <3> QED  BY <3>1, <3>2, <3>3, <1>5 DEF ResultsInv
    <2> QED  BY <1>2, <2>1, <2>2, <2>3 DEF ResultsInv
  <1>8. LogFromBatches'
    <2>1. \A b \in DOMAIN batches : batches[b].pc \in Late => batches'[b].pc \in Late
      BY <1>2, Zenon DEF Late
    <2> QED  BY <1>2, <2>1 DEF LogFromBatches
  <1>9. BaseInv'
    <2>1. \A b \in DOMAIN batches : batches'[b].pc \in Early => batches[b].pc \in Early
      BY <1>2 DEF Early
    <2> QED  BY <1>2, <2>1 DEF BaseInv
  <1>10. OffsetsAreTheirs'
    <2> SUFFICES ASSUME NEW s \in Callers, NEW k \in DOMAIN results'[s],
                        results'[s][k] # Failure
                 PROVE  \E p \in Partitions : results'[s][k] \in DOMAIN log[p]
                                              /\ log[p][results'[s][k]] = s
      BY <1>2, SMTT(20) DEF OffsetsAreTheirs
    <2>1. CASE results'[s] = results[s]  BY <2>1 DEF OffsetsAreTheirs
    <2>2. CASE \E i \in DOMAIN w : w[i] = s
      <3>1. PICK i \in DOMAIN w : w[i] = s  BY <2>2
      <3>2. PICK x : x = (IF base = Failure THEN Failure ELSE base + i - 1)  OBVIOUS
      <3>3. results'[s] = <<x>>  BY <3>1, <3>2, <1>4
      <3>4. k = 1 /\ results'[s][k] = x  BY <3>3
      <3>5. base # Failure /\ base = batches[d].base /\ x = base + i - 1
        BY <3>2, <3>4, <1>2, Zenon
      <3>6. x \in DOMAIN log[batches[d].partition] /\ log[batches[d].partition][x] = w[i]
        BY <3>5 DEF BaseInv
      <3> QED  BY <3>1, <3>4, <3>6, <1>1
    <2> QED  BY <2>1, <2>2, <1>5
  <1> QED  BY <1>6, <1>7, <1>8, <1>9, <1>10

-----------------------------------------------------------------------------
(* The actions.                                                            *)

(* A sequence of batches with one replaced.                                *)
LEMMA Replaced ==
    ASSUME NEW q \in Seq(Batch), NEW b \in DOMAIN q, NEW v \in Batch, NEW r,
           r = [q EXCEPT ![b] = v]
    PROVE  r \in Seq(Batch) /\ Len(r) = Len(q)
  OBVIOUS

(* What setting the pc of one batch does to the batches.                   *)
LEMMA GotoEffect ==
    ASSUME batches \in Seq(Batch), NEW b \in DOMAIN batches, NEW l \in Early \cup Late,
           Goto(b, l)
    PROVE  /\ batches' \in Seq(Batch)
           /\ Len(batches') = Len(batches) /\ DOMAIN batches' = DOMAIN batches
           /\ \A c \in DOMAIN batches \ {b} : batches'[c] = batches[c]
           /\ batches'[b].waiters = batches[b].waiters
           /\ batches'[b].partition = batches[b].partition
           /\ batches'[b].base = batches[b].base
           /\ batches'[b].pc = l
  <1> PICK v : v = [batches[b] EXCEPT !.pc = l]  BY Zenon
  <1>1. batches[b] \in Batch  OBVIOUS
  <1>2. /\ v \in Batch /\ v.waiters = batches[b].waiters
        /\ v.partition = batches[b].partition /\ v.base = batches[b].base /\ v.pc = l
    BY <1>1, Zenon DEF Batch, Early, Late
  <1>3. batches' = [batches EXCEPT ![b] = v]  BY DEF Goto
  <1>4. batches' \in Seq(Batch) /\ Len(batches') = Len(batches)  BY <1>2, <1>3
  <1>5. DOMAIN batches' = DOMAIN batches /\ batches'[b] = v
        /\ \A c \in DOMAIN batches \ {b} : batches'[c] = batches[c]
    BY <1>3
  <1> QED  BY <1>2, <1>4, <1>5

(* A step that touches neither the batches nor pending.                    *)
LEMMA SameBatcher ==
    ASSUME PendingInv, DrainInv, UNCHANGED <<batches, pending, closed, closePC>>
    PROVE  PendingInv' /\ DrainInv'
  BY DEF PendingInv, DrainInv

(* What PendingInv says of one partition.                                  *)
LEMMA PendingBatch ==
    ASSUME TypeOK, PendingInv, NEW q \in Partitions, pending[q] # 0
    PROVE  /\ pending[q] \in DOMAIN batches
           /\ batches[pending[q]].pc = "pending" /\ batches[pending[q]].partition = q
  <1>1. pending[q] \in DOMAIN batches  BY DEF TypeOK
  <1> QED  BY <1>1 DEF PendingInv

(* A step that moves a batch that is not pending.                          *)
LEMMA FlushedBatcher ==
    ASSUME TypeOK, PendingInv, DrainInv, NEW b \in DOMAIN batches, batches[b].pc # "pending",
           \A c \in DOMAIN batches \ {b} : batches'[c] = batches[c],
           UNCHANGED <<pending, closed, closePC>>
    PROVE  PendingInv' /\ DrainInv'
  <1>1. DrainInv'  BY DEF DrainInv
  <1>2. ASSUME NEW p \in Partitions, pending[p] # 0
        PROVE  batches'[pending[p]].pc = "pending" /\ batches'[pending[p]].partition = p
    <2>1. pending[p] \in DOMAIN batches \ {b}  BY <1>2 DEF TypeOK, PendingInv
    <2> QED  BY <1>2, <2>1 DEF PendingInv
  <1> QED  BY <1>1, <1>2 DEF PendingInv

(* The steps of a caller that leave the batches alone.                     *)
LEMMA CallStep ==
    ASSUME Inv, NEW s \in Callers,
           SendStart(s) \/ SendRejected(s) \/ SendReturn(s) \/ SendCancelled(s)
    PROVE  Inv'
  <1> USE DEF Inv, closeVars, batchVars, Call
  <1>1. PendingInv' /\ DrainInv'
    BY SameBatcher DEF SendStart, SendRejected, SendReturn, SendCancelled
  <1>2. CASE callPC' = [callPC EXCEPT ![s] = "returned"]
             /\ callPC[s] \in {"idle", "enqueue"}
             /\ results' = [results EXCEPT ![s] = Append(@, Failure)]
             /\ UNCHANGED <<closeVars, batchVars, conn, batches, holder, log, panicked>>
    <2>1. Failure \in Nat  BY DEF Failure
    <2>2. TypeOK'  BY <1>2, <2>1 DEF TypeOK
    <2>3. Rejected(s)  BY <1>2 DEF Rejected
    <2> QED  BY <1>1, <2>2, <2>3, RejectedKeepsRecords
  <1>3. CASE \E l \in {"enqueue", "returned"} :
             /\ callPC' = [callPC EXCEPT ![s] = l]
             /\ callPC[s] = "idle" \/ l = "returned"
             /\ UNCHANGED <<closeVars, batchVars, conn, batches, holder, log, panicked, results>>
    <2>1. TypeOK'  BY <1>3, Zenon DEF TypeOK
    <2>2. Moved  BY <1>3 DEF Moved, TypeOK
    <2> QED  BY <1>1, <2>1, <2>2, MovedKeepsRecords
  <1>4. CASE SendStart(s)
    <2>1. CASE closed  BY <2>1, <1>2, <1>4 DEF SendStart
    <2>2. CASE ~closed  BY <2>2, <1>3, <1>4 DEF SendStart
    <2> QED  BY <2>1, <2>2
  <1>5. CASE SendRejected(s)  BY <1>2, <1>5, Zenon DEF SendRejected
  <1>6. CASE SendReturn(s) \/ SendCancelled(s)
    BY <1>3, <1>6 DEF SendReturn, SendCancelled
  <1> QED  BY <1>4, <1>5, <1>6

(* A new batch of caller s, at the end of the batches.                     *)
LEMMA NewBatchEffect ==
    ASSUME TypeOK, NEW s \in Callers, NEW p \in Partitions, NEW l \in {"pending", "detached"},
           batches' = Append(batches, NewBatch(p, s, l))
    PROVE  /\ batches' \in Seq(Batch)
           /\ Len(batches') = Len(batches) + 1
           /\ DOMAIN batches' = 1..(Len(batches) + 1)
           /\ DOMAIN batches \subseteq DOMAIN batches'
           /\ \A c \in DOMAIN batches : batches'[c] = batches[c]
           /\ batches'[Len(batches) + 1] = NewBatch(p, s, l)
  <1>1. NewBatch(p, s, l) \in Batch  BY DEF NewBatch, Batch, Failure
  <1>2. batches \in Seq(Batch)  BY DEF TypeOK
  <1> QED  BY <1>1, <1>2, SMTT(20)

(* A caller starts a batch of its own, or one that stays pending.          *)
LEMMA StartStep ==
    ASSUME Inv, NEW s \in Callers, NEW p \in Partitions, NEW l \in {"pending", "detached"},
           callPC[s] = "enqueue",
           batches' = Append(batches, NewBatch(p, s, l)),
           \/ pending' = pending
           \/ l = "pending" /\ Linger /\ ~closed
                 /\ pending' = [pending EXCEPT ![p] = Len(batches) + 1]
           \/ pending' = [pending EXCEPT ![p] = 0],
           timers' \subseteq DOMAIN batches',
           Call(s, "waiting"),
           UNCHANGED <<closeVars, fired, conn, holder, results, log, panicked>>
    PROVE  Inv'
  <1> USE DEF Inv, closeVars, batchVars, Call
  <1>1. /\ batches' \in Seq(Batch)
        /\ Len(batches') = Len(batches) + 1
        /\ DOMAIN batches' = 1..(Len(batches) + 1)
        /\ DOMAIN batches \subseteq DOMAIN batches'
        /\ \A c \in DOMAIN batches : batches'[c] = batches[c]
        /\ batches'[Len(batches) + 1] = NewBatch(p, s, l)
    BY NewBatchEffect
  <1>2. Len(batches) \in Nat /\ DOMAIN batches = 1..Len(batches)  BY DEF TypeOK
  <1>3. pending' \in [Partitions -> 0..(Len(batches) + 1)]
    <2>1. 0..Len(batches) \subseteq 0..(Len(batches) + 1)
          /\ Len(batches) + 1 \in 0..(Len(batches) + 1) /\ 0 \in 0..(Len(batches) + 1)
      BY <1>2, SMTT(20)
    <2> QED  BY <2>1 DEF TypeOK
  <1>4. TypeOK'
    <2>1. holder' \in 0..Len(batches')  BY <1>1, <1>2 DEF TypeOK
    <2>2. fired' \subseteq DOMAIN batches'  BY <1>1, Zenon DEF TypeOK
    <2>3. draining' \in [Closers -> SUBSET DOMAIN batches']  BY <1>1 DEF TypeOK
    <2>4. callPC' \in [Callers -> {"idle", "enqueue", "waiting", "returned"}]
      BY Zenon DEF TypeOK
    <2> QED  BY <1>1, <1>3, <2>1, <2>2, <2>3, <2>4, Zenon DEF TypeOK
  <1>5. Started(s)
    <2>1. /\ NewBatch(p, s, l).waiters = <<s>> /\ NewBatch(p, s, l).base = Failure
          /\ NewBatch(p, s, l).pc = l
      BY DEF NewBatch
    <2> QED  BY <1>1, <2>1 DEF Started
  <1>6. RecordInv'  BY <1>4, <1>5, StartedKeepsRecords
  <1>7. PendingInv'
    <2> SUFFICES ASSUME NEW q \in Partitions, pending'[q] # 0
                 PROVE  /\ batches'[pending'[q]].pc = "pending"
                        /\ batches'[pending'[q]].partition = q
      BY Zenon DEF PendingInv
    <2>1. CASE pending'[q] = pending[q]
      <3>1. pending[q] \in DOMAIN batches  BY <2>1, <1>2 DEF TypeOK
      <3> QED  BY <2>1, <3>1, <1>1 DEF PendingInv
    <2>2. CASE pending'[q] # pending[q]
      <3>1. q = p /\ l = "pending" /\ pending'[q] = Len(batches) + 1
        BY <2>2 DEF TypeOK
      <3> QED  BY <3>1, <1>1 DEF NewBatch
    <2> QED  BY <2>1, <2>2, Zenon
  <1>8. DrainInv'
    <2>1. closed => \A q \in Partitions : pending'[q] \in {0, pending[q]}
      BY DEF TypeOK
    <2>2. ~Linger => \A q \in Partitions : pending'[q] \in {0, pending[q]}
      BY Zenon DEF TypeOK
    <2> QED  BY <2>1, <2>2 DEF DrainInv
  <1> QED  BY <1>4, <1>6, <1>7, <1>8

(* Caller s becomes a waiter of batch b, which is then at l.               *)
JoinAt(s, b, l) ==
    batches' = [batches EXCEPT ![b] =
                   [@ EXCEPT !.waiters = Append(batches[b].waiters, s), !.pc = l]]

(* What a caller joining batch b does to the batches.                      *)
LEMMA JoinEffect ==
    ASSUME TypeOK, NEW s \in Callers, NEW b \in DOMAIN batches,
           NEW l \in {"pending", "detached"},
           JoinAt(s, b, l)
    PROVE  /\ batches' \in Seq(Batch)
           /\ Len(batches') = Len(batches) /\ DOMAIN batches' = DOMAIN batches
           /\ \A c \in DOMAIN batches \ {b} : batches'[c] = batches[c]
           /\ batches'[b].waiters = Append(batches[b].waiters, s)
           /\ batches'[b].partition = batches[b].partition
           /\ batches'[b].base = batches[b].base
           /\ batches'[b].pc = l
  <1>1. batches[b] \in Batch /\ batches[b].waiters \in Seq(Callers)
        /\ batches \in Seq(Batch)
    BY BatchTypes DEF TypeOK
  <1> PICK w : w = Append(batches[b].waiters, s)  BY Zenon
  <1>2. w \in Seq(Callers)  BY <1>1
  <1> PICK v : v = [batches[b] EXCEPT !.waiters = w, !.pc = l]  OBVIOUS
  <1>3. /\ v \in Batch /\ v.waiters = w
        /\ v.partition = batches[b].partition /\ v.base = batches[b].base /\ v.pc = l
    BY <1>1, <1>2, Zenon DEF Batch
  <1>4. batches' = [batches EXCEPT ![b] = v]  BY DEF JoinAt
  <1>5. batches' \in Seq(Batch) /\ Len(batches') = Len(batches)  BY <1>1, <1>3, <1>4
  <1>6. DOMAIN batches' = DOMAIN batches /\ batches'[b] = v
        /\ \A c \in DOMAIN batches \ {b} : batches'[c] = batches[c]
    BY <1>4
  <1> QED  BY <1>3, <1>5, <1>6

(* A caller joins the pending batch of p, and detaches it if that fills it. *)
LEMMA JoinStep ==
    ASSUME Inv, NEW s \in Callers, NEW p \in Partitions, NEW b, NEW l \in {"pending", "detached"},
           callPC[s] = "enqueue", b = pending[p], b # 0,
           JoinAt(s, b, l),
           pending' = [pending EXCEPT ![p] = IF l = "detached" THEN 0 ELSE b],
           timers' \subseteq timers,
           Call(s, "waiting"),
           UNCHANGED <<closeVars, fired, conn, holder, results, log, panicked>>
    PROVE  Inv'
  <1> USE DEF Inv, closeVars, batchVars, Call
  <1>1. b \in DOMAIN batches /\ batches[b].pc = "pending" /\ batches[b].partition = p
    BY PendingBatch, Zenon
  <1>2. /\ batches' \in Seq(Batch)
        /\ Len(batches') = Len(batches) /\ DOMAIN batches' = DOMAIN batches
        /\ \A c \in DOMAIN batches \ {b} : batches'[c] = batches[c]
        /\ batches'[b].waiters = Append(batches[b].waiters, s)
        /\ batches'[b].partition = batches[b].partition
        /\ batches'[b].base = batches[b].base
        /\ batches'[b].pc = l
    BY <1>1, JoinEffect, Zenon
  <1>3. TypeOK'
    <2>1. pending' \in [Partitions -> 0..Len(batches)]
      <3>1. pending \in [Partitions -> 0..Len(batches)] /\ 0 \in 0..Len(batches)
            /\ b \in 0..Len(batches)
        BY DEF TypeOK
      <3> QED  BY <3>1
    <2>2. callPC' \in [Callers -> {"idle", "enqueue", "waiting", "returned"}]
      BY Zenon DEF TypeOK
    <2> QED  BY <1>2, <2>1, <2>2, Zenon DEF TypeOK
  <1>4. Joined(s, b)  BY <1>1, <1>2, Zenon DEF Joined
  <1>5. RecordInv'  BY <1>1, <1>3, <1>4, JoinedKeepsRecords
  <1>6. \A q \in Partitions : \/ pending'[q] = 0
                              \/ pending'[q] = pending[q] /\ (q = p => l = "pending")
    BY Zenon DEF TypeOK
  <1>7. PendingInv'
    <2> SUFFICES ASSUME NEW q \in Partitions, pending'[q] # 0
                 PROVE  /\ batches'[pending'[q]].pc = "pending"
                        /\ batches'[pending'[q]].partition = q
      BY Zenon DEF PendingInv
    <2>1. /\ pending'[q] = pending[q] /\ (q = p => l = "pending")
          /\ pending[q] \in DOMAIN batches /\ batches[pending[q]].pc = "pending"
          /\ batches[pending[q]].partition = q
      BY <1>6, PendingBatch, Zenon
    <2>2. CASE q = p  BY <2>1, <2>2, <1>1, <1>2, Zenon
    <2>3. CASE q # p
      <3>1. pending[q] # b  BY <2>1, <2>3, <1>1, Zenon
      <3> QED  BY <2>1, <3>1, <1>2, Zenon
    <2> QED  BY <2>2, <2>3, Zenon
  <1>8. DrainInv'  BY <1>6 DEF DrainInv
  <1> QED  BY <1>3, <1>5, <1>7, <1>8, Zenon

(* sendBatched keeps the invariant.                                        *)
LEMMA EnqueueStep ==
    ASSUME Inv, NEW s \in Callers, sendBatched(s)
    PROVE  Inv'
  <1>1. ~closed /\ Enqueue(s)  BY DEF sendBatched
  <1> DEFINE new(p) == pending[p] = 0
             b(p) == IF new(p) THEN Len(batches) + 1 ELSE pending[p]
             waiters(p) == IF new(p) THEN <<s>> ELSE Append(batches[b(p)].waiters, s)
             full(p) == Len(waiters(p)) >= BatchSize
             l(p) == IF full(p) THEN "detached" ELSE "pending"
  <1>2. PICK p \in Partitions :
           /\ Running /\ Linger
           /\ callPC[s] = "enqueue"
           /\ batches' = IF new(p) THEN Append(batches, NewBatch(p, s, l(p)))
                         ELSE [batches EXCEPT ![b(p)].waiters = waiters(p), ![b(p)].pc = l(p)]
           /\ pending' = [pending EXCEPT ![p] = IF full(p) THEN 0 ELSE b(p)]
           /\ timers' = IF full(p) THEN timers \ {b(p)}
                        ELSE IF new(p) THEN timers \cup {b(p)} ELSE timers
           /\ Call(s, "waiting")
           /\ UNCHANGED <<closeVars, fired, conn, holder, results, log, panicked, failures>>
    BY <1>1, Zenon DEF Enqueue
  <1>3. l(p) \in {"pending", "detached"} /\ (full(p) <=> l(p) = "detached")  OBVIOUS
  <1> HIDE DEF l, full
  <1>4. TypeOK /\ Len(batches) \in Nat /\ DOMAIN batches = 1..Len(batches)
    BY DEF Inv, TypeOK
  <1>5. CASE new(p)
    <2>1. b(p) = Len(batches) + 1 /\ batches' = Append(batches, NewBatch(p, s, l(p)))
      BY <1>2, <1>5, Zenon
    <2>2. DOMAIN batches' = 1..(Len(batches) + 1)  BY <2>1, <1>3, <1>4, NewBatchEffect
    <2>3. timers' \subseteq DOMAIN batches'
      <3>1. timers \subseteq DOMAIN batches /\ timers' \subseteq timers \cup {b(p)}
        BY <1>2, <1>4 DEF TypeOK
      <3> HIDE DEF b, new
      <3> QED  BY <2>1, <2>2, <3>1, <1>4
    <2>4. \/ l(p) = "pending" /\ Linger /\ ~closed
                /\ pending' = [pending EXCEPT ![p] = Len(batches) + 1]
          \/ pending' = [pending EXCEPT ![p] = 0]
      BY <1>1, <1>2, <1>3, <2>1, Zenon
    <2> HIDE DEF b, new, waiters
    <2> QED  BY <1>2, <1>3, <2>1, <2>3, <2>4, StartStep, Zenon
  <1>6. CASE ~new(p)
    <2> PICK d : d = pending[p]  OBVIOUS
    <2>1. d # 0 /\ b(p) = d /\ waiters(p) = Append(batches[d].waiters, s)
      BY <1>6
    <2>2. timers' \subseteq timers  BY <1>2, <1>6
    <2>3. batches' = [batches EXCEPT ![d].waiters = Append(batches[d].waiters, s),
                                     ![d].pc = l(p)]
      BY <1>2, <1>6, <2>1
    <2> HIDE DEF b, new, waiters
    <2>4. d \in DOMAIN batches /\ batches \in Seq(Batch) /\ batches[d] \in Batch
      BY <2>1 DEF Inv, TypeOK
    <2>5. JoinAt(s, d, l(p))  BY <2>3, <2>4, Zenon DEF JoinAt
    <2>6. pending' = [pending EXCEPT ![p] = IF l(p) = "detached" THEN 0 ELSE d]
      BY <1>2, <1>3, <2>1, Zenon
    <2>7. callPC[s] = "enqueue" /\ Call(s, "waiting")
          /\ UNCHANGED <<closeVars, fired, conn, holder, results, log, panicked>>
      BY <1>2
    <2> QED  BY <1>3, <2>1, <2>2, <2>5, <2>6, <2>7, JoinStep, Zenon
  <1> QED  BY <1>5, <1>6

(* SendBatch keeps the invariant.                                          *)
LEMMA SendBatchStep ==
    ASSUME Inv, NEW s \in Callers, SendBatch(s)
    PROVE  Inv'
  <1>1. PICK p \in Partitions :
           /\ callPC[s] = "enqueue"
           /\ batches' = Append(batches, NewBatch(p, s, "detached"))
           /\ Call(s, "waiting")
           /\ UNCHANGED <<closeVars, batchVars, conn, holder, results, log, panicked, failures>>
    BY Zenon DEF SendBatch
  <1>2. DOMAIN batches \subseteq DOMAIN batches'  BY <1>1, NewBatchEffect, Zenon DEF Inv
  <1>3. timers' \subseteq DOMAIN batches'  BY <1>1, <1>2 DEF batchVars, Inv, TypeOK
  <1>4. pending' = pending /\ fired' = fired  BY <1>1 DEF batchVars
  <1> QED  BY <1>1, <1>3, <1>4, StartStep

(* The linger timer keeps the invariant.                                   *)
LEMMA TimerStep ==
    ASSUME Inv, NEW b \in DOMAIN batches, TimerFires(b) \/ lingerFire(b)
    PROVE  Inv'
  <1> USE DEF Inv, closeVars, batchVars
  <1>1. CASE UNCHANGED <<closeVars, pending, conn, batches, holder, callPC, results, log,
                         panicked>>
             /\ timers' \subseteq DOMAIN batches /\ fired' \subseteq DOMAIN batches
    <2>1. TypeOK'  BY <1>1, Zenon DEF TypeOK
    <2>2. Moved  BY <1>1 DEF Moved
    <2>3. PendingInv' /\ DrainInv'  BY <1>1, SameBatcher, Zenon
    <2> QED  BY <2>1, <2>2, <2>3, MovedKeepsRecords, Zenon
  <1>2. CASE TimerFires(b)  BY <1>1, <1>2 DEF TimerFires, TypeOK
  <1>3. CASE lingerFire(b)
    <2> PICK p : p = batches[b].partition  OBVIOUS
    <2>1. CASE pending[p] # b  BY <1>1, <1>3, <2>1 DEF lingerFire, TypeOK
    <2>2. CASE pending[p] = b
      <3>1. /\ pending' = [pending EXCEPT ![p] = 0]
            /\ Goto(b, "detached")
            /\ fired' \subseteq fired
            /\ UNCHANGED <<closeVars, timers, conn, holder, callPC, results, log, panicked>>
        BY <1>3, <2>2 DEF lingerFire, Goto
      <3>2. p \in Partitions /\ b # 0 /\ batches \in Seq(Batch)
        <4>1. batches \in Seq(Batch)  BY Zenon DEF TypeOK
        <4>2. p \in Partitions  BY <4>1, BatchTypes, Zenon
        <4>3. b # 0  BY <4>1
        <4> QED  BY <4>1, <4>2, <4>3, Zenon
      <3>3. batches[b].pc = "pending"  BY <2>2, <3>2, Zenon DEF PendingInv
      <3>4. "detached" \in Early \cup Late  BY DEF Early
      <3>5. /\ batches' \in Seq(Batch)
            /\ Len(batches') = Len(batches) /\ DOMAIN batches' = DOMAIN batches
            /\ \A c \in DOMAIN batches \ {b} : batches'[c] = batches[c]
            /\ batches'[b].waiters = batches[b].waiters
            /\ batches'[b].partition = batches[b].partition
            /\ batches'[b].base = batches[b].base
            /\ batches'[b].pc = "detached"
        BY <3>1, <3>2, <3>4, GotoEffect, Zenon
      <3>6. TypeOK'
        <4>1. pending \in [Partitions -> 0..Len(batches)] /\ 0 \in 0..Len(batches)
          BY <3>2 DEF TypeOK
        <4>2. pending' \in [Partitions -> 0..Len(batches)]  BY <3>1, <4>1, Zenon
        <4> QED  BY <3>1, <3>5, <4>2, Zenon DEF TypeOK
      <3>7. Moved  BY <3>1, <3>3, <3>5 DEF Moved, Late
      <3>8. \A q \in Partitions : pending'[q] = 0 \/ (q # p /\ pending'[q] = pending[q])
        BY <3>1, <3>2, Zenon DEF TypeOK
      <3>9. PendingInv'
        <4> SUFFICES ASSUME NEW q \in Partitions, pending'[q] # 0
                     PROVE  /\ batches'[pending'[q]].pc = "pending"
                            /\ batches'[pending'[q]].partition = q
          BY Zenon DEF PendingInv
        <4>1. /\ q # p /\ pending'[q] = pending[q] /\ pending[q] \in DOMAIN batches
              /\ batches[pending[q]].pc = "pending" /\ batches[pending[q]].partition = q
          BY <3>8, PendingBatch, Zenon
        <4>2. pending[q] # b  BY <4>1
        <4> QED  BY <4>1, <4>2, <3>5, Zenon
      <3>10. DrainInv'  BY <3>1, <3>8 DEF DrainInv
      <3> QED  BY <3>6, <3>7, <3>9, <3>10, MovedKeepsRecords
    <2> QED  BY <2>1, <2>2, Zenon
  <1> QED  BY <1>2, <1>3

(* A batch on its way to the broker keeps the invariant.                   *)
LEMMA TripStep ==
    ASSUME Inv, NEW b \in DOMAIN batches, NEW l \in {"write", "sent", "read"},
           Goto(b, l),
           \/ batches[b].pc = "detached"
           \/ batches[b].pc = "write" /\ l = "sent"
           \/ batches[b].pc = "sent" /\ l = "read",
           holder' \in {holder, b}, conn' \in BOOLEAN,
           UNCHANGED <<closeVars, batchVars, callPC, results, log, panicked>>
    PROVE  Inv'
  <1> USE DEF Inv, closeVars, batchVars
  <1>1. l \in Early \cup Late /\ batches \in Seq(Batch)  BY Zenon DEF Early, Late, TypeOK
  <1>2. /\ batches' \in Seq(Batch)
        /\ Len(batches') = Len(batches) /\ DOMAIN batches' = DOMAIN batches
        /\ \A c \in DOMAIN batches \ {b} : batches'[c] = batches[c]
        /\ batches'[b].waiters = batches[b].waiters
        /\ batches'[b].partition = batches[b].partition
        /\ batches'[b].base = batches[b].base
        /\ batches'[b].pc = l
    BY <1>1, GotoEffect, Zenon
  <1>3. TypeOK'
    <2>1. holder' \in 0..Len(batches)  BY <1>1 DEF TypeOK
    <2> QED  BY <1>2, <2>1, Zenon DEF TypeOK
  <1>4. Moved
    <2>1. batches[b].pc \in Late => l \in Late  BY Zenon DEF Late
    <2> QED  BY <1>2, <2>1, Zenon DEF Moved
  <1>5. PendingInv' /\ DrainInv'  BY <1>2, FlushedBatcher, Zenon
  <1> QED  BY <1>3, <1>4, <1>5, MovedKeepsRecords, Zenon

(* Batch b has been written, and its first record is at offset n.          *)
SentAt(b, n) == batches' = [batches EXCEPT ![b].pc = "sent", ![b].base = n]

(* What that does to the batches.                                          *)
LEMMA SentEffect ==
    ASSUME batches \in Seq(Batch), NEW b \in DOMAIN batches, NEW n \in Nat, SentAt(b, n)
    PROVE  /\ batches' \in Seq(Batch)
           /\ Len(batches') = Len(batches) /\ DOMAIN batches' = DOMAIN batches
           /\ \A c \in DOMAIN batches \ {b} : batches'[c] = batches[c]
           /\ batches'[b].waiters = batches[b].waiters
           /\ batches'[b].partition = batches[b].partition
           /\ batches'[b].base = n
           /\ batches'[b].pc = "sent"
  <1>1. batches[b] \in Batch  OBVIOUS
  <1> PICK v : v = [batches[b] EXCEPT !.pc = "sent", !.base = n]  OBVIOUS
  <1>2. /\ v \in Batch /\ v.waiters = batches[b].waiters
        /\ v.partition = batches[b].partition /\ v.base = n /\ v.pc = "sent"
    BY <1>1, Zenon DEF Batch
  <1>3. batches' = [batches EXCEPT ![b] = v]  BY Zenon DEF SentAt
  <1>4. batches' \in Seq(Batch) /\ Len(batches') = Len(batches)  BY <1>2, <1>3, Replaced
  <1>5. /\ DOMAIN batches' = DOMAIN batches /\ batches'[b] = v
        /\ \A c \in DOMAIN batches \ {b} : batches'[c] = batches[c]
    BY <1>3, Zenon
  <1> QED  BY <1>2, <1>4, <1>5

(* The records of batch b are appended to the log of their partition.      *)
AppendsOf(b) == log' = [log EXCEPT ![batches[b].partition] = @ \o batches[b].waiters]

(* The log is still one of records of callers.                             *)
LEMMA AppendsType ==
    ASSUME TypeOK, NEW b \in DOMAIN batches, AppendsOf(b)
    PROVE  log' \in [Partitions -> Seq(Callers)]
  <1> PICK p, w : p = batches[b].partition /\ w = log[p] \o batches[b].waiters
    BY Zenon
  <1>1. batches \in Seq(Batch) /\ log \in [Partitions -> Seq(Callers)]  BY DEF TypeOK
  <1>2. p \in Partitions /\ batches[b].waiters \in Seq(Callers)
    BY <1>1, BatchTypes, Zenon
  <1>3. log[p] \in Seq(Callers)  BY <1>1, <1>2, Zenon
  <1>4. w \in Seq(Callers)  BY <1>2, <1>3, ConcatType, Zenon
  <1>5. log' = [log EXCEPT ![p] = w]  BY Zenon DEF AppendsOf
  <1> QED  BY <1>1, <1>4, <1>5, Zenon

(* The broker appending the records of a batch keeps the invariant.        *)
LEMMA WriteStep ==
    ASSUME Inv, NEW b \in DOMAIN batches, NEW n,
           batches[b].pc = "write", n = Len(log[batches[b].partition]) + 1,
           AppendsOf(b), SentAt(b, n),
           UNCHANGED <<closeVars, batchVars, conn, holder, callPC, results, panicked>>
    PROVE  Inv'
  <1>1. TypeOK /\ RecordInv /\ PendingInv /\ DrainInv  BY Zenon DEF Inv
  <1>2. /\ closed' = closed /\ finalized' = finalized /\ closePC' = closePC
        /\ draining' = draining /\ pending' = pending /\ timers' = timers /\ fired' = fired
        /\ conn' = conn /\ holder' = holder /\ callPC' = callPC /\ results' = results
        /\ panicked' = panicked
    BY DEF closeVars, batchVars
  <1>3. batches \in Seq(Batch) /\ n \in Nat
    <2>1. batches \in Seq(Batch) /\ log \in [Partitions -> Seq(Callers)]
      BY <1>1, Zenon DEF TypeOK
    <2>2. log[batches[b].partition] \in Seq(Callers)  BY <2>1, BatchTypes, Zenon
    <2>3. Len(log[batches[b].partition]) \in Nat  BY <2>2
    <2> QED  BY <2>1, <2>3
  <1>4. /\ batches' \in Seq(Batch)
        /\ Len(batches') = Len(batches) /\ DOMAIN batches' = DOMAIN batches
        /\ \A c \in DOMAIN batches \ {b} : batches'[c] = batches[c]
        /\ batches'[b].waiters = batches[b].waiters
        /\ batches'[b].partition = batches[b].partition
        /\ batches'[b].base = n
        /\ batches'[b].pc = "sent"
    BY <1>3, SentEffect, Zenon
  <1>5. log' \in [Partitions -> Seq(Callers)]  BY <1>1, AppendsType, Zenon
  <1>6. TypeOK'  BY <1>1, <1>2, <1>4, <1>5, Zenon DEF TypeOK
  <1>7. Written(b)  BY <1>2, <1>4, Zenon DEF Written, AppendsOf
  <1>8. PendingInv' /\ DrainInv'  BY <1>1, <1>2, <1>4, FlushedBatcher, Zenon
  <1>9. RecordInv'  BY <1>1, <1>6, <1>7, WrittenKeepsRecords, Zenon
  <1> QED  BY <1>6, <1>8, <1>9, Zenon DEF Inv

(* The results of a batch keep the invariant, if they are errors or those  *)
(* of its base offset.                                                     *)
LEMMA FinishStep ==
    ASSUME Inv, NEW b \in DOMAIN batches, NEW base \in {Failure, batches[b].base},
           batches[b].pc \notin {"pending", "done"}, Finish(b, base), conn' \in BOOLEAN,
           UNCHANGED <<closeVars, batchVars, callPC, log, panicked>>
    PROVE  Inv'
  <1> USE DEF Inv, closeVars, batchVars
  <1> PICK w : w = batches[b].waiters  OBVIOUS
  <1> DEFINE Place(s) == CHOOSE i \in DOMAIN w : w[i] = s
             Result(s) == IF base = Failure THEN Failure ELSE base + Place(s) - 1
  <1>1. /\ Goto(b, "done") /\ holder' = 0
        /\ results' = [s \in Callers |->
              IF s \in Range(w) THEN Append(results[s], Result(s)) ELSE results[s]]
    BY SMTT(20) DEF Finish, Goto
  <1>2. /\ "done" \in Early \cup Late /\ batches \in Seq(Batch)
        /\ base \in Nat /\ w \in Seq(Callers) /\ DOMAIN w = 1..Len(w)
        /\ \A i \in DOMAIN w : w[i] \in Callers
    BY BatchTypes DEF Late, TypeOK, Failure
  <1>3. /\ batches' \in Seq(Batch)
        /\ Len(batches') = Len(batches) /\ DOMAIN batches' = DOMAIN batches
        /\ \A c \in DOMAIN batches \ {b} : batches'[c] = batches[c]
        /\ batches'[b].waiters = batches[b].waiters
        /\ batches'[b].partition = batches[b].partition
        /\ batches'[b].base = batches[b].base
        /\ batches'[b].pc = "done"
    BY <1>1, <1>2, GotoEffect, Zenon
  <1>4. \A i \in DOMAIN w : Place(w[i]) = i
    <2>1. \A i, j \in DOMAIN w : w[i] = w[j] => i = j
      BY Zenon DEF RecordInv, OneBatchEach
    <2> TAKE i \in DOMAIN w
    <2>2. Place(w[i]) \in DOMAIN w /\ w[Place(w[i])] = w[i]  BY Zenon
    <2> HIDE DEF Place
    <2> QED  BY <2>1, <2>2, Zenon
  <1>5. \A s \in Range(w) : Result(s) \in Nat
    <2>1. ASSUME NEW i \in DOMAIN w PROVE Result(w[i]) \in Nat
      <3>1. Place(w[i]) = i  BY <1>4, Zenon
      <3> HIDE DEF Place
      <3>2. Result(w[i]) = IF base = Failure THEN Failure ELSE base + i - 1
        BY <3>1, Zenon
      <3> HIDE DEF Result
      <3>3. base \in Nat /\ i \in 1..Len(w)  BY <1>2, Zenon
      <3>4. base + i - 1 \in Nat  BY <3>3, <1>2
      <3> QED  BY <3>2, <3>4 DEF Failure
    <2> HIDE DEF Result
    <2> QED  BY <2>1, Zenon DEF Range
  <1>6. results' \in [Callers -> Seq(Nat)]
    <2> HIDE DEF Result
    <2>1. \A s \in Callers : results[s] \in Seq(Nat)  BY Zenon DEF TypeOK
    <2>2. \A s \in Callers : IF s \in Range(w) THEN Append(results[s], Result(s)) \in Seq(Nat)
                             ELSE results[s] \in Seq(Nat)
      BY <2>1, <1>5, SMTT(20)
    <2> QED  BY <1>1, <2>2
  <1>7. TypeOK'
    <2>1. holder' = 0 /\ 0 \in 0..Len(batches)  BY <1>1, <1>2, SMTT(20)
    <2> QED  BY <1>3, <1>6, <2>1, Zenon DEF TypeOK
  <1>8. \A s \in Callers \ Range(w) : results'[s] = results[s]
    <2> HIDE DEF Result
    <2> QED  BY <1>1, Zenon
  <1>9. \A i \in DOMAIN w :
           results'[w[i]] = Append(results[w[i]], IF base = Failure THEN Failure
                                                  ELSE base + i - 1)
    <2> TAKE i \in DOMAIN w
    <2>1. Result(w[i]) = IF base = Failure THEN Failure ELSE base + i - 1
      <3>1. Place(w[i]) = i  BY <1>4, Zenon
      <3> HIDE DEF Place
      <3> QED  BY <3>1, Zenon
    <2>2. w[i] \in Range(w) /\ w[i] \in Callers  BY <1>2, Zenon DEF Range
    <2> HIDE DEF Result
    <2>3. results'[w[i]] = Append(results[w[i]], Result(w[i]))  BY <1>1, <2>2
    <2> QED  BY <2>1, <2>3, Zenon
  <1>10. Finished(b, base)
    <2> HIDE DEF Result, Place
    <2> QED  BY <1>3, <1>8, <1>9, Zenon DEF Finished
  <1>11. PendingInv' /\ DrainInv'  BY <1>3, FlushedBatcher, Zenon
  <1> QED  BY <1>7, <1>10, <1>11, FinishedKeepsRecords, Zenon

(* The round trip of a batch keeps the invariant.                          *)
LEMMA ProduceStep ==
    ASSUME Inv, NEW b \in DOMAIN batches, produceRecords(b)
    PROVE  Inv'
  <1>1. TypeOK /\ conn \in BOOLEAN  BY Zenon DEF Inv, TypeOK
  <1>2. CASE Connect(b)
    <2>1. /\ batches[b].pc = "detached" /\ Goto(b, "write") /\ holder' = b /\ conn' = TRUE
          /\ UNCHANGED <<closeVars, batchVars, callPC, results, log, panicked>>
      BY <1>2, Zenon DEF Connect, At
    <2> QED  BY <2>1, TripStep, Zenon
  <1>3. CASE ConnectFails(b)
    <2>1. /\ batches[b].pc = "detached" /\ Finish(b, Failure) /\ conn' = conn
          /\ UNCHANGED <<closeVars, batchVars, callPC, log, panicked>>
      BY <1>3 DEF ConnectFails, At
    <2> QED  BY <2>1, <1>1, FinishStep, Zenon
  <1>4. CASE Write(b)
    <2> PICK n : n = Len(log[batches[b].partition]) + 1  BY Zenon
    <2>1. /\ batches[b].pc = "write"
          /\ UNCHANGED <<closeVars, batchVars, conn, holder, callPC, results, panicked>>
          /\ \/ AppendsOf(b) /\ SentAt(b, n)
             \/ Goto(b, "sent") /\ log' = log
      BY <1>4, Zenon DEF Write, At, SentAt, AppendsOf
    <2>2. CASE AppendsOf(b) /\ SentAt(b, n)  BY <2>1, <2>2, WriteStep, Zenon
    <2>3. CASE Goto(b, "sent") /\ log' = log  BY <2>1, <2>3, <1>1, TripStep
    <2> QED  BY <2>1, <2>2, <2>3, Zenon
  <1>5. CASE WriteFails(b)
    <2>1. /\ batches[b].pc = "write" /\ Finish(b, Failure) /\ conn' = FALSE
          /\ UNCHANGED <<closeVars, batchVars, callPC, log, panicked>>
      BY <1>5, Zenon DEF WriteFails, At
    <2> QED  BY <2>1, FinishStep, Zenon
  <1>6. CASE Read(b)
    <2>1. /\ batches[b].pc = "sent" /\ Goto(b, "read") /\ conn' = conn /\ holder' = holder
          /\ UNCHANGED <<closeVars, batchVars, callPC, results, log, panicked>>
      BY <1>6, Zenon DEF Read, At
    <2> QED  BY <2>1, <1>1, TripStep, Zenon
  <1>7. CASE Answered(b)
    <2>1. /\ batches[b].pc = "read" /\ Finish(b, batches[b].base) /\ conn' = conn
          /\ UNCHANGED <<closeVars, batchVars, callPC, log, panicked>>
      BY <1>7 DEF Answered, At
    <2> QED  BY <2>1, <1>1, FinishStep, Zenon
  <1>8. CASE ReadFails(b)
    <2>1. /\ batches[b].pc = "read" /\ Finish(b, Failure) /\ conn' = FALSE
          /\ UNCHANGED <<closeVars, batchVars, callPC, log, panicked>>
      BY <1>8 DEF ReadFails, At
    <2> QED  BY <2>1, FinishStep, Zenon
  <1>9. CASE NilBuffer(b)
    <2>1. /\ panicked' = TRUE
          /\ UNCHANGED <<closed, finalized, closePC, draining, pending, timers, fired, conn,
                         batches, holder, callPC, results, log>>
      BY <1>9, Zenon DEF NilBuffer, closeVars, batchVars
    <2>2. TypeOK'  BY <2>1, <1>1 DEF TypeOK
    <2>3. Moved  BY <2>1, Zenon DEF Moved
    <2>4. PendingInv' /\ DrainInv'  BY <2>1, SameBatcher DEF Inv
    <2> QED  BY <2>2, <2>3, <2>4, MovedKeepsRecords, Zenon DEF Inv
  <1> QED
    BY <1>2, <1>3, <1>4, <1>5, <1>6, <1>7, <1>8, <1>9, Zenon DEF produceRecords

(* Close keeps the invariant: only the closer that sets closed is sent to  *)
(* drain, and it leaves nothing pending.                                   *)
LEMMA CloseStep ==
    ASSUME Inv, NEW c \in Closers, CloseStart(c) \/ Close(c)
    PROVE  Inv'
  <1> USE DEF Inv, batchVars
  <1>1. CASE /\ UNCHANGED <<draining, batchVars, batches, holder, callPC, results, log, panicked>>
             /\ closePC' \in [Closers -> {"idle", "drain", "flush", "final", "returned"}]
             /\ closed' \in BOOLEAN /\ finalized' \in BOOLEAN /\ conn' \in BOOLEAN
             /\ DrainInv'
    <2>1. TypeOK'  BY <1>1 DEF TypeOK
    <2>2. Moved  BY <1>1, Zenon DEF Moved
    <2>3. PendingInv'  BY <1>1, Zenon DEF PendingInv
    <2> QED  BY <1>1, <2>1, <2>2, <2>3, MovedKeepsRecords, Zenon
  <1>2. closePC \in [Closers -> {"idle", "drain", "flush", "final", "returned"}]
    BY Zenon DEF TypeOK
  <1>3. CASE CloseStart(c)
    <2>1. closePC' \in [Closers -> {"idle", "drain", "flush", "final", "returned"}]
      BY <1>2, <1>3, Zenon DEF CloseStart
    <2>2. \A d \in Closers : closePC[d] = "drain" => closePC'[d] = "drain"
      BY <1>2, <1>3, Zenon DEF CloseStart
    <2>3. closed' => \/ closed
                     \/ Linger /\ closePC'[c] = "drain"
                     \/ ~Linger
      BY <1>2, <1>3, Zenon DEF CloseStart, TypeOK
    <2>4. pending' = pending  BY <1>3, Zenon DEF CloseStart
    <2>5. DrainInv'  BY <2>2, <2>3, <2>4 DEF DrainInv
    <2> QED  BY <1>1, <1>3, <2>1, <2>5 DEF CloseStart, TypeOK
  <1>4. CASE flushAllPending(c)
    <2> DEFINE detached == {b \in DOMAIN batches : batches[b].pc = "pending"}
    <2>1. /\ draining' = [draining EXCEPT ![c] = detached]
          /\ batches' = [b \in DOMAIN batches |->
                IF b \in detached THEN [batches[b] EXCEPT !.pc = "detached"] ELSE batches[b]]
          /\ pending' = [p \in Partitions |-> 0]
          /\ timers' \subseteq timers
          /\ closePC' = [closePC EXCEPT ![c] = "flush"]
          /\ UNCHANGED <<closed, finalized, fired, conn, holder, callPC, results, log, panicked>>
      BY <1>4, Zenon DEF flushAllPending
    <2>2. batches \in Seq(Batch) /\ DOMAIN batches = 1..Len(batches) /\ Len(batches) \in Nat
      BY DEF TypeOK
    <2>3. \A b \in DOMAIN batches :
             /\ batches'[b] \in Batch
             /\ batches'[b].waiters = batches[b].waiters
             /\ batches'[b].partition = batches[b].partition
             /\ batches'[b].base = batches[b].base
             /\ batches'[b].pc = IF batches[b].pc = "pending" THEN "detached" ELSE batches[b].pc
      <3> TAKE b \in DOMAIN batches
      <3> PICK v : v = [batches[b] EXCEPT !.pc = "detached"]  BY Zenon
      <3>1. batches[b] \in Batch  BY <2>2
      <3>2. /\ v \in Batch /\ v.waiters = batches[b].waiters
            /\ v.partition = batches[b].partition /\ v.base = batches[b].base
            /\ v.pc = "detached"
        BY <3>1 DEF Batch
      <3>3. batches'[b] = IF batches[b].pc = "pending" THEN v ELSE batches[b]  BY <2>1
      <3> QED  BY <3>1, <3>2, <3>3, Zenon
    <2>4. DOMAIN batches' = DOMAIN batches  BY <2>1
    <2>5. batches' \in Seq(Batch) /\ Len(batches') = Len(batches)
      <3>1. batches' = [b \in 1..Len(batches) |-> batches'[b]]  BY <2>1, <2>2, Zenon
      <3>2. \A b \in 1..Len(batches) : batches'[b] \in Batch  BY <2>2, <2>3
      <3> QED  BY <3>1, <3>2, <2>2
    <2>6. TypeOK'
      <3>1. pending' \in [Partitions -> 0..Len(batches)]  BY <2>1, <2>2
      <3>2. draining' \in [Closers -> SUBSET DOMAIN batches]  BY <2>1 DEF TypeOK
      <3>3. closePC' \in [Closers -> {"idle", "drain", "flush", "final", "returned"}]
        BY <2>1, <1>2
      <3> HIDE DEF detached
      <3> QED  BY <2>1, <2>4, <2>5, <3>1, <3>2, <3>3 DEF TypeOK
    <2>7. Moved
      <3> HIDE DEF detached
      <3> QED  BY <2>1, <2>3, <2>4 DEF Moved, Late
    <2>8. PendingInv' /\ DrainInv'  BY <2>1 DEF PendingInv, DrainInv
    <2> QED  BY <2>6, <2>7, <2>8, MovedKeepsRecords
  <1>5. CASE CloseFlushed(c) \/ CloseFinal(c)
    <2> PICK l \in {"final", "returned"} :
           /\ closePC' = [closePC EXCEPT ![c] = l]
           /\ closePC[c] # "drain"
           /\ UNCHANGED <<closed, draining, batchVars, batches, holder, callPC, results, log, panicked>>
           /\ finalized' \in {finalized, TRUE}
           /\ conn' \in BOOLEAN
      BY <1>5, Zenon DEF CloseFlushed, CloseFinal, TypeOK
    <2>1. closePC' \in [Closers -> {"idle", "drain", "flush", "final", "returned"}]
      BY <1>2
    <2>2. \A d \in Closers : closePC[d] = "drain" => closePC'[d] = "drain"
      BY <1>2
    <2>3. DrainInv'  BY <2>2 DEF DrainInv
    <2> QED  BY <1>1, <2>1, <2>3, Zenon DEF TypeOK
  <1> QED  BY <1>3, <1>4, <1>5 DEF Close

-----------------------------------------------------------------------------
(* The theorems.                                                           *)

(* The invariant holds of a new producer.                                  *)
LEMMA InitInv ==
    Init => Inv
  <1> SUFFICES ASSUME Init PROVE Inv  OBVIOUS
  <1> USE DEF Init
  <1>1. TypeOK
    <2>1. batches \in Seq(Batch) /\ Len(batches) = 0  OBVIOUS
    <2>2. pending \in [Partitions -> 0..Len(batches)] /\ holder \in 0..Len(batches)
      BY <2>1
    <2>3. results \in [Callers -> Seq(Nat)] /\ log \in [Partitions -> Seq(Callers)]
      OBVIOUS
    <2>4. draining \in [Closers -> SUBSET DOMAIN batches]  OBVIOUS
    <2>5. /\ callPC \in [Callers -> {"idle", "enqueue", "waiting", "returned"}]
          /\ closePC \in [Closers -> {"idle", "drain", "flush", "final", "returned"}]
      OBVIOUS
    <2> QED  BY <2>1, <2>2, <2>3, <2>4, <2>5, Zenon DEF TypeOK
  <1>2. DOMAIN batches = {} /\ \A s \in Callers : results[s] = <<>>  BY SMTT(20)
  <1>3. OneBatchEach /\ WaitersCalled  BY <1>2 DEF OneBatchEach, WaitersCalled
  <1>4. ResultsInv  BY <1>2 DEF ResultsInv
  <1>5. \A p \in Partitions : DOMAIN log[p] = {}  BY SMTT(20)
  <1>6. LogOnce /\ LogFromBatches  BY <1>5, Zenon DEF LogOnce, LogFromBatches
  <1>7. BaseInv  BY <1>2 DEF BaseInv
  <1>8. OffsetsAreTheirs  BY <1>2 DEF OffsetsAreTheirs
  <1>9. PendingInv /\ DrainInv  BY DEF PendingInv, DrainInv
  <1> QED  BY <1>1, <1>3, <1>4, <1>6, <1>7, <1>8, <1>9 DEF Inv, RecordInv

(* Every step keeps the invariant.                                         *)
LEMMA NextInv ==
    Inv /\ [Next]_vars => Inv'
  <1> SUFFICES ASSUME Inv, [Next]_vars PROVE Inv'  OBVIOUS
  <1>1. ASSUME NEW s \in Callers, SendStart(s) \/ Send(s) \/ SendCancelled(s)
        PROVE  Inv'
    BY <1>1, CallStep, EnqueueStep, SendBatchStep DEF Send
  <1>2. ASSUME NEW b \in DOMAIN batches, TimerFires(b) \/ lingerFire(b) \/ produceRecords(b)
        PROVE  Inv'
    BY <1>2, TimerStep, ProduceStep
  <1>3. ASSUME NEW c \in Closers, CloseStart(c) \/ Close(c)
        PROVE  Inv'
    BY <1>3, CloseStep
  <1>4. CASE UNCHANGED vars
    <2>1. UNCHANGED <<closed, finalized, closePC, draining, pending, timers, fired, conn,
                      batches, holder, callPC, results, log, panicked>>
      BY <1>4, Zenon DEF vars, closeVars, batchVars
    <2>2. TypeOK'  BY <2>1, Zenon DEF Inv, TypeOK
    <2>3. Moved  BY <2>1 DEF Moved
    <2>4. PendingInv' /\ DrainInv'  BY <2>1, SameBatcher DEF Inv
    <2> QED  BY <2>2, <2>3, <2>4, MovedKeepsRecords DEF Inv
  <1> QED  BY <1>1, <1>2, <1>3, <1>4 DEF Next

(* The inductive invariant holds in every reachable state.                 *)
LEMMA AlwaysInv ==
    Spec => []Inv
  BY InitInv, NextInv, PTL DEF Spec

(* The state is always well typed.                                         *)
THEOREM TypeInvariant ==
    Spec => []TypeOK
  <1>1. Inv => TypeOK  BY DEF Inv
  <1> QED  BY <1>1, AlwaysInv, PTL

(* Whatever flushes a batch (the caller that fills it, its linger timer or *)
(* Close), a caller of Send gets one result at most, and its record is     *)
(* appended once at most over all partitions.                              *)
THEOREM AlwaysSentOnce ==
    Spec => []SentOnce
  <1>1. Inv => SentOnce  BY DEF Inv, RecordInv, ResultsInv, LogOnce, SentOnce
  <1> QED  BY <1>1, AlwaysInv, PTL, Zenon

(* An offset that Send returns is the offset of the caller's own record:   *)
(* the base offset plus the caller's place in its batch.                   *)
THEOREM OffsetsAreAlwaysTheirs ==
    Spec => []OffsetsAreTheirs
  <1>1. Inv => OffsetsAreTheirs  BY DEF Inv, RecordInv
  <1> QED  BY <1>1, AlwaysInv, PTL

(* Once the pending batches are detached by Close, none is pending again,  *)
(* so that no caller waits in a batch nobody flushes.                      *)
THEOREM NothingEverStranded ==
    Spec => []NothingStranded
  <1>1. Inv => NothingStranded  BY DEF Inv, DrainInv, NothingStranded
  <1> QED  BY <1>1, AlwaysInv, PTL

=============================================================================
