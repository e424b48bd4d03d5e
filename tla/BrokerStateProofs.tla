------------------------- MODULE BrokerStateProofs --------------------------
(***************************************************************************)
(* The two halves of a broker's state, for every set of topics, partitions *)
(* and handlers and every bound: what each action of the offset store      *)
(* keeps true of its cache and log, and what each way to create or open a  *)
(* topic keeps true of b.topics and topics.json.  BrokerLifecycleProofs    *)
(* has the theorems that rest on these lemmas.                             *)
(***************************************************************************)
EXTENDS BrokerLifecycle, FiniteSetTheorems, TLAPS

-----------------------------------------------------------------------------
(* The last commit of a partition.                                         *)

(* A non-empty set of positions has a last one.                            *)
LEMMA LastPosition ==
    ASSUME NEW n \in Nat, NEW S, S \subseteq 1..n, S # {}
    PROVE  Max(S) \in S /\ \A j \in S : j <= Max(S)
<1> DEFINE R == {ss \in Nat \X Nat : ss[1] < ss[2]}
           T == {k \in Nat : \E i \in S : k = n - i}
<1>1. OpToRel(<, Nat) = R
  BY Zenon DEF OpToRel
<1>2. IsWellFoundedOn(R, Nat)
  BY <1>1, NatLessThanWellFounded, Zenon
<1>3. ASSUME NEW x \in Nat, NEW y \in Nat, x < y
      PROVE  <<x, y>> \in R
  <2>1. <<x, y>>[1] < <<x, y>>[2] /\ <<x, y>> \in Nat \X Nat
    BY <1>3
  <2> QED
    BY <2>1, Zenon
<1>4. T \subseteq Nat /\ T # {}
  <2>1. PICK i : i \in S
    OBVIOUS
  <2>2. n - i \in T
    BY <2>1
  <2> QED
    BY <2>2
<1> HIDE DEF R, T
<1>5. PICK x \in T : \A y \in T : ~ (<<y, x>> \in R)
  BY WFMin, <1>2, <1>4, Zenon
<1>6. PICK i \in S : x = n - i
  BY <1>5 DEF T
<1>7. ASSUME NEW j \in S
      PROVE  j <= i
  <2>1. n - j \in T /\ n - j \in Nat /\ x \in Nat
    BY <1>4, <1>5 DEF T
  <2>2. ~(n - j < x)
    BY <1>3, <1>5, <2>1, Zenon
  <2> QED
    BY <1>6, <2>2
<1>8. \E k \in S : \A j \in S : k >= j
  BY <1>7
<1>9. Max(S) \in S /\ \A j \in S : Max(S) >= j
  BY <1>8, Zenon DEF Max
<1> QED
  BY <1>9

(* What a replay of the log yields.                                        *)
LEMMA ReplayType ==
    ASSUME NEW log \in Seq(CommitRecord)
    PROVE  Replay(log) \in [Partitions -> Nat \cup {-1}]
<1> SUFFICES ASSUME NEW p \in Partitions
             PROVE  Replay(log)[p] \in Nat \cup {-1}
  BY DEF Replay
<1> DEFINE at == {i \in DOMAIN log : log[i].partition = p}
<1>1. Replay(log)[p] = IF at = {} THEN -1 ELSE log[Max(at)].offset
  BY DEF Replay
<1>2. CASE at # {}
  <2>1. at \subseteq 1..Len(log) /\ Len(log) \in Nat
    OBVIOUS
  <2> HIDE DEF at
  <2>2. Max(at) \in at
    BY <1>2, <2>1, LastPosition, Zenon
  <2>3. Max(at) \in 1..Len(log)
    BY <2>1, <2>2, Zenon
  <2>4. log[Max(at)] \in CommitRecord
    BY <2>3
  <2> QED
    BY <1>1, <1>2, <2>4 DEF CommitRecord
<1> QED
  BY <1>1, <1>2

(* A commit is what a replay finds of its partition; the others keep       *)
(* theirs.                                                                 *)
LEMMA ReplayAppend ==
    ASSUME NEW log \in Seq(CommitRecord), NEW r \in CommitRecord, NEW q \in Partitions
    PROVE  Replay(Append(log, r))[q] = IF q = r.partition THEN r.offset ELSE Replay(log)[q]
<1> DEFINE n == Len(log)
           new == Append(log, r)
           at == {i \in DOMAIN log : log[i].partition = q}
           now == {i \in DOMAIN new : new[i].partition = q}
<1>1. /\ n \in Nat /\ DOMAIN log = 1..n /\ DOMAIN new = 1..(n + 1)
      /\ new[n + 1] = r /\ \A i \in 1..n : new[i] = log[i]
  OBVIOUS
<1>2. /\ Replay(log)[q] = IF at = {} THEN -1 ELSE log[Max(at)].offset
      /\ Replay(new)[q] = IF now = {} THEN -1 ELSE new[Max(now)].offset
  BY Zenon DEF Replay
<1> HIDE DEF new
<1>3. at \subseteq 1..n /\ now \subseteq 1..(n + 1) /\ n + 1 \in Nat
  BY <1>1
<1>4. CASE q = r.partition
  <2>1. n + 1 \in now
    BY <1>1, <1>4
  <2> HIDE DEF now, n
  <2>2. Max(now) \in now /\ \A j \in now : j <= Max(now)
    BY <1>3, <2>1, LastPosition, Zenon
  <2>3. Max(now) \in 1..(n + 1) /\ n + 1 <= Max(now)
    BY <1>3, <2>1, <2>2, Zenon
  <2>4. Max(now) = n + 1
    BY <1>1, <2>3
  <2> QED
    BY <1>1, <1>2, <1>4, <2>1, <2>4 DEF new
<1>5. CASE q # r.partition
  <2>1. now = at
    BY <1>1, <1>5
  <2> HIDE DEF now, at, n
  <2>2. at # {} => Max(at) \in 1..n
    BY <1>1, <1>3, LastPosition, Zenon
  <2> QED
    BY <1>1, <1>2, <1>5, <2>1, <2>2 DEF new
<1> QED
  BY <1>4, <1>5

-----------------------------------------------------------------------------
(* The offset store.  A commit that is between its two critical sections   *)
(* owns its partition: the cache holds its offset, and the value it keeps  *)
(* for an undo is the last one of the log.                                 *)

RequestTypeOK(h) ==
    /\ DOMAIN todo[h] \subseteq Partitions /\ todo[h] \in [DOMAIN todo[h] -> Nat]
    /\ current[h] \subseteq DOMAIN todo[h] /\ \A p, q \in current[h] : p = q

OwnPartitions ==
    \A g, h \in Handlers : g # h => DOMAIN todo[g] \cap DOMAIN todo[h] = {}

CommitsAtWork ==
    /\ \A h \in undoing : current[h] # None
    /\ \A h \in Handlers : \A p \in current[h] :
          cache[p] = todo[h][p] /\ (started => oldVal[h] = Replay(records)[p])

StoreInv == StoreTypeOK /\ OwnPartitions /\ CommitsAtWork /\ CacheMatchesLog

(* A handler is done with a partition.                                     *)
LEMMA DoneFacts ==
    ASSUME StoreTypeOK, NEW h \in Handlers, NEW p, Done(h, p)
    PROVE  /\ todo' = [g \in Handlers |-> todo'[g]]
           /\ current' \in [Handlers -> SUBSET Partitions]
           /\ oldVal' \in [Handlers -> Nat \cup {-1}]
           /\ \A g \in Handlers : RequestTypeOK(g)'
           /\ current'[h] = {} /\ DOMAIN todo'[h] \subseteq DOMAIN todo[h]
           /\ \A g \in Handlers :
                 g # h => /\ todo'[g] = todo[g] /\ current'[g] = current[g]
                          /\ oldVal'[g] = oldVal[g]
<1>1. /\ todo = [g \in Handlers |-> todo[g]]
      /\ \A g \in Handlers : RequestTypeOK(g)
      /\ current \in [Handlers -> SUBSET Partitions]
      /\ oldVal \in [Handlers -> Nat \cup {-1}]
  BY DEF StoreTypeOK, RequestTypeOK
<1>2. /\ todo' = [todo EXCEPT ![h] = [q \in DOMAIN todo[h] \ {p} |-> todo[h][q]]]
      /\ current' = [current EXCEPT ![h] = {}]
      /\ oldVal' = [oldVal EXCEPT ![h] = -1]
  BY DEF Done, None
<1>3. /\ todo' = [g \in Handlers |-> todo'[g]]
      /\ todo'[h] = [q \in DOMAIN todo[h] \ {p} |-> todo[h][q]]
      /\ \A g \in Handlers : g # h => todo'[g] = todo[g]
  BY <1>1, <1>2
<1>4. /\ current' \in [Handlers -> SUBSET Partitions] /\ current'[h] = {}
      /\ oldVal' \in [Handlers -> Nat \cup {-1}]
      /\ \A g \in Handlers :
            g # h => current'[g] = current[g] /\ oldVal'[g] = oldVal[g]
  BY <1>1, <1>2
<1>5. RequestTypeOK(h)'
  <2>1. DOMAIN todo[h] \subseteq Partitions /\ todo[h] \in [DOMAIN todo[h] -> Nat]
    BY <1>1 DEF RequestTypeOK
  <2>2. DOMAIN todo'[h] = DOMAIN todo[h] \ {p}
    BY <1>3
  <2>3. todo'[h] \in [DOMAIN todo'[h] -> Nat]
    BY <1>3, <2>1
  <2> QED
    BY <1>4, <2>1, <2>2, <2>3 DEF RequestTypeOK
<1>6. ASSUME NEW g \in Handlers, g # h
      PROVE  RequestTypeOK(g)'
  <2>1. todo'[g] = todo[g] /\ current'[g] = current[g] /\ RequestTypeOK(g)
    BY <1>1, <1>3, <1>4, <1>6
  <2> QED
    BY <2>1 DEF RequestTypeOK
<1>7. DOMAIN todo'[h] \subseteq DOMAIN todo[h]
  BY <1>3
<1> QED
  BY <1>3, <1>4, <1>5, <1>6, <1>7

(* The partition a handler commits is settled: no other handler has it.    *)
LEMMA OwnIsSettled ==
    ASSUME StoreInv, NEW h \in Handlers, NEW p \in DOMAIN todo[h]
    PROVE  /\ p \in Partitions /\ todo[h][p] \in Nat
           /\ \A g \in Handlers : g # h => p \notin current[g] /\ p \notin DOMAIN todo[g]
<1>1. /\ DOMAIN todo[h] \subseteq Partitions /\ todo[h] \in [DOMAIN todo[h] -> Nat]
      /\ \A g \in Handlers : current[g] \subseteq DOMAIN todo[g]
  BY DEF StoreInv, StoreTypeOK
<1>2. \A g \in Handlers : g # h => p \notin DOMAIN todo[g]
  BY DEF StoreInv, OwnPartitions
<1> QED
  BY <1>1, <1>2

(* handleOffsetCommit takes up partitions no other handler has.            *)
LEMMA CommitRequestKeepsStore ==
    ASSUME StoreInv, NEW h \in Handlers, NEW p \in Partitions, NEW v \in Nat,
           \A g \in Handlers : p \notin DOMAIN todo[g],
           handleOffsetCommit(h, [q \in {p} |-> v])
    PROVE  StoreInv'
<1> DEFINE offsets == [q \in {p} |-> v]
<1>1. /\ todo[h] = Nothing /\ todo' = [todo EXCEPT ![h] = offsets]
      /\ UNCHANGED <<cache, records, flushed, started, current, oldVal, undoing,
                     appendErrors>>
  BY DEF handleOffsetCommit, Idle
<1>2. /\ todo = [g \in Handlers |-> todo[g]]
      /\ \A g \in Handlers : RequestTypeOK(g)
  BY DEF StoreInv, StoreTypeOK, RequestTypeOK
<1>3. DOMAIN offsets = {p} /\ offsets \in [{p} -> Nat]
  OBVIOUS
<1> HIDE DEF offsets
<1>4. /\ todo' = [g \in Handlers |-> todo'[g]] /\ todo'[h] = offsets
      /\ \A g \in Handlers : g # h => todo'[g] = todo[g]
  BY <1>1, <1>2
<1>5. current[h] = {}
  <2>1. DOMAIN todo[h] = {}
    BY <1>1 DEF Nothing
  <2> QED
    BY <1>2, <2>1 DEF RequestTypeOK
<1>6. \A g \in Handlers : RequestTypeOK(g)'
  <2>1. RequestTypeOK(h)'
    BY <1>1, <1>3, <1>4, <1>5 DEF RequestTypeOK
  <2>2. ASSUME NEW g \in Handlers, g # h
        PROVE  RequestTypeOK(g)'
    <3>1. todo'[g] = todo[g] /\ current' = current /\ RequestTypeOK(g)
      BY <1>1, <1>2, <1>4, <2>2
    <3> QED
      BY <3>1 DEF RequestTypeOK
  <2> QED
    BY <2>1, <2>2
<1>7. StoreTypeOK'
  BY <1>1, <1>4, <1>6 DEF StoreInv, StoreTypeOK, RequestTypeOK
<1>8. OwnPartitions'
  BY <1>3, <1>4 DEF StoreInv, OwnPartitions
<1>9. CommitsAtWork'
  BY <1>1, <1>4, <1>5 DEF StoreInv, CommitsAtWork
<1>10. CacheMatchesLog'
  BY <1>1 DEF StoreInv, CacheMatchesLog, Settled
<1> QED
  BY <1>7, <1>8, <1>9, <1>10 DEF StoreInv

(* The first critical section of Commit, with a log.                       *)
LEMMA CommitCacheKeepsStore ==
    ASSUME StoreInv, NEW h \in Handlers, CommitCache(h)
    PROVE  StoreInv'
<1>1. PICK p \in DOMAIN todo[h] :
        /\ current[h] = {}
        /\ cache' = [cache EXCEPT ![p] = todo[h][p]]
        /\ IF started
           THEN /\ oldVal' = [oldVal EXCEPT ![h] = cache[p]]
                /\ current' = [current EXCEPT ![h] = {p}]
                /\ UNCHANGED todo
           ELSE Done(h, p)
        /\ UNCHANGED <<records, flushed, started, undoing, appendErrors>>
  BY Zenon DEF CommitCache, None
<1>2. /\ p \in Partitions /\ todo[h][p] \in Nat
      /\ \A g \in Handlers : g # h => p \notin current[g] /\ p \notin DOMAIN todo[g]
  BY OwnIsSettled
<1>3. cache \in [Partitions -> Nat \cup {-1}]
  BY DEF StoreInv, StoreTypeOK
<1>4. /\ cache' \in [Partitions -> Nat \cup {-1}] /\ cache'[p] = todo[h][p]
      /\ \A q \in Partitions : q # p => cache'[q] = cache[q]
  BY <1>1, <1>2, <1>3
<1>5. h \notin undoing
  BY <1>1 DEF StoreInv, CommitsAtWork, None
<1>6. ASSUME NEW g \in Handlers, g # h, NEW q \in current[g]
      PROVE  q \in Partitions /\ q # p
  BY <1>2, <1>6 DEF StoreInv, StoreTypeOK
<1>7. CASE started
  <2>1. /\ oldVal' = [oldVal EXCEPT ![h] = cache[p]]
        /\ current' = [current EXCEPT ![h] = {p}]
        /\ UNCHANGED todo
    BY <1>1, <1>7
  <2>2. /\ current \in [Handlers -> SUBSET Partitions]
        /\ oldVal \in [Handlers -> Nat \cup {-1}]
        /\ \A g \in Handlers : RequestTypeOK(g)
    BY DEF StoreInv, StoreTypeOK, RequestTypeOK
  <2>3. /\ current' \in [Handlers -> SUBSET Partitions] /\ current'[h] = {p}
        /\ oldVal' \in [Handlers -> Nat \cup {-1}] /\ oldVal'[h] = cache[p]
        /\ \A g \in Handlers : g # h => current'[g] = current[g] /\ oldVal'[g] = oldVal[g]
    BY <1>2, <1>3, <2>1, <2>2
  <2>4. \A g \in Handlers : RequestTypeOK(g)'
    BY <2>1, <2>2, <2>3 DEF RequestTypeOK
  <2>5. StoreTypeOK'
    BY <1>1, <1>4, <2>1, <2>3, <2>4 DEF StoreInv, StoreTypeOK, RequestTypeOK
  <2>6. OwnPartitions'
    BY <2>1 DEF StoreInv, OwnPartitions
  <2>7. cache[p] = Replay(records)[p]
    <3>1. Settled(p)
      BY <1>1, <1>2 DEF Settled
    <3> QED
      BY <1>2, <1>7, <3>1 DEF StoreInv, CacheMatchesLog
  <2>8. CommitsAtWork'
    <3>1. \A g \in undoing' : current'[g] # {}
      BY <1>1, <1>5, <2>3 DEF StoreInv, CommitsAtWork, None, StoreTypeOK
    <3>2. ASSUME NEW g \in Handlers, NEW q \in current'[g]
          PROVE  cache'[q] = todo'[g][q] /\ oldVal'[g] = Replay(records)[q]
      <4>1. CASE g = h
        BY <1>4, <2>1, <2>3, <2>7, <4>1
      <4>2. CASE g # h
        <5>1. q \in current[g] /\ oldVal'[g] = oldVal[g]
          BY <2>3, <4>2
        <5>2. cache[q] = todo[g][q] /\ oldVal[g] = Replay(records)[q]
          BY <1>7, <5>1 DEF StoreInv, CommitsAtWork
        <5> QED
          BY <1>4, <1>6, <2>1, <4>2, <5>1, <5>2
      <4> QED
        BY <4>1, <4>2
    <3> QED
      BY <1>1, <3>1, <3>2 DEF CommitsAtWork, None
  <2>9. CacheMatchesLog'
    <3> SUFFICES ASSUME NEW q \in Partitions, Settled(q)'
                 PROVE  cache'[q] = Replay(records)[q]
      BY <1>1 DEF CacheMatchesLog
    <3>1. q # p /\ Settled(q)
      BY <1>1, <2>3 DEF Settled
    <3>2. cache[q] = Replay(records)[q]
      BY <1>7, <3>1 DEF StoreInv, CacheMatchesLog
    <3> QED
      BY <1>4, <3>1, <3>2
  <2> QED
    BY <2>5, <2>6, <2>8, <2>9 DEF StoreInv
<1>8. CASE ~started
  <2>1. Done(h, p) /\ started' = started
    BY <1>1, <1>8
  <2>2. /\ todo' = [g \in Handlers |-> todo'[g]]
        /\ current' \in [Handlers -> SUBSET Partitions]
        /\ oldVal' \in [Handlers -> Nat \cup {-1}]
        /\ \A g \in Handlers : RequestTypeOK(g)'
        /\ current'[h] = {} /\ DOMAIN todo'[h] \subseteq DOMAIN todo[h]
        /\ \A g \in Handlers :
              g # h => /\ todo'[g] = todo[g] /\ current'[g] = current[g]
                       /\ oldVal'[g] = oldVal[g]
    BY <2>1, DoneFacts DEF StoreInv
  <2>3. StoreTypeOK'
    BY <1>1, <1>4, <2>2 DEF StoreInv, StoreTypeOK, RequestTypeOK
  <2>4. OwnPartitions'
    BY <2>2 DEF StoreInv, OwnPartitions
  <2>5. CommitsAtWork'
    <3>1. \A g \in undoing' : current'[g] # {}
      BY <1>1, <1>5, <2>2, Zenon DEF StoreInv, CommitsAtWork, None, StoreTypeOK
    <3>2. ASSUME NEW g \in Handlers, NEW q \in current'[g]
          PROVE  cache'[q] = todo'[g][q]
      <4>1. g # h /\ q \in current[g] /\ todo'[g] = todo[g]
        BY <2>2
      <4>2. cache[q] = todo[g][q]
        BY <4>1 DEF StoreInv, CommitsAtWork
      <4> QED
        BY <1>4, <1>6, <4>1, <4>2
    <3> QED
      BY <1>8, <2>1, <3>1, <3>2 DEF CommitsAtWork, None
  <2>6. CacheMatchesLog'
    BY <1>8, <2>1 DEF CacheMatchesLog
  <2> QED
    BY <2>3, <2>4, <2>5, <2>6 DEF StoreInv
<1> QED
  BY <1>7, <1>8

(* The append puts the commit at the end of the log.                       *)
LEMMA CommitAppendKeepsStore ==
    ASSUME StoreInv, NEW h \in Handlers, CommitAppend(h)
    PROVE  StoreInv'
<1>1. PICK p \in current[h] :
        /\ started /\ h \notin undoing
        /\ records' = Append(records, [partition |-> p, offset |-> todo[h][p]])
        /\ Done(h, p)
        /\ UNCHANGED <<cache, flushed, started, undoing, appendErrors>>
  BY DEF CommitAppend
<1> DEFINE r == [partition |-> p, offset |-> todo[h][p]]
<1>2. /\ records \in Seq(CommitRecord) /\ flushed \in 0..Len(records)
      /\ p \in DOMAIN todo[h] /\ \A q \in current[h] : q = p
      /\ \A g \in Handlers : current[g] \subseteq Partitions
  BY DEF StoreInv, StoreTypeOK
<1>3. /\ p \in Partitions /\ todo[h][p] \in Nat
      /\ \A g \in Handlers : g # h => p \notin current[g] /\ p \notin DOMAIN todo[g]
  BY <1>2, OwnIsSettled
<1>4. r \in CommitRecord /\ r.partition = p /\ r.offset = todo[h][p]
  BY <1>3 DEF CommitRecord
<1>5. records' = Append(records, r)
  BY <1>1
<1> HIDE DEF r
<1>6. \A q \in Partitions :
        Replay(records)'[q] = IF q = p THEN todo[h][p] ELSE Replay(records)[q]
  BY <1>2, <1>4, <1>5, ReplayAppend
<1>7. records' \in Seq(CommitRecord) /\ flushed' \in 0..Len(records')
  BY <1>1, <1>2, <1>4, <1>5
<1>8. /\ todo' = [g \in Handlers |-> todo'[g]]
      /\ current' \in [Handlers -> SUBSET Partitions]
      /\ oldVal' \in [Handlers -> Nat \cup {-1}]
      /\ \A g \in Handlers : RequestTypeOK(g)'
      /\ current'[h] = {} /\ DOMAIN todo'[h] \subseteq DOMAIN todo[h]
      /\ \A g \in Handlers :
            g # h => /\ todo'[g] = todo[g] /\ current'[g] = current[g]
                     /\ oldVal'[g] = oldVal[g]
  BY <1>1, DoneFacts DEF StoreInv
<1>9. StoreTypeOK'
  BY <1>1, <1>7, <1>8 DEF StoreInv, StoreTypeOK, RequestTypeOK
<1>10. OwnPartitions'
  BY <1>8 DEF StoreInv, OwnPartitions
<1>11. CommitsAtWork'
  <2>1. \A g \in undoing' : current'[g] # {}
    BY <1>1, <1>8 DEF StoreInv, CommitsAtWork, None, StoreTypeOK
  <2>2. ASSUME NEW g \in Handlers, NEW q \in current'[g]
        PROVE  cache'[q] = todo'[g][q] /\ oldVal'[g] = Replay(records)'[q]
    <3>1. g # h /\ q \in current[g] /\ todo'[g] = todo[g] /\ oldVal'[g] = oldVal[g]
      BY <1>8
    <3>2. cache[q] = todo[g][q] /\ oldVal[g] = Replay(records)[q]
      BY <1>1, <3>1 DEF StoreInv, CommitsAtWork
    <3>3. q \in Partitions /\ q # p
      BY <1>2, <1>3, <3>1
    <3> QED
      BY <1>1, <1>6, <3>1, <3>2, <3>3
  <2> QED
    BY <2>1, <2>2 DEF CommitsAtWork, None
<1>12. CacheMatchesLog'
  <2> SUFFICES ASSUME NEW q \in Partitions, Settled(q)'
               PROVE  cache[q] = Replay(records)'[q]
    BY <1>1 DEF CacheMatchesLog
  <2>1. CASE q = p
    BY <1>3, <1>6, <2>1 DEF StoreInv, CommitsAtWork
  <2>2. CASE q # p
    <3>1. Settled(q)
      BY <1>2, <1>8, <2>2 DEF Settled
    <3>2. cache[q] = Replay(records)[q]
      BY <1>1, <3>1 DEF StoreInv, CacheMatchesLog
    <3> QED
      BY <1>6, <2>2, <3>2
  <2> QED
    BY <2>1, <2>2
<1> QED
  BY <1>9, <1>10, <1>11, <1>12 DEF StoreInv

(* A failed append leaves everything to the undo.                          *)
LEMMA CommitAppendFailsKeepsStore ==
    ASSUME StoreInv, NEW h \in Handlers, CommitAppendFails(h)
    PROVE  StoreInv'
<1>1. /\ current[h] # None /\ undoing' = undoing \cup {h}
      /\ UNCHANGED <<cache, records, flushed, started, todo, current, oldVal>>
  BY DEF CommitAppendFails
<1>2. appendErrors' \in Nat
  BY DEF CommitAppendFails, StoreInv, StoreTypeOK
<1>3. StoreTypeOK'
  BY <1>1, <1>2 DEF StoreInv, StoreTypeOK
<1>4. OwnPartitions' /\ CommitsAtWork' /\ CacheMatchesLog'
  BY <1>1 DEF StoreInv, OwnPartitions, CommitsAtWork, CacheMatchesLog, Settled
<1> QED
  BY <1>3, <1>4 DEF StoreInv

(* The undo gives the cache back what the log says, as no other handler    *)
(* has appended a commit of the partition meanwhile.                       *)
LEMMA CommitUndoKeepsStore ==
    ASSUME StoreInv, NEW h \in Handlers, CommitUndo(h)
    PROVE  StoreInv'
<1>1. PICK p \in current[h] :
        /\ h \in undoing
        /\ cache' = [cache EXCEPT ![p] = oldVal[h]]
        /\ Done(h, p)
        /\ undoing' = undoing \ {h}
        /\ UNCHANGED <<records, flushed, started, appendErrors>>
  BY Zenon DEF CommitUndo
<1>2. /\ cache \in [Partitions -> Nat \cup {-1}] /\ oldVal[h] \in Nat \cup {-1}
      /\ p \in DOMAIN todo[h] /\ \A q \in current[h] : q = p
      /\ \A g \in Handlers : current[g] \subseteq Partitions
  BY DEF StoreInv, StoreTypeOK
<1>3. /\ p \in Partitions
      /\ \A g \in Handlers : g # h => p \notin current[g] /\ p \notin DOMAIN todo[g]
  BY <1>2, OwnIsSettled
<1>4. /\ cache' \in [Partitions -> Nat \cup {-1}] /\ cache'[p] = oldVal[h]
      /\ \A q \in Partitions : q # p => cache'[q] = cache[q]
  BY <1>1, <1>2, <1>3
<1>5. /\ todo' = [g \in Handlers |-> todo'[g]]
      /\ current' \in [Handlers -> SUBSET Partitions]
      /\ oldVal' \in [Handlers -> Nat \cup {-1}]
      /\ \A g \in Handlers : RequestTypeOK(g)'
      /\ current'[h] = {} /\ DOMAIN todo'[h] \subseteq DOMAIN todo[h]
      /\ \A g \in Handlers :
            g # h => /\ todo'[g] = todo[g] /\ current'[g] = current[g]
                     /\ oldVal'[g] = oldVal[g]
  BY <1>1, DoneFacts DEF StoreInv
<1>6. StoreTypeOK'
  BY <1>1, <1>4, <1>5 DEF StoreInv, StoreTypeOK, RequestTypeOK
<1>7. OwnPartitions'
  BY <1>5 DEF StoreInv, OwnPartitions
<1>8. CommitsAtWork'
  <2>1. \A g \in undoing' : current'[g] # {}
    BY <1>1, <1>5 DEF StoreInv, CommitsAtWork, None, StoreTypeOK
  <2>2. ASSUME NEW g \in Handlers, NEW q \in current'[g]
        PROVE  cache'[q] = todo'[g][q] /\ (started => oldVal'[g] = Replay(records)[q])
    <3>1. g # h /\ q \in current[g] /\ todo'[g] = todo[g] /\ oldVal'[g] = oldVal[g]
      BY <1>5
    <3>2. cache[q] = todo[g][q] /\ (started => oldVal[g] = Replay(records)[q])
      BY <3>1 DEF StoreInv, CommitsAtWork
    <3>3. q \in Partitions /\ q # p
      BY <1>2, <1>3, <3>1
    <3> QED
      BY <1>4, <3>1, <3>2, <3>3
  <2> QED
    BY <1>1, <2>1, <2>2 DEF CommitsAtWork, None
<1>9. CacheMatchesLog'
  <2> SUFFICES ASSUME started, NEW q \in Partitions, Settled(q)'
               PROVE  cache'[q] = Replay(records)[q]
    BY <1>1 DEF CacheMatchesLog
  <2>1. CASE q = p
    BY <1>4, <2>1 DEF StoreInv, CommitsAtWork
  <2>2. CASE q # p
    <3>1. Settled(q)
      BY <1>2, <1>5, <2>2 DEF Settled
    <3>2. cache[q] = Replay(records)[q]
      BY <3>1 DEF StoreInv, CacheMatchesLog
    <3> QED
      BY <1>4, <2>2, <3>2
  <2> QED
    BY <2>1, <2>2
<1> QED
  BY <1>6, <1>7, <1>8, <1>9 DEF StoreInv

(* A flush, and the Close of the store.                                    *)
LEMMA FlushKeepsStore ==
    ASSUME StoreInv, Flush \/ Close
    PROVE  StoreInv'
<1>1. /\ flushed' = Len(records) /\ started /\ started' \in {started, FALSE}
      /\ UNCHANGED <<cache, records, todo, current, oldVal, undoing, appendErrors>>
  BY Zenon DEF Flush, Close
<1>2. StoreTypeOK'
  <2>1. flushed' \in 0..Len(records')
    BY <1>1 DEF StoreInv, StoreTypeOK
  <2> QED
    BY <1>1, <2>1, Zenon DEF StoreInv, StoreTypeOK
<1>3. OwnPartitions' /\ CommitsAtWork' /\ CacheMatchesLog'
  BY <1>1 DEF StoreInv, OwnPartitions, CommitsAtWork, CacheMatchesLog, Settled
<1> QED
  BY <1>2, <1>3 DEF StoreInv

(* A store that is fresh: a new one, and the one a restart rebuilds from   *)
(* its log.                                                                *)
Fresh ==
    /\ records \in Seq(CommitRecord) /\ flushed = Len(records) /\ started = TRUE
    /\ cache = Replay(records) /\ todo = [h \in Handlers |-> Nothing]
    /\ current = [h \in Handlers |-> None] /\ oldVal = [h \in Handlers |-> -1]
    /\ undoing = {} /\ appendErrors \in Nat

(* Its cache is what its log says.                                         *)
LEMMA FreshStore == Fresh => StoreInv
<1> SUFFICES ASSUME Fresh PROVE StoreInv
  OBVIOUS
<1> USE DEF Fresh
<1>1. cache \in [Partitions -> Nat \cup {-1}]
  BY ReplayType
<1>2. DOMAIN Nothing = {} /\ Nothing \in [{} -> Nat]
  BY DEF Nothing
<1>3. \A h \in Handlers : todo[h] = Nothing /\ current[h] = {}
  BY DEF None
<1>4. StoreTypeOK
  <2>1. \A h \in Handlers : RequestTypeOK(h)
    BY <1>2, <1>3 DEF RequestTypeOK
  <2>2. flushed \in 0..Len(records)
    OBVIOUS
  <2>3. /\ current \in [Handlers -> SUBSET Partitions]
        /\ oldVal \in [Handlers -> Nat \cup {-1}]
        /\ todo = [h \in Handlers |-> todo[h]]
    BY DEF None
  <2> QED
    BY <1>1, <2>1, <2>2, <2>3 DEF StoreTypeOK, RequestTypeOK
<1>5. OwnPartitions
  BY <1>2, <1>3 DEF OwnPartitions
<1>6. CommitsAtWork /\ CacheMatchesLog
  BY <1>3 DEF CommitsAtWork, CacheMatchesLog
<1> QED
  BY <1>4, <1>5, <1>6 DEF StoreInv

(* The same of the state after a step.                                     *)
LEMMA FreshStoreNext == Fresh' => StoreInv'
  BY FreshStore, PTL

(* A restart keeps a prefix of the log.                                    *)
LEMMA RestartKeepsStore ==
    ASSUME StoreInv, Restart
    PROVE  StoreInv'
<1>1. PICK n \in flushed..Len(records) :
        /\ records' = SubSeq(records, 1, n) /\ flushed' = n
        /\ cache' = Replay(records') /\ started' = TRUE
        /\ todo' = [h \in Handlers |-> Nothing] /\ current' = [h \in Handlers |-> None]
        /\ oldVal' = [h \in Handlers |-> -1] /\ undoing' = {}
        /\ UNCHANGED appendErrors
  BY DEF Restart
<1>2. /\ records \in Seq(CommitRecord) /\ flushed \in 0..Len(records)
      /\ appendErrors \in Nat
  BY DEF StoreInv, StoreTypeOK
<1>3. n \in Nat /\ n <= Len(records)
  BY <1>1, <1>2
<1>4. records' \in Seq(CommitRecord) /\ flushed' = Len(records')
  BY <1>1, <1>2, <1>3
<1>5. Fresh'
  BY <1>1, <1>2, <1>4 DEF Fresh
<1> QED
  BY <1>5, FreshStoreNext

-----------------------------------------------------------------------------
(* The registry.  The metadata and its file agree; a topic is opened only  *)
(* under a name they hold; at most one request is about to open the topic  *)
(* it created.                                                             *)

RegistryTypeOK ==
    /\ autoCreate \in BOOLEAN
    /\ meta \subseteq Names /\ metaFile \subseteq Names /\ unopened \subseteq meta
    /\ objects \in Seq(Object)
    /\ \A o \in DOMAIN objects : Len(objects[o].appendCh) <= QueueCap
    /\ topics \in [DOMAIN topics -> DOMAIN objects]
    /\ \A t \in DOMAIN topics : objects[topics[t]].name = t

HandlerTypeOK ==
    /\ pc \in [Handlers -> {"idle", "find", "append", "wait", "open"}]
    /\ topic \in [Handlers -> Names \cup {NoTopic}]
    /\ object \in [Handlers -> Nat]
    /\ \A h \in Handlers :
          /\ pc[h] \in {"find", "open"} => topic[h] \in Names
          /\ pc[h] \in {"append", "wait"} => object[h] \in DOMAIN objects

ShutdownTypeOK == phase \in {"up", "stopping", "locked", "down"} /\ expired \in BOOLEAN

RegistryInv ==
    /\ metaFile = meta /\ IsFiniteSet(meta)
    /\ DOMAIN topics \subseteq meta
    /\ \A o \in DOMAIN objects : objects[o].name \in DOMAIN topics
    /\ \A h \in Handlers : pc[h] = "open" => topic[h] \in meta
    /\ \A g, h \in Handlers : pc[g] = "open" /\ pc[h] = "open" /\ topic[g] = topic[h] => g = h

Opening(t) == \E h \in Handlers : pc[h] = "open" /\ topic[h] = t

AtMostOne(t) ==
    \A o, p \in DOMAIN objects : objects[o].name = t /\ objects[p].name = t => o = p

AtMostTwo(t) ==
    \A o, p, q \in DOMAIN objects :
        objects[o].name = t /\ objects[p].name = t /\ objects[q].name = t =>
            o = p \/ p = q \/ o = q

(* What a request that is about to open a topic leaves room for.           *)
CountInv ==
    \A t \in Names :
        /\ autoCreate /\ Opening(t) => AtMostOne(t)
        /\ autoCreate => AtMostTwo(t)
        /\ ~autoCreate /\ Opening(t) => \A o \in DOMAIN objects : objects[o].name # t
        /\ ~autoCreate => AtMostOne(t)

NamesInv == RegistryInv /\ CountInv /\ MetadataIsServed

(* A handler moves on.                                                     *)
LEMMA GotoFacts ==
    ASSUME HandlerTypeOK, NEW h \in Handlers,
           NEW where \in {"idle", "find", "append", "wait", "open"},
           NEW t \in Names \cup {NoTopic}, NEW o \in Nat, Goto(h, where, t, o),
           DOMAIN objects \subseteq DOMAIN objects',
           where \in {"find", "open"} => t \in Names,
           where \in {"append", "wait"} => o \in DOMAIN objects'
    PROVE  /\ HandlerTypeOK'
           /\ pc'[h] = where /\ topic'[h] = t /\ object'[h] = o
           /\ \A g \in Handlers :
                 g # h => pc'[g] = pc[g] /\ topic'[g] = topic[g] /\ object'[g] = object[g]
<1>1. /\ pc \in [Handlers -> {"idle", "find", "append", "wait", "open"}]
      /\ topic \in [Handlers -> Names \cup {NoTopic}]
      /\ object \in [Handlers -> Nat]
  BY DEF HandlerTypeOK
<1>2. /\ pc' = [pc EXCEPT ![h] = where]
      /\ topic' = [topic EXCEPT ![h] = t]
      /\ object' = [object EXCEPT ![h] = o]
  BY DEF Goto
<1>3. /\ pc' \in [Handlers -> {"idle", "find", "append", "wait", "open"}]
      /\ topic' \in [Handlers -> Names \cup {NoTopic}]
      /\ object' \in [Handlers -> Nat]
  BY <1>1, <1>2
<1>4. /\ pc'[h] = where /\ topic'[h] = t /\ object'[h] = o
      /\ \A g \in Handlers :
            g # h => pc'[g] = pc[g] /\ topic'[g] = topic[g] /\ object'[g] = object[g]
  BY <1>1, <1>2
<1>5. HandlerTypeOK'
  <2>1. ASSUME NEW g \in Handlers
        PROVE  /\ pc'[g] \in {"find", "open"} => topic'[g] \in Names
               /\ pc'[g] \in {"append", "wait"} => object'[g] \in DOMAIN objects'
    <3>1. CASE g = h
      BY <1>4, <3>1
    <3>2. CASE g # h
      <4>1. /\ pc[g] \in {"find", "open"} => topic[g] \in Names
            /\ pc[g] \in {"append", "wait"} => object[g] \in DOMAIN objects
        BY DEF HandlerTypeOK
      <4> QED
        BY <1>4, <3>2, <4>1
    <3> QED
      BY <3>1, <3>2
  <2> QED
    BY <1>3, <2>1 DEF HandlerTypeOK
<1> QED
  BY <1>4, <1>5

(* A topic is opened and entered in b.topics.                              *)
LEMMA RegisterFacts ==
    ASSUME RegistryTypeOK, NEW t \in Names, Register(t)
    PROVE  /\ objects' \in Seq(Object) /\ Len(objects) \in Nat
           /\ DOMAIN objects = 1..Len(objects)
           /\ Len(objects') = Len(objects) + 1 /\ Len(objects') \in Nat
           /\ DOMAIN objects' = DOMAIN objects \cup {Len(objects')}
           /\ Len(objects') \notin DOMAIN objects
           /\ objects'[Len(objects')] = NewTopic(t)
           /\ \A o \in DOMAIN objects : objects'[o] = objects[o]
           /\ \A o \in DOMAIN objects' : Len(objects'[o].appendCh) <= QueueCap
           /\ DOMAIN topics' = DOMAIN topics \cup {t}
           /\ topics' \in [DOMAIN topics' -> DOMAIN objects']
           /\ \A x \in DOMAIN topics' : objects'[topics'[x]].name = x
           /\ \A x \in DOMAIN topics : x # t => topics'[x] = topics[x]
           /\ topics'[t] = Len(objects')
<1>1. /\ objects \in Seq(Object) /\ topics \in [DOMAIN topics -> DOMAIN objects]
      /\ \A o \in DOMAIN objects : Len(objects[o].appendCh) <= QueueCap
      /\ \A x \in DOMAIN topics : objects[topics[x]].name = x
  BY DEF RegistryTypeOK
<1>2. /\ objects' = Append(objects, NewTopic(t))
      /\ topics' = [x \in DOMAIN topics \cup {t} |->
                        IF x = t THEN Len(objects') ELSE topics[x]]
  BY DEF Register
<1>3. NewTopic(t) \in Object /\ NewTopic(t).appendCh = <<>> /\ NewTopic(t).name = t
  BY DEF NewTopic, Object
<1>4. /\ objects' \in Seq(Object) /\ Len(objects) \in Nat
      /\ DOMAIN objects = 1..Len(objects)
      /\ Len(objects') = Len(objects) + 1
      /\ DOMAIN objects' = 1..Len(objects')
      /\ objects'[Len(objects')] = NewTopic(t)
      /\ \A o \in DOMAIN objects : objects'[o] = objects[o]
  BY <1>1, <1>2, <1>3
<1>5. /\ DOMAIN objects' = DOMAIN objects \cup {Len(objects')}
      /\ Len(objects') \notin DOMAIN objects /\ Len(objects') \in Nat
  BY <1>4
<1>6. \A o \in DOMAIN objects' : Len(objects'[o].appendCh) <= QueueCap
  <2>1. Len(<<>>) <= QueueCap
    BY BrokerAssumption
  <2> QED
    BY <1>1, <1>3, <1>4, <1>5, <2>1
<1>7. /\ DOMAIN topics' = DOMAIN topics \cup {t} /\ topics'[t] = Len(objects')
      /\ \A x \in DOMAIN topics : x # t => topics'[x] = topics[x]
  BY <1>2
<1>8. \A x \in DOMAIN topics' : topics'[x] \in DOMAIN objects' /\ objects'[topics'[x]].name = x
  BY <1>1, <1>3, <1>4, <1>5, <1>7
<1>9. topics' \in [DOMAIN topics' -> DOMAIN objects']
  <2>1. topics' = [x \in DOMAIN topics' |-> topics'[x]]
    BY <1>2, <1>7
  <2> QED
    BY <1>8, <2>1
<1> QED
  BY <1>4, <1>5, <1>6, <1>7, <1>8, <1>9

(* A step that neither opens a topic nor moves a handler to or from        *)
(* opening one.                                                            *)
SameOpeners ==
    \A h \in Handlers : /\ pc'[h] = "open" <=> pc[h] = "open"
                        /\ pc[h] = "open" => topic'[h] = topic[h]

SameNames ==
    /\ DOMAIN objects' = DOMAIN objects
    /\ \A o \in DOMAIN objects : objects'[o].name = objects[o].name

LEMMA SameRegistry ==
    ASSUME NamesInv, UNCHANGED <<autoCreate, meta, metaFile, topics, unopened>>,
           SameNames, SameOpeners
    PROVE  NamesInv'
<1>1. RegistryInv'
  BY DEF NamesInv, RegistryInv, SameNames, SameOpeners
<1>2. \A t : Opening(t)' <=> Opening(t)
  BY DEF Opening, SameOpeners
<1>3. \A t : (AtMostOne(t)' <=> AtMostOne(t)) /\ (AtMostTwo(t)' <=> AtMostTwo(t))
  BY DEF AtMostOne, AtMostTwo, SameNames
<1>4. CountInv'
  BY <1>2, <1>3 DEF NamesInv, CountInv, SameNames
<1>5. MetadataIsServed'
  BY DEF NamesInv, MetadataIsServed, SameOpeners
<1> QED
  BY <1>1, <1>4, <1>5 DEF NamesInv

(* getOrCreateTopic opens a topic that b.topics does not hold: no object   *)
(* has its name yet.                                                       *)
LEMMA RegisterMissing ==
    ASSUME RegistryTypeOK, NamesInv, NEW t \in Names, t \notin DOMAIN topics, autoCreate,
           Register(t), meta' = meta \cup {t}, metaFile' = meta', autoCreate' = autoCreate,
           SameOpeners
    PROVE  NamesInv'
<1> DEFINE n == Len(objects')
<1>1. /\ DOMAIN objects' = DOMAIN objects \cup {n} /\ n \notin DOMAIN objects
      /\ objects'[n] = NewTopic(t)
      /\ \A o \in DOMAIN objects : objects'[o] = objects[o]
      /\ DOMAIN topics' = DOMAIN topics \cup {t}
  BY RegisterFacts, Zenon
<1>2. NewTopic(t).name = t /\ unopened' = unopened \ {t}
  BY DEF NewTopic, Register
<1>3. /\ metaFile = meta /\ IsFiniteSet(meta) /\ DOMAIN topics \subseteq meta
      /\ \A o \in DOMAIN objects : objects[o].name \in DOMAIN topics
      /\ \A h \in Handlers : pc[h] = "open" => topic[h] \in meta
      /\ \A g, h \in Handlers : pc[g] = "open" /\ pc[h] = "open" /\ topic[g] = topic[h] => g = h
  BY DEF NamesInv, RegistryInv
<1> HIDE DEF n
<1>4. \A o \in DOMAIN objects : objects[o].name # t
  BY <1>3
<1>5. RegistryInv'
  <2>1. IsFiniteSet(meta')
    BY <1>3, FS_AddElement
  <2>2. \A o \in DOMAIN objects' : objects'[o].name \in DOMAIN topics'
    BY <1>1, <1>2, <1>3
  <2>3. /\ \A h \in Handlers : pc'[h] = "open" => topic'[h] \in meta'
        /\ \A g, h \in Handlers :
              pc'[g] = "open" /\ pc'[h] = "open" /\ topic'[g] = topic'[h] => g = h
    BY <1>3 DEF SameOpeners
  <2> QED
    BY <1>1, <1>3, <2>1, <2>2, <2>3 DEF RegistryInv
<1>6. \A x : Opening(x)' <=> Opening(x)
  BY DEF Opening, SameOpeners
<1>7. CountInv'
  <2> SUFFICES ASSUME NEW x \in Names
               PROVE  (Opening(x)' => AtMostOne(x)') /\ AtMostTwo(x)'
    BY DEF CountInv
  <2>1. CASE x = t
    <3>1. \A o \in DOMAIN objects' : objects'[o].name = x => o = n
      BY <1>1, <1>4, <2>1
    <3> QED
      BY <3>1 DEF AtMostOne, AtMostTwo
  <2>2. CASE x # t
    <3>1. \A o \in DOMAIN objects' :
            objects'[o].name = x => o \in DOMAIN objects /\ objects[o].name = x
      BY <1>1, <1>2, <2>2
    <3>2. (Opening(x) => AtMostOne(x)) /\ AtMostTwo(x)
      BY DEF NamesInv, CountInv
    <3>3. Opening(x)' => AtMostOne(x)'
      BY <1>6, <3>1, <3>2 DEF AtMostOne
    <3>4. AtMostTwo(x)'
      BY <3>1, <3>2 DEF AtMostTwo
    <3> QED
      BY <3>3, <3>4
  <2> QED
    BY <2>1, <2>2
<1>8. MetadataIsServed'
  BY <1>1, <1>2 DEF NamesInv, MetadataIsServed, SameOpeners
<1> QED
  BY <1>5, <1>7, <1>8 DEF NamesInv

(* The topic could not be opened: it is in the metadata only.              *)
LEMMA MissingNotOpened ==
    ASSUME NamesInv, NEW t \in Names, meta' = meta \cup {t}, metaFile' = meta',
           unopened' = unopened \cup {t}, UNCHANGED <<autoCreate, topics, objects>>,
           SameOpeners
    PROVE  NamesInv'
<1>1. IsFiniteSet(meta')
  BY FS_AddElement DEF NamesInv, RegistryInv
<1>2. RegistryInv'
  BY <1>1 DEF NamesInv, RegistryInv, SameOpeners
<1>3. \A x : Opening(x)' <=> Opening(x)
  BY DEF Opening, SameOpeners
<1>4. CountInv'
  BY <1>3 DEF NamesInv, CountInv, AtMostOne, AtMostTwo
<1>5. MetadataIsServed'
  BY DEF NamesInv, MetadataIsServed, SameOpeners
<1> QED
  BY <1>2, <1>4, <1>5 DEF NamesInv

(* CreateTopics records a topic that is not in the metadata, and goes on   *)
(* to open it.                                                             *)
LEMMA CreatedToOpen ==
    ASSUME NamesInv, NEW h \in Handlers, NEW t \in Names, t \notin meta,
           meta' = meta \cup {t}, metaFile' = meta',
           UNCHANGED <<autoCreate, topics, objects, unopened>>,
           pc[h] # "open", pc'[h] = "open", topic'[h] = t,
           \A g \in Handlers : g # h => pc'[g] = pc[g] /\ topic'[g] = topic[g]
    PROVE  NamesInv'
<1>1. IsFiniteSet(meta')
  BY FS_AddElement DEF NamesInv, RegistryInv
<1>2. /\ metaFile = meta /\ DOMAIN topics \subseteq meta
      /\ \A o \in DOMAIN objects : objects[o].name \in DOMAIN topics
      /\ \A g \in Handlers : pc[g] = "open" => topic[g] \in meta
      /\ \A f, g \in Handlers : pc[f] = "open" /\ pc[g] = "open" /\ topic[f] = topic[g] => f = g
  BY DEF NamesInv, RegistryInv
<1>3. RegistryInv'
  <2>1. \A g \in Handlers : pc'[g] = "open" => topic'[g] \in meta'
    BY <1>2
  <2>2. \A f, g \in Handlers :
          pc'[f] = "open" /\ pc'[g] = "open" /\ topic'[f] = topic'[g] => f = g
    BY <1>2
  <2> QED
    BY <1>1, <1>2, <2>1, <2>2 DEF RegistryInv
<1>4. \A o \in DOMAIN objects : objects[o].name # t
  BY <1>2
<1>5. \A x : x # t => (Opening(x)' => Opening(x))
  BY DEF Opening
<1>6. \A x : (AtMostOne(x)' <=> AtMostOne(x)) /\ (AtMostTwo(x)' <=> AtMostTwo(x))
  BY DEF AtMostOne, AtMostTwo
<1>7. AtMostOne(t) /\ AtMostTwo(t)
  BY <1>4 DEF AtMostOne, AtMostTwo
<1>8. CountInv'
  BY <1>4, <1>5, <1>6, <1>7 DEF NamesInv, CountInv
<1>9. MetadataIsServed'
  <2> SUFFICES ASSUME NEW x \in meta'
               PROVE  \/ x \in DOMAIN topics \cup unopened
                      \/ \E g \in Handlers : pc'[g] = "open" /\ topic'[g] = x
    BY DEF MetadataIsServed
  <2>1. CASE x = t
    BY <2>1
  <2>2. CASE x # t
    <3>1. CASE x \in DOMAIN topics \cup unopened
      BY <3>1
    <3>2. CASE \E g \in Handlers : pc[g] = "open" /\ topic[g] = x
      BY <3>2
    <3> QED
      BY <2>2, <3>1, <3>2 DEF NamesInv, MetadataIsServed
  <2> QED
    BY <2>1, <2>2
<1> QED
  BY <1>3, <1>8, <1>9 DEF NamesInv

(* The request that created a topic opens it: the only one, whether or not *)
(* getOrCreateTopic has opened it meanwhile.                               *)
LEMMA RegisterCreated ==
    ASSUME RegistryTypeOK, NamesInv, NEW h \in Handlers, NEW t \in Names,
           pc[h] = "open", topic[h] = t, Register(t),
           UNCHANGED <<autoCreate, meta, metaFile>>, pc'[h] # "open",
           \A g \in Handlers : g # h => pc'[g] = pc[g] /\ topic'[g] = topic[g]
    PROVE  NamesInv'
<1> DEFINE n == Len(objects')
<1>1. /\ DOMAIN objects' = DOMAIN objects \cup {n} /\ n \notin DOMAIN objects
      /\ objects'[n] = NewTopic(t)
      /\ \A o \in DOMAIN objects : objects'[o] = objects[o]
      /\ DOMAIN topics' = DOMAIN topics \cup {t}
  BY RegisterFacts, Zenon
<1>2. NewTopic(t).name = t /\ unopened' = unopened \ {t}
  BY DEF NewTopic, Register
<1>3. /\ metaFile = meta /\ IsFiniteSet(meta) /\ DOMAIN topics \subseteq meta
      /\ \A o \in DOMAIN objects : objects[o].name \in DOMAIN topics
      /\ \A g \in Handlers : pc[g] = "open" => topic[g] \in meta
      /\ \A f, g \in Handlers : pc[f] = "open" /\ pc[g] = "open" /\ topic[f] = topic[g] => f = g
  BY DEF NamesInv, RegistryInv
<1> HIDE DEF n
<1>4. RegistryInv'
  <2>1. \A o \in DOMAIN objects' : objects'[o].name \in DOMAIN topics'
    BY <1>1, <1>2, <1>3
  <2>2. /\ \A g \in Handlers : pc'[g] = "open" => topic'[g] \in meta'
        /\ \A f, g \in Handlers :
              pc'[f] = "open" /\ pc'[g] = "open" /\ topic'[f] = topic'[g] => f = g
    BY <1>3
  <2>3. DOMAIN topics' \subseteq meta'
    BY <1>1, <1>3, Zenon
  <2> QED
    BY <1>3, <2>1, <2>2, <2>3 DEF RegistryInv
<1>5. /\ \A x : Opening(x)' => Opening(x)
      /\ ~Opening(t)' /\ Opening(t)
  BY <1>3 DEF Opening
<1>6. CountInv'
  <2> SUFFICES ASSUME NEW x \in Names
               PROVE  /\ autoCreate /\ Opening(x)' => AtMostOne(x)'
                      /\ autoCreate => AtMostTwo(x)'
                      /\ ~autoCreate /\ Opening(x)' =>
                            \A o \in DOMAIN objects' : objects'[o].name # x
                      /\ ~autoCreate => AtMostOne(x)'
    BY DEF CountInv
  <2>1. /\ autoCreate /\ Opening(x) => AtMostOne(x)
        /\ autoCreate => AtMostTwo(x)
        /\ ~autoCreate /\ Opening(x) => \A o \in DOMAIN objects : objects[o].name # x
        /\ ~autoCreate => AtMostOne(x)
    BY DEF NamesInv, CountInv
  <2>2. CASE x = t
    <3>1. \A o \in DOMAIN objects' :
            objects'[o].name = x => o = n \/ (o \in DOMAIN objects /\ objects[o].name = x)
      BY <1>1
    <3>2. autoCreate => AtMostTwo(x)'
      BY <1>5, <2>1, <2>2, <3>1 DEF AtMostOne, AtMostTwo
    <3>3. ~autoCreate => AtMostOne(x)'
      BY <1>5, <2>1, <2>2, <3>1 DEF AtMostOne
    <3> QED
      BY <1>5, <2>2, <3>2, <3>3
  <2>3. CASE x # t
    <3>1. \A o \in DOMAIN objects' :
            objects'[o].name = x => o \in DOMAIN objects /\ objects[o].name = x
      BY <1>1, <1>2, <2>3
    <3>2. (AtMostOne(x) => AtMostOne(x)') /\ (AtMostTwo(x) => AtMostTwo(x)')
      BY <3>1 DEF AtMostOne, AtMostTwo
    <3> QED
      BY <1>5, <2>1, <3>1, <3>2
  <2> QED
    BY <2>2, <2>3, Zenon
<1>7. MetadataIsServed'
  <2> SUFFICES ASSUME NEW x \in meta
               PROVE  \/ x \in DOMAIN topics' \cup unopened'
                      \/ \E g \in Handlers : pc'[g] = "open" /\ topic'[g] = x
    BY DEF MetadataIsServed
  <2>1. CASE x = t
    BY <1>1, <2>1
  <2>2. CASE x # t
    <3>1. CASE x \in DOMAIN topics \cup unopened
      BY <1>1, <1>2, <2>2, <3>1
    <3>2. CASE \E g \in Handlers : pc[g] = "open" /\ topic[g] = x
      <4>1. PICK g \in Handlers : pc[g] = "open" /\ topic[g] = x
        BY <3>2
      <4>2. g # h
        BY <2>2, <4>1
      <4> QED
        BY <4>1, <4>2
    <3> QED
      BY <2>2, <3>1, <3>2 DEF NamesInv, MetadataIsServed
  <2> QED
    BY <2>1, <2>2
<1> QED
  BY <1>4, <1>6, <1>7 DEF NamesInv

(* The request that created a topic fails to open it.                      *)
LEMMA CreatedNotOpened ==
    ASSUME NamesInv, NEW h \in Handlers, pc[h] = "open",
           unopened' = unopened \cup ({topic[h]} \ DOMAIN topics),
           UNCHANGED <<autoCreate, meta, metaFile, topics, objects>>, pc'[h] # "open",
           \A g \in Handlers : g # h => pc'[g] = pc[g] /\ topic'[g] = topic[g]
    PROVE  NamesInv'
<1>1. RegistryInv'
  BY DEF NamesInv, RegistryInv
<1>2. \A x : Opening(x)' => Opening(x)
  BY DEF Opening
<1>3. CountInv'
  BY <1>2 DEF NamesInv, CountInv, AtMostOne, AtMostTwo
<1>4. MetadataIsServed'
  <2> SUFFICES ASSUME NEW x \in meta
               PROVE  \/ x \in DOMAIN topics \cup unopened'
                      \/ \E g \in Handlers : pc'[g] = "open" /\ topic'[g] = x
    BY DEF MetadataIsServed
  <2>1. CASE x \in DOMAIN topics \cup unopened
    BY <2>1
  <2>2. CASE \E g \in Handlers : pc[g] = "open" /\ topic[g] = x
    <3>1. PICK g \in Handlers : pc[g] = "open" /\ topic[g] = x
      BY <2>2
    <3>2. CASE g = h
      BY <3>1, <3>2
    <3>3. CASE g # h
      BY <3>1, <3>3
    <3> QED
      BY <3>2, <3>3
  <2> QED
    BY <2>1, <2>2 DEF NamesInv, MetadataIsServed
<1> QED
  BY <1>1, <1>3, <1>4 DEF NamesInv

=============================================================================
