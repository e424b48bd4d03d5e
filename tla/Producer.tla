------------------------------ MODULE Producer ------------------------------
(***************************************************************************)
(* The client's producer (pkg/client/producer.go): Send with its linger    *)
(* batcher, SendBatch, the shared connection, and Close.                   *)
(*                                                                         *)
(* Each caller sends one message.  With lingering it joins the pending     *)
(* batch of its partition, which is flushed by the caller that fills it,   *)
(* by the linger timer or by Close; without, or if it calls SendBatch, its *)
(* message is a batch of its own.                                          *)
(* reqMu serialises round trips; mu guards the connection and its buffers, *)
(* but a round trip reads the buffers without mu, and Close drops them     *)
(* without reqMu.  Using a dropped buffer is a nil dereference, which ends *)
(* the process.                                                            *)
(*                                                                         *)
(* A definition whose name starts with Faulty is the one that follows it   *)
(* with a defect; no specification uses it.                                *)
(***************************************************************************)
EXTENDS Integers, Sequences, FiniteSets, Functions

CONSTANTS
    Callers,        \* goroutines that call Send
    Closers,        \* goroutines that call Close
    Partitions,
    BatchSize,      \* messages that fill a batch
    Linger,         \* whether LingerMs > 0
    MaxFailures     \* bound: round trips that fail, calls that are cancelled

VARIABLES
    closed,         \* Producer.closed
    finalized,      \* Producer.finalized
    conn,           \* whether Producer.conn, br and bw are set
    batches,        \* every batch made so far
    pending,        \* batcher.pending: index of each partition's batch, or 0
    timers,         \* batches whose linger timer is armed
    fired,          \* batches whose timer goroutine has not taken the lock yet
    holder,         \* the batch whose round trip holds reqMu, or 0
    callPC,         \* where each caller is
    results,        \* the results put into each caller's channel
    closePC,        \* where each closer is
    draining,       \* closer local: the batches it flushes
    log,            \* the records of each partition, in the broker
    panicked,       \* a dropped buffer was used
    failures

closeVars == <<closed, finalized, closePC, draining>>
batchVars == <<pending, timers, fired>>
vars == <<closeVars, batchVars, conn, batches, holder, callPC, results, log,
          panicked, failures>>

Failure == 0    \* a result; offsets are counted from 1

Batch ==
    [partition : Partitions, waiters : Seq(Callers),
     pc : {"pending", "detached", "write", "sent", "read", "done"}, base : Nat]

TypeOK ==
    /\ closed \in BOOLEAN /\ finalized \in BOOLEAN /\ conn \in BOOLEAN
    /\ batches \in Seq(Batch)
    /\ pending \in [Partitions -> 0..Len(batches)]
    /\ timers \subseteq DOMAIN batches /\ fired \subseteq DOMAIN batches
    /\ holder \in 0..Len(batches)
    /\ results \in [Callers -> Seq(Nat)]
    /\ callPC \in [Callers -> {"idle", "enqueue", "waiting", "returned"}]
    /\ closePC \in [Closers -> {"idle", "drain", "flush", "final", "returned"}]
    /\ draining \in [Closers -> SUBSET DOMAIN batches]
    /\ log \in [Partitions -> Seq(Callers)]
    /\ panicked \in BOOLEAN

Init ==
    /\ closed = FALSE
    /\ finalized = FALSE
    /\ conn = FALSE
    /\ batches = <<>>
    /\ pending = [p \in Partitions |-> 0]
    /\ timers = {}
    /\ fired = {}
    /\ holder = 0
    /\ callPC = [s \in Callers |-> "idle"]
    /\ results = [s \in Callers |-> <<>>]
    /\ closePC = [c \in Closers |-> "idle"]
    /\ draining = [c \in Closers |-> {}]
    /\ log = [p \in Partitions |-> <<>>]
    /\ panicked = FALSE
    /\ failures = 0

Running == ~panicked

Fail ==
    /\ failures < MaxFailures
    /\ failures' = failures + 1

Call(s, l) == callPC' = [callPC EXCEPT ![s] = l]

-----------------------------------------------------------------------------
(* Send.                                                                   *)

(* The first look at closed is made before the lock is taken.              *)
SendStart(s) ==
    /\ Running
    /\ callPC[s] = "idle"
    /\ Call(s, IF closed THEN "returned" ELSE "enqueue")
    /\ results' = IF closed THEN [results EXCEPT ![s] = Append(@, Failure)] ELSE results
    /\ UNCHANGED <<closeVars, batchVars, conn, batches, holder, log, panicked, failures>>

NewBatch(p, s, l) == [partition |-> p, waiters |-> <<s>>, pc |-> l, base |-> Failure]

(* The critical section of sendBatched.  A full batch is detached and its  *)
(* timer stopped, which does nothing to a timer that has fired.            *)
Enqueue(s) ==
    \E p \in Partitions :
        LET new == pending[p] = 0
            b == IF new THEN Len(batches) + 1 ELSE pending[p]
            waiters == IF new THEN <<s>> ELSE Append(batches[b].waiters, s)
            full == Len(waiters) >= BatchSize
            l == IF full THEN "detached" ELSE "pending"
        IN  /\ Running /\ Linger
            /\ callPC[s] = "enqueue"
            /\ batches' = IF new THEN Append(batches, NewBatch(p, s, l))
                          ELSE [batches EXCEPT ![b].waiters = waiters, ![b].pc = l]
            /\ pending' = [pending EXCEPT ![p] = IF full THEN 0 ELSE b]
            /\ timers' = IF full THEN timers \ {b}
                         ELSE IF new THEN timers \cup {b} ELSE timers
            /\ Call(s, "waiting")
            /\ UNCHANGED <<closeVars, fired, conn, holder, results, log, panicked, failures>>

sendBatched(s) == ~closed /\ Enqueue(s)

(* SendBatch, and Send without lingering, do not look at closed again.     *)
SendBatch(s) ==
    \E p \in Partitions :
        /\ Running
        /\ callPC[s] = "enqueue"
        /\ batches' = Append(batches, NewBatch(p, s, "detached"))
        /\ Call(s, "waiting")
        /\ UNCHANGED <<closeVars, batchVars, conn, holder, results, log, panicked, failures>>

SendRejected(s) ==
    /\ Running /\ Linger
    /\ callPC[s] = "enqueue"
    /\ closed
    /\ Call(s, "returned")
    /\ results' = [results EXCEPT ![s] = Append(@, Failure)]
    /\ UNCHANGED <<closeVars, batchVars, conn, batches, holder, log, panicked, failures>>

SendReturn(s) ==
    /\ Running
    /\ callPC[s] = "waiting"
    /\ results[s] # <<>>
    /\ Call(s, "returned")
    /\ UNCHANGED <<closeVars, batchVars, conn, batches, holder, results, log, panicked,
                   failures>>

(* The caller's context ends; its record stays in the batch.               *)
SendCancelled(s) ==
    /\ Running
    /\ callPC[s] = "waiting"
    /\ Fail
    /\ Call(s, "returned")
    /\ UNCHANGED <<closeVars, batchVars, conn, batches, holder, results, log, panicked>>

Send(s) == sendBatched(s) \/ SendBatch(s) \/ SendRejected(s) \/ SendReturn(s)

-----------------------------------------------------------------------------
(* The linger timer.                                                       *)

TimerFires(b) ==
    /\ Running
    /\ b \in timers
    /\ timers' = timers \ {b}
    /\ fired' = fired \cup {b}
    /\ UNCHANGED <<closeVars, pending, conn, batches, holder, callPC, results, log,
                   panicked, failures>>

(* lingerFire does nothing if the batch was flushed by size or by Close.   *)
FaultyNoIdentity(b) ==
    LET p == batches[b].partition
    IN  /\ Running
        /\ b \in fired
        /\ fired' = fired \ {b}
        /\ IF pending[p] # 0
           THEN /\ pending' = [pending EXCEPT ![p] = 0]
                /\ batches' = [batches EXCEPT ![b].pc = "detached"]
           ELSE UNCHANGED <<pending, batches>>
        /\ UNCHANGED <<closeVars, timers, conn, holder, callPC, results, log, panicked,
                       failures>>

FaultyNotFlushed(b) ==
    LET p == batches[b].partition
    IN  /\ Running
        /\ b \in fired
        /\ fired' = fired \ {b}
        /\ pending' = [pending EXCEPT ![p] = IF @ = b THEN 0 ELSE @]
        /\ UNCHANGED <<closeVars, timers, conn, batches, holder, callPC, results, log,
                       panicked, failures>>

lingerFire(b) ==
    LET p == batches[b].partition
    IN  /\ Running
        /\ b \in fired
        /\ fired' = fired \ {b}
        /\ IF pending[p] = b
           THEN /\ pending' = [pending EXCEPT ![p] = 0]
                /\ batches' = [batches EXCEPT ![b].pc = "detached"]
           ELSE UNCHANGED <<pending, batches>>
        /\ UNCHANGED <<closeVars, timers, conn, holder, callPC, results, log, panicked,
                       failures>>

-----------------------------------------------------------------------------
(* The round trip of a detached batch: produceRecords, called by           *)
(* flushBatch, which gives every waiter its result.                        *)

(* The round trip is over: reqMu is free again and the waiters have their  *)
(* results, an offset each or all the error.                               *)
Finish(b, base) ==
    LET waiters == batches[b].waiters
        Result(s) == IF base = Failure THEN Failure
                     ELSE base + (CHOOSE i \in DOMAIN waiters : waiters[i] = s) - 1
    IN  /\ batches' = [batches EXCEPT ![b].pc = "done"]
        /\ holder' = 0
        /\ results' = [s \in Callers |->
              IF s \in Range(waiters) THEN Append(results[s], Result(s)) ELSE results[s]]

At(b, l) ==
    /\ Running
    /\ batches[b].pc = l

Goto(b, l) == batches' = [batches EXCEPT ![b].pc = l]

(* The batch takes reqMu and, from getConn, the connection.                *)
Connect(b) ==
    /\ At(b, "detached")
    /\ holder = 0
    /\ conn \/ ~finalized
    /\ conn' = TRUE
    /\ holder' = b
    /\ Goto(b, "write")
    /\ UNCHANGED <<closeVars, batchVars, callPC, results, log, panicked, failures>>

ConnectFails(b) ==
    /\ At(b, "detached")
    /\ holder = 0
    /\ ~conn
    /\ \/ finalized /\ UNCHANGED failures
       \/ ~finalized /\ Fail
    /\ Finish(b, Failure)
    /\ UNCHANGED <<closeVars, batchVars, conn, callPC, log, panicked>>

(* The request is written, and the broker appends its records or rejects   *)
(* them.  What it appends stays even if the answer is lost.                *)
Write(b) ==
    LET p == batches[b].partition
    IN  /\ At(b, "write")
        /\ conn
        /\ \/ /\ log' = [log EXCEPT ![p] = @ \o batches[b].waiters]
              /\ batches' = [batches EXCEPT ![b].pc = "sent", ![b].base = Len(log[p]) + 1]
              /\ UNCHANGED failures
           \/ /\ Fail
              /\ Goto(b, "sent")
              /\ UNCHANGED log
        /\ UNCHANGED <<closeVars, batchVars, conn, holder, callPC, results, panicked>>

(* The write fails if the connection is lost, or closed by Close.          *)
WriteFails(b) ==
    /\ At(b, "write")
    /\ IF conn THEN Fail ELSE UNCHANGED failures
    /\ conn' = FALSE
    /\ Finish(b, Failure)
    /\ UNCHANGED <<closeVars, batchVars, callPC, log, panicked>>

Read(b) ==
    /\ At(b, "sent")
    /\ conn
    /\ Goto(b, "read")
    /\ UNCHANGED <<closeVars, batchVars, conn, holder, callPC, results, log, panicked,
                   failures>>

(* The answer carries the offset of the batch's first record, or an error  *)
(* code.                                                                   *)
FaultyBaseIsEnd(b) ==
    /\ At(b, "read")
    /\ conn
    /\ Finish(b, Len(log[batches[b].partition]))
    /\ UNCHANGED <<closeVars, batchVars, conn, callPC, log, panicked, failures>>

Answered(b) ==
    /\ At(b, "read")
    /\ conn
    /\ Finish(b, batches[b].base)
    /\ UNCHANGED <<closeVars, batchVars, conn, callPC, log, panicked, failures>>

(* The read fails if the connection is lost, or closed by Close.           *)
ReadFails(b) ==
    /\ At(b, "read")
    /\ IF conn THEN Fail ELSE UNCHANGED failures
    /\ conn' = FALSE
    /\ Finish(b, Failure)
    /\ UNCHANGED <<closeVars, batchVars, callPC, log, panicked>>

(* Close dropped the buffers after the batch had got its connection.       *)
NilBuffer(b) ==
    /\ At(b, "write") \/ At(b, "sent")
    /\ ~conn
    /\ panicked' = TRUE
    /\ UNCHANGED <<closeVars, batchVars, conn, batches, holder, callPC, results, log,
                   failures>>

produceRecords(b) ==
    \/ Connect(b) \/ ConnectFails(b) \/ Write(b) \/ WriteFails(b) \/ Read(b)
    \/ Answered(b) \/ ReadFails(b) \/ NilBuffer(b)

-----------------------------------------------------------------------------
(* Close.                                                                  *)

(* Only the first closer drains the batches; another one goes on to drop   *)
(* the connection.                                                         *)
CloseStart(c) ==
    /\ Running
    /\ closePC[c] = "idle"
    /\ closed' = (closed \/ ~finalized)
    /\ closePC' = [closePC EXCEPT ![c] =
                      IF finalized THEN "returned"
                      ELSE IF ~closed /\ Linger THEN "drain" ELSE "final"]
    /\ UNCHANGED <<finalized, draining, batchVars, conn, batches, holder, callPC,
                   results, log, panicked, failures>>

flushAllPending(c) ==
    LET detached == {b \in DOMAIN batches : batches[b].pc = "pending"}
    IN  /\ Running
        /\ closePC[c] = "drain"
        /\ draining' = [draining EXCEPT ![c] = detached]
        /\ batches' = [b \in DOMAIN batches |->
              IF b \in detached THEN [batches[b] EXCEPT !.pc = "detached"] ELSE batches[b]]
        /\ pending' = [p \in Partitions |-> 0]
        /\ timers' = timers \ detached
        /\ closePC' = [closePC EXCEPT ![c] = "flush"]
        /\ UNCHANGED <<closed, finalized, fired, conn, holder, callPC, results, log,
                       panicked, failures>>

CloseFlushed(c) ==
    /\ Running
    /\ closePC[c] = "flush"
    /\ \A b \in draining[c] : batches[b].pc = "done"
    /\ closePC' = [closePC EXCEPT ![c] = "final"]
    /\ UNCHANGED <<closed, finalized, draining, batchVars, conn, batches, holder, callPC,
                   results, log, panicked, failures>>

CloseFinal(c) ==
    /\ Running
    /\ closePC[c] = "final"
    /\ finalized' = TRUE
    /\ conn' = (conn /\ finalized)
    /\ closePC' = [closePC EXCEPT ![c] = "returned"]
    /\ UNCHANGED <<closed, draining, batchVars, batches, holder, callPC, results, log,
                   panicked, failures>>

Close(c) == flushAllPending(c) \/ CloseFlushed(c) \/ CloseFinal(c)

-----------------------------------------------------------------------------

Next ==
    \/ \E s \in Callers : SendStart(s) \/ Send(s) \/ SendCancelled(s)
    \/ \E b \in DOMAIN batches : TimerFires(b) \/ lingerFire(b) \/ produceRecords(b)
    \/ \E c \in Closers : CloseStart(c) \/ Close(c)

Spec == Init /\ [][Next]_vars

(* Goroutines run, timers fire, and every round trip ends.  Calls start    *)
(* and are cancelled as the application likes.                             *)
Fairness ==
    WF_vars(\/ \E s \in Callers : Send(s)
            \/ \E b \in DOMAIN batches :
                  TimerFires(b) \/ lingerFire(b) \/ produceRecords(b)
            \/ \E c \in Closers : Close(c))

FairSpec == Spec /\ Fairness

-----------------------------------------------------------------------------
(* Properties.                                                             *)

(* Whatever flushes a batch, and whenever: a caller gets one result at     *)
(* most, and its record reaches the broker once at most, in one partition. *)
SentOnce ==
    /\ \A s \in Callers : Len(results[s]) <= 1
    /\ \A p, q \in Partitions : \A i \in DOMAIN log[p], j \in DOMAIN log[q] :
          log[p][i] = log[q][j] => p = q /\ i = j

(* The offset a caller is given is the one its own record has.             *)
OffsetsAreTheirs ==
    \A s \in Callers : \A i \in DOMAIN results[s] :
        results[s][i] # Failure =>
            \E p \in Partitions :
                results[s][i] \in DOMAIN log[p] /\ log[p][results[s][i]] = s

(* Once the first Close has detached the pending batches no caller can     *)
(* start another one, which nobody would flush before Close returns.       *)
NothingStranded ==
    (\E c \in Closers : closePC[c] \in {"flush", "final", "returned"} /\ closed)
        /\ ~(\E c \in Closers : closePC[c] = "drain")
        => \A p \in Partitions : pending[p] = 0

(* producer.go, line 503: every caller of Send is released with an offset  *)
(* or an error, also when Close comes in between, unless the process ends. *)
(* Each caller sends once, so in the end no call is under way.             *)
EverySendReturns ==
    <>[](panicked \/ \A s \in Callers : callPC[s] \in {"idle", "returned"})

(* producer.go, line 76: the producer "is safe for concurrent use by       *)
(* multiple goroutines", so that no call meets a buffer that another call  *)
(* has dropped.                                                            *)
BuffersInPlace == ~panicked

=============================================================================
