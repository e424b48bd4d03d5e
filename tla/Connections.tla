---------------------------- MODULE Connections -----------------------------
(***************************************************************************)
(* A Consumer (pkg/client/consumer.go) that several goroutines share, the  *)
(* connections it makes to a Server, and other clients that only connect   *)
(* and leave.                                                              *)
(*                                                                         *)
(* reqMu serialises the round trips of Fetch.  mu guards conn, br and bw,  *)
(* which are nil together; Fetch reads br and bw without it, so that Close *)
(* can take them away between two steps of Fetch.                          *)
(***************************************************************************)
EXTENDS Server

CONSTANTS
    Callers,        \* goroutines that call Fetch
    Nobody,
    MaxEvents       \* bound: calls of Fetch and Close, connections that TCP
                    \* resets and those of other clients, together

ASSUME ClientAssumption == Nobody \notin Callers /\ MaxEvents \in Nat

VARIABLES
    conn,           \* Consumer.conn with br and bw, 0 for nil
    closed,         \* Consumer.closed
    nextID,         \* Consumer.nextID
    reqMu,          \* the goroutine that holds reqMu
    pc,             \* where each Fetch is
    corrID,         \* Fetch local
    reading,        \* Fetch local: the connection it reads from
    resets,
    others          \* connections of other clients

fetchVars == <<pc, corrID, reading>>
clientVars == <<conn, closed, nextID, reqMu, fetchVars, resets, others>>
vars == <<serverVars, clientVars>>

TypeOK ==
    /\ ServerTypeOK
    /\ conn \in 0..Connections
    /\ closed \in BOOLEAN
    /\ nextID \in 0..MaxEvents
    /\ reqMu \in Callers \cup {Nobody}
    /\ pc \in [Callers -> {"idle", "lock", "conn", "write", "br", "read", "panicked"}]
    /\ \A f \in Callers :
          /\ pc[f] \in {"conn", "write", "br", "read"} => reqMu = f
          /\ reading[f] # 0 <=> pc[f] = "read"

Init ==
    /\ ServerInit
    /\ conn = 0
    /\ closed = FALSE
    /\ nextID = 0
    /\ reqMu = Nobody
    /\ pc = [f \in Callers |-> "idle"]
    /\ corrID = [f \in Callers |-> 0]
    /\ reading = [f \in Callers |-> 0]
    /\ resets = 0
    /\ others = 0

Event == nextID + resets + others + (IF closed THEN 1 ELSE 0) < MaxEvents

At(f, s) == pc' = [pc EXCEPT ![f] = s]

-----------------------------------------------------------------------------
(* Fetch.                                                                  *)

Fetch(f) ==
    /\ pc[f] = "idle"
    /\ Event
    /\ nextID' = nextID + 1
    /\ corrID' = [corrID EXCEPT ![f] = nextID']
    /\ At(f, "lock")
    /\ UNCHANGED <<serverVars, conn, closed, reqMu, reading, resets, others>>

Lock(f) ==
    /\ pc[f] = "lock"
    /\ reqMu = Nobody
    /\ reqMu' = f
    /\ At(f, "conn")
    /\ UNCHANGED <<serverVars, conn, closed, nextID, corrID, reading, resets, others>>

(* Every way out of Fetch releases reqMu; so does a panic.                 *)
Leave(f, s) ==
    /\ At(f, s)
    /\ reqMu' = Nobody
    /\ corrID' = [corrID EXCEPT ![f] = 0]
    /\ reading' = [reading EXCEPT ![f] = 0]
    /\ UNCHANGED <<nextID, resets, others>>

(* getConn under mu.                                                       *)
getConn(f) ==
    /\ pc[f] = "conn"
    /\ ~closed
    /\ \/ conn # 0 /\ UNCHANGED <<conn, serverVars>>
       \/ conn = 0 /\ \E c \in Conns : Dialed(c) /\ conn' = c
    /\ At(f, "write")
    /\ UNCHANGED <<closed, nextID, reqMu, corrID, reading, resets, others>>

(* The consumer is closed, or the broker cannot be reached.                *)
getConnFails(f) ==
    /\ pc[f] = "conn"
    /\ closed \/ (conn = 0 /\ listener \in {"none", "closed"})
    /\ Leave(f, "idle")
    /\ UNCHANGED <<serverVars, conn, closed>>

closeConn ==
    IF conn = 0 THEN UNCHANGED <<conn, clientOpen, toClient>>
    ELSE ClientCloses(conn) /\ conn' = 0

Write(f) ==
    /\ pc[f] = "write"
    /\ conn # 0
    /\ toServer' = IF serverOpen[conn]
                   THEN [toServer EXCEPT ![conn] = Append(@, corrID[f])]
                   ELSE toServer
    /\ At(f, "br")
    /\ UNCHANGED <<acceptVars, countVars, shutVars, stage, current, toClient, clientOpen,
                   serverOpen, conn, closed, nextID, reqMu, corrID, reading, resets, others>>

(* A write to a connection that the server has closed may fail; if not, it *)
(* goes nowhere.                                                           *)
ClientWriteFails(f) ==
    /\ pc[f] = "write"
    /\ conn # 0
    /\ ~serverOpen[conn]
    /\ closeConn
    /\ Leave(f, "idle")
    /\ UNCHANGED <<acceptVars, countVars, shutVars, stage, current, toServer, serverOpen,
                   closed>>

(* br or bw is nil.                                                        *)
Panic(f) ==
    /\ pc[f] \in {"write", "br"}
    /\ conn = 0
    /\ Leave(f, "panicked")
    /\ UNCHANGED <<serverVars, conn, closed>>

LoadReader(f) ==
    /\ pc[f] = "br"
    /\ conn # 0
    /\ reading' = [reading EXCEPT ![f] = conn]
    /\ At(f, "read")
    /\ UNCHANGED <<serverVars, conn, closed, nextID, reqMu, corrID, resets, others>>

(* A response to another request means that the stream is of no more use.  *)
ReadResponseFrame(f) ==
    LET c == reading[f]
    IN  /\ pc[f] = "read"
        /\ toClient[c] # <<>>
        /\ IF Head(toClient[c]) = corrID[f]
           THEN /\ toClient' = [toClient EXCEPT ![c] = Tail(@)]
                /\ UNCHANGED <<conn, clientOpen>>
           ELSE closeConn
        /\ Leave(f, "idle")
        /\ UNCHANGED <<acceptVars, countVars, shutVars, stage, current, toServer, serverOpen,
                       closed>>

(* The stream has ended, here or at the server.                            *)
ClientReadFails(f) ==
    LET c == reading[f]
    IN  /\ pc[f] = "read"
        /\ ~clientOpen[c] \/ (~serverOpen[c] /\ toClient[c] = <<>>)
        /\ closeConn
        /\ Leave(f, "idle")
        /\ UNCHANGED <<acceptVars, countVars, shutVars, stage, current, toServer, serverOpen,
                       closed>>

FetchStep(f) ==
    \/ Lock(f) \/ getConn(f) \/ getConnFails(f) \/ Write(f) \/ ClientWriteFails(f)
    \/ Panic(f) \/ LoadReader(f) \/ ReadResponseFrame(f) \/ ClientReadFails(f)

Close ==
    /\ Event
    /\ ~closed
    /\ closed' = TRUE
    /\ closeConn
    /\ UNCHANGED <<acceptVars, countVars, shutVars, stage, current, toServer, serverOpen,
                   nextID, reqMu, fetchVars, resets, others>>

-----------------------------------------------------------------------------
(* The rest of the world.                                                  *)

(* Another client; the idle timeout ends its connection as well as it      *)
(* could itself.                                                           *)
OtherDials ==
    /\ Event
    /\ \E c \in Conns : Dialed(c)
    /\ others' = others + 1
    /\ UNCHANGED <<conn, closed, nextID, reqMu, fetchVars, resets>>

(* A reset drops what is on its way; both sides notice when they read.     *)
Reset(c) ==
    /\ Event
    /\ resets' = resets + 1
    /\ stage[c] \in {"read", "serve"}
    /\ clientOpen[c] /\ serverOpen[c]
    /\ ServerCloses(c)
    /\ ClientCloses(c)
    /\ UNCHANGED <<acceptVars, countVars, shutVars, stage, current, conn, closed, nextID,
                   reqMu, fetchVars, others>>

Next ==
    \/ (AcceptLoop \/ CloseDone \/ Shutdown) /\ UNCHANGED clientVars
    \/ \E c \in Conns : handleConn(c) /\ UNCHANGED clientVars
    \/ \E f \in Callers : Fetch(f) \/ FetchStep(f)
    \/ Close \/ OtherDials
    \/ \E c \in Conns : Reset(c)

Spec == Init /\ [][Next]_vars

(* The server's goroutines and a Fetch in progress run whenever they can;  *)
(* the idle timeout, if nothing else, ends every handleConn.               *)
FairSpec ==
    /\ Spec
    /\ WF_vars(AcceptLoop /\ UNCHANGED clientVars)
    /\ WF_vars(Shutdown /\ UNCHANGED clientVars)
    /\ \A c \in Conns : WF_vars(handleConn(c) /\ UNCHANGED clientVars)
    /\ \A f \in Callers : WF_vars(FetchStep(f))

-----------------------------------------------------------------------------
(* Properties.                                                             *)

(* The answer that Fetch reads is the one to its own request: errors,      *)
(* resets and reconnections never leave the stream of answers out of step  *)
(* with the stream of requests.                                            *)
AnswersMatch ==
    \A f \in Callers :
        pc[f] = "read" /\ clientOpen[reading[f]] /\ toClient[reading[f]] # <<>>
            => Head(toClient[reading[f]]) = corrID[f]

(* Only Close can take the buffers away from a Fetch: another Fetch that   *)
(* gives up the connection is kept out by reqMu.                           *)
PanicOnlyAfterClose == (\E f \in Callers : pc[f] = "panicked") => closed

(* consumer.go, line 38: a Consumer is safe for concurrent use by multiple *)
(* goroutines.                                                             *)
NeverPanics == \A f \in Callers : pc[f] # "panicked"

(* Every Fetch ends although it sets no deadline: a connection that the    *)
(* server rejects, resets, or leaves idle is closed, and the error frees   *)
(* the caller.                                                             *)
EveryFetchReturns ==
    \A f \in Callers : pc[f] # "idle" ~> pc[f] \in {"idle", "panicked"}

=============================================================================
