------------------------------- MODULE Server -------------------------------
(***************************************************************************)
(* The TCP server of a broker (internal/server/server.go): the accept loop *)
(* of Start with its limit on connections, a goroutine per connection, and *)
(* Shutdown, which closes the listener and waits for the goroutines.       *)
(*                                                                         *)
(* A connection is a number.  What each side has sent and the other has    *)
(* not read is a sequence of frames, and a frame is its correlation id:    *)
(* TCP delivers in order, and loses what is unread when it resets.         *)
(*                                                                         *)
(* A definition whose name starts with Faulty is the one that follows it   *)
(* with a defect; no specification uses it.                                *)
(***************************************************************************)
EXTENDS Integers, Sequences, FiniteSets

CONSTANTS
    MaxConns,       \* Server.maxConns
    Connections     \* bound: the connections that are ever made, 1..n

ASSUME ServerAssumption == MaxConns \in Nat \ {0} /\ Connections \in Nat

Conns == 1..Connections

VARIABLES
    listener,       \* "none", "local" to Start, published as "open", "closed"
    done,           \* Server.done is closed
    startPC,        \* where Start is
    held,           \* Start local: the accepted connection, 0 for none
    activeConns,    \* Server.activeConns
    wg,             \* Server.wg
    waited,         \* wg.Wait has returned
    shutPC,         \* where Shutdown is
    stage,          \* what has become of each connection
    current,        \* handleConn local: the request it serves, 0 for none
    toServer, toClient,         \* frames on their way
    clientOpen, serverOpen      \* sides that have not closed

acceptVars == <<listener, startPC, held>>
countVars == <<activeConns, wg>>
shutVars == <<done, waited, shutPC>>
wireVars == <<toServer, toClient, clientOpen, serverOpen>>
serverVars == <<acceptVars, countVars, shutVars, stage, current, wireVars>>

Stages == {"unused", "backlog", "held", "read", "serve", "closed", "gone"}

(* Connections with a handleConn goroutine that can still answer.          *)
Served == {c \in Conns : stage[c] \in {"read", "serve"}}

ServerTypeOK ==
    /\ listener \in {"none", "local", "open", "closed"}
    /\ startPC \in {"listen", "publish", "accept", "check", "nil", "error"}
    /\ held \in 0..Connections /\ (held # 0 <=> startPC = "check")
    /\ activeConns \in 0..Connections /\ wg \in 0..Connections
    /\ shutPC \in {"off", "close", "wait", "nil", "ctx"}
    /\ done \in BOOLEAN /\ waited \in BOOLEAN
    /\ stage \in [Conns -> Stages]
    /\ clientOpen \in [Conns -> BOOLEAN] /\ serverOpen \in [Conns -> BOOLEAN]
    /\ \A c \in Conns : current[c] # 0 <=> stage[c] = "serve"

ServerInit ==
    /\ listener = "none" /\ done = FALSE
    /\ startPC = "listen" /\ held = 0
    /\ activeConns = 0 /\ wg = 0
    /\ waited = FALSE /\ shutPC = "off"
    /\ stage = [c \in Conns |-> "unused"]
    /\ current = [c \in Conns |-> 0]
    /\ toServer = [c \in Conns |-> <<>>] /\ toClient = [c \in Conns |-> <<>>]
    /\ clientOpen = [c \in Conns |-> FALSE] /\ serverOpen = [c \in Conns |-> FALSE]

Stage(c, s) == stage' = [stage EXCEPT ![c] = s]

-----------------------------------------------------------------------------
(* TCP.                                                                    *)

Unused == {c \in Conns : stage[c] = "unused"}

(* A client connects; the kernel completes the handshake by itself.        *)
Dialed(c) ==
    /\ c \in Unused /\ \A d \in Unused : c <= d
    /\ listener \in {"local", "open"}
    /\ Stage(c, "backlog")
    /\ clientOpen' = [clientOpen EXCEPT ![c] = TRUE]
    /\ serverOpen' = [serverOpen EXCEPT ![c] = TRUE]
    /\ UNCHANGED <<acceptVars, countVars, shutVars, current, toServer, toClient>>

(* Nobody reads what the other side has sent to a side that has closed.    *)
ClientCloses(c) ==
    /\ clientOpen' = [clientOpen EXCEPT ![c] = FALSE]
    /\ toClient' = [toClient EXCEPT ![c] = <<>>]

ServerCloses(c) ==
    /\ serverOpen' = [serverOpen EXCEPT ![c] = FALSE]
    /\ toServer' = [toServer EXCEPT ![c] = <<>>]

-----------------------------------------------------------------------------
(* Start.                                                                  *)

Listen ==
    /\ startPC = "listen"
    /\ listener' = "local"
    /\ startPC' = "publish"
    /\ UNCHANGED <<held, countVars, shutVars, stage, current, wireVars>>

Publish ==
    /\ startPC = "publish"
    /\ listener' = "open"
    /\ startPC' = "accept"
    /\ UNCHANGED <<held, countVars, shutVars, stage, current, wireVars>>

Accept(c) ==
    /\ startPC = "accept"
    /\ stage[c] = "backlog"
    /\ Stage(c, "held")
    /\ held' = c
    /\ startPC' = "check"
    /\ UNCHANGED <<listener, countVars, shutVars, current, wireVars>>

(* Accept fails once the listener is closed; Start looks whether that was  *)
(* Shutdown's doing.                                                       *)
StartReturns ==
    /\ startPC = "accept"
    /\ listener = "closed"
    /\ startPC' = IF done THEN "nil" ELSE "error"
    /\ UNCHANGED <<listener, held, countVars, shutVars, stage, current, wireVars>>

FaultyForgotten ==
    /\ startPC = "check"
    /\ activeConns >= MaxConns
    /\ Stage(held, "gone")
    /\ held' = 0
    /\ startPC' = "accept"
    /\ UNCHANGED <<listener, countVars, shutVars, current, wireVars>>

Reject ==
    /\ startPC = "check"
    /\ activeConns >= MaxConns
    /\ Stage(held, "gone")
    /\ ServerCloses(held)
    /\ held' = 0
    /\ startPC' = "accept"
    /\ UNCHANGED <<listener, countVars, shutVars, current, toClient, clientOpen>>

FaultyOneMore ==
    /\ startPC = "check"
    /\ activeConns <= MaxConns
    /\ activeConns' = activeConns + 1
    /\ wg' = wg + 1
    /\ Stage(held, "read")
    /\ held' = 0
    /\ startPC' = "accept"
    /\ UNCHANGED <<listener, shutVars, current, wireVars>>

(* The connection is counted before its goroutine starts.                  *)
Spawn ==
    /\ startPC = "check"
    /\ activeConns < MaxConns
    /\ activeConns' = activeConns + 1
    /\ wg' = wg + 1
    /\ Stage(held, "read")
    /\ held' = 0
    /\ startPC' = "accept"
    /\ UNCHANGED <<listener, shutVars, current, wireVars>>

AcceptLoop ==
    \/ Listen \/ Publish \/ StartReturns \/ Reject \/ Spawn
    \/ \E c \in Conns : Accept(c)

-----------------------------------------------------------------------------
(* handleConn.                                                             *)

ReadRequestFrame(c) ==
    /\ stage[c] = "read"
    /\ toServer[c] # <<>>
    /\ current' = [current EXCEPT ![c] = Head(toServer[c])]
    /\ toServer' = [toServer EXCEPT ![c] = Tail(@)]
    /\ Stage(c, "serve")
    /\ UNCHANGED <<acceptVars, countVars, shutVars, toClient, clientOpen, serverOpen>>

(* The client has gone, or the idle timeout has passed.                    *)
ReadFails(c) ==
    /\ stage[c] = "read"
    /\ toServer[c] = <<>>
    /\ Stage(c, "closed")
    /\ ServerCloses(c)
    /\ UNCHANGED <<acceptVars, countVars, shutVars, current, toClient, clientOpen>>

FaultyOwnId(c) == 0

(* Mux.Dispatch gives the answer the request's correlation id, whether the *)
(* handler succeeded, failed, panicked or does not exist.                  *)
Dispatch(c) == current[c]

WriteResponse(c) ==
    /\ stage[c] = "serve"
    /\ clientOpen[c]
    /\ toClient' = [toClient EXCEPT ![c] = Append(@, Dispatch(c))]
    /\ current' = [current EXCEPT ![c] = 0]
    /\ Stage(c, "read")
    /\ UNCHANGED <<acceptVars, countVars, shutVars, toServer, clientOpen, serverOpen>>

WriteFails(c) ==
    /\ stage[c] = "serve"
    /\ ~clientOpen[c]
    /\ current' = [current EXCEPT ![c] = 0]
    /\ Stage(c, "closed")
    /\ ServerCloses(c)
    /\ UNCHANGED <<acceptVars, countVars, shutVars, toClient, clientOpen>>

(* The deferred calls: the counter, then the wait group.                   *)
HandlerReturns(c) ==
    /\ stage[c] = "closed"
    /\ activeConns' = activeConns - 1
    /\ wg' = wg - 1
    /\ Stage(c, "gone")
    /\ UNCHANGED <<acceptVars, shutVars, current, wireVars>>

handleConn(c) ==
    \/ ReadRequestFrame(c) \/ ReadFails(c) \/ WriteResponse(c) \/ WriteFails(c)
    \/ HandlerReturns(c)

-----------------------------------------------------------------------------
(* Shutdown.                                                               *)

CloseDone ==
    /\ shutPC = "off"
    /\ done' = TRUE
    /\ shutPC' = "close"
    /\ UNCHANGED <<acceptVars, countVars, waited, stage, current, wireVars>>

(* Closing a published listener resets the connections not yet accepted.   *)
CloseListener ==
    /\ shutPC = "close"
    /\ shutPC' = "wait"
    /\ IF listener = "open"
       THEN /\ listener' = "closed"
            /\ stage' = [c \in Conns |-> IF stage[c] = "backlog" THEN "gone" ELSE stage[c]]
            /\ serverOpen' = [c \in Conns |-> serverOpen[c] /\ stage[c] # "backlog"]
            /\ toServer' = [c \in Conns |-> IF stage[c] = "backlog" THEN <<>> ELSE toServer[c]]
       ELSE UNCHANGED <<listener, stage, serverOpen, toServer>>
    /\ UNCHANGED <<startPC, held, countVars, done, waited, current, toClient, clientOpen>>

FaultyDoesNotWait ==
    /\ shutPC = "wait"
    /\ ~waited
    /\ waited' = TRUE
    /\ UNCHANGED <<acceptVars, countVars, done, shutPC, stage, current, wireVars>>

Wait ==
    /\ shutPC = "wait"
    /\ wg = 0
    /\ ~waited
    /\ waited' = TRUE
    /\ UNCHANGED <<acceptVars, countVars, done, shutPC, stage, current, wireVars>>

ShutdownReturns ==
    /\ shutPC = "wait"
    /\ waited
    /\ shutPC' = "nil"
    /\ UNCHANGED <<acceptVars, countVars, done, waited, stage, current, wireVars>>

ContextExpires ==
    /\ shutPC = "wait"
    /\ shutPC' = "ctx"
    /\ UNCHANGED <<acceptVars, countVars, done, waited, stage, current, wireVars>>

Shutdown == CloseListener \/ Wait \/ ShutdownReturns \/ ContextExpires

-----------------------------------------------------------------------------
(* Properties.                                                             *)

(* The limit on connections holds at every moment, not only when it is     *)
(* checked: the accept loop counts a connection before it starts its       *)
(* goroutine and takes the next one.                                       *)
ConnectionLimit == Cardinality(Served) <= MaxConns

(* Shutdown's wait is no more than one connection short: the one that the  *)
(* accept loop held when the listener closed may be served afterwards.     *)
ShutdownDrains ==
    shutPC = "nil" /\ listener = "closed" => Cardinality(Served) <= 1

(* Start tells a shutdown from a failure of the listener, whatever order   *)
(* the accept loop and Shutdown run in: on an error the process would exit *)
(* before Shutdown has closed the topics.                                  *)
StartEndsCleanly == startPC # "error"

(* server.go, line 139: Shutdown closes the listener and waits for all     *)
(* active connections to finish.                                           *)
ShutdownWaits == shutPC = "nil" => listener = "closed" /\ Served = {}

=============================================================================
