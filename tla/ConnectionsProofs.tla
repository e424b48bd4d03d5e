------------------------- MODULE ConnectionsProofs --------------------------
(***************************************************************************)
(* Proofs about the server and the shared consumer, for any number of      *)
(* connections, callers and events and any limit on connections: the limit *)
(* holds, Shutdown drains all connections but one, and answers stay in     *)
(* step with requests.                                                     *)
(***************************************************************************)
EXTENDS Connections, FiniteSetTheorems, TLAPS

ServerStep ==
    AcceptLoop \/ CloseDone \/ Shutdown \/ \E c \in Conns : handleConn(c)

-----------------------------------------------------------------------------
(* The counters.                                                           *)

(* Connections whose goroutine has not returned.                           *)
Counted == {c \in Conns : stage[c] \in {"read", "serve", "closed"}}

(* What the limit needs: the counters are exact, and the connection that   *)
(* the accept loop holds has not been counted.                             *)
CountInv ==
    /\ stage \in [Conns -> Stages]
    /\ activeConns = Cardinality(Counted)
    /\ wg = activeConns
    /\ activeConns <= MaxConns
    /\ startPC = "check" => held \in Conns /\ stage[held] = "held"

(* What Shutdown needs: once the listener is closed nothing is left to be  *)
(* accepted, and after the wait only the connection that was then in the   *)
(* hands of the accept loop may be served.                                 *)
DrainInv ==
    /\ startPC \in {"listen", "publish"} => listener \notin {"open", "closed"}
    /\ listener = "closed" =>
          /\ shutPC \notin {"off", "close"}
          /\ \A c \in Conns : stage[c] # "backlog"
    /\ waited => shutPC \in {"wait", "nil", "ctx"}
    /\ shutPC = "nil" => waited
    /\ waited /\ listener = "closed" =>
          activeConns + (IF startPC = "check" THEN 1 ELSE 0) <= 1

(* Connections are finitely many, so that they can be counted.             *)
LEMMA CountedIsFinite ==
    /\ IsFiniteSet(Counted) /\ Cardinality(Counted) \in Nat
    /\ IsFiniteSet(Served) /\ Cardinality(Served) <= Cardinality(Counted)
    /\ Cardinality(Served) \in Nat
  <1>1. IsFiniteSet(Conns)
    BY FS_Interval, ServerAssumption DEF Conns
  <1>2. Counted \in SUBSET Conns /\ Served \in SUBSET Counted
    BY DEF Counted, Served
  <1>3. IsFiniteSet(Counted)
    BY <1>1, <1>2, FS_Subset
  <1>4. IsFiniteSet(Served) /\ Cardinality(Served) <= Cardinality(Counted)
    BY <1>2, <1>3, FS_Subset
  <1> QED
    BY <1>3, <1>4, FS_CardinalityType

(* Initially there are no connections.                                     *)
LEMMA CountInit == Init => CountInv /\ DrainInv
  <1> SUFFICES ASSUME Init PROVE CountInv /\ DrainInv
    OBVIOUS
  <1> USE DEF Init, ServerInit
  <1>1. Counted = {}
    BY DEF Counted
  <1>2. Cardinality(Counted) = 0
    BY <1>1, FS_EmptySet
  <1> QED
    BY <1>2, ServerAssumption DEF CountInv, DrainInv, Stages

(* The steps other than Spawn and HandlerReturns leave the counters and    *)
(* the counted connections alone.                                          *)
LEMMA SameCount ==
    ASSUME CountInv, stage' \in [Conns -> Stages], UNCHANGED countVars,
           \A c \in Conns : stage'[c] \in {"read", "serve", "closed"}
                                <=> stage[c] \in {"read", "serve", "closed"},
           startPC' = "check" => held' \in Conns /\ stage'[held'] = "held"
    PROVE  CountInv'
  <1>1. Counted' = Counted
    BY DEF Counted
  <1>2. Cardinality(Counted') = Cardinality(Counted)
    BY <1>1
  <1> QED
    BY <1>2 DEF CountInv, countVars

(* Starting a connection's goroutine counts it once; the check has made    *)
(* room for it.                                                            *)
LEMMA SpawnCounts == CountInv /\ Spawn => CountInv'
  <1> SUFFICES ASSUME CountInv, Spawn PROVE CountInv'
    OBVIOUS
  <1>1. held \in Conns /\ held \notin Counted /\ stage' = [stage EXCEPT ![held] = "read"]
    BY DEF CountInv, Spawn, Stage, Counted
  <1>2. stage' \in [Conns -> Stages]
    BY <1>1 DEF CountInv, Stages
  <1>3. Counted' = Counted \cup {held}
    BY <1>1 DEF Counted, CountInv
  <1>4. Cardinality(Counted') = Cardinality(Counted) + 1
    BY <1>1, <1>3, CountedIsFinite, FS_AddElement, Zenon
  <1>5. activeConns' = activeConns + 1 /\ wg' = wg + 1 /\ activeConns < MaxConns
        /\ startPC' = "accept"
    BY DEF Spawn
  <1>6. activeConns' = Cardinality(Counted') /\ wg' = activeConns' /\ activeConns' <= MaxConns
    BY <1>4, <1>5, CountedIsFinite, ServerAssumption DEF CountInv
  <1> QED
    BY <1>2, <1>5, <1>6 DEF CountInv

(* The deferred calls of handleConn take it off again.                     *)
LEMMA ReturnCounts ==
    ASSUME NEW d \in Conns, CountInv, HandlerReturns(d)
    PROVE  CountInv' /\ activeConns' < activeConns
  <1>1. d \in Counted /\ stage' = [stage EXCEPT ![d] = "gone"] /\ stage[d] = "closed"
    BY DEF CountInv, HandlerReturns, Stage, Counted
  <1>2. stage' \in [Conns -> Stages]
    BY <1>1 DEF CountInv, Stages
  <1>3. Counted' = Counted \ {d}
    BY <1>1 DEF Counted, CountInv
  <1>4. Cardinality(Counted') = Cardinality(Counted) - 1
    BY <1>1, <1>3, CountedIsFinite, FS_RemoveElement, Zenon
  <1>5. activeConns' = activeConns - 1 /\ wg' = wg - 1 /\ startPC' = startPC /\ held' = held
    BY DEF HandlerReturns, acceptVars
  <1>6. activeConns' = Cardinality(Counted') /\ wg' = activeConns' /\ activeConns' <= MaxConns
    BY <1>4, <1>5, CountedIsFinite, ServerAssumption DEF CountInv
  <1>7. startPC' = "check" => held' \in Conns /\ stage'[held'] = "held"
    BY <1>1, <1>5 DEF CountInv
  <1> QED
    BY <1>2, <1>5, <1>6, <1>7, CountedIsFinite DEF CountInv

(* The accept loop preserves both.                                         *)
LEMMA AcceptLoopCounts ==
    CountInv /\ DrainInv /\ AcceptLoop => CountInv' /\ DrainInv'
  <1> SUFFICES ASSUME CountInv, DrainInv, AcceptLoop PROVE CountInv' /\ DrainInv'
    OBVIOUS
  <1> USE DEF acceptVars, countVars, shutVars
  <1>1. CASE Listen \/ Publish
    <2>1. CountInv'
      BY <1>1, SameCount DEF CountInv, Listen, Publish
    <2>2. DrainInv'
      BY <1>1 DEF DrainInv, Listen, Publish
    <2> QED BY <2>1, <2>2
  <1>2. CASE StartReturns
    <2>1. CountInv'
      BY <1>2, SameCount DEF CountInv, StartReturns
    <2>2. DrainInv'
      BY <1>2 DEF DrainInv, StartReturns
    <2> QED BY <2>1, <2>2
  <1>3. CASE Reject
    <2>1. held \in Conns /\ stage[held] = "held"
      BY <1>3 DEF CountInv, Reject
    <2>2. CountInv'
      BY <1>3, <2>1, SameCount DEF CountInv, Reject, Stage, Stages
    <2>3. DrainInv'
      BY <1>3, <2>1, CountedIsFinite DEF DrainInv, CountInv, Reject, Stage
    <2> QED BY <2>2, <2>3
  <1>4. CASE Spawn
    <2>1. CountInv'
      BY <1>4, SpawnCounts
    <2>2. DrainInv'
      BY <1>4, CountedIsFinite DEF DrainInv, CountInv, Spawn, Stage
    <2> QED BY <2>1, <2>2
  <1>5. ASSUME NEW c \in Conns, Accept(c) PROVE CountInv' /\ DrainInv'
    <2>1. CountInv'
      BY <1>5, SameCount DEF CountInv, Accept, Stage, Stages
    <2>2. DrainInv'
      BY <1>5 DEF DrainInv, CountInv, Accept, Stage
    <2> QED BY <2>1, <2>2
  <1> QED
    BY <1>1, <1>2, <1>3, <1>4, <1>5 DEF AcceptLoop

(* So do Shutdown and a connection's goroutine.                            *)
LEMMA ShutdownCounts ==
    CountInv /\ DrainInv /\ (CloseDone \/ Shutdown) => CountInv' /\ DrainInv'
  <1> SUFFICES ASSUME CountInv, DrainInv, CloseDone \/ Shutdown
               PROVE  CountInv' /\ DrainInv'
    OBVIOUS
  <1> USE DEF acceptVars, countVars, shutVars
  <1>1. CASE CloseDone \/ Wait \/ ShutdownReturns \/ ContextExpires
    <2>1. CountInv'
      BY <1>1, SameCount DEF CountInv, CloseDone, Wait, ShutdownReturns, ContextExpires
    <2>2. DrainInv'
      BY <1>1 DEF DrainInv, CountInv, CloseDone, Wait, ShutdownReturns, ContextExpires
    <2> QED BY <2>1, <2>2
  <1>2. CASE CloseListener
    <2>1. CountInv'
      BY <1>2, SameCount DEF CountInv, CloseListener, Stages
    <2>2. DrainInv'
      BY <1>2 DEF DrainInv, CountInv, CloseListener
    <2> QED BY <2>1, <2>2
  <1> QED
    BY <1>1, <1>2 DEF Shutdown

LEMMA HandlerCounts ==
    ASSUME NEW d \in Conns, CountInv, DrainInv, handleConn(d)
    PROVE  CountInv' /\ DrainInv'
  <1> USE DEF acceptVars, countVars, shutVars
  <1>1. CASE HandlerReturns(d)
    <2>1. CountInv' /\ activeConns' < activeConns
      BY <1>1, ReturnCounts
    <2>2. activeConns \in Nat /\ activeConns' \in Int
      BY <1>1, CountedIsFinite DEF CountInv, HandlerReturns
    <2>3. DrainInv'
      BY <1>1, <2>1, <2>2 DEF DrainInv, CountInv, HandlerReturns, Stage
    <2> QED BY <2>1, <2>3
  <1>2. CASE ReadRequestFrame(d) \/ ReadFails(d) \/ WriteResponse(d) \/ WriteFails(d)
    <2>1. \E s \in {"read", "serve", "closed"} : stage' = [stage EXCEPT ![d] = s]
      BY <1>2 DEF ReadRequestFrame, ReadFails, WriteResponse, WriteFails, Stage
    <2>2. stage[d] \in {"read", "serve"} /\ UNCHANGED <<acceptVars, countVars, shutVars>>
      BY <1>2 DEF ReadRequestFrame, ReadFails, WriteResponse, WriteFails
    <2>3. CountInv'
      BY <2>1, <2>2, SameCount DEF CountInv, Stages
    <2>4. DrainInv'
      BY <2>1, <2>2 DEF DrainInv, CountInv
    <2> QED BY <2>3, <2>4
  <1> QED
    BY <1>1, <1>2 DEF handleConn

(* A client that connects adds to the backlog only.                        *)
LEMMA DialCounts ==
    ASSUME NEW c \in Conns, CountInv, DrainInv, Dialed(c)
    PROVE  CountInv' /\ DrainInv'
  <1> USE DEF acceptVars, countVars, shutVars
  <1>1. CountInv'
    BY SameCount DEF CountInv, Dialed, Unused, Stage, Stages
  <1>2. DrainInv'
    BY DEF DrainInv, CountInv, Dialed, Stage
  <1> QED BY <1>1, <1>2

(* Everything else that clients and TCP do touches only streams.           *)
LEMMA CountStep ==
    CountInv /\ DrainInv /\ [Next]_vars => CountInv' /\ DrainInv'
  <1> SUFFICES ASSUME CountInv, DrainInv, [Next]_vars PROVE CountInv' /\ DrainInv'
    OBVIOUS
  <1>1. ASSUME UNCHANGED <<acceptVars, countVars, shutVars, stage>>
        PROVE  CountInv' /\ DrainInv'
    <2> USE DEF acceptVars, countVars, shutVars
    <2>1. CountInv'
      BY <1>1, SameCount DEF CountInv
    <2>2. DrainInv'
      BY <1>1 DEF DrainInv
    <2> QED BY <2>1, <2>2
  <1>2. CASE UNCHANGED vars
    BY <1>1, <1>2 DEF vars, serverVars
  <1>3. CASE AcceptLoop \/ CloseDone \/ Shutdown
    BY <1>3, AcceptLoopCounts, ShutdownCounts
  <1>4. ASSUME NEW c \in Conns, handleConn(c) PROVE CountInv' /\ DrainInv'
    BY <1>4, HandlerCounts
  <1>5. ASSUME NEW f \in Callers, Fetch(f) \/ FetchStep(f) PROVE CountInv' /\ DrainInv'
    <2>1. CASE getConn(f)
      BY <1>1, <2>1, DialCounts DEF getConn, serverVars
    <2>2. CASE Fetch(f) \/ Lock(f) \/ getConnFails(f) \/ Panic(f) \/ LoadReader(f)
      BY <1>1, <2>2 DEF Fetch, Lock, getConnFails, Panic, LoadReader, serverVars
    <2>3. CASE Write(f) \/ ClientWriteFails(f) \/ ReadResponseFrame(f) \/ ClientReadFails(f)
      BY <1>1, <2>3 DEF Write, ClientWriteFails, ReadResponseFrame, ClientReadFails
    <2> QED BY <1>5, <2>1, <2>2, <2>3 DEF FetchStep
  <1>6. CASE Close
    BY <1>1, <1>6 DEF Close
  <1>7. CASE OtherDials
    BY <1>7, DialCounts DEF OtherDials
  <1>8. ASSUME NEW c \in Conns, Reset(c) PROVE CountInv' /\ DrainInv'
    BY <1>1, <1>8 DEF Reset
  <1> QED
    BY <1>2, <1>3, <1>4, <1>5, <1>6, <1>7, <1>8 DEF Next

(* server.go, lines 105 to 119: the number of connections that are served  *)
(* never exceeds maxConns, however late their goroutines start and return. *)
THEOREM LimitHolds == Spec => []ConnectionLimit
  <1>1. CountInv => ConnectionLimit
    BY CountedIsFinite, ServerAssumption DEF CountInv, ConnectionLimit
  <1> QED
    BY <1>1, CountInit, CountStep, PTL DEF Spec

(* When Shutdown returns without an error after closing the listener, at   *)
(* most one connection is still served.                                    *)
THEOREM ShutdownDrainsAllButOne == Spec => []ShutdownDrains
  <1>1. CountInv /\ DrainInv => ShutdownDrains
    BY CountedIsFinite DEF CountInv, DrainInv, ShutdownDrains
  <1> QED
    BY <1>1, CountInit, CountStep, PTL DEF Spec

-----------------------------------------------------------------------------
(* The streams.                                                            *)

StreamTypes ==
    /\ stage \in [Conns -> Stages] /\ current \in [Conns -> Nat]
    /\ toServer \in [Conns -> Seq(Nat)] /\ toClient \in [Conns -> Seq(Nat)]
    /\ clientOpen \in [Conns -> BOOLEAN] /\ serverOpen \in [Conns -> BOOLEAN]

ClientTypes ==
    /\ conn \in Conns \cup {0}
    /\ nextID \in Nat
    /\ corrID \in [Callers -> Nat] /\ reading \in [Callers -> Conns \cup {0}]
    /\ pc \in [Callers -> {"idle", "lock", "conn", "write", "br", "read", "panicked"}]

(* Nothing is under way on a connection.                                   *)
Quiet(c) == toServer[c] = <<>> /\ toClient[c] = <<>> /\ stage[c] # "serve"

(* Nothing but a request, the server's work on it, or the answer to it.    *)
OnlyAbout(c, id) ==
    \/ Quiet(c)
    \/ toServer[c] = <<id>> /\ toClient[c] = <<>> /\ stage[c] # "serve"
    \/ toServer[c] = <<>> /\ toClient[c] = <<>> /\ stage[c] = "serve" /\ current[c] = id
    \/ toServer[c] = <<>> /\ toClient[c] = <<id>> /\ stage[c] # "serve"

Waiting(f) == pc[f] \in {"br", "read"}

(* reqMu: at most one Fetch is in its round trip.                          *)
LockInv == \A f \in Callers : pc[f] \in {"conn", "write", "br", "read"} => reqMu = f

(* Connections that were not yet made, that the client has closed, and     *)
(* those of other clients carry nothing to read.                           *)
OtherStreams ==
    /\ \A c \in Conns : stage[c] = "unused" => ~clientOpen[c] /\ toServer[c] = <<>> /\ c # conn
    /\ \A c \in Conns : ~clientOpen[c] => toClient[c] = <<>>
    /\ \A c \in Conns : clientOpen[c] /\ c # conn => Quiet(c)

(* The consumer's connection carries nothing unless a Fetch waits for an   *)
(* answer, and then only what is about its request.  A Fetch reads from    *)
(* that connection or from one that was closed.                            *)
OwnStream ==
    /\ conn # 0 /\ clientOpen[conn] /\ (\A f \in Callers : ~Waiting(f)) => Quiet(conn)
    /\ \A f \in Callers : Waiting(f) /\ conn # 0 /\ clientOpen[conn] => OnlyAbout(conn, corrID[f])
    /\ \A f \in Callers : pc[f] = "read" =>
          /\ reading[f] \in Conns /\ stage[reading[f]] # "unused"
          /\ reading[f] = conn \/ ~clientOpen[reading[f]]

StreamInv == StreamTypes /\ ClientTypes /\ LockInv /\ OtherStreams /\ OwnStream

(* 0 stands for no connection.                                             *)
LEMMA ZeroIsNone == 0 \notin Conns
  BY ServerAssumption DEF Conns

(* Streams of one frame.                                                   *)
LEMMA OneFrame ==
    ASSUME NEW id \in Nat
    PROVE  /\ <<id>> # <<>> /\ <<id>> \in Seq(Nat)
           /\ Head(<<id>>) = id /\ Tail(<<id>>) = <<>>
           /\ Append(<<>>, id) = <<id>>
  OBVIOUS

(* Initially nothing is connected.                                         *)
LEMMA StreamInit == Init => StreamInv
  <1> SUFFICES ASSUME Init PROVE StreamInv
    OBVIOUS
  <1> USE DEF Init, ServerInit
  <1>1. StreamTypes /\ ClientTypes
    BY DEF StreamTypes, ClientTypes, Stages
  <1>2. LockInv /\ OtherStreams
    BY ZeroIsNone DEF LockInv, OtherStreams
  <1>3. OwnStream
    BY DEF OwnStream, Waiting
  <1> QED BY <1>1, <1>2, <1>3 DEF StreamInv

(* What the server does to a connection: it takes requests off one stream  *)
(* and puts their answers on the other, as long as the client reads it.    *)
Carried(c) ==
    /\ clientOpen[c] /\ Quiet(c) => Quiet(c)'
    /\ \A id \in Nat : clientOpen[c] /\ OnlyAbout(c, id) => OnlyAbout(c, id)'
    /\ ~clientOpen[c] /\ toClient[c] = <<>> => toClient'[c] = <<>>
    /\ stage'[c] = "unused" => stage[c] = "unused" /\ toServer'[c] \in {toServer[c], <<>>}

(* A step that changes one connection.                                     *)
LEMMA CarriedElsewhere ==
    ASSUME NEW c \in Conns,
           stage'[c] = stage[c], current'[c] = current[c],
           toServer'[c] = toServer[c], toClient'[c] = toClient[c]
    PROVE  Carried(c)
  BY DEF Carried, Quiet, OnlyAbout

(* Every step of the server only carries what is on the streams.           *)
LEMMA ServerCarries ==
    ASSUME CountInv, StreamTypes, ServerStep
    PROVE  StreamTypes' /\ clientOpen' = clientOpen /\ \A c \in Conns : Carried(c)
  <1> DEFINE Goal == StreamTypes' /\ clientOpen' = clientOpen /\ \A c \in Conns : Carried(c)
  <1> SUFFICES Goal
    OBVIOUS
  <1> HIDE DEF Goal
  <1>1. ASSUME UNCHANGED <<stage, current, wireVars>> PROVE Goal
    BY <1>1, CarriedElsewhere DEF Goal, StreamTypes, wireVars
  <1>2. CASE Listen \/ Publish \/ StartReturns \/ CloseDone \/ Wait \/ ShutdownReturns
             \/ ContextExpires
    BY <1>1, <1>2 DEF Listen, Publish, StartReturns, CloseDone, Wait, ShutdownReturns,
                      ContextExpires
  <1>3. ASSUME NEW h \in Conns, NEW s \in Stages \ {"unused", "serve"},
               stage[h] # "serve", stage' = [stage EXCEPT ![h] = s],
               \/ UNCHANGED toServer /\ UNCHANGED serverOpen
               \/ ServerCloses(h),
               UNCHANGED <<current, toClient, clientOpen>>
        PROVE  Goal
    <2>1. \/ toServer' = toServer /\ serverOpen' = serverOpen
          \/ /\ toServer' = [toServer EXCEPT ![h] = <<>>]
             /\ serverOpen' = [serverOpen EXCEPT ![h] = FALSE]
      BY <1>3 DEF ServerCloses
    <2>2. StreamTypes'
      <3>1. stage' \in [Conns -> Stages]
        BY <1>3 DEF StreamTypes
      <3>2. <<>> \in Seq(Nat)
        OBVIOUS
      <3>3. toServer' \in [Conns -> Seq(Nat)] /\ serverOpen' \in [Conns -> BOOLEAN]
        BY <2>1, <3>2, Zenon DEF StreamTypes
      <3> QED BY <1>3, <3>1, <3>3 DEF StreamTypes
    <2>3. ASSUME NEW c \in Conns, c # h PROVE Carried(c)
      BY <1>3, <2>1, <2>3, CarriedElsewhere DEF StreamTypes
    <2>4. Carried(h)
      BY <1>3, <2>1 DEF StreamTypes, Carried, Quiet, OnlyAbout
    <2> QED
      BY <1>3, <2>2, <2>3, <2>4 DEF Goal
  <1>4. CASE Reject \/ Spawn
    <2>1. held \in Conns /\ stage[held] = "held"
      BY <1>4 DEF CountInv, Reject, Spawn
    <2> QED
      BY <1>3, <1>4, <2>1 DEF Reject, Spawn, Stage, Stages, wireVars
  <1>5. ASSUME NEW c \in Conns, Accept(c) PROVE Goal
    BY <1>3, <1>5, Zenon DEF Accept, Stage, Stages, wireVars
  <1>6. ASSUME NEW d \in Conns, ReadFails(d) \/ HandlerReturns(d) PROVE Goal
    BY <1>3, <1>6 DEF ReadFails, HandlerReturns, Stage, Stages, wireVars
  <1>7. CASE CloseListener
    <2>1. CASE listener # "open"
      BY <1>1, <1>7, <2>1 DEF CloseListener, wireVars
    <2>2. CASE listener = "open"
      <3>1. /\ stage' = [c \in Conns |-> IF stage[c] = "backlog" THEN "gone" ELSE stage[c]]
            /\ serverOpen' = [c \in Conns |-> serverOpen[c] /\ stage[c] # "backlog"]
            /\ toServer' = [c \in Conns |-> IF stage[c] = "backlog" THEN <<>> ELSE toServer[c]]
            /\ current' = current /\ toClient' = toClient /\ clientOpen' = clientOpen
        BY <1>7, <2>2 DEF CloseListener
      <3>2. stage' \in [Conns -> Stages] /\ toServer' \in [Conns -> Seq(Nat)]
        BY <3>1 DEF StreamTypes, Stages
      <3>3. serverOpen' \in [Conns -> BOOLEAN]
        BY <3>1
      <3>4. ASSUME NEW c \in Conns PROVE Carried(c)
        BY <3>1 DEF StreamTypes, Carried, Quiet, OnlyAbout
      <3> QED BY <3>1, <3>2, <3>3, <3>4 DEF Goal, StreamTypes
    <2> QED BY <2>1, <2>2
  <1>8. ASSUME NEW d \in Conns, ReadRequestFrame(d) PROVE Goal
    <2>1. /\ stage[d] = "read" /\ toServer[d] # <<>>
          /\ current' = [current EXCEPT ![d] = Head(toServer[d])]
          /\ toServer' = [toServer EXCEPT ![d] = Tail(toServer[d])]
          /\ stage' = [stage EXCEPT ![d] = "serve"]
          /\ toClient' = toClient /\ clientOpen' = clientOpen /\ serverOpen' = serverOpen
      BY <1>8 DEF ReadRequestFrame, Stage
    <2>2. Head(toServer[d]) \in Nat /\ Tail(toServer[d]) \in Seq(Nat)
      BY <2>1 DEF StreamTypes
    <2>3. StreamTypes'
      BY <2>1, <2>2 DEF StreamTypes, Stages
    <2>4. ASSUME NEW c \in Conns, c # d PROVE Carried(c)
      BY <2>1, <2>4, CarriedElsewhere DEF StreamTypes
    <2>5. ASSUME NEW id \in Nat, OnlyAbout(d, id) PROVE OnlyAbout(d, id)'
      BY <2>1, <2>5, OneFrame, Zenon DEF StreamTypes, Quiet, OnlyAbout
    <2>6. Carried(d)
      BY <2>1, <2>5 DEF StreamTypes, Carried, Quiet
    <2> QED BY <2>1, <2>3, <2>4, <2>6 DEF Goal
  <1>9. ASSUME NEW d \in Conns, WriteResponse(d) PROVE Goal
    <2>1. /\ stage[d] = "serve" /\ clientOpen[d]
          /\ current' = [current EXCEPT ![d] = 0]
          /\ toClient' = [toClient EXCEPT ![d] = Append(toClient[d], current[d])]
          /\ stage' = [stage EXCEPT ![d] = "read"]
          /\ toServer' = toServer /\ clientOpen' = clientOpen /\ serverOpen' = serverOpen
      BY <1>9 DEF WriteResponse, Stage, Dispatch
    <2>2. Append(toClient[d], current[d]) \in Seq(Nat)
      BY <2>1 DEF StreamTypes
    <2>3. StreamTypes'
      BY <2>1, <2>2 DEF StreamTypes, Stages
    <2>4. ASSUME NEW c \in Conns, c # d PROVE Carried(c)
      BY <2>1, <2>4, CarriedElsewhere DEF StreamTypes
    <2>5. ASSUME NEW id \in Nat, OnlyAbout(d, id) PROVE OnlyAbout(d, id)'
      BY <2>1, <2>5, OneFrame DEF StreamTypes, Quiet, OnlyAbout
    <2>6. Carried(d)
      BY <2>1, <2>5 DEF StreamTypes, Carried, Quiet
    <2> QED BY <2>1, <2>3, <2>4, <2>6 DEF Goal
  <1>10. ASSUME NEW d \in Conns, WriteFails(d) PROVE Goal
    <2>1. /\ ~clientOpen[d]
          /\ current' = [current EXCEPT ![d] = 0]
          /\ serverOpen' = [serverOpen EXCEPT ![d] = FALSE]
          /\ stage' = [stage EXCEPT ![d] = "closed"]
          /\ toServer' = [toServer EXCEPT ![d] = <<>>]
          /\ toClient' = toClient /\ clientOpen' = clientOpen
      BY <1>10 DEF WriteFails, ServerCloses, Stage
    <2>2. StreamTypes'
      BY <2>1 DEF StreamTypes, Stages
    <2>3. ASSUME NEW c \in Conns, c # d PROVE Carried(c)
      BY <2>1, <2>3, CarriedElsewhere DEF StreamTypes
    <2>4. Carried(d)
      BY <2>1 DEF StreamTypes, Carried
    <2> QED BY <2>1, <2>2, <2>3, <2>4 DEF Goal
  <1> QED
    BY <1>2, <1>4, <1>5, <1>6, <1>7, <1>8, <1>9, <1>10
    DEF ServerStep, AcceptLoop, Shutdown, handleConn

(* A server step leaves the streams as they should be.                     *)
LEMMA ServerStreams ==
    ASSUME CountInv, StreamInv, ServerStep, UNCHANGED clientVars
    PROVE  StreamInv'
  <1> USE DEF clientVars, fetchVars
  <1>1. StreamTypes' /\ clientOpen' = clientOpen /\ \A c \in Conns : Carried(c)
    BY ServerCarries DEF StreamInv
  <1>2. ClientTypes' /\ LockInv'
    BY DEF StreamInv, ClientTypes, LockInv
  <1>3. OtherStreams'
    <2>1. ASSUME NEW c \in Conns, stage'[c] = "unused"
          PROVE  ~clientOpen'[c] /\ toServer'[c] = <<>> /\ c # conn'
      BY <1>1, <2>1 DEF StreamInv, OtherStreams, Carried
    <2>2. ASSUME NEW c \in Conns, ~clientOpen'[c] PROVE toClient'[c] = <<>>
      BY <1>1, <2>2 DEF StreamInv, OtherStreams, Carried
    <2>3. ASSUME NEW c \in Conns, clientOpen'[c], c # conn' PROVE Quiet(c)'
      BY <1>1, <2>3 DEF StreamInv, OtherStreams, Carried
    <2> QED BY <2>1, <2>2, <2>3 DEF OtherStreams
  <1>4. OwnStream'
    <2>1. ASSUME conn' # 0, clientOpen'[conn'], \A f \in Callers : ~Waiting(f)'
          PROVE  Quiet(conn)'
      <3>1. conn \in Conns /\ conn' = conn
        BY <2>1 DEF StreamInv, ClientTypes
      <3>2. Quiet(conn)
        BY <1>1, <2>1, <3>1 DEF StreamInv, OwnStream, Waiting
      <3>3. Carried(conn)
        BY <1>1, <3>1, Zenon
      <3> QED BY <1>1, <2>1, <3>1, <3>2, <3>3 DEF Carried, Quiet
    <2>2. ASSUME NEW f \in Callers, Waiting(f)', conn' # 0, clientOpen'[conn']
          PROVE  OnlyAbout(conn, corrID[f])'
      <3>1. conn \in Conns /\ conn' = conn /\ corrID' = corrID /\ corrID[f] \in Nat
        BY <2>2, Zenon DEF StreamInv, ClientTypes
      <3>2. OnlyAbout(conn, corrID[f])
        BY <1>1, <2>2, <3>1 DEF StreamInv, OwnStream, Waiting
      <3>3. Carried(conn)
        BY <1>1, <3>1
      <3> QED BY <1>1, <2>2, <3>1, <3>2, <3>3 DEF Carried, OnlyAbout, Quiet
    <2>3. ASSUME NEW f \in Callers, pc'[f] = "read"
          PROVE  /\ reading'[f] \in Conns /\ stage'[reading'[f]] # "unused"
                 /\ reading'[f] = conn' \/ ~clientOpen'[reading'[f]]
      BY <1>1, <2>3 DEF StreamInv, OwnStream, Carried
    <2> QED BY <2>1, <2>2, <2>3 DEF OwnStream
  <1> QED BY <1>1, <1>2, <1>3, <1>4 DEF StreamInv

(* A step that moves one Fetch keeps reqMu with the Fetch in its round     *)
(* trip, and numbers what they are.                                        *)
LEMMA CallerMoves ==
    ASSUME StreamInv, NEW f \in Callers, Fetch(f) \/ FetchStep(f)
    PROVE  ClientTypes' /\ LockInv'
  <1> USE DEF StreamInv, ClientTypes, LockInv
  <1>1. CASE Fetch(f)
    <2>1. nextID' \in Nat /\ corrID' \in [Callers -> Nat]
      BY <1>1 DEF Fetch
    <2> QED BY <1>1, <2>1 DEF Fetch, At
  <1>2. CASE Lock(f)
    BY <1>2, ClientAssumption DEF Lock, At
  <1>3. ASSUME NEW s \in {"idle", "panicked"}, Leave(f, s), conn' \in Conns \cup {0},
               pc[f] \in {"conn", "write", "br", "read"}
        PROVE  ClientTypes' /\ LockInv'
    <2>1. ClientTypes'
      BY <1>3 DEF Leave, At
    <2>2. \A g \in Callers \ {f} : pc[g] \notin {"conn", "write", "br", "read"}
      BY <1>3
    <2> QED BY <1>3, <2>1, <2>2 DEF Leave, At
  <1>4. closeConn => conn' \in Conns \cup {0}
    BY DEF closeConn
  <1>5. CASE getConn(f)
    <2>1. conn' \in Conns \cup {0}
      BY <1>5 DEF getConn
    <2> QED BY <1>5, <2>1 DEF getConn, At
  <1>6. CASE getConnFails(f) \/ Panic(f)
    BY <1>3, <1>6, Zenon DEF getConnFails, Panic
  <1>7. CASE ClientWriteFails(f) \/ ClientReadFails(f)
    BY <1>3, <1>4, <1>7 DEF ClientWriteFails, ClientReadFails
  <1>8. CASE ReadResponseFrame(f)
    BY <1>3, <1>4, <1>8 DEF ReadResponseFrame
  <1>9. CASE Write(f) \/ LoadReader(f)
    BY <1>9 DEF Write, LoadReader, At
  <1> QED
    BY <1>1, <1>2, <1>5, <1>6, <1>7, <1>8, <1>9 DEF FetchStep

(* A connection that is made carries nothing, and no Fetch reads from it   *)
(* yet.                                                                    *)
LEMMA DialedStreams ==
    ASSUME StreamInv, NEW c \in Conns, Dialed(c), conn' = conn \/ (conn = 0 /\ conn' = c)
    PROVE  /\ StreamTypes' /\ OtherStreams' /\ c # conn /\ Quiet(c)' /\ stage[c] = "unused"
           /\ \A d \in Conns \ {c} :
                 /\ stage'[d] = stage[d] /\ clientOpen'[d] = clientOpen[d]
                 /\ Quiet(d)' = Quiet(d)
                 /\ \A id \in Nat : OnlyAbout(d, id)' = OnlyAbout(d, id)
  <1>1. /\ stage[c] = "unused" /\ c # conn /\ ~clientOpen[c]
        /\ toServer[c] = <<>> /\ toClient[c] = <<>>
    BY DEF Dialed, Unused, StreamInv, OtherStreams
  <1>2. /\ stage' = [stage EXCEPT ![c] = "backlog"]
        /\ clientOpen' = [clientOpen EXCEPT ![c] = TRUE]
        /\ serverOpen' = [serverOpen EXCEPT ![c] = TRUE]
        /\ current' = current /\ toServer' = toServer /\ toClient' = toClient
    BY DEF Dialed, Stage
  <1>3. StreamTypes'
    BY <1>2 DEF StreamInv, StreamTypes, Stages
  <1>4. Quiet(c)'
    BY <1>1, <1>2 DEF StreamInv, StreamTypes, Quiet
  <1>5. \A d \in Conns \ {c} :
          /\ stage'[d] = stage[d] /\ clientOpen'[d] = clientOpen[d]
          /\ Quiet(d)' = Quiet(d)
          /\ \A id \in Nat : OnlyAbout(d, id)' = OnlyAbout(d, id)
    BY <1>2 DEF StreamInv, StreamTypes, Quiet, OnlyAbout
  <1>6. stage'[c] = "backlog" /\ clientOpen'[c] = TRUE
    BY <1>2 DEF StreamInv, StreamTypes
  <1>7. OtherStreams'
    <2>1. ASSUME NEW d \in Conns, stage'[d] = "unused"
          PROVE  ~clientOpen'[d] /\ toServer'[d] = <<>> /\ d # conn'
      BY <1>2, <1>5, <1>6, <2>1 DEF StreamInv, OtherStreams
    <2>2. ASSUME NEW d \in Conns, ~clientOpen'[d] PROVE toClient'[d] = <<>>
      BY <1>2, <1>5, <1>6, <2>2 DEF StreamInv, OtherStreams
    <2>3. ASSUME NEW d \in Conns, clientOpen'[d], d # conn' PROVE Quiet(d)'
      <3>1. CASE d = c
        BY <1>4, <3>1, Zenon
      <3>2. CASE d # c
        <4>1. d # conn
          BY <2>3, <3>2, ZeroIsNone
        <4> QED BY <1>5, <2>3, <3>2, <4>1 DEF StreamInv, OtherStreams
      <3> QED BY <3>1, <3>2
    <2> QED BY <2>1, <2>2, <2>3 DEF OtherStreams
  <1> QED BY <1>1, <1>3, <1>4, <1>5, <1>7

(* closeConn leaves the consumer without a connection, and nothing to read *)
(* on the one it had.                                                      *)
LEMMA ClosedStreams ==
    ASSUME StreamInv, closeConn, UNCHANGED <<stage, current, toServer, serverOpen>>,
           \A g \in Callers : pc'[g] = "read" => pc[g] = "read" /\ reading'[g] = reading[g]
    PROVE  StreamTypes' /\ OtherStreams' /\ OwnStream'
  <1>1. conn' = 0
    BY DEF closeConn
  <1>2. CASE conn = 0
    <2>1. clientOpen' = clientOpen /\ toClient' = toClient
      BY <1>2 DEF closeConn
    <2>2. StreamTypes' /\ OtherStreams'
      BY <1>1, <1>2, <2>1 DEF StreamInv, StreamTypes, OtherStreams, Quiet
    <2>3. OwnStream'
      BY <1>1, <1>2, <2>1, ZeroIsNone DEF StreamInv, OwnStream, Waiting
    <2> QED BY <2>2, <2>3
  <1>3. CASE conn # 0
    <2>1. /\ conn \in Conns
          /\ clientOpen' = [clientOpen EXCEPT ![conn] = FALSE]
          /\ toClient' = [toClient EXCEPT ![conn] = <<>>]
      BY <1>3 DEF closeConn, ClientCloses, StreamInv, ClientTypes
    <2>2. /\ ~clientOpen'[conn] /\ toClient'[conn] = <<>>
          /\ \A c \in Conns \ {conn} :
                clientOpen'[c] = clientOpen[c] /\ toClient'[c] = toClient[c]
      BY <2>1 DEF StreamInv, StreamTypes
    <2>3. StreamTypes'
      <3>1. <<>> \in Seq(Nat)
        OBVIOUS
      <3>2. toClient' \in [Conns -> Seq(Nat)]
        BY <2>1, <3>1, Zenon DEF StreamInv, StreamTypes
      <3>3. clientOpen' \in [Conns -> BOOLEAN]
        BY <2>1, Zenon DEF StreamInv, StreamTypes
      <3> QED BY <3>2, <3>3 DEF StreamInv, StreamTypes
    <2>4. OtherStreams'
      <3>1. ASSUME NEW c \in Conns, stage'[c] = "unused"
            PROVE  ~clientOpen'[c] /\ toServer'[c] = <<>> /\ c # conn'
        BY <1>1, <2>2, <3>1, ZeroIsNone DEF StreamInv, OtherStreams
      <3>2. ASSUME NEW c \in Conns, ~clientOpen'[c] PROVE toClient'[c] = <<>>
        BY <2>2, <3>2 DEF StreamInv, OtherStreams
      <3>3. ASSUME NEW c \in Conns, clientOpen'[c] PROVE Quiet(c)'
        BY <2>2, <3>3, Zenon DEF StreamInv, OtherStreams, Quiet
      <3> QED BY <3>1, <3>2, <3>3, Zenon DEF OtherStreams
    <2>5. OwnStream'
      BY <1>1, <2>2 DEF StreamInv, OwnStream
    <2> QED BY <2>3, <2>4, <2>5
  <1> QED BY <1>2, <1>3

(* Steps of Fetch that touch neither the streams nor conn.                 *)
LEMMA LocalStreams ==
    ASSUME StreamInv, NEW f \in Callers, UNCHANGED <<stage, current, wireVars, conn>>,
           \/ Fetch(f) \/ Lock(f) \/ getConn(f) \/ getConnFails(f) \/ Panic(f) \/ LoadReader(f)
    PROVE  StreamTypes' /\ OtherStreams' /\ OwnStream'
  <1>1. StreamTypes' /\ OtherStreams'
    BY Zenon DEF wireVars, StreamInv, StreamTypes, OtherStreams, Quiet
  <1>2. \A c, id : Quiet(c)' = Quiet(c) /\ (OnlyAbout(c, id)' = OnlyAbout(c, id))
    BY DEF wireVars, Quiet, OnlyAbout
  <1>3. CASE LoadReader(f)
    <2>1. /\ pc[f] = "br" /\ conn \in Conns
          /\ reading' = [reading EXCEPT ![f] = conn] /\ pc' = [pc EXCEPT ![f] = "read"]
          /\ corrID' = corrID
      BY <1>3 DEF LoadReader, At, StreamInv, ClientTypes
    <2>2. \A g \in Callers : Waiting(g)' = Waiting(g)
      BY <2>1 DEF StreamInv, ClientTypes, Waiting
    <2>3. stage[conn] # "unused"
      BY <2>1 DEF StreamInv, OtherStreams
    <2>4. \A g \in Callers : pc'[g] = "read" =>
            /\ reading'[g] \in Conns /\ stage'[reading'[g]] # "unused"
            /\ reading'[g] = conn' \/ ~clientOpen'[reading'[g]]
      BY <2>1, <2>3, Zenon DEF StreamInv, ClientTypes, OwnStream, wireVars
    <2>5. conn' # 0 /\ clientOpen'[conn'] /\ (\A g \in Callers : ~Waiting(g)') => Quiet(conn)'
      BY <1>2, <2>2, Zenon DEF StreamInv, OwnStream, wireVars, Quiet
    <2>6. \A g \in Callers :
            Waiting(g)' /\ conn' # 0 /\ clientOpen'[conn'] => OnlyAbout(conn, corrID[g])'
      BY <2>1, <2>2, Zenon DEF StreamInv, OwnStream, wireVars, OnlyAbout, Quiet
    <2> QED BY <1>1, <2>4, <2>5, <2>6, Zenon DEF OwnStream
  <1>4. CASE Fetch(f) \/ Lock(f) \/ getConn(f) \/ getConnFails(f) \/ Panic(f)
    <2>1. /\ \A g \in Callers : Waiting(g)' => Waiting(g) /\ corrID'[g] = corrID[g]
          /\ \A g \in Callers :
                pc'[g] = "read" => pc[g] = "read" /\ reading'[g] = reading[g]
          /\ conn # 0 => \A g \in Callers : Waiting(g) => Waiting(g)'
      BY <1>4
      DEF Fetch, Lock, getConn, getConnFails, Panic, Leave, At, StreamInv, ClientTypes, Waiting
    <2>2. \A g \in Callers : pc'[g] = "read" =>
            /\ reading'[g] \in Conns /\ stage'[reading'[g]] # "unused"
            /\ reading'[g] = conn' \/ ~clientOpen'[reading'[g]]
      BY <2>1, Zenon DEF StreamInv, OwnStream, wireVars
    <2>3. conn' # 0 /\ clientOpen'[conn'] /\ (\A g \in Callers : ~Waiting(g)') => Quiet(conn)'
      BY <2>1, Zenon DEF StreamInv, OwnStream, wireVars, Quiet
    <2>4. \A g \in Callers :
            Waiting(g)' /\ conn' # 0 /\ clientOpen'[conn'] => OnlyAbout(conn, corrID[g])'
      BY <2>1, Zenon DEF StreamInv, OwnStream, wireVars, OnlyAbout, Quiet
    <2> QED BY <1>1, <2>2, <2>3, <2>4, Zenon DEF OwnStream
  <1> QED BY <1>3, <1>4

(* A request goes out on a stream that carries nothing.                    *)
LEMMA WriteStreams ==
    ASSUME StreamInv, NEW f \in Callers, Write(f)
    PROVE  StreamTypes' /\ OtherStreams' /\ OwnStream'
  <1>1. /\ pc[f] = "write" /\ conn \in Conns /\ conn' = conn /\ corrID[f] \in Nat
        /\ pc' = [pc EXCEPT ![f] = "br"] /\ corrID' = corrID /\ reading' = reading
        /\ stage' = stage /\ current' = current /\ toClient' = toClient
        /\ clientOpen' = clientOpen /\ serverOpen' = serverOpen
        /\ stage[conn] # "unused"
    BY DEF Write, At, StreamInv, ClientTypes, OtherStreams
  <1>2. \/ toServer' = toServer
        \/ toServer' = [toServer EXCEPT ![conn] = Append(toServer[conn], corrID[f])]
    BY DEF Write
  <1>3. \A g \in Callers : Waiting(g)' <=> g = f
    BY <1>1 DEF StreamInv, ClientTypes, LockInv, Waiting
  <1>4. clientOpen[conn] => Quiet(conn)
    BY <1>1, ZeroIsNone DEF StreamInv, ClientTypes, LockInv, OwnStream, Waiting
  <1>5. toServer'[conn] \in {toServer[conn], Append(toServer[conn], corrID[f])}
    BY <1>1, <1>2 DEF StreamInv, StreamTypes
  <1>6. \A c \in Conns \ {conn} : toServer'[c] = toServer[c]
    BY <1>1, <1>2 DEF StreamInv, StreamTypes
  <1>7. StreamTypes'
    <2>1. Append(toServer[conn], corrID[f]) \in Seq(Nat)
      BY <1>1 DEF StreamInv, StreamTypes
    <2>2. toServer' \in [Conns -> Seq(Nat)]
      BY <1>2, <2>1, Zenon DEF StreamInv, StreamTypes
    <2> QED BY <1>1, <2>2 DEF StreamInv, StreamTypes
  <1>8. OtherStreams'
    <2>1. ASSUME NEW c \in Conns, stage'[c] = "unused"
          PROVE  ~clientOpen'[c] /\ toServer'[c] = <<>> /\ c # conn'
      BY <1>1, <1>6, <2>1, Zenon DEF StreamInv, OtherStreams
    <2>2. ASSUME NEW c \in Conns, clientOpen'[c], c # conn' PROVE Quiet(c)'
      BY <1>1, <1>6, <2>2 DEF StreamInv, OtherStreams, Quiet
    <2> QED BY <1>1, <2>1, <2>2, Zenon DEF StreamInv, OtherStreams
  <1>9. clientOpen[conn] => OnlyAbout(conn, corrID[f])'
    <2>1. Append(<<>>, corrID[f]) = <<corrID[f]>>
      BY <1>1, OneFrame
    <2> QED BY <1>1, <1>4, <1>5, <2>1 DEF OnlyAbout, Quiet
  <1>10. OwnStream'
    BY <1>1, <1>3, <1>9 DEF StreamInv, ClientTypes, OwnStream
  <1> QED BY <1>7, <1>8, <1>10, Zenon

(* The answer that a Fetch takes was all there was on the stream.          *)
LEMMA ReadStreams ==
    ASSUME StreamInv, NEW f \in Callers, ReadResponseFrame(f)
    PROVE  StreamTypes' /\ OtherStreams' /\ OwnStream'
  <1>1. /\ pc[f] = "read" /\ toClient[reading[f]] # <<>> /\ corrID[f] \in Nat
        /\ pc' = [pc EXCEPT ![f] = "idle"]
        /\ corrID' = [corrID EXCEPT ![f] = 0] /\ reading' = [reading EXCEPT ![f] = 0]
        /\ stage' = stage /\ current' = current /\ toServer' = toServer
        /\ serverOpen' = serverOpen
    BY DEF ReadResponseFrame, Leave, At, StreamInv, ClientTypes
  <1>2. /\ reading[f] \in Conns /\ clientOpen[reading[f]] /\ reading[f] = conn
        /\ toServer[conn] = <<>> /\ toClient[conn] = <<corrID[f]>> /\ stage[conn] # "serve"
    <2>1. reading[f] \in Conns /\ clientOpen[reading[f]] /\ reading[f] = conn
      BY <1>1, Zenon DEF StreamInv, StreamTypes, OtherStreams, OwnStream
    <2>2. OnlyAbout(conn, corrID[f])
      BY <1>1, <2>1, ZeroIsNone DEF StreamInv, OwnStream, Waiting
    <2> QED BY <1>1, <2>1, <2>2 DEF OnlyAbout, Quiet
  <1>3. \A g \in Callers : ~Waiting(g)'
    BY <1>1 DEF StreamInv, ClientTypes, LockInv, Waiting
  <1>4. /\ toClient' = [toClient EXCEPT ![conn] = <<>>]
        /\ conn' = conn /\ clientOpen' = clientOpen
    BY <1>1, <1>2, OneFrame DEF ReadResponseFrame, StreamInv, StreamTypes
  <1>5. StreamTypes'
    <2>1. <<>> \in Seq(Nat)
      OBVIOUS
    <2>2. toClient' \in [Conns -> Seq(Nat)]
      BY <1>4, <2>1, Zenon DEF StreamInv, StreamTypes
    <2> QED BY <1>1, <1>4, <2>2 DEF StreamInv, StreamTypes
  <1>6. /\ toClient'[conn] = <<>>
        /\ \A c \in Conns \ {conn} : toClient'[c] = toClient[c]
    BY <1>2, <1>4 DEF StreamInv, StreamTypes
  <1>7. OtherStreams'
    <2>1. ASSUME NEW c \in Conns, ~clientOpen'[c] PROVE toClient'[c] = <<>>
      BY <1>4, <1>6, <2>1, Zenon DEF StreamInv, OtherStreams
    <2>2. ASSUME NEW c \in Conns, clientOpen'[c], c # conn' PROVE Quiet(c)'
      BY <1>1, <1>4, <1>6, <2>2, Zenon DEF StreamInv, OtherStreams, Quiet
    <2> QED BY <1>1, <1>4, <2>1, <2>2, Zenon DEF StreamInv, OtherStreams
  <1>8. OwnStream'
    <2>1. Quiet(conn)'
      BY <1>1, <1>2, <1>4, <1>6 DEF Quiet
    <2>2. \A g \in Callers : pc'[g] # "read"
      BY <1>3 DEF Waiting
    <2> QED BY <1>3, <2>1, <2>2 DEF OwnStream
  <1> QED BY <1>5, <1>7, <1>8

(* A reset leaves nothing on the connection.                               *)
LEMMA ResetStreams ==
    ASSUME StreamInv, NEW d \in Conns, Reset(d)
    PROVE  StreamInv'
  <1>1. /\ serverOpen' = [serverOpen EXCEPT ![d] = FALSE]
        /\ toServer' = [toServer EXCEPT ![d] = <<>>]
        /\ clientOpen' = [clientOpen EXCEPT ![d] = FALSE]
        /\ toClient' = [toClient EXCEPT ![d] = <<>>]
        /\ stage' = stage /\ current' = current /\ conn' = conn /\ nextID' = nextID
        /\ reqMu' = reqMu /\ pc' = pc /\ corrID' = corrID /\ reading' = reading
        /\ stage[d] # "unused"
    BY DEF Reset, ServerCloses, ClientCloses, fetchVars
  <1>2. ClientTypes' /\ LockInv'
    BY <1>1 DEF StreamInv, ClientTypes, LockInv
  <1>3. /\ ~clientOpen'[d] /\ toClient'[d] = <<>>
        /\ \A c \in Conns \ {d} :
              /\ clientOpen'[c] = clientOpen[c]
              /\ toServer'[c] = toServer[c] /\ toClient'[c] = toClient[c]
    BY <1>1 DEF StreamInv, StreamTypes
  <1>4. StreamTypes'
    <2>1. <<>> \in Seq(Nat)
      OBVIOUS
    <2>2. toServer' \in [Conns -> Seq(Nat)] /\ toClient' \in [Conns -> Seq(Nat)]
      BY <1>1, <2>1, Zenon DEF StreamInv, StreamTypes
    <2>3. serverOpen' \in [Conns -> BOOLEAN] /\ clientOpen' \in [Conns -> BOOLEAN]
      BY <1>1, Zenon DEF StreamInv, StreamTypes
    <2> QED BY <1>1, <2>2, <2>3 DEF StreamInv, StreamTypes
  <1>5. OtherStreams'
    <2>1. ASSUME NEW c \in Conns, stage'[c] = "unused"
          PROVE  ~clientOpen'[c] /\ toServer'[c] = <<>> /\ c # conn'
      BY <1>1, <1>3, <2>1, Zenon DEF StreamInv, OtherStreams
    <2>2. ASSUME NEW c \in Conns, ~clientOpen'[c] PROVE toClient'[c] = <<>>
      BY <1>3, <2>2 DEF StreamInv, OtherStreams
    <2>3. ASSUME NEW c \in Conns, clientOpen'[c], c # conn' PROVE Quiet(c)'
      BY <1>1, <1>3, <2>3 DEF StreamInv, OtherStreams, Quiet
    <2> QED BY <2>1, <2>2, <2>3 DEF OtherStreams
  <1>6. OwnStream'
    <2>1. ASSUME conn' # 0, clientOpen'[conn']
          PROVE  /\ clientOpen[conn] /\ conn # 0 /\ Quiet(conn)' = Quiet(conn)
                 /\ \A id : OnlyAbout(conn, id)' = OnlyAbout(conn, id)
      <3>1. conn \in Conns \ {d}
        BY <1>1, <1>3, <2>1 DEF StreamInv, ClientTypes
      <3> QED BY <1>1, <1>3, <2>1, <3>1 DEF Quiet, OnlyAbout
    <2>2. \A f \in Callers : Waiting(f)' = Waiting(f)
      BY <1>1, Zenon DEF Waiting
    <2>3. conn' # 0 /\ clientOpen'[conn'] /\ (\A f \in Callers : ~Waiting(f)') => Quiet(conn)'
      BY <2>1, <2>2 DEF StreamInv, OwnStream
    <2>4. \A f \in Callers :
            Waiting(f)' /\ conn' # 0 /\ clientOpen'[conn'] => OnlyAbout(conn, corrID[f])'
      BY <1>1, <2>1, <2>2, Zenon DEF StreamInv, OwnStream, OnlyAbout, Quiet
    <2>5. \A f \in Callers : pc'[f] = "read" =>
            /\ reading'[f] \in Conns /\ stage'[reading'[f]] # "unused"
            /\ reading'[f] = conn' \/ ~clientOpen'[reading'[f]]
      BY <1>1, <1>3, Zenon DEF StreamInv, OwnStream
    <2> QED BY <2>3, <2>4, <2>5, Zenon DEF OwnStream
  <1> QED BY <1>2, <1>4, <1>5, <1>6 DEF StreamInv

(* A connection is made, for the consumer or for another client.           *)
LEMMA DialStreams ==
    ASSUME StreamInv, NEW c \in Conns, Dialed(c),
           corrID' = corrID, reading' = reading,
           \/ conn' = conn /\ pc' = pc
           \/ conn = 0 /\ conn' = c /\ \E f \in Callers : pc' = [pc EXCEPT ![f] = "write"]
    PROVE  StreamTypes' /\ OtherStreams' /\ OwnStream'
  <1>1. conn' = conn \/ (conn = 0 /\ conn' = c)
    OBVIOUS
  <1>2. /\ StreamTypes' /\ OtherStreams' /\ c # conn /\ Quiet(c)' /\ stage[c] = "unused"
        /\ \A d \in Conns \ {c} :
              /\ stage'[d] = stage[d] /\ clientOpen'[d] = clientOpen[d]
              /\ Quiet(d)' = Quiet(d)
              /\ \A id \in Nat : OnlyAbout(d, id)' = OnlyAbout(d, id)
    BY <1>1, DialedStreams
  <1>3. \A f \in Callers : pc'[f] = "read" => pc[f] = "read"
    BY DEF StreamInv, ClientTypes
  <1>4. ASSUME NEW f \in Callers, pc'[f] = "read"
        PROVE  /\ reading'[f] \in Conns /\ stage'[reading'[f]] # "unused"
               /\ reading'[f] = conn' \/ ~clientOpen'[reading'[f]]
    <2>1. /\ reading[f] \in Conns /\ stage[reading[f]] # "unused"
          /\ reading[f] = conn \/ ~clientOpen[reading[f]]
      BY <1>3, <1>4 DEF StreamInv, OwnStream
    <2>2. /\ reading[f] # 0 /\ stage'[reading[f]] = stage[reading[f]]
          /\ clientOpen'[reading[f]] = clientOpen[reading[f]]
      BY <1>2, <2>1, ZeroIsNone, Zenon
    <2> QED BY <1>1, <2>1, <2>2, Zenon
  <1>5. CASE conn' = conn /\ pc' = pc
    <2>1. ASSUME conn' # 0, clientOpen'[conn']
          PROVE  /\ conn # 0 /\ clientOpen[conn] /\ (Quiet(conn) => Quiet(conn)')
                 /\ \A id \in Nat : OnlyAbout(conn, id) => OnlyAbout(conn, id)'
      <3>1. conn \in Conns \ {c}
        BY <1>2, <1>5, <2>1, Zenon DEF StreamInv, ClientTypes
      <3> QED BY <1>2, <1>5, <2>1, <3>1, Zenon DEF Quiet, OnlyAbout
    <2>2. conn' # 0 /\ clientOpen'[conn'] /\ (\A f \in Callers : ~Waiting(f)') => Quiet(conn)'
      BY <1>5, <2>1, Zenon DEF StreamInv, OwnStream, Waiting
    <2>3. ASSUME NEW f \in Callers, Waiting(f)', conn' # 0, clientOpen'[conn']
          PROVE  OnlyAbout(conn, corrID[f])'
      <3>1. corrID[f] \in Nat /\ Waiting(f)
        BY <1>5, <2>3, Zenon DEF StreamInv, ClientTypes, Waiting
      <3>2. OnlyAbout(conn, corrID[f])
        BY <2>1, <2>3, <3>1, Zenon DEF StreamInv, OwnStream
      <3> QED BY <2>1, <2>3, <3>1, <3>2, Zenon DEF OnlyAbout, Quiet
    <2> QED BY <1>2, <1>4, <2>2, <2>3, Zenon DEF OwnStream
  <1>6. CASE conn' = c
    <2>1. Quiet(conn)' /\ \A id : Quiet(conn)' => OnlyAbout(conn, id)'
      BY <1>2, <1>6 DEF Quiet, OnlyAbout
    <2>2. \A f \in Callers : OnlyAbout(conn, corrID[f])'
      BY <2>1, Zenon DEF OnlyAbout
    <2> QED BY <1>2, <1>4, <2>1, <2>2, Zenon DEF OwnStream
  <1> QED BY <1>5, <1>6

(* Every step keeps the streams as they should be.                         *)
LEMMA StreamStep ==
    ASSUME CountInv, StreamInv, [Next]_vars
    PROVE  StreamInv'
  <1>1. CASE UNCHANGED vars
    <2> USE <1>1 DEF vars, serverVars, acceptVars, wireVars, clientVars, fetchVars
    <2>1. StreamTypes' /\ ClientTypes' /\ LockInv'
      BY DEF StreamInv, StreamTypes, ClientTypes, LockInv
    <2>2. OtherStreams'
      BY Zenon DEF StreamInv, OtherStreams, Quiet
    <2>3. OwnStream'
      BY DEF StreamInv, OwnStream, Waiting, OnlyAbout, Quiet
    <2> QED BY <2>1, <2>2, <2>3, Zenon DEF StreamInv
  <1>2. CASE ServerStep /\ UNCHANGED clientVars
    BY <1>2, ServerStreams
  <1>3. ASSUME NEW f \in Callers, Fetch(f) \/ FetchStep(f) PROVE StreamInv'
    <2>1. ClientTypes' /\ LockInv'
      BY <1>3, CallerMoves
    <2>2. CASE Fetch(f) \/ Lock(f) \/ getConnFails(f) \/ Panic(f) \/ LoadReader(f)
      <3>1. UNCHANGED <<stage, current, wireVars, conn>>
        BY <2>2 DEF Fetch, Lock, getConnFails, Panic, LoadReader, serverVars
      <3> QED BY <2>1, <2>2, <3>1, LocalStreams, Zenon DEF StreamInv
    <2>3. CASE getConn(f)
      <3>1. CASE conn # 0
        <4>1. UNCHANGED <<stage, current, wireVars, conn>>
          BY <2>3, <3>1 DEF getConn, serverVars
        <4> QED BY <2>1, <2>3, <4>1, LocalStreams DEF StreamInv
      <3>2. CASE conn = 0
        <4>1. PICK c \in Conns : Dialed(c) /\ conn' = c
          BY <2>3, <3>2 DEF getConn
        <4>2. corrID' = corrID /\ reading' = reading /\ pc' = [pc EXCEPT ![f] = "write"]
          BY <2>3 DEF getConn, At
        <4> QED BY <2>1, <3>2, <4>1, <4>2, DialStreams, Zenon DEF StreamInv
      <3> QED BY <3>1, <3>2
    <2>4. CASE ClientWriteFails(f) \/ ClientReadFails(f)
      <3>1. /\ closeConn /\ UNCHANGED <<stage, current, toServer, serverOpen>>
            /\ Leave(f, "idle")
        BY <2>4 DEF ClientWriteFails, ClientReadFails
      <3>2. \A g \in Callers : pc'[g] = "read" => pc[g] = "read" /\ reading'[g] = reading[g]
        BY <3>1 DEF Leave, At, StreamInv, ClientTypes
      <3> QED BY <2>1, <3>1, <3>2, ClosedStreams, Zenon DEF StreamInv
    <2>5. CASE Write(f)
      BY <2>1, <2>5, WriteStreams DEF StreamInv
    <2>6. CASE ReadResponseFrame(f)
      BY <2>1, <2>6, ReadStreams DEF StreamInv
    <2> QED BY <1>3, <2>2, <2>3, <2>4, <2>5, <2>6 DEF FetchStep
  <1>4. CASE Close
    <2>1. /\ closeConn /\ UNCHANGED <<stage, current, toServer, serverOpen>>
          /\ UNCHANGED <<nextID, reqMu, pc, corrID, reading>>
      BY <1>4 DEF Close, fetchVars
    <2>2. ClientTypes' /\ LockInv'
      BY <2>1 DEF closeConn, StreamInv, ClientTypes, LockInv
    <2> QED BY <2>1, <2>2, ClosedStreams DEF StreamInv
  <1>5. CASE OtherDials
    <2>1. PICK c \in Conns : Dialed(c)
      BY <1>5 DEF OtherDials
    <2>2. UNCHANGED <<conn, nextID, reqMu, pc, corrID, reading>>
      BY <1>5 DEF OtherDials, fetchVars
    <2>3. ClientTypes' /\ LockInv'
      BY <2>2 DEF StreamInv, ClientTypes, LockInv
    <2> QED BY <2>1, <2>2, <2>3, DialStreams DEF StreamInv
  <1>6. ASSUME NEW c \in Conns, Reset(c) PROVE StreamInv'
    BY <1>6, ResetStreams
  <1> QED
    BY <1>1, <1>2, <1>3, <1>4, <1>5, <1>6 DEF Next, ServerStep

(* Answers stay in step with requests: whatever fails, is reset or is      *)
(* closed, the answer that Fetch finds is the one to its own request, so   *)
(* that a mismatch of correlation ids never costs the consumer its         *)
(* connection.                                                             *)
THEOREM AnswersAreMatched == Spec => []AnswersMatch
  <1>1. Init => CountInv /\ DrainInv /\ StreamInv
    BY CountInit, StreamInit
  <1>2. CountInv /\ DrainInv /\ StreamInv /\ [Next]_vars
            => CountInv' /\ DrainInv' /\ StreamInv'
    BY CountStep, StreamStep
  <1>3. StreamInv => AnswersMatch
    <2> SUFFICES ASSUME StreamInv, NEW f \in Callers,
                        pc[f] = "read", clientOpen[reading[f]], toClient[reading[f]] # <<>>
                 PROVE  Head(toClient[reading[f]]) = corrID[f]
      BY DEF AnswersMatch
    <2>1. reading[f] = conn /\ conn # 0 /\ corrID[f] \in Nat
      BY ZeroIsNone, Zenon DEF StreamInv, OwnStream, ClientTypes
    <2>2. OnlyAbout(conn, corrID[f])
      BY <2>1, Zenon DEF StreamInv, OwnStream, Waiting
    <2> QED BY <2>1, <2>2, OneFrame DEF OnlyAbout, Quiet
  <1> QED BY <1>1, <1>2, <1>3, PTL DEF Spec

-----------------------------------------------------------------------------
(* The buffers of the consumer.                                            *)

(* Between getConn and the load of the reader, the connection is there     *)
(* unless Close took it.                                                   *)
BufferInv ==
    /\ \A f \in Callers : pc[f] \in {"write", "br"} /\ conn = 0 => closed
    /\ PanicOnlyAfterClose

(* A Fetch that gives up the connection holds reqMu, so that no other is   *)
(* between getConn and the load of the reader.                             *)
LEMMA BufferStep ==
    ASSUME StreamInv, BufferInv, [Next]_vars
    PROVE  BufferInv'
  <1> USE DEF BufferInv, PanicOnlyAfterClose
  <1>1. ASSUME UNCHANGED <<conn, closed, pc>> PROVE BufferInv'
    BY <1>1, Zenon
  <1>2. CASE UNCHANGED vars \/ UNCHANGED clientVars \/ OtherDials \/ \E c \in Conns : Reset(c)
    BY <1>1, <1>2, Zenon DEF vars, clientVars, fetchVars, OtherDials, Reset
  <1>3. CASE Close
    BY <1>3 DEF Close
  <1>4. ASSUME NEW f \in Callers, Fetch(f) \/ FetchStep(f) PROVE BufferInv'
    <2> USE DEF StreamInv, ClientTypes, At
    <2>1. CASE Fetch(f) \/ Lock(f) \/ Write(f) \/ LoadReader(f)
      BY <2>1 DEF Fetch, Lock, Write, LoadReader
    <2>2. CASE getConn(f)
      BY <2>2, ZeroIsNone DEF getConn
    <2>3. CASE getConnFails(f) \/ Panic(f)
      BY <2>3 DEF getConnFails, Panic, Leave
    <2>4. ASSUME Leave(f, "idle"), closed' = closed,
                 pc[f] \in {"conn", "write", "br", "read"}
          PROVE  BufferInv'
      <3>1. \A g \in Callers : pc'[g] \notin {"write", "br"}
        BY <2>4 DEF Leave, LockInv
      <3>2. \A g \in Callers : pc'[g] = "panicked" => pc[g] = "panicked"
        BY <2>4, Zenon DEF Leave
      <3> QED BY <2>4, <3>1, <3>2
    <2>5. CASE ClientWriteFails(f) \/ ReadResponseFrame(f) \/ ClientReadFails(f)
      BY <2>4, <2>5 DEF ClientWriteFails, ReadResponseFrame, ClientReadFails
    <2> QED BY <1>4, <2>1, <2>2, <2>3, <2>5, Zenon DEF FetchStep
  <1> QED
    BY <1>2, <1>3, <1>4 DEF Next

(* A Fetch meets a nil reader or writer only when the consumer has been    *)
(* closed: what one Fetch does to the connection never makes another panic.*)
THEOREM OnlyCloseMakesFetchPanic == Spec => []PanicOnlyAfterClose
  <1>1. Init => CountInv /\ DrainInv /\ StreamInv /\ BufferInv
    BY CountInit, StreamInit DEF Init, BufferInv, PanicOnlyAfterClose
  <1>2. CountInv /\ DrainInv /\ StreamInv /\ BufferInv /\ [Next]_vars
            => CountInv' /\ DrainInv' /\ StreamInv' /\ BufferInv'
    BY CountStep, StreamStep, BufferStep
  <1>3. BufferInv => PanicOnlyAfterClose
    BY DEF BufferInv
  <1> QED BY <1>1, <1>2, <1>3, PTL DEF Spec

-----------------------------------------------------------------------------
(* The end of Start.                                                       *)

(* The listener is closed by Shutdown alone, which has closed done before. *)
EndInv ==
    /\ StartEndsCleanly
    /\ shutPC # "off" => done
    /\ listener = "closed" => shutPC # "off"

(* CloseDone and CloseListener come in this order, and nothing opens or    *)
(* closes the listener behind the back of both.                            *)
LEMMA EndStep ==
    ASSUME EndInv, [Next]_vars
    PROVE  EndInv'
  <1> USE DEF EndInv, StartEndsCleanly
  <1>1. ASSUME UNCHANGED <<acceptVars, shutVars>> PROVE EndInv'
    BY <1>1 DEF acceptVars, shutVars
  <1>2. CASE UNCHANGED vars
    BY <1>1, <1>2, Zenon DEF vars, serverVars
  <1>3. CASE AcceptLoop
    BY <1>3 DEF AcceptLoop, Listen, Publish, StartReturns, Reject, Spawn, Accept, shutVars
  <1>4. CASE CloseDone \/ Shutdown
    BY <1>4 DEF CloseDone, Shutdown, CloseListener, Wait, ShutdownReturns, ContextExpires,
                acceptVars
  <1>5. CASE \E c \in Conns : handleConn(c)
    BY <1>1, <1>5, Zenon DEF handleConn, ReadRequestFrame, ReadFails, WriteResponse,
                             WriteFails, HandlerReturns
  <1>6. CASE \E f \in Callers : Fetch(f) \/ FetchStep(f)
    BY <1>1, <1>6, Zenon DEF Fetch, FetchStep, Lock, getConn, getConnFails, Write,
                             ClientWriteFails, Panic, LoadReader, ReadResponseFrame,
                             ClientReadFails, Dialed, serverVars
  <1>7. CASE Close \/ OtherDials \/ \E c \in Conns : Reset(c)
    BY <1>1, <1>7, Zenon DEF Close, OtherDials, Dialed, Reset
  <1> QED
    BY <1>2, <1>3, <1>4, <1>5, <1>6, <1>7 DEF Next

(* Start never mistakes a shutdown for a failure of the listener.          *)
THEOREM StartAlwaysEndsCleanly == Spec => []StartEndsCleanly
  <1>1. Init => EndInv
    BY DEF Init, ServerInit, EndInv, StartEndsCleanly
  <1>2. EndInv /\ [Next]_vars => EndInv'
    BY EndStep
  <1>3. EndInv => StartEndsCleanly
    BY DEF EndInv
  <1> QED BY <1>1, <1>2, <1>3, PTL DEF Spec

=============================================================================
