--------------------------- MODULE ConsumerGroup ----------------------------
(***************************************************************************)
(* A consumer group: its coordinator and the group consumers that talk to  *)
(* it (pkg/client/group_consumer.go).                                      *)
(*                                                                         *)
(* A consumer joins once when it is created and then again, in a goroutine *)
(* of its own, for every heartbeat that is answered with an error; nothing *)
(* keeps two of these goroutines apart except reqMu, which a request holds *)
(* until it is answered.  Join and heartbeat requests are answered at      *)
(* once; a SyncGroup request may wait, and the consumer sends nothing else *)
(* meanwhile.  An answer may be lost with its connection after the         *)
(* coordinator has acted on the request.                                   *)
(***************************************************************************)
EXTENDS GroupCoordinator, Assignors

CONSTANTS
    Threads,        \* bound: concurrent joinAndSync goroutines of a consumer
    MaxGeneration,  \* bound: generations
    MaxExpiries,    \* bound: session timeouts
    MaxLosses       \* bound: lost answers

ASSUME GroupAssumption ==
    /\ MemberIDs \subseteq Nat
    /\ IsFiniteSet(Partitions)
    /\ Partitions = 0..(Cardinality(Partitions) - 1)

VARIABLES
    status,         \* life of each consumer
    pc,             \* where each joinAndSync goroutine is
    joinResp,       \* goroutine local: its join answer
    generation,     \* GroupConsumer.generationID
    assigned,       \* GroupConsumer.assignedPartitions
    assignedIn,     \* the generation in which that share was computed
    joinedIn,       \* the generation of each member's last JoinGroup
    expiries,
    losses

clientVars == <<status, pc, joinResp, generation, assigned, assignedIn,
                joinedIn, expiries, losses>>
vars == <<groupVars, clientVars>>

JoinResponses ==
    [generation : Nat, leader : MemberIDs \cup {NoLeader}, members : SUBSET MemberIDs]

NoJoinResp == [generation |-> 0, leader |-> NoLeader, members |-> {}]

ClientTypeOK ==
    /\ status \in [MemberIDs -> {"new", "starting", "running", "failed", "closed"}]
    /\ pc \in [MemberIDs \X Threads -> {"off", "join", "adopt", "sync", "wait"}]
    /\ joinResp \in [MemberIDs \X Threads -> JoinResponses]
    /\ generation \in [MemberIDs -> Nat]
    /\ assigned \in [MemberIDs -> SUBSET Partitions]
    /\ assignedIn \in [MemberIDs -> Nat]
    /\ joinedIn \in [MemberIDs -> Nat]
    /\ expiries \in Nat
    /\ losses \in Nat

TypeOK == GroupTypeOK /\ ClientTypeOK

Init ==
    /\ GroupInit
    /\ status = [c \in MemberIDs |-> "new"]
    /\ pc = [ct \in MemberIDs \X Threads |-> "off"]
    /\ joinResp = [ct \in MemberIDs \X Threads |-> NoJoinResp]
    /\ generation = [c \in MemberIDs |-> 0]
    /\ assigned = [c \in MemberIDs |-> {}]
    /\ assignedIn = [c \in MemberIDs |-> 0]
    /\ joinedIn = [c \in MemberIDs |-> 0]
    /\ expiries = 0
    /\ losses = 0

(* reqMu is free: no request of the consumer is waiting for its answer.    *)
CanSend(c) == \A t \in Threads : pc[<<c, t>>] # "wait"

Lost ==
    /\ losses < MaxLosses
    /\ losses' = losses + 1

-----------------------------------------------------------------------------
(* joinAndSync.                                                            *)

NewGroupConsumer(c) ==
    \E t \in Threads :
        /\ status[c] = "new"
        /\ status' = [status EXCEPT ![c] = "starting"]
        /\ pc' = [pc EXCEPT ![<<c, t>>] = "join"]
        /\ UNCHANGED <<groupVars, joinResp, generation, assigned, assignedIn,
                       joinedIn, expiries, losses>>

(* joinAndSync returns.  If it fails the first time, so does the           *)
(* constructor, and no heartbeat loop is started.                          *)
Return(c, t, ok) ==
    /\ pc' = [pc EXCEPT ![<<c, t>>] = "off"]
    /\ joinResp' = [joinResp EXCEPT ![<<c, t>>] = NoJoinResp]
    /\ status' = [status EXCEPT ![c] =
                    IF @ # "starting" THEN @ ELSE IF ok THEN "running" ELSE "failed"]

Join(c, t) ==
    /\ pc[<<c, t>>] = "join"
    /\ CanSend(c)
    /\ JoinGroup(c)
    /\ generationID' <= MaxGeneration
    /\ joinedIn' = [joinedIn EXCEPT ![c] = generationID']
    /\ \/ /\ pc' = [pc EXCEPT ![<<c, t>>] = "adopt"]
          /\ joinResp' = [joinResp EXCEPT ![<<c, t>>] = JoinResponse(c)]
          /\ UNCHANGED <<status, losses>>
       \/ Lost /\ Return(c, t, FALSE)
    /\ UNCHANGED <<generation, assigned, assignedIn, expiries>>

Adopt(c, t) ==
    /\ pc[<<c, t>>] = "adopt"
    /\ pc' = [pc EXCEPT ![<<c, t>>] = "sync"]
    /\ generation' = [generation EXCEPT ![c] = joinResp[<<c, t>>].generation]
    /\ UNCHANGED <<groupVars, status, joinResp, assigned, assignedIn, joinedIn,
                   expiries, losses>>

(* The leader runs the range assignor over the member list of its answer;  *)
(* the others send no shares.                                              *)
Shares(c, t) ==
    LET list == joinResp[<<c, t>>].members
        Index(m) == Cardinality({x \in list : x < m})
        ranges == RangeAssign(Cardinality(list), <<Cardinality(Partitions)>>)
    IN  [m \in list |-> {tp[2] : tp \in ranges[Index(m)]}]

SendSync(c, t) ==
    /\ pc[<<c, t>>] = "sync"
    /\ CanSend(c)
    /\ SyncError(c, joinResp[<<c, t>>].generation) = "None"
    /\ SyncGroup(c, Shares(c, t))
    /\ pc' = [pc EXCEPT ![<<c, t>>] = "wait"]
    /\ UNCHANGED <<status, joinResp, generation, assigned, assignedIn, joinedIn,
                   expiries, losses>>

(* The coordinator rejects the request, or the metadata request before it  *)
(* or the request itself fails.                                            *)
SyncFails(c, t) ==
    /\ pc[<<c, t>>] = "sync"
    /\ CanSend(c)
    /\ \/ SyncError(c, joinResp[<<c, t>>].generation) # "None" /\ UNCHANGED losses
       \/ Lost
    /\ Return(c, t, FALSE)
    /\ UNCHANGED <<groupVars, generation, assigned, assignedIn, joinedIn, expiries>>

Assigned(c, t) ==
    /\ pc[<<c, t>>] = "wait"
    /\ syncRespCh[c] # NoAnswer
    /\ syncRespCh' = [syncRespCh EXCEPT ![c] = NoAnswer]
    /\ \/ /\ assigned' = [assigned EXCEPT ![c] = syncRespCh[c].share]
          /\ assignedIn' = [assignedIn EXCEPT ![c] = syncRespCh[c].generation]
          /\ Return(c, t, TRUE)
          /\ UNCHANGED losses
       \/ /\ Lost
          /\ Return(c, t, FALSE)
          /\ UNCHANGED <<assigned, assignedIn>>
    /\ UNCHANGED <<state, generationID, leaderID, members, assignment,
                   generation, joinedIn, expiries>>

SyncTimesOut(c, t) ==
    /\ pc[<<c, t>>] = "wait"
    /\ Return(c, t, FALSE)
    /\ UNCHANGED <<groupVars, generation, assigned, assignedIn, joinedIn, expiries,
                   losses>>

-----------------------------------------------------------------------------
(* The heartbeat loop, Close, and the end of a session.                    *)

HeartbeatFails(c) ==
    \E t \in Threads :
        /\ status[c] = "running"
        /\ CanSend(c)
        /\ Heartbeat(c, generation[c]) # "None"
        /\ pc[<<c, t>>] = "off"
        /\ pc' = [pc EXCEPT ![<<c, t>>] = "join"]
        /\ UNCHANGED <<groupVars, status, joinResp, generation, assigned, assignedIn,
                       joinedIn, expiries, losses>>

(* Close does not wait for the joinAndSync goroutines.                     *)
Close(c) ==
    /\ status[c] = "running"
    /\ CanSend(c)
    /\ LeaveGroup(c)
    /\ generationID' <= MaxGeneration
    /\ status' = [status EXCEPT ![c] = "closed"]
    /\ UNCHANGED <<pc, joinResp, generation, assigned, assignedIn, joinedIn, expiries,
                   losses>>

Expire ==
    \E expired \in SUBSET members :
        /\ expiries < MaxExpiries
        /\ checkSessionTimeouts(expired)
        /\ generationID' <= MaxGeneration
        /\ expiries' = expiries + 1
        /\ UNCHANGED <<status, pc, joinResp, generation, assigned, assignedIn, joinedIn,
                       losses>>

joinAndSync(c, t) ==
    \/ Join(c, t) \/ Adopt(c, t) \/ SendSync(c, t) \/ SyncFails(c, t)
    \/ Assigned(c, t) \/ SyncTimesOut(c, t)

Next ==
    \/ \E c \in MemberIDs : NewGroupConsumer(c) \/ HeartbeatFails(c) \/ Close(c)
    \/ \E c \in MemberIDs, t \in Threads : joinAndSync(c, t)
    \/ Expire

Spec == Init /\ [][Next]_vars

-----------------------------------------------------------------------------
(* Properties.                                                             *)

(* Two consumers that took their shares from the same generation own no    *)
(* partition in common, through lost answers, expired sessions and late    *)
(* joiners.                                                                *)
SharesOfAGenerationDisjoint ==
    \A c, d \in MemberIDs :
        c # d /\ assignedIn[c] = assignedIn[d] => assigned[c] \cap assigned[d] = {}

(* internal/config/config.go, line 127: the coordinator "waits for all     *)
(* members to rejoin during a rebalance", so a stable group consists of    *)
(* members that joined its generation.                                     *)
AllRejoined ==
    state = "Stable" => \A m \in members : joinedIn[m] = generationID

(* internal/coordinator/group.go, line 144: a rebalance notifies the       *)
(* waiting handlers with an error, so none of them is handed a share of    *)
(* another generation than the one it asked for.                           *)
WaitersGetTheirGeneration ==
    \A c \in MemberIDs, t \in Threads :
        pc[<<c, t>>] = "wait" /\ syncRespCh[c] # NoAnswer
            => syncRespCh[c].generation = joinResp[<<c, t>>].generation

(* pkg/client/group_consumer.go, line 63: the consumer handles "partition  *)
(* assignment automatically": when its heartbeats succeed and it is not    *)
(* joining, it owns what the coordinator assigned to it.                   *)
OwnsItsShare ==
    \A c \in MemberIDs :
        LET settled == /\ status[c] = "running"
                       /\ \A t \in Threads : pc[<<c, t>>] = "off"
                       /\ Heartbeat(c, generation[c]) = "None"
        IN  settled => assigned[c] = assignment[c]

=============================================================================
