-------------------------- MODULE GroupCoordinator --------------------------
(***************************************************************************)
(* The coordinator of one consumer group (internal/coordinator/group.go).  *)
(* Every request handler works under the group's mutex, so a handler is an *)
(* action, except SyncGroup: it releases the mutex and then waits on the   *)
(* member's response channel, which has room for one answer.  Callers use  *)
(* the operators below; waiting is theirs.                                 *)
(*                                                                         *)
(* Heartbeat times are left out: checkSessionTimeouts may find any members *)
(* expired, as it does when they are slow, stopped or cut off.             *)
(*                                                                         *)
(* A definition whose name starts with Faulty is the one that follows it   *)
(* with a defect; no specification uses it.                                *)
(***************************************************************************)
EXTENDS Integers, FiniteSetsExt

CONSTANTS
    MemberIDs,   \* member identities
    Partitions,  \* partitions of the subscribed topics
    NoLeader,    \* Group.LeaderID = ""
    NoAnswer     \* an empty response channel

VARIABLES
    state,         \* Group.State
    generationID,  \* Group.GenerationID
    leaderID,      \* Group.LeaderID
    members,       \* keys of Group.Members
    assignment,    \* Member.Assignment
    syncRespCh     \* content of Member.syncRespCh

groupVars == <<state, generationID, leaderID, members, assignment, syncRespCh>>

(* An answer carries, besides the member's share, the generation in which  *)
(* the leader computed it; the code sends only the share.                  *)
SyncAnswers == [generation : Nat, share : SUBSET Partitions]

GroupTypeOK ==
    /\ state \in {"Empty", "PreparingRebalance", "Stable"}
    /\ generationID \in Nat
    /\ leaderID \in MemberIDs \cup {NoLeader}
    /\ members \subseteq MemberIDs
    /\ assignment \in [MemberIDs -> SUBSET Partitions]
    /\ syncRespCh \in [MemberIDs -> SyncAnswers \cup {NoAnswer}]

Unassigned == [m \in MemberIDs |-> {}]

GroupInit ==
    /\ state = "Empty"
    /\ generationID = 0
    /\ leaderID = NoLeader
    /\ members = {}
    /\ assignment = Unassigned
    /\ syncRespCh = [m \in MemberIDs |-> NoAnswer]

-----------------------------------------------------------------------------
FaultyKeepsAssignments(remaining) ==
    /\ state' = "PreparingRebalance"
    /\ generationID' = generationID + 1
    /\ leaderID' \in remaining
    /\ UNCHANGED assignment

FaultySameGeneration(remaining) ==
    /\ state' = "PreparingRebalance"
    /\ leaderID' \in remaining
    /\ assignment' = Unassigned
    /\ UNCHANGED generationID

(* The new leader is whichever member the map iteration yields first.      *)
(* Waiting SyncGroup handlers are not told.                                *)
transitionToRebalanceLocked(remaining) ==
    /\ state' = "PreparingRebalance"
    /\ generationID' = generationID + 1
    /\ leaderID' \in remaining
    /\ assignment' = Unassigned

JoinGroup(m) ==
    /\ members' = members \cup {m}
    /\ syncRespCh' = [syncRespCh EXCEPT ![m] = NoAnswer]
    /\ IF state \in {"Stable", "Empty"} THEN transitionToRebalanceLocked(members')
       ELSE UNCHANGED <<state, generationID, leaderID, assignment>>

(* What JoinGroup answers, in terms of the state it leaves.                *)
JoinResponse(m) ==
    [generation |-> generationID', leader |-> leaderID',
     members |-> IF m = leaderID' THEN members' ELSE {}]

(* SyncGroup up to the point where it waits.  The leader's request carries *)
(* shares for the members it knew of when it joined.                       *)
SyncError(m, gen) ==
    IF gen # generationID THEN "IllegalGeneration"
    ELSE IF m \notin members THEN "UnknownMemberID"
    ELSE "None"

SyncGroup(m, shares) ==
    LET assigned == [x \in MemberIDs |->
                        IF x \in DOMAIN shares \cap members THEN shares[x]
                        ELSE assignment[x]]
        notified == [x \in MemberIDs |->
                        IF x \in members /\ syncRespCh[x] = NoAnswer
                        THEN [generation |-> generationID, share |-> assigned[x]]
                        ELSE syncRespCh[x]]
    IN  /\ IF m = leaderID /\ DOMAIN shares # {}
           THEN /\ assignment' = assigned
                /\ state' = "Stable"
                /\ syncRespCh' = notified
           ELSE UNCHANGED <<assignment, state, syncRespCh>>
        /\ UNCHANGED <<generationID, leaderID, members>>

Heartbeat(m, gen) ==
    IF gen # generationID THEN "IllegalGeneration"
    ELSE IF m \notin members THEN "UnknownMemberID"
    ELSE IF state = "PreparingRebalance" THEN "RebalanceInProgress"
    ELSE "None"

FaultyNoRebalance(gone) ==
    /\ members' = members \ gone
    /\ UNCHANGED <<state, generationID, leaderID, assignment, syncRespCh>>

RemoveMembers(gone) ==
    /\ members' = members \ gone
    /\ IF members' = {}
       THEN /\ state' = "Empty"
            /\ leaderID' = NoLeader
            /\ assignment' = Unassigned
            /\ UNCHANGED generationID
       ELSE transitionToRebalanceLocked(members')
    /\ UNCHANGED syncRespCh

LeaveGroup(m) ==
    IF m \in members THEN RemoveMembers({m}) ELSE UNCHANGED groupVars

checkSessionTimeouts(expired) ==
    /\ expired # {}
    /\ expired \subseteq members
    /\ RemoveMembers(expired)

-----------------------------------------------------------------------------
(* Properties of the group's state.                                        *)

(* A group has a leader that is one of its members exactly while it has    *)
(* members, whichever of them join, leave or expire; otherwise no member   *)
(* would ever be sent the member list and the rebalance could not end.     *)
LeaderIsMember ==
    /\ state = "Empty" <=> members = {}
    /\ IF members = {} THEN leaderID = NoLeader ELSE leaderID \in members

(* No partition is assigned to two members, and nothing is assigned while  *)
(* a rebalance is being prepared: shares of different generations never    *)
(* mix in Group.Members.                                                   *)
SharesDisjoint ==
    /\ \A m, x \in MemberIDs : m # x => assignment[m] \cap assignment[x] = {}
    /\ state # "Stable" => assignment = Unassigned

=============================================================================
