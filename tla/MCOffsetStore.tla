--------------------------- MODULE MCOffsetStore ----------------------------
(***************************************************************************)
(* The offset store with handlers that commit small offsets.  Either each  *)
(* partition is committed by one connection only, as in a group whose      *)
(* members keep to their shares, or by all of them, as when a member that  *)
(* lost a partition commits it again.                                      *)
(***************************************************************************)
EXTENDS OffsetStore

CONSTANTS
    Shared,         \* whether all handlers commit every partition
    MaxOffset,      \* bound: largest offset
    MaxRequests,    \* bound: OffsetCommit requests
    MaxRestarts     \* bound: restarts

VARIABLES requests, restarts

vars == <<storeVars, requests, restarts>>

Mine(h) == IF Shared THEN Partitions ELSE Partitions \cap {h}

Init == StoreInit /\ requests = 0 /\ restarts = 0

Request(h) ==
    \E ps \in SUBSET Mine(h) \ {{}} : \E offsets \in [ps -> 0..MaxOffset] :
        /\ requests < MaxRequests
        /\ handleOffsetCommit(h, offsets)
        /\ requests' = requests + 1
        /\ UNCHANGED restarts

RestartBounded ==
    /\ restarts < MaxRestarts
    /\ Restart
    /\ restarts' = restarts + 1
    /\ UNCHANGED requests

Next ==
    \/ \E h \in Handlers : Request(h)
    \/ \E h \in Handlers : OffsetCommit(h) /\ UNCHANGED <<requests, restarts>>
    \/ (Flush \/ Close) /\ UNCHANGED <<requests, restarts>>
    \/ RestartBounded

Spec == Init /\ [][Next]_vars

=============================================================================
