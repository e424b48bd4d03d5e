----------------------------- MODULE Assignors ------------------------------
(***************************************************************************)
(* The partition assignors (internal/coordinator/assignor.go).  Members    *)
(* and topics are handled in sorted order, so a member is its index        *)
(* 0..n-1 and a topic its index 1..Len(parts); parts[t] is the number of   *)
(* partitions of topic t.  An assignment gives every member a set of pairs *)
(* <<topic, partition>>.  A definition whose name starts with Faulty is    *)
(* the one that follows it with a defect; no specification uses it.        *)
(***************************************************************************)
EXTENDS Integers, Sequences, FiniteSetsExt

TopicPartitions(parts) ==
    UNION {{<<t, p>> : p \in 0..(parts[t] - 1)} : t \in 1..Len(parts)}

-----------------------------------------------------------------------------
(* RangeAssignor: a contiguous block of every topic for every member; the  *)
(* first members get one more when the division leaves a remainder.        *)

FaultyExtraNotCounted(n, i, numPartitions) == (numPartitions \div n) * i

RangeStart(n, i, numPartitions) ==
    (numPartitions \div n) * i + Min({i, numPartitions % n})

RangeLength(n, i, numPartitions) ==
    (numPartitions \div n) + (IF i < numPartitions % n THEN 1 ELSE 0)

RangeBlock(n, i, numPartitions) ==
    LET start == RangeStart(n, i, numPartitions)
    IN  start..(start + RangeLength(n, i, numPartitions) - 1)

RangeAssign(n, parts) ==
    [i \in 0..(n - 1) |->
        UNION {{<<t, p>> : p \in RangeBlock(n, i, parts[t])} :
                    t \in 1..Len(parts)}]

-----------------------------------------------------------------------------
(* RoundRobinAssignor: all topic-partitions in one list, dealt in turn.    *)

AllTPs(parts) ==
    LET upTo[t \in 0..Len(parts)] ==
            IF t = 0 THEN <<>>
            ELSE upTo[t - 1] \o [p \in 1..parts[t] |-> <<t, p - 1>>]
    IN  upTo[Len(parts)]

RoundRobinAssign(n, parts) ==
    [i \in 0..(n - 1) |->
        {AllTPs(parts)[k] : k \in {j \in 1..Len(AllTPs(parts)) : (j - 1) % n = i}}]

-----------------------------------------------------------------------------
(* What an assignor owes the group.                                        *)

(* Every topic-partition has exactly one owner.                            *)
IsExactCover(assignment, parts) ==
    /\ UNION {assignment[i] : i \in DOMAIN assignment} = TopicPartitions(parts)
    /\ \A i, j \in DOMAIN assignment :
          i # j => assignment[i] \cap assignment[j] = {}

(* No member gets two more than another.                                   *)
IsBalanced(assignment) ==
    \A i, j \in DOMAIN assignment :
        Cardinality(assignment[i]) <= Cardinality(assignment[j]) + 1

OfTopic(assignment, t) ==
    [i \in DOMAIN assignment |-> {tp \in assignment[i] : tp[1] = t}]

=============================================================================
