---------------------------- MODULE AbstractLog -----------------------------
(***************************************************************************)
(* What a partition log promises: a dense sequence of entries, the first   *)
(* of them at offset `start`, that grows at its end, is trimmed at its     *)
(* beginning, and loses at most its unsynced tail in a crash.  Once old    *)
(* entries could not be removed, later trimming may remove newer ones and  *)
(* leave a hole, but never touches entries that are not durable.           *)
(***************************************************************************)
EXTENDS Naturals, SequencesExt, FiniteSets

VARIABLES
    start,    \* offset of the first entry
    entries,  \* the entries, oldest first
    durable,  \* how many of them are known to survive a crash
    stuck     \* whether a removal has failed

logVars == <<start, entries, durable, stuck>>

Init ==
    /\ start = 0
    /\ entries = <<>>
    /\ durable = 0
    /\ stuck = FALSE

(* Appending may also sync, because a full segment is synced before the    *)
(* next one is opened.                                                     *)
Extend ==
    /\ Len(entries') > Len(entries)
    /\ SubSeq(entries', 1, Len(entries)) = entries
    /\ durable' \in durable..Len(entries')
    /\ UNCHANGED <<start, stuck>>

Sync ==
    /\ durable' \in durable..Len(entries)
    /\ UNCHANGED <<start, entries, stuck>>

Trim ==
    \E k \in 1..durable :
        /\ ~stuck
        /\ start' = start + k
        /\ entries' = SubSeq(entries, k + 1, Len(entries))
        /\ durable' = durable - k
        /\ UNCHANGED stuck

TrimStuck ==
    \E kept \in SUBSET (1..durable) :
        LET left == SetToSortSeq(kept \cup (durable + 1)..Len(entries), <)
        IN  /\ stuck'
            /\ start' >= start
            /\ entries' = [i \in DOMAIN left |-> entries[left[i]]]
            /\ durable' = Cardinality(kept)

Lose ==
    \E n \in durable..Len(entries) :
        /\ entries' = SubSeq(entries, 1, n)
        /\ UNCHANGED <<start, durable, stuck>>

Next == Extend \/ Sync \/ Trim \/ TrimStuck \/ Lose

Spec == Init /\ [][Next]_logVars

=============================================================================
