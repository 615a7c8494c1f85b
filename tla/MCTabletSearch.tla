--------------------------- MODULE MCTabletSearch ---------------------------
(***************************************************************************)
(* Every ordered routing table over the bounds 0..MaxKey, also those that  *)
(* do not start at the empty key or do not reach the top, searched for     *)
(* every key.                                                              *)
(***************************************************************************)
EXTENDS TabletSearch, SequencesExt

TableOver(bounds, top) ==
    LET s == SetToSortSeq(bounds, <)
    IN  [i \in 1..Len(s) |->
            [id |-> i, start_key |-> s[i],
             end_key |-> IF i < Len(s) THEN s[i + 1] ELSE top,
             node_id |-> 2, key_count |-> 0]]

MCTables ==
    {TableOver(b, Empty) : b \in SUBSET Bound} \cup
    {TableOver(b, MaxKey) : b \in SUBSET (0..(MaxKey - 1))}
=============================================================================
