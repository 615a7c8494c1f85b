---------------------------- MODULE TabletTable ----------------------------
(***************************************************************************)
(* The Master's routing table tablets_ (raft_node.h, common.h): a vector   *)
(* of tablets kept in key order, and what the Master computes from it.     *)
(***************************************************************************)
EXTENDS KeyRange, Sequences, FiniteSets, FiniteSetsExt

CONSTANTS MidKey,                  \* the "m" that separates the first tablets
          NumDataNodes,            \* peers other than the Master
          SPLIT_THRESHOLD,         \* keys at which a tablet is split
          BALANCE_DIFF_THRESHOLD   \* load difference at which one is moved

ASSUME TableAssumption ==
    /\ MidKey \in Key
    /\ NumDataNodes \in Nat /\ NumDataNodes >= 2
    /\ SPLIT_THRESHOLD \in Nat \ {0}
    /\ BALANCE_DIFF_THRESHOLD \in Nat \ {0}

\* Peer ids in configuration order; id 1 is the Master.
DataNode == 2..(NumDataNodes + 1)

Tablet == [id : Nat, start_key : Bound, end_key : Bound,
           node_id : DataNode, key_count : Nat]

\* BuildInitialTablets: ["", "m") on the first DataNode, ["m", "") on the next.
InitialTablets ==
    << [id |-> 1, start_key |-> Empty, end_key |-> MidKey,
        node_id |-> 2, key_count |-> 0],
       [id |-> 2, start_key |-> MidKey, end_key |-> Empty,
        node_id |-> 3, key_count |-> 0] >>
FirstFreeId == 3
FirstEpoch == 1

(***************************************************************************)
(* Routing.  FindTabletIndex is the last tablet whose start_key is not     *)
(* above the key (the size of the table, plus one here, if there is none); *)
(* module TabletSearch models the binary search that computes it.          *)
(***************************************************************************)
FindTabletIndex(ts, key) ==
    LET below == {i \in DOMAIN ts : ts[i].start_key <= key}
    IN  IF below = {} THEN Len(ts) + 1 ELSE Max(below)

HasRoute(ts, key) ==
    LET i == FindTabletIndex(ts, key)
    IN  i <= Len(ts) /\ InRange(key, ts[i].start_key, ts[i].end_key)

GetTabletRoute(ts, key) == ts[FindTabletIndex(ts, key)]

(***************************************************************************)
(* Splitting tablet i, whose copy is old, at the median key.               *)
(***************************************************************************)
\* A slip: the median is only compared with the start of the range.
CanSplitAboveStart(old, median) ==
    /\ median # Empty
    /\ median > old.start_key

CanSplitAt(old, median) ==
    /\ median # Empty
    /\ median > old.start_key
    /\ old.end_key # Empty => median < old.end_key

\* The key counts given to the halves; a slip swaps the operands of the minus.
LeftCount(count) == count \div 2
RightCountSwapped(count) == LeftCount(count) - count
RightCount(count) == count - LeftCount(count)

SplitTablet(ts, i, old, median, freeId) ==
    LET left  == [old EXCEPT !.id = freeId, !.end_key = median,
                             !.key_count = LeftCount(old.key_count)]
        right == [old EXCEPT !.id = freeId + 1, !.start_key = median,
                             !.key_count = RightCount(old.key_count)]
    IN  [j \in 1..(Len(ts) + 1) |->
            IF j < i THEN ts[j]
            ELSE IF j = i THEN left
            ELSE IF j = i + 1 THEN right
            ELSE ts[j - 1]]

(***************************************************************************)
(* Load balancing.  Only nodes that own a tablet are in node_load, a       *)
(* std::map in id order; max_element and min_element return the first of   *)
(* several equal nodes.                                                    *)
(***************************************************************************)
LoadedNodes(ts) == {ts[i].node_id : i \in DOMAIN ts}

NodeLoad(ts, n) ==
    MapThenSumSet(LAMBDA i : ts[i].key_count,
                  {i \in DOMAIN ts : ts[i].node_id = n})

IsMaxLoaded(ts, n) ==
    \A m \in LoadedNodes(ts) \ {n} :
        \/ NodeLoad(ts, m) < NodeLoad(ts, n)
        \/ NodeLoad(ts, m) = NodeLoad(ts, n) /\ n < m

\* A slip: the comparator of max_element copied.
IsMinLoadedCopied(ts, n) == IsMaxLoaded(ts, n)

IsMinLoaded(ts, n) ==
    \A m \in LoadedNodes(ts) \ {n} :
        \/ NodeLoad(ts, m) > NodeLoad(ts, n)
        \/ NodeLoad(ts, m) = NodeLoad(ts, n) /\ n < m

\* The first of the tablets on node n with the most keys, if any has a key.
IsLargestOn(ts, n, i) ==
    /\ ts[i].node_id = n
    /\ ts[i].key_count > 0
    /\ \A j \in DOMAIN ts \ {i} :
          ts[j].node_id = n =>
             \/ ts[j].key_count < ts[i].key_count
             \/ ts[j].key_count = ts[i].key_count /\ i < j

\* What DoLoadBalance decides: the tablet to move and where to (at most one).
Moves(ts) ==
    {m \in (DOMAIN ts) \X LoadedNodes(ts) :
        LET src == ts[m[1]].node_id
        IN  /\ Cardinality(LoadedNodes(ts)) >= 2
            /\ IsMaxLoaded(ts, src)
            /\ IsMinLoaded(ts, m[2])
            /\ NodeLoad(ts, src) - NodeLoad(ts, m[2]) >= BALANCE_DIFF_THRESHOLD
            /\ IsLargestOn(ts, src, m[1])}

(***************************************************************************)
(* What the routing table must be: non-empty ranges, in key order, that do *)
(* not overlap and leave no key without an owner; and ids given out once.  *)
(***************************************************************************)
NonEmptyRanges(ts) ==
    \A i \in DOMAIN ts : ts[i].end_key # Empty => ts[i].start_key < ts[i].end_key

Ordered(ts) ==
    \A i, j \in DOMAIN ts :
        i < j => ts[i].end_key # Empty /\ ts[i].end_key <= ts[j].start_key

Covering(ts) ==
    \A k \in Key : \E i \in DOMAIN ts : InRange(k, ts[i].start_key, ts[i].end_key)

IsPartition(ts) == NonEmptyRanges(ts) /\ Ordered(ts) /\ Covering(ts)

UniqueIds(ts, freeId) ==
    /\ \A i \in DOMAIN ts : ts[i].id < freeId
    /\ \A i, j \in DOMAIN ts : ts[i].id = ts[j].id => i = j
=============================================================================
