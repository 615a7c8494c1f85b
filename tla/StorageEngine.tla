--------------------------- MODULE StorageEngine ---------------------------
(***************************************************************************)
(* One DataNode's StorageEngine (storage_engine.cpp) over LevelDB: an      *)
(* ordered map from keys to values.  Put, Delete and DeleteRange hold the  *)
(* engine's mutex and RangeQuery iterates over a LevelDB snapshot, so each *)
(* is one function of the map.                                             *)
(***************************************************************************)
EXTENDS KeyRange, FiniteSets

CONSTANTS Value,    \* the values clients write
          NoValue   \* what Get returns when the key is absent (std::nullopt)

ASSUME NoValueAssumption == NoValue \notin Value

Db == [Key -> Value \cup {NoValue}]
EmptyDb == [k \in Key |-> NoValue]

Put(d, key, value) == [d EXCEPT ![key] = value]
Delete(d, key) == [d EXCEPT ![key] = NoValue]

\* The pairs RangeQuery hands to its callback.
RangeQuery(d, start, end) ==
    [k \in Key |-> IF InRange(k, start, end) THEN d[k] ELSE NoValue]

KeysOf(d) == {k \in Key : d[k] # NoValue}

Least(S) == {k \in S : \A j \in S : k <= j}     \* {} or the one least key
OneOf(S) == IF S = {} THEN Empty ELSE CHOOSE k \in S : TRUE

FirstKey(d) == OneOf(Least(KeysOf(d)))

\* RangeStats: the number of keys in the range, and keys[key_count / 2] of
\* the sorted key list, the key with key_count / 2 keys before it (the empty
\* string when the range is empty).
RangeCount(d, start, end) == Cardinality(KeysOf(RangeQuery(d, start, end)))

\* A slip: the key before the middle one.
MedianKeyTooLow(d, start, end) ==
    LET keys == KeysOf(RangeQuery(d, start, end))
        before(k) == Cardinality({j \in keys : j < k})
    IN  OneOf({k \in keys : before(k) = (Cardinality(keys) - 1) \div 2})

MedianKey(d, start, end) ==
    LET keys == KeysOf(RangeQuery(d, start, end))
        before(k) == Cardinality({j \in keys : j < k})
    IN  OneOf({k \in keys : before(k) = Cardinality(keys) \div 2})

\* Slips: the end of the range taken as included, the start as excluded.
DeleteRangeThroughEnd(d, start, end) ==
    [k \in Key |-> IF start <= k /\ (end # Empty => k <= end) THEN NoValue ELSE d[k]]
DeleteRangeAfterStart(d, start, end) ==
    [k \in Key |-> IF InRange(k, start + 1, end) THEN NoValue ELSE d[k]]

DeleteRange(d, start, end) ==
    [k \in Key |-> IF InRange(k, start, end) THEN NoValue ELSE d[k]]
=============================================================================
