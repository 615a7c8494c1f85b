---------------------------- MODULE TabletSearch ----------------------------
(***************************************************************************)
(* The binary search behind routing: FindTabletIndex and GetTabletRoute of *)
(* the Master, and the client's FindRoute, which is the same loop over the *)
(* table it fetched.  One behaviour is one call.                           *)
(***************************************************************************)
EXTENDS TabletTable

CONSTANT Tables     \* the routing tables that are searched

\* BuildInitialTablets, TrySplitTablet and MigrateTablet keep the table like
\* this (ClusterProofs); the client sorts what it fetched.
ASSUME TablesAssumption ==
    \A ts \in Tables : ts \in Seq(Tablet) /\ NonEmptyRanges(ts) /\ Ordered(ts)

VARIABLES
    table,    \* tablets_
    key,      \* the key looked up
    left,     \* loop variables, counted from 0 as in the code
    right,
    answer    \* -1: still searching; 0: no route; i: the i-th tablet

searchVars == <<table, key, left, right, answer>>

SearchInit ==
    /\ table \in Tables
    /\ key \in Key
    /\ left = 0
    /\ right = Len(table)
    /\ answer = -1

\* A slip: the middle is rounded up.
MidRoundedUp == left + (right - left + 1) \div 2
Mid == left + (right - left) \div 2

\* A slip: a key equal to a start_key counts as below it.
StartsBefore == table[Mid + 1].start_key < key
StartsAtOrBefore == table[Mid + 1].start_key <= key

\* A slip: the probed tablet is kept in the interval.
ProbeKept == Mid
AfterProbe == Mid + 1

Halve ==
    /\ answer = -1
    /\ left < right
    /\ IF StartsAtOrBefore
       THEN left' = AfterProbe /\ UNCHANGED right
       ELSE right' = Mid /\ UNCHANGED left
    /\ UNCHANGED <<table, key, answer>>

\* A slip: the end of a tablet counts as inside it.
BeyondEndOf(t) == t.end_key # Empty /\ key > t.end_key
NotBelowEndOf(t) == t.end_key # Empty /\ key >= t.end_key

\* Tablet left - 1 (counted from 0), unless there is none or the key is
\* beyond its end.
Return ==
    /\ answer = -1
    /\ left >= right
    /\ answer' =
          IF left = 0 THEN 0
          ELSE IF NotBelowEndOf(table[left]) THEN 0
          ELSE left
    /\ UNCHANGED <<table, key, left, right>>

SearchNext == Halve \/ Return

SearchSpec == SearchInit /\ [][SearchNext]_searchVars

\* The thread that looks the key up keeps running.
FairSearchSpec == SearchSpec /\ WF_searchVars(SearchNext)

-----------------------------------------------------------------------------
\* The search returns the tablet that contains the key, and reports no route
\* only if no tablet does: no rounding of mid and no boundary key (a key equal
\* to a start_key or an end_key) sends a request to a neighbouring tablet.
SearchCorrect ==
    answer # -1 =>
        \A i \in DOMAIN table :
            InRange(key, table[i].start_key, table[i].end_key) <=> answer = i

\* Loop invariant: the tablets before left start at or below the key, those
\* from right on start above it.
SearchInv ==
    /\ table \in Seq(Tablet) /\ NonEmptyRanges(table) /\ Ordered(table)
    /\ key \in Key
    /\ left \in 0..Len(table)
    /\ right \in left..Len(table)
    /\ answer \in -1..Len(table)
    /\ \A i \in 1..left : table[i].start_key <= key
    /\ \A i \in (right + 1)..Len(table) : table[i].start_key > key

\* Every probe reads inside the vector, and both intervals it can leave are
\* shorter than the one it was made in: the variant of the loop, which the
\* rounding of mid could break when two tablets or one are left.
ProbesShrink ==
    answer = -1 /\ left < right =>
        /\ Mid \in 0..(Len(table) - 1)
        /\ right - AfterProbe \in 0..(right - left - 1)
        /\ Mid - left \in 0..(right - left - 1)

\* Every lookup returns: FindTabletIndex holds no probe for ever.
SearchEnds == <>(answer # -1)
=============================================================================
