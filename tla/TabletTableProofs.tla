------------------------- MODULE TabletTableProofs -------------------------
(***************************************************************************)
(* Facts about the routing table that hold for every table: what the       *)
(* initial table is, and what a split, a change of key_count and a change  *)
(* of owner preserve.                                                      *)
(***************************************************************************)
EXTENDS TabletTable, TLAPS

\* The fields of a tablet in a table have their types.
LEMMA TabletFields ==
    ASSUME NEW ts \in Seq(Tablet), NEW i \in DOMAIN ts
    PROVE  /\ ts[i] \in Tablet
           /\ ts[i].id \in Nat
           /\ ts[i].start_key \in Bound /\ ts[i].start_key \in Nat
           /\ ts[i].end_key \in Bound /\ ts[i].end_key \in Nat
           /\ ts[i].node_id \in DataNode
           /\ ts[i].key_count \in Nat
<1>1. ts[i] \in Tablet
  OBVIOUS
<1>2. \A b \in Bound : b \in Nat
  BY MaxKeyAssumption DEF Bound, Key, Empty
<1> QED
  BY <1>1, <1>2 DEF Tablet

\* BuildInitialTablets makes a partition with fresh ids.
LEMMA InitialTable ==
    /\ InitialTablets \in Seq(Tablet)
    /\ IsPartition(InitialTablets)
    /\ UniqueIds(InitialTablets, FirstFreeId)
<1>1. 2 \in DataNode /\ 3 \in DataNode
  BY TableAssumption DEF DataNode
<1>2. MidKey \in Bound /\ Empty \in Bound /\ MidKey \in Nat /\ MidKey > 0
  BY TableAssumption, MaxKeyAssumption DEF Bound, Key, Empty
<1> DEFINE a == [id |-> 1, start_key |-> Empty, end_key |-> MidKey,
                 node_id |-> 2, key_count |-> 0]
           b == [id |-> 2, start_key |-> MidKey, end_key |-> Empty,
                 node_id |-> 3, key_count |-> 0]
<1>3. a \in Tablet /\ b \in Tablet
  BY <1>1, <1>2 DEF Tablet
<1>4. InitialTablets = <<a, b>>
  BY DEF InitialTablets
<1>5. InitialTablets \in Seq(Tablet)
  BY <1>3, <1>4
<1>6. /\ DOMAIN InitialTablets = {1, 2}
      /\ InitialTablets[1] = a /\ InitialTablets[2] = b
  BY <1>4
<1>7. NonEmptyRanges(InitialTablets) /\ Ordered(InitialTablets)
  BY <1>2, <1>6 DEF NonEmptyRanges, Ordered, Empty
<1>8. Covering(InitialTablets)
  <2> SUFFICES ASSUME NEW k \in Key
               PROVE  \E i \in DOMAIN InitialTablets :
                         InRange(k, InitialTablets[i].start_key, InitialTablets[i].end_key)
    BY DEF Covering
  <2>1. k \in Nat
    BY MaxKeyAssumption DEF Key
  <2>2. CASE k < MidKey
    BY <1>2, <1>6, <2>1, <2>2 DEF InRange, Empty
  <2>3. CASE ~(k < MidKey)
    BY <1>2, <1>6, <2>1, <2>3 DEF InRange, Empty
  <2> QED
    BY <2>2, <2>3
<1>9. UniqueIds(InitialTablets, FirstFreeId)
  BY <1>6 DEF UniqueIds, FirstFreeId
<1> QED
  BY <1>5, <1>7, <1>8, <1>9 DEF IsPartition

\* A table with the same ranges and ids is as good a table: changing a
\* key_count (SyncAllTabletStats) or a node_id (MigrateTablet) is harmless.
LEMMA SameRanges ==
    ASSUME NEW ts, NEW us, NEW freeId,
           DOMAIN us = DOMAIN ts,
           \A i \in DOMAIN ts : /\ us[i].start_key = ts[i].start_key
                                /\ us[i].end_key = ts[i].end_key
                                /\ us[i].id = ts[i].id
    PROVE  /\ IsPartition(ts) => IsPartition(us)
           /\ UniqueIds(ts, freeId) => UniqueIds(us, freeId)
<1>1. NonEmptyRanges(ts) => NonEmptyRanges(us)
  BY DEF NonEmptyRanges
<1>2. Ordered(ts) => Ordered(us)
  BY DEF Ordered
<1>3. Covering(ts) => Covering(us)
  BY DEF Covering
<1>4. UniqueIds(ts, freeId) => UniqueIds(us, freeId)
  BY DEF UniqueIds
<1> QED
  BY <1>1, <1>2, <1>3, <1>4 DEF IsPartition

\* TrySplitTablet: replacing a tablet by its two halves at a key strictly
\* inside its range keeps the partition, whatever the key count was.
LEMMA SplitTable ==
    ASSUME NEW ts \in Seq(Tablet), NEW i \in DOMAIN ts, NEW old \in Tablet,
           NEW median \in Bound, NEW freeId \in Nat,
           old.start_key = ts[i].start_key, old.end_key = ts[i].end_key,
           CanSplitAt(old, median)
    PROVE  LET us == SplitTablet(ts, i, old, median, freeId)
           IN  /\ us \in Seq(Tablet)
               /\ IsPartition(ts) => IsPartition(us)
               /\ UniqueIds(ts, freeId) => UniqueIds(us, freeId + 2)
<1> DEFINE us == SplitTablet(ts, i, old, median, freeId)
           left == [old EXCEPT !.id = freeId, !.end_key = median,
                               !.key_count = LeftCount(old.key_count)]
           right == [old EXCEPT !.id = freeId + 1, !.start_key = median,
                                !.key_count = RightCount(old.key_count)]
<1>1. /\ Len(ts) \in Nat /\ DOMAIN ts = 1..Len(ts) /\ i \in 1..Len(ts)
  OBVIOUS
<1>2. us = [j \in 1..(Len(ts) + 1) |->
              IF j < i THEN ts[j] ELSE IF j = i THEN left
              ELSE IF j = i + 1 THEN right ELSE ts[j - 1]]
  BY DEF SplitTablet
<1>3. left \in Tablet /\ right \in Tablet
  <2>1. old.key_count \in Nat
    BY DEF Tablet
  <2>2. LeftCount(old.key_count) \in Nat /\ RightCount(old.key_count) \in Nat
    BY <2>1 DEF LeftCount, RightCount
  <2>3. /\ freeId \in Nat /\ freeId + 1 \in Nat /\ median \in Bound
        /\ old \in [id : Nat, start_key : Bound, end_key : Bound,
                   node_id : DataNode, key_count : Nat]
    BY DEF Tablet
  <2>4. left \in Tablet
    BY <2>2, <2>3 DEF Tablet
  <2>5. right \in Tablet
    BY <2>2, <2>3 DEF Tablet
  <2> QED
    BY <2>4, <2>5
<1>4. /\ left.id = freeId /\ left.start_key = ts[i].start_key /\ left.end_key = median
      /\ right.id = freeId + 1 /\ right.start_key = median /\ right.end_key = ts[i].end_key
  BY DEF Tablet
<1> HIDE DEF left, right
<1>5. us \in Seq(Tablet)
  <2>1. \A j \in 1..(Len(ts) + 1) : us[j] \in Tablet
    BY <1>1, <1>2, <1>3
  <2>2. DOMAIN us = 1..(Len(ts) + 1)
    BY <1>2
  <2> QED
    BY <1>1, <1>2, <2>1, <2>2
<1>6. /\ DOMAIN us = 1..(Len(ts) + 1)
      /\ us[i] = left /\ us[i + 1] = right
      /\ \A j \in DOMAIN us : j < i => j \in DOMAIN ts /\ us[j] = ts[j]
      /\ \A j \in DOMAIN us : j > i + 1 => j - 1 \in DOMAIN ts /\ us[j] = ts[j - 1]
  BY <1>1, <1>2
<1> HIDE DEF us
<1>7. /\ \A j \in DOMAIN ts : ts[j].start_key \in Nat /\ ts[j].end_key \in Nat /\ ts[j].id \in Nat
      /\ median \in Nat /\ median # Empty /\ median > ts[i].start_key
      /\ ts[i].end_key # Empty => median < ts[i].end_key
  <2>1. median \in Nat
    BY MaxKeyAssumption DEF Bound, Key, Empty
  <2> QED
    BY <2>1, TabletFields DEF CanSplitAt
<1>8. NonEmptyRanges(ts) => NonEmptyRanges(us)
  <2> SUFFICES ASSUME NonEmptyRanges(ts), NEW j \in DOMAIN us, us[j].end_key # Empty
               PROVE  us[j].start_key < us[j].end_key
    BY DEF NonEmptyRanges
  <2>1. CASE j < i
    BY <1>6, <2>1 DEF NonEmptyRanges
  <2>2. CASE j = i
    BY <1>4, <1>6, <1>7, <2>2
  <2>3. CASE j = i + 1
    BY <1>4, <1>6, <1>7, <2>3
  <2>4. CASE j > i + 1
    BY <1>6, <2>4 DEF NonEmptyRanges
  <2> QED
    BY <1>1, <1>6, <2>1, <2>2, <2>3, <2>4
<1>9. Ordered(ts) => Ordered(us)
  <2> SUFFICES ASSUME Ordered(ts), NEW j \in DOMAIN us, NEW l \in DOMAIN us, j < l
               PROVE  us[j].end_key # Empty /\ us[j].end_key <= us[l].start_key
    BY DEF Ordered
  <2>0. /\ \A p, q \in DOMAIN ts :
              p < q => ts[p].end_key # Empty /\ ts[p].end_key <= ts[q].start_key
        /\ j \in Int /\ l \in Int /\ i \in Int
    BY <1>1, <1>6 DEF Ordered
  <2>1. CASE l < i
    BY <1>6, <2>0, <2>1
  <2>2. CASE l = i
    BY <1>4, <1>6, <2>0, <2>2
  <2>3. CASE l = i + 1 /\ j = i
    BY <1>4, <1>6, <1>7, <2>3
  <2>4. CASE l = i + 1 /\ j < i
    <3>1. j \in DOMAIN ts /\ us[j] = ts[j] /\ us[l] = right
      BY <1>6, <2>4
    <3>2. ts[j].end_key # Empty /\ ts[j].end_key <= ts[i].start_key
      BY <2>0, <2>4, <3>1
    <3> QED
      BY <1>4, <1>7, <3>1, <3>2
  <2>5. CASE l > i + 1 /\ j < i
    <3>1. j \in DOMAIN ts /\ us[j] = ts[j] /\ l - 1 \in DOMAIN ts /\ us[l] = ts[l - 1] /\ j < l - 1
      BY <1>6, <2>0, <2>5
    <3> QED
      BY <2>0, <3>1
  <2>6. CASE l > i + 1 /\ j = i
    <3>1. l - 1 \in DOMAIN ts /\ us[l] = ts[l - 1] /\ i < l - 1 /\ us[j] = left
      BY <1>6, <2>0, <2>6
    <3>2. ts[i].end_key # Empty /\ ts[i].end_key <= ts[l - 1].start_key
      BY <2>0, <3>1
    <3> QED
      BY <1>4, <1>7, <3>1, <3>2
  <2>7. CASE l > i + 1 /\ j = i + 1
    <3>1. l - 1 \in DOMAIN ts /\ us[l] = ts[l - 1] /\ i < l - 1 /\ us[j] = right
      BY <1>6, <2>0, <2>7
    <3> QED
      BY <1>4, <2>0, <3>1
  <2>8. CASE l > i + 1 /\ j > i + 1
    <3>1. /\ l - 1 \in DOMAIN ts /\ us[l] = ts[l - 1]
          /\ j - 1 \in DOMAIN ts /\ us[j] = ts[j - 1] /\ j - 1 < l - 1
      BY <1>6, <2>0, <2>8
    <3> QED
      BY <2>0, <3>1
  <2> QED
    BY <2>0, <2>1, <2>2, <2>3, <2>4, <2>5, <2>6, <2>7, <2>8
<1>10. Covering(ts) => Covering(us)
  <2> SUFFICES ASSUME Covering(ts), NEW k \in Key
               PROVE  \E j \in DOMAIN us : InRange(k, us[j].start_key, us[j].end_key)
    BY DEF Covering
  <2>0. k \in Nat
    BY MaxKeyAssumption DEF Key
  <2>1. PICK p \in DOMAIN ts : InRange(k, ts[p].start_key, ts[p].end_key)
    BY DEF Covering
  <2>2. CASE p < i
    <3>1. p \in DOMAIN us /\ us[p] = ts[p]
      BY <1>1, <1>6, <2>2
    <3> QED
      BY <2>1, <3>1
  <2>3. CASE p > i
    <3>1. p + 1 \in DOMAIN us /\ us[p + 1] = ts[p]
      BY <1>1, <1>2, <2>3
    <3> QED
      BY <2>1, <3>1
  <2>4. CASE p = i
    <3>1. i \in DOMAIN us /\ i + 1 \in DOMAIN us
      BY <1>1, <1>6
    <3>2. CASE k < median
      BY <1>4, <1>6, <1>7, <2>0, <2>1, <2>4, <3>1, <3>2 DEF InRange
    <3>3. CASE ~(k < median)
      BY <1>4, <1>6, <1>7, <2>0, <2>1, <2>4, <3>1, <3>3 DEF InRange
    <3> QED
      BY <3>2, <3>3
  <2> QED
    BY <1>1, <2>2, <2>3, <2>4
<1>11. UniqueIds(ts, freeId) => UniqueIds(us, freeId + 2)
  <2> SUFFICES ASSUME UniqueIds(ts, freeId) PROVE UniqueIds(us, freeId + 2)
    OBVIOUS
  <2>0. \A j \in DOMAIN us : j \in Int /\ (j < i \/ j = i \/ j = i + 1 \/ j > i + 1)
    BY <1>1, <1>6
  <2>1. \A j \in DOMAIN us : (j < i \/ j > i + 1) => us[j].id \in Nat /\ us[j].id < freeId
    BY <1>6, <1>7 DEF UniqueIds
  <2>2. \A j \in DOMAIN us : us[j].id < freeId + 2
    BY <1>4, <1>6, <2>0, <2>1
  <2>3. ASSUME NEW j \in DOMAIN us, NEW l \in DOMAIN us, us[j].id = us[l].id
        PROVE  j = l
    <3>1. CASE (j = i \/ j = i + 1) \/ (l = i \/ l = i + 1)
      BY <1>4, <1>6, <2>0, <2>1, <2>3, <3>1
    <3>2. CASE ~(j = i \/ j = i + 1) /\ ~(l = i \/ l = i + 1)
      <4>1. \A p, q \in DOMAIN ts : ts[p].id = ts[q].id => p = q
        BY DEF UniqueIds
      <4> QED
        BY <1>1, <1>6, <2>0, <2>3, <3>2, <4>1
    <3> QED
      BY <3>1, <3>2
  <2> QED
    BY <2>2, <2>3 DEF UniqueIds
<1> QED
  BY <1>5, <1>8, <1>9, <1>10, <1>11 DEF us, IsPartition

\* Routing by the last start_key at or below the key finds the one tablet
\* that contains the key, in every partition.
LEMMA RouteFound ==
    ASSUME NEW ts \in Seq(Tablet), IsPartition(ts), NEW k \in Key
    PROVE  /\ HasRoute(ts, k)
           /\ FindTabletIndex(ts, k) \in DOMAIN ts
           /\ GetTabletRoute(ts, k) \in Tablet
           /\ \A i \in DOMAIN ts :
                 InRange(k, ts[i].start_key, ts[i].end_key) <=> FindTabletIndex(ts, k) = i
<1>1. /\ Len(ts) \in Nat /\ DOMAIN ts = 1..Len(ts) /\ k \in Nat
      /\ \A i \in DOMAIN ts : ts[i].start_key \in Nat /\ ts[i].end_key \in Nat /\ ts[i] \in Tablet
  BY TabletFields, MaxKeyAssumption DEF Key
<1>2. PICK p \in DOMAIN ts : InRange(k, ts[p].start_key, ts[p].end_key)
  BY DEF IsPartition, Covering
<1> DEFINE below == {i \in DOMAIN ts : ts[i].start_key <= k}
<1>3. p \in below /\ \A i \in below : p >= i
  <2>1. p \in below
    BY <1>2 DEF InRange
  <2>2. ASSUME NEW i \in below, p < i PROVE FALSE
    <3>1. ts[p].end_key # Empty /\ ts[p].end_key <= ts[i].start_key
      BY <2>2 DEF IsPartition, Ordered
    <3> QED
      BY <1>1, <1>2, <2>2, <3>1 DEF InRange
  <2> QED
    BY <1>1, <2>1, <2>2
<1>4. FindTabletIndex(ts, k) = p
  <2>1. Max(below) = p
    BY <1>1, <1>3 DEF Max
  <2> QED
    BY <1>3, <2>1 DEF FindTabletIndex
<1>5. ASSUME NEW i \in DOMAIN ts, InRange(k, ts[i].start_key, ts[i].end_key)
      PROVE  i = p
  <2>1. i \in below /\ p >= i
    BY <1>3, <1>5 DEF InRange
  <2>2. ASSUME i < p PROVE FALSE
    <3>1. ts[i].end_key # Empty /\ ts[i].end_key <= ts[p].start_key
      BY <2>2 DEF IsPartition, Ordered
    <3> QED
      BY <1>1, <1>2, <1>5, <3>1 DEF InRange
  <2> QED
    BY <1>1, <2>1, <2>2
<1> QED
  BY <1>1, <1>2, <1>4, <1>5 DEF HasRoute, GetTabletRoute

\* Tables with the same ranges route alike: the index does not depend on the
\* owners or on the key counts.
LEMMA SameIndex ==
    ASSUME NEW ts \in Seq(Tablet), IsPartition(ts), NEW us \in Seq(Tablet), IsPartition(us),
           DOMAIN us = DOMAIN ts,
           \A i \in DOMAIN ts : /\ us[i].start_key = ts[i].start_key
                                /\ us[i].end_key = ts[i].end_key,
           NEW k \in Key
    PROVE  FindTabletIndex(us, k) = FindTabletIndex(ts, k)
  BY RouteFound

\* TrySplitTablet gives both halves the node of the old tablet, so no key
\* changes its route.
LEMMA SplitRoutes ==
    ASSUME NEW ts \in Seq(Tablet), IsPartition(ts), NEW i \in DOMAIN ts, NEW old \in Tablet,
           NEW median \in Bound, NEW freeId \in Nat,
           old.start_key = ts[i].start_key, old.end_key = ts[i].end_key,
           old.node_id = ts[i].node_id, CanSplitAt(old, median), NEW k \in Key
    PROVE  GetTabletRoute(SplitTablet(ts, i, old, median, freeId), k).node_id
             = GetTabletRoute(ts, k).node_id
<1> DEFINE us == SplitTablet(ts, i, old, median, freeId)
           left == [old EXCEPT !.id = freeId, !.end_key = median,
                               !.key_count = LeftCount(old.key_count)]
           right == [old EXCEPT !.id = freeId + 1, !.start_key = median,
                                !.key_count = RightCount(old.key_count)]
<1>1. us \in Seq(Tablet) /\ IsPartition(us)
  BY SplitTable
<1>2. /\ Len(ts) \in Nat /\ DOMAIN ts = 1..Len(ts) /\ i \in 1..Len(ts) /\ k \in Nat
  BY MaxKeyAssumption DEF Key
<1>3. us = [j \in 1..(Len(ts) + 1) |->
              IF j < i THEN ts[j] ELSE IF j = i THEN left
              ELSE IF j = i + 1 THEN right ELSE ts[j - 1]]
  BY DEF SplitTablet
<1>4. /\ left.start_key = ts[i].start_key /\ left.end_key = median
      /\ right.start_key = median /\ right.end_key = ts[i].end_key
      /\ left.node_id = ts[i].node_id /\ right.node_id = ts[i].node_id
  BY DEF Tablet
<1> HIDE DEF left, right
<1>5. /\ DOMAIN us = 1..(Len(ts) + 1)
      /\ us[i] = left /\ us[i + 1] = right
      /\ \A j \in DOMAIN us : j < i => j \in DOMAIN ts /\ us[j] = ts[j]
      /\ \A j \in DOMAIN us : j > i + 1 => j - 1 \in DOMAIN ts /\ us[j] = ts[j - 1]
  BY <1>2, <1>3
<1> HIDE DEF us
<1>6. /\ median \in Nat /\ median # Empty /\ median > ts[i].start_key
      /\ ts[i].end_key # Empty => median < ts[i].end_key
      /\ ts[i].start_key \in Nat /\ ts[i].end_key \in Nat
  <2>1. median \in Nat
    BY MaxKeyAssumption DEF Bound, Key, Empty
  <2> QED
    BY <2>1, TabletFields DEF CanSplitAt
<1> DEFINE q == FindTabletIndex(us, k)
<1>7. /\ q \in DOMAIN us /\ q \in Nat /\ InRange(k, us[q].start_key, us[q].end_key)
      /\ GetTabletRoute(us, k) = us[q]
  BY <1>1, <1>5, RouteFound DEF GetTabletRoute
<1>8. \A p \in DOMAIN ts : InRange(k, ts[p].start_key, ts[p].end_key) =>
                              GetTabletRoute(ts, k) = ts[p]
  BY RouteFound DEF GetTabletRoute
<1> HIDE DEF q
<1>9. CASE q < i
  BY <1>5, <1>7, <1>8, <1>9 DEF us
<1>10. CASE q = i
  <2>1. InRange(k, ts[i].start_key, ts[i].end_key)
    BY <1>2, <1>4, <1>5, <1>6, <1>7, <1>10 DEF InRange
  <2> QED
    BY <1>4, <1>5, <1>7, <1>8, <1>10, <2>1 DEF us
<1>11. CASE q = i + 1
  <2>1. InRange(k, ts[i].start_key, ts[i].end_key)
    BY <1>2, <1>4, <1>5, <1>6, <1>7, <1>11 DEF InRange
  <2> QED
    BY <1>4, <1>5, <1>7, <1>8, <1>11, <2>1 DEF us
<1>12. CASE q > i + 1
  BY <1>5, <1>7, <1>8, <1>12 DEF us
<1> QED
  BY <1>2, <1>7, <1>9, <1>10, <1>11, <1>12
=============================================================================
