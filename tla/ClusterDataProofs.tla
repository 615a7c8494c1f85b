------------------------- MODULE ClusterDataProofs -------------------------
(***************************************************************************)
(* Where the data is.  On top of LinkInv and RouteInv, DataInv says which  *)
(* node holds which value at every step of a migration.  One invariant     *)
(* serves two results: without crashes the owner of a key holds exactly    *)
(* the latest value and nobody else keeps a copy at rest; with crashes of  *)
(* the Master and of DataNodes a value that was PUT is still never lost.   *)
(***************************************************************************)
EXTENDS ClusterRouteProofs

-----------------------------------------------------------------------------
(* The invariant                                                           *)

\* Whether processes may crash, and what a copy of k must then be: the latest
\* value, unless k was deleted (an aborted migration can leave an old copy).
Crashes == MaxMasterCrashes # 0 \/ MaxNodeCrashes # 0
Fresh(v, k) == v = latest[k] \/ (Crashes /\ latest[k] = NoValue)

NoCrashOK ==
    ~Crashes => /\ budget.master_crashes = 0 /\ budget.node_crashes = 0
                /\ \A n \in DataNode : /\ alive[n] /\ orphans[n] = <<>>
                                       /\ pc # "off" => conn[n] = "open"

\* Commands under way are addressed to the owner; none during a migration.
CommandsOK ==
    /\ pc \in MigrationPc => NoCommand
    /\ \A c \in Client : client[c] # Idle =>
          /\ client[c].key \in Key
          /\ client[c].node = Owner(client[c].key)
          /\ client[c].op # "put" => client[c].val = NoValue

Copies == \A k \in Key : Fresh(db[Owner(k)][k], k)

\* Where a copy may exist that is not the owner's, without crashes.
StrayAt(n, k) ==
    /\ InCur(k)
    /\ \/ pc \in {"transfer", "putWait"} /\ n = dst
       \/ pc \in {"flipSave", "delRange"} /\ n = cur.node_id
       \/ pc = "delWait" /\ n = cur.node_id /\ requests[n] # <<>>
Strays ==
    ~Crashes => \A n \in DataNode, k \in Key :
        db[n][k] # NoValue => n = Owner(k) \/ StrayAt(n, k)

\* The migration, step by step: the scan saw what the source holds, every
\* pair of it is still to be copied or has arrived, the source keeps its
\* copies until the new route is saved.
ScanOK ==
    pc = "scanWait" /\ replies[cur.node_id] # <<>> =>
        \A k \in Key : InCur(k) => Fresh(Head(replies[cur.node_id]).pairs[k], k)
MoveOK ==
    pc \in {"transfer", "putWait"} =>
        /\ Crashes \/ complete
        /\ complete => \A k \in Key : InCur(k) =>
              Fresh(IF todo[k] # NoValue THEN todo[k] ELSE db[dst][k], k)
PutOK ==
    pc = "putWait" /\ replies[dst] # <<>> =>
        \A k \in Key : NextPair(k) => db[dst][k] = todo[k]
FlipOK ==
    pc = "flipSave" => \A k \in Key : InCur(k) => Fresh(db[cur.node_id][k], k)

DataInv ==
    /\ NoStorage = {} /\ ClientWindow # "always"
    /\ NoCrashOK /\ CommandsOK /\ Copies /\ Strays
    /\ ScanOK /\ MoveOK /\ PutOK /\ FlipOK

-----------------------------------------------------------------------------
(* Owners                                                                  *)

\* The owner of a key is its route in the table in force.
LEMMA OwnerIs == \A k : Owner(k) = IF pc = "off" THEN DurableNode(k) ELSE MemNode(k)
  BY DEF Owner, RoutingTable, MemNode, DurableNode

\* Every key has an owner, and the Master's table routes it there.
LEMMA OwnerType ==
    IInv => \A k \in Key : /\ Owner(k) \in DataNode
                           /\ pc # "off" => HasRoute(tablets, k)
<1> SUFFICES ASSUME IInv, NEW k \in Key
             PROVE  Owner(k) \in DataNode /\ (pc # "off" => HasRoute(tablets, k))
  OBVIOUS
<1>1. RoutingTable \in Seq(Tablet) /\ IsPartition(RoutingTable)
  BY InitialTable DEF IInv, MInv, TablesOK, MasterTypeOK, RoutingTable, DurableTable
<1>2. GetTabletRoute(RoutingTable, k) \in Tablet /\ HasRoute(RoutingTable, k)
  BY <1>1, RouteFound
<1> QED
  BY <1>2 DEF Owner, Tablet, RoutingTable

\* How a step of the Master moves owners: the switch gives the tablet to the
\* destination, dying before the switch is saved gives it back.
LEMMA OwnerStep ==
    ASSUME IInv, RouteInv, MasterKind, NEW k \in Key
    PROVE  Owner(k)' = IF InCur(k) /\ SwitchRoute THEN dst
                       ELSE IF InCur(k) /\ pc = "flipSave" /\ pc' = "off" THEN cur.node_id
                       ELSE Owner(k)
<1>1. Owner(k)' = IF pc' = "off" THEN DurableNode(k)' ELSE MemNode(k)'
  BY DEF Owner, RoutingTable, MemNode, DurableNode
<1>2. CASE ToRest
  BY <1>1, <1>2, OwnerIs, PcFacts DEF ToRest, RoutesKept, SwitchRoute
<1>3. CASE AskStats \/ AskScan \/ TakeScan \/ AskPut \/ TakePut \/ SaveRoute \/ AskDelete
  <2>1. tablets' = tablets /\ pc # "off" /\ pc' # "off" /\ ~SwitchRoute
    BY <1>3 DEF AskStats, AskScan, TakeScan, AskPut, TakePut, SaveRoute, AskDelete, Sending,
                AtRest, SwitchRoute
  <2>2. MemNode(k)' = MemNode(k)
    BY <2>1 DEF MemNode
  <2> QED
    BY <1>1, <2>1, <2>2, OwnerIs
<1>4. CASE SwitchRoute
  BY <1>1, <1>4, OwnerIs DEF SwitchRoute
<1>5. CASE Died
  <2>1. pc' = "off" /\ pc # "off" /\ DurableNode(k)' = DurableNode(k) /\ ~SwitchRoute
    BY <1>5 DEF Died, Die, DurableNode, DurableTable, SwitchRoute
  <2>2. DurableNode(k) = IF pc = "flipSave" /\ InCur(k) THEN cur.node_id ELSE MemNode(k)
    BY <2>1 DEF RouteInv, DurableOK
  <2> QED
    BY <1>1, <2>1, <2>2, OwnerIs
<1>6. CASE Started
  <2>1. /\ pc = "off" /\ pc' = "sleep" /\ ~SwitchRoute /\ DurableTable' = DurableTable
        /\ tablet_file'.state = "good" /\ tablet_file'.tablets = tablets'
    BY <1>6 DEF Started, SwitchRoute
  <2>2. tablets' = DurableTable
    BY <2>1 DEF DurableTable
  <2>3. MemNode(k)' = DurableNode(k)
    BY <2>2 DEF MemNode, DurableNode
  <2> QED
    BY <1>1, <2>1, <2>3, OwnerIs
<1> QED
  BY <1>2, <1>3, <1>4, <1>5, <1>6 DEF MasterKind


-----------------------------------------------------------------------------
(* Steps of the Master                                                     *)

\* In a run without crashes nothing ends and no connection is lost.
LEMMA MasterNoCrash ==
    ASSUME IInv, NoCrashOK, MasterKind, UNCHANGED nodeVars, [Next]_vars
    PROVE  NoCrashOK' /\ (Died => Crashes)
<1>1. (budget.master_crashes = 0 => budget'.master_crashes = 0)
      /\ (budget.node_crashes = 0 => budget'.node_crashes = 0)
  BY NoNewFaults DEF IInv
<1>2. Died => Crashes
  BY DEF Died, NoCrashOK
<1>3. ASSUME ~Crashes PROVE NoCrashOK'
  <2>1. /\ budget'.master_crashes = 0 /\ budget'.node_crashes = 0
        /\ \A n \in DataNode : alive'[n] /\ orphans[n] = <<>>
    BY <1>1, <1>3 DEF NoCrashOK, nodeVars
  <2>2. orphans' = orphans
    BY <1>2, <1>3 DEF MasterKind, ToRest, AskStats, AskScan, TakeScan, AskPut, TakePut, SwitchRoute,
          SaveRoute, AskDelete, Started, Sending, linkVars
  <2>3. \A n \in DataNode : pc # "off" => conn[n] = "open"
    BY <1>3 DEF NoCrashOK
  <2>4. ASSUME NEW n \in DataNode PROVE pc' # "off" => conn'[n] = "open"
    <3>1. CASE Started
      BY <1>3, <3>1 DEF Started, NoCrashOK
    <3>2. CASE ~Started
      <4>1. pc # "off"
        BY <1>2, <1>3, <3>2, PcFacts DEF MasterKind, ToRest, AskStats, AskScan, TakeScan, AskPut,
              TakePut, SwitchRoute, SaveRoute, AskDelete, AtRest
      <4>2. StayOpen \/ conn' = conn
        BY <1>2, <1>3, <3>2 DEF MasterKind, ToRest, AskStats, AskScan, TakeScan, AskPut, TakePut,
              SwitchRoute, SaveRoute, AskDelete, Sending, linkVars
      <4> QED
        BY <2>3, <4>1, <4>2 DEF StayOpen
    <3> QED
      BY <3>1, <3>2
  <2> QED
    BY <2>1, <2>2, <2>4 DEF NoCrashOK
<1> QED
  BY <1>2, <1>3 DEF NoCrashOK

\* Commands keep their addressee: none is under way when owners change.
LEMMA MasterCommands ==
    ASSUME IInv, RouteInv, CommandsOK, MasterKind, UNCHANGED envVars, ClientWindow # "always"
    PROVE  CommandsOK'
<1>1. pc' \in MigrationPc => NoCommand
  <2>1. CASE pc \in MigrationPc
    BY <2>1 DEF CommandsOK
  <2>2. CASE AskScan
    BY <2>2 DEF AskScan
  <2>3. CASE pc \notin MigrationPc /\ ~AskScan
    BY <2>3, PcFacts DEF MasterKind, ToRest, AskStats, TakeScan, AskPut, TakePut, SwitchRoute,
          SaveRoute, AskDelete, Died, Die, Started, AtRest
  <2> QED
    BY <2>1, <2>2, <2>3
<1>2. client' = client
  BY DEF envVars
<1>3. ASSUME ~NoCommand, NEW k \in Key PROVE Owner(k)' = Owner(k)
  <2>1. pc \notin MigrationPc
    BY <1>3 DEF CommandsOK
  <2> QED
    BY <1>3, <2>1, OwnerStep, PcFacts DEF SwitchRoute
<1> QED
  BY <1>1, <1>2, <1>3 DEF CommandsOK, NoCommand

\* The owner's copy is fresh: before the switch because nothing moved, at the
\* switch because all pairs have arrived, at a crash because the source keeps
\* its copies.
LEMMA MasterCopies ==
    ASSUME IInv, RouteInv, DataInv, MasterKind, UNCHANGED <<nodeVars, envVars>>
    PROVE  Copies' /\ FlipOK'
<1>0. UNCHANGED <<db, latest>> /\ \A v, k : Fresh(v, k)' <=> Fresh(v, k)
  BY DEF nodeVars, envVars, Fresh
<1>1. Copies'
  <2> SUFFICES ASSUME NEW k \in Key PROVE Fresh(db[Owner(k)'][k], k)
    BY <1>0 DEF Copies, Fresh
  <2>1. CASE InCur(k) /\ SwitchRoute
    <3>1. pc = "transfer" /\ complete /\ todo[k] = NoValue
      BY <2>1 DEF SwitchRoute, Transferred, EmptyDb
    <3>2. Fresh(db[dst][k], k)
      BY <2>1, <3>1 DEF DataInv, MoveOK
    <3> QED
      BY <2>1, <3>2, OwnerStep
  <2>2. CASE InCur(k) /\ pc = "flipSave" /\ pc' = "off"
    BY <2>2, OwnerStep DEF DataInv, FlipOK, SwitchRoute
  <2>3. CASE Owner(k)' = Owner(k)
    BY <2>3 DEF DataInv, Copies
  <2> QED
    BY <2>1, <2>2, <2>3, OwnerStep
<1>2. FlipOK'
  <2> SUFFICES ASSUME pc' = "flipSave", NEW k \in Key, InCur(k)'
               PROVE  Fresh(db[cur'.node_id][k], k)
    BY <1>0 DEF FlipOK, Fresh
  <2>1. SwitchRoute
    BY PcFacts DEF MasterKind, ToRest, AskStats, AskScan, TakeScan, AskPut, TakePut, SaveRoute,
          AskDelete, Died, Die, Started, AtRest
  <2>2. cur' = cur /\ InCur(k) /\ pc = "transfer"
    BY <2>1 DEF SwitchRoute, localVars, InCur
  <2>3. MemNode(k) = cur.node_id
    BY <2>2, CurRoute, PcFacts DEF RouteInv, CurOK
  <2>4. Owner(k) = cur.node_id
    BY <2>2, <2>3, OwnerIs
  <2> QED
    BY <2>2, <2>4 DEF DataInv, Copies
<1> QED
  BY <1>1, <1>2


\* Without crashes, copies outside the owner exist in a migration only, and
\* a migration that ends leaves none.
LEMMA MasterStrays ==
    ASSUME IInv, RouteInv, DataInv, MasterKind, UNCHANGED <<nodeVars, envVars>>, [Next]_vars
    PROVE  Strays'
<1> SUFFICES ASSUME ~Crashes, NEW n \in DataNode, NEW k \in Key, db[n][k] # NoValue
             PROVE  n = Owner(k)' \/ StrayAt(n, k)'
  BY DEF Strays, nodeVars
<1>1. n = Owner(k) \/ StrayAt(n, k)
  BY DEF DataInv, Strays
<1>2. /\ pc \in {"transfer", "putWait"} => complete
      /\ pc # "off" => \A m \in DataNode : conn[m] = "open"
  BY DEF DataInv, MoveOK, NoCrashOK
<1>3. pc \in MigrationPc => cur.node_id \in DataNode
  BY DEF IInv, MInv, LocalsOK, Tablet
<1>4. ASSUME ~SwitchRoute, pc' # "off" PROVE Owner(k)' = Owner(k)
  BY <1>4, OwnerStep
<1>5. CASE ToRest
  <2>1. ~StrayAt(n, k)
    BY <1>2, <1>3, <1>5, PcFacts DEF ToRest, StrayAt
  <2>2. pc' # "off" /\ ~SwitchRoute
    BY <1>5, PcFacts DEF ToRest, SwitchRoute
  <2> QED
    BY <1>1, <1>4, <2>1, <2>2
<1>6. CASE AskStats \/ AskScan \/ TakeScan \/ Started
  <2>1. ~StrayAt(n, k)
    BY <1>6, PcFacts DEF AskStats, AskScan, TakeScan, Started, StrayAt
  <2>2. pc' # "off" /\ ~SwitchRoute
    BY <1>6, PcFacts DEF AskStats, AskScan, TakeScan, Started, SwitchRoute
  <2> QED
    BY <1>1, <1>4, <2>1, <2>2
<1>7. CASE AskPut \/ TakePut
  <2>1. /\ pc \in {"transfer", "putWait"} /\ pc' \in {"transfer", "putWait"}
        /\ cur' = cur /\ dst' = dst /\ ~SwitchRoute
    BY <1>7 DEF AskPut, TakePut, localVars, SwitchRoute
  <2>2. StrayAt(n, k) => StrayAt(n, k)'
    BY <2>1 DEF StrayAt, InCur
  <2> QED
    BY <1>1, <1>4, <2>1, <2>2
<1>8. CASE SwitchRoute
  <2>1. pc = "transfer" /\ pc' = "flipSave" /\ cur' = cur /\ (InCur(k)' <=> InCur(k))
    BY <1>8 DEF SwitchRoute, localVars, InCur
  <2>2. CASE InCur(k)
    <3>1. Owner(k) = cur.node_id
      BY <2>1, <2>2, CurRoute, OwnerIs, PcFacts DEF RouteInv, CurOK
    <3>2. n = cur.node_id => StrayAt(n, k)'
      BY <2>1, <2>2 DEF StrayAt
    <3>3. StrayAt(n, k) => n = dst
      BY <2>1 DEF StrayAt
    <3> QED
      BY <1>1, <1>8, <2>2, <3>1, <3>2, <3>3, OwnerStep
  <2>3. CASE ~InCur(k)
    BY <1>1, <2>3, OwnerStep DEF StrayAt
  <2> QED
    BY <2>2, <2>3
<1>9. CASE SaveRoute \/ AskDelete
  <2>1. /\ pc \in {"flipSave", "delRange"} /\ pc' # "off" /\ ~SwitchRoute /\ pc \in MigrationPc
        /\ pc' = "delRange" \/ (pc' = "delWait" /\ requests'[cur.node_id] # <<>>)
        /\ cur' = cur
    BY <1>2, <1>3, <1>9, PcFacts DEF SaveRoute, AskDelete, localVars, SwitchRoute
  <2>2. StrayAt(n, k) => StrayAt(n, k)'
    BY <2>1 DEF StrayAt, InCur
  <2> QED
    BY <1>1, <1>4, <2>1, <2>2
<1>10. CASE Died
  BY <1>10, MasterNoCrash DEF DataInv
<1> QED
  BY <1>5, <1>6, <1>7, <1>8, <1>9, <1>10 DEF MasterKind

\* SCAN and PUTs: what is to be copied and what has arrived are fresh together.
LEMMA MasterMove ==
    ASSUME IInv, IInv', LinkInv, RouteInv, DataInv, MasterKind, UNCHANGED <<nodeVars, envVars>>
    PROVE  ScanOK' /\ MoveOK' /\ PutOK'
<1>0. UNCHANGED <<db, latest>> /\ \A v, k : Fresh(v, k)' <=> Fresh(v, k)
  BY DEF nodeVars, envVars, Fresh
<1>1. CASE AskScan
  <2>1. /\ pc' = "scanWait" /\ cur'.node_id \in DataNode /\ replies' = replies /\ AllSilent
    BY <1>1, PcFacts DEF AskScan, Sending, IInv, MInv, LocalsOK, Tablet
  <2>2. replies'[cur'.node_id] = <<>>
    BY <2>1 DEF AllSilent, Silent
  <2> QED
    BY <2>1, <2>2 DEF ScanOK, MoveOK, PutOK
<1>2. CASE TakeScan
  <2>1. /\ pc = "scanWait" /\ pc' = "transfer" /\ complete' = TRUE /\ UNCHANGED <<cur, dst>>
        /\ replies[cur.node_id] # <<>> /\ todo' = Head(replies[cur.node_id]).pairs
    BY <1>2 DEF TakeScan
  <2>2. cur.node_id \in DataNode /\ dst \in DataNode /\ dst # cur.node_id
    BY <2>1, PcFacts DEF IInv, MInv, LocalsOK, Tablet, RouteInv, CurOK
  <2>3. ASSUME NEW k \in Key, InCur(k)
        PROVE  Fresh(IF todo'[k] # NoValue THEN todo'[k] ELSE db[dst][k], k)
    <3>1. Fresh(todo'[k], k)
      BY <2>1, <2>3 DEF DataInv, ScanOK
    <3>2. CASE todo'[k] = NoValue /\ ~Crashes
      <4>1. Owner(k) = cur.node_id
        BY <2>1, <2>3, CurRoute, OwnerIs, PcFacts DEF RouteInv, CurOK
      <4>2. ~StrayAt(dst, k)
        BY <2>1 DEF StrayAt
      <4>3. db[dst][k] = NoValue
        BY <2>2, <3>2, <4>1, <4>2 DEF DataInv, Strays
      <4> QED
        BY <3>1, <3>2, <4>3
    <3>3. CASE todo'[k] = NoValue /\ Crashes
      BY <3>1, <3>3 DEF Fresh
    <3> QED
      BY <3>1, <3>2, <3>3
  <2>4. MoveOK'
    BY <1>0, <2>1, <2>3 DEF MoveOK, InCur, Fresh
  <2> QED
    BY <2>1, <2>4 DEF ScanOK, PutOK
<1>3. CASE AskPut
  <2>1. /\ pc = "transfer" /\ pc' = "putWait" /\ UNCHANGED localVars
        /\ dst \in DataNode /\ replies' = replies /\ AllSilent
    BY <1>3, PcFacts DEF AskPut, Sending, IInv, MInv, LocalsOK
  <2>2. replies'[dst'] = <<>>
    BY <2>1 DEF AllSilent, Silent, localVars
  <2>3. MoveOK'
    BY <1>0, <2>1 DEF DataInv, MoveOK, InCur, Fresh, localVars
  <2> QED
    BY <2>1, <2>2, <2>3 DEF ScanOK, PutOK
<1>4. CASE TakePut
  <2>1. /\ pc \in {"transfer", "putWait"} /\ pc' = "transfer" /\ UNCHANGED <<cur, dst>>
        /\ dst \in DataNode /\ todo \in Db
    BY <1>4, PcFacts DEF TakePut, IInv, MInv, LocalsOK, MasterTypeOK
  <2>2. PICK j \in Key :
          /\ NextPair(j)
          /\ todo' = [todo EXCEPT ![j] = NoValue]
          /\ \/ complete' = complete /\ pc = "putWait" /\ replies[dst] # <<>>
             \/ complete' = FALSE /\ conn[dst] # "open"
    BY <1>4 DEF TakePut
  <2>3. CASE complete' = complete /\ pc = "putWait" /\ replies[dst] # <<>>
    <3>1. db[dst][j] = todo[j] /\ todo[j] # NoValue
      BY <2>2, <2>3 DEF DataInv, PutOK, NextPair
    <3>2. \A k \in Key : todo'[k] = IF k = j THEN NoValue ELSE todo[k]
      BY <2>1, <2>2 DEF Db
    <3>3. \A k \in Key : (IF todo'[k] # NoValue THEN todo'[k] ELSE db[dst][k])
                           = (IF todo[k] # NoValue THEN todo[k] ELSE db[dst][k])
      BY <3>1, <3>2
    <3>4. MoveOK'
      BY <1>0, <2>1, <2>3, <3>3 DEF DataInv, MoveOK, InCur, Fresh
    <3> QED
      BY <2>1, <3>4 DEF ScanOK, PutOK
  <2>4. CASE complete' = FALSE /\ conn[dst] # "open"
    <3>1. Crashes
      BY <2>1, <2>4, PcFacts DEF DataInv, NoCrashOK
    <3> QED
      BY <2>1, <2>4, <3>1 DEF ScanOK, PutOK, MoveOK
  <2> QED
    BY <2>2, <2>3, <2>4
<1>5. CASE ToRest \/ AskStats \/ SwitchRoute \/ SaveRoute \/ AskDelete \/ Died \/ Started
  <2>1. pc' \notin {"scanWait", "transfer", "putWait"}
    BY <1>5, PcFacts DEF ToRest, AskStats, SwitchRoute, SaveRoute, AskDelete, Died, Die, Started
  <2> QED
    BY <2>1 DEF ScanOK, MoveOK, PutOK
<1> QED
  BY <1>1, <1>2, <1>3, <1>4, <1>5 DEF MasterKind

\* Every step of the Master keeps DataInv.
LEMMA MasterData ==
    ASSUME IInv, IInv', LinkInv, RouteInv, DataInv, MasterKind, UNCHANGED <<nodeVars, envVars>>,
           [Next]_vars
    PROVE  DataInv'
<1>1. NoCrashOK' /\ CommandsOK'
  BY MasterNoCrash, MasterCommands DEF DataInv
<1> QED
  BY <1>1, MasterCopies, MasterStrays, MasterMove DEF DataInv


-----------------------------------------------------------------------------
(* Steps of the DataNodes                                                  *)

\* What a DataNode may write on behalf of a Master: a pair at the destination
\* of the migration, nothing at its source, or, for a dead Master, anything
\* at a node that does not own the key.
Writes(m, k) ==
    \/ pc = "off" /\ Crashes /\ m # Owner(k)
    \/ pc = "putWait" /\ m = dst /\ NextPair(k) /\ db'[m][k] = todo[k]
    \/ pc = "delWait" /\ m = cur.node_id /\ InCur(k) /\ db'[m][k] = NoValue

\* Steps that leave the Master alone move no owner.
LEMMA SameOwner ==
    ASSUME UNCHANGED masterVars
    PROVE  /\ UNCHANGED <<pc, cur, dst, todo, complete, idx, tablets>>
           /\ \A k : Owner(k)' = Owner(k) /\ (InCur(k)' <=> InCur(k)) /\ (NextPair(k)' <=> NextPair(k))
<1>1. UNCHANGED <<pc, cur, dst, todo, complete, idx, tablets, tablet_file>>
  BY DEF masterVars, memVars, localVars
<1>2. \A k : Owner(k)' = Owner(k)
  BY <1>1 DEF Owner, RoutingTable, DurableTable
<1>3. \A k : (InCur(k)' <=> InCur(k)) /\ (NextPair(k)' <=> NextPair(k))
  BY <1>1 DEF InCur, NextPair
<1> QED
  BY <1>1, <1>2, <1>3

\* A handler changes only the keys its request touches, and how.
LEMMA EffectTouches ==
    ASSUME IInv, NEW n \in DataNode, NEW q \in Request, NEW k \in Key,
           HandleEffect(n, q)[k] # db[n][k]
    PROVE  /\ Touches(q, k)
           /\ q.op = "put" => HandleEffect(n, q)[k] = q.val
           /\ q.op = "delrange" => HandleEffect(n, q)[k] = NoValue
<1>1. db[n] \in Db
  BY DEF IInv, NodeTypeOK
<1>2. CASE n \in NoStorage \/ q.op \in {"stats", "scan"}
  BY <1>2 DEF HandleEffect
<1>3. CASE n \notin NoStorage /\ q.op = "put"
  BY <1>1, <1>3 DEF HandleEffect, Put, Touches, Db
<1>4. CASE n \notin NoStorage /\ q.op = "delrange"
  BY <1>1, <1>4 DEF HandleEffect, DeleteRange, Touches, Db
<1> QED
  BY <1>2, <1>3, <1>4 DEF Request

\* A crash inside a handler does part of what the handler does.
LEMMA CrashTouches ==
    ASSUME IInv, NEW n \in DataNode, NEW d \in CrashEffects(n), NEW k \in Key, d[k] # db[n][k]
    PROVE  /\ requests[n] # <<>> /\ Touches(Head(requests[n]), k)
           /\ Head(requests[n]).op = "put" => d[k] = Head(requests[n]).val
           /\ Head(requests[n]).op = "delrange" => d[k] = NoValue
<1>1. requests[n] # <<>>
  BY DEF CrashEffects
<1>2. requests[n] \in Seq(Request)
  BY DEF IInv, LinkTypeOK
<1>3. PICK q \in Request : q = Head(requests[n])
  BY <1>1, <1>2
<1>4. CASE q.op = "delrange" /\ n \notin NoStorage
  <2>1. PICK last \in Key : d = [j \in Key |-> IF InRange(j, q.start, q.end) /\ j <= last
                                              THEN NoValue ELSE db[n][j]]
    BY <1>1, <1>3, <1>4 DEF CrashEffects
  <2> QED
    BY <1>1, <1>3, <1>4, <2>1 DEF Touches
<1>5. CASE ~(q.op = "delrange" /\ n \notin NoStorage)
  <2>1. d = HandleEffect(n, q)
    BY <1>1, <1>3, <1>5 DEF CrashEffects
  <2> QED
    BY <1>1, <1>3, <2>1, EffectTouches
<1> QED
  BY <1>4, <1>5

\* The awaited request writes as Writes says.
LEMMA AwaitedWrites ==
    ASSUME IInv, RouteInv, pc \in WaitPc, NEW q \in Request, AwaitedRequest(q), NEW k \in Key,
           Touches(q, k), q.op = "put" => db'[Target][k] = q.val,
           q.op = "delrange" => db'[Target][k] = NoValue
    PROVE  Writes(Target, k)
<1>1. /\ InCur(k)
      /\ \/ pc = "putWait" /\ NextPair(k) /\ q = PutRequest(k, todo[k])
         \/ pc = "delWait" /\ q = RangeRequest("delrange", cur)
  BY TouchOwner
<1>2. CASE pc = "putWait" /\ NextPair(k) /\ q = PutRequest(k, todo[k])
  BY <1>2 DEF PutRequest, Writes, Target
<1>3. CASE pc = "delWait" /\ q = RangeRequest("delrange", cur)
  BY <1>1, <1>3 DEF RangeRequest, Writes, Target
<1> QED
  BY <1>1, <1>2, <1>3

\* Such writes leave the owners' copies and the pairs of a migration fresh.
LEMMA WritesKeep ==
    ASSUME IInv, RouteInv, DataInv, UNCHANGED masterVars, UNCHANGED envVars,
           \A m \in DataNode, k \in Key : db'[m][k] = db[m][k] \/ Writes(m, k)
    PROVE  CommandsOK' /\ Copies' /\ MoveOK' /\ FlipOK'
<1>0. /\ UNCHANGED <<latest, client>> /\ \A v, k : Fresh(v, k)' <=> Fresh(v, k)
      /\ UNCHANGED <<pc, cur, dst, todo, complete, idx, tablets>>
      /\ \A k : Owner(k)' = Owner(k) /\ (InCur(k)' <=> InCur(k)) /\ (NextPair(k)' <=> NextPair(k))
  BY SameOwner DEF envVars, Fresh
<1>1. CommandsOK'
  BY <1>0 DEF DataInv, CommandsOK, NoCommand
<1>2. \A k \in Key : Owner(k) \in DataNode
  BY OwnerType
<1>3. ASSUME NEW k \in Key PROVE db'[Owner(k)][k] = db[Owner(k)][k]
  <2>1. CASE pc \in {"putWait", "delWait"} /\ InCur(k)
    <3>1. Owner(k) = IF pc = "putWait" THEN cur.node_id ELSE dst
      BY <2>1, CurRoute, OwnerIs, PcFacts DEF RouteInv, CurOK, FlippedPc
    <3>2. dst # cur.node_id
      BY <2>1, PcFacts DEF RouteInv, CurOK
    <3> QED
      BY <1>2, <2>1, <3>1, <3>2 DEF Writes
  <2>2. CASE ~(pc \in {"putWait", "delWait"} /\ InCur(k))
    <3>1. pc = "putWait" /\ NextPair(k) => InCur(k)
      BY DEF RouteInv, PairsOK, NextPair
    <3> QED
      BY <1>2, <2>2, <3>1 DEF Writes
  <2> QED
    BY <2>1, <2>2
<1>4. Copies'
  BY <1>0, <1>3 DEF DataInv, Copies, Fresh
<1>5. ASSUME pc \in {"transfer", "putWait"}, NEW k \in Key
      PROVE  (IF todo[k] # NoValue THEN todo[k] ELSE db'[dst][k])
               = (IF todo[k] # NoValue THEN todo[k] ELSE db[dst][k])
  <2>1. dst \in DataNode
    BY <1>5, PcFacts DEF IInv, MInv, LocalsOK
  <2>2. db'[dst][k] = db[dst][k] \/ NextPair(k)
    BY <1>5, <2>1 DEF Writes
  <2> QED
    BY <2>2 DEF NextPair
<1>6. MoveOK'
  BY <1>0, <1>5 DEF DataInv, MoveOK, Fresh
<1>7. FlipOK'
  <2>1. pc = "flipSave" => cur.node_id \in DataNode
    BY PcFacts DEF IInv, MInv, LocalsOK, Tablet
  <2>2. pc = "flipSave" => \A k \in Key : db'[cur.node_id][k] = db[cur.node_id][k]
    BY <2>1 DEF Writes
  <2> QED
    BY <1>0, <2>2 DEF DataInv, FlipOK, Fresh
<1> QED
  BY <1>1, <1>4, <1>6, <1>7


\* Serving the awaited request: a SCAN sees the owner's copies, a PUT arrives,
\* a DELETE_RANGE clears the source.
LEMMA ServeData ==
    ASSUME IInv, LinkInv, RouteInv, DataInv, UNCHANGED <<masterVars, budget, envVars>>,
           NEW n \in DataNode, Serve(n)
    PROVE  DataInv'
<1>0. /\ UNCHANGED <<pc, cur, dst, todo, complete, idx, tablets, latest>>
      /\ \A k : Owner(k)' = Owner(k) /\ (InCur(k)' <=> InCur(k)) /\ (NextPair(k)' <=> NextPair(k))
      /\ \A v, k : Fresh(v, k)' <=> Fresh(v, k)
  BY SameOwner DEF envVars, Fresh
<1>1. /\ requests \in [DataNode -> Seq(Request)] /\ replies \in [DataNode -> Seq(Reply)]
      /\ db \in [DataNode -> Db]
  BY DEF IInv, LinkTypeOK, NodeTypeOK
<1>2. /\ pc \in WaitPc /\ n = Target /\ replies[n] = <<>>
      /\ Len(requests[n]) = 1 /\ AwaitedRequest(Head(requests[n]))
  BY ServeLink DEF LinkInv
<1>3. PICK q \in Request : q = Head(requests[n]) /\ AwaitedRequest(q)
  BY <1>1, <1>2, OneElement
<1>4. PICK r : r = HandleBinaryRequest(n, q)
  OBVIOUS
<1>5. /\ db' = [db EXCEPT ![n] = HandleEffect(n, q)] /\ requests'[n] = <<>>
      /\ replies' = [replies EXCEPT ![n] = Append(@, r)]
      /\ UNCHANGED <<conn, orphans, alive>>
  BY <1>1, <1>2, <1>3, <1>4, OneElement DEF Serve
<1>6. replies'[n] = Append(<<>>, r)
  BY <1>1, <1>2, <1>5
<1>7. Head(replies'[n]) = r
  BY <1>6
<1>8. \A m \in DataNode, k \in Key : db'[m][k] = IF m = n THEN HandleEffect(n, q)[k] ELSE db[m][k]
  BY <1>1, <1>5
<1>9. ASSUME NEW m \in DataNode, NEW k \in Key PROVE db'[m][k] = db[m][k] \/ Writes(m, k)
  BY <1>2, <1>3, <1>8, EffectTouches, AwaitedWrites
<1>10. CommandsOK' /\ Copies' /\ MoveOK' /\ FlipOK'
  BY <1>9, WritesKeep
<1>11. NoCrashOK'
  BY <1>0, <1>5 DEF DataInv, NoCrashOK
<1>12. ScanOK'
  <2> SUFFICES ASSUME pc = "scanWait", NEW k \in Key, InCur(k) PROVE Fresh(r.pairs[k], k)
    BY <1>0, <1>2, <1>7 DEF ScanOK, Target, Fresh
  <2>1. q = RangeRequest("scan", cur) /\ n = cur.node_id /\ n \notin NoStorage
    BY <1>2, <1>3 DEF AwaitedRequest, Target, DataInv
  <2>2. r.pairs = RangeQuery(db[n], cur.start_key, cur.end_key)
    BY <1>4, <2>1 DEF HandleBinaryRequest, ScanRangeReply, RangeRequest
  <2>3. r.pairs[k] = db[n][k]
    BY <2>2 DEF RangeQuery, InCur
  <2>4. Owner(k) = n
    BY <2>1, CurRoute, OwnerIs, PcFacts DEF RouteInv, CurOK
  <2> QED
    BY <2>3, <2>4 DEF DataInv, Copies
<1>13. PutOK'
  <2> SUFFICES ASSUME pc = "putWait", NEW k \in Key, NextPair(k) PROVE db'[dst][k] = todo[k]
    BY <1>0 DEF PutOK
  <2>1. PICK j \in Key : NextPair(j) /\ q = PutRequest(j, todo[j])
    BY <1>3 DEF AwaitedRequest
  <2>2. k = j
    BY <2>1 DEF NextPair, Key
  <2>3. n = dst /\ n \notin NoStorage /\ db[n] \in Db
    BY <1>1, <1>2 DEF Target, DataInv
  <2>4. HandleEffect(n, q) = Put(db[n], j, todo[j])
    BY <2>1, <2>3 DEF HandleEffect, PutRequest
  <2> QED
    BY <1>8, <2>2, <2>3, <2>4 DEF Put, Db
<1>14. Strays'
  <2> SUFFICES ASSUME ~Crashes, NEW m \in DataNode, NEW k \in Key, db'[m][k] # NoValue
               PROVE  m = Owner(k) \/ StrayAt(m, k)'
    BY <1>0 DEF Strays
  <2>1. CASE pc = "delWait" /\ m = cur.node_id /\ InCur(k)
    <3>1. q = RangeRequest("delrange", cur) /\ n = m /\ n \notin NoStorage
      BY <1>2, <1>3, <2>1 DEF AwaitedRequest, Target, DataInv
    <3>2. HandleEffect(n, q) = DeleteRange(db[n], cur.start_key, cur.end_key)
      BY <3>1 DEF HandleEffect, RangeRequest
    <3>3. db'[m][k] = NoValue
      BY <1>8, <2>1, <3>1, <3>2 DEF DeleteRange, InCur
    <3> QED
      BY <3>3
  <2>2. CASE pc = "putWait" /\ m = dst /\ InCur(k)
    BY <1>0, <2>2 DEF StrayAt
  <2>3. CASE ~(pc = "delWait" /\ m = cur.node_id /\ InCur(k)) /\ ~(pc = "putWait" /\ m = dst /\ InCur(k))
    <3>1. pc = "putWait" /\ NextPair(k) => InCur(k)
      BY DEF RouteInv, PairsOK, NextPair
    <3>2. db'[m][k] = db[m][k]
      BY <1>9, <2>3, <3>1 DEF Writes
    <3>3. m = Owner(k) \/ StrayAt(m, k)
      BY <3>2 DEF DataInv, Strays
    <3>4. StrayAt(m, k) => StrayAt(m, k)'
      BY <1>0, <2>3 DEF StrayAt
    <3> QED
      BY <3>3, <3>4
  <2> QED
    BY <2>1, <2>2, <2>3
<1> QED
  BY <1>10, <1>11, <1>12, <1>13, <1>14 DEF DataInv

\* The other steps of a DataNode happen after a crash, or lose what was asked.
LEMMA OtherNodeData ==
    ASSUME IInv, LinkInv, RouteInv, DataInv, UNCHANGED <<masterVars, envVars>>, [Next]_vars,
           NEW n \in DataNode,
           ServeOrphan(n) \/ DiscardOrphans(n) \/ NodeCrash(n) \/ NodeRestart(n)
    PROVE  DataInv'
<1>0. /\ UNCHANGED <<pc, cur, dst, todo, complete, idx, tablets, latest>>
      /\ \A k : Owner(k)' = Owner(k) /\ (InCur(k)' <=> InCur(k)) /\ (NextPair(k)' <=> NextPair(k))
      /\ \A v, k : Fresh(v, k)' <=> Fresh(v, k)
  BY SameOwner DEF envVars, Fresh
<1>1. /\ requests \in [DataNode -> Seq(Request)] /\ replies \in [DataNode -> Seq(Reply)]
      /\ db \in [DataNode -> Db] /\ orphans \in [DataNode -> Seq(Request)]
  BY DEF IInv, LinkTypeOK, NodeTypeOK
<1>2. Crashes
  BY DEF DataInv, NoCrashOK, ServeOrphan, DiscardOrphans, NodeCrash, NodeRestart, Spend
<1>3. NoCrashOK' /\ Strays'
  BY <1>2 DEF NoCrashOK, Strays
<1>4. UNCHANGED replies
  BY DEF ServeOrphan, DiscardOrphans, NodeCrash, NodeRestart, linkVars
<1>5. ASSUME NEW m \in DataNode, NEW k \in Key
      PROVE  /\ db'[m][k] = db[m][k] \/ Writes(m, k)
             /\ replies[m] # <<>> => db'[m][k] = db[m][k]
  <2>1. CASE ServeOrphan(n)
    <3>1. orphans[n] # <<>> /\ pc = "off"
      BY <2>1 DEF ServeOrphan, RouteInv, OrphansOK
    <3>2. PICK q \in Request : q = Head(orphans[n]) /\ q = orphans[n][1] /\ 1 \in DOMAIN orphans[n]
      BY <1>1, <3>1
    <3>3. db' = [db EXCEPT ![n] = HandleEffect(n, q)]
      BY <2>1, <3>2 DEF ServeOrphan
    <3>4. HandleEffect(n, q)[k] # db[n][k] => DurableNode(k) # n
      BY <3>2, EffectTouches DEF RouteInv, OrphansOK, Harmless
    <3>5. db'[m][k] = db[m][k] \/ Writes(m, k)
      BY <1>1, <1>2, <3>1, <3>3, <3>4, OwnerIs DEF Writes
    <3>6. replies[m] = <<>>
      BY <3>1, PcFacts DEF LinkInv, Silent
    <3> QED
      BY <3>5, <3>6
  <2>2. CASE NodeCrash(n)
    <3>1. PICK d \in CrashEffects(n) : db' = [db EXCEPT ![n] = d]
      BY <2>2 DEF NodeCrash
    <3>2. db'[m][k] = IF m = n THEN d[k] ELSE db[m][k]
      BY <1>1, <3>1
    <3>3. CASE m = n /\ d[k] # db[n][k]
      <4>1. /\ requests[n] # <<>> /\ Touches(Head(requests[n]), k)
            /\ Head(requests[n]).op = "put" => d[k] = Head(requests[n]).val
            /\ Head(requests[n]).op = "delrange" => d[k] = NoValue
        BY <3>3, CrashTouches
      <4>2. pc \in WaitPc /\ n = Target
        BY <4>1 DEF LinkInv, Silent
      <4>3. replies[n] = <<>> /\ AwaitedRequest(Head(requests[n]))
        BY <4>1, <4>2 DEF LinkInv, OneFrame, Silent
      <4>4. PICK q \in Request : q = Head(requests[n])
        BY <1>1, <4>1
      <4>5. Writes(n, k)
        BY <3>2, <3>3, <4>1, <4>2, <4>3, <4>4, AwaitedWrites
      <4> QED
        BY <3>3, <4>3, <4>5
    <3> QED
      BY <3>2, <3>3
  <2>3. CASE DiscardOrphans(n) \/ NodeRestart(n)
    BY <2>3 DEF DiscardOrphans, NodeRestart, nodeVars
  <2> QED
    BY <2>1, <2>2, <2>3
<1>6. CommandsOK' /\ Copies' /\ MoveOK' /\ FlipOK'
  BY <1>5, WritesKeep
<1>7. ScanOK'
  BY <1>0, <1>4 DEF DataInv, ScanOK, Fresh
<1>8. PutOK'
  <2>1. pc = "putWait" => dst \in DataNode
    BY PcFacts DEF IInv, MInv, LocalsOK
  <2> QED
    BY <1>0, <1>4, <1>5, <2>1 DEF DataInv, PutOK
<1> QED
  BY <1>3, <1>6, <1>7, <1>8 DEF DataInv


-----------------------------------------------------------------------------
(* Steps of the clients                                                    *)

\* Steps that change no data, no stream and nothing of the Master.
LEMMA QuietData ==
    ASSUME DataInv, UNCHANGED <<masterVars, linkVars, db, alive, latest>>, CommandsOK',
           budget'.master_crashes = budget.master_crashes,
           budget'.node_crashes = budget.node_crashes
    PROVE  DataInv'
<1>0. /\ UNCHANGED <<pc, cur, dst, todo, complete, idx, tablets>>
      /\ \A k : Owner(k)' = Owner(k) /\ (InCur(k)' <=> InCur(k)) /\ (NextPair(k)' <=> NextPair(k))
      /\ \A v, k : Fresh(v, k)' <=> Fresh(v, k)
      /\ UNCHANGED <<conn, requests, replies, orphans>>
  BY SameOwner DEF Fresh, linkVars
<1>1. NoCrashOK' /\ Copies' /\ FlipOK'
  BY <1>0 DEF DataInv, NoCrashOK, Copies, FlipOK, Fresh
<1>2. Strays'
  BY <1>0 DEF DataInv, Strays, StrayAt
<1>3. ScanOK' /\ MoveOK' /\ PutOK'
  BY <1>0 DEF DataInv, ScanOK, MoveOK, PutOK, Fresh
<1> QED
  BY <1>1, <1>2, <1>3 DEF DataInv

\* A command is routed to the owner of its key, outside migrations.
LEMMA RouteData ==
    ASSUME IInv, DataInv, NEW c \in Client, ClientRoute(c)
    PROVE  DataInv'
<1>0. /\ UNCHANGED <<masterVars, linkVars, db, alive, latest>>
      /\ \A k : Owner(k)' = Owner(k) /\ pc' = pc
  BY SameOwner DEF ClientRoute, nodeVars
<1>1. pc \notin MigrationPc /\ pc # "off"
  BY ClusterAssumption, PcFacts, NoPcClash DEF ClientRoute, InWindow, DataInv
<1>2. PICK op \in {"put", "get", "delete"}, k \in Key, v \in Value :
        client' = [client EXCEPT ![c] =
            [op |-> op, key |-> k, val |-> IF op = "put" THEN v ELSE NoValue,
             node |-> GetTabletRoute(tablets, k).node_id]]
  BY DEF ClientRoute
<1>3. client \in [Client -> Command] /\ GetTabletRoute(tablets, k).node_id = Owner(k)
  BY <1>1, OwnerIs DEF IInv, ClientOK, MemNode
<1>4. /\ client'[c] = [op |-> op, key |-> k, val |-> IF op = "put" THEN v ELSE NoValue,
                       node |-> Owner(k)]
      /\ \A d \in Client : d # c => client'[d] = client[d]
  BY <1>2, <1>3
<1>5. CommandsOK'
  BY <1>0, <1>1, <1>4 DEF DataInv, CommandsOK
<1>6. UNCHANGED <<budget.master_crashes, budget.node_crashes>>
  BY DEF ClientRoute, Spend, IInv, BudgetOK
<1> QED
  BY <1>0, <1>5, <1>6, QuietData

\* A DataNode that is down fails the command.
LEMMA FailData ==
    ASSUME IInv, DataInv, NEW c \in Client, ClientFail(c)
    PROVE  DataInv'
<1>0. /\ UNCHANGED <<masterVars, linkVars, db, alive, latest, budget>>
      /\ \A k : Owner(k)' = Owner(k) /\ pc' = pc
  BY SameOwner DEF ClientFail, nodeVars
<1>1. client'[c] = Idle /\ \A d \in Client : d # c => client'[d] = client[d]
  BY DEF ClientFail, IInv, ClientOK
<1>2. CommandsOK'
  BY <1>0, <1>1 DEF DataInv, CommandsOK, NoCommand
<1> QED
  BY <1>0, <1>2, QuietData

\* A command is executed by the owner of its key, outside migrations.
LEMMA ExecuteData ==
    ASSUME IInv, DataInv, NEW c \in Client, ClientExecute(c)
    PROVE  DataInv'
<1> DEFINE cmd == client[c]
<1>0. /\ UNCHANGED <<masterVars, linkVars, alive, budget>>
      /\ UNCHANGED <<pc, conn, orphans>>
      /\ \A k : Owner(k)' = Owner(k)
  BY SameOwner DEF ClientExecute, linkVars
<1>1. /\ client \in [Client -> Command] /\ db \in [DataNode -> Db] /\ latest \in Db
      /\ client'[c] = Idle /\ \A d \in Client : d # c => client'[d] = client[d]
  BY DEF ClientExecute, IInv, ClientOK, NodeTypeOK
<1>2. cmd # Idle /\ cmd.key \in Key /\ cmd.node = Owner(cmd.key)
      /\ (cmd.op # "put" => cmd.val = NoValue) /\ cmd.node \in DataNode
  BY OwnerType DEF ClientExecute, DataInv, CommandsOK
<1>3. pc \notin MigrationPc
  BY <1>2 DEF DataInv, CommandsOK, NoCommand
<1>4. CommandsOK'
  BY <1>0, <1>1 DEF DataInv, CommandsOK, NoCommand
<1>5. CASE UNCHANGED <<db, latest>>
  BY <1>0, <1>4, <1>5, QuietData
<1>6. CASE /\ db' = [db EXCEPT ![cmd.node] = IF cmd.op = "put" THEN Put(@, cmd.key, cmd.val)
                                                             ELSE Delete(@, cmd.key)]
           /\ latest' = [latest EXCEPT ![cmd.key] = cmd.val]
  <2>1. \A n \in DataNode, k \in Key :
           db'[n][k] = IF n = cmd.node /\ k = cmd.key THEN cmd.val ELSE db[n][k]
    BY <1>1, <1>2, <1>6 DEF Put, Delete, Db
  <2>2. \A k \in Key : latest'[k] = IF k = cmd.key THEN cmd.val ELSE latest[k]
    BY <1>1, <1>2, <1>6 DEF Db
  <2> HIDE DEF cmd
  <2>3. Copies'
    <3> SUFFICES ASSUME NEW k \in Key
                 PROVE  \/ db'[Owner(k)][k] = latest'[k]
                        \/ Crashes /\ latest'[k] = NoValue
      BY <1>0 DEF Copies, Fresh
    <3>1. Owner(k) \in DataNode /\ Fresh(db[Owner(k)][k], k)
      BY OwnerType DEF DataInv, Copies
    <3> QED
      BY <1>2, <2>1, <2>2, <3>1 DEF Fresh
  <2>4. Strays'
    <3> SUFFICES ASSUME ~Crashes, NEW n \in DataNode, NEW k \in Key, db'[n][k] # NoValue
                 PROVE  n = Owner(k)
      BY <1>0 DEF Strays
    <3>1. ~StrayAt(n, k)
      BY <1>3, PcFacts DEF StrayAt
    <3> QED
      BY <1>2, <2>1, <3>1 DEF DataInv, Strays
  <2>5. ScanOK' /\ MoveOK' /\ PutOK' /\ FlipOK'
    BY <1>0, <1>3, PcFacts DEF ScanOK, MoveOK, PutOK, FlipOK
  <2>6. NoCrashOK'
    BY <1>0 DEF DataInv, NoCrashOK
  <2> QED
    BY <1>4, <2>3, <2>4, <2>5, <2>6 DEF DataInv
<1> QED
  BY <1>5, <1>6 DEF ClientExecute

-----------------------------------------------------------------------------
(* DataInv always holds                                                    *)

\* Every step keeps DataInv.
LEMMA DataNext == IInv /\ IInv' /\ LinkInv /\ RouteInv /\ DataInv /\ [Next]_vars => DataInv'
<1> SUFFICES ASSUME IInv, IInv', LinkInv, RouteInv, DataInv, [Next]_vars PROVE DataInv'
  OBVIOUS
<1>1. CASE StartMaster \/ WakeUp \/ Balance \/ Migrate \/ KillMaster
  <2>1. UNCHANGED <<nodeVars, envVars>>
    BY <1>1 DEF StartMaster, WakeUp, Balance, Migrate, KillMaster
  <2> QED
    BY <1>1, <2>1, MasterKinds, MasterData
<1>2. ASSUME NEW n \in DataNode,
             \/ ServeNode(n) \/ ServeOrphanOf(n) \/ DiscardOrphansOf(n)
             \/ KillNode(n) \/ StartNode(n)
      PROVE  DataInv'
  BY <1>2, ServeData, OtherNodeData
     DEF ServeNode, ServeOrphanOf, DiscardOrphansOf, KillNode, StartNode
<1>3. ASSUME NEW c \in Client, ClientRoute(c) \/ ClientExecute(c) \/ ClientFail(c)
      PROVE  DataInv'
  BY <1>3, RouteData, ExecuteData, FailData
<1>4. CASE UNCHANGED vars
  <2>1. UNCHANGED <<masterVars, linkVars, db, alive, latest, client, budget>>
    BY <1>4 DEF vars, nodeVars
  <2>2. CommandsOK'
    BY <2>1, SameOwner DEF DataInv, CommandsOK, NoCommand
  <2> QED
    BY <2>1, <2>2, QuietData
<1> QED
  BY <1>1, <1>2, <1>3, <1>4 DEF Next

\* Every storage opens, and clients stay out of the way of migrations.
SafeRun == GoodRun /\ NoStorage = {} /\ ClientWindow # "always"

\* The initial state satisfies DataInv.
LEMMA DataInit == SafeRun /\ Init => DataInv
<1> SUFFICES ASSUME SafeRun, Init PROVE DataInv
  OBVIOUS
<1>1. /\ pc = "off" /\ \A n \in DataNode : db[n] = EmptyDb /\ alive[n] /\ orphans[n] = <<>>
      /\ latest = EmptyDb /\ \A c \in Client : client[c] = Idle
  BY DEF Init, MasterInit, NodeInit, LinkInit
<1>2. NoCrashOK
  BY <1>1 DEF Init, NoCrashOK, Crashes
<1>3. CommandsOK /\ ScanOK /\ MoveOK /\ PutOK /\ FlipOK
  BY <1>1, PcFacts DEF CommandsOK, ScanOK, MoveOK, PutOK, FlipOK
<1>4. \A k \in Key : Owner(k) \in DataNode
  BY InitInv, OwnerType
<1>5. Copies /\ Strays
  BY <1>1, <1>4 DEF Copies, Strays, Fresh, EmptyDb
<1> QED
  BY <1>2, <1>3, <1>5 DEF DataInv, SafeRun

\* DataInv holds in every state of a safe run.
LEMMA DataAlways == SafeRun /\ Spec => []DataInv
<1>1. SafeRun => GoodRun /\ MaxTimeouts = 0
  BY DEF SafeRun, GoodRun
<1> QED
  BY <1>1, DataInit, DataNext, InductiveInvariant, LinkAlways, RouteAlways, PTL DEF Spec

\* A value that was PUT and not deleted is on the node its key is routed to,
\* whenever and however often the Master and DataNodes crash, also in the
\* middle of a handler or of a migration: the source is cleaned only of what
\* has arrived, and only once the new route is saved.
THEOREM PutsSurviveAlways == SafeRun /\ Spec => []PutsSurvive
<1>1. DataInv => PutsSurvive
  BY DEF DataInv, Copies, Fresh, PutsSurvive
<1> QED
  BY <1>1, DataAlways, PTL

\* A safe run in which no process ends.
CalmRun == SafeRun /\ MaxMasterCrashes = 0 /\ MaxNodeCrashes = 0

\* Without crashes the owner of a key holds exactly the last value written,
\* and nothing after a DELETE, also in the middle of a migration.
THEOREM OwnerHoldsLatestAlways == CalmRun /\ Spec => []OwnerHoldsLatest
<1> SUFFICES ASSUME CalmRun PROVE Spec => []OwnerHoldsLatest
  OBVIOUS
<1>1. DataInv => OwnerHoldsLatest
  BY DEF CalmRun, DataInv, Copies, Fresh, Crashes, OwnerHoldsLatest
<1>2. SafeRun
  BY DEF CalmRun
<1> QED
  BY <1>1, <1>2, DataAlways, PTL

\* Without crashes a node stores keys of its own tablets only between two
\* passes of the balancer: MigrateTablet cleans up all it has moved.
THEOREM NoStrayDataAlways == CalmRun /\ Spec => []NoStrayData
<1> SUFFICES ASSUME CalmRun PROVE Spec => []NoStrayData
  OBVIOUS
<1>1. DataInv => NoStrayData
  <2> SUFFICES ASSUME DataInv, pc = "sleep", NEW n \in DataNode, NEW k \in Key,
                      db[n][k] # NoValue
               PROVE  Owner(k) = n
    BY DEF NoStrayData
  <2>1. ~StrayAt(n, k)
    BY DEF StrayAt
  <2> QED
    BY <2>1 DEF CalmRun, DataInv, Strays, Crashes
<1>2. SafeRun
  BY DEF CalmRun
<1> QED
  BY <1>1, <1>2, DataAlways, PTL


-----------------------------------------------------------------------------
(* Key counts                                                              *)

\* RangeStats' median cuts the keys of a range as TrySplitTablet's arithmetic
\* assumes: count / 2 keys below it, the rest from it on.
LEMMA MedianCuts ==
    ASSUME NEW d \in Db, NEW s \in Bound, NEW e \in Bound, NEW m,
           m = MedianKey(d, s, e), m # Empty
    PROVE  /\ RangeCount(d, s, m) = LeftCount(RangeCount(d, s, e))
           /\ RangeCount(d, m, e) = RightCount(RangeCount(d, s, e))
<1> DEFINE keys == KeysOf(RangeQuery(d, s, e))
           low == {j \in keys : j < m}
<1>1. \A a, b : KeysOf(RangeQuery(d, a, b)) = {k \in Key : InRange(k, a, b) /\ d[k] # NoValue}
  BY DEF KeysOf, RangeQuery
<1>2. m \in keys /\ Cardinality(low) = Cardinality(keys) \div 2
  <2> DEFINE mid == {k \in keys : Cardinality({j \in keys : j < k}) = Cardinality(keys) \div 2}
  <2>1. m = OneOf(mid)
    BY DEF MedianKey
  <2> HIDE DEF keys
  <2>2. m \in mid
    BY <2>1 DEF OneOf
  <2> QED
    BY <2>2
<1>3. /\ m \in Nat /\ m \in Key /\ s \in Nat /\ e \in Nat /\ Key \subseteq Nat
      /\ s <= m /\ (e # Empty => m < e) /\ Empty = 0
  BY <1>1, <1>2, MaxKeyAssumption DEF InRange, Key, Bound, Empty
<1>4. \A k \in Key : /\ InRange(k, s, m) <=> InRange(k, s, e) /\ k < m
                     /\ InRange(k, m, e) <=> InRange(k, s, e) /\ ~(k < m)
  BY <1>3 DEF InRange
<1>5. KeysOf(RangeQuery(d, s, m)) = low /\ KeysOf(RangeQuery(d, m, e)) = keys \ low
  <2>1. /\ keys = {k \in Key : InRange(k, s, e) /\ d[k] # NoValue}
        /\ KeysOf(RangeQuery(d, s, m)) = {k \in Key : InRange(k, s, m) /\ d[k] # NoValue}
        /\ KeysOf(RangeQuery(d, m, e)) = {k \in Key : InRange(k, m, e) /\ d[k] # NoValue}
    BY <1>1
  <2> HIDE DEF keys
  <2> QED
    BY <1>4, <2>1
<1>6. IsFiniteSet(keys) /\ IsFiniteSet(low) /\ Cardinality(keys) \in Nat
  <2>1. keys \in SUBSET Key /\ low \in SUBSET Key
    BY DEF KeysOf
  <2> HIDE DEF keys, low
  <2> QED
    BY <2>1, KeyFacts, FS_Subset
<1>7. Cardinality(keys \ low) = Cardinality(keys) - Cardinality(low)
  <2>1. keys \cap low = low
    OBVIOUS
  <2> HIDE DEF keys, low
  <2> QED
    BY <1>6, <2>1, FS_Difference
<1> QED
  BY <1>2, <1>5, <1>7 DEF RangeCount, LeftCount, RightCount

\* The entry of a tablet counts exactly the keys its node holds in its range.
Exact(d, t) == t.key_count = RangeCount(d[t.node_id], t.start_key, t.end_key)

\* What a STATS reply says of the tablet the balancer asked about.
StatsOK(r) ==
    /\ r.ok /\ r.req.op = "stats"
    /\ r.count = RangeCount(db[cur.node_id], cur.start_key, cur.end_key)
    /\ r.first = MedianKey(db[cur.node_id], cur.start_key, cur.end_key)

SplitPc == {"split", "splitWait", "splitSave", "balance"}

\* No command runs while the balancer is awake; the entries that have been
\* synchronised stay exact, through splits too.
CountInv ==
    /\ ClientWindow = "asleep" /\ ~Crashes
    /\ pc \notin {"off", "sleep"} => NoCommand
    /\ pc \in {"off", "sleep"} => idx = 1
    /\ pc \in {"sync", "syncWait"} =>
          \A i \in DOMAIN tablets : i < idx => Exact(db, tablets[i])
    /\ pc \in SplitPc => \A i \in DOMAIN tablets : Exact(db, tablets[i])
    /\ pc \in {"syncWait", "splitWait"} /\ replies[cur.node_id] # <<>> =>
          StatsOK(Head(replies[cur.node_id]))

\* Splitting an exact tablet at its median gives two exact tablets.
LEMMA SplitExact ==
    ASSUME NEW d \in [DataNode -> Db], NEW ts \in Seq(Tablet), NEW i \in DOMAIN ts,
           NEW old \in Tablet, Exact(d, old), NEW m,
           m = MedianKey(d[old.node_id], old.start_key, old.end_key), m # Empty,
           NEW id \in Nat, \A j \in DOMAIN ts : Exact(d, ts[j])
    PROVE  LET us == SplitTablet(ts, i, old, m, id)
           IN  \A j \in DOMAIN us : Exact(d, us[j])
<1> DEFINE us == SplitTablet(ts, i, old, m, id)
<1>1. /\ old.start_key \in Bound /\ old.end_key \in Bound /\ old.node_id \in DataNode
      /\ d[old.node_id] \in Db
  BY DEF Tablet
<1>2. /\ RangeCount(d[old.node_id], old.start_key, m) = LeftCount(old.key_count)
      /\ RangeCount(d[old.node_id], m, old.end_key) = RightCount(old.key_count)
  BY <1>1, MedianCuts DEF Exact
<1> SUFFICES ASSUME NEW j \in DOMAIN us PROVE Exact(d, us[j])
  OBVIOUS
<1>3. j \in 1..(Len(ts) + 1) /\ DOMAIN ts = 1..Len(ts) /\ Len(ts) \in Nat /\ i \in 1..Len(ts)
  BY DEF SplitTablet
<1>4. CASE j < i
  <2>1. us[j] = ts[j] /\ j \in DOMAIN ts
    BY <1>3, <1>4 DEF SplitTablet
  <2> QED
    BY <2>1
<1>5. CASE j = i
  <2>1. us[j] = [old EXCEPT !.id = id, !.end_key = m, !.key_count = LeftCount(old.key_count)]
    BY <1>3, <1>5 DEF SplitTablet
  <2> QED
    BY <1>2, <2>1 DEF Exact, Tablet
<1>6. CASE j = i + 1
  <2>1. us[j] = [old EXCEPT !.id = id + 1, !.start_key = m, !.key_count = RightCount(old.key_count)]
    BY <1>3, <1>6 DEF SplitTablet
  <2> QED
    BY <1>2, <2>1 DEF Exact, Tablet
<1>7. CASE j > i + 1
  <2>1. us[j] = ts[j - 1] /\ j - 1 \in DOMAIN ts
    BY <1>3, <1>7 DEF SplitTablet
  <2> QED
    BY <2>1
<1> QED
  BY <1>3, <1>4, <1>5, <1>6, <1>7

\* In a calm run connections stay open, no call fails and nothing ends.
LEMMA CalmCalls ==
    ASSUME IInv, LinkInv, DataInv, ~Crashes, pc # "off", NEW n \in DataNode
    PROVE  conn[n] = "open" /\ ~SendFails(n) /\ ~RecvFails(n)
<1>1. conn[n] = "open"
  BY DEF DataInv, NoCrashOK
<1> QED
  BY <1>1 DEF SendFails, RecvFails, Spend, LinkInv


\* A STATS reply taken by the balancer is the one it waits for, and exact.
LEMMA TakeStats ==
    ASSUME IInv, CountInv, pc \in {"syncWait", "splitWait"}, RecvFrame(cur.node_id)
    PROVE  /\ cur \in Tablet /\ idx \in DOMAIN tablets
           /\ Head(replies[cur.node_id]) \in Reply /\ StatsOK(Head(replies[cur.node_id]))
           /\ StatsDecodes(Head(replies[cur.node_id]))
<1>1. cur \in Tablet /\ idx \in DOMAIN tablets
  BY DEF IInv, MInv, LocalsOK, WaitPc
<1>2. cur.node_id \in DataNode
  BY <1>1 DEF Tablet
<1>3. Head(replies[cur.node_id]) \in Reply /\ replies[cur.node_id] # <<>>
  BY <1>2, RecvType DEF IInv, RecvFrame
<1>4. StatsOK(Head(replies[cur.node_id]))
  BY <1>3 DEF CountInv
<1> QED
  BY <1>1, <1>3, <1>4 DEF StatsOK, StatsDecodes

\* SyncAllTabletStats makes the entries exact one by one.
LEMMA SyncCount ==
    ASSUME IInv, LinkInv, RouteInv, DataInv, CountInv, UNCHANGED <<nodeVars, envVars>>,
           SyncSend \/ SyncReply \/ SyncTimeout \/ SyncDone
    PROVE  CountInv'
<1>0. /\ pc \in {"sync", "syncWait"} /\ db' = db /\ client' = client /\ NoCommand /\ ~Crashes
      /\ tablets \in Seq(Tablet) /\ idx \in Nat \ {0}
      /\ \A i \in DOMAIN tablets : i < idx => Exact(db, tablets[i])
      /\ pc # "off"
  BY DEF SyncSend, SyncReply, SyncTimeout, SyncDone, CountInv, nodeVars, envVars, IInv, MInv,
         MasterTypeOK
<1>1. NoCommand' /\ ClientWindow = "asleep"
  BY <1>0 DEF NoCommand, CountInv
<1>2. CASE SyncSend
  <2>1. idx \in DOMAIN tablets /\ pc \notin WaitPc /\ pc = "sync"
    BY <1>0, <1>2 DEF SyncSend, WaitPc
  <2>2. tablets[idx].node_id \in DataNode
    BY <1>0, <2>1, TabletFields
  <2>3. conn[tablets[idx].node_id] = "open" /\ ~SendFails(tablets[idx].node_id)
    BY <1>0, <2>2, CalmCalls
  <2>4. /\ Send(tablets[idx].node_id, RangeRequest("stats", tablets[idx]))
        /\ pc' = "syncWait" /\ cur' = tablets[idx] /\ idx' = idx /\ tablets' = tablets
    BY <1>2, <2>3 DEF SyncSend, Call, memVars
  <2>5. replies' = replies /\ replies[tablets[idx].node_id] = <<>>
    BY <2>1, <2>2, <2>4, RestIsSilent DEF Send, AllSilent, Silent
  <2> QED
    BY <1>0, <1>1, <2>4, <2>5 DEF CountInv, SplitPc
<1>3. CASE SyncReply
  <2> DEFINE r == Head(replies[cur.node_id])
  <2>1. /\ cur \in Tablet /\ idx \in DOMAIN tablets /\ StatsOK(r) /\ StatsDecodes(r)
        /\ pc = "syncWait"
    BY <1>3, TakeStats DEF SyncReply
  <2>2. /\ tablets' = [tablets EXCEPT ![idx].key_count = r.count]
        /\ pc' = "sync" /\ idx' = idx + 1
    BY <1>3, <2>1 DEF SyncReply, SyncNext
  <2>3. /\ tablets[idx].start_key = cur.start_key /\ tablets[idx].end_key = cur.end_key
        /\ tablets[idx].node_id = cur.node_id /\ tablets[idx] \in Tablet
    BY <1>0, <2>1, TabletFields DEF RouteInv, CurOK, WaitPc, FlippedPc
  <2>4. r.count = RangeCount(db[cur.node_id], cur.start_key, cur.end_key)
    BY <2>1 DEF StatsOK
  <2> HIDE DEF r
  <2>5. tablets'[idx] = [tablets[idx] EXCEPT !.key_count = r.count]
    BY <1>0, <2>1, <2>2
  <2>6. Exact(db, tablets'[idx])
    BY <2>3, <2>4, <2>5 DEF Exact, Tablet
  <2>7. \A i \in DOMAIN tablets' : i < idx' => Exact(db, tablets'[i])
    <3> SUFFICES ASSUME NEW i \in DOMAIN tablets', i < idx + 1 PROVE Exact(db, tablets'[i])
      BY <2>2
    <3>1. i \in DOMAIN tablets /\ i \in Nat /\ (i # idx => tablets'[i] = tablets[i])
      BY <1>0, <2>2
    <3>2. i = idx \/ i < idx
      BY <1>0, <3>1
    <3> QED
      BY <1>0, <2>6, <3>1, <3>2
  <2> QED
    BY <1>0, <1>1, <2>2, <2>7 DEF CountInv, SplitPc
<1>4. CASE SyncTimeout
  <2>1. cur.node_id \in DataNode /\ RecvFails(cur.node_id)
    BY <1>4 DEF SyncTimeout, IInv, MInv, LocalsOK, WaitPc, Tablet
  <2> QED
    BY <1>0, <2>1, CalmCalls
<1>5. CASE SyncDone
  <2>1. pc' = "split" /\ tablets' = tablets /\ idx > Len(tablets)
    BY <1>5 DEF SyncDone, memVars
  <2>2. \A i \in DOMAIN tablets : i < idx
    BY <1>0, <2>1
  <2> QED
    BY <1>0, <1>1, <2>1, <2>2 DEF CountInv
<1> QED
  BY <1>2, <1>3, <1>4, <1>5

\* Splits keep the entries exact although the halves are not counted again.
LEMMA SplitCount ==
    ASSUME IInv, LinkInv, RouteInv, DataInv, CountInv, UNCHANGED <<nodeVars, envVars>>,
           SplitSend \/ SplitReply \/ SplitTimeout \/ SplitSave \/ SplitDone
    PROVE  CountInv'
<1>0. /\ pc \in SplitPc /\ db' = db /\ client' = client /\ NoCommand /\ ~Crashes
      /\ tablets \in Seq(Tablet) /\ idx \in Nat \ {0} /\ db \in [DataNode -> Db]
      /\ \A i \in DOMAIN tablets : Exact(db, tablets[i])
      /\ pc # "off"
  BY DEF SplitSend, SplitReply, SplitTimeout, SplitSave, SplitDone, CountInv, SplitPc, nodeVars,
         envVars, IInv, MInv, MasterTypeOK, NodeTypeOK
<1>1. NoCommand' /\ ClientWindow = "asleep"
  BY <1>0 DEF NoCommand, CountInv
<1>2. CASE SplitSend
  <2>1. PICK i \in idx..Len(tablets) :
           Call(tablets[i].node_id, RangeRequest("stats", tablets[i]),
                /\ pc' = "splitWait" /\ idx' = i /\ cur' = tablets[i]
                /\ UNCHANGED <<dst, todo, complete>>,
                idx' = i + 1 /\ UNCHANGED <<pc, cur, dst, todo, complete>>)
    BY <1>2 DEF SplitSend
  <2>2. i \in DOMAIN tablets /\ pc \notin WaitPc
    BY <1>0, <1>2 DEF SplitSend, WaitPc
  <2>3. tablets[i].node_id \in DataNode
    BY <1>0, <2>2, TabletFields
  <2>4. conn[tablets[i].node_id] = "open" /\ ~SendFails(tablets[i].node_id)
    BY <1>0, <2>3, CalmCalls
  <2>5. /\ Send(tablets[i].node_id, RangeRequest("stats", tablets[i]))
        /\ pc' = "splitWait" /\ cur' = tablets[i] /\ tablets' = tablets
    BY <2>1, <2>4 DEF Call, memVars
  <2>6. replies' = replies /\ replies[tablets[i].node_id] = <<>>
    BY <2>2, <2>3, <2>5, RestIsSilent DEF Send, AllSilent, Silent
  <2> QED
    BY <1>0, <1>1, <2>5, <2>6 DEF CountInv
<1>3. CASE SplitReply
  <2> DEFINE r == Head(replies[cur.node_id])
             old == [cur EXCEPT !.key_count = r.count]
  <2>1. /\ cur \in Tablet /\ idx \in DOMAIN tablets /\ StatsOK(r) /\ r \in Reply
        /\ next_tablet_id \in Nat
    BY <1>3, TakeStats DEF SplitReply, IInv, MInv, MasterTypeOK
  <2>2. pc' \in {"split", "splitSave"}
    BY <1>3 DEF SplitReply
  <2>3. CASE tablets' = tablets
    BY <1>0, <1>1, <2>2, <2>3 DEF CountInv
  <2>4. CASE /\ tablets' = SplitTablet(tablets, idx, old, r.first, next_tablet_id)
             /\ CanSplitAt(cur, r.first)
    <3>1. /\ r.count \in Nat /\ r.first # Empty
          /\ r.count = RangeCount(db[cur.node_id], cur.start_key, cur.end_key)
          /\ r.first = MedianKey(db[cur.node_id], cur.start_key, cur.end_key)
      BY <2>1, <2>4 DEF Reply, StatsOK, CanSplitAt
    <3> HIDE DEF r
    <3>2. /\ old \in Tablet /\ Exact(db, old)
          /\ r.first = MedianKey(db[old.node_id], old.start_key, old.end_key)
      BY <2>1, <3>1 DEF Tablet, Exact
    <3> HIDE DEF old
    <3>3. \A j \in DOMAIN tablets' : Exact(db, tablets'[j])
      BY <1>0, <2>1, <2>4, <3>1, <3>2, SplitExact
    <3> QED
      BY <1>0, <1>1, <2>2, <3>3 DEF CountInv
  <2> QED
    BY <1>3, <2>3, <2>4 DEF SplitReply, memVars
<1>4. CASE SplitTimeout
  <2>1. cur.node_id \in DataNode /\ RecvFails(cur.node_id)
    BY <1>4 DEF SplitTimeout, IInv, MInv, LocalsOK, WaitPc, Tablet
  <2> QED
    BY <1>0, <2>1, CalmCalls
<1>5. CASE SplitSave \/ SplitDone
  <2>1. pc' \in {"split", "balance"} /\ tablets' = tablets
    BY <1>5 DEF SplitSave, SplitDone, memVars
  <2> QED
    BY <1>0, <1>1, <2>1 DEF CountInv
<1> QED
  BY <1>2, <1>3, <1>4, <1>5

\* Steps out of the balancer's count: asleep, dead, or migrating.
LEMMA RestCount ==
    ASSUME CountInv, UNCHANGED <<nodeVars, envVars>>,
           pc' \in {"off", "sleep"} => idx' = 1,
           pc' \in {"off", "sleep"} \cup MigrationPc,
           pc' \in MigrationPc => NoCommand
    PROVE  CountInv'
<1>1. pc' \notin {"sync", "syncWait", "splitWait"} \cup SplitPc
  BY DEF MigrationPc, SplitPc
<1>2. client' = client
  BY DEF envVars
<1> QED
  BY <1>1, <1>2, PcFacts DEF CountInv, NoCommand

\* Every step of the Master keeps CountInv.
LEMMA MasterCount ==
    ASSUME IInv, LinkInv, RouteInv, DataInv, CountInv, UNCHANGED <<nodeVars, envVars>>,
           StartMaster \/ WakeUp \/ Balance \/ Migrate \/ KillMaster
    PROVE  CountInv'
<1>1. CASE StartMaster
  BY <1>1, RestCount, NoPcClash DEF StartMaster, MasterStart, CountInv, localVars
<1>2. CASE WakeUp
  <2>1. /\ pc = "sleep" /\ pc' = "sync" /\ idx' = 1 /\ tablets' = tablets /\ NoCommand
        /\ UNCHANGED <<client, db>> /\ tablets \in Seq(Tablet)
    BY <1>2 DEF WakeUp, Wake, CountInv, memVars, localVars, envVars, nodeVars, IInv, MInv, MasterTypeOK
  <2>2. \A i \in DOMAIN tablets : ~(i < 1)
    BY <2>1
  <2> QED
    BY <2>1, <2>2 DEF CountInv, NoCommand, SplitPc
<1>3. CASE Migrate
  <2>1. NoCommand
    BY <1>3 DEF Migrate, CountInv
  <2>2. pc' = "scanWait" \/ (pc' \in {"sleep", "off"} /\ idx' = 1)
    BY <1>3 DEF Migrate, MigrateStart, Call, Sleep, ResetLocals, Die
  <2> QED
    BY <2>1, <2>2, RestCount, PcFacts, NoPcClash
<1>4. CASE KillMaster
  BY <1>4, RestCount, NoPcClash DEF KillMaster, MasterCrash, Die, ResetLocals
<1>5. CASE Balance
  <2>1. CASE SyncSend \/ SyncReply \/ SyncTimeout \/ SyncDone
    BY <2>1, SyncCount
  <2>2. CASE SplitSend \/ SplitReply \/ SplitTimeout \/ SplitSave \/ SplitDone
    BY <2>2, SplitCount
  <2>3. CASE BalanceIdle
    BY <2>3, RestCount, NoPcClash DEF BalanceIdle, Sleep, ResetLocals
  <2>4. CASE \/ ScanReply \/ ScanTimeout \/ TransferSend \/ PutReply \/ PutTimeout
             \/ TransferFailed \/ FlipRoute \/ FlipSave \/ SendDeleteRange \/ DeleteRangeDone
    <3>1. pc \in MigrationPc
      BY <2>4, PcFacts DEF ScanReply, ScanTimeout, TransferSend, PutReply, PutTimeout,
         TransferFailed, FlipRoute, FlipSave, SendDeleteRange, DeleteRangeDone
    <3>2. NoCommand
      BY <3>1 DEF DataInv, CommandsOK
    <3>3. \/ pc' \in {"transfer", "putWait", "flipSave", "delRange", "delWait"}
          \/ pc' \in {"sleep", "off"} /\ idx' = 1
      BY <2>4 DEF ScanReply, ScanTimeout, TransferSend, PutReply, PutTimeout, TransferFailed,
         FlipRoute, FlipSave, SendDeleteRange, DeleteRangeDone, Call, PairDone, Sleep, Die, ResetLocals
    <3> QED
      BY <3>2, <3>3, RestCount, PcFacts, NoPcClash
  <2> QED
    BY <1>5, <2>1, <2>2, <2>3, <2>4 DEF Balance, BalancerStep
<1> QED
  BY <1>1, <1>2, <1>3, <1>4, <1>5

\* Serving the STATS request changes no data and answers with exact numbers.
LEMMA ServeCount ==
    ASSUME IInv, LinkInv, DataInv, CountInv, UNCHANGED <<masterVars, budget, envVars>>,
           NEW n \in DataNode, Serve(n)
    PROVE  CountInv'
<1>0. /\ UNCHANGED <<pc, cur, idx, tablets>> /\ client' = client
  BY SameOwner DEF envVars
<1>1. /\ requests \in [DataNode -> Seq(Request)] /\ replies \in [DataNode -> Seq(Reply)]
      /\ db \in [DataNode -> Db]
  BY DEF IInv, LinkTypeOK, NodeTypeOK
<1>2. /\ pc \in WaitPc /\ n = Target /\ replies[n] = <<>>
      /\ Len(requests[n]) = 1 /\ AwaitedRequest(Head(requests[n]))
  BY ServeLink DEF LinkInv
<1>3. CASE pc \in {"syncWait", "splitWait"}
  <2>1. PICK q \in Request : q = Head(requests[n]) /\ q = RangeRequest("stats", cur)
    BY <1>1, <1>2, <1>3, OneElement DEF AwaitedRequest
  <2>2. PICK r : r = TabletStatsReply(n, q)
    OBVIOUS
  <2>3. HandleBinaryRequest(n, q) = r /\ HandleEffect(n, q) = db[n]
    BY <2>1, <2>2 DEF HandleBinaryRequest, HandleEffect, RangeRequest
  <2>4. db' = db /\ replies'[n] = Append(<<>>, r) /\ n = cur.node_id
    BY <1>1, <1>2, <1>3, <2>1, <2>3 DEF Serve, Target
  <2>5. Head(replies'[n]) = r
    BY <2>4
  <2>6. StatsOK(r)'
    BY <1>0, <2>1, <2>2, <2>4 DEF StatsOK, TabletStatsReply, RangeRequest, DataInv
  <2>7. StatsOK(Head(replies[cur.node_id]))'
    BY <1>0, <2>4, <2>5, <2>6 DEF StatsOK
  <2> QED
    BY <1>0, <2>4, <2>7 DEF CountInv, NoCommand
<1>4. CASE pc \notin {"syncWait", "splitWait"}
  <2>1. pc \in MigrationPc /\ pc \notin {"off", "sleep", "sync"} \cup SplitPc
    BY <1>2, <1>4 DEF WaitPc, MigrationPc, SplitPc
  <2> QED
    BY <1>0, <1>4, <2>1 DEF CountInv, NoCommand
<1> QED
  BY <1>3, <1>4

\* Every step keeps CountInv.
LEMMA CountNext ==
    IInv /\ LinkInv /\ RouteInv /\ DataInv /\ CountInv /\ [Next]_vars => CountInv'
<1> SUFFICES ASSUME IInv, LinkInv, RouteInv, DataInv, CountInv, [Next]_vars PROVE CountInv'
  OBVIOUS
<1>1. CASE StartMaster \/ WakeUp \/ Balance \/ Migrate \/ KillMaster
  <2>1. UNCHANGED <<nodeVars, envVars>>
    BY <1>1 DEF StartMaster, WakeUp, Balance, Migrate, KillMaster
  <2> QED
    BY <1>1, <2>1, MasterCount
<1>2. ASSUME NEW n \in DataNode, ServeNode(n) PROVE CountInv'
  BY <1>2, ServeCount DEF ServeNode
<1>3. ASSUME NEW n \in DataNode,
             ServeOrphanOf(n) \/ DiscardOrphansOf(n) \/ KillNode(n) \/ StartNode(n)
      PROVE  CountInv'
  BY <1>3 DEF ServeOrphanOf, DiscardOrphansOf, KillNode, StartNode, ServeOrphan, DiscardOrphans,
     NodeCrash, NodeRestart, Spend, DataInv, NoCrashOK, CountInv
<1>4. ASSUME NEW c \in Client, ClientRoute(c) \/ ClientExecute(c) \/ ClientFail(c)
      PROVE  CountInv'
  <2>1. pc \in {"off", "sleep"}
    BY <1>4 DEF ClientRoute, ClientExecute, ClientFail, InWindow, CountInv, NoCommand
  <2>2. UNCHANGED <<pc, idx>>
    BY <1>4 DEF ClientRoute, ClientExecute, ClientFail, masterVars, localVars
  <2> QED
    BY <2>1, <2>2 DEF CountInv, SplitPc
<1>5. CASE UNCHANGED vars
  <2>1. UNCHANGED <<pc, idx, tablets, db, cur, replies, client>>
    BY <1>5 DEF vars, masterVars, memVars, localVars, linkVars, nodeVars
  <2> QED
    BY <2>1 DEF CountInv, NoCommand, StatsOK
<1> QED
  BY <1>1, <1>2, <1>3, <1>4, <1>5 DEF Next

\* With commands only while the balancer sleeps, DoLoadBalance decides on
\* exact numbers: SyncAllTabletStats got every count, and the halves that
\* TrySplitTablet computes from a count and a median are what the node holds.
THEOREM CountsExactAlways == CalmRun /\ ClientWindow = "asleep" /\ Spec => []CountsExact
<1> SUFFICES ASSUME CalmRun, ClientWindow = "asleep" PROVE Spec => []CountsExact
  OBVIOUS
<1>1. Init => CountInv
  BY NoPcClash DEF Init, MasterInit, CountInv, CalmRun, Crashes, SplitPc
<1>2. CountInv => CountsExact
  BY DEF CountInv, CountsExact, Exact, SplitPc
<1>3. SafeRun /\ GoodRun /\ MaxTimeouts = 0
  BY DEF CalmRun, SafeRun, GoodRun
<1> QED
  BY <1>1, <1>2, <1>3, CountNext, DataAlways, RouteAlways, LinkAlways, InductiveInvariant, PTL
     DEF Spec


-----------------------------------------------------------------------------
(* The cluster implements a map.                                           *)

\* What clients see: the owners hold the latest values, and a waiting GET is at
\* the owner of its key.
Seen == OwnedStore = latest /\ NodeAnswer = Abstract!Answers(latest, Pending)

\* Clients see the latest values in every state of a calm run.
LEMMA SeenState ==
    ASSUME CalmRun, IInv, DataInv
    PROVE  Seen
<1>1. \A k \in Key : db[Owner(k)][k] = latest[k]
  BY DEF CalmRun, DataInv, Copies, Fresh, Crashes
<1>2. latest \in Db
  BY DEF IInv, ClientOK
<1>3. ASSUME NEW c \in Client, client[c].op = "get"
      PROVE  db[client[c].node][client[c].key] = latest[client[c].key]
  <2>1. client[c] # Idle
    BY <1>3 DEF Idle
  <2>2. client[c].key \in Key /\ client[c].node = Owner(client[c].key)
    BY <2>1 DEF DataInv, CommandsOK
  <2> QED
    BY <1>1, <2>2
<1>4. \A c \in Client : Pending[c].op = client[c].op /\ Pending[c].key = client[c].key
  BY DEF Pending
<1>5. OwnedStore = latest
  BY <1>1, <1>2 DEF OwnedStore, Db
<1> QED
  BY <1>3, <1>4, <1>5 DEF Seen, NodeAnswer, Abstract!Answers

\* A command that is routed begins.
LEMMA RouteBegins ==
    ASSUME IInv, NEW c \in Client, ClientRoute(c)
    PROVE  /\ Pending[c] = Abstract!None
           /\ \E op \in {"put", "get", "delete"}, k \in Key, v \in Value :
                 Pending' = [Pending EXCEPT ![c] =
                     [op |-> op, key |-> k, val |-> IF op = "put" THEN v ELSE NoValue]]
<1>1. client \in [Client -> Command]
  BY DEF IInv, ClientOK
<1>2. PICK op \in {"put", "get", "delete"}, k \in Key, v \in Value :
        client' = [client EXCEPT ![c] =
            [op |-> op, key |-> k, val |-> IF op = "put" THEN v ELSE NoValue,
             node |-> GetTabletRoute(tablets, k).node_id]]
  BY DEF ClientRoute
<1>3. /\ client'[c].op = op /\ client'[c].key = k
      /\ client'[c].val = IF op = "put" THEN v ELSE NoValue
      /\ \A d \in Client : d # c => client'[d] = client[d]
  BY <1>1, <1>2
<1>4. Pending' = [Pending EXCEPT ![c] =
                     [op |-> op, key |-> k, val |-> IF op = "put" THEN v ELSE NoValue]]
  BY <1>3 DEF Pending
<1>5. Pending[c] = Abstract!None
  BY DEF ClientRoute, Pending, Idle, Abstract!None
<1> QED
  BY <1>4, <1>5

\* A command that a DataNode executes changes the last value of its key, and is
\* finished.
LEMMA ExecuteEnds ==
    ASSUME IInv, DataInv, NEW c \in Client, ClientExecute(c)
    PROVE  /\ Pending[c] # Abstract!None
           /\ latest' = IF Pending[c].op = "get" THEN latest
                        ELSE [latest EXCEPT ![Pending[c].key] = Pending[c].val]
           /\ Pending' = [Pending EXCEPT ![c] = Abstract!None]
<1>1. /\ client \in [Client -> Command] /\ client[c] # Idle /\ client[c].key \in Key
      /\ client[c].op # "put" => client[c].val = NoValue
      /\ client' = [client EXCEPT ![c] = Idle]
  BY DEF IInv, ClientOK, ClientExecute, DataInv, CommandsOK
<1>2. /\ Pending[c] = [op |-> client[c].op, key |-> client[c].key, val |-> client[c].val]
      /\ Pending[c].op = client[c].op /\ Pending[c].key = client[c].key
      /\ Pending[c].val = client[c].val
  BY DEF Pending
<1>3. client[c].key # Empty
  BY <1>1, MaxKeyAssumption DEF Key, Empty
<1>4. Pending[c] # Abstract!None
  BY <1>2, <1>3 DEF Abstract!None
<1>5. Pending' = [Pending EXCEPT ![c] = Abstract!None]
  <2>1. client'[c] = Idle /\ \A d \in Client : d # c => client'[d] = client[d]
    BY <1>1
  <2>2. Pending' = [d \in Client |-> [op |-> client'[d].op, key |-> client'[d].key,
                                       val |-> client'[d].val]]
    BY DEF Pending
  <2>3. Pending'[c] = Abstract!None
    BY <2>1, <2>2 DEF Idle, Abstract!None
  <2>4. \A d \in Client : d # c => Pending'[d] = Pending[d]
    BY <2>1, <2>2 DEF Pending
  <2> QED
    BY <2>2, <2>3, <2>4 DEF Pending
<1> QED
  BY <1>2, <1>4, <1>5 DEF ClientExecute, DataInv


\* Every step of a calm run is a step of the map or none.
LEMMA KVStep ==
    ASSUME CalmRun, IInv, DataInv, Seen, Seen', [Next]_vars
    PROVE  [Abstract!KVNext]_(Abstract!kvVars)
<1>1. OwnedStore = latest /\ NodeAnswer = Abstract!Answers(latest, Pending)
  BY DEF Seen
<1>2. OwnedStore' = latest' /\ NodeAnswer' = Abstract!Answers(latest', Pending')
  BY DEF Seen, Abstract!Answers
<1>3. CASE UNCHANGED envVars
  <2>1. latest' = latest /\ Pending' = Pending
    BY <1>3 DEF envVars, Pending
  <2> QED
    BY <1>1, <1>2, <2>1 DEF Abstract!kvVars
<1>4. ASSUME NEW c \in Client, ClientRoute(c) PROVE Abstract!KVNext
  <2>1. latest' = latest
    BY <1>4 DEF ClientRoute
  <2>2. Abstract!Begin(c)
    BY <1>1, <1>2, <1>4, <2>1, RouteBegins DEF Abstract!Begin
  <2> QED
    BY <1>2, <2>2 DEF Abstract!KVNext
<1>5. ASSUME NEW c \in Client, ClientExecute(c) PROVE Abstract!KVNext
  <2>1. Abstract!Execute(c)
    BY <1>1, <1>2, <1>5, ExecuteEnds DEF Abstract!Execute
  <2> QED
    BY <1>2, <2>1 DEF Abstract!KVNext
<1>6. ASSUME NEW c \in Client, ClientFail(c) PROVE FALSE
  <2>1. client[c].key \in Key /\ client[c].node = Owner(client[c].key)
    BY <1>6 DEF ClientFail, DataInv, CommandsOK
  <2>2. client[c].node \in DataNode
    BY <2>1, OwnerType
  <2> QED
    BY <1>6, <2>2 DEF ClientFail, CalmRun, DataInv, NoCrashOK, Crashes
<1>7. CASE ~UNCHANGED envVars
  <2>1. \E c \in Client : ClientRoute(c) \/ ClientExecute(c) \/ ClientFail(c)
    BY <1>7 DEF Next, StartMaster, WakeUp, Balance, Migrate, KillMaster, ServeNode,
                ServeOrphanOf, DiscardOrphansOf, KillNode, StartNode, vars, envVars
  <2> QED
    BY <1>4, <1>5, <1>6, <2>1
<1> QED
  BY <1>3, <1>7

\* Without crashes, timeouts and failed saves, and with commands outside
\* migrations, the cluster implements one map: every command of a client takes
\* effect once and at once, and no step of the balancer, of a migration or of
\* the Master's start can be seen.
THEOREM RefinesKVStore == CalmRun /\ Spec => ImplementsKVStore
<1> SUFFICES ASSUME CalmRun PROVE Spec => ImplementsKVStore
  OBVIOUS
<1>1. SafeRun
  BY DEF CalmRun
<1>2. Init => Abstract!KVInit
  <2> SUFFICES ASSUME Init PROVE Abstract!KVInit
    OBVIOUS
  <2>1. IInv /\ DataInv
    BY <1>1, InitInv, DataInit
  <2>2. latest = [k \in Key |-> NoValue] /\ client = [c \in Client |-> Idle]
    BY DEF Init, EmptyDb
  <2>3. Pending = [c \in Client |-> Abstract!None]
    BY <2>2 DEF Pending, Idle, Abstract!None
  <2> QED
    BY <2>1, <2>2, <2>3, SeenState DEF Seen, Abstract!KVInit
<1>3. IInv /\ DataInv => Seen
  BY SeenState
<1>4. IInv /\ DataInv /\ Seen /\ Seen' /\ [Next]_vars => [Abstract!KVNext]_(Abstract!kvVars)
  BY KVStep
<1> QED
  BY <1>1, <1>2, <1>3, <1>4, DataAlways, InductiveInvariant, PTL
     DEF Spec, ImplementsKVStore, Abstract!KVSpec
=============================================================================
