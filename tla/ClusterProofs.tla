--------------------------- MODULE ClusterProofs ---------------------------
(***************************************************************************)
(* The routing table stays a partition of the key space, with unique ids,  *)
(* in memory and on disk, under every interleaving and every fault of the  *)
(* model, for every number of keys, DataNodes and clients and every        *)
(* threshold.                                                              *)
(***************************************************************************)
EXTENDS Cluster, TabletTableProofs, FiniteSetTheorems

-----------------------------------------------------------------------------
(* The inductive invariant, by the variables it is about.                  *)

\* The table in memory (while there is a process) and the saved one.
TablesOK ==
    /\ pc # "off" => IsPartition(tablets) /\ UniqueIds(tablets, next_tablet_id)
    /\ tablet_file.state = "good" =>
          IsPartition(tablet_file.tablets) /\ UniqueIds(tablet_file.tablets, tablet_file.next)

\* The balancer's copies: cur and idx refer to a tablet of the table whenever
\* the balancer is in the middle of a request about it; in TrySplitTablet the
\* copy still has the range of the entry it will replace.
LocalsOK ==
    /\ pc \in WaitPc \cup MigrationPc => cur \in Tablet /\ idx \in DOMAIN tablets
    /\ pc \in MigrationPc => dst \in DataNode
    /\ pc = "splitWait" => /\ cur.start_key = tablets[idx].start_key
                           /\ cur.end_key = tablets[idx].end_key

MInv == MasterTypeOK /\ TablesOK /\ LocalsOK

BudgetOK == budget \in [ops : Nat, timeouts : Nat, master_crashes : Nat,
                        node_crashes : Nat, save_faults : Nat]

ClientOK == client \in [Client -> Command] /\ latest \in Db

IInv == MInv /\ LinkTypeOK /\ BudgetOK /\ NodeTypeOK /\ ClientOK

-----------------------------------------------------------------------------
(* The storage operators and the handlers return what they should.         *)

\* Keys are bounds, and every set of keys is finite.
LEMMA KeyFacts == /\ Empty \in Bound /\ Key \subseteq Bound
                  /\ IsFiniteSet(Key)
                  /\ \A S \in SUBSET Key : Cardinality(S) \in Nat
<1>1. IsFiniteSet(Key)
  BY FS_Interval, MaxKeyAssumption DEF Key
<1>2. \A S \in SUBSET Key : Cardinality(S) \in Nat
  BY <1>1, FS_Subset, FS_CardinalityType
<1> QED
  BY <1>1, <1>2 DEF Bound

\* A chosen key is a key, or the empty string if there is none.
LEMMA OneOfType == \A S \in SUBSET Key : OneOf(S) \in Bound
  BY KeyFacts DEF OneOf

\* Every StorageEngine operation maps a database to a database, RangeStats
\* returns a count and a bound.
LEMMA DbTypes ==
    ASSUME NEW d \in Db
    PROVE  /\ EmptyDb \in Db
           /\ \A s, e \in Bound : /\ RangeQuery(d, s, e) \in Db
                                  /\ DeleteRange(d, s, e) \in Db
                                  /\ RangeCount(d, s, e) \in Nat
                                  /\ MedianKey(d, s, e) \in Bound
           /\ \A k \in Key, v \in Value \cup {NoValue} : Put(d, k, v) \in Db /\ Delete(d, k) \in Db
           /\ FirstKey(d) \in Bound
           /\ Cardinality(KeysOf(d)) \in Nat
<1>1. EmptyDb \in Db
  BY DEF EmptyDb, Db
<1>2. \A s, e : RangeQuery(d, s, e) \in Db /\ DeleteRange(d, s, e) \in Db
  BY DEF RangeQuery, DeleteRange, Db
<1>3. \A c : KeysOf(c) \in SUBSET Key
  BY DEF KeysOf
<1>4. \A s, e : RangeCount(d, s, e) \in Nat
  BY <1>3, KeyFacts DEF RangeCount
<1>5. ASSUME NEW s, NEW e PROVE MedianKey(d, s, e) \in Bound
  BY <1>3, OneOfType DEF MedianKey
<1>6. \A k \in Key, v \in Value \cup {NoValue} : Put(d, k, v) \in Db /\ Delete(d, k) \in Db
  BY DEF Put, Delete, Db
<1>7. FirstKey(d) \in Bound
  <2>1. Least(KeysOf(d)) \in SUBSET Key
    BY <1>3 DEF Least
  <2> QED
    BY <2>1, OneOfType DEF FirstKey
<1> QED
  BY <1>1, <1>2, <1>3, <1>4, <1>5, <1>6, <1>7, KeyFacts

\* What a DataNode sends back is a Reply, and a request leaves a database.
LEMMA HandleTypes ==
    ASSUME NodeTypeOK, NEW n \in DataNode, NEW req \in Request
    PROVE  HandleBinaryRequest(n, req) \in Reply /\ HandleEffect(n, req) \in Db
<1>1. db[n] \in Db
  BY DEF NodeTypeOK
<1>2. /\ req.start \in Bound /\ req.end \in Bound /\ req.val \in Value \cup {NoValue}
  BY DEF Request
<1>3. TabletStatsReply(n, req) \in Reply
  <2>1. /\ RangeCount(db[n], req.start, req.end) \in Nat
        /\ MedianKey(db[n], req.start, req.end) \in Bound
        /\ EmptyDb \in Db /\ Empty \in Bound
    BY <1>1, <1>2, DbTypes, KeyFacts
  <2> QED
    BY <2>1 DEF TabletStatsReply, Reply
<1>4. ScanRangeReply(n, req) \in Reply
  <2> DEFINE p == RangeQuery(db[n], req.start, req.end)
  <2>1. p \in Db
    BY <1>1, <1>2, DbTypes
  <2>2. FirstKey(p) \in Bound /\ Cardinality(KeysOf(p)) \in Nat
    BY <2>1, DbTypes
  <2> HIDE DEF p
  <2>3. [req |-> req, ok |-> TRUE, pairs |-> p,
         count |-> Cardinality(KeysOf(p)), first |-> FirstKey(p)] \in Reply
    BY <2>1, <2>2 DEF Reply
  <2> QED
    BY <2>3 DEF ScanRangeReply, p
<1>5. \A ok \in BOOLEAN : StatusReply(n, req, ok) \in Reply
  BY <1>1, DbTypes, KeyFacts DEF StatusReply, Reply
<1>6. HandleEffect(n, req) \in Db
  <2>1. DeleteRange(db[n], req.start, req.end) \in Db
    BY <1>1, <1>2, DbTypes
  <2>2. Put(db[n], req.start, req.val) \in Db
    BY <1>1, <1>2 DEF Put, Db
  <2> QED
    BY <1>1, <2>1, <2>2 DEF HandleEffect
<1> QED
  BY <1>3, <1>4, <1>5, <1>6 DEF HandleBinaryRequest

-----------------------------------------------------------------------------
(* The connection.                                                         *)

\* Sending a frame appends one request to the stream of one DataNode.
LEMMA SendType ==
    ASSUME LinkTypeOK, NEW n \in DataNode, NEW req \in Request, Send(n, req)
    PROVE  LinkTypeOK'
<1>1. requests[n] \in Seq(Request)
  BY DEF LinkTypeOK
<1>2. Append(requests[n], req) \in Seq(Request)
  BY <1>1
<1> QED
  BY <1>2 DEF LinkTypeOK, Send, ConnState

\* RecvFrame takes a well-formed reply off the stream.
LEMMA RecvType ==
    ASSUME LinkTypeOK, BudgetOK, NEW n \in DataNode, RecvFrame(n)
    PROVE  LinkTypeOK' /\ BudgetOK' /\ Head(replies[n]) \in Reply
<1>1. replies[n] \in Seq(Reply) /\ replies[n] # <<>>
  BY DEF LinkTypeOK, RecvFrame
<1>2. Head(replies[n]) \in Reply /\ Tail(replies[n]) \in Seq(Reply)
  BY <1>1
<1> QED
  BY <1>2 DEF LinkTypeOK, RecvFrame, BudgetOK

\* Counting down a fault keeps the budget well-formed.
LEMMA SpendType ==
    ASSUME BudgetOK, NEW what \in {"ops", "timeouts", "master_crashes", "node_crashes", "save_faults"},
           Spend(what)
    PROVE  BudgetOK'
  BY DEF BudgetOK, Spend

\* A RecvFrame that fails leaves the streams as they are.
LEMMA RecvFailsType ==
    ASSUME LinkTypeOK, BudgetOK, NEW n \in DataNode, RecvFails(n)
    PROVE  LinkTypeOK' /\ BudgetOK'
  BY SpendType DEF LinkTypeOK, RecvFails, linkVars, BudgetOK

\* A dead Master's requests become orphans, still well-formed.
LEMMA DropType == ASSUME LinkTypeOK, DropConnections PROVE LinkTypeOK'
<1>1. \A n \in DataNode : orphans[n] \o requests[n] \in Seq(Request)
  BY DEF LinkTypeOK
<1> QED
  BY <1>1 DEF LinkTypeOK, DropConnections, ConnState

\* The frames the Master builds from a tablet are requests.
LEMMA RangeRequestType ==
    ASSUME NEW t \in Tablet, NEW op \in {"stats", "scan", "delrange"}
    PROVE  RangeRequest(op, t) \in Request
  BY DEF RangeRequest, Request, Tablet

-----------------------------------------------------------------------------
(* Steps of the Master.  Every one preserves this conjunction.             *)

MLInv == MInv /\ LinkTypeOK /\ BudgetOK

\* The program points outside a request and outside a migration.
LEMMA NoPcClash == /\ "off" \notin WaitPc \cup MigrationPc
                   /\ "sleep" \notin WaitPc \cup MigrationPc
                   /\ "sync" \notin WaitPc \cup MigrationPc
                   /\ "split" \notin WaitPc \cup MigrationPc
                   /\ "splitSave" \notin WaitPc \cup MigrationPc
                   /\ "balance" \notin WaitPc \cup MigrationPc
  BY DEF WaitPc, MigrationPc

\* The locals reset at the top of BalancerLoop have their types.
LEMMA ResetType ==
    ASSUME ResetLocals
    PROVE  /\ idx' \in Nat \ {0} /\ cur' \in Tablet \cup {NoTablet} /\ dst' \in DataNode \cup {0}
           /\ todo' \in Db /\ complete' \in BOOLEAN
<1>1. todo' \in Db
  BY DEF ResetLocals, EmptyDb, Db
<1>2. complete' \in BOOLEAN
  BY Zenon DEF ResetLocals
<1> QED
  BY <1>1, <1>2 DEF ResetLocals

\* Going back to sleep keeps everything about the table.
LEMMA SleepInv ==
    ASSUME MInv, Sleep, UNCHANGED <<memVars, tablet_file>>, pc # "off"
    PROVE  MInv'
<1>1. pc' \in Pc
  BY DEF Sleep, Pc
<1>2. MasterTypeOK'
  BY <1>1, ResetType DEF MInv, Sleep, memVars, MasterTypeOK
<1>3. TablesOK'
  BY DEF MInv, Sleep, memVars, TablesOK
<1>4. LocalsOK'
  BY NoPcClash DEF Sleep, LocalsOK
<1> QED
  BY <1>2, <1>3, <1>4 DEF MInv

\* A dead Master has no table in memory; the saved one stays.
LEMMA DieInv ==
    ASSUME MInv, LinkTypeOK, Die
    PROVE  MInv' /\ LinkTypeOK'
<1>1. pc' \in Pc
  BY DEF Die, Pc
<1>2. <<>> \in Seq(Tablet) /\ FirstFreeId \in Nat /\ FirstEpoch \in Nat
  BY DEF FirstFreeId, FirstEpoch
<1>3. MasterTypeOK'
  BY <1>1, <1>2, ResetType DEF MInv, Die, MasterTypeOK
<1>4. TablesOK'
  BY DEF MInv, Die, TablesOK
<1>5. LocalsOK'
  BY NoPcClash DEF Die, LocalsOK
<1> QED
  BY <1>3, <1>4, <1>5, DropType DEF MInv, Die

\* SaveTablets with a good table in memory leaves a good table on disk, or
\* no table, or the one that was there.
LEMMA SaveInv ==
    ASSUME MInv, BudgetOK, SaveTablets, tablets' \in Seq(Tablet),
           next_tablet_id' \in Nat, epoch' \in Nat,
           IsPartition(tablets'), UniqueIds(tablets', next_tablet_id')
    PROVE  /\ tablet_file' \in [state : FileState, next : Nat, epoch : Nat, tablets : Seq(Tablet)]
           /\ tablet_file'.state = "good" =>
                 IsPartition(tablet_file'.tablets) /\ UniqueIds(tablet_file'.tablets, tablet_file'.next)
           /\ BudgetOK'
<1>1. CASE tablet_file' = TabletFile(next_tablet_id', epoch', tablets') /\ UNCHANGED budget
  BY <1>1 DEF TabletFile, FileState, BudgetOK
<1>2. CASE tablet_file' = tablet_file /\ Spend("save_faults")
  BY <1>2, SpendType DEF MInv, MasterTypeOK, TablesOK
<1>3. CASE tablet_file' = NoFile("bad") /\ Spend("save_faults")
  <2>1. <<>> \in Seq(Tablet)
    OBVIOUS
  <2> QED
    BY <1>3, <2>1, SpendType DEF NoFile, FileState
<1> QED
  BY <1>1, <1>2, <1>3 DEF SaveTablets

\* The constructor ends with a loaded or a new table, both partitions.
LEMMA MasterStartInv ==
    ASSUME MLInv, NEW up, MasterStart(up)
    PROVE  MLInv'
<1> USE DEF MLInv
<1>1. LinkTypeOK'
  BY DEF MasterStart, LinkTypeOK, ConnState
<1>2. CASE tablet_file.state = "good"
  BY <1>1, <1>2, NoPcClash
     DEF MasterStart, LoadTablets, MInv, MasterTypeOK, TablesOK, LocalsOK, BudgetOK, localVars, Pc
<1>3. CASE tablet_file.state # "good"
  <2>1. /\ tablets' = InitialTablets /\ next_tablet_id' = FirstFreeId /\ epoch' = FirstEpoch
        /\ SaveTablets
    BY <1>3 DEF MasterStart, LoadTablets, BuildInitialTablets
  <2>2. /\ tablets' \in Seq(Tablet) /\ next_tablet_id' \in Nat /\ epoch' \in Nat
        /\ IsPartition(tablets') /\ UniqueIds(tablets', next_tablet_id')
    BY <2>1, InitialTable DEF FirstFreeId, FirstEpoch
  <2>3. /\ tablet_file' \in [state : FileState, next : Nat, epoch : Nat, tablets : Seq(Tablet)]
        /\ tablet_file'.state = "good" =>
              IsPartition(tablet_file'.tablets) /\ UniqueIds(tablet_file'.tablets, tablet_file'.next)
        /\ BudgetOK'
    BY <2>1, <2>2, SaveInv
  <2> QED
    BY <1>1, <2>2, <2>3, NoPcClash
       DEF MasterStart, MInv, MasterTypeOK, TablesOK, LocalsOK, localVars, Pc
<1> QED
  BY <1>2, <1>3

\* A crash of the Master at any program point.
LEMMA MasterCrashInv == ASSUME MLInv, MasterCrash PROVE MLInv'
  BY DieInv, SpendType DEF MLInv, MasterCrash

-----------------------------------------------------------------------------
(* SyncAllTabletStats                                                      *)

\* The balancer wakes up: the table is untouched.
LEMMA WakeInv == ASSUME MLInv, Wake PROVE MLInv'
<1> USE DEF MLInv, MInv
<1>1. MasterTypeOK'
  BY DEF Wake, memVars, localVars, MasterTypeOK, Pc
<1>2. TablesOK' /\ LocalsOK'
  BY NoPcClash DEF Wake, memVars, localVars, TablesOK, LocalsOK
<1> QED
  BY <1>1, <1>2 DEF Wake, linkVars, LinkTypeOK, BudgetOK

\* SyncAllTabletStats remembers a tablet of the table before it asks.
LEMMA SyncSendInv == ASSUME MLInv, SyncSend PROVE MLInv'
<1> USE DEF MLInv, MInv
<1> DEFINE t == tablets[idx]
<1>1. /\ idx \in DOMAIN tablets /\ t \in Tablet /\ t.node_id \in DataNode
      /\ RangeRequest("stats", t) \in Request
  <2>1. idx \in DOMAIN tablets
    BY DEF SyncSend, MasterTypeOK
  <2>2. t \in Tablet /\ t.node_id \in DataNode
    BY <2>1, TabletFields DEF MasterTypeOK
  <2> QED
    BY <2>1, <2>2, RangeRequestType
<1>2. CASE /\ Send(t.node_id, RangeRequest("stats", t))
           /\ pc' = "syncWait" /\ cur' = t
           /\ UNCHANGED <<idx, dst, todo, complete, memVars, tablet_file, budget>>
  <2>1. LinkTypeOK'
    BY <1>1, <1>2, SendType
  <2>2. MasterTypeOK'
    BY <1>1, <1>2 DEF memVars, MasterTypeOK, Pc, WaitPc
  <2>3. TablesOK' /\ LocalsOK'
    BY <1>1, <1>2 DEF memVars, TablesOK, LocalsOK, SyncSend, MigrationPc
  <2> QED
    BY <1>2, <2>1, <2>2, <2>3 DEF BudgetOK
<1>3. CASE /\ SendFails(t.node_id) /\ idx' = idx + 1
           /\ UNCHANGED <<pc, cur, dst, todo, complete, memVars, tablet_file, budget>>
  <2>1. MasterTypeOK'
    BY <1>3 DEF memVars, MasterTypeOK
  <2>2. TablesOK' /\ LocalsOK'
    BY <1>3, NoPcClash DEF memVars, TablesOK, LocalsOK, SyncSend
  <2> QED
    BY <1>3, <2>1, <2>2 DEF SendFails, linkVars, LinkTypeOK, BudgetOK
<1>4. CASE Die /\ UNCHANGED budget
  BY <1>4, DieInv DEF BudgetOK
<1> QED
  BY <1>2, <1>3, <1>4 DEF SyncSend, Call

\* Only the key_count of one tablet changes, to what a decodable frame says.
LEMMA SyncReplyInv == ASSUME MLInv, SyncReply \/ SyncTimeout PROVE MLInv'
<1> USE DEF MLInv, MInv
<1>0. /\ pc = "syncWait" /\ cur \in Tablet /\ cur.node_id \in DataNode
      /\ idx \in DOMAIN tablets /\ SyncNext
  BY DEF SyncReply, SyncTimeout, LocalsOK, WaitPc, Tablet
<1>1. /\ LinkTypeOK' /\ BudgetOK'
      /\ SyncReply => Head(replies[cur.node_id]) \in Reply
  BY <1>0, RecvType, RecvFailsType DEF SyncReply, SyncTimeout
<1>2. tablets' = tablets \/ \E c \in Nat : tablets' = [tablets EXCEPT ![idx].key_count = c]
  <2>1. CASE SyncReply
    <3>1. Head(replies[cur.node_id]).count \in Nat
      BY <1>1, <2>1 DEF Reply
    <3> QED
      BY <2>1, <3>1 DEF SyncReply
  <2>2. CASE SyncTimeout
    BY <2>2 DEF SyncTimeout
  <2> QED
    BY <2>1, <2>2
<1>3. /\ tablets' \in Seq(Tablet)
      /\ IsPartition(tablets') /\ UniqueIds(tablets', next_tablet_id)
  <2>0. tablets \in Seq(Tablet) /\ IsPartition(tablets) /\ UniqueIds(tablets, next_tablet_id)
    BY <1>0 DEF MasterTypeOK, TablesOK
  <2>1. CASE tablets' = tablets
    BY <2>0, <2>1
  <2>2. ASSUME NEW c \in Nat, tablets' = [tablets EXCEPT ![idx].key_count = c]
        PROVE  /\ tablets' \in Seq(Tablet)
               /\ IsPartition(tablets') /\ UniqueIds(tablets', next_tablet_id)
    <3> DEFINE us == [tablets EXCEPT ![idx].key_count = c]
    <3>1. tablets[idx] \in Tablet
      BY <1>0, <2>0
    <3>2. [tablets[idx] EXCEPT !.key_count = c] \in Tablet
      BY <3>1 DEF Tablet
    <3>3. us \in Seq(Tablet) /\ DOMAIN us = DOMAIN tablets
      BY <1>0, <2>0, <3>2
    <3>4. \A i \in DOMAIN tablets : /\ us[i].start_key = tablets[i].start_key
                                    /\ us[i].end_key = tablets[i].end_key
                                    /\ us[i].id = tablets[i].id
      BY <1>0, <2>0, <3>1 DEF Tablet
    <3> QED
      BY <2>0, <2>2, <3>3, <3>4, SameRanges
  <2> QED
    BY <1>2, <2>1, <2>2
<1>4. MasterTypeOK'
  BY <1>3, <1>0 DEF SyncNext, MasterTypeOK, Pc
<1>5. TablesOK' /\ LocalsOK'
  BY <1>0, <1>3, NoPcClash DEF SyncNext, TablesOK, LocalsOK
<1> QED
  BY <1>1, <1>4, <1>5

\* SyncAllTabletStats is done; the split loop starts at the first tablet.
LEMMA SyncDoneInv == ASSUME MLInv, SyncDone PROVE MLInv'
<1> USE DEF MLInv, MInv
<1>1. MasterTypeOK'
  BY DEF SyncDone, memVars, MasterTypeOK, Pc
<1>2. TablesOK' /\ LocalsOK'
  BY NoPcClash DEF SyncDone, memVars, TablesOK, LocalsOK
<1> QED
  BY <1>1, <1>2 DEF SyncDone, linkVars, LinkTypeOK, BudgetOK

-----------------------------------------------------------------------------
(* TrySplitTablet                                                          *)

\* TrySplitTablet copies the entry it is about to split: same range.
LEMMA SplitSendInv == ASSUME MLInv, SplitSend PROVE MLInv'
<1> USE DEF MLInv, MInv
<1>0. PICK i \in idx..Len(tablets) :
         Call(tablets[i].node_id, RangeRequest("stats", tablets[i]),
              /\ pc' = "splitWait" /\ idx' = i /\ cur' = tablets[i]
              /\ UNCHANGED <<dst, todo, complete>>,
              idx' = i + 1 /\ UNCHANGED <<pc, cur, dst, todo, complete>>)
  BY DEF SplitSend
<1> DEFINE t == tablets[i]
<1>1. /\ i \in DOMAIN tablets /\ i \in Nat \ {0} /\ t \in Tablet /\ t.node_id \in DataNode
      /\ RangeRequest("stats", t) \in Request /\ pc = "split"
  <2>1. i \in DOMAIN tablets /\ i \in Nat \ {0}
    BY DEF MasterTypeOK
  <2>2. t \in Tablet /\ t.node_id \in DataNode
    BY <2>1, TabletFields DEF MasterTypeOK
  <2> QED
    BY <2>1, <2>2, RangeRequestType DEF SplitSend
<1>2. CASE /\ Send(t.node_id, RangeRequest("stats", t))
           /\ pc' = "splitWait" /\ idx' = i /\ cur' = tablets[i]
           /\ UNCHANGED <<dst, todo, complete, memVars, tablet_file, budget>>
  <2>1. LinkTypeOK'
    BY <1>1, <1>2, SendType
  <2>2. MasterTypeOK'
    BY <1>1, <1>2 DEF memVars, MasterTypeOK, Pc, WaitPc
  <2>3. TablesOK' /\ LocalsOK'
    BY <1>1, <1>2 DEF memVars, TablesOK, LocalsOK, MigrationPc
  <2> QED
    BY <1>2, <2>1, <2>2, <2>3 DEF BudgetOK
<1>3. CASE /\ SendFails(t.node_id) /\ idx' = i + 1
           /\ UNCHANGED <<pc, cur, dst, todo, complete, memVars, tablet_file, budget>>
  <2>1. MasterTypeOK'
    BY <1>1, <1>3 DEF memVars, MasterTypeOK
  <2>2. TablesOK' /\ LocalsOK'
    BY <1>1, <1>3, NoPcClash DEF memVars, TablesOK, LocalsOK
  <2> QED
    BY <1>3, <2>1, <2>2 DEF SendFails, linkVars, LinkTypeOK, BudgetOK
<1>4. CASE Die /\ UNCHANGED budget
  BY <1>4, DieInv DEF BudgetOK
<1> QED
  BY <1>0, <1>2, <1>3, <1>4 DEF Call

\* The split itself: SplitTable applies because the median passed the test
\* against the copy, and the copy has the range of the entry.
LEMMA SplitReplyInv == ASSUME MLInv, SplitReply PROVE MLInv'
<1> USE DEF MLInv, MInv
<1> DEFINE r == Head(replies[cur.node_id])
           old == [cur EXCEPT !.key_count = r.count]
<1>0. /\ pc = "splitWait" /\ cur \in Tablet /\ cur.node_id \in DataNode
      /\ idx \in DOMAIN tablets /\ tablets \in Seq(Tablet) /\ next_tablet_id \in Nat
      /\ cur.start_key = tablets[idx].start_key /\ cur.end_key = tablets[idx].end_key
      /\ IsPartition(tablets) /\ UniqueIds(tablets, next_tablet_id)
  BY DEF SplitReply, LocalsOK, WaitPc, Tablet, MasterTypeOK, TablesOK
<1>1. LinkTypeOK' /\ BudgetOK' /\ r \in Reply
  BY <1>0, RecvType DEF SplitReply
<1>2. /\ r.count \in Nat /\ r.first \in Bound
      /\ old \in Tablet /\ old.start_key = cur.start_key /\ old.end_key = cur.end_key
  BY <1>0, <1>1 DEF Reply, Tablet
<1>3. CASE /\ CanSplitAt(cur, r.first)
           /\ tablets' = SplitTablet(tablets, idx, old, r.first, next_tablet_id)
           /\ next_tablet_id' = next_tablet_id + 2 /\ epoch' = epoch + 1
           /\ pc' = "splitSave" /\ UNCHANGED idx
           /\ cur' = NoTablet /\ UNCHANGED <<tablet_file, dst, todo, complete>>
  <2>1. CanSplitAt(old, r.first)
    BY <1>2, <1>3 DEF CanSplitAt
  <2> HIDE DEF old, r
  <2>2. /\ tablets' \in Seq(Tablet)
        /\ IsPartition(tablets') /\ UniqueIds(tablets', next_tablet_id + 2)
    BY <1>0, <1>2, <1>3, <2>1, SplitTable
  <2>3. MasterTypeOK'
    BY <1>3, <2>2 DEF MasterTypeOK, Pc
  <2>4. TablesOK' /\ LocalsOK'
    BY <1>3, <2>2, NoPcClash DEF TablesOK, LocalsOK
  <2> QED
    BY <1>1, <2>3, <2>4
<1>4. CASE /\ pc' = "split" /\ idx' = idx + 1 /\ UNCHANGED memVars
           /\ cur' = NoTablet /\ UNCHANGED <<tablet_file, dst, todo, complete>>
  <2>1. MasterTypeOK'
    BY <1>4 DEF MasterTypeOK, memVars, Pc
  <2>2. TablesOK' /\ LocalsOK'
    BY <1>0, <1>4, NoPcClash DEF TablesOK, LocalsOK, memVars
  <2> QED
    BY <1>1, <2>1, <2>2
<1> QED
  BY <1>3, <1>4 DEF SplitReply

\* TrySplitTablet gives up without touching the table.
LEMMA SplitTimeoutInv == ASSUME MLInv, SplitTimeout PROVE MLInv'
<1> USE DEF MLInv, MInv
<1>0. pc = "splitWait" /\ cur \in Tablet /\ cur.node_id \in DataNode
  BY DEF SplitTimeout, LocalsOK, WaitPc, Tablet
<1>1. LinkTypeOK' /\ BudgetOK'
  BY <1>0, RecvFailsType DEF SplitTimeout
<1>2. MasterTypeOK'
  BY DEF SplitTimeout, MasterTypeOK, memVars, Pc
<1>3. TablesOK' /\ LocalsOK'
  BY <1>0, NoPcClash DEF SplitTimeout, TablesOK, LocalsOK, memVars
<1> QED
  BY <1>1, <1>2, <1>3

\* The table saved after a split is the one in memory.
LEMMA SplitSaveInv == ASSUME MLInv, SplitSave PROVE MLInv'
<1> USE DEF MLInv, MInv
<1>1. /\ pc = "splitSave" /\ UNCHANGED memVars /\ SaveTablets
      /\ tablets' \in Seq(Tablet) /\ next_tablet_id' \in Nat /\ epoch' \in Nat
      /\ IsPartition(tablets') /\ UniqueIds(tablets', next_tablet_id')
  BY DEF SplitSave, memVars, MasterTypeOK, TablesOK
<1>2. /\ tablet_file' \in [state : FileState, next : Nat, epoch : Nat, tablets : Seq(Tablet)]
      /\ tablet_file'.state = "good" =>
            IsPartition(tablet_file'.tablets) /\ UniqueIds(tablet_file'.tablets, tablet_file'.next)
      /\ BudgetOK'
  BY <1>1, SaveInv
<1>3. MasterTypeOK'
  BY <1>1, <1>2 DEF SplitSave, MasterTypeOK, Pc
<1>4. TablesOK' /\ LocalsOK'
  BY <1>1, <1>2, NoPcClash DEF SplitSave, TablesOK, LocalsOK
<1> QED
  BY <1>2, <1>3, <1>4 DEF SplitSave, linkVars, LinkTypeOK

\* No tablet is left to split.
LEMMA SplitDoneInv == ASSUME MLInv, SplitDone PROVE MLInv'
<1> USE DEF MLInv, MInv
<1>1. MasterTypeOK'
  BY DEF SplitDone, memVars, MasterTypeOK, Pc
<1>2. TablesOK' /\ LocalsOK'
  BY NoPcClash DEF SplitDone, memVars, TablesOK, LocalsOK
<1> QED
  BY <1>1, <1>2 DEF SplitDone, linkVars, LinkTypeOK, BudgetOK

-----------------------------------------------------------------------------
(* DoLoadBalance and MigrateTablet                                         *)

\* DoLoadBalance finds nothing to move.
LEMMA BalanceIdleInv == ASSUME MLInv, BalanceIdle PROVE MLInv'
  BY SleepInv DEF MLInv, BalanceIdle, linkVars, LinkTypeOK, BudgetOK

\* DoLoadBalance moves a tablet of the table to a DataNode of the table.
LEMMA MigrateStartInv == ASSUME MLInv, MigrateStart PROVE MLInv'
<1> USE DEF MLInv
<1>0. PICK m \in Moves(tablets) :
         LET t == tablets[m[1]]
         IN  IF t.node_id = m[2] \/ conn[m[2]] = "none"
             THEN Sleep /\ UNCHANGED <<memVars, tablet_file, linkVars, budget>>
             ELSE Call(t.node_id, RangeRequest("scan", t),
                       /\ pc' = "scanWait" /\ idx' = m[1] /\ cur' = t /\ dst' = m[2]
                       /\ UNCHANGED <<todo, complete>>,
                       Sleep)
  BY DEF MigrateStart
<1> DEFINE i == m[1]  n == m[2]  t == tablets[i]
<1>1. i \in DOMAIN tablets /\ n \in LoadedNodes(tablets) /\ pc = "balance"
  BY DEF Moves, MigrateStart
<1>2. /\ i \in Nat \ {0} /\ t \in Tablet /\ t.node_id \in DataNode
      /\ RangeRequest("scan", t) \in Request /\ n \in DataNode
  <2>1. tablets \in Seq(Tablet) /\ i \in Nat \ {0}
    BY <1>1 DEF MInv, MasterTypeOK
  <2>2. t \in Tablet /\ t.node_id \in DataNode /\ n \in DataNode
    BY <1>1, <2>1, TabletFields DEF LoadedNodes
  <2> QED
    BY <2>1, <2>2, RangeRequestType
<1>3. CASE Sleep /\ UNCHANGED <<memVars, tablet_file, linkVars, budget>>
  BY <1>1, <1>3, SleepInv DEF linkVars, LinkTypeOK, BudgetOK
<1>4. CASE /\ Send(t.node_id, RangeRequest("scan", t))
           /\ pc' = "scanWait" /\ idx' = i /\ cur' = t /\ dst' = n
           /\ UNCHANGED <<todo, complete, memVars, tablet_file, budget>>
  <2>1. LinkTypeOK'
    BY <1>2, <1>4, SendType
  <2>2. MasterTypeOK'
    BY <1>1, <1>2, <1>4 DEF MInv, memVars, MasterTypeOK, Pc, MigrationPc
  <2>3. TablesOK' /\ LocalsOK'
    BY <1>1, <1>2, <1>4 DEF MInv, memVars, TablesOK, LocalsOK
  <2> QED
    BY <1>4, <2>1, <2>2, <2>3 DEF BudgetOK, MInv
<1>5. CASE SendFails(t.node_id) /\ Sleep /\ UNCHANGED <<memVars, tablet_file, budget>>
  BY <1>1, <1>5, SleepInv DEF SendFails, linkVars, LinkTypeOK, BudgetOK
<1>6. CASE Die /\ UNCHANGED budget
  BY <1>6, DieInv DEF BudgetOK
<1> QED
  BY <1>0, <1>3, <1>4, <1>5, <1>6 DEF Call

\* The scanned pairs are taken over; the table is untouched.
LEMMA ScanReplyInv == ASSUME MLInv, ScanReply PROVE MLInv'
<1> USE DEF MLInv
<1> DEFINE r == Head(replies[cur.node_id])
<1>0. /\ pc = "scanWait" /\ cur \in Tablet /\ cur.node_id \in DataNode
      /\ idx \in DOMAIN tablets /\ dst \in DataNode
  BY DEF ScanReply, MInv, LocalsOK, WaitPc, MigrationPc, Tablet
<1>1. LinkTypeOK' /\ BudgetOK' /\ r \in Reply
  BY <1>0, RecvType DEF ScanReply
<1>2. CASE Sleep /\ UNCHANGED <<memVars, tablet_file>>
  BY <1>0, <1>1, <1>2, SleepInv
<1>3. CASE /\ pc' = "transfer" /\ todo' = ScannedPairs(r) /\ complete' = ScannedAll(r)
           /\ UNCHANGED <<idx, cur, dst>> /\ UNCHANGED <<memVars, tablet_file>>
  <2>1. todo' \in Db
    <3>1. EmptyDb \in Db
      BY DEF EmptyDb, Db
    <3> QED
      BY <1>1, <1>3, <3>1 DEF ScannedPairs, Reply
  <2>2. complete' \in BOOLEAN
    BY <1>3, Zenon DEF ScannedAll
  <2>3. MasterTypeOK'
    BY <1>3, <2>1, <2>2 DEF MInv, MasterTypeOK, memVars, Pc, MigrationPc
  <2>4. TablesOK' /\ LocalsOK'
    BY <1>0, <1>3 DEF MInv, TablesOK, LocalsOK, memVars
  <2> QED
    BY <1>1, <2>3, <2>4 DEF MInv
<1> QED
  BY <1>2, <1>3 DEF ScanReply

\* ScanAndTransferData gives up without touching the table.
LEMMA ScanTimeoutInv == ASSUME MLInv, ScanTimeout PROVE MLInv'
<1> USE DEF MLInv
<1>0. pc = "scanWait" /\ cur \in Tablet /\ cur.node_id \in DataNode
  BY DEF ScanTimeout, MInv, LocalsOK, WaitPc, Tablet
<1>1. LinkTypeOK' /\ BudgetOK'
  BY <1>0, RecvFailsType DEF ScanTimeout
<1> QED
  BY <1>0, <1>1, SleepInv DEF ScanTimeout

\* Going on to the next pair of the transfer loop.
LEMMA PairDoneInv ==
    ASSUME MInv, pc \in {"transfer", "putWait"}, NEW k \in Key, NEW ok \in BOOLEAN,
           PairDone(k, ok), UNCHANGED <<memVars, tablet_file>>
    PROVE  MInv'
<1>1. todo' \in Db
  BY DEF PairDone, MInv, MasterTypeOK, Db
<1>2. complete' \in BOOLEAN
  BY Zenon DEF PairDone
<1>3. MasterTypeOK'
  BY <1>1, <1>2 DEF PairDone, MInv, MasterTypeOK, memVars, Pc, MigrationPc
<1>4. TablesOK' /\ LocalsOK'
  BY DEF PairDone, MInv, TablesOK, LocalsOK, memVars, MigrationPc
<1> QED
  BY <1>3, <1>4 DEF MInv

\* A PUT of the transfer loop, sent or failed.
LEMMA TransferSendInv == ASSUME MLInv, TransferSend PROVE MLInv'
<1> USE DEF MLInv
<1>0. PICK k \in Key : Call(dst, PutRequest(k, todo[k]),
                            pc' = "putWait" /\ UNCHANGED localVars,
                            PairDone(k, FALSE))
  BY DEF TransferSend
<1>1. /\ pc = "transfer" /\ dst \in DataNode /\ idx \in DOMAIN tablets /\ cur \in Tablet
      /\ PutRequest(k, todo[k]) \in Request
  <2>1. todo[k] \in Value \cup {NoValue}
    BY DEF MInv, MasterTypeOK, Db
  <2>2. PutRequest(k, todo[k]) \in Request
    BY <2>1, KeyFacts DEF PutRequest, Request
  <2> QED
    BY <2>2 DEF TransferSend, MInv, LocalsOK, MigrationPc
<1>2. CASE /\ Send(dst, PutRequest(k, todo[k])) /\ pc' = "putWait"
           /\ UNCHANGED localVars /\ UNCHANGED <<memVars, tablet_file>> /\ UNCHANGED budget
  <2>1. LinkTypeOK'
    BY <1>1, <1>2, SendType
  <2>2. MasterTypeOK'
    BY <1>2 DEF MInv, memVars, localVars, MasterTypeOK, Pc, MigrationPc
  <2>3. TablesOK' /\ LocalsOK'
    BY <1>1, <1>2 DEF MInv, memVars, localVars, TablesOK, LocalsOK
  <2> QED
    BY <1>2, <2>1, <2>2, <2>3 DEF BudgetOK, MInv
<1>3. CASE SendFails(dst) /\ PairDone(k, FALSE) /\ UNCHANGED <<memVars, tablet_file>> /\ UNCHANGED budget
  <2>1. FALSE \in BOOLEAN
    OBVIOUS
  <2>2. MInv'
    BY <1>1, <1>3, <2>1, PairDoneInv
  <2> QED
    BY <1>3, <2>2 DEF SendFails, linkVars, LinkTypeOK, BudgetOK
<1>4. CASE Die /\ UNCHANGED budget
  BY <1>4, DieInv DEF BudgetOK
<1> QED
  BY <1>0, <1>2, <1>3, <1>4 DEF Call

\* A PUT of the transfer loop, answered or given up.
LEMMA PutReplyInv == ASSUME MLInv, PutReply \/ PutTimeout PROVE MLInv'
<1> USE DEF MLInv
<1>0. pc = "putWait" /\ dst \in DataNode /\ UNCHANGED <<memVars, tablet_file>>
  BY DEF PutReply, PutTimeout, MInv, LocalsOK, MigrationPc
<1>1. LinkTypeOK' /\ BudgetOK'
  BY <1>0, RecvType, RecvFailsType DEF PutReply, PutTimeout
<1>2. \E k \in Key, ok \in BOOLEAN : PairDone(k, ok)
  BY Zenon DEF PutReply, PutTimeout
<1> QED
  BY <1>0, <1>1, <1>2, PairDoneInv

\* A transfer that was not complete leaves the table alone.
LEMMA TransferFailedInv == ASSUME MLInv, TransferFailed PROVE MLInv'
  BY SleepInv DEF MLInv, TransferFailed, linkVars, LinkTypeOK, BudgetOK

\* The route switches: one tablet's node_id changes, to a DataNode.
LEMMA FlipRouteInv == ASSUME MLInv, FlipRoute PROVE MLInv'
<1> USE DEF MLInv
<1> DEFINE us == [tablets EXCEPT ![idx].node_id = dst]
<1>0. /\ pc = "transfer" /\ cur \in Tablet /\ dst \in DataNode /\ idx \in DOMAIN tablets
      /\ tablets \in Seq(Tablet) /\ IsPartition(tablets) /\ UniqueIds(tablets, next_tablet_id)
      /\ UNCHANGED <<next_tablet_id, tablet_file, localVars, linkVars, budget>>
  BY DEF FlipRoute, MInv, LocalsOK, MasterTypeOK, TablesOK, MigrationPc
<1>1. tablets[idx] \in Tablet
  BY <1>0
<1>2. [tablets[idx] EXCEPT !.node_id = dst] \in Tablet
  BY <1>0, <1>1 DEF Tablet
<1>3. us \in Seq(Tablet) /\ DOMAIN us = DOMAIN tablets
  BY <1>0, <1>2
<1>4. \A i \in DOMAIN tablets : /\ us[i].start_key = tablets[i].start_key
                                /\ us[i].end_key = tablets[i].end_key
                                /\ us[i].id = tablets[i].id
  BY <1>0, <1>1 DEF Tablet
<1>5. IsPartition(us) /\ UniqueIds(us, next_tablet_id)
  BY <1>0, <1>3, <1>4, SameRanges
<1>6. \/ tablets' = us /\ epoch' = epoch + 1 /\ pc' = "flipSave"
      \/ tablets' = tablets /\ epoch' = epoch /\ pc' = "delRange"
  BY DEF FlipRoute
<1> HIDE DEF us
<1>7. /\ tablets' \in Seq(Tablet) /\ DOMAIN tablets' = DOMAIN tablets
      /\ IsPartition(tablets') /\ UniqueIds(tablets', next_tablet_id)
      /\ pc' \in {"flipSave", "delRange"}
  BY <1>0, <1>3, <1>5, <1>6
<1>8. MasterTypeOK'
  BY <1>0, <1>6, <1>7 DEF MInv, MasterTypeOK, localVars, Pc, MigrationPc
<1>9. TablesOK' /\ LocalsOK'
  BY <1>0, <1>7 DEF MInv, TablesOK, LocalsOK, localVars
<1> QED
  BY <1>0, <1>8, <1>9 DEF MInv, linkVars, LinkTypeOK, BudgetOK

\* The table saved after a migration is the one in memory.
LEMMA FlipSaveInv == ASSUME MLInv, FlipSave PROVE MLInv'
<1> USE DEF MLInv
<1>1. /\ pc = "flipSave" /\ UNCHANGED memVars /\ SaveTablets
      /\ tablets' \in Seq(Tablet) /\ next_tablet_id' \in Nat /\ epoch' \in Nat
      /\ IsPartition(tablets') /\ UniqueIds(tablets', next_tablet_id')
  BY DEF FlipSave, memVars, MInv, MasterTypeOK, TablesOK
<1>2. /\ tablet_file' \in [state : FileState, next : Nat, epoch : Nat, tablets : Seq(Tablet)]
      /\ tablet_file'.state = "good" =>
            IsPartition(tablet_file'.tablets) /\ UniqueIds(tablet_file'.tablets, tablet_file'.next)
      /\ BudgetOK'
  BY <1>1, SaveInv
<1>3. MasterTypeOK'
  BY <1>1, <1>2 DEF FlipSave, MInv, MasterTypeOK, localVars, Pc, MigrationPc
<1>4. TablesOK' /\ LocalsOK'
  BY <1>1, <1>2 DEF FlipSave, MInv, TablesOK, LocalsOK, localVars, memVars, MigrationPc
<1> QED
  BY <1>2, <1>3, <1>4 DEF FlipSave, MInv, linkVars, LinkTypeOK

\* The DELETE_RANGE to the source, sent or failed.
LEMMA SendDeleteRangeInv == ASSUME MLInv, SendDeleteRange PROVE MLInv'
<1> USE DEF MLInv
<1>1. /\ pc = "delRange" /\ cur \in Tablet /\ cur.node_id \in DataNode /\ dst \in DataNode
      /\ idx \in DOMAIN tablets /\ RangeRequest("delrange", cur) \in Request
  <2>1. pc = "delRange" /\ cur \in Tablet /\ dst \in DataNode /\ idx \in DOMAIN tablets
    BY DEF SendDeleteRange, MInv, LocalsOK, MigrationPc
  <2> QED
    BY <2>1, RangeRequestType DEF Tablet
<1>2. CASE /\ Send(cur.node_id, RangeRequest("delrange", cur)) /\ pc' = "delWait"
           /\ UNCHANGED localVars /\ UNCHANGED <<memVars, tablet_file>> /\ UNCHANGED budget
  <2>1. LinkTypeOK'
    BY <1>1, <1>2, SendType
  <2>2. MasterTypeOK'
    BY <1>2 DEF MInv, memVars, localVars, MasterTypeOK, Pc, MigrationPc
  <2>3. TablesOK' /\ LocalsOK'
    BY <1>1, <1>2 DEF MInv, memVars, localVars, TablesOK, LocalsOK
  <2> QED
    BY <1>2, <2>1, <2>2, <2>3 DEF BudgetOK, MInv
<1>3. CASE SendFails(cur.node_id) /\ Sleep /\ UNCHANGED <<memVars, tablet_file>> /\ UNCHANGED budget
  BY <1>1, <1>3, SleepInv DEF SendFails, linkVars, LinkTypeOK, BudgetOK
<1>4. CASE Die /\ UNCHANGED budget
  BY <1>4, DieInv DEF BudgetOK
<1> QED
  BY <1>2, <1>3, <1>4 DEF SendDeleteRange, Call

\* The end of MigrateTablet, whatever became of the DELETE_RANGE.
LEMMA DeleteRangeDoneInv == ASSUME MLInv, DeleteRangeDone PROVE MLInv'
<1> USE DEF MLInv
<1>0. pc = "delWait" /\ cur \in Tablet /\ cur.node_id \in DataNode
  BY DEF DeleteRangeDone, MInv, LocalsOK, MigrationPc, Tablet
<1>1. LinkTypeOK' /\ BudgetOK'
  BY <1>0, RecvType, RecvFailsType DEF DeleteRangeDone
<1> QED
  BY <1>0, <1>1, SleepInv DEF DeleteRangeDone

-----------------------------------------------------------------------------
(* Steps of the DataNodes and of the clients                               *)

\* A DataNode serves a request of the living or of a dead Master.
LEMMA ServeType ==
    ASSUME LinkTypeOK, NodeTypeOK, NEW n \in DataNode,
           Serve(n) \/ ServeOrphan(n) \/ DiscardOrphans(n)
    PROVE  LinkTypeOK' /\ NodeTypeOK'
<1>1. /\ requests[n] \in Seq(Request) /\ replies[n] \in Seq(Reply) /\ orphans[n] \in Seq(Request)
  BY DEF LinkTypeOK
<1>2. CASE Serve(n)
  <2>1. Head(requests[n]) \in Request /\ Tail(requests[n]) \in Seq(Request)
    BY <1>1, <1>2 DEF Serve
  <2>2. /\ HandleEffect(n, Head(requests[n])) \in Db
        /\ HandleBinaryRequest(n, Head(requests[n])) \in Reply
    BY <2>1, HandleTypes
  <2>3. Append(replies[n], HandleBinaryRequest(n, Head(requests[n]))) \in Seq(Reply)
    BY <1>1, <2>2
  <2> QED
    BY <1>2, <2>1, <2>2, <2>3 DEF Serve, LinkTypeOK, NodeTypeOK
<1>3. CASE ServeOrphan(n)
  <2>1. Head(orphans[n]) \in Request /\ Tail(orphans[n]) \in Seq(Request)
    BY <1>1, <1>3 DEF ServeOrphan
  <2>2. HandleEffect(n, Head(orphans[n])) \in Db
    BY <2>1, HandleTypes
  <2> QED
    BY <1>3, <2>1, <2>2 DEF ServeOrphan, LinkTypeOK, NodeTypeOK
<1>4. CASE DiscardOrphans(n)
  <2>1. <<>> \in Seq(Request)
    OBVIOUS
  <2> QED
    BY <1>4, <2>1 DEF DiscardOrphans, LinkTypeOK, NodeTypeOK, nodeVars
<1> QED
  BY <1>2, <1>3, <1>4

\* A DataNode that dies inside a handler leaves a database behind.
LEMMA NodeCrashType ==
    ASSUME LinkTypeOK, NodeTypeOK, BudgetOK, NEW n \in DataNode, NodeCrash(n)
    PROVE  LinkTypeOK' /\ NodeTypeOK' /\ BudgetOK'
<1>1. BudgetOK'
  BY SpendType DEF NodeCrash
<1>2. CrashEffects(n) \subseteq Db
  <2>1. db[n] \in Db
    BY DEF NodeTypeOK
  <2>2. CASE requests[n] = <<>>
    BY <2>1, <2>2 DEF CrashEffects
  <2>3. CASE requests[n] # <<>>
    <3> DEFINE req == Head(requests[n])
    <3>1. req \in Request
      BY <2>3 DEF LinkTypeOK
    <3>2. HandleEffect(n, req) \in Db
      BY <3>1, HandleTypes
    <3>3. \A last \in Key :
             [k \in Key |-> IF InRange(k, req.start, req.end) /\ k <= last
                            THEN NoValue ELSE db[n][k]] \in Db
      BY <2>1 DEF Db
    <3> QED
      BY <2>1, <2>3, <3>2, <3>3 DEF CrashEffects
  <2> QED
    BY <2>2, <2>3
<1>3. NodeTypeOK'
  BY <1>2 DEF NodeCrash, NodeTypeOK
<1>4. LinkTypeOK'
  <2>1. <<>> \in Seq(Request)
    OBVIOUS
  <2>2. conn' \in [DataNode -> ConnState]
    BY DEF NodeCrash, LinkTypeOK, ConnState
  <2>3. requests' \in [DataNode -> Seq(Request)] /\ orphans' \in [DataNode -> Seq(Request)]
        /\ replies' \in [DataNode -> Seq(Reply)]
    BY <2>1 DEF NodeCrash, LinkTypeOK
  <2> QED
    BY <2>2, <2>3 DEF LinkTypeOK
<1> QED
  BY <1>1, <1>3, <1>4

\* A DataNode comes back with the database it had.
LEMMA NodeRestartType ==
    ASSUME LinkTypeOK, NodeTypeOK, BudgetOK, NEW n \in DataNode, NodeRestart(n)
    PROVE  LinkTypeOK' /\ NodeTypeOK' /\ BudgetOK'
  BY DEF NodeRestart, LinkTypeOK, NodeTypeOK, BudgetOK, linkVars

\* Steps that leave the Master alone keep its part of the invariant.
LEMMA MasterUnchanged ==
    ASSUME MInv, UNCHANGED masterVars
    PROVE  MInv'
<1>1. MasterTypeOK'
  BY DEF MInv, MasterTypeOK, masterVars, memVars, localVars
<1>2. TablesOK' /\ LocalsOK'
  BY DEF MInv, TablesOK, LocalsOK, masterVars, memVars, localVars
<1> QED
  BY <1>1, <1>2 DEF MInv

\* A routed command names a DataNode, because the table is a partition.
LEMMA ClientInv ==
    ASSUME IInv, NEW c \in Client, ClientRoute(c) \/ ClientExecute(c) \/ ClientFail(c)
    PROVE  IInv'
<1> USE DEF IInv
<1>1. MInv' /\ LinkTypeOK'
  <2>1. UNCHANGED <<masterVars, linkVars>>
    BY DEF ClientRoute, ClientExecute, ClientFail
  <2> QED
    BY <2>1, MasterUnchanged DEF LinkTypeOK, linkVars
<1>2. Idle \in Command
  BY KeyFacts DEF Idle, Command
<1>3. CASE ClientRoute(c)
  <2>1. PICK op \in {"put", "get", "delete"}, k \in Key, v \in Value :
           client' = [client EXCEPT ![c] =
                [op |-> op, key |-> k, val |-> IF op = "put" THEN v ELSE NoValue,
                 node |-> GetTabletRoute(tablets, k).node_id]]
    BY <1>3 DEF ClientRoute
  <2>2. GetTabletRoute(tablets, k).node_id \in DataNode
    <3>1. tablets \in Seq(Tablet) /\ IsPartition(tablets)
      BY <1>3 DEF ClientRoute, MInv, MasterTypeOK, TablesOK
    <3>2. GetTabletRoute(tablets, k) \in Tablet
      BY <3>1, RouteFound
    <3> QED
      BY <3>2 DEF Tablet
  <2>3. [op |-> op, key |-> k, val |-> IF op = "put" THEN v ELSE NoValue,
         node |-> GetTabletRoute(tablets, k).node_id] \in Command
    BY <2>2, KeyFacts DEF Command
  <2>4. ClientOK'
    BY <1>3, <2>1, <2>3 DEF ClientOK, ClientRoute
  <2>5. BudgetOK' /\ NodeTypeOK'
    BY <1>3, SpendType DEF ClientRoute, nodeVars, NodeTypeOK
  <2> QED
    BY <1>1, <2>4, <2>5
<1>4. CASE ClientExecute(c)
  <2>1. client[c] \in Command
    BY DEF ClientOK
  <2>2. client[c].val \in Value \cup {NoValue}
    BY <2>1 DEF Command
  <2>3. latest' \in Db
    BY <1>4, <2>2 DEF ClientExecute, ClientOK, Db
  <2>4. client' \in [Client -> Command]
    BY <1>2, <1>4 DEF ClientExecute, ClientOK
  <2>5. \A d \in Db : /\ Put(d, client[c].key, client[c].val) \in Db
                      /\ Delete(d, client[c].key) \in Db
    BY <2>2 DEF Put, Delete, Db
  <2>6. NodeTypeOK'
    <3>1. CASE UNCHANGED db
      BY <1>4, <3>1 DEF ClientExecute, NodeTypeOK
    <3>2. CASE db' = [db EXCEPT ![client[c].node] =
                        IF client[c].op = "put" THEN Put(@, client[c].key, client[c].val)
                                                ELSE Delete(@, client[c].key)]
      BY <1>4, <2>5, <3>2 DEF ClientExecute, NodeTypeOK
    <3> QED
      BY <1>4, <3>1, <3>2 DEF ClientExecute
  <2> QED
    BY <1>1, <1>4, <2>3, <2>4, <2>6 DEF ClientOK, BudgetOK, ClientExecute
<1>5. CASE ClientFail(c)
  BY <1>1, <1>2, <1>5 DEF ClientFail, nodeVars, NodeTypeOK, BudgetOK, ClientOK
<1> QED
  BY <1>3, <1>4, <1>5

-----------------------------------------------------------------------------
(* The theorems                                                            *)

\* The initial state satisfies the invariant.
LEMMA InitInv == Init => IInv
<1> SUFFICES ASSUME Init PROVE IInv
  OBVIOUS
<1>0. EmptyDb \in Db
  BY DEF EmptyDb, Db
<1>1. MasterTypeOK
  <2>0. complete \in BOOLEAN
    BY Zenon DEF Init, MasterInit
  <2>1. <<>> \in Seq(Tablet) /\ complete \in BOOLEAN
    BY <2>0
  <2>2. NoFile("absent") \in [state : FileState, next : Nat, epoch : Nat, tablets : Seq(Tablet)]
    BY <2>1 DEF NoFile, FileState
  <2> QED
    BY <1>0, <2>1, <2>2
       DEF Init, MasterInit, MasterTypeOK, Pc, FirstFreeId, FirstEpoch
<1>2. TablesOK /\ LocalsOK
  BY NoPcClash DEF Init, MasterInit, TablesOK, LocalsOK, NoFile
<1>3. LinkTypeOK
  BY DEF Init, LinkInit, LinkTypeOK, ConnState
<1>4. NodeTypeOK
  BY <1>0 DEF Init, NodeInit, NodeTypeOK
<1>5. BudgetOK
  BY ClusterAssumption DEF Init, BudgetOK
<1>6. ClientOK
  BY <1>0, KeyFacts DEF Init, ClientOK, Idle, Command
<1> QED
  BY <1>1, <1>2, <1>3, <1>4, <1>5, <1>6 DEF IInv, MInv

\* Every step of the cluster keeps the invariant.
LEMMA NextInv == IInv /\ [Next]_vars => IInv'
<1> SUFFICES ASSUME IInv, [Next]_vars PROVE IInv'
  OBVIOUS
<1>0. MLInv
  BY DEF IInv, MLInv
<1>1. ASSUME MLInv', UNCHANGED <<nodeVars, envVars>> PROVE IInv'
  BY <1>1 DEF IInv, MLInv, NodeTypeOK, ClientOK, nodeVars, envVars
<1>2. ASSUME UNCHANGED <<masterVars, envVars>>, LinkTypeOK', NodeTypeOK', BudgetOK'
      PROVE  IInv'
  BY <1>2, MasterUnchanged DEF IInv, ClientOK, envVars
<1>3. CASE StartMaster
  BY <1>0, <1>1, <1>3, MasterStartInv DEF StartMaster
<1>4. CASE WakeUp
  BY <1>0, <1>1, <1>4, WakeInv DEF WakeUp
<1>5. CASE Migrate
  BY <1>0, <1>1, <1>5, MigrateStartInv DEF Migrate
<1>6. CASE KillMaster
  BY <1>0, <1>1, <1>6, MasterCrashInv DEF KillMaster
<1>7. CASE Balance
  <2>1. MLInv'
    BY <1>0, <1>7, SyncSendInv, SyncReplyInv, SyncDoneInv, SplitSendInv, SplitReplyInv,
       SplitTimeoutInv, SplitSaveInv, SplitDoneInv, BalanceIdleInv, ScanReplyInv,
       ScanTimeoutInv, TransferSendInv, PutReplyInv, TransferFailedInv, FlipRouteInv,
       FlipSaveInv, SendDeleteRangeInv, DeleteRangeDoneInv
       DEF Balance, BalancerStep
  <2> QED
    BY <1>1, <1>7, <2>1 DEF Balance
<1>8. ASSUME NEW n \in DataNode,
             ServeNode(n) \/ ServeOrphanOf(n) \/ DiscardOrphansOf(n)
      PROVE  IInv'
  <2>1. LinkTypeOK' /\ NodeTypeOK'
    BY <1>8, ServeType DEF IInv, ServeNode, ServeOrphanOf, DiscardOrphansOf
  <2>2. BudgetOK'
    BY <1>8 DEF IInv, BudgetOK, ServeNode, ServeOrphanOf, DiscardOrphansOf
  <2> QED
    BY <1>2, <1>8, <2>1, <2>2 DEF ServeNode, ServeOrphanOf, DiscardOrphansOf
<1>9. ASSUME NEW n \in DataNode, KillNode(n) \/ StartNode(n)
      PROVE  IInv'
  BY <1>2, <1>9, NodeCrashType, NodeRestartType DEF IInv, KillNode, StartNode
<1>10. ASSUME NEW c \in Client, ClientRoute(c) \/ ClientExecute(c) \/ ClientFail(c)
       PROVE  IInv'
  BY <1>10, ClientInv
<1>11. CASE UNCHANGED vars
  <2>1. UNCHANGED <<masterVars, envVars>> /\ UNCHANGED <<linkVars, nodeVars, budget>>
    BY <1>11 DEF vars, envVars
  <2>2. LinkTypeOK' /\ NodeTypeOK' /\ BudgetOK'
    BY <2>1 DEF IInv, LinkTypeOK, NodeTypeOK, BudgetOK, linkVars, nodeVars
  <2> QED
    BY <1>2, <2>1, <2>2
<1> QED
  BY <1>3, <1>4, <1>5, <1>6, <1>7, <1>8, <1>9, <1>10, <1>11 DEF Next

\* The invariant the theorems below rest on: the tables, the balancer's
\* copies of their entries, and the types of everything on the wire.
THEOREM InductiveInvariant == Spec => []IInv
  BY InitInv, NextInv, PTL DEF Spec

\* Every variable of the cluster keeps its type: no request is ever sent to,
\* and no command routed to, something that is not a DataNode.
THEOREM TypeCorrect == Spec => []TypeOK
<1>1. IInv => TypeOK
  BY DEF IInv, MInv, BudgetOK, ClientOK, TypeOK
<1> QED
  BY <1>1, InductiveInvariant, PTL

\* The routing table the handlers read, and the one on disk, give every key
\* exactly one owner: in spite of crashes, timeouts, misread replies and
\* failed saves.
THEOREM PartitionAlways == Spec => []TabletsPartition
<1>1. IInv => TabletsPartition
  BY InitialTable DEF IInv, MInv, TablesOK, TabletsPartition, RoutingTable, DurableTable
<1> QED
  BY <1>1, InductiveInvariant, PTL

\* No two tablets of a table share an id.
THEOREM IdsUniqueAlways == Spec => []TabletIdsUnique
<1>1. IInv => TabletIdsUnique
  BY DEF IInv, MInv, TablesOK, TabletIdsUnique
<1> QED
  BY <1>1, InductiveInvariant, PTL
=============================================================================
