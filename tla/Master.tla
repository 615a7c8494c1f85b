------------------------------- MODULE Master -------------------------------
(***************************************************************************)
(* The Master role of RaftNode: start-up, the balancer thread              *)
(* (BalancerLoop: SyncAllTabletStats, TrySplitTablet, DoLoadBalance) and   *)
(* the persistent routing table.                                           *)
(*                                                                         *)
(* The balancer is one thread.  Its steps are the points where another     *)
(* actor can tell: a frame is sent, a reply is taken, the routing table    *)
(* the request handlers read is changed, the file is replaced.             *)
(***************************************************************************)
EXTENDS MasterLink

VARIABLES
    pc,               \* where the balancer thread is; "off": no process
    tablets,          \* tablets_
    next_tablet_id,   \* next_tablet_id_
    epoch,            \* epoch_
    tablet_file,      \* contents of tablets.json
    idx,              \* loop index of SyncAllTabletStats / of the split loop
    cur,              \* the tablet (copy) the balancer is working on
    dst,              \* dst_node of the migration under way
    todo,             \* scanned pairs not yet PUT to dst
    complete          \* transferred == count, for the pairs handled so far

memVars == <<tablets, next_tablet_id, epoch>>
localVars == <<idx, cur, dst, todo, complete>>
masterVars == <<pc, memVars, tablet_file, localVars>>

MigrationPc == {"scanWait", "transfer", "putWait", "flipSave", "delRange", "delWait"}
WaitPc == {"syncWait", "splitWait", "scanWait", "putWait", "delWait"}
Pc == {"off", "sleep", "sync", "split", "splitSave", "balance"} \cup MigrationPc \cup WaitPc

NoTablet == [id |-> 0, start_key |-> Empty, end_key |-> Empty,
             node_id |-> 0, key_count |-> 0]

FileState == {"absent", "bad", "good"}
NoFile(state) == [state |-> state, next |-> 0, epoch |-> 0, tablets |-> <<>>]

ResetLocals ==
    /\ idx' = 1
    /\ cur' = NoTablet
    /\ dst' = 0
    /\ todo' = EmptyDb
    /\ complete' = FALSE

\* A slip: next_tablet_id_ is not written.
TabletFileWithoutNext(next, ep, ts) ==
    [state |-> "good", next |-> FirstFreeId, epoch |-> ep, tablets |-> ts]
TabletFile(next, ep, ts) ==
    [state |-> "good", next |-> next, epoch |-> ep, tablets |-> ts]

(***************************************************************************)
(* SaveTablets writes a temporary file and renames it over tablets.json.   *)
(* A failed open or rename leaves the old file; the result of the write    *)
(* itself is not checked, so a short write is renamed into place.  All     *)
(* three return silently.                                                  *)
(***************************************************************************)
SaveTablets ==
    \/ /\ tablet_file' = TabletFile(next_tablet_id', epoch', tablets')
       /\ UNCHANGED budget
    \/ /\ tablet_file' \in {tablet_file, NoFile("bad")}
       /\ Spend("save_faults")

\* LoadTablets fails when the file is absent or does not parse.
LoadTablets ==
    /\ tablet_file.state = "good"
    /\ tablets' = tablet_file.tablets
    /\ next_tablet_id' = tablet_file.next
    /\ epoch' = tablet_file.epoch

BuildInitialTablets ==
    /\ tablets' = InitialTablets
    /\ next_tablet_id' = FirstFreeId
    /\ epoch' = FirstEpoch

\* The constructor: connect to the DataNodes that answer (up), then load the
\* table or build and save a new one.
MasterStart(up) ==
    /\ pc = "off"
    /\ conn' = [n \in DataNode |-> IF n \in up THEN "open" ELSE "none"]
    /\ \/ LoadTablets /\ UNCHANGED <<tablet_file, budget>>
       \/ tablet_file.state # "good" /\ BuildInitialTablets /\ SaveTablets
    /\ pc' = "sleep"
    /\ UNCHANGED <<requests, replies, orphans, localVars>>

\* The process ends at any point: memory and connections are gone.
Die ==
    /\ pc' = "off"
    /\ tablets' = <<>>
    /\ next_tablet_id' = FirstFreeId
    /\ epoch' = FirstEpoch
    /\ ResetLocals
    /\ DropConnections
    /\ UNCHANGED tablet_file

MasterCrash ==
    /\ pc # "off"
    /\ Spend("master_crashes")
    /\ Die

\* Sends req to n and takes Sent; if the send fails, takes Failed; a send on
\* a broken connection can also raise SIGPIPE.
Call(n, req, Sent, Failed) ==
    /\ UNCHANGED budget
    /\ \/ Send(n, req) /\ Sent /\ UNCHANGED <<memVars, tablet_file>>
       \/ SendFails(n) /\ Failed /\ UNCHANGED <<memVars, tablet_file>>
       \/ conn[n] = "broken" /\ Die

\* Back to the top of BalancerLoop.
Sleep == pc' = "sleep" /\ ResetLocals

(***************************************************************************)
(* SyncAllTabletStats                                                      *)
(***************************************************************************)
Wake ==
    /\ pc = "sleep"
    /\ pc' = "sync"
    /\ UNCHANGED <<memVars, tablet_file, localVars, linkVars, budget>>

SyncSend ==
    /\ pc = "sync"
    /\ idx <= Len(tablets)
    /\ LET t == tablets[idx]
       IN  Call(t.node_id, RangeRequest("stats", t),
                pc' = "syncWait" /\ cur' = t /\ UNCHANGED <<idx, dst, todo, complete>>,
                idx' = idx + 1 /\ UNCHANGED <<pc, cur, dst, todo, complete>>)

SyncNext ==
    /\ pc' = "sync"
    /\ idx' = idx + 1
    /\ cur' = NoTablet
    /\ UNCHANGED <<next_tablet_id, epoch, tablet_file, dst, todo, complete>>

SyncReply ==
    /\ pc = "syncWait"
    /\ RecvFrame(cur.node_id)
    /\ LET r == Head(replies[cur.node_id])
       IN  tablets' = IF StatsDecodes(r)
                      THEN [tablets EXCEPT ![idx].key_count = r.count]
                      ELSE tablets
    /\ SyncNext

SyncTimeout ==
    /\ pc = "syncWait"
    /\ RecvFails(cur.node_id)
    /\ UNCHANGED tablets
    /\ SyncNext

SyncDone ==
    /\ pc = "sync"
    /\ idx > Len(tablets)
    /\ pc' = "split"
    /\ idx' = 1
    /\ UNCHANGED <<memVars, tablet_file, cur, dst, todo, complete, linkVars, budget>>

(***************************************************************************)
(* The split loop of BalancerLoop and TrySplitTablet.  The loop goes on    *)
(* with the right half of a tablet it has split.                           *)
(***************************************************************************)
SplitSend ==
    /\ pc = "split"
    /\ \E i \in idx..Len(tablets) :
          /\ tablets[i].key_count >= SPLIT_THRESHOLD
          /\ \A j \in idx..(i - 1) : tablets[j].key_count < SPLIT_THRESHOLD
          /\ Call(tablets[i].node_id, RangeRequest("stats", tablets[i]),
                  /\ pc' = "splitWait" /\ idx' = i /\ cur' = tablets[i]
                  /\ UNCHANGED <<dst, todo, complete>>,
                  idx' = i + 1 /\ UNCHANGED <<pc, cur, dst, todo, complete>>)

\* The reply's count replaces old_t.key_count (passed by reference).
SplitReply ==
    /\ pc = "splitWait"
    /\ RecvFrame(cur.node_id)
    /\ LET r == Head(replies[cur.node_id])
       IN  IF /\ StatsDecodes(r) /\ CanSplitAt(cur, r.first)
              /\ tablets[idx].id = cur.id /\ tablets[idx].key_count >= SPLIT_THRESHOLD
           THEN /\ tablets' = SplitTablet(tablets, idx, [cur EXCEPT !.key_count = r.count],
                                          r.first, next_tablet_id)
                /\ next_tablet_id' = next_tablet_id + 2
                /\ epoch' = epoch + 1
                /\ pc' = "splitSave"
                /\ UNCHANGED idx
           ELSE /\ pc' = "split"
                /\ idx' = idx + 1
                /\ UNCHANGED memVars
    /\ cur' = NoTablet
    /\ UNCHANGED <<tablet_file, dst, todo, complete>>

SplitTimeout ==
    /\ pc = "splitWait"
    /\ RecvFails(cur.node_id)
    /\ pc' = "split"
    /\ idx' = idx + 1
    /\ cur' = NoTablet
    /\ UNCHANGED <<memVars, tablet_file, dst, todo, complete>>

SplitSave ==
    /\ pc = "splitSave"
    /\ UNCHANGED memVars
    /\ SaveTablets
    /\ pc' = "split"
    /\ idx' = idx + 1
    /\ UNCHANGED <<cur, dst, todo, complete, linkVars>>

SplitDone ==
    /\ pc = "split"
    /\ \A j \in idx..Len(tablets) : tablets[j].key_count < SPLIT_THRESHOLD
    /\ pc' = "balance"
    /\ idx' = 1
    /\ UNCHANGED <<memVars, tablet_file, cur, dst, todo, complete, linkVars, budget>>

(***************************************************************************)
(* DoLoadBalance and MigrateTablet: SCAN the source, PUT every pair to the *)
(* destination, switch the route, save it, DELETE_RANGE the source.        *)
(***************************************************************************)
Balanced == Moves(tablets) = {}

BalanceIdle ==
    /\ pc = "balance"
    /\ Balanced
    /\ Sleep
    /\ UNCHANGED <<memVars, tablet_file, linkVars, budget>>

\* MigrateTablet returns at once when the tablet is already where it should go,
\* ScanAndTransferData when the destination was never connected.
MigrateStart ==
    /\ pc = "balance"
    /\ \E m \in Moves(tablets) :
         LET t == tablets[m[1]]
         IN  IF t.node_id = m[2] \/ conn[m[2]] = "none"
             THEN Sleep /\ UNCHANGED <<memVars, tablet_file, linkVars, budget>>
             ELSE Call(t.node_id, RangeRequest("scan", t),
                       /\ pc' = "scanWait" /\ idx' = m[1] /\ cur' = t /\ dst' = m[2]
                       /\ UNCHANGED <<todo, complete>>,
                       Sleep)

ScanReply ==
    /\ pc = "scanWait"
    /\ RecvFrame(cur.node_id)
    /\ LET r == Head(replies[cur.node_id])
       IN  IF ScanDecodes(r)
           THEN /\ pc' = "transfer"
                /\ todo' = ScannedPairs(r)
                /\ complete' = ScannedAll(r)
                /\ UNCHANGED <<idx, cur, dst>>
           ELSE Sleep
    /\ UNCHANGED <<memVars, tablet_file>>

ScanTimeout ==
    /\ pc = "scanWait"
    /\ RecvFails(cur.node_id)
    /\ Sleep
    /\ UNCHANGED <<memVars, tablet_file>>

\* The pair the transfer loop is at, and what happens when its PUT fails:
\* the loop continues with the next pair.
NextPair(k) == todo[k] # NoValue /\ \A j \in Key : j < k => todo[j] = NoValue

\* A slip: a failed PUT is counted as transferred.
PairDoneAnyway(k, ok) ==
    /\ pc' = "transfer"
    /\ todo' = [todo EXCEPT ![k] = NoValue]
    /\ UNCHANGED <<idx, cur, dst, complete>>

PairDone(k, ok) ==
    /\ pc' = "transfer"
    /\ todo' = [todo EXCEPT ![k] = NoValue]
    /\ complete' = (complete /\ ok)
    /\ UNCHANGED <<idx, cur, dst>>

TransferSend ==
    /\ pc = "transfer"
    /\ \E k \in Key :
          /\ NextPair(k)
          /\ Call(dst, PutRequest(k, todo[k]),
                  pc' = "putWait" /\ UNCHANGED localVars,
                  PairDone(k, FALSE))

\* Any frame counts as success: its status is not looked at.
PutReply ==
    /\ pc = "putWait"
    /\ RecvFrame(dst)
    /\ \E k \in Key : NextPair(k) /\ PairDone(k, TRUE)
    /\ UNCHANGED <<memVars, tablet_file>>

PutTimeout ==
    /\ pc = "putWait"
    /\ RecvFails(dst)
    /\ \E k \in Key : NextPair(k) /\ PairDone(k, FALSE)
    /\ UNCHANGED <<memVars, tablet_file>>

Transferred == todo = EmptyDb /\ complete

TransferFailed ==
    /\ pc = "transfer"
    /\ todo = EmptyDb
    /\ ~Transferred
    /\ Sleep
    /\ UNCHANGED <<memVars, tablet_file, linkVars, budget>>

FlipRoute ==
    /\ pc = "transfer"
    /\ Transferred
    /\ IF tablets[idx].id = cur.id
       THEN /\ tablets' = [tablets EXCEPT ![idx].node_id = dst]
            /\ epoch' = epoch + 1
            /\ pc' = "flipSave"
       ELSE UNCHANGED <<tablets, epoch>> /\ pc' = "delRange"
    /\ UNCHANGED <<next_tablet_id, tablet_file, localVars, linkVars, budget>>

\* A slip: the new route is not saved before the source is cleaned.
FlipSaveForgotten ==
    /\ pc = "flipSave"
    /\ pc' = "delRange"
    /\ UNCHANGED <<memVars, tablet_file, budget, localVars, linkVars>>

FlipSave ==
    /\ pc = "flipSave"
    /\ UNCHANGED memVars
    /\ SaveTablets
    /\ pc' = "delRange"
    /\ UNCHANGED <<localVars, linkVars>>

SendDeleteRange ==
    /\ pc = "delRange"
    /\ Call(cur.node_id, RangeRequest("delrange", cur),
            pc' = "delWait" /\ UNCHANGED localVars,
            Sleep)

\* Success and failure of the DELETE_RANGE differ in a log line only.
DeleteRangeDone ==
    /\ pc = "delWait"
    /\ RecvFrame(cur.node_id) \/ RecvFails(cur.node_id)
    /\ Sleep
    /\ UNCHANGED <<memVars, tablet_file>>

BalancerStep ==
    \/ SyncSend \/ SyncReply \/ SyncTimeout \/ SyncDone
    \/ SplitSend \/ SplitReply \/ SplitTimeout \/ SplitSave \/ SplitDone
    \/ BalanceIdle
    \/ ScanReply \/ ScanTimeout
    \/ TransferSend \/ PutReply \/ PutTimeout \/ TransferFailed
    \/ FlipRoute \/ FlipSave \/ SendDeleteRange \/ DeleteRangeDone

MasterTypeOK ==
    /\ pc \in Pc
    /\ tablets \in Seq(Tablet)
    /\ next_tablet_id \in Nat
    /\ epoch \in Nat
    /\ tablet_file \in [state : FileState, next : Nat, epoch : Nat, tablets : Seq(Tablet)]
    /\ idx \in Nat \ {0}
    /\ cur \in Tablet \cup {NoTablet}
    /\ dst \in DataNode \cup {0}
    /\ todo \in Db
    /\ complete \in BOOLEAN

MasterInit ==
    /\ pc = "off"
    /\ tablets = <<>>
    /\ next_tablet_id = FirstFreeId
    /\ epoch = FirstEpoch
    /\ tablet_file = NoFile("absent")
    /\ idx = 1
    /\ cur = NoTablet
    /\ dst = 0
    /\ todo = EmptyDb
    /\ complete = FALSE
=============================================================================
