------------------------------ MODULE DataNode ------------------------------
(***************************************************************************)
(* The DataNode role of RaftNode: the handlers behind HandleBinaryRequest, *)
(* run by the thread that serves a connection, over the node's storage.    *)
(***************************************************************************)
EXTENDS MasterLink

CONSTANT NoStorage   \* DataNodes whose LevelDB failed to open (storage_ is null)

ASSUME NoStorageAssumption == NoStorage \subseteq DataNode

VARIABLES
    db,      \* db[n]: contents of node n's LevelDB
    alive    \* alive[n]: node n's process is running

nodeVars == <<db, alive>>

(***************************************************************************)
(* Effect and reply of the four requests the Master sends.  Without a      *)
(* storage every handler answers ST_TIMEOUT, except that of OP_TABLET_STATS*)
(* which ignores the result of DataNodeGetTabletStats and reports 0 keys.  *)
(***************************************************************************)
HandleEffect(n, req) ==
    IF n \in NoStorage THEN db[n]
    ELSE CASE req.op = "put" -> Put(db[n], req.start, req.val)
           [] req.op = "delrange" -> DeleteRange(db[n], req.start, req.end)
           [] OTHER -> db[n]

TabletStatsReply(n, req) ==
    [req |-> req, ok |-> TRUE, pairs |-> EmptyDb,
     count |-> IF n \in NoStorage THEN 0 ELSE RangeCount(db[n], req.start, req.end),
     first |-> IF n \in NoStorage THEN Empty ELSE MedianKey(db[n], req.start, req.end)]

ScanRangeReply(n, req) ==
    LET pairs == RangeQuery(db[n], req.start, req.end)
    IN  [req |-> req, ok |-> TRUE, pairs |-> pairs,
         count |-> Cardinality(KeysOf(pairs)), first |-> FirstKey(pairs)]

StatusReply(n, req, ok) ==
    [req |-> req, ok |-> ok, pairs |-> EmptyDb, count |-> 0, first |-> Empty]

HandleBinaryRequest(n, req) ==
    CASE req.op = "stats" -> TabletStatsReply(n, req)
      [] req.op = "scan" /\ n \notin NoStorage -> ScanRangeReply(n, req)
      [] OTHER -> StatusReply(n, req, n \notin NoStorage)

\* The worker thread of the Master's connection takes the next request.
Serve(n) ==
    /\ alive[n]
    /\ requests[n] # <<>>
    /\ LET req == Head(requests[n])
       IN  /\ db' = [db EXCEPT ![n] = HandleEffect(n, req)]
           /\ replies' = [replies EXCEPT ![n] = Append(@, HandleBinaryRequest(n, req))]
    /\ requests' = [requests EXCEPT ![n] = Tail(@)]
    /\ UNCHANGED <<conn, orphans, alive>>

\* The same for a connection whose Master has died: either the request is
\* still read and executed, or the reset connection discards it.
ServeOrphan(n) ==
    /\ alive[n]
    /\ orphans[n] # <<>>
    /\ db' = [db EXCEPT ![n] = HandleEffect(n, Head(orphans[n]))]
    /\ orphans' = [orphans EXCEPT ![n] = Tail(@)]
    /\ UNCHANGED <<conn, requests, replies, alive>>

DiscardOrphans(n) ==
    /\ orphans[n] # <<>>
    /\ orphans' = [orphans EXCEPT ![n] = <<>>]
    /\ UNCHANGED <<conn, requests, replies, nodeVars>>

(***************************************************************************)
(* A crash loses what was not yet handled.  It can fall inside the handler *)
(* of the next request: a PUT done but not answered, a DELETE_RANGE that   *)
(* has deleted only the keys up to some point.                             *)
(***************************************************************************)
CrashEffects(n) ==
    {db[n]} \cup
    IF requests[n] = <<>> THEN {}
    ELSE LET req == Head(requests[n])
         IN  IF req.op = "delrange" /\ n \notin NoStorage
             THEN {[k \in Key |->
                      IF InRange(k, req.start, req.end) /\ k <= last
                      THEN NoValue ELSE db[n][k]] : last \in Key}
             ELSE {HandleEffect(n, req)}

NodeCrash(n) ==
    /\ alive[n]
    /\ Spend("node_crashes")
    /\ alive' = [alive EXCEPT ![n] = FALSE]
    /\ \E d \in CrashEffects(n) : db' = [db EXCEPT ![n] = d]
    /\ \E c \in {"closed", "broken"} :
          /\ requests[n] = <<>> => c = "closed"
          /\ conn' = [conn EXCEPT ![n] = IF @ = "open" THEN c ELSE @]
    /\ requests' = [requests EXCEPT ![n] = <<>>]
    /\ orphans' = [orphans EXCEPT ![n] = <<>>]
    /\ UNCHANGED replies

NodeRestart(n) ==
    /\ ~alive[n]
    /\ alive' = [alive EXCEPT ![n] = TRUE]
    /\ UNCHANGED <<linkVars, db, budget>>

NodeTypeOK == db \in [DataNode -> Db] /\ alive \in [DataNode -> BOOLEAN]

NodeInit ==
    /\ db = [n \in DataNode |-> EmptyDb]
    /\ alive = [n \in DataNode |-> TRUE]
=============================================================================
