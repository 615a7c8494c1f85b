----------------------------- MODULE MasterLink -----------------------------
(***************************************************************************)
(* The Master's management connection to each DataNode: the RpcClient in   *)
(* node_clients_ (rpc_client.cpp) and the frames on it.                    *)
(*                                                                         *)
(* A connection is one TCP stream, so both directions are FIFO.  It is     *)
(* opened in the RaftNode constructor and never re-opened.  IsConnected    *)
(* only tests fd_ >= 0, so a connection the peer has closed still counts   *)
(* as connected: the next send succeeds and is lost, and once the peer's   *)
(* RST has arrived a send fails or raises SIGPIPE (Send passes no          *)
(* MSG_NOSIGNAL), which ends the process.                                  *)
(***************************************************************************)
EXTENDS StorageEngine, TabletTable

VARIABLES
    conn,       \* conn[n]: state of the Master's connection to DataNode n
    requests,   \* requests[n]: frames sent to n and not yet handled by it
    replies,    \* replies[n]: frames n sent back, not yet taken by RecvFrame
    orphans,    \* orphans[n]: requests of a dead Master still buffered at n
    budget      \* how many more faults and client operations may happen

linkVars == <<conn, requests, replies, orphans>>

\* "none": Connect failed or no process; "closed": the peer closed (FIN);
\* "broken": the peer's RST has arrived.
ConnState == {"none", "open", "closed", "broken"}

Spend(what) ==
    /\ budget[what] > 0
    /\ budget' = [budget EXCEPT ![what] = @ - 1]

(***************************************************************************)
(* Frames.  A request carries its opcode, a range (for a PUT the key is    *)
(* start) and a value.  The Master numbers every request 1 (PUTs rid+i+1)  *)
(* and never compares the id of a reply, so ids are left out; req is a     *)
(* history field that records which request a reply answers.               *)
(***************************************************************************)
Request == [op : {"stats", "scan", "put", "delrange"},
            start : Bound, end : Bound, val : Value \cup {NoValue}]

RangeRequest(op, t) ==
    [op |-> op, start |-> t.start_key, end |-> t.end_key, val |-> NoValue]
PutRequest(key, value) ==
    [op |-> "put", start |-> key, end |-> Empty, val |-> value]

\* count and first are the first two fields of a reply's body: key count and
\* median key of a STATS reply, pair count and first key of a SCAN reply.
Reply == [req : Request, ok : BOOLEAN, count : Nat, first : Bound, pairs : Db]

\* QueryTabletStats accepts any ST_OK payload of at least 11 bytes that holds
\* a count and a key: a STATS reply, or a SCAN reply with at least one pair.
StatsDecodes(r) ==
    /\ r.ok
    /\ \/ r.req.op = "stats"
       \/ r.req.op = "scan" /\ r.count > 0

\* ScanAndTransferData accepts any ST_OK payload with a count.  In a STATS
\* reply the first pair has no value, so the loop breaks with no pair read.
ScanDecodes(r) == r.ok /\ r.req.op \in {"stats", "scan"}
ScannedPairs(r) == IF r.req.op = "scan" THEN r.pairs ELSE EmptyDb
ScannedAll(r) == r.req.op = "scan" \/ r.count = 0

(***************************************************************************)
(* RpcClient::Send and RpcClient::RecvFrame.                               *)
(***************************************************************************)
Send(n, req) ==
    \/ /\ conn[n] = "open"
       /\ requests' = [requests EXCEPT ![n] = Append(@, req)]
       /\ UNCHANGED <<conn, replies, orphans>>
    \/ /\ conn[n] = "closed"
       /\ \E c \in {"closed", "broken"} : conn' = [conn EXCEPT ![n] = c]
       /\ UNCHANGED <<requests, replies, orphans>>

SendFails(n) ==
    /\ conn[n] \in {"none", "broken"}
    /\ UNCHANGED linkVars

\* A slip: the frame is not erased from buf_.
RecvFrameKept(n) ==
    /\ replies[n] # <<>>
    /\ UNCHANGED <<linkVars, budget>>

\* Takes Head(replies[n]), whichever request it answers.
RecvFrame(n) ==
    /\ replies[n] # <<>>
    /\ replies' = [replies EXCEPT ![n] = Tail(@)]
    /\ UNCHANGED <<conn, requests, orphans, budget>>

\* RecvFrame returns false: the peer is gone, or nothing came in time.  The
\* reply that was waited for stays in the stream.
RecvFails(n) ==
    /\ replies[n] = <<>>
    /\ \/ conn[n] # "open" /\ UNCHANGED budget
       \/ conn[n] = "open" /\ Spend("timeouts")
    /\ UNCHANGED linkVars

\* The kernel closes the Master's sockets; what it had sent may still be read.
DropConnections ==
    /\ conn' = [n \in DataNode |-> "none"]
    /\ requests' = [n \in DataNode |-> <<>>]
    /\ replies' = [n \in DataNode |-> <<>>]
    /\ orphans' = [n \in DataNode |-> orphans[n] \o requests[n]]

LinkTypeOK ==
    /\ conn \in [DataNode -> ConnState]
    /\ requests \in [DataNode -> Seq(Request)]
    /\ replies \in [DataNode -> Seq(Reply)]
    /\ orphans \in [DataNode -> Seq(Request)]

LinkInit ==
    /\ conn = [n \in DataNode |-> "none"]
    /\ requests = [n \in DataNode |-> <<>>]
    /\ replies = [n \in DataNode |-> <<>>]
    /\ orphans = [n \in DataNode |-> <<>>]
=============================================================================
