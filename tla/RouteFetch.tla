----------------------------- MODULE RouteFetch -----------------------------
(***************************************************************************)
(* How the client gets its routing table: LekvCli::FetchRouteTable over an *)
(* RpcClient whose receive buffer outlives connections, and the Master's   *)
(* HandleMasterShards, which walks tablets_ without a lock while the       *)
(* balancer thread changes it.                                             *)
(*                                                                         *)
(* A reply is a sequence of cells: one for the frame header and one for    *)
(* each segment of the SHARDS text.  recv returns any number of cells, so  *)
(* a frame can arrive in parts.  There is one client, and its current      *)
(* connection; what happens to a connection it closed does not reach it.   *)
(***************************************************************************)
EXTENDS TabletTable, SequencesExt

CONSTANTS
    ColonKeys,     \* keys whose text contains ':'
    SplitsRace,    \* TrySplitTablet does not wait for HandleMasterShards
    MaxCommands, MaxChanges, MaxCrashes     \* bounds

ASSUME FetchAssumption ==
    /\ ColonKeys \subseteq 2..MaxKey
    /\ SplitsRace \in BOOLEAN
    /\ MaxCommands \in Nat /\ MaxChanges \in Nat /\ MaxCrashes \in Nat

VARIABLES
    \* the Master
    up,         \* the process runs
    tablets,    \* tablets_
    half,       \* the right half TrySplitTablet still has to insert, and where
    saved,      \* tablets.json
    reader,     \* the worker in HandleMasterShards
    \* the connection
    peer,       \* "open"; "fin", "rst": closed or reset by the Master;
                \*   "dead": the reset has been reported to the client
    requests,   \* request ids on their way to the Master
    wire,       \* cells on their way to the client
    \* the client
    cpc,        \* "prompt", "connect", "send", "recv", "killed"
    attempt,    \* 1, or 2 for the retry
    fd,         \* "none" (fd_ = -1), "failed" (connect failed), "conn"
    buf,        \* buf_
    rid,        \* id of the last request
    fetched,    \* the table the last command got, <<>> if it failed
    \* history and bounds
    owners,     \* nodes that owned each key since the command began
    calm,       \* the command began soundly, and no fault it cannot survive since
    torn,       \* a connection was closed with part of a frame in buf_
    budget      \* table changes and crashes left

masterVars == <<up, tablets, half, saved, reader>>
connVars == <<peer, requests, wire>>
clientVars == <<cpc, attempt, fd, buf, rid, fetched>>
fetchVars == <<masterVars, connVars, clientVars, owners, calm, torn, budget>>

NoHalf == [at |-> 0]
Idle == [rid |-> 0]

FetchInit ==
    /\ up = TRUE /\ tablets = InitialTablets /\ saved = InitialTablets
    /\ half = NoHalf /\ reader = Idle
    /\ peer = "dead" /\ requests = <<>> /\ wire = <<>>
    /\ cpc = "prompt" /\ attempt = 1 /\ fd = "none" /\ buf = <<>>
    /\ rid = 0 /\ fetched = <<>>
    /\ owners = [k \in Key |-> {}] /\ calm = FALSE /\ torn = FALSE
    /\ budget = [changes |-> MaxChanges, crashes |-> MaxCrashes]

(***************************************************************************)
(* The text of SHARDS.  A segment is id:start:end:ip:port, cut at every    *)
(* ':'.  A key with a ':' is two parts: the key before it in the order,    *)
(* which it extends, and another.                                          *)
(***************************************************************************)
Text(k) == IF k \in ColonKeys THEN <<k - 1, 1>> ELSE <<k>>

Segment(t) ==
    <<t.id>> \o Text(t.start_key) \o Text(t.end_key) \o <<0, t.node_id>>

\* The parts are taken by position; key_count is not sent.
ParseSegment(parts) ==
    [id |-> parts[1], start_key |-> parts[2], end_key |-> parts[3],
     node_id |-> parts[5], key_count |-> 0]

\* The client's tables: every segment parsed, sorted by start.  std::sort may
\* leave equal entries in any order; bytes of another frame inside the body
\* are no segments.
ParseBody(cells) ==
    LET segments == {i \in DOMAIN cells : cells[i].kind = "segment"}
        Entry(i) == ParseSegment(cells[i].parts)
        rank == 1..Cardinality(segments)
        InOrder(p) == \A i, j \in rank :
                         i < j => Entry(p[i]).start_key <= Entry(p[j]).start_key
    IN  {[i \in rank |-> Entry(p[i])] : p \in {q \in Injection(rank, segments) : InOrder(q)}}

(***************************************************************************)
(* The balancer thread, as far as readers of tablets_ see it.  Saves       *)
(* succeed here, and are one step with the change.                         *)
(***************************************************************************)
\* Every split takes two ids for one more tablet.
NextTabletId == 2 * Len(tablets) - 1

\* libstdc++ doubles the storage of a full vector.
StorageFull == Len(tablets) \in {1, 2, 4, 8, 16}

MayChange ==
    /\ up
    /\ half = NoHalf
    /\ budget.changes > 0

\* tablets_[idx] = left
SplitLeft ==
    /\ MayChange
    /\ SplitsRace \/ reader = Idle
    /\ \E i \in DOMAIN tablets, median \in Key :
          /\ CanSplitAt(tablets[i], median)
          /\ LET split == SplitTablet(tablets, i, tablets[i], median, NextTabletId)
             IN  /\ tablets' = [tablets EXCEPT ![i] = split[i]]
                 /\ half' = [at |-> i + 1, tablet |-> split[i + 1]]
    /\ budget' = [budget EXCEPT !.changes = @ - 1]
    /\ UNCHANGED <<up, saved, reader, connVars, clientVars, owners, calm, torn>>

\* tablets_.insert, which moves the vector if its storage is full.
SplitInsert ==
    /\ up
    /\ half # NoHalf
    /\ tablets' = InsertAt(tablets, half.at, half.tablet)
    /\ half' = NoHalf
    /\ saved' = tablets'
    /\ reader' = IF reader # Idle /\ StorageFull
                 THEN [reader EXCEPT !.freed = IF @ = <<>> THEN tablets ELSE @]
                 ELSE reader
    /\ UNCHANGED <<up, connVars, clientVars, owners, calm, torn, budget>>

\* MigrateTablet: tablets_[i].node_id = dst
FlipRoute ==
    /\ MayChange
    /\ \E i \in DOMAIN tablets, dst \in LoadedNodes(tablets) :
          /\ dst # tablets[i].node_id
          /\ tablets' = [tablets EXCEPT ![i].node_id = dst]
          /\ owners' = [k \in Key |->
                IF InRange(k, tablets[i].start_key, tablets[i].end_key)
                THEN owners[k] \cup {dst} ELSE owners[k]]
    /\ saved' = tablets'
    /\ budget' = [budget EXCEPT !.changes = @ - 1]
    /\ UNCHANGED <<up, half, reader, connVars, clientVars, calm, torn>>

(***************************************************************************)
(* HandleMasterShards on the worker thread of the connection               *)
(***************************************************************************)
\* The loop fixes begin() and end() when it starts.
ShardsBegin ==
    /\ up /\ peer = "open" /\ requests # <<>>
    /\ reader = Idle
    /\ SplitsRace \/ half = NoHalf
    /\ reader' = [rid |-> Head(requests), size |-> Len(tablets),
                  body |-> <<>>, freed |-> <<>>]
    /\ requests' = Tail(requests)
    /\ UNCHANGED <<up, tablets, half, saved, peer, wire, clientVars, owners, calm, torn, budget>>

\* A tablet read from freed storage still has its bytes, or the empty strings
\* left behind when its keys were moved; or the process dies (MasterCrash).
ReadOutcomes(i) ==
    IF reader.freed = <<>> THEN {tablets[i]}
    ELSE {reader.freed[i],
          [reader.freed[i] EXCEPT !.start_key = Empty, !.end_key = Empty]}

ShardsRead ==
    /\ up
    /\ reader # Idle
    /\ Len(reader.body) < reader.size
    /\ \E t \in ReadOutcomes(Len(reader.body) + 1) :
          reader' = [reader EXCEPT !.body = Append(@, Segment(t))]
    /\ UNCHANGED <<up, tablets, half, saved, connVars, clientVars, owners, calm, torn, budget>>

\* EncodeResponse, and the loop of send.
Frame(id, body) ==
    <<[kind |-> "header", rid |-> id, size |-> Len(body)]>>
      \o [i \in DOMAIN body |-> [kind |-> "segment", parts |-> body[i]]]

ShardsReply ==
    /\ up
    /\ reader # Idle
    /\ Len(reader.body) = reader.size
    /\ wire' = wire \o Frame(reader.rid, reader.body)
    /\ reader' = Idle
    /\ UNCHANGED <<up, tablets, half, saved, peer, requests, clientVars, owners, calm, torn, budget>>

(***************************************************************************)
(* The Master dies and is started again.  What it sent still arrives, but  *)
(* for the end of a reply it had not sent completely; the connection is    *)
(* closed, or reset if a request had not been read.                        *)
(***************************************************************************)
MasterCrash ==
    /\ up
    /\ budget.crashes > 0
    /\ up' = FALSE
    /\ tablets' = saved /\ half' = NoHalf /\ reader' = Idle
    /\ peer' = IF peer # "open" THEN peer
               ELSE IF requests = <<>> THEN "fin" ELSE "rst"
    /\ requests' = <<>>
    /\ \E n \in (IF peer = "open" THEN 0..Len(wire) ELSE {Len(wire)}) :
          wire' = SubSeq(wire, 1, n)
    /\ budget' = [budget EXCEPT !.crashes = @ - 1]
    /\ calm' = FALSE
    /\ UNCHANGED <<saved, clientVars, owners, torn>>

MasterRestart ==
    /\ ~up
    /\ up' = TRUE
    /\ UNCHANGED <<tablets, half, saved, reader, connVars, clientVars, owners, calm, torn, budget>>

(***************************************************************************)
(* The client                                                              *)
(***************************************************************************)
\* No reply to an earlier request is under way.
NothingLate ==
    buf = <<>> /\ wire = <<>> /\ requests = <<>> /\ reader = Idle

\* The Master is up, and the socket never connected or has no reset reported:
\* the Master may have closed or reset the connection since the last command.
SoundStart ==
    /\ up
    /\ NothingLate
    /\ fd = "none" \/ (fd = "conn" /\ peer # "dead")

\* Execute: out.clear(), IsConnected(), NextReqId().
Command ==
    /\ cpc = "prompt"
    /\ rid < MaxCommands
    /\ rid' = rid + 1
    /\ attempt' = 1
    /\ fetched' = <<>>
    /\ cpc' = IF fd = "none" THEN "connect" ELSE "send"
    /\ owners' = [k \in Key |->
          {t.node_id : t \in {u \in ToSet(saved) : InRange(k, u.start_key, u.end_key)}}]
    /\ calm' = SoundStart
    /\ UNCHANGED <<masterVars, connVars, fd, buf, torn, budget>>

\* RpcClient::Close and Connect; buf_ is kept, with the part of a frame in it.
\* FetchRouteTable returns if it fails, with the useless socket still in fd_.
Connect ==
    /\ cpc = "connect"
    /\ requests' = <<>> /\ wire' = <<>>
    /\ reader' = Idle
    /\ \/ up /\ fd' = "conn" /\ peer' = "open" /\ cpc' = "send"
       \/ ~up /\ fd' = "failed" /\ peer' = "dead" /\ cpc' = "prompt"
    /\ torn' = (torn \/ buf # <<>>)
    /\ UNCHANGED <<up, tablets, half, saved, attempt, buf, rid, fetched, owners, calm, budget>>

\* Send succeeds; on a closed connection it is lost and answered by a reset.
Send ==
    /\ cpc = "send"
    /\ fd = "conn" /\ peer \in {"open", "fin"}
    /\ requests' = IF peer = "open" THEN Append(requests, rid) ELSE requests
    /\ peer' = IF peer = "fin" THEN "rst" ELSE peer
    /\ cpc' = "recv"
    /\ UNCHANGED <<masterVars, wire, attempt, fd, buf, rid, fetched, owners, calm, torn, budget>>

\* A slip: no second attempt.
SendAndRecvFailsOnce ==
    /\ cpc' = "prompt"
    /\ UNCHANGED attempt

\* A slip: a retry after every failure.
SendAndRecvFailsAgain ==
    /\ cpc' = "connect"
    /\ attempt' = 2

\* The first failure of SendAndRecv leads to Close and a second attempt on a
\* new connection, the second to an error, without Close.
SendAndRecvFails ==
    IF attempt = 1
    THEN cpc' = "connect" /\ attempt' = 2
    ELSE cpc' = "prompt" /\ UNCHANGED attempt

SendFails ==
    /\ cpc = "send"
    /\ fd = "conn" /\ peer = "rst"
    /\ peer' = "dead"
    /\ SendAndRecvFails
    /\ UNCHANGED <<masterVars, requests, wire, fd, buf, rid, fetched, owners, calm, torn, budget>>

\* SIGPIPE: the socket never connected, or its reset was reported before.
SendKills ==
    /\ cpc = "send"
    /\ fd = "failed" \/ peer = "dead"
    /\ cpc' = "killed"
    /\ UNCHANGED <<masterVars, connVars, attempt, fd, buf, rid, fetched, owners, calm, torn, budget>>

\* RecvFrame has what the length at the front of buf_ asks for.  Segment text
\* read as a length asks for more than ever comes.
FrameComplete ==
    /\ buf # <<>>
    /\ buf[1].kind = "header"
    /\ Len(buf) > buf[1].size

Recv ==
    /\ cpc = "recv"
    /\ ~FrameComplete
    /\ \E n \in DOMAIN wire :
          /\ buf' = buf \o SubSeq(wire, 1, n)
          /\ wire' = SubSeq(wire, n + 1, Len(wire))
    /\ UNCHANGED <<masterVars, peer, requests, cpc, attempt, fd, rid, fetched, owners, calm, torn, budget>>

\* recv returned 0 or an error.
ReceiveFailed == peer # "open"

RecvFails ==
    /\ cpc = "recv"
    /\ ~FrameComplete
    /\ wire = <<>>
    /\ ReceiveFailed
    /\ peer' = IF peer = "rst" THEN "dead" ELSE peer
    /\ SendAndRecvFails
    /\ UNCHANGED <<masterVars, requests, wire, fd, buf, rid, fetched, owners, calm, torn, budget>>

\* The time given to RecvFrame is used up before the whole reply is there; the
\* rest, or the end of the stream, may still be under way.
RecvTimeout ==
    /\ cpc = "recv"
    /\ ~FrameComplete
    /\ SendAndRecvFails
    /\ calm' = (calm /\ attempt = 1 /\ buf = <<>>)
    /\ UNCHANGED <<masterVars, connVars, fd, buf, rid, fetched, owners, torn, budget>>

\* A slip: the length counts the body without the header.
TakenWithoutHeader(n) == SubSeq(buf, n, Len(buf))
\* buf_.erase
TakenFrom(n) == SubSeq(buf, n + 1, Len(buf))

\* A slip: any reply is taken for the answer.
AnyAnswer(id) == TRUE
Answers(id) == id = rid

\* TryDecode, the check of the id, the parser and std::sort.
TakeReply ==
    /\ cpc = "recv"
    /\ FrameComplete
    /\ LET size == buf[1].size
       IN  /\ IF Answers(buf[1].rid)
              THEN fetched' \in ParseBody(SubSeq(buf, 2, size + 1))
              ELSE fetched' = <<>>
           /\ buf' = TakenFrom(size + 1)
    /\ cpc' = "prompt"
    /\ UNCHANGED <<masterVars, connVars, attempt, fd, rid, owners, calm, torn, budget>>

-----------------------------------------------------------------------------
Balancer == SplitLeft \/ SplitInsert \/ FlipRoute
Worker == ShardsBegin \/ ShardsRead \/ ShardsReply
FetchRouteTable ==
    \/ Connect \/ Send \/ SendFails \/ SendKills
    \/ Recv \/ RecvFails \/ RecvTimeout \/ TakeReply

FetchNext ==
    \/ Command \/ FetchRouteTable
    \/ Worker \/ Balancer \/ MasterCrash \/ MasterRestart

FetchSpec == FetchInit /\ [][FetchNext]_fetchVars

\* The client's process is scheduled; the Master may be slow or down for ever.
FairFetchSpec == FetchSpec /\ WF_fetchVars(FetchRouteTable)

-----------------------------------------------------------------------------
\* Until the client has closed a connection in the middle of a frame, a command
\* that gets a table gets one that routes every key, to a node that owned the
\* key at some moment of the command: no reply to an earlier request, left in
\* the stream or in buf_ by a timeout, no frame put together from two, and no
\* walk over a table that changes meanwhile routes a key to a node that had
\* lost it before the command began.
FreshRoute ==
    ~torn /\ cpc = "prompt" /\ fetched # <<>> =>
        \A k \in Key : /\ HasRoute(fetched, k)
                       /\ GetTabletRoute(fetched, k).node_id \in owners[k]

\* A command with a SoundStart gets its table, and SIGPIPE does not strike, if
\* the Master stays up and no more goes wrong than a first attempt that times
\* out before any of the reply came: one retry on a new connection is enough
\* for a connection that was closed or reset, and for a slow Master.
ReconnectWorks ==
    calm => cpc # "killed" /\ (cpc = "prompt" => fetched # <<>>)

\* The only way to lose the boundary between frames is to close a connection in
\* the middle of one: until then buf_ starts with a frame header whenever it
\* holds anything, through a timeout or an end of the stream inside a frame
\* whose rest the next command receives, and through reconnects.
BufferAligned == ~torn /\ buf # <<>> => buf[1].kind = "header"

\* Every command comes back to the prompt (or the process ends): no failure is
\* retried for ever and no receive waits for a Master that is gone.
CommandEnds == cpc # "prompt" ~> cpc \in {"prompt", "killed"}
=============================================================================
