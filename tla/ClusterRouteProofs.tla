------------------------- MODULE ClusterRouteProofs -------------------------
(***************************************************************************)
(* Requests, replies and routes.  Three layers over IInv of ClusterProofs: *)
(*   ShiftInv   replies are shifted by timeouts only  (any run)            *)
(*   LinkInv    replies match requests                (no timeouts)        *)
(*   RouteInv   the saved table and the one in force route alike, except   *)
(*              between a switch and its save, and a request under way     *)
(*              changes no key at its owner           (and saves succeed)  *)
(***************************************************************************)
EXTENDS ClusterProofs, SequenceTheorems

-----------------------------------------------------------------------------
(* The invariants                                                          *)

\* Nothing is under way on the connection to n.
Silent(n) == requests[n] = <<>> /\ replies[n] = <<>>

\* At most one frame is under way: the awaited request, or its reply.
OneFrame(n) ==
    \/ Silent(n)
    \/ /\ Len(requests[n]) = 1 /\ replies[n] = <<>>
       /\ AwaitedRequest(Head(requests[n]))
    \/ /\ Len(replies[n]) = 1 /\ requests[n] = <<>>
       /\ AwaitedRequest(Head(replies[n]).req)

LinkInv ==
    /\ budget.timeouts = 0
    /\ \A n \in DataNode : conn[n] # "open" => requests[n] = <<>>
    /\ \A n \in DataNode : ~(pc \in WaitPc /\ n = Target) => Silent(n)
    /\ pc \in WaitPc => OneFrame(Target)

\* Keys of the tablet being worked on, and the routes of the two tables.
InCur(k) == InRange(k, cur.start_key, cur.end_key)
MemNode(k) == GetTabletRoute(tablets, k).node_id
DurableNode(k) == GetTabletRoute(DurableTable, k).node_id

\* The balancer's copy agrees with the entry it was taken from; a migration
\* changes the owner of that entry and nothing else.
FlippedPc == {"flipSave", "delRange", "delWait"}
CurOK ==
    /\ pc \in WaitPc \cup MigrationPc =>
          /\ tablets[idx].id = cur.id
          /\ tablets[idx].start_key = cur.start_key
          /\ tablets[idx].end_key = cur.end_key
          /\ tablets[idx].node_id = IF pc \in FlippedPc THEN dst ELSE cur.node_id
    /\ pc \in MigrationPc => dst # cur.node_id

\* The saved table routes like the one in memory, except for the tablet
\* whose new route is about to be saved.
DurableOK ==
    pc # "off" =>
        /\ tablet_file.state = "good"
        /\ \A k \in Key : DurableNode(k) = IF pc = "flipSave" /\ InCur(k)
                                           THEN cur.node_id ELSE MemNode(k)

\* A dead Master's request touches no key at the node that owns it.
Touches(q, k) ==
    \/ q.op = "put" /\ q.start = k
    \/ q.op = "delrange" /\ InRange(k, q.start, q.end)
Harmless(q, n) == \A k \in Key : Touches(q, k) => DurableNode(k) # n
OrphansOK ==
    \A n \in DataNode :
        /\ pc # "off" => orphans[n] = <<>>
        /\ \A i \in DOMAIN orphans[n] : Harmless(orphans[n][i], n)

\* A reply carries only pairs of the range that was asked for; the balancer
\* copies only keys of the tablet it moves.
PairsOK ==
    /\ \A n \in DataNode : \A i \in DOMAIN replies[n] : \A k \in Key :
          replies[n][i].pairs[k] # NoValue =>
              InRange(k, replies[n][i].req.start, replies[n][i].req.end)
    /\ pc \in {"transfer", "putWait"} => \A k \in Key : todo[k] # NoValue => InCur(k)

RouteInv ==
    /\ ~LateRequests /\ budget.save_faults = 0
    /\ CurOK /\ DurableOK /\ OrphansOK /\ PairsOK

-----------------------------------------------------------------------------
(* Helpers: frames and budgets                                             *)

\* A stream of one frame.
LEMMA OneElement ==
    ASSUME NEW S, NEW s \in Seq(S), Len(s) = 1
    PROVE  s # <<>> /\ Tail(s) = <<>> /\ DOMAIN s = {1} /\ s[1] = Head(s) /\ Head(s) \in S
<1>1. s # <<>> /\ DOMAIN s = {1} /\ s[1] = Head(s) /\ Head(s) \in S
  OBVIOUS
<1>2. Tail(s) \in Seq(S) /\ Len(Tail(s)) = 0
  BY <1>1
<1> QED
  BY <1>1, <1>2, EmptySeq

\* Every handler answers the request it was given.
LEMMA ReplyNames ==
    \A n, q : HandleBinaryRequest(n, q).req = q
  BY DEF HandleBinaryRequest, TabletStatsReply, ScanRangeReply, StatusReply

\* Each step counts down at most one kind of fault.
LEMMA BudgetSteps ==
    ASSUME [Next]_vars
    PROVE  UNCHANGED budget \/
           \E w \in {"ops", "timeouts", "master_crashes", "node_crashes", "save_faults"} : Spend(w)
<1>1. CASE StartMaster
  BY <1>1 DEF StartMaster, MasterStart, SaveTablets
<1>2. CASE WakeUp
  BY <1>2 DEF WakeUp, Wake
<1>3. CASE Migrate
  BY <1>3 DEF Migrate, MigrateStart, Call
<1>4. CASE KillMaster
  BY <1>4 DEF KillMaster, MasterCrash
<1>5. CASE Balance
  <2>1. CASE SyncSend \/ SplitSend \/ TransferSend \/ SendDeleteRange
    BY <2>1 DEF SyncSend, SplitSend, TransferSend, SendDeleteRange, Call
  <2>2. CASE SyncDone \/ SplitDone \/ BalanceIdle \/ TransferFailed \/ FlipRoute
    BY <2>2 DEF SyncDone, SplitDone, BalanceIdle, TransferFailed, FlipRoute
  <2>3. CASE SyncReply \/ SplitReply \/ ScanReply \/ PutReply
    BY <2>3 DEF SyncReply, SplitReply, ScanReply, PutReply, RecvFrame
  <2>4. CASE SyncTimeout \/ SplitTimeout \/ ScanTimeout \/ PutTimeout
    BY <2>4 DEF SyncTimeout, SplitTimeout, ScanTimeout, PutTimeout, RecvFails
  <2>5. CASE SplitSave \/ FlipSave
    BY <2>5 DEF SplitSave, FlipSave, SaveTablets
  <2>6. CASE DeleteRangeDone
    BY <2>6 DEF DeleteRangeDone, RecvFrame, RecvFails
  <2> QED
    BY <1>5, <2>1, <2>2, <2>3, <2>4, <2>5, <2>6 DEF Balance, BalancerStep
<1>6. ASSUME NEW n \in DataNode, \/ ServeNode(n) \/ ServeOrphanOf(n) \/ DiscardOrphansOf(n)
                                  \/ KillNode(n) \/ StartNode(n)
      PROVE  UNCHANGED budget \/ Spend("node_crashes")
  BY <1>6 DEF ServeNode, ServeOrphanOf, DiscardOrphansOf, KillNode, StartNode, NodeCrash, NodeRestart
<1>7. ASSUME NEW c \in Client, ClientRoute(c) \/ ClientExecute(c) \/ ClientFail(c)
      PROVE  UNCHANGED budget \/ Spend("ops")
  BY <1>7 DEF ClientRoute, ClientExecute, ClientFail
<1>8. CASE UNCHANGED vars
  BY <1>8 DEF vars
<1> QED
  BY <1>1, <1>2, <1>3, <1>4, <1>5, <1>6, <1>7, <1>8 DEF Next

\* A kind of fault that is used up, or was never allowed, stays away.
LEMMA NoNewFaults ==
    ASSUME BudgetOK, [Next]_vars
    PROVE  /\ budget.timeouts = 0 => budget'.timeouts = 0
           /\ budget.save_faults = 0 => budget'.save_faults = 0
           /\ budget.master_crashes = 0 => budget'.master_crashes = 0
           /\ budget.node_crashes = 0 => budget'.node_crashes = 0
<1>1. ASSUME NEW w \in {"ops", "timeouts", "master_crashes", "node_crashes", "save_faults"},
             Spend(w)
      PROVE  /\ budget.timeouts = 0 => budget'.timeouts = 0
             /\ budget.save_faults = 0 => budget'.save_faults = 0
             /\ budget.master_crashes = 0 => budget'.master_crashes = 0
             /\ budget.node_crashes = 0 => budget'.node_crashes = 0
  BY <1>1 DEF Spend, BudgetOK
<1> QED
  BY <1>1, BudgetSteps

-----------------------------------------------------------------------------
(* Every timeout shifts the replies of a connection by one frame           *)

\* Frames under way between the Master and n.
Frames(n) == Len(replies[n]) + Len(requests[n])

\* Between two calls, and during a call to n.
AllRest == \A n \in DataNode : Frames(n) <= Late
Awaits(n) ==
    /\ Frames(n) <= Late + 1
    /\ conn[n] = "open" \/ Frames(n) = Late + 1 => Frames(n) > 0 /\ AwaitedRequest(LastAsked(n))

\* A connection that is not open, or whose Master is dead, carries no request.
NoneLost == \A n \in DataNode : conn[n] # "open" \/ pc = "off" => requests[n] = <<>>

ShiftInv ==
    /\ Late \in Nat
    /\ NoneLost
    /\ \A n \in DataNode : IF pc \in WaitPc /\ n = Target THEN Awaits(n) ELSE Frames(n) <= Late

\* The DataNode waited for is one.
LEMMA TargetType == IInv /\ pc \in WaitPc => Target \in DataNode
<1> SUFFICES ASSUME IInv, pc \in WaitPc PROVE Target \in DataNode
  OBVIOUS
<1>1. cur \in Tablet
  BY DEF IInv, MInv, LocalsOK
<1>2. CASE pc = "putWait"
  BY <1>2 DEF IInv, MInv, LocalsOK, MigrationPc, Target
<1>3. CASE pc # "putWait"
  BY <1>1, <1>3 DEF Target, Tablet
<1> QED
  BY <1>2, <1>3

\* What the balancer waits for depends on the Master's variables alone.
LEMMA AwaitedSame ==
    ASSUME UNCHANGED masterVars, NEW q
    PROVE  (AwaitedRequest(q)' <=> AwaitedRequest(q)) /\ Target' = Target /\ pc' = pc
  BY DEF masterVars, localVars, AwaitedRequest, Target, NextPair

\* The types these proofs rest on.
LinkTypes ==
    /\ requests \in [DataNode -> Seq(Request)] /\ replies \in [DataNode -> Seq(Reply)]
    /\ conn \in [DataNode -> ConnState]

\* They are part of IInv.
LEMMA LinkTypesHold == IInv => LinkTypes
  BY DEF IInv, LinkTypeOK, LinkTypes

\* Frames are counted.
LEMMA FramesNat ==
    ASSUME IInv, NEW n \in DataNode
    PROVE  /\ requests[n] \in Seq(Request) /\ replies[n] \in Seq(Reply)
           /\ Len(requests[n]) \in Nat /\ Len(replies[n]) \in Nat /\ Frames(n) \in Nat
<1>1. requests[n] \in Seq(Request) /\ replies[n] \in Seq(Reply)
  BY LinkTypesHold DEF LinkTypes
<1>2. PICK a \in Nat : a = Len(replies[n])
  BY <1>1
<1>3. PICK b \in Nat : b = Len(requests[n])
  BY <1>1
<1>4. Frames(n) = a + b
  BY <1>2, <1>3 DEF Frames
<1>5. Len(requests[n]) \in Nat /\ Len(replies[n]) \in Nat
  BY <1>1
<1>6. Frames(n) \in Nat
  BY <1>4
<1> QED
  BY <1>1, <1>5, <1>6

\* Frames in numbers.
LEMMA FramesSum ==
    ASSUME NEW n, NEW a \in Nat, NEW b \in Nat, Len(replies[n]) = a, Len(requests[n]) = b
    PROVE  Frames(n) = a + b
  BY DEF Frames

\* And after a step.
LEMMA FramesSumNext ==
    ASSUME NEW n, NEW a \in Nat, NEW b \in Nat, Len(replies'[n]) = a, Len(requests'[n]) = b
    PROVE  Frames(n)' = a + b
  BY DEF Frames

\* The rest of a longer stream ends with the same frame.
LEMMA TailLast ==
    ASSUME NEW S, NEW s \in Seq(S), Len(s) > 1
    PROVE  Tail(s) # <<>> /\ Tail(s)[Len(Tail(s))] = s[Len(s)]
<1>1. PICK b \in Nat : b = Len(s)
  OBVIOUS
<1>2. Tail(s) \in Seq(S) /\ Len(Tail(s)) = b - 1 /\ b > 1
  BY <1>1
<1>3. Tail(s) # <<>>
  BY <1>2
<1>4. \A i \in 1..(b - 1) : Tail(s)[i] = s[i + 1]
  BY <1>1
<1>5. b - 1 \in 1..(b - 1) /\ (b - 1) + 1 = b
  BY <1>2
<1>6. Tail(s)[b - 1] = s[b]
  BY <1>4, <1>5
<1> QED
  BY <1>1, <1>2, <1>3, <1>6

\* A connection that is left alone keeps its frames.
LEMMA FramesStay ==
    ASSUME IInv, Late \in Nat, Late' \in Nat, Late <= Late', NEW n \in DataNode,
           requests'[n] = requests[n], replies'[n] = replies[n]
    PROVE  Frames(n)' = Frames(n) /\ (Frames(n) <= Late => Frames(n)' <= Late')
<1>1. Frames(n)' = Frames(n)
  BY DEF Frames
<1> QED
  BY <1>1, FramesNat

\* Timeouts are only counted up.
LEMMA LateGrows ==
    ASSUME BudgetOK, Late \in Nat, [Next]_vars
    PROVE  Late' \in Nat /\ Late <= Late'
<1>1. MaxTimeouts \in Nat /\ budget.timeouts \in Nat
  BY ClusterAssumption DEF BudgetOK
<1>2. budget'.timeouts = budget.timeouts \/ budget'.timeouts = budget.timeouts - 1
  <2>1. ASSUME NEW w \in {"ops", "timeouts", "master_crashes", "node_crashes", "save_faults"},
               Spend(w)
        PROVE  budget'.timeouts = budget.timeouts \/ budget'.timeouts = budget.timeouts - 1
    BY <2>1 DEF Spend, BudgetOK
  <2> QED
    BY <2>1, BudgetSteps
<1> QED
  BY <1>1, <1>2 DEF Late

\* Outside a call ShiftInv is a bound on the frames left.
LEMMA RestShift ==
    ASSUME Late' \in Nat, NoneLost', AllRest', pc' \notin WaitPc
    PROVE  ShiftInv'
  BY DEF ShiftInv, AllRest, NoneLost

\* Taking a frame, or giving up, ends the call.
LEMMA RecvRest ==
    ASSUME IInv, ShiftInv, Late' \in Nat, Late <= Late', pc \in WaitPc, pc' # "off",
           RecvFrame(Target) \/ RecvFails(Target)
    PROVE  AllRest' /\ NoneLost'
<1>0. PICK m \in DataNode : m = Target
  BY TargetType
<1>1. Awaits(m) /\ \A n \in DataNode : n # m => Frames(n) <= Late
  BY <1>0 DEF ShiftInv
<1>2. Len(requests[m]) \in Nat /\ Len(replies[m]) \in Nat
  BY FramesNat
<1>3. Late \in Nat /\ NoneLost
  BY DEF ShiftInv
<1>4. CASE RecvFrame(m)
  <2>1. /\ requests' = requests /\ conn' = conn
        /\ \A n \in DataNode : n # m => replies'[n] = replies[n]
        /\ replies'[m] = Tail(replies[m]) /\ replies[m] # <<>> /\ replies[m] \in Seq(Reply)
    BY <1>4, LinkTypesHold DEF RecvFrame, LinkTypes
  <2>2. Len(replies'[m]) = Len(replies[m]) - 1
    BY <2>1
  <2>3. Frames(m)' <= Late'
    <3>1. PICK a \in Nat : a = Len(replies[m])
      BY <1>2
    <3>2. PICK b \in Nat : b = Len(requests[m])
      BY <1>2
    <3>3. Frames(m) = a + b
      BY <3>1, <3>2, FramesSum
    <3>4. PICK c \in Nat : c = Len(replies'[m]) /\ c = a - 1
      BY <2>1, <2>2, <3>1
    <3>5. Len(requests'[m]) = b
      BY <2>1, <3>2
    <3>6. Frames(m)' = c + b
      BY <3>4, <3>5, FramesSumNext
    <3>7. a + b <= Late + 1
      BY <1>1, <3>3 DEF Awaits
    <3>8. c = a - 1
      BY <3>4
    <3> QED
      BY <1>3, <3>6, <3>7, <3>8
  <2>4. \A n \in DataNode : n # m => Frames(n)' <= Late'
    BY <1>1, <1>3, <2>1, FramesStay
  <2> QED
    BY <1>3, <2>1, <2>3, <2>4 DEF AllRest, NoneLost
<1>5. CASE RecvFails(m)
  <2>1. UNCHANGED <<requests, replies, conn>> /\ replies[m] = <<>>
    BY <1>5 DEF RecvFails, linkVars
  <2>2. CASE conn[m] # "open"
    <3>1. Len(replies'[m]) = 0 /\ Len(requests'[m]) = 0
      BY <1>3, <2>1, <2>2 DEF NoneLost
    <3>2. Frames(m)' <= Late'
      BY <3>1 DEF Frames
    <3> QED
      BY <1>1, <1>3, <2>1, <3>2, FramesStay DEF AllRest, NoneLost
  <2>3. CASE Spend("timeouts")
    <3>1. Late' = Late + 1
      BY <2>3, ClusterAssumption DEF Late, Spend, IInv, BudgetOK
    <3>2. Frames(m)' = Frames(m) /\ Frames(m) <= Late + 1
      BY <1>1, <1>3, <2>1, FramesStay DEF Awaits
    <3>3. Frames(m)' <= Late'
      BY <3>1, <3>2
    <3> QED
      BY <1>1, <1>3, <2>1, <3>3, FramesStay DEF AllRest, NoneLost
  <2> QED
    BY <1>5, <2>2, <2>3 DEF RecvFails
<1> QED
  BY <1>0, <1>4, <1>5

\* The request sent is the last of its connection.
LEMMA SendShift ==
    ASSUME IInv, ShiftInv, Late' \in Nat, Late <= Late', pc \notin WaitPc,
           NEW n \in DataNode, NEW q \in Request, Send(n, q),
           pc' \in WaitPc, Target' = n, AwaitedRequest(q)'
    PROVE  ShiftInv'
<1>1. LinkTypes /\ Late \in Nat /\ NoneLost /\ AllRest
  BY LinkTypesHold DEF ShiftInv, AllRest
<1>2. Len(requests[n]) \in Nat /\ Len(replies[n]) \in Nat
  BY FramesNat
<1>3. CASE conn[n] = "open" /\ requests' = [requests EXCEPT ![n] = Append(@, q)]
           /\ UNCHANGED <<conn, replies>>
  <2>1. /\ requests'[n] = Append(requests[n], q) /\ requests[n] \in Seq(Request)
        /\ \A m \in DataNode : m # n => requests'[m] = requests[m]
    BY <1>1, <1>3 DEF LinkTypes
  <2>2. /\ Len(requests'[n]) = Len(requests[n]) + 1 /\ requests'[n] # <<>>
        /\ requests'[n][Len(requests'[n])] = q
    BY <2>1
  <2>3. LastAsked(n)' = q
    BY <2>2 DEF LastAsked
  <2>4. Frames(n)' = Frames(n) + 1 /\ Frames(n) \in Nat /\ Frames(n) <= Late
    <3>1. PICK a \in Nat : a = Len(replies[n])
      BY <1>2
    <3>2. PICK b \in Nat : b = Len(requests[n])
      BY <1>2
    <3>3. Frames(n) = a + b
      BY <3>1, <3>2, FramesSum
    <3>4. PICK c \in Nat : c = Len(requests'[n]) /\ c = b + 1
      BY <2>2, <3>2
    <3>5. Len(replies'[n]) = a
      BY <1>3, <3>1
    <3>6. Frames(n)' = a + c
      BY <3>4, <3>5, FramesSumNext
    <3>7. c = b + 1
      BY <3>4
    <3>8. Frames(n) <= Late
      BY <1>1 DEF AllRest
    <3> QED
      BY <3>3, <3>6, <3>7, <3>8
  <2>5. Awaits(n)'
    <3>1. AwaitedRequest(LastAsked(n))'
      BY <2>3
    <3>2. Frames(n)' <= Late' + 1 /\ Frames(n)' > 0
      BY <1>1, <2>4
    <3> QED
      BY <3>1, <3>2 DEF Awaits
  <2>6. \A m \in DataNode : m # n => Frames(m)' <= Late'
    BY <1>1, <1>3, <2>1, FramesStay DEF AllRest
  <2>7. NoneLost'
    BY <1>1, <1>3, <2>1, NoPcClash DEF NoneLost
  <2> QED
    BY <2>5, <2>6, <2>7 DEF ShiftInv
<1>4. CASE conn[n] = "closed" /\ UNCHANGED <<requests, replies>>
           /\ \E c \in {"closed", "broken"} : conn' = [conn EXCEPT ![n] = c]
  <2>1. conn'[n] # "open" /\ \A m \in DataNode : m # n => conn'[m] = conn[m]
    BY <1>1, <1>4 DEF LinkTypes
  <2>2. ASSUME NEW m \in DataNode
        PROVE  Frames(m)' <= Late' /\ Frames(m)' <= Late' + 1 /\ Frames(m)' # Late' + 1
    <3>1. Frames(m)' = Frames(m) /\ Frames(m) <= Late /\ Frames(m) \in Nat
      BY <1>1, <1>4, FramesStay, FramesNat DEF AllRest
    <3> QED
      BY <1>1, <3>1
  <2>3. Awaits(n)'
    BY <2>1, <2>2 DEF Awaits
  <2>4. NoneLost'
    BY <1>1, <1>4, <2>1, NoPcClash DEF NoneLost
  <2> QED
    BY <2>2, <2>3, <2>4 DEF ShiftInv
<1> QED
  BY <1>3, <1>4 DEF Send

\* A Master that dies leaves nothing under way.
LEMMA DieShift ==
    ASSUME Late' \in Nat, Die PROVE ShiftInv'
<1>1. \A n \in DataNode : requests'[n] = <<>> /\ replies'[n] = <<>>
  BY DEF Die, DropConnections
<1>2. ASSUME NEW n \in DataNode PROVE Frames(n)' = 0
  <2>1. Len(requests'[n]) = 0 /\ Len(replies'[n]) = 0
    BY <1>1
  <2> QED
    BY <2>1 DEF Frames
<1>3. pc' \notin WaitPc
  BY NoPcClash DEF Die
<1> QED
  BY <1>1, <1>2, <1>3 DEF ShiftInv, NoneLost

\* Steps between two calls that send nothing.
LEMMA StillShift ==
    ASSUME IInv, ShiftInv, Late' \in Nat, Late <= Late', pc \notin WaitPc, pc' \notin WaitPc,
           UNCHANGED <<requests, replies>>, NoneLost'
    PROVE  ShiftInv'
<1>1. Late \in Nat /\ \A m \in DataNode : Frames(m) <= Late
  BY DEF ShiftInv
<1>2. AllRest'
  BY <1>1, FramesStay DEF AllRest
<1> QED
  BY <1>2, RestShift

\* SyncAllTabletStats and TrySplitTablet ask for the statistics of cur.
LEMMA StatsSendShift ==
    ASSUME IInv, ShiftInv, Late' \in Nat, Late <= Late', pc \notin WaitPc,
           NEW i \in DOMAIN tablets,
           Send(tablets[i].node_id, RangeRequest("stats", tablets[i])),
           pc' \in {"syncWait", "splitWait"}, cur' = tablets[i]
    PROVE  ShiftInv'
<1>1. /\ tablets[i] \in Tablet /\ tablets[i].node_id \in DataNode
      /\ RangeRequest("stats", tablets[i]) \in Request
  BY TabletFields, RangeRequestType DEF IInv, MInv, MasterTypeOK
<1>2. PICK q \in Request : q = RangeRequest("stats", tablets[i])
  BY <1>1
<1>3. pc' \in WaitPc /\ Target' = tablets[i].node_id /\ AwaitedRequest(q)'
  BY <1>2 DEF WaitPc, Target, AwaitedRequest, RangeRequest
<1> QED
  BY <1>1, <1>2, <1>3, SendShift

\* Every send of the balancer is of this form, or nothing is sent.
LEMMA SendsShift ==
    ASSUME IInv, IInv', ShiftInv, Late' \in Nat, Late <= Late',
           SyncSend \/ SplitSend \/ MigrateStart \/ TransferSend \/ SendDeleteRange
    PROVE  ShiftInv'
<1>0. pc \notin WaitPc /\ tablets \in Seq(Tablet)
  BY DEF SyncSend, SplitSend, MigrateStart, TransferSend, SendDeleteRange, WaitPc,
         IInv, MInv, MasterTypeOK
<1>1. ASSUME Die PROVE ShiftInv'
  BY <1>1, DieShift
<1>2. ASSUME UNCHANGED linkVars, pc' \notin WaitPc \cup {"off"} PROVE ShiftInv'
  BY <1>0, <1>2, StillShift DEF linkVars, ShiftInv, NoneLost
<1>3. CASE SyncSend
  <2>1. idx \in DOMAIN tablets
    BY <1>0, <1>3 DEF SyncSend, IInv, MInv, MasterTypeOK
  <2> QED
    BY <1>0, <1>1, <1>2, <1>3, <2>1, StatsSendShift DEF SyncSend, Call, SendFails
<1>4. CASE SplitSend
  <2>1. PICK i \in idx..Len(tablets) :
           Call(tablets[i].node_id, RangeRequest("stats", tablets[i]),
                /\ pc' = "splitWait" /\ idx' = i /\ cur' = tablets[i]
                /\ UNCHANGED <<dst, todo, complete>>,
                idx' = i + 1 /\ UNCHANGED <<pc, cur, dst, todo, complete>>)
    BY <1>4 DEF SplitSend
  <2>2. i \in DOMAIN tablets
    BY <1>0 DEF IInv, MInv, MasterTypeOK
  <2> QED
    BY <1>0, <1>1, <1>2, <1>4, <2>1, <2>2, StatsSendShift DEF SplitSend, Call, SendFails, WaitPc
<1>5. CASE MigrateStart
  <2>1. PICK m \in Moves(tablets) :
           LET t == tablets[m[1]]
           IN  IF t.node_id = m[2] \/ conn[m[2]] = "none"
               THEN Sleep /\ UNCHANGED <<memVars, tablet_file, linkVars, budget>>
               ELSE Call(t.node_id, RangeRequest("scan", t),
                         /\ pc' = "scanWait" /\ idx' = m[1] /\ cur' = t /\ dst' = m[2]
                         /\ UNCHANGED <<todo, complete>>,
                         Sleep)
    BY <1>5 DEF MigrateStart
  <2> DEFINE t == tablets[m[1]]
  <2>2. m[1] \in DOMAIN tablets
    BY DEF Moves
  <2>3. t \in Tablet /\ t.node_id \in DataNode /\ RangeRequest("scan", t) \in Request
    BY <1>0, <2>2, TabletFields, RangeRequestType
  <2>4. ASSUME Send(t.node_id, RangeRequest("scan", t)), pc' = "scanWait", cur' = t
        PROVE  ShiftInv'
    <3>1. PICK q \in Request : q = RangeRequest("scan", t)
      BY <2>3
    <3>2. pc' \in WaitPc /\ Target' = t.node_id /\ AwaitedRequest(q)'
      BY <2>4, <3>1 DEF WaitPc, Target, AwaitedRequest, RangeRequest
    <3> QED
      BY <1>0, <2>3, <2>4, <3>1, <3>2, SendShift
  <2> QED
    BY <1>1, <1>2, <2>1, <2>4 DEF Call, SendFails, Sleep, PairDone, WaitPc
<1>6. CASE TransferSend
  <2>1. PICK k \in Key : /\ NextPair(k)
                         /\ Call(dst, PutRequest(k, todo[k]),
                                 pc' = "putWait" /\ UNCHANGED localVars,
                                 PairDone(k, FALSE))
    BY <1>6 DEF TransferSend
  <2>2. dst \in DataNode /\ PutRequest(k, todo[k]) \in Request
    <3>1. pc = "transfer" /\ todo \in Db
      BY <1>6 DEF TransferSend, IInv, MInv, MasterTypeOK
    <3>2. todo[k] \in Value \cup {NoValue} /\ dst \in DataNode
      BY <3>1 DEF Db, IInv, MInv, LocalsOK, MigrationPc
    <3> QED
      BY <3>2, KeyFacts DEF PutRequest, Request
  <2>3. ASSUME Send(dst, PutRequest(k, todo[k])), pc' = "putWait", UNCHANGED localVars
        PROVE  ShiftInv'
    <3>1. PICK q \in Request : q = PutRequest(k, todo[k])
      BY <2>2
    <3>2. pc' \in WaitPc /\ Target' = dst /\ AwaitedRequest(q)'
      BY <2>1, <2>3, <3>1 DEF WaitPc, Target, AwaitedRequest, NextPair, localVars
    <3> QED
      BY <1>0, <2>2, <2>3, <3>1, <3>2, SendShift
  <2> QED
    BY <1>1, <1>2, <2>1, <2>3 DEF Call, SendFails, Sleep, PairDone, WaitPc
<1>7. CASE SendDeleteRange
  <2>1. cur \in Tablet /\ cur.node_id \in DataNode /\ RangeRequest("delrange", cur) \in Request
    <3>1. cur \in Tablet
      BY <1>7 DEF SendDeleteRange, IInv, MInv, LocalsOK, MigrationPc
    <3> QED
      BY <3>1, RangeRequestType DEF Tablet
  <2>2. ASSUME Send(cur.node_id, RangeRequest("delrange", cur)), pc' = "delWait",
               UNCHANGED localVars
        PROVE  ShiftInv'
    <3>1. PICK q \in Request : q = RangeRequest("delrange", cur)
      BY <2>1
    <3>2. pc' \in WaitPc /\ Target' = cur.node_id /\ AwaitedRequest(q)'
      BY <2>2, <3>1 DEF WaitPc, Target, AwaitedRequest, RangeRequest, localVars
    <3> QED
      BY <1>0, <2>1, <2>2, <3>1, <3>2, SendShift
  <2> QED
    BY <1>1, <1>2, <1>7, <2>2 DEF SendDeleteRange, Call, SendFails, Sleep, WaitPc
<1> QED
  BY <1>3, <1>4, <1>5, <1>6, <1>7

\* The other steps of the Master: the reply is taken or given up, or no call is
\* under way.
LEMMA OthersShift ==
    ASSUME IInv, ShiftInv, Late' \in Nat, Late <= Late',
           \/ SyncReply \/ SyncTimeout \/ SyncDone \/ SplitReply \/ SplitTimeout
           \/ SplitSave \/ SplitDone \/ BalanceIdle \/ ScanReply \/ ScanTimeout
           \/ PutReply \/ PutTimeout \/ TransferFailed \/ FlipRoute \/ FlipSave
           \/ DeleteRangeDone \/ Wake \/ MasterCrash \/ \E up : MasterStart(up)
    PROVE  ShiftInv'
<1>1. CASE \/ SyncReply \/ SyncTimeout \/ SplitReply \/ SplitTimeout \/ ScanReply
           \/ ScanTimeout \/ DeleteRangeDone
  <2>1. pc \in WaitPc /\ (RecvFrame(Target) \/ RecvFails(Target))
    BY <1>1 DEF SyncReply, SyncTimeout, SplitReply, SplitTimeout, ScanReply, ScanTimeout,
                DeleteRangeDone, Target, WaitPc
  <2>2. pc' \notin WaitPc \cup {"off"}
    BY <1>1 DEF SyncReply, SyncTimeout, SplitReply, SplitTimeout, ScanReply, ScanTimeout,
                DeleteRangeDone, SyncNext, Sleep, WaitPc
  <2> QED
    BY <2>1, <2>2, RecvRest, RestShift
<1>2. CASE PutReply \/ PutTimeout
  <2>1. pc \in WaitPc /\ (RecvFrame(Target) \/ RecvFails(Target))
    BY <1>2 DEF PutReply, PutTimeout, Target, WaitPc
  <2>2. pc' \notin WaitPc \cup {"off"}
    BY <1>2 DEF PutReply, PutTimeout, PairDone, WaitPc
  <2> QED
    BY <2>1, <2>2, RecvRest, RestShift
<1>3. CASE MasterCrash
  BY <1>3, DieShift DEF MasterCrash
<1>4. CASE \/ SyncDone \/ SplitSave \/ SplitDone \/ BalanceIdle \/ TransferFailed
           \/ FlipRoute \/ FlipSave \/ Wake
  <2>1. pc \notin WaitPc /\ pc' \notin WaitPc \cup {"off"} /\ UNCHANGED linkVars
    BY <1>4 DEF SyncDone, SplitSave, SplitDone, BalanceIdle, TransferFailed, FlipRoute,
                FlipSave, Wake, Sleep, linkVars, WaitPc
  <2> QED
    BY <2>1, StillShift DEF linkVars, ShiftInv, NoneLost
<1>5. ASSUME NEW up, MasterStart(up) PROVE ShiftInv'
  <2>1. pc \notin WaitPc /\ pc' \notin WaitPc /\ UNCHANGED <<requests, replies>>
    BY <1>5 DEF MasterStart, WaitPc
  <2>2. NoneLost'
    BY <1>5 DEF MasterStart, ShiftInv, NoneLost
  <2> QED
    BY <2>1, <2>2, StillShift
<1> QED
  BY <1>1, <1>2, <1>3, <1>4, <1>5

\* A DataNode that answers moves a frame from one end to the other.
LEMMA ServeShift ==
    ASSUME IInv, ShiftInv, Late' = Late, UNCHANGED masterVars, NEW n \in DataNode, Serve(n)
    PROVE  ShiftInv'
<1>1. LinkTypes /\ NoneLost /\ Late \in Nat
  BY LinkTypesHold DEF ShiftInv
<1>2. /\ requests[n] \in Seq(Request) /\ replies[n] \in Seq(Reply) /\ requests[n] # <<>>
      /\ conn' = conn
  BY <1>1 DEF LinkTypes, Serve
<1>3. PICK q \in Request : q = Head(requests[n])
  BY <1>2
<1>4. PICK r : r = HandleBinaryRequest(n, q)
  OBVIOUS
<1>5. /\ requests'[n] = Tail(requests[n]) /\ replies'[n] = Append(replies[n], r) /\ r.req = q
      /\ \A m \in DataNode : m # n => requests'[m] = requests[m] /\ replies'[m] = replies[m]
  BY <1>1, <1>3, <1>4, ReplyNames DEF LinkTypes, Serve
<1>6. /\ Len(requests'[n]) = Len(requests[n]) - 1 /\ Len(replies'[n]) = Len(replies[n]) + 1
      /\ Len(requests[n]) \in Nat /\ Len(replies[n]) \in Nat
      /\ replies'[n][Len(replies[n]) + 1] = r
  BY <1>2, <1>5
<1>7. ASSUME NEW m \in DataNode PROVE Frames(m)' = Frames(m)
  <2>1. CASE m # n
    BY <1>5, <2>1 DEF Frames
  <2>2. PICK a \in Nat : a = Len(replies[n])
    BY <1>6
  <2>3. PICK b \in Nat : b = Len(requests[n])
    BY <1>6
  <2>4. Frames(n) = a + b
    BY <2>2, <2>3, FramesSum
  <2>5. PICK c \in Nat : c = Len(replies'[n]) /\ c = a + 1
    BY <1>6, <2>2
  <2>6. PICK d \in Nat : d = Len(requests'[n]) /\ d = b - 1
    <3>1. Len(requests'[n]) \in Nat
      BY <1>2, <1>5
    <3> QED
      BY <1>6, <2>3, <3>1
  <2>7. Frames(n)' = c + d
    BY <2>5, <2>6, FramesSumNext
  <2>8. c = a + 1 /\ d = b - 1
    BY <2>5, <2>6
  <2>9. Frames(n)' = Frames(n)
    BY <2>4, <2>7, <2>8
  <2> QED
    BY <2>1, <2>9
<1>8. LastAsked(n)' = LastAsked(n)
  <2>0. PICK b \in Nat : b = Len(requests[n])
    BY <1>6
  <2>1. CASE b = 1
    <3>1. requests'[n] = <<>> /\ requests[n][1] = q /\ Len(requests[n]) = 1
      BY <1>2, <1>3, <1>5, <2>0, <2>1, OneElement
    <3>2. LastAsked(n) = q
      BY <1>2, <3>1 DEF LastAsked
    <3>3. replies'[n][Len(replies'[n])].req = q
      BY <1>5, <1>6
    <3> QED
      BY <3>1, <3>2, <3>3 DEF LastAsked
  <2>2. CASE b > 1
    <3>1. requests'[n] # <<>> /\ requests'[n][Len(requests'[n])] = requests[n][Len(requests[n])]
      BY <1>2, <1>5, <2>0, <2>2, TailLast
    <3> QED
      BY <1>2, <3>1 DEF LastAsked
  <2>3. b # 0
    BY <1>2, <2>0, EmptySeq
  <2>4. b = 1 \/ b > 1
    BY <2>3
  <2> QED
    BY <2>1, <2>2, <2>4
<1>9. ASSUME NEW m \in DataNode, Awaits(m) PROVE Awaits(m)'
  <2>1. LastAsked(m)' = LastAsked(m)
    BY <1>5, <1>8 DEF LastAsked
  <2>2. \A x : AwaitedRequest(x)' <=> AwaitedRequest(x)
    BY AwaitedSame
  <2>3. PICK x : x = LastAsked(m)
    OBVIOUS
  <2> QED
    BY <1>2, <1>7, <1>9, <2>1, <2>2, <2>3 DEF Awaits
<1>10. pc' = pc /\ Target' = Target
  BY AwaitedSame
<1>11. NoneLost'
  BY <1>1, <1>2, <1>5, <1>10 DEF NoneLost
<1> QED
  BY <1>1, <1>7, <1>9, <1>10, <1>11 DEF ShiftInv

\* A DataNode that dies takes the requests to it along.
LEMMA CrashShift ==
    ASSUME IInv, ShiftInv, Late' = Late, UNCHANGED masterVars, NEW n \in DataNode, NodeCrash(n)
    PROVE  ShiftInv'
<1>1. LinkTypes /\ NoneLost /\ Late \in Nat
  BY LinkTypesHold DEF ShiftInv
<1>2. /\ replies' = replies /\ requests'[n] = <<>> /\ conn'[n] # "open"
      /\ \A m \in DataNode : m # n => requests'[m] = requests[m] /\ conn'[m] = conn[m]
  BY <1>1 DEF LinkTypes, NodeCrash, ConnState
<1>4. /\ \A m \in DataNode : Frames(m)' <= Frames(m) /\ Frames(m) \in Nat /\ Frames(m)' \in Nat
      /\ Frames(n)' = Frames(n) => requests'[n] = requests[n]
  <2>1. \A m \in DataNode : Frames(m) \in Nat
    BY FramesNat
  <2>2. \A m \in DataNode : m # n => Frames(m)' = Frames(m)
    BY <1>2 DEF Frames
  <2>3. PICK a \in Nat : a = Len(replies[n])
    BY FramesNat
  <2>4. PICK b \in Nat : b = Len(requests[n]) /\ (b = 0 => requests[n] = <<>>)
    BY FramesNat, EmptySeq
  <2>5. Len(requests'[n]) = 0 /\ Len(replies'[n]) = a
    BY <1>2, <2>3
  <2>6. Frames(n) = a + b
    BY <2>3, <2>4, FramesSum
  <2>7. Frames(n)' = a + 0
    BY <2>5, FramesSumNext
  <2>8. b = 0 => requests[n] = <<>>
    BY <2>4
  <2>9. Frames(n)' <= Frames(n) /\ Frames(n)' \in Nat /\ (Frames(n)' = Frames(n) => b = 0)
    BY <2>6, <2>7
  <2> QED
    BY <1>2, <2>1, <2>2, <2>8, <2>9
<1>5. ASSUME NEW m \in DataNode, Awaits(m) PROVE Awaits(m)'
  <2>1. ASSUME conn'[m] = "open" \/ Frames(m)' = Late + 1
        PROVE  /\ Frames(m)' = Frames(m) /\ LastAsked(m)' = LastAsked(m)
               /\ conn[m] = "open" \/ Frames(m) = Late + 1
    <3>1. CASE m = n
      <4>1. Frames(n)' = Frames(n) /\ Frames(n) = Late + 1
        BY <1>1, <1>2, <1>4, <1>5, <2>1, <3>1 DEF Awaits
      <4> QED
        BY <1>2, <1>4, <3>1, <4>1 DEF LastAsked
    <3>2. CASE m # n
      BY <1>2, <2>1, <3>2 DEF Frames, LastAsked
    <3> QED
      BY <3>1, <3>2
  <2>2. \A x : AwaitedRequest(x)' <=> AwaitedRequest(x)
    BY AwaitedSame
  <2>3. PICK x : x = LastAsked(m)
    OBVIOUS
  <2>4. Frames(m)' <= Late + 1
    BY <1>1, <1>4, <1>5 DEF Awaits
  <2> QED
    BY <1>5, <2>1, <2>2, <2>3, <2>4 DEF Awaits
<1>6. NoneLost'
  BY <1>1, <1>2 DEF NoneLost, masterVars
<1>7. pc' = pc /\ Target' = Target
  BY AwaitedSame
<1>8. ASSUME NEW m \in DataNode, Frames(m) <= Late PROVE Frames(m)' <= Late
  BY <1>1, <1>4, <1>8
<1> QED
  BY <1>1, <1>5, <1>6, <1>7, <1>8 DEF ShiftInv

\* Steps that leave the Master and its connections alone.
LEMMA SameShift ==
    ASSUME ShiftInv, Late' = Late, UNCHANGED <<masterVars, conn, requests, replies>>
    PROVE  ShiftInv'
<1>1. (\A q : AwaitedRequest(q)' <=> AwaitedRequest(q)) /\ pc' = pc /\ Target' = Target
  BY AwaitedSame
<1>2. ASSUME NEW m \in DataNode
      PROVE  Frames(m)' = Frames(m) /\ LastAsked(m)' = LastAsked(m) /\ conn'[m] = conn[m]
  BY DEF Frames, LastAsked
<1>3. ASSUME NEW m \in DataNode, Awaits(m) PROVE Awaits(m)'
  <2>1. PICK x : x = LastAsked(m)
    OBVIOUS
  <2> QED
    BY <1>1, <1>2, <1>3, <2>1 DEF Awaits
<1>4. NoneLost'
  BY DEF ShiftInv, NoneLost, masterVars
<1> QED
  BY <1>1, <1>2, <1>3, <1>4 DEF ShiftInv

\* A step that is not the Master's counts no timeout.
LEMMA LateSame ==
    ASSUME BudgetOK, UNCHANGED budget \/ Spend("ops") \/ Spend("node_crashes")
    PROVE  Late' = Late
  BY DEF BudgetOK, Spend, Late

\* Every step keeps ShiftInv.
LEMMA ShiftNext == IInv /\ IInv' /\ ShiftInv /\ [Next]_vars => ShiftInv'
<1> SUFFICES ASSUME IInv, IInv', ShiftInv, [Next]_vars PROVE ShiftInv'
  OBVIOUS
<1>0. Late' \in Nat /\ Late <= Late' /\ BudgetOK
  BY LateGrows DEF IInv, ShiftInv
<1>1. CASE StartMaster \/ WakeUp \/ KillMaster
  BY <1>0, <1>1, OthersShift DEF StartMaster, WakeUp, KillMaster
<1>2. CASE Migrate
  BY <1>0, <1>2, SendsShift DEF Migrate
<1>3. CASE Balance
  BY <1>0, <1>3, SendsShift, OthersShift DEF Balance, BalancerStep
<1>4. ASSUME NEW n \in DataNode,
             \/ ServeNode(n) \/ ServeOrphanOf(n) \/ DiscardOrphansOf(n)
             \/ KillNode(n) \/ StartNode(n)
      PROVE  ShiftInv'
  <2>1. Late' = Late /\ UNCHANGED masterVars
    BY <1>0, <1>4, LateSame
       DEF ServeNode, ServeOrphanOf, DiscardOrphansOf, KillNode, StartNode, NodeCrash, NodeRestart
  <2>2. CASE ServeNode(n)
    BY <2>1, <2>2, ServeShift DEF ServeNode
  <2>3. CASE KillNode(n)
    BY <2>1, <2>3, CrashShift DEF KillNode
  <2>4. CASE ServeOrphanOf(n) \/ DiscardOrphansOf(n) \/ StartNode(n)
    BY <2>1, <2>4, SameShift
       DEF ServeOrphanOf, DiscardOrphansOf, StartNode, ServeOrphan, DiscardOrphans, NodeRestart,
           linkVars
  <2> QED
    BY <1>4, <2>2, <2>3, <2>4
<1>5. ASSUME NEW c \in Client, ClientRoute(c) \/ ClientExecute(c) \/ ClientFail(c)
      PROVE  ShiftInv'
  <2>1. Late' = Late /\ UNCHANGED <<masterVars, linkVars>>
    BY <1>0, <1>5, LateSame DEF ClientRoute, ClientExecute, ClientFail
  <2> QED
    BY <2>1, SameShift DEF linkVars
<1>6. CASE UNCHANGED vars
  <2>1. Late' = Late /\ UNCHANGED <<masterVars, linkVars>>
    BY <1>0, <1>6, LateSame DEF vars
  <2> QED
    BY <2>1, SameShift DEF linkVars
<1> QED
  BY <1>1, <1>2, <1>3, <1>4, <1>5, <1>6 DEF Next

\* At first nothing is under way and nothing has timed out.
LEMMA ShiftInit == Init => ShiftInv
<1> SUFFICES ASSUME Init PROVE ShiftInv
  OBVIOUS
<1>1. Late = 0
  BY ClusterAssumption DEF Init, Late
<1>2. pc \notin WaitPc
  BY NoPcClash DEF Init, MasterInit
<1>3. \A n \in DataNode : requests[n] = <<>> /\ replies[n] = <<>>
  BY DEF Init, LinkInit
<1>4. ASSUME NEW n \in DataNode PROVE Frames(n) = 0
  <2>1. Len(requests[n]) = 0 /\ Len(replies[n]) = 0
    BY <1>3
  <2> QED
    BY <2>1 DEF Frames
<1> QED
  BY <1>1, <1>2, <1>3, <1>4 DEF ShiftInv, NoneLost

\* ShiftInv is an invariant of every run.
LEMMA ShiftAlways == Spec => []ShiftInv
  BY ShiftInit, ShiftNext, InductiveInvariant, PTL DEF Spec

\* Replies are shifted by timeouts only, one frame each, whoever crashes, whatever
\* is lost and however often the Master starts again: the reply the balancer
\* takes answers one of the last 1 + Late requests on that connection, and
\* before the first timeout it answers the awaited one.
THEOREM ReplyShiftAlways == Spec => []ReplyShift
<1>1. ShiftInv => ReplyShift
  BY DEF ShiftInv, Awaits, Frames, ReplyShift
<1> QED
  BY <1>1, ShiftAlways, PTL

-----------------------------------------------------------------------------
(* Replies match requests while nothing times out                          *)

AllSilent == \A n \in DataNode : Silent(n)

\* Outside a request nothing is under way.
LEMMA RestIsSilent == ASSUME LinkInv, pc \notin WaitPc PROVE AllSilent
  BY DEF LinkInv, AllSilent

\* Taking the reply, giving up on it, or dying leaves nothing under way.
LEMMA RecvSilent ==
    ASSUME IInv, LinkInv, pc \in WaitPc, RecvFrame(Target) \/ RecvFails(Target)
    PROVE  AllSilent'
<1> DEFINE m == Target
<1>0. /\ m \in DataNode /\ replies[m] \in Seq(Reply) /\ requests[m] \in Seq(Request)
      /\ replies \in [DataNode -> Seq(Reply)] /\ requests \in [DataNode -> Seq(Request)]
  BY TargetType DEF IInv, LinkTypeOK
<1>1. /\ OneFrame(m) /\ \A n \in DataNode : n # m => Silent(n)
  BY DEF LinkInv
<1> HIDE DEF m
<1>2. CASE RecvFrame(m)
  <2>1. requests[m] = <<>> /\ Tail(replies[m]) = <<>>
    BY <1>0, <1>1, <1>2, OneElement DEF OneFrame, Silent, RecvFrame
  <2> QED
    BY <1>0, <1>1, <1>2, <2>1 DEF AllSilent, Silent, RecvFrame
<1>3. CASE RecvFails(m)
  <2>1. conn[m] # "open" /\ requests[m] = <<>> /\ replies[m] = <<>>
    BY <1>0, <1>3 DEF RecvFails, LinkInv, Spend
  <2> QED
    BY <1>1, <1>3, <2>1 DEF RecvFails, AllSilent, Silent, linkVars
<1> QED
  BY <1>2, <1>3 DEF m

\* A crash of the Master ends all its calls.
LEMMA DieSilent == ASSUME Die PROVE AllSilent'
  BY DEF Die, DropConnections, AllSilent, Silent

\* What a DataNode serves is the awaited request, the only one there is.
LEMMA ServeLink ==
    ASSUME IInv, LinkInv, NEW n \in DataNode, Serve(n)
    PROVE  /\ pc \in WaitPc /\ n = Target /\ replies[n] = <<>>
           /\ Len(requests[n]) = 1 /\ AwaitedRequest(Head(requests[n]))
<1>1. requests[n] \in Seq(Request) /\ requests[n] # <<>>
  BY DEF IInv, LinkTypeOK, Serve
<1>2. pc \in WaitPc /\ n = Target
  BY <1>1 DEF LinkInv, Silent
<1> QED
  BY <1>1, <1>2 DEF LinkInv, OneFrame, Silent

\* With no frame to spare ShiftInv is LinkInv.
LEMMA ShiftIsLink == MaxTimeouts = 0 /\ IInv /\ ShiftInv => LinkInv
<1> SUFFICES ASSUME MaxTimeouts = 0, IInv, ShiftInv PROVE LinkInv
  OBVIOUS
<1>1. budget.timeouts = 0 /\ Late = 0
  BY DEF ShiftInv, Late, IInv, BudgetOK
<1>2. \A n \in DataNode : /\ requests[n] \in Seq(Request) /\ replies[n] \in Seq(Reply)
  BY LinkTypesHold DEF LinkTypes
<1>3. ASSUME NEW n \in DataNode, ~(pc \in WaitPc /\ n = Target) PROVE Silent(n)
  <2>1. PICK a \in Nat : a = Len(replies[n]) /\ (a = 0 => replies[n] = <<>>)
    BY FramesNat, EmptySeq
  <2>2. PICK b \in Nat : b = Len(requests[n]) /\ (b = 0 => requests[n] = <<>>)
    BY FramesNat, EmptySeq
  <2>3. Frames(n) = a + b
    BY <2>1, <2>2, FramesSum
  <2>4. a + b <= 0
    BY <1>1, <1>3, <2>3 DEF ShiftInv
  <2>5. a = 0 /\ b = 0
    BY <2>4
  <2> QED
    BY <2>1, <2>2, <2>5 DEF Silent
<1>4. ASSUME pc \in WaitPc PROVE OneFrame(Target)
  <2>1. PICK n \in DataNode : n = Target
    BY <1>4, TargetType
  <2>2. Awaits(n)
    BY <1>4, <2>1 DEF ShiftInv
  <2>3. \/ Len(requests[n]) = 0 /\ Len(replies[n]) = 0
        \/ Len(requests[n]) = 1 /\ Len(replies[n]) = 0
        \/ Len(requests[n]) = 0 /\ Len(replies[n]) = 1
    <3>1. PICK a \in Nat : a = Len(replies[n])
      BY FramesNat
    <3>2. PICK b \in Nat : b = Len(requests[n])
      BY FramesNat
    <3>3. Frames(n) = a + b
      BY <3>1, <3>2, FramesSum
    <3>4. a + b <= 1
      BY <1>1, <2>2, <3>3 DEF Awaits
    <3>5. (b = 0 /\ a = 0) \/ (b = 1 /\ a = 0) \/ (b = 0 /\ a = 1)
      BY <3>4
    <3> QED
      BY <3>1, <3>2, <3>5
  <2>4. CASE Len(requests[n]) = 0 /\ Len(replies[n]) = 0
    BY <1>2, <2>1, <2>4, EmptySeq DEF OneFrame, Silent
  <2>5. CASE Len(requests[n]) = 1 /\ Len(replies[n]) = 0
    <3>1. replies[n] = <<>> /\ requests[n] # <<>> /\ requests[n][1] = Head(requests[n])
      BY <1>2, <2>5, EmptySeq, OneElement
    <3>2. AwaitedRequest(LastAsked(n))
      <4>1. PICK a \in Nat, b \in Nat : a = 0 /\ b = 1
        OBVIOUS
      <4>2. Len(replies[n]) = a /\ Len(requests[n]) = b
        BY <2>5, <4>1
      <4>3. Frames(n) = a + b
        BY <4>2, FramesSum
      <4>4. Frames(n) = 1
        BY <4>1, <4>3
      <4> QED
        BY <1>1, <2>2, <4>4 DEF Awaits
    <3>3. LastAsked(n) = Head(requests[n])
      BY <2>5, <3>1 DEF LastAsked
    <3> QED
      BY <2>1, <2>5, <3>1, <3>2, <3>3 DEF OneFrame
  <2>6. CASE Len(requests[n]) = 0 /\ Len(replies[n]) = 1
    <3>1. requests[n] = <<>> /\ replies[n][1] = Head(replies[n])
      BY <1>2, <2>6, EmptySeq
    <3>2. AwaitedRequest(LastAsked(n))
      <4>1. PICK a \in Nat, b \in Nat : a = 1 /\ b = 0
        OBVIOUS
      <4>2. Len(replies[n]) = a /\ Len(requests[n]) = b
        BY <2>6, <4>1
      <4>3. Frames(n) = a + b
        BY <4>2, FramesSum
      <4>4. Frames(n) = 1
        BY <4>1, <4>3
      <4> QED
        BY <1>1, <2>2, <4>4 DEF Awaits
    <3>3. LastAsked(n) = Head(replies[n]).req
      BY <2>6, <3>1 DEF LastAsked
    <3> QED
      BY <2>1, <2>6, <3>1, <3>2, <3>3 DEF OneFrame
  <2> QED
    BY <2>3, <2>4, <2>5, <2>6
<1> QED
  BY <1>1, <1>3, <1>4 DEF LinkInv, ShiftInv, NoneLost

\* LinkInv is an invariant of every run without timeouts.
LEMMA LinkAlways == MaxTimeouts = 0 /\ Spec => []LinkInv
<1> SUFFICES ASSUME MaxTimeouts = 0 PROVE Spec => []LinkInv
  OBVIOUS
<1>1. IInv /\ ShiftInv => LinkInv
  BY ShiftIsLink
<1> QED
  BY <1>1, ShiftAlways, InductiveInvariant, PTL

-----------------------------------------------------------------------------
(* The steps of the Master, by what they do to routes and data.  The       *)
(* proofs below have one case per kind instead of one per action.          *)

AtRest == {"sleep", "sync", "split", "splitSave", "balance"}

StayOpen == \A n \in DataNode : conn[n] = "open" => conn'[n] = "open"

\* No key changes its route, in memory or on disk.
RoutesKept ==
    /\ tablet_file'.state = "good"
    /\ \A k \in Key : MemNode(k)' = MemNode(k) /\ DurableNode(k)' = DurableNode(k)

\* The balancer is outside a migration after the step.  It left a migration
\* before the switch, or with the DELETE_RANGE lost or done.
ToRest ==
    /\ pc' \in AtRest
    /\ \/ pc \in AtRest \cup {"syncWait", "splitWait", "scanWait"}
       \/ pc = "transfer" /\ ~complete
       \/ pc = "delRange" /\ conn[cur.node_id] # "open"
       \/ pc = "delWait" /\ requests[cur.node_id] = <<>>
    /\ RoutesKept /\ AllSilent' /\ StayOpen
    /\ UNCHANGED orphans

\* A request goes out; the tables stay.
Sending ==
    /\ AllSilent /\ StayOpen
    /\ UNCHANGED <<tablets, tablet_file, orphans, replies>>

AskStats ==
    /\ Sending
    /\ pc \in AtRest /\ pc' \in {"syncWait", "splitWait"}
    /\ idx' \in DOMAIN tablets /\ cur' = tablets[idx']

AskScan ==
    /\ Sending
    /\ pc = "balance" /\ pc' = "scanWait"
    /\ idx' \in DOMAIN tablets /\ cur' = tablets[idx'] /\ dst' # cur'.node_id
    /\ NoCommand \/ ClientWindow = "always"

TakeScan ==
    /\ pc = "scanWait" /\ pc' = "transfer"
    /\ replies[cur.node_id] # <<>> /\ Head(replies[cur.node_id]) \in Reply
    /\ Head(replies[cur.node_id]).req = RangeRequest("scan", cur)
    /\ todo' = Head(replies[cur.node_id]).pairs
    /\ complete' = TRUE
    /\ AllSilent'
    /\ UNCHANGED <<tablets, tablet_file, orphans, conn, idx, cur, dst>>

AskPut ==
    /\ Sending
    /\ pc = "transfer" /\ pc' = "putWait"
    /\ UNCHANGED localVars

TakePut ==
    /\ pc \in {"transfer", "putWait"} /\ pc' = "transfer"
    /\ \E k \in Key :
          /\ NextPair(k)
          /\ todo' = [todo EXCEPT ![k] = NoValue]
          /\ \/ complete' = complete /\ pc = "putWait" /\ replies[dst] # <<>>
             \/ complete' = FALSE /\ conn[dst] # "open"
    /\ AllSilent'
    /\ UNCHANGED <<tablets, tablet_file, orphans, conn, idx, cur, dst>>

SwitchRoute ==
    /\ pc = "transfer" /\ pc' = "flipSave"
    /\ Transferred
    /\ tablets' = [tablets EXCEPT ![idx].node_id = dst]
    /\ \A k \in Key : MemNode(k)' = IF InCur(k) THEN dst ELSE MemNode(k)
    /\ UNCHANGED <<tablet_file, localVars, linkVars>>

SaveRoute ==
    /\ pc = "flipSave" /\ pc' = "delRange"
    /\ tablet_file'.state = "good" /\ tablet_file'.tablets = tablets'
    /\ UNCHANGED <<tablets, localVars, linkVars>>

AskDelete ==
    /\ Sending
    /\ pc = "delRange" /\ pc' = "delWait"
    /\ conn[cur.node_id] = "open" => requests'[cur.node_id] # <<>>
    /\ UNCHANGED localVars

\* The process ends: by the environment, or by SIGPIPE on a broken connection.
Died ==
    /\ Die
    /\ pc # "off"
    /\ budget.master_crashes > 0 \/ \E n \in DataNode : conn[n] = "broken"

\* The constructor, when no frame of an earlier Master is left.
Started ==
    /\ pc = "off" /\ pc' = "sleep"
    /\ \A n \in DataNode : orphans[n] = <<>>
    /\ tablet_file'.state = "good" /\ tablet_file'.tablets = tablets'
    /\ DurableTable' = DurableTable
    /\ AllSilent'
    /\ \A n \in DataNode : alive[n] => conn'[n] = "open"
    /\ UNCHANGED orphans

MasterKind ==
    \/ ToRest \/ AskStats \/ AskScan \/ TakeScan \/ AskPut \/ TakePut
    \/ SwitchRoute \/ SaveRoute \/ AskDelete \/ Died \/ Started

-----------------------------------------------------------------------------
(* Routes of the tables the Master's steps produce                         *)

\* With the same tables, the same routes.
LEMMA SameTables ==
    ASSUME UNCHANGED <<tablets, tablet_file>>, NEW k
    PROVE  MemNode(k)' = MemNode(k) /\ DurableNode(k)' = DurableNode(k)
  BY DEF MemNode, DurableNode, DurableTable

\* The keys of the balancer's tablet are the keys of the entry at idx.
LEMMA CurRoute ==
    ASSUME IInv, CurOK, pc \in WaitPc \cup MigrationPc, NEW k \in Key
    PROVE  /\ InCur(k) <=> FindTabletIndex(tablets, k) = idx
           /\ InCur(k) => MemNode(k) = tablets[idx].node_id
<1>1. tablets \in Seq(Tablet) /\ IsPartition(tablets) /\ idx \in DOMAIN tablets
  BY NoPcClash DEF IInv, MInv, MasterTypeOK, TablesOK, LocalsOK
<1>2. InCur(k) <=> FindTabletIndex(tablets, k) = idx
  BY <1>1, RouteFound DEF InCur, CurOK
<1> QED
  BY <1>2 DEF MemNode, GetTabletRoute

\* SyncAllTabletStats changes no route.
LEMMA SyncRoutes ==
    ASSUME IInv, IInv', SyncReply, NEW k \in Key
    PROVE  MemNode(k)' = MemNode(k)
<1>1. /\ tablets \in Seq(Tablet) /\ IsPartition(tablets) /\ idx \in DOMAIN tablets
      /\ tablets' \in Seq(Tablet) /\ IsPartition(tablets')
  BY NoPcClash DEF SyncReply, SyncNext, IInv, MInv, MasterTypeOK, TablesOK, LocalsOK, WaitPc
<1>2. \/ tablets' = tablets
      \/ \E c : tablets' = [tablets EXCEPT ![idx].key_count = c]
  BY DEF SyncReply
<1>3. /\ DOMAIN tablets' = DOMAIN tablets
      /\ \A i \in DOMAIN tablets : /\ tablets'[i].start_key = tablets[i].start_key
                                   /\ tablets'[i].end_key = tablets[i].end_key
                                   /\ tablets'[i].node_id = tablets[i].node_id
  <2>1. \A i \in DOMAIN tablets : tablets[i] \in Tablet
    BY <1>1
  <2> QED
    BY <1>1, <1>2, <2>1 DEF Tablet
<1>4. FindTabletIndex(tablets', k) = FindTabletIndex(tablets, k)
  BY <1>1, <1>3, SameIndex
<1>5. FindTabletIndex(tablets, k) \in DOMAIN tablets
  BY <1>1, RouteFound
<1> QED
  BY <1>3, <1>4, <1>5 DEF MemNode, GetTabletRoute

\* TrySplitTablet changes no route.
LEMMA SplitReplyRoutes ==
    ASSUME IInv, IInv', CurOK, SplitReply, NEW k \in Key
    PROVE  MemNode(k)' = MemNode(k)
<1> DEFINE r == Head(replies[cur.node_id])
           old == [cur EXCEPT !.key_count = r.count]
<1>1. /\ tablets \in Seq(Tablet) /\ IsPartition(tablets) /\ idx \in DOMAIN tablets
      /\ cur \in Tablet /\ next_tablet_id \in Nat /\ cur.node_id \in DataNode
  BY NoPcClash DEF SplitReply, IInv, MInv, MasterTypeOK, TablesOK, LocalsOK, WaitPc, Tablet
<1>2. r \in Reply
  BY <1>1, RecvType DEF SplitReply, IInv
<1>3. /\ old \in Tablet /\ old.start_key = tablets[idx].start_key
      /\ old.end_key = tablets[idx].end_key /\ old.node_id = tablets[idx].node_id
      /\ r.first \in Bound
  <2>1. r.count \in Nat /\ r.first \in Bound
    BY <1>2 DEF Reply
  <2>2. /\ cur.start_key = tablets[idx].start_key /\ cur.end_key = tablets[idx].end_key
        /\ cur.node_id = tablets[idx].node_id
    BY DEF SplitReply, CurOK, WaitPc, FlippedPc
  <2> HIDE DEF r
  <2> QED
    BY <1>1, <2>1, <2>2 DEF Tablet
<1>4. CASE tablets' = tablets
  BY <1>4 DEF MemNode
<1>5. CASE /\ tablets' = SplitTablet(tablets, idx, old, r.first, next_tablet_id)
           /\ CanSplitAt(cur, r.first)
  <2>1. CanSplitAt(old, r.first)
    BY <1>1, <1>5 DEF CanSplitAt, Tablet
  <2> HIDE DEF r, old
  <2> QED
    BY <1>1, <1>3, <1>5, <2>1, SplitRoutes DEF MemNode
<1> QED
  BY <1>4, <1>5 DEF SplitReply, memVars

\* Switching one tablet changes the routes of its keys only.
LEMMA FlipRoutes ==
    ASSUME IInv, IInv', CurOK, pc \in MigrationPc, pc' # "off",
           tablets' = [tablets EXCEPT ![idx].node_id = dst], NEW k \in Key
    PROVE  MemNode(k)' = IF InCur(k) THEN dst ELSE MemNode(k)
<1>1. /\ tablets \in Seq(Tablet) /\ IsPartition(tablets) /\ idx \in DOMAIN tablets
      /\ tablets' \in Seq(Tablet) /\ IsPartition(tablets')
  BY NoPcClash DEF IInv, MInv, MasterTypeOK, TablesOK, LocalsOK
<1>2. /\ DOMAIN tablets' = DOMAIN tablets
      /\ \A i \in DOMAIN tablets :
            /\ tablets'[i].start_key = tablets[i].start_key
            /\ tablets'[i].end_key = tablets[i].end_key
            /\ tablets'[i].node_id = IF i = idx THEN dst ELSE tablets[i].node_id
  <2>1. \A i \in DOMAIN tablets : tablets[i] \in Tablet
    BY <1>1
  <2> QED
    BY <1>1, <2>1 DEF Tablet
<1>3. FindTabletIndex(tablets', k) = FindTabletIndex(tablets, k)
  BY <1>1, <1>2, SameIndex
<1>4. FindTabletIndex(tablets, k) \in DOMAIN tablets
  BY <1>1, RouteFound
<1> QED
  BY <1>2, <1>3, <1>4, CurRoute DEF MemNode, GetTabletRoute

-----------------------------------------------------------------------------
(* Every step of the Master is of one of the kinds                         *)

\* RoutesKept from unchanged tables.
LEMMA KeptTables ==
    ASSUME DurableOK, pc # "off", UNCHANGED <<tablets, tablet_file>>
    PROVE  RoutesKept
  BY SameTables DEF RoutesKept, DurableOK

\* Send keeps open connections open and touches no other stream.
LEMMA SendKind ==
    ASSUME IInv, LinkInv, pc \notin WaitPc, NEW n \in DataNode, NEW q, Send(n, q),
           UNCHANGED <<tablets, tablet_file>>
    PROVE  Sending /\ (conn[n] = "open" => requests'[n] # <<>>)
<1>1. conn \in [DataNode -> ConnState] /\ requests \in [DataNode -> Seq(Request)]
  BY DEF IInv, LinkTypeOK
<1>2. AllSilent
  BY RestIsSilent
<1>3. conn[n] = "open" => requests'[n] = Append(requests[n], q)
  BY <1>1 DEF Send
<1>4. requests[n] = <<>>
  BY <1>2 DEF AllSilent, Silent
<1>5. Append(<<>>, q) # <<>>
  OBVIOUS
<1> QED
  BY <1>1, <1>2, <1>3, <1>4, <1>5 DEF Send, Sending, StayOpen

\* A step to rest that leaves tables and links alone.
LEMMA RestKind ==
    ASSUME IInv, LinkInv, DurableOK, pc \in AtRest, pc' \in AtRest,
           UNCHANGED <<tablets, tablet_file, linkVars>>
    PROVE  ToRest
<1>1. pc # "off" /\ pc \notin WaitPc
  BY DEF AtRest, WaitPc
<1>2. AllSilent' /\ StayOpen /\ UNCHANGED orphans
  BY <1>1, RestIsSilent DEF AllSilent, Silent, linkVars, StayOpen
<1> QED
  BY <1>1, <1>2, KeptTables DEF ToRest

\* Back to rest from waiting for a reply.
LEMMA RecvKind ==
    ASSUME IInv, LinkInv, DurableOK, pc \in {"syncWait", "splitWait", "scanWait", "delWait"},
           pc' \in AtRest, RecvFrame(cur.node_id) \/ RecvFails(cur.node_id),
           tablet_file' = tablet_file, \A k \in Key : MemNode(k)' = MemNode(k)
    PROVE  ToRest
<1>1. pc \in WaitPc /\ Target = cur.node_id /\ pc # "off"
  BY DEF WaitPc, Target
<1>2. AllSilent'
  BY <1>1, RecvSilent
<1>3. StayOpen /\ UNCHANGED orphans
  BY DEF RecvFrame, RecvFails, linkVars, StayOpen
<1>4. RoutesKept
  BY <1>1 DEF RoutesKept, DurableOK, DurableNode, DurableTable
<1>5. requests[cur.node_id] = <<>>
  <2>1. cur.node_id \in DataNode
    BY <1>1, TargetType
  <2>2. requests' = requests
    BY DEF RecvFrame, RecvFails, linkVars
  <2> QED
    BY <1>2, <2>1, <2>2 DEF AllSilent, Silent
<1> QED
  BY <1>2, <1>3, <1>4, <1>5 DEF ToRest

\* SyncAllTabletStats and TrySplitTablet.
LEMMA StatsKinds ==
    ASSUME IInv, IInv', LinkInv, RouteInv,
           \/ SyncSend \/ SyncReply \/ SyncTimeout \/ SyncDone
           \/ SplitSend \/ SplitReply \/ SplitTimeout \/ SplitSave \/ SplitDone
    PROVE  ToRest \/ AskStats \/ Died
<1>0. tablets \in Seq(Tablet) /\ idx \in Nat \ {0} /\ DurableOK /\ CurOK /\ budget.save_faults = 0
  BY DEF IInv, MInv, MasterTypeOK, RouteInv
<1>1. CASE SyncSend
  <2>1. idx \in DOMAIN tablets /\ pc \in AtRest /\ pc \notin WaitPc
    BY <1>0, <1>1 DEF SyncSend, AtRest, WaitPc
  <2>2. tablets[idx].node_id \in DataNode
    BY <1>0, <2>1, TabletFields
  <2>3. CASE /\ Send(tablets[idx].node_id, RangeRequest("stats", tablets[idx]))
             /\ pc' = "syncWait" /\ cur' = tablets[idx] /\ idx' = idx
             /\ UNCHANGED <<memVars, tablet_file>>
    BY <2>1, <2>2, <2>3, SendKind DEF AskStats, memVars
  <2>4. CASE /\ SendFails(tablets[idx].node_id) /\ UNCHANGED <<pc, memVars, tablet_file>>
    BY <1>0, <2>1, <2>4, RestKind DEF SendFails, memVars
  <2>5. CASE conn[tablets[idx].node_id] = "broken" /\ Die
    BY <1>1, <2>2, <2>5 DEF SyncSend, Died
  <2> QED
    BY <1>1, <2>3, <2>4, <2>5 DEF SyncSend, Call
<1>2. CASE SyncReply
  <2>1. \A k \in Key : MemNode(k)' = MemNode(k)
    BY <1>2, SyncRoutes
  <2> QED
    BY <1>0, <1>2, <2>1, RecvKind DEF SyncReply, SyncNext, AtRest
<1>3. CASE SyncTimeout
  <2>1. \A k \in Key : MemNode(k)' = MemNode(k)
    BY <1>3 DEF SyncTimeout, MemNode
  <2> QED
    BY <1>0, <1>3, <2>1, RecvKind DEF SyncTimeout, SyncNext, AtRest
<1>4. CASE SyncDone \/ SplitDone
  BY <1>0, <1>4, RestKind DEF SyncDone, SplitDone, memVars, AtRest
<1>5. CASE SplitSend
  <2>1. PICK i \in idx..Len(tablets) :
           Call(tablets[i].node_id, RangeRequest("stats", tablets[i]),
                /\ pc' = "splitWait" /\ idx' = i /\ cur' = tablets[i]
                /\ UNCHANGED <<dst, todo, complete>>,
                idx' = i + 1 /\ UNCHANGED <<pc, cur, dst, todo, complete>>)
    BY <1>5 DEF SplitSend
  <2>2. i \in DOMAIN tablets /\ pc \in AtRest /\ pc \notin WaitPc
    BY <1>0, <1>5 DEF SplitSend, AtRest, WaitPc
  <2>3. tablets[i].node_id \in DataNode
    BY <1>0, <2>2, TabletFields
  <2>4. CASE /\ Send(tablets[i].node_id, RangeRequest("stats", tablets[i]))
             /\ pc' = "splitWait" /\ cur' = tablets[i] /\ idx' = i
             /\ UNCHANGED <<memVars, tablet_file>>
    BY <2>2, <2>3, <2>4, SendKind DEF AskStats, memVars
  <2>5. CASE /\ SendFails(tablets[i].node_id) /\ UNCHANGED <<pc, memVars, tablet_file>>
    BY <1>0, <2>2, <2>5, RestKind DEF SendFails, memVars
  <2>6. CASE conn[tablets[i].node_id] = "broken" /\ Die
    BY <1>5, <2>3, <2>6 DEF SplitSend, Died
  <2> QED
    BY <2>1, <2>4, <2>5, <2>6 DEF Call
<1>6. CASE SplitReply
  <2>1. \A k \in Key : MemNode(k)' = MemNode(k)
    BY <1>0, <1>6, SplitReplyRoutes
  <2> QED
    BY <1>0, <1>6, <2>1, RecvKind DEF SplitReply, AtRest
<1>7. CASE SplitTimeout
  <2>1. \A k \in Key : MemNode(k)' = MemNode(k)
    BY <1>7 DEF SplitTimeout, memVars, MemNode
  <2> QED
    BY <1>0, <1>7, <2>1, RecvKind DEF SplitTimeout, AtRest
<1>8. CASE SplitSave
  <2>1. /\ pc = "splitSave" /\ pc' = "split" /\ tablets' = tablets /\ UNCHANGED linkVars
        /\ tablet_file'.state = "good" /\ tablet_file'.tablets = tablets
    BY <1>0, <1>8 DEF SplitSave, SaveTablets, Spend, TabletFile, memVars
  <2>2. \A k \in Key : MemNode(k)' = MemNode(k) /\ DurableNode(k)' = MemNode(k)
    BY <2>1 DEF MemNode, DurableNode, DurableTable
  <2>3. \A k \in Key : DurableNode(k) = MemNode(k)
    BY <1>0, <2>1 DEF DurableOK
  <2>4. AllSilent' /\ StayOpen /\ UNCHANGED orphans
    BY <2>1, RestIsSilent DEF WaitPc, AllSilent, Silent, StayOpen, linkVars
  <2> QED
    BY <2>1, <2>2, <2>3, <2>4 DEF ToRest, AtRest, RoutesKept
<1> QED
  BY <1>1, <1>2, <1>3, <1>4, <1>5, <1>6, <1>7, <1>8

\* The first half of MigrateTablet: SCAN, then the PUTs.
LEMMA CopyKinds ==
    ASSUME IInv, IInv', LinkInv, RouteInv,
           ScanReply \/ ScanTimeout \/ TransferSend \/ PutReply \/ PutTimeout
    PROVE  ToRest \/ TakeScan \/ AskPut \/ TakePut \/ Died
<1>0. /\ DurableOK /\ CurOK /\ pc \in MigrationPc /\ pc # "off"
      /\ cur \in Tablet /\ cur.node_id \in DataNode /\ dst \in DataNode
      /\ conn \in [DataNode -> ConnState]
  <2>1. pc \in MigrationPc /\ pc # "off"
    BY DEF ScanReply, ScanTimeout, TransferSend, PutReply, PutTimeout, MigrationPc
  <2>2. cur \in Tablet /\ dst \in DataNode
    BY <2>1 DEF IInv, MInv, LocalsOK
  <2> QED
    BY <2>1, <2>2 DEF RouteInv, Tablet, IInv, LinkTypeOK
<1>1. CASE ScanReply
  <2> DEFINE r == Head(replies[cur.node_id])
  <2>1. pc = "scanWait" /\ pc \in WaitPc /\ Target = cur.node_id /\ RecvFrame(cur.node_id)
    BY <1>1 DEF ScanReply, WaitPc, Target
  <2>2. replies[cur.node_id] # <<>> /\ AwaitedRequest(r.req) /\ r \in Reply
    BY <1>0, <2>1, RecvType DEF LinkInv, OneFrame, Silent, RecvFrame, IInv
  <2>3. r.req = RangeRequest("scan", cur)
    BY <2>1, <2>2 DEF AwaitedRequest
  <2>4. ScannedPairs(r) = r.pairs /\ ScannedAll(r) = TRUE
    BY <2>3 DEF RangeRequest, ScannedPairs, ScannedAll
  <2>5. AllSilent'
    BY <2>1, RecvSilent
  <2>6. UNCHANGED <<tablets, tablet_file, orphans, conn>>
    BY <1>1, <2>1 DEF ScanReply, RecvFrame, memVars
  <2>7. CASE Sleep
    <3>1. \A k \in Key : MemNode(k)' = MemNode(k)
      BY <2>6 DEF MemNode
    <3> QED
      BY <1>0, <2>1, <2>6, <2>7, <3>1, RecvKind DEF Sleep, AtRest
  <2>8. CASE /\ pc' = "transfer" /\ todo' = ScannedPairs(r) /\ complete' = ScannedAll(r)
             /\ UNCHANGED <<idx, cur, dst>>
    BY <2>1, <2>2, <2>3, <2>4, <2>5, <2>6, <2>8 DEF TakeScan
  <2> QED
    BY <1>1, <2>7, <2>8 DEF ScanReply
<1>2. CASE ScanTimeout
  <2>1. \A k \in Key : MemNode(k)' = MemNode(k)
    BY <1>2 DEF ScanTimeout, MemNode, memVars
  <2> QED
    BY <1>0, <1>2, <2>1, RecvKind DEF ScanTimeout, Sleep, AtRest
<1>3. CASE TransferSend
  <2>1. PICK k \in Key : /\ NextPair(k)
                         /\ Call(dst, PutRequest(k, todo[k]),
                                 pc' = "putWait" /\ UNCHANGED localVars,
                                 PairDone(k, FALSE))
    BY <1>3 DEF TransferSend
  <2>2. pc = "transfer" /\ pc \notin WaitPc
    BY <1>3 DEF TransferSend, WaitPc
  <2>3. CASE /\ Send(dst, PutRequest(k, todo[k])) /\ pc' = "putWait" /\ UNCHANGED localVars
             /\ UNCHANGED <<memVars, tablet_file>>
    BY <1>0, <2>2, <2>3, SendKind DEF AskPut, memVars
  <2>4. CASE SendFails(dst) /\ PairDone(k, FALSE) /\ UNCHANGED <<memVars, tablet_file>>
    <3>1. AllSilent' /\ UNCHANGED <<tablets, tablet_file, orphans, conn, idx, cur, dst>>
      BY <2>2, <2>4, RestIsSilent
         DEF SendFails, linkVars, AllSilent, Silent, memVars, PairDone
    <3>2. conn[dst] # "open" /\ complete' = FALSE
      BY <2>4 DEF SendFails, PairDone
    <3> QED
      BY <2>1, <2>2, <2>4, <3>1, <3>2 DEF TakePut, PairDone
  <2>5. CASE conn[dst] = "broken" /\ Die
    BY <1>0, <2>5 DEF Died
  <2> QED
    BY <2>1, <2>3, <2>4, <2>5 DEF Call
<1>4. CASE PutReply \/ PutTimeout
  <2>1. /\ pc = "putWait" /\ pc \in WaitPc /\ Target = dst
        /\ RecvFrame(dst) \/ RecvFails(dst)
    BY <1>4 DEF PutReply, PutTimeout, WaitPc, Target
  <2>2. PICK k \in Key : NextPair(k) /\ PairDone(k, PutReply)
    BY <1>4 DEF PutReply, PutTimeout, RecvFrame, RecvFails
  <2>3. AllSilent' /\ UNCHANGED <<tablets, tablet_file, orphans, conn, idx, cur, dst>>
    BY <1>4, <2>1, <2>2, RecvSilent
       DEF PutReply, PutTimeout, RecvFrame, RecvFails, memVars, linkVars, PairDone
  <2>4. CASE PutReply
    <3>1. replies[dst] # <<>>
      BY <2>4 DEF PutReply, RecvFrame
    <3>2. complete \in BOOLEAN /\ complete' = (complete /\ PutReply)
      BY <2>2 DEF PairDone, IInv, MInv, MasterTypeOK
    <3>3. complete' = complete
      BY <2>4, <3>2, Zenon
    <3> QED
      BY <2>1, <2>2, <2>3, <3>1, <3>3 DEF TakePut, PairDone
  <2>5. CASE PutTimeout
    <3>1. conn[dst] # "open" /\ replies[dst] = <<>>
      BY <2>5 DEF PutTimeout, RecvFails, LinkInv, Spend
    <3>2. ~PutReply
      BY <3>1 DEF PutReply, RecvFrame
    <3>3. complete' = FALSE
      BY <2>2, <3>2, Zenon DEF PairDone
    <3> QED
      BY <2>1, <2>2, <2>3, <3>1, <3>3 DEF TakePut, PairDone
  <2> QED
    BY <1>4, <2>4, <2>5
<1> QED
  BY <1>1, <1>2, <1>3, <1>4

\* The second half: switch, save, DELETE_RANGE; or giving up.
LEMMA SwitchKinds ==
    ASSUME IInv, IInv', LinkInv, RouteInv,
           TransferFailed \/ FlipRoute \/ FlipSave \/ SendDeleteRange \/ DeleteRangeDone
    PROVE  ToRest \/ SwitchRoute \/ SaveRoute \/ AskDelete \/ Died
<1>0. /\ DurableOK /\ CurOK /\ pc \in MigrationPc /\ pc # "off" /\ budget.save_faults = 0
      /\ cur \in Tablet /\ cur.node_id \in DataNode /\ dst \in DataNode
  <2>1. pc \in MigrationPc /\ pc # "off"
    BY DEF TransferFailed, FlipRoute, FlipSave, SendDeleteRange, DeleteRangeDone, MigrationPc
  <2>2. cur \in Tablet /\ dst \in DataNode
    BY <2>1 DEF IInv, MInv, LocalsOK
  <2> QED
    BY <2>1, <2>2 DEF RouteInv, Tablet
<1>1. CASE TransferFailed
  <2>1. /\ pc = "transfer" /\ pc' \in AtRest /\ pc \notin WaitPc /\ ~complete
        /\ UNCHANGED <<tablets, tablet_file, linkVars>>
    BY <1>1 DEF TransferFailed, Transferred, Sleep, AtRest, WaitPc, memVars
  <2>2. AllSilent' /\ StayOpen /\ UNCHANGED orphans
    BY <2>1, RestIsSilent DEF AllSilent, Silent, linkVars, StayOpen
  <2> QED
    BY <1>0, <2>1, <2>2, KeptTables DEF ToRest
<1>2. CASE FlipRoute
  <2>1. tablets[idx].id = cur.id
    BY <1>0 DEF CurOK
  <2>2. /\ pc = "transfer" /\ pc' = "flipSave" /\ Transferred
        /\ tablets' = [tablets EXCEPT ![idx].node_id = dst]
        /\ UNCHANGED <<tablet_file, localVars, linkVars>>
    BY <1>2, <2>1 DEF FlipRoute
  <2>3. \A k \in Key : MemNode(k)' = IF InCur(k) THEN dst ELSE MemNode(k)
    BY <1>0, <2>2, FlipRoutes
  <2> QED
    BY <2>2, <2>3 DEF SwitchRoute
<1>3. CASE FlipSave
  BY <1>0, <1>3 DEF FlipSave, SaveTablets, Spend, TabletFile, memVars, SaveRoute
<1>4. CASE SendDeleteRange
  <2>1. pc = "delRange" /\ pc \notin WaitPc
    BY <1>4 DEF SendDeleteRange, WaitPc
  <2>2. CASE /\ Send(cur.node_id, RangeRequest("delrange", cur)) /\ pc' = "delWait"
             /\ UNCHANGED localVars /\ UNCHANGED <<memVars, tablet_file>>
    BY <1>0, <2>1, <2>2, SendKind DEF AskDelete, memVars
  <2>3. CASE SendFails(cur.node_id) /\ Sleep /\ UNCHANGED <<memVars, tablet_file>>
    <3>1. /\ AllSilent' /\ StayOpen /\ UNCHANGED <<tablets, tablet_file, orphans>>
          /\ conn[cur.node_id] # "open" /\ pc' \in AtRest
      BY <2>1, <2>3, RestIsSilent
         DEF SendFails, Sleep, AllSilent, Silent, linkVars, StayOpen, memVars, AtRest
    <3> QED
      BY <1>0, <2>1, <3>1, KeptTables DEF ToRest
  <2>4. CASE conn[cur.node_id] = "broken" /\ Die
    BY <1>0, <2>4 DEF Died
  <2> QED
    BY <1>4, <2>2, <2>3, <2>4 DEF SendDeleteRange, Call
<1>5. CASE DeleteRangeDone
  <2>1. \A k \in Key : MemNode(k)' = MemNode(k)
    BY <1>5 DEF DeleteRangeDone, MemNode, memVars
  <2> QED
    BY <1>0, <1>5, <2>1, RecvKind DEF DeleteRangeDone, Sleep, AtRest
<1> QED
  BY <1>1, <1>2, <1>3, <1>4, <1>5

\* Start, wake-up, the decision to migrate, the spontaneous crash.
LEMMA MasterKinds ==
    ASSUME IInv, IInv', LinkInv, RouteInv,
           StartMaster \/ WakeUp \/ Balance \/ Migrate \/ KillMaster
    PROVE  MasterKind
<1>0. DurableOK /\ CurOK /\ budget.save_faults = 0 /\ ~LateRequests
  BY DEF RouteInv
<1>1. CASE Balance
  <2>1. CASE BalanceIdle
    BY <1>0, <2>1, RestKind DEF BalanceIdle, Sleep, memVars, AtRest, MasterKind
  <2> QED
    BY <1>1, <2>1, StatsKinds, CopyKinds, SwitchKinds DEF Balance, BalancerStep, MasterKind
<1>2. CASE WakeUp
  BY <1>0, <1>2, RestKind DEF WakeUp, Wake, memVars, AtRest, MasterKind
<1>3. CASE KillMaster
  BY <1>3 DEF KillMaster, MasterCrash, Spend, Died, MasterKind
<1>4. CASE Migrate
  <2>1. PICK m \in Moves(tablets) :
           LET t == tablets[m[1]]
           IN  IF t.node_id = m[2] \/ conn[m[2]] = "none"
               THEN Sleep /\ UNCHANGED <<memVars, tablet_file, linkVars, budget>>
               ELSE Call(t.node_id, RangeRequest("scan", t),
                         /\ pc' = "scanWait" /\ idx' = m[1] /\ cur' = t /\ dst' = m[2]
                         /\ UNCHANGED <<todo, complete>>,
                         Sleep)
    BY <1>4 DEF Migrate, MigrateStart
  <2> DEFINE t == tablets[m[1]]
  <2>2. m[1] \in DOMAIN tablets /\ pc = "balance" /\ pc \notin WaitPc /\ pc \in AtRest
    BY <1>4 DEF Moves, Migrate, MigrateStart, WaitPc, AtRest
  <2>3. t.node_id \in DataNode
    BY <2>2, TabletFields DEF IInv, MInv, MasterTypeOK
  <2>4. CASE Sleep /\ UNCHANGED linkVars /\ UNCHANGED <<memVars, tablet_file>>
    BY <1>0, <2>2, <2>4, RestKind DEF Sleep, memVars, AtRest, MasterKind
  <2>5. CASE /\ Send(t.node_id, RangeRequest("scan", t)) /\ t.node_id # m[2]
             /\ pc' = "scanWait" /\ idx' = m[1] /\ cur' = t /\ dst' = m[2]
             /\ UNCHANGED <<memVars, tablet_file>>
    <3>1. Sending
      BY <2>2, <2>3, <2>5, SendKind DEF memVars
    <3> QED
      BY <1>4, <2>2, <2>5, <3>1 DEF AskScan, Migrate, MasterKind
  <2>6. CASE conn[t.node_id] = "broken" /\ Die
    BY <2>2, <2>3, <2>6 DEF Died, MasterKind
  <2> QED
    BY <2>1, <2>4, <2>5, <2>6 DEF Call, SendFails
<1>5. CASE StartMaster
  <2>1. /\ pc = "off" /\ pc' = "sleep" /\ \A n \in DataNode : orphans[n] = <<>>
        /\ UNCHANGED <<requests, replies, orphans>>
        /\ conn' = [n \in DataNode |-> IF n \in {l \in DataNode : alive[l]} THEN "open" ELSE "none"]
    BY <1>0, <1>5 DEF StartMaster, MasterStart
  <2>2. AllSilent'
    BY <2>1, RestIsSilent DEF WaitPc, AllSilent, Silent
  <2>3. /\ tablet_file'.state = "good" /\ tablet_file'.tablets = tablets'
        /\ DurableTable' = DurableTable
    <3>1. CASE LoadTablets /\ UNCHANGED <<tablet_file, budget>>
      BY <3>1 DEF LoadTablets, DurableTable
    <3>2. CASE tablet_file.state # "good" /\ BuildInitialTablets /\ SaveTablets
      BY <1>0, <3>2 DEF BuildInitialTablets, SaveTablets, Spend, TabletFile, DurableTable
    <3> QED
      BY <1>5, <3>1, <3>2 DEF StartMaster, MasterStart
  <2> QED
    BY <2>1, <2>2, <2>3 DEF Started, MasterKind
<1> QED
  BY <1>1, <1>2, <1>3, <1>4, <1>5

-----------------------------------------------------------------------------
(* RouteInv is kept                                                        *)

\* What the kinds need to know of the program points.
LEMMA PcFacts ==
    /\ \A p \in AtRest : /\ p \notin WaitPc \cup MigrationPc /\ p \notin {"off", "flipSave"}
                         /\ p \notin {"transfer", "putWait", "scanWait"}
    /\ "off" \notin WaitPc \cup MigrationPc
    /\ {"syncWait", "splitWait"} \cap MigrationPc = {}
    /\ {"syncWait", "splitWait", "scanWait"} \subseteq WaitPc
    /\ {"syncWait", "splitWait", "scanWait", "transfer", "putWait"} \cap FlippedPc = {}
    /\ {"scanWait", "transfer", "putWait", "flipSave", "delRange", "delWait"} = MigrationPc
    /\ FlippedPc \subseteq MigrationPc
  BY DEF AtRest, WaitPc, MigrationPc, FlippedPc

\* Streams that are empty, or kept, hold only pairs of the range asked for.
LEMMA RepliesKept ==
    ASSUME PairsOK, AllSilent' \/ UNCHANGED replies
    PROVE  \A n \in DataNode : \A i \in DOMAIN replies'[n] : \A k \in Key :
              replies'[n][i].pairs[k] # NoValue =>
                  InRange(k, replies'[n][i].req.start, replies'[n][i].req.end)
<1>1. CASE AllSilent'
  BY <1>1 DEF AllSilent, Silent
<1>2. CASE UNCHANGED replies
  BY <1>2 DEF PairsOK
<1> QED
  BY <1>1, <1>2

\* A living Master meets no orphans.
LEMMA OrphansKept ==
    ASSUME OrphansOK, \A n \in DataNode : pc # "off" \/ orphans[n] = <<>>, UNCHANGED orphans
    PROVE  OrphansOK'
<1>1. \A n \in DataNode : orphans'[n] = <<>>
  BY DEF OrphansOK
<1> QED
  BY <1>1 DEF OrphansOK

\* Steps in which the tables stay and the balancer neither switches a route
\* nor saves one.
LEMMA DurableKept ==
    ASSUME DurableOK, pc # "off", pc # "flipSave", pc' # "flipSave", RoutesKept
    PROVE  DurableOK'
  BY DEF DurableOK, RoutesKept

\* The request under way touches keys of the tablet being moved only, at the
\* node that does not own them: the destination of the PUTs before the switch,
\* the source of the DELETE_RANGE after it has been saved.
LEMMA TouchOwner ==
    ASSUME IInv, RouteInv, pc \in WaitPc, NEW q, AwaitedRequest(q), NEW k \in Key,
           Touches(q, k)
    PROVE  /\ InCur(k) /\ MemNode(k) # Target /\ DurableNode(k) # Target
           /\ \/ pc = "putWait" /\ NextPair(k) /\ q = PutRequest(k, todo[k])
                                /\ MemNode(k) = cur.node_id
              \/ pc = "delWait" /\ q = RangeRequest("delrange", cur) /\ MemNode(k) = dst
<1> USE DEF RouteInv
<1>1. CASE pc = "putWait"
  <2>1. PICK j \in Key : NextPair(j) /\ q = PutRequest(j, todo[j])
    BY <1>1 DEF AwaitedRequest
  <2>2. k = j /\ todo[k] # NoValue
    BY <2>1 DEF PutRequest, NextPair, Touches
  <2>3. InCur(k)
    BY <1>1, <2>2 DEF PairsOK
  <2>4. MemNode(k) = cur.node_id /\ dst # cur.node_id
    BY <1>1, <2>3, CurRoute, PcFacts DEF CurOK
  <2>5. DurableNode(k) = MemNode(k)
    BY <1>1 DEF DurableOK
  <2> QED
    BY <1>1, <2>1, <2>2, <2>3, <2>4, <2>5 DEF Target
<1>2. CASE pc = "delWait"
  <2>1. q = RangeRequest("delrange", cur)
    BY <1>2 DEF AwaitedRequest
  <2>2. InCur(k)
    BY <2>1 DEF RangeRequest, InCur, Touches
  <2>3. MemNode(k) = dst /\ dst # cur.node_id
    BY <1>2, <2>2, CurRoute, PcFacts DEF CurOK, FlippedPc
  <2>4. DurableNode(k) = MemNode(k)
    BY <1>2 DEF DurableOK
  <2> QED
    BY <1>2, <2>1, <2>2, <2>3, <2>4 DEF Target
<1>3. CASE pc \notin {"putWait", "delWait"}
  <2>1. q.op \in {"stats", "scan"}
    BY <1>3 DEF AwaitedRequest, RangeRequest
  <2> QED
    BY <2>1 DEF Touches
<1> QED
  BY <1>1, <1>2, <1>3

\* A dead Master leaves behind at most one request, to a node that does not
\* own the keys it touches.
LEMMA DieRoute ==
    ASSUME IInv, IInv', LinkInv, RouteInv, budget'.save_faults = 0, Die
    PROVE  RouteInv'
<1> USE DEF RouteInv
<1>1. /\ pc' = "off" /\ AllSilent' /\ tablet_file' = tablet_file
      /\ \A n \in DataNode : orphans'[n] = orphans[n] \o requests[n]
  BY DieSilent DEF Die, DropConnections
<1>2. CurOK' /\ DurableOK'
  BY <1>1, PcFacts DEF CurOK, DurableOK
<1>3. PairsOK'
  BY <1>1, RepliesKept DEF PairsOK
<1>4. \A k : DurableNode(k)' = DurableNode(k)
  BY <1>1 DEF DurableNode, DurableTable
<1>5. ASSUME NEW n \in DataNode, NEW i \in DOMAIN orphans'[n]
      PROVE  Harmless(orphans[n][i], n)'
  <2>0. orphans[n] \in Seq(Request) /\ requests[n] \in Seq(Request)
    BY DEF IInv, LinkTypeOK
  <2>1. CASE pc = "off"
    <3>1. requests[n] = <<>>
      BY <2>1, PcFacts DEF LinkInv, Silent
    <3>2. orphans'[n] = orphans[n]
      BY <1>1, <2>0, <3>1, ConcatEmptySeq
    <3>3. Harmless(orphans[n][i], n)
      BY <1>5, <3>2 DEF OrphansOK
    <3> QED
      BY <1>4, <3>2, <3>3 DEF Harmless
  <2>2. CASE pc # "off"
    <3>1. orphans[n] = <<>>
      BY <2>2 DEF OrphansOK
    <3>2. orphans'[n] = requests[n]
      BY <1>1, <2>0, <3>1, ConcatEmptySeq
    <3>3. requests[n] # <<>>
      BY <1>5, <3>2
    <3>4. pc \in WaitPc /\ n = Target
      BY <3>3 DEF LinkInv, Silent
    <3>5. Len(requests[n]) = 1 /\ AwaitedRequest(Head(requests[n]))
      BY <3>3, <3>4 DEF LinkInv, OneFrame, Silent
    <3>6. PICK q \in Request : q = Head(requests[n]) /\ q = orphans'[n][i]
      BY <1>5, <2>0, <3>2, <3>5, OneElement
    <3>7. Harmless(q, n)
      BY <3>4, <3>5, <3>6, TouchOwner DEF Harmless, Touches
    <3> QED
      BY <1>4, <3>6, <3>7 DEF Harmless
  <2> QED
    BY <2>1, <2>2
<1>6. OrphansOK'
  BY <1>1, <1>5 DEF OrphansOK
<1> QED
  BY <1>2, <1>3, <1>6

\* One case per kind of step of the Master.
LEMMA MasterRoute ==
    ASSUME IInv, IInv', LinkInv, RouteInv, budget'.save_faults = 0, MasterKind
    PROVE  RouteInv'
<1> USE DEF RouteInv
<1>1. CASE ToRest
  <2>1. pc # "off" /\ pc # "flipSave" /\ pc' \in AtRest
    BY <1>1, PcFacts DEF ToRest
  <2>2. CurOK'
    BY <2>1, PcFacts DEF CurOK
  <2>3. DurableOK'
    BY <1>1, <2>1, PcFacts, DurableKept DEF ToRest
  <2>4. OrphansOK' /\ PairsOK'
    BY <1>1, <2>1, PcFacts, OrphansKept, RepliesKept DEF ToRest, PairsOK
  <2> QED
    BY <2>2, <2>3, <2>4
<1>2. CASE Sending /\ pc \notin {"off", "flipSave"} /\ pc' \notin {"off", "flipSave"}
           /\ CurOK' /\ (pc' = "putWait" => pc = "transfer" /\ UNCHANGED localVars)
           /\ pc' # "transfer"
  <2>1. DurableOK'
    BY <1>2, KeptTables, DurableKept DEF Sending
  <2>2. OrphansOK'
    BY <1>2, OrphansKept DEF Sending
  <2>3. PairsOK'
    BY <1>2, RepliesKept DEF Sending, PairsOK, localVars, InCur
  <2> QED
    BY <1>2, <2>1, <2>2, <2>3
<1>3. CASE AskStats
  <2>1. CurOK' /\ pc \notin {"off", "flipSave"}
    BY <1>3, PcFacts DEF AskStats, Sending, CurOK
  <2> QED
    BY <1>2, <1>3, <2>1 DEF AskStats
<1>4. CASE AskScan
  <2>1. CurOK'
    BY <1>4, PcFacts DEF AskScan, Sending, CurOK
  <2> QED
    BY <1>2, <1>4, <2>1 DEF AskScan
<1>5. CASE AskPut
  <2>1. CurOK'
    BY <1>5, PcFacts DEF AskPut, Sending, CurOK, localVars
  <2> QED
    BY <1>2, <1>5, <2>1 DEF AskPut
<1>6. CASE AskDelete
  <2>1. CurOK'
    BY <1>6, PcFacts DEF AskDelete, Sending, CurOK, localVars, FlippedPc
  <2> QED
    BY <1>2, <1>6, <2>1 DEF AskDelete
<1>7. CASE TakeScan \/ TakePut
  <2>1. /\ pc \in {"scanWait", "transfer", "putWait"} /\ pc' = "transfer" /\ AllSilent'
        /\ UNCHANGED <<tablets, tablet_file, orphans, idx, cur, dst>>
    BY <1>7 DEF TakeScan, TakePut
  <2>2. CurOK'
    BY <2>1, PcFacts DEF CurOK
  <2>3. DurableOK'
    BY <2>1, KeptTables, DurableKept
  <2>4. OrphansOK'
    BY <2>1, OrphansKept
  <2>5. ASSUME NEW k \in Key, todo'[k] # NoValue PROVE InCur(k)
    <3>1. CASE TakeScan
      <4> DEFINE r == Head(replies[cur.node_id])
      <4>1. /\ r.req = RangeRequest("scan", cur) /\ r.pairs[k] # NoValue
            /\ replies[cur.node_id] # <<>> /\ cur.node_id \in DataNode
        <5>1. pc \in WaitPc /\ Target = cur.node_id
          BY <3>1 DEF TakeScan, WaitPc, Target
        <5> QED
          BY <2>5, <3>1, <5>1, TargetType DEF TakeScan
      <4>2. 1 \in DOMAIN replies[cur.node_id] /\ replies[cur.node_id][1] = r
        BY <4>1 DEF IInv, LinkTypeOK
      <4>3. InRange(k, r.req.start, r.req.end)
        BY <4>1, <4>2 DEF PairsOK
      <4> QED
        BY <4>1, <4>3 DEF RangeRequest, InCur
    <3>2. CASE TakePut
      <4>1. todo[k] # NoValue
        BY <2>5, <3>2 DEF TakePut, IInv, MInv, MasterTypeOK, Db
      <4> QED
        BY <3>2, <4>1 DEF TakePut, PairsOK
    <3> QED
      BY <1>7, <3>1, <3>2
  <2>6. PairsOK'
    BY <2>1, <2>5, RepliesKept DEF PairsOK, InCur
  <2> QED
    BY <2>2, <2>3, <2>4, <2>6
<1>8. CASE SwitchRoute
  <2>0. /\ idx \in DOMAIN tablets /\ tablets \in Seq(Tablet) /\ cur \in Tablet /\ dst \in DataNode
    BY <1>8, PcFacts DEF SwitchRoute, IInv, MInv, MasterTypeOK, LocalsOK
  <2>1. CurOK'
    <3>1. /\ tablets'[idx].id = tablets[idx].id
          /\ tablets'[idx].start_key = tablets[idx].start_key
          /\ tablets'[idx].end_key = tablets[idx].end_key
          /\ tablets'[idx].node_id = dst
      <4>1. tablets[idx] \in Tablet
        BY <2>0
      <4> QED
        BY <1>8, <2>0, <4>1 DEF SwitchRoute, Tablet
    <3> QED
      BY <1>8, <3>1, PcFacts DEF SwitchRoute, CurOK, localVars, FlippedPc
  <2>2. DurableOK'
    <3>1. ASSUME NEW k \in Key
          PROVE  DurableNode(k)' = IF InCur(k) THEN cur.node_id ELSE MemNode(k)'
      <4>1. DurableNode(k)' = DurableNode(k) /\ DurableNode(k) = MemNode(k)
        BY <1>8 DEF SwitchRoute, DurableOK, DurableNode, DurableTable
      <4>2. InCur(k) => MemNode(k) = cur.node_id
        BY <1>8, CurRoute, PcFacts DEF SwitchRoute, CurOK
      <4> QED
        BY <1>8, <4>1, <4>2 DEF SwitchRoute
    <3> QED
      BY <1>8, <3>1 DEF SwitchRoute, DurableOK, localVars, InCur
  <2>3. OrphansOK' /\ PairsOK'
    BY <1>8, OrphansKept, RepliesKept DEF SwitchRoute, linkVars, PairsOK
  <2> QED
    BY <2>1, <2>2, <2>3
<1>9. CASE SaveRoute
  <2>1. CurOK'
    BY <1>9, PcFacts DEF SaveRoute, CurOK, localVars, FlippedPc
  <2>2. DurableOK'
    BY <1>9 DEF SaveRoute, DurableOK, DurableNode, MemNode, DurableTable
  <2>3. OrphansOK' /\ PairsOK'
    BY <1>9, OrphansKept, RepliesKept DEF SaveRoute, linkVars, PairsOK
  <2> QED
    BY <2>1, <2>2, <2>3
<1>10. CASE Died
  BY <1>10, DieRoute DEF Died
<1>11. CASE Started
  <2>1. CurOK'
    BY <1>11, PcFacts DEF Started, CurOK, AtRest
  <2>2. DurableOK'
    BY <1>11 DEF Started, DurableOK, DurableNode, MemNode, DurableTable
  <2>3. OrphansOK' /\ PairsOK'
    BY <1>11, OrphansKept, RepliesKept DEF Started, PairsOK
  <2> QED
    BY <2>1, <2>2, <2>3
<1> QED
  BY <1>1, <1>3, <1>4, <1>5, <1>6, <1>7, <1>8, <1>9, <1>10, <1>11 DEF MasterKind

\* Only a SCAN reply carries pairs, and only of the range asked for.
LEMMA HandlePairs ==
    ASSUME NEW n, NEW q, NEW k \in Key,
           HandleBinaryRequest(n, q).pairs[k] # NoValue
    PROVE  InRange(k, q.start, q.end)
<1>1. EmptyDb[k] = NoValue
  BY DEF EmptyDb
<1>2. CASE q.op = "stats"
  BY <1>1, <1>2 DEF HandleBinaryRequest, TabletStatsReply
<1>3. CASE q.op # "stats" /\ q.op = "scan" /\ n \notin NoStorage
  BY <1>3 DEF HandleBinaryRequest, ScanRangeReply, RangeQuery
<1>4. CASE q.op # "stats" /\ ~(q.op = "scan" /\ n \notin NoStorage)
  BY <1>1, <1>4 DEF HandleBinaryRequest, StatusReply
<1> QED
  BY <1>2, <1>3, <1>4

\* Steps that leave the Master alone keep what is said of its tables.
LEMMA SameRoute ==
    ASSUME RouteInv, budget'.save_faults = 0, UNCHANGED masterVars
    PROVE  /\ CurOK' /\ DurableOK' /\ pc' = pc
           /\ \A q, n : Harmless(q, n)' <=> Harmless(q, n)
           /\ pc \in {"transfer", "putWait"} =>
                 (\A k \in Key : todo[k] # NoValue => InCur(k))'
<1>1. UNCHANGED <<pc, tablets, tablet_file, idx, cur, dst, todo>>
  BY DEF masterVars, memVars, localVars
<1>2. CurOK'
  BY <1>1 DEF RouteInv, CurOK
<1>3. DurableOK' /\ \A q, n : Harmless(q, n)' <=> Harmless(q, n)
  BY <1>1, SameTables DEF RouteInv, DurableOK, InCur, Harmless
<1>4. pc \in {"transfer", "putWait"} =>
         (\A k \in Key : todo[k] # NoValue => InCur(k))'
  BY <1>1 DEF RouteInv, PairsOK, InCur
<1> QED
  BY <1>1, <1>2, <1>3, <1>4

\* A DataNode serves, discards, crashes or comes back.
LEMMA NodeRoute ==
    ASSUME IInv, IInv', LinkInv, RouteInv, budget'.timeouts = 0, budget'.save_faults = 0,
           UNCHANGED masterVars, NEW n \in DataNode,
           Serve(n) \/ ServeOrphan(n) \/ DiscardOrphans(n) \/ NodeCrash(n) \/ NodeRestart(n)
    PROVE  RouteInv'
<1>1. /\ orphans \in [DataNode -> Seq(Request)] /\ replies \in [DataNode -> Seq(Reply)]
      /\ requests \in [DataNode -> Seq(Request)]
  BY DEF IInv, LinkTypeOK
<1>2. OrphansOK'
  <2>1. \A m \in DataNode : orphans'[m] \in {orphans[m], <<>>, Tail(orphans[m])}
    BY <1>1 DEF Serve, ServeOrphan, DiscardOrphans, NodeCrash, NodeRestart, linkVars
  <2>2. ASSUME NEW m \in DataNode PROVE pc # "off" => orphans'[m] = <<>>
    <3>1. CASE ServeOrphan(n)
      BY <1>1, <3>1 DEF ServeOrphan, RouteInv, OrphansOK
    <3>2. CASE ~ServeOrphan(n)
      BY <1>1, <3>2 DEF Serve, DiscardOrphans, NodeCrash, NodeRestart, linkVars, RouteInv, OrphansOK
    <3> QED
      BY <3>1, <3>2
  <2>3. ASSUME NEW m \in DataNode, NEW i \in DOMAIN orphans'[m]
        PROVE  Harmless(orphans[m][i], m)'
    <3>1. orphans[m] \in Seq(Request)
      BY <1>1
    <3>2. \E j \in DOMAIN orphans[m] : orphans'[m][i] = orphans[m][j]
      <4>1. CASE orphans'[m] = orphans[m]
        BY <2>3, <4>1
      <4>2. CASE orphans'[m] = <<>>
        BY <2>3, <4>2
      <4>3. CASE orphans'[m] = Tail(orphans[m]) /\ orphans[m] # <<>>
        <5>1. /\ Len(orphans[m]) \in Nat \ {0} /\ Len(Tail(orphans[m])) = Len(orphans[m]) - 1
              /\ DOMAIN Tail(orphans[m]) = 1..(Len(orphans[m]) - 1)
              /\ \A l \in 1..(Len(orphans[m]) - 1) : Tail(orphans[m])[l] = orphans[m][l + 1]
          BY <3>1, <4>3
        <5>2. i + 1 \in DOMAIN orphans[m] /\ orphans'[m][i] = orphans[m][i + 1]
          BY <2>3, <3>1, <4>3, <5>1
        <5> QED
          BY <5>2
      <4>4. CASE orphans'[m] = Tail(orphans[m]) /\ orphans[m] = <<>>
        <5>1. orphans'[m] = orphans[m] \/ orphans'[m] = <<>>
          BY <1>1, <4>4 DEF Serve, ServeOrphan, DiscardOrphans, NodeCrash, NodeRestart, linkVars
        <5> QED
          BY <4>1, <4>2, <5>1
      <4> QED
        BY <2>1, <4>1, <4>2, <4>3, <4>4
    <3>3. PICK q : q = orphans'[m][i] /\ Harmless(q, m)
      BY <3>2 DEF RouteInv, OrphansOK
    <3>4. Harmless(q, m)'
      BY <3>3, SameRoute
    <3> QED
      BY <3>3, <3>4 DEF Harmless
  <2> QED
    BY <2>2, <2>3, SameRoute DEF OrphansOK
<1>3. ASSUME NEW m \in DataNode, NEW i \in DOMAIN replies'[m], NEW k \in Key,
             replies'[m][i].pairs[k] # NoValue
      PROVE  InRange(k, replies'[m][i].req.start, replies'[m][i].req.end)
  <2>1. CASE replies'[m] = replies[m]
    BY <1>3, <2>1 DEF RouteInv, PairsOK
  <2>2. CASE Serve(n) /\ m = n
    <3>1. replies[n] = <<>>
      BY <2>2, ServeLink
    <3>2. PICK q : q = Head(requests[n])
      OBVIOUS
    <3>3. PICK r : r = HandleBinaryRequest(n, q)
      OBVIOUS
    <3>4. replies'[n] = Append(<<>>, r)
      BY <1>1, <2>2, <3>1, <3>2, <3>3 DEF Serve
    <3>5. replies'[n] = <<r>>
      BY <3>4
    <3>6. replies'[m][i] = r
      BY <1>3, <2>2, <3>5
    <3> QED
      BY <1>3, <3>3, <3>6, ReplyNames, HandlePairs
  <2> QED
    BY <1>1, <2>1, <2>2 DEF Serve, ServeOrphan, DiscardOrphans, NodeCrash, NodeRestart, linkVars
<1>4. PairsOK'
  BY <1>3, SameRoute DEF PairsOK
<1> QED
  BY <1>2, <1>4, SameRoute DEF RouteInv

\* Clients and stuttering leave routes and streams alone.
LEMMA QuietRoute ==
    ASSUME RouteInv, budget'.save_faults = 0, UNCHANGED <<masterVars, linkVars>>
    PROVE  RouteInv'
<1>1. OrphansOK'
  BY SameRoute DEF RouteInv, OrphansOK, linkVars, Harmless
<1>2. PairsOK'
  BY SameRoute DEF RouteInv, PairsOK, linkVars
<1> QED
  BY <1>1, <1>2, SameRoute DEF RouteInv

\* Every step keeps RouteInv.
LEMMA RouteNext == IInv /\ IInv' /\ LinkInv /\ RouteInv /\ [Next]_vars => RouteInv'
<1> SUFFICES ASSUME IInv, IInv', LinkInv, RouteInv, [Next]_vars PROVE RouteInv'
  OBVIOUS
<1>0. budget'.timeouts = 0 /\ budget'.save_faults = 0
  BY NoNewFaults DEF IInv, LinkInv, RouteInv
<1>1. CASE StartMaster \/ WakeUp \/ Balance \/ Migrate \/ KillMaster
  BY <1>0, <1>1, MasterKinds, MasterRoute
<1>2. ASSUME NEW n \in DataNode,
             \/ ServeNode(n) \/ ServeOrphanOf(n) \/ DiscardOrphansOf(n)
             \/ KillNode(n) \/ StartNode(n)
      PROVE  RouteInv'
  BY <1>0, <1>2, NodeRoute
     DEF ServeNode, ServeOrphanOf, DiscardOrphansOf, KillNode, StartNode
<1>3. ASSUME NEW c \in Client, ClientRoute(c) \/ ClientExecute(c) \/ ClientFail(c)
      PROVE  RouteInv'
  BY <1>0, <1>3, QuietRoute DEF ClientRoute, ClientExecute, ClientFail
<1>4. CASE UNCHANGED vars
  BY <1>0, <1>4, QuietRoute DEF vars
<1> QED
  BY <1>1, <1>2, <1>3, <1>4 DEF Next

\* Saves succeed, no reply times out, and no request outlives its Master's
\* successor.
GoodRun == MaxTimeouts = 0 /\ MaxSaveFaults = 0 /\ ~LateRequests

\* The initial state satisfies RouteInv.
LEMMA RouteInit == GoodRun /\ Init => RouteInv
<1> SUFFICES ASSUME GoodRun, Init PROVE RouteInv
  OBVIOUS
<1>1. pc = "off" /\ budget.save_faults = 0 /\ ~LateRequests
  BY DEF GoodRun, Init, MasterInit
<1>2. CurOK /\ DurableOK
  BY <1>1, PcFacts DEF CurOK, DurableOK
<1>3. OrphansOK /\ PairsOK
  BY <1>1 DEF Init, LinkInit, OrphansOK, PairsOK
<1> QED
  BY <1>1, <1>2, <1>3 DEF RouteInv

\* RouteInv holds in every state of a run without timeouts and failed saves.
LEMMA RouteAlways == GoodRun /\ Spec => []RouteInv
<1>1. GoodRun => MaxTimeouts = 0
  BY DEF GoodRun
<1> QED
  BY <1>1, RouteInit, RouteNext, InductiveInvariant, LinkAlways, PTL DEF Spec

\* A DELETE_RANGE is under way only at a node that the saved table no longer
\* routes its keys to, whenever the Master or a DataNode crashes: the source
\* is cleaned after the new route is durable, and only of what was moved.
THEOREM DeletesDurableAlways == GoodRun /\ Spec => []DeletesAreDurable
<1>1. IInv /\ LinkInv /\ RouteInv => DeletesAreDurable
  <2> SUFFICES ASSUME IInv, LinkInv, RouteInv, NEW n \in DataNode,
                      NEW s \in {requests[n], orphans[n]}, NEW i \in DOMAIN s,
                      s[i].op = "delrange", NEW k \in Key, InRange(k, s[i].start, s[i].end)
               PROVE  DurableNode(k) # n
    BY DEF DeletesAreDurable, DurableNode
  <2>1. CASE s = orphans[n]
    BY <2>1 DEF RouteInv, OrphansOK, Harmless, Touches
  <2>2. CASE s = requests[n]
    <3>0. requests[n] \in Seq(Request) /\ requests[n] # <<>>
      BY <2>2 DEF IInv, LinkTypeOK
    <3>1. pc \in WaitPc /\ n = Target
      BY <3>0 DEF LinkInv, Silent
    <3>2. Len(requests[n]) = 1 /\ AwaitedRequest(Head(requests[n]))
      BY <3>0, <3>1 DEF LinkInv, OneFrame, Silent
    <3>3. s[i] = Head(requests[n])
      BY <2>2, <3>0, <3>2, OneElement
    <3> QED
      BY <3>1, <3>2, <3>3, TouchOwner DEF Touches
  <2> QED
    BY <2>1, <2>2
<1>2. GoodRun => MaxTimeouts = 0
  BY DEF GoodRun
<1> QED
  BY <1>1, <1>2, InductiveInvariant, LinkAlways, RouteAlways, PTL
=============================================================================
