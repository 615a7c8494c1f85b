------------------------------ MODULE Cluster ------------------------------
(***************************************************************************)
(* LeKV as a whole: one Master, its DataNodes and the clients, which ask   *)
(* the Master for the routing table before every command and then talk to  *)
(* the DataNode directly (lekv_cli.cpp).                                   *)
(***************************************************************************)
EXTENDS Master, DataNode

CONSTANTS
    Client,             \* client processes
    ClientWindow,       \* when clients run commands, see below
    LateRequests,       \* may a dead Master's requests outlive its successor's start
    MaxOps,             \* bound on client commands
    MaxTimeouts,        \* bound on RecvFrame timeouts of the Master
    MaxMasterCrashes,   \* bound on spontaneous Master crashes
    MaxNodeCrashes,     \* bound on DataNode crashes
    MaxSaveFaults       \* bound on failed writes of tablets.json

(***************************************************************************)
(* The code has no coordination between clients and migrations; the        *)
(* workload decides whether they overlap.                                  *)
(*   "asleep"      commands run only while the balancer sleeps             *)
(*   "noMigration" commands run at any time except during a migration      *)
(*   "always"      commands run at any time                                *)
(***************************************************************************)
ASSUME ClusterAssumption ==
    /\ ClientWindow \in {"asleep", "noMigration", "always"}
    /\ LateRequests \in BOOLEAN
    /\ {MaxOps, MaxTimeouts, MaxMasterCrashes, MaxNodeCrashes, MaxSaveFaults} \subseteq Nat

VARIABLES
    client,   \* client[c]: the command c has routed and not yet finished
    latest    \* history: the value of the last PUT (NoValue: DELETE) per key

vars == <<masterVars, linkVars, nodeVars, budget, client, latest>>

Command == [op : {"idle", "put", "get", "delete"}, key : Bound,
            val : Value \cup {NoValue}, node : DataNode \cup {0}]
Idle == [op |-> "idle", key |-> Empty, val |-> NoValue, node |-> 0]

NoCommand == \A c \in Client : client[c] = Idle

InWindow ==
    CASE ClientWindow = "asleep" -> pc \in {"off", "sleep"}
      [] ClientWindow = "noMigration" -> pc \notin MigrationPc
      [] OTHER -> TRUE

(***************************************************************************)
(* Clients                                                                 *)
(***************************************************************************)
\* Execute: FetchRouteTable from the Master, then FindRoute.
ClientRoute(c) ==
    /\ client[c] = Idle
    /\ pc # "off"
    /\ InWindow
    /\ Spend("ops")
    /\ \E op \in {"put", "get", "delete"}, k \in Key, v \in Value :
          /\ HasRoute(tablets, k)
          /\ client' = [client EXCEPT ![c] =
                [op |-> op, key |-> k, val |-> IF op = "put" THEN v ELSE NoValue,
                 node |-> GetTabletRoute(tablets, k).node_id]]
    /\ UNCHANGED <<masterVars, linkVars, nodeVars, latest>>

\* A slip: the client may send a PUT again that was answered.
ClientExecuteAgain(c) ==
    LET cmd == client[c]
    IN  /\ cmd.op = "put" /\ InWindow /\ alive[cmd.node]
        /\ db' = [db EXCEPT ![cmd.node] = Put(@, cmd.key, cmd.val)]
        /\ latest' = [latest EXCEPT ![cmd.key] = cmd.val]
        /\ \E left \in {cmd, Idle} : client' = [client EXCEPT ![c] = left]
        /\ UNCHANGED <<masterVars, linkVars, alive, budget>>

\* DoDataNodeRequest, served by HandleDataNodePut, -Get or -Delete.
ClientExecute(c) ==
    LET cmd == client[c]
    IN  /\ cmd # Idle
        /\ InWindow
        /\ alive[cmd.node]
        /\ IF cmd.op = "get" \/ cmd.node \in NoStorage
           THEN UNCHANGED <<db, latest>>
           ELSE /\ db' = [db EXCEPT ![cmd.node] =
                            IF cmd.op = "put" THEN Put(@, cmd.key, cmd.val)
                                              ELSE Delete(@, cmd.key)]
                /\ latest' = [latest EXCEPT ![cmd.key] = cmd.val]
        /\ client' = [client EXCEPT ![c] = Idle]
        /\ UNCHANGED <<masterVars, linkVars, alive, budget>>

\* The DataNode is down: the command fails.
ClientFail(c) ==
    /\ client[c] # Idle
    /\ ~alive[client[c].node]
    /\ client' = [client EXCEPT ![c] = Idle]
    /\ UNCHANGED <<masterVars, linkVars, nodeVars, budget, latest>>

(***************************************************************************)
(* The composition                                                         *)
(***************************************************************************)
envVars == <<client, latest>>

StartMaster ==
    /\ LateRequests \/ \A n \in DataNode : orphans[n] = <<>>
    /\ MasterStart({n \in DataNode : alive[n]})
    /\ UNCHANGED <<nodeVars, envVars>>

WakeUp ==
    /\ ClientWindow = "asleep" => NoCommand
    /\ Wake
    /\ UNCHANGED <<nodeVars, envVars>>

Migrate ==
    /\ ClientWindow # "always" => NoCommand
    /\ MigrateStart
    /\ UNCHANGED <<nodeVars, envVars>>

Balance == BalancerStep /\ UNCHANGED <<nodeVars, envVars>>

KillMaster == MasterCrash /\ UNCHANGED <<nodeVars, envVars>>

ServeNode(n) == Serve(n) /\ UNCHANGED <<masterVars, budget, envVars>>
ServeOrphanOf(n) == ServeOrphan(n) /\ UNCHANGED <<masterVars, budget, envVars>>
DiscardOrphansOf(n) == DiscardOrphans(n) /\ UNCHANGED <<masterVars, budget, envVars>>
KillNode(n) == NodeCrash(n) /\ UNCHANGED <<masterVars, envVars>>
StartNode(n) == NodeRestart(n) /\ UNCHANGED <<masterVars, envVars>>

Next ==
    \/ StartMaster \/ WakeUp \/ Balance \/ Migrate \/ KillMaster
    \/ \E n \in DataNode : \/ ServeNode(n) \/ ServeOrphanOf(n) \/ DiscardOrphansOf(n)
                           \/ KillNode(n) \/ StartNode(n)
    \/ \E c \in Client : ClientRoute(c) \/ ClientExecute(c) \/ ClientFail(c)

Init ==
    /\ MasterInit
    /\ LinkInit
    /\ NodeInit
    /\ budget = [ops |-> MaxOps, timeouts |-> MaxTimeouts,
                 master_crashes |-> MaxMasterCrashes, node_crashes |-> MaxNodeCrashes,
                 save_faults |-> MaxSaveFaults]
    /\ client = [c \in Client |-> Idle]
    /\ latest = EmptyDb

Spec == Init /\ [][Next]_vars

(***************************************************************************)
(* Fairness: the process supervisor starts the Master, the balancer thread *)
(* and the DataNodes' worker threads are scheduled, clients finish their   *)
(* commands.  Nothing obliges clients to issue commands or faults to occur.*)
(***************************************************************************)
Fairness ==
    /\ WF_vars(StartMaster) /\ WF_vars(WakeUp) /\ WF_vars(Balance) /\ WF_vars(Migrate)
    /\ \A n \in DataNode :
          /\ WF_vars(ServeNode(n))
          /\ WF_vars(ServeOrphanOf(n) \/ DiscardOrphansOf(n))
          /\ WF_vars(StartNode(n))
    /\ \A c \in Client : WF_vars(ClientExecute(c)) /\ WF_vars(ClientFail(c))

FairSpec == Spec /\ Fairness

-----------------------------------------------------------------------------
(***************************************************************************)
(* Properties                                                              *)
(***************************************************************************)
\* Every variable of the cluster has its type.
TypeOK ==
    /\ MasterTypeOK
    /\ LinkTypeOK
    /\ NodeTypeOK
    /\ budget \in [ops : Nat, timeouts : Nat, master_crashes : Nat,
                   node_crashes : Nat, save_faults : Nat]
    /\ client \in [Client -> Command]
    /\ latest \in Db

\* The table a Master started now would use, and the table in force.
DurableTable ==
    IF tablet_file.state = "good" THEN tablet_file.tablets ELSE InitialTablets
RoutingTable == IF pc = "off" THEN DurableTable ELSE tablets

Owner(k) == GetTabletRoute(RoutingTable, k).node_id

\* Every key belongs to exactly one tablet of the table in force and of the
\* one on disk, whatever replies TrySplitTablet got and wherever the Master
\* died: late, misread or missing STATS replies never tear the key space.
TabletsPartition == IsPartition(RoutingTable) /\ IsPartition(DurableTable)

\* Tablet ids are never given out twice within a table, although
\* next_tablet_id_ and tablets_ are saved and reloaded separately from the
\* steps that change them (TrySplitTablet's "tablets_[idx].id != old_t.id").
TabletIdsUnique ==
    /\ pc # "off" => UniqueIds(tablets, next_tablet_id)
    /\ tablet_file.state = "good" => UniqueIds(tablet_file.tablets, tablet_file.next)

\* The owner of a key holds the last value written (and nothing after a
\* DELETE) at every moment, in the middle of a migration too.
OwnerHoldsLatest == \A k \in Key : db[Owner(k)][k] = latest[k]

\* To its clients the cluster is one map: every command takes effect once, at
\* the moment its DataNode executes it, and a waiting GET sees what the map
\* holds; fetching the table, synchronising, splitting and every step of a
\* migration leave the map alone.
OwnedStore == [k \in Key |-> db[Owner(k)][k]]
Pending ==
    [c \in Client |-> [op |-> client[c].op, key |-> client[c].key, val |-> client[c].val]]
NodeAnswer ==
    [c \in Client |-> IF client[c].op = "get" THEN db[client[c].node][client[c].key]
                                             ELSE NoValue]

Abstract == INSTANCE KVStore WITH NoKey <- Empty, store <- OwnedStore,
                                  pending <- Pending, answer <- NodeAnswer

ImplementsKVStore == Abstract!KVSpec

\* A value that was PUT and not deleted is on the node the table routes to.
PutsSurvive ==
    \A k \in Key : latest[k] # NoValue => db[Owner(k)][k] = latest[k]

\* Between two passes of the balancer a node stores keys of its own tablets
\* only: MigrateTablet cleans up what it moved.
NoStrayData ==
    pc = "sleep" => \A n \in DataNode, k \in Key : db[n][k] # NoValue => Owner(k) = n

\* DoLoadBalance decides on exact key counts: the synchronised ones, and the
\* halves TrySplitTablet computes without asking again.
CountsExact ==
    pc = "balance" =>
        \A i \in DOMAIN tablets :
            tablets[i].key_count =
                RangeCount(db[tablets[i].node_id], tablets[i].start_key, tablets[i].end_key)

\* A DELETE_RANGE under way at a node covers only keys that the saved table
\* routes elsewhere (raft_node.cpp:332, "after the routing table was updated
\* successfully, delete the old data on the source node").
DeletesAreDurable ==
    \A n \in DataNode : \A s \in {requests[n], orphans[n]} : \A i \in DOMAIN s :
        s[i].op = "delrange" =>
            \A k \in Key : InRange(k, s[i].start, s[i].end) =>
                GetTabletRoute(DurableTable, k).node_id # n

\* The DataNode the balancer waits for, and the request it waits to have
\* answered.
Target == IF pc = "putWait" THEN dst ELSE cur.node_id

AwaitedRequest(req) ==
    IF pc = "putWait"
    THEN \E k \in Key : NextPair(k) /\ req = PutRequest(k, todo[k])
    ELSE req = RangeRequest(CASE pc = "scanWait" -> "scan"
                              [] pc = "delWait" -> "delrange"
                              [] OTHER -> "stats", cur)

\* How many replies the Master has given up, and the youngest request whose
\* reply it has not taken.
Late == MaxTimeouts - budget.timeouts
LastAsked(n) ==
    IF requests[n] # <<>> THEN requests[n][Len(requests[n])]
                          ELSE replies[n][Len(replies[n])].req

\* A reply that comes after its RecvFrame gave up shifts the replies of that
\* connection, as the Master compares no ids; every timeout shifts them by one
\* frame and nothing else does, neither crashes nor lost requests.  At most as
\* many frames as there were timeouts come before the awaited one, which is the
\* last on an open connection, and between two calls no others are left.
ReplyShift ==
    \A n \in DataNode :
        LET frames == Len(replies[n]) + Len(requests[n])
        IN  IF pc \in WaitPc /\ n = Target
            THEN /\ frames <= Late + 1
                 /\ conn[n] = "open" \/ frames = Late + 1 =>
                        frames > 0 /\ AwaitedRequest(LastAsked(n))
            ELSE frames <= Late

\* Once clients stop writing, the numbers of keys the DataNodes own come to
\* differ by less than BALANCE_DIFF_THRESHOLD for good: splitting and moving
\* neither gets stuck nor goes on for ever.
OwnedKeys(n) == {k \in Key : latest[k] # NoValue /\ Owner(k) = n}

LoadsEven ==
    \A n, m \in DataNode :
        Cardinality(OwnedKeys(n)) - Cardinality(OwnedKeys(m)) < BALANCE_DIFF_THRESHOLD

EventuallyBalanced == <>[]LoadsEven
=============================================================================
