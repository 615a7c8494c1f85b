# LeKV in TLA+

LeKV is a small sharded key-value store. One **Master** keeps a routing table
that cuts the key space into *tablets*; **DataNodes** store the keys in LevelDB;
a **client** fetches the routing table from the Master before every command and
then talks to the DataNode that owns the key. A balancer thread in the Master
splits large tablets and moves tablets from the most to the least loaded node.
Despite its name, `RaftNode` contains no Raft: there is one copy of every key,
and correctness rests on the Master's migrations.

This directory models the routing table, the balancer with every message it
exchanges, the DataNodes, the clients and how they fetch their routes, the faults
they meet, the threads of a node and how it stops, and the logger's lock-free queue;
checks them with TLC on small instances; and proves with TLAPS, for all instances,
that the routing table is never torn, that a lookup is right, that when nothing fails the cluster is
one map to its clients, that a client gets a fresh table, that the queue is a FIFO and
that a node's threads never lose hold of their descriptors.

## 1. The system

| part | state | operations | interacts through |
|---|---|---|---|
| Master, routing table (`kv/raft_node.cpp`) | `tablets_`, `next_tablet_id_`, `epoch_` | build, look up, split, re-route | read by request handlers, changed by the balancer, saved to `tablets.json` |
| Master, balancer thread | loop index, copy of a tablet, scanned pairs | `SyncAllTabletStats`, `TrySplitTablet`, `DoLoadBalance`, `MigrateTablet` | blocking RPCs over one connection per DataNode |
| Master, persistence | `tablets.json` | `SaveTablets`, `LoadTablets` | file, read once at start-up |
| RPC connection (`rpc/rpc_client.cpp`) | socket, receive buffer | `Connect`, `Send`, `RecvFrame`, `Close` | one TCP stream; never re-opened by the Master, once per failed command by the client |
| DataNode handlers (`kv/raft_node.cpp`) | none | PUT, GET, DELETE, TABLET_STATS, SCAN_RANGE, DELETE_RANGE | called by the thread of each connection |
| StorageEngine (`storage/`) | LevelDB, a mutex | `Put`, `Get`, `Delete`, `RangeQuery`, `RangeStats`, `DeleteRange` | called by the handlers |
| Client (`lekv_cli.cpp`) | connection to the Master | `FetchRouteTable`, `FindRoute`, `DoDataNodeRequest` | SHARDS to the Master, commands to DataNodes |
| RpcServer (`rpc/rpc_server.cpp`) | `client_fds_`, `running_`, accept and worker threads | `ServerStart`, `AcceptLoop`, `HandleClient`, `Stop` | shares descriptor numbers with LevelDB and `SaveTablets` |
| Node life cycle (`lekv.cpp`, `Run`, `Stop`) | `running_`, `balancer_running_`, `g_stop` | start, SIGINT, stop | joins all threads, then closes what they use |
| Logger queue (`logger/`) | two positions, a ring buffer | `prepare_write`, `commit_write`, `peek`, `consume` | lock-free; no caller in the server yet |

What is hard here, and what must hold:

- **Migration** is scan, copy, switch the route, save it, delete the source: five
  steps on three machines with clients in between. At every moment the node a key
  is routed to must hold the key's last value.
- **Replies are matched by position, not by id.** A reply that comes after its
  timeout is taken for the answer to the next request. A misread STATS reply must
  not produce a table that loses or duplicates keys.
- **Crashes.** The Master restarts from `tablets.json`; a DataNode restarts with its
  LevelDB but loses its connection to the Master, for good. What is deleted must
  already be routed elsewhere by the *saved* table.
- **Balancing** acts on counts that were read earlier, and must come to rest.
- **The logger's queue** has no lock: two threads copy bytes into and out of one ring
  buffer and only two positions keep them apart.
- **Fetching routes.** The worker that answers SHARDS walks the table without a lock
  while the balancer changes it. The client retries once on a new connection, with the
  old receive buffer; a stale reply or a frame in two halves must not become a table.
- **Stopping.** SIGINT finds threads anywhere: accepting, in `recv`, in a handler, in a
  pass of the balancer. `Stop` closes descriptors that others still hold, joins everyone
  and releases what they used, in an order that must neither hang nor pull anything away.
- **Lookup** is a binary search over half-open ranges whose last end is the empty
  string.

`PROJECT.json` lists these hazards at the lines where they bite.

## 2. The modules

| module | models | main correspondence |
|---|---|---|
| `KeyRange` | key order and half-open ranges | keys are `1..MaxKey`; the empty string is 0: below every key as a start, "no bound" as an end |
| `StorageEngine` | `storage_engine.cpp` | a database is a function from keys to values; one operator per method |
| `TabletTable` | `tablets_` and what is computed from it | `InitialTablets`, `FindTabletIndex`, `SplitTablet`, `Moves` (the decision of `DoLoadBalance`) |
| `MasterLink` | `RpcClient` as the Master uses it | FIFO `requests` and `replies` per DataNode; `conn` is open, closed (FIN seen), broken (RST seen) or none |
| `DataNode` | the handlers, crash and restart | `Serve` is one iteration of `BinaryRpcServer::HandleClient`; `CrashEffects` is a death inside a handler |
| `Master` | constructor, balancer thread, persistence | one action per visible step: send, reply, timeout, change of the table, save |
| `Cluster` | Master, DataNodes and clients together | `Next`, fairness and the properties |
| `MCCluster` | instances for TLC | symmetry of values and clients |
| `TabletSearch`, `MCTabletSearch` | the loop of `FindTabletIndex` / `GetTabletRoute` and of the client's `FindRoute` | one action per probe |
| `RouteFetch` | `FetchRouteTable`, `SendAndRecv`, `RpcClient` with its buffer, `HandleMasterShards` entry by entry, what the balancer does to `tablets_` meanwhile | a reply is a header cell and one cell per segment; `recv` takes any number of cells; a segment is its parts between colons |
| `RpcServer` | accept thread, workers, `Stop`, descriptor table | one action per system call or critical section |
| `NodeLifecycle` | `main`, `Run`, `RaftNode::Stop`, SIGINT, balancer thread, files; extends `RpcServer` | one action per shared access |
| `SpscQueue` | the logger's ring buffer | one action per method; the copying between calls one byte at a time |
| `KVStore` | what the cluster promises its clients | abstract map with pending commands, refined by `Cluster` when nothing fails |
| `BoundedFifo` | what that queue promises | abstract FIFO of bytes, refined by `SpscQueue` |
| `TabletTableProofs`, `TabletSearchProofs`; `ClusterProofs`, `ClusterRouteProofs`, `ClusterDataProofs`; `NodeLifecycleProofs`; `SpscQueueProofs`; `RouteFetchProofs` | theorems and proofs | section 5 |

The balancer's steps. `pc` is where its thread is: `sleep` -> `sync`/`syncWait`
(for every tablet) -> `split`/`splitWait`/`splitSave` (for every tablet at the
threshold) -> `balance` -> `scanWait` -> `transfer`/`putWait` (for every pair) ->
`flipSave` -> `delRange`/`delWait` -> `sleep`; every failure leads back to `sleep`
or to the next loop iteration, as in the code. `off` is a Master that is not
running. Between two steps any other actor may move.

Choices that matter:

- A request carries its opcode, range and value. The request id is left out
  because the Master never looks at it. A reply has a history field `req`, which
  only the property `ReplyShift` reads; which replies a decoder accepts
  (`StatsDecodes`, `ScanDecodes`) follows from payload lengths in the code: a SCAN
  reply with a pair is a well-formed STATS reply, a STATS reply with no key is an
  empty SCAN reply, a reply to PUT or DELETE_RANGE is neither, and *any* frame is
  success for a PUT.
- A send to a closed peer succeeds and is lost. After the RST it fails, or raises
  SIGPIPE and ends the process (`Call`): `send` has no `MSG_NOSIGNAL` and the signal
  is not ignored. A DataNode that dies this way when it answers a dead Master is a
  `KillNode`.
- `orphans` are requests of a dead Master that DataNodes have received and not yet
  handled. `LateRequests` says whether the next Master may start before they are gone.
- `SaveTablets` may fail without a trace: the old file stays, or a truncated one takes
  its place (the write is not checked before the rename).
- A client's fetch of the table, and its command at the DataNode, are one step
  each. Between them anything can happen.
- In `RouteFetch` a connection the Master closed is `fin`, one it reset `rst`; a reset
  that `send` or `recv` has reported makes it `dead`, and the next `send` on it raises
  SIGPIPE, as does a `send` on a socket whose `connect` failed (`RpcClient` keeps it). The
  changes of the table are those of `TabletTable`, at any tablet and any median: when the
  balancer makes them is the subject of `Master`. An iterator over freed storage finds the
  old entry or one whose strings have been moved away.
- In `RpcServer` a descriptor is a number and `close` acts on whatever has the number by
  then; new descriptors get the lowest free one. Nothing in a handler blocks. A
  system call on a number that is no longer the connection fails, or, if it is another
  connection, is what `NoCrossTalk` excludes.
- `latest` is a history variable: the last value written, by the order in which
  DataNodes executed the commands.

## 3. The runs

The code does not coordinate clients with migrations, so the constant
`ClientWindow` says which workload a run is about: commands only while the balancer
sleeps (`asleep`), at any time except during a migration (`noMigration`), or at any
time (`always`).

Passing runs:

| run | what it shows |
|---|---|
| `quiet` | Two clients, two values, `noMigration`, no faults. `OwnerHoldsLatest`: at every step of every migration the owner of a key has its last value. `NoStrayData`: nothing is left on a node that does not own it between passes. `ImplementsKVStore`: to its clients the cluster is the map of `KVStore`; its store is what each key's owner holds, a command takes effect once, when its DataNode executes it, and none fails. `TypeOK`. |
| `asleep` | `CountsExact`: the counts `DoLoadBalance` acts on are the true ones, the halves computed by a split included. `EventuallyBalanced`: once writes stop, the loads come to differ by less than the threshold for good. |
| `faults` | Commands at any time, one timeout, one crash of each kind, one failed save, late requests of a dead Master. `TabletsPartition`: the table in force and the saved one still partition the key space. `TabletIdsUnique`. `ReplyShift`: on every connection at most one frame for each timeout so far comes before the awaited one, and the last is the awaited request or its reply, so timeouts shift the replies and neither crashes nor lost requests do. |
| `crash` | One Master crash and one DataNode crash at any step. `PutsSurvive`: a value that was put and not deleted is where the table routes to. `DeletesAreDurable`: a DELETE_RANGE under way covers only keys that the saved table routes elsewhere. |
| `search` | Every ordered table of up to seven tablets, gaps at the ends included, and every key: `SearchInv` (loop invariant), `SearchCorrect`, `ProbesShrink` (loop variant), `SearchEnds` (every lookup returns, under weak fairness of the thread). |
| `spsc` | Producer and consumer in every interleaving. `ImplementsFifo`: what is read are the committed bytes, in order, once, and never more than `capacity_ - 1` wait (refinement of `BoundedFifo`, with the bytes between the two positions as its queue). `NoDataRace`: the regions handed to the two threads are disjoint and inside the buffer. `PromiseKept`: space reported by `writable_bytes` stays. `WritesGoOn`, `ReadsGoOn`: progress of both sides. |
| `lifecycle` | Two clients connect, send and leave; files come and go; SIGINT at any moment once `Run` has started its threads: before it takes `mutex_`, between its test of `running_` and its wait on `cv_`, while it waits. `DescriptorsOwned`: while the server runs a worker's descriptor is its connection and a file's is the file, although a worker closes its descriptor before it takes the number out of `client_fds_`. `NoCrossTalk`: also during `Stop`, which closes what workers still hold, no worker uses another one's connection. `NoUseAfterRelease`: LevelDB and the connections are closed only when no thread can use them. `NoTerminate`: no thread object is destroyed unjoined. `StopEnds`: the process ends, so no join waits for ever and no wake-up is lost (`Stop` clears `running_` under `mutex_`, which `Run` holds from its test to its wait; without that lock TLC finds the lost wake-up). `LifeTypeOK`. |
| `fetch` | Two commands, two changes of the table, one crash of the Master, timeouts at any receive, in the middle of a frame too. `FreshRoute`: an accepted table routes every key, to a node that owned it at some moment of the command. `BufferAligned`: the receive buffer starts with a frame header. Both hold until a connection is closed with part of a frame in the buffer (history variable `torn`): a timeout or an end of the stream inside a frame does no harm as long as the connection stays, in the second attempt. `ReconnectWorks`: a command with a `SoundStart` (Master up, nothing late in the stream, socket never connected or without a reported reset) gets its table on a connection that was closed or reset since the last one, and after a first attempt that timed out before any of the reply came. `CommandEnds`: every command returns to the prompt or ends the process. |

Runs that exhibit a disagreement between the code and what the repository says of it
(`findings` quotes the lines):

| run | what happens |
|---|---|
| `concurrent` | A PUT reaches the source between SCAN and DELETE_RANGE and is deleted with the old copy. |
| `timeout_loss` | One timeout shifts all later replies of a connection by one; a transfer looks complete and the source is deleted. |
| `table_race` | `fetch` with splits that do not wait for readers: a worker reads the table after a split has written the left half and before it has inserted the right one, and the client gets a table with keys that have no route. |
| `early_stop` | `lifecycle` with SIGINT before the node is up: `Stop` sees `running_` false and returns, `Run` sets it and waits for ever. |

More behaviours of the code that the models contain and these runs exclude, by a constant or by a
condition of a property; each is reached by the named change:

| configuration | change | what TLC then finds |
|---|---|---|
| `MCCrash` | `MaxSaveFaults = 1` | `DeletesAreDurable`: `SaveTablets` returns nothing, so a failed save does not stop the DELETE_RANGE; a restarted Master routes to the emptied source (`raft_node.cpp:332`: delete "after the routing table has been updated successfully"). |
| `MCCrash` | `INVARIANT OwnerHoldsLatest` | The Master dies before its DELETE_RANGE; the stale copy is back in service after the tablet moves back, deleted keys with it. |
| `MCCrash` | `NoStorage = {3}` | `PutsSurvive`: a DataNode without LevelDB reports zero keys, attracts a migration, refuses every PUT, any reply counts as success, and the source is deleted. |
| `MCSpsc` | `PROPERTY WaitingHelps` | A record longer than the space up to the end of the ring buffer is refused for ever, with the queue drained too, although `spsc_queue.h:47` says to wait for the consumer. |
| `MCFetch` | `FreshRoute` or `BufferAligned` without `~torn` | The first part of a reply stays in `buf_` across `Close`; the retry has the same request id, and a frame made of both halves is accepted. |
| `MCLifecycle` | `EarlySignal = TRUE` | `NoTerminate`: `Stop` runs before the balancer thread is started (`raft_node.cpp:731`), which is then destroyed unjoined. |
| `MCLifecycle` | `DescriptorsOwned` without `serving =>` | Once `Stop` closes descriptors, a number that is now a file of LevelDB or `SaveTablets` is closed again. |
| `MCFetch` | `ColonKeys = {4}` | `FreshRoute`: a median that contains `:` shifts the parts of its segments. |

`EventuallyBalanced` is about two nodes that both own tablets and about counts that are
exact. `node_load` holds only nodes that own a tablet (`raft_node.cpp:261-263`): a node whose
last tablet has moved away, which stale counts can bring about, and a third DataNode from the
start (`BuildInitialTablets` gives tablets to the first two only), never get one.

### Bounds

`SPLIT_THRESHOLD` and `BALANCE_DIFF_THRESHOLD` are 6 and 7 in the code. The runs keep
their relation at 2 and 3 (2 and 2 in `faults`, where two keys in one of the first two tablets make a split
and a migration happen with three commands). Elsewhere four or five keys with the
first boundary at key 4 let one
tablet reach the threshold, split, and a half move; five or six commands are enough
to fill a tablet and then change it once more after the move. Two DataNodes are a
source and a destination. One fault of each kind suffices to separate any two
steps; `budget` counts faults and commands down, so that `MaxOps`, `MaxTimeouts`,
`MaxMasterCrashes`, `MaxNodeCrashes` and `MaxSaveFaults` bound the runs. The proofs
do not depend on any of these values. Symmetry (values, clients) is used only in
`quiet`, which has no liveness property.

`spsc` has a buffer of four bytes, records of up to three, two byte values and
positions that wrap around at eight: buffer and positions wrap, the queue is full and
empty at every index, and a record is cut in two by the consumer. Reads of a position
are atomic and ordered by acquire and release (see the header of `SpscQueue`), so weak
memory adds no behaviour. Calls of `readable_bytes` by a third thread, which the header
allows, are left out.

`lifecycle` has two connections, so that one can get a descriptor number the other has
just given up, three descriptors (both connections and a file), and one waiting request per
connection. `fetch` has four keys; its two changes let the table grow from two to four
tablets, across a reallocation of the vector and an insertion in place, or be re-routed twice during one walk; of its two commands
the first leaves a late reply, half of one or a broken connection behind and the second meets it; a
crash hits the first attempt of a command or its retry.

### Fairness

`FairSpec` assumes weak fairness of what the platform schedules: a started process
runs (balancer thread, worker threads of DataNodes), a Master or DataNode that is down
is started again, a routed command is executed or fails. It assumes nothing
about faults or about clients issuing commands. No strong fairness is used.
`FairSpscSpec` assumes that a producer with a record keeps retrying and that both threads
finish their calls; nothing makes the producer have a record.
`FairLifeSpec`: every thread of the process is scheduled; clients and the user who presses
Ctrl-C are not obliged to do anything. A pass of the balancer ends, since each of its
receives has a time limit. `FairFetchSpec`: the client's process is scheduled; nothing
makes the Master answer, or come back.
The deadlock check is off where the system may stop: `search` ends with the answer,
`lifecycle` with the process, `fetch` when the user enters no more commands. The balancer loop of
`Cluster` and the queue never end.

### Mutants

Every property of a passing run has a mutant in `PROJECT.json`: a slip one could make
in the code (a swapped operand, an included end of range, a counted failure, a save
forgotten) under which TLC finds the property violated. They are the operators
introduced by "A slip" next to what they change.

## 4. What the checks do not say

The passing runs hold under their workloads. `concurrent` shows that clients
which write during a migration lose data; `timeout_loss` and the table after it
show that `PutsSurvive` and `DeletesAreDurable` need in-time replies,
working storage and successful saves. `lifecycle` needs a node that is up when SIGINT comes,
and `fetch` splits that do not meet a reader. `ReconnectWorks` says nothing of

- a command after one whose `Connect` failed, be it the first ever (`lekv_cli.cpp:69`) or that of a retry:
  `fd_` then holds a socket that never connected, and the next `send` raises SIGPIPE;
- a command after one whose second attempt ended with a reported reset: SIGPIPE again;
- a command after one whose second attempt timed out: the client keeps a stream in which every reply is
  one command late until it is restarted (no such reply is accepted: `FreshRoute`);
- a command during which the Master dies, or that times out in its second attempt or inside a frame.

In the first two the code ends the client's process, in the others a command may fail without a table; once a frame
was cut by `Close`, `FreshRoute` and `BufferAligned` claim nothing more of that client. `StopEnds` counts an end by
SIGPIPE, when a worker answers on a connection that `Stop` has just shut down. The partition of the key space needs none of
these and is proved without any restriction; what the theorems about data need is a hypothesis
of each (section 5).

## 5. Proofs

Assumptions: those named in the modules (`MaxKeyAssumption`, `NoValueAssumption`,
`TableAssumption`, `NoStorageAssumption`, `ClusterAssumption`, `TablesAssumption`,
`ServerAssumption`, `SpscAssumption`, `FetchAssumption`): at least one key and two DataNodes, positive thresholds, a ring
buffer that is longer than a record and whose size divides the range of positions. Nothing bounds keys, nodes, clients,
commands, connections or faults. A theorem that needs more about a run says so as a hypothesis.

### The cluster

Six invariants, each inductive relative to those before it. TLC has checked them as invariants
with the bounds of the runs `crash`, `quiet` and `asleep` (`ShiftInv` through `ReplyShift` in `faults`,
`CountInv` with the bounds of `asleep`, the only run it is about).

| invariant | module | says | needs |
|---|---|---|---|
| `IInv` | `ClusterProofs` | types; both tables are partitions with unique ids; the balancer's copy of a tablet has the range of its entry | nothing |
| `ShiftInv` | `ClusterRouteProofs` | on each connection at most one frame per timeout comes before the awaited one; the last frame on an open one is the awaited request or its reply; a connection that is not open carries no request | nothing |
| `LinkInv` | `ClusterRouteProofs` | `ShiftInv` without timeouts: at most one frame is under way, on the connection the balancer waits on, and it is the awaited request or its reply | `MaxTimeouts = 0` |
| `RouteInv` | `ClusterRouteProofs` | the saved table routes like the one in force, but for the tablet between a switch and its save; requests of a dead Master touch no key at its owner; only pairs of the moved tablet are copied | `GoodRun` |
| `DataInv` | `ClusterDataProofs` | which node holds which value at each step of a migration | `SafeRun` |
| `CountInv` | `ClusterDataProofs` | entries the balancer has synchronised count what their node holds | `CalmRun` and commands only while it sleeps |

- `GoodRun`: no `RecvFrame` of the Master times out, saves succeed, and a dead Master's requests are gone
  before the next Master starts. `SafeRun`: also every DataNode opened its storage, and no client
  command is under way during a migration. `CalmRun`: also no process crashes. These are not
  conveniences: `timeout_loss` and `concurrent` show data lost when a timeout is possible and when
  clients write during a migration, and section 3 says which fault breaks which property.
- `ClusterProofs!PartitionAlways`, `IdsUniqueAlways`, `TypeCorrect`: `TabletsPartition`, `TabletIdsUnique`
  and `TypeOK` hold in every run, whatever faults there are.
- `ClusterRouteProofs!ReplyShiftAlways`: `Spec => []ReplyShift`, with no hypothesis: any number of timeouts, crashes and
  failed saves. Without timeouts every reply taken answers the request awaited (`LinkInv`), which the theorems below rest on.
- `ClusterRouteProofs!DeletesDurableAlways`: `GoodRun /\ Spec => []DeletesAreDurable`, with any number of crashes.
- `ClusterDataProofs!PutsSurviveAlways`: `SafeRun /\ Spec => []PutsSurvive`, with any number of crashes,
  inside handlers and migrations too.
- `ClusterDataProofs!OwnerHoldsLatestAlways`, `NoStrayDataAlways`: `CalmRun /\ Spec => []...`.
- `ClusterDataProofs!RefinesKVStore`: `CalmRun /\ Spec => ImplementsKVStore`. `Seen`, which follows from `IInv` and `DataInv`, says that
  what the owners hold is `latest` and that a waiting GET is at the owner of its key. So a step that leaves
  `client` and `latest` alone (all of the Master's and of the DataNodes') is a stutter of the map, `ClientRoute` begins a
  command, `ClientExecute` executes it, and `ClientFail` never happens. Retries and duplicates of commands would be seen: the map takes a command
  off when it executes it.
- `ClusterDataProofs!CountsExactAlways`: `CalmRun /\ ClientWindow = "asleep" /\ Spec => []CountsExact`.

The partition alone is not inductive: `TrySplitTablet` checks the median against a *copy* of
the tablet made before an RPC, so `IInv` says that while the reply is awaited the copy has the
range of the entry it will replace (`LocalsOK`). It also has to hold for the saved table, because the
next Master starts from it, and the types of everything in transit are needed since a median
is taken from whatever reply comes first. There is one lemma per action. The arithmetic of a
split is in `TabletTableProofs!SplitTable`: replacing entry *i* by two halves that meet at a key strictly
inside its range keeps ranges non-empty, ordered and covering; `SameRanges` disposes of every change
of a `key_count` or a `node_id`; `RouteFound` shows that in a partition a lookup finds the one
tablet that contains the key; `SplitRoutes` that a split leaves every route alone.

Above `IInv` the Master's actions are first classified by what they do to routes and requests
(`ToRest`, `AskStats`, `AskScan`, `TakeScan`, `AskPut`, `TakePut`, `SwitchRoute`, `SaveRoute`, `AskDelete`,
`Died`, `Started`; lemma by lemma each action is shown to be of one kind), and `RouteInv` and
`DataInv` are proved kind by kind. `DataInv` follows a migration: the scan reply holds what the source holds
(`ScanOK`), every pair is still to be copied or has arrived (`MoveOK`, `PutOK`), the source keeps its
copies until the new route is saved (`FlipOK`), and commands go to owners (`CommandsOK`). With
crashes an aborted migration can leave an old copy of a key that is deleted later, and a later
migration can bring it back; `Fresh` is the weakest notion of a right copy that survives this, and is
equality with `latest` when nothing crashes. This is why `PutsSurvive` is proved with crashes and `OwnerHoldsLatest`
without: with them it does not hold. `CountInv` rests on `SplitExact`: a tablet with
an exact count, cut at its median, gives two tablets whose computed counts are exact.

### The other components

- `TabletSearchProofs!SearchIsCorrect`: `SearchSpec => []SearchCorrect`, for every ordered
  table: the search returns the tablet that contains the key and none otherwise, from the
  loop invariant (`SearchInvAlways`).
- `TabletSearchProofs!ProbesShrinkAlways`: every probe is inside the vector and shrinks the
  interval, which bounds the loop.
- `NodeLifecycleProofs!DescriptorsOwnedAlways` and `NoCrossTalkAlways`: from `ServerAssumption` alone,
  for any number of connections and descriptors and SIGINT at any time. The inductive
  invariant `FdInv` says that each connection is in one place (backlog, accept thread, worker),
  that the descriptor table is exact until `Stop` begins to close connections (`ExactTable`),
  and that from then on nothing is accepted, so that a number taken away from a worker becomes free or
  a file and never another connection (`NotOthers`).
- `NodeLifecycleProofs!ReleaseIsSafe` and `NeverTerminates`: when SIGINT comes to a node that is
  up (`EarlySignal = FALSE`; the run `early_stop` is about the other case). `LifeInv` ties the
  four program counters together: what main has started when the stop thread begins, and what the stop thread
  has seen end at each of its steps. TLC has checked both invariants with the bounds of
  `lifecycle`. `LifeTypesAlways` adds the types of what `FdInv` does not speak of.
- `SpscQueueProofs!NoRaceAlways`, `PromiseKeptAlways` and `RefinesFifo`: `NoDataRace`, `PromiseKept` and
  `ImplementsFifo` for every capacity, position width and record. `SpscInv` says that one byte always stays free, what the producer
  has copied lies in free space and what the consumer has copied is what the buffer holds there. The arithmetic is
  that of distances modulo the range of positions, of which the capacity is a divisor. The refinement maps the FIFO's
  contents to the committed bytes between the two positions; each step is shown to be a put, a get or a stutter.
- `RouteFetchProofs!BufferAlignedAlways`: `FetchSpec => []BufferAligned`, with no hypothesis. The
  stream is the buffer followed by what is on the wire. `StreamInv` says that it is zero, one or two frames, whole
  but for what a crash cut off the last one, and counts them with the requests not yet answered: a connection has at most one of these
  at the prompt (a late reply), two while the next reply is awaited, none when a second attempt begins. A
  request that was reset counts as well. The inductive invariant is `torn \/ StreamInv`: a step that breaks `StreamInv` is a
  `Connect` that meets part of a frame in the buffer, and sets `torn`.
- `RouteFetchProofs!ReconnectWorksAlways`: `FetchSpec => []ReconnectWorks`, with no hypothesis on the run: also with
  splits during a walk and keys with colons, and after frames were cut by `Close`. What the property asks of a command is in `SoundStart` and `calm`
  (section 4 lists what that leaves out). `TablesInv` describes the Master's table: the saved one is
  a partition whose nodes are among the `owners`, and `tablets_` equals it or is between the two steps of a split of
  it. `CalmInv` follows a command with a sound start: on a closed or reset connection, and after a timeout before the reply, the
  first attempt fails with nothing left behind in the buffer, and the second has a new connection, an empty buffer and
  one request, which is waiting (`Asked`), being answered (`Walking`) or answered (`Replied`). The reply has at
  least one segment because the walk starts on a table that is never empty.
- `RouteFetchProofs!FreshRouteAlways`: `~SplitsRace /\ ColonKeys = {} /\ FetchSpec => []FreshRoute`. `FreshInv`
  says of every frame in the stream that it is complete (or will be cut for good) and answers this command's request or an earlier one,
  and that in the former case its segments parse to a partition whose nodes are among the `owners`; the same of the
  entries the worker has copied, which need not be of one moment: the entries keep their ranges while a
  migration changes a node. The invariant is again `torn \/ (StreamInv /\ FreshInv)`.
  `ParseBody` is a set (`std::sort` may order equal entries any way); `ParseGood` shows that for
  such a frame it has one member, the table as it was sent, because an increasing map of `1..n` to itself is the
  identity. The code ensures neither of the two hypotheses nor `~torn`, and without any
  one of them `FreshRoute` fails: section 3 has the run `table_race` and the changes of `MCFetch` that show it.

Only model-checked:

- `StopEnds`, `CommandEnds`, `EventuallyBalanced`, `SearchEnds` and the queue's progress: liveness under
  fairness is out of the prover's reach. Every safety property of a passing run is stated by a theorem.

## 6. Not modelled

- Byte order and widths of length fields (`key_len` is 16 bits), and keys with spaces in
  the SHARDS text. `OP_GET_ROUTE`, which no program of the repository sends.
- The client's command to a DataNode has a connection of its own, closed after one reply:
  in `Cluster` it succeeds or fails as one step.
- Memory effects of the data race in `table_race` inside one entry: an entry is read whole.
- LevelDB itself: an ordered map whose writes survive a crash of the process. Loss of
  unsynced writes at a power failure and I/O errors after a successful open are left out.
- One configured DataNode (`data_nodes[1]` is then undefined behaviour).
- Durations. `RecvAll` counts 10 ms for each receive that blocks up to 5 s, so that the
  nominal 3000 ms are about 25 minutes; the model only has "timed out first" and
  "answered first".
- Log output, `transfer_count_` and `transfer_time_ms_`, the text protocol (not started by
  any node), the logger's record header and type tags (declarations only).

## 7. Plan

Written in this order; all are done.

1. `KeyRange`, `StorageEngine`, `TabletTable`: data and pure operations.
2. `MasterLink`, `DataNode`, `Master`: the actors.
3. `Cluster` and its runs: the composition, faults, fairness.
4. `TabletSearch`: the lookup.
5. Partition, ids, types and the search proved.
6. `SpscQueue`: the logger's ring buffer, shown to implement a bounded FIFO.
7. `RpcServer` and `NodeLifecycle`: `Run`, `Stop`, SIGINT, accept and worker threads.
8. `RouteFetch`: the client's connection at the level of received cells, across `Close` and
   `Connect`.
9. `RouteFetch`: `HandleMasterShards` entry by entry against the balancer, the SHARDS text.
10. Proofs: the queue, `BufferAligned`; then the cluster layer by layer: the order of replies, durable
    deletes, data, counts.
11. Proofs: `ReconnectWorks` and `FreshRoute`, the client's fetch from request to parsed table.
12. `KVStore`, and the proof that the cluster implements it.
