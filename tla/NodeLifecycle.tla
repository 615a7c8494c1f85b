--------------------------- MODULE NodeLifecycle ---------------------------
(***************************************************************************)
(* The life of a node process (lekv.cpp, RaftNode::Run and Stop): main,    *)
(* the thread that waits for SIGINT and calls Stop, the balancer thread    *)
(* and the server's threads, with the resources that Stop releases.        *)
(***************************************************************************)
EXTENDS RpcServer

CONSTANT EarlySignal   \* SIGINT may come before the node is up

ASSUME LifecycleAssumption == EarlySignal \in BOOLEAN

VARIABLES
    master,             \* IsMaster()
    g_stop,             \* set by the signal handler
    running,            \* running_ of RaftNode
    balancer_running,   \* balancer_running_
    mpc,                \* main: "construct", "start", "setRunning",
                        \*   "setBalancer", "spawnBalancer", then in cv_.wait
                        \*   "lock", "block" (holding mutex_) and "blocked", at
                        \*   last "join", "destroy", "end"
    tpc,                \* stop_thread: "none", "poll", "clear", "notify",
                        \*   "server", "joinBalancer", "release", "done"
    bpc,                \* balancer_thread_: "none", "sleep", "pass", "done",
                        \*   "joined"
    resources,          \* storage_ and node_clients_: "open" or "closed"
    file                \* descriptor of a file LevelDB or SaveTablets has open, or 0

nodeVars == <<master, g_stop, running, balancer_running, mpc, tpc, bpc, resources, file>>
lifeVars == <<serverVars, nodeVars>>

LifeInit ==
    /\ ServerInit
    /\ master \in BOOLEAN
    /\ g_stop = FALSE /\ running = FALSE /\ balancer_running = FALSE
    /\ mpc = "construct" /\ tpc = "none" /\ bpc = "none"
    /\ resources = "open"
    /\ file = 0

(***************************************************************************)
(* main and Run                                                            *)
(***************************************************************************)
MainGoes(from, to) ==
    /\ mpc = from
    /\ mpc' = to
    /\ UNCHANGED <<master, g_stop, resources, file>>

SpawnStopThread ==
    /\ MainGoes("construct", "start")
    /\ tpc' = "poll"
    /\ UNCHANGED <<serverVars, running, balancer_running, bpc>>

StartServer ==
    /\ MainGoes("start", "setRunning")
    /\ ServerStart
    /\ UNCHANGED <<running, balancer_running, tpc, bpc>>

\* socket, bind or listen fails: Run returns.
StartFails ==
    /\ MainGoes("start", "join")
    /\ UNCHANGED <<serverVars, running, balancer_running, tpc, bpc>>

SetRunning ==
    /\ MainGoes("setRunning", IF master THEN "setBalancer" ELSE "lock")
    /\ running' = TRUE
    /\ UNCHANGED <<serverVars, balancer_running, tpc, bpc>>

SetBalancer ==
    /\ MainGoes("setBalancer", "spawnBalancer")
    /\ balancer_running' = TRUE
    /\ UNCHANGED <<serverVars, running, tpc, bpc>>

SpawnBalancer ==
    /\ MainGoes("spawnBalancer", "lock")
    /\ bpc' = "sleep"
    /\ UNCHANGED <<serverVars, running, balancer_running, tpc>>

\* cv_.wait(lock, predicate): main takes mutex_ and evaluates the predicate.
\* When it holds Run returns, which unlocks; else main gives up mutex_ and goes
\* to sleep in one step, and once woken begins again.
CvTest ==
    /\ MainGoes("lock", IF running THEN "block" ELSE "join")
    /\ UNCHANGED <<serverVars, running, balancer_running, tpc, bpc>>

CvBlock ==
    /\ MainGoes("block", "blocked")
    /\ UNCHANGED <<serverVars, running, balancer_running, tpc, bpc>>

JoinStopThread ==
    /\ tpc = "done"
    /\ MainGoes("join", "destroy")
    /\ UNCHANGED <<serverVars, running, balancer_running, tpc, bpc>>

\* ~RaftNode: Stop returns at once, as running_ is clear; destroying a balancer
\* thread that was not joined ends the process with std::terminate.
Joinable == bpc \notin {"none", "joined"}

Destroy ==
    /\ MainGoes("destroy", "end")
    /\ proc' = IF Joinable THEN "terminate" ELSE "exit"
    /\ UNCHANGED <<serving, listening, client_fds, netVars, acceptVars, workerVars, stopVars,
                   running, balancer_running, tpc, bpc>>

Main ==
    \/ SpawnStopThread \/ StartServer \/ StartFails \/ SetRunning \/ SetBalancer
    \/ SpawnBalancer \/ CvTest \/ CvBlock \/ JoinStopThread \/ Destroy

(***************************************************************************)
(* SIGINT and the thread that stops the node                               *)
(***************************************************************************)
Signal ==
    /\ ~g_stop
    /\ EarlySignal \/ mpc \in {"lock", "block", "blocked", "join"}
    /\ g_stop' = TRUE
    /\ UNCHANGED <<serverVars, master, running, balancer_running, mpc, tpc, bpc, resources, file>>

ThreadGoes(from, to) ==
    /\ tpc = from
    /\ tpc' = to
    /\ UNCHANGED <<master, g_stop>>

\* Stop does nothing when running_ is not set.
StopCheck ==
    /\ g_stop
    /\ ThreadGoes("poll", IF running THEN "clear" ELSE "done")
    /\ UNCHANGED <<serverVars, running, balancer_running, mpc, bpc, resources, file>>

\* A slip: running_ is cleared without mutex_, as if being atomic were enough.
ClearRunningUnlocked ==
    /\ ThreadGoes("clear", "notify")
    /\ running' = FALSE
    /\ UNCHANGED <<serverVars, balancer_running, mpc, bpc, resources, file>>

\* The lock_guard on mutex_, which main holds from its test to its sleep.
ClearRunning ==
    /\ mpc # "block"
    /\ ThreadGoes("clear", "notify")
    /\ running' = FALSE
    /\ UNCHANGED <<serverVars, balancer_running, mpc, bpc, resources, file>>

NotifyAll ==
    /\ ThreadGoes("notify", "server")
    /\ mpc' = IF mpc = "blocked" THEN "lock" ELSE mpc
    /\ balancer_running' = FALSE
    /\ UNCHANGED <<serverVars, running, bpc, resources, file>>

StopServer ==
    /\ tpc = "server"
    /\ ServerStop
    /\ tpc' = IF spc' = "done" THEN "joinBalancer" ELSE tpc
    /\ UNCHANGED <<master, g_stop, running, balancer_running, mpc, bpc, resources, file>>

\* A slip: the balancer is told to stop and not joined.
JoinBalancerForgotten ==
    /\ ThreadGoes("joinBalancer", "release")
    /\ UNCHANGED <<serverVars, running, balancer_running, mpc, bpc, resources, file>>

JoinBalancer ==
    /\ bpc \in {"none", "done"}
    /\ ThreadGoes("joinBalancer", "release")
    /\ bpc' = IF bpc = "none" THEN bpc ELSE "joined"
    /\ UNCHANGED <<serverVars, running, balancer_running, mpc, resources, file>>

\* Close the connections to the DataNodes, close LevelDB, write the statistics.
Release ==
    /\ ThreadGoes("release", "done")
    /\ resources' = "closed"
    /\ file' = 0
    /\ fds' = [f \in Fd |-> IF f = file THEN Free ELSE fds[f]]
    /\ UNCHANGED <<flagVars, client_fds, sock, backlog, inbox, acceptVars, workerVars, stopVars,
                   running, balancer_running, mpc, bpc>>

Stop ==
    \/ StopCheck \/ ClearRunning \/ NotifyAll \/ StopServer
    \/ JoinBalancer \/ Release

(***************************************************************************)
(* The balancer thread, and files that come and go                         *)
(***************************************************************************)
BalancerLoop ==
    /\ \/ bpc = "sleep" /\ bpc' = IF balancer_running THEN "pass" ELSE "done"
       \/ bpc = "pass" /\ file = 0 /\ bpc' = "sleep"   \* nothing to save
    /\ UNCHANGED <<serverVars, master, g_stop, running, balancer_running, mpc, tpc, resources, file>>

\* The Master writes its table in a pass of the balancer, a DataNode's LevelDB
\* opens and closes files whenever it likes.
OpenFile ==
    /\ file = 0
    /\ IF master THEN bpc = "pass" ELSE resources = "open"
    /\ \E f \in Fd :
          /\ LowestFree(f)
          /\ file' = f
          /\ fds' = [fds EXCEPT ![f] = File]
    /\ UNCHANGED <<flagVars, client_fds, sock, backlog, inbox, acceptVars, workerVars, stopVars,
                   master, g_stop, running, balancer_running, mpc, tpc, bpc, resources>>

CloseFile ==
    /\ file # 0
    /\ Close(file)
    /\ file' = 0
    /\ bpc' = IF master THEN "sleep" ELSE bpc
    /\ UNCHANGED <<flagVars, client_fds, backlog, acceptVars, workerVars, stopVars,
                   master, g_stop, running, balancer_running, mpc, tpc, resources>>

Accepting == AcceptLoop /\ UNCHANGED nodeVars
Working(c) == HandleClient(c) /\ UNCHANGED nodeVars
Client(c) == (Connect(c) \/ SendRequest(c) \/ Disconnect(c)) /\ UNCHANGED nodeVars

LifeNext ==
    /\ proc = "up"
    /\ \/ Main \/ Signal \/ Stop \/ BalancerLoop \/ OpenFile \/ CloseFile \/ Accepting
       \/ \E c \in Conn : Working(c) \/ Client(c)

LifeSpec == LifeInit /\ [][LifeNext]_lifeVars

Up(A) == proc = "up" /\ A

\* Every thread of the process is scheduled; clients and the signal are not
\* obliged to do anything.
FairLifeSpec ==
    /\ LifeSpec
    /\ WF_lifeVars(Up(Main)) /\ WF_lifeVars(Up(Stop))
    /\ WF_lifeVars(Up(BalancerLoop)) /\ WF_lifeVars(Up(CloseFile)) /\ WF_lifeVars(Up(Accepting))
    /\ \A c \in Conn : WF_lifeVars(Up(Working(c)))

-----------------------------------------------------------------------------
\* Types and ranges of everything the threads share.
LifeTypeOK ==
    /\ proc \in {"up", "exit", "terminate", "sigpipe"}
    /\ {serving, listening, master, g_stop, running, balancer_running} \subseteq BOOLEAN
    /\ client_fds \in Seq(Fd)
    /\ fds \in [Fd -> Conn \cup {Free, File}]
    /\ backlog \subseteq Conn
    /\ inbox \in [Conn -> 0..MaxRequests]
    /\ wfd \in [Conn -> 0..MaxFd]
    /\ file \in 0..MaxFd

\* While the server runs a descriptor belongs to whoever got it: a worker's
\* client_fd is its own connection, and LevelDB's or SaveTablets' file is still
\* that file, however often numbers are reused between close (line 222) and
\* the erase from client_fds_ (line 227).
DescriptorsOwned ==
    serving =>
        /\ \A c \in Conn : wpc[c] \in {"start", "recv", "handle", "close"} => Own(c)
        /\ file # 0 => fds[file] = File

\* A worker never receives from or answers on another worker's connection, in
\* Stop either, which closes descriptors that workers still hold.
NoCrossTalk ==
    \A c \in Conn :
        wpc[c] \in {"start", "recv", "handle", "close"} =>
            fds[wfd[c]] \notin Conn \ {c}

\* Stop releases LevelDB and the connections to the DataNodes only when no
\* handler and no pass of the balancer can still use them.
NoUseAfterRelease ==
    resources = "closed" =>
        /\ \A c \in Conn : wpc[c] \in {"none", "done"}
        /\ apc \in {"none", "done"}
        /\ bpc \in {"none", "joined"}

\* The node is never destroyed with a running thread, which would end the
\* process in std::terminate.
NoTerminate == proc # "terminate"

\* SIGINT ends the process, whatever the threads were doing: no wake-up is lost
\* when Stop clears running_ around main's test of it (lines 56-60 and 741-742),
\* and no join waits for ever.
StopEnds == g_stop ~> proc # "up"

\* raft_node.h: Run blocks until Stop.  Once Stop has been called Run returns.
RunEndsAfterStop == tpc \notin {"none", "poll"} ~> mpc \in {"join", "destroy", "end"}
=============================================================================
