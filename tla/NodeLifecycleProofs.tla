------------------------ MODULE NodeLifecycleProofs ------------------------
(***************************************************************************)
(* A node that is up when SIGINT comes shuts down safely, with any number  *)
(* of connections, descriptors and requests: no thread object is destroyed *)
(* unjoined, and nothing is released while a thread can use it.            *)
(***************************************************************************)
EXTENDS NodeLifecycle, WellFoundedInduction, TLAPS

\* Where main is in cv_.wait, and from the moment it begins to wait.
InWait == {"lock", "block", "blocked"}
Waiting == InWait \cup {"join", "destroy", "end"}

\* The server has no thread that can still run.
ServerQuiet ==
    /\ apc \in {"none", "done"}
    /\ \A c \in Conn : wpc[c] \in {"none", "done"}

BalancerQuiet == bpc \in {"none", "joined"}

\* Nothing has been started yet.
NotStarted ==
    /\ serving = FALSE /\ running = FALSE /\ resources = "open"
    /\ apc = "none" /\ bpc = "none" /\ spc = "none"
    /\ \A c \in Conn : wpc[c] = "none"

ControlTypes ==
    /\ wpc \in [Conn -> {"none", "start", "recv", "handle", "close", "erase", "done"}]
    /\ serving \in BOOLEAN /\ running \in BOOLEAN /\ g_stop \in BOOLEAN /\ master \in BOOLEAN
    /\ mpc \in {"construct", "start", "setRunning", "setBalancer", "spawnBalancer"} \cup Waiting
    /\ tpc \in {"none", "poll", "clear", "notify", "server", "joinBalancer", "release", "done"}
    /\ spc \in {"none", "listen", "sweep", "close", "joinAccept", "joinWorkers", "done"}
    /\ proc \in {"up", "exit", "terminate", "sigpipe"}

\* main before and after it waits, and when the stop thread can have begun.
MainPhases ==
    /\ mpc = "construct" <=> tpc = "none"
    /\ mpc \in {"construct", "start"} => NotStarted
    /\ mpc \notin Waiting => bpc = "none"
    /\ g_stop = TRUE => mpc \in Waiting
    /\ tpc \notin {"none", "poll"} => g_stop = TRUE
    /\ mpc \in {"destroy", "end"} => tpc = "done"

\* Until the stop thread begins, a node that runs serves; a main that is past
\* the wait then never started the server.
PollPhase ==
    tpc = "poll" =>
        /\ spc = "none"
        /\ resources = "open"
        /\ mpc \in {"setRunning", "setBalancer", "spawnBalancer"} \cup InWait => serving = TRUE
        /\ mpc \in {"setBalancer", "spawnBalancer"} \cup InWait => running = TRUE
        /\ mpc = "join" => NotStarted

\* What the stop thread has achieved at each of its steps.
StopPhases ==
    /\ tpc \in {"clear", "notify", "server"} /\ spc = "none" => serving = TRUE
    /\ tpc \in {"clear", "notify"} => spc = "none"
    /\ tpc \in {"joinBalancer", "release"} => spc = "done"
    /\ spc \in {"joinWorkers", "done"} => apc \in {"none", "done"}
    /\ spc = "done" => ServerQuiet
    /\ tpc = "done" => ServerQuiet
    /\ tpc \in {"release", "done"} => BalancerQuiet
    /\ resources = "closed" => tpc = "done"

\* A file the Master has open is the one its balancer is writing.
FilePhase == master = TRUE /\ file # 0 => bpc = "pass"

LifeInv ==
    /\ ControlTypes /\ MainPhases /\ PollPhase /\ StopPhases /\ FilePhase
    /\ NoTerminate

\* LifeInv says enough about released resources.
LEMMA LifeInvImplies == LifeInv => NoUseAfterRelease /\ NoTerminate
  BY DEF LifeInv, StopPhases, NoUseAfterRelease, ServerQuiet, BalancerQuiet

\* It holds when the process starts.
LEMMA LifeInvInit == LifeInit => LifeInv
  BY DEF LifeInit, ServerInit, LifeInv, ControlTypes, MainPhases, PollPhase, StopPhases,
         FilePhase, NotStarted, InWait, Waiting, ServerQuiet, BalancerQuiet, NoTerminate

\* A step of main keeps the invariant: it starts the threads one by one, and
\* while it does so the stop thread still polls.
LEMMA MainKeeps ==
  ASSUME LifeInv, EarlySignal = FALSE, proc = "up", Main PROVE LifeInv'
<1> USE DEF LifeInv, ControlTypes, MainPhases, PollPhase, StopPhases, FilePhase, NotStarted,
            InWait, Waiting, ServerQuiet, BalancerQuiet, NoTerminate, MainGoes,
            serverVars, flagVars, netVars, acceptVars, workerVars, stopVars
<1>1. CASE SpawnStopThread
  BY <1>1 DEF SpawnStopThread
<1>2. CASE StartServer
  BY <1>2 DEF StartServer, ServerStart
<1>3. CASE StartFails
  BY <1>3 DEF StartFails
<1>4. CASE SetRunning
  BY <1>4 DEF SetRunning
<1>5. CASE SetBalancer
  BY <1>5 DEF SetBalancer
<1>6. CASE SpawnBalancer
  BY <1>6 DEF SpawnBalancer
<1>7. CASE CvTest \/ CvBlock
  BY <1>7 DEF CvTest, CvBlock
<1>8. CASE JoinStopThread
  BY <1>8 DEF JoinStopThread
<1>9. CASE Destroy
  BY <1>9 DEF Destroy, Joinable
<1> QED
  BY <1>1, <1>2, <1>3, <1>4, <1>5, <1>6, <1>7, <1>8, <1>9 DEF Main

\* RpcServer::Stop: when it is done it has seen every thread of the server end,
\* and none can start again.
LEMMA ServerStopKeeps ==
  ASSUME LifeInv, tpc = "server", ServerStop,
         tpc' = IF spc' = "done" THEN "joinBalancer" ELSE tpc,
         UNCHANGED <<master, g_stop, running, balancer_running, mpc, bpc, resources, file>> PROVE LifeInv'
<1> USE DEF LifeInv, ControlTypes, MainPhases, PollPhase, StopPhases, FilePhase, NotStarted,
            InWait, Waiting, ServerQuiet, BalancerQuiet, NoTerminate, StopGoes,
            serverVars, flagVars, netVars, acceptVars, workerVars, stopVars
<1>1. CASE StopFlag
  BY <1>1 DEF StopFlag
<1>2. CASE StopListen
  BY <1>2 DEF StopListen
<1>3. CASE StopShutdown
  BY <1>3 DEF StopShutdown
<1>4. CASE StopClose
  BY <1>4 DEF StopClose, Close
<1>5. CASE StopClear
  BY <1>5 DEF StopClear
<1>6. CASE StopJoinAccept
  BY <1>6 DEF StopJoinAccept
<1>7. CASE StopJoinWorkers
  BY <1>7 DEF StopJoinWorkers
<1> QED
  BY <1>1, <1>2, <1>3, <1>4, <1>5, <1>6, <1>7 DEF ServerStop

\* RaftNode::Stop, step by step.
LEMMA StopKeeps ==
  ASSUME LifeInv, Stop PROVE LifeInv'
<1> USE DEF LifeInv, ControlTypes, MainPhases, PollPhase, StopPhases, FilePhase, NotStarted,
            InWait, Waiting, ServerQuiet, BalancerQuiet, NoTerminate, ThreadGoes,
            serverVars, flagVars, netVars, acceptVars, workerVars, stopVars
<1>1. CASE StopCheck
  BY <1>1 DEF StopCheck
<1>2. CASE ClearRunning
  BY <1>2 DEF ClearRunning
<1>3. CASE NotifyAll
  BY <1>3 DEF NotifyAll
<1>4. CASE StopServer
  BY <1>4, ServerStopKeeps DEF StopServer
<1>5. CASE JoinBalancer
  BY <1>5 DEF JoinBalancer
<1>6. CASE Release
  BY <1>6 DEF Release
<1> QED
  BY <1>1, <1>2, <1>3, <1>4, <1>5, <1>6 DEF Stop

\* The accept thread starts workers only while Stop has not joined it.
LEMMA AcceptKeeps ==
  ASSUME LifeInv, AcceptLoop, UNCHANGED nodeVars PROVE LifeInv'
<1> USE DEF LifeInv, ControlTypes, MainPhases, PollPhase, StopPhases, FilePhase, NotStarted,
            InWait, Waiting, ServerQuiet, BalancerQuiet, NoTerminate, nodeVars,
            serverVars, flagVars, netVars, acceptVars, workerVars, stopVars
<1>1. CASE Accept
  BY <1>1 DEF Accept
<1>2. CASE AcceptFails
  BY <1>2 DEF AcceptFails
<1>3. CASE AcceptPush
  BY <1>3 DEF AcceptPush
<1>4. CASE AcceptSpawn
  <2>1. /\ apc = "spawn" /\ apc' \in {"accept", "done"}
        /\ wpc' \in [Conn -> {"none", "start", "recv", "handle", "close", "erase", "done"}]
        /\ UNCHANGED <<serving, proc, spc, master, g_stop, running, mpc, tpc, bpc, resources, file>>
    BY <1>4 DEF AcceptSpawn
  <2>2. spc \notin {"joinWorkers", "done"} /\ tpc \notin {"done"} /\ resources # "closed"
    BY <2>1
  <2>3. ~NotStarted
    BY <2>1
  <2> QED
    BY <2>1, <2>2, <2>3
<1> QED
  BY <1>1, <1>2, <1>3, <1>4 DEF AcceptLoop

\* A worker that is done stays done.
LEMMA WorkerKeeps ==
  ASSUME LifeInv, NEW c \in Conn, HandleClient(c), UNCHANGED nodeVars PROVE LifeInv'
<1> USE DEF LifeInv, ControlTypes, MainPhases, PollPhase, StopPhases, FilePhase, NotStarted,
            InWait, Waiting, ServerQuiet, BalancerQuiet, NoTerminate, WorkerGoes, Again, nodeVars,
            serverVars, flagVars, netVars, acceptVars, workerVars, stopVars
<1>1. CASE WorkerStart(c)
  BY <1>1 DEF WorkerStart
<1>2. CASE RecvFrame(c)
  BY <1>2 DEF RecvFrame
<1>3. CASE RecvFails(c)
  BY <1>3 DEF RecvFails
<1>4. CASE Send(c)
  BY <1>4 DEF Send
<1>5. CASE SendFails(c)
  BY <1>5 DEF SendFails
<1>6. CASE SendKills(c)
  BY <1>6 DEF SendKills
<1>7. CASE WorkerClose(c)
  BY <1>7 DEF WorkerClose, Close
<1>8. CASE WorkerErase(c)
  BY <1>8 DEF WorkerErase
<1> QED
  BY <1>1, <1>2, <1>3, <1>4, <1>5, <1>6, <1>7, <1>8 DEF HandleClient

\* Clients, the signal, the balancer and its files.
LEMMA OthersKeep ==
  ASSUME LifeInv, EarlySignal = FALSE,
         Signal \/ BalancerLoop \/ OpenFile \/ CloseFile \/ \E c \in Conn : Client(c) PROVE LifeInv'
<1> USE DEF LifeInv, ControlTypes, MainPhases, PollPhase, StopPhases, FilePhase, NotStarted,
            InWait, Waiting, ServerQuiet, BalancerQuiet, NoTerminate, nodeVars,
            serverVars, flagVars, netVars, acceptVars, workerVars, stopVars
<1>1. CASE Signal
  BY <1>1 DEF Signal
<1>2. CASE BalancerLoop
  BY <1>2 DEF BalancerLoop
<1>3. CASE OpenFile
  BY <1>3 DEF OpenFile
<1>4. CASE CloseFile
  BY <1>4 DEF CloseFile, Close
<1>5. CASE \E c \in Conn : Client(c)
  BY <1>5 DEF Client, Connect, SendRequest, Disconnect
<1> QED
  BY <1>1, <1>2, <1>3, <1>4, <1>5 DEF InWait, Waiting

\* LifeInv is inductive when SIGINT comes to a node that is up.
LEMMA LifeInvNext ==
  ASSUME EarlySignal = FALSE, LifeInv, [LifeNext]_lifeVars PROVE LifeInv'
<1>1. CASE LifeNext
  BY <1>1, MainKeeps, StopKeeps, AcceptKeeps, WorkerKeeps, OthersKeep
     DEF LifeNext, Accepting, Working
<1>2. CASE UNCHANGED lifeVars
  BY <1>2 DEF LifeInv, ControlTypes, MainPhases, PollPhase, StopPhases, FilePhase, NotStarted,
              InWait, Waiting, ServerQuiet, BalancerQuiet, NoTerminate, lifeVars, nodeVars,
              serverVars, flagVars, netVars, acceptVars, workerVars, stopVars
<1> QED
  BY <1>1, <1>2

\* Stop closes LevelDB and the connections only after the last thread that can
\* use them has been joined, for any number of connections.
THEOREM ReleaseIsSafe ==
  ASSUME EarlySignal = FALSE PROVE LifeSpec => []NoUseAfterRelease
<1>1. LifeInv => NoUseAfterRelease
  BY LifeInvImplies
<1> QED
  BY <1>1, LifeInvInit, LifeInvNext, PTL DEF LifeSpec

\* ~RaftNode never destroys a balancer thread that was not joined.
THEOREM NeverTerminates ==
  ASSUME EarlySignal = FALSE PROVE LifeSpec => []NoTerminate
<1>1. LifeInv => NoTerminate
  BY LifeInvImplies
<1> QED
  BY <1>1, LifeInvInit, LifeInvNext, PTL DEF LifeSpec

(***************************************************************************)
(* Descriptors.  Until Stop begins to close connections every number is    *)
(* exactly what its holder thinks; from then on nothing is accepted any    *)
(* more, so a number that is taken away from a worker cannot become        *)
(* another connection.  This needs no assumption on when SIGINT comes.     *)
(***************************************************************************)
Held(c) == wpc[c] \in {"start", "recv", "handle", "close"}
InHand == apc \in {"push", "spawn"}

TableTypes ==
    /\ fds \in [Fd -> Conn \cup {Free, File}]
    /\ sock \in [Conn -> {"none", "open", "fin", "rst", "shut", "closed"}]
    /\ backlog \subseteq Conn
    /\ wpc \in [Conn -> {"none", "start", "recv", "handle", "close", "erase", "done"}]
    /\ wfd \in [Conn -> 0..MaxFd]
    /\ file \in 0..MaxFd
    /\ serving \in BOOLEAN /\ listening \in BOOLEAN /\ running \in BOOLEAN
    /\ \A c \in Conn : Held(c) => wfd[c] \in Fd
    /\ InHand => accepted.fd \in Fd /\ accepted.conn \in Conn

\* The server is started once, before it is stopped.
ServerPhases ==
    /\ mpc \in {"construct", "start"} =>
          running = FALSE /\ spc = "none" /\ tpc \in {"none", "poll", "done"}
    /\ spc = "none" =>
          (mpc = "setRunning" \/ running = TRUE \/ tpc \in {"clear", "notify", "server"}
              => serving = TRUE)
    /\ spc # "none" => serving = FALSE
    /\ spc \notin {"none", "listen"} => listening = FALSE

\* A connection waits in the backlog, is in the accept thread's hands, or has
\* a worker.
OnePlace ==
    /\ \A c \in backlog : wpc[c] = "none" /\ sock[c] # "none"
    /\ InHand => /\ accepted.conn \notin backlog
                 /\ wpc[accepted.conn] = "none"
                 /\ sock[accepted.conn] # "none"
    /\ \A c \in Conn : sock[c] = "none" => wpc[c] = "none"

ExactTable ==
    spc \in {"none", "listen"} =>
        /\ \A c \in Conn : Held(c) => fds[wfd[c]] = c
        /\ InHand => fds[accepted.fd] = accepted.conn
        /\ file # 0 => fds[file] = File

NotOthers ==
    /\ \A c \in Conn : Held(c) => fds[wfd[c]] \notin Conn \ {c}
    /\ InHand => fds[accepted.fd] \notin Conn \ {accepted.conn}

FdInv == TableTypes /\ ServerPhases /\ OnePlace /\ ExactTable /\ NotOthers

\* FdInv says enough about both properties.
LEMMA FdInvImplies == FdInv => DescriptorsOwned /\ NoCrossTalk
  BY DEF FdInv, ServerPhases, ExactTable, NotOthers, TableTypes, Held, DescriptorsOwned, NoCrossTalk, Own

\* It holds when the process starts.
LEMMA FdInvInit == LifeInit => FdInv
<1> SUFFICES ASSUME LifeInit PROVE FdInv
  OBVIOUS
<1> USE DEF LifeInit, ServerInit, Held, InHand
<1>1. TableTypes
  <2>1. 0 \in 0..MaxFd
    BY ServerAssumption
  <2>2. wfd \in [Conn -> 0..MaxFd] /\ file \in 0..MaxFd
    BY <2>1
  <2>3. fds \in [Fd -> Conn \cup {Free, File}]
    OBVIOUS
  <2>4. serving \in BOOLEAN /\ listening \in BOOLEAN /\ running \in BOOLEAN
    OBVIOUS
  <2> QED
    BY <2>2, <2>3, <2>4 DEF TableTypes
<1>2. ServerPhases
  BY DEF ServerPhases
<1>3. OnePlace /\ ExactTable /\ NotOthers
  BY DEF OnePlace, ExactTable, NotOthers
<1> QED
  BY <1>1, <1>2, <1>3 DEF FdInv

\* close takes at most one number away and revives no connection.
LEMMA CloseFacts ==
  ASSUME TableTypes, NEW f, Close(f)
  PROVE  /\ fds' \in [Fd -> Conn \cup {Free, File}]
         /\ \A g \in Fd : fds'[g] = fds[g] \/ fds'[g] = Free
         /\ sock' \in [Conn -> {"none", "open", "fin", "rst", "shut", "closed"}]
         /\ \A c \in Conn : sock'[c] = "none" <=> sock[c] = "none" /\ fds[f] # c
  BY DEF TableTypes, Close

\* main touches no descriptor; it starts the server before Stop can run.
LEMMA FdMain ==
  ASSUME FdInv, Main PROVE FdInv'
<1> USE ServerAssumption
    DEF FdInv, TableTypes, ServerPhases, OnePlace, ExactTable, NotOthers, Held, InHand,
        Conn, Fd, Free, File, MainGoes,
        serverVars, flagVars, netVars, acceptVars, workerVars, stopVars
<1>1. CASE SpawnStopThread
  BY <1>1 DEF SpawnStopThread
<1>2. CASE StartServer
  BY <1>2 DEF StartServer, ServerStart
<1>3. CASE StartFails
  BY <1>3 DEF StartFails
<1>4. CASE SetRunning
  BY <1>4 DEF SetRunning
<1>5. CASE SetBalancer
  BY <1>5 DEF SetBalancer
<1>6. CASE SpawnBalancer
  BY <1>6 DEF SpawnBalancer
<1>7. CASE CvTest \/ CvBlock
  BY <1>7 DEF CvTest, CvBlock
<1>8. CASE JoinStopThread
  BY <1>8 DEF JoinStopThread
<1>9. CASE Destroy
  BY <1>9 DEF Destroy
<1> QED
  BY <1>1, <1>2, <1>3, <1>4, <1>5, <1>6, <1>7, <1>8, <1>9 DEF Main

\* RpcServer::Stop closes numbers that workers still hold.
LEMMA FdServerStop ==
  ASSUME FdInv, tpc = "server", ServerStop,
         tpc' = IF spc' = "done" THEN "joinBalancer" ELSE tpc,
         UNCHANGED <<master, g_stop, running, balancer_running, mpc, bpc, resources, file>> PROVE FdInv'
<1> USE ServerAssumption
    DEF FdInv, TableTypes, ServerPhases, OnePlace, ExactTable, NotOthers, Held, InHand,
        Conn, Fd, Free, File, StopGoes,
        serverVars, flagVars, netVars, acceptVars, workerVars, stopVars
<1>1. CASE StopFlag
  BY <1>1 DEF StopFlag
<1>2. CASE StopListen
  BY <1>2 DEF StopListen
<1>3. CASE StopShutdown
  BY <1>3 DEF StopShutdown
<1>4. CASE StopClose
  <2>1. Close(client_fds[swept])
    BY <1>4 DEF StopClose
  <2>2. \A g \in Fd : fds'[g] = fds[g] \/ fds'[g] = Free
    BY <2>1, CloseFacts
  <2>3. fds' \in [Fd -> Conn \cup {Free, File}]
    BY <2>1, CloseFacts
  <2>4. sock' = [c \in Conn |-> IF fds[client_fds[swept]] = c THEN "closed" ELSE sock[c]]
    BY <2>1 DEF Close
  <2>5. /\ spc = "close" /\ spc' = "sweep"
        /\ UNCHANGED <<apc, accepted, wpc, wfd, serving, listening, backlog, tpc, mpc, running, file>>
    BY <1>4 DEF StopClose
  <2>6. TableTypes'
    BY <2>3, <2>4, <2>5
  <2>7. OnePlace'
    <3>1. \A c \in Conn : sock'[c] = "none" => sock[c] = "none"
      BY <2>4
    <3>2. \A c \in Conn : sock[c] # "none" => sock'[c] # "none"
      BY <2>4
    <3> QED
      BY <2>5, <3>1, <3>2
  <2>8. NotOthers'
    <3>1. Free \notin Conn
      OBVIOUS
    <3>2. ASSUME NEW c \in Conn, Held(c)' PROVE fds'[wfd'[c]] \notin Conn \ {c}
      <4>1. Held(c) /\ wfd[c] \in Fd /\ wfd'[c] = wfd[c] /\ fds[wfd[c]] \notin Conn \ {c}
        BY <2>5, <3>2
      <4> QED
        BY ONLY <2>2, <3>1, <4>1
    <3>3. ASSUME InHand' PROVE fds'[accepted'.fd] \notin Conn \ {accepted'.conn}
      <4>1. /\ accepted' = accepted /\ accepted.fd \in Fd
            /\ fds[accepted.fd] \notin Conn \ {accepted.conn}
        BY <2>5, <3>3
      <4> QED
        BY ONLY <2>2, <3>1, <4>1
    <3> QED
      BY <3>2, <3>3 DEF NotOthers
  <2> QED
    BY <2>5, <2>6, <2>7, <2>8
<1>5. CASE StopClear
  BY <1>5 DEF StopClear
<1>6. CASE StopJoinAccept
  BY <1>6 DEF StopJoinAccept
<1>7. CASE StopJoinWorkers
  BY <1>7 DEF StopJoinWorkers
<1> QED
  BY <1>1, <1>2, <1>3, <1>4, <1>5, <1>6, <1>7 DEF ServerStop

\* RaftNode::Stop.
LEMMA FdStop ==
  ASSUME FdInv, Stop PROVE FdInv'
<1> USE ServerAssumption
    DEF FdInv, TableTypes, ServerPhases, OnePlace, ExactTable, NotOthers, Held, InHand,
        Conn, Fd, Free, File, ThreadGoes,
        serverVars, flagVars, netVars, acceptVars, workerVars, stopVars
<1>1. CASE StopCheck
  BY <1>1 DEF StopCheck
<1>2. CASE ClearRunning
  BY <1>2 DEF ClearRunning
<1>3. CASE NotifyAll
  BY <1>3 DEF NotifyAll
<1>4. CASE StopServer
  BY <1>4, FdServerStop DEF StopServer
<1>5. CASE JoinBalancer
  BY <1>5 DEF JoinBalancer
<1>6. CASE Release
  BY <1>6 DEF Release
<1> QED
  BY <1>1, <1>2, <1>3, <1>4, <1>5, <1>6 DEF Stop

\* The accept thread gives a free number to a connection without a worker.
LEMMA FdAccept ==
  ASSUME FdInv, AcceptLoop, UNCHANGED nodeVars PROVE FdInv'
<1> USE ServerAssumption
    DEF FdInv, TableTypes, ServerPhases, OnePlace, ExactTable, NotOthers, Held, InHand,
        Conn, Fd, Free, File, nodeVars,
        serverVars, flagVars, netVars, acceptVars, workerVars, stopVars
<1>1. CASE Accept
  BY <1>1 DEF Accept, LowestFree, FreeFds
<1>2. CASE AcceptFails
  BY <1>2 DEF AcceptFails
<1>3. CASE AcceptPush
  BY <1>3 DEF AcceptPush
<1>4. CASE AcceptSpawn
  BY <1>4 DEF AcceptSpawn
<1> QED
  BY <1>1, <1>2, <1>3, <1>4 DEF AcceptLoop

\* A worker closes its own number, once.
LEMMA FdWorker ==
  ASSUME FdInv, NEW c \in Conn, HandleClient(c), UNCHANGED nodeVars PROVE FdInv'
<1> USE ServerAssumption
    DEF FdInv, TableTypes, ServerPhases, OnePlace, ExactTable, NotOthers, Held, InHand,
        Conn, Fd, Free, File, WorkerGoes, Again, nodeVars,
        serverVars, flagVars, netVars, acceptVars, workerVars, stopVars
<1>1. CASE WorkerStart(c)
  BY <1>1 DEF WorkerStart
<1>2. CASE RecvFrame(c)
  BY <1>2 DEF RecvFrame
<1>3. CASE RecvFails(c)
  BY <1>3 DEF RecvFails
<1>4. CASE Send(c)
  BY <1>4 DEF Send
<1>5. CASE SendFails(c)
  BY <1>5 DEF SendFails
<1>6. CASE SendKills(c)
  BY <1>6 DEF SendKills
<1>7. CASE WorkerClose(c)
  BY <1>7 DEF WorkerClose, Close
<1>8. CASE WorkerErase(c)
  BY <1>8 DEF WorkerErase
<1> QED
  BY <1>1, <1>2, <1>3, <1>4, <1>5, <1>6, <1>7, <1>8 DEF HandleClient

\* Clients, the signal, the balancer and files.
LEMMA FdOthers ==
  ASSUME FdInv, Signal \/ BalancerLoop \/ OpenFile \/ CloseFile PROVE FdInv'
<1> USE ServerAssumption
    DEF FdInv, TableTypes, ServerPhases, OnePlace, ExactTable, NotOthers, Held, InHand,
        Conn, Fd, Free, File, nodeVars,
        serverVars, flagVars, netVars, acceptVars, workerVars, stopVars
<1>1. CASE Signal
  BY <1>1 DEF Signal
<1>2. CASE BalancerLoop
  BY <1>2 DEF BalancerLoop
<1>3. CASE OpenFile
  BY <1>3 DEF OpenFile, LowestFree, FreeFds
<1>4. CASE CloseFile
  BY <1>4 DEF CloseFile, Close
<1> QED
  BY <1>1, <1>2, <1>3, <1>4 DEF Fd

\* A client connects once.
LEMMA FdClient ==
  ASSUME FdInv, NEW c \in Conn, Client(c) PROVE FdInv'
<1> USE ServerAssumption
    DEF FdInv, TableTypes, ServerPhases, OnePlace, ExactTable, NotOthers, Held, InHand,
        Conn, Fd, Free, File, nodeVars,
        serverVars, flagVars, netVars, acceptVars, workerVars, stopVars
<1>1. CASE Connect(c)
  BY <1>1 DEF Connect, Client
<1>2. CASE SendRequest(c)
  BY <1>2 DEF SendRequest, Client
<1>3. CASE Disconnect(c)
  BY <1>3 DEF Disconnect, Client
<1> QED
  BY <1>1, <1>2, <1>3 DEF Client

\* FdInv is inductive.
LEMMA FdInvNext ==
  ASSUME FdInv, [LifeNext]_lifeVars PROVE FdInv'
<1>1. CASE LifeNext
  BY <1>1, FdMain, FdStop, FdAccept, FdWorker, FdOthers, FdClient
     DEF LifeNext, Accepting, Working
<1>2. CASE UNCHANGED lifeVars
  BY <1>2 DEF FdInv, TableTypes, ServerPhases, OnePlace, ExactTable, NotOthers, Held, InHand,
              lifeVars, nodeVars, serverVars, flagVars, netVars, acceptVars, workerVars, stopVars
<1> QED
  BY <1>1, <1>2

\* While the server runs every worker's descriptor is its own connection and
\* every file's descriptor the file, for any number of connections and
\* descriptors and SIGINT at any time.
THEOREM DescriptorsOwnedAlways == LifeSpec => []DescriptorsOwned
<1>1. FdInv => DescriptorsOwned
  BY FdInvImplies
<1> QED
  BY <1>1, FdInvInit, FdInvNext, PTL DEF LifeSpec

\* No worker ever holds the number of another worker's connection, also while
\* Stop closes connections under the workers.
THEOREM NoCrossTalkAlways == LifeSpec => []NoCrossTalk
<1>1. FdInv => NoCrossTalk
  BY FdInvImplies
<1> QED
  BY <1>1, FdInvInit, FdInvNext, PTL DEF LifeSpec


(***************************************************************************)
(* Types of what FdInv does not speak of.                                  *)
(***************************************************************************)
RestTypes ==
    /\ proc \in {"up", "exit", "terminate", "sigpipe"}
    /\ master \in BOOLEAN /\ g_stop \in BOOLEAN /\ balancer_running \in BOOLEAN
    /\ client_fds \in Seq(Fd)
    /\ inbox \in [Conn -> 0..MaxRequests]

\* Erasing an element leaves a sequence of descriptors.
LEMMA RemoveFirstType ==
  ASSUME NEW s \in Seq(Fd), NEW e PROVE RemoveFirst(s, e) \in Seq(Fd)
<1>1. ASSUME NEW i \in 1..Len(s) PROVE RemoveAt(s, i) \in Seq(Fd)
  <2>1. SubSeq(s, 1, i - 1) \in Seq(Fd) /\ SubSeq(s, i + 1, Len(s)) \in Seq(Fd)
    OBVIOUS
  <2> QED
    BY <2>1 DEF RemoveAt
<1>2. ASSUME NEW I \in SUBSET Nat, I # {} PROVE Min(I) \in I
  <2> DEFINE R == OpToRel(<, Nat)
  <2>1. IsWellFoundedOn(R, Nat)
    BY NatLessThanWellFounded
  <2>2. \A x, y \in I : y < x => <<y, x>> \in R
    BY DEF OpToRel
  <2> HIDE DEF R
  <2>3. PICK x \in I : \A y \in I : ~ (<<y, x>> \in R)
    BY <1>2, <2>1, WFMin, Zenon
  <2>4. ASSUME NEW y \in I PROVE x =< y
    <3>1. ~ (y < x)
      BY <2>2, <2>3, Zenon
    <3>2. x \in Nat /\ y \in Nat
      OBVIOUS
    <3> QED
      BY <3>1, <3>2
  <2> QED
    BY <2>4 DEF Min
<1>3. CASE \E i \in 1..Len(s) : s[i] = e
  <2> DEFINE I == {i \in 1..Len(s) : s[i] = e}
  <2>1. I # {} /\ I \in SUBSET Nat
    BY <1>3
  <2>2. RemoveFirst(s, e) = RemoveAt(s, Min(I))
    BY <1>3, <2>1 DEF RemoveFirst, SelectInSeq
  <2>3. Min(I) \in 1..Len(s)
    BY <1>2, <2>1
  <2> QED
    BY <1>1, <2>2, <2>3
<1> QED
  BY <1>3 DEF RemoveFirst

\* close empties an inbox at most.
LEMMA CloseInbox ==
  ASSUME RestTypes, NEW f, Close(f) PROVE inbox' \in [Conn -> 0..MaxRequests]
<1>1. 0 \in 0..MaxRequests
  BY ServerAssumption
<1> QED
  BY <1>1 DEF RestTypes, Close

\* Every step keeps these types.
LEMMA RestTypesNext ==
  ASSUME FdInv, RestTypes, [LifeNext]_lifeVars PROVE RestTypes'
<1> USE DEF flagVars, netVars, acceptVars, workerVars, stopVars, serverVars, nodeVars
<1>1. client_fds' \in Seq(Fd)
  <2>1. CASE client_fds' = client_fds
    BY <2>1 DEF RestTypes
  <2>2. CASE AcceptPush
    <3>1. accepted.fd \in Fd
      BY <2>2 DEF AcceptPush, FdInv, TableTypes, InHand
    <3> QED
      BY <2>2, <3>1 DEF AcceptPush, RestTypes
  <2>3. ASSUME NEW c \in Conn, WorkerErase(c) PROVE client_fds' \in Seq(Fd)
    BY <2>3, RemoveFirstType DEF WorkerErase, RestTypes
  <2>4. CASE StopClear
    BY <2>4 DEF StopClear
  <2>5. \/ client_fds' = client_fds \/ AcceptPush \/ StopClear
        \/ \E c \in Conn : WorkerErase(c)
    <3>1. Main => client_fds' = client_fds
      BY DEF Main, SpawnStopThread, StartServer, StartFails, SetRunning, SetBalancer, SpawnBalancer,
             CvTest, CvBlock, JoinStopThread, Destroy, ServerStart
    <3>2. Stop => client_fds' = client_fds \/ StopClear
      BY DEF Stop, StopCheck, ClearRunning, NotifyAll, StopServer, JoinBalancer, Release, ServerStop,
             StopFlag, StopListen, StopShutdown, StopClose, StopJoinAccept, StopJoinWorkers
    <3>3. Signal \/ BalancerLoop \/ OpenFile \/ CloseFile => client_fds' = client_fds
      BY DEF Signal, BalancerLoop, OpenFile, CloseFile
    <3>4. Accepting => client_fds' = client_fds \/ AcceptPush
      BY DEF Accepting, AcceptLoop, Accept, AcceptFails, AcceptSpawn
    <3>5. \A c \in Conn : Working(c) => client_fds' = client_fds \/ WorkerErase(c)
      BY DEF Working, HandleClient, WorkerStart, RecvFrame, RecvFails, Send, SendFails, SendKills,
             WorkerClose, WorkerGoes
    <3>6. \A c \in Conn : Client(c) => client_fds' = client_fds
      BY DEF Client, Connect, SendRequest, Disconnect
    <3> QED
      BY <3>1, <3>2, <3>3, <3>4, <3>5, <3>6 DEF LifeNext, lifeVars
  <2> QED
    BY <2>1, <2>2, <2>3, <2>4, <2>5
<1>2. inbox' \in [Conn -> 0..MaxRequests]
  <2>0. MaxRequests \in Nat /\ inbox \in [Conn -> 0..MaxRequests]
    BY ServerAssumption DEF RestTypes
  <2>1. Main => inbox' = inbox
    BY DEF Main, SpawnStopThread, StartServer, StartFails, SetRunning, SetBalancer, SpawnBalancer,
           CvTest, CvBlock, JoinStopThread, Destroy, ServerStart
  <2>2. CASE Stop
    <3>1. CASE inbox' = inbox
      BY <2>0, <3>1
    <3>2. CASE StopListen
      BY <2>0, <3>2 DEF StopListen
    <3>3. CASE StopClose
      BY <3>3, CloseInbox DEF StopClose
    <3> QED
      BY <2>2, <3>1, <3>2, <3>3
         DEF Stop, StopCheck, ClearRunning, NotifyAll, StopServer, JoinBalancer, Release, ServerStop,
             StopFlag, StopShutdown, StopClear, StopJoinAccept, StopJoinWorkers
  <2>3. CASE Signal \/ BalancerLoop \/ OpenFile \/ CloseFile
    BY <2>0, <2>3, CloseInbox DEF Signal, BalancerLoop, OpenFile, CloseFile
  <2>4. Accepting => inbox' = inbox
    BY DEF Accepting, AcceptLoop, Accept, AcceptFails, AcceptPush, AcceptSpawn
  <2>5. ASSUME NEW c \in Conn, Working(c) PROVE inbox' \in [Conn -> 0..MaxRequests]
    <3>1. CASE RecvFrame(c)
      BY <2>0, <3>1 DEF RecvFrame
    <3>2. CASE WorkerClose(c)
      BY <3>2, CloseInbox DEF WorkerClose
    <3> QED
      BY <2>0, <2>5, <3>1, <3>2
         DEF Working, HandleClient, WorkerStart, RecvFails, Send, SendFails, SendKills, WorkerErase
  <2>6. ASSUME NEW c \in Conn, Client(c) PROVE inbox' \in [Conn -> 0..MaxRequests]
    BY <2>0, <2>6 DEF Client, Connect, SendRequest, Disconnect
  <2>7. CASE UNCHANGED lifeVars
    BY <2>0, <2>7 DEF lifeVars
  <2> QED
    BY <2>0, <2>1, <2>2, <2>3, <2>4, <2>5, <2>6, <2>7 DEF LifeNext
<1>3. /\ proc' = proc \/ proc' \in {"exit", "terminate", "sigpipe"}
      /\ master' = master
      /\ g_stop' = g_stop \/ g_stop' = TRUE
      /\ balancer_running' = balancer_running \/ balancer_running' = TRUE \/ balancer_running' = FALSE
  <2>1. CASE Main
    BY <2>1 DEF Main, SpawnStopThread, StartServer, StartFails, SetRunning, SetBalancer, SpawnBalancer,
           CvTest, CvBlock, JoinStopThread, Destroy, ServerStart, MainGoes
  <2>2. CASE Stop
    BY <2>2 DEF Stop, StopCheck, ClearRunning, NotifyAll, StopServer, JoinBalancer, Release, ServerStop,
             StopFlag, StopListen, StopShutdown, StopClose, StopClear, StopJoinAccept,
             StopJoinWorkers, ThreadGoes, StopGoes
  <2>3. CASE Signal \/ BalancerLoop \/ OpenFile \/ CloseFile
    BY <2>3 DEF Signal, BalancerLoop, OpenFile, CloseFile
  <2>4. CASE Accepting
    BY <2>4 DEF Accepting, AcceptLoop, Accept, AcceptFails, AcceptPush, AcceptSpawn
  <2>5. ASSUME NEW c \in Conn, Working(c) \/ Client(c)
        PROVE  <1>3!:
    BY <2>5 DEF Working, HandleClient, WorkerStart, RecvFrame, RecvFails, Send, SendFails, SendKills,
           WorkerClose, WorkerErase, Client, Connect, SendRequest, Disconnect
  <2>6. CASE UNCHANGED lifeVars
    BY <2>6 DEF lifeVars
  <2> QED
    BY <2>1, <2>2, <2>3, <2>4, <2>5, <2>6 DEF LifeNext
<1>4. /\ proc' \in {"up", "exit", "terminate", "sigpipe"}
      /\ master' \in BOOLEAN /\ g_stop' \in BOOLEAN /\ balancer_running' \in BOOLEAN
  BY <1>3, Zenon DEF RestTypes
<1> QED
  BY <1>1, <1>2, <1>4 DEF RestTypes

\* Every variable the threads share keeps its type and its range: client_fds_
\* holds descriptors only, no inbox overflows its bound.
THEOREM LifeTypesAlways == LifeSpec => []LifeTypeOK
<1>1. ASSUME LifeInit PROVE RestTypes
  <2>1. inbox \in [Conn -> 0..MaxRequests] /\ client_fds \in Seq(Fd)
    BY <1>1, ServerAssumption DEF LifeInit, ServerInit
  <2>2. master \in BOOLEAN /\ g_stop \in BOOLEAN /\ balancer_running \in BOOLEAN
    BY <1>1, Zenon DEF LifeInit
  <2>3. proc \in {"up", "exit", "terminate", "sigpipe"}
    BY <1>1 DEF LifeInit, ServerInit
  <2> QED
    BY <2>1, <2>2, <2>3 DEF RestTypes
<1>2. FdInv /\ RestTypes => LifeTypeOK
  BY Zenon DEF FdInv, TableTypes, RestTypes, LifeTypeOK
<1>3. FdInv /\ RestTypes /\ [LifeNext]_lifeVars => RestTypes'
  BY RestTypesNext
<1>4. FdInv /\ [LifeNext]_lifeVars => FdInv'
  BY FdInvNext
<1> QED
  BY <1>1, <1>2, <1>3, <1>4, FdInvInit, PTL DEF LifeSpec
=============================================================================
