----------------------------- MODULE RpcServer -----------------------------
(***************************************************************************)
(* The threads of BinaryRpcServer (rpc_server.cpp): the accept thread, one *)
(* worker per connection, and the thread that calls Stop, with the file    *)
(* descriptors they share.  A descriptor is a number: the kernel gives out *)
(* the lowest free one, so a number that was closed comes back as          *)
(* something else.                                                         *)
(***************************************************************************)
EXTENDS Integers, SequencesExt

CONSTANTS
    MaxConn,       \* connections clients may open: 1..MaxConn, in this order
    MaxFd,         \* descriptors are 1..MaxFd
    MaxRequests    \* requests a connection may have waiting

ASSUME ServerAssumption ==
    /\ MaxConn \in Nat /\ MaxConn > 0
    /\ MaxFd \in Nat /\ MaxFd > 0
    /\ MaxRequests \in Nat /\ MaxRequests > 0

Conn == 1..MaxConn
Fd == 1..MaxFd

\* What a descriptor can be besides a connection.
Free == 0
File == -1

VARIABLES
    proc,         \* the process: "up", or how it ended
    serving,      \* running_ of RpcServer
    listening,    \* listen_fd_ is open
    client_fds,   \* client_fds_
    fds,          \* descriptor table: Free, File, or the connection
    sock,         \* connection: "none", "open", "fin" (peer closed), "rst"
                  \*   (peer refuses data), "shut" (shut down here), "closed"
    backlog,      \* connected and not yet accepted
    inbox,        \* requests received and not yet read
    apc,          \* accept thread: "none", "accept", "push", "spawn", "done"
    accepted,     \* client_fd of AcceptLoop and its connection
    wpc,          \* worker: "none", "start", "recv", "handle", "close", "erase",
                  \*   "done"
    wfd,          \* client_fd of HandleClient
    spc,          \* Stop: "none", "listen", "sweep", "close",
                  \*   "joinAccept", "joinWorkers", "done"
    swept         \* position of Stop's loop in client_fds_

netVars == <<fds, sock, backlog, inbox>>
acceptVars == <<apc, accepted>>
workerVars == <<wpc, wfd>>
stopVars == <<spc, swept>>
flagVars == <<proc, serving, listening>>
serverVars == <<flagVars, client_fds, netVars, acceptVars, workerVars, stopVars>>

ServerInit ==
    /\ proc = "up" /\ serving = FALSE /\ listening = FALSE
    /\ client_fds = <<>>
    /\ fds = [f \in Fd |-> Free]
    /\ sock = [c \in Conn |-> "none"]
    /\ backlog = {}
    /\ inbox = [c \in Conn |-> 0]
    /\ apc = "none" /\ accepted = [fd |-> 0, conn |-> 0]
    /\ wpc = [c \in Conn |-> "none"] /\ wfd = [c \in Conn |-> 0]
    /\ spc = "none" /\ swept = 0

(***************************************************************************)
(* Descriptors                                                             *)
(***************************************************************************)
FreeFds == {f \in Fd : fds[f] = Free}
LowestFree(f) == f \in FreeFds /\ \A g \in FreeFds : f <= g

\* close(f), whatever f is by now.
Close(f) ==
    /\ fds' = [fds EXCEPT ![f] = Free]
    /\ sock' = [c \in Conn |-> IF fds[f] = c THEN "closed" ELSE sock[c]]
    /\ inbox' = [c \in Conn |-> IF fds[f] = c THEN 0 ELSE inbox[c]]

\* client_mutex_ is held for more than one step only by Stop's loop.
ClientMutexFree == spc \notin {"sweep", "close"}

(***************************************************************************)
(* Clients                                                                 *)
(***************************************************************************)
Connect(c) ==
    /\ listening
    /\ sock[c] = "none"
    /\ \A d \in 1..(c - 1) : sock[d] # "none"
    /\ sock' = [sock EXCEPT ![c] = "open"]
    /\ backlog' = backlog \cup {c}
    /\ UNCHANGED <<flagVars, client_fds, fds, inbox, acceptVars, workerVars, stopVars>>

SendRequest(c) ==
    /\ sock[c] = "open"
    /\ inbox[c] < MaxRequests
    /\ inbox' = [inbox EXCEPT ![c] = @ + 1]
    /\ UNCHANGED <<flagVars, client_fds, fds, sock, backlog, acceptVars, workerVars, stopVars>>

Disconnect(c) ==
    /\ sock[c] = "open"
    /\ sock' = [sock EXCEPT ![c] = "fin"]
    /\ UNCHANGED <<flagVars, client_fds, fds, backlog, inbox, acceptVars, workerVars, stopVars>>

(***************************************************************************)
(* The accept thread                                                       *)
(***************************************************************************)
ServerStart ==
    /\ serving' = TRUE
    /\ listening' = TRUE
    /\ apc' = "accept"
    /\ UNCHANGED <<proc, client_fds, netVars, accepted, workerVars, stopVars>>

Accept ==
    /\ apc = "accept"
    /\ listening
    /\ \E c \in backlog, f \in Fd :
          /\ LowestFree(f)
          /\ fds' = [fds EXCEPT ![f] = c]
          /\ backlog' = backlog \ {c}
          /\ accepted' = [fd |-> f, conn |-> c]
    /\ apc' = "push"
    /\ UNCHANGED <<flagVars, client_fds, sock, inbox, workerVars, stopVars>>

\* A slip: the result of accept is not checked.
AcceptFailsUnchecked ==
    /\ apc = "accept"
    /\ ~listening
    /\ apc' = "push"
    /\ accepted' = [fd |-> -1, conn |-> 1]
    /\ UNCHANGED <<flagVars, client_fds, netVars, workerVars, stopVars>>

\* accept fails: the listening socket is shut down or closed.
AcceptFails ==
    /\ apc = "accept"
    /\ ~listening
    /\ apc' = IF serving THEN "accept" ELSE "done"
    /\ UNCHANGED <<flagVars, client_fds, netVars, accepted, workerVars, stopVars>>

AcceptPush ==
    /\ apc = "push"
    /\ ClientMutexFree
    /\ client_fds' = Append(client_fds, accepted.fd)
    /\ apc' = "spawn"
    /\ UNCHANGED <<flagVars, netVars, accepted, workerVars, stopVars>>

AcceptSpawn ==
    /\ apc = "spawn"
    /\ wpc' = [wpc EXCEPT ![accepted.conn] = "start"]
    /\ wfd' = [wfd EXCEPT ![accepted.conn] = accepted.fd]
    /\ apc' = IF serving THEN "accept" ELSE "done"   \* while (running_)
    /\ accepted' = [fd |-> 0, conn |-> 0]
    /\ UNCHANGED <<flagVars, client_fds, netVars, stopVars>>

AcceptLoop ==
    Accept \/ AcceptFails \/ AcceptPush \/ AcceptSpawn

(***************************************************************************)
(* A worker                                                                *)
(***************************************************************************)
Own(c) == fds[wfd[c]] = c

WorkerGoes(c, from, to) ==
    /\ wpc[c] = from
    /\ wpc' = [wpc EXCEPT ![c] = to]
    /\ UNCHANGED <<wfd, client_fds, acceptVars, stopVars>>

\* while (running_)
Again == IF serving THEN "recv" ELSE "close"

WorkerStart(c) ==
    /\ WorkerGoes(c, "start", Again)
    /\ UNCHANGED <<flagVars, netVars>>

\* A whole frame has arrived; received data can be read after the peer closed
\* and after a shutdown.
RecvFrame(c) ==
    /\ WorkerGoes(c, "recv", "handle")
    /\ Own(c)
    /\ inbox[c] > 0
    /\ inbox' = [inbox EXCEPT ![c] = @ - 1]
    /\ UNCHANGED <<flagVars, fds, sock, backlog>>

\* End of file, a reset, or a descriptor that is no longer the connection.
RecvFails(c) ==
    /\ WorkerGoes(c, "recv", "close")
    /\ ~Own(c) \/ (inbox[c] = 0 /\ sock[c] \in {"fin", "rst", "shut"})
    /\ UNCHANGED <<flagVars, netVars>>

\* The handler has run and its reply is sent.  A peer that has closed answers
\* the first data with a reset.
Send(c) ==
    /\ WorkerGoes(c, "handle", Again)
    /\ Own(c)
    /\ sock[c] \in {"open", "fin"}
    /\ sock' = [sock EXCEPT ![c] = IF @ = "fin" THEN "rst" ELSE @]
    /\ UNCHANGED <<flagVars, fds, backlog, inbox>>

SendFails(c) ==
    /\ WorkerGoes(c, "handle", "close")
    /\ ~Own(c)
    /\ UNCHANGED <<flagVars, netVars>>

\* send without MSG_NOSIGNAL on a connection that cannot send any more.
SendKills(c) ==
    /\ WorkerGoes(c, "handle", "close")
    /\ Own(c)
    /\ sock[c] \in {"rst", "shut"}
    /\ proc' = "sigpipe"
    /\ UNCHANGED <<serving, listening, netVars>>

WorkerClose(c) ==
    /\ WorkerGoes(c, "close", "erase")
    /\ Close(wfd[c])
    /\ UNCHANGED <<flagVars, backlog>>

\* A slip: the descriptor is closed a second time.
WorkerEraseAndClose(c) ==
    /\ wpc[c] = "erase"
    /\ ClientMutexFree
    /\ wpc' = [wpc EXCEPT ![c] = "done"]
    /\ client_fds' = RemoveFirst(client_fds, wfd[c])
    /\ Close(wfd[c])
    /\ wfd' = [wfd EXCEPT ![c] = 0]
    /\ UNCHANGED <<flagVars, backlog, acceptVars, stopVars>>

WorkerErase(c) ==
    /\ wpc[c] = "erase"
    /\ ClientMutexFree
    /\ wpc' = [wpc EXCEPT ![c] = "done"]
    /\ client_fds' = RemoveFirst(client_fds, wfd[c])
    /\ wfd' = [wfd EXCEPT ![c] = 0]
    /\ UNCHANGED <<flagVars, netVars, acceptVars, stopVars>>

HandleClient(c) ==
    \/ WorkerStart(c) \/ RecvFrame(c) \/ RecvFails(c) \/ Send(c)
    \/ SendFails(c) \/ SendKills(c) \/ WorkerClose(c) \/ WorkerErase(c)

(***************************************************************************)
(* Stop                                                                    *)
(***************************************************************************)
StopGoes(from, to) ==
    /\ spc = from
    /\ spc' = to
    /\ UNCHANGED <<acceptVars, workerVars, proc>>

StopFlag ==
    /\ StopGoes("none", IF serving THEN "listen" ELSE "done")
    /\ serving' = FALSE
    /\ UNCHANGED <<listening, client_fds, netVars, swept>>

\* A slip: the listening socket stays open.
StopListenForgotten ==
    /\ StopGoes("listen", "sweep")
    /\ swept' = 1
    /\ UNCHANGED <<serving, listening, client_fds, netVars>>

\* Connections nobody accepted are reset.  Then client_mutex_ is taken.
StopListen ==
    /\ StopGoes("listen", "sweep")
    /\ swept' = 1
    /\ listening' = FALSE
    /\ sock' = [c \in Conn |-> IF c \in backlog THEN "closed" ELSE sock[c]]
    /\ inbox' = [c \in Conn |-> IF c \in backlog THEN 0 ELSE inbox[c]]
    /\ backlog' = {}
    /\ UNCHANGED <<serving, client_fds, fds>>

StopShutdown ==
    /\ swept <= Len(client_fds)
    /\ StopGoes("sweep", "close")
    /\ sock' = [c \in Conn |-> IF fds[client_fds[swept]] = c THEN "shut" ELSE sock[c]]
    /\ UNCHANGED <<serving, listening, client_fds, fds, backlog, inbox, swept>>

StopClose ==
    /\ StopGoes("close", "sweep")
    /\ Close(client_fds[swept])
    /\ swept' = swept + 1
    /\ UNCHANGED <<serving, listening, client_fds, backlog>>

StopClear ==
    /\ swept > Len(client_fds)
    /\ StopGoes("sweep", "joinAccept")
    /\ client_fds' = <<>>
    /\ swept' = 0
    /\ UNCHANGED <<serving, listening, netVars>>

StopJoinAccept ==
    /\ apc \in {"none", "done"}
    /\ StopGoes("joinAccept", "joinWorkers")
    /\ UNCHANGED <<serving, listening, client_fds, netVars, swept>>

\* A slip: the workers are not waited for.
StopJoinWorkersForgotten ==
    /\ StopGoes("joinWorkers", "done")
    /\ UNCHANGED <<serving, listening, client_fds, netVars, swept>>

StopJoinWorkers ==
    /\ \A c \in Conn : wpc[c] \in {"none", "done"}
    /\ StopGoes("joinWorkers", "done")
    /\ UNCHANGED <<serving, listening, client_fds, netVars, swept>>

ServerStop ==
    \/ StopFlag \/ StopListen \/ StopShutdown \/ StopClose
    \/ StopClear \/ StopJoinAccept \/ StopJoinWorkers
=============================================================================
