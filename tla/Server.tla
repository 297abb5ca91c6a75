------------------------------- MODULE Server -------------------------------
(***************************************************************************)
(* The server process as shipped: main() of src/server/main.c, the         *)
(* lifecycle of src/server/server_core.c, setup_socket and accept_client   *)
(* of src/server/server_network.c, the signal handler, and the part of     *)
(* src/common/logger.c that every one of them runs through: the filter on  *)
(* the level and the mutex around the write.                               *)
(*                                                                         *)
(* The process has one thread.  The signal handler runs on that thread, on *)
(* top of whatever it was doing, so its frames form a stack.  The kernel   *)
(* (descriptors, the listen queue) and the clients are the environment.    *)
(*                                                                         *)
(* LOG_xxx(...) is three steps of control: wait for log_mutex, write while *)
(* holding it, release it.  Calls that follow each other with no change of *)
(* state between them are one call.  No text is modelled.                  *)
(***************************************************************************)
EXTENDS Integers, Sequences, FiniteSets

CONSTANTS
    Conns,        \* the connections that clients may open
    Fds,          \* descriptor numbers left to the process after stdio
    MaxClients,   \* config.max_clients (option -c)
    Backlog,      \* MAX_PENDING_CONNECTIONS
    LevelOption,  \* config.log_level (option -l), any integer
    AcceptErrors  \* how accept may fail beside a lack of descriptors

ASSUME ServerAssumption ==
    /\ Fds \subseteq Nat \ {0, 1, 2}
    /\ MaxClients \in Nat
    /\ Backlog \in Nat \ {0}
    /\ LevelOption \in Int
    /\ AcceptErrors \subseteq {"ENOBUFS", "ECONNABORTED"}
    /\ {"free", "log", "socket", "listen"} \cap Conns = {}

VARIABLES
    pc,            \* where the thread is: the next thing main() does
    ret,           \* where it goes on when the LOG call it is in returns
    cleaning,      \* cleanup_server is running (its stop_server is the second)
    state,         \* context->state
    running,       \* server_running
    serverSocket,  \* context->server_socket
    sockets,       \* context->clients[i].socket
    count,         \* context->client_count
    setupSocket,   \* the local server_socket of setup_socket, then its result
    clientSocket,  \* the local client_socket of accept_client
    result,        \* what accept_client returned to the loop of start_server
    startResult,   \* what start_server returned to main()
    errno,         \* errno, as start_server reads it
    fdTable,       \* what each descriptor refers to
    backlog,       \* the listen queue of the kernel
    conn,          \* each connection as its client sees it
    logFile,       \* log_file: its descriptor, or NULL
    minimumLevel,  \* minimum_level
    logMutex,      \* log_mutex: who holds it
    frames,        \* signal handler frames on the thread, innermost last
    installed,     \* start_server has installed the handler
    delivered      \* signals delivered so far

ctxVars  == <<state, serverSocket, sockets, count>>
locVars  == <<setupSocket, clientSocket, result, startResult, errno>>
kernVars == <<fdTable, backlog, conn>>
logVars  == <<logFile, minimumLevel, logMutex>>
sigVars  == <<running, frames, installed, delivered>>
dataVars == <<cleaning, ctxVars, locVars, kernVars, logVars, sigVars>>
vars == <<pc, ret, dataVars>>

-----------------------------------------------------------------------------
(* Values *)

NULL == -1
NONE == "none"

LOG_TRACE == 0
LOG_DEBUG == 1
LOG_INFO  == 2
LOG_WARN  == 3
LOG_ERROR == 4
LOG_FATAL == 5

NOT_RETURNED        == 1
SUCCESS             == 0
ERROR_SOCKET_CREATE == -1
ERROR_SOCKET_BIND   == -2
ERROR_SOCKET_LISTEN == -3
ERROR_SOCKET_ACCEPT == -4
ERROR_INVALID_STATE == -9
ERROR_TIMEOUT       == -10
SetupErrors == {ERROR_SOCKET_CREATE, ERROR_SOCKET_BIND, ERROR_SOCKET_LISTEN}
Errnos == {"0", "EAGAIN", "EMFILE", "ENOBUFS", "ECONNABORTED", "EINTR"}

ServerStates == {"NO_CONTEXT", "SERVER_STATE_INIT", "SERVER_RUNNING",
                 "SERVER_STOPPING", "SERVER_STOPPED", "FREED"}

\* SIGINT and SIGTERM share the handler; sa_mask is empty, so each blocks
\* only itself while its handler runs.
Signals == {"SIGINT", "SIGTERM"}

\* The three error branches of setup_socket that close what it has opened.
AbandonLabels == {"no_option", "not_bound", "not_listening"}

Labels == {"boot", "alloc", "start", "install", "setup", "setsockopt", "bind",
           "listen", "setup_return", "serve", "loop",
           "accept", "poll_sleep", "register", "reject", "check_errno",
           "idle_sleep", "stop", "stop_listen", "stop_clients",
           "start_return", "free", "close_logger", "fclose", "fclosed", "exited",
           "log_lock", "log_held"} \cup AbandonLabels

Slots == 0 .. (MaxClients - 1)
Registered == {i \in Slots : i < count}

\* The descriptor the kernel hands out: the lowest one that is free.
LowestFree(fd) ==
    /\ fdTable[fd] = "free"
    /\ \A g \in Fds : fdTable[g] = "free" => fd <= g

NoFreeFd == \A g \in Fds : fdTable[g] # "free"

Listening == \E fd \in Fds : fdTable[fd] = "listen"

Init ==
    /\ pc = "boot" /\ ret = "boot" /\ cleaning = FALSE
    /\ state = "NO_CONTEXT" /\ serverSocket = NULL
    /\ sockets = [i \in Slots |-> 0] /\ count = 0
    /\ setupSocket = NULL /\ clientSocket = NULL
    /\ result = SUCCESS /\ startResult = NOT_RETURNED
    /\ errno = "0"
    /\ fdTable = [fd \in Fds |-> "free"]
    /\ backlog = <<>> /\ conn = [c \in Conns |-> "idle"]
    /\ logFile = NULL /\ minimumLevel = LOG_INFO /\ logMutex = NONE
    /\ running = TRUE /\ frames = <<>> /\ installed = FALSE /\ delivered = {}

-----------------------------------------------------------------------------
(* log_message, called from main() *)

\* The thread is at l: main() runs only while no handler frame is on top.
At(l) == pc = l /\ frames = <<>>

Goto(l) == pc' = l /\ ret' = ret

\* LOG_xxx(...) and then l: a level below minimum_level returns at once.
LogAbove(min, level, l) ==
    IF level < min THEN Goto(l) ELSE pc' = "log_lock" /\ ret' = l

LogThen(level, l) == LogAbove(minimumLevel, level, l)

LogLock ==
    /\ At("log_lock")
    /\ logMutex = NONE
    /\ logMutex' = "main"
    /\ Goto("log_held")
    /\ UNCHANGED <<cleaning, ctxVars, locVars, kernVars, logFile, minimumLevel, sigVars>>

LogUnlock ==
    /\ At("log_held")
    /\ logMutex' = NONE
    /\ Goto(ret)
    /\ UNCHANGED <<cleaning, ctxVars, locVars, kernVars, logFile, minimumLevel, sigVars>>

-----------------------------------------------------------------------------
(* main() up to start_server *)

ValidLevel == LOG_TRACE <= LevelOption /\ LevelOption <= LOG_FATAL

\* init_logger; main() ignores its result.  A level out of range leaves the
\* logger as it was; a log file that cannot be opened leaves the new level.
InitLogger ==
    /\ At("boot")
    /\ minimumLevel' = IF ValidLevel THEN LevelOption ELSE minimumLevel
    /\ \/ UNCHANGED <<logFile, fdTable>>
       \/ /\ ValidLevel
          /\ \E fd \in Fds :
                /\ LowestFree(fd)
                /\ logFile' = fd
                /\ fdTable' = [fdTable EXCEPT ![fd] = "log"]
    /\ LogAbove(minimumLevel', LOG_INFO, "alloc")
    /\ UNCHANGED <<cleaning, ctxVars, locVars, backlog, conn, logMutex, sigVars>>

\* initialize_server_context: calloc leaves server_socket and every slot 0.
\* When an allocation or a lock fails main() returns at once.
InitializeServerContext ==
    /\ At("alloc")
    /\ \/ /\ state' = "SERVER_STATE_INIT"
          /\ serverSocket' = 0
          /\ Goto("start")
       \/ /\ LogThen(LOG_ERROR, "exited")
          /\ UNCHANGED <<state, serverSocket>>
    /\ UNCHANGED <<cleaning, sockets, count, locVars, kernVars, logVars, sigVars>>

Start ==
    /\ At("start")
    /\ LogThen(LOG_INFO, "install")
    /\ UNCHANGED dataVars

InstallHandler ==
    /\ At("install")
    /\ installed' = TRUE
    /\ Goto("setup")
    /\ UNCHANGED <<cleaning, ctxVars, locVars, kernVars, logVars, running, frames, delivered>>

\* setup_socket, one step per call of the kernel.
CreateSocket ==
    /\ At("setup")
    /\ \/ \E fd \in Fds :
             /\ LowestFree(fd)
             /\ setupSocket' = fd
             /\ fdTable' = [fdTable EXCEPT ![fd] = "socket"]
          /\ Goto("setsockopt")
       \/ /\ setupSocket' = ERROR_SOCKET_CREATE
          /\ LogThen(LOG_ERROR, "setup_return")
          /\ UNCHANGED fdTable
    /\ UNCHANGED <<cleaning, ctxVars, clientSocket, result, startResult, errno, backlog, conn,
                   logVars, sigVars>>

SetSocketOption ==
    /\ At("setsockopt")
    /\ Goto("bind") \/ LogThen(LOG_ERROR, "no_option")
    /\ UNCHANGED dataVars

Bind ==
    /\ At("bind")
    /\ Goto("listen") \/ LogThen(LOG_ERROR, "not_bound")
    /\ UNCHANGED dataVars

Listen ==
    /\ At("listen")
    /\ \/ /\ fdTable' = [fdTable EXCEPT ![setupSocket] = "listen"]
          /\ LogThen(LOG_INFO, "setup_return")
       \/ /\ LogThen(LOG_ERROR, "not_listening")
          /\ UNCHANGED fdTable
    /\ UNCHANGED <<cleaning, ctxVars, locVars, backlog, conn, logVars, sigVars>>

SetupError(l) ==
    CASE l = "no_option"     -> ERROR_SOCKET_CREATE
      [] l = "not_bound"     -> ERROR_SOCKET_BIND
      [] l = "not_listening" -> ERROR_SOCKET_LISTEN

AbandonForgetsClose ==
    /\ \E l \in AbandonLabels : At(l) /\ setupSocket' = SetupError(l)
    /\ Goto("setup_return")
    /\ UNCHANGED <<cleaning, ctxVars, clientSocket, result, startResult, errno, kernVars,
                   logVars, sigVars>>

\* close(server_socket) and return of the error branch.
AbandonSocket ==
    /\ \E l \in AbandonLabels : At(l) /\ setupSocket' = SetupError(l)
    /\ fdTable' = [fdTable EXCEPT ![setupSocket] = "free"]
    /\ Goto("setup_return")
    /\ UNCHANGED <<cleaning, ctxVars, clientSocket, result, startResult, errno, backlog, conn,
                   logVars, sigVars>>

\* start_server stores the result, an error code too.
SetupReturn ==
    /\ At("setup_return")
    /\ serverSocket' = setupSocket
    /\ IF setupSocket < 0 THEN LogThen(LOG_ERROR, "start_return") ELSE Goto("serve")
    /\ UNCHANGED <<cleaning, state, sockets, count, locVars, kernVars, logVars, sigVars>>

Serve ==
    /\ At("serve")
    /\ state' = "SERVER_RUNNING"
    /\ LogThen(LOG_INFO, "loop")
    /\ UNCHANGED <<cleaning, serverSocket, sockets, count, locVars, kernVars, logVars, sigVars>>

-----------------------------------------------------------------------------
(* The loop of start_server, and accept_client *)

LoopOnlyWithRoom ==
    /\ At("loop")
    /\ IF ~running THEN Goto("stop")
       ELSE IF count >= MaxClients THEN Goto("idle_sleep")
       ELSE LogThen(LOG_DEBUG, "accept")
    /\ UNCHANGED dataVars

\* while (server_running), and the LOG_DEBUG at the top of the body.
Loop ==
    /\ At("loop")
    /\ IF running THEN LogThen(LOG_DEBUG, "accept") ELSE Goto("stop")
    /\ UNCHANGED dataVars

AcceptWouldBlock ==
    /\ At("accept")
    /\ backlog = <<>>
    /\ errno' = "EAGAIN"
    /\ result' = ERROR_TIMEOUT
    /\ Goto("poll_sleep")
    /\ UNCHANGED <<cleaning, ctxVars, setupSocket, clientSocket, startResult, kernVars, logVars,
                   sigVars>>

\* accept fails.  Without a descriptor or memory the connection stays in the
\* queue; one whose client has gone may be reported as aborted and is lost.
AcceptFails ==
    /\ At("accept")
    /\ backlog # <<>>
    /\ \/ /\ errno' = "EMFILE" /\ NoFreeFd
          /\ UNCHANGED backlog
       \/ /\ errno' = "ENOBUFS" /\ "ENOBUFS" \in AcceptErrors
          /\ UNCHANGED backlog
       \/ /\ errno' = "ECONNABORTED" /\ "ECONNABORTED" \in AcceptErrors
          /\ conn[Head(backlog)] = "left"
          /\ backlog' = Tail(backlog)
    /\ result' = ERROR_SOCKET_ACCEPT
    /\ LogThen(LOG_ERROR, "check_errno")
    /\ UNCHANGED <<cleaning, ctxVars, setupSocket, clientSocket, startResult, fdTable, conn,
                   logVars, sigVars>>

\* A successful accept leaves errno alone.
Accept ==
    /\ At("accept")
    /\ backlog # <<>>
    /\ \E fd \in Fds :
          /\ LowestFree(fd)
          /\ clientSocket' = fd
          /\ fdTable' = [fdTable EXCEPT ![fd] = Head(backlog)]
    /\ backlog' = Tail(backlog)
    /\ LogThen(LOG_INFO, "register")
    /\ UNCHANGED <<cleaning, ctxVars, setupSocket, result, startResult, errno, conn, logVars,
                   sigVars>>

AtCapacityOffByOne == count > MaxClients
AtCapacityTooEarly == count + 1 >= MaxClients
AtCapacity == count >= MaxClients

\* The part of accept_client under clients_mutex: this thread is the only
\* one that takes it.  Neither id nor active nor thread is written.
Register ==
    /\ At("register")
    /\ ~AtCapacity
    /\ sockets' = [sockets EXCEPT ![count] = clientSocket]
    /\ count' = count + 1
    /\ result' = SUCCESS
    /\ Goto("loop")
    /\ UNCHANGED <<cleaning, state, serverSocket, setupSocket, clientSocket, startResult, errno,
                   kernVars, logVars, sigVars>>

RefuseForgetsConnection ==
    /\ At("register")
    /\ AtCapacity
    /\ Goto("check_errno")
    /\ UNCHANGED dataVars

RefuseAtLimit ==
    /\ At("register")
    /\ AtCapacity
    /\ LogThen(LOG_ERROR, "reject")
    /\ UNCHANGED dataVars

\* The client sees the end of its stream when the server closes its end.
CloseFds(S) ==
    /\ fdTable' = [fd \in Fds |-> IF fd \in S THEN "free" ELSE fdTable[fd]]
    /\ conn' = [c \in Conns |->
                   IF conn[c] = "open" /\ \E fd \in S \cap Fds : fdTable[fd] = c
                   THEN "closed" ELSE conn[c]]

\* close(client_socket) and return; errno is left as it was.
Reject ==
    /\ At("reject")
    /\ CloseFds({clientSocket})
    /\ result' = ERROR_INVALID_STATE
    /\ Goto("check_errno")
    /\ UNCHANGED <<cleaning, ctxVars, setupSocket, clientSocket, startResult, errno, backlog,
                   logVars, sigVars>>

\* start_server after accept_client returned an error.
CheckErrno ==
    /\ At("check_errno")
    /\ IF errno = "EAGAIN" THEN Goto("idle_sleep") ELSE LogThen(LOG_ERROR, "loop")
    /\ UNCHANGED dataVars

\* usleep(10000) of accept_client and usleep(9000000) of start_server.
Sleeping == pc \in {"poll_sleep", "idle_sleep"}
WakeUp == Goto(IF pc = "poll_sleep" THEN "check_errno" ELSE "loop")

SleepEnds ==
    /\ Sleeping /\ frames = <<>>
    /\ WakeUp
    /\ UNCHANGED dataVars

-----------------------------------------------------------------------------
(* stop_server, cleanup_server, the end of main() *)

StopServer ==
    /\ At("stop")
    /\ LogThen(LOG_INFO, "stop_listen")
    /\ UNCHANGED dataVars

StopKeepsSocketNumber ==
    /\ At("stop_listen")
    /\ state' = "SERVER_STOPPING"
    /\ fdTable' = [fd \in Fds |-> IF fd = serverSocket THEN "free" ELSE fdTable[fd]]
    /\ backlog' = <<>>
    /\ Goto("stop_clients")
    /\ UNCHANGED <<cleaning, conn, serverSocket, sockets, count, locVars, logVars, sigVars>>

\* Closing the listening socket resets what is still in its queue.
StopListen ==
    /\ At("stop_listen")
    /\ state' = "SERVER_STOPPING"
    /\ \/ /\ serverSocket >= 0
          /\ fdTable' = [fd \in Fds |-> IF fd = serverSocket THEN "free" ELSE fdTable[fd]]
          /\ backlog' = <<>>
          /\ conn' = [c \in Conns |->
                         IF conn[c] = "open" /\ \E i \in DOMAIN backlog : backlog[i] = c
                         THEN "closed" ELSE conn[c]]
          /\ serverSocket' = NULL
       \/ /\ serverSocket < 0
          /\ UNCHANGED <<kernVars, serverSocket>>
    /\ Goto("stop_clients")
    /\ UNCHANGED <<cleaning, sockets, count, locVars, logVars, sigVars>>

AllButLastSlot == {i \in Slots : i < count - 1}

\* The slots the loop of stop_server visits; active is 0 in each of them,
\* so no thread is joined.
SlotsToClose == Registered

StopClients ==
    /\ At("stop_clients")
    /\ CloseFds({sockets[i] : i \in SlotsToClose})
    /\ count' = 0
    /\ state' = "SERVER_STOPPED"
    /\ LogThen(LOG_INFO, IF cleaning THEN "free" ELSE "start_return")
    /\ UNCHANGED <<cleaning, serverSocket, sockets, locVars, backlog, logVars, sigVars>>

\* start_server returns to main(), which calls cleanup_server whatever the
\* result was; the first act of cleanup_server is stop_server once more.
StartReturn ==
    /\ At("start_return")
    /\ startResult' = IF state = "SERVER_STOPPED" THEN SUCCESS ELSE serverSocket
    /\ cleaning' = TRUE
    /\ Goto("stop")
    /\ UNCHANGED <<ctxVars, setupSocket, clientSocket, result, errno, kernVars, logVars, sigVars>>

FreeContext ==
    /\ At("free")
    /\ state' = "FREED"
    /\ LogThen(LOG_INFO, "close_logger")
    /\ UNCHANGED <<cleaning, serverSocket, sockets, count, locVars, kernVars, logVars, sigVars>>

CloseLogger ==
    /\ At("close_logger")
    /\ IF logFile # NULL THEN LogThen(LOG_INFO, "fclose") ELSE Goto("exited")
    /\ UNCHANGED dataVars

\* fclose(log_file), then log_file = NULL, neither under log_mutex.
CloseLogFile ==
    /\ At("fclose")
    /\ fdTable' = [fdTable EXCEPT ![logFile] = "free"]
    /\ Goto("fclosed")
    /\ UNCHANGED <<cleaning, ctxVars, locVars, backlog, conn, logVars, sigVars>>

ForgetLogFile ==
    /\ At("fclosed")
    /\ logFile' = NULL
    /\ Goto("exited")
    /\ UNCHANGED <<cleaning, ctxVars, locVars, kernVars, minimumLevel, logMutex, sigVars>>

-----------------------------------------------------------------------------
(* signal_handler *)

Top == frames[Len(frames)]
SetTop(l) == frames' = [frames EXCEPT ![Len(frames)].at = l]

\* Bound: each signal is delivered at most once.
Deliver(s) ==
    /\ installed
    /\ pc # "exited"
    /\ s \notin delivered
    /\ delivered' = delivered \cup {s}
    /\ frames' = Append(frames, [sig |-> s,
                     at |-> IF LOG_INFO < minimumLevel THEN "set" ELSE "log_lock"])
    /\ UNCHANGED <<pc, ret, cleaning, ctxVars, locVars, kernVars, logVars, running, installed>>

HandlerLogLock ==
    /\ frames # <<>>
    /\ Top.at = "log_lock"
    /\ logMutex = NONE
    /\ logMutex' = Top.sig
    /\ SetTop("log_held")
    /\ UNCHANGED <<pc, ret, cleaning, ctxVars, locVars, kernVars, logFile, minimumLevel,
                   running, installed, delivered>>

HandlerLogUnlock ==
    /\ frames # <<>>
    /\ Top.at = "log_held"
    /\ logMutex' = NONE
    /\ SetTop("set")
    /\ UNCHANGED <<pc, ret, cleaning, ctxVars, locVars, kernVars, logFile, minimumLevel,
                   running, installed, delivered>>

HandlerForgetsFlag ==
    /\ frames # <<>>
    /\ Top.at = "set"
    /\ frames' = SubSeq(frames, 1, Len(frames) - 1)
    /\ UNCHANGED <<pc, ret, cleaning, ctxVars, locVars, kernVars, logVars,
                   running, installed, delivered>>

\* server_running = 0 and return.  A usleep that had begun when the signal
\* came fails with EINTR; one that had not begun sleeps its full time.
HandlerReturn ==
    /\ frames # <<>>
    /\ Top.at = "set"
    /\ running' = FALSE
    /\ frames' = SubSeq(frames, 1, Len(frames) - 1)
    /\ \/ Sleeping /\ Len(frames) = 1 /\ WakeUp /\ errno' = "EINTR"
       \/ UNCHANGED <<pc, ret, errno>>
    /\ UNCHANGED <<cleaning, ctxVars, setupSocket, clientSocket, result, startResult, kernVars,
                   logVars, installed, delivered>>

-----------------------------------------------------------------------------
(* Clients *)

Connect(c) ==
    /\ conn[c] = "idle"
    /\ Listening
    /\ Len(backlog) < Backlog
    /\ conn' = [conn EXCEPT ![c] = "open"]
    /\ backlog' = Append(backlog, c)
    /\ UNCHANGED <<pc, ret, cleaning, ctxVars, locVars, fdTable, logVars, sigVars>>

\* The client goes away; nothing in the server reads the socket, so nothing
\* there changes.
Leave(c) ==
    /\ conn[c] = "open"
    /\ conn' = [conn EXCEPT ![c] = "left"]
    /\ UNCHANGED <<pc, ret, cleaning, ctxVars, locVars, fdTable, backlog, logVars, sigVars>>

-----------------------------------------------------------------------------
Main ==
    \/ LogLock \/ LogUnlock
    \/ InitLogger \/ InitializeServerContext \/ Start \/ InstallHandler
    \/ CreateSocket \/ SetSocketOption \/ Bind \/ Listen \/ AbandonSocket \/ SetupReturn
    \/ Serve
    \/ Loop \/ AcceptWouldBlock \/ AcceptFails \/ Accept
    \/ Register \/ RefuseAtLimit \/ Reject \/ CheckErrno \/ SleepEnds
    \/ StopServer \/ StopListen \/ StopClients \/ StartReturn
    \/ FreeContext \/ CloseLogger \/ CloseLogFile \/ ForgetLogFile

Handler == HandlerLogLock \/ HandlerLogUnlock \/ HandlerReturn

Environment ==
    \/ \E s \in Signals : Deliver(s)
    \/ \E c \in Conns : Connect(c) \/ Leave(c)

Next == Main \/ Handler \/ Environment

Spec == Init /\ [][Next]_vars

\* The scheduler runs the thread whenever it can run; signals and clients
\* come when they come.
FairSpec == Spec /\ WF_vars(Main) /\ WF_vars(Handler)

-----------------------------------------------------------------------------
(* Properties *)

Results == {SUCCESS, ERROR_SOCKET_ACCEPT, ERROR_INVALID_STATE, ERROR_TIMEOUT}
Frames  == [sig : Signals, at : {"log_lock", "log_held", "set"}]

\* Every variable has its type; in particular client_count never passes
\* max_clients and a handler frame exists only for a delivered signal.
TypeOK ==
    /\ pc \in Labels /\ ret \in Labels \ {"log_lock", "log_held"}
    /\ cleaning \in BOOLEAN
    /\ state \in ServerStates
    /\ serverSocket \in SetupErrors \cup {0} \cup Fds
    /\ sockets \in [Slots -> {0} \cup Fds] /\ count \in 0 .. MaxClients
    /\ setupSocket \in {NULL} \cup SetupErrors \cup Fds
    /\ clientSocket \in {NULL} \cup Fds
    /\ result \in Results
    /\ startResult \in {NOT_RETURNED, SUCCESS} \cup SetupErrors
    /\ errno \in Errnos
    /\ fdTable \in [Fds -> {"free", "log", "socket", "listen"} \cup Conns]
    /\ backlog \in Seq(Conns)
    /\ conn \in [Conns -> {"idle", "open", "left", "closed"}]
    /\ logFile \in {NULL} \cup Fds
    /\ minimumLevel \in LOG_TRACE .. LOG_FATAL
    /\ logMutex \in {NONE, "main"} \cup Signals
    /\ running \in BOOLEAN /\ installed \in BOOLEAN
    /\ frames \in Seq(Frames) /\ delivered \in SUBSET Signals
    /\ \A i \in DOMAIN frames : frames[i].sig \in delivered

\* The thread is at this label or inside the LOG call that leads to it.
Dest == IF pc \in {"log_lock", "log_held"} THEN ret ELSE pc

Heading(l) == Dest = l

\* accept_client has accepted a connection and not yet disposed of it.
InFlight == Heading("register") \/ Heading("reject")

AcceptedFds == {fd \in Fds : fdTable[fd] \in Conns}
RegisteredFds == {sockets[i] : i \in Registered}

\* The client table is exact: the first client_count slots hold different
\* descriptors, and those are the descriptors of all connections accepted
\* and not closed, but for the one accept_client has in hand.  No accepted
\* connection is lost by a refusal, and none is registered twice.
RegistryExact ==
    /\ \A i, j \in Registered : sockets[i] = sockets[j] => i = j
    /\ InFlight => clientSocket \in AcceptedFds \ RegisteredFds
    /\ AcceptedFds = RegisteredFds \cup (IF InFlight THEN {clientSocket} ELSE {})

\* Once stop_server has set SERVER_STOPPED nothing it was to close is left
\* open: neither the listening socket nor any connection.
StoppedMeansClosed ==
    state \in {"SERVER_STOPPED", "FREED"} =>
        /\ count = 0
        /\ \A fd \in Fds : fdTable[fd] \in {"free", "log"}

\* The process exits with every descriptor it opened closed, on the normal
\* path and when setup_socket failed.  (When initialize_server_context
\* fails, main() returns without close_logger.)
ExitLeaksNothing ==
    pc = "exited" =>
        \A fd \in Fds : fdTable[fd] # "free" =>
                           fdTable[fd] = "log" /\ state = "NO_CONTEXT"

\* close() is only called on a descriptor the server owns, although
\* stop_server runs twice, server_socket starts as 0 (calloc) and may hold
\* an error code.
ClosesOwnDescriptors ==
    /\ Dest \in AbandonLabels => setupSocket \in Fds /\ fdTable[setupSocket] = "socket"
    /\ Heading("stop_listen") /\ serverSocket >= 0 =>
           serverSocket \in Fds /\ fdTable[serverSocket] = "listen"
    /\ Heading("stop_clients") => RegisteredFds \subseteq AcceptedFds
    /\ pc = "fclose" => logFile \in Fds /\ fdTable[logFile] = "log"

\* How the state of the process shows in the abstract specification: a
\* connection that accept_client has in hand is still waiting.
Phase ==
    IF Listening THEN "up"
    ELSE IF state \in {"NO_CONTEXT", "SERVER_STATE_INIT"} THEN "down" ELSE "closed"
Waiting == (IF InFlight THEN <<fdTable[clientSocket]>> ELSE <<>>) \o backlog
Served == [i \in 1 .. count |-> fdTable[sockets[i - 1]]]
Gone == {c \in Conns : conn[c] = "left"}

Abstract == INSTANCE Admission WITH
    Clients <- Conns, Limit <- MaxClients,
    phase <- Phase, waiting <- Waiting, served <- Served, gone <- Gone

\* The server implements Admission: through every failure, refusal and
\* signal, clients are served first come first served up to max_clients,
\* refused only at that limit, and lost only to the shutdown or when they
\* have gone themselves.
ImplementsAdmission == Abstract!Spec

\* A signal leads to the end of the process: the handler clears
\* server_running, the loop notices, stop_server and cleanup_server run to
\* the end.
ShutdownCompletes == (delivered # {}) ~> (pc = "exited")

\* A connection in the listen queue is taken out of it, by accept_client or
\* by the shutdown.
PendingServed ==
    \A c \in Conns : (\E i \in DOMAIN backlog : backlog[i] = c) ~>
                      (\A i \in DOMAIN backlog : backlog[i] # c)
=============================================================================
