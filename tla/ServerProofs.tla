---------------------------- MODULE ServerProofs ----------------------------
(* Proofs about Server, for every set of connections and descriptors, every *)
(* max_clients, queue length and log level.                                 *)
EXTENDS Server, SequenceTheorems, TLAPS

Places == Labels \ {"log_lock", "log_held"}

-----------------------------------------------------------------------------
(* The inductive invariant *)

\* setup_socket holds a socket that does not listen yet, or no longer will.
OpenedLabels == {"setsockopt", "bind", "listen"} \cup AbandonLabels
SetupLabels == {"setup", "setup_return"} \cup OpenedLabels

USE DEF AbandonLabels, OpenedLabels, SetupLabels

\* The state of the context at each point of the program.
StatesAt(l) ==
    CASE l \in {"boot", "alloc"}                      -> {"NO_CONTEXT"}
      [] l \in {"start", "install", "serve"} \cup SetupLabels -> {"SERVER_STATE_INIT"}
      [] l \in {"loop", "accept", "poll_sleep", "register", "reject",
                "check_errno", "idle_sleep"}          -> {"SERVER_RUNNING"}
      [] l \in {"stop", "stop_listen"} ->
             {"SERVER_STATE_INIT", "SERVER_RUNNING", "SERVER_STOPPED"}
      [] l = "stop_clients"                           -> {"SERVER_STOPPING"}
      [] l = "start_return" -> {"SERVER_STATE_INIT", "SERVER_STOPPED"}
      [] l = "free"                                   -> {"SERVER_STOPPED"}
      [] l \in {"close_logger", "fclose", "fclosed"}  -> {"FREED"}
      [] OTHER                                        -> {"NO_CONTEXT", "FREED"}

\* What the lifecycle guarantees at each point: server_socket is the 0 that
\* calloc left only until setup_socket, is an error code when start_server
\* gives up and no descriptor once stop_server has closed it, and there are
\* clients only while the server runs or stops.
Lifecycle ==
    /\ state \in StatesAt(Dest)
    /\ serverSocket = 0 <=> Dest \in {"start", "install"} \cup SetupLabels
    /\ Dest \in OpenedLabels => setupSocket \in Fds
    /\ Dest = "start_return" /\ state = "SERVER_STATE_INIT" => serverSocket \in SetupErrors
    /\ state \in {"NO_CONTEXT", "SERVER_STOPPING", "SERVER_STOPPED", "FREED"} =>
           serverSocket \notin Fds
    /\ state \notin {"SERVER_RUNNING", "SERVER_STOPPING"} => count = 0
    /\ Dest = "boot" => logFile = NULL
    /\ Dest \in {"fclose", "fclosed"} => logFile # NULL
    /\ Dest = "exited" /\ state = "FREED" => logFile = NULL

\* The listening descriptor is the one server_socket names, or will name when
\* setup_socket has returned; a socket that does not listen exists only while
\* setup_socket holds it, and the log's descriptor is the one log_file names
\* until fclose.
OwnedDescriptors ==
    /\ \A fd \in Fds : fdTable[fd] = "listen" <=>
           serverSocket = fd \/ (Dest = "setup_return" /\ setupSocket = fd)
    /\ \A fd \in Fds : fdTable[fd] = "socket" <=> Dest \in OpenedLabels /\ setupSocket = fd
    /\ \A fd \in Fds : fdTable[fd] = "log" <=> logFile = fd /\ Dest # "fclosed"

\* The inductive invariant: every close that is still to come finds the
\* descriptor it is meant for, and none is left out.
ServerInv == TypeOK /\ RegistryExact /\ Lifecycle /\ OwnedDescriptors

-----------------------------------------------------------------------------
(* How a step moves the thread *)

\* A LOG call and what follows it: whether the level is filtered or not, the
\* thread is on its way to l.
LEMMA LogMoves ==
    ASSUME TypeOK, NEW l \in Places, NEW min, NEW level, LogAbove(min, level, l)
    PROVE  Dest' = l /\ pc' \in Labels /\ ret' \in Places
BY DEF LogAbove, Goto, Dest, Places, Labels, TypeOK

\* The same without a LOG call.
LEMMA GotoMoves ==
    ASSUME TypeOK, NEW l \in Places, Goto(l)
    PROVE  Dest' = l /\ pc' \in Labels /\ ret' \in Places
BY DEF Goto, Dest, Places, Labels, TypeOK

\* Where main() is when it takes a step other than one of log_message.
LEMMA AtDest ==
    ASSUME NEW l \in Places, At(l)
    PROVE  Dest = l
BY DEF At, Dest, Places

-----------------------------------------------------------------------------
(* What a step that leaves the descriptors alone preserves *)

\* Neither the table of clients nor the kernel's has changed, and the
\* accepted connection is in hand after the step exactly if it was before.
LEMMA RegistryKept ==
    ASSUME RegistryExact, UNCHANGED <<fdTable, sockets, count, clientSocket>>,
           InFlight' = InFlight
    PROVE  RegistryExact'
BY DEF RegistryExact, AcceptedFds, RegisteredFds, Registered

\* The same for the listening socket and the log file.
LEMMA OwnedKept ==
    ASSUME OwnedDescriptors, UNCHANGED <<fdTable, serverSocket, setupSocket, logFile>>,
           Dest = "fclosed" <=> Dest' = "fclosed",
           Dest = "setup_return" <=> Dest' = "setup_return",
           Dest \in OpenedLabels <=> Dest' \in OpenedLabels
    PROVE  OwnedDescriptors'
BY DEF OwnedDescriptors

\* The types of what no step but those on descriptors and signals changes.
LEMMA TypesKept ==
    ASSUME TypeOK, pc' \in Labels, ret' \in Places,
           UNCHANGED <<cleaning, sockets, count, fdTable, backlog, conn, logFile,
                       minimumLevel, logMutex, sigVars>>,
           state' \in ServerStates,
           serverSocket' \in SetupErrors \cup {0} \cup Fds,
           setupSocket' \in {NULL} \cup SetupErrors \cup Fds,
           clientSocket' \in {NULL} \cup Fds,
           result' \in Results,
           startResult' \in {NOT_RETURNED, SUCCESS} \cup SetupErrors,
           errno' \in Errnos
    PROVE  TypeOK'
BY DEF TypeOK, Places, sigVars

-----------------------------------------------------------------------------
(* log_message *)

\* Inside log_message only log_mutex changes and the thread keeps its course.
LEMMA LogStep ==
    ASSUME ServerInv, LogLock \/ LogUnlock
    PROVE  ServerInv'
<1>1. /\ UNCHANGED <<cleaning, ctxVars, locVars, kernVars, logFile, minimumLevel, sigVars>>
      /\ logMutex' \in {NONE, "main"}
      /\ pc' \in Labels /\ ret' = ret /\ Dest' = Dest
  BY DEF LogLock, LogUnlock, At, Goto, Dest, Labels, ServerInv, TypeOK
<1>2. TypeOK'
  BY <1>1 DEF ServerInv, TypeOK, ctxVars, locVars, kernVars, sigVars
<1>3. RegistryExact'
  BY <1>1, RegistryKept DEF ServerInv, InFlight, Heading, ctxVars, locVars, kernVars
<1>4. OwnedDescriptors'
  BY <1>1, OwnedKept DEF ServerInv, ctxVars, locVars, kernVars
<1>5. Lifecycle'
  BY <1>1 DEF ServerInv, Lifecycle, ctxVars, locVars
<1> QED
  BY <1>2, <1>3, <1>4, <1>5 DEF ServerInv

-----------------------------------------------------------------------------
(* main() up to start_server *)

\* init_logger opens the log file or does not.
LEMMA InitLoggerStep ==
    ASSUME ServerInv, InitLogger
    PROVE  ServerInv'
<1> USE ServerAssumption
<1>1. Dest = "boot"
  BY AtDest DEF InitLogger, Places, Labels
<1>2. Dest' = "alloc" /\ pc' \in Labels /\ ret' \in Places
  BY LogMoves DEF InitLogger, ServerInv, Places, Labels
<1>3. minimumLevel' \in LOG_TRACE .. LOG_FATAL
  BY DEF InitLogger, ServerInv, TypeOK, ValidLevel, LOG_TRACE, LOG_FATAL
<1>4. /\ UNCHANGED <<cleaning, ctxVars, locVars, backlog, conn, logMutex, sigVars>>
      /\ \/ UNCHANGED <<logFile, fdTable>>
         \/ \E fd \in Fds : /\ fdTable[fd] = "free"
                            /\ logFile' = fd
                            /\ fdTable' = [fdTable EXCEPT ![fd] = "log"]
  BY DEF InitLogger, LowestFree
<1>5. /\ state = "NO_CONTEXT" /\ serverSocket \notin Fds /\ count = 0
  BY <1>1 DEF ServerInv, Lifecycle, StatesAt
<1>6. TypeOK'
  BY <1>2, <1>3, <1>4 DEF ServerInv, TypeOK, Places, ctxVars, locVars, sigVars
<1>7. RegistryExact'
  <2>1. AcceptedFds' = AcceptedFds
    BY <1>4 DEF AcceptedFds, ServerInv, TypeOK
  <2> QED
    BY <1>1, <1>2, <1>4, <2>1 DEF ServerInv, RegistryExact, InFlight, Heading, RegisteredFds,
                                 Registered, ctxVars, locVars
<1>8. OwnedDescriptors'
  <2>1. \A fd \in Fds : fdTable[fd] # "listen" /\ fdTable[fd] # "log"
    BY <1>1, <1>5 DEF ServerInv, OwnedDescriptors, Lifecycle, NULL
  <2> QED
    BY <1>1, <1>2, <1>4, <1>5, <2>1 DEF ServerInv, TypeOK, OwnedDescriptors, ctxVars, NULL
<1>9. Lifecycle'
  BY <1>1, <1>2, <1>4, <1>5 DEF ServerInv, Lifecycle, StatesAt, ctxVars
<1> QED
  BY <1>6, <1>7, <1>8, <1>9 DEF ServerInv

\* The context starts stopped, without sockets and with an empty table.
LEMMA InitializeServerContextStep ==
    ASSUME ServerInv, InitializeServerContext
    PROVE  ServerInv'
<1> USE ServerAssumption
<1>1. Dest = "alloc"
  BY AtDest DEF InitializeServerContext, Places, Labels
<1>2. /\ Dest' \in {"start", "exited"} /\ pc' \in Labels /\ ret' \in Places
      /\ Dest' = "start" => state' = "SERVER_STATE_INIT" /\ serverSocket' = 0
      /\ Dest' = "exited" => UNCHANGED <<state, serverSocket>>
  BY LogMoves, GotoMoves DEF InitializeServerContext, LogThen, ServerInv, Places, Labels
<1>3. UNCHANGED <<cleaning, sockets, count, locVars, kernVars, logVars, sigVars>>
  BY DEF InitializeServerContext
<1>4. state = "NO_CONTEXT" /\ serverSocket \notin Fds /\ serverSocket # 0 /\ count = 0
  BY <1>1 DEF ServerInv, Lifecycle, StatesAt
<1>5. TypeOK'
  BY <1>2, <1>3, TypesKept DEF ServerInv, TypeOK, ServerStates, locVars, kernVars, logVars
<1>6. RegistryExact'
  BY <1>1, <1>2, <1>3, RegistryKept DEF ServerInv, InFlight, Heading, locVars, kernVars
<1>7. OwnedDescriptors'
  BY <1>1, <1>2, <1>3, <1>4 DEF ServerInv, OwnedDescriptors, kernVars, logVars
<1>8. Lifecycle'
  BY <1>1, <1>2, <1>3, <1>4 DEF ServerInv, Lifecycle, StatesAt, logVars
<1> QED
  BY <1>5, <1>6, <1>7, <1>8 DEF ServerInv

\* A step that only moves the thread along, between points at which the
\* invariant asks for the same.
QuietMoves == {<<"start", "install">>, <<"install", "setup">>, <<"setsockopt", "bind">>,
               <<"setsockopt", "no_option">>, <<"bind", "listen">>, <<"bind", "not_bound">>,
               <<"loop", "accept">>, <<"loop", "stop">>,
               <<"accept", "poll_sleep">>, <<"accept", "check_errno">>,
               <<"poll_sleep", "check_errno">>, <<"register", "reject">>,
               <<"check_errno", "idle_sleep">>, <<"check_errno", "loop">>,
               <<"idle_sleep", "loop">>, <<"stop", "stop_listen">>,
               <<"close_logger", "fclose">>, <<"close_logger", "exited">>}

\* A step that only moves the thread along a path on which the context,
\* the descriptors and the log file stay as they are.
LEMMA QuietStep ==
    ASSUME ServerInv, UNCHANGED <<ctxVars, setupSocket, clientSocket, fdTable, logFile>>,
           TypeOK', <<Dest, Dest'>> \in QuietMoves,
           Dest' = "fclose" => logFile # NULL,
           Dest' = "exited" => logFile = NULL
    PROVE  ServerInv'
<1>1. RegistryExact'
  BY RegistryKept DEF ServerInv, InFlight, Heading, QuietMoves, ctxVars
<1>2. OwnedDescriptors'
  BY OwnedKept DEF ServerInv, QuietMoves, ctxVars
<1>3. Lifecycle'
  BY DEF ServerInv, Lifecycle, StatesAt, QuietMoves, ctxVars
<1> QED
  BY <1>1, <1>2, <1>3 DEF ServerInv

\* The steps of main() that change nothing but its place and what accept_client
\* returned.
QuietAction ==
    \/ Start \/ InstallHandler \/ SetSocketOption \/ Bind \/ Loop \/ AcceptWouldBlock \/ AcceptFails
    \/ RefuseAtLimit \/ CheckErrno \/ SleepEnds \/ StopServer \/ CloseLogger

\* The actions that do only that, and where they lead.
LEMMA QuietActionMoves ==
    ASSUME TypeOK, QuietAction
    PROVE  /\ <<Dest, Dest'>> \in QuietMoves /\ pc' \in Labels /\ ret' \in Places
           /\ Dest' = "fclose" => logFile # NULL
           /\ Dest' = "exited" => logFile = NULL
           /\ Dest' = "reject" => AtCapacity
<1> USE DEF Places, Labels
<1>1. CASE Start
  BY <1>1, AtDest, LogMoves DEF Start, LogThen, QuietMoves
<1>2. CASE InstallHandler
  BY <1>2, AtDest, GotoMoves DEF InstallHandler, QuietMoves
<1>11. CASE SetSocketOption
  BY <1>11, AtDest, LogMoves, GotoMoves DEF SetSocketOption, LogThen, QuietMoves
<1>12. CASE Bind
  BY <1>12, AtDest, LogMoves, GotoMoves DEF Bind, LogThen, QuietMoves
<1>3. CASE Loop
  BY <1>3, AtDest, LogMoves, GotoMoves DEF Loop, LogThen, QuietMoves
<1>4. CASE AcceptWouldBlock
  BY <1>4, AtDest, GotoMoves DEF AcceptWouldBlock, QuietMoves
<1>5. CASE AcceptFails
  BY <1>5, AtDest, LogMoves DEF AcceptFails, LogThen, QuietMoves
<1>6. CASE RefuseAtLimit
  BY <1>6, AtDest, LogMoves DEF RefuseAtLimit, LogThen, QuietMoves
<1>7. CASE CheckErrno
  BY <1>7, AtDest, LogMoves, GotoMoves DEF CheckErrno, LogThen, QuietMoves
<1>8. CASE SleepEnds
  BY <1>8, GotoMoves DEF SleepEnds, Sleeping, WakeUp, Dest, QuietMoves
<1>9. CASE StopServer
  BY <1>9, AtDest, LogMoves DEF StopServer, LogThen, QuietMoves
<1>10. CASE CloseLogger
  BY <1>10, AtDest, LogMoves, GotoMoves DEF CloseLogger, LogThen, QuietMoves
<1> QED
  BY <1>1, <1>2, <1>3, <1>4, <1>5, <1>6, <1>7, <1>8, <1>9, <1>10, <1>11, <1>12 DEF QuietAction

\* They keep the invariant.
LEMMA QuietActions ==
    ASSUME ServerInv, QuietAction
    PROVE  ServerInv'
<1>0. TypeOK
  BY DEF ServerInv
<1>1. /\ UNCHANGED <<cleaning, ctxVars, setupSocket, clientSocket, startResult, fdTable, conn,
                     logVars>>
      /\ backlog' \in Seq(Conns)
      /\ running' = running /\ frames' = frames /\ delivered' = delivered
      /\ installed' \in BOOLEAN
      /\ result' \in Results
      /\ errno' \in Errnos
  <2>1. CASE AcceptFails
    <3>1. backlog' \in Seq(Conns)
      <4>1. backlog \in Seq(Conns) /\ backlog # <<>>
        BY <1>0, <2>1 DEF AcceptFails, TypeOK
      <4>2. Tail(backlog) \in Seq(Conns)
        BY <4>1
      <4>3. backlog' = backlog \/ backlog' = Tail(backlog)
        BY <2>1 DEF AcceptFails
      <4> QED
        BY <4>1, <4>2, <4>3
    <3>2. errno' \in Errnos /\ result' \in Results
      BY <2>1 DEF AcceptFails, Errnos, Results
    <3>3. installed' \in BOOLEAN /\ running' = running /\ frames' = frames /\ delivered' = delivered
      BY <1>0, <2>1 DEF AcceptFails, TypeOK, sigVars
    <3> QED
      BY <2>1, <3>1, <3>2, <3>3 DEF AcceptFails
  <2>2. CASE ~AcceptFails
    BY <1>0, <2>2 DEF QuietAction, Start, InstallHandler, SetSocketOption, Bind, Loop,
       AcceptWouldBlock, RefuseAtLimit, CheckErrno, SleepEnds, StopServer, CloseLogger, dataVars,
       locVars, kernVars, sigVars, Results, Errnos, TypeOK
  <2> QED
    BY <2>1, <2>2
<1>2. /\ <<Dest, Dest'>> \in QuietMoves /\ pc' \in Labels /\ ret' \in Places
      /\ Dest' = "fclose" => logFile # NULL
      /\ Dest' = "exited" => logFile = NULL
  BY <1>0, QuietActionMoves
<1>3. TypeOK'
  BY <1>0, <1>1, <1>2 DEF TypeOK, Places, ctxVars, logVars
<1> QED
  BY <1>1, <1>2, <1>3, QuietStep DEF logVars

-----------------------------------------------------------------------------
(* setup_socket, and the server goes into service *)

\* Where setup_socket is there is neither a listening socket nor a client.
LEMMA DuringSetup ==
    ASSUME ServerInv, Dest \in SetupLabels \ {"setup_return"}
    PROVE  /\ state = "SERVER_STATE_INIT" /\ serverSocket = 0 /\ count = 0
           /\ \A fd \in Fds : fdTable[fd] # "listen"
           /\ ~InFlight
BY ServerAssumption DEF ServerInv, Lifecycle, StatesAt, OwnedDescriptors, InFlight, Heading

\* socket() gives setup_socket a descriptor of its own, or an error code.
LEMMA CreateSocketStep ==
    ASSUME ServerInv, CreateSocket
    PROVE  ServerInv'
<1> USE ServerAssumption
<1>0. TypeOK /\ RegistryExact /\ OwnedDescriptors /\ Lifecycle
  BY DEF ServerInv
<1>1. Dest = "setup"
  BY AtDest DEF CreateSocket, Places, Labels
<1>2. /\ state = "SERVER_STATE_INIT" /\ serverSocket = 0 /\ count = 0
      /\ \A fd \in Fds : fdTable[fd] # "listen" /\ fdTable[fd] # "socket"
      /\ ~InFlight
  BY <1>0, <1>1, DuringSetup DEF OwnedDescriptors
<1>3. UNCHANGED <<cleaning, ctxVars, clientSocket, result, startResult, errno, backlog, conn,
                  logVars, sigVars>>
  BY DEF CreateSocket
<1>4. CASE setupSocket' = ERROR_SOCKET_CREATE /\ LogThen(LOG_ERROR, "setup_return") /\ fdTable' = fdTable
  <2>1. Dest' = "setup_return" /\ pc' \in Labels /\ ret' \in Places
    BY <1>0, <1>4, LogMoves DEF LogThen, Places, Labels
  <2>2. setupSocket' \in SetupErrors /\ setupSocket' \notin Fds
    BY <1>4 DEF SetupErrors, ERROR_SOCKET_CREATE
  <2>3. TypeOK'
    BY <1>0, <1>3, <1>4, <2>1, <2>2 DEF TypeOK, Places, ctxVars, logVars, sigVars
  <2>4. RegistryExact'
    BY <1>0, <1>2, <1>3, <1>4, <2>1, RegistryKept DEF InFlight, Heading, ctxVars
  <2>5. OwnedDescriptors'
    BY <1>0, <1>1, <1>2, <1>3, <1>4, <2>1, <2>2 DEF OwnedDescriptors, ctxVars, logVars
  <2>6. Lifecycle'
    BY <1>2, <1>3, <2>1 DEF Lifecycle, StatesAt, ctxVars
  <2> QED
    BY <2>3, <2>4, <2>5, <2>6 DEF ServerInv
<1>5. CASE /\ \E fd \in Fds : /\ LowestFree(fd)
                             /\ setupSocket' = fd
                             /\ fdTable' = [fdTable EXCEPT ![fd] = "socket"]
           /\ Goto("setsockopt")
  <2>1. Dest' = "setsockopt" /\ pc' \in Labels /\ ret' \in Places
    BY <1>0, <1>5, GotoMoves DEF Places, Labels
  <2>2. PICK fd \in Fds : /\ fdTable[fd] = "free"
                          /\ setupSocket' = fd
                          /\ fdTable' = [fdTable EXCEPT ![fd] = "socket"]
    BY <1>5 DEF LowestFree
  <2>3. TypeOK'
    BY <1>0, <1>3, <2>1, <2>2 DEF TypeOK, Places, ctxVars, logVars, sigVars
  <2>4. RegistryExact'
    <3>1. AcceptedFds' = AcceptedFds /\ ~InFlight'
      BY <1>0, <2>1, <2>2 DEF AcceptedFds, TypeOK, InFlight, Heading
    <3> QED
      BY <1>0, <1>2, <1>3, <3>1 DEF RegistryExact, RegisteredFds, Registered, ctxVars
  <2>5. OwnedDescriptors'
    BY <1>0, <1>1, <1>2, <1>3, <2>1, <2>2 DEF OwnedDescriptors, TypeOK, ctxVars, logVars
  <2>6. Lifecycle'
    BY <1>2, <1>3, <2>1, <2>2 DEF Lifecycle, StatesAt, ctxVars
  <2> QED
    BY <2>3, <2>4, <2>5, <2>6 DEF ServerInv
<1> QED
  BY <1>4, <1>5 DEF CreateSocket

\* The socket that setup_socket holds starts to listen, or is closed again.
LEMMA SocketStep ==
    ASSUME ServerInv, Listen \/ AbandonSocket
    PROVE  ServerInv'
<1> USE ServerAssumption
<1>0. TypeOK /\ RegistryExact /\ OwnedDescriptors /\ Lifecycle
  BY DEF ServerInv
<1>1. Dest \in OpenedLabels
  BY AtDest DEF Listen, AbandonSocket, Places, Labels
<1>2. /\ state = "SERVER_STATE_INIT" /\ serverSocket = 0 /\ count = 0
      /\ \A fd \in Fds : fdTable[fd] # "listen"
      /\ ~InFlight
  BY <1>1, DuringSetup
<1>3. /\ setupSocket \in Fds
      /\ \A fd \in Fds : fdTable[fd] = "socket" <=> fd = setupSocket
  BY <1>0, <1>1 DEF Lifecycle, OwnedDescriptors
<1>4. UNCHANGED <<cleaning, ctxVars, clientSocket, result, startResult, errno, backlog, conn,
                  logVars, sigVars>>
  BY DEF Listen, AbandonSocket, locVars
<1>5. CASE LogThen(LOG_ERROR, "not_listening") /\ UNCHANGED <<fdTable, setupSocket>>
  <2>1. Dest' = "not_listening" /\ pc' \in Labels /\ ret' \in Places
    BY <1>0, <1>5, LogMoves DEF LogThen, Places, Labels
  <2>2. TypeOK'
    BY <1>0, <1>4, <1>5, <2>1 DEF TypeOK, Places, ctxVars, logVars, sigVars
  <2>3. RegistryExact'
    BY <1>0, <1>2, <1>4, <1>5, <2>1, RegistryKept DEF InFlight, Heading, ctxVars
  <2>4. OwnedDescriptors'
    BY <1>0, <1>1, <1>4, <1>5, <2>1, OwnedKept DEF ctxVars, logVars
  <2>5. Lifecycle'
    BY <1>2, <1>3, <1>4, <1>5, <2>1 DEF Lifecycle, StatesAt, ctxVars
  <2> QED
    BY <2>2, <2>3, <2>4, <2>5 DEF ServerInv
<1>6. ASSUME NEW what \in {"free", "listen"}, Dest' = "setup_return",
             pc' \in Labels, ret' \in Places,
             fdTable' = [fdTable EXCEPT ![setupSocket] = what],
             what = "listen" => setupSocket' = setupSocket,
             what = "free" => setupSocket' \in SetupErrors
      PROVE  ServerInv'
  <2>1. SetupErrors \cap Fds = {}
    BY DEF SetupErrors, ERROR_SOCKET_CREATE, ERROR_SOCKET_BIND, ERROR_SOCKET_LISTEN
  <2>2. TypeOK'
    <3>1. fdTable' \in [Fds -> {"free", "log", "socket", "listen"} \cup Conns]
      BY <1>0, <1>3, <1>6 DEF TypeOK
    <3> QED
      BY <1>0, <1>4, <1>6, <3>1 DEF TypeOK, Places, ctxVars, logVars, sigVars
  <2>3. RegistryExact'
    <3>1. AcceptedFds' = AcceptedFds /\ ~InFlight'
      BY <1>0, <1>3, <1>6 DEF AcceptedFds, TypeOK, InFlight, Heading
    <3> QED
      BY <1>0, <1>2, <1>4, <3>1 DEF RegistryExact, RegisteredFds, Registered, ctxVars
  <2>4. \A fd \in Fds : fdTable'[fd] = IF fd = setupSocket THEN what ELSE fdTable[fd]
    BY <1>0, <1>6 DEF TypeOK
  <2>5. OwnedDescriptors'
    BY <1>0, <1>1, <1>2, <1>3, <1>4, <1>6, <2>1, <2>4 DEF OwnedDescriptors, ctxVars, logVars
  <2>6. Lifecycle'
    BY <1>2, <1>4, <1>6 DEF Lifecycle, StatesAt, ctxVars
  <2> QED
    BY <2>2, <2>3, <2>5, <2>6 DEF ServerInv
<1>7. CASE Listen
  <2>1. CASE /\ fdTable' = [fdTable EXCEPT ![setupSocket] = "listen"]
             /\ LogThen(LOG_INFO, "setup_return")
    <3>1. Dest' = "setup_return" /\ pc' \in Labels /\ ret' \in Places
      BY <1>0, <2>1, LogMoves DEF LogThen, Places, Labels
    <3> QED
      BY <1>6, <1>7, <2>1, <3>1 DEF Listen, locVars
  <2> QED
    BY <1>5, <1>7, <2>1 DEF Listen, locVars
<1>8. CASE AbandonSocket
  <2>1. Dest' = "setup_return" /\ pc' \in Labels /\ ret' \in Places
    BY <1>0, <1>8, GotoMoves DEF AbandonSocket, Places, Labels
  <2>2. setupSocket' \in SetupErrors
    BY <1>8 DEF AbandonSocket, SetupError, SetupErrors
  <2> QED
    BY <1>6, <1>8, <2>1, <2>2 DEF AbandonSocket
<1> QED
  BY <1>7, <1>8

\* start_server stores what setup_socket returned.
LEMMA SetupReturnStep ==
    ASSUME ServerInv, SetupReturn
    PROVE  ServerInv'
<1> USE ServerAssumption
<1>0. TypeOK /\ RegistryExact /\ OwnedDescriptors /\ Lifecycle
  BY DEF ServerInv
<1>1. Dest = "setup_return" /\ state = "SERVER_STATE_INIT" /\ serverSocket = 0 /\ count = 0
  BY <1>0, AtDest DEF SetupReturn, Places, Labels, Lifecycle, StatesAt
<1>2. /\ serverSocket' = setupSocket
      /\ UNCHANGED <<cleaning, state, sockets, count, locVars, kernVars, logVars, sigVars>>
  BY DEF SetupReturn
<1>3. setupSocket \in SetupErrors \cup Fds
  BY <1>0 DEF TypeOK, SetupErrors, ERROR_SOCKET_CREATE, NULL
<1>4. /\ Dest' \in {"start_return", "serve"} /\ pc' \in Labels /\ ret' \in Places
      /\ Dest' = "start_return" <=> setupSocket < 0
  BY <1>0, LogMoves, GotoMoves DEF SetupReturn, LogThen, Places, Labels
<1>5. /\ setupSocket \in Fds <=> Dest' = "serve"
      /\ setupSocket \in SetupErrors <=> Dest' = "start_return"
      /\ setupSocket # 0
  BY <1>3, <1>4 DEF SetupErrors, ERROR_SOCKET_CREATE, ERROR_SOCKET_BIND, ERROR_SOCKET_LISTEN
<1>6. TypeOK'
  BY <1>0, <1>2, <1>3, <1>4 DEF TypeOK, Places, locVars, kernVars, logVars, sigVars
<1>7. RegistryExact'
  BY <1>0, <1>1, <1>2, <1>4, RegistryKept DEF InFlight, Heading, locVars, kernVars
<1>8. OwnedDescriptors'
  BY <1>0, <1>1, <1>2, <1>4 DEF OwnedDescriptors, locVars, kernVars, logVars
<1>9. Lifecycle'
  BY <1>1, <1>2, <1>4, <1>5 DEF Lifecycle, StatesAt
<1> QED
  BY <1>6, <1>7, <1>8, <1>9 DEF ServerInv

\* Steps that change the state of the context and nothing else: SERVER_RUNNING
\* in start_server, the free in cleanup_server, and the return to main().
LEMMA StateActions ==
    ASSUME ServerInv, Serve \/ StartReturn \/ FreeContext
    PROVE  ServerInv'
<1> USE ServerAssumption DEF Places, Labels
<1>0. TypeOK
  BY DEF ServerInv
<1>1. /\ UNCHANGED <<serverSocket, sockets, count, setupSocket, clientSocket, result, errno, kernVars,
                     logVars, sigVars>>
      /\ cleaning' \in BOOLEAN /\ state' \in ServerStates
  BY <1>0 DEF Serve, StartReturn, FreeContext, ctxVars, locVars, TypeOK, ServerStates
<1>2. /\ Serve => Dest = "serve" /\ Dest' = "loop"
      /\ StartReturn => Dest = "start_return" /\ Dest' = "stop"
      /\ FreeContext => Dest = "free" /\ Dest' = "close_logger"
      /\ pc' \in Labels /\ ret' \in Labels \ {"log_lock", "log_held"}
  BY <1>0, AtDest, LogMoves, GotoMoves DEF Serve, StartReturn, FreeContext, LogThen
<1>3. startResult' \in {NOT_RETURNED, SUCCESS} \cup SetupErrors
  BY <1>0, <1>2 DEF Serve, StartReturn, FreeContext, ServerInv, Lifecycle, StatesAt, TypeOK,
                    locVars
<1>4. TypeOK'
  BY <1>0, <1>1, <1>2, <1>3 DEF TypeOK, kernVars, logVars, sigVars
<1>5. RegistryExact'
  BY <1>1, <1>2, RegistryKept DEF ServerInv, InFlight, Heading, kernVars
<1>6. OwnedDescriptors'
  BY <1>1, <1>2, OwnedKept DEF ServerInv, kernVars, logVars
<1>7. Lifecycle'
  <2>1. CASE Serve
    BY <1>1, <1>2, <2>1 DEF Serve, ServerInv, Lifecycle, StatesAt, logVars
  <2>2. CASE StartReturn
    BY <1>1, <1>2, <2>2 DEF StartReturn, ServerInv, Lifecycle, StatesAt, ctxVars, logVars
  <2>3. CASE FreeContext
    BY <1>1, <1>2, <2>3 DEF FreeContext, ServerInv, Lifecycle, StatesAt, logVars
  <2> QED
    BY <2>1, <2>2, <2>3
<1> QED
  BY <1>4, <1>5, <1>6, <1>7 DEF ServerInv

-----------------------------------------------------------------------------
(* accept_client *)

\* accept takes the oldest connection and a free descriptor.
LEMMA AcceptStep ==
    ASSUME ServerInv, Accept
    PROVE  ServerInv'
<1> USE ServerAssumption
<1>0. TypeOK
  BY DEF ServerInv
<1>1. Dest = "accept" /\ Dest' = "register" /\ pc' \in Labels /\ ret' \in Places
  BY <1>0, AtDest, LogMoves DEF Accept, LogThen, Places, Labels
<1>2. PICK fd \in Fds : /\ fdTable[fd] = "free"
                        /\ clientSocket' = fd
                        /\ fdTable' = [fdTable EXCEPT ![fd] = Head(backlog)]
  BY DEF Accept, LowestFree
<1>3. Head(backlog) \in Conns /\ backlog' \in Seq(Conns)
  BY <1>0 DEF Accept, TypeOK
<1>4. UNCHANGED <<cleaning, ctxVars, setupSocket, result, startResult, errno, conn, logVars,
                  sigVars>>
  BY DEF Accept
<1>5. TypeOK'
  BY <1>0, <1>1, <1>2, <1>3, <1>4 DEF TypeOK, Places, ctxVars, logVars, sigVars
<1>6. RegistryExact'
  <2>1. AcceptedFds' = AcceptedFds \cup {fd} /\ fd \notin AcceptedFds
    BY <1>0, <1>2, <1>3 DEF AcceptedFds, TypeOK
  <2>2. RegisteredFds' = RegisteredFds /\ Registered' = Registered
    BY <1>4 DEF RegisteredFds, Registered, ctxVars
  <2>3. ~InFlight /\ InFlight'
    BY <1>1 DEF InFlight, Heading
  <2> QED
    BY <1>2, <1>4, <2>1, <2>2, <2>3 DEF ServerInv, RegistryExact, ctxVars
<1>7. OwnedDescriptors'
  BY <1>0, <1>1, <1>2, <1>3, <1>4 DEF ServerInv, OwnedDescriptors, TypeOK, ctxVars, logVars, NULL
<1>8. Lifecycle'
  BY <1>1, <1>4 DEF ServerInv, Lifecycle, StatesAt, ctxVars, logVars
<1> QED
  BY <1>5, <1>6, <1>7, <1>8 DEF ServerInv

\* The connection in hand becomes the entry behind the last one.
LEMMA RegisterStep ==
    ASSUME ServerInv, Register
    PROVE  ServerInv'
<1> USE ServerAssumption
<1>0. TypeOK /\ RegistryExact
  BY DEF ServerInv
<1>1. Dest = "register" /\ Dest' = "loop" /\ pc' \in Labels /\ ret' \in Places
  BY <1>0, AtDest, GotoMoves DEF Register, Places, Labels
<1>2. InFlight /\ ~InFlight' /\ clientSocket \in AcceptedFds \ RegisteredFds
  BY <1>0, <1>1 DEF InFlight, Heading, RegistryExact
<1>3. count \in Slots /\ count + 1 \in 0 .. MaxClients
  BY <1>0 DEF Register, AtCapacity, Slots, TypeOK
<1>4. /\ sockets' = [sockets EXCEPT ![count] = clientSocket]
      /\ count' = count + 1
      /\ result' = SUCCESS
      /\ UNCHANGED <<cleaning, state, serverSocket, setupSocket, clientSocket, startResult, errno,
                     kernVars, logVars, sigVars>>
  BY DEF Register
<1>5. TypeOK'
  BY <1>0, <1>1, <1>2, <1>3, <1>4
  DEF TypeOK, Places, AcceptedFds, Results, kernVars, logVars, sigVars
<1>6. RegistryExact'
  <2>1. Registered' = Registered \cup {count} /\ count \notin Registered
    BY <1>0, <1>3, <1>4 DEF Registered, Slots, TypeOK
  <2>2. /\ \A i \in Registered : i \in Slots /\ sockets'[i] = sockets[i]
        /\ sockets'[count] = clientSocket
    BY <1>0, <1>3, <1>4, <2>1 DEF Registered, TypeOK
  <2>3. RegisteredFds' = RegisteredFds \cup {clientSocket}
    BY <2>1, <2>2 DEF RegisteredFds
  <2>4. \A i \in Registered : sockets[i] # clientSocket
    BY <1>2 DEF RegisteredFds
  <2>5. \A i, j \in Registered' : sockets'[i] = sockets'[j] => i = j
    BY <1>0, <2>1, <2>2, <2>4 DEF RegistryExact
  <2>6. AcceptedFds' = AcceptedFds
    BY <1>4 DEF AcceptedFds, kernVars
  <2> QED
    BY <1>0, <1>2, <2>3, <2>5, <2>6 DEF RegistryExact
<1>7. OwnedDescriptors'
  BY <1>1, <1>4, OwnedKept DEF ServerInv, kernVars, logVars
<1>8. Lifecycle'
  BY <1>1, <1>4 DEF ServerInv, Lifecycle, StatesAt, logVars
<1> QED
  BY <1>5, <1>6, <1>7, <1>8 DEF ServerInv

\* Closing descriptors of accepted connections leaves the table typed and
\* the listening socket and the log alone.
LEMMA CloseConnections ==
    ASSUME TypeOK, OwnedDescriptors, NEW S, S \subseteq AcceptedFds, CloseFds(S)
    PROVE  /\ fdTable' \in [Fds -> {"free", "log", "socket", "listen"} \cup Conns]
           /\ conn' \in [Conns -> {"idle", "open", "left", "closed"}]
           /\ AcceptedFds' = AcceptedFds \ S
           /\ \A fd \in Fds : fdTable'[fd] = "socket" <=> fdTable[fd] = "socket"
           /\ \A fd \in Fds : fdTable'[fd] = "listen" <=> fdTable[fd] = "listen"
           /\ \A fd \in Fds : fdTable'[fd] = "log" <=> fdTable[fd] = "log"
<1> USE ServerAssumption
<1>1. fdTable' = [fd \in Fds |-> IF fd \in S THEN "free" ELSE fdTable[fd]]
  BY DEF CloseFds
<1>2. conn' \in [Conns -> {"idle", "open", "left", "closed"}]
  BY DEF CloseFds, TypeOK
<1>3. AcceptedFds' = AcceptedFds \ S
  BY <1>1 DEF AcceptedFds, TypeOK
<1> QED
  BY <1>1, <1>2, <1>3 DEF AcceptedFds, TypeOK

\* A connection that is refused is closed, and it alone.
LEMMA RejectStep ==
    ASSUME ServerInv, Reject
    PROVE  ServerInv'
<1> USE ServerAssumption
<1>0. TypeOK /\ RegistryExact /\ OwnedDescriptors
  BY DEF ServerInv
<1>1. Dest = "reject" /\ Dest' = "check_errno" /\ pc' \in Labels /\ ret' \in Places
  BY <1>0, AtDest, GotoMoves DEF Reject, Places, Labels
<1>2. InFlight /\ ~InFlight' /\ clientSocket \in AcceptedFds \ RegisteredFds
  BY <1>0, <1>1 DEF InFlight, Heading, RegistryExact
<1>3. /\ fdTable' \in [Fds -> {"free", "log", "socket", "listen"} \cup Conns]
      /\ conn' \in [Conns -> {"idle", "open", "left", "closed"}]
      /\ AcceptedFds' = AcceptedFds \ {clientSocket}
      /\ \A fd \in Fds : fdTable'[fd] = "socket" <=> fdTable[fd] = "socket"
      /\ \A fd \in Fds : fdTable'[fd] = "listen" <=> fdTable[fd] = "listen"
      /\ \A fd \in Fds : fdTable'[fd] = "log" <=> fdTable[fd] = "log"
  BY <1>0, <1>2, CloseConnections DEF Reject
<1>4. /\ result' = ERROR_INVALID_STATE
      /\ UNCHANGED <<cleaning, ctxVars, setupSocket, clientSocket, startResult, errno, backlog,
                     logVars, sigVars>>
  BY DEF Reject
<1>5. TypeOK'
  BY <1>0, <1>1, <1>3, <1>4 DEF TypeOK, Places, Results, ctxVars, logVars, sigVars
<1>6. RegistryExact'
  BY <1>0, <1>2, <1>3, <1>4 DEF RegistryExact, RegisteredFds, Registered, ctxVars
<1>7. OwnedDescriptors'
  BY <1>0, <1>1, <1>3, <1>4 DEF OwnedDescriptors, TypeOK, ctxVars, logVars
<1>8. Lifecycle'
  BY <1>1, <1>4 DEF ServerInv, Lifecycle, StatesAt, ctxVars, logVars
<1> QED
  BY <1>5, <1>6, <1>7, <1>8 DEF ServerInv

-----------------------------------------------------------------------------
(* stop_server and the end of main() *)

\* stop_server closes the listening socket and forgets its number.
LEMMA StopListenStep ==
    ASSUME ServerInv, StopListen
    PROVE  ServerInv'
<1> USE ServerAssumption
<1>0. TypeOK /\ RegistryExact /\ OwnedDescriptors /\ Lifecycle
  BY DEF ServerInv
<1>1. Dest = "stop_listen" /\ Dest' = "stop_clients" /\ pc' \in Labels /\ ret' \in Places
  BY <1>0, AtDest, GotoMoves DEF StopListen, Places, Labels
<1>2. serverSocket # 0
  BY <1>0, <1>1 DEF Lifecycle
<1>3. UNCHANGED <<cleaning, sockets, count, locVars, logVars, sigVars>> /\ state' = "SERVER_STOPPING"
  BY DEF StopListen
<1>4. /\ serverSocket' \in SetupErrors
      /\ fdTable' \in [Fds -> {"free", "log", "socket", "listen"} \cup Conns]
      /\ backlog' \in Seq(Conns)
      /\ conn' \in [Conns -> {"idle", "open", "left", "closed"}]
  <2> USE DEF SetupErrors, ERROR_SOCKET_CREATE, ERROR_SOCKET_BIND, ERROR_SOCKET_LISTEN, NULL
  <2>1. serverSocket \in Int
    BY <1>0 DEF TypeOK
  <2>2. CASE serverSocket >= 0
    <3>1. /\ fdTable' = [fd \in Fds |-> IF fd = serverSocket THEN "free" ELSE fdTable[fd]]
          /\ backlog' = <<>> /\ serverSocket' = NULL
          /\ conn' = [c \in Conns |->
                         IF conn[c] = "open" /\ \E i \in DOMAIN backlog : backlog[i] = c
                         THEN "closed" ELSE conn[c]]
      BY <2>1, <2>2 DEF StopListen
    <3> QED
      BY <1>0, <3>1 DEF TypeOK
  <2>3. CASE serverSocket < 0
    <3>1. UNCHANGED <<fdTable, backlog, conn, serverSocket>>
      BY <2>1, <2>3 DEF StopListen, kernVars
    <3> QED
      BY <1>0, <2>3, <3>1 DEF TypeOK
  <2> QED
    BY <2>1, <2>2, <2>3
<1>5. serverSocket' \notin Fds /\ serverSocket' # 0
  BY <1>4 DEF SetupErrors, ERROR_SOCKET_CREATE, ERROR_SOCKET_BIND, ERROR_SOCKET_LISTEN
\* Exactly the listening descriptor has been freed.
<1>6. \A fd \in Fds : /\ fdTable[fd] # "listen" => fdTable'[fd] = fdTable[fd]
                      /\ fdTable[fd] = "listen" => fdTable'[fd] = "free"
  BY <1>0, <1>1, <1>2 DEF StopListen, TypeOK, OwnedDescriptors, kernVars
<1>7. TypeOK'
  BY <1>0, <1>1, <1>3, <1>4 DEF TypeOK, Places, ServerStates, locVars, logVars, sigVars
<1>8. RegistryExact'
  <2>1. AcceptedFds' = AcceptedFds
    BY <1>6 DEF AcceptedFds
  <2> QED
    BY <1>0, <1>1, <1>3, <2>1 DEF RegistryExact, InFlight, Heading, RegisteredFds,
                                 Registered, locVars
<1>9. OwnedDescriptors'
  BY <1>0, <1>1, <1>3, <1>5, <1>6 DEF OwnedDescriptors, TypeOK, logVars
<1>10. Lifecycle'
  BY <1>1, <1>3, <1>5 DEF Lifecycle, StatesAt
<1> QED
  BY <1>7, <1>8, <1>9, <1>10 DEF ServerInv

\* stop_server closes the clients and empties the table.
LEMMA StopClientsStep ==
    ASSUME ServerInv, StopClients
    PROVE  ServerInv'
<1> USE ServerAssumption
<1>0. TypeOK /\ RegistryExact /\ OwnedDescriptors /\ Lifecycle
  BY DEF ServerInv
<1>1. /\ Dest = "stop_clients" /\ Dest' \in {"free", "start_return"}
      /\ pc' \in Labels /\ ret' \in Places
  <2>1. (IF cleaning THEN "free" ELSE "start_return") \in Places
    BY DEF Places, Labels
  <2> QED
    BY <1>0, <2>1, AtDest, LogMoves DEF StopClients, LogThen, Places, Labels
<1>2. ~InFlight /\ ~InFlight' /\ AcceptedFds = RegisteredFds
  BY <1>0, <1>1 DEF InFlight, Heading, RegistryExact
<1>3. /\ fdTable' \in [Fds -> {"free", "log", "socket", "listen"} \cup Conns]
      /\ conn' \in [Conns -> {"idle", "open", "left", "closed"}]
      /\ AcceptedFds' = AcceptedFds \ RegisteredFds
      /\ \A fd \in Fds : fdTable'[fd] = "socket" <=> fdTable[fd] = "socket"
      /\ \A fd \in Fds : fdTable'[fd] = "listen" <=> fdTable[fd] = "listen"
      /\ \A fd \in Fds : fdTable'[fd] = "log" <=> fdTable[fd] = "log"
  BY <1>0, <1>2, CloseConnections DEF StopClients, SlotsToClose, RegisteredFds
<1>4. /\ count' = 0 /\ state' = "SERVER_STOPPED"
      /\ UNCHANGED <<cleaning, serverSocket, sockets, locVars, backlog, logVars, sigVars>>
  BY DEF StopClients
<1>5. TypeOK'
  BY <1>0, <1>1, <1>3, <1>4 DEF TypeOK, Places, ServerStates, locVars, logVars, sigVars
<1>6. RegistryExact'
  <2>1. Registered' = {}
    BY <1>4 DEF Registered, Slots
  <2> QED
    BY <1>2, <1>3, <2>1 DEF RegistryExact, RegisteredFds
<1>7. OwnedDescriptors'
  BY <1>0, <1>1, <1>3, <1>4 DEF OwnedDescriptors, TypeOK, logVars
<1>8. Lifecycle'
  BY <1>0, <1>1, <1>4 DEF Lifecycle, StatesAt, logVars
<1> QED
  BY <1>5, <1>6, <1>7, <1>8 DEF ServerInv

\* close_logger closes the log file, then forgets it.
LEMMA CloseLogStep ==
    ASSUME ServerInv, CloseLogFile \/ ForgetLogFile
    PROVE  ServerInv'
<1> USE ServerAssumption
<1>0. TypeOK /\ RegistryExact /\ OwnedDescriptors /\ Lifecycle
  BY DEF ServerInv
<1>1. CASE CloseLogFile
  <2>1. Dest = "fclose" /\ Dest' = "fclosed" /\ pc' \in Labels /\ ret' \in Places
    BY <1>0, <1>1, AtDest, GotoMoves DEF CloseLogFile, Places, Labels
  <2>2. logFile \in Fds /\ fdTable[logFile] = "log"
    BY <1>0, <2>1 DEF Lifecycle, OwnedDescriptors, TypeOK
  <2>3. /\ fdTable' = [fdTable EXCEPT ![logFile] = "free"]
        /\ UNCHANGED <<cleaning, ctxVars, locVars, backlog, conn, logVars, sigVars>>
    BY <1>1 DEF CloseLogFile
  <2>4. TypeOK'
    <3>1. fdTable' \in [Fds -> {"free", "log", "socket", "listen"} \cup Conns]
      BY <1>0, <2>2, <2>3 DEF TypeOK
    <3> QED
      BY <1>0, <2>1, <2>3, <3>1 DEF TypeOK, Places, ctxVars, locVars, logVars, sigVars
  <2>5. AcceptedFds' = AcceptedFds
    BY <1>0, <2>2, <2>3 DEF AcceptedFds, TypeOK
  <2>6. RegistryExact'
    BY <1>0, <2>1, <2>3, <2>5 DEF RegistryExact, InFlight, Heading, RegisteredFds,
                                 Registered, ctxVars, locVars
  <2>7. OwnedDescriptors'
    BY <1>0, <2>1, <2>2, <2>3 DEF OwnedDescriptors, TypeOK, ctxVars, logVars
  <2>8. Lifecycle'
    BY <1>0, <2>1, <2>3 DEF Lifecycle, StatesAt, ctxVars, logVars
  <2> QED
    BY <2>4, <2>6, <2>7, <2>8 DEF ServerInv
<1>2. CASE ForgetLogFile
  <2>1. Dest = "fclosed" /\ Dest' = "exited" /\ pc' \in Labels /\ ret' \in Places
    BY <1>0, <1>2, AtDest, GotoMoves DEF ForgetLogFile, Places, Labels
  <2>2. logFile' = NULL
        /\ UNCHANGED <<cleaning, ctxVars, locVars, kernVars, minimumLevel, logMutex, sigVars>>
    BY <1>2 DEF ForgetLogFile
  <2>3. TypeOK'
    BY <1>0, <2>1, <2>2 DEF TypeOK, Places, ctxVars, locVars, kernVars, sigVars
  <2>4. RegistryExact'
    BY <1>0, <2>1, <2>2, RegistryKept DEF InFlight, Heading, ctxVars, locVars, kernVars
  <2>5. \A fd \in Fds : fdTable[fd] # "log"
    BY <1>0, <2>1 DEF OwnedDescriptors, TypeOK
  <2>6. OwnedDescriptors'
    BY <1>0, <2>1, <2>2, <2>5 DEF OwnedDescriptors, ctxVars, kernVars, NULL
  <2>7. Lifecycle'
    BY <1>0, <2>1, <2>2 DEF Lifecycle, StatesAt, ctxVars
  <2> QED
    BY <2>3, <2>4, <2>6, <2>7 DEF ServerInv
<1> QED
  BY <1>1, <1>2

-----------------------------------------------------------------------------
(* Signals and clients *)

\* The handler moves the thread only out of a sleep.
LEMMA SignalMoves ==
    ASSUME Handler \/ \E s \in Signals : Deliver(s)
    PROVE  \/ pc' = pc /\ ret' = ret
           \/ Dest = "poll_sleep" /\ Dest' = "check_errno" /\ pc' \in Labels /\ ret' = ret
           \/ Dest = "idle_sleep" /\ Dest' = "loop" /\ pc' \in Labels /\ ret' = ret
BY DEF Handler, HandlerLogLock, HandlerLogUnlock, HandlerReturn, Deliver, Sleeping, WakeUp,
       Goto, Dest, Labels

\* The handler's frames stay a stack of delivered signals; it changes nothing
\* of the context.
LEMMA SignalStep ==
    ASSUME ServerInv, Handler \/ \E s \in Signals : Deliver(s)
    PROVE  ServerInv'
<1>0. TypeOK /\ RegistryExact /\ OwnedDescriptors /\ Lifecycle
  BY DEF ServerInv
<1>1. /\ UNCHANGED <<cleaning, ctxVars, setupSocket, clientSocket, result, startResult, kernVars,
                     logFile, minimumLevel, installed>>
      /\ running' \in BOOLEAN
      /\ errno' \in Errnos
  BY <1>0 DEF Handler, HandlerLogLock, HandlerLogUnlock, HandlerReturn, Deliver, locVars,
              logVars, Errnos, TypeOK
<1>2. /\ frames' \in Seq(Frames) /\ delivered' \in SUBSET Signals
      /\ \A i \in DOMAIN frames' : frames'[i].sig \in delivered'
      /\ logMutex' \in {NONE, "main"} \cup Signals
  <2>1. ASSUME NEW s \in Signals, Deliver(s)
        PROVE  <1>2!:
    <3>1. /\ delivered' = delivered \cup {s} /\ logMutex' = logMutex
          /\ \E f \in Frames : f.sig = s /\ frames' = Append(frames, f)
      BY <2>1 DEF Deliver, Frames, logVars
    <3> QED
      BY <1>0, <3>1 DEF TypeOK
  <2>2. ASSUME NEW l \in {"log_held", "set"}, frames # <<>>, SetTop(l), delivered' = delivered
        PROVE  /\ frames' \in Seq(Frames)
               /\ \A i \in DOMAIN frames' : frames'[i].sig \in delivered'
    <3> DEFINE n == Len(frames)
               f == [frames[n] EXCEPT !.at = l]
    <3>1. frames \in Seq(Frames) /\ n \in 1 .. Len(frames)
      BY <1>0, <2>2 DEF TypeOK
    <3>2. frames[n] \in Frames
      BY <3>1
    <3>3. f \in Frames /\ f.sig = frames[n].sig
      BY <3>2 DEF Frames
    <3>4. frames' = [frames EXCEPT ![n] = f]
      BY <2>2 DEF SetTop
    <3>5. /\ frames' \in Seq(Frames) /\ Len(frames') = Len(frames)
          /\ \A j \in 1 .. Len(frames) : frames'[j] = IF j = n THEN f ELSE frames[j]
      BY <3>1, <3>3, <3>4, ExceptSeq
    <3>6. /\ DOMAIN frames = 1 .. Len(frames) /\ DOMAIN frames' = 1 .. Len(frames)
          /\ \A i \in DOMAIN frames : frames[i].sig \in delivered
      BY <1>0, <3>1, <3>5 DEF TypeOK
    <3> HIDE DEF f, n
    <3>7. \A i \in 1 .. Len(frames) : frames'[i].sig \in delivered
      BY <3>1, <3>3, <3>5, <3>6
    <3> QED
      BY <2>2, <3>5, <3>6, <3>7
  <2>3. CASE HandlerLogLock
    <3>1. Top.sig \in Signals
      BY <1>0, <2>3 DEF HandlerLogLock, Top, TypeOK, Frames
    <3> QED
      BY <1>0, <2>2, <2>3, <3>1 DEF HandlerLogLock, TypeOK
  <2>4. CASE HandlerLogUnlock
    BY <1>0, <2>2, <2>4 DEF HandlerLogUnlock, TypeOK
  <2>5. CASE HandlerReturn
    BY <1>0, <2>5 DEF HandlerReturn, TypeOK, logVars
  <2> QED
    BY <2>1, <2>3, <2>4, <2>5 DEF Handler
<1>3. \/ pc' = pc /\ ret' = ret
      \/ Dest = "poll_sleep" /\ Dest' = "check_errno" /\ pc' \in Labels /\ ret' = ret
      \/ Dest = "idle_sleep" /\ Dest' = "loop" /\ pc' \in Labels /\ ret' = ret
  BY SignalMoves
<1>4. TypeOK'
  BY <1>0, <1>1, <1>2, <1>3 DEF TypeOK, ctxVars, kernVars
<1>5. CASE Dest' = Dest
  <2>1. RegistryExact'
    BY <1>0, <1>1, <1>5, RegistryKept DEF InFlight, Heading, ctxVars, kernVars
  <2>2. OwnedDescriptors'
    BY <1>0, <1>1, <1>5, OwnedKept DEF ctxVars, kernVars
  <2>3. Lifecycle'
    BY <1>0, <1>1, <1>5 DEF Lifecycle, ctxVars
  <2> QED
    BY <1>4, <2>1, <2>2, <2>3 DEF ServerInv
<1>6. CASE Dest' # Dest
  <2>1. <<Dest, Dest'>> \in QuietMoves
    BY <1>3, <1>6 DEF QuietMoves, Dest
  <2> QED
    BY <1>1, <1>3, <1>4, <1>6, <2>1, QuietStep DEF kernVars, Dest
<1> QED
  BY <1>5, <1>6

\* What the clients do reaches the server only through the listen queue.
LEMMA ClientStep ==
    ASSUME ServerInv, NEW c \in Conns, Connect(c) \/ Leave(c)
    PROVE  ServerInv'
<1>0. TypeOK /\ RegistryExact /\ OwnedDescriptors /\ Lifecycle
  BY DEF ServerInv
<1>1. /\ UNCHANGED <<pc, ret, cleaning, ctxVars, locVars, fdTable, logVars, sigVars>>
      /\ backlog' \in Seq(Conns)
      /\ conn' \in [Conns -> {"idle", "open", "left", "closed"}]
  <2>1. CASE Connect(c)
    BY <1>0, <2>1 DEF Connect, TypeOK
  <2>2. CASE Leave(c)
    BY <1>0, <2>2 DEF Leave, TypeOK
  <2> QED
    BY <2>1, <2>2
<1>2. TypeOK'
  BY <1>0, <1>1 DEF TypeOK, ctxVars, locVars, logVars, sigVars
<1>3. Dest' = Dest
  BY <1>1 DEF Dest
<1>4. RegistryExact'
  BY <1>0, <1>1, <1>3, RegistryKept DEF InFlight, Heading, ctxVars, locVars
<1>5. OwnedDescriptors'
  BY <1>0, <1>1, <1>3, OwnedKept DEF ctxVars, locVars, logVars
<1>6. Lifecycle'
  BY <1>0, <1>1, <1>3 DEF Lifecycle, ctxVars, locVars, logVars
<1> QED
  BY <1>2, <1>4, <1>5, <1>6 DEF ServerInv

-----------------------------------------------------------------------------
(* The theorems *)

\* The invariant holds at the start.
LEMMA InitServerInv == Init => ServerInv
<1> SUFFICES ASSUME Init PROVE ServerInv
  OBVIOUS
<1> USE ServerAssumption DEF Init
<1>1. TypeOK
  <2>1. backlog \in Seq(Conns) /\ frames \in Seq(Frames)
    OBVIOUS
  <2>2. \A i \in DOMAIN frames : frames[i].sig \in delivered
    OBVIOUS
  <2>3. count \in 0 .. MaxClients /\ minimumLevel \in LOG_TRACE .. LOG_FATAL
    BY DEF LOG_TRACE, LOG_INFO, LOG_FATAL
  <2> QED
    BY <2>1, <2>2, <2>3 DEF TypeOK, Labels, ServerStates, SetupErrors, ERROR_SOCKET_CREATE,
       Errnos, Results, NULL
<1>2. Dest = "boot" /\ ~InFlight
  BY DEF Dest, InFlight, Heading
<1>3. AcceptedFds = {} /\ Registered = {}
  BY DEF AcceptedFds, Registered, Slots
<1>4. RegistryExact
  BY <1>2, <1>3 DEF RegistryExact, RegisteredFds
<1>5. OwnedDescriptors /\ Lifecycle
  BY <1>2 DEF OwnedDescriptors, Lifecycle, StatesAt, NULL
<1> QED
  BY <1>1, <1>4, <1>5 DEF ServerInv

\* Every step keeps it.
LEMMA NextServerInv == ServerInv /\ [Next]_vars => ServerInv'
<1> SUFFICES ASSUME ServerInv, [Next]_vars
             PROVE  ServerInv'
  OBVIOUS
<1>1. CASE Main
  BY <1>1, LogStep, InitLoggerStep, InitializeServerContextStep, QuietActions, CreateSocketStep,
     SocketStep, SetupReturnStep,
     StateActions, AcceptStep, RegisterStep, RejectStep, StopListenStep, StopClientsStep,
     CloseLogStep DEF Main, QuietAction
<1>2. CASE Handler \/ Environment
  BY <1>2, SignalStep, ClientStep DEF Environment
<1>3. CASE UNCHANGED vars
  BY <1>3 DEF vars, dataVars, ctxVars, locVars, kernVars, logVars, sigVars, ServerInv, TypeOK,
              RegistryExact, OwnedDescriptors, Lifecycle, Dest, InFlight, Heading, AcceptedFds,
              RegisteredFds, Registered
<1> QED
  BY <1>1, <1>2, <1>3 DEF Next

\* The inductive invariant of the lifecycle holds in every state: at each
\* point of main(), start_server, stop_server and cleanup_server the state
\* of the context, server_socket, the client table and the log file are the
\* ones the code that follows relies on.
LEMMA InvariantHolds == Spec => []ServerInv
BY InitServerInv, NextServerInv, PTL DEF Spec

\* Type correctness of the server: client_count stays within max_clients,
\* server_socket is a descriptor, the 0 of calloc or an error code.
THEOREM TypeCorrect == Spec => []TypeOK
<1>1. ServerInv => TypeOK
  BY DEF ServerInv
<1> QED
  BY <1>1, InvariantHolds, PTL

\* The client table of accept_client and stop_server is exact in every
\* state, for every max_clients and any number of clients and descriptors.
THEOREM RegistryAlwaysExact == Spec => []RegistryExact
<1>1. ServerInv => RegistryExact
  BY DEF ServerInv
<1> QED
  BY <1>1, InvariantHolds, PTL

\* stop_server has closed everything when it sets SERVER_STOPPED, whenever
\* the signal came.
THEOREM StopClosesEverything == Spec => []StoppedMeansClosed
<1>1. ServerInv => StoppedMeansClosed
  <2> SUFFICES ASSUME ServerInv, state \in {"SERVER_STOPPED", "FREED"}
               PROVE  count = 0 /\ \A fd \in Fds : fdTable[fd] \in {"free", "log"}
    BY DEF StoppedMeansClosed
  <2>1. count = 0 /\ serverSocket \notin Fds /\ ~InFlight /\ Dest \notin SetupLabels
    BY DEF ServerInv, Lifecycle, StatesAt, InFlight, Heading
  <2>2. AcceptedFds = {}
    <3>1. Registered = {}
      BY <2>1 DEF Registered, Slots
    <3> QED
      BY <2>1, <3>1 DEF ServerInv, RegistryExact, RegisteredFds
  <2> QED
    BY <2>1, <2>2 DEF ServerInv, TypeOK, OwnedDescriptors, AcceptedFds
<1> QED
  BY <1>1, InvariantHolds, PTL

\* Every close() of stop_server and close_logger hits a descriptor the
\* server owns, in both runs of stop_server and after a failed setup.
THEOREM ClosesOnlyItsOwn == Spec => []ClosesOwnDescriptors
<1>1. ServerInv => ClosesOwnDescriptors
  <2> SUFFICES ASSUME ServerInv PROVE ClosesOwnDescriptors
    OBVIOUS
  <2>0. Dest \in AbandonLabels => setupSocket \in Fds /\ fdTable[setupSocket] = "socket"
    BY DEF ServerInv, Lifecycle, OwnedDescriptors
  <2>1. Heading("stop_listen") /\ serverSocket >= 0 =>
            serverSocket \in Fds /\ fdTable[serverSocket] = "listen"
    BY ServerAssumption DEF ServerInv, TypeOK, Lifecycle, OwnedDescriptors, Heading, SetupErrors,
       ERROR_SOCKET_CREATE, ERROR_SOCKET_BIND, ERROR_SOCKET_LISTEN
  <2>2. Heading("stop_clients") => RegisteredFds \subseteq AcceptedFds
    BY DEF ServerInv, RegistryExact
  <2>3. pc = "fclose" => logFile \in Fds /\ fdTable[logFile] = "log"
    BY DEF ServerInv, TypeOK, Lifecycle, OwnedDescriptors, Dest
  <2> QED
    BY <2>0, <2>1, <2>2, <2>3 DEF ClosesOwnDescriptors
<1> QED
  BY <1>1, InvariantHolds, PTL

\* main() leaves no descriptor open, except the log file when
\* initialize_server_context failed.
THEOREM NothingLeaksAtExit == Spec => []ExitLeaksNothing
<1>1. ServerInv => ExitLeaksNothing
  <2> SUFFICES ASSUME ServerInv, pc = "exited", NEW fd \in Fds, fdTable[fd] # "free"
               PROVE  fdTable[fd] = "log" /\ state = "NO_CONTEXT"
    BY DEF ExitLeaksNothing
  <2>1. Dest = "exited" /\ ~InFlight
    BY DEF Dest, InFlight, Heading
  <2>2. /\ state \in {"NO_CONTEXT", "FREED"} /\ serverSocket \notin Fds /\ count = 0
        /\ state = "FREED" => logFile = NULL
    BY <2>1 DEF ServerInv, Lifecycle, StatesAt
  <2>3. AcceptedFds = {}
    <3>1. Registered = {}
      BY <2>2 DEF Registered, Slots
    <3> QED
      BY <2>1, <3>1 DEF ServerInv, RegistryExact, RegisteredFds
  <2>4. fdTable[fd] = "log" /\ logFile = fd
    BY <2>1, <2>2, <2>3 DEF ServerInv, TypeOK, OwnedDescriptors, AcceptedFds
  <2> QED
    BY <2>2, <2>4, ServerAssumption DEF NULL
<1> QED
  BY <1>1, InvariantHolds, PTL
=============================================================================
