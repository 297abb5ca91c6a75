-------------------------- MODULE AdmissionProofs --------------------------
(* The server implements Admission, for every set of connections and       *)
(* descriptors, every max_clients, queue length and log level.             *)
EXTENDS ServerProofs

USE DEF AbandonLabels, OpenedLabels, SetupLabels

\* What the refinement needs beside ServerInv: a server in service listens,
\* one that does not listen has no queue, and a connection is refused only
\* when the table is full.
ServiceInv ==
    /\ ~Listening => backlog = <<>>
    /\ Dest = "serve" \/ state = "SERVER_RUNNING" => serverSocket \in Fds
    /\ Dest = "reject" => count = MaxClients

-----------------------------------------------------------------------------
(* The mapping *)

\* The server listens exactly while server_socket is a descriptor or
\* setup_socket is about to return one.
LEMMA ListeningSocket ==
    ASSUME ServerInv
    PROVE  Listening <=> serverSocket \in Fds \/ (Dest = "setup_return" /\ setupSocket \in Fds)
BY DEF ServerInv, OwnedDescriptors, Listening

\* Only a client itself goes away: closing a connection does not count.
LEMMA GoneKept ==
    ASSUME Main \/ Handler \/ (\E s \in Signals : Deliver(s)) \/ \E c \in Conns : Connect(c)
    PROVE  Gone' = Gone
<1>1. CASE Main
  <2>1. CASE Reject \/ StopClients
    BY <2>1 DEF Reject, StopClients, CloseFds, Gone
  <2>2. CASE StopListen
    BY <2>2 DEF StopListen, Gone, kernVars
  <2>3. CASE ~(Reject \/ StopClients \/ StopListen)
    <3>1. conn' = conn
      BY <1>1, <2>3 DEF Main, LogLock, LogUnlock, InitLogger, InitializeServerContext, Start,
         InstallHandler, CreateSocket, SetSocketOption, Bind, Listen, AbandonSocket, SetupReturn,
         Serve, Loop, AcceptWouldBlock, AcceptFails, Accept, Register, RefuseAtLimit, CheckErrno,
         SleepEnds, StopServer, StartReturn, FreeContext, CloseLogger, CloseLogFile,
         ForgetLogFile, dataVars, kernVars
    <3> QED
      BY <3>1 DEF Gone
  <2> QED
    BY <2>1, <2>2, <2>3
<1>2. CASE Handler \/ \E s \in Signals : Deliver(s)
  BY <1>2 DEF Handler, HandlerLogLock, HandlerLogUnlock, HandlerReturn, Deliver, kernVars, Gone
<1>3. ASSUME NEW c \in Conns, Connect(c)
      PROVE  Gone' = Gone
  BY <1>3 DEF Connect, Gone
<1> QED
  BY <1>1, <1>2, <1>3

\* The clients that are served depend on the first client_count entries and
\* their descriptors only.
LEMMA ServedKept ==
    ASSUME TypeOK, UNCHANGED <<sockets, count>>,
           \A fd \in RegisteredFds : fdTable'[fd] = fdTable[fd]
    PROVE  Served' = Served
<1>1. ASSUME NEW i \in 1 .. count
      PROVE  fdTable'[sockets[i - 1]] = fdTable[sockets[i - 1]]
  <2>1. count \in 0 .. MaxClients /\ MaxClients \in Nat
    BY ServerAssumption DEF TypeOK
  <2>2. i - 1 \in Registered
    BY <2>1 DEF Registered, Slots
  <2>3. sockets[i - 1] \in RegisteredFds
    BY <2>2 DEF RegisteredFds
  <2> QED
    BY <2>3
<1> QED
  BY <1>1 DEF Served

\* A step that leaves descriptors, queue and table alone, and moves the
\* thread neither into nor out of the time it has a connection in hand, is
\* not seen by the clients.
LEMMA Unseen ==
    ASSUME TypeOK, UNCHANGED <<fdTable, backlog, sockets, count, clientSocket>>,
           InFlight' = InFlight,
           \/ state' = state
           \/ Listening
           \/ {state, state'} \subseteq {"NO_CONTEXT", "SERVER_STATE_INIT"}
           \/ {state, state'} \cap {"NO_CONTEXT", "SERVER_STATE_INIT"} = {}
    PROVE  UNCHANGED <<Phase, Waiting, Served>>
<1>1. Phase' = Phase
  BY DEF Phase, Listening
<1>2. Waiting' = Waiting
  BY DEF Waiting
<1>3. Served' = Served
  BY ServedKept
<1> QED
  BY <1>1, <1>2, <1>3

-----------------------------------------------------------------------------
(* Steps the clients do not see *)

\* The thread moves, inside log_message or by a quiet step or out of a sleep.
LEMMA MovesUnseen ==
    ASSUME ServerInv, ServiceInv,
           \/ LogLock \/ LogUnlock \/ (QuietAction /\ ~AcceptFails)
           \/ Handler \/ \E s \in Signals : Deliver(s)
    PROVE  ServiceInv' /\ UNCHANGED <<Phase, Waiting, Served>>
<1> USE DEF ctxVars, locVars, kernVars
<1>0. TypeOK
  BY DEF ServerInv
<1>1. UNCHANGED <<state, serverSocket, sockets, count, clientSocket, fdTable, backlog>>
  BY DEF LogLock, LogUnlock, QuietAction, Start, InstallHandler, SetSocketOption, Bind, Loop,
         AcceptWouldBlock, RefuseAtLimit, CheckErrno, SleepEnds, StopServer, CloseLogger, dataVars,
         Handler, HandlerLogLock, HandlerLogUnlock, HandlerReturn, Deliver
<1>2. \/ Dest' = Dest
      \/ <<Dest, Dest'>> \in QuietMoves /\ (Dest' = "reject" => AtCapacity)
  <2>1. CASE LogLock \/ LogUnlock
    BY <1>0, <2>1 DEF LogLock, LogUnlock, At, Goto, Dest, TypeOK
  <2>2. CASE QuietAction
    BY <1>0, <2>2, QuietActionMoves
  <2>3. CASE Handler \/ \E s \in Signals : Deliver(s)
    BY <2>3, SignalMoves DEF QuietMoves, Dest
  <2> QED
    BY <2>1, <2>2, <2>3
<1>3. InFlight' = InFlight
  BY <1>2 DEF InFlight, Heading, QuietMoves
<1>4. UNCHANGED <<Phase, Waiting, Served>>
  BY <1>0, <1>1, <1>3, Unseen
<1>5. ServiceInv'
  BY <1>0, <1>1, <1>2, ServerAssumption DEF ServiceInv, QuietMoves, AtCapacity, Listening, TypeOK
<1> QED
  BY <1>4, <1>5

\* The context is allocated, receives what setup_socket returned, goes into
\* service, is returned to main() or freed; the log file is forgotten.
LEMMA LifecycleUnseen ==
    ASSUME ServerInv, ServiceInv,
           InitializeServerContext \/ SetupReturn \/ Serve \/ StartReturn \/ FreeContext
           \/ ForgetLogFile
    PROVE  ServiceInv' /\ UNCHANGED <<Phase, Waiting, Served>>
<1> USE ServerAssumption DEF Places, Labels, ctxVars, locVars, kernVars
<1>0. TypeOK /\ Lifecycle
  BY DEF ServerInv
<1>1. UNCHANGED <<sockets, count, clientSocket, fdTable, backlog>>
  BY DEF InitializeServerContext, SetupReturn, Serve, StartReturn, FreeContext,
         ForgetLogFile
<1>2. \/ /\ Dest = "alloc" /\ Dest' \in {"start", "exited"}
         /\ state' \in {state, "SERVER_STATE_INIT"} /\ serverSocket' \in {serverSocket, 0}
      \/ /\ Dest = "setup_return" /\ Dest' \in {"start_return", "serve"}
         /\ state' = state /\ (Dest' = "serve" => serverSocket' \in Fds)
      \/ Dest = "serve" /\ Dest' = "loop" /\ serverSocket' = serverSocket
      \/ Dest = "start_return" /\ Dest' = "stop" /\ UNCHANGED <<state, serverSocket>>
      \/ Dest = "free" /\ Dest' = "close_logger" /\ state' = "FREED" /\ serverSocket' = serverSocket
      \/ Dest = "fclosed" /\ Dest' = "exited" /\ UNCHANGED <<state, serverSocket>>
  <2>1. CASE InitializeServerContext
    BY <1>0, <2>1, AtDest, LogMoves, GotoMoves DEF InitializeServerContext, LogThen
  <2>2. CASE SetupReturn
    <3>1. Dest = "setup_return"
      BY <1>0, <2>2, AtDest DEF SetupReturn
    <3>2. /\ Dest' \in {"start_return", "serve"}
          /\ Dest' = "serve" => ~(setupSocket < 0)
      BY <1>0, <2>2, LogMoves, GotoMoves DEF SetupReturn, LogThen
    <3>3. ~(setupSocket < 0) => setupSocket \in Fds
      BY <1>0 DEF TypeOK, SetupErrors, ERROR_SOCKET_CREATE, ERROR_SOCKET_BIND,
                  ERROR_SOCKET_LISTEN, NULL
    <3> QED
      BY <2>2, <3>1, <3>2, <3>3 DEF SetupReturn
  <2>3. CASE Serve
    BY <1>0, <2>3, AtDest, LogMoves DEF Serve, LogThen
  <2>4. CASE StartReturn
    BY <1>0, <2>4, AtDest, GotoMoves DEF StartReturn
  <2>5. CASE FreeContext
    BY <1>0, <2>5, AtDest, LogMoves DEF FreeContext, LogThen
  <2>6. CASE ForgetLogFile
    BY <1>0, <2>6, AtDest, GotoMoves DEF ForgetLogFile
  <2> QED
    BY <2>1, <2>2, <2>3, <2>4, <2>5, <2>6
<1>3. InFlight' = InFlight
  BY <1>2 DEF InFlight, Heading
<1>4. \/ state' = state
      \/ Listening
      \/ {state, state'} \subseteq {"NO_CONTEXT", "SERVER_STATE_INIT"}
      \/ {state, state'} \cap {"NO_CONTEXT", "SERVER_STATE_INIT"} = {}
  BY <1>0, <1>2, ListeningSocket DEF Lifecycle, StatesAt, ServiceInv
<1>5. UNCHANGED <<Phase, Waiting, Served>>
  BY <1>0, <1>1, <1>3, <1>4, Unseen
<1>6. ServiceInv'
  BY <1>0, <1>1, <1>2 DEF Lifecycle, StatesAt, ServiceInv, Listening
<1> QED
  BY <1>5, <1>6

\* The log file is opened before there is a server and closed after it.
LEMMA LogFileUnseen ==
    ASSUME ServerInv, ServiceInv, InitLogger \/ CloseLogFile
    PROVE  ServiceInv' /\ UNCHANGED <<Phase, Waiting, Served>>
<1> USE ServerAssumption DEF Places, Labels, ctxVars, locVars
<1>0. TypeOK /\ Lifecycle /\ OwnedDescriptors /\ RegistryExact
  BY DEF ServerInv
<1>1. \/ Dest = "boot" /\ Dest' = "alloc"
      \/ Dest = "fclose" /\ Dest' = "fclosed"
  BY <1>0, AtDest, LogMoves, GotoMoves DEF InitLogger, CloseLogFile
<1>2. UNCHANGED <<state, serverSocket, sockets, count, clientSocket, backlog>>
  BY DEF InitLogger, CloseLogFile
<1>3. count = 0 /\ ~InFlight /\ ~InFlight'
  BY <1>0, <1>1 DEF Lifecycle, StatesAt, InFlight, Heading
<1>4. Listening' <=> Listening
  <2>1. ServerInv'
    BY InitLoggerStep, CloseLogStep
  <2>2. Listening' <=> serverSocket' \in Fds
    BY <1>1, <2>1 DEF ServerInv, OwnedDescriptors, Listening
  <2> QED
    BY <1>1, <1>2, <2>2, ListeningSocket
<1>5. Phase' = Phase /\ Waiting' = Waiting
  BY <1>2, <1>3, <1>4 DEF Phase, Waiting
<1>6. Registered = {}
  BY <1>3 DEF Registered, Slots
<1>7. Served' = Served
  BY <1>0, <1>2, <1>6, ServedKept DEF RegisteredFds
<1>8. ServiceInv'
  BY <1>0, <1>1, <1>2, <1>4 DEF ServiceInv, Lifecycle, StatesAt
<1> QED
  BY <1>5, <1>7, <1>8

\* setup_socket opens a socket nobody can connect to, and closes it again.
LEMMA SocketUnseen ==
    ASSUME ServerInv, ServiceInv, CreateSocket \/ AbandonSocket \/ (Listen /\ ~Listening')
    PROVE  ServiceInv' /\ UNCHANGED <<Phase, Waiting, Served>>
<1> USE ServerAssumption DEF Places, Labels, ctxVars, locVars
<1>0. TypeOK
  BY DEF ServerInv
<1>1. /\ Dest \in SetupLabels \ {"setup_return"}
      /\ Dest' \in {"setsockopt", "not_listening", "setup_return"}
  BY <1>0, AtDest, LogMoves, GotoMoves DEF CreateSocket, AbandonSocket, Listen, LogThen
<1>2. UNCHANGED <<state, serverSocket, sockets, count, clientSocket, backlog>>
  BY DEF CreateSocket, AbandonSocket, Listen
<1>3. /\ state = "SERVER_STATE_INIT" /\ serverSocket = 0 /\ count = 0
      /\ ~Listening /\ ~InFlight
  BY <1>1, DuringSetup DEF Listening
<1>4. ~Listening' /\ ~InFlight'
  <2>1. CASE CreateSocket
    BY <1>0, <1>1, <1>3, <2>1 DEF CreateSocket, Listening, InFlight, Heading, TypeOK
  <2>2. CASE AbandonSocket
    BY <1>0, <1>1, <1>3, <2>2 DEF AbandonSocket, Listening, InFlight, Heading, TypeOK
  <2>3. CASE Listen /\ ~Listening'
    BY <1>1, <2>3 DEF InFlight, Heading
  <2> QED
    BY <2>1, <2>2, <2>3
<1>5. Phase' = Phase /\ Waiting' = Waiting
  BY <1>2, <1>3, <1>4 DEF Phase, Waiting
<1>6. Registered = {}
  BY <1>3 DEF Registered, Slots
<1>7. Served' = Served
  BY <1>0, <1>2, <1>6, ServedKept DEF RegisteredFds
<1>8. ServiceInv'
  BY <1>1, <1>2, <1>3 DEF ServiceInv
<1> QED
  BY <1>5, <1>7, <1>8

\* A client that goes away is still served, or still waits.
LEMMA LeaveGoesAway ==
    ASSUME ServerInv, ServiceInv, NEW c \in Conns, Leave(c)
    PROVE  ServiceInv' /\ Abstract!GoAway(c)
<1>1. UNCHANGED <<pc, ret, state, serverSocket, sockets, count, clientSocket, fdTable, backlog>>
  BY DEF Leave, ctxVars, locVars
<1>2. Dest' = Dest /\ InFlight' = InFlight
  BY <1>1 DEF Dest, InFlight, Heading
<1>3. Gone' = Gone \cup {c}
  BY DEF Leave, Gone, ServerInv, TypeOK
<1>4. UNCHANGED <<Phase, Waiting, Served>>
  BY <1>1, <1>2, Unseen DEF ServerInv
<1> QED
  BY <1>1, <1>2, <1>3, <1>4 DEF ServiceInv, Listening, Abstract!GoAway

-----------------------------------------------------------------------------
(* Steps the clients see *)

\* setup_socket succeeds: the server opens.
LEMMA ListenOpens ==
    ASSUME ServerInv, ServiceInv, Listen, Listening'
    PROVE  ServiceInv' /\ Abstract!Open
<1> USE ServerAssumption DEF Places, Labels
<1>0. TypeOK
  BY DEF ServerInv
<1>1. Dest = "listen" /\ Dest' \in {"setup_return", "not_listening"}
  BY <1>0, AtDest, LogMoves DEF Listen, LogThen
<1>2. UNCHANGED <<state, serverSocket, sockets, count, clientSocket, backlog>>
  BY DEF Listen, ctxVars, locVars
<1>3. /\ state = "SERVER_STATE_INIT" /\ serverSocket = 0 /\ count = 0
      /\ ~Listening
  BY <1>1, DuringSetup DEF Listening
<1>4. Phase = "down" /\ Phase' = "up"
  BY <1>3 DEF Phase
<1>5. Waiting' = Waiting
  BY <1>1, <1>2 DEF Waiting, InFlight, Heading
<1>6. Served' = Served
  <2>1. Registered = {}
    BY <1>3 DEF Registered, Slots
  <2> QED
    BY <1>0, <1>2, <2>1, ServedKept DEF RegisteredFds
<1>7. ServiceInv'
  BY <1>1, <1>2, <1>3 DEF ServiceInv
<1>8. Gone' = Gone
  BY GoneKept DEF Main
<1> QED
  BY <1>4, <1>5, <1>6, <1>7, <1>8 DEF Abstract!Open

\* A connection enters the listen queue: a client arrives.
LEMMA ConnectArrives ==
    ASSUME ServerInv, ServiceInv, NEW c \in Conns, Connect(c)
    PROVE  ServiceInv' /\ Abstract!Arrive(c)
<1>0. TypeOK /\ RegistryExact
  BY DEF ServerInv
<1>1. /\ UNCHANGED <<pc, ret, state, serverSocket, sockets, count, clientSocket, fdTable>>
      /\ backlog' = Append(backlog, c) /\ Listening
  BY DEF Connect, ctxVars, locVars
<1>2. Dest' = Dest /\ InFlight' = InFlight
  BY <1>1 DEF Dest, InFlight, Heading
<1>3. Phase = "up" /\ Phase' = "up"
  BY <1>1 DEF Phase, Listening
<1>4. Waiting' = Append(Waiting, c)
  <2>1. backlog \in Seq(Conns)
    BY <1>0 DEF TypeOK
  <2>2. CASE InFlight
    <3>1. fdTable[clientSocket] \in Conns
      BY <1>0, <2>2 DEF RegistryExact, AcceptedFds
    <3>2. Waiting = <<fdTable[clientSocket]>> \o backlog
          /\ Waiting' = <<fdTable[clientSocket]>> \o Append(backlog, c)
      BY <1>1, <1>2, <2>2 DEF Waiting
    <3> QED
      BY <2>1, <3>1, <3>2
  <2>3. CASE ~InFlight
    BY <1>1, <1>2, <2>1, <2>3 DEF Waiting
  <2> QED
    BY <2>2, <2>3
<1>5. Served' = Served
  BY <1>0, <1>1, ServedKept
<1>6. ServiceInv'
  BY <1>1, <1>2 DEF ServiceInv, Listening
<1>7. Gone' = Gone
  BY GoneKept
<1> QED
  BY <1>3, <1>4, <1>5, <1>6, <1>7 DEF Abstract!Arrive

\* accept fails: the queue is as it was, or a client that had gone away has
\* dropped out of it.
LEMMA AcceptFailsDrops ==
    ASSUME ServerInv, ServiceInv, AcceptFails
    PROVE  ServiceInv' /\ (Abstract!DropOut \/ UNCHANGED <<Phase, Waiting, Served>>)
<1> USE ServerAssumption DEF Places, Labels
<1>0. TypeOK /\ Lifecycle
  BY DEF ServerInv
<1>1. Dest = "accept" /\ Dest' = "check_errno"
  BY <1>0, AtDest, LogMoves DEF AcceptFails, LogThen
<1>2. UNCHANGED <<state, serverSocket, sockets, count, clientSocket, fdTable>> /\ backlog # <<>>
  BY DEF AcceptFails, ctxVars
<1>3. ~InFlight /\ ~InFlight' /\ InFlight' = InFlight
  BY <1>1 DEF InFlight, Heading
<1>4. serverSocket \in Fds /\ Listening
  BY <1>0, <1>1, ListeningSocket DEF ServiceInv, Lifecycle, StatesAt
<1>5. ServiceInv'
  BY <1>1, <1>2, <1>4 DEF ServiceInv, Listening
<1>6. CASE backlog' = backlog
  BY <1>0, <1>2, <1>3, <1>5, <1>6, Unseen DEF AcceptFails, ctxVars
<1>7. CASE backlog' # backlog
  <2>1. backlog' = Tail(backlog) /\ conn[Head(backlog)] = "left"
    BY <1>7 DEF AcceptFails
  <2>2. backlog \in Seq(Conns) /\ Head(backlog) \in Conns
    BY <1>0, <1>2 DEF TypeOK
  <2>3. Waiting = backlog /\ Waiting' = backlog' /\ Head(backlog) \in Gone
    BY <1>3, <2>1, <2>2 DEF Waiting, Gone
  <2>4. Phase = "up" /\ Phase' = "up"
    BY <1>2, <1>4 DEF Phase, Listening
  <2>5. Served' = Served
    BY <1>0, <1>2, ServedKept
  <2>6. Gone' = Gone
    BY GoneKept DEF Main
  <2> QED
    BY <1>2, <1>5, <2>1, <2>3, <2>4, <2>5, <2>6 DEF Abstract!DropOut
<1> QED
  BY <1>6, <1>7

\* accept takes the head of the queue in hand; it still waits.
LEMMA AcceptUnseen ==
    ASSUME ServerInv, ServiceInv, Accept
    PROVE  ServiceInv' /\ UNCHANGED <<Phase, Waiting, Served>>
<1> USE ServerAssumption DEF Places, Labels
<1>0. TypeOK /\ Lifecycle /\ RegistryExact
  BY DEF ServerInv
<1>1. Dest = "accept" /\ Dest' = "register"
  BY <1>0, AtDest, LogMoves DEF Accept, LogThen
<1>2. PICK fd \in Fds : /\ fdTable[fd] = "free" /\ clientSocket' = fd
                        /\ fdTable' = [fdTable EXCEPT ![fd] = Head(backlog)]
  BY DEF Accept, LowestFree
<1>3. /\ backlog # <<>> /\ backlog' = Tail(backlog)
      /\ UNCHANGED <<state, serverSocket, sockets, count>>
  BY DEF Accept, ctxVars
<1>4. backlog \in Seq(Conns) /\ Head(backlog) \in Conns
  BY <1>0, <1>3 DEF TypeOK
<1>5. serverSocket \in Fds
  BY <1>0, <1>1 DEF ServiceInv, Lifecycle, StatesAt
<1>6. Phase' = Phase
  <2>1. Listening
    BY <1>5, ListeningSocket
  <2>2. Listening'
    BY <1>0, <1>2, <2>1 DEF Listening, TypeOK
  <2> QED
    BY <2>1, <2>2 DEF Phase
<1>7. Waiting' = Waiting
  <2>1. Waiting = backlog
    BY <1>1, <1>4 DEF Waiting, InFlight, Heading
  <2>2. Waiting' = <<Head(backlog)>> \o Tail(backlog)
    BY <1>0, <1>1, <1>2, <1>3 DEF Waiting, InFlight, Heading, TypeOK
  <2>3. <<Head(backlog)>> \o Tail(backlog) = backlog
    BY <1>3, <1>4
  <2> QED
    BY <2>1, <2>2, <2>3
<1>8. Served' = Served
  <2>1. fd \notin RegisteredFds
    BY <1>0, <1>2 DEF RegistryExact, AcceptedFds
  <2>2. \A g \in RegisteredFds : fdTable'[g] = fdTable[g]
    BY <1>0, <1>2, <2>1 DEF RegistryExact, AcceptedFds, TypeOK
  <2> QED
    BY <1>0, <1>3, <2>2, ServedKept
<1>9. ServiceInv'
  <2>1. Listening'
    BY <1>0, <1>2, <1>5, ListeningSocket DEF Listening, TypeOK
  <2> QED
    BY <1>1, <1>3, <1>5, <2>1 DEF ServiceInv
<1> QED
  BY <1>6, <1>7, <1>8, <1>9

\* What is left when the connection in hand is disposed of.
LEMMA InHandIsFirst ==
    ASSUME ServerInv, ServiceInv, InFlight
    PROVE  /\ Phase = "up" /\ Waiting # <<>>
           /\ Head(Waiting) = fdTable[clientSocket] /\ Tail(Waiting) = backlog
<1>0. TypeOK /\ RegistryExact /\ Lifecycle
  BY DEF ServerInv
<1>1. state = "SERVER_RUNNING"
  BY <1>0 DEF InFlight, Heading, Lifecycle, StatesAt
<1>2. Phase = "up"
  BY <1>1, ListeningSocket DEF Phase, ServiceInv
<1>3. fdTable[clientSocket] \in Conns /\ backlog \in Seq(Conns)
  BY <1>0 DEF RegistryExact, AcceptedFds, TypeOK
<1>4. Waiting = <<fdTable[clientSocket]>> \o backlog
  BY DEF Waiting
<1> QED
  BY <1>2, <1>3, <1>4

\* The entry is filled: the first client that waits is admitted.
LEMMA RegisterAdmits ==
    ASSUME ServerInv, ServiceInv, Register
    PROVE  ServiceInv' /\ Abstract!Admit
<1> USE ServerAssumption DEF Places, Labels
<1>0. TypeOK /\ RegistryExact /\ Lifecycle
  BY DEF ServerInv
<1>1. Dest = "register" /\ Dest' = "loop"
  BY <1>0, AtDest, GotoMoves DEF Register
<1>2. InFlight /\ ~InFlight'
  BY <1>1 DEF InFlight, Heading
<1>3. /\ sockets' = [sockets EXCEPT ![count] = clientSocket]
      /\ count' = count + 1 /\ count < MaxClients
      /\ UNCHANGED <<state, serverSocket, clientSocket, fdTable, backlog>>
  BY <1>0 DEF Register, AtCapacity, kernVars, TypeOK
<1>4. Phase' = Phase /\ Waiting' = backlog
  BY <1>0, <1>2, <1>3 DEF Phase, Listening, Waiting, TypeOK
<1>5. Len(Served) = count /\ Served' = Append(Served, fdTable[clientSocket])
  <2> DEFINE new == [i \in 1 .. count + 1 |-> IF i = count + 1 THEN fdTable[clientSocket]
                                                             ELSE Served[i]]
  <2>1. count \in Nat /\ Served = [i \in 1 .. count |-> fdTable[sockets[i - 1]]]
    BY <1>0 DEF Served, TypeOK
  <2>2. Len(Served) = count /\ DOMAIN Served = 1 .. count
    BY <2>1
  <2>3. Served' = new
    <3>1. Served' = [i \in 1 .. count + 1 |-> fdTable[sockets'[i - 1]]]
      BY <1>3 DEF Served
    <3>2. ASSUME NEW i \in 1 .. count + 1
          PROVE  fdTable[sockets'[i - 1]] = new[i]
      BY <1>0, <1>3, <2>1 DEF TypeOK, Slots
    <3> QED
      BY <3>1, <3>2
  <2>4. Append(Served, fdTable[clientSocket]) = new
    BY <2>1, <2>2
  <2> QED
    BY <2>2, <2>3, <2>4
<1>6. ServiceInv'
  BY <1>1, <1>3 DEF ServiceInv, Listening
<1>7. Gone' = Gone
  BY GoneKept DEF Main
<1> QED
  BY <1>2, <1>3, <1>4, <1>5, <1>6, <1>7, InHandIsFirst DEF Abstract!Admit

\* The connection is closed at the limit: the first client that waits is
\* refused.
LEMMA RejectRefuses ==
    ASSUME ServerInv, ServiceInv, Reject
    PROVE  ServiceInv' /\ Abstract!Refuse
<1> USE ServerAssumption DEF Places, Labels
<1>0. TypeOK /\ RegistryExact /\ Lifecycle /\ OwnedDescriptors
  BY DEF ServerInv
<1>1. Dest = "reject" /\ Dest' = "check_errno"
  BY <1>0, AtDest, GotoMoves DEF Reject
<1>2. InFlight /\ ~InFlight' /\ clientSocket \in AcceptedFds \ RegisteredFds
  BY <1>0, <1>1 DEF InFlight, Heading, RegistryExact
<1>3. /\ UNCHANGED <<state, serverSocket, sockets, count, clientSocket, backlog>>
      /\ fdTable' = [fd \in Fds |-> IF fd \in {clientSocket} THEN "free" ELSE fdTable[fd]]
  BY DEF Reject, CloseFds, ctxVars
<1>4. Phase' = "up" /\ Waiting' = backlog
  <2>1. Listening'
    BY <1>0, <1>2, <1>3, InHandIsFirst DEF Phase, Listening, AcceptedFds
  <2> QED
    BY <1>0, <1>2, <1>3, <2>1 DEF Phase, Waiting, TypeOK
<1>5. Served' = Served
  <2>1. \A g \in RegisteredFds : fdTable'[g] = fdTable[g]
    BY <1>0, <1>2, <1>3 DEF RegistryExact, AcceptedFds, TypeOK
  <2> QED
    BY <1>0, <1>3, <2>1, ServedKept
<1>6. Len(Served) = MaxClients
  BY <1>1 DEF ServiceInv, Served
<1>7. ServiceInv'
  BY <1>1, <1>3, <1>4 DEF ServiceInv, Phase
<1>8. Gone' = Gone
  BY GoneKept DEF Main
<1> QED
  BY <1>2, <1>4, <1>5, <1>6, <1>7, <1>8, InHandIsFirst DEF Abstract!Refuse

\* stop_server closes the listening socket: nobody waits any more.  Its
\* second run finds nothing to close, and when setup_socket had failed the
\* first one finds nothing.
LEMMA StopListenShuts ==
    ASSUME ServerInv, ServiceInv, StopListen
    PROVE  ServiceInv' /\ (Abstract!Shut \/ UNCHANGED <<Phase, Waiting, Served>>)
<1> USE ServerAssumption DEF Places, Labels
<1>0. TypeOK /\ RegistryExact /\ Lifecycle /\ OwnedDescriptors
  BY DEF ServerInv
<1>1. Dest = "stop_listen" /\ Dest' = "stop_clients" /\ ~InFlight /\ ~InFlight'
  BY <1>0, AtDest, GotoMoves DEF StopListen, InFlight, Heading
<1>2. UNCHANGED <<sockets, count, clientSocket>> /\ state' = "SERVER_STOPPING"
  BY DEF StopListen, locVars
<1>3. ServerInv'
  BY StopListenStep
<1>4. ~Listening' /\ serverSocket' \notin Fds
  BY <1>1, <1>2, <1>3 DEF ServerInv, Lifecycle, OwnedDescriptors, Listening
<1>5. backlog' = <<>>
  <2>0. serverSocket \in Int
    BY <1>0 DEF TypeOK, SetupErrors, ERROR_SOCKET_CREATE, ERROR_SOCKET_BIND, ERROR_SOCKET_LISTEN
  <2>1. CASE serverSocket >= 0
    BY <2>0, <2>1 DEF StopListen
  <2>2. CASE serverSocket < 0
    BY <1>1, <2>2, ListeningSocket DEF StopListen, ServiceInv, kernVars
  <2> QED
    BY <2>1, <2>2 DEF StopListen
<1>6. Waiting' = <<>> /\ Phase' = "closed"
  BY <1>1, <1>2, <1>4, <1>5 DEF Waiting, Phase
<1>7. Served' = Served
  <2>1. \A fd \in AcceptedFds : fdTable'[fd] = fdTable[fd]
    BY <1>0 DEF StopListen, AcceptedFds, OwnedDescriptors, kernVars, TypeOK
  <2> QED
    BY <1>0, <1>2, <2>1, ServedKept DEF RegistryExact
<1>8. Phase = "closed" => Waiting = <<>>
  BY <1>1, ListeningSocket DEF Phase, Waiting, ServiceInv
<1>9. ServiceInv'
  BY <1>1, <1>2, <1>5 DEF ServiceInv
<1>10. Gone' = Gone
  BY GoneKept DEF Main
<1> QED
  BY <1>6, <1>7, <1>8, <1>9, <1>10 DEF Abstract!Shut

\* stop_server closes the connections: nobody is served any more.
LEMMA StopClientsClears ==
    ASSUME ServerInv, ServiceInv, StopClients
    PROVE  ServiceInv' /\ Abstract!Clear
<1> USE ServerAssumption DEF Places, Labels
<1>0. TypeOK /\ Lifecycle
  BY DEF ServerInv
<1>1. Dest = "stop_clients" /\ Dest' \in {"free", "start_return"}
  <2>1. (IF cleaning THEN "free" ELSE "start_return") \in Places
    OBVIOUS
  <2> QED
    BY <1>0, <2>1, AtDest, LogMoves DEF StopClients, LogThen
<1>2. /\ UNCHANGED <<serverSocket, backlog>>
      /\ count' = 0 /\ state' = "SERVER_STOPPED"
  BY DEF StopClients
<1>3. state = "SERVER_STOPPING" /\ serverSocket \notin Fds
  BY <1>0, <1>1 DEF Lifecycle, StatesAt
<1>4. ~Listening
  BY <1>1, <1>3, ListeningSocket
<1>5. ~Listening'
  <2>1. ServerInv'
    BY StopClientsStep
  <2> QED
    BY <1>1, <1>2, <1>3, <2>1 DEF ServerInv, OwnedDescriptors, Listening
<1>6. Phase = "closed" /\ Phase' = "closed"
  BY <1>2, <1>3, <1>4, <1>5 DEF Phase
<1>7. Waiting' = Waiting
  BY <1>1, <1>2 DEF Waiting, InFlight, Heading
<1>8. Served' = <<>>
  BY <1>2 DEF Served
<1>9. ServiceInv'
  BY <1>1, <1>2, <1>3, <1>4 DEF ServiceInv
<1>10. Gone' = Gone
  BY GoneKept DEF Main
<1> QED
  BY <1>6, <1>7, <1>8, <1>9, <1>10 DEF Abstract!Clear

-----------------------------------------------------------------------------
(* The theorems *)

\* The server starts as the abstract service does.
LEMMA InitService == Init => ServiceInv /\ Abstract!Init
<1> SUFFICES ASSUME Init PROVE ServiceInv /\ Abstract!Init
  OBVIOUS
<1>1. ServiceInv
  BY DEF Init, ServiceInv, Dest
<1>2. ~Listening /\ ~InFlight
  BY DEF Init, Listening, InFlight, Heading, Dest
<1>3. Phase = "down" /\ Waiting = <<>> /\ Served = <<>> /\ Gone = {}
  BY <1>2 DEF Init, Phase, Waiting, Served, Gone
<1> QED
  BY <1>1, <1>3 DEF Abstract!Init

\* Every step of the server is a step of the service or changes nothing
\* the clients can see.
LEMMA NextService ==
    ServerInv /\ ServiceInv /\ [Next]_vars =>
        ServiceInv' /\ [Abstract!Next]_(Abstract!vars)
<1> SUFFICES ASSUME ServerInv, ServiceInv, [Next]_vars
             PROVE  ServiceInv' /\ (Abstract!Next \/ UNCHANGED <<Phase, Waiting, Served, Gone>>)
  BY DEF Abstract!vars
<1>1. CASE UNCHANGED vars
  <2>1. UNCHANGED <<pc, ret, state, serverSocket, sockets, count, clientSocket, fdTable, backlog,
                    conn>>
    BY <1>1 DEF vars, dataVars, ctxVars, locVars, kernVars
  <2>2. Dest' = Dest /\ InFlight' = InFlight /\ Gone' = Gone
    BY <2>1 DEF Dest, InFlight, Heading, Gone
  <2> QED
    BY <2>1, <2>2, Unseen DEF ServerInv, ServiceInv, Listening
<1>2. CASE Main
  <2>1. Gone' = Gone
    BY <1>2, GoneKept
  <2>2. CASE AcceptFails
    BY <2>1, <2>2, AcceptFailsDrops DEF Abstract!Next
  <2>3. CASE ~AcceptFails
    BY <1>2, <2>1, <2>3, MovesUnseen, LifecycleUnseen, LogFileUnseen, SocketUnseen, AcceptUnseen,
       ListenOpens, RegisterAdmits, RejectRefuses, StopListenShuts, StopClientsClears
    DEF Main, QuietAction, Abstract!Next
  <2> QED
    BY <2>2, <2>3
<1>3. CASE Handler \/ \E s \in Signals : Deliver(s)
  BY <1>3, MovesUnseen, GoneKept
<1>4. CASE \E c \in Conns : Connect(c) \/ Leave(c)
  BY <1>4, LeaveGoesAway, ConnectArrives DEF Abstract!Next
<1> QED
  BY <1>1, <1>2, <1>3, <1>4 DEF Next, Environment

\* A server in service listens, a server that does not listen keeps nobody
\* waiting, and a connection is refused only when the table is full.
LEMMA ServiceHolds == Spec => []ServiceInv
<1>1. ServerInv /\ ServiceInv /\ [Next]_vars => ServiceInv'
  BY NextService
<1>2. Init => ServiceInv
  BY InitService
<1> QED
  BY <1>1, <1>2, InvariantHolds, PTL DEF Spec

\* The server implements Admission: whatever fails, whenever the signals
\* come, clients are served in the order in which they connected up to
\* max_clients, refused only at that limit and lost only to the shutdown
\* or when they have gone away themselves.
THEOREM ServerImplementsAdmission == Spec => ImplementsAdmission
<1>1. Init => Abstract!Init
  BY InitService
<1>2. ServerInv /\ ServiceInv /\ [Next]_vars => [Abstract!Next]_(Abstract!vars)
  BY NextService
<1> QED
  BY <1>1, <1>2, InvariantHolds, ServiceHolds, PTL DEF Spec, ImplementsAdmission, Abstract!Spec
=============================================================================
