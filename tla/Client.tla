------------------------------- MODULE Client -------------------------------
(***************************************************************************)
(* The client library, src/client/client.c: an application thread that     *)
(* calls the API in any order, the receiver thread that each successful    *)
(* connect_to_server starts, and the ClientContext they share.  The        *)
(* program of src/client/main.c is one such application: one connection,   *)
(* then requests, then cleanup_client.                                     *)
(*                                                                         *)
(* The kernel and the peer are the environment.  A byte stream is a        *)
(* sequence of units, two per message, so that a recv may end in the       *)
(* middle of a message and may return several messages at once.  The       *)
(* logger is not modelled here: nothing the client does depends on it.     *)
(***************************************************************************)
EXTENDS Integers, Sequences, FiniteSets

CONSTANTS
    Fds,          \* descriptor numbers left to the process
    MaxConnects,  \* bound: connection attempts that reach socket()
    MaxMessages,  \* bound: messages the peer sends on a connection
    MaxSends,     \* bound: send_order, request_market_data and send_data calls
    CreateFails   \* whether pthread_create may fail

ASSUME ClientAssumption ==
    /\ Fds \subseteq Nat \ {0, 1, 2}
    /\ MaxConnects \in Nat /\ MaxMessages \in Nat /\ MaxSends \in Nat
    /\ CreateFails \in BOOLEAN

VARIABLES
    app,       \* where the application thread is
    cleaning,  \* disconnect_from_server was called by cleanup_client
    sending,   \* the kind of message being sent
    result,    \* what the last connect_to_server returned
    ctx,       \* the life of the ClientContext
    state,     \* context->state
    running,   \* context->running
    socket,    \* context->socket
    receiver,  \* context->receiver_thread
    mutex,     \* context->state_mutex: who holds it
    stats,     \* context->stats
    attempts,  \* connections tried; the last one is connection number attempts
    th,        \* where each receiver thread is
    rfd,       \* the descriptor each thread passes to recv
    rmsg,      \* the message each thread has decoded
    fdTable,   \* what each descriptor refers to
    conn,      \* each connection as the kernel sees it
    inbox,     \* the units that have arrived on it and are not yet read
    arrived,   \* all units that ever arrived on it
    wire,      \* what the application has put on the wire, whole or cut
    calls,     \* callbacks made and messages receive_data returned, in order
    sends      \* calls that reached send()

appVars  == <<app, cleaning, sending, result>>
ctxVars  == <<ctx, state, running, socket, receiver, mutex>>
thVars   == <<th, rfd, rmsg>>
kernVars == <<fdTable, conn, inbox, arrived, wire>>
histVars == <<calls, sends>>
vars == <<appVars, ctxVars, stats, attempts, thVars, kernVars, histVars>>

-----------------------------------------------------------------------------
(* Values *)

NONE == 0          \* no thread, no owner of the mutex
GARBAGE == -1      \* receiver_thread after a pthread_create that failed
APP == -2          \* the application thread as owner of the mutex
FREE == 0          \* a descriptor that is not open
FOREIGN == -1      \* a descriptor the application opened for itself

SUCCESS              == 0
NOT_CALLED           == 1
ERROR_SOCKET_CREATE  == -1
ERROR_SOCKET_CONNECT == -5
ERROR_THREAD_CREATE  == -6
ERROR_INVALID_STATE  == -9

Connections == 1 .. MaxConnects
Kinds == {"order", "request", "data"}

\* What the peer may send and deserialize_message accepts.  The receiver
\* has a case for MSG_ORDER_STATUS too, a type serialize_message refuses.
MessageTypes == {"MSG_MARKET_DATA", "MSG_TRADE_EXEC", "MSG_ORDER_NEW"}
Units == [no : 1 .. MaxMessages, type : MessageTypes, part : {1, 2}]

\* "sending" is the state between the check of context->state and send().
AppLabels == {"boot", "idle", "socket", "dial", "connected", "spawn",
              "on_connect", "sending", "lock", "close", "forget", "join",
              "disconnected", "free", "done", "killed"}
ThreadLabels == {"none", "check", "load", "recv", "dispatch", "lock", "set",
                 "notify", "ended"}

\* A connection that was refused or aborted has "failed": the kernel keeps the
\* error for the next call on the socket.  Once that call has returned it,
\* and when a peer that has closed answers what is sent, it is "reset".
ConnStates == {"none", "connecting", "up", "eof", "failed", "reset", "shut"}

LowestFree(fd) ==
    /\ fdTable[fd] = FREE
    /\ \A g \in Fds : fdTable[g] = FREE => fd <= g

NoFreeFd == \A g \in Fds : fdTable[g] # FREE

\* The connection that descriptor fd names, if it names one.
Names(fd, k) == fd \in Fds /\ fdTable[fd] = k

Init ==
    /\ app = "boot" /\ cleaning = FALSE /\ sending = "order" /\ result = NOT_CALLED
    /\ ctx = "none" /\ state = "CLIENT_DISCONNECTED" /\ running = FALSE
    /\ socket = -1 /\ receiver = NONE /\ mutex = NONE
    /\ stats = [messages_sent |-> 0, orders_sent |-> 0,
                messages_received |-> 0, trades_received |-> 0]
    /\ attempts = 0
    /\ th = [k \in Connections |-> "none"]
    /\ rfd = [k \in Connections |-> -1]
    /\ rmsg = [k \in Connections |-> <<>>]
    /\ fdTable = [fd \in Fds |-> FREE]
    /\ conn = [k \in Connections |-> "none"]
    /\ inbox = [k \in Connections |-> <<>>] /\ arrived = inbox
    /\ wire = <<>> /\ calls = <<>> /\ sends = 0

-----------------------------------------------------------------------------
(* initialize_client and connect_to_server *)

\* calloc or a mutex may fail: then the application has no context.
InitializeClient ==
    /\ app = "boot"
    /\ \/ ctx' = "live" /\ running' = TRUE /\ app' = "idle"
       \/ app' = "done" /\ UNCHANGED <<ctx, running>>
    /\ UNCHANGED <<cleaning, sending, result, state, socket, receiver, mutex, stats,
                   attempts, thVars, kernVars, histVars>>

\* connect_to_server returns r.
Return(r) == result' = r /\ app' = "idle"

ConnectUnchecked ==
    /\ app = "idle"
    /\ mutex = NONE
    /\ attempts < MaxConnects
    /\ app' = "socket"
    /\ UNCHANGED <<cleaning, sending, result, ctxVars, stats, attempts, thVars, kernVars, histVars>>

\* The check under state_mutex, then inet_pton.
ConnectToServer ==
    /\ app = "idle"
    /\ mutex = NONE
    /\ \/ state = "CLIENT_CONNECTED" /\ Return(ERROR_INVALID_STATE)
       \/ /\ state # "CLIENT_CONNECTED" /\ attempts < MaxConnects
          /\ \/ Return(ERROR_SOCKET_CONNECT)
             \/ app' = "socket" /\ UNCHANGED result
    /\ UNCHANGED <<cleaning, sending, ctxVars, stats, attempts, thVars, kernVars, histVars>>

FailedSocketIsErrorCode == ERROR_SOCKET_CONNECT

\* What socket() returns when it fails.
FailedSocket == -1

\* context->socket is overwritten, whatever it held.
OpenSocket ==
    /\ app = "socket"
    /\ \/ \E fd \in Fds :
             /\ LowestFree(fd)
             /\ socket' = fd
             /\ attempts' = attempts + 1
             /\ fdTable' = [fdTable EXCEPT ![fd] = attempts + 1]
             /\ app' = "dial" /\ UNCHANGED result
       \/ /\ NoFreeFd
          /\ socket' = FailedSocket
          /\ Return(ERROR_SOCKET_CREATE)
          /\ UNCHANGED <<attempts, fdTable>>
    /\ UNCHANGED <<cleaning, sending, ctx, state, running, receiver, mutex, stats, thVars,
                   conn, inbox, arrived, wire, histVars>>

\* close(context->socket), whatever that number refers to now.
CloseSocket ==
    /\ fdTable' = [fd \in Fds |-> IF fd = socket THEN FREE ELSE fdTable[fd]]
    /\ conn' = [k \in Connections |-> IF Names(socket, k) THEN "shut" ELSE conn[k]]

\* connect() on the non-blocking socket; EINPROGRESS counts as connected.
Dial ==
    /\ app = "dial"
    /\ \/ /\ \E s \in {"up", "connecting"} : conn' = [conn EXCEPT ![attempts] = s]
          /\ app' = "connected"
          /\ UNCHANGED <<result, fdTable>>
       \/ CloseSocket /\ Return(ERROR_SOCKET_CONNECT)
    /\ UNCHANGED <<cleaning, sending, ctxVars, stats, attempts, thVars, inbox, arrived,
                   wire, histVars>>

SetConnected ==
    /\ app = "connected"
    /\ mutex = NONE
    /\ state' = "CLIENT_CONNECTED"
    /\ app' = "spawn"
    /\ UNCHANGED <<cleaning, sending, result, ctx, running, socket, receiver, mutex, stats,
                   attempts, thVars, kernVars, histVars>>

\* pthread_create; after a failure receiver_thread is undefined.
StartReceiver ==
    /\ app = "spawn"
    /\ \/ /\ receiver' = attempts
          /\ th' = [th EXCEPT ![attempts] = "check"]
          /\ app' = "on_connect"
          /\ UNCHANGED <<result, fdTable, conn>>
       \/ /\ CreateFails
          /\ receiver' \in {receiver, GARBAGE}
          /\ CloseSocket
          /\ Return(ERROR_THREAD_CREATE)
          /\ UNCHANGED th
    /\ UNCHANGED <<cleaning, sending, ctx, state, running, socket, mutex, stats, attempts,
                   rfd, rmsg, inbox, arrived, wire, histVars>>

OnConnect ==
    /\ app = "on_connect"
    /\ calls' = Append(calls, [name |-> "on_connect", conn |-> attempts, no |-> 0])
    /\ Return(SUCCESS)
    /\ UNCHANGED <<cleaning, sending, ctxVars, stats, attempts, thVars, kernVars, sends>>

-----------------------------------------------------------------------------
(* send_order, request_market_data, send_data and receive_data *)

\* The state is read without state_mutex, and not at all by send_data.
BeginSend(kind) ==
    /\ app = "idle"
    /\ sends < MaxSends
    /\ kind # "data" => state = "CLIENT_CONNECTED"
    /\ sending' = kind
    /\ sends' = sends + 1
    /\ app' = "sending"
    /\ UNCHANGED <<cleaning, result, ctxVars, stats, attempts, thVars, kernVars, calls>>

ShortOrderCounts(whole) == TRUE

\* send_order wants the whole message sent, request_market_data only that
\* send did not fail; send_data counts nothing.
Counts(whole) == sending = "request" \/ (sending = "order" /\ whole)

\* send() took the message, or the first part of it.
Sent(whole) ==
    /\ wire' = Append(wire, [kind |-> sending, whole |-> whole])
    /\ stats' = [stats EXCEPT
           !.messages_sent = @ + (IF Counts(whole) THEN 1 ELSE 0),
           !.orders_sent = @ + (IF Counts(whole) /\ sending = "order" THEN 1 ELSE 0)]

\* The call on the socket returned the pending error of connection k.
TakeError(k) == conn[k] = "failed" /\ conn' = [conn EXCEPT ![k] = "reset"]

\* A full send buffer cuts a message short or fails it; a connection that is
\* not up yet fails it, and so does a pending error.  A peer that has closed
\* answers with a reset.  A send on a connection that is reset raises SIGPIPE,
\* which nothing in the program handles.
Send ==
    /\ app = "sending"
    /\ \/ /\ \E k \in Connections :
                /\ Names(socket, k)
                /\ \/ conn[k] = "up" /\ UNCHANGED conn
                   \/ conn[k] = "eof" /\ conn' = [conn EXCEPT ![k] = "reset"]
          /\ \E whole \in BOOLEAN : Sent(whole)
          /\ app' = "idle"
       \/ /\ \/ ~\E k \in Connections : Names(socket, k)
             \/ \E k \in Connections : Names(socket, k) /\ conn[k] \in {"connecting", "up"}
          /\ app' = "idle"
          /\ UNCHANGED <<conn, wire, stats>>
       \/ /\ \E k \in Connections : Names(socket, k) /\ TakeError(k)
          /\ app' = "idle"
          /\ UNCHANGED <<wire, stats>>
       \/ /\ \E k \in Connections : Names(socket, k) /\ conn[k] = "reset"
          /\ app' = "killed"
          /\ UNCHANGED <<conn, wire, stats>>
    /\ UNCHANGED <<cleaning, sending, result, ctxVars, attempts, thVars, fdTable, inbox,
                   arrived, histVars>>

DecodeFromAnywhere(chunk) == TRUE

\* deserialize_message finds a message only where the chunk begins with a
\* whole one.
Decodes(chunk) == Len(chunk) >= 2 /\ chunk[1].part = 1

\* What recv has returned is no longer there for the next reader.
TakeUnits(j) == inbox' = [inbox EXCEPT ![j] = <<>>]

\* receive_data: the application reads from the socket beside the receiver
\* thread, and decodes what it got as the thread would.  When there is
\* nothing to read, receive_data changes nothing, but for a pending error.
ReceiveDirectly ==
    /\ app = "idle"
    /\ \E j \in Connections :
          /\ Names(socket, j)
          /\ inbox[j] # <<>>
          /\ TakeUnits(j)
          /\ calls' = IF Decodes(inbox[j])
                      THEN Append(calls, [name |-> "receive_data", conn |-> j, no |-> inbox[j][1].no])
                      ELSE calls
    /\ UNCHANGED <<appVars, ctxVars, stats, attempts, thVars, fdTable, conn, arrived, wire, sends>>

ReceiveDirectlyFails ==
    /\ app = "idle"
    /\ \E j \in Connections : Names(socket, j) /\ inbox[j] = <<>> /\ TakeError(j)
    /\ UNCHANGED <<appVars, ctxVars, stats, attempts, thVars, fdTable, inbox, arrived, wire,
                   histVars>>

-----------------------------------------------------------------------------
(* disconnect_from_server and cleanup_client *)

\* Either function: running = 0 comes before anything else.
Disconnect(cleanup) ==
    /\ app = "idle"
    /\ running' = FALSE
    /\ cleaning' = cleanup
    /\ app' = "lock"
    /\ UNCHANGED <<sending, result, ctx, state, socket, receiver, mutex, stats, attempts,
                   thVars, kernVars, histVars>>

HasSocketIfConnected == socket >= 0 /\ state = "CLIENT_CONNECTED"

HasSocket == socket >= 0

LockForClose ==
    /\ app = "lock"
    /\ mutex = NONE
    /\ IF HasSocket THEN mutex' = APP /\ app' = "close"
                    ELSE mutex' = NONE /\ app' = "join"
    /\ UNCHANGED <<cleaning, sending, result, ctx, state, running, socket, receiver, stats,
                   attempts, thVars, kernVars, histVars>>

CloseConnection ==
    /\ app = "close"
    /\ CloseSocket
    /\ app' = "forget"
    /\ UNCHANGED <<cleaning, sending, result, ctxVars, stats, attempts, thVars, inbox,
                   arrived, wire, histVars>>

ForgetKeepsNumber ==
    /\ app = "forget"
    /\ mutex' = NONE
    /\ app' = "join"
    /\ UNCHANGED <<cleaning, sending, result, ctx, state, running, socket, receiver, stats,
                   attempts, thVars, kernVars, histVars>>

JoinUnderMutex ==
    /\ app = "forget"
    /\ socket' = -1
    /\ app' = "join"
    /\ UNCHANGED <<cleaning, sending, result, ctx, state, running, receiver, mutex, stats,
                   attempts, thVars, kernVars, histVars>>

ForgetSocket ==
    /\ app = "forget"
    /\ socket' = -1
    /\ mutex' = NONE
    /\ app' = "join"
    /\ UNCHANGED <<cleaning, sending, result, ctx, state, running, receiver, stats,
                   attempts, thVars, kernVars, histVars>>

JoinDoesNotWait ==
    /\ app = "join"
    /\ receiver' = NONE
    /\ app' = "disconnected"
    /\ UNCHANGED <<cleaning, sending, result, ctx, state, running, socket, mutex, stats,
                   attempts, thVars, kernVars, histVars>>

\* A handle that pthread_create left undefined: the join returns at once or
\* the process dies in it.  No thread, no join.
JoinReceiver ==
    /\ app = "join"
    /\ receiver \in Connections => th[receiver] = "ended"
    /\ \/ receiver' = NONE /\ app' = "disconnected"
       \/ receiver = GARBAGE /\ app' = "killed" /\ UNCHANGED receiver
    /\ UNCHANGED <<cleaning, sending, result, ctx, state, running, socket, mutex, stats,
                   attempts, thVars, kernVars, histVars>>

SetDisconnected ==
    /\ app = "disconnected"
    /\ mutex = NONE
    /\ state' = "CLIENT_DISCONNECTED"
    /\ app' = IF cleaning THEN "free" ELSE "idle"
    /\ UNCHANGED <<cleaning, sending, result, ctx, running, socket, receiver, mutex, stats,
                   attempts, thVars, kernVars, histVars>>

FreeContext ==
    /\ app = "free"
    /\ ctx' = "freed"
    /\ app' = "done"
    /\ UNCHANGED <<cleaning, sending, result, state, running, socket, receiver, mutex, stats,
                   attempts, thVars, kernVars, histVars>>

\* Between two calls the application opens a file of its own; bound: one.
OpenForeign ==
    /\ app = "idle"
    /\ \A fd \in Fds : fdTable[fd] # FOREIGN
    /\ \E fd \in Fds : LowestFree(fd) /\ fdTable' = [fdTable EXCEPT ![fd] = FOREIGN]
    /\ UNCHANGED <<appVars, ctxVars, stats, attempts, thVars, conn, inbox, arrived, wire,
                   histVars>>

-----------------------------------------------------------------------------
(* message_receiver_thread *)

\* A thread runs as long as the process lives, which may be longer than the
\* context does.
Runs(k, l) == th[k] = l /\ app # "killed"

ThGoto(k, l) == th' = [th EXCEPT ![k] = l]

CheckRunning(k) ==
    /\ Runs(k, "check")
    /\ ThGoto(k, IF running THEN "load" ELSE "lock")
    /\ UNCHANGED <<appVars, ctxVars, stats, attempts, rfd, rmsg, kernVars, histVars>>

\* context->socket is read without state_mutex, before recv is entered.
LoadSocket(k) ==
    /\ Runs(k, "load")
    /\ rfd' = [rfd EXCEPT ![k] = socket]
    /\ ThGoto(k, "recv")
    /\ UNCHANGED <<appVars, ctxVars, stats, attempts, rmsg, kernVars, histVars>>

\* recv returns all that has arrived (bound: it fits in BUFFER_SIZE); the
\* first message of it is decoded and the rest of the chunk is dropped.
ReceiveData(k) ==
    /\ Runs(k, "recv")
    /\ \E j \in Connections :
          /\ Names(rfd[k], j)
          /\ inbox[j] # <<>>
          /\ TakeUnits(j)
          /\ IF Decodes(inbox[j])
             THEN /\ rmsg' = [rmsg EXCEPT ![k] = <<j, inbox[j][1]>>]
                  /\ stats' = [stats EXCEPT !.messages_received = @ + 1]
                  /\ ThGoto(k, "dispatch")
             ELSE ThGoto(k, "check") /\ UNCHANGED <<rmsg, stats>>
    /\ UNCHANGED <<appVars, ctxVars, attempts, rfd, fdTable, conn, arrived, wire, histVars>>

WouldBlockBreaks(k) == ThGoto(k, "lock")

\* EAGAIN: sleep, then look at running again.
WouldBlock(k) == ThGoto(k, "check")

ReceiveNothing(k) ==
    /\ Runs(k, "recv")
    /\ \E j \in Connections :
          Names(rfd[k], j) /\ inbox[j] = <<>> /\ conn[j] \in {"connecting", "up"}
    /\ WouldBlock(k)
    /\ UNCHANGED <<appVars, ctxVars, stats, attempts, rfd, rmsg, kernVars, histVars>>

EndTakenForEmpty(k) ==
    /\ Runs(k, "recv")
    /\ ~\E j \in Connections :
          Names(rfd[k], j) /\ (inbox[j] # <<>> \/ conn[j] \in {"connecting", "up"})
    /\ ThGoto(k, "check")
    /\ UNCHANGED <<appVars, ctxVars, stats, attempts, rfd, rmsg, kernVars, histVars>>

\* End of stream, the pending error, or a number that is no socket.
ReceiveEnds(k) ==
    /\ Runs(k, "recv")
    /\ ~\E j \in Connections :
          Names(rfd[k], j) /\ (inbox[j] # <<>> \/ conn[j] \in {"connecting", "up"})
    /\ \/ \E j \in Connections : Names(rfd[k], j) /\ TakeError(j)
       \/ (\A j \in Connections : Names(rfd[k], j) => conn[j] # "failed") /\ UNCHANGED conn
    /\ ThGoto(k, "lock")
    /\ UNCHANGED <<appVars, ctxVars, stats, attempts, rfd, rmsg, fdTable, inbox, arrived, wire,
                   histVars>>

\* The switch on msg.type; an unknown type is only logged.
Dispatch(k) ==
    /\ Runs(k, "dispatch")
    /\ LET m == rmsg[k][2]
           called(name) == calls' = Append(calls, [name |-> name, conn |-> rmsg[k][1], no |-> m.no])
       IN \/ m.type = "MSG_MARKET_DATA" /\ called("on_market_data") /\ UNCHANGED stats
          \/ /\ m.type = "MSG_TRADE_EXEC"
             /\ called("on_trade")
             /\ stats' = [stats EXCEPT !.trades_received = @ + 1]
          \/ m.type = "MSG_ORDER_NEW" /\ UNCHANGED <<calls, stats>>
    /\ ThGoto(k, "check")
    /\ UNCHANGED <<appVars, ctxVars, attempts, rfd, rmsg, kernVars, sends>>

LockForEnd(k) ==
    /\ Runs(k, "lock")
    /\ mutex = NONE
    /\ mutex' = k
    /\ ThGoto(k, "set")
    /\ UNCHANGED <<appVars, ctx, state, running, socket, receiver, stats, attempts, rfd,
                   rmsg, kernVars, histVars>>

EndConnected(k) ==
    /\ Runs(k, "set")
    /\ state' = "CLIENT_DISCONNECTED"
    /\ mutex' = NONE
    /\ ThGoto(k, "notify")
    /\ UNCHANGED <<appVars, ctx, running, socket, receiver, stats, attempts, rfd, rmsg,
                   kernVars, histVars>>

OnDisconnect(k) ==
    /\ Runs(k, "notify")
    /\ calls' = Append(calls, [name |-> "on_disconnect", conn |-> k, no |-> 0])
    /\ ThGoto(k, "ended")
    /\ UNCHANGED <<appVars, ctxVars, stats, attempts, rfd, rmsg, kernVars, sends>>

-----------------------------------------------------------------------------
(* The network and the peer *)

\* A non-blocking connect ends, one way or the other.
ConnectEnds(k) ==
    /\ conn[k] = "connecting"
    /\ \E s \in {"up", "failed"} : conn' = [conn EXCEPT ![k] = s]
    /\ UNCHANGED <<appVars, ctxVars, stats, attempts, thVars, fdTable, inbox, arrived, wire,
                   histVars>>

\* The next unit of the stream arrives: the second half of the message that
\* has begun, or the first half of another one.
NextUnits(k) ==
    LET n == Len(arrived[k])
    IN IF n % 2 = 1 THEN {[arrived[k][n] EXCEPT !.part = 2]}
       ELSE [no : {n \div 2 + 1} \cap (1 .. MaxMessages), type : MessageTypes, part : {1}]

Arrive(k) ==
    /\ conn[k] = "up"
    /\ \E u \in NextUnits(k) :
          /\ inbox' = [inbox EXCEPT ![k] = Append(@, u)]
          /\ arrived' = [arrived EXCEPT ![k] = Append(@, u)]
    /\ UNCHANGED <<appVars, ctxVars, stats, attempts, thVars, fdTable, conn, wire, histVars>>

\* The peer closes its end or aborts the connection.
PeerGoes(k) ==
    /\ conn[k] = "up"
    /\ \E s \in {"eof", "failed"} : conn' = [conn EXCEPT ![k] = s]
    /\ UNCHANGED <<appVars, ctxVars, stats, attempts, thVars, fdTable, inbox, arrived, wire,
                   histVars>>

-----------------------------------------------------------------------------
Library ==
    \/ InitializeClient
    \/ OpenSocket \/ Dial \/ SetConnected \/ StartReceiver \/ OnConnect
    \/ Send
    \/ LockForClose \/ CloseConnection \/ ForgetSocket \/ JoinReceiver
    \/ SetDisconnected \/ FreeContext

Calls ==
    \/ ConnectToServer
    \/ \E kind \in Kinds : BeginSend(kind)
    \/ ReceiveDirectly \/ ReceiveDirectlyFails
    \/ \E cleanup \in BOOLEAN : Disconnect(cleanup)
    \/ OpenForeign

Receiver(k) ==
    \/ CheckRunning(k) \/ LoadSocket(k)
    \/ ReceiveData(k) \/ ReceiveNothing(k) \/ ReceiveEnds(k) \/ Dispatch(k)
    \/ LockForEnd(k) \/ EndConnected(k) \/ OnDisconnect(k)

Network(k) == ConnectEnds(k) \/ Arrive(k) \/ PeerGoes(k)

Next == Library \/ Calls \/ \E k \in Connections : Receiver(k) \/ Network(k)

Spec == Init /\ [][Next]_vars

\* The scheduler runs a thread that can run, and a receiver takes state_mutex
\* only once.  Which calls the application makes, and what the network does,
\* is open.
FairSpec ==
    /\ Spec
    /\ WF_vars(Library)
    /\ \A k \in Connections : WF_vars(Receiver(k))

-----------------------------------------------------------------------------
(* Properties *)

Named(name) == {i \in DOMAIN calls : calls[i].name = name}

Results == {SUCCESS, NOT_CALLED, ERROR_SOCKET_CREATE, ERROR_SOCKET_CONNECT,
            ERROR_THREAD_CREATE, ERROR_INVALID_STATE}
Statistics == [{"messages_sent", "orders_sent", "messages_received", "trades_received"} -> Nat]
SentRecords == [kind : Kinds, whole : BOOLEAN]
CallRecords == [name : {"on_connect", "on_disconnect", "on_market_data", "on_trade",
                        "receive_data"},
                conn : Connections, no : 0 .. MaxMessages]

\* Every variable has its type.
TypeOK ==
    /\ app \in AppLabels /\ cleaning \in BOOLEAN /\ sending \in Kinds /\ result \in Results
    /\ ctx \in {"none", "live", "freed"}
    /\ state \in {"CLIENT_DISCONNECTED", "CLIENT_CONNECTED"}
    /\ running \in BOOLEAN
    /\ socket \in {-1} \cup Fds
    /\ receiver \in {NONE, GARBAGE} \cup Connections
    /\ mutex \in {NONE, APP} \cup Connections
    /\ stats \in Statistics
    /\ attempts \in 0 .. MaxConnects
    /\ th \in [Connections -> ThreadLabels]
    /\ rfd \in [Connections -> {-1} \cup Fds]
    /\ rmsg \in [Connections -> {<<>>} \cup (Connections \X Units)]
    /\ fdTable \in [Fds -> {FREE, FOREIGN} \cup Connections]
    /\ conn \in [Connections -> ConnStates]
    /\ inbox \in [Connections -> Seq(Units)]
    /\ arrived \in [Connections -> Seq(Units)]
    /\ wire \in Seq(SentRecords)
    /\ calls \in Seq(CallRecords)
    /\ sends \in 0 .. MaxSends

\* cleanup_client frees the context only after every receiver thread has
\* made its last access to it (the on_disconnect callback).
FreedAfterThreads ==
    ctx = "freed" => \A k \in Connections : th[k] \in {"none", "ended"}

\* After cleanup_client no socket of the client is open, whichever way the
\* connection ended.
NothingLeftOpen ==
    ctx = "freed" => \A fd \in Fds : fdTable[fd] \in {FREE, FOREIGN}

\* From a successful connect_to_server to the close in
\* disconnect_from_server, context->socket names that connection: the
\* number is never left stale by a success.
SocketNamesConnection ==
    result = SUCCESS /\ socket >= 0 /\ app # "forget" =>
        fdTable[socket] = attempts

\* While the connection of a successful connect_to_server is up and nobody
\* has called disconnect_from_server, the client stays connected: the
\* receiver does not give up when there is nothing to read.
StaysConnected ==
    app = "idle" /\ running /\ result = SUCCESS /\ conn[attempts] = "up" =>
        state = "CLIENT_CONNECTED"

\* Inside its receive loop: the thread reads from context->socket.
Reading(k) == th[k] \in {"check", "load", "recv", "dispatch"}

\* However often the client reconnects, two receiver threads never read
\* from context->socket at once: connect_to_server gets past its check of
\* the state only when the earlier thread has left its loop.
OneReader == \A j, k \in Connections : Reading(j) /\ Reading(k) => j = k

\* What makes OneReader inductive: a receiver thread that has not yet given
\* up the connection is the one of the last connect_to_server, is the one
\* that disconnect_from_server would join, and keeps the client connected,
\* so the application is at no point where a thread could be started.
Attached(k) == Reading(k) \/ th[k] \in {"lock", "set"}

OneAttached ==
    /\ \A k \in Connections : Attached(k) =>
          /\ k = attempts /\ k = receiver
          /\ state = "CLIENT_CONNECTED"
          /\ app \in {"idle", "on_connect", "sending", "lock", "close", "forget",
                     "join", "killed"}
    /\ app = "spawn" => state = "CLIENT_CONNECTED"

\* Messages reach the callbacks in the order in which the peer sent them,
\* each once and as the type it was sent with, whatever recv cuts or joins,
\* and none of them is also returned by receive_data, although it reads from
\* the same socket.
DeliveredInOrder ==
    LET data == Named("on_market_data") \cup Named("on_trade")
        direct == Named("receive_data")
        Same(i, j) == calls[i].conn = calls[j].conn
    IN /\ \A i, j \in data : i < j /\ Same(i, j) => calls[i].no < calls[j].no
       /\ \A i, j \in direct : i < j /\ Same(i, j) => calls[i].no < calls[j].no
       /\ \A i \in data, j \in direct : Same(i, j) => calls[i].no # calls[j].no
       /\ \A i \in data :
             \E u \in 1 .. Len(arrived[calls[i].conn]) :
                /\ arrived[calls[i].conn][u].no = calls[i].no
                /\ arrived[calls[i].conn][u].part = 2
                /\ arrived[calls[i].conn][u].type =
                      IF calls[i].name = "on_trade" THEN "MSG_TRADE_EXEC" ELSE "MSG_MARKET_DATA"

\* When the context is freed, the application has had one on_disconnect for
\* every on_connect.
CallbacksBalance ==
    ctx = "freed" => Cardinality(Named("on_connect")) = Cardinality(Named("on_disconnect"))

\* orders_sent counts the orders that went out whole.
OrdersCounted ==
    stats.orders_sent = Cardinality({i \in DOMAIN wire : wire[i] = [kind |-> "order", whole |-> TRUE]})

\* cleanup_client comes to its end: the receiver sees running or the closed
\* socket, ends and is joined, and no one waits for state_mutex for ever.
\* Only a handle that pthread_create left undefined promises nothing.
CleanupCompletes == (cleaning /\ receiver # GARBAGE) ~> (app = "done")

\* A peer that has gone is noticed: a thread that reads a connection which
\* has ended or failed leaves its loop and makes its on_disconnect call,
\* although the application may read the error away and the thread never
\* blocks in recv.
EndNoticed ==
    \A k \in Connections :
        (Reading(k) /\ conn[k] \in {"eof", "failed", "reset"}) ~>
            (th[k] = "ended" \/ app = "killed")

\* "Socket should be -1 when disconnected": between calls, a disconnected
\* client has no socket number.
NoSocketWhenDisconnected ==
    app = "idle" /\ state = "CLIENT_DISCONNECTED" => socket = -1
=============================================================================
