------------------------------ MODULE Handlers ------------------------------
(***************************************************************************)
(* The multithreaded server: the thread that runs accept_client and        *)
(* stop_server, and a thread in handle_client for every connection         *)
(* (src/server/server_network.c), over the one table of ClientConnections  *)
(* they share; the message handlers of src/server/server_handlers.c run on *)
(* these threads, and on an application's thread that calls                *)
(* handle_message.                                                         *)
(*                                                                         *)
(* The shipped main() starts no handler threads.  Here accept_client       *)
(* starts handle_client on the entry it has filled and keeps the handle    *)
(* there, which is what config.client_handler and the pthread_join of      *)
(* stop_server are for; Tracked says whether it also sets active, which    *)
(* stop_server looks at.  Nothing in the repository sets an id.            *)
(*                                                                         *)
(* clients_mutex protects registration and removal.  Everything else reads *)
(* the table without it, so each look at an entry is a step of its own, in *)
(* which the socket found there is also used.  A message is one unit here; *)
(* how recv cuts and joins messages is the matter of Client and Wire.      *)
(* Counters and times that nothing reads are left out.                     *)
(***************************************************************************)
EXTENDS Integers, Sequences, FiniteSets

CONSTANTS
    Conns,        \* the connections that clients may open
    Fds,          \* descriptor numbers left to the process
    MaxClients,   \* config.max_clients: the entries allocated
    MAX_CLIENTS,  \* the entries that the handlers scan
    Types,        \* bound: the types of message that occur
    MaxMessages,  \* bound: messages that are received or handed in
    Tracked,      \* active is set when a handler is started
    HOST          \* the application thread that calls handle_message

ASSUME HandlersAssumption ==
    /\ Fds \subseteq Nat \ {0, 1, 2}
    /\ MaxClients \in Nat /\ MAX_CLIENTS \in Nat /\ MaxMessages \in Nat
    /\ Tracked \in BOOLEAN
    /\ HOST \notin Conns
    /\ {"none", "main", "free"} \cap (Conns \cup {HOST}) = {}

VARIABLES
    main,      \* where the accepting thread is
    newSocket, \* the local client_socket of accept_client
    newConn,   \* the connection it belongs to
    running,   \* server_running
    clients,   \* context->clients
    count,     \* context->client_count
    mutex,     \* clients_mutex: who holds it
    seqNum,    \* context->sequence_num
    th,        \* where each thread is
    slot,      \* the entry each handler was started on: its client pointer
    rcv,       \* the connection each handler is in recv on
    msg,       \* the message each thread works on
    no,        \* the sequence number it has taken for it
    parties,   \* the locals buyer_socket and seller_socket
    pos,       \* the index of its scan, its memmove or the loop of stop_server
    fdTable,   \* what each descriptor refers to
    conn,      \* each connection as its client sees it
    inbox,     \* what has arrived on it and is not yet received
    sent,      \* what send() was given for it
    messages,  \* messages so far
    casts      \* broadcasts so far: whom each one should reach, whether it is over

ctxVars  == <<running, clients, count, mutex>>
mainVars == <<main, newSocket, newConn>>
locals   == <<msg, no, parties, pos>>
thVars   == <<th, slot, rcv, locals>>
netVars  == <<fdTable, conn, inbox, sent>>
histVars == <<messages, casts>>
vars == <<mainVars, ctxVars, seqNum, thVars, netVars, histVars>>

-----------------------------------------------------------------------------
(* Values *)

NONE == "none"
MAIN == "main"
Threads == Conns \cup {HOST}
Slots == 0 .. (MaxClients - 1)

\* The id of a client as the messages name it; calloc leaves every entry's
\* id empty.
NoId == ""
Ids == {NoId, "CLIENT001"}

\* The messages that deserialize_message accepts, with what the handlers
\* look at.
Messages == [type : {"ORDER"}, valid : BOOLEAN] \cup [type : {"MARKET_DATA"}]
            \cup [type : {"TRADE_EXEC"}, buyer : Ids, seller : Ids]

\* What may arrive, and what handle_message may be given: also what is no
\* message, and the types that have no place in the encoding.
Arriving == {m \in Messages \cup [type : {"DAMAGED"}] : m.type \in Types}
HandedIn == {m \in Messages \cup [type : {"OTHER"}] : m.type \in Types}

MainLabels == {"accept", "register", "stopping", "stopped", "freed", "killed"}
ThreadLabels == {"none", "check", "recv", "work", "scan", "found", "find", "matched",
                 "to_buyer", "to_seller", "lock", "remove", "shift", "close", "ended"}

Entry == [socket |-> 0, id |-> NoId, active |-> FALSE, thread |-> NONE]

Init ==
    /\ main = "accept" /\ newSocket = -1 /\ newConn = NONE
    /\ running = TRUE /\ clients = [i \in Slots |-> Entry] /\ count = 0 /\ mutex = NONE
    /\ seqNum = 1
    /\ th = [t \in Threads |-> "none"] /\ slot = [c \in Conns |-> -1]
    /\ rcv = [c \in Conns |-> NONE] /\ msg = [t \in Threads |-> <<>>]
    /\ no = [t \in Threads |-> 0]
    /\ parties = [t \in Threads |-> <<>>] /\ pos = [t \in Threads \cup {MAIN} |-> 0]
    /\ fdTable = [fd \in Fds |-> "free"] /\ conn = [c \in Conns |-> "idle"]
    /\ inbox = [c \in Conns |-> <<>>] /\ sent = [c \in Conns |-> <<>>]
    /\ messages = 0 /\ casts = <<>>

-----------------------------------------------------------------------------
(* accept_client *)

LowestFree(fd) ==
    /\ fdTable[fd] = "free"
    /\ \A g \in Fds : fdTable[g] = "free" => fd <= g

Names(fd, c) == fd \in Fds /\ fdTable[fd] = c

CloseFd(fd) == fdTable' = [g \in Fds |-> IF g = fd THEN "free" ELSE fdTable[g]]

\* The listen queue is the matter of Server: here a client connects and is
\* accepted at once.
Accept(c) ==
    /\ main = "accept" /\ running
    /\ conn[c] = "idle"
    /\ \E fd \in Fds :
          /\ LowestFree(fd)
          /\ newSocket' = fd
          /\ fdTable' = [fdTable EXCEPT ![fd] = c]
    /\ newConn' = c
    /\ conn' = [conn EXCEPT ![c] = "open"]
    /\ main' = "register"
    /\ UNCHANGED <<ctxVars, seqNum, thVars, inbox, sent, histVars>>

AtCapacityOffByOne == count > MaxClients
AtCapacity == count >= MaxClients

NextAccept == main' = "accept" /\ newSocket' = -1 /\ newConn' = NONE

\* The rest of accept_client under clients_mutex; id is not written.
Register ==
    /\ main = "register" /\ mutex = NONE /\ ~AtCapacity
    /\ clients' = [clients EXCEPT ![count].socket = newSocket,
                                  ![count].active = Tracked,
                                  ![count].thread = newConn]
    /\ count' = count + 1
    /\ slot' = [slot EXCEPT ![newConn] = count]
    /\ th' = [th EXCEPT ![newConn] = "check"]
    /\ NextAccept
    /\ UNCHANGED <<running, mutex, seqNum, rcv, locals, netVars, histVars>>

Refuse ==
    /\ main = "register" /\ mutex = NONE /\ AtCapacity
    /\ CloseFd(newSocket)
    /\ NextAccept
    /\ UNCHANGED <<ctxVars, seqNum, thVars, conn, inbox, sent, histVars>>

-----------------------------------------------------------------------------
(* stop_server and cleanup_server *)

StopServer ==
    /\ main = "accept" /\ ~running
    /\ mutex = NONE
    /\ mutex' = MAIN
    /\ main' = "stopping"
    /\ UNCHANGED <<newSocket, newConn, running, clients, count, seqNum, thVars, netVars,
                   histVars>>

\* One turn of the loop: the join waits with clients_mutex held.
StopClient ==
    /\ main = "stopping" /\ pos[MAIN] < count
    /\ LET e == clients[pos[MAIN]]
       IN /\ e.active => th[e.thread] = "ended"
          /\ CloseFd(e.socket)
    /\ clients' = [clients EXCEPT ![pos[MAIN]].active = FALSE]
    /\ pos' = [pos EXCEPT ![MAIN] = @ + 1]
    /\ UNCHANGED <<mainVars, running, count, mutex, seqNum, th, slot, rcv, msg, no, parties,
                   conn, inbox, sent, histVars>>

Stopped ==
    /\ main = "stopping" /\ pos[MAIN] = count
    /\ count' = 0
    /\ mutex' = NONE
    /\ main' = "stopped"
    /\ UNCHANGED <<newSocket, newConn, running, clients, seqNum, thVars, netVars, histVars>>

\* cleanup_server: stop_server once more, with no client left in the table,
\* then both allocations are freed.
FreeContext ==
    /\ main = "stopped" /\ mutex = NONE
    /\ main' = "freed"
    /\ UNCHANGED <<newSocket, newConn, ctxVars, seqNum, thVars, netVars, histVars>>

-----------------------------------------------------------------------------
(* The loop of handle_client *)

\* Bound: what threads do with the context after it was freed is undefined
\* and is not followed.
Runs(t, l) == th[t] = l /\ main \notin {"freed", "killed"}

ThGoto(t, l) == th' = [th EXCEPT ![t] = l]

CheckRunning(c) ==
    /\ Runs(c, "check")
    /\ IF running
       THEN /\ rcv' = [rcv EXCEPT ![c] =
                   IF clients[slot[c]].socket \in Fds THEN fdTable[clients[slot[c]].socket]
                   ELSE "free"]
            /\ ThGoto(c, "recv")
       ELSE ThGoto(c, "lock") /\ UNCHANGED rcv
    /\ UNCHANGED <<mainVars, ctxVars, seqNum, slot, locals, netVars, histVars>>

\* recv waits on the connection that the descriptor referred to when it was
\* called, also when the descriptor has been closed since.
Receive(c) ==
    /\ Runs(c, "recv")
    /\ \E d \in Conns :
          /\ rcv[c] = d /\ inbox[d] # <<>>
          /\ inbox' = [inbox EXCEPT ![d] = Tail(@)]
          /\ IF Head(inbox[d]).type = "DAMAGED"
             THEN ThGoto(c, "check") /\ UNCHANGED msg
             ELSE ThGoto(c, "work") /\ msg' = [msg EXCEPT ![c] = Head(inbox[d])]
    /\ rcv' = [rcv EXCEPT ![c] = NONE]
    /\ UNCHANGED <<mainVars, ctxVars, seqNum, slot, no, parties, pos, fdTable, conn, sent,
                   histVars>>

ReceiveEnds(c) ==
    /\ Runs(c, "recv")
    /\ \/ rcv[c] = "free"
       \/ \E d \in Conns : rcv[c] = d /\ inbox[d] = <<>> /\ conn[d] \in {"left", "reset"}
    /\ ThGoto(c, "lock")
    /\ rcv' = [rcv EXCEPT ![c] = NONE]
    /\ UNCHANGED <<mainVars, ctxVars, seqNum, slot, locals, netVars, histVars>>

-----------------------------------------------------------------------------
(* The message handlers, on a handler thread or in handle_message *)

\* The handler of the message returns, and its locals are gone.
Finish(t) ==
    /\ ThGoto(t, IF t = HOST THEN "none" ELSE "check")
    /\ msg' = [msg EXCEPT ![t] = <<>>]
    /\ no' = [no EXCEPT ![t] = 0]
    /\ parties' = [parties EXCEPT ![t] = <<>>]
    /\ pos' = [pos EXCEPT ![t] = 0]

\* sequence_num is taken with atomic_fetch_add.
TakeNumber(t) ==
    /\ seqNum' = seqNum + 1
    /\ no' = [no EXCEPT ![t] = seqNum]
    /\ UNCHANGED <<msg, parties, pos>>

\* The clients in the table, as far as it is right.
Registered == {c \in Conns : th[c] # "none"}

\* An order that is refused has no effect.  For a valid one a sequence
\* number is taken and serialize_message refuses the answer, which is of
\* type MSG_ORDER_STATUS, so nothing is sent.
process_order(t) ==
    /\ seqNum' = IF msg[t].valid THEN seqNum + 1 ELSE seqNum
    /\ Finish(t)
    /\ UNCHANGED casts

broadcast_market_data(t) ==
    /\ TakeNumber(t)
    /\ casts' = Append(casts, [no |-> seqNum, audience |-> Registered, over |-> FALSE])
    /\ ThGoto(t, "scan")

process_trade_execution(t) ==
    /\ TakeNumber(t)
    /\ ThGoto(t, "find")
    /\ UNCHANGED casts

\* handle_heartbeat, whose answer serialize_message refuses, handle_error
\* and the default case change nothing.
NoEffect(t) == Finish(t) /\ UNCHANGED <<seqNum, casts>>

\* The switch of handle_client, and the one of handle_message.
Dispatch(t) ==
    /\ Runs(t, "work")
    /\ \/ msg[t].type = "ORDER" /\ process_order(t)
       \/ msg[t].type = "MARKET_DATA" /\ broadcast_market_data(t)
       \/ msg[t].type = "TRADE_EXEC" /\ process_trade_execution(t)
       \/ msg[t].type = "OTHER" /\ NoEffect(t)
    /\ UNCHANGED <<mainVars, ctxVars, slot, rcv, netVars, messages>>

\* The application hands a message to handle_message.
handle_message(m) ==
    /\ Runs(HOST, "none")
    /\ messages < MaxMessages
    /\ messages' = messages + 1
    /\ msg' = [msg EXCEPT ![HOST] = m]
    /\ ThGoto(HOST, "work")
    /\ UNCHANGED <<mainVars, ctxVars, seqNum, slot, rcv, no, parties, pos, netVars, casts>>

\* generate_order_id and generate_trade_id, called by the application.
generate_id ==
    /\ Runs(HOST, "none")
    /\ messages < MaxMessages
    /\ messages' = messages + 1
    /\ seqNum' = seqNum + 1
    /\ UNCHANGED <<mainVars, ctxVars, thVars, netVars, casts>>

\* send_response_message: a send to a client that has left is answered with
\* a reset, and one after a reset raises SIGPIPE, which nothing handles.
send_response_message(fd, n) ==
    \/ /\ ~\E c \in Conns : Names(fd, c)
       /\ UNCHANGED <<main, conn, sent>>
    \/ \E c \in Conns :
          /\ Names(fd, c)
          /\ sent' = [sent EXCEPT ![c] = Append(@, n)]
          /\ conn' = [conn EXCEPT ![c] = IF @ = "left" THEN "reset" ELSE @]
          /\ main' = IF conn[c] = "reset" THEN "killed" ELSE main

\* process_trade_execution sends only to a socket > 0.
SendIfFound(fd, n) ==
    IF fd > 0 THEN send_response_message(fd, n) ELSE UNCHANGED <<main, conn, sent>>

\* What a read of entry i finds; one behind the table finds anything.
EntriesAt(i) == IF i \in Slots THEN {clients[i]} ELSE [socket : {0} \cup Fds, id : Ids]

ScanLimitOffByOne == MAX_CLIENTS - 1

\* The scans visit MAX_CLIENTS entries, whatever client_count is.
ScanLimit == MAX_CLIENTS

\* One turn of the loop of broadcast_market_data: the entry is read for the
\* test and, when it has a socket, a second time for the send.
Scan(t) ==
    /\ Runs(t, "scan") /\ pos[t] < ScanLimit
    /\ \E e \in EntriesAt(pos[t]) :
          IF e.socket > 0 THEN ThGoto(t, "found") /\ UNCHANGED pos
          ELSE pos' = [pos EXCEPT ![t] = @ + 1] /\ UNCHANGED th
    /\ UNCHANGED <<mainVars, ctxVars, seqNum, slot, rcv, msg, no, parties, netVars, histVars>>

SendFound(t) ==
    /\ Runs(t, "found")
    /\ \E e \in EntriesAt(pos[t]) : send_response_message(e.socket, no[t])
    /\ pos' = [pos EXCEPT ![t] = @ + 1]
    /\ ThGoto(t, "scan")
    /\ UNCHANGED <<newSocket, newConn, ctxVars, seqNum, slot, rcv, msg, no, parties, fdTable,
                   inbox, histVars>>

ScanEnds(t) ==
    /\ Runs(t, "scan") /\ pos[t] = ScanLimit
    /\ casts' = [i \in DOMAIN casts |-> [casts[i] EXCEPT !.over = @ \/ casts[i].no = no[t]]]
    /\ Finish(t)
    /\ UNCHANGED <<mainVars, ctxVars, seqNum, slot, rcv, netVars, messages>>

\* find_client_socket returns fd for the party that is looked up, the buyer
\* first.
Result(t, fd) ==
    /\ parties' = [parties EXCEPT ![t] = Append(@, fd)]
    /\ pos' = [pos EXCEPT ![t] = 0]
    /\ ThGoto(t, IF parties[t] = <<>> THEN "find" ELSE "to_buyer")

\* One turn of its loop: the first entry that has a socket and the id, whose
\* socket is read again for the return, or -1.
find_client_socket(t) ==
    LET id == IF parties[t] = <<>> THEN msg[t].buyer ELSE msg[t].seller
    IN /\ \/ Runs(t, "find") /\ pos[t] = ScanLimit /\ Result(t, -1)
          \/ /\ Runs(t, "find") /\ pos[t] < ScanLimit
             /\ \E e \in EntriesAt(pos[t]) :
                   IF e.socket > 0 /\ e.id = id THEN ThGoto(t, "matched") /\ UNCHANGED pos
                   ELSE pos' = [pos EXCEPT ![t] = @ + 1] /\ UNCHANGED th
             /\ UNCHANGED parties
          \/ Runs(t, "matched") /\ \E e \in EntriesAt(pos[t]) : Result(t, e.socket)
       /\ UNCHANGED <<mainVars, ctxVars, seqNum, slot, rcv, msg, no, netVars, histVars>>

SendTrade(t) ==
    /\ \/ /\ Runs(t, "to_buyer") /\ SendIfFound(parties[t][1], no[t])
          /\ ThGoto(t, "to_seller") /\ UNCHANGED locals
       \/ Runs(t, "to_seller") /\ SendIfFound(parties[t][2], no[t]) /\ Finish(t)
    /\ UNCHANGED <<newSocket, newConn, ctxVars, seqNum, slot, rcv, fdTable, inbox, histVars>>

-----------------------------------------------------------------------------
(* disconnect_client *)

Lock(c) ==
    /\ Runs(c, "lock") /\ mutex = NONE
    /\ mutex' = c
    /\ ThGoto(c, "remove")
    /\ UNCHANGED <<mainVars, running, clients, count, seqNum, slot, rcv, locals, netVars,
                   histVars>>

\* The entries whose id is the one of the entry the handler points to.
SameId(c) == {i \in Slots : i < count /\ clients[i].id = clients[slot[c]].id}

NotFoundKeepsMutex(c) == ThGoto(c, "close") /\ UNCHANGED <<mutex, pos>>
NotFound(c) == ThGoto(c, "close") /\ mutex' = NONE /\ UNCHANGED pos

Remove(c) ==
    /\ Runs(c, "remove")
    /\ IF SameId(c) = {} THEN NotFound(c)
       ELSE /\ pos' = [pos EXCEPT ![c] = CHOOSE i \in SameId(c) : \A j \in SameId(c) : i <= j]
            /\ ThGoto(c, "shift")
            /\ UNCHANGED mutex
    /\ UNCHANGED <<mainVars, running, clients, count, seqNum, slot, rcv, msg, no, parties,
                   netVars, histVars>>

\* The memmove, an entry at a time, visible to those who read without the
\* mutex; the last entry keeps what it held.
Shift(c) ==
    /\ Runs(c, "shift") /\ pos[c] < count - 1
    /\ clients' = [clients EXCEPT ![pos[c]] = clients[pos[c] + 1]]
    /\ pos' = [pos EXCEPT ![c] = @ + 1]
    /\ UNCHANGED <<mainVars, running, count, mutex, seqNum, th, slot, rcv, msg, no, parties,
                   netVars, histVars>>

CountAfterMoveOnly(c) == IF count > 1 THEN count - 1 ELSE count
CountAfter(c) == count - 1

Unlock(c) ==
    /\ Runs(c, "shift") /\ pos[c] = count - 1
    /\ count' = CountAfter(c)
    /\ mutex' = NONE
    /\ ThGoto(c, "close")
    /\ UNCHANGED <<mainVars, running, clients, seqNum, slot, rcv, locals, netVars, histVars>>

\* close(client->socket), after the unlock and through the pointer into the
\* table.
Close(c) ==
    /\ Runs(c, "close")
    /\ CloseFd(clients[slot[c]].socket)
    /\ ThGoto(c, "ended")
    /\ UNCHANGED <<mainVars, ctxVars, seqNum, slot, rcv, locals, conn, inbox, sent, histVars>>

-----------------------------------------------------------------------------
(* Clients and signals *)

\* Something arrives on a connection that the server still has open.
Arrive(c) ==
    /\ conn[c] = "open"
    /\ \/ \E fd \in Fds : Names(fd, c)
       \/ \E d \in Conns : rcv[d] = c
    /\ messages < MaxMessages
    /\ messages' = messages + 1
    /\ \E m \in Arriving : inbox' = [inbox EXCEPT ![c] = Append(@, m)]
    /\ UNCHANGED <<mainVars, ctxVars, seqNum, thVars, fdTable, conn, sent, casts>>

Leave(c) ==
    /\ conn[c] = "open"
    /\ conn' = [conn EXCEPT ![c] = "left"]
    /\ UNCHANGED <<mainVars, ctxVars, seqNum, thVars, fdTable, inbox, sent, histVars>>

\* signal_handler clears server_running.
Signal ==
    /\ running
    /\ running' = FALSE
    /\ UNCHANGED <<mainVars, clients, count, mutex, seqNum, thVars, netVars, histVars>>

-----------------------------------------------------------------------------
Main == Register \/ Refuse \/ StopServer \/ StopClient \/ Stopped \/ FreeContext

Work(t) ==
    \/ Dispatch(t) \/ Scan(t) \/ SendFound(t) \/ ScanEnds(t)
    \/ find_client_socket(t) \/ SendTrade(t)

Handler(c) ==
    \/ CheckRunning(c) \/ Receive(c) \/ ReceiveEnds(c) \/ Work(c)
    \/ Lock(c) \/ Remove(c) \/ Shift(c) \/ Unlock(c) \/ Close(c)

Environment ==
    \/ \E c \in Conns : Accept(c) \/ Arrive(c) \/ Leave(c)
    \/ (\E m \in HandedIn : handle_message(m)) \/ generate_id
    \/ Signal

Alive == main \notin {"freed", "killed"}

Next == Alive /\ (Main \/ Work(HOST) \/ Environment \/ \E c \in Conns : Handler(c))

Spec == Init /\ [][Next]_vars

\* The scheduler runs the threads that can run; a thread takes
\* clients_mutex once per connection.  What clients and the application do
\* is open.
FairSpec ==
    /\ Spec
    /\ WF_vars(Alive /\ Main)
    /\ \A c \in Conns : WF_vars(Handler(c))

-----------------------------------------------------------------------------
(* Properties *)

Entries == [socket : {0} \cup Fds, id : {NoId}, active : BOOLEAN, thread : {NONE} \cup Conns]
Broadcasts == [no : Nat, audience : SUBSET Conns, over : BOOLEAN]

\* Every variable has its type; in particular client_count stays within
\* max_clients.
TypeOK ==
    /\ main \in MainLabels /\ newSocket \in {-1} \cup Fds /\ newConn \in {NONE} \cup Conns
    /\ running \in BOOLEAN /\ count \in 0 .. MaxClients
    /\ clients \in [Slots -> Entries]
    /\ mutex \in {NONE, MAIN} \cup Conns
    /\ seqNum \in Nat
    /\ th \in [Threads -> ThreadLabels] /\ slot \in [Conns -> {-1} \cup Slots]
    /\ rcv \in [Conns -> {NONE, "free"} \cup Conns]
    /\ msg \in [Threads -> {<<>>} \cup HandedIn] /\ no \in [Threads -> Nat]
    /\ parties \in [Threads -> Seq({-1, 0} \cup Fds)]
    /\ pos \in [Threads \cup {MAIN} -> Nat]
    /\ fdTable \in [Fds -> {"free"} \cup Conns]
    /\ conn \in [Conns -> {"idle", "open", "left", "reset"}]
    /\ inbox \in [Conns -> Seq(Arriving)] /\ sent \in [Conns -> Seq(Nat)]
    /\ messages \in 0 .. MaxMessages
    /\ casts \in Seq(Broadcasts)

\* The handlers that have not yet been counted out by disconnect_client.
CountedIn == {c \in Conns : th[c] \notin {"none", "close", "ended"}}

\* client_count is exact: whatever entries the removals hit, and however
\* they interleave with registrations, every connection that was registered
\* is counted out once, when its handler ends, until stop_server sets the
\* count to 0.
CountExact ==
    main \in {"accept", "register", "stopping"} => count = Cardinality(CountedIn)

\* Neither stop_server nor disconnect_client has begun to take clients away.
NobodyRemoved ==
    /\ main \in {"accept", "register"}
    /\ \A c \in Conns : th[c] \notin {"shift", "close", "ended"}

Copies(c, n) == Cardinality({i \in DOMAIN sent[c] : sent[c][i] = n})

\* As long as no client has been removed, market data reaches each client
\* that was registered when the broadcast began exactly once, and no client
\* twice, although connections are registered and other broadcasts run
\* meanwhile.
BroadcastExact ==
    NobodyRemoved =>
        \A i \in DOMAIN casts, c \in Conns :
            /\ Copies(c, casts[i].no) <= 1
            /\ casts[i].over /\ c \in casts[i].audience => Copies(c, casts[i].no) = 1

\* After a signal the server comes to its end: no handler keeps
\* clients_mutex, and stop_server gets it.
StopCompletes == ~running ~> ~Alive

\* "Client %s disconnected and cleaned up": a handler closes the connection
\* it was started for.
ClosesOwnConnection ==
    \A c \in Conns : th[c] = "close" => Names(clients[slot[c]].socket, c)
=============================================================================
