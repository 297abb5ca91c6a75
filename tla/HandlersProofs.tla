--------------------------- MODULE HandlersProofs ---------------------------
(* Proofs about Handlers, for any set of connections, any size of the table *)
(* and any number of messages.                                              *)
EXTENDS Handlers, SequenceCounts, SequenceTheorems

-----------------------------------------------------------------------------
(* Types *)

\* What TypeOK needs to be inductive: accept_client registers a connection
\* it has accepted, and a handler was started on an entry of the table.
TypedInv ==
    /\ TypeOK
    /\ main = "register" => newSocket \in Fds /\ newConn \in Conns
    /\ \A c \in Conns : th[c] # "none" => slot[c] \in Slots

\* A handler returns: its locals are back to what they were at its start.
LEMMA FinishTyped ==
    ASSUME TypedInv, NEW t \in Threads, Finish(t), t \in Conns => th[t] # "none"
    PROVE  /\ th' \in [Threads -> ThreadLabels] /\ msg' \in [Threads -> {<<>>} \cup HandedIn]
           /\ no' \in [Threads -> Nat] /\ parties' \in [Threads -> Seq({-1, 0} \cup Fds)]
           /\ pos' \in [Threads \cup {MAIN} -> Nat]
           /\ \A c \in Conns : th'[c] # "none" => slot[c] \in Slots
<1>1. /\ th \in [Threads -> ThreadLabels] /\ msg \in [Threads -> {<<>>} \cup HandedIn]
      /\ no \in [Threads -> Nat] /\ parties \in [Threads -> Seq({-1, 0} \cup Fds)]
      /\ pos \in [Threads \cup {MAIN} -> Nat]
      /\ \A c \in Conns : th[c] # "none" => slot[c] \in Slots
  BY DEF TypedInv, TypeOK
<1>2. th' \in [Threads -> ThreadLabels]
  BY <1>1 DEF Finish, ThGoto, ThreadLabels
<1>3. /\ msg' \in [Threads -> {<<>>} \cup HandedIn] /\ no' \in [Threads -> Nat]
      /\ pos' \in [Threads \cup {MAIN} -> Nat]
  BY <1>1 DEF Finish, Threads
<1>4. parties' \in [Threads -> Seq({-1, 0} \cup Fds)]
  <2>1. <<>> \in Seq({-1, 0} \cup Fds)
    OBVIOUS
  <2> QED
    BY <1>1, <2>1 DEF Finish
<1>5. \A c \in Conns : th'[c] # "none" => slot[c] \in Slots
  BY <1>1, HandlersAssumption DEF Finish, ThGoto, Threads
<1> QED
  BY <1>2, <1>3, <1>4, <1>5

\* A thread that goes on after it was started stays one that was started.
LEMMA GotoTyped ==
    ASSUME TypedInv, NEW t \in Threads, NEW l \in ThreadLabels, ThGoto(t, l),
           t \in Conns => th[t] # "none"
    PROVE  /\ th' \in [Threads -> ThreadLabels]
           /\ \A c \in Conns : th'[c] # "none" => slot[c] \in Slots
BY DEF TypedInv, TypeOK, ThGoto

\* What accept_client and stop_server write into an entry keeps it one.
LEMMA EntryTyped ==
    ASSUME NEW e \in Entries
    PROVE  /\ \A fd \in Fds, a \in BOOLEAN, c \in Conns :
                 [e EXCEPT !.socket = fd, !.active = a, !.thread = c] \in Entries
           /\ [e EXCEPT !.active = FALSE] \in Entries
BY DEF Entries

\* The accepting thread keeps the types: a registration stays within the
\* table because the capacity is checked under the mutex.
LEMMA TypedMain ==
    ASSUME TypedInv, Main \/ (\E c \in Conns : Accept(c))
    PROVE  TypedInv'
<1> USE HandlersAssumption DEF TypedInv, TypeOK
<1>1. ASSUME NEW c \in Conns, Accept(c)
      PROVE  TypedInv'
  BY <1>1 DEF Accept, ctxVars, thVars, locals, histVars, MainLabels
<1>2. CASE Register
  <2>1. /\ newSocket \in Fds /\ newConn \in Conns /\ newConn \in Threads
        /\ count \in Slots /\ count + 1 \in 0 .. MaxClients
    <3>1. count \in 0 .. MaxClients /\ ~(count >= MaxClients) /\ MaxClients \in Nat
      BY <1>2 DEF Register, AtCapacity
    <3>2. count \in 0 .. (MaxClients - 1) /\ count + 1 \in 0 .. MaxClients
      BY <3>1
    <3>3. newSocket \in Fds /\ newConn \in Conns
      BY <1>2 DEF Register
    <3> QED
      BY <3>2, <3>3 DEF Slots, Threads
  <2>2. clients' \in [Slots -> Entries]
    <3>1. clients' = [clients EXCEPT ![count] =
                        [clients[count] EXCEPT !.socket = newSocket, !.active = Tracked,
                                               !.thread = newConn]]
      BY <1>2, <2>1 DEF Register
    <3>2. [clients[count] EXCEPT !.socket = newSocket, !.active = Tracked, !.thread = newConn]
             \in Entries
      BY <2>1, EntryTyped
    <3> QED
      BY <3>1, <3>2
  <2>3. /\ th' \in [Threads -> ThreadLabels] /\ slot' \in [Conns -> {-1} \cup Slots]
        /\ \A c \in Conns : th'[c] # "none" => slot'[c] \in Slots
    BY <1>2, <2>1 DEF Register, ThreadLabels, Threads
  <2> QED
    BY <1>2, <2>1, <2>2, <2>3 DEF Register, NextAccept, locals, netVars, histVars, MainLabels
<1>3. CASE Refuse
  BY <1>3 DEF Refuse, NextAccept, CloseFd, ctxVars, thVars, locals, histVars, MainLabels
<1>4. CASE StopServer
  BY <1>4 DEF StopServer, thVars, locals, netVars, histVars, MainLabels
<1>5. CASE StopClient
  <2>1. MAIN \in Threads \cup {MAIN} /\ pos[MAIN] \in Slots
    BY <1>5 DEF StopClient, Slots
  <2>2. clients' \in [Slots -> Entries]
    <3>1. clients' = [clients EXCEPT ![pos[MAIN]] = [clients[pos[MAIN]] EXCEPT !.active = FALSE]]
      BY <1>5, <2>1 DEF StopClient
    <3>2. [clients[pos[MAIN]] EXCEPT !.active = FALSE] \in Entries
      BY <2>1, EntryTyped
    <3> QED
      BY <3>1, <3>2
  <2>3. pos' \in [Threads \cup {MAIN} -> Nat]
    BY <1>5, <2>1 DEF StopClient
  <2>4. fdTable' \in [Fds -> {"free"} \cup Conns]
    BY <1>5 DEF StopClient, CloseFd
  <2> QED
    BY <1>5, <2>2, <2>3, <2>4 DEF StopClient, mainVars, histVars
<1>6. CASE Stopped
  BY <1>6 DEF Stopped, thVars, locals, netVars, histVars, MainLabels
<1>7. CASE FreeContext
  BY <1>7 DEF FreeContext, ctxVars, thVars, locals, netVars, histVars, MainLabels
<1> QED
  BY <1>1, <1>2, <1>3, <1>4, <1>5, <1>6, <1>7 DEF Main

\* What the handlers find in an entry is a socket number or 0.
LEMMA EntriesAtTyped ==
    ASSUME TypedInv, NEW i \in Nat, NEW e \in EntriesAt(i)
    PROVE  e.socket \in {0} \cup Fds
BY DEF TypedInv, TypeOK, EntriesAt, Entries

\* send() reaches a client, or nobody, and may end the process.
LEMMA SendTyped ==
    ASSUME TypedInv, NEW fd, NEW n \in Nat, SendIfFound(fd, n) \/ send_response_message(fd, n)
    PROVE  /\ main' \in MainLabels /\ conn' \in [Conns -> {"idle", "open", "left", "reset"}]
           /\ sent' \in [Conns -> Seq(Nat)]
           /\ main' = "register" => main = "register"
<1>1. /\ main \in MainLabels /\ conn \in [Conns -> {"idle", "open", "left", "reset"}]
      /\ sent \in [Conns -> Seq(Nat)]
  BY DEF TypedInv, TypeOK
<1>2. CASE UNCHANGED <<main, conn, sent>>
  BY <1>1, <1>2
<1>3. ASSUME NEW c \in Conns,
             sent' = [sent EXCEPT ![c] = Append(@, n)],
             conn' = [conn EXCEPT ![c] = IF @ = "left" THEN "reset" ELSE @],
             main' = IF conn[c] = "reset" THEN "killed" ELSE main
      PROVE  /\ main' \in MainLabels /\ conn' \in [Conns -> {"idle", "open", "left", "reset"}]
             /\ sent' \in [Conns -> Seq(Nat)]
             /\ main' = "register" => main = "register"
  <2>1. Append(sent[c], n) \in Seq(Nat)
    BY <1>1
  <2> QED
    BY <1>1, <1>3, <2>1 DEF MainLabels
<1> QED
  BY <1>2, <1>3 DEF SendIfFound, send_response_message

\* So does the switch over the message types.
LEMMA TypedDispatch ==
    ASSUME TypedInv, NEW t \in Threads, Dispatch(t)
    PROVE  TypedInv'
<1> USE DEF TypedInv, TypeOK
<1>0. th[t] = "work" /\ UNCHANGED <<mainVars, ctxVars, slot, rcv, netVars, messages>>
  BY DEF Dispatch, Runs
<1>1. CASE Finish(t) /\ seqNum' \in {seqNum, seqNum + 1} /\ UNCHANGED casts
  <2>1. seqNum' \in Nat
    BY <1>1
  <2> QED
    BY <1>0, <1>1, <2>1, FinishTyped DEF mainVars, ctxVars, netVars
<1>2. CASE TakeNumber(t) /\ (\E l \in {"scan", "find"} : ThGoto(t, l)) /\ casts' \in Seq(Broadcasts)
  <2>1. /\ th' \in [Threads -> ThreadLabels]
        /\ \A c \in Conns : th'[c] # "none" => slot[c] \in Slots
    BY <1>0, <1>2, GotoTyped DEF ThreadLabels
  <2>2. seqNum' \in Nat /\ no' \in [Threads -> Nat] /\ UNCHANGED <<msg, parties, pos>>
    BY <1>2 DEF TakeNumber
  <2> QED
    BY <1>0, <1>2, <2>1, <2>2 DEF mainVars, ctxVars, netVars
<1>3. broadcast_market_data(t) => casts' \in Seq(Broadcasts)
  <2>1. [no |-> seqNum, audience |-> Registered, over |-> FALSE] \in Broadcasts
    BY DEF Broadcasts, Registered
  <2>2. casts \in Seq(Broadcasts)
    OBVIOUS
  <2>3. \A b \in Broadcasts : Append(casts, b) \in Seq(Broadcasts)
    BY <2>2
  <2> QED
    BY <2>1, <2>3 DEF broadcast_market_data
<1>4. casts \in Seq(Broadcasts)
  OBVIOUS
<1> HIDE DEF TypedInv, TypeOK
<1> QED
  BY <1>1, <1>2, <1>3, <1>4 DEF Dispatch, process_order, broadcast_market_data,
     process_trade_execution, NoEffect

\* So does the scan of a broadcast.
LEMMA TypedScan ==
    ASSUME TypedInv, NEW t \in Threads, Scan(t) \/ SendFound(t) \/ ScanEnds(t)
    PROVE  TypedInv'
<1> USE DEF TypedInv, TypeOK
<1>1. CASE Scan(t)
  <2>1. /\ th[t] = "scan"
        /\ UNCHANGED <<mainVars, ctxVars, seqNum, slot, rcv, msg, no, parties, netVars, histVars>>
        /\ \/ ThGoto(t, "found") /\ UNCHANGED pos
           \/ pos' = [pos EXCEPT ![t] = @ + 1] /\ UNCHANGED th
    BY <1>1, Zenon DEF Scan, Runs
  <2>2. /\ th' \in [Threads -> ThreadLabels]
        /\ \A c \in Conns : th'[c] # "none" => slot[c] \in Slots
    <3>1. CASE ThGoto(t, "found")
      BY <2>1, <3>1, GotoTyped DEF ThreadLabels
    <3>2. CASE UNCHANGED th
      BY <3>2
    <3> QED
      BY <2>1, <3>1, <3>2
  <2>3. pos' \in [Threads \cup {MAIN} -> Nat]
    <3>1. pos \in [Threads \cup {MAIN} -> Nat]
      OBVIOUS
    <3>2. [pos EXCEPT ![t] = @ + 1] \in [Threads \cup {MAIN} -> Nat]
      BY <3>1
    <3> QED
      BY <2>1, <3>1, <3>2
  <2> QED
    BY <2>1, <2>2, <2>3 DEF mainVars, ctxVars, netVars, histVars
<1>3. CASE SendFound(t)
  <2>1. PICK e \in EntriesAt(pos[t]) : send_response_message(e.socket, no[t])
    BY <1>3 DEF SendFound
  <2>2. no[t] \in Nat
    OBVIOUS
  <2>3. /\ main' \in MainLabels /\ conn' \in [Conns -> {"idle", "open", "left", "reset"}]
        /\ sent' \in [Conns -> Seq(Nat)]
        /\ main' = "register" => main = "register"
    BY <2>1, <2>2, SendTyped
  <2>4. pos' \in [Threads \cup {MAIN} -> Nat]
    BY <1>3 DEF SendFound, Threads
  <2>5. /\ th' \in [Threads -> ThreadLabels]
        /\ \A c \in Conns : th'[c] # "none" => slot[c] \in Slots
    <3>1. th[t] = "found" /\ ThGoto(t, "scan")
      BY <1>3 DEF SendFound, Runs
    <3> QED
      BY <3>1, GotoTyped DEF ThreadLabels
  <2>6. UNCHANGED <<newSocket, newConn, ctxVars, seqNum, slot, rcv, msg, no, parties, fdTable,
                    inbox, histVars>>
    BY <1>3 DEF SendFound
  <2> QED
    BY <2>3, <2>4, <2>5, <2>6 DEF ctxVars, histVars
<1>2. CASE ScanEnds(t)
  <2>1. casts' \in Seq(Broadcasts)
    <3>1. casts' = [i \in 1 .. Len(casts) |->
                      [casts[i] EXCEPT !.over = @ \/ casts[i].no = no[t]]]
      BY <1>2 DEF ScanEnds
    <3>2. ASSUME NEW i \in 1 .. Len(casts)
          PROVE  [casts[i] EXCEPT !.over = @ \/ casts[i].no = no[t]] \in Broadcasts
      <4>1. casts[i] \in Broadcasts
        OBVIOUS
      <4> QED
        BY <4>1 DEF Broadcasts
    <3>3. casts' \in [1 .. Len(casts) -> Broadcasts] /\ Len(casts) \in Nat
      BY <3>1, <3>2
    <3> HIDE DEF TypedInv, TypeOK
    <3> QED
      BY <3>3, SeqDef
  <2>2. Finish(t) /\ th[t] = "scan"
    BY <1>2 DEF ScanEnds, Runs
  <2> QED
    BY <1>2, <2>1, <2>2, FinishTyped DEF ScanEnds, mainVars, ctxVars, netVars
<1> QED
  BY <1>1, <1>2, <1>3

\* So do the lookup of the parties of a trade and the sends to them.
LEMMA TypedTrade ==
    ASSUME TypedInv, NEW t \in Threads, find_client_socket(t) \/ SendTrade(t)
    PROVE  TypedInv'
<1> USE DEF TypedInv, TypeOK
<1>1. CASE find_client_socket(t)
  <2>1. /\ th[t] \in {"find", "matched"}
        /\ UNCHANGED <<mainVars, ctxVars, seqNum, slot, rcv, msg, no, netVars, histVars>>
    BY <1>1 DEF find_client_socket, Runs
  <2>2. ASSUME NEW fd \in {-1, 0} \cup Fds, Result(t, fd)
        PROVE  TypedInv'
    <3>1. /\ th' \in [Threads -> ThreadLabels]
          /\ \A c \in Conns : th'[c] # "none" => slot[c] \in Slots
      <4>1. ThGoto(t, "find") \/ ThGoto(t, "to_buyer")
        BY <2>2 DEF Result
      <4> QED
        BY <2>1, <4>1, GotoTyped DEF ThreadLabels
    <3>2. parties' \in [Threads -> Seq({-1, 0} \cup Fds)]
      <4>1. parties[t] \in Seq({-1, 0} \cup Fds)
        OBVIOUS
      <4>2. Append(parties[t], fd) \in Seq({-1, 0} \cup Fds)
        BY <4>1
      <4> QED
        BY <2>2, <4>2 DEF Result
    <3>3. pos' \in [Threads \cup {MAIN} -> Nat]
      BY <2>2 DEF Result
    <3> QED
      BY <2>1, <3>1, <3>2, <3>3 DEF mainVars, ctxVars, netVars, histVars
  <2>3. CASE pos' = [pos EXCEPT ![t] = @ + 1] /\ UNCHANGED <<parties, th>>
    <3>1. pos' \in [Threads \cup {MAIN} -> Nat]
      BY <2>3 DEF Threads
    <3> QED
      BY <2>1, <2>3, <3>1 DEF mainVars, ctxVars, netVars, histVars
  <2>4. CASE ThGoto(t, "matched") /\ UNCHANGED <<parties, pos>>
    <3>1. /\ th' \in [Threads -> ThreadLabels]
          /\ \A c \in Conns : th'[c] # "none" => slot[c] \in Slots
      BY <2>1, <2>4, GotoTyped DEF ThreadLabels
    <3> QED
      BY <2>1, <2>4, <3>1 DEF mainVars, ctxVars, netVars, histVars
  <2>5. \A e \in EntriesAt(pos[t]) : e.socket \in {-1, 0} \cup Fds
    <3>1. pos[t] \in Nat
      BY DEF Threads
    <3> QED
      BY <3>1, EntriesAtTyped
  <2> HIDE DEF TypedInv, TypeOK
  <2> QED
    BY <1>1, <2>2, <2>3, <2>4, <2>5 DEF find_client_socket
<1>2. CASE SendTrade(t)
  <2>1. PICK fd \in {parties[t][1], parties[t][2]} : SendIfFound(fd, no[t])
    BY <1>2 DEF SendTrade
  <2>2. no[t] \in Nat
    OBVIOUS
  <2>3. /\ main' \in MainLabels /\ conn' \in [Conns -> {"idle", "open", "left", "reset"}]
        /\ sent' \in [Conns -> Seq(Nat)]
        /\ main' = "register" => main = "register"
    BY <2>1, <2>2, SendTyped
  <2>4. UNCHANGED <<newSocket, newConn, ctxVars, seqNum, slot, rcv, fdTable, inbox, histVars>>
    BY <1>2 DEF SendTrade
  <2>5. CASE Finish(t) /\ th[t] = "to_seller"
    BY <2>3, <2>4, <2>5, FinishTyped DEF ctxVars, histVars
  <2>6. CASE ThGoto(t, "to_seller") /\ th[t] = "to_buyer" /\ UNCHANGED locals
    <3>1. /\ th' \in [Threads -> ThreadLabels]
          /\ \A c \in Conns : th'[c] # "none" => slot[c] \in Slots
      BY <2>6, GotoTyped DEF ThreadLabels
    <3> QED
      BY <2>3, <2>4, <2>6, <3>1 DEF ctxVars, histVars, locals
  <2> HIDE DEF TypedInv, TypeOK
  <2> QED
    BY <1>2, <2>5, <2>6 DEF SendTrade, Runs
<1> QED
  BY <1>1, <1>2

\* What handle_client receives and decodes is a message the switch knows.
LEMMA ReceivedIsHandedIn ==
    ASSUME NEW m \in Arriving, m.type # "DAMAGED"
    PROVE  m \in HandedIn
BY DEF Arriving, HandedIn

\* So does the loop of handle_client.
LEMMA TypedLoop ==
    ASSUME TypedInv, NEW c \in Conns, CheckRunning(c) \/ Receive(c) \/ ReceiveEnds(c)
    PROVE  TypedInv'
<1> USE DEF TypedInv, TypeOK
<1>0. c \in Threads
  BY DEF Threads
<1>1. CASE CheckRunning(c)
  <2>1. /\ th' \in [Threads -> ThreadLabels]
        /\ \A d \in Conns : th'[d] # "none" => slot[d] \in Slots
    BY <1>0, <1>1, GotoTyped DEF CheckRunning, Runs, ThreadLabels
  <2>2. rcv' \in [Conns -> {NONE, "free"} \cup Conns]
    <3>1. \/ rcv' = rcv
          \/ \E x \in {NONE, "free"} \cup Conns : rcv' = [rcv EXCEPT ![c] = x]
      BY <1>1 DEF CheckRunning
    <3> QED
      BY <3>1
  <2> QED
    BY <1>1, <2>1, <2>2 DEF CheckRunning, mainVars, ctxVars, locals, netVars, histVars
<1>2. CASE Receive(c)
  <2>1. PICK d \in Conns :
           /\ inbox[d] # <<>>
           /\ inbox' = [inbox EXCEPT ![d] = Tail(@)]
           /\ IF Head(inbox[d]).type = "DAMAGED"
              THEN ThGoto(c, "check") /\ UNCHANGED msg
              ELSE ThGoto(c, "work") /\ msg' = [msg EXCEPT ![c] = Head(inbox[d])]
    BY <1>2 DEF Receive
  <2>2. inbox[d] \in Seq(Arriving)
    OBVIOUS
  <2>3. Tail(inbox[d]) \in Seq(Arriving) /\ Head(inbox[d]) \in Arriving
    BY <2>1, <2>2
  <2>4. inbox' \in [Conns -> Seq(Arriving)]
    BY <2>1, <2>3
  <2>5. msg' \in [Threads -> {<<>>} \cup HandedIn]
    <3>1. CASE Head(inbox[d]).type = "DAMAGED"
      BY <2>1, <3>1
    <3>2. CASE Head(inbox[d]).type # "DAMAGED"
      <4>1. Head(inbox[d]) \in HandedIn
        BY <2>3, <3>2, ReceivedIsHandedIn
      <4> QED
        BY <2>1, <3>2, <4>1
    <3> QED
      BY <3>1, <3>2
  <2>6. /\ th' \in [Threads -> ThreadLabels]
        /\ \A i \in Conns : th'[i] # "none" => slot[i] \in Slots
    <3>1. th[c] = "recv" /\ \E l \in {"check", "work"} : ThGoto(c, l)
      BY <1>2, <2>1 DEF Receive, Runs
    <3> QED
      BY <1>0, <3>1, GotoTyped DEF ThreadLabels
  <2>7. rcv' \in [Conns -> {NONE, "free"} \cup Conns]
    BY <1>2 DEF Receive
  <2> QED
    BY <1>2, <2>4, <2>5, <2>6, <2>7 DEF Receive, mainVars, ctxVars, histVars
<1>3. CASE ReceiveEnds(c)
  <2>1. /\ th' \in [Threads -> ThreadLabels]
        /\ \A d \in Conns : th'[d] # "none" => slot[d] \in Slots
    BY <1>0, <1>3, GotoTyped DEF ReceiveEnds, Runs, ThreadLabels
  <2>2. rcv' \in [Conns -> {NONE, "free"} \cup Conns]
    BY <1>3 DEF ReceiveEnds
  <2> QED
    BY <1>3, <2>1, <2>2 DEF ReceiveEnds, mainVars, ctxVars, locals, netVars, histVars
<1> QED
  BY <1>1, <1>2, <1>3

\* No id is ever set, so the entry disconnect_client finds is the first of
\* the table, if there is any.
LEMMA FirstEntryFound ==
    ASSUME TypedInv, NEW c \in Conns, th[c] # "none"
    PROVE  /\ SameId(c) = {} <=> count = 0
           /\ SameId(c) # {} =>
                 (CHOOSE i \in SameId(c) : \A j \in SameId(c) : i <= j) = 0
<1>1. /\ clients \in [Slots -> Entries] /\ slot[c] \in Slots /\ MaxClients \in Nat
      /\ count \in 0 .. MaxClients
  BY HandlersAssumption DEF TypedInv, TypeOK
<1>2. \A i \in Slots : clients[i].id = NoId
  BY <1>1 DEF Entries
<1>3. SameId(c) = {i \in Slots : i < count}
  BY <1>1, <1>2 DEF SameId
<1>4. \A i \in Slots : i \in Nat
  BY DEF Slots
<1>5. count # 0 => 0 \in SameId(c)
  BY <1>1, <1>3 DEF Slots
<1>6. count = 0 => SameId(c) = {}
  BY <1>3, <1>4
<1>7. ASSUME SameId(c) # {}
      PROVE  (CHOOSE i \in SameId(c) : \A j \in SameId(c) : i <= j) = 0
  <2>1. 0 \in SameId(c) /\ \A j \in SameId(c) : 0 <= j /\ j \in Nat
    BY <1>3, <1>4, <1>5, <1>6, <1>7
  <2>2. \A i \in SameId(c) : (\A j \in SameId(c) : i <= j) => i = 0
    BY <2>1
  <2> QED
    BY <2>1, <2>2
<1> QED
  BY <1>5, <1>6, <1>7

\* So does disconnect_client: it moves entries within the table.
LEMMA TypedDisconnect ==
    ASSUME TypedInv, NEW c \in Conns, Lock(c) \/ Remove(c) \/ Shift(c) \/ Unlock(c) \/ Close(c)
    PROVE  TypedInv'
<1> USE DEF TypedInv, TypeOK
<1>0. c \in Threads
  BY DEF Threads
<1>1. CASE Lock(c)
  <2>1. /\ th' \in [Threads -> ThreadLabels]
        /\ \A d \in Conns : th'[d] # "none" => slot[d] \in Slots
    BY <1>0, <1>1, GotoTyped DEF Lock, Runs, ThreadLabels
  <2> QED
    BY <1>1, <2>1 DEF Lock, mainVars, locals, netVars, histVars
<1>2. CASE Remove(c)
  <2>1. th[c] = "remove" /\ \E l \in {"close", "shift"} : ThGoto(c, l)
    BY <1>2 DEF Remove, Runs, NotFound
  <2>2. /\ th' \in [Threads -> ThreadLabels]
        /\ \A d \in Conns : th'[d] # "none" => slot[d] \in Slots
    BY <1>0, <2>1, GotoTyped DEF ThreadLabels
  <2>3. mutex' \in {NONE, mutex}
    BY <1>2 DEF Remove, NotFound
  <2>4. UNCHANGED pos \/ pos' = [pos EXCEPT ![c] = 0]
    BY <1>2, <2>1, FirstEntryFound DEF Remove, NotFound
  <2>5. pos' \in [Threads \cup {MAIN} -> Nat]
    <3>1. pos \in [Threads \cup {MAIN} -> Nat]
      OBVIOUS
    <3> HIDE DEF TypedInv, TypeOK
    <3> QED
      BY <2>4, <3>1
  <2> QED
    BY <1>2, <2>2, <2>3, <2>5 DEF Remove, mainVars, netVars, histVars
<1>3. CASE Shift(c)
  <2>1. pos[c] \in Nat /\ count \in 0 .. MaxClients /\ MaxClients \in Nat /\ pos[c] < count - 1
    BY <1>0, <1>3, HandlersAssumption DEF Shift
  <2>2. pos[c] \in Slots /\ pos[c] + 1 \in Slots
    <3> HIDE DEF TypedInv, TypeOK
    <3> QED
      BY <2>1 DEF Slots
  <2>3. clients' \in [Slots -> Entries]
    BY <1>3, <2>2 DEF Shift
  <2>4. pos' \in [Threads \cup {MAIN} -> Nat]
    <3>1. pos \in [Threads \cup {MAIN} -> Nat] /\ pos' = [pos EXCEPT ![c] = pos[c] + 1]
      BY <1>3 DEF Shift
    <3> HIDE DEF TypedInv, TypeOK
    <3>2. pos[c] + 1 \in Nat
      BY <2>1
    <3> QED
      BY <3>1, <3>2
  <2> QED
    BY <1>3, <2>3, <2>4 DEF Shift, mainVars, netVars, histVars
<1>4. CASE Unlock(c)
  <2>1. /\ th' \in [Threads -> ThreadLabels]
        /\ \A d \in Conns : th'[d] # "none" => slot[d] \in Slots
    BY <1>0, <1>4, GotoTyped DEF Unlock, Runs, ThreadLabels
  <2>2. pos[c] \in Nat /\ count \in 0 .. MaxClients /\ pos[c] = count - 1 /\ count' = count - 1
    BY <1>0, <1>4 DEF Unlock, CountAfter
  <2>3. count' \in 0 .. MaxClients
    <3> HIDE DEF TypedInv, TypeOK
    <3> QED
      BY <2>2, HandlersAssumption
  <2> QED
    BY <1>4, <2>1, <2>3 DEF Unlock, mainVars, locals, netVars, histVars
<1>5. CASE Close(c)
  <2>1. /\ th' \in [Threads -> ThreadLabels]
        /\ \A d \in Conns : th'[d] # "none" => slot[d] \in Slots
    BY <1>0, <1>5, GotoTyped DEF Close, Runs, ThreadLabels
  <2>2. fdTable' \in [Fds -> {"free"} \cup Conns]
    BY <1>5 DEF Close, CloseFd
  <2> QED
    BY <1>5, <2>1, <2>2 DEF Close, mainVars, ctxVars, locals, histVars
<1> QED
  BY <1>1, <1>2, <1>3, <1>4, <1>5

\* So do the clients, the application and the signal.
LEMMA TypedEnvironment ==
    ASSUME TypedInv,
           \/ \E c \in Conns : Arrive(c) \/ Leave(c)
           \/ (\E m \in HandedIn : handle_message(m)) \/ generate_id \/ Signal
    PROVE  TypedInv'
<1> USE HandlersAssumption DEF TypedInv, TypeOK
<1>1. ASSUME NEW c \in Conns, Arrive(c)
      PROVE  TypedInv'
  <2>1. PICK m \in Arriving : inbox' = [inbox EXCEPT ![c] = Append(@, m)]
    BY <1>1 DEF Arrive
  <2>2. inbox[c] \in Seq(Arriving)
    OBVIOUS
  <2>3. Append(inbox[c], m) \in Seq(Arriving)
    BY <2>2
  <2>4. inbox' \in [Conns -> Seq(Arriving)]
    BY <2>1, <2>3
  <2>5. messages' \in 0 .. MaxMessages
    BY <1>1 DEF Arrive
  <2> QED
    BY <1>1, <2>4, <2>5 DEF Arrive, mainVars, ctxVars, thVars, locals
<1>2. ASSUME NEW c \in Conns, Leave(c)
      PROVE  TypedInv'
  BY <1>2 DEF Leave, mainVars, ctxVars, thVars, locals, histVars
<1>3. ASSUME NEW m \in HandedIn, handle_message(m)
      PROVE  TypedInv'
  <2>1. HOST \in Threads /\ HOST \notin Conns
    BY DEF Threads
  <2>2. /\ th' \in [Threads -> ThreadLabels]
        /\ \A c \in Conns : th'[c] # "none" => slot[c] \in Slots
    BY <1>3, <2>1, GotoTyped DEF handle_message, ThreadLabels
  <2>3. msg' \in [Threads -> {<<>>} \cup HandedIn]
    BY <1>3 DEF handle_message
  <2>4. messages' \in 0 .. MaxMessages
    BY <1>3 DEF handle_message
  <2> QED
    BY <1>3, <2>2, <2>3, <2>4 DEF handle_message, mainVars, ctxVars, netVars
<1>4. CASE generate_id
  <2>1. messages' \in 0 .. MaxMessages /\ seqNum' \in Nat
    BY <1>4 DEF generate_id
  <2> QED
    BY <1>4, <2>1 DEF generate_id, mainVars, ctxVars, thVars, locals, netVars
<1>5. CASE Signal
  BY <1>5 DEF Signal, mainVars, thVars, locals, netVars, histVars
<1> QED
  BY <1>1, <1>2, <1>3, <1>4, <1>5

\* All types, in any reachable state.
LEMMA TypedHolds == Spec => []TypedInv
<1>1. Init => TypedInv
  <2> SUFFICES ASSUME Init
               PROVE  TypedInv
    OBVIOUS
  <2>1. clients \in [Slots -> Entries]
    BY DEF Init, Entry, Entries
  <2>2. /\ inbox \in [Conns -> Seq(Arriving)] /\ sent \in [Conns -> Seq(Nat)]
        /\ parties \in [Threads -> Seq({-1, 0} \cup Fds)] /\ casts \in Seq(Broadcasts)
    BY DEF Init
  <2>3. \A c \in Conns : th[c] = "none"
    BY DEF Init, Threads
  <2> QED
    BY <2>1, <2>2, <2>3, HandlersAssumption DEF Init, TypedInv, TypeOK, MainLabels, ThreadLabels
<1>2. TypedInv /\ [Next]_vars => TypedInv'
  <2> SUFFICES ASSUME TypedInv, [Next]_vars
               PROVE  TypedInv'
    OBVIOUS
  <2>1. CASE UNCHANGED vars
    BY <2>1 DEF vars, mainVars, ctxVars, thVars, locals, netVars, histVars, TypedInv, TypeOK
  <2>2. ASSUME NEW t \in Threads, Work(t)
        PROVE  TypedInv'
    BY <2>2, TypedDispatch, TypedScan, TypedTrade DEF Work
  <2>3. HOST \in Threads /\ Conns \subseteq Threads
    BY DEF Threads
  <2>4. ASSUME NEW c \in Conns, Handler(c)
        PROVE  TypedInv'
    BY <2>2, <2>3, <2>4, TypedLoop, TypedDisconnect DEF Handler
  <2> QED
    BY <2>1, <2>2, <2>3, <2>4, TypedMain, TypedEnvironment DEF Next, Environment
<1> QED
  BY <1>1, <1>2, PTL DEF Spec

\* Every variable of the multithreaded server keeps its type; in particular
\* client_count stays within max_clients and the removals within the table,
\* although the handlers read it without clients_mutex.
THEOREM HandlersTypeCorrect == Spec => []TypeOK
<1>1. TypedInv => TypeOK
  BY DEF TypedInv
<1> QED
  BY <1>1, TypedHolds, PTL

-----------------------------------------------------------------------------
(* client_count *)

\* A connection is accepted once and has no handler before it is registered.
CountInv ==
    /\ CountExact
    /\ IsFiniteSet(CountedIn)
    /\ \A c \in Conns : conn[c] = "idle" => th[c] = "none"
    /\ main = "register" => th[newConn] = "none" /\ conn[newConn] # "idle"

\* A message handler sends, and moves its own thread only.
LEMMA WorkFrame ==
    ASSUME TypedInv, NEW t \in Threads, Work(t)
    PROVE  /\ UNCHANGED <<newSocket, newConn, ctxVars, slot, rcv, fdTable, inbox, messages>>
           /\ main' \in {main, "killed"}
           /\ \A c \in Conns : conn'[c] = "idle" => conn[c] = "idle"
           /\ th[t] \in {"work", "scan", "found", "find", "matched", "to_buyer", "to_seller"}
           /\ th' = [th EXCEPT ![t] = th'[t]]
           /\ th'[t] \in {"check", "scan", "found", "find", "matched", "to_buyer", "to_seller"}
              \/ (t = HOST /\ th'[t] = "none")
<1> DEFINE Same == UNCHANGED <<newSocket, newConn, ctxVars, slot, rcv, fdTable, inbox, messages>>
           Moved == /\ th' = [th EXCEPT ![t] = th'[t]]
                    /\ th'[t] \in {"check", "scan", "found", "find", "matched", "to_buyer", "to_seller"}
                       \/ (t = HOST /\ th'[t] = "none")
<1>1. /\ th \in [Threads -> ThreadLabels] /\ conn \in [Conns -> {"idle", "open", "left", "reset"}]
      /\ th = [th EXCEPT ![t] = th[t]]
  BY DEF TypedInv, TypeOK
<1>2. ASSUME NEW fd, NEW n, SendIfFound(fd, n) \/ send_response_message(fd, n)
      PROVE  /\ main' \in {main, "killed"}
             /\ \A c \in Conns : conn'[c] = "idle" => conn[c] = "idle"
  BY <1>1, <1>2 DEF SendIfFound, send_response_message
<1>3. ASSUME NEW l \in {"check", "scan", "found", "find", "matched", "to_buyer", "to_seller"}, ThGoto(t, l)
      PROVE  Moved
  BY <1>1, <1>3 DEF ThGoto
<1>4. ASSUME Finish(t)
      PROVE  Moved
  <2>1. th'[t] = IF t = HOST THEN "none" ELSE "check"
    BY <1>1, <1>4 DEF Finish, ThGoto
  <2>2. th' = [th EXCEPT ![t] = th'[t]]
    BY <1>1, <1>4 DEF Finish, ThGoto
  <2> QED
    BY <2>1, <2>2
<1>5. CASE Dispatch(t)
  <2>1. Same /\ UNCHANGED <<main, conn>> /\ th[t] = "work"
    BY <1>5 DEF Dispatch, Runs, mainVars, netVars
  <2>2. Moved
    BY <1>3, <1>4, <1>5 DEF Dispatch, process_order, broadcast_market_data,
       process_trade_execution, NoEffect
  <2> QED
    BY <2>1, <2>2
<1>6. CASE Scan(t)
  <2>1. /\ Same /\ UNCHANGED <<main, conn>> /\ th[t] = "scan"
        /\ UNCHANGED th \/ ThGoto(t, "found")
    BY <1>6 DEF Scan, Runs, mainVars, netVars, histVars
  <2>2. Moved
    BY <1>1, <1>3, <2>1
  <2> QED
    BY <2>1, <2>2
<1>10. CASE SendFound(t)
  <2>1. /\ Same /\ th[t] = "found" /\ ThGoto(t, "scan")
        /\ \E fd, n : send_response_message(fd, n)
    BY <1>10 DEF SendFound, Runs, histVars
  <2>2. Moved
    BY <1>3, <2>1
  <2> QED
    BY <1>2, <2>1, <2>2
<1>7. CASE ScanEnds(t)
  <2>1. Same /\ UNCHANGED <<main, conn>> /\ th[t] = "scan" /\ Finish(t)
    BY <1>7 DEF ScanEnds, Runs, mainVars, netVars
  <2>2. Moved
    BY <1>4, <2>1
  <2> QED
    BY <2>1, <2>2
<1>8. CASE find_client_socket(t)
  <2>1. Same /\ UNCHANGED <<main, conn>> /\ th[t] \in {"find", "matched"}
    BY <1>8 DEF find_client_socket, Runs, mainVars, netVars, histVars
  <2>2. UNCHANGED th \/ ThGoto(t, "find") \/ ThGoto(t, "matched") \/ ThGoto(t, "to_buyer")
    BY <1>8 DEF find_client_socket, Result
  <2>3. Moved
    BY <1>1, <1>3, <2>1, <2>2
  <2> QED
    BY <2>1, <2>3
<1>9. CASE SendTrade(t)
  <2>1. Same /\ \E fd, n : SendIfFound(fd, n)
    BY <1>9 DEF SendTrade, histVars
  <2>2. th[t] \in {"to_buyer", "to_seller"} /\ (ThGoto(t, "to_seller") \/ Finish(t))
    BY <1>9 DEF SendTrade, Runs
  <2>3. Moved
    BY <1>3, <1>4, <2>2
  <2> QED
    BY <1>2, <2>1, <2>2, <2>3
<1> QED
  BY <1>5, <1>6, <1>7, <1>8, <1>9, <1>10 DEF Work

\* A step that neither registers a connection nor counts one out.
LEMMA CountFrame ==
    ASSUME CountInv, UNCHANGED count,
           \A c \in Conns : (th'[c] = "none" <=> th[c] = "none")
                            /\ (th'[c] \in {"close", "ended"} <=> th[c] \in {"close", "ended"}),
           \A c \in Conns : conn'[c] = "idle" => conn[c] = "idle",
           main' = main \/ main' \notin {"accept", "register", "stopping"}
           \/ (main = "accept" /\ main' = "stopping") \/ (main = "register" /\ main' = "accept"),
           main' = "register" => UNCHANGED newConn /\ newConn \in Conns
    PROVE  CountInv'
<1>1. CountedIn' = CountedIn
  BY DEF CountedIn
<1>2. CountExact'
  BY <1>1 DEF CountInv, CountExact
<1> QED
  BY <1>1, <1>2 DEF CountInv

\* The accepting thread counts a connection in when it starts its handler.
LEMMA CountMain ==
    ASSUME TypedInv, CountInv, Main \/ (\E c \in Conns : Accept(c))
    PROVE  CountInv'
<1>0. /\ th \in [Threads -> ThreadLabels] /\ Conns \subseteq Threads
      /\ conn \in [Conns -> {"idle", "open", "left", "reset"}]
      /\ main = "register" => newConn \in Conns
  BY DEF TypedInv, TypeOK, Threads
<1>1. ASSUME NEW c \in Conns, Accept(c)
      PROVE  CountInv'
  <2>1. /\ UNCHANGED <<th, count>> /\ conn[c] = "idle" /\ conn' = [conn EXCEPT ![c] = "open"]
        /\ newConn' = c /\ main = "accept" /\ main' = "register"
    BY <1>1 DEF Accept, ctxVars, thVars
  <2>2. CountedIn' = CountedIn
    BY <2>1 DEF CountedIn
  <2> QED
    BY <1>0, <2>1, <2>2 DEF CountInv, CountExact
<1>2. CASE Register
  <2>1. /\ main = "register" /\ main' = "accept" /\ count' = count + 1
        /\ th' = [th EXCEPT ![newConn] = "check"] /\ UNCHANGED conn
        /\ newConn \in Conns /\ th[newConn] = "none" /\ conn[newConn] # "idle"
    BY <1>0, <1>2 DEF Register, NextAccept, netVars, CountInv
  <2>2. CountedIn' = CountedIn \cup {newConn} /\ newConn \notin CountedIn
    BY <1>0, <2>1 DEF CountedIn
  <2>3. IsFiniteSet(CountedIn') /\ Cardinality(CountedIn') = Cardinality(CountedIn) + 1
    BY <2>2, FS_AddElement DEF CountInv
  <2>4. CountExact'
    BY <2>1, <2>3 DEF CountInv, CountExact
  <2> QED
    BY <1>0, <2>1, <2>3, <2>4 DEF CountInv
<1>3. CASE Refuse
  BY <1>3, CountFrame DEF Refuse, NextAccept, ctxVars, thVars
<1>4. CASE StopServer
  BY <1>4, CountFrame DEF StopServer, thVars, netVars
<1>5. CASE StopClient
  BY <1>0, <1>5, CountFrame DEF StopClient, mainVars
<1>6. CASE Stopped
  <2>1. main' = "stopped" /\ UNCHANGED <<th, conn>>
    BY <1>6 DEF Stopped, thVars, netVars
  <2>2. CountedIn' = CountedIn
    BY <2>1 DEF CountedIn
  <2> QED
    BY <2>1, <2>2 DEF CountInv, CountExact
<1>7. CASE FreeContext
  BY <1>7, CountFrame DEF FreeContext, ctxVars, thVars, netVars
<1> QED
  BY <1>1, <1>2, <1>3, <1>4, <1>5, <1>6, <1>7 DEF Main

\* A handler is counted out once, in the step in which disconnect_client
\* lets go of clients_mutex.
LEMMA CountHandler ==
    ASSUME TypedInv, CountInv, NEW c \in Conns, Handler(c)
    PROVE  CountInv'
<1>0. /\ th \in [Threads -> ThreadLabels] /\ Conns \subseteq Threads /\ c \in Threads
      /\ main = "register" => newConn \in Conns
      /\ c # HOST
  BY HandlersAssumption DEF TypedInv, TypeOK, Threads
<1>1. CASE Work(c)
  <2>1. /\ UNCHANGED <<newConn, count>> /\ main' \in {main, "killed"}
        /\ \A d \in Conns : conn'[d] = "idle" => conn[d] = "idle"
        /\ th[c] \notin {"none", "close", "ended"}
        /\ th' = [th EXCEPT ![c] = th'[c]] /\ th'[c] \notin {"none", "close", "ended"}
    BY <1>0, <1>1, WorkFrame DEF ctxVars
  <2> QED
    BY <1>0, <2>1, CountFrame
<1>2. CASE CheckRunning(c) \/ Receive(c) \/ ReceiveEnds(c) \/ Lock(c) \/ Shift(c)
  <2>1. /\ UNCHANGED <<newConn, count, main, conn>>
        /\ th[c] \notin {"none", "close", "ended"}
        /\ \E l \in ThreadLabels \ {"none", "close", "ended"} : th' = [th EXCEPT ![c] = l]
    <3>1. th = [th EXCEPT ![c] = th[c]] /\ th[c] \in ThreadLabels
      BY <1>0
    <3> QED
      BY <1>2, <3>1 DEF CheckRunning, Receive, ReceiveEnds, Lock, Shift, Runs, ThGoto, ThreadLabels,
         mainVars, ctxVars, netVars
  <2> QED
    BY <1>0, <2>1, CountFrame
<1>3. CASE Remove(c)
  <2>1. UNCHANGED <<newConn, count, main, conn>> /\ th[c] = "remove"
    BY <1>3 DEF Remove, Runs, mainVars, netVars
  <2>2. CASE SameId(c) # {}
    <3>1. th' = [th EXCEPT ![c] = "shift"]
      BY <1>3, <2>2 DEF Remove, ThGoto
    <3> QED
      BY <1>0, <2>1, <3>1, CountFrame
  <2>3. CASE SameId(c) = {}
    <3>1. count = 0
      BY <2>1, <2>3, FirstEntryFound
    <3>2. c \in CountedIn
      BY <2>1 DEF CountedIn
    <3>3. main \notin {"accept", "register", "stopping"}
      BY <3>1, <3>2, FS_EmptySet DEF CountInv, CountExact
    <3>4. th' = [th EXCEPT ![c] = "close"]
      BY <1>3, <2>3 DEF Remove, NotFound, ThGoto
    <3>5. CountedIn' \in SUBSET CountedIn
      BY <1>0, <3>4 DEF CountedIn
    <3>6. IsFiniteSet(CountedIn')
      BY <3>5, FS_Subset DEF CountInv
    <3> QED
      BY <1>0, <2>1, <3>3, <3>4, <3>6 DEF CountInv, CountExact
  <2> QED
    BY <2>2, <2>3
<1>4. CASE Unlock(c)
  <2>1. /\ UNCHANGED <<newConn, main, conn>> /\ th[c] = "shift" /\ count' = count - 1
        /\ th' = [th EXCEPT ![c] = "close"]
    BY <1>4 DEF Unlock, Runs, CountAfter, ThGoto, mainVars, netVars
  <2>2. CountedIn' = CountedIn \ {c} /\ c \in CountedIn
    BY <1>0, <2>1 DEF CountedIn
  <2>3. IsFiniteSet(CountedIn') /\ Cardinality(CountedIn') = Cardinality(CountedIn) - 1
    BY <2>2, FS_RemoveElement DEF CountInv
  <2>4. CountExact'
    BY <2>1, <2>3 DEF CountInv, CountExact
  <2> QED
    BY <1>0, <2>1, <2>3, <2>4 DEF CountInv
<1>5. CASE Close(c)
  <2>1. /\ UNCHANGED <<newConn, count, main, conn>> /\ th[c] = "close"
        /\ th' = [th EXCEPT ![c] = "ended"]
    BY <1>5 DEF Close, Runs, ThGoto, mainVars, ctxVars
  <2> QED
    BY <1>0, <2>1, CountFrame
<1> QED
  BY <1>1, <1>2, <1>3, <1>4, <1>5 DEF Handler

\* Clients and the application do not touch the count.
LEMMA CountOthers ==
    ASSUME TypedInv, CountInv,
           \/ Work(HOST) \/ UNCHANGED vars
           \/ \E c \in Conns : Arrive(c) \/ Leave(c)
           \/ (\E m \in HandedIn : handle_message(m)) \/ generate_id \/ Signal
    PROVE  CountInv'
<1>0. /\ th \in [Threads -> ThreadLabels] /\ conn \in [Conns -> {"idle", "open", "left", "reset"}]
      /\ HOST \in Threads /\ HOST \notin Conns /\ Conns \subseteq Threads
      /\ main = "register" => newConn \in Conns
  BY HandlersAssumption DEF TypedInv, TypeOK, Threads
<1>1. CASE Work(HOST)
  <2>1. /\ UNCHANGED <<newConn, count>> /\ main' \in {main, "killed"}
        /\ \A d \in Conns : conn'[d] = "idle" => conn[d] = "idle"
        /\ th' = [th EXCEPT ![HOST] = th'[HOST]]
    BY <1>0, <1>1, WorkFrame DEF ctxVars
  <2>2. \A c \in Conns : th'[c] = th[c]
    BY <1>0, <2>1
  <2> QED
    BY <1>0, <2>1, <2>2, CountFrame
<1>2. CASE UNCHANGED vars
  BY <1>0, <1>2, CountFrame DEF vars, mainVars, ctxVars, thVars, netVars
<1>3. ASSUME NEW c \in Conns, Arrive(c) \/ Leave(c)
      PROVE  CountInv'
  <2>1. /\ UNCHANGED <<newConn, count, main, th>>
        /\ conn' = conn \/ conn' = [conn EXCEPT ![c] = "left"]
    BY <1>3 DEF Arrive, Leave, mainVars, ctxVars, thVars
  <2> QED
    BY <1>0, <2>1, CountFrame
<1>4. ASSUME NEW m \in HandedIn, handle_message(m)
      PROVE  CountInv'
  <2>1. /\ UNCHANGED <<newConn, count, main, conn>> /\ th' = [th EXCEPT ![HOST] = "work"]
    BY <1>4 DEF handle_message, ThGoto, mainVars, ctxVars, netVars
  <2>2. \A c \in Conns : th'[c] = th[c]
    BY <1>0, <2>1
  <2> QED
    BY <1>0, <2>1, <2>2, CountFrame
<1>5. CASE generate_id \/ Signal
  BY <1>0, <1>5, CountFrame DEF generate_id, Signal, mainVars, ctxVars, thVars, netVars
<1> QED
  BY <1>1, <1>2, <1>3, <1>4, <1>5

\* The count follows the handlers, in any reachable state.
LEMMA CountHolds == Spec => []CountInv
<1>1. Init => CountInv
  <2> SUFFICES ASSUME Init
               PROVE  CountInv
    OBVIOUS
  <2>1. \A c \in Conns : th[c] = "none"
    BY DEF Init, Threads
  <2>2. CountedIn = {} /\ count = 0 /\ main = "accept"
    BY <2>1 DEF CountedIn, Init
  <2> QED
    BY <2>1, <2>2, FS_EmptySet DEF CountInv, CountExact
<1>2. TypedInv /\ CountInv /\ [Next]_vars => CountInv'
  BY CountMain, CountHandler, CountOthers DEF Next, Environment
<1> QED
  BY <1>1, <1>2, TypedHolds, PTL DEF Spec

\* client_count is exact, for any number of connections and any size of the
\* table: however registrations and removals interleave, and although
\* disconnect_client may remove the entry of another client, the count is
\* the number of handlers not yet removed, until stop_server sets it to 0.
THEOREM CountAlwaysExact == Spec => []CountExact
<1>1. CountInv => CountExact
  BY DEF CountInv
<1> QED
  BY <1>1, CountHolds, PTL
=============================================================================
