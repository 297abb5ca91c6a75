---------------------------- MODULE ClientProofs ----------------------------
(* Proofs about Client, for every number of descriptors, connections,       *)
(* messages and sends.                                                      *)
EXTENDS Client, TLAPS

-----------------------------------------------------------------------------
(* Types *)

\* What TypeOK needs to be inductive: an attempt is counted within the bound,
\* has a number while it is under way, and a thread dispatches a message it
\* has decoded.
TypedInv ==
    /\ TypeOK
    /\ app = "socket" => attempts < MaxConnects
    /\ app \in {"dial", "connected", "spawn", "on_connect"} => attempts \in Connections
    /\ \A k \in Connections : th[k] = "dispatch" => rmsg[k] \in Connections \X Units

\* close() leaves tables of descriptors and connections.
LEMMA CloseSocketTyped ==
    ASSUME TypeOK, CloseSocket
    PROVE  /\ fdTable' \in [Fds -> {FREE, FOREIGN} \cup Connections]
           /\ conn' \in [Connections -> ConnStates]
BY DEF CloseSocket, TypeOK, ConnStates

\* A new socket gets the next number of a connection.
LEMMA OpenSocketTyped ==
    ASSUME attempts \in 0 .. MaxConnects, attempts < MaxConnects, OpenSocket,
           fdTable \in [Fds -> {FREE, FOREIGN} \cup Connections]
    PROVE  /\ socket' \in {-1} \cup Fds /\ attempts' \in 0 .. MaxConnects
           /\ fdTable' \in [Fds -> {FREE, FOREIGN} \cup Connections]
           /\ \/ app' = "dial" /\ result' = result /\ attempts' \in Connections
              \/ app' = "idle" /\ result' = ERROR_SOCKET_CREATE
<1>1. attempts + 1 \in Connections /\ attempts + 1 \in 0 .. MaxConnects
  BY ClientAssumption DEF Connections
<1>2. CASE app' = "dial"
  BY <1>1, <1>2 DEF OpenSocket, Return
<1>3. CASE app' # "dial"
  BY <1>3 DEF OpenSocket, FailedSocket, Return
<1> QED
  BY <1>2, <1>3

\* connect_to_server keeps the types.
LEMMA TypedConnect ==
    ASSUME TypedInv, InitializeClient \/ ConnectToServer \/ OpenSocket \/ Dial \/ SetConnected
                     \/ StartReceiver \/ OnConnect
    PROVE  TypedInv'
<1> USE ClientAssumption DEF TypedInv, TypeOK, Return
<1>0. /\ {"idle", "done", "socket", "dial", "connected", "spawn", "on_connect"} \subseteq AppLabels
      /\ {SUCCESS, ERROR_INVALID_STATE, ERROR_SOCKET_CONNECT, ERROR_SOCKET_CREATE,
          ERROR_THREAD_CREATE} \subseteq Results
  BY DEF AppLabels, Results
<1>1. CASE InitializeClient
  <2>1. app' \in {"idle", "done"} /\ UNCHANGED <<thVars, kernVars, histVars>>
    BY <1>1 DEF InitializeClient
  <2>2. UNCHANGED <<th, rmsg>> /\ app' \notin {"socket", "dial", "connected", "spawn", "on_connect"}
    BY <2>1 DEF thVars
  <2>3. /\ app' \in AppLabels /\ ctx' \in {"none", "live", "freed"} /\ running' \in BOOLEAN
        /\ UNCHANGED <<cleaning, sending, result, state, socket, receiver, mutex, stats, attempts>>
    BY <1>0, <1>1 DEF InitializeClient
  <2>4. TypeOK'
    BY <2>1, <2>3 DEF thVars, kernVars, histVars
  <2> QED
    BY <2>2, <2>4
<1>2. CASE ConnectToServer
  BY <1>0, <1>2 DEF ConnectToServer, ctxVars, thVars, kernVars, histVars
<1>3. CASE OpenSocket
  <2>1. /\ socket' \in {-1} \cup Fds /\ attempts' \in 0 .. MaxConnects
        /\ fdTable' \in [Fds -> {FREE, FOREIGN} \cup Connections]
        /\ \/ app' = "dial" /\ result' = result /\ attempts' \in Connections
           \/ app' = "idle" /\ result' = ERROR_SOCKET_CREATE
    BY <1>3, OpenSocketTyped DEF OpenSocket
  <2>2. /\ UNCHANGED <<cleaning, sending, ctx, state, running, receiver, mutex, stats>>
        /\ UNCHANGED <<th, rfd, rmsg, conn, inbox, arrived, wire, calls, sends>>
    BY <1>3 DEF OpenSocket, thVars, histVars
  <2>3. app' \in AppLabels /\ result' \in Results
    BY <1>0, <2>1
  <2>4. TypeOK'
    BY <2>1, <2>2, <2>3
  <2>5. app' # "socket" /\ (app' # "idle" => attempts' \in Connections)
    BY <2>1
  <2> QED
    BY <2>2, <2>4, <2>5
<1>4. CASE Dial
  <2>1. /\ fdTable' \in [Fds -> {FREE, FOREIGN} \cup Connections]
        /\ conn' \in [Connections -> ConnStates]
    <3>1. CASE CloseSocket
      BY <3>1, CloseSocketTyped
    <3>2. CASE \E s \in {"up", "connecting"} :
                  conn' = [conn EXCEPT ![attempts] = s] /\ UNCHANGED fdTable
      <4>1. {"up", "connecting"} \subseteq ConnStates
        BY DEF ConnStates
      <4>2. PICK s \in ConnStates : conn' = [conn EXCEPT ![attempts] = s] /\ UNCHANGED fdTable
        BY <3>2, <4>1
      <4> QED
        BY <4>2
    <3> QED
      BY <1>4, <3>1, <3>2 DEF Dial
  <2>2. /\ app' \in {"connected", "idle"} /\ attempts \in Connections
        /\ result' \in {result, ERROR_SOCKET_CONNECT}
    BY <1>4 DEF Dial
  <2> QED
    BY <1>0, <1>4, <2>1, <2>2 DEF Dial, ctxVars, thVars, histVars
<1>5. CASE SetConnected
  BY <1>0, <1>5 DEF SetConnected, thVars, kernVars, histVars
<1>6. CASE StartReceiver
  <2>1. /\ fdTable' \in [Fds -> {FREE, FOREIGN} \cup Connections]
        /\ conn' \in [Connections -> ConnStates]
    BY <1>6, CloseSocketTyped DEF StartReceiver
  <2>2. /\ app' \in {"on_connect", "idle"} /\ attempts \in Connections
        /\ result' \in {result, ERROR_THREAD_CREATE}
        /\ th' \in [Connections -> ThreadLabels]
        /\ receiver' \in {NONE, GARBAGE} \cup Connections
        /\ \A k \in Connections : th'[k] = "dispatch" => th[k] = "dispatch"
    BY <1>6 DEF StartReceiver, ThreadLabels
  <2> QED
    BY <1>0, <1>6, <2>1, <2>2 DEF StartReceiver, histVars
<1>7. CASE OnConnect
  <2>1. [name |-> "on_connect", conn |-> attempts, no |-> 0] \in CallRecords
    BY <1>7 DEF OnConnect, CallRecords
  <2> QED
    BY <1>0, <1>7, <2>1 DEF OnConnect, ctxVars, thVars, kernVars
<1> QED
  BY <1>1, <1>2, <1>3, <1>4, <1>5, <1>6, <1>7

\* What recv takes out of the queue are units, and the first of them begins
\* the chunk.
LEMMA TakeTyped ==
    ASSUME TypeOK, NEW j \in Connections, inbox[j] # <<>>, TakeUnits(j)
    PROVE  inbox' \in [Connections -> Seq(Units)] /\ inbox[j][1] \in Units
BY DEF TypeOK, TakeUnits

\* One more callback in the history.
LEMMA AppendTyped ==
    ASSUME calls \in Seq(CallRecords), NEW r \in CallRecords
    PROVE  Append(calls, r) \in Seq(CallRecords)
OBVIOUS

\* The counters of the statistics only grow.
LEMMA CounterTyped ==
    ASSUME NEW s \in Statistics, NEW n \in Nat,
           NEW f \in {"messages_sent", "orders_sent", "messages_received", "trades_received"}
    PROVE  [s EXCEPT ![f] = @ + n] \in Statistics
BY DEF Statistics

\* What send() leaves in the history and the statistics.
LEMMA SentTyped ==
    ASSUME stats \in Statistics, wire \in Seq(SentRecords), sending \in Kinds,
           NEW whole \in BOOLEAN, Sent(whole)
    PROVE  wire' \in Seq(SentRecords) /\ stats' \in Statistics
<1>1. [kind |-> sending, whole |-> whole] \in SentRecords
  BY DEF SentRecords
<1>2. stats' \in Statistics
  <2> DEFINE n == IF Counts(whole) THEN 1 ELSE 0
             m == IF Counts(whole) /\ sending = "order" THEN 1 ELSE 0
             t == [stats EXCEPT !.messages_sent = @ + n]
  <2>1. n \in Nat /\ m \in Nat
    OBVIOUS
  <2>2. stats' = [t EXCEPT !.orders_sent = @ + m]
    BY DEF Sent, Statistics
  <2> HIDE DEF n, m
  <2>3. t \in Statistics
    BY <2>1, CounterTyped
  <2> HIDE DEF t
  <2> QED
    BY <2>1, <2>2, <2>3, CounterTyped
<1> QED
  BY <1>1, <1>2 DEF Sent

\* So do the sends and receives of the application.
LEMMA TypedCalls ==
    ASSUME TypedInv, Send \/ ReceiveDirectly \/ ReceiveDirectlyFails \/ OpenForeign
                     \/ \E kind \in Kinds : BeginSend(kind)
    PROVE  TypedInv'
<1> USE ClientAssumption DEF TypedInv, TypeOK
<1>0. {"idle", "killed", "sending"} \subseteq AppLabels
  BY DEF AppLabels
<1>1. CASE Send
  <2>1. conn' \in [Connections -> ConnStates] /\ app' \in {"idle", "killed"}
    BY <1>1 DEF Send, TakeError, ConnStates
  <2>2. wire' \in Seq(SentRecords) /\ stats' \in Statistics
    <3>1. ASSUME NEW whole \in BOOLEAN, Sent(whole)
          PROVE  wire' \in Seq(SentRecords) /\ stats' \in Statistics
      BY <3>1, SentTyped
    <3> QED
      BY <1>1, <3>1 DEF Send
  <2> QED
    BY <1>0, <1>1, <2>1, <2>2 DEF Send, ctxVars, thVars, histVars
<1>2. CASE ReceiveDirectly
  <2>1. PICK j \in Connections :
           /\ inbox[j] # <<>> /\ TakeUnits(j)
           /\ calls' \in {calls, Append(calls, [name |-> "receive_data", conn |-> j,
                                                no |-> inbox[j][1].no])}
    BY <1>2 DEF ReceiveDirectly
  <2>2. inbox' \in [Connections -> Seq(Units)] /\ inbox[j][1] \in Units
    BY <2>1, TakeTyped
  <2>3. [name |-> "receive_data", conn |-> j, no |-> inbox[j][1].no] \in CallRecords
    BY <2>2 DEF CallRecords, Units
  <2>4. calls' \in Seq(CallRecords)
    BY <2>1, <2>3, AppendTyped
  <2>5. UNCHANGED <<appVars, ctxVars, stats, attempts, thVars, fdTable, conn, arrived, wire, sends>>
    BY <1>2 DEF ReceiveDirectly
  <2>6. TypeOK'
    BY <2>2, <2>4, <2>5 DEF appVars, ctxVars, thVars
  <2> QED
    BY <2>5, <2>6 DEF appVars, thVars
<1>3. CASE OpenForeign
  BY <1>3 DEF OpenForeign, appVars, ctxVars, thVars, histVars
<1>4. ASSUME NEW kind \in Kinds, BeginSend(kind)
      PROVE  TypedInv'
  BY <1>0, <1>4 DEF BeginSend, ctxVars, thVars, kernVars
<1>5. CASE ReceiveDirectlyFails
  <2>1. conn' \in [Connections -> ConnStates]
    BY <1>5 DEF ReceiveDirectlyFails, TakeError, ConnStates
  <2> QED
    BY <1>5, <2>1 DEF ReceiveDirectlyFails, appVars, ctxVars, thVars, histVars
<1> QED
  BY <1>1, <1>2, <1>3, <1>4, <1>5

\* So do disconnect_from_server and cleanup_client.
LEMMA TypedDisconnect ==
    ASSUME TypedInv, \/ \E cleanup \in BOOLEAN : Disconnect(cleanup)
                     \/ LockForClose \/ CloseConnection \/ ForgetSocket \/ JoinReceiver
                     \/ SetDisconnected \/ FreeContext
    PROVE  TypedInv'
<1> USE DEF TypedInv, TypeOK
<1>0. {"idle", "lock", "close", "forget", "join", "disconnected", "free", "done",
       "killed"} \subseteq AppLabels
  BY DEF AppLabels
<1>1. ASSUME NEW cleanup \in BOOLEAN, Disconnect(cleanup)
      PROVE  TypedInv'
  BY <1>0, <1>1 DEF Disconnect, thVars, kernVars, histVars
<1>2. CASE LockForClose
  BY <1>0, <1>2 DEF LockForClose, thVars, kernVars, histVars
<1>3. CASE CloseConnection
  BY <1>0, <1>3, CloseSocketTyped DEF CloseConnection, ctxVars, thVars, histVars
<1>4. CASE ForgetSocket
  BY <1>0, <1>4 DEF ForgetSocket, thVars, kernVars, histVars
<1>5. CASE JoinReceiver
  BY <1>0, <1>5 DEF JoinReceiver, thVars, kernVars, histVars
<1>6. CASE SetDisconnected
  BY <1>0, <1>6 DEF SetDisconnected, thVars, kernVars, histVars
<1>7. CASE FreeContext
  BY <1>0, <1>7 DEF FreeContext, thVars, kernVars, histVars
<1> QED
  BY <1>1, <1>2, <1>3, <1>4, <1>5, <1>6, <1>7

\* The message a thread has decoded is there when it comes to dispatch it.
LEMMA DecodedTyped ==
    ASSUME TypedInv, NEW k \in Connections, NEW m \in Connections \X Units,
           rmsg' = [rmsg EXCEPT ![k] = m], th' = [th EXCEPT ![k] = "dispatch"]
    PROVE  /\ rmsg' \in [Connections -> {<<>>} \cup (Connections \X Units)]
           /\ \A i \in Connections : th'[i] = "dispatch" => rmsg'[i] \in Connections \X Units
<1>1. /\ rmsg \in [Connections -> {<<>>} \cup (Connections \X Units)]
      /\ th \in [Connections -> ThreadLabels]
      /\ \A i \in Connections : th[i] = "dispatch" => rmsg[i] \in Connections \X Units
  BY DEF TypedInv, TypeOK
<1>2. \A i \in Connections : /\ rmsg'[i] = IF i = k THEN m ELSE rmsg[i]
                             /\ i # k => th'[i] = th[i]
  BY <1>1
<1> QED
  BY <1>1, <1>2

\* A callback is recorded with the message it was given.
LEMMA DispatchTyped ==
    ASSUME calls \in Seq(CallRecords), stats \in Statistics, NEW k \in Connections,
           rmsg[k] \in Connections \X Units, Dispatch(k)
    PROVE  calls' \in Seq(CallRecords) /\ stats' \in Statistics
<1>1. \A name \in {"on_market_data", "on_trade"} :
         [name |-> name, conn |-> rmsg[k][1], no |-> rmsg[k][2].no] \in CallRecords
  BY ClientAssumption DEF CallRecords, Units
<1>2. \/ calls' = calls
      \/ \E name \in {"on_market_data", "on_trade"} :
            calls' = Append(calls, [name |-> name, conn |-> rmsg[k][1], no |-> rmsg[k][2].no])
  BY DEF Dispatch
<1>3. calls' \in Seq(CallRecords)
  BY <1>1, <1>2, AppendTyped
<1>4. [stats EXCEPT !.trades_received = @ + 1] \in Statistics
  BY CounterTyped
<1> QED
  BY <1>3, <1>4 DEF Dispatch

\* So does the receiver thread.
LEMMA TypedReceiver ==
    ASSUME TypedInv, NEW k \in Connections, Receiver(k)
    PROVE  TypedInv'
<1> USE ClientAssumption DEF TypedInv, TypeOK, ThGoto, Runs, appVars, ctxVars
<1>0. {"check", "load", "recv", "dispatch", "lock", "set", "notify", "ended"} \subseteq ThreadLabels
  BY DEF ThreadLabels
<1>1. CASE CheckRunning(k)
  BY <1>0, <1>1 DEF CheckRunning, kernVars, histVars
<1>2. CASE LoadSocket(k)
  BY <1>0, <1>2 DEF LoadSocket, kernVars, histVars
<1>3. CASE ReceiveData(k)
  <2>1. PICK j \in Connections :
           /\ inbox[j] # <<>> /\ TakeUnits(j)
           /\ \/ /\ rmsg' = [rmsg EXCEPT ![k] = <<j, inbox[j][1]>>]
                 /\ stats' = [stats EXCEPT !.messages_received = @ + 1]
                 /\ th' = [th EXCEPT ![k] = "dispatch"]
              \/ th' = [th EXCEPT ![k] = "check"] /\ UNCHANGED <<rmsg, stats>>
    BY <1>3 DEF ReceiveData
  <2>2. inbox' \in [Connections -> Seq(Units)] /\ inbox[j][1] \in Units
    BY <2>1, TakeTyped
  <2>3. stats' \in {stats, [stats EXCEPT !.messages_received = @ + 1]}
        /\ th' \in {[th EXCEPT ![k] = "dispatch"], [th EXCEPT ![k] = "check"]}
    BY <2>1
  <2>4. stats' \in Statistics /\ th' \in [Connections -> ThreadLabels]
    <3>1. stats' \in Statistics
      <4>1. [stats EXCEPT !.messages_received = @ + 1] \in Statistics
        BY CounterTyped
      <4> QED
        BY <2>3, <4>1
    <3>2. th' \in [Connections -> ThreadLabels]
      <4>1. "dispatch" \in ThreadLabels /\ "check" \in ThreadLabels
        BY <1>0
      <4>2. /\ [th EXCEPT ![k] = "dispatch"] \in [Connections -> ThreadLabels]
            /\ [th EXCEPT ![k] = "check"] \in [Connections -> ThreadLabels]
        BY <4>1
      <4> QED
        BY <2>3, <4>2
    <3> QED
      BY <3>1, <3>2
  <2>5. <<j, inbox[j][1]>> \in Connections \X Units
    BY <2>2
  <2>6. /\ rmsg' \in [Connections -> {<<>>} \cup (Connections \X Units)]
        /\ \A i \in Connections : th'[i] = "dispatch" => rmsg'[i] \in Connections \X Units
    <3>1. CASE /\ rmsg' = [rmsg EXCEPT ![k] = <<j, inbox[j][1]>>]
               /\ th' = [th EXCEPT ![k] = "dispatch"]
      BY <2>5, <3>1, DecodedTyped
    <3>2. CASE th' = [th EXCEPT ![k] = "check"] /\ rmsg' = rmsg
      <4>1. \A i \in Connections : th'[i] = "dispatch" => th[i] = "dispatch"
        BY <3>2
      <4> QED
        BY <3>2, <4>1
    <3> QED
      BY <2>1, <3>1, <3>2
  <2>7. UNCHANGED <<appVars, ctxVars, attempts, rfd, fdTable, conn, arrived, wire, histVars>>
    BY <1>3 DEF ReceiveData
  <2>8. TypeOK'
    BY <2>2, <2>4, <2>6, <2>7 DEF histVars
  <2> QED
    BY <2>6, <2>7, <2>8
<1>4. CASE ReceiveNothing(k)
  BY <1>0, <1>4 DEF ReceiveNothing, WouldBlock, kernVars, histVars
<1>5. CASE ReceiveEnds(k)
  <2>1. conn' \in [Connections -> ConnStates]
    BY <1>5 DEF ReceiveEnds, TakeError, ConnStates
  <2>2. /\ th' = [th EXCEPT ![k] = "lock"] /\ "lock" \in ThreadLabels
        /\ UNCHANGED <<appVars, ctxVars, stats, attempts, rfd, rmsg, fdTable, inbox, arrived,
                       wire, calls, sends>>
    BY <1>0, <1>5 DEF ReceiveEnds, histVars
  <2>3. /\ th' \in [Connections -> ThreadLabels]
        /\ \A i \in Connections : th'[i] = "dispatch" => th[i] = "dispatch"
    BY <2>2
  <2> QED
    BY <2>1, <2>2, <2>3
<1>6. CASE Dispatch(k)
  <2>1. rmsg[k] \in Connections \X Units
    BY <1>6 DEF Dispatch
  <2>2. calls' \in Seq(CallRecords) /\ stats' \in Statistics
    BY <1>6, <2>1, DispatchTyped
  <2>3. /\ UNCHANGED <<appVars, ctxVars, attempts, rfd, rmsg, kernVars, sends>>
        /\ th' = [th EXCEPT ![k] = "check"]
    BY <1>6 DEF Dispatch
  <2>4. /\ th' \in [Connections -> ThreadLabels]
        /\ \A i \in Connections : th'[i] = "dispatch" => th[i] = "dispatch"
    BY <1>0, <2>3
  <2>5. TypeOK'
    BY <2>2, <2>3, <2>4 DEF kernVars
  <2> QED
    BY <2>3, <2>4, <2>5
<1>7. CASE LockForEnd(k)
  BY <1>0, <1>7 DEF LockForEnd, kernVars, histVars
<1>8. CASE EndConnected(k)
  BY <1>0, <1>8 DEF EndConnected, kernVars, histVars
<1>9. CASE OnDisconnect(k)
  <2>1. [name |-> "on_disconnect", conn |-> k, no |-> 0] \in CallRecords
    BY DEF CallRecords
  <2> QED
    BY <1>0, <1>9, <2>1 DEF OnDisconnect, kernVars
<1> QED
  BY <1>1, <1>2, <1>3, <1>4, <1>5, <1>6, <1>7, <1>8, <1>9 DEF Receiver

\* What may arrive next on a stream.
LEMMA NextUnitsTyped ==
    ASSUME NEW k \in Connections, arrived[k] \in Seq(Units)
    PROVE  NextUnits(k) \subseteq Units
<1> DEFINE n == Len(arrived[k])
<1>1. n \in Nat
  OBVIOUS
<1>2. CASE n % 2 = 1
  <2>1. n \in 1 .. n
    <3> HIDE DEF n
    <3>1. n # 0
      BY <1>2
    <3> QED
      BY <1>1, <3>1
  <2>2. arrived[k][n] \in Units
    BY <2>1
  <2> QED
    BY <1>2, <2>2 DEF NextUnits, Units
<1>3. CASE n % 2 # 1
  BY <1>1, <1>3 DEF NextUnits, Units
<1> QED
  BY <1>2, <1>3

\* So does the network.
LEMMA TypedNetwork ==
    ASSUME TypedInv, NEW k \in Connections, Network(k)
    PROVE  TypedInv'
<1> USE ClientAssumption DEF TypedInv, TypeOK, appVars, ctxVars, thVars, histVars
<1>0. {"up", "eof", "failed"} \subseteq ConnStates
  BY DEF ConnStates
<1>1. CASE ConnectEnds(k)
  BY <1>0, <1>1 DEF ConnectEnds
<1>2. CASE Arrive(k)
  <2>1. NextUnits(k) \subseteq Units
    BY NextUnitsTyped
  <2> QED
    BY <1>2, <2>1 DEF Arrive
<1>3. CASE PeerGoes(k)
  BY <1>0, <1>3 DEF PeerGoes
<1> QED
  BY <1>1, <1>2, <1>3 DEF Network

\* All types, in any reachable state.
LEMMA TypedHolds == Spec => []TypedInv
<1>1. Init => TypedInv
  <2> SUFFICES ASSUME Init PROVE TypedInv
    OBVIOUS
  <2> USE ClientAssumption DEF Init
  <2>1. /\ app \in AppLabels /\ sending \in Kinds /\ result \in Results
        /\ stats \in Statistics
    BY DEF AppLabels, Kinds, Results, Statistics
  <2>2. /\ th \in [Connections -> ThreadLabels] /\ conn \in [Connections -> ConnStates]
        /\ \A k \in Connections : th[k] # "dispatch"
    BY DEF ThreadLabels, ConnStates
  <2>3. /\ wire \in Seq(SentRecords) /\ calls \in Seq(CallRecords)
        /\ inbox \in [Connections -> Seq(Units)] /\ arrived \in [Connections -> Seq(Units)]
    OBVIOUS
  <2>4. /\ rfd \in [Connections -> {-1} \cup Fds]
        /\ rmsg \in [Connections -> {<<>>} \cup (Connections \X Units)]
        /\ fdTable \in [Fds -> {FREE, FOREIGN} \cup Connections]
    OBVIOUS
  <2>5. attempts \in 0 .. MaxConnects /\ sends \in 0 .. MaxSends
    OBVIOUS
  <2> QED
    BY <2>1, <2>2, <2>3, <2>4, <2>5 DEF TypedInv, TypeOK
<1>2. TypedInv /\ [Next]_vars => TypedInv'
  <2> SUFFICES ASSUME TypedInv, [Next]_vars
               PROVE  TypedInv'
    OBVIOUS
  <2>1. CASE UNCHANGED vars
    BY <2>1 DEF vars, appVars, ctxVars, thVars, kernVars, histVars, TypedInv, TypeOK
  <2> QED
    BY <2>1, TypedConnect, TypedCalls, TypedDisconnect, TypedReceiver, TypedNetwork
    DEF Next, Library, Calls
<1> QED
  BY <1>1, <1>2, PTL DEF Spec

\* Type correctness of the client: every message that a receiver thread
\* dispatches is one it decoded, and every number taken for a socket, a
\* connection or a thread is one.
THEOREM ClientTypeCorrect == Spec => []TypeOK
<1>1. TypedInv => TypeOK
  BY DEF TypedInv
<1> QED
  BY <1>1, TypedHolds, PTL

-----------------------------------------------------------------------------
(* One reader *)

\* The part of TypeOK that the argument needs.
ThreadsTyped == th \in [Connections -> ThreadLabels]

ReaderInv == ThreadsTyped /\ OneAttached

\* A step of a receiver thread other than the one that ends the connection
\* keeps it attached or detached, and touches neither the application's
\* position nor the context fields that OneAttached speaks of.
LEMMA ReceiverStep ==
    ASSUME NEW k \in Connections, Receiver(k), ReaderInv
    PROVE  ReaderInv'
<1> USE DEF ReaderInv, ThreadsTyped, OneAttached, Attached, Reading, ThreadLabels, ThGoto, Runs
<1>1. CASE CheckRunning(k)
  BY <1>1 DEF CheckRunning, appVars, ctxVars
<1>2. CASE LoadSocket(k)
  BY <1>2 DEF LoadSocket, appVars, ctxVars
<1>3. CASE ReceiveData(k)
  <2>1. \/ th' = [th EXCEPT ![k] = "dispatch"]
        \/ th' = [th EXCEPT ![k] = "check"]
    BY <1>3 DEF ReceiveData
  <2> QED
    BY <1>3, <2>1 DEF ReceiveData, appVars, ctxVars
<1>4. CASE ReceiveNothing(k)
  BY <1>4 DEF ReceiveNothing, WouldBlock, appVars, ctxVars
<1>5. CASE ReceiveEnds(k)
  BY <1>5 DEF ReceiveEnds, appVars, ctxVars
<1>6. CASE Dispatch(k)
  BY <1>6 DEF Dispatch, appVars, ctxVars
<1>7. CASE LockForEnd(k)
  BY <1>7 DEF LockForEnd, appVars
<1>8. CASE EndConnected(k)
  \* The state becomes CLIENT_DISCONNECTED, and no thread is attached any more.
  <2>1. \A j \in Connections : Attached(j) => j = k
    BY <1>8 DEF EndConnected
  <2>2. \A j \in Connections : ~Attached(j)'
    BY <1>8, <2>1 DEF EndConnected
  <2>3. app # "spawn"
    BY <1>8 DEF EndConnected
  <2> QED
    BY <1>8, <2>2, <2>3 DEF EndConnected, appVars
<1>9. CASE OnDisconnect(k)
  BY <1>9 DEF OnDisconnect, appVars, ctxVars
<1> QED
  BY <1>1, <1>2, <1>3, <1>4, <1>5, <1>6, <1>7, <1>8, <1>9 DEF Receiver

\* A step of the application thread that starts no receiver.
LEMMA ApplicationStep ==
    ASSUME Library \/ Calls, ReaderInv
    PROVE  ReaderInv'
<1> USE DEF ReaderInv, ThreadsTyped, OneAttached, Attached, Reading, ThreadLabels, Return
<1>1. CASE InitializeClient
  BY <1>1 DEF InitializeClient, thVars
<1>2. CASE OpenSocket
  BY <1>2 DEF OpenSocket, thVars
<1>3. CASE Dial
  BY <1>3 DEF Dial, thVars, ctxVars
<1>4. CASE SetConnected
  BY <1>4 DEF SetConnected, thVars
<1>5. CASE StartReceiver
  \* No thread is attached before, so the new one is the only one after.
  <2>1. \A k \in Connections : ~Attached(k)
    BY <1>5 DEF StartReceiver
  <2> QED
    BY <1>5, <2>1 DEF StartReceiver
<1>6. CASE OnConnect
  BY <1>6 DEF OnConnect, thVars, ctxVars
<1>7. CASE Send
  BY <1>7 DEF Send, thVars, ctxVars
<1>8. CASE LockForClose
  BY <1>8 DEF LockForClose, thVars
<1>9. CASE CloseConnection
  BY <1>9 DEF CloseConnection, thVars, ctxVars
<1>10. CASE ForgetSocket
  BY <1>10 DEF ForgetSocket, thVars
<1>11. CASE JoinReceiver
  \* The attached thread, if there is one, is the one that is joined.
  <2>1. \A k \in Connections : ~Attached(k)
    BY <1>11 DEF JoinReceiver
  <2> QED
    BY <1>11, <2>1 DEF JoinReceiver, thVars
<1>12. CASE SetDisconnected
  BY <1>12 DEF SetDisconnected, thVars
<1>13. CASE FreeContext
  BY <1>13 DEF FreeContext, thVars
<1>14. CASE ConnectToServer
  BY <1>14 DEF ConnectToServer, thVars, ctxVars
<1>15. ASSUME NEW kind \in Kinds, BeginSend(kind)
       PROVE  ReaderInv'
  BY <1>15 DEF BeginSend, thVars, ctxVars
<1>16. ASSUME NEW cleanup \in BOOLEAN, Disconnect(cleanup)
       PROVE  ReaderInv'
  BY <1>16 DEF Disconnect, thVars
<1>17. CASE OpenForeign
  BY <1>17 DEF OpenForeign, thVars, ctxVars, appVars
<1>18. CASE ReceiveDirectly \/ ReceiveDirectlyFails
  BY <1>18 DEF ReceiveDirectly, ReceiveDirectlyFails, thVars, ctxVars, appVars
<1> QED
  BY <1>1, <1>2, <1>3, <1>4, <1>5, <1>6, <1>7, <1>8, <1>9, <1>10, <1>11, <1>12, <1>13,
     <1>14, <1>15, <1>16, <1>17, <1>18 DEF Library, Calls

\* The network changes nothing that ReaderInv speaks of.
LEMMA NetworkStep ==
    ASSUME NEW k \in Connections, Network(k), ReaderInv
    PROVE  ReaderInv'
BY DEF Network, ConnectEnds, Arrive, PeerGoes, ReaderInv, ThreadsTyped, OneAttached,
       Attached, Reading, appVars, ctxVars, thVars

\* At most one receiver is attached, in any reachable state.
LEMMA ReaderHolds == Spec => []ReaderInv
<1>1. Init => ReaderInv
  BY DEF Init, ReaderInv, ThreadsTyped, OneAttached, Attached, Reading, ThreadLabels
<1>2. ReaderInv /\ [Next]_vars => ReaderInv'
  <2> SUFFICES ASSUME ReaderInv, [Next]_vars
               PROVE  ReaderInv'
    OBVIOUS
  <2>1. CASE UNCHANGED vars
    BY <2>1 DEF vars, appVars, ctxVars, thVars, ReaderInv, ThreadsTyped, OneAttached,
                Attached, Reading
  <2> QED
    BY <2>1, ReceiverStep, ApplicationStep, NetworkStep DEF Next
<1> QED
  BY <1>1, <1>2, PTL DEF Spec

\* A receiver thread that has not given up its connection is the one of the
\* last connect_to_server, is the one that would be joined, and keeps the
\* client CLIENT_CONNECTED.
THEOREM OneAttachedAlways == Spec => []OneAttached
<1>1. ReaderInv => OneAttached
  BY DEF ReaderInv
<1> QED
  BY <1>1, ReaderHolds, PTL

\* However often the client reconnects, at most one receiver thread reads
\* from context->socket (client.c, message_receiver_thread): the state that
\* connect_to_server checks is reset only by the thread on its way out or
\* after the join.
THEOREM OneReaderAlways == Spec => []OneReader
<1>1. ReaderInv => OneReader
  BY DEF ReaderInv, OneAttached, Attached, OneReader
<1> QED
  BY <1>1, ReaderHolds, PTL

-----------------------------------------------------------------------------
(* The socket of a successful connect_to_server *)

\* What a receiver thread and the network leave alone.
LEMMA ReceiverFrame ==
    ASSUME NEW k \in Connections, Receiver(k)
    PROVE  /\ UNCHANGED <<appVars, ctx, running, socket, receiver, attempts, fdTable, arrived,
                          wire, sends>>
           /\ conn' = conn \/ \E j \in Connections : TakeError(j)
<1>1. CASE ReceiveEnds(k)
  BY <1>1 DEF ReceiveEnds, ctxVars, histVars
<1> QED
  BY <1>1 DEF Receiver, CheckRunning, LoadSocket, ReceiveData, ReceiveNothing, Dispatch,
     LockForEnd, EndConnected, OnDisconnect, ctxVars, kernVars, histVars

\* The network leaves the process alone.
LEMMA NetworkFrame ==
    ASSUME NEW k \in Connections, Network(k)
    PROVE  UNCHANGED <<appVars, ctxVars, stats, attempts, thVars, fdTable, wire, histVars>>
BY DEF Network, ConnectEnds, Arrive, PeerGoes

\* While connect_to_server is at work context->socket names the connection
\* it works on, and after a success it goes on naming it.
SocketInv ==
    /\ SocketNamesConnection
    /\ result = SUCCESS => attempts > 0
    /\ app \in {"dial", "connected", "spawn", "on_connect"} =>
           socket \in Fds /\ fdTable[socket] = attempts

\* connect_to_server stores the number of the socket it has opened.
LEMMA SocketConnect ==
    ASSUME TypedInv, SocketInv,
           InitializeClient \/ ConnectToServer \/ OpenSocket \/ Dial \/ SetConnected
           \/ StartReceiver \/ OnConnect
    PROVE  SocketInv'
<1> USE ClientAssumption DEF SocketInv, SocketNamesConnection, Return
<1>0. /\ attempts \in Nat /\ socket \in {-1} \cup Fds
      /\ fdTable \in [Fds -> {FREE, FOREIGN} \cup Connections]
  BY DEF TypedInv, TypeOK
<1>1. CASE InitializeClient
  BY <1>1 DEF InitializeClient, kernVars
<1>2. CASE ConnectToServer
  BY <1>2 DEF ConnectToServer, ctxVars, kernVars, SUCCESS, ERROR_INVALID_STATE, ERROR_SOCKET_CONNECT
<1>3. CASE OpenSocket
  BY <1>0, <1>3 DEF OpenSocket, FailedSocket, SUCCESS, ERROR_SOCKET_CREATE
<1>4. CASE Dial
  BY <1>4 DEF Dial, ctxVars, SUCCESS, ERROR_SOCKET_CONNECT
<1>5. CASE SetConnected
  BY <1>5 DEF SetConnected, kernVars
<1>6. CASE StartReceiver
  BY <1>6 DEF StartReceiver, SUCCESS, ERROR_THREAD_CREATE
<1>7. CASE OnConnect
  <2>1. attempts > 0
    BY <1>7 DEF OnConnect, TypedInv, Connections
  <2> QED
    BY <1>7, <2>1 DEF OnConnect, ctxVars, kernVars
<1> QED
  BY <1>1, <1>2, <1>3, <1>4, <1>5, <1>6, <1>7

\* No other call gives the number to another connection.
LEMMA SocketRest ==
    ASSUME TypedInv, SocketInv, Library \/ Calls
    PROVE  SocketInv'
<1> USE ClientAssumption DEF SocketInv, SocketNamesConnection
<1>0. /\ attempts \in Nat /\ socket \in {-1} \cup Fds
      /\ fdTable \in [Fds -> {FREE, FOREIGN} \cup Connections]
  BY DEF TypedInv, TypeOK
<1>1. CASE Send
  BY <1>1 DEF Send, ctxVars
<1>2. CASE LockForClose
  BY <1>2 DEF LockForClose, kernVars
<1>3. CASE CloseConnection
  BY <1>3 DEF CloseConnection
<1>4. CASE ForgetSocket
  BY <1>4 DEF ForgetSocket, kernVars
<1>5. CASE JoinReceiver
  BY <1>5 DEF JoinReceiver, kernVars
<1>6. CASE SetDisconnected
  BY <1>6 DEF SetDisconnected, kernVars
<1>7. CASE FreeContext
  BY <1>7 DEF FreeContext, kernVars
<1>8. ASSUME NEW kind \in Kinds, BeginSend(kind)
      PROVE  SocketInv'
  BY <1>8 DEF BeginSend, ctxVars, kernVars
<1>9. ASSUME NEW cleanup \in BOOLEAN, Disconnect(cleanup)
      PROVE  SocketInv'
  BY <1>9 DEF Disconnect, kernVars
<1>10. CASE OpenForeign
  \* The descriptor that is opened was free, so it is not the client's.
  BY <1>0, <1>10 DEF OpenForeign, LowestFree, FREE, appVars, ctxVars
<1>11. CASE ReceiveDirectly \/ ReceiveDirectlyFails
  BY <1>11 DEF ReceiveDirectly, ReceiveDirectlyFails, appVars, ctxVars
<1> QED
  BY <1>1, <1>2, <1>3, <1>4, <1>5, <1>6, <1>7, <1>8, <1>9, <1>10, <1>11, SocketConnect
  DEF Library, Calls

\* context->socket names the connection in use, in any reachable state.
LEMMA SocketHolds == Spec => []SocketInv
<1>1. Init => SocketInv
  BY DEF Init, SocketInv, SocketNamesConnection, SUCCESS, NOT_CALLED
<1>2. TypedInv /\ SocketInv /\ [Next]_vars => SocketInv'
  <2> SUFFICES ASSUME TypedInv, SocketInv, [Next]_vars
               PROVE  SocketInv'
    OBVIOUS
  <2>1. ASSUME UNCHANGED <<app, result, attempts, socket, fdTable>>
        PROVE  SocketInv'
    BY <2>1 DEF SocketInv, SocketNamesConnection
  <2>2. CASE UNCHANGED vars
    BY <2>1, <2>2 DEF vars, appVars, ctxVars, kernVars
  <2>3. ASSUME NEW k \in Connections, Receiver(k) \/ Network(k)
        PROVE  SocketInv'
    BY <2>1, <2>3, ReceiverFrame, NetworkFrame DEF appVars, ctxVars
  <2> QED
    BY <2>2, <2>3, SocketRest DEF Next
<1> QED
  BY <1>1, <1>2, TypedHolds, PTL DEF Spec

\* From a successful connect_to_server to the close in
\* disconnect_from_server context->socket names that connection, however
\* often the client reconnects and whatever else the process opens.
THEOREM SocketAlwaysNamesConnection == Spec => []SocketNamesConnection
<1>1. SocketInv => SocketNamesConnection
  BY DEF SocketInv
<1> QED
  BY <1>1, SocketHolds, PTL

-----------------------------------------------------------------------------
(* The client stays connected *)

\* The last connect_to_server succeeded, or is about to, nobody has called
\* disconnect_from_server and the connection has not failed.
InService ==
    /\ running /\ attempts > 0 /\ conn[attempts] \in {"up", "connecting"}
    /\ app = "on_connect" \/ (app \in {"idle", "sending"} /\ result = SUCCESS)

\* Then its receiver thread is in its loop, reads from that connection, and
\* the client is CLIENT_CONNECTED.
ConnectedInv ==
    /\ running => app \in {"idle", "socket", "dial", "connected", "spawn", "on_connect",
                           "sending", "killed"}
    /\ app = "boot" => attempts = 0
    /\ InService => /\ Reading(attempts) /\ state = "CLIENT_CONNECTED" /\ socket \in Fds
                    /\ th[attempts] = "recv" => rfd[attempts] = socket

\* While running is set no call of the application ends the service of a
\* connection.
LEMMA ConnectedApplication ==
    ASSUME TypedInv, OneAttached, SocketInv, ConnectedInv, Library \/ Calls
    PROVE  ConnectedInv'
<1> USE DEF ConnectedInv, InService, Reading, Return
<1>0. /\ th \in [Connections -> ThreadLabels] /\ conn \in [Connections -> ConnStates]
      /\ attempts > 0 => attempts \in Connections
  BY DEF TypedInv, TypeOK, Connections
<1>1. CASE InitializeClient
  BY <1>1 DEF InitializeClient, thVars, kernVars
<1>2. CASE OpenSocket
  BY <1>2 DEF OpenSocket, thVars, SUCCESS, ERROR_SOCKET_CREATE
<1>3. CASE Dial
  BY <1>3 DEF Dial, ctxVars, SUCCESS, ERROR_SOCKET_CONNECT
<1>4. CASE SetConnected
  BY <1>4 DEF SetConnected
<1>5. CASE StartReceiver
  BY <1>0, <1>5 DEF StartReceiver, TypedInv, OneAttached, SocketInv, SUCCESS, ERROR_THREAD_CREATE
<1>6. CASE OnConnect
  BY <1>6 DEF OnConnect, thVars, ctxVars, kernVars
<1>7. CASE Send
  <2>1. attempts > 0 /\ conn'[attempts] \in {"up", "connecting"} =>
           conn[attempts] \in {"up", "connecting"}
    BY <1>0, <1>7 DEF Send, TakeError
  <2> QED
    BY <1>7, <2>1 DEF Send, thVars, ctxVars
<1>8. CASE LockForClose
  BY <1>8 DEF LockForClose
<1>9. CASE CloseConnection
  BY <1>9 DEF CloseConnection, ctxVars
<1>10. CASE ForgetSocket
  BY <1>10 DEF ForgetSocket
<1>11. CASE JoinReceiver
  BY <1>11 DEF JoinReceiver
<1>12. CASE SetDisconnected
  BY <1>12 DEF SetDisconnected
<1>13. CASE FreeContext
  BY <1>13 DEF FreeContext
<1>14. CASE ConnectToServer
  BY <1>14 DEF ConnectToServer, thVars, ctxVars, kernVars, SUCCESS, ERROR_INVALID_STATE,
               ERROR_SOCKET_CONNECT
<1>15. ASSUME NEW kind \in Kinds, BeginSend(kind)
       PROVE  ConnectedInv'
  BY <1>15 DEF BeginSend, thVars, ctxVars, kernVars
<1>16. ASSUME NEW cleanup \in BOOLEAN, Disconnect(cleanup)
       PROVE  ConnectedInv'
  BY <1>16 DEF Disconnect
<1>17. CASE OpenForeign
  BY <1>17 DEF OpenForeign, thVars, ctxVars, appVars
<1>18. CASE ReceiveDirectly
  BY <1>18 DEF ReceiveDirectly, thVars, ctxVars, appVars
<1>19. CASE ReceiveDirectlyFails
  <2>1. attempts > 0 /\ conn'[attempts] \in {"up", "connecting"} =>
           conn[attempts] \in {"up", "connecting"}
    BY <1>0, <1>19 DEF ReceiveDirectlyFails, TakeError
  <2> QED
    BY <1>19, <2>1 DEF ReceiveDirectlyFails, thVars, ctxVars, appVars
<1> QED
  BY <1>1, <1>2, <1>3, <1>4, <1>5, <1>6, <1>7, <1>8, <1>9, <1>10, <1>11, <1>12, <1>13,
     <1>14, <1>15, <1>16, <1>17, <1>18, <1>19 DEF Library, Calls

\* A thread that reads from a connection that is up, or still being set up, does
\* not leave its loop; one that ends a connection ends no other.
LEMMA ConnectedReceiver ==
    ASSUME TypedInv, OneAttached, SocketInv, ConnectedInv, NEW k \in Connections, Receiver(k)
    PROVE  ConnectedInv'
<1>1. /\ UNCHANGED <<app, result, running, attempts, socket, fdTable>>
      /\ conn' = conn \/ \E j \in Connections : TakeError(j)
  BY ReceiverFrame DEF appVars
<1>2. InService' => InService
  <2>1. conn \in [Connections -> ConnStates] /\ (attempts > 0 => attempts \in Connections)
    BY DEF TypedInv, TypeOK, Connections
  <2>2. attempts > 0 /\ conn'[attempts] \in {"up", "connecting"} =>
           conn[attempts] \in {"up", "connecting"}
    BY <1>1, <2>1 DEF TakeError
  <2> QED
    BY <1>1, <2>2 DEF InService
<1>3. ASSUME InService
      PROVE  /\ Reading(attempts)' /\ state' = "CLIENT_CONNECTED"
             /\ th'[attempts] = "recv" => rfd'[attempts] = socket
  <2>1. /\ Reading(attempts) /\ state = "CLIENT_CONNECTED" /\ running
        /\ th[attempts] = "recv" => rfd[attempts] = socket
        /\ conn[attempts] \in {"up", "connecting"}
    BY <1>3 DEF ConnectedInv, InService
  <2>2. attempts \in Connections /\ Names(socket, attempts)
    <3>1. attempts \in Connections
      BY <1>3 DEF InService, TypedInv, TypeOK, Connections
    <3>2. socket \in Fds /\ socket >= 0
      <4>1. socket \in Fds
        BY <1>3 DEF ConnectedInv
      <4>2. socket \in Nat
        BY <4>1, ClientAssumption
      <4> QED
        BY <4>1, <4>2
    <3>3. CASE app = "on_connect"
      BY <3>1, <3>3 DEF SocketInv, Names
    <3>4. CASE app # "on_connect"
      BY <1>3, <3>1, <3>2, <3>4 DEF SocketInv, SocketNamesConnection, InService, Names
    <3> QED
      BY <3>3, <3>4
  <2>3. th \in [Connections -> ThreadLabels] /\ rfd \in [Connections -> {-1} \cup Fds]
    BY DEF TypedInv, TypeOK
  <2>4. CASE k = attempts
    <3>1. ~ReceiveEnds(k)
      BY <1>1, <2>1, <2>2, <2>4 DEF ReceiveEnds, Runs
    <3>2. \E l \in {"check", "load", "recv", "dispatch"} :
             /\ th' = [th EXCEPT ![k] = l]
             /\ l = "recv" => rfd' = [rfd EXCEPT ![k] = socket]
             /\ state' = state
      BY <2>1, <2>4, <3>1 DEF Receiver, CheckRunning, LoadSocket, ReceiveData, ReceiveNothing,
         Dispatch, LockForEnd, EndConnected, OnDisconnect, Runs, ThGoto, WouldBlock, Reading,
         ctxVars
    <3> QED
      BY <1>1, <2>1, <2>2, <2>3, <2>4, <3>2 DEF Reading
  <2>5. CASE k # attempts
    <3>1. th[k] # "set"
      BY <2>5 DEF OneAttached, Attached
    <3>2. /\ state' = state
          /\ th'[attempts] = th[attempts] /\ rfd'[attempts] = rfd[attempts]
      BY <2>2, <2>3, <2>5, <3>1 DEF Receiver, CheckRunning, LoadSocket, ReceiveData,
         ReceiveNothing, ReceiveEnds, Dispatch, LockForEnd, EndConnected, OnDisconnect, Runs,
         ThGoto, WouldBlock, ctxVars
    <3> QED
      BY <1>1, <2>1, <3>2 DEF Reading
  <2> QED
    BY <2>4, <2>5
<1> QED
  BY <1>1, <1>2, <1>3 DEF ConnectedInv

\* The network takes a connection out of service, never back into it.
LEMMA ConnectedNetwork ==
    ASSUME TypedInv, ConnectedInv, NEW k \in Connections, Network(k)
    PROVE  ConnectedInv'
<1>1. UNCHANGED <<app, result, running, attempts, socket, state, th, rfd>>
  BY NetworkFrame DEF appVars, ctxVars, thVars
<1>2. conn \in [Connections -> ConnStates] /\ (attempts > 0 => attempts \in Connections)
  BY DEF TypedInv, TypeOK, Connections
<1>3. attempts > 0 /\ conn'[attempts] \in {"up", "connecting"} =>
         conn[attempts] \in {"up", "connecting"}
  BY <1>2 DEF Network, ConnectEnds, Arrive, PeerGoes
<1>4. InService' => InService
  BY <1>1, <1>3 DEF InService
<1> QED
  BY <1>1, <1>4 DEF ConnectedInv, Reading

\* A connection in service is CONNECTED, in any reachable state.
LEMMA ConnectedHolds == Spec => []ConnectedInv
<1>1. Init => ConnectedInv
  BY DEF Init, ConnectedInv, InService
<1>2. TypedInv /\ OneAttached /\ SocketInv /\ ConnectedInv /\ [Next]_vars => ConnectedInv'
  <2> SUFFICES ASSUME TypedInv, OneAttached, SocketInv, ConnectedInv, [Next]_vars
               PROVE  ConnectedInv'
    OBVIOUS
  <2>1. CASE UNCHANGED vars
    BY <2>1 DEF vars, appVars, ctxVars, thVars, kernVars, ConnectedInv, InService, Reading
  <2> QED
    BY <2>1, ConnectedApplication, ConnectedReceiver, ConnectedNetwork DEF Next
<1> QED
  BY <1>1, <1>2, TypedHolds, OneAttachedAlways, SocketHolds, PTL DEF Spec

\* While the connection of a successful connect_to_server is up and nobody
\* has called disconnect_from_server, the client is CLIENT_CONNECTED, also
\* after any number of earlier connections whose threads may still be on
\* their way out.
THEOREM AlwaysStaysConnected == Spec => []StaysConnected
<1>1. TypedInv /\ SocketInv /\ ConnectedInv => StaysConnected
  BY DEF ConnectedInv, InService, StaysConnected, SocketInv
<1> QED
  BY <1>1, TypedHolds, SocketHolds, ConnectedHolds, PTL

-----------------------------------------------------------------------------
(* A context that is used for one connection *)

Live(k) == th[k] \notin {"none", "ended"}

NoThread == \A k \in Connections : th[k] = "none"

\* The thread that is running is the one cleanup_client joins, and the
\* context outlives it.  With one connection there is no thread before it.
OnlyThreadInv ==
    /\ ThreadsTyped
    /\ attempts \in Nat
    /\ attempts = 0 => NoThread
    /\ app \in {"socket", "dial", "connected", "spawn"} => NoThread
    /\ \A k \in Connections : Live(k) =>
          /\ k = receiver
          /\ app \in {"idle", "on_connect", "sending", "lock", "close", "forget",
                     "join", "killed"}
    /\ ctx = "freed" => app = "done"

\* A receiver thread moves on or ends; its handle stays where it is.
LEMMA OnlyThreadReceiver ==
    ASSUME NEW k \in Connections, Receiver(k), OnlyThreadInv
    PROVE  OnlyThreadInv'
<1>1. /\ th[k] \notin {"none", "ended"}
      /\ \E l \in ThreadLabels \ {"none"} : th' = [th EXCEPT ![k] = l]
      /\ UNCHANGED <<app, attempts, receiver, ctx>>
  BY DEF Receiver, CheckRunning, LoadSocket, ReceiveData, ReceiveNothing, ReceiveEnds,
         Dispatch, LockForEnd, EndConnected, OnDisconnect, ThGoto, WouldBlock, Runs,
         ThreadLabels, appVars, ctxVars
<1>2. attempts # 0 /\ app \notin {"socket", "dial", "connected", "spawn"}
  BY <1>1 DEF OnlyThreadInv, NoThread
<1> QED
  BY <1>1, <1>2 DEF OnlyThreadInv, NoThread, Live, ThreadsTyped

\* The application starts a thread only as its first, and gets past the join
\* only when the thread has ended.
LEMMA OnlyThreadApplication ==
    ASSUME MaxConnects <= 1, Library \/ Calls, OnlyThreadInv
    PROVE  OnlyThreadInv'
<1> USE ClientAssumption
        DEF OnlyThreadInv, NoThread, Live, ThreadsTyped, ThreadLabels, Return
<1>1. CASE InitializeClient
  BY <1>1 DEF InitializeClient, thVars
<1>2. CASE OpenSocket
  BY <1>2 DEF OpenSocket, thVars
<1>3. CASE Dial
  BY <1>3 DEF Dial, thVars, ctxVars
<1>4. CASE SetConnected
  BY <1>4 DEF SetConnected, thVars
<1>5. CASE StartReceiver
  <2>1. NoThread
    BY <1>5 DEF StartReceiver
  <2>2. \A k \in Connections : th'[k] # "none" => k = attempts /\ k = receiver'
    BY <1>5, <2>1 DEF StartReceiver
  <2>3. ThreadsTyped' /\ (attempts' = 0 => NoThread')
    BY <1>5, <2>1 DEF StartReceiver, Connections
  <2>4. app' = "on_connect" \/ (app' = "idle" /\ th' = th)
    BY <1>5 DEF StartReceiver
  <2> QED
    BY <1>5, <2>1, <2>2, <2>3, <2>4 DEF StartReceiver
<1>6. CASE OnConnect
  BY <1>6 DEF OnConnect, thVars, ctxVars
<1>7. CASE Send
  BY <1>7 DEF Send, thVars, ctxVars
<1>8. CASE LockForClose
  BY <1>8 DEF LockForClose, thVars
<1>9. CASE CloseConnection
  BY <1>9 DEF CloseConnection, thVars, ctxVars
<1>10. CASE ForgetSocket
  BY <1>10 DEF ForgetSocket, thVars
<1>11. CASE JoinReceiver
  <2>1. \A k \in Connections : ~Live(k)
    BY <1>11 DEF JoinReceiver
  <2> QED
    BY <1>11, <2>1 DEF JoinReceiver, thVars
<1>12. CASE SetDisconnected
  BY <1>12 DEF SetDisconnected, thVars
<1>13. CASE FreeContext
  BY <1>13 DEF FreeContext, thVars
<1>14. CASE ConnectToServer
  <2>1. attempts < MaxConnects => NoThread
    BY <1>14
  <2> QED
    BY <1>14, <2>1 DEF ConnectToServer, thVars, ctxVars
<1>15. ASSUME NEW kind \in Kinds, BeginSend(kind)
       PROVE  OnlyThreadInv'
  BY <1>15 DEF BeginSend, thVars, ctxVars
<1>16. ASSUME NEW cleanup \in BOOLEAN, Disconnect(cleanup)
       PROVE  OnlyThreadInv'
  BY <1>16 DEF Disconnect, thVars
<1>17. CASE OpenForeign
  BY <1>17 DEF OpenForeign, thVars, ctxVars, appVars
<1>18. CASE ReceiveDirectly \/ ReceiveDirectlyFails
  BY <1>18 DEF ReceiveDirectly, ReceiveDirectlyFails, thVars, ctxVars, appVars
<1> QED
  BY <1>1, <1>2, <1>3, <1>4, <1>5, <1>6, <1>7, <1>8, <1>9, <1>10, <1>11, <1>12, <1>13,
     <1>14, <1>15, <1>16, <1>17, <1>18 DEF Library, Calls

\* With one connection there is one receiver thread, and it is joined
\* before the context is freed.
LEMMA OnlyThreadHolds ==
    ASSUME MaxConnects <= 1
    PROVE  Spec => []OnlyThreadInv
<1>1. Init => OnlyThreadInv
  BY DEF Init, OnlyThreadInv, NoThread, Live, ThreadsTyped, ThreadLabels
<1>2. OnlyThreadInv /\ [Next]_vars => OnlyThreadInv'
  <2> SUFFICES ASSUME OnlyThreadInv, [Next]_vars
               PROVE  OnlyThreadInv'
    OBVIOUS
  <2>1. CASE UNCHANGED vars
    BY <2>1 DEF vars, appVars, ctxVars, thVars, OnlyThreadInv, NoThread, Live, ThreadsTyped
  <2>2. ASSUME NEW k \in Connections, Network(k)
        PROVE  OnlyThreadInv'
    BY <2>2 DEF Network, ConnectEnds, Arrive, PeerGoes, appVars, ctxVars, thVars,
                OnlyThreadInv, NoThread, Live, ThreadsTyped
  <2> QED
    BY <2>1, <2>2, OnlyThreadReceiver, OnlyThreadApplication DEF Next
<1> QED
  BY <1>1, <1>2, PTL DEF Spec

\* A context used for one connection, as src/client/main.c uses it, is freed
\* by cleanup_client only after the receiver thread has made its last access
\* to it.
THEOREM SingleUseFreedAfterThreads ==
    ASSUME MaxConnects <= 1
    PROVE  Spec => []FreedAfterThreads
<1>1. OnlyThreadInv => FreedAfterThreads
  BY DEF OnlyThreadInv, Live, FreedAfterThreads
<1> QED
  BY <1>1, OnlyThreadHolds, PTL

-----------------------------------------------------------------------------
(* The descriptor of a context that is used for one connection *)

\* An open socket of the client is the one context->socket names, and the
\* application has not come past the close in disconnect_from_server.
OpenedInv ==
    /\ \A fd \in Fds : fdTable[fd] \in Connections =>
          /\ socket = fd /\ attempts > 0
          /\ app \in {"idle", "dial", "connected", "spawn", "on_connect", "sending", "lock",
                     "close", "killed"}
    /\ ctx = "freed" => app = "done"

\* close(context->socket) leaves no connection open when only that one was.
LEMMA CloseTheOnlyOne ==
    ASSUME TypedInv, OpenedInv, CloseSocket
    PROVE  \A fd \in Fds : fdTable'[fd] \notin Connections
BY ClientAssumption DEF TypedInv, TypeOK, OpenedInv, CloseSocket, Connections, FREE

\* With one connection only context->socket names a connection that is
\* open, until it is closed.
LEMMA OpenedApplication ==
    ASSUME MaxConnects <= 1, TypedInv, OpenedInv, Library \/ Calls
    PROVE  OpenedInv'
<1> USE ClientAssumption DEF Return
<1>0. /\ attempts \in Nat /\ socket \in {-1} \cup Fds
      /\ fdTable \in [Fds -> {FREE, FOREIGN} \cup Connections]
      /\ FREE \notin Connections /\ FOREIGN \notin Connections
      /\ attempts < MaxConnects => attempts = 0
      /\ app = "socket" => attempts < MaxConnects
  BY DEF TypedInv, TypeOK, FREE, FOREIGN, Connections
<1>1. CASE InitializeClient
  BY <1>1 DEF OpenedInv, InitializeClient, kernVars
<1>2. CASE OpenSocket
  <2>1. \A fd \in Fds : fdTable[fd] \notin Connections
    BY <1>0, <1>2 DEF OpenedInv, OpenSocket
  <2> QED
    BY <1>0, <1>2, <2>1 DEF OpenedInv, OpenSocket
<1>3. CASE Dial
  BY <1>0, <1>3, CloseTheOnlyOne DEF OpenedInv, Dial, ctxVars
<1>4. CASE SetConnected
  BY <1>4 DEF OpenedInv, SetConnected, kernVars
<1>5. CASE StartReceiver
  BY <1>0, <1>5, CloseTheOnlyOne DEF OpenedInv, StartReceiver
<1>6. CASE OnConnect
  BY <1>6 DEF OpenedInv, OnConnect, ctxVars, kernVars
<1>7. CASE Send
  BY <1>7 DEF OpenedInv, Send, ctxVars
<1>8. CASE LockForClose
  BY <1>0, <1>8 DEF OpenedInv, LockForClose, HasSocket, kernVars
<1>9. CASE CloseConnection
  BY <1>9, CloseTheOnlyOne DEF OpenedInv, CloseConnection, ctxVars
<1>10. CASE ForgetSocket
  BY <1>10 DEF OpenedInv, ForgetSocket, kernVars
<1>11. CASE JoinReceiver
  BY <1>11 DEF OpenedInv, JoinReceiver, kernVars
<1>12. CASE SetDisconnected
  BY <1>12 DEF OpenedInv, SetDisconnected, kernVars
<1>13. CASE FreeContext
  BY <1>13 DEF OpenedInv, FreeContext, kernVars
<1>14. CASE ConnectToServer
  <2>1. attempts < MaxConnects => \A fd \in Fds : fdTable[fd] \notin Connections
    BY <1>0 DEF OpenedInv
  <2> QED
    BY <1>14, <2>1 DEF OpenedInv, ConnectToServer, ctxVars, kernVars
<1>15. ASSUME NEW kind \in Kinds, BeginSend(kind)
       PROVE  OpenedInv'
  BY <1>15 DEF OpenedInv, BeginSend, ctxVars, kernVars
<1>16. ASSUME NEW cleanup \in BOOLEAN, Disconnect(cleanup)
       PROVE  OpenedInv'
  BY <1>16 DEF OpenedInv, Disconnect, kernVars
<1>17. CASE OpenForeign
  BY <1>0, <1>17 DEF OpenedInv, OpenForeign, appVars, ctxVars
<1>18. CASE ReceiveDirectly
  BY <1>18 DEF OpenedInv, ReceiveDirectly, appVars, ctxVars
<1>19. CASE ReceiveDirectlyFails
  BY <1>19 DEF OpenedInv, ReceiveDirectlyFails, appVars, ctxVars
<1> QED
  BY <1>1, <1>2, <1>3, <1>4, <1>5, <1>6, <1>7, <1>8, <1>9, <1>10, <1>11, <1>12, <1>13,
     <1>14, <1>15, <1>16, <1>17, <1>18, <1>19 DEF Library, Calls

\* A context used for one connection leaves no socket of its own open when
\* cleanup_client has freed it, whichever way the connection ended: refused,
\* without a thread, closed by the peer or by the application.
THEOREM SingleUseNothingLeftOpen ==
    ASSUME MaxConnects <= 1
    PROVE  Spec => []NothingLeftOpen
<1>1. Init => OpenedInv
  BY ClientAssumption DEF Init, OpenedInv, FREE, Connections
<1>2. TypedInv /\ OpenedInv /\ [Next]_vars => OpenedInv'
  <2> SUFFICES ASSUME TypedInv, OpenedInv, [Next]_vars
               PROVE  OpenedInv'
    OBVIOUS
  <2>1. CASE UNCHANGED vars
    BY <2>1 DEF vars, appVars, ctxVars, kernVars, OpenedInv
  <2>2. ASSUME NEW k \in Connections, Receiver(k)
        PROVE  OpenedInv'
    BY <2>2, ReceiverFrame DEF OpenedInv, appVars
  <2>3. ASSUME NEW k \in Connections, Network(k)
        PROVE  OpenedInv'
    BY <2>3, NetworkFrame DEF OpenedInv, appVars, ctxVars
  <2> QED
    BY <2>1, <2>2, <2>3, OpenedApplication DEF Next
<1>3. TypedInv /\ OpenedInv => NothingLeftOpen
  BY DEF TypedInv, TypeOK, OpenedInv, NothingLeftOpen
<1> QED
  BY <1>1, <1>2, <1>3, TypedHolds, PTL DEF Spec
=============================================================================
