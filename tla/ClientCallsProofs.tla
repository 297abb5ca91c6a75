-------------------------- MODULE ClientCallsProofs --------------------------
(* Proofs about what Client does to the outside: the orders it counts, the  *)
(* callbacks it makes and the messages it delivers.                         *)
EXTENDS ClientProofs, SequenceCounts

-----------------------------------------------------------------------------
(* send_order *)

WholeOrder == [kind |-> "order", whole |-> TRUE]

\* orders_sent counts the orders that send() took whole, and only those,
\* however many sends of any kind there are and however they are cut.
THEOREM OrdersAlwaysCounted == Spec => []OrdersCounted
<1>1. OrdersCounted <=> stats.orders_sent = Cardinality(Hits(wire, {WholeOrder}))
  BY DEF OrdersCounted, Hits, WholeOrder
<1>2. Init => OrdersCounted
  <2>1. Init => Hits(wire, {WholeOrder}) = {}
    BY DEF Init, Hits
  <2>2. Init => stats.orders_sent = 0
    BY DEF Init
  <2> QED
    BY <1>1, <2>1, <2>2, FS_EmptySet
<1>3. TypedInv /\ OrdersCounted /\ [Next]_vars => OrdersCounted'
  <2> SUFFICES ASSUME TypedInv, OrdersCounted, [Next]_vars
               PROVE  OrdersCounted'
    OBVIOUS
  <2>0. stats \in Statistics /\ wire \in Seq(SentRecords) /\ sending \in Kinds
    BY DEF TypedInv, TypeOK
  <2>1. ASSUME NEW whole \in BOOLEAN, Sent(whole)
        PROVE  OrdersCounted'
    <3> DEFINE r == [kind |-> sending, whole |-> whole]
    <3>1. r \in SentRecords /\ wire' = Append(wire, r)
      BY <2>0, <2>1 DEF Sent, SentRecords
    <3>2. stats'.orders_sent = stats.orders_sent + (IF r \in {WholeOrder} THEN 1 ELSE 0)
      BY <2>0, <2>1 DEF Sent, Counts, Statistics, WholeOrder
    <3>3. stats'.orders_sent = Cardinality(Hits(wire', {WholeOrder}))
      <4> HIDE DEF r
      <4> QED
        BY <1>1, <2>0, <3>1, <3>2, HitsAppend
    <3> QED
      BY <3>3 DEF OrdersCounted, Hits, WholeOrder
  <2>2. ASSUME UNCHANGED wire, stats'.orders_sent = stats.orders_sent
        PROVE  OrdersCounted'
    BY <2>2 DEF OrdersCounted
  <2>3. CASE Send
    BY <2>1, <2>2, <2>3 DEF Send
  <2>4. CASE Library /\ ~Send
    BY <2>2, <2>4 DEF Library, InitializeClient, OpenSocket, Dial, SetConnected, StartReceiver,
       OnConnect, LockForClose, CloseConnection, ForgetSocket, JoinReceiver, SetDisconnected,
       FreeContext, kernVars
  <2>5. CASE Calls
    BY <2>2, <2>5 DEF Calls, ConnectToServer, BeginSend, ReceiveDirectly, ReceiveDirectlyFails,
       Disconnect, OpenForeign, kernVars
  <2>6. ASSUME NEW k \in Connections, Receiver(k)
        PROVE  OrdersCounted'
    <3>1. UNCHANGED wire
      BY <2>6, ReceiverFrame
    <3>2. stats'.orders_sent = stats.orders_sent
      BY <2>0, <2>6 DEF Receiver, CheckRunning, LoadSocket, ReceiveData, ReceiveNothing,
         ReceiveEnds, Dispatch, LockForEnd, EndConnected, OnDisconnect, Statistics
    <3> QED
      BY <2>2, <3>1, <3>2
  <2>7. ASSUME NEW k \in Connections, Network(k)
        PROVE  OrdersCounted'
    BY <2>2, <2>7, NetworkFrame
  <2>8. CASE UNCHANGED vars
    BY <2>2, <2>8 DEF vars, kernVars
  <2> QED
    BY <2>3, <2>4, <2>5, <2>6, <2>7, <2>8 DEF Next
<1> QED
  BY <1>2, <1>3, TypedHolds, PTL DEF Spec

-----------------------------------------------------------------------------
(* on_connect and on_disconnect *)

Called(name) == {c \in CallRecords : c.name = name}

\* The calls of one callback can be counted.
LEMMA NamedFinite ==
    ASSUME calls \in Seq(CallRecords), NEW name
    PROVE  Named(name) = Hits(calls, Called(name)) /\ Cardinality(Named(name)) \in Nat
<1>1. Named(name) = Hits(calls, Called(name))
  BY DEF Named, Hits, Called
<1> QED
  BY <1>1, HitsFinite

\* A callback counts for its own name.
LEMMA NamedAppend ==
    ASSUME calls \in Seq(CallRecords), NEW r \in CallRecords, calls' = Append(calls, r),
           NEW name
    PROVE  Cardinality(Named(name)') =
              Cardinality(Named(name)) + (IF r.name = name THEN 1 ELSE 0)
<1>1. Named(name) = Hits(calls, Called(name))
  BY NamedFinite
<1>2. calls' \in Seq(CallRecords)
  OBVIOUS
<1>3. Named(name)' = Hits(calls', Called(name))
  BY <1>2 DEF Named, Hits, Called
<1>4. r \in Called(name) <=> r.name = name
  BY DEF Called
<1> QED
  BY <1>1, <1>3, <1>4, HitsAppend

Started == {k \in Connections : th[k] # "none"}
Ended == {k \in Connections : th[k] = "ended"}

\* Every thread that was started has been or is about to be announced with
\* on_connect, and every thread that has ended was announced with
\* on_disconnect.  A connection that has no thread yet gets a fresh one.
CountingInv ==
    /\ Cardinality(Named("on_connect")) + (IF app = "on_connect" THEN 1 ELSE 0) =
          Cardinality(Started)
    /\ Cardinality(Named("on_disconnect")) = Cardinality(Ended)
    /\ \A k \in Connections :
          k > attempts \/ (k = attempts /\ app \in {"dial", "connected", "spawn"}) =>
             th[k] = "none"
    /\ ctx = "freed" => app = "done"

\* So can the receiver threads.
LEMMA FiniteThreads ==
    /\ IsFiniteSet(Started) /\ Cardinality(Started) \in Nat
    /\ IsFiniteSet(Ended) /\ Cardinality(Ended) \in Nat
<1>1. IsFiniteSet(Connections)
  BY ClientAssumption, FS_Interval DEF Connections
<1>2. Started \in SUBSET Connections /\ Ended \in SUBSET Connections
  BY DEF Started, Ended
<1> QED
  BY <1>1, <1>2, FS_Subset, FS_CardinalityType

\* Only a callback of one of the two names, a thread that starts and a
\* thread that ends count.
LEMMA CountingFrame ==
    ASSUME CountingInv, UNCHANGED <<Started, Ended, attempts>>,
           Cardinality(Named("on_connect")') = Cardinality(Named("on_connect")),
           Cardinality(Named("on_disconnect")') = Cardinality(Named("on_disconnect")),
           app' = "on_connect" <=> app = "on_connect",
           app' \in {"dial", "connected", "spawn"} => app \in {"dial", "connected", "spawn"},
           ctx' = "freed" => app' = "done"
    PROVE  CountingInv'
<1>1. \A k \in Connections : th[k] = "none" => th'[k] = "none"
  BY DEF Started
<1> QED
  BY <1>1 DEF CountingInv

\* The calls the application thread makes: on_connect after the receiver
\* was started, on_disconnect after it was joined.
LEMMA CountingApplication ==
    ASSUME TypedInv, CountingInv, Library \/ Calls
    PROVE  CountingInv'
<1>0. /\ th \in [Connections -> ThreadLabels] /\ calls \in Seq(CallRecords)
      /\ attempts \in Nat /\ MaxConnects \in Nat
      /\ app \in {"spawn", "on_connect"} => attempts \in Connections
      /\ app = "done" \/ ctx # "freed"
      /\ \A name : Cardinality(Named(name)) \in Nat
  BY ClientAssumption, NamedFinite DEF TypedInv, TypeOK, CountingInv
<1>1. ASSUME UNCHANGED <<th, calls, attempts>>, app \notin {"spawn", "on_connect"},
             \/ app' \notin {"on_connect", "dial", "connected", "spawn"}
             \/ app \in {"dial", "connected"} /\ app' \in {"connected", "spawn"},
             ctx' \in {ctx, "live"} \/ app' = "done", app # "done"
      PROVE  CountingInv'
  BY <1>0, <1>1, CountingFrame DEF Named, Started, Ended
<1>2. CASE OpenSocket
  <2>1. /\ UNCHANGED <<th, calls, ctx>> /\ app = "socket"
        /\ \/ app' = "dial" /\ attempts' = attempts + 1
           \/ app' = "idle" /\ attempts' = attempts
    <3>1. UNCHANGED <<th, calls, ctx>> /\ app = "socket"
      BY <1>2 DEF OpenSocket, thVars, histVars
    <3>2. (app' = "dial" /\ attempts' = attempts + 1) \/ (app' = "idle" /\ attempts' = attempts)
      BY <1>2 DEF OpenSocket, Return
    <3> QED
      BY <3>1, <3>2
  <2>2. UNCHANGED <<Started, Ended, Named("on_connect"), Named("on_disconnect")>>
    BY <2>1 DEF Started, Ended, Named
  <2>3. \A k \in Connections :
          k > attempts' \/ (k = attempts' /\ app' \in {"dial", "connected", "spawn"}) =>
             th'[k] = "none"
    BY <1>0, <2>1 DEF CountingInv, Connections
  <2> QED
    BY <1>0, <2>1, <2>2, <2>3 DEF CountingInv
<1>3. CASE StartReceiver
  <2>1. CASE th' = th
    BY <1>0, <1>3, <2>1 DEF StartReceiver, Return, CountingInv, Named, Started, Ended, histVars
  <2>2. CASE th' # th
    <3>1. /\ app = "spawn" /\ app' = "on_connect" /\ UNCHANGED <<calls, attempts, ctx>>
          /\ th' = [th EXCEPT ![attempts] = "check"]
      BY <1>3, <2>2 DEF StartReceiver, histVars
    <3>2. Started' = Started \cup {attempts} /\ attempts \notin Started /\ Ended' = Ended
      BY <1>0, <3>1 DEF CountingInv, Started, Ended
    <3>3. Cardinality(Started') = Cardinality(Started) + 1
      BY <3>2, FiniteThreads, FS_AddElement
    <3>4. UNCHANGED <<Named("on_connect"), Named("on_disconnect")>>
      BY <3>1 DEF Named
    <3>5. \A k \in Connections : k > attempts => th'[k] = "none"
      BY <1>0, <3>1 DEF CountingInv
    <3>6. CountingInv!1' /\ CountingInv!2'
      BY <1>0, <3>1, <3>2, <3>3, <3>4, FiniteThreads DEF CountingInv
    <3> QED
      BY <1>0, <3>1, <3>5, <3>6 DEF CountingInv
  <2> QED
    BY <2>1, <2>2
<1>4. CASE OnConnect
  <2> DEFINE r == [name |-> "on_connect", conn |-> attempts, no |-> 0]
  <2>1. /\ app = "on_connect" /\ app' = "idle" /\ calls' = Append(calls, r)
        /\ UNCHANGED <<th, attempts, ctx>>
    BY <1>4 DEF OnConnect, Return, thVars, ctxVars
  <2>2. r \in CallRecords /\ r.name = "on_connect"
    BY <1>0, <2>1, ClientAssumption DEF CallRecords
  <2> HIDE DEF r
  <2>3. /\ Cardinality(Named("on_connect")') = Cardinality(Named("on_connect")) + 1
        /\ Cardinality(Named("on_disconnect")') = Cardinality(Named("on_disconnect"))
    BY <1>0, <2>1, <2>2, NamedAppend
  <2>4. UNCHANGED <<Started, Ended>>
    BY <2>1 DEF Started, Ended
  <2> QED
    BY <1>0, <2>1, <2>3, <2>4 DEF CountingInv
<1>5. CASE ReceiveDirectly
  <2>1. PICK j \in Connections :
           calls' = IF Decodes(inbox[j])
                    THEN Append(calls, [name |-> "receive_data", conn |-> j, no |-> inbox[j][1].no])
                    ELSE calls
    BY <1>5 DEF ReceiveDirectly
  <2>2. /\ Cardinality(Named("on_connect")') = Cardinality(Named("on_connect"))
        /\ Cardinality(Named("on_disconnect")') = Cardinality(Named("on_disconnect"))
    <3>1. CASE Decodes(inbox[j])
      <4> DEFINE r == [name |-> "receive_data", conn |-> j, no |-> inbox[j][1].no]
      <4>1. calls' = Append(calls, r) /\ r \in CallRecords /\ r.name = "receive_data"
        <5>1. inbox[j] \in Seq(Units) /\ Len(inbox[j]) >= 2
          BY <3>1 DEF Decodes, TypedInv, TypeOK
        <5>2. inbox[j][1] \in Units
          BY <5>1
        <5>3. inbox[j][1].no \in 0 .. MaxMessages
          BY <5>2, ClientAssumption DEF Units
        <5> QED
          BY <2>1, <3>1, <5>3 DEF CallRecords
      <4> HIDE DEF r
      <4> QED
        BY <1>0, <4>1, NamedAppend
    <3>2. CASE ~Decodes(inbox[j])
      BY <2>1, <3>2 DEF Named
    <3> QED
      BY <3>1, <3>2
  <2>3. UNCHANGED <<th, attempts, app, ctx, Started, Ended>>
    BY <1>5 DEF ReceiveDirectly, thVars, appVars, ctxVars, Started, Ended
  <2> QED
    BY <1>0, <2>2, <2>3, CountingFrame
<1>6. CASE InitializeClient \/ Dial \/ SetConnected \/ Send
  <2>1. CASE InitializeClient
    BY <1>1, <2>1 DEF InitializeClient, thVars, histVars
  <2>2. CASE Dial
    BY <1>1, <2>2 DEF Dial, Return, thVars, ctxVars, histVars
  <2>3. CASE SetConnected
    BY <1>1, <2>3 DEF SetConnected, thVars, histVars
  <2>4. CASE Send
    BY <1>1, <2>4 DEF Send, thVars, ctxVars, histVars
  <2> QED
    BY <1>6, <2>1, <2>2, <2>3, <2>4
<1>8. CASE LockForClose \/ CloseConnection \/ ForgetSocket \/ JoinReceiver
           \/ SetDisconnected \/ FreeContext
  BY <1>1, <1>8 DEF LockForClose, CloseConnection, ForgetSocket, JoinReceiver, SetDisconnected,
     FreeContext, thVars, ctxVars, histVars
<1>7. CASE Calls /\ ~ReceiveDirectly
  BY <1>1, <1>7 DEF Calls, ConnectToServer, BeginSend, ReceiveDirectlyFails, Disconnect,
     OpenForeign, Return, appVars, thVars, ctxVars, histVars
<1> QED
  BY <1>2, <1>3, <1>4, <1>5, <1>6, <1>7, <1>8 DEF Library, Calls

\* A receiver makes a callback with data, or ends with on_disconnect.
LEMMA CountingReceiver ==
    ASSUME TypedInv, CountingInv, NEW k \in Connections, Receiver(k)
    PROVE  CountingInv'
<1>0. /\ th \in [Connections -> ThreadLabels] /\ calls \in Seq(CallRecords)
      /\ \A name : Cardinality(Named(name)) \in Nat
  BY NamedFinite DEF TypedInv, TypeOK
<1>1. UNCHANGED <<app, ctx, attempts>>
  BY ReceiverFrame DEF appVars
<1>2. CASE OnDisconnect(k)
  <2> DEFINE r == [name |-> "on_disconnect", conn |-> k, no |-> 0]
  <2>1. calls' = Append(calls, r) /\ th[k] = "notify" /\ th' = [th EXCEPT ![k] = "ended"]
    BY <1>2 DEF OnDisconnect, Runs, ThGoto
  <2>2. r \in CallRecords /\ r.name = "on_disconnect"
    BY ClientAssumption DEF CallRecords
  <2> HIDE DEF r
  <2>3. /\ Cardinality(Named("on_connect")') = Cardinality(Named("on_connect"))
        /\ Cardinality(Named("on_disconnect")') = Cardinality(Named("on_disconnect")) + 1
    <3>1. \A name : Cardinality(Named(name)') =
                       Cardinality(Named(name)) + (IF r.name = name THEN 1 ELSE 0)
      BY <1>0, <2>1, <2>2, NamedAppend
    <3> QED
      BY <1>0, <2>2, <3>1
  <2>4. Started' = Started /\ Ended' = Ended \cup {k} /\ k \notin Ended
    BY <1>0, <2>1 DEF Started, Ended
  <2>5. Cardinality(Ended') = Cardinality(Ended) + 1
    BY <2>4, FiniteThreads, FS_AddElement
  <2>6. \A i \in Connections : th[i] = "none" => th'[i] = "none"
    BY <1>0, <2>1
  <2> QED
    BY <1>1, <2>3, <2>4, <2>5, <2>6 DEF CountingInv
<1>3. CASE ~OnDisconnect(k)
  <2>1. UNCHANGED <<Started, Ended>>
    <3>1. \E l \in ThreadLabels \ {"none", "ended"} : th' = [th EXCEPT ![k] = l]
      BY <1>3 DEF Receiver, CheckRunning, LoadSocket, ReceiveData, ReceiveNothing, ReceiveEnds,
         Dispatch, LockForEnd, EndConnected, ThGoto, WouldBlock, ThreadLabels
    <3>2. th[k] \notin {"none", "ended"}
      BY DEF Receiver, CheckRunning, LoadSocket, ReceiveData, ReceiveNothing, ReceiveEnds,
         Dispatch, LockForEnd, EndConnected, OnDisconnect, Runs
    <3> QED
      BY <1>0, <3>1, <3>2 DEF Started, Ended
  <2>2. /\ Cardinality(Named("on_connect")') = Cardinality(Named("on_connect"))
        /\ Cardinality(Named("on_disconnect")') = Cardinality(Named("on_disconnect"))
    <3>1. CASE UNCHANGED calls
      BY <3>1 DEF Named
    <3>2. CASE ~UNCHANGED calls
      <4>1. Dispatch(k)
        BY <1>3, <3>2 DEF Receiver, CheckRunning, LoadSocket, ReceiveData, ReceiveNothing,
           ReceiveEnds, LockForEnd, EndConnected, histVars
      <4>2. PICK name \in {"on_market_data", "on_trade"} :
               calls' = Append(calls, [name |-> name, conn |-> rmsg[k][1], no |-> rmsg[k][2].no])
        BY <3>2, <4>1 DEF Dispatch
      <4> DEFINE r == [name |-> name, conn |-> rmsg[k][1], no |-> rmsg[k][2].no]
      <4>3. rmsg[k] \in Connections \X Units
        BY <4>1 DEF Dispatch, Runs, TypedInv
      <4>4. r \in CallRecords /\ r.name = name
        BY <4>3, ClientAssumption DEF CallRecords, Units
      <4>5. calls' = Append(calls, r)
        BY <4>2
      <4> HIDE DEF r
      <4> QED
        BY <1>0, <4>4, <4>5, NamedAppend
    <3> QED
      BY <3>1, <3>2
  <2> QED
    BY <1>1, <2>1, <2>2, CountingFrame DEF CountingInv
<1> QED
  BY <1>2, <1>3

\* The count of callbacks follows the threads, in any reachable state.
LEMMA CountingHolds == Spec => []CountingInv
<1>1. Init => CountingInv
  <2> SUFFICES ASSUME Init
               PROVE  CountingInv
    OBVIOUS
  <2>1. Started = {} /\ Ended = {}
    BY DEF Init, Started, Ended
  <2>2. \A name : Named(name) = {}
    BY DEF Init, Named
  <2>3. /\ app = "boot" /\ ctx = "none"
        /\ \A k \in Connections : th[k] = "none"
    BY DEF Init
  <2> QED
    BY <2>1, <2>2, <2>3, FS_EmptySet DEF CountingInv
<1>2. TypedInv /\ CountingInv /\ [Next]_vars => CountingInv'
  <2> SUFFICES ASSUME TypedInv, CountingInv, [Next]_vars
               PROVE  CountingInv'
    OBVIOUS
  <2>1. CASE UNCHANGED vars
    BY <2>1, CountingFrame DEF vars, appVars, ctxVars, thVars, histVars, CountingInv, Started,
       Ended, Named
  <2>2. ASSUME NEW k \in Connections, Network(k)
        PROVE  CountingInv'
    BY <2>2, NetworkFrame, CountingFrame DEF appVars, ctxVars, thVars, histVars, CountingInv,
       Started, Ended, Named
  <2> QED
    BY <2>1, <2>2, CountingApplication, CountingReceiver DEF Next
<1> QED
  BY <1>1, <1>2, TypedHolds, PTL DEF Spec

\* The two callbacks balance when every thread has ended.
LEMMA BalanceOfEndedThreads ==
    ASSUME TypedInv, CountingInv, FreedAfterThreads
    PROVE  CallbacksBalance
<1>1. ctx = "freed" => Started = Ended /\ app # "on_connect"
  BY DEF FreedAfterThreads, CountingInv, Started, Ended
<1>2. Cardinality(Named("on_connect")) \in Nat
  BY NamedFinite DEF TypedInv, TypeOK
<1> QED
  BY <1>1, <1>2 DEF CountingInv, CallbacksBalance

\* However often a context is connected again: if no receiver thread is left
\* running when it is freed, the application has had one on_disconnect for
\* every on_connect.
THEOREM BalanceUnlessThreadRuns == Spec => [](FreedAfterThreads => CallbacksBalance)
<1>1. TypedInv /\ CountingInv => (FreedAfterThreads => CallbacksBalance)
  BY BalanceOfEndedThreads
<1> QED
  BY <1>1, TypedHolds, CountingHolds, PTL

\* A context used for one connection, as src/client/main.c uses it, gives the
\* application its on_disconnect before cleanup_client frees it.
THEOREM SingleUseCallbacksBalance ==
    ASSUME MaxConnects <= 1
    PROVE  Spec => []CallbacksBalance
<1>1. TypedInv /\ CountingInv /\ FreedAfterThreads => CallbacksBalance
  BY BalanceOfEndedThreads
<1> QED
  BY <1>1, TypedHolds, CountingHolds, SingleUseFreedAfterThreads, PTL

-----------------------------------------------------------------------------
(* The stream of a connection and how far it has been read *)

\* The units of connection j that a recv has returned.
Taken(j) == Len(arrived[j]) - Len(inbox[j])

\* The halves of the messages arrive one after the other, both with the type
\* of the message, and what waits in the socket is the end of the stream.
StreamInv ==
    \A j \in Connections :
       /\ \A i \in 1 .. Len(arrived[j]) :
             /\ 2 * arrived[j][i].no + arrived[j][i].part = i + 2
             /\ arrived[j][i].part = 2 => arrived[j][i].type = arrived[j][i - 1].type
       /\ Len(inbox[j]) <= Len(arrived[j])
       /\ \A i \in 1 .. Len(inbox[j]) : inbox[j][i] = arrived[j][Taken(j) + i]

-----------------------------------------------------------------------------
(* Delivery *)

DataCalls == {"on_market_data", "on_trade"}

\* A call that hands a message to the application.
Delivers(c) == c.name \in DataCalls \cup {"receive_data"}

TypeOf(name) == IF name = "on_trade" THEN "MSG_TRADE_EXEC" ELSE "MSG_MARKET_DATA"

\* The message was read from its connection as a whole, and a callback is
\* the one for its type.
Genuine(c) ==
    Delivers(c) =>
       /\ c.no >= 1 /\ 2 * c.no <= Taken(c.conn)
       /\ c.name \in DataCalls => arrived[c.conn][2 * c.no].type = TypeOf(c.name)

\* What may be said of call c and a later call d.
InOrder(c, d) ==
    Delivers(c) /\ Delivers(d) /\ c.conn = d.conn =>
       /\ c.no # d.no
       /\ (c.name \in DataCalls <=> d.name \in DataCalls) => c.no < d.no

\* The message thread k has decoded but not yet handed over was read after
\* every message the callbacks have had, and receive_data has not had it.
Pending(k) ==
    LET j == rmsg[k][1]
        m == rmsg[k][2]
    IN /\ 2 * m.no <= Taken(j) /\ arrived[j][2 * m.no].type = m.type
       /\ \A i \in DOMAIN calls : Delivers(calls[i]) /\ calls[i].conn = j =>
             /\ calls[i].no # m.no
             /\ calls[i].name \in DataCalls => calls[i].no < m.no

DeliveryInv ==
    /\ StreamInv
    /\ \A i \in DOMAIN calls : Genuine(calls[i])
    /\ \A i, j \in DOMAIN calls : i < j => InOrder(calls[i], calls[j])
    /\ \A k \in Connections : th[k] = "dispatch" => Pending(k)

\* No step takes back what has been read.
Advances ==
    \A j \in Connections :
       /\ Taken(j) <= Taken(j)'
       /\ \A i \in 1 .. Taken(j) : arrived'[j][i] = arrived[j][i]

\* What was taken from a stream is a first part of what arrived on it.
LEMMA TakenTyped ==
    ASSUME TypedInv, StreamInv, NEW j \in Connections
    PROVE  /\ arrived[j] \in Seq(Units) /\ inbox[j] \in Seq(Units)
           /\ Taken(j) \in Nat /\ Taken(j) <= Len(arrived[j])
BY DEF TypedInv, TypeOK, StreamInv, Taken

\* A message is two units: where a message begins.
LEMMA Halves ==
    ASSUME NEW n \in Nat
    PROVE  /\ n % 2 # 1 => 2 * (n \div 2) + 3 = n + 3 /\ n \div 2 \in Nat
           /\ n % 2 = 1 => n \in 1 .. n
           /\ \A m \in Nat, p \in {1, 2} : n % 2 = 1 /\ 2 * m + p = n + 2 => p = 1
<1>1. n % 2 = 1 => n # 0
  OBVIOUS
<1>2. n % 2 = 1 => n \in 1 .. n
  BY <1>1
<1>3. n % 2 # 1 => 2 * (n \div 2) + 3 = n + 3 /\ n \div 2 \in Nat
  OBVIOUS
<1>4. \A m \in Nat : n % 2 = 1 /\ 2 * m + 2 = n + 2 => FALSE
  OBVIOUS
<1> QED
  BY <1>2, <1>3, <1>4

\* The unit that arrives is the second half of the message that has begun,
\* or the first half of the next one.
LEMMA NextUnitFits ==
    ASSUME TypedInv, StreamInv, NEW k \in Connections, NEW u \in NextUnits(k)
    PROVE  /\ 2 * u.no + u.part = Len(arrived[k]) + 3
           /\ u.part = 2 => Len(arrived[k]) >= 1 /\ u.type = arrived[k][Len(arrived[k])].type
<1> DEFINE n == Len(arrived[k])
<1>1. n \in Nat /\ arrived[k] \in Seq(Units)
  BY TakenTyped
<1>2. CASE n % 2 = 1
  <2>1. n \in 1 .. n
    <3> HIDE DEF n
    <3> QED
      BY <1>1, <1>2, Halves
  <2>2. arrived[k][n] \in Units
    BY <1>1, <2>1
  <2>3. 2 * arrived[k][n].no + arrived[k][n].part = n + 2
    BY <2>1 DEF StreamInv
  <2>4. arrived[k][n].no \in Nat /\ arrived[k][n].part \in {1, 2}
    BY <2>2, ClientAssumption DEF Units
  <2>5. u.no = arrived[k][n].no /\ u.part = 2 /\ u.type = arrived[k][n].type
    BY <1>2, <2>2 DEF NextUnits, Units
  <2> HIDE DEF n
  <2>6. arrived[k][n].part = 1
    BY <1>1, <1>2, <2>3, <2>4, Halves
  <2>7. n >= 1
    BY <1>1, <2>1
  <2>8. \A m \in Nat : 2 * m + 1 = n + 2 => 2 * m + 2 = n + 3
    BY <1>1
  <2>9. 2 * arrived[k][n].no + 2 = n + 3
    BY <2>3, <2>4, <2>6, <2>8
  <2> QED
    BY <2>5, <2>7, <2>9 DEF n
<1>3. CASE n % 2 # 1
  <2>1. u.no = n \div 2 + 1 /\ u.part = 1
    BY <1>3 DEF NextUnits
  <2> HIDE DEF n
  <2>2. 2 * (n \div 2) + 3 = n + 3 /\ n \div 2 \in Nat
    BY <1>1, <1>3, Halves
  <2>3. \A h \in Nat : 2 * (h + 1) + 1 = 2 * h + 3
    OBVIOUS
  <2>4. 2 * (n \div 2 + 1) + 1 = n + 3
    BY <2>2, <2>3
  <2>5. 2 * u.no + u.part = n + 3
    BY <2>1, <2>4
  <2>6. u.part # 2
    BY <2>1
  <2> QED
    BY <2>5, <2>6 DEF n
<1> QED
  BY <1>2, <1>3

\* What arrives is the next half of a message.
LEMMA StreamArrives ==
    ASSUME TypedInv, StreamInv, NEW k \in Connections, Arrive(k)
    PROVE  StreamInv' /\ Advances
<1>1. PICK u \in NextUnits(k) :
         /\ inbox' = [inbox EXCEPT ![k] = Append(@, u)]
         /\ arrived' = [arrived EXCEPT ![k] = Append(@, u)]
  BY DEF Arrive
<1>2. u \in Units
  BY TakenTyped, NextUnitsTyped
<1>3. inbox \in [Connections -> Seq(Units)] /\ arrived \in [Connections -> Seq(Units)]
  BY DEF TypedInv, TypeOK
<1>4. ASSUME NEW j \in Connections, j # k
      PROVE  inbox'[j] = inbox[j] /\ arrived'[j] = arrived[j] /\ Taken(j)' = Taken(j)
  BY <1>1, <1>3, <1>4 DEF Taken
<1> DEFINE n == Len(arrived[k])
           w == Len(inbox[k])
<1>5. n \in Nat /\ w \in Nat /\ w <= n /\ Taken(k) = n - w
  BY <1>3 DEF StreamInv, Taken
<1>6. /\ Len(arrived'[k]) = n + 1 /\ arrived'[k][n + 1] = u
      /\ \A i \in 1 .. n : arrived'[k][i] = arrived[k][i]
      /\ Len(inbox'[k]) = w + 1 /\ inbox'[k][w + 1] = u
      /\ \A i \in 1 .. w : inbox'[k][i] = inbox[k][i]
  BY <1>1, <1>2, <1>3
<1>7. Taken(k)' = Taken(k)
  BY <1>5, <1>6 DEF Taken
<1>8. Advances
  <2>1. \A j \in Connections : Taken(j) \in Nat /\ Taken(j) <= Len(arrived[j])
    BY TakenTyped
  <2>2. \A j \in Connections : Taken(j)' = Taken(j)
    BY <1>4, <1>7
  <2>3. \A j \in Connections : \A i \in 1 .. Taken(j) : arrived'[j][i] = arrived[j][i]
    <3>1. \A i \in 1 .. Taken(k) : i \in 1 .. n
      BY <1>5, <2>1
    <3> QED
      BY <1>4, <1>6, <3>1
  <2> QED
    BY <2>1, <2>2, <2>3 DEF Advances
<1>9. \A i \in 1 .. Len(arrived'[k]) :
         /\ 2 * arrived'[k][i].no + arrived'[k][i].part = i + 2
         /\ arrived'[k][i].part = 2 => arrived'[k][i].type = arrived'[k][i - 1].type
  <2> SUFFICES ASSUME NEW i \in 1 .. (n + 1)
               PROVE  /\ 2 * arrived'[k][i].no + arrived'[k][i].part = i + 2
                      /\ arrived'[k][i].part = 2 => arrived'[k][i].type = arrived'[k][i - 1].type
    BY <1>5, <1>6
  <2>1. CASE i = n + 1
    BY <1>5, <1>6, <2>1, NextUnitFits
  <2>2. CASE i \in 1 .. n
    <3>1. /\ 2 * arrived[k][i].no + arrived[k][i].part = i + 2
          /\ arrived[k][i].part = 2 => arrived[k][i].type = arrived[k][i - 1].type
      BY <2>2 DEF StreamInv
    <3>2. arrived[k][i].no \in 1 .. MaxMessages /\ arrived[k][i].part \in {1, 2}
      <4>1. arrived[k] \in Seq(Units)
        BY <1>3
      <4>2. arrived[k][i] \in Units
        BY <2>2, <4>1
      <4> QED
        BY <4>2 DEF Units
    <3>3. arrived[k][i].part = 2 => i - 1 \in 1 .. n
      BY <1>5, <2>2, <3>1, <3>2, ClientAssumption
    <3> QED
      BY <1>6, <2>2, <3>1, <3>3
  <2> QED
    BY <1>5, <2>1, <2>2
<1>10. \A i \in 1 .. Len(inbox'[k]) : inbox'[k][i] = arrived'[k][Taken(k)' + i]
  <2>1. \A i \in 1 .. w : inbox[k][i] = arrived[k][Taken(k) + i]
    BY DEF StreamInv
  <2> HIDE DEF n, w
  <2>2. \A i \in 1 .. w : Taken(k) + i \in 1 .. n
    BY <1>5
  <2>3. Taken(k) + (w + 1) = n + 1
    BY <1>5
  <2>4. \A i \in 1 .. (w + 1) : i = w + 1 \/ i \in 1 .. w
    BY <1>5
  <2>5. \A i \in 1 .. (w + 1) : inbox'[k][i] = arrived'[k][Taken(k) + i]
    BY <1>6, <2>1, <2>2, <2>3, <2>4
  <2> QED
    BY <1>6, <1>7, <2>5
<1>11. StreamInv'
  <2> SUFFICES ASSUME NEW j \in Connections
               PROVE  StreamInv!(j)'
    BY DEF StreamInv
  <2>1. CASE j = k
    BY <1>5, <1>6, <1>9, <1>10, <2>1
  <2>2. CASE j # k
    BY <1>4, <2>2 DEF StreamInv
  <2> QED
    BY <2>1, <2>2
<1> QED
  BY <1>8, <1>11

\* A recv returns all that waits; when the chunk decodes, its first message
\* is the next of the stream and was not read before.
LEMMA StreamRead ==
    ASSUME TypedInv, StreamInv, NEW j \in Connections, TakeUnits(j), UNCHANGED arrived
    PROVE  StreamInv' /\ Advances
<1>1. inbox \in [Connections -> Seq(Units)] /\ arrived \in [Connections -> Seq(Units)]
  BY DEF TypedInv, TypeOK
<1>2. inbox'[j] = <<>> /\ \A i \in Connections : i # j => inbox'[i] = inbox[i]
  BY <1>1 DEF TakeUnits
<1>3. /\ Taken(j)' = Len(arrived[j])
      /\ \A i \in Connections : i # j => Taken(i)' = Taken(i)
  <2>1. Len(arrived[j]) \in Nat /\ Len(inbox'[j]) = 0
    BY <1>1, <1>2
  <2>2. Taken(j)' = Len(arrived[j])
    BY <2>1 DEF Taken
  <2>3. \A i \in Connections : i # j => Taken(i)' = Taken(i)
    BY <1>2 DEF Taken
  <2> QED
    BY <2>2, <2>3
<1>4. Advances
  <2>1. \A i \in Connections : Taken(i) \in Nat /\ Taken(i) <= Len(arrived[i])
    BY TakenTyped
  <2> QED
    BY <1>3, <2>1 DEF Advances
<1>5. StreamInv'
  <2> SUFFICES ASSUME NEW i \in Connections
               PROVE  StreamInv!(i)'
    BY DEF StreamInv
  <2>1. CASE i = j
    <3>1. Len(inbox'[i]) = 0 /\ Len(arrived'[i]) \in Nat
      BY <1>1, <1>2, <2>1
    <3> QED
      BY <3>1 DEF StreamInv
  <2>2. CASE i # j
    BY <1>2, <1>3, <2>2 DEF StreamInv
  <2> QED
    BY <2>1, <2>2
<1> QED
  BY <1>4, <1>5

\* A chunk that decodes begins with a message not delivered before, and
\* both halves of it are then taken.
LEMMA DecodedIsNext ==
    ASSUME TypedInv, StreamInv, NEW j \in Connections, Decodes(inbox[j]), TakeUnits(j),
           UNCHANGED arrived
    PROVE  /\ inbox[j][1] \in Units /\ inbox[j][1].no \in 1 .. MaxMessages
           /\ Taken(j) < 2 * inbox[j][1].no
           /\ 2 * inbox[j][1].no <= Taken(j)'
           /\ arrived[j][2 * inbox[j][1].no].type = inbox[j][1].type
<1> DEFINE m == inbox[j][1]
           w == Len(inbox[j])
           n == Len(arrived[j])
           t == Taken(j)
<1>1. /\ inbox[j] \in Seq(Units) /\ arrived[j] \in Seq(Units)
      /\ t \in Nat /\ n \in Nat /\ w \in Nat /\ w >= 2 /\ t = n - w /\ m.part = 1
  <2>1. inbox[j] \in Seq(Units) /\ arrived[j] \in Seq(Units) /\ t \in Nat
    BY TakenTyped
  <2>2. w >= 2 /\ m.part = 1 /\ t = n - w
    BY DEF Taken, Decodes
  <2> QED
    BY <2>1, <2>2
<1>2. m \in Units /\ m.no \in 1 .. MaxMessages /\ m.no \in Nat
  <2>1. m \in Units
    BY <1>1
  <2> QED
    BY <2>1, ClientAssumption DEF Units
<1>3. m = arrived[j][t + 1]
  <2>1. 1 \in 1 .. w
    BY <1>1
  <2> QED
    BY <2>1 DEF StreamInv
<1>4. /\ 2 * arrived[j][t + 1].no + arrived[j][t + 1].part = (t + 1) + 2
      /\ 2 * arrived[j][t + 2].no + arrived[j][t + 2].part = (t + 2) + 2
      /\ arrived[j][t + 2].part = 2 => arrived[j][t + 2].type = arrived[j][(t + 2) - 1].type
      /\ arrived[j][t + 2] \in Units
  <2>1. t + 1 \in 1 .. n /\ t + 2 \in 1 .. n
    <3> HIDE DEF t, n, w
    <3> QED
      BY <1>1
  <2>2. arrived[j][t + 2] \in Units
    <3>1. \A i \in 1 .. n : arrived[j][i] \in Units
      BY <1>1
    <3> HIDE DEF t, n
    <3> QED
      BY <2>1, <3>1
  <2>3. \A i \in 1 .. n :
           /\ 2 * arrived[j][i].no + arrived[j][i].part = i + 2
           /\ arrived[j][i].part = 2 => arrived[j][i].type = arrived[j][i - 1].type
    BY DEF StreamInv
  <2> HIDE DEF t, n
  <2> QED
    BY <2>1, <2>2, <2>3
<1>5. Taken(j)' = n
  <2>1. inbox'[j] = <<>>
    BY DEF TakeUnits, TypedInv, TypeOK
  <2> QED
    BY <1>1, <2>1 DEF Taken
<1> HIDE DEF m, w, n, t
<1>6. 2 * m.no = t + 2
  <2>1. \A a \in Nat : 2 * a + 1 = (t + 1) + 2 => 2 * a = t + 2
    BY <1>1
  <2> QED
    BY <1>1, <1>2, <1>3, <1>4, <2>1
<1>7. arrived[j][t + 2].part = 2
  <2>1. arrived[j][t + 2].no \in Nat /\ arrived[j][t + 2].part \in {1, 2}
    BY <1>4, ClientAssumption DEF Units
  <2>2. \A a, b \in Nat : 2 * a = t + 2 /\ 2 * b + 1 = (t + 2) + 2 => FALSE
    BY <1>1
  <2> QED
    BY <1>2, <1>4, <1>6, <2>1, <2>2
<1>8. (t + 2) - 1 = t + 1 /\ t < t + 2 /\ t + 2 <= n
  BY <1>1
<1>9. t < 2 * m.no /\ 2 * m.no <= n /\ arrived[j][2 * m.no].type = m.type
  BY <1>3, <1>4, <1>6, <1>7, <1>8
<1> QED
  BY <1>2, <1>5, <1>9 DEF m, t

-----------------------------------------------------------------------------
(* What is delivered *)

\* A message that was read stays read.
LEMMA GenuineStays ==
    ASSUME TypedInv, StreamInv, Advances, StreamInv', TypedInv', NEW c \in CallRecords, Genuine(c)
    PROVE  Genuine(c)'
<1>1. SUFFICES ASSUME Delivers(c)
               PROVE  Genuine(c)'
  BY DEF Genuine, Delivers
<1>2. c.conn \in Connections /\ c.no \in Nat
  BY ClientAssumption DEF CallRecords
<1>3. c.no >= 1 /\ 2 * c.no <= Taken(c.conn)
  BY <1>1 DEF Genuine
<1>4. Taken(c.conn) \in Nat /\ Taken(c.conn)' \in Nat /\ Taken(c.conn) <= Taken(c.conn)'
  <2>1. Taken(c.conn)' \in Nat
    BY <1>2 DEF TypedInv, TypeOK, StreamInv, Taken
  <2> QED
    BY <1>2, <2>1, TakenTyped DEF Advances
<1>5. 2 * c.no \in 1 .. Taken(c.conn) /\ 2 * c.no <= Taken(c.conn)'
  BY <1>2, <1>3, <1>4
<1>6. arrived'[c.conn][2 * c.no] = arrived[c.conn][2 * c.no]
  BY <1>2, <1>5 DEF Advances
<1> QED
  BY <1>1, <1>3, <1>5, <1>6 DEF Genuine, Delivers

\* A call that neither is a callback with data nor returns a message that
\* had been read before.
Leaves(k, c) ==
    Delivers(c) => /\ c.name \notin DataCalls
                   /\ c.conn = rmsg[k][1] => Taken(c.conn) < 2 * c.no

\* The message a thread holds stays the next one for the callbacks, whatever
\* receive_data returns meanwhile.
LEMMA PendingStays ==
    ASSUME TypedInv, StreamInv, Advances, StreamInv', TypedInv', NEW k \in Connections,
           rmsg[k] \in Connections \X Units, Pending(k), UNCHANGED rmsg[k],
           \A i \in DOMAIN calls' :
              (i \in DOMAIN calls /\ calls'[i] = calls[i]) \/ Leaves(k, calls'[i])
    PROVE  Pending(k)'
<1> DEFINE j == rmsg[k][1]
           m == rmsg[k][2]
<1>1. j \in Connections /\ m \in Units /\ m.no \in Nat /\ m.no >= 1
  BY ClientAssumption DEF Units
<1>2. 2 * m.no <= Taken(j) /\ arrived[j][2 * m.no].type = m.type
  BY DEF Pending
<1>3. ASSUME NEW i \in Connections, NEW no \in Nat, no >= 1, 2 * no <= Taken(i)
      PROVE  /\ 2 * no <= Len(arrived'[i]) - Len(inbox'[i])
             /\ arrived'[i][2 * no] = arrived[i][2 * no]
  <2>1. Taken(i) \in Nat /\ Taken(i)' \in Nat /\ Taken(i) <= Taken(i)'
    <3>1. Taken(i)' \in Nat
      BY DEF TypedInv, TypeOK, StreamInv, Taken
    <3> QED
      BY <3>1, TakenTyped DEF Advances
  <2>2. 2 * no \in 1 .. Taken(i) /\ 2 * no <= Taken(i)'
    BY <1>3, <2>1
  <2> QED
    BY <2>2 DEF Advances, Taken
<1>4. /\ 2 * m.no <= Len(arrived'[j]) - Len(inbox'[j])
      /\ arrived'[j][2 * m.no].type = m.type
  BY <1>1, <1>2, <1>3
<1>5. ASSUME NEW i \in DOMAIN calls', Delivers(calls'[i]), calls'[i].conn = j
      PROVE  calls'[i].no # m.no /\ (calls'[i].name \in DataCalls => calls'[i].no < m.no)
  <2>1. CASE i \in DOMAIN calls /\ calls'[i] = calls[i]
    BY <1>5, <2>1 DEF Pending
  <2>2. CASE Leaves(k, calls'[i])
    <3>1. calls'[i].name \notin DataCalls /\ Taken(j) < 2 * calls'[i].no
      BY <1>5, <2>2 DEF Leaves
    <3>2. calls'[i].no \in Nat /\ Taken(j) \in Nat
      <4>0. calls' \in Seq(CallRecords)
        BY DEF TypedInv, TypeOK
      <4>1. calls'[i] \in CallRecords
        BY <4>0
      <4> QED
        BY <1>1, <4>1, TakenTyped, ClientAssumption DEF CallRecords
    <3> QED
      BY <1>1, <1>2, <3>1, <3>2
  <2> QED
    BY <2>1, <2>2
<1> QED
  BY <1>4, <1>5 DEF Pending, Taken, Delivers

\* A call that is in order with the earlier ones keeps all calls in order.
LEMMA OrderAppend ==
    ASSUME calls \in Seq(CallRecords), NEW r \in CallRecords, calls' = Append(calls, r),
           \A i, j \in DOMAIN calls : i < j => InOrder(calls[i], calls[j]),
           \A i \in DOMAIN calls : InOrder(calls[i], r)
    PROVE  \A i, j \in DOMAIN calls' : i < j => InOrder(calls'[i], calls'[j])
<1>1. /\ DOMAIN calls = 1 .. Len(calls) /\ Len(calls) \in Nat
      /\ DOMAIN calls' = 1 .. (Len(calls) + 1) /\ calls'[Len(calls) + 1] = r
      /\ \A i \in 1 .. Len(calls) : calls'[i] = calls[i]
  OBVIOUS
<1> SUFFICES ASSUME NEW i \in DOMAIN calls', NEW j \in DOMAIN calls', i < j
             PROVE  InOrder(calls'[i], calls'[j])
  OBVIOUS
<1>2. i \in 1 .. Len(calls)
  BY <1>1
<1>3. CASE j = Len(calls) + 1
  BY <1>1, <1>2, <1>3
<1>4. CASE j # Len(calls) + 1
  <2>1. j \in 1 .. Len(calls)
    BY <1>1, <1>4
  <2> QED
    BY <1>1, <1>2, <2>1
<1> QED
  BY <1>3, <1>4

\* A step that adds at most one call, in order and genuine.
LEMMA DeliveryStep ==
    ASSUME TypedInv, TypedInv', DeliveryInv, StreamInv', Advances, NEW r \in CallRecords,
           \/ UNCHANGED calls
           \/ /\ calls' = Append(calls, r) /\ Genuine(r)'
              /\ \A i \in DOMAIN calls : InOrder(calls[i], r),
           \A k \in Connections : th'[k] = "dispatch" => Pending(k)'
    PROVE  DeliveryInv'
<1>1. StreamInv /\ calls \in Seq(CallRecords)
  BY DEF DeliveryInv, TypedInv, TypeOK
<1>2. \A i \in DOMAIN calls : calls[i] \in CallRecords /\ Genuine(calls[i])
  BY <1>1 DEF DeliveryInv
<1>3. \A c \in CallRecords : Genuine(c) => Genuine(c)'
  BY <1>1, GenuineStays
<1>4. \A c \in CallRecords : (Genuine(c))' <=>
         (Delivers(c) =>
            /\ c.no >= 1 /\ 2 * c.no <= Taken(c.conn)'
            /\ c.name \in DataCalls => arrived'[c.conn][2 * c.no].type = TypeOf(c.name))
  BY DEF Genuine, Delivers
<1>5. CASE UNCHANGED calls
  <2>1. \A i \in DOMAIN calls' : Genuine(calls[i])'
    BY <1>2, <1>3, <1>4, <1>5 DEF Genuine, Delivers, Taken
  <2>2. \A i, j \in DOMAIN calls' : i < j => InOrder(calls[i], calls[j])'
    BY <1>5 DEF DeliveryInv, InOrder, Delivers
  <2> QED
    BY <2>1, <2>2 DEF DeliveryInv
<1>6. CASE calls' = Append(calls, r) /\ Genuine(r)' /\ \A i \in DOMAIN calls : InOrder(calls[i], r)
  <2>1. \A i \in DOMAIN calls' : (i \in DOMAIN calls /\ calls'[i] = calls[i]) \/ calls'[i] = r
    BY <1>1, <1>6
  <2>2. \A i \in DOMAIN calls' : Genuine(calls[i])'
    BY <1>2, <1>3, <1>4, <1>6, <2>1 DEF Genuine, Delivers, Taken
  <2>3. \A i, j \in DOMAIN calls' : i < j => InOrder(calls'[i], calls'[j])
    BY <1>1, <1>6, OrderAppend DEF DeliveryInv
  <2>4. \A i, j \in DOMAIN calls' : i < j => InOrder(calls[i], calls[j])'
    BY <2>3 DEF InOrder, Delivers
  <2> QED
    BY <2>2, <2>4 DEF DeliveryInv
<1> QED
  BY <1>5, <1>6

\* A step that reads nothing and delivers nothing.
LEMMA DeliveryQuiet ==
    ASSUME TypedInv, TypedInv', DeliveryInv, UNCHANGED <<arrived, inbox>>,
           NEW r \in CallRecords, ~Delivers(r), calls' = calls \/ calls' = Append(calls, r),
           \A k \in Connections : th'[k] = "dispatch" => th[k] = "dispatch" /\ rmsg'[k] = rmsg[k]
    PROVE  DeliveryInv'
<1>1. StreamInv /\ calls \in Seq(CallRecords)
  BY DEF DeliveryInv, TypedInv, TypeOK
<1>2. StreamInv'
  BY <1>1 DEF StreamInv, Taken
<1>3. Advances
  <2>1. \A j \in Connections : Taken(j)' = Taken(j) /\ Taken(j) \in Nat
    BY <1>1, TakenTyped DEF Taken
  <2> QED
    BY <2>1 DEF Advances
<1>4. Genuine(r)' /\ \A i \in DOMAIN calls : InOrder(calls[i], r)
  BY DEF Genuine, InOrder, Delivers
<1>5. \A i \in DOMAIN calls' : (i \in DOMAIN calls /\ calls'[i] = calls[i]) \/ calls'[i] = r
  BY <1>1
<1>6. ASSUME NEW k \in Connections, th'[k] = "dispatch"
      PROVE  Pending(k)'
  <2>1. \A i \in DOMAIN calls' :
           (i \in DOMAIN calls /\ calls'[i] = calls[i]) \/ Leaves(k, calls'[i])
    BY <1>5 DEF Leaves
  <2>2. Pending(k) /\ rmsg[k] \in Connections \X Units /\ UNCHANGED rmsg[k]
    BY <1>6 DEF DeliveryInv, TypedInv
  <2> QED
    BY <1>1, <1>2, <1>3, <2>1, <2>2, PendingStays
<1> QED
  BY <1>2, <1>3, <1>4, <1>6, DeliveryStep

\* receive_data returns the next message of the stream, or none.
LEMMA DeliveryDirect ==
    ASSUME TypedInv, TypedInv', DeliveryInv, ReceiveDirectly
    PROVE  DeliveryInv'
<1>1. PICK j \in Connections :
         /\ TakeUnits(j)
         /\ calls' = IF Decodes(inbox[j])
                     THEN Append(calls, [name |-> "receive_data", conn |-> j, no |-> inbox[j][1].no])
                     ELSE calls
  BY DEF ReceiveDirectly
<1>2. UNCHANGED <<th, rmsg, arrived>> /\ StreamInv /\ calls \in Seq(CallRecords)
  BY DEF ReceiveDirectly, thVars, DeliveryInv, TypedInv, TypeOK
<1>3. StreamInv' /\ Advances
  BY <1>1, <1>2, StreamRead
<1>4. CASE Decodes(inbox[j])
  <2>0. PICK m \in Units : m = inbox[j][1]
    BY <1>1, <1>2, <1>4, DecodedIsNext
  <2>1. /\ m.no \in 1 .. MaxMessages /\ Taken(j) < 2 * m.no /\ 2 * m.no <= Taken(j)'
    BY <1>1, <1>2, <1>4, <2>0, DecodedIsNext
  <2> DEFINE r == [name |-> "receive_data", conn |-> j, no |-> m.no]
  <2>2. r \in CallRecords /\ calls' = Append(calls, r) /\ m.no >= 1
    BY <1>1, <1>4, <2>0, <2>1, ClientAssumption DEF CallRecords
  <2>3. r.name = "receive_data" /\ r.conn = j /\ r.no = m.no
    OBVIOUS
  <2> HIDE DEF r
  <2>4. Genuine(r)'
    BY <2>1, <2>2, <2>3 DEF Genuine, Delivers, DataCalls
  <2>5. ASSUME NEW i \in DOMAIN calls
        PROVE  InOrder(calls[i], r)
    <3> SUFFICES ASSUME Delivers(calls[i]), calls[i].conn = j
                 PROVE  calls[i].no < m.no
      <4>1. calls[i] \in CallRecords
        BY <1>2
      <4> QED
        BY <2>1, <2>3, <4>1, ClientAssumption DEF InOrder, CallRecords
    <3>1. 2 * calls[i].no <= Taken(j)
      BY DEF DeliveryInv, Genuine
    <3>2. calls[i].no \in Nat /\ Taken(j) \in Nat /\ m.no \in Nat
      <4>1. calls[i] \in CallRecords
        BY <1>2
      <4> QED
        BY <1>2, <2>1, <4>1, TakenTyped, ClientAssumption DEF CallRecords
    <3> QED
      BY <2>1, <3>1, <3>2
  <2>6. ASSUME NEW k \in Connections, th'[k] = "dispatch"
        PROVE  Pending(k)'
    <3>1. \A i \in DOMAIN calls' :
             (i \in DOMAIN calls /\ calls'[i] = calls[i]) \/ calls'[i] = r
      BY <1>2, <2>2
    <3>2. Leaves(k, r)
      BY <2>1, <2>3 DEF Leaves, DataCalls
    <3>3. Pending(k) /\ rmsg[k] \in Connections \X Units /\ UNCHANGED rmsg[k]
      BY <1>2, <2>6 DEF DeliveryInv, TypedInv
    <3> QED
      BY <1>2, <1>3, <3>1, <3>2, <3>3, PendingStays
  <2> QED
    BY <1>3, <2>2, <2>4, <2>5, <2>6, DeliveryStep
<1>5. CASE ~Decodes(inbox[j])
  <2>1. UNCHANGED calls
    BY <1>1, <1>5
  <2>2. ASSUME NEW k \in Connections, th'[k] = "dispatch"
        PROVE  Pending(k)'
    <3>1. Pending(k) /\ rmsg[k] \in Connections \X Units /\ UNCHANGED rmsg[k]
      BY <1>2, <2>2 DEF DeliveryInv, TypedInv
    <3> QED
      BY <1>2, <1>3, <2>1, <3>1, PendingStays
  <2>3. [name |-> "on_connect", conn |-> j, no |-> 0] \in CallRecords
    BY ClientAssumption DEF CallRecords
  <2> QED
    BY <1>3, <2>1, <2>2, <2>3, DeliveryStep
<1> QED
  BY <1>4, <1>5

\* The receiver thread decodes the next message of the stream, or none.
LEMMA DeliveryReceive ==
    ASSUME TypedInv, TypedInv', DeliveryInv, NEW k \in Connections, ReceiveData(k)
    PROVE  DeliveryInv'
<1>1. PICK j \in Connections :
         /\ TakeUnits(j)
         /\ IF Decodes(inbox[j])
            THEN rmsg' = [rmsg EXCEPT ![k] = <<j, inbox[j][1]>>] /\ ThGoto(k, "dispatch")
            ELSE ThGoto(k, "check") /\ UNCHANGED rmsg
  BY DEF ReceiveData
<1>2. UNCHANGED <<calls, arrived>> /\ StreamInv /\ calls \in Seq(CallRecords)
  BY DEF ReceiveData, histVars, DeliveryInv, TypedInv, TypeOK
<1>3. StreamInv' /\ Advances
  BY <1>1, <1>2, StreamRead
<1>4. th \in [Connections -> ThreadLabels] /\ DOMAIN rmsg = Connections
  BY DEF TypedInv, TypeOK
<1>5. ASSUME NEW i \in Connections, th'[i] = "dispatch", i # k
      PROVE  Pending(i)'
  <2>1. th[i] = "dispatch" /\ UNCHANGED rmsg[i]
    BY <1>1, <1>4, <1>5 DEF ThGoto
  <2>2. Pending(i) /\ rmsg[i] \in Connections \X Units
    BY <2>1 DEF DeliveryInv, TypedInv
  <2> QED
    BY <1>2, <1>3, <2>1, <2>2, PendingStays
<1>6. ASSUME th'[k] = "dispatch"
      PROVE  Pending(k)'
  <2>0. Decodes(inbox[j])
    BY <1>1, <1>4, <1>6 DEF ThGoto
  <2>1. PICK m \in Units : m = inbox[j][1] /\ rmsg'[k] = <<j, m>>
    BY <1>1, <1>2, <1>4, <2>0, DecodedIsNext
  <2>2. /\ m.no \in 1 .. MaxMessages
        /\ Taken(j) < 2 * m.no /\ 2 * m.no <= Taken(j)' /\ arrived[j][2 * m.no].type = m.type
    BY <1>1, <1>2, <2>0, <2>1, DecodedIsNext
  <2>3. ASSUME NEW i \in DOMAIN calls, Delivers(calls[i]), calls[i].conn = j
        PROVE  calls[i].no < m.no /\ calls[i].no # m.no
    <3>1. 2 * calls[i].no <= Taken(j)
      BY <2>3 DEF DeliveryInv, Genuine
    <3>2. calls[i].no \in Nat /\ Taken(j) \in Nat /\ m.no \in Nat
      <4>1. calls[i] \in CallRecords
        BY <1>2
      <4>2. calls[i].no \in Nat
        BY <4>1, ClientAssumption DEF CallRecords
      <4>3. Taken(j) \in Nat
        BY <1>2, TakenTyped
      <4>4. m.no \in Nat
        BY <2>2, ClientAssumption
      <4> QED
        BY <4>2, <4>3, <4>4
    <3> QED
      BY <2>2, <3>1, <3>2
  <2>4. rmsg'[k][1] = j /\ rmsg'[k][2] = m
    BY <2>1
  <2>5. 2 * m.no <= Len(arrived'[j]) - Len(inbox'[j]) /\ arrived'[j][2 * m.no].type = m.type
    BY <1>2, <2>2 DEF Taken
  <2> QED
    BY <1>2, <2>3, <2>4, <2>5 DEF Pending, Taken, Delivers
<1>7. [name |-> "on_connect", conn |-> k, no |-> 0] \in CallRecords
  BY ClientAssumption DEF CallRecords
<1> QED
  BY <1>2, <1>3, <1>5, <1>6, <1>7, DeliveryStep

\* The callback gets the message the thread holds; only one thread holds one.
LEMMA DeliveryDispatch ==
    ASSUME TypedInv, TypedInv', OneAttached, DeliveryInv, NEW k \in Connections, Dispatch(k)
    PROVE  DeliveryInv'
<1>1. /\ th[k] = "dispatch" /\ th' = [th EXCEPT ![k] = "check"]
      /\ UNCHANGED <<rmsg, inbox, arrived>>
  BY DEF Dispatch, Runs, ThGoto, kernVars
<1>2. /\ th \in [Connections -> ThreadLabels] /\ calls \in Seq(CallRecords) /\ StreamInv
      /\ Pending(k) /\ rmsg[k] \in Connections \X Units
  BY <1>1 DEF TypedInv, TypeOK, DeliveryInv
<1>3. \A i \in Connections : th'[i] # "dispatch"
  BY <1>1, <1>2 DEF OneAttached, Attached, Reading
<1>4. CASE UNCHANGED calls
  <2>1. [name |-> "on_connect", conn |-> k, no |-> 0] \in CallRecords
    BY ClientAssumption DEF CallRecords
  <2> QED
    BY <1>1, <1>3, <1>4, <2>1, DeliveryQuiet DEF Delivers, DataCalls
<1>5. CASE ~UNCHANGED calls
  <2>1. PICK j \in Connections, m \in Units : j = rmsg[k][1] /\ m = rmsg[k][2]
    BY <1>2
  <2>2. PICK name \in DataCalls :
           /\ calls' = Append(calls, [name |-> name, conn |-> j, no |-> m.no])
           /\ m.type = TypeOf(name)
    BY <1>5, <2>1 DEF Dispatch, DataCalls, TypeOf
  <2> DEFINE r == [name |-> name, conn |-> j, no |-> m.no]
  <2>3. /\ r \in CallRecords /\ calls' = Append(calls, r) /\ m.no >= 1 /\ m.no \in Nat
        /\ r.name = name /\ r.conn = j /\ r.no = m.no
    BY <2>2, ClientAssumption DEF CallRecords, DataCalls, Units
  <2> HIDE DEF r
  <2>4. /\ 2 * m.no <= Taken(j) /\ arrived[j][2 * m.no].type = m.type
        /\ \A i \in DOMAIN calls : Delivers(calls[i]) /\ calls[i].conn = j =>
              /\ calls[i].no # m.no
              /\ calls[i].name \in DataCalls => calls[i].no < m.no
    BY <1>2, <2>1 DEF Pending
  <2>5. Genuine(r)'
    BY <1>1, <2>2, <2>3, <2>4 DEF Genuine, Delivers, Taken
  <2>6. \A i \in DOMAIN calls : InOrder(calls[i], r)
    BY <2>2, <2>3, <2>4 DEF InOrder, Delivers
  <2>7. StreamInv' /\ Advances
    <3>1. \A i \in Connections : Taken(i)' = Taken(i) /\ Taken(i) \in Nat
      BY <1>1, <1>2, TakenTyped DEF Taken
    <3>2. UNCHANGED <<arrived, inbox>>
      BY <1>1
    <3>3. Advances
      BY <3>1, <3>2 DEF Advances
    <3>4. StreamInv'
      BY <1>2, <3>2 DEF StreamInv, Taken
    <3> QED
      BY <3>3, <3>4
  <2> QED
    BY <1>3, <2>3, <2>5, <2>6, <2>7, DeliveryStep
<1> QED
  BY <1>4, <1>5

\* Every step keeps the deliveries in order.
LEMMA DeliveryNext ==
    ASSUME TypedInv, TypedInv', OneAttached, DeliveryInv, [Next]_vars
    PROVE  DeliveryInv'
<1>1. th \in [Connections -> ThreadLabels] /\ rmsg \in [Connections -> {<<>>} \cup (Connections \X Units)]
  BY DEF TypedInv, TypeOK
<1>2. ASSUME UNCHANGED <<arrived, inbox, calls>>,
             \A k \in Connections : th'[k] = "dispatch" => th[k] = "dispatch" /\ rmsg'[k] = rmsg[k]
      PROVE  DeliveryInv'
  <2>1. CASE Connections = {}
    <3>1. calls \in Seq(CallRecords) /\ CallRecords = {}
      BY <2>1 DEF TypedInv, TypeOK, CallRecords
    <3>2. DOMAIN calls = {}
      BY <3>1
    <3> QED
      BY <1>2, <2>1, <3>2 DEF DeliveryInv, StreamInv
  <2>2. CASE Connections # {}
    <3>1. PICK j \in Connections : TRUE
      BY <2>2
    <3>2. [name |-> "on_connect", conn |-> j, no |-> 0] \in CallRecords
      BY ClientAssumption DEF CallRecords
    <3> QED
      BY <1>2, <3>2, DeliveryQuiet DEF Delivers, DataCalls
  <2> QED
    BY <2>1, <2>2
<1>3. CASE UNCHANGED vars
  BY <1>2, <1>3 DEF vars, thVars, kernVars, histVars
<1>4. CASE StartReceiver
  BY <1>1, <1>2, <1>4 DEF StartReceiver, histVars
<1>5. CASE OnConnect
  <2>1. attempts \in Connections
    BY <1>5 DEF OnConnect, TypedInv
  <2>2. PICK r \in CallRecords : r = [name |-> "on_connect", conn |-> attempts, no |-> 0]
    <3>1. [name |-> "on_connect", conn |-> attempts, no |-> 0] \in CallRecords
      BY <2>1, ClientAssumption DEF CallRecords
    <3> QED
      BY <3>1
  <2>3. ~Delivers(r)
    BY <2>2 DEF Delivers, DataCalls
  <2>4. calls' = Append(calls, r) /\ UNCHANGED <<arrived, inbox, th, rmsg>>
    BY <1>5, <2>2 DEF OnConnect, thVars, kernVars
  <2> QED
    BY <2>3, <2>4, DeliveryQuiet
<1>6. CASE Library /\ ~StartReceiver /\ ~OnConnect
  <2>1. UNCHANGED <<arrived, inbox, calls, th, rmsg>>
    BY <1>6 DEF Library, InitializeClient, OpenSocket, Dial, SetConnected, Send, LockForClose,
       CloseConnection, ForgetSocket, JoinReceiver, SetDisconnected, FreeContext, thVars,
       kernVars, histVars
  <2> QED
    BY <1>2, <2>1
<1>7. CASE Calls /\ ~ReceiveDirectly
  <2>1. UNCHANGED <<arrived, inbox, calls, th, rmsg>>
    BY <1>7 DEF Calls, ConnectToServer, BeginSend, ReceiveDirectlyFails, Disconnect, OpenForeign,
       thVars, kernVars, histVars
  <2> QED
    BY <1>2, <2>1
<1>8. ASSUME NEW k \in Connections, Receiver(k)
      PROVE  DeliveryInv'
  <2>1. CASE CheckRunning(k) \/ LoadSocket(k) \/ ReceiveNothing(k) \/ ReceiveEnds(k)
             \/ LockForEnd(k) \/ EndConnected(k)
    BY <1>1, <1>2, <2>1 DEF CheckRunning, LoadSocket, ReceiveNothing, ReceiveEnds, LockForEnd,
       EndConnected, ThGoto, WouldBlock, kernVars, histVars
  <2>2. CASE OnDisconnect(k)
    <3>1. PICK r \in CallRecords : r = [name |-> "on_disconnect", conn |-> k, no |-> 0]
      <4>1. [name |-> "on_disconnect", conn |-> k, no |-> 0] \in CallRecords
        BY ClientAssumption DEF CallRecords
      <4> QED
        BY <4>1
    <3>2. ~Delivers(r)
      BY <3>1 DEF Delivers, DataCalls
    <3>3. /\ calls' = Append(calls, r) /\ UNCHANGED <<arrived, inbox, rmsg>>
          /\ th' = [th EXCEPT ![k] = "ended"]
      BY <2>2, <3>1 DEF OnDisconnect, ThGoto, kernVars
    <3> QED
      BY <1>1, <3>2, <3>3, DeliveryQuiet
  <2> QED
    BY <1>8, <2>1, <2>2, DeliveryReceive, DeliveryDispatch DEF Receiver
<1>9. ASSUME NEW k \in Connections, Network(k)
      PROVE  DeliveryInv'
  <2>1. UNCHANGED <<th, rmsg, calls>>
    BY <1>9, NetworkFrame DEF thVars, histVars
  <2>2. CASE ConnectEnds(k) \/ PeerGoes(k)
    BY <1>2, <2>1, <2>2 DEF ConnectEnds, PeerGoes
  <2>3. CASE Arrive(k)
    <3>1. StreamInv' /\ Advances /\ StreamInv
      BY <2>3, StreamArrives DEF DeliveryInv
    <3>2. ASSUME NEW i \in Connections, th'[i] = "dispatch"
          PROVE  Pending(i)'
      <4>1. Pending(i) /\ rmsg[i] \in Connections \X Units /\ UNCHANGED rmsg[i]
        BY <2>1, <3>2 DEF DeliveryInv, TypedInv
      <4> QED
        BY <2>1, <3>1, <4>1, PendingStays
    <3>3. [name |-> "on_connect", conn |-> k, no |-> 0] \in CallRecords
      BY ClientAssumption DEF CallRecords
    <3> QED
      BY <2>1, <3>1, <3>2, <3>3, DeliveryStep
  <2> QED
    BY <1>9, <2>2, <2>3 DEF Network
<1> QED
  BY <1>3, <1>4, <1>5, <1>6, <1>7, <1>8, <1>9, DeliveryDirect DEF Next, Calls

\* Messages reach the callbacks in the order in which the peer sent them,
\* each once and as the type it was sent with, and receive_data returns none
\* of them again: for any number of connections and messages, wherever recv
\* cuts the stream and whichever thread reads next.
THEOREM AlwaysDeliveredInOrder == Spec => []DeliveredInOrder
<1>1. Init => DeliveryInv
  BY DEF Init, DeliveryInv, StreamInv
<1>2. TypedInv /\ TypedInv' /\ OneAttached /\ DeliveryInv /\ [Next]_vars => DeliveryInv'
  BY DeliveryNext
<1>3. TypedInv /\ DeliveryInv => DeliveredInOrder
  <2> SUFFICES ASSUME TypedInv, DeliveryInv
               PROVE  DeliveredInOrder
    OBVIOUS
  <2>1. /\ \A i \in Named("on_market_data") \cup Named("on_trade") :
              i \in DOMAIN calls /\ calls[i].name \in DataCalls /\ Delivers(calls[i])
        /\ \A i \in Named("receive_data") :
              /\ i \in DOMAIN calls /\ Delivers(calls[i])
              /\ calls[i].name = "receive_data" /\ calls[i].name \notin DataCalls
    BY DEF Named, DataCalls, Delivers
  <2>2. \A i, j \in DOMAIN calls : i < j => InOrder(calls[i], calls[j])
    BY DEF DeliveryInv
  <2>3. \A i \in Named("on_market_data") \cup Named("on_trade"), j \in Named("receive_data") :
           i < j \/ j < i
    <3>1. \A i \in DOMAIN calls : i \in Int
      BY DEF TypedInv, TypeOK
    <3>2. \A i, j \in DOMAIN calls : i < j \/ j < i \/ i = j
      BY <3>1
    <3> QED
      BY <2>1, <3>2
  <2>4. ASSUME NEW i \in Named("on_market_data") \cup Named("on_trade")
        PROVE  \E u \in 1 .. Len(arrived[calls[i].conn]) :
                 /\ arrived[calls[i].conn][u].no = calls[i].no
                 /\ arrived[calls[i].conn][u].part = 2
                 /\ arrived[calls[i].conn][u].type = TypeOf(calls[i].name)
    <3> DEFINE c == calls[i]
               u == 2 * c.no
               w == arrived[c.conn][u]
    <3>1. c \in CallRecords /\ c.conn \in Connections /\ c.no \in Nat
      <4>1. c \in CallRecords
        BY <2>1 DEF TypedInv, TypeOK
      <4> QED
        BY <4>1, ClientAssumption DEF CallRecords
    <3>2. c.no >= 1 /\ u <= Taken(c.conn) /\ w.type = TypeOf(c.name)
      BY <2>1 DEF DeliveryInv, Genuine
    <3>3. /\ Taken(c.conn) \in Nat /\ Taken(c.conn) <= Len(arrived[c.conn])
          /\ arrived[c.conn] \in Seq(Units) /\ StreamInv
      BY <3>1, TakenTyped DEF DeliveryInv
    <3>4. u \in 1 .. Len(arrived[c.conn])
      BY <3>1, <3>2, <3>3
    <3>5. w \in Units /\ 2 * w.no + w.part = u + 2
      <4>1. \A n \in 1 .. Len(arrived[c.conn]) :
               2 * arrived[c.conn][n].no + arrived[c.conn][n].part = n + 2
        BY <3>1, <3>3 DEF StreamInv
      <4>2. \A n \in 1 .. Len(arrived[c.conn]) : arrived[c.conn][n] \in Units
        BY <3>3
      <4> HIDE DEF c, u
      <4> QED
        BY <3>4, <4>1, <4>2
    <3>6. w.no \in Nat /\ w.part \in {1, 2}
      BY <3>5, ClientAssumption DEF Units
    <3>7. \A a, b \in Nat : /\ 2 * a + 1 = 2 * b + 2 => FALSE
                            /\ 2 * a + 2 = 2 * b + 2 => a = b
      OBVIOUS
    <3>8. w.part = 2 /\ w.no = c.no
      BY <3>1, <3>5, <3>6, <3>7
    <3> QED
      BY <3>2, <3>4, <3>8
  <2> QED
    BY <2>1, <2>2, <2>3, <2>4 DEF DeliveredInOrder, InOrder, TypeOf
<1> QED
  BY <1>1, <1>2, <1>3, TypedHolds, OneAttachedAlways, PTL DEF Spec
=============================================================================
