--------------------------- MODULE BroadcastProofs ---------------------------
(* Proof that market data reaches every client once, for any number of      *)
(* connections, messages and threads that broadcast at the same time.       *)
EXTENDS HandlersProofs

-----------------------------------------------------------------------------
(* Sequence numbers *)

\* Has taken a sequence number and works with it.
Working(t) == th[t] \in {"scan", "found", "find", "matched", "to_buyer", "to_seller"}

\* Is in the loop of broadcast_market_data.
Scanning(t) == th[t] \in {"scan", "found"}

\* The labels at which the index of a loop is in use.
Counting == {"scan", "found", "find", "matched", "shift", "close", "ended"}

USE DEF Scanning, Counting

\* A sequence number belongs to one thread at a time and to one broadcast,
\* and the number of a broadcast is used for nothing else.
NumberInv ==
    /\ \A t \in Threads : Working(t) => no[t] < seqNum
    /\ \A t, u \in Threads : Working(t) /\ Working(u) /\ no[t] = no[u] => t = u
    /\ \A i \in DOMAIN casts : casts[i].no < seqNum
    /\ \A i, j \in DOMAIN casts : casts[i].no = casts[j].no => i = j
    /\ \A c \in Conns : \A i \in DOMAIN sent[c] : sent[c][i] < seqNum
    /\ \A t \in Threads, i \in DOMAIN casts : Working(t) /\ casts[i].no = no[t] =>
          Scanning(t) /\ ~casts[i].over
    /\ \A t \in Threads : th[t] \notin Counting => pos[t] = 0

\* The types the proofs below need.
LEMMA NumberTypes ==
    ASSUME TypedInv
    PROVE  /\ seqNum \in Nat /\ th \in [Threads -> ThreadLabels] /\ no \in [Threads -> Nat]
           /\ pos \in [Threads \cup {MAIN} -> Nat] /\ sent \in [Conns -> Seq(Nat)]
           /\ casts \in Seq(Broadcasts) /\ slot \in [Conns -> {-1} \cup Slots]
           /\ \A i \in DOMAIN casts : casts[i] \in Broadcasts /\ casts[i].no \in Nat
                                      /\ casts[i].over \in BOOLEAN
           /\ \A c \in Conns : \A i \in DOMAIN sent[c] : sent[c][i] \in Nat
<1>1. /\ seqNum \in Nat /\ th \in [Threads -> ThreadLabels] /\ no \in [Threads -> Nat]
      /\ pos \in [Threads \cup {MAIN} -> Nat] /\ sent \in [Conns -> Seq(Nat)]
      /\ casts \in Seq(Broadcasts) /\ slot \in [Conns -> {-1} \cup Slots]
  BY DEF TypedInv, TypeOK
<1>2. \A i \in DOMAIN casts : casts[i] \in Broadcasts
  BY <1>1
<1>3. \A i \in DOMAIN casts : casts[i].no \in Nat /\ casts[i].over \in BOOLEAN
  BY <1>2 DEF Broadcasts
<1>4. \A c \in Conns : \A i \in DOMAIN sent[c] : sent[c][i] \in Nat
  BY <1>1
<1> QED
  BY <1>1, <1>2, <1>3, <1>4

\* A step that begins no broadcast and sends nothing; a thread may give up
\* its number.
LEMMA NumberFrame ==
    ASSUME TypedInv, NumberInv, UNCHANGED <<casts, sent>>, seqNum' \in {seqNum, seqNum + 1},
           \A t \in Threads :
              /\ Working(t)' => th'[t] = th[t] /\ no'[t] = no[t]
              /\ th'[t] \notin Counting => pos'[t] = 0
    PROVE  NumberInv'
<1>1. \A n \in Nat : n < seqNum => n < seqNum'
  BY NumberTypes
<1>2. \A t \in Threads : Working(t)' => Working(t) /\ no[t] \in Nat
  BY NumberTypes DEF Working
<1>3. NumberInv!1' /\ NumberInv!2'
  BY <1>1, <1>2 DEF NumberInv
<1>4. NumberInv!3' /\ NumberInv!4' /\ NumberInv!5'
  BY <1>1, NumberTypes DEF NumberInv
<1>5. NumberInv!6' /\ NumberInv!7'
  BY <1>2 DEF NumberInv
<1> QED
  BY <1>3, <1>4, <1>5 DEF NumberInv

\* What send() puts on a connection is one more number.
LEMMA SendAppends ==
    ASSUME NEW fd, NEW n, SendIfFound(fd, n) \/ send_response_message(fd, n)
    PROVE  \/ UNCHANGED sent
           \/ \E c \in Conns : Names(fd, c) /\ sent' = [sent EXCEPT ![c] = Append(@, n)]
BY DEF SendIfFound, send_response_message

\* A thread that works with a number sends it: to clients that have seen
\* smaller numbers than the next one only.
LEMMA NumberSent ==
    ASSUME TypedInv, NumberInv, NEW t \in Threads, Working(t),
           \/ UNCHANGED sent
           \/ \E c \in Conns : sent' = [sent EXCEPT ![c] = Append(@, no[t])]
    PROVE  \A c \in Conns : \A i \in DOMAIN sent'[c] : sent'[c][i] < seqNum
<1>1. CASE UNCHANGED sent
  BY <1>1 DEF NumberInv
<1>2. ASSUME NEW d \in Conns, sent' = [sent EXCEPT ![d] = Append(@, no[t])]
      PROVE  \A c \in Conns : \A i \in DOMAIN sent'[c] : sent'[c][i] < seqNum
  <2>1. sent[d] \in Seq(Nat) /\ no[t] \in Nat /\ sent \in [Conns -> Seq(Nat)]
    BY NumberTypes
  <2>2. \A i \in DOMAIN Append(sent[d], no[t]) :
           (i \in DOMAIN sent[d] /\ Append(sent[d], no[t])[i] = sent[d][i])
           \/ Append(sent[d], no[t])[i] = no[t]
    BY <2>1
  <2>3. \A i \in DOMAIN Append(sent[d], no[t]) : Append(sent[d], no[t])[i] < seqNum
    BY <2>2 DEF NumberInv
  <2> QED
    BY <1>2, <2>1, <2>3 DEF NumberInv
<1> QED
  BY <1>1, <1>2

\* The same for a thread that sends and keeps its number, or gives it up.
LEMMA NumberSends ==
    ASSUME TypedInv, NumberInv, NEW t \in Threads, Working(t), UNCHANGED <<casts, seqNum>>,
           \/ UNCHANGED sent
           \/ \E c \in Conns : sent' = [sent EXCEPT ![c] = Append(@, no[t])],
           \A u \in Threads :
              /\ Working(u)' => /\ Working(u) /\ no'[u] = no[u]
                                /\ Scanning(u) => Scanning(u)'
              /\ th'[u] \notin Counting => pos'[u] = 0
    PROVE  NumberInv'
<1>1. \A c \in Conns : \A i \in DOMAIN sent'[c] : sent'[c][i] < seqNum
  BY NumberSent
<1>2. NumberInv!1' /\ NumberInv!2' /\ NumberInv!3' /\ NumberInv!4' /\ NumberInv!5'
  BY <1>1 DEF NumberInv
<1>3. NumberInv!6' /\ NumberInv!7'
  BY DEF NumberInv
<1> QED
  BY <1>2, <1>3 DEF NumberInv

\* A thread that is moved on, and not into a message handler, keeps the
\* numbers as they are.
LEMMA NumberMoves ==
    ASSUME TypedInv, NumberInv, UNCHANGED <<casts, sent, no>>, seqNum' \in {seqNum, seqNum + 1},
           NEW t \in Threads, NEW l \in ThreadLabels, ~Working(t),
           th' = [th EXCEPT ![t] = l], l \notin {"scan", "found", "find", "matched", "to_buyer", "to_seller"},
           \A u \in Threads : u # t => pos'[u] = pos[u],
           l \notin {"shift", "close", "ended"} => pos'[t] = 0
    PROVE  NumberInv'
<1>1. th \in [Threads -> ThreadLabels]
  BY NumberTypes
<1>2. \A u \in Threads : /\ Working(u)' => th'[u] = th[u] /\ no'[u] = no[u]
                         /\ th'[u] \notin Counting => pos'[u] = 0
  BY <1>1 DEF Working, NumberInv
<1> QED
  BY <1>2, NumberFrame

\* The accepting thread, the clients and the application.
LEMMA NumberMain ==
    ASSUME TypedInv, CountInv, NumberInv,
           \/ Main \/ UNCHANGED vars
           \/ \E c \in Conns : Accept(c) \/ Arrive(c) \/ Leave(c)
           \/ (\E m \in HandedIn : handle_message(m)) \/ generate_id \/ Signal
    PROVE  NumberInv'
<1>0. /\ th \in [Threads -> ThreadLabels] /\ pos \in [Threads \cup {MAIN} -> Nat]
      /\ HOST \in Threads /\ Conns \subseteq Threads /\ MAIN \notin Threads
      /\ \A t \in Threads : th[t] \notin Counting => pos[t] = 0
  BY HandlersAssumption, NumberTypes DEF Threads, NumberInv, MAIN
<1>1. ASSUME UNCHANGED <<casts, sent, seqNum, th, no, pos>>
      PROVE  NumberInv'
  BY <1>0, <1>1, NumberFrame
<1>2. CASE Register
  <2>1. /\ newConn \in Threads /\ th[newConn] = "none" /\ th' = [th EXCEPT ![newConn] = "check"]
        /\ UNCHANGED <<casts, sent, seqNum, no, pos>>
    BY <1>0, <1>2 DEF Register, CountInv, TypedInv, locals, netVars, histVars
  <2>2. ~Working(newConn) /\ pos'[newConn] = 0 /\ "check" \in ThreadLabels
    BY <1>0, <2>1 DEF Working, ThreadLabels
  <2> QED
    BY <2>1, <2>2, NumberMoves
<1>3. CASE Refuse \/ StopServer \/ Stopped \/ FreeContext
  BY <1>1, <1>3 DEF Refuse, StopServer, Stopped, FreeContext, thVars, locals, netVars, histVars
<1>4. CASE StopClient
  <2>1. UNCHANGED <<casts, sent, seqNum, th, no>> /\ \A t \in Threads : pos'[t] = pos[t]
    BY <1>0, <1>4 DEF StopClient, histVars
  <2> QED
    BY <1>0, <2>1, NumberFrame
<1>5. ASSUME NEW c \in Conns, Accept(c) \/ Arrive(c) \/ Leave(c)
      PROVE  NumberInv'
  BY <1>1, <1>5 DEF Accept, Arrive, Leave, thVars, locals, netVars, histVars
<1>6. ASSUME NEW m \in HandedIn, handle_message(m)
      PROVE  NumberInv'
  <2>1. /\ th[HOST] = "none" /\ th' = [th EXCEPT ![HOST] = "work"]
        /\ UNCHANGED <<casts, sent, seqNum, no, pos>>
    BY <1>6 DEF handle_message, Runs, ThGoto, netVars
  <2>2. ~Working(HOST) /\ pos'[HOST] = 0 /\ "work" \in ThreadLabels
    BY <1>0, <2>1 DEF Working, ThreadLabels
  <2> QED
    BY <1>0, <2>1, <2>2, NumberMoves
<1>7. CASE generate_id
  <2>1. UNCHANGED <<casts, sent, th, no, pos>> /\ seqNum' = seqNum + 1
    BY <1>7 DEF generate_id, thVars, locals, netVars
  <2> QED
    BY <1>0, <2>1, NumberFrame
<1>8. CASE Signal \/ UNCHANGED vars
  BY <1>1, <1>8 DEF Signal, vars, thVars, locals, netVars, histVars
<1> QED
  BY <1>2, <1>3, <1>4, <1>5, <1>6, <1>7, <1>8 DEF Main

\* The loop of handle_client and disconnect_client.
LEMMA NumberLoop ==
    ASSUME TypedInv, NumberInv, NEW c \in Conns,
           \/ CheckRunning(c) \/ Receive(c) \/ ReceiveEnds(c)
           \/ Lock(c) \/ Remove(c) \/ Shift(c) \/ Unlock(c) \/ Close(c)
    PROVE  NumberInv'
<1>0. /\ th \in [Threads -> ThreadLabels] /\ pos \in [Threads \cup {MAIN} -> Nat]
      /\ c \in Threads
      /\ th[c] \notin Counting => pos[c] = 0
  BY NumberTypes DEF Threads, NumberInv
<1>1. UNCHANGED <<casts, sent, seqNum, no>>
  BY DEF CheckRunning, Receive, ReceiveEnds, Lock, Remove, Shift, Unlock, Close, locals, netVars,
     histVars
<1>2. \A u \in Threads : u # c => pos'[u] = pos[u]
  BY <1>0 DEF CheckRunning, Receive, ReceiveEnds, Lock, Remove, NotFound, Shift, Unlock, Close, locals
<1>3. CASE CheckRunning(c) \/ Receive(c) \/ ReceiveEnds(c) \/ Lock(c)
  <2>1. /\ th[c] \in {"check", "recv", "lock"} /\ UNCHANGED pos
        /\ \E l \in {"recv", "lock", "check", "work", "remove"} : th' = [th EXCEPT ![c] = l]
    BY <1>3 DEF CheckRunning, Receive, ReceiveEnds, Lock, Runs, ThGoto, locals
  <2>2. ~Working(c) /\ pos'[c] = 0 /\ {"recv", "lock", "check", "work", "remove"} \subseteq ThreadLabels
    BY <1>0, <2>1 DEF Working, ThreadLabels
  <2> QED
    BY <1>0, <1>1, <1>2, <2>1, <2>2, NumberMoves
<1>4. CASE Remove(c) \/ Shift(c) \/ Unlock(c) \/ Close(c)
  <2>1. /\ th[c] \in {"remove", "shift", "close"}
        /\ \E l \in {"shift", "close", "ended"} : th' = [th EXCEPT ![c] = l]
    BY <1>0, <1>4 DEF Remove, NotFound, Shift, Unlock, Close, Runs, ThGoto
  <2>2. ~Working(c) /\ {"shift", "close", "ended"} \subseteq ThreadLabels
    BY <2>1 DEF Working, ThreadLabels
  <2> QED
    BY <1>0, <1>1, <1>2, <2>1, <2>2, NumberMoves
<1> QED
  BY <1>3, <1>4

\* A message handler that returns gives up its number.
LEMMA NumberGivenUp ==
    ASSUME TypedInv, NumberInv, NEW t \in Threads, Finish(t)
    PROVE  /\ th' = [th EXCEPT ![t] = th'[t]] /\ th'[t] \in {"none", "check"} /\ ~Working(t)'
           /\ \A u \in Threads : u # t => no'[u] = no[u]
           /\ \A u \in Threads :
                 th'[u] \notin Counting => pos'[u] = 0
<1>1. /\ th \in [Threads -> ThreadLabels] /\ pos \in [Threads \cup {MAIN} -> Nat]
      /\ no \in [Threads -> Nat]
  BY NumberTypes
<1>2. th' = [th EXCEPT ![t] = IF t = HOST THEN "none" ELSE "check"]
  BY DEF Finish, ThGoto
<1>3. th'[t] \in {"none", "check"}
  BY <1>1, <1>2
<1>4. pos' = [pos EXCEPT ![t] = 0] /\ no' = [no EXCEPT ![t] = 0]
  BY DEF Finish
<1> QED
  BY <1>1, <1>2, <1>3, <1>4 DEF Working, NumberInv

\* A thread that begins to work takes the next number, which nobody has.
LEMMA NumberTaken ==
    ASSUME TypedInv, NumberInv, NEW t \in Threads, ~Working(t), TakeNumber(t), UNCHANGED sent,
           NEW l \in {"scan", "find"}, ThGoto(t, l)
    PROVE  /\ NumberInv!1' /\ NumberInv!2' /\ NumberInv!5' /\ NumberInv!7'
           /\ \A u \in Threads : u # t => (Working(u)' <=> Working(u)) /\ th'[u] = th[u]
                                          /\ no'[u] = no[u]
           /\ no'[t] = seqNum /\ th'[t] = l /\ seqNum' = seqNum + 1
<1>1. /\ th \in [Threads -> ThreadLabels] /\ no \in [Threads -> Nat] /\ seqNum \in Nat
      /\ \A c \in Conns : \A i \in DOMAIN sent[c] : sent[c][i] \in Nat
  BY NumberTypes
<1>2. /\ \A u \in Threads : u # t => (Working(u)' <=> Working(u)) /\ th'[u] = th[u]
                                     /\ no'[u] = no[u]
      /\ no'[t] = seqNum /\ th'[t] = l /\ seqNum' = seqNum + 1 /\ UNCHANGED pos
  BY <1>1 DEF TakeNumber, ThGoto, Working
<1>3. \A u \in Threads : u # t /\ Working(u) => no[u] < seqNum /\ no[u] # seqNum
  BY <1>1 DEF NumberInv
<1>4. \A n \in Nat : n < seqNum => n < seqNum'
  BY <1>1, <1>2
<1>5. seqNum < seqNum'
  BY <1>1, <1>2
<1>6. NumberInv!1'
  BY <1>1, <1>2, <1>4, <1>5 DEF NumberInv
<1>7. NumberInv!2'
  BY <1>2, <1>3 DEF NumberInv
<1>8. NumberInv!5' /\ NumberInv!7'
  BY <1>1, <1>2, <1>4 DEF NumberInv
<1> QED
  BY <1>2, <1>6, <1>7, <1>8

\* The broadcasts so far and the one that begins.
LEMMA CastsAppend ==
    ASSUME TypedInv, NEW t \in Threads, broadcast_market_data(t)
    PROVE  \A i \in DOMAIN casts' :
              \/ i \in DOMAIN casts /\ casts'[i] = casts[i]
              \/ i = Len(casts) + 1 /\ i \notin DOMAIN casts
                 /\ casts'[i] = [no |-> seqNum, audience |-> Registered, over |-> FALSE]
<1>1. casts \in Seq(Broadcasts)
  BY NumberTypes
<1>2. [no |-> seqNum, audience |-> Registered, over |-> FALSE] \in Broadcasts
  BY NumberTypes DEF Broadcasts, Registered
<1>3. PICK b \in Broadcasts : /\ b = [no |-> seqNum, audience |-> Registered, over |-> FALSE]
                              /\ casts' = Append(casts, b)
  BY <1>2 DEF broadcast_market_data
<1>4. \A i \in DOMAIN Append(casts, b) :
         \/ i \in DOMAIN casts /\ Append(casts, b)[i] = casts[i]
         \/ i = Len(casts) + 1 /\ i \notin DOMAIN casts /\ Append(casts, b)[i] = b
  BY <1>1
<1> QED
  BY <1>3, <1>4

\* The handlers of messages.
LEMMA NumberWork ==
    ASSUME TypedInv, NumberInv, NEW t \in Threads, Work(t)
    PROVE  NumberInv'
<1>0. /\ th \in [Threads -> ThreadLabels] /\ pos \in [Threads \cup {MAIN} -> Nat]
      /\ no \in [Threads -> Nat] /\ seqNum \in Nat
      /\ \A i \in DOMAIN casts : casts[i].no \in Nat /\ casts[i].no < seqNum
  BY NumberTypes DEF NumberInv
<1>1. ASSUME Dispatch(t), Finish(t), seqNum' \in {seqNum, seqNum + 1}, UNCHANGED casts
      PROVE  NumberInv'
  <2>1. UNCHANGED sent
    BY <1>1 DEF Dispatch, netVars
  <2>2. \A u \in Threads : Working(u)' => th'[u] = th[u] /\ no'[u] = no[u]
    BY <1>0, <1>1, NumberGivenUp
  <2> QED
    BY <1>1, <2>1, <2>2, NumberGivenUp, NumberFrame
<1>2. CASE Dispatch(t) /\ process_trade_execution(t)
  <2>1. ~Working(t) /\ TakeNumber(t) /\ UNCHANGED <<sent, casts>> /\ ThGoto(t, "find")
    BY <1>2 DEF Dispatch, Runs, Working, process_trade_execution, netVars
  <2>2. /\ NumberInv!1' /\ NumberInv!2' /\ NumberInv!5' /\ NumberInv!7'
        /\ \A u \in Threads : u # t => (Working(u)' <=> Working(u)) /\ th'[u] = th[u]
                                       /\ no'[u] = no[u]
        /\ no'[t] = seqNum /\ seqNum' = seqNum + 1
    BY <2>1, NumberTaken
  <2>3. NumberInv!3' /\ NumberInv!4'
    BY <1>0, <2>1, <2>2 DEF NumberInv
  <2>4. NumberInv!6'
    BY <1>0, <2>1, <2>2 DEF NumberInv
  <2> QED
    BY <2>2, <2>3, <2>4 DEF NumberInv
<1>3. CASE Dispatch(t) /\ broadcast_market_data(t)
  <2>1. ~Working(t) /\ TakeNumber(t) /\ UNCHANGED sent /\ ThGoto(t, "scan")
    BY <1>3 DEF Dispatch, Runs, Working, broadcast_market_data, netVars
  <2>2. /\ NumberInv!1' /\ NumberInv!2' /\ NumberInv!5' /\ NumberInv!7'
        /\ \A u \in Threads : u # t => (Working(u)' <=> Working(u)) /\ th'[u] = th[u]
                                       /\ no'[u] = no[u]
        /\ no'[t] = seqNum /\ Scanning(t)' /\ seqNum' = seqNum + 1
    BY <2>1, NumberTaken
  <2>3. \A i \in DOMAIN casts' : (i \in DOMAIN casts /\ casts'[i] = casts[i])
                                 \/ (i = Len(casts) + 1 /\ casts'[i].no = seqNum /\ ~casts'[i].over)
    BY <1>3, CastsAppend
  <2>4. NumberInv!3' /\ NumberInv!4'
    <3>1. NumberInv!3'
      BY <1>0, <2>2, <2>3 DEF NumberInv
    <3>2. NumberInv!4'
      BY <1>0, <2>2, <2>3 DEF NumberInv
    <3> QED
      BY <3>1, <3>2
  <2>5. NumberInv!6'
    <3>1. \A u \in Threads : u # t /\ Working(u) => no[u] # seqNum
      BY <1>0 DEF NumberInv
    <3> QED
      BY <1>0, <2>2, <2>3, <3>1 DEF NumberInv
  <2> QED
    BY <2>2, <2>4, <2>5 DEF NumberInv
<1>4. CASE Dispatch(t)
  BY <1>1, <1>2, <1>3, <1>4 DEF Dispatch, process_order, NoEffect
<1>5. CASE Scan(t) \/ SendFound(t)
  <2>1. /\ Scanning(t) /\ UNCHANGED <<casts, seqNum, no>>
        /\ \A u \in Threads : u # t => pos'[u] = pos[u]
        /\ UNCHANGED th \/ ThGoto(t, "found") \/ ThGoto(t, "scan")
        /\ UNCHANGED sent \/ \E fd : send_response_message(fd, no[t])
    BY <1>0, <1>5 DEF Scan, SendFound, Runs, netVars, histVars
  <2>2. UNCHANGED sent \/ \E c \in Conns : sent' = [sent EXCEPT ![c] = Append(@, no[t])]
    BY <2>1, SendAppends
  <2>3. Scanning(t)' /\ \A u \in Threads : u # t => th'[u] = th[u]
    BY <1>0, <2>1 DEF ThGoto
  <2>4. \A u \in Threads :
           /\ Working(u)' => /\ Working(u) /\ no'[u] = no[u]
                             /\ Scanning(u) => Scanning(u)'
           /\ th'[u] \notin Counting => pos'[u] = 0
    BY <2>1, <2>3 DEF Working, NumberInv
  <2>5. Working(t)
    BY <2>1 DEF Working
  <2> QED
    BY <2>1, <2>2, <2>4, <2>5, NumberSends
<1>6. CASE ScanEnds(t)
  <2>1. /\ Finish(t) /\ UNCHANGED <<sent, seqNum>> /\ Working(t)
        /\ casts' = [i \in DOMAIN casts |-> [casts[i] EXCEPT !.over = @ \/ casts[i].no = no[t]]]
    BY <1>6 DEF ScanEnds, Runs, Working, netVars
  <2>2. /\ DOMAIN casts' = DOMAIN casts
        /\ \A i \in DOMAIN casts : /\ casts'[i].no = casts[i].no
                                   /\ casts[i].no # no[t] /\ ~casts[i].over => ~casts'[i].over
    <3>1. \A i \in DOMAIN casts : casts[i] \in Broadcasts
      BY NumberTypes
    <3> QED
      BY <2>1, <3>1 DEF Broadcasts
  <2>3. /\ \A u \in Threads : Working(u)' => u # t /\ Working(u) /\ th'[u] = th[u] /\ no'[u] = no[u]
        /\ NumberInv!7'
    <3>1. /\ th' = [th EXCEPT ![t] = th'[t]] /\ ~Working(t)'
          /\ \A u \in Threads : u # t => no'[u] = no[u]
          /\ NumberInv!7'
      BY <2>1, NumberGivenUp
    <3> QED
      BY <1>0, <3>1 DEF Working
  <2>4. NumberInv!1' /\ NumberInv!2' /\ NumberInv!3' /\ NumberInv!4' /\ NumberInv!5'
    <3>1. NumberInv!1' /\ NumberInv!2' /\ NumberInv!5'
      BY <2>1, <2>3 DEF NumberInv
    <3>2. NumberInv!3'
      BY <2>1, <2>2 DEF NumberInv
    <3>3. NumberInv!4'
      BY <2>2 DEF NumberInv
    <3> QED
      BY <3>1, <3>2, <3>3
  <2>5. NumberInv!6'
    BY <2>1, <2>2, <2>3 DEF NumberInv
  <2> QED
    BY <2>3, <2>4, <2>5 DEF NumberInv
<1>7. CASE find_client_socket(t)
  <2>1. th[t] \in {"find", "matched"} /\ UNCHANGED <<casts, seqNum, sent, no>>
    BY <1>7 DEF find_client_socket, Runs, netVars, histVars
  <2>2. \/ UNCHANGED th /\ pos' = [pos EXCEPT ![t] = @ + 1]
        \/ UNCHANGED pos /\ th' = [th EXCEPT ![t] = "matched"]
        \/ \E l \in {"find", "to_buyer"} :
              th' = [th EXCEPT ![t] = l] /\ pos' = [pos EXCEPT ![t] = 0]
    BY <1>7 DEF find_client_socket, Result, ThGoto
  <2>3. \A u \in Threads :
           /\ Working(u)' => /\ Working(u) /\ no'[u] = no[u]
                             /\ Scanning(u) => Scanning(u)'
           /\ th'[u] \notin Counting => pos'[u] = 0
    BY <1>0, <2>1, <2>2 DEF Working, NumberInv
  <2>4. Working(t)
    BY <2>1 DEF Working
  <2> QED
    BY <2>1, <2>3, <2>4, NumberSends
<1>8. CASE SendTrade(t)
  <2>1. /\ th[t] \in {"to_buyer", "to_seller"} /\ UNCHANGED <<casts, seqNum>>
        /\ \E fd : SendIfFound(fd, no[t])
        /\ (ThGoto(t, "to_seller") /\ UNCHANGED <<no, pos>> /\ th[t] = "to_buyer") \/ Finish(t)
    BY <1>8 DEF SendTrade, Runs, locals, histVars
  <2>2. UNCHANGED sent \/ \E c \in Conns : sent' = [sent EXCEPT ![c] = Append(@, no[t])]
    BY <2>1, SendAppends
  <2>3. \A u \in Threads :
           /\ Working(u)' => /\ Working(u) /\ no'[u] = no[u]
                             /\ Scanning(u) => Scanning(u)'
           /\ th'[u] \notin Counting => pos'[u] = 0
    <3>1. CASE Finish(t)
      BY <1>0, <3>1, NumberGivenUp DEF Working
    <3>2. CASE ThGoto(t, "to_seller") /\ UNCHANGED <<no, pos>> /\ th[t] = "to_buyer"
      BY <1>0, <3>2 DEF Working, ThGoto, NumberInv
    <3> QED
      BY <2>1, <3>1, <3>2
  <2>4. Working(t)
    BY <2>1 DEF Working
  <2> QED
    BY <2>1, <2>2, <2>3, <2>4, NumberSends
<1> QED
  BY <1>4, <1>5, <1>6, <1>7, <1>8 DEF Work

\* Sequence numbers are never shared, in any reachable state.
LEMMA NumberHolds == Spec => []NumberInv
<1>1. Init => NumberInv
  <2> SUFFICES ASSUME Init
               PROVE  NumberInv
    OBVIOUS
  <2>1. casts = <<>> /\ sent = [c \in Conns |-> <<>>] /\ pos = [t \in Threads \cup {MAIN} |-> 0]
        /\ th = [t \in Threads |-> "none"]
    BY DEF Init
  <2>2. DOMAIN casts = {} /\ \A c \in Conns : DOMAIN sent[c] = {}
    BY <2>1
  <2> QED
    BY <2>1, <2>2 DEF NumberInv, Working
<1>2. TypedInv /\ CountInv /\ NumberInv /\ [Next]_vars => NumberInv'
  <2> SUFFICES ASSUME TypedInv, CountInv, NumberInv, [Next]_vars
               PROVE  NumberInv'
    OBVIOUS
  <2>1. HOST \in Threads /\ Conns \subseteq Threads
    BY DEF Threads
  <2>2. ASSUME NEW c \in Conns, Handler(c)
        PROVE  NumberInv'
    BY <2>1, <2>2, NumberLoop, NumberWork DEF Handler
  <2> QED
    BY <2>1, <2>2, NumberMain, NumberWork DEF Next, Environment
<1> QED
  BY <1>1, <1>2, TypedHolds, CountHolds, PTL DEF Spec

-----------------------------------------------------------------------------
(* The table before the first removal *)

\* As long as no client has been removed the table is the list of the
\* handlers that were started, each with the socket of its connection, and
\* the rest of the table is empty.
TableInv ==
    /\ \A i \in Slots : i < count =>
          /\ clients[i].thread \in Conns /\ th[clients[i].thread] # "none"
          /\ slot[clients[i].thread] = i
          /\ Names(clients[i].socket, clients[i].thread)
    /\ \A i \in Slots : i >= count => clients[i].socket = 0
    /\ \A c \in Conns : th[c] # "none" => slot[c] < count /\ clients[slot[c]].thread = c
    /\ main = "register" => Names(newSocket, newConn)

\* The steps between states in which nobody has been removed, and what the
\* others than those of accept_client leave as it was.
LEMMA QuietStep ==
    ASSUME TypedInv, CountInv, [Next]_vars, NobodyRemoved'
    PROVE  /\ NobodyRemoved
           /\ \/ \E c \in Conns : Accept(c)
              \/ Register
              \/ Refuse
              \/ /\ UNCHANGED <<clients, count, slot, fdTable, newSocket, newConn, main>>
                 /\ \A c \in Conns : th'[c] = "none" <=> th[c] = "none"
<1> DEFINE Calm == /\ UNCHANGED <<clients, count, slot, fdTable, newSocket, newConn, main>>
                   /\ \A c \in Conns : th'[c] = "none" <=> th[c] = "none"
<1>0. /\ th \in [Threads -> ThreadLabels] /\ Conns \subseteq Threads /\ HOST \notin Conns
      /\ HOST \in Threads
      /\ main = "register" => newConn \in Conns
      /\ main' \in {"accept", "register"}
      /\ \A c \in Conns : th'[c] \notin {"shift", "close", "ended"}
  BY HandlersAssumption DEF TypedInv, TypeOK, Threads, NobodyRemoved
<1>1. ASSUME NEW c \in Conns, Accept(c)
      PROVE  NobodyRemoved
  BY <1>0, <1>1 DEF Accept, thVars, NobodyRemoved
<1>2. CASE Refuse
  BY <1>0, <1>2 DEF Refuse, thVars, NobodyRemoved
<1>3. CASE UNCHANGED vars
  <2>1. Calm /\ UNCHANGED th
    BY <1>3 DEF vars, mainVars, ctxVars, thVars, netVars
  <2> QED
    BY <1>0, <2>1 DEF NobodyRemoved
<1>4. CASE StopServer \/ StopClient \/ Stopped \/ FreeContext
  BY <1>0, <1>4 DEF StopServer, StopClient, Stopped, FreeContext, mainVars
<1>5. ASSUME NEW t \in Threads, Work(t)
      PROVE  NobodyRemoved /\ Calm
  <2>1. /\ UNCHANGED <<clients, count, slot, fdTable, newSocket, newConn>>
        /\ main' \in {main, "killed"}
        /\ th[t] \notin {"none", "shift", "close", "ended"} \/ t = HOST
        /\ th' = [th EXCEPT ![t] = th'[t]]
        /\ t = HOST \/ th'[t] # "none"
    BY <1>0, <1>5, WorkFrame DEF ctxVars
  <2>2. th[t] \notin {"shift", "close", "ended"}
    BY <1>5, WorkFrame
  <2> QED
    BY <1>0, <2>1, <2>2 DEF NobodyRemoved
<1>6. ASSUME NEW c \in Conns, CheckRunning(c) \/ Receive(c) \/ ReceiveEnds(c) \/ Lock(c)
      PROVE  NobodyRemoved /\ Calm
  <2>1. /\ UNCHANGED <<clients, count, slot, fdTable, newSocket, newConn, main>>
        /\ th[c] \in {"check", "recv", "lock"}
        /\ \E l \in {"recv", "lock", "check", "work", "remove"} : th' = [th EXCEPT ![c] = l]
    BY <1>6 DEF CheckRunning, Receive, ReceiveEnds, Lock, Runs, ThGoto, mainVars, ctxVars, netVars
  <2> QED
    BY <1>0, <2>1 DEF NobodyRemoved
<1>7. ASSUME NEW c \in Conns, Remove(c) \/ Shift(c) \/ Unlock(c) \/ Close(c)
      PROVE  FALSE
  <2>1. \E l \in {"shift", "close", "ended"} : th' = [th EXCEPT ![c] = l]
    BY <1>0, <1>7 DEF Remove, NotFound, Shift, Unlock, Close, Runs, ThGoto
  <2> QED
    BY <1>0, <2>1
<1>8. ASSUME NEW c \in Conns, Handler(c)
      PROVE  NobodyRemoved /\ Calm
  BY <1>0, <1>5, <1>6, <1>7, <1>8 DEF Handler
<1>9. ASSUME NEW c \in Conns, Arrive(c) \/ Leave(c)
      PROVE  NobodyRemoved /\ Calm
  <2>1. Calm /\ UNCHANGED th
    BY <1>9 DEF Arrive, Leave, mainVars, ctxVars, thVars
  <2> QED
    BY <1>0, <2>1 DEF NobodyRemoved
<1>10. ASSUME NEW m \in HandedIn, handle_message(m)
       PROVE  NobodyRemoved /\ Calm
  <2>1. /\ UNCHANGED <<clients, count, slot, fdTable, newSocket, newConn, main>>
        /\ th' = [th EXCEPT ![HOST] = "work"]
    BY <1>10 DEF handle_message, ThGoto, mainVars, ctxVars, netVars
  <2> QED
    BY <1>0, <2>1 DEF NobodyRemoved
<1>11. CASE generate_id \/ Signal
  <2>1. Calm /\ UNCHANGED th
    BY <1>11 DEF generate_id, Signal, mainVars, ctxVars, thVars, netVars
  <2> QED
    BY <1>0, <2>1 DEF NobodyRemoved
<1>12. CASE Register
  <2>1. main = "register" /\ newConn \in Conns /\ th' = [th EXCEPT ![newConn] = "check"]
    BY <1>0, <1>12 DEF Register
  <2>2. ASSUME NEW c \in Conns
        PROVE  th[c] \notin {"shift", "close", "ended"}
    <3>1. CASE c # newConn
      BY <1>0, <2>1, <3>1
    <3>2. CASE c = newConn
      BY <2>1, <3>2 DEF CountInv
    <3> QED
      BY <3>1, <3>2
  <2> QED
    BY <1>12, <2>1, <2>2 DEF NobodyRemoved
<1> QED
  BY <1>0, <1>1, <1>2, <1>3, <1>4, <1>5, <1>8, <1>9, <1>10, <1>11, <1>12 DEF Next, Main, Environment

\* Registration keeps the table and the handlers in step.
LEMMA TableHolds == Spec => [](NobodyRemoved => TableInv)
<1>1. Init => TableInv
  <2> SUFFICES ASSUME Init
               PROVE  TableInv
    OBVIOUS
  <2>1. /\ count = 0 /\ main = "accept" /\ clients = [i \in Slots |-> Entry]
        /\ \A c \in Conns : th[c] = "none"
    BY DEF Init, Threads
  <2>2. Slots \subseteq Nat
    BY DEF Slots
  <2>3. \A i \in Slots : ~(i < 0) /\ clients[i].socket = 0
    BY <2>1, <2>2 DEF Entry
  <2> QED
    BY <2>1, <2>3 DEF TableInv
<1>2. TypedInv /\ CountInv /\ (NobodyRemoved => TableInv) /\ [Next]_vars
         => (NobodyRemoved => TableInv)'
  <2> SUFFICES ASSUME TypedInv, CountInv, TableInv, [Next]_vars, NobodyRemoved, NobodyRemoved'
               PROVE  TableInv'
    BY QuietStep
  <2>0. /\ th \in [Threads -> ThreadLabels] /\ Conns \subseteq Threads
        /\ main = "register" => newSocket \in Fds /\ newConn \in Conns
        /\ fdTable \in [Fds -> {"free"} \cup Conns] /\ "free" \notin Conns
        /\ count \in Nat /\ Slots \subseteq Nat /\ count <= MaxClients
        /\ clients \in [Slots -> Entries] /\ slot \in [Conns -> {-1} \cup Slots]
        /\ \A c \in Conns : th[c] # "none" => slot[c] \in Slots
    BY HandlersAssumption DEF TypedInv, TypeOK, Threads, Slots
  <2>1. ASSUME NEW c \in Conns, Accept(c)
        PROVE  TableInv'
    <3>1. PICK fd \in Fds : /\ fdTable[fd] = "free" /\ newSocket' = fd
                            /\ fdTable' = [fdTable EXCEPT ![fd] = c]
      BY <2>1 DEF Accept, LowestFree
    <3>2. UNCHANGED <<clients, count, th, slot>> /\ newConn' = c
      BY <2>1 DEF Accept, ctxVars, thVars
    <3>3. \A g, d : d \in Conns /\ Names(g, d) => Names(g, d)'
      BY <2>0, <3>1 DEF Names
    <3>4. Names(newSocket, newConn)'
      BY <2>0, <3>1, <3>2 DEF Names
    <3>5. TableInv!1'
      BY <3>2, <3>3 DEF TableInv
    <3> QED
      BY <3>2, <3>4, <3>5 DEF TableInv
  <2>2. CASE Refuse
    <3>1. /\ main = "register" /\ UNCHANGED <<clients, count, th, slot>> /\ main' = "accept"
          /\ fdTable' = [g \in Fds |-> IF g = newSocket THEN "free" ELSE fdTable[g]]
      BY <2>2 DEF Refuse, NextAccept, CloseFd, ctxVars, thVars
    <3>2. th[newConn] = "none" /\ fdTable[newSocket] = newConn
      BY <3>1 DEF CountInv, TableInv, Names
    <3>3. ASSUME NEW i \in Slots, i < count
          PROVE  Names(clients[i].socket, clients[i].thread)'
      <4>1. clients[i].socket \in Fds /\ fdTable[clients[i].socket] = clients[i].thread
            /\ th[clients[i].thread] # "none"
        BY <3>3 DEF TableInv, Names
      <4>2. clients[i].socket # newSocket
        BY <3>2, <4>1
      <4> QED
        BY <3>1, <4>1, <4>2 DEF Names
    <3>4. TableInv!1'
      BY <3>1, <3>3 DEF TableInv
    <3> QED
      BY <3>1, <3>4 DEF TableInv
  <2>3. CASE Register
    <3>1. /\ main = "register" /\ main' = "accept" /\ count' = count + 1 /\ UNCHANGED fdTable
          /\ slot' = [slot EXCEPT ![newConn] = count]
          /\ th' = [th EXCEPT ![newConn] = "check"]
          /\ th[newConn] = "none" /\ newConn \in Conns /\ Names(newSocket, newConn)
      BY <2>0, <2>3 DEF Register, NextAccept, CountInv, TableInv, netVars
    <3>2. count \in Slots
      BY <2>0, <2>3, HandlersAssumption DEF Register, AtCapacity, Slots
    <3>3. clients' = [clients EXCEPT ![count] =
                        [clients[count] EXCEPT !.socket = newSocket, !.active = Tracked,
                                               !.thread = newConn]]
      BY <2>0, <2>3, <3>2 DEF Register
    <3>4. clients[count] \in Entries
      BY <2>0, <3>2
    <3>5. /\ clients'[count].socket = newSocket /\ clients'[count].thread = newConn
          /\ \A i \in Slots : i # count => clients'[i] = clients[i]
      BY <2>0, <3>2, <3>3, <3>4 DEF Entries
    <3>6. ASSUME NEW i \in Slots, i < count'
          PROVE  /\ clients'[i].thread \in Conns /\ th'[clients'[i].thread] # "none"
                 /\ slot'[clients'[i].thread] = i
                 /\ Names(clients[i].socket, clients[i].thread)'
      <4>1. CASE i = count
        BY <2>0, <3>1, <3>5, <4>1 DEF Names
      <4>2. CASE i # count
        <5>1. i < count
          BY <2>0, <3>1, <3>6, <4>2
        <5>2. /\ clients[i].thread \in Conns /\ th[clients[i].thread] # "none"
              /\ slot[clients[i].thread] = i
              /\ Names(clients[i].socket, clients[i].thread)
          BY <5>1 DEF TableInv
        <5> QED
          BY <2>0, <3>1, <3>5, <4>2, <5>2 DEF Names
      <4> QED
        BY <4>1, <4>2
    <3>7. \A i \in Slots : i >= count' => clients'[i].socket = 0
      <4>1. \A i \in Slots : i >= count' => i >= count /\ i # count
        BY <2>0, <3>1
      <4> QED
        BY <3>5, <4>1 DEF TableInv
    <3>8. ASSUME NEW c \in Conns, th'[c] # "none"
          PROVE  slot'[c] < count' /\ clients'[slot'[c]].thread = c
      <4>1. CASE c = newConn
        BY <2>0, <3>1, <3>5, <4>1
      <4>2. CASE c # newConn
        <5>1. th[c] # "none" /\ slot'[c] = slot[c]
          BY <2>0, <3>1, <3>8, <4>2
        <5>2. slot[c] < count /\ clients[slot[c]].thread = c /\ slot[c] \in Slots
          BY <2>0, <5>1 DEF TableInv
        <5>3. slot[c] # count /\ slot[c] < count'
          <6>1. slot[c] \in Nat /\ count \in Nat /\ slot[c] < count /\ count' = count + 1
            BY <2>0, <3>1, <5>2
          <6> QED
            BY <6>1
        <5> QED
          BY <3>5, <5>1, <5>2, <5>3
      <4> QED
        BY <4>1, <4>2
    <3> QED
      BY <3>1, <3>6, <3>7, <3>8 DEF TableInv
  <2>4. ASSUME UNCHANGED <<clients, count, slot, fdTable, newSocket, newConn, main>>,
               \A c \in Conns : th'[c] = "none" <=> th[c] = "none"
        PROVE  TableInv'
    BY <2>4 DEF TableInv, Names
  <2> QED
    BY <2>1, <2>2, <2>3, <2>4, QuietStep
<1> QED
  BY <1>1, <1>2, TypedHolds, CountHolds, PTL DEF Spec

-----------------------------------------------------------------------------
(* Broadcasts *)

\* How far broadcast b has come for client c: the scan has sent to the
\* entries it has passed, and to no other.
Progress(b, c) ==
    /\ Copies(c, b.no) <= 1
    /\ c \in b.audience => th[c] # "none"
    /\ b.over /\ c \in b.audience => Copies(c, b.no) = 1
    /\ ~b.over =>
          \E t \in Threads :
             /\ Scanning(t) /\ no[t] = b.no
             /\ th[c] = "none" \/ slot[c] >= pos[t] => Copies(c, b.no) = 0
             /\ c \in b.audience /\ slot[c] < pos[t] => Copies(c, b.no) = 1

\* So far, every broadcast and every client.
ProgressInv ==
    \A b \in Broadcasts, c \in Conns :
        (\E i \in DOMAIN casts : casts[i] = b) => Progress(b, c)

\* send() adds a copy of what it sends, for the client it reaches.
LEMMA CopiesAppend ==
    ASSUME TypedInv, NEW n \in Nat, NEW m \in Nat, NEW c \in Conns, NEW d \in Conns,
           sent' = [sent EXCEPT ![d] = Append(@, m)]
    PROVE  Copies(c, n)' = Copies(c, n) + (IF c = d /\ m = n THEN 1 ELSE 0)
<1>1. sent \in [Conns -> Seq(Nat)] /\ sent[c] \in Seq(Nat)
  BY NumberTypes
<1>2. Copies(c, n) = Cardinality(Hits(sent[c], {n})) /\ Copies(c, n) \in Nat
  <2>1. {i \in DOMAIN sent[c] : sent[c][i] = n} = Hits(sent[c], {n})
    BY DEF Hits
  <2> QED
    BY <1>1, <2>1, HitsFinite DEF Copies
<1>3. Copies(c, n)' = Cardinality(Hits(sent'[c], {n}))
  <2>1. {i \in DOMAIN sent'[c] : sent'[c][i] = n} = Hits(sent'[c], {n})
    BY DEF Hits
  <2> QED
    BY <2>1 DEF Copies
<1>4. CASE c = d
  <2>1. sent'[c] = Append(sent[c], m)
    BY <1>1, <1>4
  <2>2. \A T : Cardinality(Hits(Append(sent[c], m), T)) =
                  Cardinality(Hits(sent[c], T)) + (IF m \in T THEN 1 ELSE 0)
    BY <1>1, HitsAppend
  <2>3. CASE m = n
    BY <1>2, <1>3, <1>4, <2>1, <2>2, <2>3
  <2>4. CASE m # n
    BY <1>2, <1>3, <1>4, <2>1, <2>2, <2>4
  <2> QED
    BY <2>3, <2>4
<1>5. CASE c # d
  <2>1. sent'[c] = sent[c]
    BY <1>1, <1>5
  <2> QED
    BY <1>2, <1>3, <1>5, <2>1
<1> QED
  BY <1>4, <1>5

\* How many copies there are is a number.
LEMMA CopiesNat ==
    ASSUME TypedInv, NEW n, NEW c \in Conns
    PROVE  Copies(c, n) \in Nat
<1>1. sent[c] \in Seq(Nat)
  BY NumberTypes
<1>2. {i \in DOMAIN sent[c] : sent[c][i] = n} = Hits(sent[c], {n})
  BY DEF Hits
<1> QED
  BY <1>1, <1>2, HitsFinite DEF Copies

\* Where nothing is sent no copies are made.
LEMMA CopiesSame ==
    ASSUME UNCHANGED sent, NEW n, NEW c
    PROVE  Copies(c, n)' = Copies(c, n)
BY DEF Copies

\* A broadcast and a client that a step does not concern.
LEMMA ProgressFrame ==
    ASSUME NEW b \in Broadcasts, NEW c \in Conns, Progress(b, c),
           Copies(c, b.no)' = Copies(c, b.no),
           th[c] = "none" \/ slot'[c] = slot[c], th'[c] = "none" => th[c] = "none",
           \A t \in Threads : Scanning(t) /\ no[t] = b.no =>
              Scanning(t)' /\ no'[t] = no[t] /\ pos'[t] = pos[t]
    PROVE  Progress(b, c)'
<1>1. /\ (Copies(c, b.no) <= 1)'
      /\ c \in b.audience => th'[c] # "none"
      /\ b.over /\ c \in b.audience => (Copies(c, b.no) = 1)'
  BY DEF Progress
<1>2. ASSUME ~b.over
      PROVE  \E t \in Threads :
                /\ Scanning(t)' /\ no'[t] = b.no
                /\ th'[c] = "none" \/ slot'[c] >= pos'[t] => (Copies(c, b.no) = 0)'
                /\ c \in b.audience /\ slot'[c] < pos'[t] => (Copies(c, b.no) = 1)'
  <2>1. PICK t \in Threads :
           /\ Scanning(t) /\ no[t] = b.no
           /\ th[c] = "none" \/ slot[c] >= pos[t] => Copies(c, b.no) = 0
           /\ c \in b.audience /\ slot[c] < pos[t] => Copies(c, b.no) = 1
    BY <1>2 DEF Progress
  <2>2. c \in b.audience => slot'[c] = slot[c]
    BY DEF Progress
  <2> QED
    BY <2>1, <2>2
<1> QED
  BY <1>1, <1>2 DEF Progress

\* A step that begins no broadcast and ends none.
LEMMA ProgressKept ==
    ASSUME ProgressInv, UNCHANGED casts,
           \A c \in Conns : /\ th[c] = "none" \/ slot'[c] = slot[c]
                            /\ th'[c] = "none" => th[c] = "none",
           \A t \in Threads : Scanning(t) =>
              Scanning(t)' /\ no'[t] = no[t] /\ pos'[t] = pos[t],
           \A b \in Broadcasts, c \in Conns :
              (\E i \in DOMAIN casts : casts[i] = b) => Copies(c, b.no)' = Copies(c, b.no)
    PROVE  ProgressInv'
<1> SUFFICES ASSUME NEW b \in Broadcasts, NEW c \in Conns, \E i \in DOMAIN casts : casts[i] = b
             PROVE  Progress(b, c)'
  BY DEF ProgressInv
<1>1. Progress(b, c)
  BY DEF ProgressInv
<1> QED
  BY <1>1, ProgressFrame

\* The same where nothing is sent.
LEMMA ProgressStill ==
    ASSUME ProgressInv, UNCHANGED <<casts, sent>>,
           \A c \in Conns : /\ th[c] = "none" \/ slot'[c] = slot[c]
                            /\ th'[c] = "none" => th[c] = "none",
           \A t \in Threads : Scanning(t) =>
              Scanning(t)' /\ no'[t] = no[t] /\ pos'[t] = pos[t]
    PROVE  ProgressInv'
BY CopiesSame, ProgressKept

\* The scan passes an entry: it has sent to the client whose entry it is,
\* which had no copy yet, or the entry is empty.
LEMMA ProgressAdvances ==
    ASSUME MaxClients = MAX_CLIENTS, TypedInv, NumberInv, TableInv, ProgressInv,
           NEW t \in Threads, Scanning(t), UNCHANGED <<casts, no, slot>>,
           \A u \in Threads : /\ Scanning(u)' <=> Scanning(u)
                              /\ th'[u] = "none" <=> th[u] = "none",
           pos[t] < MAX_CLIENTS, pos' = [pos EXCEPT ![t] = @ + 1],
           \/ send_response_message(clients[pos[t]].socket, no[t])
           \/ UNCHANGED sent /\ clients[pos[t]].socket = 0
    PROVE  ProgressInv'
<1>0. /\ pos \in [Threads \cup {MAIN} -> Nat] /\ no \in [Threads -> Nat]
      /\ slot \in [Conns -> {-1} \cup Slots] /\ Slots \subseteq Nat
      /\ \A c \in Conns : th[c] # "none" => slot[c] \in Slots
      /\ count \in Nat /\ Conns \subseteq Threads
  <2>1. Conns \subseteq Threads
    BY DEF Threads
  <2>2. Slots \subseteq Nat
    BY HandlersAssumption DEF Slots
  <2>3. count \in Nat
    BY HandlersAssumption DEF TypedInv, TypeOK
  <2>4. \A c \in Conns : th[c] # "none" => slot[c] \in Slots
    BY DEF TypedInv
  <2> QED
    BY <2>1, <2>2, <2>3, <2>4, NumberTypes
<1>1. /\ Scanning(t) /\ UNCHANGED <<casts, no, slot>>
      /\ pos' = [pos EXCEPT ![t] = @ + 1] /\ pos[t] < MAX_CLIENTS
      /\ \A u \in Threads : Scanning(u)' <=> Scanning(u)
      /\ \A c \in Conns : th'[c] = "none" <=> th[c] = "none"
  BY <1>0
<1>2. pos[t] \in Slots
  BY <1>0, <1>1, HandlersAssumption DEF Slots
<1>3. \/ send_response_message(clients[pos[t]].socket, no[t])
      \/ UNCHANGED sent /\ clients[pos[t]].socket = 0
  OBVIOUS
<1>4. PICK m \in Nat : m = no[t]
  BY <1>0
<1>5. PICK p \in Nat : p = pos[t]
  BY <1>0
<1>6. /\ \A u \in Threads : u # t => pos'[u] = pos[u]
      /\ pos'[t] = p + 1
  BY <1>0, <1>1, <1>5
<1> SUFFICES ASSUME NEW b \in Broadcasts, NEW c \in Conns, NEW i \in DOMAIN casts, casts[i] = b
             PROVE  Progress(b, c)'
  BY <1>1 DEF ProgressInv
<1>7. Progress(b, c) /\ b.no \in Nat
  BY DEF ProgressInv, Broadcasts
<1>8. CASE p < count
  <2>1. PICK d \in Conns : /\ d = clients[p].thread /\ th[d] # "none" /\ slot[d] = p
                           /\ Names(clients[p].socket, d)
    BY <1>2, <1>5, <1>8 DEF TableInv
  <2>2. clients[p].socket > 0
    <3>1. clients[p].socket \in Fds
      BY <2>1 DEF Names
    <3>2. \A fd \in Fds : fd \in Nat /\ fd # 0
      BY HandlersAssumption
    <3>3. \A n \in Nat : n # 0 => n > 0
      OBVIOUS
    <3> QED
      BY <3>1, <3>2, <3>3
  <2>3. sent' = [sent EXCEPT ![d] = Append(@, m)]
    <3>1. send_response_message(clients[p].socket, m)
      BY <1>3, <1>4, <1>5, <2>2
    <3>2. \A e \in Conns : Names(clients[p].socket, e) => e = d
      BY <2>1 DEF Names
    <3>3. PICK e \in Conns : /\ Names(clients[p].socket, e)
                            /\ sent' = [sent EXCEPT ![e] = Append(@, m)]
      BY <2>1, <3>1 DEF send_response_message
    <3> QED
      BY <3>2, <3>3
  <2>4. Copies(c, b.no)' = Copies(c, b.no) + (IF c = d /\ m = b.no THEN 1 ELSE 0)
    BY <1>7, <2>3, CopiesAppend
  <2>5. CASE m # b.no
    <3>1. Copies(c, b.no)' = Copies(c, b.no)
      <4>1. Copies(c, b.no) \in Nat
        BY <1>7, CopiesNat
      <4> QED
        BY <2>4, <2>5, <4>1
    <3>2. \A u \in Threads : Scanning(u) /\ no[u] = b.no => u # t
      BY <1>4, <2>5
    <3> QED
      BY <1>1, <1>6, <1>7, <3>1, <3>2, ProgressFrame
  <2>6. CASE m = b.no
    <3>1. ~b.over
      <4>1. Working(t) /\ casts[i].no = no[t]
        BY <1>1, <1>4, <2>6 DEF Working
      <4>2. ~casts[i].over
        BY <4>1 DEF NumberInv
      <4> QED
        BY <4>2
    <3>2. /\ th[c] = "none" \/ slot[c] >= p => Copies(c, b.no) = 0
          /\ c \in b.audience /\ slot[c] < p => Copies(c, b.no) = 1
      <4>1. PICK u \in Threads :
               /\ Scanning(u) /\ no[u] = b.no
               /\ th[c] = "none" \/ slot[c] >= pos[u] => Copies(c, b.no) = 0
               /\ c \in b.audience /\ slot[c] < pos[u] => Copies(c, b.no) = 1
        BY <1>7, <3>1 DEF Progress
      <4>2. u = t
        <5>1. Working(t) /\ Working(u) /\ no[t] = no[u]
          BY <1>1, <1>4, <2>6, <4>1 DEF Working
        <5>2. \A v, w \in Threads : Working(v) /\ Working(w) /\ no[v] = no[w] => v = w
          BY DEF NumberInv
        <5> QED
          BY <5>1, <5>2
      <4> QED
        BY <1>5, <4>1, <4>2
    <3>3. th[c] # "none" /\ slot[c] = p => c = d
      BY <2>1 DEF TableInv
    <3>4. Copies(c, b.no) \in Nat /\ (th[c] # "none" => slot[c] \in Nat)
      BY <1>0, <1>7, CopiesNat
    <3>5. c = d => Copies(c, b.no) = 0 /\ (Copies(c, b.no) = 1)'
      BY <2>1, <2>4, <2>6, <3>2, <3>4
    <3>6. c # d => Copies(c, b.no)' = Copies(c, b.no)
      BY <2>4, <3>4
    <3>7. c \in b.audience => th[c] # "none"
      BY <1>7 DEF Progress
    <3>8. (Copies(c, b.no) <= 1)'
      BY <1>7, <3>5, <3>6 DEF Progress
    <3>9. /\ th[c] = "none" \/ slot[c] >= p + 1 => (Copies(c, b.no) = 0)'
          /\ c \in b.audience /\ slot[c] < p + 1 => (Copies(c, b.no) = 1)'
      <4>1. CASE c = d
        BY <2>1, <3>5, <4>1
      <4>2. CASE c # d
        <5>1. th[c] # "none" /\ slot[c] >= p + 1 => slot[c] >= p
          BY <3>4
        <5>2. th[c] # "none" /\ slot[c] < p + 1 => slot[c] < p
          BY <3>3, <3>4, <4>2
        <5> QED
          BY <3>2, <3>6, <3>7, <4>2, <5>1, <5>2
      <4> QED
        BY <4>1, <4>2
    <3> QED
      BY <1>1, <1>4, <1>6, <2>6, <3>1, <3>7, <3>8, <3>9 DEF Progress
  <2> QED
    BY <2>5, <2>6
<1>9. CASE ~(p < count)
  <2>1. clients[p].socket = 0
    BY <1>0, <1>2, <1>5, <1>9 DEF TableInv
  <2>2. UNCHANGED sent
    <3>1. \A c1 \in Conns : ~Names(0, c1)
      BY HandlersAssumption DEF Names
    <3> QED
      BY <1>3, <1>5, <2>1, <3>1 DEF send_response_message
  <2>3. Copies(c, b.no)' = Copies(c, b.no)
    BY <2>2, CopiesSame
  <2>4. th[c] # "none" => slot[c] \in Nat /\ slot[c] < p
    <3>1. ASSUME th[c] # "none"
          PROVE  slot[c] \in Nat /\ slot[c] < count
      BY <1>0, <3>1 DEF TableInv
    <3> QED
      BY <1>0, <1>9, <3>1
  <2>5. CASE no[t] # b.no
    BY <1>1, <1>6, <1>7, <2>3, <2>5, ProgressFrame
  <2>6. CASE no[t] = b.no
    <3>1. ~b.over
      BY <1>1, <2>6 DEF NumberInv, Working
    <3>2. /\ th[c] = "none" \/ slot[c] >= p => Copies(c, b.no) = 0
          /\ c \in b.audience /\ slot[c] < p => Copies(c, b.no) = 1
      <4>1. PICK u \in Threads :
               /\ Scanning(u) /\ no[u] = b.no
               /\ th[c] = "none" \/ slot[c] >= pos[u] => Copies(c, b.no) = 0
               /\ c \in b.audience /\ slot[c] < pos[u] => Copies(c, b.no) = 1
        BY <1>7, <3>1 DEF Progress
      <4>2. u = t
        BY <1>1, <2>6, <4>1 DEF NumberInv, Working
      <4> QED
        BY <1>5, <4>1, <4>2
    <3>3. (Copies(c, b.no) <= 1)' /\ (c \in b.audience => th[c] # "none")
      BY <1>7, <2>3 DEF Progress
    <3>4. /\ th[c] = "none" \/ slot[c] >= p + 1 => (Copies(c, b.no) = 0)'
          /\ c \in b.audience /\ slot[c] < p + 1 => (Copies(c, b.no) = 1)'
      BY <2>3, <2>4, <3>2, <3>3
    <3> QED
      BY <1>1, <1>6, <2>6, <3>1, <3>3, <3>4 DEF Progress
  <2> QED
    BY <2>5, <2>6
<1> QED
  BY <1>8, <1>9

\* A thread that has found a socket is at an entry of the table.
FoundInv == \A t \in Threads : th[t] = "found" => pos[t] < MAX_CLIENTS

\* A turn of the scan: the test of an entry, and the send to what is found.
LEMMA ProgressScan ==
    ASSUME MaxClients = MAX_CLIENTS, TypedInv, NumberInv, TableInv, ProgressInv, FoundInv,
           NEW t \in Threads, Scan(t) \/ SendFound(t)
    PROVE  ProgressInv'
<1>0. /\ th \in [Threads -> ThreadLabels] /\ pos[t] \in Nat /\ Conns \subseteq Threads
      /\ Slots = 0 .. (MAX_CLIENTS - 1)
  BY NumberTypes, HandlersAssumption DEF Threads, Slots
<1>1. /\ Scanning(t) /\ UNCHANGED <<casts, no, slot>> /\ pos[t] < MAX_CLIENTS
  BY DEF Scan, SendFound, Runs, ScanLimit, histVars, FoundInv
<1>2. pos[t] \in Slots /\ EntriesAt(pos[t]) = {clients[pos[t]]}
  BY <1>0, <1>1, HandlersAssumption DEF EntriesAt
<1>3. \A u \in Threads : /\ Scanning(u)' <=> Scanning(u)
                         /\ th'[u] = "none" <=> th[u] = "none"
  <2>1. UNCHANGED th \/ ThGoto(t, "found") \/ ThGoto(t, "scan")
    BY DEF Scan, SendFound
  <2> QED
    BY <1>0, <1>1, <2>1 DEF ThGoto
<1>4. CASE SendFound(t)
  <2>1. send_response_message(clients[pos[t]].socket, no[t]) /\ pos' = [pos EXCEPT ![t] = @ + 1]
    BY <1>2, <1>4 DEF SendFound
  <2> QED
    BY <1>1, <1>3, <2>1, ProgressAdvances
<1>5. CASE Scan(t) /\ clients[pos[t]].socket > 0
  <2>1. UNCHANGED <<pos, sent>>
    BY <1>2, <1>5 DEF Scan, netVars
  <2> QED
    BY <1>0, <1>1, <1>3, <2>1, ProgressStill
<1>6. CASE Scan(t) /\ ~(clients[pos[t]].socket > 0)
  <2>1. UNCHANGED sent /\ pos' = [pos EXCEPT ![t] = @ + 1]
    BY <1>2, <1>6 DEF Scan, netVars
  <2>2. clients[pos[t]].socket = 0
    <3>1. clients[pos[t]].socket \in {0} \cup Fds
      BY <1>0, <1>2, EntriesAtTyped
    <3>2. \A fd \in Fds : fd \in Nat /\ fd # 0
      BY HandlersAssumption
    <3>3. \A n \in Nat : n # 0 => n > 0
      OBVIOUS
    <3> QED
      BY <1>6, <3>1, <3>2, <3>3
  <2> QED
    BY <1>1, <1>3, <2>1, <2>2, ProgressAdvances
<1> QED
  BY <1>4, <1>5, <1>6

\* When the scan is over it has passed every entry that is in use.
LEMMA ProgressScanEnds ==
    ASSUME MaxClients = MAX_CLIENTS, TypedInv, NumberInv, TableInv, ProgressInv,
           NEW t \in Threads, ScanEnds(t)
    PROVE  ProgressInv'
<1>0. /\ th \in [Threads -> ThreadLabels] /\ no \in [Threads -> Nat] /\ Conns \subseteq Threads
      /\ pos \in [Threads \cup {MAIN} -> Nat] /\ Slots \subseteq Nat
      /\ \A c \in Conns : th[c] # "none" => slot[c] \in Slots
      /\ count \in Nat /\ count <= MaxClients
      /\ \A i \in DOMAIN casts : casts[i] \in Broadcasts
  <2>1. Conns \subseteq Threads /\ Slots \subseteq Nat
    BY HandlersAssumption DEF Slots, Threads
  <2>2. \A c \in Conns : th[c] # "none" => slot[c] \in Slots
    BY DEF TypedInv
  <2>3. count \in Nat /\ count <= MaxClients
    BY HandlersAssumption DEF TypedInv, TypeOK
  <2> QED
    BY <2>1, <2>2, <2>3, NumberTypes
<1>1. /\ Scanning(t) /\ UNCHANGED <<sent, slot>> /\ pos[t] = MAX_CLIENTS
      /\ casts' = [i \in DOMAIN casts |-> [casts[i] EXCEPT !.over = @ \/ casts[i].no = no[t]]]
      /\ th' = [th EXCEPT ![t] = IF t = HOST THEN "none" ELSE "check"]
      /\ \A u \in Threads : u # t => no'[u] = no[u] /\ pos'[u] = pos[u]
  BY <1>0 DEF ScanEnds, Runs, ScanLimit, Finish, ThGoto, netVars
<1>2. /\ \A u \in Threads : u # t => th'[u] = th[u]
      /\ \A c \in Conns : th'[c] = "none" => th[c] = "none"
  BY <1>0, <1>1, HandlersAssumption
<1> SUFFICES ASSUME NEW b \in Broadcasts, NEW c \in Conns, NEW i \in DOMAIN casts', casts'[i] = b
             PROVE  Progress(b, c)'
  BY DEF ProgressInv
<1>3. PICK a \in Broadcasts : a = casts[i] /\ i \in DOMAIN casts
  BY <1>0, <1>1
<1>4. /\ b.no = a.no /\ b.audience = a.audience
      /\ b.over <=> a.over \/ a.no = no[t]
  BY <1>1, <1>3 DEF Broadcasts
<1>5. Progress(a, c)
  BY <1>3 DEF ProgressInv
<1>6. Copies(c, a.no)' = Copies(c, a.no)
  BY <1>1, CopiesSame
<1>7. CASE a.no # no[t]
  <2>1. b = a
    BY <1>4, <1>7 DEF Broadcasts
  <2>2. Progress(a, c)'
    BY <1>1, <1>2, <1>5, <1>6, <1>7, ProgressFrame
  <2> QED
    BY <2>1, <2>2
<1>8. CASE a.no = no[t]
  <2>1. ~a.over
    BY <1>1, <1>3, <1>8 DEF NumberInv, Working
  <2>2. c \in a.audience /\ slot[c] < pos[t] => Copies(c, a.no) = 1
    <3>1. PICK u \in Threads :
             /\ Scanning(u) /\ no[u] = a.no
             /\ c \in a.audience /\ slot[c] < pos[u] => Copies(c, a.no) = 1
      BY <1>5, <2>1 DEF Progress
    <3>2. u = t
      BY <1>1, <1>8, <3>1 DEF NumberInv, Working
    <3> QED
      BY <3>1, <3>2
  <2>3. c \in a.audience => th[c] # "none"
    BY <1>5 DEF Progress
  <2>4. th[c] # "none" => slot[c] < pos[t]
    <3>1. th[c] # "none" => slot[c] \in Nat /\ slot[c] < count
      BY <1>0 DEF TableInv
    <3> QED
      BY <1>0, <1>1, <3>1
  <2>5. (Copies(c, a.no) <= 1)' /\ (c \in a.audience => (Copies(c, a.no) = 1)')
    BY <1>5, <1>6, <2>2, <2>3, <2>4 DEF Progress
  <2>6. c \in b.audience => th'[c] # "none"
    BY <1>2, <1>4, <2>3
  <2> QED
    BY <1>4, <1>8, <2>5, <2>6 DEF Progress
<1> QED
  BY <1>7, <1>8

\* A broadcast that begins has reached nobody, and is at the first entry.
LEMMA ProgressBegins ==
    ASSUME TypedInv, NumberInv, ProgressInv, NEW t \in Threads, th[t] = "work",
           UNCHANGED <<sent, slot>>, broadcast_market_data(t)
    PROVE  ProgressInv'
<1>0. /\ th \in [Threads -> ThreadLabels] /\ no \in [Threads -> Nat] /\ Conns \subseteq Threads
      /\ Slots \subseteq Nat /\ seqNum \in Nat
      /\ \A c \in Conns : th[c] # "none" => slot[c] \in Slots
  <2>1. Conns \subseteq Threads /\ Slots \subseteq Nat
    BY HandlersAssumption DEF Slots, Threads
  <2>2. \A c \in Conns : th[c] # "none" => slot[c] \in Slots
    BY DEF TypedInv
  <2> QED
    BY <2>1, <2>2, NumberTypes
<1>1. /\ th' = [th EXCEPT ![t] = "scan"] /\ no' = [no EXCEPT ![t] = seqNum] /\ UNCHANGED pos
  BY DEF broadcast_market_data, TakeNumber, ThGoto
<1>2. pos[t] = 0
  BY DEF NumberInv
<1> SUFFICES ASSUME NEW b \in Broadcasts, NEW c \in Conns, NEW i \in DOMAIN casts', casts'[i] = b
             PROVE  Progress(b, c)'
  BY DEF ProgressInv
<1>3. Copies(c, b.no)' = Copies(c, b.no)
  BY CopiesSame
<1>4. CASE i \in DOMAIN casts /\ casts'[i] = casts[i]
  <2>1. Progress(b, c)
    BY <1>4 DEF ProgressInv
  <2>2. \A u \in Threads : Scanning(u) => u # t
    OBVIOUS
  <2> QED
    BY <1>0, <1>1, <1>3, <2>1, <2>2, ProgressFrame
<1>5. CASE b = [no |-> seqNum, audience |-> Registered, over |-> FALSE]
  <2>1. /\ b.no = seqNum /\ ~b.over
        /\ c \in b.audience => th[c] # "none"
    BY <1>5 DEF Registered
  <2>2. Copies(c, b.no) = 0
    <3>1. \A j \in DOMAIN sent[c] : sent[c][j] \in Nat /\ sent[c][j] < seqNum
      BY NumberTypes DEF NumberInv
    <3>2. {j \in DOMAIN sent[c] : sent[c][j] = b.no} = {}
      BY <1>0, <2>1, <3>1
    <3> QED
      BY <3>2, FS_EmptySet DEF Copies
  <2>3. Scanning(t)' /\ no'[t] = b.no /\ pos'[t] = 0
    BY <1>0, <1>1, <1>2, <2>1
  <2>4. c \in b.audience => ~(slot'[c] < 0) /\ th'[c] # "none"
    <3>1. c \in b.audience => slot[c] \in Nat
      BY <1>0, <2>1
    <3> QED
      BY <1>0, <1>1, <2>1, <3>1
  <2> QED
    BY <1>3, <2>1, <2>2, <2>3, <2>4 DEF Progress
<1> QED
  BY <1>4, <1>5, CastsAppend

\* A trade notice carries a number that no broadcast has.
LEMMA ProgressTrade ==
    ASSUME TypedInv, NumberInv, ProgressInv, NEW t \in Threads, SendTrade(t)
    PROVE  ProgressInv'
<1>0. /\ th \in [Threads -> ThreadLabels] /\ no \in [Threads -> Nat] /\ Conns \subseteq Threads
      /\ pos \in [Threads \cup {MAIN} -> Nat]
  BY NumberTypes DEF Threads
<1>1. /\ th[t] \in {"to_buyer", "to_seller"} /\ UNCHANGED <<casts, slot>>
      /\ \E fd : SendIfFound(fd, no[t])
      /\ (ThGoto(t, "to_seller") /\ UNCHANGED <<no, pos>>) \/ Finish(t)
  BY DEF SendTrade, Runs, locals, histVars
<1>2. UNCHANGED sent \/ \E d \in Conns : sent' = [sent EXCEPT ![d] = Append(@, no[t])]
  BY <1>1, SendAppends
<1>3. PICK m \in Nat : m = no[t]
  BY <1>0
<1>4. ASSUME NEW b \in Broadcasts, NEW c \in Conns, NEW i \in DOMAIN casts, casts[i] = b
      PROVE  Copies(c, b.no)' = Copies(c, b.no)
  <2>1. b.no # m /\ b.no \in Nat
    BY <1>1, <1>3, <1>4 DEF NumberInv, Working, Broadcasts
  <2>2. CASE UNCHANGED sent
    BY <2>2, CopiesSame
  <2>3. ASSUME NEW d \in Conns, sent' = [sent EXCEPT ![d] = Append(@, no[t])]
        PROVE  Copies(c, b.no)' = Copies(c, b.no)
    <3>1. Copies(c, b.no)' = Copies(c, b.no) + (IF c = d /\ m = b.no THEN 1 ELSE 0)
      BY <1>3, <2>1, <2>3, CopiesAppend
    <3>2. Copies(c, b.no) \in Nat
      BY <2>1, CopiesNat
    <3> QED
      BY <2>1, <3>1, <3>2
  <2> QED
    BY <1>2, <2>2, <2>3
<1>5. \A u \in Threads : u # t => th'[u] = th[u] /\ no'[u] = no[u] /\ pos'[u] = pos[u]
  BY <1>0, <1>1 DEF ThGoto, Finish
<1>6. \A c \in Conns : th'[c] = "none" => th[c] = "none"
  BY <1>0, <1>1, HandlersAssumption DEF ThGoto, Finish
<1> QED
  BY <1>1, <1>4, <1>5, <1>6, ProgressKept

\* The steps that send nothing and neither begin nor end a broadcast.
LEMMA ProgressOthers ==
    ASSUME TypedInv, CountInv, ProgressInv,
           \/ Main \/ UNCHANGED vars
           \/ \E c \in Conns : Accept(c) \/ Arrive(c) \/ Leave(c)
           \/ (\E m \in HandedIn : handle_message(m)) \/ generate_id \/ Signal
           \/ \E c \in Conns : \/ CheckRunning(c) \/ Receive(c) \/ ReceiveEnds(c)
                               \/ Lock(c) \/ Remove(c) \/ Shift(c) \/ Unlock(c) \/ Close(c)
    PROVE  ProgressInv'
<1>0. /\ th \in [Threads -> ThreadLabels] /\ pos \in [Threads \cup {MAIN} -> Nat]
      /\ slot \in [Conns -> {-1} \cup Slots]
      /\ HOST \in Threads /\ HOST \notin Conns /\ Conns \subseteq Threads /\ MAIN \notin Threads
  BY HandlersAssumption, NumberTypes DEF Threads, MAIN
<1>1. ASSUME UNCHANGED <<casts, sent, slot, no>>, NEW t \in Threads, NEW l \in ThreadLabels,
             ~Scanning(t), t # HOST => l # "none", th' = [th EXCEPT ![t] = l],
             \A u \in Threads : u # t => pos'[u] = pos[u]
      PROVE  ProgressInv'
  <2>1. /\ \A c \in Conns : th'[c] = "none" => th[c] = "none"
        /\ \A u \in Threads : Scanning(u) => Scanning(u)' /\ pos'[u] = pos[u]
    BY <1>0, <1>1
  <2> QED
    BY <1>1, <2>1, ProgressStill
<1>2. ASSUME UNCHANGED <<casts, sent, slot, no, th>>, \A u \in Threads : pos'[u] = pos[u]
      PROVE  ProgressInv'
  BY <1>2, ProgressStill
<1>3. CASE Register
  <2>1. /\ newConn \in Conns /\ th[newConn] = "none" /\ th' = [th EXCEPT ![newConn] = "check"]
        /\ slot' = [slot EXCEPT ![newConn] = count]
        /\ UNCHANGED <<casts, sent, no, pos>>
    BY <1>0, <1>3 DEF Register, CountInv, TypedInv, locals, netVars, histVars
  <2>2. /\ \A c \in Conns : /\ th[c] = "none" \/ slot'[c] = slot[c]
                            /\ th'[c] = "none" => th[c] = "none"
        /\ \A u \in Threads : Scanning(u) => Scanning(u)'
    BY <1>0, <2>1
  <2> QED
    BY <2>1, <2>2, ProgressStill
<1>4. CASE Refuse \/ StopServer \/ Stopped \/ FreeContext
  BY <1>2, <1>4 DEF Refuse, StopServer, Stopped, FreeContext, thVars, locals, netVars, histVars
<1>5. CASE StopClient
  <2>1. UNCHANGED <<casts, sent, slot, no, th>> /\ \A u \in Threads : pos'[u] = pos[u]
    BY <1>0, <1>5 DEF StopClient, histVars
  <2> QED
    BY <1>2, <2>1
<1>6. ASSUME NEW c \in Conns, Accept(c) \/ Arrive(c) \/ Leave(c)
      PROVE  ProgressInv'
  BY <1>2, <1>6 DEF Accept, Arrive, Leave, thVars, locals, netVars, histVars
<1>7. ASSUME NEW m \in HandedIn, handle_message(m)
      PROVE  ProgressInv'
  <2>1. /\ th[HOST] = "none" /\ th' = [th EXCEPT ![HOST] = "work"] /\ "work" \in ThreadLabels
        /\ UNCHANGED <<casts, sent, slot, no, pos>>
    BY <1>7 DEF handle_message, Runs, ThGoto, netVars, ThreadLabels
  <2> QED
    BY <1>0, <1>1, <2>1
<1>8. CASE generate_id \/ Signal \/ UNCHANGED vars
  BY <1>2, <1>8 DEF generate_id, Signal, vars, thVars, locals, netVars, histVars
<1>9. ASSUME NEW c \in Conns,
             \/ CheckRunning(c) \/ Receive(c) \/ ReceiveEnds(c)
             \/ Lock(c) \/ Remove(c) \/ Shift(c) \/ Unlock(c) \/ Close(c)
      PROVE  ProgressInv'
  <2>1. UNCHANGED <<casts, sent, slot, no>>
    BY <1>9 DEF CheckRunning, Receive, ReceiveEnds, Lock, Remove, Shift, Unlock, Close, locals,
       netVars, histVars
  <2>2. \A u \in Threads : u # c => pos'[u] = pos[u]
    BY <1>0, <1>9 DEF CheckRunning, Receive, ReceiveEnds, Lock, Remove, NotFound, Shift, Unlock,
       Close, locals
  <2>3. /\ th[c] \in {"check", "recv", "lock", "remove", "shift", "close"}
        /\ \E l \in {"recv", "lock", "check", "work", "remove", "shift", "close", "ended"} :
              th' = [th EXCEPT ![c] = l]
    <3>1. CASE CheckRunning(c) \/ Receive(c) \/ ReceiveEnds(c)
      BY <3>1 DEF CheckRunning, Receive, ReceiveEnds, Runs, ThGoto
    <3>2. CASE Lock(c) \/ Remove(c)
      BY <3>2 DEF Lock, Remove, NotFound, Runs, ThGoto
    <3>3. CASE Unlock(c) \/ Close(c)
      BY <3>3 DEF Unlock, Close, Runs, ThGoto
    <3>4. CASE Shift(c)
      <4>1. th' = th /\ th[c] = "shift"
        BY <3>4 DEF Shift, Runs
      <4>2. th' = [th EXCEPT ![c] = "shift"]
        BY <1>0, <4>1
      <4> QED
        BY <4>1, <4>2
    <3> QED
      BY <1>9, <3>1, <3>2, <3>3, <3>4
  <2>4. {"recv", "lock", "check", "work", "remove", "shift", "close", "ended"}
           \subseteq ThreadLabels \ {"none"}
    BY DEF ThreadLabels
  <2> QED
    BY <1>0, <1>1, <2>1, <2>2, <2>3, <2>4
<1> QED
  BY <1>3, <1>4, <1>5, <1>6, <1>7, <1>8, <1>9 DEF Main

\* The message handlers.
LEMMA ProgressWork ==
    ASSUME MaxClients = MAX_CLIENTS, TypedInv, NumberInv, TableInv, ProgressInv, FoundInv,
           NEW t \in Threads, Work(t)
    PROVE  ProgressInv'
<1>0. /\ th \in [Threads -> ThreadLabels] /\ no \in [Threads -> Nat] /\ Conns \subseteq Threads
      /\ pos \in [Threads \cup {MAIN} -> Nat]
  BY NumberTypes DEF Threads
<1>1. ASSUME UNCHANGED <<casts, sent, slot>>, ~Scanning(t),
             \A u \in Threads : u # t => th'[u] = th[u] /\ no'[u] = no[u] /\ pos'[u] = pos[u],
             t # HOST => th'[t] # "none"
      PROVE  ProgressInv'
  <2>1. \A c \in Conns : th'[c] = "none" => th[c] = "none"
    BY <1>0, <1>1, HandlersAssumption
  <2>2. \A u \in Threads : Scanning(u) => Scanning(u)' /\ no'[u] = no[u] /\ pos'[u] = pos[u]
    BY <1>1
  <2> QED
    BY <1>1, <2>1, <2>2, ProgressStill
<1>2. CASE Dispatch(t)
  <2>1. th[t] = "work" /\ UNCHANGED <<sent, slot>>
    BY <1>2 DEF Dispatch, Runs, netVars
  <2>2. CASE broadcast_market_data(t)
    BY <2>1, <2>2, ProgressBegins
  <2>3. CASE (Finish(t) \/ (TakeNumber(t) /\ ThGoto(t, "find"))) /\ UNCHANGED casts
    <3>1. \A u \in Threads : u # t => th'[u] = th[u] /\ no'[u] = no[u] /\ pos'[u] = pos[u]
      BY <1>0, <2>3 DEF Finish, TakeNumber, ThGoto
    <3>2. t # HOST => th'[t] # "none"
      BY <1>0, <2>3 DEF Finish, ThGoto
    <3> QED
      BY <1>1, <2>1, <2>3, <3>1, <3>2
  <2> QED
    BY <1>2, <2>2, <2>3 DEF Dispatch, process_order, process_trade_execution, NoEffect
<1>3. CASE find_client_socket(t)
  <2>1. th[t] \in {"find", "matched"} /\ UNCHANGED <<casts, sent, slot, no>>
    BY <1>3 DEF find_client_socket, Runs, netVars, histVars
  <2>2. \/ UNCHANGED th /\ pos' = [pos EXCEPT ![t] = @ + 1]
        \/ UNCHANGED pos /\ th' = [th EXCEPT ![t] = "matched"]
        \/ \E l \in {"find", "to_buyer"} :
              th' = [th EXCEPT ![t] = l] /\ pos' = [pos EXCEPT ![t] = 0]
    BY <1>3 DEF find_client_socket, Result, ThGoto
  <2>3. /\ \A u \in Threads : u # t => th'[u] = th[u] /\ pos'[u] = pos[u]
        /\ th'[t] # "none"
    BY <1>0, <2>1, <2>2
  <2> QED
    BY <1>1, <2>1, <2>3
<1> QED
  BY <1>2, <1>3, ProgressScan, ProgressScanEnds, ProgressTrade DEF Work

\* No step but the test of an entry takes a thread to the send.
LEMMA FoundHolds == Spec => []FoundInv
<1>1. Init => FoundInv
  BY DEF Init, FoundInv
<1>2. TypedInv /\ FoundInv /\ [Next]_vars => FoundInv'
  <2> SUFFICES ASSUME TypedInv, FoundInv, [Next]_vars, NEW u \in Threads, th'[u] = "found"
               PROVE  pos'[u] < MAX_CLIENTS
    BY DEF FoundInv
  <2>0. /\ th \in [Threads -> ThreadLabels] /\ pos \in [Threads \cup {MAIN} -> Nat]
        /\ HOST \in Threads /\ Conns \subseteq Threads /\ MAIN \notin Threads
        /\ main = "register" => newConn \in Conns
    BY HandlersAssumption, NumberTypes DEF Threads, MAIN, TypedInv
  <2>1. ASSUME th[u] = "found", pos'[u] = pos[u]
        PROVE  pos'[u] < MAX_CLIENTS
    BY <2>1 DEF FoundInv
  <2>2. ASSUME NEW t \in Threads, NEW l, l # "found", th' = [th EXCEPT ![t] = l],
               u # t => pos'[u] = pos[u]
        PROVE  pos'[u] < MAX_CLIENTS
    BY <2>0, <2>1, <2>2
  <2>3. ASSUME NEW t \in Threads, Work(t)
        PROVE  pos'[u] < MAX_CLIENTS
    <3>1. CASE Scan(t)
      <4>1. CASE u = t
        BY <2>0, <3>1, <4>1 DEF Scan, Runs, ScanLimit, ThGoto
      <4>2. CASE u # t
        <5>1. th[u] = th'[u] /\ pos'[u] = pos[u]
          BY <2>0, <3>1, <4>2 DEF Scan, ThGoto
        <5> QED
          BY <2>1, <5>1
      <4> QED
        BY <4>1, <4>2
    <3>2. CASE ~Scan(t)
      <4>1. \E l : l # "found" /\ th' = [th EXCEPT ![t] = l]
        <5>1. CASE UNCHANGED th
          <6>1. th[t] # "found"
            <7>1. CASE SendFound(t)
              BY <2>0, <5>1, <7>1 DEF SendFound, ThGoto, Runs
            <7>2. CASE ~SendFound(t)
              BY <2>3, <3>2, <7>2 DEF Work, Dispatch, ScanEnds, find_client_socket, SendTrade, Runs
            <7> QED
              BY <7>1, <7>2
          <6> QED
            BY <2>0, <5>1, <6>1
        <5>2. CASE ~UNCHANGED th
          BY <2>3, <3>2, <5>2 DEF Work, Dispatch, SendFound, ScanEnds, find_client_socket,
             SendTrade, process_order, broadcast_market_data, process_trade_execution, NoEffect,
             Finish, ThGoto, Result
        <5> QED
          BY <5>1, <5>2
      <4>2. u # t => pos'[u] = pos[u]
        BY <2>0, <2>3, <3>2 DEF Work, Dispatch, SendFound, ScanEnds, find_client_socket,
           SendTrade, process_order, broadcast_market_data, process_trade_execution, NoEffect,
           Finish, TakeNumber, Result, locals
      <4> QED
        BY <2>2, <4>1, <4>2
    <3> QED
      BY <3>1, <3>2
  <2>4. CASE Main \/ UNCHANGED vars
    <3>1. CASE Register
      <4>1. newConn \in Threads /\ th' = [th EXCEPT ![newConn] = "check"] /\ UNCHANGED pos
        BY <2>0, <3>1 DEF Register, locals
      <4> QED
        BY <2>2, <4>1
    <3>2. CASE ~Register
      <4>1. UNCHANGED th /\ pos'[u] = pos[u]
        BY <2>0, <2>4, <3>2 DEF Main, Refuse, StopServer, StopClient, Stopped, FreeContext, vars,
           thVars, locals
      <4> QED
        BY <2>1, <4>1
    <3> QED
      BY <3>1, <3>2
  <2>5. CASE Environment
    <3>1. ASSUME NEW m \in HandedIn, handle_message(m)
          PROVE  pos'[u] < MAX_CLIENTS
      BY <2>0, <2>2, <3>1 DEF handle_message, ThGoto
    <3>2. CASE ~\E m \in HandedIn : handle_message(m)
      <4>1. UNCHANGED <<th, pos>>
        BY <2>5, <3>2 DEF Environment, Accept, Arrive, Leave, generate_id, Signal, thVars, locals
      <4> QED
        BY <2>1, <4>1
    <3> QED
      BY <3>1, <3>2
  <2>6. ASSUME NEW c \in Conns, Handler(c), ~Work(c)
        PROVE  pos'[u] < MAX_CLIENTS
    <3>1. CASE Shift(c)
      <4>1. UNCHANGED th /\ th[c] = "shift" /\ (u # c => pos'[u] = pos[u])
        BY <2>0, <3>1 DEF Shift, Runs
      <4> QED
        BY <2>1, <4>1
    <3>2. CASE ~Shift(c)
      <4>1. u # c => pos'[u] = pos[u]
        BY <2>0, <2>6, <3>2 DEF Handler, CheckRunning, Receive, ReceiveEnds, Lock, Remove,
           NotFound, Unlock, Close, locals
      <4>2. \E l \in {"recv", "lock", "check", "work", "remove", "shift", "close", "ended"} :
              th' = [th EXCEPT ![c] = l]
        BY <2>6, <3>2 DEF Handler, CheckRunning, Receive, ReceiveEnds, Lock, Remove, NotFound,
           Unlock, Close, ThGoto
      <4> QED
        BY <2>0, <2>2, <4>1, <4>2
    <3> QED
      BY <3>1, <3>2
  <2> QED
    BY <2>0, <2>3, <2>4, <2>5, <2>6 DEF Next
<1> QED
  BY <1>1, <1>2, TypedHolds, PTL DEF Spec

\* As long as no client is removed, market data reaches each client that was
\* registered when the broadcast began exactly once and no client twice,
\* for any number of connections and of broadcasts that run at the same
\* time, although the scan reads the table without clients_mutex while
\* accept_client fills it.  The table must have the MAX_CLIENTS entries that
\* the scan visits, as it has by default.
THEOREM MarketDataReachesOnce ==
    ASSUME MaxClients = MAX_CLIENTS
    PROVE  Spec => []BroadcastExact
<1>1. Init => ProgressInv
  <2>1. Init => DOMAIN casts = {}
    BY DEF Init
  <2> QED
    BY <2>1 DEF ProgressInv
<1>2. TypedInv /\ CountInv /\ NumberInv /\ FoundInv /\ (NobodyRemoved => TableInv)
      /\ (NobodyRemoved => ProgressInv) /\ [Next]_vars
         => (NobodyRemoved => ProgressInv)'
  <2> SUFFICES ASSUME TypedInv, CountInv, NumberInv, FoundInv, NobodyRemoved => TableInv,
                      NobodyRemoved => ProgressInv, [Next]_vars, NobodyRemoved'
               PROVE  ProgressInv'
    OBVIOUS
  <2>1. TableInv /\ ProgressInv
    BY QuietStep
  <2>2. HOST \in Threads /\ Conns \subseteq Threads
    BY DEF Threads
  <2>3. ASSUME NEW c \in Conns, Handler(c)
        PROVE  ProgressInv'
    BY <2>1, <2>2, <2>3, ProgressOthers, ProgressWork DEF Handler
  <2> QED
    BY <2>1, <2>2, <2>3, ProgressOthers, ProgressWork DEF Next, Environment
<1>3. TypedInv /\ (NobodyRemoved => ProgressInv) => BroadcastExact
  <2> SUFFICES ASSUME TypedInv, ProgressInv, NobodyRemoved, NEW i \in DOMAIN casts, NEW c \in Conns
               PROVE  /\ Copies(c, casts[i].no) <= 1
                      /\ casts[i].over /\ c \in casts[i].audience => Copies(c, casts[i].no) = 1
    BY DEF BroadcastExact
  <2>1. PICK b \in Broadcasts : b = casts[i]
    BY NumberTypes
  <2>2. Progress(b, c)
    BY <2>1 DEF ProgressInv
  <2> QED
    BY <2>1, <2>2 DEF Progress
<1> QED
  BY <1>1, <1>2, <1>3, TypedHolds, CountHolds, NumberHolds, FoundHolds, TableHolds, PTL DEF Spec
=============================================================================
