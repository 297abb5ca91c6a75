----------------------------- MODULE WireProofs -----------------------------
(* Proofs about Wire, for every byte alphabet, every size of the structures *)
(* and the buffers, and every width of the checksum.  Nothing is used about *)
(* what calculate_checksum computes, only that both sides compute the same, *)
(* until the last theorem, which is about the 32 bits the code has.         *)
EXTENDS Wire, WellFoundedInduction, TLAPS

-----------------------------------------------------------------------------
(* The format *)

\* The payload of a message has the size its type says.
LEMMA MessageShape ==
    ASSUME NEW m \in Messages
    PROVE  /\ m.type \in MessageTypes
           /\ PayloadSize(m.type) \in Nat
           /\ m.payload \in [1 .. PayloadSize(m.type) -> Bytes]
           /\ HeaderSize + PayloadSize(m.type) <= BufferSize
           /\ HeaderSize + PayloadSize(m.type) <= MaxMessageSize
BY WireAssumption DEF Messages, PayloadSize

\* Buffer b holds the first n units of the message m.
Holds(b, m, n) == \A i \in 1 .. n : b[i] = Encoding(m)[i]

\* The header that a reader finds once the header has arrived.
LEMMA HeaderRead ==
    ASSUME NEW m \in Messages, NEW b, NEW n \in Nat, n >= HeaderSize,
           n <= HeaderSize + PayloadSize(m.type), Holds(b, m, n)
    PROVE  MessageHeader(b) =
              [version |-> SERIALIZATION_VERSION,
               message_size |-> HeaderSize + PayloadSize(m.type),
               type |-> m.type, payload_size |-> PayloadSize(m.type),
               checksum |-> calculate_checksum(m.payload, PayloadSize(m.type))]
<1>1. PayloadSize(m.type) \in Nat
  BY MessageShape
<1>2. \A i \in 1 .. HeaderSize : b[i] = Encoding(m)[i]
  BY DEF Holds, HeaderSize
<1>3. /\ Encoding(m)[1] = SERIALIZATION_VERSION
      /\ Encoding(m)[2] = HeaderSize + PayloadSize(m.type)
      /\ Encoding(m)[3] = m.type
      /\ Encoding(m)[4] = PayloadSize(m.type)
      /\ Encoding(m)[5] = calculate_checksum(m.payload, PayloadSize(m.type))
  BY <1>1 DEF Encoding, HeaderSize
<1> QED
  BY <1>2, <1>3 DEF MessageHeader, HeaderSize

\* The payload that a reader finds once all of the message has arrived.
LEMMA PayloadRead ==
    ASSUME NEW m \in Messages, NEW b, NEW h, h.payload_size = PayloadSize(m.type),
           Holds(b, m, HeaderSize + PayloadSize(m.type))
    PROVE  PayloadOf(b, h) = m.payload
<1> DEFINE n == PayloadSize(m.type)
<1>1. n \in Nat /\ m.payload \in [1 .. n -> Bytes]
  BY MessageShape
<1>2. ASSUME NEW i \in 1 .. n
      PROVE  b[HeaderSize + i] = m.payload[i]
  <2>1. HeaderSize + i \in 1 .. (HeaderSize + n) /\ ~(HeaderSize + i <= HeaderSize)
        /\ (HeaderSize + i) - HeaderSize = i
    BY <1>1 DEF HeaderSize
  <2>2. Encoding(m)[HeaderSize + i] = m.payload[i]
    BY <1>1, <2>1 DEF Encoding
  <2> QED
    BY <2>1, <2>2 DEF Holds
<1> QED
  BY <1>1, <1>2 DEF PayloadOf

\* deserialize_message is a left inverse of serialize_message, also when
\* more bytes have arrived than the message.
LEMMA WholeDecodes ==
    ASSUME NEW m \in Messages, m.type \in Carried, NEW b,
           NEW size \in Nat,
           size >= HeaderSize + PayloadSize(m.type),
           Holds(b, m, HeaderSize + PayloadSize(m.type))
    PROVE  /\ deserialize_message(b, size) = SERIAL_SUCCESS
           /\ FirstChecks(b, size) = SERIAL_SUCCESS
           /\ MessageHeader(b).type = m.type
           /\ PayloadOf(b, MessageHeader(b)) = m.payload
<1> DEFINE h == MessageHeader(b)
<1>1. PayloadSize(m.type) \in Nat /\ HeaderSize + PayloadSize(m.type) <= MaxMessageSize
  BY MessageShape
<1>2. /\ h.version = SERIALIZATION_VERSION
      /\ h.message_size = HeaderSize + PayloadSize(m.type)
      /\ h.type = m.type /\ h.payload_size = PayloadSize(m.type)
      /\ h.checksum = calculate_checksum(m.payload, PayloadSize(m.type))
  BY <1>1, HeaderRead DEF HeaderSize
<1>3. PayloadOf(b, h) = m.payload
  BY <1>2, PayloadRead
<1> HIDE DEF h
<1>4. validate_message_header(h) = SERIAL_SUCCESS /\ Complete(h, size) /\ ~(size < HeaderSize)
  BY <1>1, <1>2, WireAssumption
  DEF validate_message_header, Complete, HeaderSize, SERIAL_SUCCESS
<1>5. FirstChecks(b, size) = SERIAL_SUCCESS
  BY <1>2, <1>3, <1>4 DEF FirstChecks, h
<1>6. deserialize_message(b, size) = SERIAL_SUCCESS
  BY <1>2, <1>5 DEF deserialize_message, h
<1> QED
  BY <1>2, <1>3, <1>5, <1>6 DEF h

\* A message that is cut short is incomplete wherever the cut is.
LEMMA CutRefused ==
    ASSUME NEW m \in Messages, NEW b, NEW n \in Nat,
           n < HeaderSize + PayloadSize(m.type), Holds(b, m, n)
    PROVE  deserialize_message(b, n) = SERIAL_ERROR_INCOMPLETE
<1> DEFINE h == MessageHeader(b)
<1>1. PayloadSize(m.type) \in Nat /\ HeaderSize + PayloadSize(m.type) <= MaxMessageSize
  BY MessageShape
<1>2. CASE n < HeaderSize
  BY <1>2 DEF deserialize_message, FirstChecks, SERIAL_ERROR_INCOMPLETE, SERIAL_SUCCESS
<1>3. CASE n >= HeaderSize
  <2>1. h.version = SERIALIZATION_VERSION /\ h.message_size = HeaderSize + PayloadSize(m.type)
    BY <1>1, <1>3, HeaderRead DEF HeaderSize
  <2> HIDE DEF h
  <2>2. validate_message_header(h) = SERIAL_SUCCESS /\ ~Complete(h, n) /\ ~(n < HeaderSize)
    BY <1>1, <1>3, <2>1, WireAssumption
    DEF validate_message_header, Complete, HeaderSize, SERIAL_SUCCESS
  <2>3. FirstChecks(b, n) = SERIAL_ERROR_INCOMPLETE
    BY <2>2 DEF FirstChecks, h
  <2> QED
    BY <2>3 DEF deserialize_message, SERIAL_ERROR_INCOMPLETE, SERIAL_SUCCESS
<1> QED
  BY <1>2, <1>3 DEF HeaderSize

-----------------------------------------------------------------------------
(* The message on its way *)

\* The damage, if there is any, has spared the payload.
PayloadIntact ==
    \A i \in 1 .. PayloadSize(msg.type) : rbuffer[HeaderSize + i] = msg.payload[i]

\* What DamageConfined says without the checksum: the receiver takes the
\* type that was sent unless the type field was hit, and damage to any field
\* of the header leaves the payload it takes the one that was sent.
HeaderDamageConfined ==
    phase = "decoded" /\ fate \in {"damaged", "retyped"} /\ code = SERIAL_SUCCESS =>
        /\ fate = "damaged" => decoded.type = msg.type
        /\ PayloadIntact => decoded.payload = msg.payload

\* At every stage the units that count are those of the message.
WireInv ==
    /\ msg \in Messages /\ limit \in 0 .. BufferSize
    /\ DOMAIN buffer = 1 .. BufferSize /\ DOMAIN rbuffer = Memory
    /\ phase = "new" => sent = 0 /\ \A i \in 1 .. BufferSize : rbuffer[i] = buffer[i]
    /\ phase # "new" => sent = serialize_message(msg, limit)
    /\ phase # "new" /\ sent > 0 => Holds(buffer, msg, sent)
    /\ phase # "decoded" =>
           decoded \in [type : {MSG_NONE}, sequence_num : {0, 1}, payload : {<<>>}]
    /\ phase \in {"arrived", "decoded"} => sent > 0
    /\ phase = "arrived" /\ fate \in {"whole", "joined"} =>
           received \in Nat /\ received >= sent /\ Holds(rbuffer, msg, sent)
    /\ phase = "arrived" /\ fate = "cut" =>
           received \in Nat /\ received < sent /\ Holds(rbuffer, msg, received)
    /\ phase = "arrived" /\ fate = "damaged" => rbuffer[3] = msg.type
    /\ phase = "arrived" /\ fate = "retyped" => rbuffer[4] = PayloadSize(msg.type)
    /\ RoundTrip /\ CutIsIncomplete /\ WritesWithinLimit /\ HeaderDamageConfined

\* serialize_message returns the size of the message, within the limit, or
\* a value that is not positive.
LEMMA SerializeReturns ==
    ASSUME NEW m \in Messages, NEW size \in Nat
    PROVE  LET r == serialize_message(m, size)
           IN /\ r \in Int /\ r <= size
              /\ r > 0 => m.type \in Carried /\ r = HeaderSize + PayloadSize(m.type)
BY MessageShape DEF serialize_message, Fits, HeaderSize, SERIAL_ERROR_BUFFER_OVERFLOW,
                    SERIAL_ERROR_INVALID_TYPE

\* serialize_message leaves the encoding in the buffer, or nothing.
LEMMA SerializeStep ==
    ASSUME WireInv, Serialize
    PROVE  WireInv'
<1> USE WireAssumption
<1>1. /\ msg' = msg /\ limit' = limit /\ rbuffer' = rbuffer /\ decoded' = decoded
      /\ phase = "new" /\ phase' = "encoded"
      /\ sent' = serialize_message(msg, limit)
      /\ \A i \in 1 .. BufferSize : rbuffer[i] = buffer[i]
      /\ DOMAIN buffer = 1 .. BufferSize
  BY DEF WireInv, Serialize
<1>2. /\ sent' \in Int /\ sent' <= limit
      /\ sent' > 0 => sent' = HeaderSize + PayloadSize(msg.type)
  <2>1. msg \in Messages /\ limit \in Nat
    BY DEF WireInv
  <2> QED
    BY <1>1, <2>1, SerializeReturns
<1>3. CASE sent' > 0
  <2>1. buffer' = [i \in 1 .. BufferSize |-> IF i <= sent' THEN Encoding(msg)[i] ELSE buffer[i]]
    BY <1>1, <1>3 DEF Serialize, Overwrite
  <2>2. sent' <= BufferSize
    BY <1>2 DEF WireInv
  <2>3. Holds(buffer, msg, sent)'
    BY <1>1, <1>2, <2>1, <2>2 DEF Holds, Encoding
  <2>4. WritesWithinLimit'
    BY <1>1, <1>2, <1>3, <2>1 DEF WritesWithinLimit, WireInv
  <2> QED
    BY <1>1, <1>3, <2>1, <2>3, <2>4 DEF WireInv, RoundTrip, CutIsIncomplete, HeaderDamageConfined
<1>4. CASE ~(sent' > 0)
  <2>1. buffer' = buffer
    BY <1>4 DEF Serialize
  <2>2. WritesWithinLimit'
    BY <1>1, <1>2, <2>1 DEF WritesWithinLimit, WireInv
  <2> QED
    BY <1>1, <1>4, <2>1, <2>2 DEF WireInv, RoundTrip, CutIsIncomplete, HeaderDamageConfined
<1> QED
  BY <1>3, <1>4

\* However the message arrives, what is not damaged is in the receiver's
\* buffer.
LEMMA ArriveStep ==
    ASSUME WireInv, ArrivesWhole \/ ArrivesCut \/ ArrivesJoined \/ ArrivesDamaged
    PROVE  WireInv'
<1> USE WireAssumption
<1>1. /\ UNCHANGED <<msg, limit, buffer, sent, decoded, code>>
      /\ phase = "encoded" /\ phase' = "arrived" /\ sent > 0
  BY DEF ArrivesWhole, ArrivesCut, ArrivesJoined, ArrivesDamaged, Arrives
<1>2. sent \in Nat /\ sent <= limit /\ sent <= BufferSize /\ Holds(buffer, msg, sent)
  <2>1. /\ msg \in Messages /\ limit \in Nat /\ limit <= BufferSize
        /\ sent = serialize_message(msg, limit) /\ Holds(buffer, msg, sent)
    BY <1>1 DEF WireInv
  <2>2. sent \in Int /\ sent <= limit
    BY <2>1, SerializeReturns
  <2> QED
    BY <1>1, <2>1, <2>2
<1>0. /\ DOMAIN rbuffer = Memory /\ DOMAIN rbuffer' = Memory
      /\ \A i \in 1 .. sent : i \in Memory
  <2>1. DOMAIN rbuffer = Memory
    BY DEF WireInv
  <2>2. DOMAIN rbuffer' = Memory
    BY <2>1 DEF ArrivesWhole, ArrivesCut, ArrivesJoined, ArrivesDamaged, Arrives, Overwrite
  <2> QED
    BY <1>2, <2>1, <2>2 DEF Memory, HeaderSize
<1>3. fate' \in {"whole", "joined"} =>
          received' \in Nat /\ received' >= sent /\ Holds(rbuffer', msg, sent)
  <2>1. CASE ArrivesWhole
    BY <1>0, <1>2, <2>1 DEF ArrivesWhole, Arrives, Overwrite, Holds
  <2>2. CASE ArrivesJoined
    BY <1>0, <1>2, <2>2 DEF ArrivesJoined, Arrives, Overwrite, Holds, WireInv
  <2>3. CASE ArrivesCut \/ ArrivesDamaged
    BY <2>3 DEF ArrivesCut, ArrivesDamaged, Arrives
  <2> QED
    BY <2>1, <2>2, <2>3
<1>4. fate' = "cut" => received' \in Nat /\ received' < sent /\ Holds(rbuffer', msg, received')
  <2>1. CASE ArrivesCut
    BY <1>0, <1>2, <2>1 DEF ArrivesCut, Arrives, Overwrite, Holds
  <2>2. CASE ArrivesWhole \/ ArrivesJoined \/ ArrivesDamaged
    BY <2>2 DEF ArrivesWhole, ArrivesJoined, ArrivesDamaged, Arrives
  <2> QED
    BY <2>1, <2>2
<1>5. /\ fate' = "damaged" => rbuffer'[3] = msg.type
      /\ fate' = "retyped" => rbuffer'[4] = PayloadSize(msg.type)
  <2>1. /\ buffer[3] = msg.type /\ buffer[4] = PayloadSize(msg.type)
        /\ sent >= HeaderSize /\ DOMAIN buffer = 1 .. BufferSize
    <3>0. msg \in Messages /\ limit \in Nat /\ sent = serialize_message(msg, limit)
      BY <1>1 DEF WireInv
    <3>1. PayloadSize(msg.type) \in Nat /\ sent = HeaderSize + PayloadSize(msg.type)
      BY <1>1, <3>0, SerializeReturns, MessageShape
    <3>2. buffer[3] = Encoding(msg)[3] /\ buffer[4] = Encoding(msg)[4]
      BY <1>2, <3>1 DEF Holds, HeaderSize
    <3>3. Encoding(msg)[3] = msg.type /\ Encoding(msg)[4] = PayloadSize(msg.type)
      BY <3>1 DEF Encoding, HeaderSize
    <3>4. sent >= HeaderSize
      BY <3>1 DEF HeaderSize
    <3> QED
      BY <3>2, <3>3, <3>4 DEF WireInv
  <2>2. CASE ArrivesDamaged
    <3>0. BufferSize \in Nat /\ HeaderSize <= BufferSize
      BY <1>2, <2>1 DEF HeaderSize
    <3>1. ASSUME NEW b, NEW f, Arrives(b, sent, f)
          PROVE  rbuffer'[3] = b[3] /\ rbuffer'[4] = b[4] /\ fate' = f
      <4>1. /\ rbuffer' = [i \in Memory |-> IF i <= sent THEN b[i] ELSE rbuffer[i]]
            /\ fate' = f
        BY <1>0, <3>1 DEF Arrives, Overwrite
      <4>2. 3 \in 1 .. sent /\ 4 \in 1 .. sent
        BY <1>2, <2>1 DEF HeaderSize
      <4> QED
        BY <1>0, <4>1, <4>2
    <3>2. ASSUME NEW x, Arrives([buffer EXCEPT ![3] = x], sent, "retyped")
          PROVE  rbuffer'[4] = buffer[4] /\ fate' = "retyped"
      <4>1. rbuffer'[4] = [buffer EXCEPT ![3] = x][4] /\ fate' = "retyped"
        BY <3>1, <3>2
      <4> QED
        BY <2>1, <3>0, <4>1 DEF HeaderSize
    <3>3. ASSUME NEW i \in Nat, i # 3, NEW x, Arrives([buffer EXCEPT ![i] = x], sent, "damaged")
          PROVE  rbuffer'[3] = buffer[3] /\ fate' = "damaged"
      <4>1. rbuffer'[3] = [buffer EXCEPT ![i] = x][3] /\ fate' = "damaged"
        BY <3>1, <3>3
      <4> QED
        BY <2>1, <3>0, <3>3, <4>1 DEF HeaderSize
    <3>4. ASSUME NEW i \in (HeaderSize + 1) .. (sent - 1), NEW x, NEW y,
                 Arrives([buffer EXCEPT ![i] = x, ![i + 1] = y], sent, "damaged")
          PROVE  rbuffer'[3] = buffer[3] /\ fate' = "damaged"
      <4>1. /\ rbuffer'[3] = [buffer EXCEPT ![i] = x, ![i + 1] = y][3]
            /\ fate' = "damaged"
        BY <3>1, <3>4
      <4> QED
        BY <1>2, <2>1, <3>0, <3>4, <4>1 DEF HeaderSize
    <3>5. \/ \E x : Arrives([buffer EXCEPT ![3] = x], sent, "retyped")
          \/ \E x : \E i \in Nat : i # 3 /\ Arrives([buffer EXCEPT ![i] = x], sent, "damaged")
          \/ \E x, y : \E i \in (HeaderSize + 1) .. (sent - 1) :
                Arrives([buffer EXCEPT ![i] = x, ![i + 1] = y], sent, "damaged")
      <4>1. /\ \A i \in {1, 2, 4, 5} : i \in Nat /\ i # 3
            /\ \A i \in (HeaderSize + 1) .. sent : i \in Nat /\ i # 3
        BY <1>2 DEF HeaderSize
      <4> QED
        BY <2>2, <4>1, Zenon DEF ArrivesDamaged
    <3> QED
      BY <2>1, <3>2, <3>3, <3>4, <3>5
  <2>3. CASE ArrivesWhole \/ ArrivesCut \/ ArrivesJoined
    BY <2>3 DEF ArrivesWhole, ArrivesCut, ArrivesJoined, Arrives
  <2> QED
    BY <2>2, <2>3
<1> QED
  BY <1>0, <1>1, <1>2, <1>3, <1>4, <1>5
  DEF WireInv, RoundTrip, CutIsIncomplete, WritesWithinLimit, HeaderDamageConfined, Holds

\* deserialize_message on what arrived.
LEMMA DeserializeStep ==
    ASSUME WireInv, Deserialize
    PROVE  WireInv'
<1>1. /\ UNCHANGED <<msg, limit, buffer, sent, rbuffer, received, fate>>
      /\ phase = "arrived" /\ phase' = "decoded"
      /\ code' = deserialize_message(rbuffer, received)
      /\ decoded' = Written(decoded, rbuffer, received)
  BY DEF Deserialize
<1>2. msg.type \in Carried /\ sent = HeaderSize + PayloadSize(msg.type)
  BY <1>1, SerializeReturns DEF WireInv
<1>3. ASSUME fate \in {"whole", "joined"}
      PROVE  code' = SERIAL_SUCCESS /\ decoded'.type = msg.type /\ decoded'.payload = msg.payload
  <2>1. /\ msg \in Messages /\ received \in Nat /\ received >= sent /\ Holds(rbuffer, msg, sent)
        /\ decoded \in [type : {MSG_NONE}, sequence_num : {0, 1}, payload : {<<>>}]
    BY <1>1, <1>3 DEF WireInv
  <2>2. /\ received >= HeaderSize + PayloadSize(msg.type)
        /\ Holds(rbuffer, msg, HeaderSize + PayloadSize(msg.type))
    BY <1>2, <2>1
  <2>3. /\ deserialize_message(rbuffer, received) = SERIAL_SUCCESS
        /\ FirstChecks(rbuffer, received) = SERIAL_SUCCESS
        /\ MessageHeader(rbuffer).type = msg.type
        /\ PayloadOf(rbuffer, MessageHeader(rbuffer)) = msg.payload
    BY <1>2, <2>1, <2>2, WholeDecodes
  <2> QED
    BY <1>1, <2>1, <2>3 DEF Written
<1>4. ASSUME fate = "cut"
      PROVE  code' = SERIAL_ERROR_INCOMPLETE
  BY <1>1, <1>2, <1>4, CutRefused DEF WireInv
<1>5. ASSUME fate \in {"damaged", "retyped"}, code' = SERIAL_SUCCESS
      PROVE  /\ fate = "damaged" => decoded'.type = msg.type
             /\ PayloadIntact => decoded'.payload = msg.payload
  <2> DEFINE h == MessageHeader(rbuffer)
             n == PayloadSize(msg.type)
  <2>1. /\ msg \in Messages
        /\ decoded \in [type : {MSG_NONE}, sequence_num : {0, 1}, payload : {<<>>}]
        /\ fate = "damaged" => rbuffer[3] = msg.type
        /\ fate = "retyped" => rbuffer[4] = n
    BY <1>1 DEF WireInv
  <2>2. /\ h.type = rbuffer[3] /\ h.payload_size = rbuffer[4]
        /\ n \in Nat /\ msg.payload \in [1 .. n -> Bytes]
    BY <2>1, MessageShape DEF MessageHeader
  <2>3. /\ FirstChecks(rbuffer, received) = SERIAL_SUCCESS
        /\ h.payload_size = PayloadSize(h.type)
    BY <1>1, <1>5 DEF deserialize_message, SERIAL_SUCCESS, SERIAL_ERROR_INVALID_TYPE,
                      SERIAL_ERROR_INVALID_MESSAGE
  <2>4. decoded'.type = h.type /\ decoded'.payload = PayloadOf(rbuffer, h)
    BY <1>1, <1>5, <2>1, <2>3 DEF Written
  <2>5. h.payload_size = n
    BY <1>5, <2>1, <2>2, <2>3
  <2> HIDE DEF h
  <2>6. PayloadIntact => PayloadOf(rbuffer, h) = msg.payload
    BY <2>2, <2>5 DEF PayloadIntact, PayloadOf
  <2> QED
    BY <1>5, <2>1, <2>2, <2>4, <2>6
<1> QED
  BY <1>1, <1>3, <1>4, <1>5 DEF WireInv, RoundTrip, CutIsIncomplete, WritesWithinLimit,
                                HeaderDamageConfined, PayloadIntact, Holds

\* The invariant of a message on its way, in any reachable state.
LEMMA WireInvHolds == Spec => []WireInv
<1>1. Init => WireInv
  <2> SUFFICES ASSUME Init
               PROVE  WireInv
    OBVIOUS
  <2>1. PICK x \in Bytes : buffer = [i \in 1 .. BufferSize |-> x] /\ rbuffer = [i \in Memory |-> x]
    BY DEF Init
  <2>2. \A i \in 1 .. BufferSize : i \in Memory
    BY WireAssumption DEF Memory, HeaderSize
  <2>3. /\ DOMAIN buffer = 1 .. BufferSize /\ DOMAIN rbuffer = Memory
        /\ \A i \in 1 .. BufferSize : rbuffer[i] = buffer[i]
    BY <2>1, <2>2
  <2>4. RoundTrip /\ CutIsIncomplete /\ WritesWithinLimit /\ HeaderDamageConfined
    BY DEF Init, RoundTrip, CutIsIncomplete, WritesWithinLimit, HeaderDamageConfined
  <2> QED
    BY <2>3, <2>4 DEF Init, WireInv
<1>2. WireInv /\ [Next]_vars => WireInv'
  <2> SUFFICES ASSUME WireInv, [Next]_vars
               PROVE  WireInv'
    OBVIOUS
  <2>1. CASE UNCHANGED vars
    BY <2>1 DEF vars, WireInv, RoundTrip, CutIsIncomplete, WritesWithinLimit,
                HeaderDamageConfined, PayloadIntact, Holds
  <2>2. CASE ReadsBeyond
    BY <2>2 DEF ReadsBeyond, WireInv, RoundTrip, CutIsIncomplete, WritesWithinLimit,
                HeaderDamageConfined, Holds
  <2> QED
    BY <2>1, <2>2, SerializeStep, ArriveStep, DeserializeStep DEF Next
<1> QED
  BY <1>1, <1>2, PTL DEF Spec

\* For every message and whatever the sizes are: what arrives whole, alone
\* or with more behind it, deserialize_message turns into what was sent.
THEOREM RoundTripAlways == Spec => []RoundTrip
<1>1. WireInv => RoundTrip
  BY DEF WireInv
<1> QED
  BY <1>1, WireInvHolds, PTL

\* Wherever recv cuts a message, deserialize_message reports it as
\* incomplete, whatever an earlier message left in the buffer behind it.
THEOREM CutAlwaysIncomplete == Spec => []CutIsIncomplete
<1>1. WireInv => CutIsIncomplete
  BY DEF WireInv
<1> QED
  BY <1>1, WireInvHolds, PTL

\* serialize_message stays within the buffer_size it was given, for every
\* size of the structures, and leaves the buffer alone when it fails.
THEOREM NeverWritesBeyond == Spec => []WritesWithinLimit
<1>1. WireInv => WritesWithinLimit
  BY DEF WireInv
<1> QED
  BY <1>1, WireInvHolds, PTL

-----------------------------------------------------------------------------
(* The checksum *)

\* A set of numbers that is not empty has a least one; the inductions below
\* look at the least number for which the claim would fail.
LEMMA LeastNumber ==
    ASSUME NEW T \in SUBSET Nat, T # {}
    PROVE  \E n \in T : \A m \in T : n <= m
<1> DEFINE R == OpToRel(<, Nat)
<1>1. IsWellFoundedOn(R, Nat)
  BY NatLessThanWellFounded, Zenon DEF OpToRel
<1> HIDE DEF R
<1>2. PICK n \in T : \A m \in T : ~(<<m, n>> \in R)
  BY <1>1, WFMin, Zenon
<1>3. \A m \in T : m < n => <<m, n>> \in R
  BY SMT DEF OpToRel, R
<1>4. \A m \in T : m \in Nat /\ n \in Nat /\ ~(m < n)
  BY <1>2, <1>3
<1>5. \A m \in T : n <= m
  BY <1>4, SMT
<1> QED
  BY <1>5

\* The number of values of a uint32_t.
Width == 65536 * 65536

\* Small facts about Width, so that its value need not be looked at again.
LEMMA WidthIs == 2^32 = Width /\ Width \in Nat /\ Width > 8160
BY SMT DEF Width

\* A multiple of Width that is smaller than Width is 0.
LEMMA SmallMultiple ==
    ASSUME NEW d \in Int, NEW g \in Int, d = Width * g, d > -Width, d < Width
    PROVE  d = 0
<1>1. g = 0
  BY SMT DEF Width
<1> QED
  BY <1>1, SMT DEF Width

\* Multiplication by 33 loses nothing modulo Width: 33 has an inverse.
LEMMA TimesInjective ==
    ASSUME NEW d \in Int, NEW e \in Int, 33 * d = Width * e, d > -Width, d < Width
    PROVE  d = 0
<1> DEFINE u == 15887 * 65536 + 33761
<1>1. 33 * u = 1 + 8 * Width
  BY SMT DEF Width
<1>2. d = Width * (u * e - 8 * d) /\ u * e - 8 * d \in Int
  BY <1>1, SMT DEF Width
<1> QED
  BY <1>2, SmallMultiple

\* The remainder as a difference.
LEMMA Remainder ==
    ASSUME NEW n \in Nat
    PROVE  n % Width \in 0 .. (Width - 1) /\ \E q \in Int : n = Width * q + (n % Width)
<1>1. \A w \in Nat : w > 0 => /\ n \div w \in Int /\ n % w \in 0 .. (w - 1)
                              /\ n = w * (n \div w) + (n % w)
  BY SMT
<1> QED
  BY <1>1, WidthIs

\* A turn of calculate_checksum.
Turn(a, x) == (33 * a + x) % Width

\* It is a uint32_t, and a remainder.
LEMMA TurnRemainder ==
    ASSUME NEW a \in Nat, NEW x \in Nat
    PROVE  /\ Turn(a, x) \in 0 .. (Width - 1) /\ Turn(a, x) \in Nat
           /\ \E q \in Int : 33 * a + x = Width * q + Turn(a, x)
<1>1. 33 * a + x \in Nat
  OBVIOUS
<1>2. Turn(a, x) \in 0 .. (Width - 1)
  BY <1>1, Remainder DEF Turn
<1>3. \E q \in Int : 33 * a + x = Width * q + Turn(a, x)
  BY <1>1, Remainder DEF Turn
<1> QED
  BY <1>2, <1>3, WidthIs

\* Different checksums stay different when the same byte is added.
LEMMA TurnKeepsApart ==
    ASSUME NEW a \in 0 .. (Width - 1), NEW b \in 0 .. (Width - 1), NEW x \in 0 .. 255,
           Turn(a, x) = Turn(b, x)
    PROVE  a = b
<1>1. 33 * a + x \in Nat /\ 33 * b + x \in Nat /\ Width \in Nat
  BY WidthIs
<1>2. PICK q \in Int : 33 * a + x = Width * q + Turn(a, x)
  BY <1>1, Remainder DEF Turn
<1>3. PICK r \in Int : 33 * b + x = Width * r + Turn(b, x)
  BY <1>1, Remainder DEF Turn
<1>4. PICK v \in Int : v = Turn(a, x)
  BY <1>1, Remainder DEF Turn
<1>5. 33 * (a - b) = Width * (q - r) /\ a - b \in Int /\ q - r \in Int
      /\ a - b > -Width /\ a - b < Width
  BY <1>1, <1>2, <1>3, <1>4
<1>6. a - b = 0
  BY <1>5, TimesInjective
<1> QED
  BY <1>1, <1>6

\* Different bytes make different checksums of the same one.
LEMMA TurnSeesByte ==
    ASSUME NEW a \in 0 .. (Width - 1), NEW x \in 0 .. 255, NEW y \in 0 .. 255,
           Turn(a, x) = Turn(a, y)
    PROVE  x = y
<1>1. 33 * a + x \in Nat /\ 33 * a + y \in Nat /\ Width \in Nat
  BY WidthIs
<1>2. PICK q \in Int : 33 * a + x = Width * q + Turn(a, x)
  BY <1>1, Remainder DEF Turn
<1>3. PICK r \in Int : 33 * a + y = Width * r + Turn(a, y)
  BY <1>1, Remainder DEF Turn
<1>4. PICK v \in Int : v = Turn(a, x)
  BY <1>1, Remainder DEF Turn
<1>5. x - y = Width * (q - r) /\ q - r \in Int
  BY <1>1, <1>2, <1>3, <1>4
<1>6. x - y \in Int /\ x - y > -Width /\ x - y < Width
  BY WidthIs
<1>7. x - y = 0
  BY <1>5, <1>6, SmallMultiple
<1> QED
  BY <1>7

\* Two bytes that are exchanged make different checksums.
LEMMA TurnsSeeExchange ==
    ASSUME NEW a \in 0 .. (Width - 1), NEW x \in 0 .. 255, NEW y \in 0 .. 255,
           Turn(Turn(a, x), y) = Turn(Turn(a, y), x)
    PROVE  x = y
<1>1. a \in Nat /\ Width \in Nat /\ x \in Nat /\ y \in Nat
  BY WidthIs
<1>2. PICK c \in Nat : c = Turn(a, x)
  BY <1>1, TurnRemainder
<1>3. PICK d \in Nat : d = Turn(a, y)
  BY <1>1, TurnRemainder
<1>4. PICK v \in Nat : v = Turn(c, y) /\ v = Turn(d, x)
  BY <1>1, <1>2, <1>3, TurnRemainder
<1>5. PICK q \in Int : 33 * a + x = Width * q + c
  <2>1. \E q \in Int : 33 * a + x = Width * q + Turn(a, x)
    BY <1>1, TurnRemainder
  <2> QED
    BY <1>2, <2>1, Zenon
<1>6. PICK r \in Int : 33 * a + y = Width * r + d
  <2>1. \E r \in Int : 33 * a + y = Width * r + Turn(a, y)
    BY <1>1, TurnRemainder
  <2> QED
    BY <1>3, <2>1, Zenon
<1>7. PICK s \in Int : 33 * c + y = Width * s + Turn(c, y)
  BY <1>1, TurnRemainder
<1>8. PICK t \in Int : 33 * d + x = Width * t + Turn(d, x)
  BY <1>1, TurnRemainder
<1>9. 33 * c + y = Width * s + v /\ 33 * d + x = Width * t + v
  BY <1>4, <1>7, <1>8
<1>10. 32 * (y - x) = Width * (t - s + 33 * r - 33 * q)
  <2>1. c - d = (x - y) - Width * (q - r)
    BY <1>1, <1>5, <1>6
  <2>2. 33 * (c - d) = (x - y) + Width * (s - t)
    BY <1>1, <1>9
  <2>3. 33 * ((x - y) - Width * (q - r)) = (x - y) + Width * (s - t)
    BY <2>1, <2>2
  <2> QED
    BY <1>1, <2>3
<1>11. /\ 32 * (y - x) \in Int /\ t - s + 33 * r - 33 * q \in Int
       /\ 32 * (y - x) > -Width /\ 32 * (y - x) < Width
  BY WidthIs
<1>12. 32 * (y - x) = 0
  BY <1>10, <1>11, SmallMultiple
<1> QED
  BY <1>12

\* The values calculate_checksum goes through for the n bytes of data.
Course(f, data, n) ==
    /\ f \in [0 .. n -> 0 .. (Width - 1)]
    /\ f[0] = 0
    /\ \A i \in 1 .. n : f[i] = Turn(f[i - 1], data[i])

\* For any data there is such a course.
LEMMA CourseExists ==
    ASSUME NEW n \in Nat, NEW data \in [1 .. n -> 0 .. 255]
    PROVE  \E f : Course(f, data, n)
<1> DEFINE T == {k \in 0 .. n : ~\E f : Course(f, data, k)}
<1>0. n \in 0 .. n
  OBVIOUS
<1> SUFFICES ASSUME T # {}
             PROVE  FALSE
  BY <1>0
<1>1. T \in SUBSET Nat
  OBVIOUS
<1>2. PICK k \in T : \A m \in T : k <= m
  <2> HIDE DEF T
  <2> QED
    BY <1>1, LeastNumber
<1>3. k \in 0 .. n /\ k \in Nat /\ 0 \in 0 .. (Width - 1)
  BY WidthIs
<1>4. CASE k = 0
  <2>1. Course([i \in 0 .. 0 |-> 0], data, 0)
    BY <1>3 DEF Course
  <2> QED
    BY <1>2, <1>4, <2>1
<1>5. CASE k # 0
  <2>1. k - 1 \in 0 .. n /\ k - 1 \in Nat /\ ~(k <= k - 1) /\ k \in 1 .. n
    BY <1>3, <1>5
  <2>2. PICK f : Course(f, data, k - 1)
    BY <1>2, <2>1
  <2>3. f[k - 1] \in 0 .. (Width - 1) /\ f[k - 1] \in Nat /\ data[k] \in Nat
    <3>1. f \in [0 .. (k - 1) -> 0 .. (Width - 1)] /\ k - 1 \in 0 .. (k - 1)
      BY <2>1, <2>2 DEF Course
    <3>2. f[k - 1] \in 0 .. (Width - 1) /\ data[k] \in 0 .. 255
      BY <2>1, <3>1
    <3>3. \A m : \A v \in 0 .. m : v \in Nat
      OBVIOUS
    <3> QED
      BY <3>2, <3>3, Zenon
  <2>4. PICK v \in 0 .. (Width - 1) : v = Turn(f[k - 1], data[k])
    BY <2>3, TurnRemainder
  <2> DEFINE g == [i \in 0 .. k |-> IF i = k THEN v ELSE f[i]]
  <2>5. /\ \A i \in 0 .. k : i # k => i \in 0 .. (k - 1)
        /\ \A i \in 1 .. k : i - 1 \in 0 .. k /\ i - 1 # k
        /\ \A i \in 1 .. k : i # k => i \in 1 .. (k - 1)
        /\ 0 \in 0 .. k /\ 0 # k
    BY <2>1
  <2>6. g \in [0 .. k -> 0 .. (Width - 1)] /\ g[0] = 0
    BY <2>2, <2>5 DEF Course
  <2>7. ASSUME NEW i \in 1 .. k
        PROVE  g[i] = Turn(g[i - 1], data[i])
    <3>1. i \in 0 .. k
      BY <2>1
    <3>2. g[i - 1] = f[i - 1]
      BY <2>5, <2>7
    <3>3. CASE i = k
      BY <2>4, <3>1, <3>2, <3>3
    <3>4. CASE i # k
      <4>1. f[i] = Turn(f[i - 1], data[i])
        BY <2>2, <2>5, <3>4 DEF Course
      <4> QED
        BY <3>1, <3>2, <3>4, <4>1
    <3> QED
      BY <3>3, <3>4
  <2> HIDE DEF g
  <2>8. Course(g, data, k)
    BY <2>6, <2>7 DEF Course
  <2> QED
    BY <1>2, <2>8
<1> QED
  BY <1>4, <1>5

\* calculate_checksum returns the end of such a course.
LEMMA ChecksumCourse ==
    ASSUME ChecksumBits = 32, NEW n \in Nat, NEW data \in [1 .. n -> 0 .. 255]
    PROVE  \E f : Course(f, data, n) /\ calculate_checksum(data, n) = f[n]
<1> DEFINE Body(f) == [i \in 0 .. n |->
                          IF i = 0 THEN 0 ELSE (33 * f[i - 1] + data[i]) % 2^ChecksumBits]
           c == CHOOSE f : f = Body(f)
<1>1. calculate_checksum(data, n) = c[n]
  BY Zenon DEF calculate_checksum
<1>2. 2^ChecksumBits = Width
  BY WidthIs
<1>3. PICK e : Course(e, data, n)
  BY CourseExists
<1>4. e = Body(e)
  BY <1>2, <1>3 DEF Course, Turn
<1>5. c = Body(c)
  <2> HIDE DEF Body
  <2> QED
    BY <1>4, Zenon
<1>6. /\ 0 \in 0 .. n /\ n \in 0 .. n
      /\ \A i \in 1 .. n : i \in 0 .. n /\ i # 0 /\ i - 1 \in 0 .. n
  OBVIOUS
<1> HIDE DEF c
<1>7. /\ c = [i \in 0 .. n |-> c[i]] /\ c[0] = 0
      /\ \A i \in 1 .. n : c[i] = Turn(c[i - 1], data[i])
  BY <1>2, <1>5, <1>6 DEF Turn
<1>8. \A i \in 0 .. n : c[i] \in 0 .. (Width - 1)
  <2> DEFINE T == {i \in 0 .. n : c[i] \notin 0 .. (Width - 1)}
  <2> SUFFICES ASSUME T # {}
               PROVE  FALSE
    OBVIOUS
  <2>1. T \in SUBSET Nat
    OBVIOUS
  <2>2. PICK k \in T : \A m \in T : k <= m
    <3> HIDE DEF T
    <3> QED
      BY <2>1, LeastNumber
  <2>3. k # 0
    BY <1>7, <2>2, WidthIs
  <2>4. k \in 1 .. n /\ k - 1 \in 0 .. n /\ ~(k <= k - 1)
    BY <2>2, <2>3
  <2>5. c[k - 1] \in 0 .. (Width - 1)
    BY <2>2, <2>4
  <2>6. \A m : \A v \in 0 .. m : v \in Nat
    OBVIOUS
  <2>7. c[k - 1] \in Nat /\ data[k] \in Nat
    BY <2>4, <2>5, <2>6
  <2>8. Turn(c[k - 1], data[k]) \in 0 .. (Width - 1)
    <3>1. PICK a \in Nat : a = c[k - 1]
      BY <2>7
    <3>2. PICK x \in Nat : x = data[k]
      BY <2>7
    <3>3. Turn(a, x) \in 0 .. (Width - 1)
      BY TurnRemainder
    <3> QED
      BY <3>1, <3>2, <3>3, Zenon
  <2>9. c[k] \in 0 .. (Width - 1)
    BY <1>7, <2>4, <2>8, Zenon
  <2> QED
    BY <2>2, <2>9
<1>9. Course(c, data, n)
  BY <1>7, <1>8 DEF Course
<1> QED
  BY <1>1, <1>9

\* Where the bytes agree, courses that agree stay together.
LEMMA CoursesTogether ==
    ASSUME NEW n \in Nat, NEW p, NEW q, NEW f, NEW g, Course(f, p, n), Course(g, q, n),
           NEW j \in 0 .. n, \A i \in 1 .. j : p[i] = q[i]
    PROVE  f[j] = g[j]
<1> DEFINE T == {i \in 0 .. j : f[i] # g[i]}
<1>0. j \in 0 .. j
  OBVIOUS
<1> SUFFICES ASSUME T # {}
             PROVE  FALSE
  BY <1>0
<1>1. T \in SUBSET Nat
  OBVIOUS
<1>2. PICK k \in T : \A m \in T : k <= m
  <2> HIDE DEF T
  <2> QED
    BY <1>1, LeastNumber
<1>3. k # 0
  BY <1>2 DEF Course
<1>4. k \in 1 .. j /\ k \in 1 .. n /\ k - 1 \in 0 .. j /\ ~(k <= k - 1)
  BY <1>2, <1>3
<1>5. f[k - 1] = g[k - 1]
  BY <1>2, <1>4
<1>6. f[k] = g[k]
  BY <1>4, <1>5 DEF Course
<1> QED
  BY <1>2, <1>6

\* The data p and q are bytes that agree behind the place j.
SameBehind(p, q, j, n) == \A i \in (j + 1) .. n : p[i] = q[i] /\ p[i] \in 0 .. 255

\* And courses that have parted never meet again.
LEMMA CoursesApart ==
    ASSUME NEW n \in Nat, NEW p, NEW q, NEW f, NEW g, Course(f, p, n), Course(g, q, n),
           NEW j \in 0 .. n, f[j] # g[j], SameBehind(p, q, j, n)
    PROVE  f[n] # g[n]
<1> DEFINE T == {i \in j .. n : f[i] = g[i]}
<1>0. n \in j .. n
  OBVIOUS
<1> SUFFICES ASSUME T # {}
             PROVE  FALSE
  BY <1>0
<1>1. T \in SUBSET Nat
  OBVIOUS
<1>2. PICK k \in T : \A m \in T : k <= m
  <2> HIDE DEF T
  <2> QED
    BY <1>1, LeastNumber
<1>3. k # j
  BY <1>2
<1>4. k \in (j + 1) .. n /\ k \in 1 .. n /\ k - 1 \in j .. n /\ k - 1 \in 0 .. n /\ ~(k <= k - 1)
  BY <1>2, <1>3
<1>5. f[k - 1] # g[k - 1]
  BY <1>2, <1>4
<1>6. /\ f[k] = Turn(f[k - 1], p[k]) /\ g[k] = Turn(g[k - 1], p[k])
      /\ f[k - 1] \in 0 .. (Width - 1) /\ g[k - 1] \in 0 .. (Width - 1) /\ p[k] \in 0 .. 255
  BY <1>4 DEF Course, SameBehind
<1>7. f[k] # g[k]
  <2>1. PICK a \in 0 .. (Width - 1) : a = f[k - 1]
    BY <1>6
  <2>2. PICK b \in 0 .. (Width - 1) : b = g[k - 1]
    BY <1>6
  <2>3. PICK x \in 0 .. 255 : x = p[k]
    BY <1>6
  <2>4. a # b
    BY <1>5, <2>1, <2>2
  <2>5. Turn(a, x) # Turn(b, x)
    BY <2>4, TurnKeepsApart
  <2>6. f[k] = Turn(a, x) /\ g[k] = Turn(b, x)
    BY <1>6, <2>1, <2>2, <2>3, Zenon
  <2> QED
    BY <2>5, <2>6, Zenon
<1> QED
  BY <1>2, <1>7

\* The n bytes q are the n bytes p with one of them replaced.
Replaced(p, q, n) ==
    \E j \in 1 .. n : p[j] # q[j] /\ \A i \in 1 .. n : i # j => p[i] = q[i]

\* The n bytes q are the n bytes p with two different neighbours exchanged.
Exchanged(p, q, n) ==
    \E j \in 1 .. (n - 1) :
        /\ p[j] # p[j + 1] /\ q[j] = p[j + 1] /\ q[j + 1] = p[j]
        /\ \A i \in 1 .. n : i \notin {j, j + 1} => p[i] = q[i]

\* One byte that is replaced changes the checksum.
LEMMA ChecksumSeesByte ==
    ASSUME ChecksumBits = 32, NEW n \in Nat,
           NEW p \in [1 .. n -> 0 .. 255], NEW q \in [1 .. n -> 0 .. 255],
           Replaced(p, q, n)
    PROVE  calculate_checksum(p, n) # calculate_checksum(q, n)
<1>0. PICK j \in 1 .. n : p[j] # q[j] /\ \A i \in 1 .. n : i # j => p[i] = q[i]
  BY DEF Replaced
<1>1. PICK f : Course(f, p, n) /\ calculate_checksum(p, n) = f[n]
  BY ChecksumCourse
<1>2. PICK g : Course(g, q, n) /\ calculate_checksum(q, n) = g[n]
  BY ChecksumCourse
<1>3. /\ j - 1 \in 0 .. n /\ j \in 0 .. n
      /\ \A i \in 1 .. (j - 1) : i \in 1 .. n /\ i # j
      /\ \A i \in (j + 1) .. n : i \in 1 .. n /\ i # j
  OBVIOUS
<1>4. f[j - 1] = g[j - 1]
  BY <1>0, <1>1, <1>2, <1>3, CoursesTogether
<1>5. /\ f[j] = Turn(f[j - 1], p[j]) /\ g[j] = Turn(g[j - 1], q[j])
      /\ f[j - 1] \in 0 .. (Width - 1) /\ p[j] \in 0 .. 255 /\ q[j] \in 0 .. 255
  BY <1>1, <1>2, <1>3 DEF Course
<1>6. f[j] # g[j]
  <2>1. PICK a \in 0 .. (Width - 1) : a = f[j - 1]
    BY <1>5
  <2>2. PICK x \in 0 .. 255 : x = p[j]
    BY <1>5
  <2>3. PICK y \in 0 .. 255 : y = q[j]
    BY <1>5
  <2>4. x # y
    BY <1>0, <2>2, <2>3
  <2>5. Turn(a, x) # Turn(a, y)
    BY <2>4, TurnSeesByte
  <2>6. f[j] = Turn(a, x) /\ g[j] = Turn(a, y)
    BY <1>4, <1>5, <2>1, <2>2, <2>3, Zenon
  <2> QED
    BY <2>5, <2>6, Zenon
<1>7. SameBehind(p, q, j, n)
  BY <1>0, <1>3 DEF SameBehind
<1>8. f[n] # g[n]
  <2>1. Course(f, p, n) /\ Course(g, q, n) /\ j \in 0 .. n
    BY <1>1, <1>2, <1>3
  <2> QED
    BY <1>6, <1>7, <2>1, CoursesApart
<1> QED
  BY <1>1, <1>2, <1>8

\* So do two neighbours that are exchanged.
LEMMA ChecksumSeesExchange ==
    ASSUME ChecksumBits = 32, NEW n \in Nat,
           NEW p \in [1 .. n -> 0 .. 255], NEW q \in [1 .. n -> 0 .. 255],
           Exchanged(p, q, n)
    PROVE  calculate_checksum(p, n) # calculate_checksum(q, n)
<1>0. PICK j \in 1 .. (n - 1) :
          /\ p[j] # p[j + 1] /\ q[j] = p[j + 1] /\ q[j + 1] = p[j]
          /\ \A i \in 1 .. n : i \notin {j, j + 1} => p[i] = q[i]
  BY DEF Exchanged
<1>1. PICK f : Course(f, p, n) /\ calculate_checksum(p, n) = f[n]
  BY ChecksumCourse
<1>2. PICK g : Course(g, q, n) /\ calculate_checksum(q, n) = g[n]
  BY ChecksumCourse
<1>3. /\ j - 1 \in 0 .. n /\ j \in 1 .. n /\ j + 1 \in 1 .. n /\ j + 1 \in 0 .. n
      /\ (j + 1) - 1 = j
      /\ \A i \in 1 .. (j - 1) : i \in 1 .. n /\ i \notin {j, j + 1}
      /\ \A i \in (j + 1 + 1) .. n : i \in 1 .. n /\ i \notin {j, j + 1}
  OBVIOUS
<1>4. f[j - 1] = g[j - 1]
  BY <1>0, <1>1, <1>2, <1>3, CoursesTogether
<1>5. /\ f[j] = Turn(f[j - 1], p[j]) /\ f[j + 1] = Turn(f[j], p[j + 1])
      /\ g[j] = Turn(f[j - 1], p[j + 1]) /\ g[j + 1] = Turn(g[j], p[j])
      /\ f[j - 1] \in 0 .. (Width - 1) /\ p[j] \in 0 .. 255 /\ p[j + 1] \in 0 .. 255
  <2>1. /\ f[j] = Turn(f[j - 1], p[j]) /\ f[j + 1] = Turn(f[j], p[j + 1])
        /\ g[j] = Turn(g[j - 1], q[j]) /\ g[j + 1] = Turn(g[j], q[j + 1])
    <3>1. /\ f[j + 1] = Turn(f[(j + 1) - 1], p[j + 1])
          /\ g[j + 1] = Turn(g[(j + 1) - 1], q[j + 1])
      BY <1>1, <1>2, <1>3 DEF Course
    <3>2. f[j] = Turn(f[j - 1], p[j]) /\ g[j] = Turn(g[j - 1], q[j])
      BY <1>1, <1>2, <1>3 DEF Course
    <3> QED
      BY <1>3, <3>1, <3>2
  <2>2. f[j - 1] \in 0 .. (Width - 1)
    BY <1>1, <1>3 DEF Course
  <2>3. p[j] \in 0 .. 255 /\ p[j + 1] \in 0 .. 255
    BY <1>3, Zenon
  <2> QED
    BY <1>0, <1>4, <2>1, <2>2, <2>3
<1>6. f[j + 1] # g[j + 1]
  <2>1. PICK a \in 0 .. (Width - 1) : a = f[j - 1]
    BY <1>5
  <2>2. PICK x \in 0 .. 255 : x = p[j]
    BY <1>5
  <2>3. PICK y \in 0 .. 255 : y = p[j + 1]
    BY <1>5
  <2>4. x # y
    BY <1>0, <2>2, <2>3
  <2>5. Turn(Turn(a, x), y) # Turn(Turn(a, y), x)
    BY <2>4, TurnsSeeExchange
  <2>6. f[j + 1] = Turn(Turn(a, x), y) /\ g[j + 1] = Turn(Turn(a, y), x)
    BY <1>5, <2>1, <2>2, <2>3, Zenon
  <2> QED
    BY <2>5, <2>6, Zenon
<1>7. PICK k \in 0 .. n : k = j + 1
  BY <1>3
<1>8. SameBehind(p, q, k, n)
  <2>1. \A i \in (k + 1) .. n : i \in 1 .. n /\ i \notin {j, j + 1}
    BY <1>3, <1>7
  <2> QED
    BY <1>0, <2>1, Zenon DEF SameBehind
<1>9. f[n] # g[n]
  <2>1. Course(f, p, n) /\ Course(g, q, n) /\ f[k] # g[k]
    BY <1>1, <1>2, <1>6, <1>7
  <2> QED
    BY <1>8, <2>1, CoursesApart
<1> QED
  BY <1>1, <1>2, <1>9

-----------------------------------------------------------------------------
(* Damage to the payload *)

\* The first n bytes behind the header in the receiver's buffer.
Received(n) == [i \in 1 .. n |-> rbuffer[HeaderSize + i]]

\* Damage that has reached the payload has spared the header, and is one
\* byte or two neighbours; the return value is that of deserialize_message.
DamageInv ==
    /\ phase \in {"arrived", "decoded"} /\ fate \in {"damaged", "retyped"} =>
           LET n == PayloadSize(msg.type)
           IN \/ PayloadIntact
              \/ /\ rbuffer[4] = n /\ rbuffer[5] = calculate_checksum(msg.payload, n)
                 /\ Received(n) \in [1 .. n -> Bytes]
                 /\ Replaced(msg.payload, Received(n), n) \/ Exchanged(msg.payload, Received(n), n)
    /\ phase = "decoded" => code = deserialize_message(rbuffer, received)

\* Either way the checksum is another one.
LEMMA ChecksumSeesDamage ==
    ASSUME ChecksumBits = 32, NEW n \in Nat,
           NEW p \in [1 .. n -> 0 .. 255], NEW q \in [1 .. n -> 0 .. 255],
           Replaced(p, q, n) \/ Exchanged(p, q, n)
    PROVE  calculate_checksum(p, n) # calculate_checksum(q, n)
<1>1. CASE Replaced(p, q, n)
  BY <1>1, ChecksumSeesByte
<1>2. CASE Exchanged(p, q, n)
  BY <1>2, ChecksumSeesExchange
<1> QED
  BY <1>1, <1>2

\* The sender's buffer, once serialize_message has succeeded.
LEMMA SenderHolds ==
    ASSUME WireInv, phase = "encoded", sent > 0
    PROVE  LET n == PayloadSize(msg.type)
           IN /\ n \in Nat /\ msg.payload \in [1 .. n -> Bytes]
              /\ sent = HeaderSize + n /\ sent <= BufferSize
              /\ DOMAIN buffer = 1 .. BufferSize
              /\ buffer[4] = n /\ buffer[5] = calculate_checksum(msg.payload, n)
              /\ \A i \in 1 .. n : buffer[HeaderSize + i] = msg.payload[i]
<1> DEFINE n == PayloadSize(msg.type)
<1>1. /\ msg \in Messages /\ limit \in Nat /\ limit <= BufferSize
      /\ sent = serialize_message(msg, limit) /\ Holds(buffer, msg, sent)
      /\ DOMAIN buffer = 1 .. BufferSize
  BY WireAssumption DEF WireInv
<1>2. n \in Nat /\ msg.payload \in [1 .. n -> Bytes]
  BY <1>1, MessageShape
<1>3. sent = HeaderSize + n /\ sent <= BufferSize
  BY <1>1, <1>2, SerializeReturns, WireAssumption DEF HeaderSize
<1>4. buffer[4] = Encoding(msg)[4] /\ buffer[5] = Encoding(msg)[5]
  BY <1>1, <1>2, <1>3 DEF Holds, HeaderSize
<1>5. Encoding(msg)[4] = n /\ Encoding(msg)[5] = calculate_checksum(msg.payload, n)
  BY <1>2 DEF Encoding, HeaderSize
<1>6. ASSUME NEW i \in 1 .. n
      PROVE  buffer[HeaderSize + i] = msg.payload[i]
  <2>1. HeaderSize + i \in 1 .. (HeaderSize + n) /\ ~(HeaderSize + i <= HeaderSize)
        /\ (HeaderSize + i) - HeaderSize = i
    BY <1>2 DEF HeaderSize
  <2>2. Encoding(msg)[HeaderSize + i] = msg.payload[i]
    BY <1>2, <2>1 DEF Encoding
  <2> QED
    BY <1>1, <1>3, <2>1, <2>2 DEF Holds
<1> QED
  BY <1>1, <1>2, <1>3, <1>4, <1>5, <1>6

\* Whatever is damaged on the way, the receiver finds damage of that kind.
LEMMA DamageArrives ==
    ASSUME WireInv, ArrivesDamaged
    PROVE  DamageInv'
<1>1. /\ UNCHANGED <<msg, buffer, sent>> /\ phase = "encoded" /\ phase' = "arrived" /\ sent > 0
  BY DEF ArrivesDamaged, Arrives
<1>2. PICK n \in Nat : n = PayloadSize(msg.type)
  BY <1>1, SenderHolds
<1>3. /\ msg.payload \in [1 .. n -> Bytes]
      /\ sent = HeaderSize + n /\ sent <= BufferSize
      /\ DOMAIN buffer = 1 .. BufferSize
      /\ buffer[4] = n /\ buffer[5] = calculate_checksum(msg.payload, n)
      /\ \A i \in 1 .. n : buffer[HeaderSize + i] = msg.payload[i]
  BY <1>1, <1>2, SenderHolds
<1>4. ASSUME NEW b, NEW f, Arrives(b, sent, f)
      PROVE  \A i \in 1 .. sent : rbuffer'[i] = b[i]
  <2>1. rbuffer' = [i \in Memory |-> IF i <= sent THEN b[i] ELSE rbuffer[i]]
    BY <1>4 DEF Arrives, Overwrite, WireInv
  <2>2. \A i \in 1 .. sent : i \in Memory
    BY <1>3, WireAssumption DEF Memory, HeaderSize
  <2> QED
    BY <2>1, <2>2
<1>5. /\ \A i \in 1 .. n : HeaderSize + i \in 1 .. sent
      /\ 4 \in 1 .. sent /\ 5 \in 1 .. sent
      /\ \A i \in 1 .. sent : i \in DOMAIN buffer
  BY <1>3, WireAssumption DEF HeaderSize
<1>6. ASSUME NEW i \in 1 .. HeaderSize, NEW x, NEW f, Arrives([buffer EXCEPT ![i] = x], sent, f)
      PROVE  PayloadIntact'
  <2>1. \A k \in 1 .. sent : rbuffer'[k] = [buffer EXCEPT ![i] = x][k]
    BY <1>4, <1>6
  <2>2. \A k \in 1 .. n : HeaderSize + k # i
    BY <1>6 DEF HeaderSize
  <2>3. \A k \in 1 .. n : rbuffer'[HeaderSize + k] = msg.payload[k]
    BY <1>3, <1>5, <2>1, <2>2
  <2> QED
    BY <1>1, <1>2, <2>3 DEF PayloadIntact
<1>7. ASSUME NEW i \in (HeaderSize + 1) .. sent, NEW x \in Bytes, x # buffer[i], NEW f,
             Arrives([buffer EXCEPT ![i] = x], sent, f)
      PROVE  /\ rbuffer'[4] = n /\ rbuffer'[5] = calculate_checksum(msg.payload, n)
             /\ Received(n)' \in [1 .. n -> Bytes] /\ Replaced(msg.payload, Received(n)', n)
  <2>1. \A k \in 1 .. sent : rbuffer'[k] = [buffer EXCEPT ![i] = x][k]
    BY <1>4, <1>7
  <2>2. PICK j \in 1 .. n : i = HeaderSize + j
    <3>1. i - HeaderSize \in 1 .. n /\ i = HeaderSize + (i - HeaderSize)
      BY <1>3, <1>7 DEF HeaderSize
    <3> QED
      BY <3>1
  <2>3. i # 4 /\ i # 5 /\ \A k \in 1 .. n : k # j => HeaderSize + k # i
    BY <1>7, <2>2 DEF HeaderSize
  <2>4. rbuffer'[4] = buffer[4] /\ rbuffer'[5] = buffer[5]
    BY <1>5, <2>1, <2>3
  <2>5. /\ rbuffer'[HeaderSize + j] = x
        /\ \A k \in 1 .. n : k # j => rbuffer'[HeaderSize + k] = msg.payload[k]
    BY <1>3, <1>5, <2>1, <2>2, <2>3
  <2>6. msg.payload[j] # x
    BY <1>3, <1>7, <2>2
  <2>7. Received(n)' = [k \in 1 .. n |-> rbuffer'[HeaderSize + k]]
    BY DEF Received
  <2>8. Received(n)'[j] = x /\ \A k \in 1 .. n : k # j => Received(n)'[k] = msg.payload[k]
    BY <2>5, <2>7
  <2>9. Received(n)' \in [1 .. n -> Bytes]
    BY <1>3, <2>5, <2>7
  <2>10. Replaced(msg.payload, Received(n)', n)
    BY <2>6, <2>8 DEF Replaced
  <2> QED
    BY <1>3, <2>4, <2>9, <2>10
<1>8. ASSUME NEW i \in (HeaderSize + 1) .. (sent - 1), buffer[i] # buffer[i + 1], NEW f,
             Arrives([buffer EXCEPT ![i] = buffer[i + 1], ![i + 1] = buffer[i]], sent, f)
      PROVE  /\ rbuffer'[4] = n /\ rbuffer'[5] = calculate_checksum(msg.payload, n)
             /\ Received(n)' \in [1 .. n -> Bytes] /\ Exchanged(msg.payload, Received(n)', n)
  <2>1. \A k \in 1 .. sent :
            rbuffer'[k] = [buffer EXCEPT ![i] = buffer[i + 1], ![i + 1] = buffer[i]][k]
    BY <1>4, <1>8
  <2>2. PICK j \in 1 .. (n - 1) : i = HeaderSize + j
    <3>1. i - HeaderSize \in 1 .. (n - 1) /\ i = HeaderSize + (i - HeaderSize)
      BY <1>3, <1>8 DEF HeaderSize
    <3> QED
      BY <3>1
  <2>3. /\ i # 4 /\ i # 5 /\ i + 1 # 4 /\ i + 1 # 5 /\ i + 1 # i
        /\ i + 1 = HeaderSize + (j + 1) /\ j \in 1 .. n /\ j + 1 \in 1 .. n
        /\ i \in 1 .. sent /\ i + 1 \in 1 .. sent
        /\ \A k \in 1 .. n : k \notin {j, j + 1} => HeaderSize + k # i /\ HeaderSize + k # i + 1
    <3>1. sent = 5 + n /\ i = 5 + j /\ HeaderSize = 5
      BY <1>3, <2>2 DEF HeaderSize
    <3> QED
      BY <3>1
  <2>4. rbuffer'[4] = buffer[4] /\ rbuffer'[5] = buffer[5]
    BY <1>5, <2>1, <2>3
  <2>5. /\ rbuffer'[i] = buffer[i + 1] /\ rbuffer'[i + 1] = buffer[i]
        /\ \A k \in 1 .. sent : k # i /\ k # i + 1 => rbuffer'[k] = buffer[k]
    BY <1>5, <2>1, <2>3
  <2>6. buffer[i] = msg.payload[j] /\ buffer[i + 1] = msg.payload[j + 1]
    BY <1>3, <2>2, <2>3
  <2>7. Received(n)' = [k \in 1 .. n |-> rbuffer'[HeaderSize + k]]
    BY DEF Received
  <2>8. /\ Received(n)'[j] = msg.payload[j + 1] /\ Received(n)'[j + 1] = msg.payload[j]
        /\ \A k \in 1 .. n : k \notin {j, j + 1} => Received(n)'[k] = msg.payload[k]
    <3>1. Received(n)'[j] = rbuffer'[i] /\ Received(n)'[j + 1] = rbuffer'[i + 1]
      BY <2>2, <2>3, <2>7
    <3>2. ASSUME NEW k \in 1 .. n, k \notin {j, j + 1}
          PROVE  Received(n)'[k] = msg.payload[k]
      <4>1. HeaderSize + k \in 1 .. sent /\ HeaderSize + k # i /\ HeaderSize + k # i + 1
        BY <1>5, <2>3, <3>2
      <4>2. rbuffer'[HeaderSize + k] = buffer[HeaderSize + k]
        BY <2>5, <4>1
      <4>3. Received(n)'[k] = rbuffer'[HeaderSize + k]
        BY <2>7
      <4> QED
        BY <1>3, <4>2, <4>3
    <3> QED
      BY <2>5, <2>6, <3>1, <3>2
  <2>9. Received(n)' \in [1 .. n -> Bytes]
    <3>1. ASSUME NEW k \in 1 .. n
          PROVE  Received(n)'[k] \in Bytes
      <4>1. /\ msg.payload[k] \in Bytes /\ msg.payload[j] \in Bytes
            /\ msg.payload[j + 1] \in Bytes
        BY <1>3, <2>3
      <4> QED
        BY <2>8, <4>1
    <3> QED
      BY <2>7, <3>1
  <2>10. msg.payload[j] # msg.payload[j + 1]
    BY <1>8, <2>6
  <2>11. Exchanged(msg.payload, Received(n)', n)
    BY <2>8, <2>10 DEF Exchanged
  <2> QED
    BY <1>3, <2>4, <2>9, <2>11
<1>9. \/ PayloadIntact'
      \/ /\ rbuffer'[4] = n /\ rbuffer'[5] = calculate_checksum(msg.payload, n)
         /\ Received(n)' \in [1 .. n -> Bytes]
         /\ Replaced(msg.payload, Received(n)', n) \/ Exchanged(msg.payload, Received(n)', n)
  <2>1. 3 \in 1 .. HeaderSize /\ {1, 2, 4, 5} \subseteq 1 .. HeaderSize
    BY DEF HeaderSize
  <2> QED
    BY <1>6, <1>7, <1>8, <2>1 DEF ArrivesDamaged
<1> QED
  BY <1>1, <1>2, <1>9 DEF DamageInv, Received

\* The invariant of damaged messages, in any reachable state.
LEMMA DamageInvHolds == Spec => []DamageInv
<1>1. Init => DamageInv
  BY DEF Init, DamageInv
<1>2. WireInv /\ DamageInv /\ [Next]_vars => DamageInv'
  <2> SUFFICES ASSUME WireInv, DamageInv, [Next]_vars
               PROVE  DamageInv'
    OBVIOUS
  <2>1. CASE UNCHANGED vars
    BY <2>1 DEF vars, DamageInv, PayloadIntact, Received
  <2>2. CASE Serialize
    BY <2>2 DEF Serialize, DamageInv
  <2>3. CASE ArrivesWhole \/ ArrivesCut \/ ArrivesJoined
    BY <2>3 DEF ArrivesWhole, ArrivesCut, ArrivesJoined, Arrives, DamageInv
  <2>4. CASE Deserialize
    <3>1. /\ UNCHANGED <<msg, rbuffer, received, fate>> /\ phase = "arrived" /\ phase' = "decoded"
          /\ code' = deserialize_message(rbuffer, received)
      BY <2>4 DEF Deserialize
    <3> QED
      BY <3>1 DEF DamageInv, PayloadIntact, Received
  <2>5. CASE ReadsBeyond
    BY <2>5 DEF ReadsBeyond, DamageInv
  <2> QED
    BY <2>1, <2>2, <2>3, <2>4, <2>5, DamageArrives DEF Next
<1> QED
  BY <1>1, <1>2, WireInvHolds, PTL DEF Spec

\* With the code's uint32_t checksum over 8-bit bytes, and for structures of
\* any size: no single damaged field or byte and no exchange of neighbouring
\* bytes makes deserialize_message accept a payload that was not sent.
THEOREM DamageAlwaysConfined ==
    ASSUME ChecksumBits = 32, Bytes \subseteq 0 .. 255
    PROVE  Spec => []DamageConfined
<1>1. WireInv /\ DamageInv => DamageConfined
  <2> SUFFICES ASSUME WireInv, DamageInv,
                      phase = "decoded", fate \in {"damaged", "retyped"}, code = SERIAL_SUCCESS
               PROVE  decoded.payload = msg.payload /\ (fate = "damaged" => decoded.type = msg.type)
    BY DEF DamageConfined
  <2>1. /\ fate = "damaged" => decoded.type = msg.type
        /\ PayloadIntact => decoded.payload = msg.payload
    BY DEF WireInv, HeaderDamageConfined
  <2>2. PICK n \in Nat : n = PayloadSize(msg.type) /\ msg.payload \in [1 .. n -> Bytes]
    BY MessageShape DEF WireInv
  <2>3. PayloadIntact
    <3> SUFFICES ASSUME ~PayloadIntact
                 PROVE  FALSE
      OBVIOUS
    <3>1. /\ rbuffer[4] = n /\ rbuffer[5] = calculate_checksum(msg.payload, n)
          /\ Received(n) \in [1 .. n -> Bytes]
          /\ Replaced(msg.payload, Received(n), n) \/ Exchanged(msg.payload, Received(n), n)
          /\ deserialize_message(rbuffer, received) = SERIAL_SUCCESS
      BY <2>2 DEF DamageInv
    <3>2. FirstChecks(rbuffer, received) = SERIAL_SUCCESS
      BY <3>1 DEF deserialize_message
    <3>3. /\ PayloadOf(rbuffer, MessageHeader(rbuffer)) = Received(n)
          /\ MessageHeader(rbuffer).payload_size = n
          /\ MessageHeader(rbuffer).checksum = rbuffer[5]
      BY <3>1 DEF PayloadOf, MessageHeader, Received
    <3>4. calculate_checksum(Received(n), n) = rbuffer[5]
      BY <3>2, <3>3 DEF FirstChecks, SERIAL_SUCCESS, SERIAL_ERROR_INCOMPLETE,
                        SERIAL_ERROR_INVALID_MESSAGE, SERIAL_ERROR_CHECKSUM
    <3>5. [1 .. n -> Bytes] \subseteq [1 .. n -> 0 .. 255]
      OBVIOUS
    <3>6. PICK p \in [1 .. n -> 0 .. 255] : p = msg.payload
      BY <2>2, <3>5, Zenon
    <3>7. PICK q \in [1 .. n -> 0 .. 255] : q = Received(n)
      <4>1. Received(n) \in [1 .. n -> Bytes]
        BY <3>1
      <4> QED
        BY <3>5, <4>1, Zenon
    <3>8. calculate_checksum(p, n) # calculate_checksum(q, n)
      <4>1. Replaced(p, q, n) \/ Exchanged(p, q, n)
        BY <3>1, <3>6, <3>7, Zenon
      <4> QED
        BY <4>1, ChecksumSeesDamage
    <3> QED
      BY <3>1, <3>4, <3>6, <3>7, <3>8
  <2> QED
    BY <2>1, <2>3
<1> QED
  BY <1>1, WireInvHolds, DamageInvHolds, PTL
=============================================================================
