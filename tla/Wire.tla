-------------------------------- MODULE Wire --------------------------------
(***************************************************************************)
(* The message format of src/serialization/serialization.c, and one        *)
(* message on its way from serialize_message to deserialize_message.       *)
(*                                                                         *)
(* A buffer is a sequence of units: each of the five fields of the header  *)
(* is one unit and so is each byte of the payload, and all sizes are       *)
(* counted in units.  A payload (Order, MarketData, TradeExecution) is     *)
(* copied as it lies in memory, so it is a sequence of bytes here.         *)
(***************************************************************************)
EXTENDS Integers

CONSTANTS
    Bytes,              \* the values of a byte
    OrderSize,          \* sizeof(Order)
    MarketDataSize,     \* sizeof(MarketData)
    TradeExecutionSize, \* sizeof(TradeExecution), equal to sizeof(Order)
    BufferSize,         \* BUFFER_SIZE
    MaxMessageSize,     \* MAX_MESSAGE_SIZE
    ChecksumBits,       \* the width of the checksum, uint32_t in the code
    MaxField            \* bound: the largest value of a damaged header field

HeaderSize == 5

ASSUME WireAssumption ==
    /\ Bytes \subseteq Nat
    /\ OrderSize \in Nat /\ MarketDataSize \in Nat /\ TradeExecutionSize \in Nat
    /\ BufferSize \in Nat /\ MaxMessageSize \in Nat /\ ChecksumBits \in Nat
    /\ MaxField \in Nat /\ BufferSize <= HeaderSize + MaxField
    /\ \A n \in {OrderSize, MarketDataSize, TradeExecutionSize} :
          HeaderSize + n <= BufferSize /\ HeaderSize + n <= MaxMessageSize

VARIABLES
    phase,     \* how far the message is: "new", "encoded", "arrived", "decoded",
               \* or "crashed" in deserialize_message
    msg,       \* the message that is sent
    limit,     \* the buffer_size given to serialize_message
    buffer,    \* the sender's buffer
    sent,      \* what serialize_message returned
    rbuffer,   \* the receiver's buffer and the memory behind it
    received,  \* how many units of it recv filled
    fate,      \* what happened to the message on the way
    decoded,   \* the receiver's Message
    code       \* what deserialize_message returned

vars == <<phase, msg, limit, buffer, sent, rbuffer, received, fate, decoded, code>>

-----------------------------------------------------------------------------
(* Values *)

SERIALIZATION_VERSION == 1

SERIAL_SUCCESS               == 0
SERIAL_ERROR_BUFFER_OVERFLOW == -1
SERIAL_ERROR_INVALID_VERSION == -2
SERIAL_ERROR_INVALID_TYPE    == -3
SERIAL_ERROR_CHECKSUM        == -4
SERIAL_ERROR_INCOMPLETE      == -5
SERIAL_ERROR_INVALID_MESSAGE == -6

MSG_NONE         == 0
MSG_HEARTBEAT    == 1
MSG_ORDER_NEW    == 2
MSG_ORDER_CANCEL == 3
MSG_ORDER_MODIFY == 4
MSG_ORDER_STATUS == 5
MSG_MARKET_DATA  == 6
MSG_TRADE_EXEC   == 7
MSG_ERROR        == 8
MessageTypes == MSG_NONE .. MSG_ERROR

OrderTypes == {MSG_ORDER_NEW, MSG_ORDER_MODIFY, MSG_ORDER_CANCEL}

\* The types both switch statements have a case for.
Carried == OrderTypes \cup {MSG_MARKET_DATA, MSG_TRADE_EXEC}

PayloadSize(type) ==
    CASE type \in OrderTypes     -> OrderSize
      [] type = MSG_MARKET_DATA  -> MarketDataSize
      [] OTHER                   -> TradeExecutionSize

\* A message whose union holds what its type says; the value of the union
\* does not matter for the types that are not carried.
Messages ==
    UNION {[type : {t}, sequence_num : {1, 2},
            payload : [1 .. PayloadSize(t) -> Bytes]] : t \in MessageTypes}

\* The fields of a MessageHeader, in their order in the buffer.
MessageHeader(b) ==
    [version |-> b[1], message_size |-> b[2], type |-> b[3],
     payload_size |-> b[4], checksum |-> b[5]]

-----------------------------------------------------------------------------
(* The functions of serialization.c *)

ChecksumMissesLast(data, size) ==
    LET checksum[i \in 0 .. size] ==
            IF i = 0 THEN 0 ELSE (33 * checksum[i - 1] + data[i]) % 2^ChecksumBits
    IN checksum[IF size = 0 THEN 0 ELSE size - 1]

\* checksum = ((checksum << 5) + checksum) + data[i]
calculate_checksum(data, size) ==
    LET checksum[i \in 0 .. size] ==
            IF i = 0 THEN 0 ELSE (33 * checksum[i - 1] + data[i]) % 2^ChecksumBits
    IN checksum[size]

validate_message_header(h) ==
    IF h.version # SERIALIZATION_VERSION THEN SERIAL_ERROR_INVALID_VERSION
    ELSE IF h.message_size < HeaderSize THEN SERIAL_ERROR_INVALID_MESSAGE
    ELSE IF h.message_size > MaxMessageSize THEN SERIAL_ERROR_BUFFER_OVERFLOW
    ELSE SERIAL_SUCCESS

FitsWithoutHeader(type, size) == PayloadSize(type) <= size

Fits(type, size) == HeaderSize + PayloadSize(type) <= size

\* The units of the message; sequence_num and timestamp have no place in it.
Encoding(m) ==
    LET n == PayloadSize(m.type)
        header == <<SERIALIZATION_VERSION, HeaderSize + n, m.type, n,
                    calculate_checksum(m.payload, n)>>
    IN [i \in 1 .. (HeaderSize + n) |->
           IF i <= HeaderSize THEN header[i] ELSE m.payload[i - HeaderSize]]

\* What serialize_message returns.
serialize_message(m, size) ==
    IF size < HeaderSize THEN SERIAL_ERROR_BUFFER_OVERFLOW
    ELSE IF m.type \notin Carried THEN SERIAL_ERROR_INVALID_TYPE
    ELSE IF ~Fits(m.type, size) THEN SERIAL_ERROR_BUFFER_OVERFLOW
    ELSE HeaderSize + PayloadSize(m.type)

\* A buffer b after its first n units were overwritten by u.
Overwrite(b, u, n) == [i \in DOMAIN b |-> IF i <= n THEN u[i] ELSE b[i]]

CompleteIfMore(h, size) == size > h.message_size
CompleteIfHeader(h, size) == size >= HeaderSize

Complete(h, size) == size >= h.message_size

\* The payload_size bytes behind the header, received or not, within the
\* buffer or behind it.
PayloadOf(b, h) == [i \in 1 .. h.payload_size |-> b[HeaderSize + i]]

\* The checks of deserialize_message up to the checksum, on the first size
\* units of b.
FirstChecks(b, size) ==
    LET h == MessageHeader(b)
    IN IF size < HeaderSize THEN SERIAL_ERROR_INCOMPLETE
       ELSE IF validate_message_header(h) # SERIAL_SUCCESS THEN SERIAL_ERROR_INVALID_MESSAGE
       ELSE IF ~Complete(h, size) THEN SERIAL_ERROR_INCOMPLETE
       ELSE IF calculate_checksum(PayloadOf(b, h), h.payload_size) # h.checksum
            THEN SERIAL_ERROR_CHECKSUM
       ELSE SERIAL_SUCCESS

\* What deserialize_message returns.
deserialize_message(b, size) ==
    LET h == MessageHeader(b)
    IN IF FirstChecks(b, size) # SERIAL_SUCCESS THEN FirstChecks(b, size)
       ELSE IF h.type \notin Carried THEN SERIAL_ERROR_INVALID_TYPE
       ELSE IF h.payload_size # PayloadSize(h.type) THEN SERIAL_ERROR_INVALID_MESSAGE
       ELSE SERIAL_SUCCESS

\* The receiver's Message after that: msg->type is assigned before the
\* switch, the union in it, and sequence_num never.
Written(d, b, size) ==
    LET h == MessageHeader(b)
    IN IF FirstChecks(b, size) # SERIAL_SUCCESS THEN d
       ELSE IF deserialize_message(b, size) # SERIAL_SUCCESS THEN [d EXCEPT !.type = h.type]
       ELSE [d EXCEPT !.type = h.type, !.payload = PayloadOf(b, h)]

-----------------------------------------------------------------------------
(* One message on its way *)

\* As far as a damaged payload_size can lead calculate_checksum.
Memory == 1 .. (HeaderSize + MaxField)

\* The receiver's Message is a local that nobody initialises, and its buffer
\* and the memory behind it hold what was there before.
Init ==
    /\ phase = "new"
    /\ msg \in Messages
    /\ limit \in 0 .. BufferSize
    /\ \E x \in Bytes : /\ buffer = [i \in 1 .. BufferSize |-> x]
                        /\ rbuffer = [i \in Memory |-> x]
    /\ sent = 0 /\ received = 0
    /\ fate = "none"
    /\ decoded \in [type : {MSG_NONE}, sequence_num : {0, 1}, payload : {<<>>}]
    /\ code = 0

Serialize ==
    /\ phase = "new"
    /\ sent' = serialize_message(msg, limit)
    /\ buffer' = IF sent' > 0 THEN Overwrite(buffer, Encoding(msg), sent') ELSE buffer
    /\ phase' = "encoded"
    /\ UNCHANGED <<msg, limit, rbuffer, received, fate, decoded, code>>

\* recv fills the first n units of the receiver's buffer with u.
Arrives(u, n, f) ==
    /\ phase = "encoded"
    /\ sent > 0
    /\ rbuffer' = Overwrite(rbuffer, u, n)
    /\ received' = n
    /\ fate' = f
    /\ phase' = "arrived"
    /\ UNCHANGED <<msg, limit, buffer, sent, decoded, code>>

ArrivesWhole == Arrives(buffer, sent, "whole")

\* Only a first part of the message has arrived.
ArrivesCut == \E n \in 1 .. (sent - 1) : Arrives(buffer, n, "cut")

\* More has arrived than the message: a byte of the next one.
ArrivesJoined ==
    /\ sent < BufferSize
    /\ \E x \in Bytes : Arrives([buffer EXCEPT ![sent + 1] = x], sent + 1, "joined")

\* One unit has another value, or two bytes of the payload are exchanged.
ArrivesDamaged ==
    \/ \E x \in MessageTypes :
          x # buffer[3] /\ Arrives([buffer EXCEPT ![3] = x], sent, "retyped")
    \/ \E i \in {1, 2, 4, 5}, x \in 0 .. MaxField :
          x # buffer[i] /\ Arrives([buffer EXCEPT ![i] = x], sent, "damaged")
    \/ \E i \in (HeaderSize + 1) .. sent, x \in Bytes :
          x # buffer[i] /\ Arrives([buffer EXCEPT ![i] = x], sent, "damaged")
    \/ \E i \in (HeaderSize + 1) .. (sent - 1) :
          /\ buffer[i] # buffer[i + 1]
          /\ Arrives([buffer EXCEPT ![i] = buffer[i + 1], ![i + 1] = buffer[i]], sent, "damaged")

Deserialize ==
    /\ phase = "arrived"
    /\ code' = deserialize_message(rbuffer, received)
    /\ decoded' = Written(decoded, rbuffer, received)
    /\ phase' = "decoded"
    /\ UNCHANGED <<msg, limit, buffer, sent, rbuffer, received, fate>>

\* Nothing compares payload_size with the buffer before the checksum is
\* computed: the loop may run out of the memory of the process.
ReadsBeyond ==
    /\ phase = "arrived"
    /\ LET h == MessageHeader(rbuffer)
       IN /\ received >= HeaderSize
          /\ validate_message_header(h) = SERIAL_SUCCESS /\ Complete(h, received)
          /\ HeaderSize + h.payload_size > BufferSize
    /\ phase' = "crashed"
    /\ UNCHANGED <<msg, limit, buffer, sent, rbuffer, received, fate, decoded, code>>

Next ==
    \/ Serialize
    \/ ArrivesWhole \/ ArrivesCut \/ ArrivesJoined \/ ArrivesDamaged
    \/ Deserialize \/ ReadsBeyond

Spec == Init /\ [][Next]_vars

-----------------------------------------------------------------------------
(* Properties *)

\* What arrives whole, with or without the start of another message behind
\* it, is decoded: the code is the one that client.c:24 and
\* server_network.c:103 expect, and type and payload are those that were
\* sent.  The unit test expects otherwise: DecodesAsTested.
RoundTrip ==
    phase = "decoded" /\ fate \in {"whole", "joined"} =>
        code = SERIAL_SUCCESS /\ decoded.type = msg.type /\ decoded.payload = msg.payload

\* tests/unit/test_serialization.c:27 and 29, "Deserialization size mismatch"
\* and "Sequence number mismatch": a whole message makes deserialize_message
\* return the size that serialize_message returned, and the Message has the
\* sequence number that was sent.
DecodesAsTested ==
    phase = "decoded" /\ fate = "whole" =>
        code = sent /\ decoded.sequence_num = msg.sequence_num

\* A message that has not arrived to its end is reported as incomplete,
\* whatever older bytes the receiver's buffer holds behind it.
CutIsIncomplete ==
    phase = "decoded" /\ fate = "cut" => code = SERIAL_ERROR_INCOMPLETE

\* One damaged unit, or two exchanged bytes, never change what is accepted:
\* the payload is the one sent, and so is the type unless the type field was
\* hit (the checksum does not cover the header).
DamageConfined ==
    phase = "decoded" /\ fate \in {"damaged", "retyped"} /\ code = SERIAL_SUCCESS =>
        decoded.payload = msg.payload /\ (fate = "damaged" => decoded.type = msg.type)

\* serialize_message never writes, or claims to have written, more than the
\* buffer_size it was given, and writes nothing when it fails.
WritesWithinLimit ==
    /\ sent <= limit
    /\ phase = "encoded" =>
          \A i \in 1 .. BufferSize : i > limit \/ sent <= 0 => buffer[i] = rbuffer[i]
=============================================================================
