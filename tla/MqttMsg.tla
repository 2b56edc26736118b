-------------------------------- MODULE MqttMsg --------------------------------
(***************************************************************************)
(* The packets of the MQTT client: src/mqtt/mqtt_msg.c, which builds them  *)
(* in one buffer and reads them from another, and the part of              *)
(* mqtt_tcpclient_recv that takes a segment apart and answers it.          *)
(*                                                                         *)
(* A packet is a sequence of bytes; an absent string is the empty one.     *)
(***************************************************************************)
EXTENDS Integers, Sequences

CONSTANTS
  BufferLength,        \* MQTT_BUF_SIZE, of either buffer
  MaxId,               \* the largest uint16_t
  Topics,              \* what is subscribed to
  Publications,        \* what is published
  Infos,               \* what the client may present itself with
  Packets,             \* what the broker sends
  Cuts,                \* where TCP may cut what the broker sends
  Sends                \* bound: how many packets the broker sends

Byte == 0 .. 255
UInt16 == 0 .. 256 * 256 - 1

\* Two bytes of remaining length are the most that fini_message writes.
ASSUME BufferAssumption == BufferLength \in 5 .. 128 * 128 + 2
ASSUME IdAssumption == MaxId \in UInt16 \ {0}

\* What is published, and what the client presents itself with.
Publication == [topic : Seq(Byte), data : Seq(Byte), qos : 0 .. 2, retain : 0 .. 1]
mqtt_connect_info == [client_id : Seq(Byte), will_topic : Seq(Byte), will_message : Seq(Byte),
                      username : Seq(Byte), password : Seq(Byte), will_retain : BOOLEAN,
                      will_qos : 0 .. 2, clean_session : BOOLEAN, keepalive : UInt16]

ASSUME SaidAssumption == /\ Topics \subseteq Seq(Byte)
                         /\ Publications \subseteq Publication
                         /\ Infos \subseteq mqtt_connect_info

VARIABLES
  message_id,          \* connection->message_id
  message,             \* outbound_message, <<>> when it failed
  asked,               \* history: what message was to say
  in_buffer,           \* mqtt_state.in_buffer
  accepted,            \* connState says that the session is up
  stream,              \* what the broker sent and TCP has not delivered
  segment,             \* what the handler has still to take apart
  due,                 \* history: the packets of which no byte is done with, and
                       \* where they start in the segment and the stream
  sent                 \* how many packets the broker sent, up to Sends

vars == <<message_id, message, asked, in_buffer, accepted, stream, segment, due, sent>>

Type == [CONNECT |-> 1, CONNACK |-> 2, PUBLISH |-> 3, PUBACK |-> 4, PUBREC |-> 5, PUBREL |-> 6,
         PUBCOMP |-> 7, SUBSCRIBE |-> 8, SUBACK |-> 9, UNSUBSCRIBE |-> 10,
         UNSUBACK |-> 11, PINGREQ |-> 12, PINGRESP |-> 13]

Least(m, n) == IF m <= n THEN m ELSE n

\* A number of two bytes, and a string behind its length.
Two(n) == <<n \div 256, n % 256>>
Str(s) == Two(Len(s)) \o s

-----------------------------------------------------------------------------
(* What is put behind the fixed header, for which three bytes are kept. A  *)
(* builder works on the set of what it has built: empty once it failed.    *)

MQTT_MAX_FIXED_HEADER_SIZE == 3

Fits(body, n) == MQTT_MAX_FIXED_HEADER_SIZE + Len(body) + n <= BufferLength

Appended(bodies, bytes) == {b \o bytes : b \in {c \in bodies : Fits(c, Len(bytes))}}

append_string(bodies, s) == Appended(bodies, Str(s))

\* An empty topic is refused before anything is put.
Named(topic) == IF topic = <<>> THEN {} ELSE {<<>>}

\* A given identifier, or the next one, which is never 0.
NextId == (message_id % MaxId) + 1
IdFor(id) == IF id = 0 THEN NextId ELSE id

append_message_id(bodies, id) == Appended(bodies, Two(id))

\* Mutant: one byte too much is said in one byte.
FiniLate(bodies, type, qos, retain) ==
  IF bodies = {} THEN <<>>
  ELSE LET body == CHOOSE b \in bodies : TRUE
           remaining_length == Len(body)
       IN  <<16 * type + 2 * qos + retain>>
           \o (IF remaining_length > 128
                 THEN <<128 + (remaining_length % 128), remaining_length \div 128>>
                 ELSE <<remaining_length>>)
           \o body

\* fini_message, or fail_message for no body.
fini_message(bodies, type, qos, retain) ==
  IF bodies = {} THEN <<>>
  ELSE LET body == CHOOSE b \in bodies : TRUE
           remaining_length == Len(body)
       IN  <<16 * type + 2 * qos + retain>>
           \o (IF remaining_length > 127
                 THEN <<128 + (remaining_length % 128), remaining_length \div 128>>
                 ELSE <<remaining_length>>)
           \o body

-----------------------------------------------------------------------------
(* What is read, from the first n bytes of a buffer b.  Positions count    *)
(* from 0, as in the code; a field at 0 is a null pointer.                 *)

mqtt_get_type(b) == b[1] \div 16
mqtt_get_qos(b) == (b[1] \div 2) % 4

\* Where the remaining length ends, if it does within n bytes.
HeaderEnd(b, n) ==
  IF \E k \in 1 .. n - 1 : b[k + 1] < 128
  THEN 1 + CHOOSE k \in 1 .. n - 1 : /\ b[k + 1] < 128
                                     /\ \A j \in 1 .. k - 1 : b[j + 1] >= 128
  ELSE n

Weight == <<1, 128, 128 * 128, 128 * 128 * 128>>
Digit(b, i, k) == IF k < i THEN (b[k + 1] % 128) * Weight[k] ELSE 0

AnyInt == -(2^31) .. 2^31 - 1

\* What the loop may sum up to, here and where the same loop is in a reader of
\* a PUBLISH: a fifth digit is shifted out of an int, and C does not say what
\* that gives.
mqtt_get_total_length(b, n) ==
  LET i == HeaderEnd(b, n)
  IN  IF i <= 5 THEN {i + Digit(b, i, 1) + Digit(b, i, 2) + Digit(b, i, 3) + Digit(b, i, 4)}
      ELSE AnyInt

TopicLength(b, i) == b[i + 1] * 256 + b[i + 2]

mqtt_get_publish_topic(b, n) ==
  LET i == HeaderEnd(b, n)
      topiclen == TopicLength(b, i)
  IN  IF i + 2 >= n \/ i + 2 + topiclen > n
        THEN [at |-> 0, length |-> n]
        ELSE [at |-> i + 2, length |-> topiclen]

\* Mutant: the identifier is read as data.
DataWithId(b, n, total) ==
  LET i == HeaderEnd(b, n)
      data == i + 2 + TopicLength(b, i)
  IN  IF i + 2 >= n \/ data >= n \/ total < data
        THEN [at |-> 0, length |-> 0]
        ELSE [at |-> data, length |-> Least(total, n) - data]

\* Mutant: what is announced is taken for what is there.
DataUnread(b, n, total) ==
  LET i == HeaderEnd(b, n)
      topic == i + 2 + TopicLength(b, i)
      data == IF mqtt_get_qos(b) > 0 THEN topic + 2 ELSE topic
  IN  IF i + 2 >= n \/ topic >= n \/ data >= n \/ total < data
        THEN [at |-> 0, length |-> 0]
        ELSE [at |-> data, length |-> total - data]

mqtt_get_publish_data(b, n, total) ==
  LET i == HeaderEnd(b, n)
      topic == i + 2 + TopicLength(b, i)
      data == IF mqtt_get_qos(b) > 0 THEN topic + 2 ELSE topic
  IN  IF i + 2 >= n \/ topic >= n \/ data >= n \/ total < data
        THEN [at |-> 0, length |-> 0]
        ELSE [at |-> data, length |-> Least(total, n) - data]

\* The identifier of a PUBLISH comes behind its topic, if it has a quality
\* of service.
PublishId(b, n) ==
  LET i == HeaderEnd(b, n)
      id == i + 2 + TopicLength(b, i)
  IN  IF i + 2 >= n \/ id + 2 >= n \/ mqtt_get_qos(b) = 0
        THEN 0
        ELSE b[id + 1] * 256 + b[id + 2]

mqtt_get_id(b, n) ==
  CASE mqtt_get_type(b) = Type.PUBLISH -> PublishId(b, n)
    [] mqtt_get_type(b) \in (4 .. 9) \cup {11} ->
         IF n >= 4 /\ b[2] < 128 THEN b[3] * 256 + b[4] ELSE 0
    [] OTHER -> 0

-----------------------------------------------------------------------------
Nothing == [type |-> 0, qos |-> 0, retain |-> 0, body |-> <<>>, valid |-> FALSE]

Init == /\ message_id = 0
        /\ message = <<>> /\ asked = Nothing
        /\ in_buffer = [i \in 1 .. BufferLength |-> 0]
        /\ accepted = FALSE
        /\ stream = <<>> /\ segment = <<>> /\ due = {} /\ sent = 0

\* A packet built from bodies is to say body.
Build(type, qos, retain, bodies, body, valid) ==
  /\ message' = fini_message(bodies, type, qos, retain)
  /\ asked' = [type |-> type, qos |-> qos, retain |-> retain, body |-> body,
               valid |-> valid]

Bit(condition) == IF condition THEN 1 ELSE 0
IfAny(s) == IF s = <<>> THEN <<>> ELSE Str(s)

\* An absent string is left out.
append_if_any(bodies, s) == IF s = <<>> THEN bodies ELSE append_string(bodies, s)

\* The flags tell which of the strings follow.
ConnectFlags(info) ==
  LET will == info.will_topic # <<>>
  IN  128 * Bit(info.username # <<>>) + 64 * Bit(info.password # <<>>)
      + 32 * Bit(will /\ info.will_retain) + 8 * (Bit(will) * info.will_qos)
      + 4 * Bit(will) + 2 * Bit(info.clean_session)

MQIsdp == <<0, 6, 77, 81, 73, 115, 100, 112, 3>>

\* A new connection: mqtt_tcpclient_connect_cb.
mqtt_msg_connect(info) ==
  LET header == MQIsdp \o <<ConnectFlags(info)>> \o Two(info.keepalive)
      named == IF info.client_id = <<>> THEN {}
               ELSE append_string(Appended({<<>>}, header), info.client_id)
      willed == IF info.will_topic = <<>> THEN named
                ELSE append_string(append_string(named, info.will_topic), info.will_message)
  IN  /\ Build(Type.CONNECT, 0, 0,
               append_if_any(append_if_any(willed, info.username), info.password),
               header \o Str(info.client_id)
                 \o (IF info.will_topic = <<>> THEN <<>>
                     ELSE Str(info.will_topic) \o Str(info.will_message))
                 \o IfAny(info.username) \o IfAny(info.password),
               info.client_id # <<>>)
      /\ message_id' = 0
      /\ accepted' = FALSE
      /\ stream' = <<>> /\ segment' = <<>> /\ due' = {}
      /\ UNCHANGED <<in_buffer, sent>>

\* The application and the timer run between two segments.
Idle == segment = <<>> /\ UNCHANGED <<in_buffer, accepted, stream, segment, due, sent>>

mqtt_msg_publish(topic, data, qos, retain) ==
  LET named == append_string(Named(topic), topic)
      id == IF qos > 0 THEN Two(NextId) ELSE <<>>
  IN  /\ Idle
      /\ Build(Type.PUBLISH, qos, retain, Appended(Appended(named, id), data),
               Str(topic) \o id \o data, topic # <<>>)
      /\ message_id' = IF qos > 0 /\ named # {} THEN NextId ELSE message_id

mqtt_msg_subscribe(topic, qos) ==
  /\ Idle
  /\ Build(Type.SUBSCRIBE, 1, 0,
           Appended(append_string(append_message_id(Named(topic), NextId), topic), <<qos>>),
           Two(NextId) \o Str(topic) \o <<qos>>, topic # <<>>)
  /\ message_id' = IF topic # <<>> THEN NextId ELSE message_id

mqtt_msg_unsubscribe(topic) ==
  /\ Idle
  /\ Build(Type.UNSUBSCRIBE, 1, 0,
           append_string(append_message_id(Named(topic), NextId), topic),
           Two(NextId) \o Str(topic), topic # <<>>)
  /\ message_id' = IF topic # <<>> THEN NextId ELSE message_id

mqtt_msg_pingreq ==
  /\ Idle
  /\ Build(Type.PINGREQ, 0, 0, {<<>>}, <<>>, TRUE)
  /\ UNCHANGED message_id

-----------------------------------------------------------------------------
(* The broker and TCP.                                                     *)

\* What was built was copied to the queue before its builder returned.
Queued == message' = <<>> /\ asked' = Nothing

Body(p) == CASE p.type = Type.PUBLISH ->
                  Str(p.topic) \o (IF p.qos > 0 THEN Two(p.id) ELSE <<>>) \o p.data
             [] p.type = Type.CONNACK -> <<0, p.id>>
             [] p.type = Type.PINGREQ -> <<>>
             [] OTHER -> Two(p.id)

Encode(p) == <<16 * p.type + 2 * p.qos>>
             \o (LET n == Len(Body(p))
                 IN  IF n < 128 THEN <<n>> ELSE <<128 + (n % 128), n \div 128>>)
             \o Body(p)

\* What MQTT asks of a broker, as far as the client relies on it: what is
\* acknowledged has an identifier, and a topic has a name.
Acknowledged(p) == (p.type = Type.PUBLISH /\ p.qos > 0) \/ p.type \in {Type.PUBREC, Type.PUBREL}
ASSUME PacketAssumption ==
  \A p \in Packets :
    /\ p.type \in 1 .. 14 /\ p.qos \in 0 .. 2 /\ p.id \in UInt16
    /\ p.type = Type.PUBLISH => p.topic \in Seq(Byte) \ {<<>>} /\ p.data \in Seq(Byte)
    /\ Acknowledged(p) => p.id > 0
    /\ p.type = Type.CONNACK => p.id \in Byte
    /\ Len(Body(p)) < 128 * 128

Due(p, start) == [packet |-> p, start |-> start]

BrokerSends(p) ==
  /\ sent < Sends /\ sent' = sent + 1
  /\ stream' = stream \o Encode(p)
  /\ due' = due \cup {Due(p, Len(segment) + Len(stream))}
  /\ Queued
  /\ UNCHANGED <<message_id, in_buffer, accepted, segment>>

Arrives(n) ==
  /\ segment = <<>> /\ n \in 1 .. Len(stream)
  /\ segment' = SubSeq(stream, 1, n)
  /\ stream' = SubSeq(stream, n + 1, Len(stream))
  /\ Queued
  /\ UNCHANGED <<message_id, in_buffer, accepted, due, sent>>

-----------------------------------------------------------------------------
(* mqtt_tcpclient_recv, once from READPACKET.                              *)

\* n bytes of the segment are done with, and left is left of it.
Consume(n, left) ==
  /\ segment' = left
  /\ due' = {Due(d.packet, d.start - n) : d \in {e \in due : e.start >= n}}

\* What answers a packet, with the identifier it is read with.
Respond(type, qos, id) ==
  LET ack(t, q) == /\ Build(t, q, 0, append_message_id({<<>>}, IdFor(id)), Two(IdFor(id)), TRUE)
                   /\ message_id' = IF id = 0 THEN NextId ELSE message_id
  IN  CASE type = Type.PUBLISH /\ qos = 1 -> ack(Type.PUBACK, 0)
        [] type = Type.PUBLISH /\ qos = 2 -> ack(Type.PUBREC, 0)
        [] type = Type.PUBREC -> ack(Type.PUBREL, 1)
        [] type = Type.PUBREL -> ack(Type.PUBCOMP, 0)
        [] type = Type.PINGREQ -> /\ Build(Type.PINGRESP, 0, 0, {<<>>}, <<>>, TRUE)
                                  /\ UNCHANGED message_id
        [] OTHER -> Queued /\ UNCHANGED message_id

TooLong == /\ segment # <<>> /\ Len(segment) >= BufferLength
           /\ Consume(Len(segment), <<>>)
           /\ Queued
           /\ UNCHANGED <<message_id, in_buffer, accepted, stream, sent>>

Read == /\ segment # <<>> /\ Len(segment) < BufferLength
        /\ in_buffer' = segment \o SubSeq(in_buffer, Len(segment) + 1, BufferLength)
        /\ UNCHANGED <<stream, sent>>

ReadConnack == /\ Read /\ ~accepted
               /\ accepted' = (mqtt_get_type(in_buffer') = Type.CONNACK /\ in_buffer'[4] = 0)
               /\ Consume(Len(segment), <<>>)
               /\ Queued
               /\ UNCHANGED message_id

\* What mqttDataCb is handed of the PUBLISH that b begins with, n bytes of
\* which arrived.
Bytes(b, field) == SubSeq(b, field.at + 1, field.at + field.length)
deliver_publish(b, n, total) == [topic |-> Bytes(b, mqtt_get_publish_topic(b, n)),
                                 data  |-> Bytes(b, mqtt_get_publish_data(b, n, total))]

\* The identifier is looked for in the whole buffer, the rest in the segment;
\* only behind a PUBLISH is another packet looked for.
TakeApart(idWithin) ==
  LET n == Len(segment)
      type == mqtt_get_type(in_buffer')
  IN  /\ Read /\ accepted
      /\ Respond(type, mqtt_get_qos(in_buffer'), mqtt_get_id(in_buffer', idWithin))
      /\ \E total \in mqtt_get_total_length(in_buffer', n) :
           LET message_length == total % (256 * 256)
           IN  IF type = Type.PUBLISH /\ message_length < n
               THEN Consume(message_length, SubSeq(segment, message_length + 1, n))
               ELSE Consume(n, <<>>)
      /\ UNCHANGED accepted

\* Mutant: the identifier too is looked for in the segment.
ReadIdInSegment == TakeApart(Len(segment))

ReadPacket == TakeApart(BufferLength)

-----------------------------------------------------------------------------
Builds == \/ \E info \in Infos : mqtt_msg_connect(info)
          \/ \E p \in Publications : mqtt_msg_publish(p.topic, p.data, p.qos, p.retain)
          \/ \E topic \in Topics : mqtt_msg_subscribe(topic, 2) \/ mqtt_msg_unsubscribe(topic)
          \/ mqtt_msg_pingreq

Receives == \/ \E p \in Packets : BrokerSends(p)
            \/ \E n \in Cuts : Arrives(n)
            \/ Arrives(Len(stream))
            \/ TooLong \/ ReadConnack \/ ReadPacket

Next == Builds \/ Receives

Spec == Init /\ [][Next]_vars

-----------------------------------------------------------------------------
(* Properties.                                                             *)

\* What is built says what was asked for to who reads it with the functions
\* that read the broker's packets, and a packet fails exactly when its topic
\* or client is missing or it does not fit: the two ends of the codec
\* (fini_message against mqtt_get_total_length) agree on where a length of one
\* byte ends, and every append_ asks for the room it takes.
BuiltAsAsked ==
  IF ~asked.valid \/ MQTT_MAX_FIXED_HEADER_SIZE + Len(asked.body) > BufferLength
  THEN message = <<>>
  ELSE /\ mqtt_get_type(message) = asked.type
       /\ mqtt_get_qos(message) = asked.qos
       /\ mqtt_get_total_length(message, Len(message)) = {Len(message)}
       /\ SubSeq(message, HeaderEnd(message, Len(message)) + 1, Len(message)) = asked.body

\* The segment begins with a packet that came whole.
WholeFirst(d) == d.start = 0 /\ Len(Encode(d.packet)) <= Len(segment)

\* A PUBLISH that came whole is delivered with the topic and the data that
\* were published, whatever comes behind it in the segment and whatever older
\* segments left in in_buffer (deliver_publish).
ReadAsSent ==
  [][ReadPacket =>
       \A d \in due : WholeFirst(d) /\ d.packet.type = Type.PUBLISH =>
         \A total \in mqtt_get_total_length(in_buffer', Len(segment)) :
           deliver_publish(in_buffer', Len(segment), total)
             = [topic |-> d.packet.topic, data |-> d.packet.data]]_vars

\* What has to be acknowledged is, with the identifier that it came with: a
\* PUBLISH without data too, at whose end the segment ends (mqtt_get_id).
AckMatches ==
  [][ReadPacket =>
       \A d \in due : WholeFirst(d) /\ Acknowledged(d.packet) =>
         asked'.body = Two(d.packet.id) /\ message' # <<>>]_vars

\* However TCP cuts what the broker sends, a topic or data that is found lies
\* within the segment, never in what an older one left behind it
\* (mqtt_get_publish_topic, mqtt_get_publish_data).
ReadInBounds ==
  [][ReadPacket /\ mqtt_get_type(in_buffer') = Type.PUBLISH =>
       LET n == Len(segment)
           topic == mqtt_get_publish_topic(in_buffer', n)
       IN  /\ topic.at # 0 => topic.at + topic.length <= n
           /\ \A total \in mqtt_get_total_length(in_buffer', n) :
                LET data == mqtt_get_publish_data(in_buffer', n, total)
                IN  data.length >= 0 /\ data.at + data.length <= n]_vars
=============================================================================
