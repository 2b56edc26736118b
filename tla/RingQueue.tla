------------------------------ MODULE RingQueue ------------------------------
(***************************************************************************)
(* The outbound message queue of the MQTT client: QUEUE_Puts, QUEUE_Gets   *)
(* (src/mqtt/queue.c), the framing they use (src/mqtt/proto.c) and the     *)
(* loop around them in MQTT_Publish, MQTT_Subscribe, MQTT_UnSubscribe and  *)
(* MQTT_Ping (src/mqtt/mqtt.c), one RINGBUF_Put or RINGBUF_Get per step.   *)
(* The ring itself is the byte FIFO of ByteFifo, which RingBuf implements. *)
(*                                                                         *)
(* The firmware never preempts a handler, so one call runs at a time; "op" *)
(* says which one.  The packet being written is represented by "put", the  *)
(* token whose byte PROTO_AddRb puts next.                                 *)
(***************************************************************************)
EXTENDS ByteFifo, FiniteSets

CONSTANTS Packet,      \* the packets (byte strings) callers queue
          BufSize,     \* MQTT_BUF_SIZE, the size of the caller's dataBuffer
          MaxCalls     \* bound: packets queued in a behaviour

NoPacket == <<-1>>     \* no byte string

ASSUME BoundAssumption == BufSize \in Nat /\ MaxCalls \in Nat

\* mqtt_msg_init gives the builder a buffer of MQTT_BUF_SIZE bytes too.
ASSUME PacketAssumption == Packet \subseteq {p \in Seq(Byte) : Len(p) <= BufSize}

VARIABLES
  op,        \* "idle", or the call in progress: "insist" or "offer" while it
             \* puts, "drop" while an insisting one takes, "get" for QUEUE_Gets
  put,       \* the next token PROTO_AddRb puts
  calls,     \* the number of the current or last packet to be queued
  data,      \* proto.buf, as far as dataLen
  isEsc,     \* proto.isEsc
  isBegin,   \* proto.isBegin
  out,       \* what the last QUEUE_Gets returned
  tags,      \* history: the token each byte of fifo was put for
  lost       \* history: the longest frame the present call has thrown away

parser == <<data, isEsc, isBegin>>
vars == <<fifo, got, op, put, calls, data, isEsc, isBegin, out, tags, lost>>

-----------------------------------------------------------------------------
(* The frame of a packet, token by token.                                  *)

ESC == 125             \* 0x7D
BEGIN == 126           \* 0x7E
END == 127             \* 0x7F

Special(b) == b \in {ESC, BEGIN, END}

\* b ^ 0x20
Flip(b) == IF (b \div 32) % 2 = 1 THEN b - 32 ELSE b + 32

Kind == {"begin", "raw", "esc", "flip", "end"}

\* A token of the frame of "packet", the one that call "id" queues; "pos" is
\* the index of the packet's byte it stands for.
Token(id, packet, kind, pos) ==
  [id |-> id, packet |-> packet, kind |-> kind, pos |-> pos]

TokenAt(id, packet, pos) ==
  Token(id, packet,
        IF pos > Len(packet) THEN "end"
        ELSE IF Special(packet[pos]) THEN "esc" ELSE "raw",
        pos)

\* Mutant: PROTO_AddRb does not open the frame with 0x7E.
FirstTokenUnopened(id, packet) == TokenAt(id, packet, 1)

FirstToken(id, packet) == Token(id, packet, "begin", 0)

NextToken(t) == IF t.kind = "esc" THEN [t EXCEPT !.kind = "flip"]
                ELSE TokenAt(t.id, t.packet, t.pos + 1)

ByteOf(t) == CASE t.kind = "begin" -> BEGIN
               [] t.kind = "end"   -> END
               [] t.kind = "esc"   -> ESC
               [] t.kind = "raw"   -> t.packet[t.pos]
               [] t.kind = "flip"  -> Flip(t.packet[t.pos])

NoToken == Token(0, <<>>, "end", 1)

\* The bytes to be escaped among the first n of p.
Specials(p, n) == Cardinality({i \in 1..n : Special(p[i])})

\* The bytes PROTO_AddRb puts for p.
FrameLength(p) == 2 + Len(p) + Specials(p, Len(p))

Longer(m, n) == IF m > n THEN m ELSE n

-----------------------------------------------------------------------------
Init == /\ FifoInit
        /\ op = "idle"
        /\ put = NoToken
        /\ calls = 0
        /\ data = <<>> /\ isEsc = FALSE /\ isBegin = FALSE
        /\ out = NoPacket
        /\ tags = <<>>
        /\ lost = 0

\* A caller hands a packet to QUEUE_Puts.
StartPut(p, kind) ==
  /\ op = "idle"
  /\ calls < MaxCalls
  /\ calls' = calls + 1
  /\ op' = kind
  /\ put' = FirstToken(calls + 1, p)
  /\ out' = NoPacket
  /\ lost' = 0
  /\ UNCHANGED <<fifo, got, parser, tags>>

\* PROTO_AddRb: one RINGBUF_Put that succeeds, and the return after 0x7F.
PutByte ==
  /\ op \in {"insist", "offer"}
  /\ FifoPut(ByteOf(put))
  /\ tags' = Append(tags, put)
  /\ IF put.kind = "end" THEN op' = "idle" /\ put' = NoToken
                         ELSE op' = op /\ put' = NextToken(put)
  /\ UNCHANGED <<calls, parser, out, lost>>

\* PROTO_Init: it leaves isBegin, a field of a local variable, unset.
ProtoInit == /\ data' = <<>>
             /\ isEsc' = FALSE
             /\ isBegin' \in BOOLEAN

\* RINGBUF_Put finds the ring full: the part of the frame already written
\* stays, and the loop of MQTT_Publish and its kin calls QUEUE_Gets.
InsistFull ==
  /\ op = "insist"
  /\ FifoFull
  /\ op' = "drop"
  /\ put' = FirstToken(put.id, put.packet)
  /\ ProtoInit
  /\ UNCHANGED <<fifo, got, calls, out, tags, lost>>

\* The receive handler's QUEUE_Puts finds the ring full: it gives up.
OfferFull ==
  /\ op = "offer"
  /\ FifoFull
  /\ op' = "idle"
  /\ put' = NoToken
  /\ UNCHANGED <<fifo, got, calls, parser, out, tags, lost>>

\* MQTT_Task calls QUEUE_Gets when QUEUE_IsEmpty is false.
StartGet ==
  /\ op = "idle"
  /\ fifo # <<>>
  /\ op' = "get"
  /\ out' = NoPacket
  /\ lost' = 0
  /\ ProtoInit
  /\ UNCHANGED <<fifo, got, put, calls, tags>>

\* Mutant: 0x7E does not restart the packet.
ParseByteKeeps(b) ==
  \/ b = ESC /\ isEsc' = TRUE /\ UNCHANGED <<data, isBegin>>
  \/ b = BEGIN /\ isBegin' = TRUE /\ UNCHANGED <<data, isEsc>>
  \/ b = END /\ isBegin' = FALSE /\ UNCHANGED <<data, isEsc>>
  \/ ~Special(b) /\ ~isBegin /\ UNCHANGED parser
  \/ /\ ~Special(b) /\ isBegin
     /\ data' = IF Len(data) < BufSize
                THEN Append(data, IF isEsc THEN Flip(b) ELSE b) ELSE data
     /\ isEsc' = FALSE
     /\ UNCHANGED isBegin

\* PROTO_ParseByte on byte b.
ParseByte(b) ==
  \/ b = ESC /\ isEsc' = TRUE /\ UNCHANGED <<data, isBegin>>
  \/ b = BEGIN /\ data' = <<>> /\ isEsc' = FALSE /\ isBegin' = TRUE
  \/ b = END /\ isBegin' = FALSE /\ UNCHANGED <<data, isEsc>>
  \/ ~Special(b) /\ ~isBegin /\ UNCHANGED parser
  \/ /\ ~Special(b) /\ isBegin
     /\ data' = IF Len(data) < BufSize
                THEN Append(data, IF isEsc THEN Flip(b) ELSE b) ELSE data
     /\ isEsc' = FALSE
     /\ UNCHANGED isBegin

\* What an insisting caller takes out it throws away.
Lose == lost' = IF op = "drop" /\ Head(fifo) = END
                THEN Longer(lost, FrameLength(tags[1].packet)) ELSE lost

\* Mutant: an insisting caller takes out all there is before it puts again.
DropAll ==
  /\ op \in {"get", "drop"}
  /\ FifoGet
  /\ ParseByte(Head(fifo))
  /\ tags' = Tail(tags)
  /\ Lose
  /\ IF op = "get" /\ Head(fifo) = END
     THEN op' = "idle" /\ out' = data
     ELSE op' = (IF op = "drop" /\ Len(fifo) = 1 THEN "insist" ELSE op) /\ UNCHANGED out
  /\ UNCHANGED <<put, calls>>

\* PROTO_ParseRb: one RINGBUF_Get, and the return when it was 0x7F, after
\* which the insisting caller puts again.
GetByte ==
  /\ op \in {"get", "drop"}
  /\ FifoGet
  /\ ParseByte(Head(fifo))
  /\ tags' = Tail(tags)
  /\ Lose
  /\ IF Head(fifo) = END
     THEN IF op = "get" THEN op' = "idle" /\ out' = data
                        ELSE op' = "insist" /\ UNCHANGED out
     ELSE UNCHANGED <<op, out>>
  /\ UNCHANGED <<put, calls>>

\* Mutant: MQTT_Publish goes on trying when QUEUE_Gets returned -1.
RetryForever ==
  /\ op \in {"get", "drop"}
  /\ fifo = <<>>
  /\ op' = IF op = "drop" THEN "insist" ELSE "idle"
  /\ put' = IF op = "drop" THEN put ELSE NoToken
  /\ UNCHANGED <<fifo, got, calls, parser, out, tags, lost>>

\* PROTO_ParseRb ran out of bytes: QUEUE_Gets returns -1, and an insisting
\* caller gives up ("Serious buffer error").
GetNothing ==
  /\ op \in {"get", "drop"}
  /\ fifo = <<>>
  /\ op' = "idle"
  /\ put' = NoToken
  /\ UNCHANGED <<fifo, got, calls, parser, out, tags, lost>>

Step == PutByte \/ InsistFull \/ OfferFull \/ GetByte \/ GetNothing

Next == \/ \E p \in Packet, kind \in {"insist", "offer"} : StartPut(p, kind)
        \/ StartGet
        \/ Step

Spec == Init /\ [][Next]_vars

-----------------------------------------------------------------------------
(* Type correctness.                                                       *)
TokenSet == [id : Nat, packet : Packet \cup {<<>>}, kind : Kind, pos : Nat]

TypeOK == /\ fifo \in Seq(Byte) /\ got \in Byte
          /\ Len(fifo) <= Size
          /\ op \in {"idle", "insist", "offer", "drop", "get"}
          /\ put \in TokenSet
          /\ calls \in 0..MaxCalls
          /\ data \in Seq(Byte)
          /\ isEsc \in BOOLEAN /\ isBegin \in BOOLEAN
          /\ tags \in Seq(TokenSet)
          /\ out \in Packet \cup {NoPacket}

(* Between calls the read pointer is at the first byte of a frame, even    *)
(* after calls that left half a frame behind: what PROTO_ParseByte does    *)
(* with an uninitialised isBegin can never matter.                         *)
AtFrameStart == op = "idle" /\ fifo # <<>> => fifo[1] = BEGIN

\* The queued packets: those whose closing byte is in the ring.
Whole == {i \in 1..Len(tags) : tags[i].kind = "end"}
Held == {[id |-> tags[i].id, packet |-> tags[i].packet] : i \in Whole}

(* One packet whose frame is no shorter than its own is the last that a    *)
(* publish throws away: the loop of MQTT_Publish does not find the ring    *)
(* full again, although half frames, of its own attempts and of others',   *)
(* lie between the packets.  So what a refused publish has cost are        *)
(* shorter packets only.                                                   *)
LosesOnlyShorter == op = "drop" => lost < FrameLength(put.packet)

(* Every call ends: an insisting caller does not take and put for ever.    *)
CallsEnd == op # "idle" ~> op = "idle"

Queue == INSTANCE MsgQueue WITH
  held <- Held,
  phase <- IF op = "drop" THEN "insist" ELSE op,
  incoming <- IF op \in {"insist", "offer", "drop"}
              THEN [id |-> put.id, packet |-> put.packet] ELSE NoPacket

(* The bytes in the ring, however cut up, implement the queue of packets:  *)
(* QUEUE_Gets returns whole packets only, each as it was put, in the order *)
(* they were put; packets are lost oldest first and only to a caller that  *)
(* insists; -1 means that no whole packet was there.                       *)
ImplementsQueue == Queue!Spec

-----------------------------------------------------------------------------
(* The inductive invariant.  A byte in the ring is told apart only by its  *)
(* neighbours, so the invariant says how the tokens behind the bytes       *)
(* follow one another, what the writer adds next and what the parser has   *)
(* kept of the frame it is reading.                                        *)
WellFormed(t) ==
  /\ t \in TokenSet /\ t.packet \in Packet
  /\ t.kind = "begin" => t.pos = 0
  /\ t.kind = "end" => t.pos = Len(t.packet) + 1
  /\ t.kind \in {"raw", "esc", "flip"} =>
       /\ t.pos \in 1..Len(t.packet)
       /\ Special(t.packet[t.pos]) <=> t.kind # "raw"

\* A frame is written in order; where it was cut short the next one begins.
Follows(s, t) == t.kind = "begin" \/ (s.kind # "end" /\ t = NextToken(s))

\* Packets enter the ring in the order of the calls, each whole at most once.
Precedes(s, t) == s.id <= t.id /\ (s.kind = "end" => s.id < t.id)

RingInv ==
  /\ Len(fifo) = Len(tags)
  /\ \A i \in 1..Len(tags) : /\ WellFormed(tags[i])
                             /\ tags[i].id <= calls
                             /\ fifo[i] = ByteOf(tags[i])
  /\ \A i \in 1..Len(tags) : i > 1 => Follows(tags[i - 1], tags[i])
  /\ \A i, j \in 1..Len(tags) : i < j => Precedes(tags[i], tags[j])

PutInv ==
  op \in {"insist", "offer", "drop"} =>
    /\ WellFormed(put) /\ put.id = calls
    /\ \A i \in 1..Len(tags) : Precedes(tags[i], put)
    /\ put.kind # "begin" => tags # <<>> /\ Follows(tags[Len(tags)], put)
    /\ op = "drop" => put.kind = "begin"

\* The parser has kept exactly the bytes of t's packet before t.
Parsed(t) == /\ isBegin
             /\ isEsc <=> t.kind = "flip"
             /\ Len(data) = t.pos - 1
             /\ \A k \in 1..Len(data) : data[k] = t.packet[k]

GetInv ==
  tags # <<>> => \/ tags[1].kind = "begin"
                 \/ op \in {"get", "drop"} /\ Parsed(tags[1])

IInv == TypeOK /\ RingInv /\ PutInv /\ GetInv

\* The bytes of t's frame that come before t.
Before(t) ==
  IF t.kind = "begin" THEN 0
  ELSE t.pos + Specials(t.packet, t.pos - 1) + (IF t.kind = "flip" THEN 1 ELSE 0)

\* What a call has thrown away of a frame, or of a longer one, is room for
\* as much of its own.
RoomInv ==
  /\ lost \in Nat
  /\ op = "drop" => /\ lost < FrameLength(put.packet)
                    /\ tags # <<>> => Before(tags[1]) <= Size - Len(fifo)
  /\ op = "insist" /\ lost >= FrameLength(put.packet) =>
       FrameLength(put.packet) - Before(put) <= Size - Len(fifo)
=============================================================================
