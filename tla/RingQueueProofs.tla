--------------------------- MODULE RingQueueProofs ---------------------------
(***************************************************************************)
(* For every ring size, buffer size and set of packets: the invariant of   *)
(* the framed queue and the queue of packets it implements; the invariant  *)
(* of the ring and the FIFO of bytes it implements; and that the pointers  *)
(* of the ring hold the bytes of the queue.                                *)
(***************************************************************************)
EXTENDS PointerQueue, SequenceTheorems, FiniteSetTheorems, TLAPS

-----------------------------------------------------------------------------
(* Facts about tokens.                                                     *)

(* A packet is a string of bytes no longer than the buffers.               *)
LEMMA PacketBytes ==
  \A p \in Packet : p \in Seq(Byte) /\ Len(p) \in Nat /\ Len(p) <= BufSize
<1> TAKE p \in Packet
<1>1. p \in Seq(Byte) /\ Len(p) <= BufSize
  BY PacketAssumption
<1>2. QED BY <1>1, LenProperties

(* Escaping is undone by escaping again, and an escaped byte frames nothing. *)
LEMMA FlipSpecial ==
  \A b \in Byte : Special(b) => Flip(b) \in Byte /\ ~Special(Flip(b)) /\ Flip(Flip(b)) = b
  BY DEF Special, Flip, ESC, BEGIN, END, Byte

(* The token at a position of a packet stands for a byte of it.            *)
LEMMA TokenAtWellFormed ==
  ASSUME NEW id \in Nat, NEW p \in Packet, NEW pos \in 1 .. Len(p) + 1
  PROVE  /\ WellFormed(TokenAt(id, p, pos))
         /\ TokenAt(id, p, pos).id = id /\ TokenAt(id, p, pos).packet = p
         /\ TokenAt(id, p, pos).pos = pos
         /\ TokenAt(id, p, pos).kind \in {"end", "esc", "raw"}
<1>1. Len(p) \in Nat
  BY PacketBytes
<1> DEFINE kind == IF pos > Len(p) THEN "end"
                   ELSE IF Special(p[pos]) THEN "esc" ELSE "raw"
           t == [id |-> id, packet |-> p, kind |-> kind, pos |-> pos]
<1>2. TokenAt(id, p, pos) = t
  BY DEF TokenAt, Token
<1>3. t.id = id /\ t.packet = p /\ t.kind = kind /\ t.pos = pos
  OBVIOUS
<1>4. kind \in {"end", "esc", "raw"}
  OBVIOUS
<1>5. t \in TokenSet
  BY <1>1, <1>4 DEF TokenSet, Kind
<1>6. WellFormed(t)
  <2>1. kind = "end" => pos = Len(p) + 1
    BY <1>1
  <2>2. kind \in {"raw", "esc"} =>
          pos \in 1..Len(p) /\ (Special(p[pos]) <=> kind # "raw")
    BY <1>1
  <2>3. QED BY <1>3, <1>4, <1>5, <2>1, <2>2 DEF WellFormed
<1>7. QED BY <1>2, <1>3, <1>4, <1>6

(* The frame of a packet begins with a well-formed token.                  *)
LEMMA FirstTokenWellFormed ==
  ASSUME NEW id \in Nat, NEW p \in Packet
  PROVE  /\ WellFormed(FirstToken(id, p))
         /\ FirstToken(id, p).id = id /\ FirstToken(id, p).packet = p
         /\ FirstToken(id, p).kind = "begin"
  BY DEF WellFormed, FirstToken, Token, TokenSet, Kind

(* The successor of a token that does not close its frame is one of the    *)
(* same packet.                                                            *)
LEMMA NextTokenWellFormed ==
  ASSUME NEW t, WellFormed(t), t.kind # "end"
  PROVE  /\ WellFormed(NextToken(t))
         /\ NextToken(t).id = t.id /\ NextToken(t).packet = t.packet
         /\ NextToken(t).kind # "begin"
         /\ t.kind = "esc" => NextToken(t).kind = "flip" /\ NextToken(t).pos = t.pos
         /\ t.kind # "esc" => NextToken(t).kind # "flip" /\ NextToken(t).pos = t.pos + 1
<1>1. /\ t \in [id : Nat, packet : Packet \cup {<<>>}, kind : Kind, pos : Nat]
      /\ t.packet \in Packet
  BY DEF WellFormed, TokenSet
<1>2. t.id \in Nat /\ t.kind \in Kind /\ t.pos \in Nat /\ Len(t.packet) \in Nat
  BY <1>1, PacketBytes
<1>3. CASE t.kind = "esc"
  <2> DEFINE n == [t EXCEPT !.kind = "flip"]
  <2>1. NextToken(t) = n
    BY <1>3 DEF NextToken
  <2>2. n \in TokenSet /\ n.id = t.id /\ n.packet = t.packet /\ n.kind = "flip"
        /\ n.pos = t.pos
    BY <1>1 DEF TokenSet, Kind
  <2>3. t.pos \in 1..Len(t.packet) /\ Special(t.packet[t.pos])
    BY <1>3 DEF WellFormed
  <2>4. WellFormed(n)
    BY <1>1, <2>2, <2>3 DEF WellFormed
  <2>5. QED BY <1>3, <2>1, <2>2, <2>4
<1>4. CASE t.kind # "esc"
  <2>1. NextToken(t) = TokenAt(t.id, t.packet, t.pos + 1)
    BY <1>4 DEF NextToken
  <2>2. t.pos + 1 \in 1 .. Len(t.packet) + 1
    BY <1>2 DEF WellFormed, Kind
  <2>3. QED BY <1>1, <1>2, <1>4, <2>1, <2>2, TokenAtWellFormed
<1>5. QED BY <1>3, <1>4

(* The byte of a token tells the framing tokens from the others, and a     *)
(* token that is parsed as data stands for the packet's byte.              *)
LEMMA ByteOfToken ==
  ASSUME NEW t, WellFormed(t)
  PROVE  /\ ByteOf(t) \in Byte
         /\ ByteOf(t) = BEGIN <=> t.kind = "begin"
         /\ ByteOf(t) = END <=> t.kind = "end"
         /\ ByteOf(t) = ESC <=> t.kind = "esc"
         /\ t.kind = "raw" => ByteOf(t) = t.packet[t.pos]
         /\ t.kind = "flip" => Flip(ByteOf(t)) = t.packet[t.pos]
<1>1. t.packet \in Seq(Byte) /\ t.kind \in {"begin", "raw", "esc", "flip", "end"}
  BY PacketBytes DEF WellFormed, TokenSet, Kind
<1>2. CASE t.kind \in {"begin", "esc", "end"}
  BY <1>2, SMTT(30) DEF ByteOf, BEGIN, ESC, END, Byte
<1>3. CASE t.kind \in {"raw", "flip"}
  <2>1. t.packet[t.pos] \in Byte /\ (Special(t.packet[t.pos]) <=> t.kind # "raw")
    BY <1>1, <1>3, ElementOfSeq DEF WellFormed
  <2>2. CASE t.kind = "raw"
    <3>1. ByteOf(t) = t.packet[t.pos]
      BY <2>2 DEF ByteOf
    <3>2. QED BY <2>1, <2>2, <3>1 DEF Special
  <2>3. CASE t.kind = "flip"
    <3>1. ByteOf(t) = Flip(t.packet[t.pos])
      BY <2>3 DEF ByteOf
    <3>2. /\ ByteOf(t) \in Byte /\ ~Special(ByteOf(t))
          /\ Flip(ByteOf(t)) = t.packet[t.pos]
      BY <2>1, <2>3, <3>1, FlipSpecial
    <3>3. QED BY <2>3, <3>2 DEF Special
  <2>4. QED BY <1>3, <2>2, <2>3
<1>4. QED BY <1>1, <1>2, <1>3

-----------------------------------------------------------------------------
(* The invariant holds initially and every action preserves it.            *)

LEMMA InitIInv == Init => IInv
<1> SUFFICES ASSUME Init PROVE IInv
  OBVIOUS
<1> USE DEF Init, FifoInit
<1>1. TypeOK
  <2>1. NoToken \in TokenSet
    BY DEF NoToken, Token, TokenSet, Kind
  <2>2. fifo \in Seq(Byte) /\ Len(fifo) <= Size /\ got \in Byte
    BY SizeAssumption DEF Byte
  <2>3. data \in Seq(Byte) /\ tags \in Seq(TokenSet)
    OBVIOUS
  <2>4. calls \in 0..MaxCalls
    BY BoundAssumption
  <2>5. isEsc \in BOOLEAN /\ isBegin \in BOOLEAN
    OBVIOUS
  <2>6. QED BY <2>1, <2>2, <2>3, <2>4, <2>5 DEF TypeOK
<1>2. RingInv /\ PutInv /\ GetInv
  BY DEF RingInv, PutInv, GetInv
<1>3. QED BY <1>1, <1>2 DEF IInv

(* A caller's packet gets a number above that of every packet in the ring. *)
LEMMA StartPutIInv ==
  ASSUME IInv, NEW p \in Packet, NEW kind \in {"insist", "offer"}, StartPut(p, kind)
  PROVE  IInv'
<1> USE DEF IInv, StartPut, parser
<1> DEFINE id == calls + 1
<1>1. calls \in Nat /\ id \in Nat /\ id <= MaxCalls /\ calls' = id
  BY BoundAssumption DEF TypeOK
<1>2. /\ WellFormed(put') /\ put'.id = id /\ put'.kind = "begin"
      /\ put' \in TokenSet
  BY <1>1, FirstTokenWellFormed DEF WellFormed
<1>3. \A i \in 1..Len(tags) : tags[i].id \in Nat /\ tags[i].id <= calls
  BY DEF RingInv, WellFormed, TokenSet
<1>4. TypeOK'
  BY <1>1, <1>2 DEF TypeOK
<1>5. RingInv'
  <2>1. \A i \in 1..Len(tags) : tags[i].id <= calls'
    BY <1>1, <1>3
  <2>2. QED BY <2>1 DEF RingInv, WellFormed
<1>6. PutInv'
  <2>1. \A i \in 1..Len(tags) : Precedes(tags[i], put')
    BY <1>1, <1>2, <1>3 DEF Precedes
  <2>2. WellFormed(put)'
    BY <1>2 DEF WellFormed
  <2>3. QED BY <1>1, <1>2, <2>1, <2>2 DEF PutInv, Precedes
<1>7. GetInv'
  BY DEF GetInv
<1>8. QED BY <1>4, <1>5, <1>6, <1>7

(* The byte PROTO_AddRb puts continues the frame at the end of the ring.   *)
LEMMA PutByteIInv ==
  ASSUME IInv, PutByte
  PROVE  IInv'
<1> USE DEF IInv, PutByte, parser
<1> DEFINE n == Len(tags)
<1>1. /\ WellFormed(put) /\ put.id = calls /\ put \in TokenSet
      /\ \A i \in 1..n : Precedes(tags[i], put)
      /\ put.kind # "begin" => tags # <<>> /\ Follows(tags[n], put)
  BY DEF PutInv, WellFormed
<1>2. /\ fifo \in Seq(Byte) /\ tags \in Seq(TokenSet) /\ n \in Nat
      /\ Len(fifo) = n /\ Len(fifo) < Size
      /\ ByteOf(put) \in Byte
  BY <1>1, ByteOfToken, SizeAssumption DEF TypeOK, RingInv, FifoPut, FifoFull
<1>3. /\ tags' \in Seq(TokenSet) /\ Len(tags') = n + 1 /\ tags'[n + 1] = put
      /\ \A i \in 1..n : tags'[i] = tags[i]
  BY <1>1, <1>2
<1>4. /\ fifo' \in Seq(Byte) /\ Len(fifo') = n + 1 /\ fifo'[n + 1] = ByteOf(put)
      /\ \A i \in 1..n : fifo'[i] = fifo[i]
  BY <1>2 DEF FifoPut
<1>5. put.kind # "end" =>
        /\ WellFormed(NextToken(put)) /\ NextToken(put) \in TokenSet
        /\ NextToken(put).id = put.id /\ NextToken(put).kind # "begin"
  BY <1>1, NextTokenWellFormed DEF WellFormed
<1>6. TypeOK'
  <2>1. put' \in TokenSet
    BY <1>5 DEF NoToken, Token, TokenSet, Kind
  <2>2. QED BY <1>2, <1>3, <1>4, <2>1, SizeAssumption DEF TypeOK, FifoPut
<1>7. RingInv'
  <2>1. \A i \in 1 .. n + 1 : /\ WellFormed(tags'[i])
                              /\ tags'[i].id <= calls
                              /\ fifo'[i] = ByteOf(tags'[i])
    <3> TAKE i \in 1 .. n + 1
    <3>1. CASE i = n + 1
      BY <1>1, <1>3, <1>4, <3>1 DEF WellFormed, TokenSet
    <3>2. CASE i \in 1..n
      BY <1>3, <1>4, <3>2 DEF RingInv
    <3>3. QED BY <1>2, <3>1, <3>2
  <2>2. \A i \in 1 .. n + 1 : i > 1 => Follows(tags'[i - 1], tags'[i])
    <3> SUFFICES ASSUME NEW i \in 1 .. n + 1, i > 1
                 PROVE  Follows(tags'[i - 1], tags'[i])
      OBVIOUS
    <3>1. CASE i = n + 1
      <4>1. tags'[i] = put /\ tags'[i - 1] = tags[n]
        BY <1>2, <1>3, <3>1
      <4>2. QED BY <1>1, <4>1 DEF Follows
    <3>2. CASE i \in 1..n
      <4>1. tags'[i] = tags[i] /\ tags'[i - 1] = tags[i - 1]
        BY <1>2, <1>3, <3>2
      <4>2. QED BY <3>2, <4>1 DEF RingInv
    <3>3. QED BY <1>2, <3>1, <3>2
  <2>3. \A i, j \in 1 .. n + 1 : i < j => Precedes(tags'[i], tags'[j])
    <3> SUFFICES ASSUME NEW i \in 1 .. n + 1, NEW j \in 1 .. n + 1, i < j
                 PROVE  Precedes(tags'[i], tags'[j])
      OBVIOUS
    <3>1. i \in 1..n /\ tags'[i] = tags[i]
      BY <1>2, <1>3
    <3>2. CASE j = n + 1
      BY <1>1, <1>3, <3>1, <3>2
    <3>3. CASE j \in 1..n
      BY <1>3, <3>1, <3>3 DEF RingInv
    <3>4. QED BY <1>2, <3>2, <3>3
  <2>4. (\A i \in 1..Len(tags) : WellFormed(tags[i]))'
    BY <1>3, <2>1 DEF WellFormed
  <2>5. QED BY <1>3, <1>4, <2>1, <2>2, <2>3, <2>4 DEF RingInv
<1>8. PutInv'
  <2>1. CASE put.kind = "end"
    BY <2>1 DEF PutInv
  <2>2. CASE put.kind # "end"
    <3>1. put' = NextToken(put) /\ op' = op /\ op # "drop"
      BY <2>2
    <3>2. \A i \in 1 .. n + 1 : Precedes(tags'[i], put')
      <4> TAKE i \in 1 .. n + 1
      <4>1. CASE i = n + 1
        BY <1>1, <1>3, <1>5, <2>2, <3>1, <4>1 DEF Precedes, WellFormed, TokenSet
      <4>2. CASE i \in 1..n
        BY <1>1, <1>3, <1>5, <2>2, <3>1, <4>2 DEF Precedes
      <4>3. QED BY <1>2, <4>1, <4>2
    <3>3. Follows(tags'[Len(tags')], put') /\ tags' # <<>>
      BY <1>2, <1>3, <2>2, <3>1 DEF Follows
    <3>4. WellFormed(put)' /\ put'.id = calls
      BY <1>1, <1>5, <2>2, <3>1 DEF WellFormed
    <3>5. QED BY <1>3, <3>1, <3>2, <3>3, <3>4 DEF PutInv, Precedes, Follows
  <2>3. QED BY <2>1, <2>2
<1>9. GetInv'
  <2>1. CASE tags = <<>>
    <3>1. tags'[1] = put /\ put.kind = "begin"
      BY <1>1, <1>3, <2>1
    <3>2. QED BY <3>1 DEF GetInv
  <2>2. CASE tags # <<>>
    <3>1. n >= 1
      BY <1>2, <2>2
    <3>2. tags'[1] = tags[1]
      BY <1>2, <1>3, <3>1
    <3>3. tags[1].kind = "begin"
      BY <2>2 DEF GetInv
    <3>4. QED BY <3>2, <3>3 DEF GetInv
  <2>3. QED BY <2>1, <2>2
<1>10. QED BY <1>6, <1>7, <1>8, <1>9

(* A step that leaves the ring alone leaves what is said of it alone.      *)
LEMMA RingUntouched ==
  ASSUME RingInv, UNCHANGED <<fifo, tags, calls>>
  PROVE  RingInv'
  BY DEF RingInv, WellFormed

(* A full ring sends an insisting caller to the oldest frame; its own      *)
(* frame is to be written again from the start.                            *)
LEMMA InsistFullIInv ==
  ASSUME IInv, InsistFull
  PROVE  IInv'
<1> USE DEF IInv, InsistFull, ProtoInit
<1>1. /\ WellFormed(put) /\ put.id = calls /\ put.id \in Nat /\ put.packet \in Packet
      /\ \A i \in 1..Len(tags) : Precedes(tags[i], put)
  BY DEF PutInv, WellFormed, TokenSet
<1>2. /\ WellFormed(put') /\ put' \in TokenSet
      /\ put'.id = put.id /\ put'.kind = "begin"
  BY <1>1, FirstTokenWellFormed DEF WellFormed
<1>3. TypeOK'
  <2>1. data' \in Seq(Byte)
    OBVIOUS
  <2>2. QED BY <1>2, <2>1 DEF TypeOK
<1>4. RingInv'
  BY RingUntouched
<1>5. PutInv'
  <2>1. WellFormed(put)'
    BY <1>2 DEF WellFormed
  <2>2. QED BY <1>1, <1>2, <2>1 DEF PutInv, Precedes
<1>6. GetInv'
  BY DEF GetInv
<1>7. QED BY <1>3, <1>4, <1>5, <1>6

(* The receive handler leaves half a frame behind.                         *)
LEMMA OfferFullIInv ==
  ASSUME IInv, OfferFull
  PROVE  IInv'
<1> USE DEF IInv, OfferFull, parser
<1>1. NoToken \in TokenSet
  BY DEF NoToken, Token, TokenSet, Kind
<1>2. TypeOK'
  BY <1>1 DEF TypeOK
<1>3. RingInv'
  BY RingUntouched
<1>4. PutInv' /\ GetInv'
  BY DEF PutInv, GetInv
<1>5. QED BY <1>2, <1>3, <1>4

(* The parser starts where a frame starts.                                 *)
LEMMA StartGetIInv ==
  ASSUME IInv, StartGet
  PROVE  IInv'
<1> USE DEF IInv, StartGet, ProtoInit
<1>1. TypeOK'
  <2>1. data' \in Seq(Byte)
    OBVIOUS
  <2>2. QED BY <2>1 DEF TypeOK
<1>2. RingInv'
  BY RingUntouched
<1>3. PutInv' /\ GetInv'
  BY DEF PutInv, GetInv
<1>4. QED BY <1>1, <1>2, <1>3

(* A call that ran out of bytes leaves an empty ring.                      *)
LEMMA GetNothingIInv ==
  ASSUME IInv, GetNothing
  PROVE  IInv'
<1> USE DEF IInv, GetNothing, parser
<1>1. NoToken \in TokenSet
  BY DEF NoToken, Token, TokenSet, Kind
<1>2. TypeOK'
  BY <1>1 DEF TypeOK
<1>3. RingInv'
  BY RingUntouched
<1>4. tags = <<>>
  BY EmptySeq DEF RingInv, TypeOK
<1>5. PutInv' /\ GetInv'
  BY <1>4 DEF PutInv, GetInv
<1>6. QED BY <1>2, <1>3, <1>5

-----------------------------------------------------------------------------
(* Taking a byte.                                                          *)

(* The oldest token of a ring that is being read: it begins a frame, or    *)
(* the parser has kept what came before it.                                *)
LEMMA OldestToken ==
  ASSUME IInv, GetByte
  PROVE  /\ tags # <<>> /\ Len(tags) \in Nat /\ Len(tags) >= 1
         /\ Len(fifo) = Len(tags)
         /\ fifo \in Seq(Byte) /\ tags \in Seq(TokenSet)
         /\ WellFormed(tags[1]) /\ Head(fifo) = ByteOf(tags[1])
         /\ tags[1].kind = "begin" \/ Parsed(tags[1])
<1> USE DEF IInv, GetByte, FifoGet
<1>1. /\ fifo \in Seq(Byte) /\ tags \in Seq(TokenSet) /\ fifo # <<>>
      /\ Len(fifo) = Len(tags) /\ Len(tags) \in Nat
  BY DEF TypeOK, RingInv
<1>2. Len(tags) >= 1 /\ tags # <<>> /\ Head(fifo) = fifo[1]
  BY <1>1
<1>3. WellFormed(tags[1]) /\ fifo[1] = ByteOf(tags[1])
  BY <1>1, <1>2 DEF RingInv
<1>4. QED BY <1>1, <1>2, <1>3 DEF GetInv

(* When the parser takes a token that does not close a frame, it has kept  *)
(* what comes before that token's successor.                               *)
LEMMA ParseContinues ==
  ASSUME IInv, GetByte, tags[1].kind # "end", NEW n, n = NextToken(tags[1])
  PROVE  Parsed(n)'
<1> DEFINE t == tags[1]
<1>1. /\ WellFormed(t) /\ Head(fifo) = ByteOf(t)
      /\ t.kind = "begin" \/ Parsed(t)
  BY OldestToken
<1>2. /\ t.packet \in Packet /\ t.packet \in Seq(Byte)
      /\ Len(t.packet) \in Nat /\ Len(t.packet) <= BufSize
      /\ t.kind \in {"begin", "raw", "esc", "flip"} /\ t.pos \in Nat
  BY <1>1, PacketBytes DEF WellFormed, TokenSet, Kind
<1>3. /\ n.packet = t.packet
      /\ t.kind = "esc" => n.kind = "flip" /\ n.pos = t.pos
      /\ t.kind # "esc" => n.kind # "flip" /\ n.pos = t.pos + 1
  BY <1>1, NextTokenWellFormed
<1>4. /\ ByteOf(t) \in Byte
      /\ ByteOf(t) = BEGIN <=> t.kind = "begin"
      /\ ByteOf(t) = END <=> t.kind = "end"
      /\ ByteOf(t) = ESC <=> t.kind = "esc"
      /\ t.kind = "raw" => ByteOf(t) = t.packet[t.pos]
      /\ t.kind = "flip" => Flip(ByteOf(t)) = t.packet[t.pos]
  BY <1>1, ByteOfToken
<1>5. ParseByte(ByteOf(t)) /\ BEGIN # ESC /\ BEGIN # END /\ ESC # END
  BY <1>1 DEF GetByte, BEGIN, ESC, END
<1>6. data \in Seq(Byte) /\ Len(data) \in Nat
  BY DEF IInv, TypeOK
<1>7. /\ isBegin'
      /\ isEsc' <=> n.kind = "flip"
      /\ Len(data') = n.pos - 1
      /\ \A k \in 1..Len(data') : data'[k] = n.packet[k]
  <2>1. CASE t.kind = "begin"
    <3>1. data' = <<>> /\ isEsc' = FALSE /\ isBegin' = TRUE
      BY <1>4, <1>5, <2>1 DEF ParseByte, Special
    <3>2. t.pos = 0
      BY <1>1, <2>1 DEF WellFormed
    <3>3. QED BY <1>3, <2>1, <3>1, <3>2
  <2>2. CASE t.kind = "esc"
    <3>1. isEsc' = TRUE /\ data' = data /\ isBegin' = isBegin
      BY <1>4, <1>5, <2>2 DEF ParseByte, Special
    <3>2. QED BY <1>1, <1>3, <2>2, <3>1 DEF Parsed
  <2>3. CASE t.kind \in {"raw", "flip"}
    <3>1. /\ isBegin /\ (isEsc <=> t.kind = "flip") /\ Len(data) = t.pos - 1
          /\ \A k \in 1..Len(data) : data[k] = t.packet[k]
      BY <1>1, <2>3 DEF Parsed
    <3>2. t.pos \in 1..Len(t.packet)
      BY <1>1, <2>3 DEF WellFormed
    <3>3. Len(data) < BufSize
      BY <1>2, <1>6, <3>1, <3>2, BoundAssumption
    <3> DEFINE v == IF isEsc THEN Flip(ByteOf(t)) ELSE ByteOf(t)
    <3>4. v = t.packet[t.pos]
      BY <1>4, <2>3, <3>1
    <3>5. isEsc' = FALSE /\ data' = Append(data, v) /\ isBegin' = isBegin
      BY <1>4, <1>5, <2>3, <3>1, <3>3 DEF ParseByte, Special
    <3>6. v \in Byte
      BY <1>2, <3>2, <3>4, ElementOfSeq
    <3>7. /\ Len(data') = t.pos /\ data'[t.pos] = t.packet[t.pos]
          /\ \A k \in 1 .. t.pos - 1 : data'[k] = data[k]
      BY <1>2, <1>6, <3>1, <3>2, <3>4, <3>5, <3>6
    <3>8. \A k \in 1 .. t.pos : data'[k] = t.packet[k]
      BY <1>2, <3>1, <3>7
    <3>9. n.pos = t.pos + 1 /\ n.kind # "flip" /\ n.packet = t.packet
      BY <1>3, <2>3
    <3>10. /\ Len(data') = n.pos - 1
           /\ \A k \in 1..Len(data') : data'[k] = n.packet[k]
      BY <1>2, <3>7, <3>8, <3>9
    <3>11. isBegin' /\ (isEsc' <=> n.kind = "flip")
      BY <3>1, <3>5, <3>9
    <3>12. QED BY <3>10, <3>11
  <2>4. QED BY <1>2, <2>1, <2>2, <2>3
<1>8. QED BY <1>7 DEF Parsed

(* What QUEUE_Gets returns when it takes a closing byte is the whole of    *)
(* the packet that the byte closes.                                        *)
LEMMA ParseDelivers ==
  ASSUME IInv, GetByte, tags[1].kind = "end"
  PROVE  data = tags[1].packet
<1> DEFINE t == tags[1]
<1>1. WellFormed(t) /\ Parsed(t)
  BY OldestToken
<1>2. t.packet \in Seq(Byte) /\ Len(t.packet) \in Nat
  BY <1>1, PacketBytes DEF WellFormed
<1>3. data \in Seq(Byte) /\ Len(data) = Len(t.packet)
  BY <1>1, <1>2 DEF Parsed, WellFormed, IInv, TypeOK
<1>4. \A k \in 1..Len(data) : data[k] = t.packet[k]
  BY <1>1 DEF Parsed
<1>5. QED BY <1>2, <1>3, <1>4, SeqEqual

(* Taking a byte shifts the tokens by one.                                 *)
LEMMA GetShifts ==
  ASSUME IInv, GetByte
  PROVE  /\ tags' \in Seq(TokenSet) /\ Len(tags') = Len(tags) - 1
         /\ \A i \in 1..Len(tags') : i + 1 \in 1..Len(tags) /\ tags'[i] = tags[i + 1]
         /\ fifo' \in Seq(Byte) /\ Len(fifo') = Len(fifo) - 1
         /\ \A i \in 1..Len(fifo') : fifo'[i] = fifo[i + 1]
<1>1. /\ tags # <<>> /\ Len(tags) \in Nat /\ Len(tags) >= 1
      /\ Len(fifo) = Len(tags) /\ fifo \in Seq(Byte) /\ tags \in Seq(TokenSet)
  BY OldestToken
<1>2. tags' = Tail(tags) /\ fifo' = Tail(fifo)
  BY DEF GetByte, FifoGet
<1>3. QED BY <1>1, <1>2

(* Taking a byte preserves the invariant.                                  *)
LEMMA GetByteIInv ==
  ASSUME IInv, GetByte
  PROVE  IInv'
<1> DEFINE t == tags[1]
<1>1. /\ tags # <<>> /\ Len(tags) \in Nat /\ Len(tags) >= 1
      /\ Len(fifo) = Len(tags) /\ fifo \in Seq(Byte) /\ tags \in Seq(TokenSet)
      /\ WellFormed(t) /\ Head(fifo) = ByteOf(t)
      /\ t.kind = "begin" \/ Parsed(t)
  BY OldestToken
<1>2. /\ tags' \in Seq(TokenSet) /\ Len(tags') = Len(tags) - 1
      /\ \A i \in 1..Len(tags') : i + 1 \in 1..Len(tags) /\ tags'[i] = tags[i + 1]
      /\ fifo' \in Seq(Byte) /\ Len(fifo') = Len(fifo) - 1
      /\ \A i \in 1..Len(fifo') : fifo'[i] = fifo[i + 1]
  BY GetShifts
<1>3. Head(fifo) \in Byte /\ (Head(fifo) = END <=> t.kind = "end")
  BY <1>1, ByteOfToken
<1>4. op \in {"get", "drop"} /\ put' = put /\ calls' = calls
  BY DEF GetByte
<1>5. t.kind = "end" =>
        /\ op = "get" => op' = "idle" /\ out' \in Packet
        /\ op = "drop" => op' = "insist" /\ out' = out
  BY <1>1, <1>3, ParseDelivers DEF GetByte, WellFormed
<1>6. t.kind # "end" => op' = op /\ out' = out
  BY <1>3 DEF GetByte
<1>7. TypeOK'
  <2>1. data' \in Seq(Byte) /\ isEsc' \in BOOLEAN /\ isBegin' \in BOOLEAN
    <3>1. /\ data \in Seq(Byte) /\ isEsc \in BOOLEAN /\ isBegin \in BOOLEAN
          /\ ParseByte(Head(fifo))
      BY DEF IInv, TypeOK, GetByte
    <3>2. Flip(Head(fifo)) \in Byte
      BY <1>3 DEF Flip, Byte
    <3>3. data' \in Seq(Byte)
      <4>1. \/ data' = data \/ data' = <<>>
            \/ data' = Append(data, Flip(Head(fifo))) \/ data' = Append(data, Head(fifo))
        BY <3>1 DEF ParseByte, parser
      <4>2. \A v \in Byte : Append(data, v) \in Seq(Byte)
        BY <3>1
      <4>3. <<>> \in Seq(Byte)
        BY EmptySeq
      <4>4. QED BY <1>3, <3>1, <3>2, <4>1, <4>2, <4>3, Zenon
    <3>4. isEsc' \in BOOLEAN /\ isBegin' \in BOOLEAN
      BY <3>1, Zenon DEF ParseByte, parser
    <3>5. QED BY <3>3, <3>4
  <2>2. got' \in Byte
    BY <1>3 DEF GetByte, FifoGet
  <2>3. op' \in {"idle", "insist", "offer", "drop", "get"} /\ out' \in Packet \cup {NoPacket}
    BY <1>4, <1>5, <1>6 DEF IInv, TypeOK
  <2>4. Len(fifo') <= Size
    BY <1>1, <1>2, SizeAssumption DEF IInv, TypeOK
  <2>5. QED BY <1>2, <1>4, <2>1, <2>2, <2>3, <2>4 DEF IInv, TypeOK
<1>8. RingInv'
  <2>1. \A i \in 1..Len(tags') : /\ WellFormed(tags'[i])
                                 /\ tags'[i].id <= calls'
                                 /\ fifo'[i] = ByteOf(tags'[i])
    BY <1>1, <1>2, <1>4 DEF IInv, RingInv
  <2>2. \A i \in 1..Len(tags') : i > 1 => Follows(tags'[i - 1], tags'[i])
    <3> SUFFICES ASSUME NEW i \in 1..Len(tags'), i > 1
                 PROVE  Follows(tags'[i - 1], tags'[i])
      OBVIOUS
    <3>1. tags'[i] = tags[i + 1] /\ tags'[i - 1] = tags[i]
      BY <1>1, <1>2
    <3>2. i + 1 \in 1..Len(tags) /\ i + 1 > 1 /\ (i + 1) - 1 = i
      BY <1>1, <1>2
    <3>3. Follows(tags[(i + 1) - 1], tags[i + 1])
      BY <3>2 DEF IInv, RingInv
    <3>4. QED BY <3>1, <3>2, <3>3
  <2>3. \A i, j \in 1..Len(tags') : i < j => Precedes(tags'[i], tags'[j])
    <3> SUFFICES ASSUME NEW i \in 1..Len(tags'), NEW j \in 1..Len(tags'), i < j
                 PROVE  Precedes(tags'[i], tags'[j])
      OBVIOUS
    <3>1. /\ i + 1 \in 1..Len(tags) /\ j + 1 \in 1..Len(tags) /\ i + 1 < j + 1
          /\ tags'[i] = tags[i + 1] /\ tags'[j] = tags[j + 1]
      BY <1>1, <1>2
    <3>2. QED BY <3>1 DEF IInv, RingInv
  <2>4. (\A i \in 1..Len(tags) : WellFormed(tags[i]))'
    BY <2>1 DEF WellFormed
  <2>5. QED BY <1>1, <1>2, <2>1, <2>2, <2>3, <2>4 DEF RingInv
<1>9. PutInv'
  <2>1. CASE op = "get"
    BY <1>5, <1>6, <2>1 DEF PutInv
  <2>2. CASE op = "drop"
    <3>1. /\ WellFormed(put) /\ put.id = calls /\ put.kind = "begin"
          /\ \A i \in 1..Len(tags) : Precedes(tags[i], put)
      BY <2>2 DEF IInv, PutInv
    <3>2. \A i \in 1..Len(tags') : Precedes(tags'[i], put')
      BY <1>2, <1>4, <3>1
    <3>3. WellFormed(put)'
      BY <1>4, <3>1 DEF WellFormed
    <3>4. QED BY <1>4, <3>1, <3>2, <3>3 DEF PutInv, Precedes
  <2>3. QED BY <1>4, <2>1, <2>2
<1>10. GetInv'
  <2> SUFFICES ASSUME tags' # <<>>
               PROVE  \/ tags'[1].kind = "begin"
                      \/ op' \in {"get", "drop"} /\ Parsed(tags[1])'
    BY DEF GetInv
  <2>1. /\ tags'[1] = tags[2] /\ 2 \in 1..Len(tags)
    BY <1>1, <1>2
  <2>2. Follows(tags[2 - 1], tags[2])
    BY <2>1 DEF IInv, RingInv
  <2>3. tags[2].kind = "begin" \/ (t.kind # "end" /\ tags[2] = NextToken(t))
    BY <2>2 DEF Follows
  <2>4. CASE t.kind # "end" /\ tags[2] = NextToken(t)
    <3> DEFINE n == NextToken(t)
    <3>1. PICK m : m = NextToken(t)
      OBVIOUS
    <3>2. Parsed(m)'
      BY <2>4, <3>1, ParseContinues
    <3>3. tags'[1] = m
      BY <2>1, <2>4, <3>1
    <3>4. Parsed(tags[1])'
      BY <3>2, <3>3 DEF Parsed
    <3>5. QED BY <1>4, <1>6, <2>4, <3>4
  <2>5. QED BY <2>1, <2>3, <2>4
<1>11. QED BY <1>7, <1>8, <1>9, <1>10 DEF IInv

(* IInv is inductive.                                                      *)
LEMMA StepIInv == IInv /\ [Next]_vars => IInv'
<1> SUFFICES ASSUME IInv, [Next]_vars PROVE IInv'
  OBVIOUS
<1>1. CASE \E p \in Packet, kind \in {"insist", "offer"} : StartPut(p, kind)
  BY <1>1, StartPutIInv
<1>2. CASE StartGet
  BY <1>2, StartGetIInv
<1>3. CASE PutByte
  BY <1>3, PutByteIInv
<1>4. CASE InsistFull
  BY <1>4, InsistFullIInv
<1>5. CASE OfferFull
  BY <1>5, OfferFullIInv
<1>6. CASE GetByte
  BY <1>6, GetByteIInv
<1>7. CASE GetNothing
  BY <1>7, GetNothingIInv
<1>8. CASE UNCHANGED vars
  <2>1. TypeOK' /\ RingInv' /\ PutInv' /\ GetInv'
    BY <1>8 DEF vars, IInv, TypeOK, RingInv, PutInv, GetInv, WellFormed, Precedes,
                Follows, Parsed
  <2>2. QED BY <2>1 DEF IInv
<1>9. QED BY <1>1, <1>2, <1>3, <1>4, <1>5, <1>6, <1>7, <1>8 DEF Next, Step

(* IInv holds in every reachable state.                                    *)
LEMMA Invariance == Spec => []IInv
  BY InitIInv, StepIInv, PTL DEF Spec

-----------------------------------------------------------------------------
(* The theorems.                                                           *)

(* The queue is type-correct: among others the ring is never overfilled,   *)
(* and QUEUE_Gets returns one of the packets that callers queue.           *)
THEOREM TypeCorrect == Spec => []TypeOK
<1>1. IInv => TypeOK
  BY DEF IInv
<1>2. QED BY <1>1, Invariance, PTL

(* The uninitialised isBegin of PROTO_ParseRb is never read: between calls *)
(* the first byte of the ring is 0x7E, which sets it.                      *)
THEOREM ReadsAtFrameStart == Spec => []AtFrameStart
<1>1. IInv => AtFrameStart
  <2> SUFFICES ASSUME IInv, op = "idle", fifo # <<>> PROVE fifo[1] = BEGIN
    BY DEF AtFrameStart
  <2>1. tags # <<>> /\ 1 \in 1..Len(tags)
    BY DEF IInv, TypeOK, RingInv
  <2>2. tags[1].kind = "begin" /\ fifo[1] = ByteOf(tags[1])
    BY <2>1 DEF IInv, RingInv, GetInv
  <2>3. QED BY <2>2 DEF ByteOf
<1>2. QED BY <1>1, Invariance, PTL

-----------------------------------------------------------------------------
(* The room in the ring.                                                   *)

(* The bytes to be escaped are counted one by one.                         *)
LEMMA SpecialsFinite ==
  ASSUME NEW p, NEW n \in Int
  PROVE  IsFiniteSet({i \in 1..n : Special(p[i])})
<1>1. IsFiniteSet(1..n)
  BY FS_Interval
<1>2. {i \in 1..n : Special(p[i])} \in SUBSET (1..n)
  OBVIOUS
<1>3. QED BY <1>1, <1>2, FS_Subset

LEMMA SpecialsType == ASSUME NEW p, NEW n \in Int PROVE Specials(p, n) \in Nat
<1>1. Cardinality({i \in 1..n : Special(p[i])}) \in Nat
  BY SpecialsFinite, FS_CardinalityType
<1>2. QED BY <1>1 DEF Specials

LEMMA SpecialsStep ==
  ASSUME NEW p, NEW n \in Nat
  PROVE  Specials(p, n + 1) = Specials(p, n) + IF Special(p[n + 1]) THEN 1 ELSE 0
<1> DEFINE S(k) == {i \in 1..k : Special(p[i])}
<1>1. IsFiniteSet(S(n)) /\ n + 1 \notin S(n)
  BY SpecialsFinite
<1>2. S(n + 1) = IF Special(p[n + 1]) THEN S(n) \cup {n + 1} ELSE S(n)
  OBVIOUS
<1>3. Specials(p, n) = Cardinality(S(n)) /\ Specials(p, n + 1) = Cardinality(S(n + 1))
  BY DEF Specials
<1>4. Cardinality(S(n)) \in Nat
  BY <1>1, FS_CardinalityType
<1>5. Cardinality(S(n) \cup {n + 1}) = Cardinality(S(n)) + 1
  BY <1>1, FS_AddElement
<1> HIDE DEF S
<1>6. QED BY <1>2, <1>3, <1>4, <1>5

LEMMA SpecialsGrow ==
  ASSUME NEW p, NEW m \in Int, NEW n \in Int, m <= n
  PROVE  Specials(p, m) <= Specials(p, n)
<1> DEFINE S(k) == {i \in 1..k : Special(p[i])}
<1>1. IsFiniteSet(S(n)) /\ S(m) \in SUBSET S(n)
  BY SpecialsFinite
<1>2. Cardinality(S(m)) <= Cardinality(S(n))
  BY <1>1, FS_Subset
<1>3. QED BY <1>2 DEF Specials

(* A frame is longer than what comes before any of its tokens, by one at   *)
(* its last.                                                               *)
LEMMA BeforeWithin ==
  ASSUME NEW t, WellFormed(t)
  PROVE  /\ Before(t) \in Nat /\ FrameLength(t.packet) \in Nat
         /\ Before(t) < FrameLength(t.packet)
         /\ t.kind = "end" => Before(t) + 1 = FrameLength(t.packet)
         /\ t.kind = "begin" => Before(t) = 0
<1> DEFINE p == t.packet
           n == Len(t.packet)
<1>1. /\ n \in Nat /\ t.pos \in Nat
      /\ t.kind \in {"begin", "raw", "esc", "flip", "end"}
  BY PacketBytes DEF WellFormed, TokenSet, Kind
<1>2. Specials(p, n) \in Nat /\ Specials(p, t.pos - 1) \in Nat /\ Specials(p, t.pos) \in Nat
  BY <1>1, SpecialsType
<1>3. FrameLength(p) = 2 + n + Specials(p, n)
  BY DEF FrameLength
<1>4. CASE t.kind = "begin"
  BY <1>1, <1>2, <1>3, <1>4 DEF Before
<1>5. CASE t.kind = "end"
  <2>1. t.pos = n + 1 /\ t.pos - 1 = n
    BY <1>1, <1>5 DEF WellFormed
  <2>2. Before(t) = n + 1 + Specials(p, n)
    BY <1>1, <1>2, <1>5, <2>1 DEF Before
  <2>3. QED BY <1>1, <1>2, <1>3, <1>5, <2>2
<1>6. CASE t.kind \in {"raw", "esc", "flip"}
  <2>1. t.pos \in 1..n
    BY <1>6 DEF WellFormed
  <2>2. Specials(p, t.pos - 1) <= Specials(p, n)
    BY <1>1, <2>1, SpecialsGrow
  <2>3. Before(t) = t.pos + Specials(p, t.pos - 1) + (IF t.kind = "flip" THEN 1 ELSE 0)
    BY <1>6 DEF Before
  <2>4. QED BY <1>1, <1>2, <1>3, <1>6, <2>1, <2>2, <2>3
<1>7. QED BY <1>1, <1>4, <1>5, <1>6

(* Every token of a frame has one byte more before it than the last.       *)
LEMMA BeforeNext ==
  ASSUME NEW t, WellFormed(t), t.kind # "end"
  PROVE  Before(NextToken(t)) = Before(t) + 1
<1> DEFINE u == NextToken(t)
           p == t.packet
<1>1. /\ u.packet = p /\ u.kind # "begin"
      /\ t.kind = "esc" => u.kind = "flip" /\ u.pos = t.pos
      /\ t.kind # "esc" => u.kind # "flip" /\ u.pos = t.pos + 1
  BY NextTokenWellFormed
<1>2. t.pos \in Nat /\ t.kind \in {"begin", "raw", "esc", "flip"}
  BY DEF WellFormed, TokenSet, Kind
<1>3. /\ Specials(p, t.pos) \in Nat /\ Specials(p, t.pos - 1) \in Nat
  BY <1>2, SpecialsType
<1>4. Before(u) = u.pos + Specials(p, u.pos - 1) + (IF u.kind = "flip" THEN 1 ELSE 0)
  BY <1>1 DEF Before
<1> HIDE DEF u
<1>5. CASE t.kind = "begin"
  <2>1. t.pos = 0 /\ u.pos = 1 /\ u.kind # "flip"
    BY <1>1, <1>5 DEF WellFormed
  <2>2. Specials(p, 0) = 0
    BY FS_EmptySet DEF Specials
  <2>3. Before(t) = 0
    BY <1>5 DEF Before
  <2>4. u.pos - 1 = 0
    BY <2>1
  <2>5. QED BY <1>1, <1>4, <2>1, <2>2, <2>3, <2>4 DEF u
<1>6. CASE t.kind = "esc"
  <2>1. Before(t) = t.pos + Specials(p, t.pos - 1)
    BY <1>2, <1>3, <1>6 DEF Before
  <2>2. QED BY <1>1, <1>2, <1>3, <1>4, <1>6, <2>1 DEF u
<1>7. CASE t.kind \in {"raw", "flip"}
  <2>1. t.pos \in 1..Len(p) /\ (Special(p[t.pos]) <=> t.kind # "raw")
    BY <1>7 DEF WellFormed
  <2>2. Specials(p, t.pos) = Specials(p, t.pos - 1) + IF Special(p[t.pos]) THEN 1 ELSE 0
    <3>1. t.pos - 1 \in Nat /\ (t.pos - 1) + 1 = t.pos
      BY <1>2, <2>1
    <3>2. QED BY <3>1, SpecialsStep
  <2>3. u.pos = t.pos + 1 /\ u.pos - 1 = t.pos /\ u.kind # "flip"
    BY <1>1, <1>2, <1>7
  <2>4. Before(t) = t.pos + Specials(p, t.pos - 1) + (IF t.kind = "flip" THEN 1 ELSE 0)
    BY <1>7 DEF Before
  <2>5. CASE t.kind = "raw"
    BY <1>2, <1>3, <1>4, <2>1, <2>2, <2>3, <2>4, <2>5 DEF u
  <2>6. CASE t.kind = "flip"
    <3>1. Specials(p, t.pos) = Specials(p, t.pos - 1) + 1
      BY <2>1, <2>2, <2>6
    <3>2. Before(u) = t.pos + 1 + Specials(p, t.pos)
      BY <1>1, <1>2, <1>3, <1>4, <2>3, <2>6
    <3>3. Before(t) = t.pos + Specials(p, t.pos - 1) + 1
      BY <2>4, <2>6
    <3>4. QED BY <1>2, <1>3, <3>1, <3>2, <3>3 DEF u
  <2>7. QED BY <1>7, <2>5, <2>6
<1>8. QED BY <1>2, <1>5, <1>6, <1>7

(* What PROTO_AddRb puts and RINGBUF_Put refuses keeps the account of the  *)
(* room.                                                                   *)
LEMMA PutByteRoom == ASSUME IInv, RoomInv, PutByte PROVE RoomInv'
<1> USE DEF PutByte
<1>1. WellFormed(put) /\ Len(fifo) \in Nat /\ fifo \in Seq(Byte)
  BY DEF IInv, TypeOK, PutInv
<1>2. Len(fifo') = Len(fifo) + 1
  BY <1>1, ByteOfToken DEF FifoPut
<1>3. lost \in Nat /\ lost' = lost
  BY DEF RoomInv
<1>4. CASE put.kind = "end" \/ op = "offer"
  BY <1>3, <1>4 DEF RoomInv
<1>5. CASE put.kind # "end" /\ op = "insist"
  <2>1. op' = "insist" /\ put' = NextToken(put) /\ put'.packet = put.packet
    BY <1>1, <1>5, NextTokenWellFormed
  <2>2. Before(put') = Before(put) + 1
    BY <1>1, <1>5, <2>1, BeforeNext
  <2>3. Before(put) \in Nat /\ FrameLength(put.packet) \in Nat
    BY <1>1, BeforeWithin
  <2>4. lost >= FrameLength(put.packet) =>
          FrameLength(put.packet) - Before(put') <= Size - Len(fifo')
    BY <1>1, <1>2, <1>5, <2>2, <2>3, SizeAssumption DEF RoomInv
  <2>5. QED BY <1>3, <2>1, <2>4 DEF RoomInv, Before, FrameLength, Specials
<1>6. QED BY <1>4, <1>5

LEMMA InsistFullRoom == ASSUME IInv, RoomInv, InsistFull PROVE RoomInv'
<1> USE DEF InsistFull
<1>1. /\ WellFormed(put) /\ put.id \in Nat /\ put.packet \in Packet
      /\ Len(fifo) \in Nat /\ Len(fifo) >= Size
  BY SizeAssumption DEF IInv, TypeOK, PutInv, WellFormed, TokenSet, FifoFull
<1>2. put'.packet = put.packet
  BY <1>1, FirstTokenWellFormed
<1>3. lost < FrameLength(put.packet)
  BY <1>1, BeforeWithin, SizeAssumption DEF RoomInv
<1>4. tags # <<>> => Before(tags[1]) <= Size - Len(fifo)
  <2> SUFFICES ASSUME tags # <<>> PROVE Before(tags[1]) <= Size - Len(fifo)
    OBVIOUS
  <2>1. WellFormed(tags[1]) /\ tags[1].kind = "begin" /\ Len(fifo) <= Size
    BY DEF IInv, TypeOK, RingInv, GetInv
  <2>2. QED BY <1>1, <2>1, BeforeWithin, SizeAssumption
<1>5. QED BY <1>2, <1>3, <1>4 DEF RoomInv, FrameLength, Specials, Before

(* What an insisting caller takes out leaves that much room.               *)
LEMMA GetByteRoom == ASSUME IInv, RoomInv, GetByte PROVE RoomInv'
<1> DEFINE t == tags[1]
           f == FrameLength(t.packet)
<1>1. /\ tags # <<>> /\ Len(tags) \in Nat /\ Len(tags) >= 1 /\ Len(fifo) = Len(tags)
      /\ WellFormed(t) /\ Head(fifo) = ByteOf(t)
  BY OldestToken
<1>2. /\ Len(tags') = Len(tags) - 1 /\ Len(fifo') = Len(fifo) - 1
      /\ \A i \in 1..Len(tags') : i + 1 \in 1..Len(tags) /\ tags'[i] = tags[i + 1]
      /\ tags' \in Seq(TokenSet)
  BY GetShifts
<1>3. Head(fifo) = END <=> t.kind = "end"
  BY <1>1, ByteOfToken
<1>4. put' = put /\ op \in {"get", "drop"} /\ lost \in Nat
  BY DEF GetByte, RoomInv
<1>5. Before(t) \in Nat /\ f \in Nat /\ (t.kind = "end" => Before(t) + 1 = f)
  BY <1>1, BeforeWithin
<1>6. CASE op = "get"
  BY <1>4, <1>6 DEF GetByte, Lose, RoomInv
<1>7. CASE op = "drop"
  <2>1. /\ lost < FrameLength(put.packet) /\ Before(t) <= Size - Len(fifo)
        /\ WellFormed(put) /\ put.kind = "begin"
    BY <1>1, <1>7 DEF RoomInv, IInv, PutInv
  <2>2. FrameLength(put.packet) \in Nat /\ Before(put) = 0
    BY <2>1, BeforeWithin
  <2>3. CASE t.kind = "end"
    <3>1. op' = "insist" /\ lost' = Longer(lost, f)
      BY <1>3, <1>7, <2>3 DEF GetByte, Lose
    <3>2. lost' \in Nat /\ (lost' >= FrameLength(put.packet) => f >= FrameLength(put.packet))
      BY <1>4, <1>5, <2>1, <2>2, <3>1 DEF Longer
    <3>3. f <= Size - Len(fifo')
      BY <1>1, <1>2, <1>5, <2>1, <2>3, SizeAssumption
    <3>4. lost' >= FrameLength(put.packet) =>
            FrameLength(put.packet) - Before(put) <= Size - Len(fifo')
      BY <1>1, <1>2, <1>5, <2>2, <3>2, <3>3, SizeAssumption
    <3>5. QED BY <1>4, <3>1, <3>2, <3>4 DEF RoomInv, FrameLength, Specials, Before
  <2>4. CASE t.kind # "end"
    <3>1. op' = "drop" /\ lost' = lost
      BY <1>3, <1>7, <2>4 DEF GetByte, Lose
    <3>2. tags' # <<>> => Before(tags'[1]) <= Size - Len(fifo')
      <4> SUFFICES ASSUME tags' # <<>> PROVE Before(tags'[1]) <= Size - Len(fifo')
        OBVIOUS
      <4>1. tags'[1] = tags[2] /\ 2 \in 1..Len(tags) /\ WellFormed(tags[2])
        BY <1>1, <1>2 DEF IInv, RingInv
      <4>2. Follows(tags[2 - 1], tags[2])
        BY <4>1 DEF IInv, RingInv
      <4>3. tags[2].kind = "begin" \/ tags[2] = NextToken(t)
        BY <4>2 DEF Follows
      <4>4. Before(tags[2]) \in {0, Before(t) + 1}
        BY <1>1, <2>4, <4>1, <4>3, BeforeWithin, BeforeNext
      <4>5. Before(tags[2]) <= Size - Len(fifo')
        BY <1>1, <1>2, <1>5, <2>1, <4>4, SizeAssumption
      <4>6. QED BY <4>1, <4>5
    <3>3. QED BY <1>4, <2>1, <3>1, <3>2 DEF RoomInv, FrameLength, Specials, Before
  <2>5. QED BY <2>3, <2>4
<1>8. QED BY <1>4, <1>6, <1>7

LEMMA StepRoom == IInv /\ RoomInv /\ [Next]_vars => RoomInv'
<1> SUFFICES ASSUME IInv, RoomInv, [Next]_vars PROVE RoomInv'
  OBVIOUS
<1>1. ASSUME NEW p \in Packet, NEW kind \in {"insist", "offer"}, StartPut(p, kind)
      PROVE  RoomInv'
  <2>1. put'.packet = p /\ WellFormed(put') /\ lost' = 0 /\ op' \in {"insist", "offer"}
    <3>1. calls + 1 \in Nat
      BY BoundAssumption DEF IInv, TypeOK
    <3>2. QED BY <1>1, <3>1, FirstTokenWellFormed DEF StartPut
  <2>2. FrameLength(p) \in Nat /\ FrameLength(p) > 0
    BY <2>1, BeforeWithin
  <2>3. FrameLength(p) = FrameLength(put.packet)'
    BY <2>1 DEF FrameLength, Specials
  <2>4. QED BY <2>1, <2>2, <2>3 DEF RoomInv
<1>2. CASE StartGet
  BY <1>2 DEF StartGet, RoomInv
<1>3. CASE PutByte
  BY <1>3, PutByteRoom
<1>4. CASE InsistFull
  BY <1>4, InsistFullRoom
<1>5. CASE GetByte
  BY <1>5, GetByteRoom
<1>6. CASE OfferFull \/ GetNothing
  BY <1>6 DEF OfferFull, GetNothing, RoomInv
<1>7. CASE UNCHANGED vars
  BY <1>7 DEF vars, RoomInv, FrameLength, Specials, Before
<1>8. QED BY <1>1, <1>2, <1>3, <1>4, <1>5, <1>6, <1>7 DEF Next, Step

(* Once a publish has lost a packet with a frame no shorter than its own,  *)
(* MQTT_Publish does not find the ring full again, for every ring size and *)
(* every set of packets.                                                   *)
THEOREM RefusalLosesOnlyShorter == Spec => []LosesOnlyShorter
<1>1. Init => RoomInv
  BY DEF Init, RoomInv
<1>2. RoomInv => LosesOnlyShorter
  BY DEF RoomInv, LosesOnlyShorter
<1>3. QED BY <1>1, <1>2, Invariance, StepRoom, PTL DEF Spec

-----------------------------------------------------------------------------
(* The refinement.                                                         *)

(* Putting a byte queues a packet if it closes one, and does nothing else  *)
(* to the packets queued.                                                  *)
LEMMA PutHeld ==
  ASSUME IInv, PutByte
  PROVE  Held' = IF put.kind = "end"
                 THEN Held \cup {[id |-> put.id, packet |-> put.packet]} ELSE Held
<1> DEFINE n == Len(tags)
           M(t) == [id |-> t.id, packet |-> t.packet]
<1>1. put \in TokenSet /\ tags \in Seq(TokenSet) /\ n \in Nat /\ tags' = Append(tags, put)
  BY DEF PutByte, IInv, TypeOK
<1>2. /\ Len(tags') = n + 1 /\ tags'[n + 1] = put
      /\ \A i \in 1..n : tags'[i] = tags[i]
  BY <1>1
<1>3. Held' = {M(tags'[i]) : i \in {j \in 1..n + 1 : tags'[j].kind = "end"}}
  BY <1>2 DEF Held, Whole
<1>4. Held = {M(tags[i]) : i \in {j \in 1..n : tags[j].kind = "end"}}
  BY DEF Held, Whole
<1>5. {j \in 1..n + 1 : tags'[j].kind = "end"} =
        {j \in 1..n : tags[j].kind = "end"} \cup (IF put.kind = "end" THEN {n + 1} ELSE {})
  BY <1>1, <1>2
<1> HIDE DEF M
<1>6. CASE put.kind = "end"
  <2>1. Held' = {M(tags'[i]) : i \in {j \in 1..n : tags[j].kind = "end"} \cup {n + 1}}
    BY <1>3, <1>5, <1>6
  <2>2. Held' = {M(tags'[i]) : i \in {j \in 1..n : tags[j].kind = "end"}} \cup {M(tags'[n + 1])}
    BY <2>1
  <2>3. Held' = Held \cup {M(put)}
    BY <1>2, <1>4, <2>2
  <2>4. QED BY <1>6, <2>3 DEF M
<1>7. CASE put.kind # "end"
  BY <1>2, <1>3, <1>4, <1>5, <1>7
<1>8. QED BY <1>6, <1>7

(* Taking a byte takes the oldest packet if the byte closes it, and does   *)
(* nothing else to the packets queued.                                     *)
LEMMA GetHeld ==
  ASSUME IInv, GetByte
  PROVE  LET m == [id |-> tags[1].id, packet |-> tags[1].packet]
         IN  /\ tags[1].kind = "end" => Queue!Oldest(m) /\ Held' = Held \ {m}
             /\ tags[1].kind # "end" => Held' = Held
<1> DEFINE n == Len(tags)
           M(t) == [id |-> t.id, packet |-> t.packet]
           W == {j \in 1..n : tags[j].kind = "end"}
           V == {j \in 2..n : tags[j].kind = "end"}
<1>1. tags \in Seq(TokenSet) /\ n \in Nat /\ n >= 1
  BY OldestToken
<1>2. /\ Len(tags') = n - 1
      /\ \A i \in 1..n - 1 : i + 1 \in 1..n /\ tags'[i] = tags[i + 1]
  BY GetShifts
<1>3. Held = {M(tags[i]) : i \in W}
  BY DEF Held, Whole
<1>4. Held' = {M(tags[i]) : i \in V}
  <2>1. Held' = {M(tags'[i]) : i \in {j \in 1..n - 1 : tags'[j].kind = "end"}}
    BY <1>2 DEF Held, Whole
  <2>2. ASSUME NEW m \in Held' PROVE m \in {M(tags[i]) : i \in V}
    <3>1. PICK i \in 1..n - 1 : tags'[i].kind = "end" /\ m = M(tags'[i])
      BY <2>1, <2>2
    <3>2. i + 1 \in V /\ m = M(tags[i + 1])
      BY <1>1, <1>2, <3>1
    <3>3. QED BY <3>2
  <2>3. ASSUME NEW m \in {M(tags[i]) : i \in V} PROVE m \in Held'
    <3>1. PICK i \in V : m = M(tags[i])
      BY <2>3
    <3>2. i - 1 \in 1..n - 1 /\ tags'[i - 1] = tags[i]
      BY <1>1, <1>2
    <3>3. QED BY <2>1, <3>1, <3>2
  <2>4. QED BY <2>2, <2>3
<1>5. \A i \in V : Precedes(tags[1], tags[i]) /\ tags[i].id \in Nat /\ tags[1].id \in Nat
  BY <1>1 DEF IInv, RingInv, WellFormed, TokenSet
<1>6. CASE tags[1].kind = "end"
  <2>1. W = V \cup {1}
    BY <1>1, <1>6
  <2>2. Held = Held' \cup {M(tags[1])}
    BY <1>3, <1>4, <2>1
  <2>3. \A m \in Held' : m.id > tags[1].id
    <3>1. ASSUME NEW m \in Held' PROVE m.id > tags[1].id
      <4>1. PICK i \in V : m = M(tags[i])
        BY <1>4
      <4>2. QED BY <1>5, <1>6, <4>1 DEF Precedes
    <3>2. QED BY <3>1
  <2>4. M(tags[1]).id = tags[1].id /\ tags[1].id \in Nat
    BY <1>1 DEF IInv, RingInv, WellFormed, TokenSet
  <2>5. M(tags[1]) \notin Held'
    BY <2>3, <2>4
  <2>6. Held' = Held \ {M(tags[1])}
    BY <2>2, <2>5
  <2>7. \A o \in Held : M(tags[1]).id <= o.id
    <3>1. ASSUME NEW o \in Held PROVE tags[1].id <= o.id
      <4>1. CASE o = M(tags[1])
        BY <2>4, <4>1
      <4>2. CASE o \in Held'
        <5>1. PICK i \in V : o = M(tags[i])
          BY <1>4, <4>2
        <5>2. QED BY <1>5, <5>1 DEF Precedes
      <4>3. QED BY <2>2, <4>1, <4>2
    <3>2. QED BY <2>4, <3>1
  <2>8. QED BY <1>6, <2>2, <2>6, <2>7 DEF Queue!Oldest
<1>7. CASE tags[1].kind # "end"
  <2>1. W = V
    BY <1>1, <1>7
  <2>2. QED BY <1>3, <1>4, <1>7, <2>1
<1>8. QED BY <1>6, <1>7

(* Every step of the framed ring is a step of the queue of packets, or     *)
(* none.                                                                   *)
LEMMA StepImplements ==
  ASSUME IInv, [Next]_vars
  PROVE  [Queue!Next]_(Queue!qvars)
<1> USE DEF Queue!Next, Queue!qvars
<1>1. CASE \E p \in Packet, kind \in {"insist", "offer"} : StartPut(p, kind)
  <2>1. PICK p \in Packet, kind \in {"insist", "offer"} : StartPut(p, kind)
    BY <1>1
  <2>2. Held' = Held
    BY <2>1 DEF StartPut, Held, Whole
  <2>3. put'.id = calls + 1 /\ put'.packet = p
    BY <2>1 DEF StartPut, FirstToken, Token
  <2>4. Queue!Begin(p, kind)
    BY <2>1, <2>2, <2>3 DEF StartPut, Queue!Begin
  <2>5. QED BY <2>1, <2>4
<1>2. CASE StartGet
  <2>1. Held' = Held
    BY <1>2 DEF StartGet, Held, Whole
  <2>2. Queue!BeginGet
    BY <1>2, <2>1 DEF StartGet, Queue!BeginGet
  <2>3. QED BY <2>2
<1>3. CASE PutByte
  <2>1. Held' = IF put.kind = "end"
                THEN Held \cup {[id |-> put.id, packet |-> put.packet]} ELSE Held
    BY <1>3, PutHeld
  <2>2. CASE put.kind = "end"
    <3>1. Queue!Accept
      BY <1>3, <2>1, <2>2 DEF PutByte, Queue!Accept
    <3>2. QED BY <3>1
  <2>3. CASE put.kind # "end"
    <3>1. put'.id = put.id /\ put'.packet = put.packet /\ op' = op
      BY <1>3, <2>3, NextTokenWellFormed DEF PutByte, IInv, PutInv
    <3>2. QED BY <1>3, <2>1, <2>3, <3>1 DEF PutByte
  <2>4. QED BY <2>2, <2>3
<1>4. CASE InsistFull
  <2>1. Held' = Held
    BY <1>4 DEF InsistFull, Held, Whole
  <2>2. put'.id = put.id /\ put'.packet = put.packet
    BY <1>4 DEF InsistFull, FirstToken, Token
  <2>3. QED BY <1>4, <2>1, <2>2 DEF InsistFull
<1>5. CASE OfferFull
  <2>1. Held' = Held
    BY <1>5 DEF OfferFull, Held, Whole
  <2>2. Queue!Refuse
    BY <1>5, <2>1 DEF OfferFull, Queue!Refuse
  <2>3. QED BY <2>2
<1>6. CASE GetByte
  <2> DEFINE m == [id |-> tags[1].id, packet |-> tags[1].packet]
  <2>1. /\ tags[1].kind = "end" => Queue!Oldest(m) /\ Held' = Held \ {m}
        /\ tags[1].kind # "end" => Held' = Held
    BY <1>6, GetHeld
  <2>2. Head(fifo) = END <=> tags[1].kind = "end"
    BY <1>6, OldestToken, ByteOfToken
  <2>3. CASE tags[1].kind # "end"
    BY <1>6, <2>1, <2>2, <2>3 DEF GetByte
  <2>4. CASE tags[1].kind = "end" /\ op = "get"
    <3>1. out' = m.packet
      BY <1>6, <2>2, <2>4, ParseDelivers DEF GetByte
    <3>2. Queue!Deliver(m)
      BY <1>6, <2>1, <2>2, <2>4, <3>1 DEF GetByte, Queue!Deliver
    <3>3. m \in Held
      BY <2>1, <2>4 DEF Queue!Oldest
    <3>4. QED BY <3>2, <3>3
  <2>5. CASE tags[1].kind = "end" /\ op = "drop"
    <3>1. Queue!Evict(m)
      BY <1>6, <2>1, <2>2, <2>5 DEF GetByte, Queue!Evict
    <3>2. m \in Held
      BY <2>1, <2>5 DEF Queue!Oldest
    <3>3. QED BY <3>1, <3>2
  <2>6. QED BY <1>6, <2>3, <2>4, <2>5 DEF GetByte
<1>7. CASE GetNothing
  <2>1. Held = {} /\ Held' = {}
    BY <1>7 DEF GetNothing, Held, Whole, IInv, TypeOK, RingInv
  <2>2. CASE op = "get"
    <3>1. Queue!Nothing
      BY <1>7, <2>1, <2>2 DEF GetNothing, Queue!Nothing
    <3>2. QED BY <3>1
  <2>3. CASE op = "drop"
    <3>1. Queue!Refuse
      BY <1>7, <2>1, <2>3 DEF GetNothing, Queue!Refuse
    <3>2. QED BY <3>1
  <2>4. QED BY <1>7, <2>2, <2>3 DEF GetNothing
<1>8. CASE UNCHANGED vars
  <2>1. Held' = Held
    BY <1>8 DEF vars, Held, Whole
  <2>2. QED BY <1>8, <2>1 DEF vars
<1>9. QED BY <1>1, <1>2, <1>3, <1>4, <1>5, <1>6, <1>7, <1>8 DEF Next, Step

(* The framed ring of bytes implements the queue of whole packets, for     *)
(* every ring size and every set of packets that fit the buffers.          *)
THEOREM RingImplementsQueue == Spec => ImplementsQueue
<1>1. Init => Queue!Init
  <2> SUFFICES ASSUME Init PROVE Queue!Init
    OBVIOUS
  <2>1. Held = {}
    BY DEF Init, Held, Whole
  <2>2. QED BY <2>1 DEF Init, Queue!Init
<1>2. IInv /\ [Next]_vars => [Queue!Next]_(Queue!qvars)
  BY StepImplements
<1>3. QED BY <1>1, <1>2, Invariance, PTL DEF Spec, ImplementsQueue, Queue!Spec

-----------------------------------------------------------------------------
(* The ring by itself (RingBuf), with the pointers that PointerQueue moves. *)

(* RINGBUF_Init establishes the invariant.                                 *)
LEMMA RingInitIInv == Ring!RINGBUF_Init => Ring!IInv
  BY SizeAssumption
  DEF Ring!RINGBUF_Init, Ring!IInv, Ring!TypeOK, Ring!PointersAgree, Ring!Wrap, Ring!Index,
      Ring!Byte, Byte

(* A byte put leaves the pointers in the buffer and fill_cnt apart.        *)
LEMMA RingPutIInv == ASSUME Ring!IInv, NEW b \in Byte, Ring!RINGBUF_Put(b) PROVE Ring!IInv'
<1> USE SizeAssumption DEF Ring!IInv, Ring!TypeOK, Ring!RINGBUF_Put, Ring!Index, Ring!Byte, Byte
<1>1. Ring!TypeOK'
  BY DEF Ring!Wrap
<1>2. Ring!PointersAgree'
  BY DEF Ring!PointersAgree, Ring!Wrap
<1>3. QED BY <1>1, <1>2

(* So does a byte taken.                                                   *)
LEMMA RingGetIInv == ASSUME Ring!IInv, Ring!RINGBUF_Get PROVE Ring!IInv'
<1> USE SizeAssumption DEF Ring!IInv, Ring!TypeOK, Ring!RINGBUF_Get, Ring!Index, Ring!Byte, Byte
<1>1. Ring!TypeOK'
  BY DEF Ring!Wrap
<1>2. Ring!PointersAgree'
  BY DEF Ring!PointersAgree, Ring!Wrap
<1>3. QED BY <1>1, <1>2

(* The invariant of the ring is inductive.                                 *)
LEMMA RingStepIInv == Ring!IInv /\ [Ring!Next]_(Ring!vars) => Ring!IInv'
<1> SUFFICES ASSUME Ring!IInv, [Ring!Next]_(Ring!vars) PROVE Ring!IInv'
  OBVIOUS
<1>1. CASE \E b \in Byte : Ring!RINGBUF_Put(b)
  BY <1>1, RingPutIInv
<1>2. CASE Ring!RINGBUF_Get
  BY <1>2, RingGetIInv
<1>3. CASE UNCHANGED Ring!vars
  BY <1>3 DEF Ring!vars, Ring!IInv, Ring!TypeOK, Ring!PointersAgree
<1>4. QED BY <1>1, <1>2, <1>3 DEF Ring!Next, Ring!Byte, Byte

(* The pointers of the ring never leave the buffer, whatever is put and    *)
(* taken.                                                                  *)
THEOREM RingTypeCorrect == Ring!Spec => []Ring!TypeOK
<1>1. Ring!IInv => Ring!TypeOK
  BY DEF Ring!IInv
<1>2. QED BY <1>1, RingInitIInv, RingStepIInv, PTL DEF Ring!Spec

(* The write pointer is always fill_cnt cells ahead of the read pointer.   *)
THEOREM PointersCorrect == Ring!Spec => []Ring!PointersAgree
<1>1. Ring!IInv => Ring!PointersAgree
  BY DEF Ring!IInv
<1>2. QED BY <1>1, RingInitIInv, RingStepIInv, PTL DEF Ring!Spec

-----------------------------------------------------------------------------
(* The bytes of the ring, read from p_r, form a sequence of fill_cnt bytes. *)
LEMMA ContentType == Ring!IInv => Ring!Content \in Seq(Byte) /\ Len(Ring!Content) = fill_cnt
<1> SUFFICES ASSUME Ring!IInv PROVE Ring!Content \in Seq(Byte) /\ Len(Ring!Content) = fill_cnt
  OBVIOUS
<1>1. \A i \in 1..fill_cnt : buf[Ring!Wrap(p_r + i - 1)] \in Byte
  BY SizeAssumption DEF Ring!IInv, Ring!TypeOK, Ring!Wrap, Ring!Index, Ring!Byte, Byte
<1>2. fill_cnt \in Nat
  BY SizeAssumption DEF Ring!IInv, Ring!TypeOK
<1>3. Ring!Content \in [1..fill_cnt -> Byte]
  BY <1>1 DEF Ring!Content
<1>4. QED BY <1>2, <1>3

(* The same of the ring after a step.                                      *)
LEMMA ContentTypeAfter ==
  Ring!IInv' => Ring!Content' \in Seq(Byte) /\ Len(Ring!Content') = fill_cnt'
<1>1. (Ring!IInv => Ring!Content \in Seq(Byte) /\ Len(Ring!Content) = fill_cnt)'
  BY ContentType, PTL
<1>2. QED BY <1>1

(* RINGBUF_Put appends its byte to the content of the ring.                *)
LEMMA PutAppends ==
  ASSUME Ring!IInv, NEW b \in Byte, Ring!RINGBUF_Put(b)
  PROVE  Ring!Fifo!FifoPut(b)
<1>1. Ring!IInv'
  BY RingPutIInv
<1>2. Ring!Content \in Seq(Byte) /\ Len(Ring!Content) = fill_cnt /\ b \in Byte
  BY ContentType
<1>3. Ring!Content' \in Seq(Byte) /\ Len(Ring!Content') = fill_cnt'
  BY <1>1, ContentTypeAfter
<1>4. Append(Ring!Content, b) \in Seq(Byte) /\ Len(Append(Ring!Content, b)) = fill_cnt + 1
  BY <1>2
<1>5. ASSUME NEW i \in 1 .. fill_cnt + 1
      PROVE  Ring!Content'[i] = Append(Ring!Content, b)[i]
  <2> USE SizeAssumption DEF Ring!IInv, Ring!TypeOK, Ring!PointersAgree, Ring!RINGBUF_Put, Ring!Index
  <2>1. Ring!Content'[i] = buf'[Ring!Wrap(p_r + i - 1)]
    BY <1>5 DEF Ring!Content, Ring!Wrap
  <2>2. CASE i = fill_cnt + 1
    <3>1. Ring!Wrap(p_r + i - 1) = p_w
      BY <2>2 DEF Ring!Wrap
    <3>2. Ring!Content'[i] = b
      BY <2>1, <3>1
    <3>3. Append(Ring!Content, b)[i] = b
      BY <1>2, <2>2
    <3>4. QED BY <3>2, <3>3
  <2>3. CASE i \in 1 .. fill_cnt
    <3>1. Ring!Wrap(p_r + i - 1) # p_w /\ Ring!Wrap(p_r + i - 1) \in Ring!Index
      BY <2>3 DEF Ring!Wrap
    <3>2. Ring!Content'[i] = buf[Ring!Wrap(p_r + i - 1)]
      BY <2>1, <3>1
    <3>3. Ring!Content[i] = buf[Ring!Wrap(p_r + i - 1)]
      BY <2>3 DEF Ring!Content
    <3>4. Append(Ring!Content, b)[i] = Ring!Content[i]
      BY <1>2, <2>3
    <3>5. QED BY <3>2, <3>3, <3>4
  <2>4. i = fill_cnt + 1 \/ i \in 1 .. fill_cnt
    BY <1>5
  <2>5. QED BY <2>2, <2>3, <2>4
<1>6. Ring!Content' = Append(Ring!Content, b)
  <2>1. Len(Ring!Content') = Len(Append(Ring!Content, b)) /\ Len(Ring!Content') = fill_cnt + 1
    BY <1>3, <1>4 DEF Ring!RINGBUF_Put
  <2>2. QED BY <1>3, <1>4, <1>5, <2>1, SeqEqual
<1>7. fill_cnt < Size /\ UNCHANGED c
  BY DEF Ring!RINGBUF_Put
<1>8. QED BY <1>2, <1>6, <1>7, SizeAssumption DEF Ring!Fifo!FifoPut, Ring!Fifo!FifoFull, Ring!IInv, Ring!TypeOK

(* RINGBUF_Get stores the oldest byte of the ring and removes it.          *)
LEMMA GetRemovesHead ==
  ASSUME Ring!IInv, Ring!RINGBUF_Get
  PROVE  Ring!Fifo!FifoGet
<1>1. Ring!IInv'
  BY RingGetIInv
<1>2. Ring!Content \in Seq(Byte) /\ Len(Ring!Content) = fill_cnt
  BY ContentType
<1>3. Ring!Content' \in Seq(Byte) /\ Len(Ring!Content') = fill_cnt'
  BY <1>1, ContentTypeAfter
<1>4. Ring!Content # <<>> /\ fill_cnt > 0 /\ fill_cnt' = fill_cnt - 1
  BY <1>2 DEF Ring!RINGBUF_Get
<1>5. Tail(Ring!Content) \in Seq(Byte) /\ Len(Tail(Ring!Content)) = fill_cnt - 1
  BY <1>2, <1>4
<1>6. ASSUME NEW i \in 1 .. fill_cnt - 1
      PROVE  Ring!Content'[i] = Tail(Ring!Content)[i]
  <2> USE SizeAssumption DEF Ring!IInv, Ring!TypeOK, Ring!RINGBUF_Get, Ring!Index
  <2>1. Ring!Content'[i] = buf[Ring!Wrap(Ring!Wrap(p_r + 1) + i - 1)]
    BY <1>6, <1>4 DEF Ring!Content
  <2>2. Ring!Wrap(Ring!Wrap(p_r + 1) + i - 1) = Ring!Wrap(p_r + (i + 1) - 1)
    BY <1>6 DEF Ring!Wrap
  <2>3. Ring!Content[i + 1] = buf[Ring!Wrap(p_r + (i + 1) - 1)]
    BY <1>6 DEF Ring!Content
  <2>4. Tail(Ring!Content)[i] = Ring!Content[i + 1]
    BY <1>2, <1>4, <1>6
  <2>5. QED BY <2>1, <2>2, <2>3, <2>4
<1>7. Ring!Content' = Tail(Ring!Content)
  <2>1. Len(Ring!Content') = Len(Tail(Ring!Content)) /\ Len(Ring!Content') = fill_cnt - 1
    BY <1>3, <1>4, <1>5
  <2>2. QED BY <1>3, <1>5, <1>6, <2>1, SeqEqual
<1>8. c' = Head(Ring!Content)
  <2>1. Ring!Content[1] = buf[Ring!Wrap(p_r + 1 - 1)] /\ Ring!Wrap(p_r + 1 - 1) = p_r
    BY <1>4, SizeAssumption DEF Ring!Content, Ring!Wrap, Ring!IInv, Ring!TypeOK, Ring!Index
  <2>2. Head(Ring!Content) = Ring!Content[1]
    BY <1>2, <1>4
  <2>3. QED BY <2>1, <2>2 DEF Ring!RINGBUF_Get
<1>9. QED BY <1>4, <1>7, <1>8 DEF Ring!Fifo!FifoGet

(* For every size, the ring buffer is a bounded FIFO of bytes.             *)
THEOREM RingIsFifo == Ring!Spec => Ring!ImplementsFifo
<1>1. Ring!RINGBUF_Init => Ring!Fifo!FifoInit
  <2> SUFFICES ASSUME Ring!RINGBUF_Init PROVE Ring!Fifo!FifoInit
    OBVIOUS
  <2>1. Ring!Content \in Seq(Byte) /\ Len(Ring!Content) = 0
    BY RingInitIInv, ContentType DEF Ring!RINGBUF_Init
  <2>2. QED BY <2>1 DEF Ring!RINGBUF_Init, Ring!Fifo!FifoInit
<1>2. Ring!IInv /\ [Ring!Next]_(Ring!vars) => [Ring!Fifo!FifoNext]_(Ring!Fifo!fifoVars)
  <2> SUFFICES ASSUME Ring!IInv, [Ring!Next]_(Ring!vars) PROVE [Ring!Fifo!FifoNext]_(Ring!Fifo!fifoVars)
    OBVIOUS
  <2>1. CASE \E b \in Byte : Ring!RINGBUF_Put(b)
    BY <2>1, PutAppends DEF Ring!Fifo!FifoNext, Ring!Fifo!Byte, Byte
  <2>2. CASE Ring!RINGBUF_Get
    BY <2>2, GetRemovesHead DEF Ring!Fifo!FifoNext
  <2>3. CASE UNCHANGED Ring!vars
    <3>1. Ring!Content' = Ring!Content /\ c' = c
      BY <2>3 DEF Ring!vars, Ring!Content, Ring!Wrap
    <3>2. QED BY <3>1 DEF Ring!Fifo!fifoVars
  <2>4. QED BY <2>1, <2>2, <2>3 DEF Ring!Next, Ring!Byte, Byte
<1>3. QED BY <1>1, <1>2, RingInitIInv, RingStepIInv, PTL DEF Ring!Spec, Ring!ImplementsFifo, Ring!Fifo!FifoSpec


-----------------------------------------------------------------------------
(* The queue over the pointers of the ring (PointerQueue).                 *)

\* What the pointers enclose are the bytes the queue has put and not taken.
SameBytes == Ring!IInv /\ Ring!Content = fifo /\ c = got

LEMMA InitSame == PointerInit => SameBytes
<1> SUFFICES ASSUME PointerInit PROVE SameBytes
  OBVIOUS
<1>1. Ring!IInv
  BY RingInitIInv DEF PointerInit
<1>2. Ring!Content \in Seq(Byte) /\ Len(Ring!Content) = 0
  BY <1>1, ContentType DEF PointerInit, Ring!RINGBUF_Init
<1> QED
  BY <1>1, <1>2 DEF SameBytes, PointerInit, Init, FifoInit, Ring!RINGBUF_Init

(* A call that puts a byte puts the same byte behind both.                 *)
LEMMA PutSame == ASSUME SameBytes, IInv, Put PROVE SameBytes' /\ FifoPut(ByteOf(put))
<1>1. ByteOf(put) \in Byte
  BY ByteOfToken DEF IInv, PutInv, Put, PutByte
<1>2. Ring!IInv'
  BY <1>1, RingPutIInv DEF SameBytes, Put
<1>3. Ring!Fifo!FifoPut(ByteOf(put))
  BY <1>1, PutAppends DEF SameBytes, Put
<1> QED
  BY <1>2, <1>3 DEF SameBytes, Ring!Fifo!FifoPut, Put, PutByte, FifoPut

(* A call that takes a byte takes the same byte off both.                  *)
LEMMA GetSame == ASSUME SameBytes, Get PROVE SameBytes'
<1>1. Ring!IInv'
  BY RingGetIInv DEF SameBytes, Get
<1>2. Ring!Fifo!FifoGet
  BY GetRemovesHead DEF SameBytes, Get
<1> QED
  BY <1>1, <1>2 DEF SameBytes, Ring!Fifo!FifoGet, Get, GetByte, FifoGet

(* Every other step leaves both as they are.                               *)
LEMMA OtherSame ==
  ASSUME SameBytes, Begins \/ Refused \/ RunsOut \/ UNCHANGED pvars
  PROVE  SameBytes' /\ UNCHANGED fifoVars
<1>1. UNCHANGED fifoVars /\ UNCHANGED ring
  BY DEF Begins, StartPut, StartGet, Refused, InsistFull, OfferFull, RunsOut, GetNothing,
         pvars, vars, fifoVars
<1>2. UNCHANGED Ring!vars
  BY <1>1 DEF ring, Ring!vars
<1>3. Ring!IInv' /\ Ring!Content' = Ring!Content
  BY <1>2
  DEF SameBytes, Ring!vars, Ring!IInv, Ring!TypeOK, Ring!PointersAgree,
      Ring!Content, Ring!Wrap
<1> QED BY <1>1, <1>2, <1>3 DEF SameBytes, fifoVars, Ring!vars

LEMMA StepSame ==
  ASSUME SameBytes, IInv, [PointerNext]_pvars
  PROVE  SameBytes' /\ [FifoNext]_fifoVars
<1>1. CASE Put
  <2>1. ByteOf(put) \in Byte
    BY <1>1, ByteOfToken DEF IInv, PutInv, Put, PutByte
  <2> QED BY <1>1, <2>1, PutSame DEF FifoNext
<1>2. CASE Get
  BY <1>2, GetSame DEF Get, GetByte, FifoNext
<1>3. CASE Begins \/ Refused \/ RunsOut \/ UNCHANGED pvars
  BY <1>3, OtherSame
<1> QED BY <1>1, <1>2, <1>3 DEF PointerNext, Call

(* The queue over the pointers is the queue over the FIFO.                 *)
LEMMA PointersAreQueue == PointerSpec => Spec
<1>1. PointerInit => Init
  BY DEF PointerInit
<1>2. [PointerNext]_pvars => [Next]_vars
  BY DEF PointerNext, Begins, Call, Put, Get, Refused, RunsOut, pvars, Next, Step
<1> QED BY <1>1, <1>2, PTL DEF PointerSpec, Spec

LEMMA PointerInvariance == PointerSpec => [](IInv /\ SameBytes)
<1>1. PointerSpec => []IInv
  BY PointersAreQueue, Invariance, PTL
<1>2. IInv /\ SameBytes /\ [PointerNext]_pvars => SameBytes'
  BY StepSame
<1> QED BY <1>1, <1>2, InitSame, PTL DEF PointerSpec

(* Under every sequence of the queue's calls the ring's pointers enclose   *)
(* the bytes that were put and not taken, in order, for every ring size:   *)
(* neither a frame that is cut short nor one that is thrown away brings the*)
(* ring and its users apart.                                               *)
THEOREM PointersImplementFifo == PointerSpec => ImplementsFifo
<1>1. SameBytes => Ring!Content = fifo /\ c = got
  BY DEF SameBytes
<1>2. PointerInit => Ring!Fifo!FifoInit
  BY InitSame, <1>1 DEF PointerInit, Init, FifoInit, Ring!Fifo!FifoInit
<1>3. ASSUME IInv /\ SameBytes, (IInv /\ SameBytes)', [PointerNext]_pvars
      PROVE  [Ring!Fifo!FifoNext]_(Ring!Fifo!fifoVars)
  <2>1. Ring!Content = fifo /\ c = got /\ Ring!Content' = fifo' /\ c' = got'
    <3>1. (SameBytes => Ring!Content = fifo /\ c = got)'
      BY <1>1, PTL
    <3> QED BY <1>1, <1>3, <3>1
  <2>2. [FifoNext]_fifoVars
    BY <1>3, StepSame
  <2> QED
    BY <2>1, <2>2
    DEF FifoNext, FifoPut, FifoGet, FifoFull, fifoVars, Byte, Ring!Fifo!FifoNext,
        Ring!Fifo!FifoPut, Ring!Fifo!FifoGet, Ring!Fifo!FifoFull, Ring!Fifo!fifoVars,
        Ring!Fifo!Byte
<1> QED
  BY <1>2, <1>3, PointerInvariance, PTL
  DEF PointerSpec, ImplementsFifo, Ring!ImplementsFifo, Ring!Fifo!FifoSpec
=============================================================================
