---------------------------- MODULE WebServerProofs ----------------------------
(***************************************************************************)
(* The safety of the web server's clients, for any peers, any size of the  *)
(* buffer and any lengths of files, answers and requests.                  *)
(***************************************************************************)
EXTENDS WebServer, SequenceTheorems, TLAPS

\* What the state of a client says of its counters, of the blocks it holds
\* and of the send it awaits.
Steady(c, s) ==
  /\ c \in Clients /\ s \in 0..1
  /\ c.offset <= c.size
  /\ c.state = "CLIENT_IDLE" => c.held # "live" /\ c.offset = c.size
  /\ c.state = "CLIENT_SENDING" => c.held = "live" /\ s = 0 /\ c.progress = 0
                                   /\ c.length = 0
  /\ c.state = "CLIENT_RECEIVING" => /\ c.held = "live" /\ s = 1
                                     /\ c.size = c.length /\ c.offset = c.progress

\* A client whose blocks are gone awaits a report only after a malformed request.
Freed(c, s) == c.state = "CLIENT_IDLE" /\ s = 1 /\ c.held = "dangling" => malformed

\* What was sent of a body: as many bytes as the handler has gone through,
\* and the first ones if that is what the handler gives.
Sent(c, g) == /\ c.state = "CLIENT_RECEIVING" =>
                    /\ Len(g) = c.progress
                    /\ \/ c.resource = "file"
                       \/ c.resource = "api" /\ (c.progress \in {0, c.length} \/ c.length > Buf)
              /\ c.state = "CLIENT_SENDING" => g = <<>> /\ c.resource = "api"
              /\ \/ c.resource = "api" /\ c.length > Buf
                 \/ g = Chunk(0, Len(g)) /\ Len(g) <= c.length

\* What is still to come of a request fits in what was announced.
Due(c, t) == t \in Nat /\ (c.state = "CLIENT_SENDING" => c.offset + t <= c.size)

\* The inductive invariant.  What is said of a peer that has gone is only that
\* its client is a fresh one.
IInv == /\ client \in [Peers -> Clients]
        /\ sends \in [Peers -> Nat] /\ toCome \in [Peers -> Nat] /\ got \in [Peers -> Seq(Nat)]
        /\ open \subseteq Peers
        /\ heap \in {"sound", "broken"} /\ malformed \in BOOLEAN
        /\ \A p \in Peers : /\ Steady(client[p], sends[p])
                            /\ Freed(client[p], sends[p])
                            /\ Due(client[p], toCome[p])
                            /\ p \in open => Sent(client[p], got[p])
                            /\ p \notin open => client[p] = NoClient
        /\ HeapSound

-----------------------------------------------------------------------------
LEMMA ChunkLength ==
  ASSUME NEW m \in Nat, NEW n \in Nat
  PROVE  Chunk(m, n) \in Seq(Nat) /\ Len(Chunk(m, n)) = n
<1>1. \A i \in 1..n : m + i - 1 \in Nat
  OBVIOUS
<1>2. Chunk(m, n) \in [1..n -> Nat]
  BY <1>1 DEF Chunk
<1> QED
  BY <1>2

LEMMA ChunkJoin ==
  ASSUME NEW m \in Nat, NEW n \in Nat
  PROVE  Chunk(0, m) \o Chunk(m, n) = Chunk(0, m + n)
<1>1. /\ Chunk(0, m) \in Seq(Nat) /\ Len(Chunk(0, m)) = m
      /\ Chunk(m, n) \in Seq(Nat) /\ Len(Chunk(m, n)) = n
      /\ Chunk(0, m + n) \in Seq(Nat) /\ Len(Chunk(0, m + n)) = m + n
  BY ChunkLength
<1>2. Chunk(0, m) \o Chunk(m, n) \in Seq(Nat) /\ Len(Chunk(0, m) \o Chunk(m, n)) = m + n
  BY <1>1
<1>3. ASSUME NEW i \in 1..(m + n)
      PROVE  (Chunk(0, m) \o Chunk(m, n))[i] = Chunk(0, m + n)[i]
  <2>1. (Chunk(0, m) \o Chunk(m, n))[i] = IF i <= m THEN Chunk(0, m)[i] ELSE Chunk(m, n)[i - m]
    <3> HIDE DEF Chunk
    <3> QED BY <1>1, ConcatProperties, SMTT(30)
  <2>2. CASE i <= m
    BY <2>1, <2>2 DEF Chunk
  <2>3. CASE i > m
    <3>1. i - m \in 1..n
      BY <2>3
    <3> QED BY <2>1, <2>3, <3>1 DEF Chunk
  <2>4. i <= m \/ i > m
    OBVIOUS
  <2> QED BY <2>2, <2>3, <2>4, Zenon
<1> QED
  BY <1>1, <1>2, <1>3, SeqEqual

LEMMA ChunkEmpty == Chunk(0, 0) = <<>>
BY ChunkLength, EmptySeq

(* A step that touches one peer only keeps the invariant if it does so for *)
(* that peer.                                                              *)
LEMMA Local ==
  ASSUME IInv, NEW p \in Peers,
         client' \in [Peers -> Clients], sends' \in [Peers -> Nat],
         toCome' \in [Peers -> Nat], got' \in [Peers -> Seq(Nat)],
         \A q \in Peers \ {p} : /\ client'[q] = client[q] /\ sends'[q] = sends[q]
                                /\ toCome'[q] = toCome[q] /\ got'[q] = got[q]
                                /\ q \in open' <=> q \in open,
         open' \subseteq Peers, heap' \in {"sound", "broken"}, malformed' \in BOOLEAN,
         malformed => malformed', HeapSound',
         Steady(client'[p], sends'[p]), Freed(client[p], sends[p])',
         Due(client'[p], toCome'[p]), p \in open' => Sent(client'[p], got'[p]),
         p \notin open' => client'[p] = NoClient
  PROVE  IInv'
<1>1. ASSUME NEW q \in Peers
      PROVE  /\ Steady(client'[q], sends'[q]) /\ Freed(client[q], sends[q])'
             /\ Due(client'[q], toCome'[q]) /\ q \in open' => Sent(client'[q], got'[q])
             /\ q \notin open' => client'[q] = NoClient
  <2>1. CASE q = p
    BY <2>1
  <2>2. CASE q # p
    BY <2>2 DEF IInv, Freed
  <2> QED BY <2>1, <2>2
<1> QED
  BY <1>1 DEF IInv

-----------------------------------------------------------------------------
(* What a step may do to the client of p: the rest of the invariant, when  *)
(* nothing is freed and no malformed request comes.                        *)
LEMMA LocalQuiet ==
  ASSUME IInv, NEW p \in Peers, NEW c \in Clients, NEW s \in Nat, NEW t \in Nat, NEW g \in Seq(Nat),
         client' = [client EXCEPT ![p] = c], sends' = [sends EXCEPT ![p] = s],
         toCome' = [toCome EXCEPT ![p] = t], got' = [got EXCEPT ![p] = g],
         UNCHANGED <<open, heap, malformed>>, p \in open,
         Steady(c, s), c.state # "CLIENT_IDLE", Due(c, t), Sent(c, g)
  PROVE  IInv'
<1>1. /\ client'[p] = c /\ sends'[p] = s /\ toCome'[p] = t /\ got'[p] = g
      /\ client' \in [Peers -> Clients] /\ sends' \in [Peers -> Nat]
      /\ toCome' \in [Peers -> Nat] /\ got' \in [Peers -> Seq(Nat)]
      /\ \A q \in Peers \ {p} : /\ client'[q] = client[q] /\ sends'[q] = sends[q]
                                /\ toCome'[q] = toCome[q] /\ got'[q] = got[q]
  BY DEF IInv
<1>2. Freed(client[p], sends[p])'
  BY <1>1 DEF Freed
<1>3. HeapSound' /\ open' \subseteq Peers /\ heap' \in {"sound", "broken"} /\ malformed' \in BOOLEAN
  BY DEF IInv, HeapSound
<1> QED
  BY <1>1, <1>2, <1>3, Local

(* The client that answers, field by field.                                *)
LEMMA Answering ==
  ASSUME NEW p \in Peers, NEW c \in Clients, NEW n \in Nat, NEW m \in Nat,
         Respond(p, c, n), m = IF c.size > 0 THEN n ELSE c.length
  PROVE  /\ client' = [client EXCEPT ![p] =
                         [state |-> "CLIENT_RECEIVING", size |-> m, offset |-> 0, held |-> c.held,
                          resource |-> c.resource, length |-> m, progress |-> c.progress]]
         /\ sends' = [sends EXCEPT ![p] = @ + 1]
<1> DEFINE h == IF c.size > 0 THEN websrv_api_request_body(c, n) ELSE c
           d == [h EXCEPT !.state = "CLIENT_RECEIVING", !.offset = 0, !.size = h.length]
           e == [state |-> "CLIENT_RECEIVING", size |-> m, offset |-> 0, held |-> c.held,
                 resource |-> c.resource, length |-> m, progress |-> c.progress]
<1>1. client' = [client EXCEPT ![p] = d] /\ sends' = [sends EXCEPT ![p] = @ + 1]
  BY DEF Respond
<1>2. /\ h \in Clients /\ h.length = m
      /\ h.held = c.held /\ h.resource = c.resource /\ h.progress = c.progress
  BY DEF websrv_api_request_body, Clients
<1> HIDE DEF h
<1>3. d \in Clients /\ e \in Clients
  BY <1>2 DEF Clients, State, Resource
<1>4. /\ d.state = e.state /\ d.size = e.size /\ d.offset = e.offset /\ d.held = e.held
      /\ d.resource = e.resource /\ d.length = e.length /\ d.progress = e.progress
  BY <1>2 DEF Clients
<1> HIDE DEF d, e
<1>5. d = e
  BY <1>3, <1>4 DEF Clients
<1> QED BY <1>1, <1>5 DEF e

(* A request, taken in whole or in part.                                   *)
LEMMA RequestKeeps ==
  ASSUME IInv, NEW p \in Peers, p \in open,
         NEW resource \in {"file", "api"}, NEW length \in Nat, NEW size \in Nat,
         NEW k \in Nat, NEW n \in Nat, k <= size,
         resource = "file" => size = 0, resource = "api" => length = 0,
         ReceiveRequest(p, [resource |-> resource, length |-> length, progress |-> 0], size, k, n)
  PROVE  IInv'
<1> DEFINE c == [state |-> IF size > 0 THEN "CLIENT_SENDING" ELSE "CLIENT_IDLE",
                 size |-> size, offset |-> k, held |-> "live", resource |-> resource,
                 length |-> length, progress |-> 0]
<1>1. /\ Received(p, c, n)
      /\ client[p].state = "CLIENT_IDLE" /\ sends[p] = 0
      /\ toCome' = [toCome EXCEPT ![p] = size - k]
      /\ got' = [got EXCEPT ![p] = <<>>]
      /\ UNCHANGED <<open, heap, malformed>>
  BY DEF ReceiveRequest, MaySend
<1>2. size - k \in Nat /\ <<>> \in Seq(Nat) /\ Len(<<>>) = 0
  OBVIOUS
<1>3. CASE size = k
  <2> DEFINE answered == IF size > 0 THEN n ELSE length
             d == [state |-> "CLIENT_RECEIVING", size |-> answered, offset |-> 0, held |-> "live",
                   resource |-> resource, length |-> answered, progress |-> 0]
  <2>1. client' = [client EXCEPT ![p] = d] /\ sends' = [sends EXCEPT ![p] = 1]
    <3>1. c.size = c.offset /\ c.size = size /\ c.length = length
      BY <1>3
    <3>2. Respond(p, c, n)
      <4> HIDE DEF c
      <4> QED BY <1>1, <3>1 DEF Received
    <3>3. c \in Clients /\ c.held = "live" /\ c.resource = resource /\ c.progress = 0
      BY DEF Clients, State, Resource
    <3>4. answered \in Nat /\ answered = IF c.size > 0 THEN n ELSE c.length
      BY <3>1
    <3> HIDE DEF c, answered
    <3>5. client' = [client EXCEPT ![p] = d] /\ sends' = [sends EXCEPT ![p] = @ + 1]
      BY <3>2, <3>3, <3>4, Answering
    <3> QED BY <1>1, <3>5 DEF IInv
  <2>2. answered \in Nat
    OBVIOUS
  <2> HIDE DEF answered
  <2>3. d \in Clients /\ Steady(d, 1) /\ Due(d, size - k)
    BY <2>2, <1>2 DEF Clients, State, Resource, Steady, Due
  <2>4. Sent(d, <<>>)
    BY <2>2, <1>2, ChunkEmpty DEF Sent
  <2>5. d.state # "CLIENT_IDLE"
    OBVIOUS
  <2> HIDE DEF c, d
  <2> QED
    BY <1>1, <1>2, <2>1, <2>3, <2>4, <2>5, LocalQuiet
<1>4. CASE size # k
  <2>1. client' = [client EXCEPT ![p] = c] /\ sends' = [sends EXCEPT ![p] = 0]
    BY <1>1, <1>4 DEF Received, IInv
  <2>2. size > 0 /\ resource = "api" /\ length = 0
    BY <1>4
  <2>3. c = [state |-> "CLIENT_SENDING", size |-> size, offset |-> k, held |-> "live",
             resource |-> resource, length |-> 0, progress |-> 0]
    BY <2>2
  <2> HIDE DEF c
  <2>4. c \in Clients /\ Steady(c, 0) /\ Due(c, size - k)
    BY <2>2, <2>3, <1>2 DEF Clients, State, Resource, Steady, Due
  <2>5. Sent(c, <<>>)
    BY <2>2, <2>3, <1>2, ChunkEmpty DEF Sent
  <2>6. c.state # "CLIENT_IDLE"
    BY <2>3
  <2> QED
    BY <1>1, <1>2, <2>1, <2>4, <2>5, <2>6, LocalQuiet
<1> QED
  BY <1>3, <1>4

(* A segment of a body, which may complete the request.                    *)
LEMMA SegmentKeeps ==
  ASSUME IInv, NEW p \in Peers, p \in open, NEW k \in Nat, NEW n \in Nat,
         ReceiveSegment(p, k, n)
  PROVE  IInv'
<1> DEFINE c == IF client[p].offset + k > Buf THEN client[p]
                                             ELSE [client[p] EXCEPT !.offset = @ + k]
           o == IF client[p].offset + k > Buf THEN client[p].offset ELSE client[p].offset + k
<1>1. /\ Received(p, c, n)
      /\ client[p].state = "CLIENT_SENDING"
      /\ k <= toCome[p]
      /\ toCome' = [toCome EXCEPT ![p] = toCome[p] - k]
      /\ UNCHANGED <<open, heap, malformed, got>>
  BY DEF ReceiveSegment, IInv
<1>2. /\ client[p] \in Clients /\ Steady(client[p], sends[p]) /\ Due(client[p], toCome[p])
      /\ Sent(client[p], got[p]) /\ toCome[p] \in Nat /\ got[p] \in Seq(Nat)
  BY DEF IInv
<1>3. /\ client[p].held = "live" /\ sends[p] = 0 /\ client[p].progress = 0
      /\ client[p].length = 0 /\ got[p] = <<>> /\ client[p].resource = "api"
      /\ client[p].offset + toCome[p] <= client[p].size
  BY <1>1, <1>2 DEF Steady, Due, Sent
<1>4. toCome[p] - k \in Nat /\ got' = [got EXCEPT ![p] = <<>>] /\ <<>> \in Seq(Nat) /\ Len(<<>>) = 0
  BY <1>1, <1>2, <1>3 DEF IInv
<1>5. /\ c \in Clients /\ c.state = "CLIENT_SENDING" /\ c.size = client[p].size
      /\ c.offset = o /\ c.held = "live" /\ c.progress = 0 /\ c.length = 0
      /\ c.resource = "api"
  BY <1>1, <1>2, <1>3, BufAssumption DEF Clients
<1>6. o \in Nat /\ o + (toCome[p] - k) <= client[p].size
  BY <1>1, <1>2, <1>3, BufAssumption DEF Clients
<1> HIDE DEF c, o
<1>7. CASE c.size = c.offset
  <2> DEFINE a == IF c.size > 0 THEN n ELSE c.length
             d == [state |-> "CLIENT_RECEIVING", size |-> a, offset |-> 0, held |-> c.held,
                   resource |-> c.resource, length |-> a, progress |-> c.progress]
  <2>1. a \in Nat
    BY <1>5
  <2>2. Respond(p, c, n)
    BY <1>1, <1>7 DEF Received
  <2>3. client' = [client EXCEPT ![p] = d] /\ sends' = [sends EXCEPT ![p] = @ + 1]
    BY <2>1, <2>2, <1>5, Answering
  <2>4. sends' = [sends EXCEPT ![p] = 1]
    BY <2>3, <1>3 DEF IInv
  <2> HIDE DEF a
  <2>5. d \in Clients /\ Steady(d, 1) /\ Due(d, toCome[p] - k)
    BY <2>1, <1>4, <1>5 DEF Clients, State, Resource, Steady, Due
  <2>6. Sent(d, <<>>)
    BY <2>1, <1>4, <1>5, ChunkEmpty DEF Sent
  <2>7. d.state # "CLIENT_IDLE"
    OBVIOUS
  <2> HIDE DEF d
  <2> QED
    BY <1>1, <1>4, <2>3, <2>4, <2>5, <2>6, <2>7, LocalQuiet
<1>8. CASE c.size # c.offset
  <2>1. client' = [client EXCEPT ![p] = c] /\ UNCHANGED sends
    BY <1>1, <1>8 DEF Received
  <2>2. sends' = [sends EXCEPT ![p] = 0]
    BY <2>1, <1>3 DEF IInv
  <2>3. Steady(c, 0) /\ Due(c, toCome[p] - k)
    BY <1>2, <1>4, <1>5, <1>6 DEF Steady, Due, Clients
  <2>4. Sent(c, <<>>)
    BY <1>4, <1>5, ChunkEmpty DEF Sent
  <2> QED
    BY <1>1, <1>4, <1>5, <2>1, <2>2, <2>3, <2>4, LocalQuiet
<1> QED
  BY <1>7, <1>8

(* A chunk: the file handler goes on, and an answer of one chunk has only  *)
(* a first one.                                                            *)
LEMMA ChunkKeeps ==
  ASSUME IInv, NEW p \in Peers, p \in open, sends[p] > 0, client[p].size # client[p].offset,
         SendChunk(p), UNCHANGED <<sends, heap, open, toCome, malformed>>
  PROVE  IInv'
<1> DEFINE c == client[p]
           n == Least(c.length - c.progress, Buf)
           d == [c EXCEPT !.progress = @ + n, !.offset = @ + n]
           b == Chunk(IF c.resource = "file" THEN c.progress ELSE 0, n)
<1>1. /\ c \in Clients /\ Steady(c, sends[p]) /\ Sent(c, got[p]) /\ got[p] \in Seq(Nat)
      /\ toCome[p] \in Nat /\ sends[p] \in Nat
  BY DEF IInv
<1>2. /\ c.state = "CLIENT_RECEIVING" /\ c.held = "live" /\ sends[p] = 1
      /\ c.size = c.length /\ c.offset = c.progress /\ c.progress < c.length
      /\ c.length \in Nat /\ c.progress \in Nat /\ Len(got[p]) = c.progress
      /\ c.resource \in {"file", "api"}
      /\ c.resource = "api" => c.progress = 0 \/ c.length > Buf
  BY <1>1 DEF Steady, Sent, Clients, State
<1>3. n \in Nat /\ n <= c.length - c.progress /\ (c.length <= Buf => n = c.length - c.progress)
  BY <1>2, BufAssumption DEF Least
<1>4. d \in Clients /\ d.progress = c.progress + n /\ d.offset = c.progress + n
      /\ d.state = "CLIENT_RECEIVING" /\ d.held = "live" /\ d.size = c.length
      /\ d.length = c.length /\ d.resource = c.resource
  <2>1. c.progress + n \in Nat /\ c.offset + n = c.progress + n
    BY <1>2, <1>3
  <2> HIDE DEF n, c
  <2> QED BY <1>1, <1>2, <2>1 DEF Clients
<1>5. /\ client' = [client EXCEPT ![p] = d]
      /\ got' = [got EXCEPT ![p] = got[p] \o b]
      /\ toCome' = [toCome EXCEPT ![p] = toCome[p]] /\ sends' = [sends EXCEPT ![p] = 1]
  BY <1>2 DEF SendChunk, IInv
<1> HIDE DEF n, d
<1>6. b \in Seq(Nat) /\ Len(b) = n
  BY <1>2, <1>3, ChunkLength
<1> HIDE DEF b, c
<1>7. got[p] \o b \in Seq(Nat) /\ Len(got[p] \o b) = c.progress + n
  <2>1. ASSUME NEW g \in Seq(Nat), NEW h \in Seq(Nat)
        PROVE  g \o h \in Seq(Nat) /\ Len(g \o h) = Len(g) + Len(h)
    BY ConcatProperties
  <2> QED
    BY <1>1, <1>2, <1>6, <2>1
<1>8. Steady(d, 1) /\ Due(d, toCome[p])
  BY <1>1, <1>2, <1>3, <1>4 DEF Steady, Due
<1>9. CASE c.resource = "api" /\ c.length > Buf
  <2>1. Sent(d, got[p] \o b)
    BY <1>4, <1>7, <1>9 DEF Sent
  <2> QED
    BY <1>1, <1>2, <1>4, <1>5, <1>7, <1>8, <2>1, LocalQuiet
<1>10. CASE ~(c.resource = "api" /\ c.length > Buf)
  <2>1. got[p] = Chunk(0, c.progress)
    BY <1>1, <1>2, <1>10 DEF Sent
  <2>2. b = Chunk(c.progress, n)
    BY <1>2, <1>10 DEF b
  <2>3. got[p] \o b = Chunk(0, c.progress + n)
    BY <1>2, <1>3, <2>1, <2>2, ChunkJoin
  <2>4. c.resource = "api" => n = c.length /\ c.progress = 0
    BY <1>2, <1>3, <1>10, BufAssumption
  <2>5. Sent(d, got[p] \o b)
    BY <1>2, <1>3, <1>4, <1>7, <2>3, <2>4 DEF Sent
  <2> QED
    BY <1>1, <1>2, <1>4, <1>5, <1>7, <1>8, <2>5, LocalQuiet
<1> QED
  BY <1>9, <1>10

-----------------------------------------------------------------------------
(* The report of a send: the next chunk, or the end of a response.         *)
LEMMA SentKeeps ==
  ASSUME IInv, NEW p \in Peers, p \in open, webserver_sent_cb(p)
  PROVE  IInv'
<1>1. CASE client[p].size # client[p].offset
  BY <1>1, ChunkKeeps DEF webserver_sent_cb
<1>2. CASE client[p].size = client[p].offset
  <2> DEFINE c == client[p]
             h == IF c.held = "null" THEN "null" ELSE "dangling"
             d == [[c EXCEPT !.state = "CLIENT_IDLE"] EXCEPT !.held = h]
  <2>1. /\ c \in Clients /\ Steady(c, sends[p]) /\ Freed(c, sends[p]) /\ Sent(c, got[p])
        /\ sends[p] > 0 /\ sends[p] \in Nat
    BY DEF IInv, webserver_sent_cb
  <2>2. /\ client' = [client EXCEPT ![p] = d]
        /\ sends' = [sends EXCEPT ![p] = 0]
        /\ heap' = IF c.held = "dangling" THEN "broken" ELSE heap
        /\ UNCHANGED <<got, open, toCome, malformed>>
    BY <1>2, <2>1 DEF webserver_sent_cb, Cleanup, Steady, IInv
  <2>3. h \in {"null", "dangling"}
    OBVIOUS
  <2>4. c.held = "dangling" => malformed
    BY <2>1 DEF Steady, Freed, Clients, State
  <2> HIDE DEF h
  <2>5. /\ d \in Clients /\ d.state = "CLIENT_IDLE" /\ d.held = h
        /\ d.size = c.size /\ d.offset = c.offset
        /\ d.length = c.length /\ d.resource = c.resource
    <3> HIDE DEF c
    <3> QED BY <2>1, <2>3 DEF Clients, State
  <2> HIDE DEF d
  <2>6. Steady(d, 0) /\ Due(d, toCome[p]) /\ Sent(d, got[p])
    <3>1. toCome[p] \in Nat
      BY DEF IInv
    <3> HIDE DEF c
    <3> QED BY <1>2, <2>1, <2>3, <2>5, <3>1 DEF Steady, Due, Sent, c
  <2>7. HeapSound' /\ heap' \in {"sound", "broken"}
    BY <2>2, <2>4 DEF IInv, HeapSound
  <2>8. /\ client' \in [Peers -> Clients] /\ sends' \in [Peers -> Nat]
        /\ toCome' \in [Peers -> Nat] /\ got' \in [Peers -> Seq(Nat)]
        /\ client'[p] = d /\ sends'[p] = 0 /\ toCome'[p] = toCome[p] /\ got'[p] = got[p]
        /\ \A q \in Peers \ {p} : /\ client'[q] = client[q] /\ sends'[q] = sends[q]
                                  /\ toCome'[q] = toCome[q] /\ got'[q] = got[q]
    BY <2>2, <2>5 DEF IInv
  <2>9. Freed(client[p], sends[p])'
    BY <2>8 DEF Freed
  <2>10. open' \subseteq Peers /\ malformed' \in BOOLEAN /\ p \in open'
    BY <2>2 DEF IInv
  <2> HIDE DEF c
  <2> QED
    BY <2>2, <2>6, <2>7, <2>8, <2>9, <2>10, Local
<1> QED
  BY <1>1, <1>2

(* A header that does not parse.                                           *)
LEMMA BadKeeps ==
  ASSUME IInv, NEW p \in Peers, p \in open, ReceiveBad(p)
  PROVE  IInv'
<1> DEFINE c == client[p]
           h == IF c.held = "null" THEN "null" ELSE "dangling"
           d == [c EXCEPT !.held = h]
<1>1. /\ c \in Clients /\ Steady(c, sends[p]) /\ c.state = "CLIENT_IDLE" /\ sends[p] = 0
      /\ Sent(c, got[p])
  BY DEF IInv, ReceiveBad, MaySend
<1>2. /\ client' = [client EXCEPT ![p] = d]
      /\ sends' = [sends EXCEPT ![p] = 1]
      /\ got' = [got EXCEPT ![p] = <<>>]
      /\ heap' = IF c.held = "dangling" THEN "broken" ELSE heap
      /\ malformed' = (malformed \/ c.held # "null")
      /\ UNCHANGED <<open, toCome>>
  BY <1>1 DEF ReceiveBad, Cleanup, IInv
<1>3. h \in {"null", "dangling"} /\ (h = "dangling" => malformed')
  BY <1>2
<1> HIDE DEF h
<1>4. /\ d \in Clients /\ d.state = "CLIENT_IDLE" /\ d.held = h
      /\ d.size = c.size /\ d.offset = c.offset
      /\ d.length = c.length /\ d.resource = c.resource
  <2> HIDE DEF c
  <2> QED BY <1>1, <1>3 DEF Clients, State
<1> HIDE DEF d
<1>5. <<>> \in Seq(Nat) /\ Len(<<>>) = 0
  OBVIOUS
<1>6. Steady(d, 1) /\ Due(d, toCome[p]) /\ Sent(d, <<>>)
  <2>1. toCome[p] \in Nat /\ c.length \in Nat
    BY <1>1 DEF IInv, Clients
  <2> HIDE DEF c
  <2> QED BY <1>1, <1>3, <1>4, <1>5, <2>1, ChunkEmpty DEF Steady, Due, Sent
<1>7. HeapSound' /\ heap' \in {"sound", "broken"} /\ malformed' \in BOOLEAN /\ (malformed => malformed')
  BY <1>2 DEF IInv, HeapSound
<1>8. /\ client' \in [Peers -> Clients] /\ sends' \in [Peers -> Nat]
      /\ toCome' \in [Peers -> Nat] /\ got' \in [Peers -> Seq(Nat)]
      /\ client'[p] = d /\ sends'[p] = 1 /\ toCome'[p] = toCome[p] /\ got'[p] = <<>>
      /\ \A q \in Peers \ {p} : /\ client'[q] = client[q] /\ sends'[q] = sends[q]
                                /\ toCome'[q] = toCome[q] /\ got'[q] = got[q]
  BY <1>2, <1>4, <1>5 DEF IInv
<1>9. Freed(client[p], sends[p])'
  BY <1>3, <1>4, <1>8 DEF Freed
<1>10. open' \subseteq Peers /\ p \in open'
  BY <1>2 DEF IInv
<1> HIDE DEF c
<1> QED
  BY <1>2, <1>6, <1>7, <1>8, <1>9, <1>10, Local

-----------------------------------------------------------------------------
LEMMA Fresh == /\ NoClient \in Clients /\ <<>> \in Seq(Nat)
               /\ Steady(NoClient, 0) /\ Due(NoClient, 0) /\ Sent(NoClient, <<>>)
<1>1. NoClient \in Clients /\ <<>> \in Seq(Nat) /\ Len(<<>>) = 0
  BY DEF NoClient, Clients, State, Resource
<1> QED
  BY <1>1, ChunkEmpty DEF Steady, Due, Sent, NoClient

LEMMA InitHolds == Init => IInv
<1> SUFFICES ASSUME Init PROVE IInv
  OBVIOUS
<1>1. /\ client \in [Peers -> Clients] /\ sends \in [Peers -> Nat]
      /\ toCome \in [Peers -> Nat] /\ got \in [Peers -> Seq(Nat)]
  BY Fresh DEF Init
<1>2. ASSUME NEW p \in Peers
      PROVE  client[p] = NoClient /\ sends[p] = 0 /\ toCome[p] = 0 /\ got[p] = <<>>
  BY DEF Init
<1>3. \A p \in Peers : Freed(client[p], sends[p])
  BY <1>2 DEF Freed
<1> QED
  BY <1>1, <1>2, <1>3, Fresh DEF Init, IInv, HeapSound

LEMMA ConnectKeeps ==
  ASSUME IInv, NEW p \in Peers, webserver_connect_cb(p)
  PROVE  IInv'
<1>1. client[p] = NoClient /\ p \in open' /\ open' = open \cup {p} /\ UNCHANGED <<heap, malformed>>
  BY DEF IInv, webserver_connect_cb
<1>2. client' \in [Peers -> Clients] /\ client'[p] = NoClient
  BY <1>1, Fresh DEF webserver_connect_cb, IInv
<1>3. /\ sends' \in [Peers -> Nat] /\ toCome' \in [Peers -> Nat] /\ got' \in [Peers -> Seq(Nat)]
      /\ sends'[p] = 0 /\ toCome'[p] = 0 /\ got'[p] = <<>>
  BY Fresh DEF webserver_connect_cb, IInv
<1>4. \A q \in Peers \ {p} : /\ client'[q] = client[q] /\ sends'[q] = sends[q]
                             /\ toCome'[q] = toCome[q] /\ got'[q] = got[q]
                             /\ q \in open' <=> q \in open
  BY <1>1 DEF webserver_connect_cb, IInv
<1>5. Freed(client[p], sends[p])'
  BY <1>3 DEF Freed
<1>6. /\ HeapSound' /\ heap' \in {"sound", "broken"} /\ malformed' \in BOOLEAN
      /\ open' \subseteq Peers /\ (malformed => malformed')
  BY <1>1 DEF IInv, HeapSound
<1>7. /\ Steady(client'[p], sends'[p]) /\ Due(client'[p], toCome'[p])
      /\ Sent(client'[p], got'[p])
  BY <1>2, <1>3, Fresh
<1> QED
  BY <1>1, <1>2, <1>3, <1>4, <1>5, <1>6, <1>7, Local

LEMMA GoneKeeps ==
  ASSUME IInv, NEW p \in Peers, Gone(p)
  PROVE  IInv'
<1>1. NoClient \in Clients
  BY DEF NoClient, Clients, State, Resource
<1>2. /\ client' \in [Peers -> Clients] /\ sends' \in [Peers -> Nat]
      /\ toCome' \in [Peers -> Nat] /\ got' \in [Peers -> Seq(Nat)]
      /\ client'[p] = NoClient /\ sends'[p] = 0 /\ toCome'[p] = 0
      /\ open' = open \ {p} /\ UNCHANGED <<heap, malformed>>
      /\ \A q \in Peers \ {p} : /\ client'[q] = client[q] /\ sends'[q] = sends[q]
                                /\ toCome'[q] = toCome[q] /\ got'[q] = got[q]
                                /\ q \in open' <=> q \in open
  BY <1>1 DEF Gone, IInv
<1>3. Steady(NoClient, 0) /\ Due(NoClient, 0)
  BY <1>1 DEF Steady, Due, NoClient
<1>4. Freed(client[p], sends[p])'
  BY <1>2 DEF Freed
<1>5. /\ HeapSound' /\ heap' \in {"sound", "broken"} /\ malformed' \in BOOLEAN
      /\ open' \subseteq Peers /\ p \notin open'
  BY <1>2 DEF IInv, HeapSound
<1> QED
  BY <1>2, <1>3, <1>4, <1>5, Local

LEMMA RestartKeeps == IInv /\ Restart => IInv'
<1> SUFFICES ASSUME IInv, Restart PROVE IInv'
  OBVIOUS
<1>1. /\ client' \in [Peers -> Clients] /\ sends' \in [Peers -> Nat]
      /\ toCome' \in [Peers -> Nat] /\ got' \in [Peers -> Seq(Nat)]
  BY Fresh DEF Restart, IInv
<1>2. ASSUME NEW p \in Peers
      PROVE  client'[p] = NoClient /\ sends'[p] = 0 /\ toCome'[p] = 0
  BY DEF Restart
<1>3. \A p \in Peers : Freed(client[p], sends[p])'
  BY <1>2 DEF Freed
<1> QED
  BY <1>1, <1>2, <1>3, Fresh DEF Restart, IInv, HeapSound

LEMMA NextKeeps == IInv /\ [Next]_vars => IInv'
<1> SUFFICES ASSUME IInv, [Next]_vars PROVE IInv'
  OBVIOUS
<1>1. ASSUME NEW p \in Peers, webserver_connect_cb(p) PROVE IInv'
  BY <1>1, ConnectKeeps
<1>2. ASSUME NEW p \in Peers, Gone(p) PROVE IInv'
  BY <1>2, GoneKeeps
<1>3. ASSUME NEW p \in Peers, Request(p) PROVE IInv'
  <2>1. ASSUME NEW length \in FileLengths \cup {0}, ReceiveRequest(p, websrv_file_setup_context(length), 0, 0, 0)
        PROVE  IInv'
    <3>1. length \in Nat
      BY LengthsAssumption
    <3>2. p \in open
      BY <2>1 DEF ReceiveRequest, MaySend, Found
    <3> QED BY <2>1, <3>1, <3>2, RequestKeeps DEF websrv_file_setup_context
  <2>2. ASSUME NEW size \in 0..MaxRequest, NEW n \in AnswerLengths, NEW k \in 0..Least(size, Buf),
               ReceiveRequest(p, websrv_api_setup_context, size, k, n)
        PROVE  IInv'
    <3>1. size \in Nat /\ n \in Nat /\ k \in Nat /\ k <= size
      BY LengthsAssumption, RequestAssumption, BufAssumption DEF Least
    <3>2. p \in open
      BY <2>2 DEF ReceiveRequest, MaySend, Found
    <3> QED BY <2>2, <3>1, <3>2, RequestKeeps DEF websrv_api_setup_context
  <2> QED BY <1>3, <2>1, <2>2 DEF Request
<1>4. ASSUME NEW p \in Peers, ReceiveBad(p) PROVE IInv'
  BY <1>4, BadKeeps DEF ReceiveBad, MaySend, Found
<1>5. ASSUME NEW p \in Peers, Segment(p) PROVE IInv'
  <2>1. PICK k \in 1..MaxRequest, n \in AnswerLengths : ReceiveSegment(p, k, n)
    BY <1>5 DEF Segment
  <2>2. k \in Nat /\ n \in Nat
    BY LengthsAssumption, RequestAssumption
  <2> QED BY <2>1, <2>2, SegmentKeeps DEF ReceiveSegment, Found
<1>6. ASSUME NEW p \in Peers, webserver_sent_cb(p) PROVE IInv'
  BY <1>6, SentKeeps DEF webserver_sent_cb, Found
<1>7. CASE Restart
  BY <1>7, RestartKeeps
<1>8. CASE UNCHANGED vars
  BY <1>8 DEF vars, IInv, Freed, HeapSound
<1> QED
  BY <1>1, <1>2, <1>3, <1>4, <1>5, <1>6, <1>7, <1>8 DEF Next

LEMMA Invariant == Spec => []IInv
BY InitHolds, NextKeeps, PTL DEF Spec

-----------------------------------------------------------------------------
(* A client never has two sends with TCP, and a response under way always  *)
(* has the one whose report asks webserver_sent_cb for the next chunk.     *)
THEOREM NoneStalls == Spec => []OneSend
<1>1. IInv => OneSend
  BY DEF IInv, OneSend, Steady
<1> QED BY <1>1, Invariant, PTL

(* webserver_cleanup_client_request frees the blocks of a request once, as *)
(* long as peers that have been served send requests that parse.           *)
THEOREM FreedOnce == Spec => []HeapSound
<1>1. IInv => HeapSound
  BY DEF IInv
<1> QED BY <1>1, Invariant, PTL

(* A file, or an answer of a single chunk, is sent in order from its start,*)
(* and never beyond the length its header announced.                       *)
THEOREM BodiesInOrder == Spec => []BodyInOrder
<1>1. IInv => BodyInOrder
  BY DEF IInv, BodyInOrder, Sent
<1> QED BY <1>1, Invariant, PTL

(* A client turns idle in webserver_sent_cb, its connection still up, only *)
(* when every byte the header announced has been handed over.              *)
THEOREM BodiesAreWhole == Spec => WholeBody
<1>1. ASSUME IInv, [Next]_vars, NEW p \in open, client[p].state = "CLIENT_RECEIVING",
             p \in open', client'[p].state = "CLIENT_IDLE"
      PROVE  Len(got[p]) = client[p].length
  <2>1. /\ p \in Peers /\ Steady(client[p], sends[p]) /\ Sent(client[p], got[p])
        /\ client \in [Peers -> Clients]
    BY <1>1 DEF IInv
  <2>2. client' # client
    BY <1>1
  <2>3. ASSUME NEW q \in Peers, webserver_connect_cb(q) PROVE FALSE
    BY <1>1, <2>1, <2>3 DEF webserver_connect_cb
  <2>4. ASSUME NEW q \in Peers, Gone(q) PROVE FALSE
    BY <1>1, <2>1, <2>4 DEF Gone
  <2>5. ASSUME NEW q \in Peers, q # p, NEW c, client' = [client EXCEPT ![q] = c] PROVE FALSE
    BY <1>1, <2>1, <2>5
  <2>6. ASSUME NEW q \in Peers, NEW c, NEW n, Received(q, c, n), q # p PROVE FALSE
    BY <2>5, <2>6 DEF Received, Respond
  <2>7. ASSUME NEW q \in Peers, Request(q) PROVE FALSE
    <3>1. q # p
      BY <1>1, <2>7 DEF Request, ReceiveRequest, MaySend
    <3> QED BY <2>6, <2>7, <3>1 DEF Request, ReceiveRequest
  <2>8. ASSUME NEW q \in Peers, ReceiveBad(q) PROVE FALSE
    <3>1. q # p
      BY <1>1, <2>8 DEF ReceiveBad, MaySend
    <3> QED BY <2>5, <2>8, <3>1 DEF ReceiveBad, Cleanup
  <2>9. ASSUME NEW q \in Peers, Segment(q) PROVE FALSE
    <3>1. PICK k \in 1..MaxRequest, n \in AnswerLengths : ReceiveSegment(q, k, n)
      BY <2>9 DEF Segment
    <3>2. q # p
      BY <1>1, <3>1 DEF ReceiveSegment
    <3> QED BY <2>6, <3>1, <3>2 DEF ReceiveSegment
  <2>10. ASSUME NEW q \in Peers, webserver_sent_cb(q)
         PROVE  q = p /\ client[p].size = client[p].offset
    <3>1. CASE client[q].size = client[q].offset
      BY <2>5, <2>10, <3>1 DEF webserver_sent_cb, Cleanup
    <3>2. CASE client[q].size # client[q].offset
      <4>1. SendChunk(q)
        BY <2>10, <3>2 DEF webserver_sent_cb
      <4>2. client'[p].state = client[p].state
        BY <2>1, <4>1 DEF SendChunk, Clients
      <4> QED BY <1>1, <4>2
    <3> QED BY <3>1, <3>2
  <2>11. ASSUME Restart PROVE FALSE
    BY <1>1, <2>11 DEF Restart
  <2>12. Next
    BY <1>1, <2>2 DEF vars
  <2>13. client[p].size = client[p].offset
    BY <2>3, <2>4, <2>7, <2>8, <2>9, <2>10, <2>11, <2>12 DEF Next
  <2> QED
    BY <1>1, <2>1, <2>13 DEF Steady, Sent
<1>2. IInv /\ [Next]_vars =>
        [\A p \in open : client[p].state = "CLIENT_RECEIVING" /\ p \in open'
            /\ client'[p].state = "CLIENT_IDLE" => Len(got[p]) = client[p].length]_vars
  BY <1>1
<1> QED BY <1>2, Invariant, PTL DEF Spec, WholeBody
=============================================================================
