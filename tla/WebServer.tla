------------------------------- MODULE WebServer -------------------------------
(***************************************************************************)
(* The web server of src/websrv/websrv.c with its two handlers, for files  *)
(* (websrv_file.c) and for the API (websrv_api.c), and the peers that      *)
(* connect to it.  Every callback of the TCP stack finds its client in a   *)
(* list by the peer's address and port, and works on the one buffer,       *)
(* handler and pair of counters of that client.                            *)
(*                                                                         *)
(* A body is the sequence of its positions, from 0.                        *)
(***************************************************************************)
EXTENDS Naturals, Sequences, SequencesExt

CONSTANTS
  Peers,               \* addresses and ports that connect
  Buf,                 \* WEB_SRV_BUF
  FileLengths,         \* lengths of the files in flash
  AnswerLengths,       \* lengths of what the API prints
  MaxRequest           \* bound: bytes of a request's body

ASSUME BufAssumption == Buf \in Nat \ {0}
ASSUME LengthsAssumption == FileLengths \subseteq Nat \ {0} /\ AnswerLengths \subseteq Nat \ {0}
ASSUME RequestAssumption == MaxRequest \in Nat

VARIABLES
  list,                \* the linked list: the identities of its clients
  client,              \* per peer, the Client that stands for it, if any
  open,                \* the peers that are connected
  sends,               \* per peer, the sends TCP has not reported yet
  toCome,              \* per peer, the bytes of its request still to arrive
  got,                 \* per peer, the body it was sent since its last request
  heap,                \* "sound", or "broken" once a block was freed twice
  malformed            \* history: a peer that had been served sent no request

vars == <<list, client, open, sends, toCome, got, heap, malformed>>

State == {"CLIENT_IDLE", "CLIENT_SENDING", "CLIENT_RECEIVING"}
Resource == {"none", "file", "api"}

\* held: current_client_request, resource and handler_context, which are
\* allocated and freed together and never set to null: null, allocated or
\* dangling.  length and progress are the handler context's.
NoClient == [state |-> "CLIENT_IDLE", size |-> 0, offset |-> 0, held |-> "null",
             resource |-> "none", length |-> 0, progress |-> 0]
Clients == [state : State, size : Nat, offset : Nat, held : {"null", "live", "dangling"},
            resource : Resource, length : Nat, progress : Nat]

\* The positions n starting at first.
Chunk(first, n) == [i \in 1..n |-> first + i - 1]

Least(m, n) == IF m <= n THEN m ELSE n

Init == /\ list = <<>>
        /\ client = [p \in Peers |-> NoClient]
        /\ open = {}
        /\ sends = [p \in Peers |-> 0]
        /\ toCome = [p \in Peers |-> 0]
        /\ got = [p \in Peers |-> <<>>]
        /\ heap = "sound"
        /\ malformed = FALSE

-----------------------------------------------------------------------------
\* webserver_connect_cb: webserver_create_client hands out the client that
\* is there already, webserver_client_add appends whatever it is given.
webserver_connect_cb(p) ==
  /\ p \notin open /\ open' = open \cup {p}
  /\ client' = IF p \in Range(list) THEN client ELSE [client EXCEPT ![p] = NoClient]
  /\ list' = Append(list, p)
  /\ sends' = [sends EXCEPT ![p] = 0]
  /\ toCome' = [toCome EXCEPT ![p] = 0]
  /\ got' = [got EXCEPT ![p] = <<>>]
  /\ UNCHANGED <<heap, malformed>>

\* webserver_disconnect_cb and webserver_recon_cb.  What the client holds
\* for its request is not freed with it.
Gone(p) ==
  /\ p \in open /\ open' = open \ {p}
  /\ list' = RemoveFirst(list, p)
  /\ client' = [client EXCEPT ![p] = NoClient]
  /\ sends' = [sends EXCEPT ![p] = 0]
  /\ toCome' = [toCome EXCEPT ![p] = 0]
  /\ UNCHANGED <<got, heap, malformed>>

-----------------------------------------------------------------------------
\* A callback for an open connection, whose client webserver_client_find finds.
Found(p) == p \in open /\ p \in Range(list)

\* webserver_cleanup_client_request of p, whose client becomes c otherwise.
Cleanup(p, c) ==
  /\ client' = [client EXCEPT ![p] =
                  [c EXCEPT !.held = IF @ = "null" THEN "null" ELSE "dangling"]]
  /\ heap' = IF client[p].held = "dangling" THEN "broken" ELSE heap

\* The API prints an answer of n bytes into its context, whatever the action.
websrv_api_request_body(c, n) == [c EXCEPT !.length = n]

\* The request is complete: a body is handed to the API, and the header is
\* sent with the length that the context says.
Respond(p, c, n) ==
  LET handled == IF c.size > 0 THEN websrv_api_request_body(c, n) ELSE c
  IN  /\ client' = [client EXCEPT ![p] =
                      [handled EXCEPT !.state = "CLIENT_RECEIVING", !.offset = 0,
                                      !.size = handled.length]]
      /\ sends' = [sends EXCEPT ![p] = @ + 1]

\* The end of webserver_handle_received, with the client c it has made of p's.
Received(p, c, n) ==
  IF c.size = c.offset
    THEN Respond(p, c, n)
    ELSE /\ client' = [client EXCEPT ![p] = c]
         /\ UNCHANGED sends

\* Peers do not pipeline: what they send next comes after TCP has reported
\* the last send.
MaySend(p) == /\ Found(p)
              /\ client[p].state = "CLIENT_IDLE" /\ sends[p] = 0

\* What the handlers know of a request before its body: the length of the
\* file, 0 when there is none; of an answer of the API, nothing yet.
websrv_file_setup_context(length) == [resource |-> "file", length |-> length, progress |-> 0]
websrv_api_setup_context == [resource |-> "api", length |-> 0, progress |-> 0]

\* webserver_receive_cb in CLIENT_IDLE: the header of a request, with the
\* first k of the size bytes of its body.
ReceiveRequest(p, context, size, k, n) ==
  /\ MaySend(p)
  /\ Received(p, [state |-> IF size > 0 THEN "CLIENT_SENDING" ELSE "CLIENT_IDLE",
                  size |-> size, offset |-> k, held |-> "live", resource |-> context.resource,
                  length |-> context.length, progress |-> context.progress], n)
  /\ toCome' = [toCome EXCEPT ![p] = size - k]
  /\ got' = [got EXCEPT ![p] = <<>>]
  /\ UNCHANGED <<list, open, heap, malformed>>

\* Only the API is sent a body, and no more of it comes behind the header
\* than the buffer holds.
Request(p) ==
  \/ \E length \in FileLengths \cup {0} :
       ReceiveRequest(p, websrv_file_setup_context(length), 0, 0, 0)
  \/ \E size \in 0..MaxRequest, n \in AnswerLengths :
       \E k \in 0..Least(size, Buf) : ReceiveRequest(p, websrv_api_setup_context, size, k, n)

\* webserver_receive_cb in CLIENT_IDLE, for a header that does not parse: the
\* cleanup is that of the request before it.
ReceiveBad(p) ==
  /\ MaySend(p)
  /\ Cleanup(p, client[p])
  /\ sends' = [sends EXCEPT ![p] = @ + 1]
  /\ got' = [got EXCEPT ![p] = <<>>]
  /\ malformed' = (malformed \/ client[p].held # "null")
  /\ UNCHANGED <<list, open, toCome>>

\* Mutant: a segment that just fits is dropped.
SegmentTight(p, k, n) ==
  /\ Found(p)
  /\ client[p].state = "CLIENT_SENDING"
  /\ k \in 1..toCome[p]
  /\ toCome' = [toCome EXCEPT ![p] = @ - k]
  /\ LET c == client[p]
     IN  Received(p, IF c.offset + k >= Buf THEN c ELSE [c EXCEPT !.offset = @ + k], n)
  /\ UNCHANGED <<list, open, got, heap, malformed>>

\* webserver_receive_cb in CLIENT_SENDING: k more bytes of the body, dropped
\* when they do not fit.
ReceiveSegment(p, k, n) ==
  /\ Found(p)
  /\ client[p].state = "CLIENT_SENDING"
  /\ k \in 1..toCome[p]
  /\ toCome' = [toCome EXCEPT ![p] = @ - k]
  /\ LET c == client[p]
     IN  Received(p, IF c.offset + k > Buf THEN c ELSE [c EXCEPT !.offset = @ + k], n)
  /\ UNCHANGED <<list, open, got, heap, malformed>>

Segment(p) == \E k \in 1..MaxRequest, n \in AnswerLengths : ReceiveSegment(p, k, n)

-----------------------------------------------------------------------------
\* Mutant: the file handler forgets its progress.
SendFirstChunk(p) ==
  LET c == client[p]
      n == Least(c.length - c.progress, Buf)
  IN  /\ client' = [client EXCEPT ![p].progress = @ + n, ![p].offset = @ + n]
      /\ got' = [got EXCEPT ![p] = @ \o Chunk(0, n)]

\* response_body_chunk and its espconn_send, which is taken to accept every
\* send: the code ignores its result.  The file handler reads on from its
\* progress; the API handler copies from the start of its answer.
SendChunk(p) ==
  LET c == client[p]
      n == Least(c.length - c.progress, Buf)
  IN  /\ client' = [client EXCEPT ![p].progress = @ + n, ![p].offset = @ + n]
      /\ got' = [got EXCEPT ![p] = @ \o Chunk(IF c.resource = "file" THEN c.progress ELSE 0, n)]

\* Mutant: the response ends when a chunk of it is left.
SentEarly(p) ==
  /\ Found(p) /\ sends[p] > 0
  /\ LET c == client[p]
     IN  IF c.size <= c.offset + Buf
           THEN /\ Cleanup(p, [c EXCEPT !.state = "CLIENT_IDLE"])
                /\ sends' = [sends EXCEPT ![p] = @ - 1]
                /\ UNCHANGED got
           ELSE SendChunk(p) /\ UNCHANGED <<sends, heap>>
  /\ UNCHANGED <<list, open, toCome, malformed>>

\* Mutant: the end of a response frees the request and leaves the state.
SentNotIdle(p) ==
  /\ Found(p) /\ sends[p] > 0
  /\ IF client[p].size = client[p].offset
       THEN /\ Cleanup(p, client[p])
            /\ sends' = [sends EXCEPT ![p] = @ - 1]
            /\ UNCHANGED got
       ELSE SendChunk(p) /\ UNCHANGED <<sends, heap>>
  /\ UNCHANGED <<list, open, toCome, malformed>>

\* Mutant: the request is freed with its last chunk as well.
SentFreesEarly(p) ==
  /\ Found(p) /\ sends[p] > 0
  /\ IF client[p].size = client[p].offset
       THEN /\ Cleanup(p, [client[p] EXCEPT !.state = "CLIENT_IDLE"])
            /\ sends' = [sends EXCEPT ![p] = @ - 1]
            /\ UNCHANGED got
       ELSE LET c == client[p]
                n == Least(c.length - c.progress, Buf)
            IN  /\ IF c.offset + n = c.size
                     THEN Cleanup(p, [c EXCEPT !.progress = @ + n, !.offset = @ + n])
                     ELSE SendChunk(p) /\ UNCHANGED heap
                /\ UNCHANGED <<sends, got>>
  /\ UNCHANGED <<list, open, toCome, malformed>>

\* webserver_sent_cb.
webserver_sent_cb(p) ==
  /\ Found(p) /\ sends[p] > 0
  /\ IF client[p].size = client[p].offset
       THEN /\ Cleanup(p, [client[p] EXCEPT !.state = "CLIENT_IDLE"])
            /\ sends' = [sends EXCEPT ![p] = @ - 1]
            /\ UNCHANGED got
       ELSE SendChunk(p) /\ UNCHANGED <<sends, heap>>
  /\ UNCHANGED <<list, open, toCome, malformed>>

\* With its heap broken the device runs on unharmed or restarts.
Restart ==
  /\ heap = "broken" /\ heap' = "sound"
  /\ list' = <<>> /\ open' = {}
  /\ client' = [p \in Peers |-> NoClient]
  /\ sends' = [p \in Peers |-> 0] /\ toCome' = [p \in Peers |-> 0]
  /\ malformed' = FALSE
  /\ UNCHANGED got

Next == \/ \E p \in Peers : \/ webserver_connect_cb(p)
                            \/ Gone(p)
                            \/ Request(p)
                            \/ ReceiveBad(p)
                            \/ Segment(p)
                            \/ webserver_sent_cb(p)
        \/ Restart

Spec == Init /\ [][Next]_vars

\* TCP reports what it was handed, and a peer sends the body it announced.
FairSpec == /\ Spec
            /\ \A p \in Peers : WF_vars(webserver_sent_cb(p)) /\ WF_vars(Segment(p))

-----------------------------------------------------------------------------
(* A client never has two sends with TCP, and a response under way always  *)
(* has the one whose report asks for its next chunk: none stalls.          *)
OneSend == \A p \in Peers : /\ sends[p] <= 1
                            /\ client[p].state = "CLIENT_RECEIVING" => sends[p] = 1
                            /\ client[p].state = "CLIENT_SENDING" => sends[p] = 0

(* The blocks of a request are freed once: cleanup leaves their pointers   *)
(* as they were, so this hangs on which callbacks follow one another.      *)
(* Only a malformed request on a connection served before frees them again.*)
HeapSound == heap = "broken" => malformed

(* What a peer receives of a file, or of an answer of a single chunk, is   *)
(* its beginning, in order and no more than the header announced.          *)
BodyInOrder ==
  \A p \in open : \/ client[p].resource = "api" /\ client[p].length > Buf
                  \/ got[p] = Chunk(0, Len(got[p])) /\ Len(got[p]) <= client[p].length

(* A response ends when all the bytes announced have been handed over: a   *)
(* client that turns idle, its connection still up, has sent them all.     *)
WholeBody == [][\A p \in open : client[p].state = "CLIENT_RECEIVING" /\ p \in open'
                   /\ client'[p].state = "CLIENT_IDLE" => Len(got[p]) = client[p].length]_vars

(* A request whose body fits in the buffer is answered to the end, unless  *)
(* the connection goes.                                                    *)
Answered == \A p \in Peers :
  (client[p].state # "CLIENT_IDLE" /\ (client[p].state = "CLIENT_SENDING" => client[p].size <= Buf))
    ~> (client[p].state = "CLIENT_IDLE")
=============================================================================
