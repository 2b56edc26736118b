-------------------------------- MODULE Upgrade --------------------------------
(***************************************************************************)
(* The upgrade over the air: src/upgrade/flashget.c downloads an image in  *)
(* chunks, and src/upgrade/upgrade.c writes it to the slot of the next     *)
(* firmware and flags the slot for the boot loader.  A publication on the  *)
(* upgrade topic announces an image, at any time and any number of times;  *)
(* each announcement downloads over a connection of its own into the one   *)
(* slot there is.  Resolver, TCP, server, flash, power and boot loader are *)
(* the environment.                                                        *)
(***************************************************************************)
EXTENDS Integers, FiniteSets

CONSTANTS
  Downloads,           \* names for the contexts that may be allocated at once
  ImageLen,            \* length of the image on the server
  Chunk,               \* HTTP_CHUNK_SIZE
  MaxAnnouncements     \* bound: calls of upgrade_available

ASSUME LengthAssumption == /\ ImageLen \in Nat \ {0} /\ Chunk \in Nat \ {0}
                           /\ MaxAnnouncements \in Nat

VARIABLES
  running,             \* the device has booted and has power
  conn,                \* what the connection of a context is doing
  ctx,                 \* the context of a download
  response,            \* what the server has yet to send in answer to its request
  slot,                \* what each byte of the slot at NEW_ROM_START holds
  flagged,             \* new_rom_addr of the boot configuration names the slot
  announced,           \* history: how many images were announced
  trouble              \* history: what went wrong since a download had the slot to itself

vars == <<running, conn, ctx, response, slot, flagged, announced, trouble>>

Conn == {"free", "lookup", "opening", "open"}
State == {"METADATA", "TRANSFER_HEADER", "TRANSFER_BODY", "CANCEL"}
Live == {d \in Downloads : conn[d] # "free"}

\* state, flash_len, flash_pos, http_chunk_length and http_buffered_progress.
\* Positions past the image are one.
Position == 0..ImageLen + 1
Context == [state : State, len : Position, pos : Position,
            length : Position, progress : Position]
NoContext == [state |-> "METADATA", len |-> 0, pos |-> 0, length |-> 0, progress |-> 0]

\* The header under way, and the bytes next..upto - 1 of the image behind it.
\* Behind a header that was misread anything may come as anything: the rest of
\* the header, the body, a second response.
Response == [header : BOOLEAN, next : Position, upto : Position, misread : BOOLEAN]
NoResponse == [header |-> FALSE, next |-> 0, upto |-> 0, misread |-> FALSE]
Misread == [header |-> FALSE, next |-> 0, upto |-> 0, misread |-> TRUE]

\* A byte of the slot is named by its place in the image.
Erased == -1
Wrong == -2
Byte == -2..ImageLen - 1
Slot == 0..ImageLen - 1
Whole == \A i \in Slot : slot[i] = i

\* No answer or connection, no power, another download in the slot; a header
\* not understood, body dropped behind one; a failed flash operation.
Trouble == {"network", "power", "overlap", "misread", "dropped", "erase", "write", "boot"}
Clean == trouble \cap {"overlap", "misread", "write"} = {}

Least(a, b) == IF a < b THEN a ELSE b
Saturate(n) == Least(n, ImageLen + 1)

-----------------------------------------------------------------------------
\* The slot is blank or holds another firmware.
Init == /\ running = TRUE /\ flagged = FALSE
        /\ conn = [d \in Downloads |-> "free"]
        /\ ctx = [d \in Downloads |-> NoContext]
        /\ response = [d \in Downloads |-> NoResponse]
        /\ \E old \in {Erased, Wrong} : slot = [i \in Slot |-> old]
        /\ announced = 0 /\ trouble = {}

Hit(what) == trouble' = trouble \cup what
FlashStays == UNCHANGED <<running, slot, flagged, announced>>

\* The connection says nothing more.  free_context, or a connection that is
\* lost: there is no callback for that, and the context is never freed, nor
\* read again.
Ended(d) == /\ conn' = [conn EXCEPT ![d] = "free"]
            /\ ctx' = [ctx EXCEPT ![d] = NoContext]
            /\ response' = [response EXCEPT ![d] = NoResponse]
AllEnded == /\ conn' = [d \in Downloads |-> "free"]
            /\ ctx' = [d \in Downloads |-> NoContext]
            /\ response' = [d \in Downloads |-> NoResponse]

\* upgrade_available, called for a publication on the upgrade topic.  The
\* result of espconn_gethostbyname is ignored: an answer from the cache calls
\* nobody back.
upgrade_available(d) ==
  /\ running /\ conn[d] = "free"
  /\ announced < MaxAnnouncements /\ announced' = announced + 1
  /\ LET before == IF Live = {} /\ ~flagged THEN {} ELSE trouble \cup {"overlap"}
     IN \/ conn' = [conn EXCEPT ![d] = "lookup"] /\ trouble' = before
        \/ trouble' = before \cup {"network"} /\ UNCHANGED conn
  /\ UNCHANGED <<running, ctx, response, slot, flagged>>

\* Power is lost, or the program reads an address it must not read.
Down(why) ==
  /\ running /\ running' = FALSE
  /\ AllEnded /\ Hit(why)
  /\ UNCHANGED <<slot, flagged, announced>>

\* dns_cb with the address of the host, with address 0, or with no address:
\* it reads through a null pointer.
dns_cb(d) ==
  /\ running /\ conn[d] = "lookup"
  /\ \/ /\ conn' = [conn EXCEPT ![d] = "opening"]
        /\ FlashStays /\ UNCHANGED <<ctx, response, trouble>>
     \/ Ended(d) /\ Hit({"network"}) /\ FlashStays
     \/ Down({"network"})

\* connected_cb: asks for the header of the image alone.
connected_cb(d) ==
  /\ running /\ conn[d] = "opening"
  /\ conn' = [conn EXCEPT ![d] = "open"]
  /\ response' = [response EXCEPT ![d].header = TRUE]
  /\ FlashStays /\ UNCHANGED <<ctx, trouble>>

\* The connection is refused, lost or closed, or espconn_send took no request.
ConnectionLost(d) ==
  /\ running /\ conn[d] \in {"opening", "open"}
  /\ Ended(d) /\ Hit({"network"}) /\ FlashStays

-----------------------------------------------------------------------------
(* receive_cb.                                                             *)

\* The end of the range a context asks for.
RangeEnd(c) == Least(c.pos + Chunk, c.len)

\* send_chunk_request for context c; when espconn_send takes no request the
\* context is freed.  The server answers with the range that was asked for,
\* and nothing arrives on a connection that was closed.
Request(d, c, misread, hits) ==
  \/ /\ ctx' = [ctx EXCEPT ![d] = [c EXCEPT !.state = "TRANSFER_HEADER"]]
     /\ response' = [response EXCEPT ![d] =
          IF misread THEN Misread
          ELSE [header |-> TRUE, next |-> c.pos, upto |-> Saturate(RangeEnd(c)), misread |-> FALSE]]
     /\ Hit(hits) /\ UNCHANGED conn
  \/ Ended(d) /\ Hit(hits \cup {"network"})

\* What http_parse_response_header may find in the next segment, and the
\* response after it: the length, and n bytes of body behind the header,
\* which the caller drops; or, in a header that is cut or has a line of 126
\* bytes or more, no error and a length left to the stack.
Headers(r, length) ==
  IF r.header /\ ~r.misread
  THEN {[length |-> length, hits |-> IF n = 0 THEN {} ELSE {"dropped"},
         rest |-> [r EXCEPT !.header = FALSE, !.next = @ + n]] : n \in 0..r.upto - r.next}
       \cup {[length |-> any, hits |-> {"misread"},
              rest |-> Misread] : any \in Position}
  ELSE {[length |-> any, hits |-> {"misread"}, rest |-> r] : any \in {p \in Position : r.misread}}

\* The sectors that hold the first bytes of the slot are erased.
Erase(length) == [i \in Slot |-> IF i < length THEN Erased ELSE slot[i]]

\* FLASHGET_METADATA, with flash_download_new_rom_size.  After a failed erase
\* nothing more is asked of the server.
Metadata(d) ==
  /\ ctx[d].state = "METADATA"
  /\ \E h \in Headers(response[d], ImageLen) :
       \/ /\ slot' = Erase(h.length)
          /\ Request(d, [NoContext EXCEPT !.len = h.length], h.rest.misread, h.hits)
       \/ /\ \E n \in 0..h.length : slot' = Erase(n)
          /\ response' = [response EXCEPT ![d] = h.rest]
          /\ Hit(h.hits \cup {"erase"})
          /\ UNCHANGED <<conn, ctx>>
  /\ UNCHANGED <<running, flagged>>

\* Mutant: the end of the header counts as body.
TransferHeaderCounted(d) ==
  /\ ctx[d].state = "TRANSFER_HEADER"
  /\ \E h \in Headers(response[d], response[d].upto - response[d].next) :
       /\ ctx' = [ctx EXCEPT ![d].state = "TRANSFER_BODY",
                             ![d].length = h.length + 1, ![d].progress = 0]
       /\ response' = [response EXCEPT ![d] = h.rest]
       /\ Hit(h.hits)
  /\ UNCHANGED <<running, conn, slot, flagged>>

\* FLASHGET_TRANSFER_HEADER.
TransferHeader(d) ==
  /\ ctx[d].state = "TRANSFER_HEADER"
  /\ \E h \in Headers(response[d], response[d].upto - response[d].next) :
       /\ ctx' = [ctx EXCEPT ![d].state = "TRANSFER_BODY",
                             ![d].length = h.length, ![d].progress = 0]
       /\ response' = [response EXCEPT ![d] = h.rest]
       /\ Hit(h.hits)
  /\ UNCHANGED <<running, conn, slot, flagged>>

\* The n bytes of a segment of body, written where the context stands: flash
\* that is not erased does not take them.
Written(c, r, n) ==
  [i \in Slot |->
     IF i \notin c.pos..c.pos + n - 1 THEN slot[i]
     ELSE LET byte == IF r.misread THEN Wrong ELSE r.next + i - c.pos
          IN IF slot[i] \in {Erased, byte} THEN byte ELSE Wrong]

\* Mutant: the new position counts the chunk that was asked for.
AdvanceChunk(c, n) == [c EXCEPT !.pos = Saturate(@ + c.length), !.progress = Saturate(@ + n)]

Advance(c, n) == [c EXCEPT !.pos = Saturate(@ + n), !.progress = Saturate(@ + n)]

\* flash_download_complete.  flag_bootloader_new_rom returns no value when it
\* succeeds, so the device restarts or it does not.
Complete(d, hits) ==
  \/ flagged' = TRUE /\ Ended(d) /\ Hit(hits) /\ UNCHANGED running
  \/ /\ flagged' = TRUE /\ running' = FALSE
     /\ AllEnded /\ Hit(hits)
  \/ /\ flagged' \in {flagged, FALSE}
     /\ Ended(d) /\ Hit(hits \cup {"boot"}) /\ UNCHANGED running

\* FLASHGET_TRANSFER_BODY, with flash_download_data_chunk, which takes back
\* the error of a write that failed.
TransferBody(d) ==
  LET r == response[d]
      c == ctx[d]
  IN /\ c.state = "TRANSFER_BODY"
     /\ \E n \in 1..Chunk, hits \in {{}, {"write"}} :
          /\ r.misread \/ n <= r.upto - r.next
          /\ slot' = Written(c, r, n) \/ (hits # {} /\ UNCHANGED slot)
          /\ LET after == Advance(c, n)
                 rest == IF r.misread THEN r ELSE [r EXCEPT !.next = @ + n]
             IN \/ /\ after.pos = c.len
                   /\ Complete(d, hits)
                \/ /\ after.pos # c.len /\ after.progress = c.length
                   /\ Request(d, after, r.misread, hits)
                   /\ UNCHANGED <<running, flagged>>
                \/ /\ after.pos # c.len /\ after.progress # c.length
                   /\ ctx' = [ctx EXCEPT ![d] = after] /\ response' = [response EXCEPT ![d] = rest]
                   /\ Hit(hits)
                   /\ UNCHANGED <<running, conn, flagged>>

receive_cb(d) ==
  /\ running /\ conn[d] = "open"
  /\ Metadata(d) \/ TransferHeader(d) \/ TransferBody(d)
  /\ UNCHANGED announced

-----------------------------------------------------------------------------
PowerLoss == Down({"power"})

\* The boot loader takes the flagged slot for the firmware.
Boot ==
  /\ ~running /\ running' = TRUE
  /\ flagged' = FALSE
  /\ UNCHANGED <<conn, ctx, response, slot, announced, trouble>>

Next == \/ PowerLoss \/ Boot
        \/ \E d \in Downloads : \/ upgrade_available(d) \/ dns_cb(d) \/ connected_cb(d)
                                \/ receive_cb(d) \/ ConnectionLost(d)

Spec == Init /\ [][Next]_vars

\* The resolver answers, TCP connects or gives up, and the server sends what
\* it was asked for.
FairSpec ==
  /\ Spec
  /\ \A d \in Downloads : /\ WF_vars(dns_cb(d))
                          /\ WF_vars(connected_cb(d))
                          /\ WF_vars(receive_cb(d))

-----------------------------------------------------------------------------
(* Type correctness.                                                       *)
TypeOK == /\ running \in BOOLEAN /\ flagged \in BOOLEAN
          /\ conn \in [Downloads -> Conn]
          /\ ctx \in [Downloads -> Context]
          /\ response \in [Downloads -> Response]
          /\ slot \in [Slot -> Byte]
          /\ announced \in 0..MaxAnnouncements
          /\ trouble \subseteq Trouble

(* Only a whole image is activated: with the slot to itself, its headers   *)
(* understood and its writes done, a download that flags the slot has left *)
(* the image in it, wherever segments are cut, bytes dropped, connections  *)
(* lost or power cut before.                                               *)
ActivatedIsWhole == flagged /\ Clean => Whole

(* The download of an announced image comes to its end: it flags the slot, *)
(* unless something goes wrong.                                            *)
Completes == \A d \in Downloads : conn[d] = "lookup" ~> flagged \/ trouble # {}
=============================================================================
