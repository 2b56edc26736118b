----------------------------- MODULE UpgradeProofs -----------------------------
(***************************************************************************)
(* Only a whole image is activated, for every image, chunk and number of   *)
(* downloads.                                                              *)
(***************************************************************************)
EXTENDS Upgrade, TLAPS

\* What is still to come of a chunk is what the context still waits for ...
InStep(c, r) == r.next = c.pos /\ r.upto - r.next = c.length - c.progress

\* ... or less than that, because bytes were dropped: the context then never
\* comes to the end of the chunk, let alone of the image.
Lags(c, r) == /\ c.pos + (r.upto - r.next) < c.len
              /\ c.progress + (r.upto - r.next) < c.length

Fits(c, r) ==
  /\ c.state # "CANCEL"
  /\ r.next <= r.upto /\ r.upto <= ImageLen
  /\ c.state = "METADATA" => r.upto = 0
  /\ c.state # "METADATA" => c.len = ImageLen /\ c.pos < c.len
  /\ c.state = "TRANSFER_HEADER" => r.header /\ r.next = c.pos
  /\ c.state = "TRANSFER_BODY" => ~r.header /\ (InStep(c, r) \/ Lags(c, r))

Contexts == \A d \in Downloads :
  /\ conn[d] # "open" => ctx[d] = NoContext /\ response[d] = NoResponse
  /\ response[d].misread \/ Fits(ctx[d], response[d])

\* The slot holds the image up to a position, and is erased from there on.
FilledTo(pos) == \A i \in Slot : slot[i] = IF i < pos THEN i ELSE Erased

\* A context that has asked for a chunk, and lags behind nothing.
Filling(c, r) == \/ c.state = "TRANSFER_HEADER"
                 \/ c.state = "TRANSFER_BODY" /\ InStep(c, r)

\* As long as no trouble spoils the slot there is one download, and the slot
\* is as full as it thinks.
Alone ==
  /\ flagged => Whole /\ Live = {}
  /\ \A d, e \in Live : d = e
  /\ \A d \in Live : /\ ~response[d].misread
                     /\ Filling(ctx[d], response[d]) => FilledTo(ctx[d].pos)

IInv == TypeOK /\ Contexts /\ (Clean => Alone)

-----------------------------------------------------------------------------
(* The first state has no download.                                        *)
LEMMA Initial == Init => IInv
<1> SUFFICES ASSUME Init PROVE IInv
  OBVIOUS
<1> USE LengthAssumption
<1>1. NoContext \in Context /\ NoResponse \in Response
  BY DEF NoContext, Context, NoResponse, Response, State, Position
<1>2. running \in BOOLEAN /\ flagged \in BOOLEAN
  BY Zenon DEF Init
<1>3. slot \in [Slot -> Byte]
  BY DEF Init, Slot, Byte, Erased, Wrong
<1>4. TypeOK
  BY <1>1, <1>2, <1>3 DEF Init, TypeOK, Conn
<1>5. Fits(NoContext, NoResponse)
  BY DEF Fits, NoContext, NoResponse
<1>6. Contexts
  BY <1>5 DEF Init, Contexts
<1>7. Alone
  BY DEF Init, Alone, Live
<1> QED
  BY <1>4, <1>6, <1>7 DEF IInv

(* A download that ends leaves the rest as it was: flash that is written   *)
(* besides must be a whole image, or nobody may count on it.               *)
LEMMA EndKeeps ==
  ASSUME IInv, NEW d \in Downloads, conn[d] # "free", Ended(d),
         running' \in BOOLEAN, flagged' \in BOOLEAN, slot' \in [Slot -> Byte],
         UNCHANGED announced,
         NEW hits \in SUBSET Trouble, Hit(hits),
         Clean' => (flagged' => Whole')
  PROVE  IInv'
<1> USE LengthAssumption
<1>1. NoContext \in Context /\ NoResponse \in Response /\ Fits(NoContext, NoResponse)
  BY DEF NoContext, Context, NoResponse, Response, State, Position, Fits
<1>2. TypeOK'
  BY <1>1 DEF IInv, TypeOK, Ended, Hit, Conn
<1>3. Contexts'
  BY <1>1 DEF IInv, TypeOK, Ended, Contexts
<1>4. ASSUME Clean' PROVE Alone'
  <2>1. Clean /\ Alone
    BY <1>4 DEF Clean, Hit, IInv
  <2>2. Live = {d}
    BY <2>1 DEF Alone, Live
  <2>3. Live' = {}
    BY <2>2 DEF Live, Ended, IInv, TypeOK
  <2> QED
    BY <1>4, <2>3 DEF Alone
<1> QED
  BY <1>2, <1>3, <1>4 DEF IInv

(* A context that goes on and its response may change together.            *)
LEMMA GoOnKeeps ==
  ASSUME IInv, NEW d \in Downloads, conn[d] = "open",
         NEW c \in Context, NEW r \in Response, r.misread \/ Fits(c, r),
         ctx' = [ctx EXCEPT ![d] = c], response' = [response EXCEPT ![d] = r],
         UNCHANGED <<running, conn, flagged, announced>>, slot' \in [Slot -> Byte],
         NEW hits \in SUBSET Trouble, Hit(hits),
         Clean' => ~r.misread /\ (Filling(c, r) => FilledTo(c.pos)')
  PROVE  IInv'
<1> USE LengthAssumption
<1>1. TypeOK'
  BY DEF IInv, TypeOK, Hit
<1>2. Contexts'
  BY DEF IInv, TypeOK, Contexts
<1>3. ASSUME Clean' PROVE Alone'
  <2>1. Clean /\ Alone
    BY <1>3 DEF Clean, Hit, IInv
  <2>2. Live = {d} /\ Live' = {d} /\ ~flagged
    BY <2>1 DEF Alone, Live
  <2>3. ctx'[d] = c /\ response'[d] = r
    BY DEF IInv, TypeOK
  <2> QED
    BY <1>3, <2>2, <2>3 DEF Alone
<1> QED
  BY <1>1, <1>2, <1>3 DEF IInv

-----------------------------------------------------------------------------
LEMMA Numbers ==
  /\ \A n \in Nat : Saturate(n) \in Position
  /\ \A n \in Position : Saturate(n) = n
  /\ \A c \in Context : RangeEnd(c) \in Nat /\ RangeEnd(c) <= c.len
BY LengthAssumption DEF Saturate, Least, Position, RangeEnd, Context

(* Every header, understood or not, has a length and leaves a response.    *)
LEMMA HeaderOutcomes ==
  ASSUME NEW r \in Response, NEW true, NEW h \in Headers(r, true),
         r.misread \/ (true \in Position /\ r.next <= r.upto)
  PROVE  /\ h.length \in Position /\ h.hits \in SUBSET Trouble /\ h.rest \in Response
         /\ \/ h.rest.misread /\ "misread" \in h.hits
            \/ /\ ~r.misread /\ ~h.rest.misread /\ ~h.rest.header /\ r.header
               /\ h.length = true
               /\ h.rest.next \in r.next..r.upto /\ h.rest.upto = r.upto
<1> USE LengthAssumption
<1>1. Misread \in Response /\ Misread.misread
  BY DEF Misread, Response, Position
<1>2. CASE r.header /\ ~r.misread
  <2>1. ASSUME NEW n \in 0..r.upto - r.next,
               h = [length |-> true, hits |-> IF n = 0 THEN {} ELSE {"dropped"},
                    rest |-> [r EXCEPT !.header = FALSE, !.next = @ + n]]
        PROVE  /\ h.length = true /\ h.hits \in SUBSET Trouble /\ h.rest \in Response
               /\ ~h.rest.misread /\ ~h.rest.header
               /\ h.rest.next \in r.next..r.upto /\ h.rest.upto = r.upto
    <3> DEFINE rest == [header |-> FALSE, next |-> r.next + n, upto |-> r.upto, misread |-> FALSE]
    <3>1. r.next \in Nat /\ r.upto \in Position /\ r.next + n \in r.next..r.upto
      BY <1>2, <2>1 DEF Response, Position
    <3>2. rest \in Response
      BY <3>1 DEF Response, Position
    <3>3. h.rest = rest
      BY <1>2, <2>1 DEF Response
    <3>4. h.hits \in SUBSET Trouble
      BY <2>1 DEF Trouble
    <3> QED
      BY <2>1, <3>1, <3>2, <3>3, <3>4
  <2>2. ASSUME NEW any \in Position,
               h = [length |-> any, hits |-> {"misread"}, rest |-> Misread]
        PROVE  /\ h.length \in Position /\ h.hits \in SUBSET Trouble /\ h.rest \in Response
               /\ h.rest.misread /\ "misread" \in h.hits
    BY <1>1, <2>2 DEF Trouble
  <2> QED
    BY <1>2, <2>1, <2>2 DEF Headers
<1>3. CASE ~(r.header /\ ~r.misread)
  <2>1. PICK any \in {p \in Position : r.misread} :
               h = [length |-> any, hits |-> {"misread"}, rest |-> r]
    BY <1>3 DEF Headers
  <2> QED
    BY <2>1 DEF Trouble
<1> QED
  BY <1>2, <1>3

(* A request that finds the slot filled up to its position keeps it so.    *)
LEMMA RequestKeeps ==
  ASSUME IInv, NEW d \in Downloads, conn[d] = "open",
         NEW c \in Context, NEW misread \in BOOLEAN,
         misread \/ (c.len = ImageLen /\ c.pos < c.len),
         NEW hits \in SUBSET Trouble, Request(d, c, misread, hits),
         UNCHANGED <<running, flagged, announced>>, slot' \in [Slot -> Byte],
         Clean' => ~misread /\ FilledTo(c.pos)'
  PROVE  IInv'
<1> USE LengthAssumption
<1>1. CASE Ended(d) /\ Hit(hits \cup {"network"})
  <2>1. Clean' => ~flagged
    BY <1>1 DEF Clean, Hit, IInv, Alone, Live
  <2> QED
    BY <1>1, <2>1, EndKeeps DEF Trouble, IInv, TypeOK
<1>2. CASE ~Ended(d) \/ ~Hit(hits \cup {"network"})
  <2> DEFINE next == [c EXCEPT !.state = "TRANSFER_HEADER"]
             asked == IF misread THEN Misread
                      ELSE [header |-> TRUE, next |-> c.pos, upto |-> Saturate(RangeEnd(c)),
                            misread |-> FALSE]
  <2>1. next \in Context /\ next.len = c.len /\ next.pos = c.pos /\ next.state = "TRANSFER_HEADER"
    BY DEF Context, State
  <2>2. asked \in Response
    <3>1. Saturate(RangeEnd(c)) \in Position /\ c.pos \in Position
      BY Numbers DEF Context
    <3>2. CASE misread
      BY <3>2 DEF Misread, Response, Position
    <3>3. CASE ~misread
      BY <3>1, <3>3 DEF Response
    <3> QED
      BY <3>2, <3>3
  <2>3. asked.misread = misread
    BY DEF Misread
  <2>4. ASSUME ~misread PROVE Fits(next, asked)
    <3>1. /\ c.pos \in Nat /\ RangeEnd(c) \in Nat
          /\ RangeEnd(c) > c.pos /\ RangeEnd(c) <= ImageLen
      BY <2>4 DEF RangeEnd, Least, Context, Position
    <3>2. Saturate(RangeEnd(c)) = RangeEnd(c)
      BY <3>1, Numbers DEF Position
    <3>3. asked.header = TRUE /\ asked.next = c.pos /\ asked.upto = RangeEnd(c)
      BY <2>4, <3>2
    <3> HIDE DEF next, asked
    <3> QED
      BY <2>1, <2>4, <3>1, <3>3 DEF Fits
  <2>5. /\ ctx' = [ctx EXCEPT ![d] = next] /\ response' = [response EXCEPT ![d] = asked]
        /\ Hit(hits) /\ UNCHANGED conn
    BY <1>2 DEF Request
  <2>6. Filling(next, asked) => next.pos = c.pos
    BY <2>1
  <2> HIDE DEF next, asked
  <2> QED
    BY <2>1, <2>2, <2>3, <2>4, <2>5, GoOnKeeps
<1> QED
  BY <1>1, <1>2

-----------------------------------------------------------------------------
(* The slot is erased before anything is asked for.                        *)
LEMMA MetadataKeeps ==
  ASSUME IInv, NEW d \in Downloads, conn[d] = "open", Metadata(d), UNCHANGED announced
  PROVE  IInv'
<1> USE LengthAssumption
<1> DEFINE r == response[d]
<1>1. r \in Response /\ ctx[d] \in Context /\ (r.misread \/ Fits(ctx[d], r))
  BY DEF IInv, TypeOK, Contexts
<1>2. ImageLen \in Position
  BY DEF Position
<1>3. PICK h \in Headers(r, ImageLen) :
        \/ /\ slot' = Erase(h.length)
           /\ Request(d, [NoContext EXCEPT !.len = h.length], h.rest.misread, h.hits)
        \/ /\ \E n \in 0..h.length : slot' = Erase(n)
           /\ response' = [response EXCEPT ![d] = h.rest]
           /\ Hit(h.hits \cup {"erase"})
           /\ UNCHANGED <<conn, ctx>>
  BY DEF Metadata
<1>4. /\ h.length \in Position /\ h.hits \in SUBSET Trouble /\ h.rest \in Response
      /\ \/ h.rest.misread /\ "misread" \in h.hits
         \/ /\ ~r.misread /\ ~h.rest.misread /\ ~h.rest.header /\ r.header
            /\ h.length = ImageLen
            /\ h.rest.next \in r.next..r.upto /\ h.rest.upto = r.upto
  BY <1>1, <1>2, HeaderOutcomes DEF Fits
<1>5. slot' \in [Slot -> Byte]
  BY <1>3, <1>4 DEF Erase, IInv, TypeOK, Byte, Erased
<1>6. UNCHANGED <<running, flagged>> /\ ctx[d].state = "METADATA"
  BY DEF Metadata
<1>7. CASE /\ slot' = Erase(h.length)
           /\ Request(d, [NoContext EXCEPT !.len = h.length], h.rest.misread, h.hits)
  <2> DEFINE c == [NoContext EXCEPT !.len = h.length]
  <2>1. c \in Context /\ c.len = h.length /\ c.pos = 0
    BY <1>4 DEF NoContext, Context, State, Position
  <2>2. Clean' => "misread" \notin h.hits
    BY <1>7 DEF Request, Clean, Hit
  <2>3. Clean' => h.length = ImageLen
    BY <1>4, <2>2
  <2>4. h.length = ImageLen => FilledTo(0)'
    BY <1>7 DEF FilledTo, Erase, Slot
  <2>5. h.rest.misread \in BOOLEAN
    BY <1>4 DEF Response
  <2>6. h.rest.misread \/ (c.len = ImageLen /\ c.pos < c.len)
    BY <1>4, <2>1
  <2>7. Clean' => ~h.rest.misread /\ FilledTo(c.pos)'
    BY <1>4, <2>1, <2>2, <2>3, <2>4
  <2> HIDE DEF c
  <2> QED
    BY <1>4, <1>5, <1>6, <1>7, <2>1, <2>5, <2>6, <2>7, RequestKeeps DEF c
<1>8. CASE /\ response' = [response EXCEPT ![d] = h.rest]
           /\ Hit(h.hits \cup {"erase"})
           /\ UNCHANGED <<conn, ctx>>
  <2>1. ~h.rest.misread => Fits(ctx[d], h.rest)
    BY <1>1, <1>4, <1>6 DEF Fits, Response, Position
  <2>2. ctx' = [ctx EXCEPT ![d] = ctx[d]]
    BY <1>8 DEF IInv, TypeOK
  <2>3. Clean' => ~h.rest.misread
    BY <1>4, <1>8 DEF Clean, Hit
  <2>4. ~Filling(ctx[d], h.rest)
    BY <1>6 DEF Filling
  <2>5. h.hits \cup {"erase"} \in SUBSET Trouble
    BY <1>4 DEF Trouble
  <2> QED
    BY <1>1, <1>4, <1>5, <1>6, <1>8, <2>1, <2>2, <2>3, <2>4, <2>5, GoOnKeeps
<1> QED
  BY <1>3, <1>7, <1>8

(* What is dropped behind a header is missed for good.                     *)
LEMMA HeaderKeeps ==
  ASSUME IInv, NEW d \in Downloads, conn[d] = "open", TransferHeader(d), UNCHANGED announced
  PROVE  IInv'
<1> USE LengthAssumption
<1>0. PICK c \in Context, r \in Response : c = ctx[d] /\ r = response[d]
  BY DEF IInv, TypeOK
<1>1. (r.misread \/ Fits(c, r)) /\ c.state = "TRANSFER_HEADER"
  BY <1>0 DEF IInv, Contexts, TransferHeader
<1>2. PICK h \in Headers(r, r.upto - r.next) :
        /\ ctx' = [ctx EXCEPT ![d].state = "TRANSFER_BODY",
                              ![d].length = h.length, ![d].progress = 0]
        /\ response' = [response EXCEPT ![d] = h.rest]
        /\ Hit(h.hits)
  BY <1>0 DEF TransferHeader
<1>3. UNCHANGED <<running, conn, slot, flagged>>
  BY DEF TransferHeader
<1>4. r.misread \/ (r.upto - r.next \in Position /\ r.next <= r.upto)
  BY <1>1 DEF Fits, Response, Position
<1>5. /\ h.length \in Position /\ h.hits \in SUBSET Trouble /\ h.rest \in Response
      /\ \/ h.rest.misread /\ "misread" \in h.hits
         \/ /\ ~r.misread /\ ~h.rest.misread /\ ~h.rest.header /\ r.header
            /\ h.length = r.upto - r.next
            /\ h.rest.next \in r.next..r.upto /\ h.rest.upto = r.upto
  BY <1>1, <1>4, HeaderOutcomes
<1> DEFINE body == [c EXCEPT !.state = "TRANSFER_BODY", !.length = h.length, !.progress = 0]
<1>6. body \in Context
  <2>1. [c EXCEPT !.state = "TRANSFER_BODY"] \in Context
    BY DEF Context, State
  <2>2. [c EXCEPT !.state = "TRANSFER_BODY", !.length = h.length] \in Context
    BY <1>5, <2>1 DEF Context
  <2>3. 0 \in Position
    BY DEF Position
  <2> QED
    BY <2>2, <2>3 DEF Context
<1>7. ctx' = [ctx EXCEPT ![d] = body]
  BY <1>0, <1>2 DEF IInv, TypeOK, Context
<1>8. /\ body.state = "TRANSFER_BODY" /\ body.length = h.length /\ body.progress = 0
      /\ body.pos = c.pos /\ body.len = c.len
  BY DEF Context
<1> HIDE DEF body
<1>9. ASSUME ~h.rest.misread PROVE Fits(body, h.rest)
  <2>1. Fits(c, r)
    BY <1>1, <1>5, <1>9
  <2>2. /\ r.next = c.pos /\ c.len = ImageLen /\ c.pos < c.len /\ r.upto <= ImageLen
        /\ r.next \in Nat /\ r.upto \in Nat /\ h.rest.next \in Nat
    BY <1>1, <1>5, <2>1 DEF Fits, Response, Position
  <2>3. InStep(body, h.rest) \/ Lags(body, h.rest)
    BY <1>5, <1>8, <1>9, <2>2 DEF InStep, Lags
  <2> QED
    BY <1>5, <1>8, <1>9, <2>2, <2>3 DEF Fits
<1>10. Clean' => ~h.rest.misread /\ FilledTo(body.pos)'
  <2> SUFFICES ASSUME Clean' PROVE ~h.rest.misread /\ FilledTo(body.pos)'
    OBVIOUS
  <2>1. Clean /\ "misread" \notin h.hits
    BY <1>2 DEF Clean, Hit
  <2>2. d \in Live
    BY DEF Live
  <2>3. FilledTo(c.pos)
    BY <1>0, <1>1, <2>1, <2>2 DEF IInv, Alone, Filling
  <2> QED
    BY <1>3, <1>5, <1>8, <2>1, <2>3 DEF FilledTo
<1>11. slot' \in [Slot -> Byte]
  BY <1>3 DEF IInv, TypeOK
<1> QED
  BY <1>2, <1>3, <1>5, <1>6, <1>7, <1>9, <1>10, <1>11, GoOnKeeps

-----------------------------------------------------------------------------
(* When the device goes down no download is left.                          *)
LEMMA AllEndKeeps ==
  ASSUME IInv, AllEnded, running' \in BOOLEAN, flagged' \in BOOLEAN,
         slot' \in [Slot -> Byte], UNCHANGED announced,
         NEW hits \in SUBSET Trouble, Hit(hits),
         Clean' => (flagged' => Whole')
  PROVE  IInv'
<1> USE LengthAssumption
<1>1. NoContext \in Context /\ NoResponse \in Response /\ Fits(NoContext, NoResponse)
  BY DEF NoContext, Context, NoResponse, Response, State, Position, Fits
<1>2. TypeOK'
  BY <1>1 DEF IInv, TypeOK, AllEnded, Hit, Conn
<1>3. Contexts'
  BY <1>1 DEF AllEnded, Contexts
<1>4. Live' = {}
  BY DEF Live, AllEnded
<1> QED
  BY <1>2, <1>3, <1>4 DEF IInv, Alone

(* A segment of the image is written where the image has got to.           *)
LEMMA WriteFills ==
  ASSUME NEW c \in Context, NEW r \in Response, NEW n \in Nat,
         ~r.misread, r.next = c.pos, FilledTo(c.pos), slot' = Written(c, r, n)
  PROVE  FilledTo(c.pos + n)'
<1> USE LengthAssumption
<1>1. c.pos \in Nat
  BY DEF Context, Position
<1>2. ASSUME NEW i \in Slot PROVE slot'[i] = IF i < c.pos + n THEN i ELSE Erased
  <2>1. i \in Nat /\ slot[i] = IF i < c.pos THEN i ELSE Erased
    BY DEF FilledTo, Slot
  <2>2. i \in c.pos..c.pos + n - 1 <=> c.pos <= i /\ i < c.pos + n
    BY <1>1, <2>1
  <2>3. slot'[i] = IF i \notin c.pos..c.pos + n - 1 THEN slot[i]
                   ELSE IF slot[i] \in {Erased, i} THEN i ELSE Wrong
    BY <1>1, <2>1 DEF Written
  <2>4. CASE i < c.pos
    BY <1>1, <2>1, <2>2, <2>3, <2>4
  <2>5. CASE c.pos <= i /\ i < c.pos + n
    <3>1. slot[i] = Erased /\ i \in c.pos..c.pos + n - 1
      BY <1>1, <2>1, <2>2, <2>5
    <3> QED
      BY <2>3, <2>5, <3>1
  <2>6. CASE c.pos + n <= i
    <3>1. slot[i] = Erased /\ i \notin c.pos..c.pos + n - 1 /\ ~(i < c.pos + n)
      BY <1>1, <2>1, <2>2, <2>6
    <3> QED
      BY <2>3, <3>1
  <2> QED
    BY <1>1, <2>1, <2>4, <2>5, <2>6
<1> QED
  BY <1>2 DEF FilledTo

(* A segment written at the end of the image completes it, and one at the  *)
(* end of a chunk is followed by the next; a context that lags comes to    *)
(* neither.                                                                *)
LEMMA BodyKeeps ==
  ASSUME IInv, NEW d \in Downloads, conn[d] = "open", TransferBody(d), UNCHANGED announced
  PROVE  IInv'
<1> USE LengthAssumption
<1>1. PICK c \in Context, r \in Response : c = ctx[d] /\ r = response[d]
  BY DEF IInv, TypeOK
<1>2. (r.misread \/ Fits(c, r)) /\ c.state = "TRANSFER_BODY"
  BY <1>1 DEF IInv, Contexts, TransferBody
<1> DEFINE rest(n) == IF r.misread THEN r ELSE [r EXCEPT !.next = @ + n]
<1>3. PICK n \in 1..Chunk, hits \in {{}, {"write"}} :
        /\ r.misread \/ n <= r.upto - r.next
        /\ slot' = Written(c, r, n) \/ (hits # {} /\ UNCHANGED slot)
        /\ \/ Advance(c, n).pos = c.len /\ Complete(d, hits)
           \/ /\ Advance(c, n).pos # c.len /\ Advance(c, n).progress = c.length
              /\ Request(d, Advance(c, n), r.misread, hits)
              /\ UNCHANGED <<running, flagged>>
           \/ /\ Advance(c, n).pos # c.len /\ Advance(c, n).progress # c.length
              /\ ctx' = [ctx EXCEPT ![d] = Advance(c, n)]
              /\ response' = [response EXCEPT ![d] = rest(n)]
              /\ Hit(hits)
              /\ UNCHANGED <<running, conn, flagged>>
  BY <1>1 DEF TransferBody
<1>4. hits \in SUBSET Trouble
  BY DEF Trouble
<1>5. /\ c.pos \in Nat /\ c.len \in Nat /\ c.length \in Position /\ c.length \in Nat
      /\ c.progress \in Nat /\ r.next \in Nat /\ r.upto \in Nat /\ n \in Nat \ {0}
  BY DEF Context, Response, Position
<1> DEFINE after == Advance(c, n)
<1>6. /\ after \in Context /\ after.state = "TRANSFER_BODY" /\ after.len = c.len
      /\ after.length = c.length
      /\ after.pos = Saturate(c.pos + n) /\ after.progress = Saturate(c.progress + n)
  <2>1. Saturate(c.pos + n) \in Position /\ Saturate(c.progress + n) \in Position
    BY <1>5, Numbers
  <2> QED
    BY <1>2, <2>1 DEF Advance, Context
<1> HIDE DEF after
<1>7. ~r.misread => /\ c.len = ImageLen /\ c.pos < c.len /\ ~r.header
                    /\ r.next + n <= r.upto /\ r.upto <= ImageLen
                    /\ InStep(c, r) \/ Lags(c, r)
  BY <1>2, <1>3, <1>5 DEF Fits
<1>8. ~r.misread => /\ c.pos + n <= ImageLen /\ c.progress + n <= c.length
                    /\ Lags(c, r) => c.pos + n < ImageLen /\ c.progress + n < c.length
  BY <1>5, <1>7 DEF InStep, Lags
<1>9. ~r.misread => after.pos = c.pos + n /\ after.progress = c.progress + n
  BY <1>5, <1>6, <1>8, Numbers DEF Position
<1>10. slot' \in [Slot -> Byte]
  <2>1. slot \in [Slot -> Byte]
    BY DEF IInv, TypeOK
  <2>2. ASSUME NEW i \in Slot PROVE Written(c, r, n)[i] \in Byte
    <3>1. Wrong \in Byte /\ i \in Int
      BY DEF Wrong, Byte, Slot
    <3>2. ASSUME i \in c.pos..c.pos + n - 1, ~r.misread PROVE r.next + i - c.pos \in Byte
      BY <1>5, <1>7, <3>1, <3>2 DEF Byte
    <3> QED
      BY <2>1, <3>1, <3>2 DEF Written
  <2>3. Written(c, r, n) \in [Slot -> Byte]
    BY <2>2 DEF Written
  <2> QED
    BY <1>3, <2>1, <2>3
<1>11. ASSUME Clean', Hit(hits) \/ Hit(hits \cup {"network"}) \/ Hit(hits \cup {"boot"})
       PROVE  /\ ~r.misread /\ ~flagged
              /\ Lags(c, r) \/ FilledTo(after.pos)'
  <2>1. Clean /\ hits = {} /\ d \in Live
    BY <1>11 DEF Clean, Hit, Live
  <2>2. Alone
    BY <2>1 DEF IInv
  <2>3. ~r.misread /\ ~flagged /\ (InStep(c, r) => FilledTo(c.pos))
    BY <1>1, <1>2, <2>1, <2>2 DEF Alone, Filling
  <2>4. InStep(c, r) => FilledTo(after.pos)'
    <3>1. ASSUME InStep(c, r) PROVE FilledTo(c.pos + n)'
      BY <1>3, <1>5, <2>1, <2>3, <3>1, WriteFills DEF InStep
    <3> QED
      BY <1>9, <2>3, <3>1
  <2> QED
    BY <1>7, <2>3, <2>4
<1>12. CASE after.pos = c.len /\ Complete(d, hits)
  <2>1. ASSUME Clean', Hit(hits) PROVE Whole'
    <3>1. ~r.misread /\ (Lags(c, r) \/ FilledTo(after.pos)')
      BY <1>11, <2>1
    <3>2. FilledTo(ImageLen)'
      BY <1>7, <1>8, <1>9, <1>12, <3>1
    <3> QED
      BY <3>2 DEF FilledTo, Whole, Slot
  <2>2. running \in BOOLEAN /\ flagged \in BOOLEAN
    BY DEF IInv, TypeOK
  <2>3. CASE flagged' = TRUE /\ Ended(d) /\ Hit(hits) /\ UNCHANGED running
    <3>1. flagged' \in BOOLEAN /\ running' \in BOOLEAN
      BY <2>2, <2>3, Zenon
    <3> QED
      BY <1>4, <1>10, <2>1, <2>3, <3>1, EndKeeps
  <2>4. CASE flagged' = TRUE /\ running' = FALSE /\ AllEnded /\ Hit(hits)
    <3>1. flagged' \in BOOLEAN /\ running' \in BOOLEAN
      BY <2>4, Zenon
    <3> QED
      BY <1>4, <1>10, <2>1, <2>4, <3>1, AllEndKeeps
  <2>5. CASE /\ flagged' \in {flagged, FALSE}
             /\ Ended(d) /\ Hit(hits \cup {"boot"}) /\ UNCHANGED running
    <3>1. flagged' \in BOOLEAN /\ running' \in BOOLEAN
      BY <2>2, <2>5, Zenon
    <3>2. Clean' => ~flagged'
      BY <1>11, <2>5
    <3>3. hits \cup {"boot"} \in SUBSET Trouble
      BY <1>4 DEF Trouble
    <3> QED
      BY <1>10, <2>5, <3>1, <3>2, <3>3, EndKeeps
  <2> QED
    BY <1>12, <2>3, <2>4, <2>5 DEF Complete
<1>13. CASE /\ after.pos # c.len /\ after.progress = c.length
            /\ Request(d, after, r.misread, hits)
            /\ UNCHANGED <<running, flagged>>
  <2>1. r.misread \/ (after.len = ImageLen /\ after.pos < after.len)
    BY <1>5, <1>6, <1>7, <1>8, <1>9, <1>13
  <2>2. Hit(hits) \/ Hit(hits \cup {"network"})
    BY <1>13 DEF Request
  <2>3. Clean' => ~r.misread /\ FilledTo(after.pos)'
    BY <1>5, <1>8, <1>9, <1>11, <1>13, <2>2
  <2>4. r.misread \in BOOLEAN
    BY DEF Response
  <2> QED
    BY <1>4, <1>6, <1>10, <1>13, <2>1, <2>3, <2>4, RequestKeeps
<1>14. CASE /\ after.pos # c.len /\ after.progress # c.length
            /\ ctx' = [ctx EXCEPT ![d] = after] /\ response' = [response EXCEPT ![d] = rest(n)]
            /\ Hit(hits)
            /\ UNCHANGED <<running, conn, flagged>>
  <2>1. ASSUME ~r.misread PROVE rest(n) \in Response /\ Fits(after, rest(n))
    <3>1. r.next + n \in Position
      BY <1>5, <1>7, <2>1 DEF Position
    <3>2. rest(n) \in Response
      BY <2>1, <3>1 DEF Response
    <3>3. /\ rest(n).next = r.next + n /\ rest(n).upto = r.upto /\ rest(n).header = r.header
          /\ rest(n).misread = r.misread
      BY <2>1 DEF Response
    <3> HIDE DEF rest
    <3>4. InStep(after, rest(n)) \/ Lags(after, rest(n))
      BY <1>5, <1>6, <1>7, <1>9, <2>1, <3>3 DEF InStep, Lags
    <3>5. after.pos < after.len
      BY <1>5, <1>6, <1>7, <1>8, <1>9, <1>14, <2>1
    <3> QED
      BY <1>5, <1>6, <1>7, <2>1, <3>2, <3>3, <3>4, <3>5 DEF Fits
  <2>2. rest(n) \in Response /\ rest(n).misread = r.misread
    <3>1. CASE r.misread
      BY <3>1
    <3>2. CASE ~r.misread
      BY <2>1, <3>2 DEF Response
    <3> QED
      BY <3>1, <3>2
  <2>3. Clean' => ~r.misread /\ (Filling(after, rest(n)) => FilledTo(after.pos)')
    <3> SUFFICES ASSUME Clean', Filling(after, rest(n))
                 PROVE  ~r.misread /\ FilledTo(after.pos)'
      BY <1>11, <1>14
    <3>1. ~r.misread /\ (Lags(c, r) \/ FilledTo(after.pos)')
      BY <1>11, <1>14
    <3>2. InStep(after, rest(n))
      BY <1>6 DEF Filling
    <3>3. rest(n).next = r.next + n /\ rest(n).upto = r.upto
      BY <3>1 DEF Response
    <3>4. ~Lags(c, r)
      BY <1>5, <1>6, <1>9, <3>1, <3>2, <3>3 DEF InStep, Lags
    <3> QED
      BY <3>1, <3>4
  <2> HIDE DEF rest
  <2> QED
    BY <1>4, <1>6, <1>10, <1>14, <2>1, <2>2, <2>3, GoOnKeeps
<1> QED
  BY <1>3, <1>12, <1>13, <1>14 DEF after

-----------------------------------------------------------------------------
(* An announcement has the slot to itself, or it is recorded that not.     *)
LEMMA AnnouncementKeeps ==
  ASSUME IInv, NEW d \in Downloads, upgrade_available(d)
  PROVE  IInv'
<1> USE LengthAssumption
<1> DEFINE before == IF Live = {} /\ ~flagged THEN {} ELSE trouble \cup {"overlap"}
<1>1. /\ conn[d] = "free" /\ announced < MaxAnnouncements /\ announced' = announced + 1
      /\ \/ conn' = [conn EXCEPT ![d] = "lookup"] /\ trouble' = before
         \/ trouble' = before \cup {"network"} /\ UNCHANGED conn
      /\ UNCHANGED <<running, ctx, response, slot, flagged>>
  BY DEF upgrade_available
<1>2. TypeOK'
  <2>1. trouble' \subseteq Trouble
    BY <1>1 DEF IInv, TypeOK, Trouble
  <2>2. conn' \in [Downloads -> Conn]
    BY <1>1 DEF IInv, TypeOK, Conn
  <2>3. announced' \in 0..MaxAnnouncements
    BY <1>1 DEF IInv, TypeOK
  <2> HIDE DEF before
  <2> QED
    BY <1>1, <2>1, <2>2, <2>3 DEF IInv, TypeOK
<1>3. Contexts'
  BY <1>1 DEF IInv, TypeOK, Contexts
<1>4. ASSUME Clean' PROVE Alone'
  <2>1. Live = {} /\ ~flagged
    BY <1>1, <1>4 DEF Clean
  <2>2. \A e \in Live' : e = d
    BY <1>1, <2>1 DEF Live, IInv, TypeOK
  <2>3. ctx[d] = NoContext /\ response[d] = NoResponse
    BY <1>1 DEF IInv, Contexts
  <2>4. ~NoResponse.misread /\ ~Filling(NoContext, NoResponse)
    BY DEF NoContext, NoResponse, Filling
  <2> QED
    BY <1>1, <2>1, <2>2, <2>3, <2>4 DEF Alone
<1> QED
  BY <1>2, <1>3, <1>4 DEF IInv

LEMMA DownKeeps ==
  ASSUME IInv, NEW why \in SUBSET Trouble, Down(why)
  PROVE  IInv'
<1>1. running' \in BOOLEAN /\ flagged' \in BOOLEAN /\ slot' \in [Slot -> Byte]
  <2>1. running' \in BOOLEAN
    BY Zenon DEF Down
  <2> QED
    BY <2>1 DEF Down, IInv, TypeOK
<1>2. Clean' => (flagged' => Whole')
  BY DEF Down, Hit, Clean, IInv, Alone, Whole
<1> QED
  BY <1>1, <1>2, AllEndKeeps DEF Down

LEMMA NetworkKeeps ==
  ASSUME IInv, NEW d \in Downloads, dns_cb(d) \/ connected_cb(d) \/ ConnectionLost(d)
  PROVE  IInv'
<1> USE LengthAssumption
<1>1. {"network"} \in SUBSET Trouble
  BY DEF Trouble
<1>2. ASSUME conn[d] # "free", Ended(d), Hit({"network"}), FlashStays PROVE IInv'
  <2>1. running' \in BOOLEAN /\ flagged' \in BOOLEAN /\ slot' \in [Slot -> Byte]
    BY <1>2 DEF FlashStays, IInv, TypeOK
  <2>2. Clean' => (flagged' => Whole')
    BY <1>2 DEF FlashStays, Hit, Clean, IInv, Alone, Whole
  <2> QED
    BY <1>1, <1>2, <2>1, <2>2, EndKeeps DEF FlashStays
<1>3. ASSUME dns_cb(d), conn' = [conn EXCEPT ![d] = "opening"], FlashStays,
             UNCHANGED <<ctx, response, trouble>>
      PROVE  IInv'
  <2>1. conn[d] = "lookup"
    BY <1>3 DEF dns_cb
  <2>2. TypeOK'
    BY <1>3 DEF IInv, TypeOK, FlashStays, Conn
  <2>3. Contexts'
    BY <1>3, <2>1 DEF IInv, TypeOK, Contexts
  <2>4. Live' = Live
    BY <1>3, <2>1 DEF Live, IInv, TypeOK
  <2>5. Alone => Alone'
    BY <1>3, <2>4 DEF Alone, FlashStays, Whole, FilledTo
  <2> QED
    BY <1>3, <2>2, <2>3, <2>5 DEF IInv, Clean
<1>4. CASE connected_cb(d)
  <2>1. /\ conn[d] = "opening" /\ conn' = [conn EXCEPT ![d] = "open"]
        /\ response' = [response EXCEPT ![d].header = TRUE]
        /\ UNCHANGED <<running, slot, flagged, announced, ctx, trouble>>
    BY <1>4 DEF connected_cb, FlashStays
  <2> DEFINE asked == [NoResponse EXCEPT !.header = TRUE]
  <2>2. ctx[d] = NoContext /\ response[d] = NoResponse
    BY <2>1 DEF IInv, Contexts
  <2>3. response' = [response EXCEPT ![d] = asked]
    BY <2>1, <2>2, Zenon
  <2>4. asked \in Response /\ Fits(NoContext, asked) /\ ~asked.misread
        /\ ~Filling(NoContext, asked)
    <3>1. NoResponse \in Response
      BY DEF NoResponse, Response, Position
    <3>2. asked \in Response
      BY <3>1 DEF Response
    <3>3. asked.next = 0 /\ asked.upto = 0 /\ ~asked.misread
      BY DEF NoResponse
    <3> HIDE DEF asked
    <3> QED
      BY <3>2, <3>3 DEF Fits, NoContext, Filling
  <2> HIDE DEF asked
  <2>5. TypeOK'
    BY <2>1, <2>3, <2>4 DEF IInv, TypeOK, Conn
  <2>6. Contexts'
    BY <2>1, <2>2, <2>3, <2>4 DEF IInv, TypeOK, Contexts
  <2>7. Live' = Live /\ d \in Live
    BY <2>1 DEF Live, IInv, TypeOK
  <2>8. Alone => Alone'
    <3> SUFFICES ASSUME Alone PROVE Alone'
      OBVIOUS
    <3>1. Live = {d} /\ ~flagged
      BY <2>7 DEF Alone
    <3>2. response'[d] = asked
      BY <2>3 DEF IInv, TypeOK
    <3> QED
      BY <2>1, <2>2, <2>4, <2>7, <3>1, <3>2 DEF Alone
  <2> QED
    BY <2>1, <2>5, <2>6, <2>8 DEF IInv, Clean
<1>5. CASE dns_cb(d)
  BY <1>1, <1>2, <1>3, <1>5, DownKeeps DEF dns_cb
<1>6. CASE ConnectionLost(d)
  BY <1>2, <1>6 DEF ConnectionLost
<1> QED
  BY <1>4, <1>5, <1>6

LEMMA Inductive == IInv /\ [Next]_vars => IInv'
<1> SUFFICES ASSUME IInv, [Next]_vars PROVE IInv'
  OBVIOUS
<1>1. CASE PowerLoss
  BY <1>1, DownKeeps DEF PowerLoss, Trouble
<1>2. CASE Boot
  <2>1. running' \in BOOLEAN /\ flagged' \in BOOLEAN
    BY <1>2, Zenon DEF Boot
  <2>2. TypeOK'
    BY <1>2, <2>1 DEF Boot, IInv, TypeOK
  <2>3. Contexts'
    BY <1>2 DEF Boot, IInv, Contexts
  <2>4. Alone => Alone'
    BY <1>2 DEF Boot, Alone, Live, FilledTo
  <2> QED
    BY <1>2, <2>2, <2>3, <2>4 DEF Boot, IInv, Clean
<1>3. ASSUME NEW d \in Downloads, receive_cb(d) PROVE IInv'
  BY <1>3, MetadataKeeps, HeaderKeeps, BodyKeeps DEF receive_cb
<1>4. CASE UNCHANGED vars
  <2>1. TypeOK' /\ Contexts'
    BY <1>4 DEF vars, IInv, TypeOK, Contexts
  <2>2. Alone => Alone'
    BY <1>4 DEF vars, Alone, Live, FilledTo, Whole
  <2> QED
    BY <1>4, <2>1, <2>2 DEF vars, IInv, Clean
<1> QED
  BY <1>1, <1>2, <1>3, <1>4, AnnouncementKeeps, NetworkKeeps DEF Next

LEMMA Invariant == Spec => []IInv
BY Initial, Inductive, PTL DEF Spec

(* Type correctness, for every image, chunk and number of downloads.       *)
THEOREM TypeCorrect == Spec => []TypeOK
<1>1. IInv => TypeOK
  BY DEF IInv
<1> QED
  BY <1>1, Invariant, PTL

(* Only a whole image is activated, however its chunks are cut, dropped,   *)
(* interrupted or tried again.                                             *)
THEOREM OnlyWholeActivated == Spec => []ActivatedIsWhole
<1>1. IInv => ActivatedIsWhole
  BY DEF IInv, Alone, ActivatedIsWhole
<1> QED
  BY <1>1, Invariant, PTL
=============================================================================
