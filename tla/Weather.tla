-------------------------------- MODULE Weather --------------------------------
(***************************************************************************)
(* The weather client of src/weather/weather.c: one single-shot timer, and *)
(* for each download a context with a connection of its own.  The callback *)
(* of the WiFi linker starts and stops the client; the resolver, TCP and   *)
(* the weather server are the environment.                                 *)
(*                                                                         *)
(* A stop disarms the timer and leaves downloads alone, so downloads of    *)
(* several starts may overlap.                                             *)
(***************************************************************************)
EXTENDS Integers, FiniteSets

CONSTANTS
  Downloads,           \* names for the contexts that may be allocated at once
  MaxBody,             \* bound: bytes of a response
  MaxStarts            \* bound: calls of weather_start

ASSUME DownloadsAssumption == IsFiniteSet(Downloads)
ASSUME BoundAssumption == MaxBody \in Nat \ {0} /\ MaxStarts \in Nat

VARIABLES
  timer,               \* _weather_update_timer is armed
  phase,               \* what the context's connection is doing
  data,                \* what the context has received
  started,             \* history: the application's last call was weather_start
  starts,              \* history: how often it was called
  missed               \* history: a download went unanswered since

vars == <<timer, phase, data, started, starts, missed>>

Phase == {"free", "lookup", "opening", "open", "closing"}
InFlight == {d \in Downloads : phase[d] # "free"}

\* receivedHeader, length and buf_pos of the context, and the true length of
\* the body: 0 as long as no header was understood.
Data == [header : BOOLEAN, length : 0..MaxBody, pos : 0..MaxBody, size : 0..MaxBody]
NoData == [header |-> FALSE, length |-> 0, pos |-> 0, size |-> 0]

-----------------------------------------------------------------------------
\* weather_init.
Init == /\ timer = FALSE
        /\ phase = [d \in Downloads |-> "free"]
        /\ data = [d \in Downloads |-> NoData]
        /\ started = FALSE /\ starts = 0 /\ missed = FALSE

weather_start ==
  /\ starts < MaxStarts
  /\ timer' = TRUE
  /\ started' = TRUE /\ starts' = starts + 1 /\ missed' = FALSE
  /\ UNCHANGED <<phase, data>>

weather_stop ==
  /\ timer' = FALSE
  /\ started' = FALSE
  /\ UNCHANGED <<phase, data, starts, missed>>

\* Mutant: the timer is armed to repeat.
DownloadRepeats(d) ==
  /\ timer
  /\ phase[d] = "free"
  /\ data' = [data EXCEPT ![d] = NoData]
  /\ phase' = [phase EXCEPT ![d] = "lookup"]
  /\ UNCHANGED <<timer, started, starts, missed>>

\* weather_download, when the timer fires.  The result of
\* espconn_gethostbyname is not looked at: an answer from the cache calls
\* nobody back, and the context is never heard of again.
weather_download(d) ==
  /\ timer /\ timer' = FALSE
  /\ phase[d] = "free"
  /\ data' = [data EXCEPT ![d] = NoData]
  /\ \/ phase' = [phase EXCEPT ![d] = "lookup"] /\ UNCHANGED missed
     \/ missed' = TRUE /\ UNCHANGED phase
  /\ UNCHANGED <<started, starts>>

-----------------------------------------------------------------------------
\* Mutant: the next download is tried whether or not this one found its host.
DnsAlwaysRearms(d, found) ==
  /\ phase[d] = "lookup"
  /\ phase' = [phase EXCEPT ![d] = IF found THEN "opening" ELSE "free"]
  /\ timer' = (timer \/ ~found)
  /\ UNCHANGED <<data, started, starts, missed>>

\* A host that is not found ends the download and arms no timer.
weather_dns_cb(d, found) ==
  /\ phase[d] = "lookup"
  /\ phase' = [phase EXCEPT ![d] = IF found THEN "opening" ELSE "free"]
  /\ missed' = (missed \/ ~found)
  /\ UNCHANGED <<timer, data, started, starts>>

weather_connected_cb(d) ==
  /\ phase[d] = "opening"
  /\ phase' = [phase EXCEPT ![d] = "open"]
  /\ UNCHANGED <<timer, data, started, starts, missed>>

\* weather_free_context, and the timer of the next download.
Over(d) ==
  /\ phase' = [phase EXCEPT ![d] = "free"]
  /\ timer' = TRUE
  /\ UNCHANGED <<data, started, starts, missed>>

weather_disconcb(d) == phase[d] \in {"open", "closing"} /\ Over(d)

\* Mutant: the timer is armed by the disconnect callback only.
ReconUnarmed(d) ==
  /\ phase[d] \in {"opening", "open", "closing"}
  /\ phase' = [phase EXCEPT ![d] = "free"]
  /\ UNCHANGED <<timer, data, started, starts, missed>>

weather_reconcb_cb(d) == phase[d] \in {"opening", "open", "closing"} /\ Over(d)

-----------------------------------------------------------------------------
(* weather_receive_cb.                                                     *)

\* What the context holds after n more bytes of body; when it holds as many
\* as it expects they are parsed, and the connection is closed.
Take(d, length, size, n) ==
  /\ data' = [data EXCEPT ![d] = [header |-> TRUE, length |-> length, size |-> size,
                                  pos |-> data[d].pos + n]]
  /\ phase' = IF data[d].pos + n = length THEN [phase EXCEPT ![d] = "closing"] ELSE phase

\* Mutant: the end of the header counts as body.
FirstSegmentWhole(d, size, n) ==
  /\ ~data[d].header
  /\ n <= size
  /\ Take(d, size, size, n + 1)

\* The first segment: a header with its Content-Length, and n bytes behind it.
FirstSegment(d, size, n) ==
  /\ ~data[d].header
  /\ n <= size
  /\ Take(d, size, size, n)

\* A header without one, one with a line of 128 bytes or more, or part of one:
\* http_parse_response_header reports no error and may leave resp.length as
\* it was on the stack.  No length is no data; with any other the segment
\* counts as body.  A length that the bytes pass over is never reached.
GarbledSegment(d, n) ==
  /\ ~data[d].header
  /\ \/ data' = [data EXCEPT ![d].header = TRUE] /\ UNCHANGED phase
     \/ \E length \in 1..MaxBody : Take(d, length, 0, n)

\* A later segment.  The server sends no more than it announced, nor more
\* than MaxBody.
NextSegment(d, n) ==
  /\ data[d].header
  /\ n > 0
  /\ data[d].pos + n <= IF data[d].size > 0 THEN data[d].size ELSE MaxBody
  /\ Take(d, data[d].length, data[d].size, n)

weather_receive_cb(d) ==
  /\ phase[d] = "open"
  /\ \E n \in 0..MaxBody :
       \/ \E size \in 1..MaxBody : FirstSegment(d, size, n)
       \/ GarbledSegment(d, n)
       \/ NextSegment(d, n)
  /\ UNCHANGED <<timer, started, starts, missed>>

-----------------------------------------------------------------------------
Next == \/ weather_start \/ weather_stop
        \/ \E d \in Downloads :
             \/ weather_download(d)
             \/ \E found \in BOOLEAN : weather_dns_cb(d, found)
             \/ weather_connected_cb(d) \/ weather_receive_cb(d)
             \/ weather_disconcb(d) \/ weather_reconcb_cb(d)

Spec == Init /\ [][Next]_vars

\* The armed timer fires, the resolver answers, and TCP reports the outcome
\* of an attempt to connect and of a disconnect.
FairSpec ==
  /\ Spec
  /\ WF_vars(\E d \in Downloads : weather_download(d))
  /\ \A d \in Downloads :
       /\ WF_vars(\E found \in BOOLEAN : weather_dns_cb(d, found))
       /\ WF_vars(phase[d] = "opening" /\ (weather_connected_cb(d) \/ weather_reconcb_cb(d)))
       /\ WF_vars(phase[d] = "closing" /\ (weather_disconcb(d) \/ weather_reconcb_cb(d)))

-----------------------------------------------------------------------------
(* Type correctness.                                                       *)
TypeOK == /\ timer \in BOOLEAN
          /\ phase \in [Downloads -> Phase]
          /\ data \in [Downloads -> Data]
          /\ started \in BOOLEAN /\ missed \in BOOLEAN
          /\ starts \in 0..MaxStarts

(* However starts, stops and late callbacks interleave, a start sets off   *)
(* one chain of downloads: callbacks that arm the timer never make two of  *)
(* one.                                                                    *)
OneChainPerStart ==
  Cardinality(InFlight) + (IF timer THEN 1 ELSE 0) <= starts

(* A started client has its next download ahead of it or one under way;    *)
(* it stops by itself only when the resolver lets it down.                 *)
SomeoneContinues == started => timer \/ InFlight # {} \/ missed

(* A response whose header was understood is parsed, and the connection    *)
(* closed, exactly when the whole of its body is there.                    *)
ReportIsWhole ==
  \A d \in Downloads : data[d].size > 0 =>
    /\ phase[d] = "open" => data[d].pos < data[d].size
    /\ phase[d] = "closing" => data[d].pos = data[d].size

\* The server answers or closes the connection.
ServersAnswer == \A d \in Downloads : phase[d] = "open" ~> phase[d] # "open"
Downloading == \E d \in Downloads : weather_download(d)

(* As long as hosts are found and servers answer, one download follows     *)
(* another for ever.                                                       *)
GoesOn ==
  <>[](started /\ ~missed) /\ ServersAnswer => []<><<Downloading>>_vars

(* Offline, where no host is found, a stopped client comes to rest: the    *)
(* callbacks that arm the timer after weather_stop do not keep it going.   *)
WindsDown ==
  /\ <>[]~started /\ ServersAnswer
  /\ <>[][\A d \in Downloads : ~weather_dns_cb(d, TRUE)]_vars
  => <>[](~timer /\ InFlight = {})
=============================================================================
