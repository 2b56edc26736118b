------------------------------ MODULE DeviceText ------------------------------
(***************************************************************************)
(* What the device makes of the texts it is given, and what it answers: the*)
(* request that a user's entries in the setup page become, read by         *)
(* api_setup.c with jsonparse.c into the settings in memory and in flash;  *)
(* what the station and the MQTT client get from there; the answers, which *)
(* jsontree.c writes; the URLs of downloads, and the weather report.  Texts*)
(* are those of JsonDoc.                                                   *)
(*                                                                         *)
(* Every handler here runs to its end, so each is one step, a save included*)
(* that writes a sector and moves the header as in ConfigStore.  How it may*)
(* fail is there, who takes the settings when in Device, and how the texts *)
(* arrive in WebServer, Upgrade and Weather.                               *)
(***************************************************************************)
EXTENDS JsonTree, UrlText, WeatherText

CONSTANTS
  Posts,               \* the requests, each [doc, gap]: a document, and the
                       \* blanks its sender puts after commas and colons
  Lists,               \* what a scan may have found: sequences of access
                       \* points, each [signal, ssid, auth]
  Urls,                \* the URLs, each [host, port, path]
  Reports,             \* the weather reports
  Meaning,             \* for each host that is typed, the name or the four
                       \* numbers it stands for
  Field                \* the bytes of wifi_ssid, wifi_pass and mqtt_host

AnswerSize == 2048     \* JSON_CONTEXT_BUFFER_SIZE
TypeSize == 20         \* of the buffer for "type"
NUL == "NUL"

VARIABLES
  cfg,                 \* the settings in memory: their bytes, and the port
  header, flash,       \* as in ConfigStore, each sector with its bytes
  saves,               \* history: how many saves there were, up to 3
  last,                \* history: what the last of them was asked for
  found,               \* history: what config_load finds was asked for like so
  typed,               \* history: and so was what is in memory
  event                \* what the device did last

store == <<header, flash>>
asked == <<saves, last, found, typed>>
vars == <<cfg, store, asked, event>>

\* The layout of Config: two fields, wifi_security, a field, and the padding
\* before the port.
SSID == 1
PASS == Field + 1
HOST == 2 * Field + 2
Bytes == 3 * Field + 2

Memory(size, byte) == [i \in 1..size |-> byte]

os_strcpy(bytes, at, symbols) ==
  [i \in DOMAIN bytes |-> IF i \in at .. at + Len(symbols) - 1 THEN symbols[i - at + 1]
                          ELSE IF i = at + Len(symbols) THEN NUL ELSE bytes[i]]

\* The string that begins at a byte.
StringAt(bytes, at) == SubSeq(bytes, at, Seek(bytes, at, {NUL}) - 1)

\* Flash that was never written, read as settings.
ErasedCfg == [bytes |-> Memory(Bytes, "0xFF"), port |-> 65535]

Store == INSTANCE ConfigStore WITH
  Settings <- {}, Blank <- ErasedCfg, Torn <- "torn",
  update <- FALSE, step <- "idle", previous <- last, faults <- {}

\* The first symbols of a text, as many as a field has bytes.
Cut(symbols) == SubSeq(symbols, 1, Min({Len(symbols), Field}))

-----------------------------------------------------------------------------
(* api_setup.c, and the page                                               *)

\* The documents that ask for something.
Asks(doc, what) == /\ Has(doc, Names.type)
                   /\ LET type == Member(doc, Names.type)
                      IN  type.kind = "string" /\ type.of = <<what>>

\* A "set" with all four settings.
Complete(doc) ==
  /\ Asks(doc, "set")
  /\ Has(doc, Names.setup)
  /\ LET setup == Member(doc, Names.setup)
         Holding(name, kind) == Has(setup, name) /\ Member(setup, name).kind = kind
     IN  /\ \A name \in {Names.ssid, Names.password, Names.mqttHost} : Holding(name, "string")
         /\ Holding(Names.mqttPort, "number")

\* What it asks for.
Typed(doc) ==
  LET setup == Member(doc, Names.setup)
  IN  [ssid |-> Member(setup, Names.ssid).of, password |-> Member(setup, Names.password).of,
       mqttHost |-> Member(setup, Names.mqttHost).of, mqttPort |-> Member(setup, Names.mqttPort).of]

\* Nobody typed it: flash was erased, or the request strayed.
Unknown == [ssid |-> Nothing]

\* A search that finds no name in the setup object goes on behind it, and may
\* find the name in another object there; one for a setup that is no object
\* goes on in the request's own.
Strays(doc) ==
  /\ Has(doc, Names.setup)
  /\ ~Complete(doc)
  /\ \/ Member(doc, Names.setup).kind \notin {"object", "array"}
     \/ \E i \in DOMAIN doc.of \ {Min(Under(doc, Names.setup))} :
          doc.of[i][2].kind = "object" /\ doc.of[i][2].of # <<>>

\* parse_api_setup_data, from the parser behind the opening brace: the strings
\* that are read before a setting is missing, and if none is, the port.
parse_api_setup_data(text, st) ==
  LET setup == json_find_next_sibling(text, st, Names.setup)
      inside == jsonparse_next(text, setup).st
      value == [i \in 1..3 |-> FindTyped(text, inside,
                                  <<Names.ssid, Names.password, Names.mqttHost>>[i], "\"")]
      port == FindTyped(text, inside, Names.mqttPort, "0..9")
      read == IF setup = NotFound THEN 0
              ELSE Min({i \in 1..3 : value[i] = NotFound} \cup {4}) - 1
      ok == read = 3 /\ port # NotFound
  IN  [strings |-> [i \in 1..read |-> jsonparse_copy_value(text, value[i], Field + 1)],
       ok      |-> ok,
       port    |-> IF ok THEN jsonparse_get_value_as_int(text, port) % 65536 ELSE 0]

\* api_setup_request, as far as it only reads: the type of a request, which may
\* be none, and what is set.
Received(post) ==
  LET text == Text(post.doc, post.gap)
      st == jsonparse_next(text, jsonparse_setup).st
      at == FindTyped(text, st, Names.type, "\"")
      type == IF at = NotFound THEN Nothing ELSE jsonparse_copy_value(text, at, TypeSize)
  IN  [doc |-> post.doc, type |-> type,
       setup |-> IF type = <<"set">> THEN parse_api_setup_data(text, st) ELSE [ok |-> FALSE]]

Requests == {Received(post) : post \in Posts}

\* The answers.
BadResponse == Obj(<< <<<<"error">>, Str(<<"bad request">>)>> >>)
SetResponse == Obj(<< <<<<"set">>, Str(<<"success">>)>> >>)
GetResponse(ssid, mqttHost, mqttPort) ==
  Obj(<< <<Names.ssid, Str(ssid)>>, <<Names.mqttHost, Str(mqttHost)>>,
         <<Names.mqttPort, Num(mqttPort)>> >>)

Answer(doc, tree) ==
  event' = [kind |-> "answer", doc |-> doc, text |-> Printed(jsontree_setup(tree), AnswerSize)]

Answered(doc, tree) == Answer(doc, tree) /\ UNCHANGED <<cfg, store, asked>>

\* Strings are read beyond the settings where none of them ends, into memory
\* that may hold anything: the device may do anything then.
Legible == Seek(cfg.bytes, HOST, {NUL}) <= Bytes
Anything == event' = [kind |-> "none"] /\ UNCHANGED <<cfg, store, asked>>

\* What is read goes into memory field by field.
Copied(result) ==
  [bytes |-> FoldLeftDomain(LAMBDA bytes, i :
               os_strcpy(bytes, <<SSID, PASS, HOST>>[i], result.strings[i]),
               cfg.bytes, result.strings),
   port  |-> IF result.ok THEN result.port ELSE cfg.port]

config_load == cfg' = flash[Store!LoadLocation]

config_save == /\ flash' = [flash EXCEPT ![Store!SaveLocation] = cfg']
               /\ header' = Store!Program(header, Store!Flipped)

\* Mutant: the settings that were read before the missing one are kept.
SetKept(doc, result) ==
  \/ result.ok /\ cfg' = Copied(result) /\ config_save /\ Answer(doc, SetResponse)
  \/ ~result.ok /\ cfg' = Copied(result) /\ UNCHANGED store /\ Answer(doc, BadResponse)

\* The settings are saved, or config_load overwrites what was read.
Set(doc, result) ==
  \/ result.ok /\ cfg' = Copied(result) /\ config_save /\ Answer(doc, SetResponse)
  \/ ~result.ok /\ config_load /\ UNCHANGED store /\ Answer(doc, BadResponse)

\* What is in memory, and what config_load finds next: the header moves away
\* from the sector of the first save and from that of the second, and there it
\* stays.  A request that strays is what the device makes of it.
Asked(doc, ok) ==
  \/ /\ Complete(doc) \/ (Strays(doc) /\ ok)
     /\ typed' = IF Complete(doc) THEN Typed(doc) ELSE Unknown
     /\ last' = typed'
     /\ saves' = Min({saves + 1, 3})
     /\ found' = CASE saves' = 1 -> Unknown [] saves' = 2 -> last [] saves' = 3 -> last'
  \/ /\ ~(Complete(doc) \/ (Strays(doc) /\ ok))
     /\ typed' = found
     /\ UNCHANGED <<saves, last, found>>

\* api_setup_request and api_setup_response.
Setup(request) ==
  \/ request.type \notin {<<"get">>, <<"set">>} /\ Answered(request.doc, BadResponse)
  \/ /\ request.type = <<"get">> /\ Legible
     /\ Answered(request.doc,
                 GetResponse(StringAt(cfg.bytes, SSID), StringAt(cfg.bytes, HOST), cfg.port))
  \/ request.type = <<"get">> /\ ~Legible /\ Anything
  \/ /\ request.type = <<"set">>
     /\ Set(request.doc, request.setup) /\ Asked(request.doc, request.setup.ok)

-----------------------------------------------------------------------------
(* The other answers, and who uses the settings                            *)

\* api_print_wifi_scan, for a scan that found "list".
ListResponse(list) ==
  Obj(<< <<<<"status">>, Str(<<"FINISHED">>)>>,
         <<<<"apList">>, Arr([i \in DOMAIN list |->
             Obj(<< <<<<"strength">>, Num(list[i].signal)>>, <<Names.ssid, Str(list[i].ssid)>>,
                    <<<<"auth">>, Num(list[i].auth)>> >>)])>> >>)

Listing(list) == Answered(ListResponse(list), ListResponse(list))

\* wifi_set_station_config: an SSID that fills its field is printed with what
\* follows it, into the station's password, which is then written over it.  The
\* SDK reads an SSID up to its end.
StationConfig ==
  LET zeros == Memory(6 * Field, NUL)
      one == os_strcpy(zeros, SSID, StringAt(cfg.bytes, SSID))
  IN  os_strcpy(one, PASS, StringAt(cfg.bytes, PASS))

\* MQTT_Connect: an address is connected to, a name is looked up.
MqttHost == LET host == StringAt(cfg.bytes, HOST)
                ip == UTILS_StrToIP(host)
            IN  IF ip = Nothing THEN host ELSE ip

Connect ==
  \/ /\ Legible
     /\ event' = [kind |-> "connect", ssid |-> Cut(StringAt(StationConfig, SSID)),
                  password |-> StringAt(StationConfig, PASS), host |-> MqttHost, port |-> cfg.port]
     /\ UNCHANGED <<cfg, store, asked>>
  \/ ~Legible /\ Anything

\* flashget_download and weather_download.  The error of a URL whose host has
\* no end is an unsigned 255, which the callers take for no error: the name
\* that is looked up is then any.  The upgrade has a port of its own.
Fetch(url, client) ==
  LET host == http_get_host_from_url(url_text(url))
  IN  /\ event' = [kind |-> "fetch", client |-> client, url |-> url,
                   lookup |-> IF host = Nothing THEN <<"unknown">> ELSE host,
                   port   |-> IF client = "weather" THEN http_get_port_from_url(url_text(url))
                              ELSE 80]
      /\ UNCHANGED <<cfg, store, asked>>

\* weather_parse_json.  Without "current" it may read anywhere.
Report(doc) ==
  \/ /\ \E state \in weather_parse_json(Text(doc, <<>>)) :
          event' = [kind |-> "report", doc |-> doc, state |-> state]
     /\ UNCHANGED <<cfg, store, asked>>
  \/ ~Has(doc, Names.current) /\ Anything

\* app_init calls config_load.
Restart == /\ config_load /\ typed' = found
           /\ event' = [kind |-> "none"]
           /\ UNCHANGED <<store, saves, last, found>>

\* The device as it was delivered, after its first app_init.
Init == /\ header = Store!Erased
        /\ flash = [s \in Store!Sectors |-> ErasedCfg]
        /\ cfg = ErasedCfg
        /\ saves = 0 /\ last = Unknown /\ found = Unknown /\ typed = Unknown
        /\ event = [kind |-> "none"]

\* Bound: what has nothing to do with the settings comes before the first save.
Apart == /\ saves = 0
         /\ \/ \E list \in Lists : Listing(list)
            \/ \E url \in Urls, client \in {"flashget", "weather"} : Fetch(url, client)
            \/ \E doc \in Reports : Report(doc)

Next == (\E request \in Requests : Setup(request)) \/ Connect \/ Restart \/ Apart

Spec == Init /\ [][Next]_vars

-----------------------------------------------------------------------------
(* What a user typed is what the station joins with and the MQTT client    *)
(* connects to, up to the size of the fields: through the escapes of the   *)
(* request, members in any order and of other objects, names that begin    *)
(* others, buffers and fields that are filled to the last byte, and older  *)
(* settings in the same memory and in the other sector.  A refused request *)
(* and a restart leave nothing of what was read, and bring back what was   *)
(* saved last; but after the first save erased flash and after the second  *)
(* what the first had saved.                                               *)
(* A host is connected to if it is an address, else looked up.             *)
SettingsArrive ==
  event.kind = "connect" /\ typed # Unknown =>
    /\ event.ssid = Cut(typed.ssid)
    /\ event.password = Cut(typed.password)
    /\ event.host = Meaning[Cut(typed.mqttHost)]
    /\ event.port = typed.mqttPort % 65536

Expected(doc) ==
  IF Asks(doc, "get") THEN GetResponse(Cut(typed.ssid), Cut(typed.mqttHost), typed.mqttPort % 65536)
  ELSE IF Has(doc, <<"apList">>) THEN doc
  ELSE IF Complete(doc) THEN SetResponse
  ELSE BadResponse

\* What jsontree.c writes as it should: no backslash, and for an SSID a NUL.
Readable == typed # Unknown /\ ~Contains(typed.ssid, "\\") /\ Len(typed.ssid) < Field

(* An answer is the JSON text of what the page should be told: success for *)
(* exactly the requests that are complete, by the rule that the first name *)
(* counts that begins the one sought; the settings in memory as they were  *)
(* typed; the list of the scan.  Left out are the texts that jsontree.c and*)
(* api_setup.c are known to print wrongly, and the requests that Strays.   *)
AnsweredAsAsked ==
  event.kind = "answer" /\ ~Strays(event.doc) /\ (Asks(event.doc, "get") => Readable) =>
    event.text = Text(Expected(event.doc), <<>>)

\* A report that says what the weather is: jsonparse.c reads whole degrees.
Tells(doc) ==
  /\ Has(doc, Names.current)
  /\ LET current == Member(doc, Names.current)
     IN  /\ Has(current, Names.icon) /\ Member(current, Names.icon).kind = "string"
         /\ Has(current, Names.temp) /\ Member(current, Names.temp).kind = "number"

\* A URL whose host the device can tell from what follows: a port, or a path
\* without a colon.
Ends(url) == url.port # NoPort \/ (url.path # <<>> /\ ~Contains(url.path, ":"))

(* A download looks up the host of its URL, if the device can tell it, and *)
(* the weather's goes to the URL's port, or to 80 where it names none: also*)
(* behind a port, a path may hold colons and digits, or be missing.  Of a  *)
(* report the current weather is shown, and not the forecast's or that of  *)
(* an object inside, in whatever order they come.                          *)
DownloadUnderstood ==
  /\ event.kind = "fetch" /\ Ends(event.url) =>
       /\ event.lookup = event.url.host
       /\ event.client = "weather" =>
            event.port = IF event.url.port = NoPort THEN 80 ELSE event.url.port
  /\ event.kind = "report" /\ Tells(event.doc) =>
       LET current == Member(event.doc, Names.current)
       IN  event.state =
             [current_icon |-> weather_get_icon_from_string(Member(current, Names.icon).of),
              temp |-> Int8(Member(current, Names.temp).of)]
=============================================================================
