# A verification project for hios-environment-esp8266

The firmware in `src/` runs on an ESP8266: it joins a WiFi network (or opens an access
point when it cannot), keeps an MQTT session with a broker, serves its setup page over
HTTP, downloads the weather, upgrades itself over the air and reads a BME280 sensor.
This directory models its core in TLA+, checks the models with TLC and proves their
main properties with TLAPS.

Everything in the firmware runs on one stack that nothing preempts: a callback of the
TCP stack, a timer or a task runs to its end before another starts. So a handler is
one action here, and the interleavings that matter are those of whole handlers. The
exceptions: a power loss can come at any moment, so `config_save` is cut into its
flash operations (`ConfigStore`); the queue's byte loops are cut into single ring
operations (`RingQueue`), because what a loop leaves behind when it stops half way is
the point; and the sensor follows every edge of its two wires, so the I2C driver moves
them one call at a time (`I2c`, `Sensor`).

## Inventory

| Component (source) | State it keeps | Operations | What makes it correct |
|---|---|---|---|
| Ring buffer (`mqtt/ringbuf.c`) | buffer, two pointers, fill count | init, put, get | a FIFO of bytes; pointers stay in the allocation |
| Outbound queue (`mqtt/queue.c`, `mqtt/proto.c`) | the ring; framing with escapes | puts, gets, is-empty | whole packets, in order; only the oldest are lost, and only to callers that insist |
| MQTT client (`mqtt/mqtt.c`) | connection state, one-second timer, keep-alive / reconnect / send counters, queue, a task with a one-event queue | connect, disconnect, publish…, TCP callbacks, DNS callback, timer, task | a session is real; the connection comes back; nothing reconnects once told to disconnect |
| WiFi linker (`modules/wifi.c`) | one timer, failure count, last status told | poll the station, poll the settings flag, station mode, access point mode | falls back, takes new settings, tells the application the truth |
| Settings (`persistence/config.c`) | header sector and two settings sectors in flash; `cfg` | load, save | a boot finds the settings that were saved |
| Setup handler (`websrv/api_setup.c`) | `cfg`, `run_state.wifi_cfg_update` | get, set | a good request is saved and taken, a bad one changes nothing |
| Application (`user/user_main.c`) | – | start; WiFi and MQTT callbacks | MQTT and the weather follow the WiFi |
| Weather (`weather/weather.c`) | timer, download contexts, last report | start, stop, download, DNS/TCP callbacks | downloads go on while online and end offline; a report is read from a whole response |
| Upgrade (`upgrade/flashget.c`, `upgrade/upgrade.c`) | download context, flash slot, boot configuration | announce, metadata, chunks, finish | only a whole image is activated |
| WiFi scan (`modules/wifi_scan.c`, `websrv/api_wifi_scan.c`) | scan status, list of access points | start, finish, print | the list read is the list of a finished scan |
| Web server (`websrv/websrv.c`) | list of clients; per client state, request, handler, offsets | connect, receive, sent, disconnect, error | each client gets its own answer, whole; nothing freed is used |
| Request handlers (`websrv/*`) | per request context | set up, body, chunk, free | as above |
| MQTT packets (`mqtt/mqtt_msg.c`) | the packet built, the identifier used last, `in_buffer` | build, read, acknowledge | packets say what was asked for; what arrived is read, and no more |
| Sensor (`sensor/`, `driver/i2c.c`) | two wires, operation mode, last readings | configure, read, compensate | driver and sensor agree on where in a transfer they are |
| JSON (`shared/`) | – | parser with a stack, searches by name, writer into a buffer | what was printed is read; a name is found at its level only |
| HTTP (`http/`) | – | URLs, headers | a download goes where its URL says |
| Setup page (`web/js/wifiSetup.js`, in a browser) | the button, the table, overlay, loops of polls | refresh, poll, set, get | a refresh ends with a fresh list; what is typed arrives |
| Display, other drivers, fonts (`lcd/`, `driver/`) | – | output | not modelled |

How they interact: the linker calls `wifiConnectCb`, which calls `MQTT_Connect` and
`weather_start`, or `MQTT_Disconnect` and `weather_stop`. The setup handler writes
`cfg` and flash and raises a flag the linker polls. An MQTT publication on the upgrade
topic calls `upgrade_available`. The TCP stack and the resolver call back into the
MQTT client, the weather, the upgrade and the web server. Handlers wake the MQTT task
by `system_os_post`. The setup page asks the web server for scans, lists and settings.

What is hard: callbacks of a connection that outlive it; timers armed by a late
callback after a stop; one task event for many reasons to run; frames cut short by a
full ring; packets, bodies and images cut anywhere by TCP; counters of two parties
that must move and end together; flash that fails or loses power between an erase and
a write; settings that are in flash, in memory, with the station and with the broker at
once; texts that are searched for names and copied into fixed fields; a sensor that was
left in the middle of a transfer. The hazards, each at its
line and with the properties aimed at it, are listed under `hazards` in
`PROJECT.json`.

## Modules

| Module | What it is | Composes |
|---|---|---|
| `ByteFifo` | abstract: a bounded FIFO of bytes | – |
| `RingSize` | what the ring and the queue share: its size, bytes | – |
| `RingBuf` | `ringbuf.c` | implements `ByteFifo` |
| `MsgQueue` | abstract: a queue of whole packets that loses its oldest | – |
| `RingQueue` | `queue.c`, `proto.c` and the loops in `mqtt.c` | extends `ByteFifo`, implements `MsgQueue` |
| `PointerQueue` | the queue's calls on the ring's pointers | `RingQueue` and `RingBuf`, implements both abstractions |
| `RingQueueProofs` | proofs about `RingBuf`, `RingQueue` and `PointerQueue` | – |
| `MqttClient`, `MqttClientProofs` | `mqtt.c` | its queue is that of `MsgQueue`, a call per step |
| `WifiLink` | `wifi.c` | – |
| `ConfigStore` | `config.c`, the set requests of `api_setup.c` | – |
| `Device`, `DeviceProofs` | `user_main.c`: flash, linker and MQTT client across boots | extends `WifiLink`, with operators of `ConfigStore` |
| `Weather`, `WeatherProofs` | `weather.c` | – |
| `Upgrade`, `UpgradeProofs` | `flashget.c`, `upgrade.c` | – |
| `WebServer`, `WebServerProofs` | `websrv.c` and the handlers' contexts and chunks | – |
| `WifiScan` | `wifi_scan.c`, `api_wifi_scan.c` | – |
| `SetupPage` | `web/js/wifiSetup.js` in a browser | extends `WifiScan` |
| `SetupProofs` | proofs about `ConfigStore`, `WifiScan` and `SetupPage` | – |
| `MqttMsg`, `MqttMsgProofs` | `mqtt_msg.c` and the receive handler of `mqtt.c`, byte by byte | – |
| `JsonDoc` | JSON documents and their texts | – |
| `JsonParse`, `JsonTree` | `jsonparse.c` and `jsonh.c`; `jsontree.c` | extend `JsonDoc` |
| `UrlText`, `WeatherText` | URLs and addresses of `http.c` and `utils.c`; `weather_parse_json` | extend `JsonParse` |
| `DeviceText` | `api_setup.c`, and every text the device reads or answers | extends the four before it |
| `I2c` | `driver/i2c.c`, and a BME280 at the other end of the wires | – |
| `Sensor` | `i2c_bme280.c` without its arithmetic, `sensor_loop.c`; proofs in `DeviceProofs` | extends `I2c` |
| `MC…` | instances for TLC | |

`map` in `PROJECT.json` names the source lines of every definition. A definition
introduced by "Mutant:" is the definition after it with a bug in it; nothing uses it.
Each stands for a bug one of the properties must catch.

**RingBuf.** `buf`, `p_w`, `p_r`, `fill_cnt` are the fields of `RINGBUF`, the pointers
as offsets; `c` is what the last get stored. A call that returns -1 changes nothing
and is a stuttering step.

**RingQueue.** The ring is the `fifo` of `ByteFifo`; `PROTO_AddRb` puts one byte per
step (`PutByte`), `PROTO_ParseRb` takes one (`GetByte`). `op` says which call is
running: `insist` is the loop of `MQTT_Publish`, `MQTT_Subscribe`, `MQTT_UnSubscribe`
and `MQTT_Ping` around `QUEUE_Puts`, `drop` the `QUEUE_Gets` inside it, `offer` the
single `QUEUE_Puts` of the receive handler, `get` the `QUEUE_Gets` of `MQTT_Task`.
`isBegin` is not initialised by `PROTO_Init` and is arbitrary. The history variable
`tags` gives every byte in the ring the packet, call and place in the frame it was
written for, which is what the refinement mapping and the invariant read, and `lost` is
the longest frame the running call has thrown away.

**PointerQueue.** A byte the queue puts or takes is a step of `RingQueue` and of
`RingBuf` at once. The two keep their bytes apart; that they are the same bytes
is proved (`SameBytes` in `RingQueueProofs`).

**MqttClient.** Variables are the fields of `MQTT_Client`; `posted` is the event queue
of the task (one event: a post on a full queue is lost, as `MQTT_TASK_QUEUE_SIZE` is
1); `link`, `session`, `inflight` are the TCP connection of `pCon` and the broker;
`lookup` and `stale` count DNS answers that are outstanding for this `pCon` and for
ones freed since; `hostIsIp`, chosen at the start, says whether the host needs a
lookup at all. `MQTT_Task` has one action per case of its switch. The environment: TCP
connects or fails, reports a packet sent, closes or fails at any time; the resolver
answers an address, zero or nothing, at once from its cache or later;
`espconn_connect`, whose result the code ignores, is taken to accept the connection;
the broker answers CONNECT first and once and then sends what it likes in segments of
one or more packets. Reading a freed `pCon` in `mqtt_dns_found` is undefined: either
the old contents are found or the device restarts (`Crash`).

**WifiLink.** `wifi_check_ip` has one action per branch, each with the telling of the
application at its end. The station of the SDK changes its status by itself until it
is told to disconnect. `update` is the flag the setup handler raises, `reloaded` the
history that a refused request has loaded other settings into memory since.

**Device.** What happens between boots: a save is one step here (`ConfigStore` has its
parts) and flips the header as the code does, a `Restart` loads what the header
selects, and `wifiConnectCb`, which every poll of the linker may call, gives MQTT the
host and port. The host is a pointer into `cfg` and the port a copy, so a lost
connection (`Reconnect`) goes to the host in memory then and to the port of the last
connect. Whether MQTT is connecting is `told = "GOT_IP"`; how it goes about it is
`MqttClient`.

**ConfigStore.** A step of `config_save` is one flash operation. NOR flash: an erase
sets all bits, a write only clears bits, so the header byte, written without an erase,
can only go 0xFF, 1, 0. `last` and `previous` remember the last two settings saved,
`faults` what went wrong.

**Weather.** `timer` is `_weather_update_timer`; `phase` is the connection of a
download's context, `data` its `receivedHeader`, `length` and `buf_pos`, with the true
length of the body as history. A stop disarms the timer only, so downloads of several
starts overlap. A lookup that is answered from the cache is lost with its context, and
a header the parser cannot read leaves any length at all (`GarbledSegment`); the
history variable `missed` remembers a lookup that ended without a callback or without
an address. The server sends no more body than it announced, and no more than the
buffer holds.

**Upgrade.** `ctx` is the `flash_get_context` of a download, `response` what the
server still has to send it, `slot` the flash at `NEW_ROM_START`, whose bytes are
named by their place in the image, and `flagged` that the boot configuration names the
slot. `receive_cb` has one action per state, with the handler of `upgrade.c` that the
state calls; `FLASHGET_CANCEL` is never entered. A segment holds a header and any
number of bytes behind it, or any number of bytes of body, or is a header that is cut
or that the parser cannot read (`misread`), after which any length is parsed and
anything is written. Every flash operation may fail, power may be lost between any two
handlers, and the boot loader takes the slot at the next boot. The history variable
`trouble` remembers what went wrong since a download last had the slot to itself. The
environment is assumed to serve one image, to honour ranges and to send nothing on a
connection after `espconn_disconnect`.

**WebServer.** `list` is the list of clients, `client` their fields, `sends` the sends
of a peer that TCP has not reported, `toCome` what a peer has still to send of the
body it announced, `got` what it received of the response, named by its places. `held`
is what a client's pointers to its request blocks are: null, allocated, or dangling
once `webserver_cleanup_client_request` has freed them; freeing a dangling one makes
the `heap` broken, after which the device goes on or restarts. A resource is a file of
a constant length or an answer of the API whose length the handler chooses. Assumed of
the peers: they do not send a request before the last was answered; a header arrives
whole in the first segment; only the API is sent a body; the first segment carries no
more body than the buffer, into which it is copied unchecked (websrv.c:194); an address
connects again only after its disconnection was reported. Assumed of TCP: it takes every
send. `espconn_send` may decline one (websrv.c:248, 270) and the code does not look; no
sent callback comes then, and the client waits for its idle timeout.

**WifiScan.** `ap_count` stands for the entries of `ap_list` that are allocated.
`pending` counts the scans that the SDK took on; a scan may be declined, and a scan
that failed hands over any list. `waiting` remembers who asked for a refresh.

**SetupPage.** Each click on Refresh is a user of `WifiScan` and a chain of requests
and timers; `stage` says where it is, from the request for a scan on its way to the
device, through the rounds of timer and list, to the end. A request is served when
`WifiScan` takes its action, its answer arrives in a step of its own, and either may
be lost. `overlay` covers the page during the form's requests and takes the clicks.

**MqttMsg.** Packets are sequences of bytes. A builder works on the set of what it has
built so far, empty once something did not fit. `in_buffer` keeps the bytes of older
segments behind those of the last. What the broker sends is delivered in segments cut
and joined anywhere `Cuts` allows. `asked` and `due` are histories: what was to be
built, and which packets lie untouched in segment and stream, and where. A fifth byte
of remaining length is shifted out of an `int` (mqtt_msg.c:142): any length may come of
it (`AnyInt`). `MqttClient` has packets as model values and the same receive handler,
for its states.

**JsonDoc, JsonParse, JsonTree.** A text is a sequence of symbols, where a word the
firmware compares with is one symbol. Names of members are sequences too, cut where a
shorter name may end (`Names`), since `jsonparse_strcmp_value` compares no further than
the member's name goes. `JsonDoc` has the documents and the text that
`JSON.stringify` makes of each: the reference. `Symbol` follows the cases
of `jsonparse_next` one by one, with its stack of brackets; a search (`Find`) takes a
parser and returns another. `JsonTree` prints an element at a time into a buffer that
drops what does not fit.

**UrlText, WeatherText.** The functions of `http.c`, `utils.c` and `weather.c` on such
texts. Where the code goes on with a variable it never set, the result is a choice.

**DeviceText.** `cfg.bytes` is the memory of the three string fields of `Config`, NULs
and padding included, because a string that fills its field runs on into the next.
`flash` and `header` are those of `ConfigStore`, with its choice of sectors, and begin
erased, as a device is delivered: a refused request and a restart load what the header
selects. The histories are `saves` and `last`, the number of saves and what the last
was asked for; `found`, what a load would find was asked for; and `typed`, what the
settings in memory were. All are `Unknown` for erased flash. While memory is erased its
strings have no end, and to print or to use them may do anything (`Legible`,
`Anything`). `event` is what the device did last: answered, connected, began a download
or read a report. Requests range over documents, the page's own and other senders', and
are read from their text; URLs are records, and are read from theirs.

**I2c, Sensor.** A function of `i2c.c` is the sequence of its calls of `i2c_sda`,
`i2c_sck` and `i2c_read`; `call` is the running function and `at` how many of its calls
it has made. The sensor is a state machine of edges: a start or stop when SDA moves
while SCK is high, nine pulses to a byte, and it pulls SDA only when SCK falls. `Sensor`
runs the transfers of `BME280_Init` and of the captures. `transfers` is what either has
still to do; `stage` says what comes when the running function returns, from `start`
over `put`, `check` and `acked` for each of the first three bytes to `read`, `answer`
and `stop`; `count` bytes were acknowledged and `got` read. `verify` is reached whether
or not the identifier was acknowledged, since nobody looks, so a sensor that is absent
ends `BME280_Init` there. `BME280_sendI2cRead` returns no value when all went well
(undefined; its caller goes on or gives up). What the sensor sends is any bit, except
its chip identifier, so a sensor may be absent, a BME280 or another chip. A restart of
the device in the middle of a byte is not modelled: the software restarts between
transfers only.

## What the runs check

| Run | Instance | Questions |
|---|---|---|
| `queue` | 7 cells, 5 packets (empty, plain, all escapes, one that cannot fit), 4 calls | `ImplementsFifo`, `ImplementsQueue`, `AtFrameStart`, `LosesOnlyShorter`, `CallsEnd` |
| `mqtt` | an address or a name for a host, cached and late answers, 1 publication, queue of 2, timeouts 2/1/1, 7 segments, one lookup for a freed connection | `WorkIsPosted`, `SessionIsReal`, `SomeoneAnswers`, `StaysDisconnected`, `Recovers`, `QueueMoves` |
| `msg` | buffers of 136 bytes, identifiers up to 2, topics around the lengths where a second length byte is needed and where the buffer ends, 5 kinds of packet from the broker of which it sends 3, one place to cut | `BuiltAsAsked`, `ReadAsSent`, `AckMatches`, `ReadInBounds` |
| `device` | 2 networks and none, with different hosts and ports, and erased flash; limit 2, 1 restart | `SettingsInUse`, `FallsBack`, `HearsOfStation` |
| `texts` | fields of 8 bytes, 20 requests, 3 scans, 6 URLs, 6 weather reports | `SettingsArrive`, `AnsweredAsAsked`, `DownloadUnderstood` |
| `config` | 3 different settings | `LoadLags`, `SomethingSurvives` |
| `weather` | 2 contexts, 2 starts, bodies of 1 and 2 bytes | `OneChainPerStart`, `ReportIsWhole`, `GoesOn`, `WindsDown` |
| `upgrade` | 1 context, 2 announcements, an image of 5 bytes in chunks of 2 | `ActivatedIsWhole`, `Completes` |
| `web` | 2 peers, a buffer of 2, files of 1, 4 and 5, answers of 1 and 3, requests of up to 3 | `OneSend`, `HeapSound`, `BodyInOrder`, `WholeBody`, `Answered` |
| `scan` | 2 clicks on the page, another browser, lists of up to 2 of 3 found | `NothingOverwritten`, `ListIsFresh`, `RefreshEnds` |
| `sensor` | a sensor that is absent, a BME280 or a chip of another identifier | `Aligned`, `WrittenIsTaken`, `KeepsReading` |
| `config_activate` | instance of `config` | a comment the code does not live up to (below) |

Bounds. A ring of 7 bytes holds two short frames and cuts a third at every place, a wrap
comes after one packet, and one packet does not fit at all; four calls fill it, evict
and refuse; that the ring is a FIFO at every size is proved. `QueueMoves` needs a second
tick of the send timeout to tell "expired" from "sent", hence 2. A queue of two packets
is empty, moving and full; `Bounded` is where the bound is applied, and a publish always
has an outcome within it because the loop may evict everything. Two clients' worth of
stale lookups show nothing one does not. Three settings tell the last, the one before
and an older one apart. In `device` the two networks differ in every setting, so that
one taken from the wrong record shows; a second failed poll tells counting from falling
back at once, and one restart puts flash in place of memory, with the loads that lag
behind. In `texts` a field of 8 bytes is filled to the last byte, overfilled and left
short; requests are the page's, and others with members missing, of another type,
reordered, nested in objects and arrays before and behind, with names that only begin
those sought, and with blanks; names of members occur as values, with quotes,
backslashes and brackets in them. URLs have a port, a path, a colon in the path, or none
of these. Lists, downloads and reports touch no settings and come before the first save
(`Apart`); saves, refused requests, restarts and connections are unbounded, and after
three saves the header no longer moves. Two starts are what it takes for one download to
outlive a stop and meet the next start's; a body of two bytes is cut before, in and
behind its middle. Five bytes in chunks of 2 are two whole chunks and a short one, each
with a cut; two announcements are a download over what an earlier one left. Downloads
that overlap in two contexts are left to the proof of `ActivatedIsWhole`, which holds
for any set of contexts. A buffer of 2 makes a file of 4 end with a chunk and a file of
5 within one. A buffer of 136 bytes is just longer than the packets whose length takes
two bytes (from 128), so both ends of the second byte and of the buffer are met;
identifiers wrap from 2 to 1. Three packets are enough for one that was cut, one behind
it and one that finds the bytes of both in `in_buffer`; that nothing changes with more
packets, other cuts and other lengths is proved. In `MqttMsg` the application builds
only when nothing is on its way, and what was built is forgotten when the broker acts:
builder and reader share nothing but the identifier. `Sensor` has no bounds: its states
are finite. The run has a chip of the right identifier and one of another; every set of
bytes is covered by the proofs.

Fairness. `MqttClient`: the scheduler runs a posted task and an armed timer (weak
fairness of `MQTT_Task` and `mqtt_timer`); TCP reports the outcome of an attempt to
connect, of a packet handed to it and of a disconnect, within its own timeouts.
Nothing is assumed of the broker, the resolver, or the application. `Device`: the
linker's armed timer fires; a station that lasts or fails for good is a premise of its
properties, not an assumption. `Weather`: the timer fires, the resolver answers, TCP
reports the outcome of an attempt to connect and of a disconnect; that servers answer
is a premise of `GoesOn` and `WindsDown`, not an assumption of the model. `Upgrade`:
the resolver answers, TCP connects, and the server sends what was asked for.
`WebServer`: TCP reports the sends it was handed, and a peer sends the body it
announced, unless it goes. `SetupPage`: the SDK ends the scans it took on, and the
browser its timers and requests. `Sensor`: the program runs on, and the loop's timer
fires. `PointerQueue`: a handler that has begun is run to its end. `RingQueue` stops for
good after `MaxCalls` packets, so its run does not check for deadlock; the other runs
do.

## What the models show about the code

* With a host **name**, two things keep the client in `TCP_CONNECTING` with nobody to
  answer: `espconn_gethostbyname` answering at once from its cache (the result is
  ignored, mqtt.c:937), and any answer after that, because `client->ip` is then set
  (mqtt.c:86). `SomeoneAnswers`, `StaysDisconnected` and `Recovers` are therefore
  stated for the host as an address (`hostIsIp`).
* `MQTT_CONNECT_SENDING` has no timeout: when the CONNECT packet is not taken
  (mqtt.c:551) or the broker is silent, only TCP can end the wait.
* `mqtt_tcpclient_connect_cb` running between `MQTT_Disconnect` and the task
  overwrites `TCP_DISCONNECTING`: the client goes on into a session with its timer
  disarmed. `StaysDisconnected` is about opening connections, and holds.
* `sendTimeout` wakes nobody when it runs out, so after a send that failed the queue
  waits for the keep-alive, a segment or a publication. `QueueMoves` says under which
  timing the queue moves all the same.
* A publish whose frame the ring cannot hold throws away everything queued before it
  is refused, although no loss could have made room. All of it is shorter: one packet
  with as long a frame ends the loop (`LosesOnlyShorter`).
* `config_save` writes the sector that the header selects and then flips the header,
  and `config_load` reads the sector the header selects: after the first save of an
  erased device a boot loads the blank sector (run `config_activate`; the comment at
  config.c:24 says "activate new config"). The header is not erased before it is
  written, so from the second save on it stays at 0 and both use sector B (`LoadLags`:
  at most one save behind, and from the third save on none).
* Nothing rearms the weather timer after a lookup that fails (weather.c:203) or is
  answered from the cache (weather.c:243): the weather then stops until WiFi comes
  back. `GoesOn`, and `SomeoneContinues` of the proofs, speak of a client that no
  lookup let down.
* A weather download that is in flight when the WiFi goes arms the timer again after
  `weather_stop`; the client comes to rest only because the next lookup fails
  (`WindsDown`).
* A failed write of the image is not noticed: the error is taken back two lines after
  it is set (upgrade.c:113), and the slot is flagged: `trouble` has it, and
  `ActivatedIsWhole` makes no promise then.
* Bytes of a chunk that arrive behind its header are dropped (flashget.c:121). No
  broken image comes of it, because the counters then never meet the end of the chunk
  (`Lags` in the proofs), but the download waits for ever; and so it does after a
  failed erase or a lost connection.
* Announcements during a download share the slot, and `flag_bootloader_new_rom`
  returns no value when it succeeds, so the device may go on running, and take
  announcements, with the slot flagged. `ActivatedIsWhole` makes no promise then, and
  none for a header that was misread.
* A set request that is refused reloads `cfg` from flash, and may so replace the
  settings in use by older or blank ones, since a load lags behind (the comment at
  api_setup.c:130 says "reload values if they were mutated"). After the first save of
  an erased device a refused request or a restart brings back the blank sector, after
  the second what the first had saved, and from the third on what was saved last
  (`found` in `DeviceText`).
* Until the linker's next poll after a save, a lost connection is tried again with the
  new host and the old port: `mqttClient->host` points into `cfg` and the port is a
  copy. After a refused request, which may load other settings, the station and MQTT
  go on with theirs until the next connection. `SettingsInUse` says when all agree.
* An SSID that fills its 32 bytes runs on into the password where it is printed: the
  answer to "get" then holds both. The station still gets both right, as the SDK reads
  no more than 32 bytes and the password is written last (`SettingsArrive` has it;
  `Readable` excepts it from `AnsweredAsAsked`).
* Passwords are cut to 32 characters where WPA allows 63, and a port outside 16 bits
  is taken modulo 65536, without an error.
* jsontree.c escapes quotes but no backslash (`Readable` again).
* Names are compared up to the length of the member's (jsonparse.c:342): a member whose
  name begins the one sought is taken for it, an empty one for any, and the first such
  member counts, so `{"t": "set", ...}` is a set request and "mqtt" before "mqttHost"
  gives the host. The properties go by that rule (`Under`).
* A search for a member does not end with the object: when "setup" lacks a name, one in
  an object behind it is found (`Strays`).
* `http_get_host_from_url` returns -1 as an unsigned 255, and its callers ask whether
  it is below 0, so the error is never seen of a URL whose host has no end, having neither
  port nor path (http.c:149): the host that is looked up is then what the caller's
  buffer held. A colon in the path is taken for the port's where there is none.
  `DownloadUnderstood` excepts both (`Ends`). The upgrade connects to port 80 whatever
  its URL says.
* `UTILS_StrToIP` takes any text that begins with three numbers and dots for an address.
* A report without "current", "icon" or "temp" sets the weather from what the stack
  held: no error of a search is looked at (weather.c:97).
* The status `SCAN_ERROR` of a scan that failed is overwritten three lines on
  (wifi_scan.c:34), so the branch that prints "SCAN ERROR" (api_wifi_scan.c:75) and
  the one of the setup page that waits for it (wifiSetup.js:143) are never taken. A
  scan that the SDK declines leaves the status at SCANNING for ever, as no refresh
  starts another (`RefreshEnds` excepts it).
* The Refresh button of the page comes back with the first answer of the loop, so loops
  overlap (`ListIsFresh` holds all the same); a request that fails is handled by nobody
  and leaves the button disabled if it was the first (wifiSetup.js:155), and the page
  says "Rebooting.." where the device takes the settings without a restart
  (wifiSetup.js:121). Users who keep starting scans keep the loop of another going:
  `RefreshEnds` assumes that they stop.
* An answer of the API longer than `WEB_SRV_BUF` repeats its beginning:
  `websrv_api_response_body_chunk` copies from the start of the answer whatever the
  progress (websrv_api.c:82). `BodyInOrder` speaks of files and of shorter answers.
* A body longer than the buffer is never answered (websrv.c:210; `Answered` excepts
  it), and what a client holds for its request is not freed when its connection goes.
* A malformed request on a connection that was served before frees its request blocks
  a second time (websrv.c:136; `HeapSound` excepts it).
* A PUBLISH whose topic is cut off hands `mqttDataCb` a null topic with the length of
  the segment (mqtt.c:111, user_main.c:83). Packets behind one that is no PUBLISH are
  dropped, the end of a packet that was cut is parsed as a packet, and identifiers
  start again with every connection while older packets are still queued.
  `mqtt_msg_disconnect` is never called.
* Most stop conditions of the I2C driver are none: `i2c_send_ack` leaves SDA high
  (i2c.c:144) and `i2c_stop` does not pull it low first. The capture acknowledges its
  last byte (i2c_bme280.c:384), so the sensor goes on sending, may hold SDA low, and
  then misses the next start. `Aligned` and `WrittenIsTaken` hold all the same: of
  whatever the sensor is left in, no byte is taken for another and no register is
  written by mistake. But a trigger of a measurement may be lost, and as its result is
  ignored (i2c_bme280.c:337) the measurement before is read and published again.
* A sensor that does not answer at start leaves `BME280_OperationMode` at NORMAL and
  the calibration empty until the next start.

## Proofs

TLAPS proves these for every value of the constants; `theorems` in `PROJECT.json` says
what each establishes.

* `RingQueueProofs`, the ring: `RingTypeCorrect`, `PointersCorrect`, `RingIsFifo`.
  Invariant: `TypeOK /\ PointersAgree`. Assumption: at least 2 bytes, as `RINGBUF_Init`
  insists.
* `RingQueueProofs`, the queue: `TypeCorrect`, `ReadsAtFrameStart`,
  `RefusalLosesOnlyShorter`, `RingImplementsQueue`, `PointersImplementFifo`. The bytes
  alone do not say where a packet ends or which was cut short, so the invariant `IInv`
  speaks of the tokens behind them: each follows from the one before it or opens a frame
  (`RingInv`), the writer continues the last (`PutInv`), the parser has kept exactly the
  bytes of the frame it is in (`GetInv`). `LosesOnlyShorter` needs an account of the
  room as well (`RoomInv`): what is free is at least what was taken of the frame that is
  being thrown away, and afterwards at least what is still to be written of a frame no
  longer than it. For the ring under the queue, the facts of the ring give `SameBytes`:
  the pointers enclose the queue's bytes. Assumptions: the ring has at least 2 bytes and
  packets fit the caller's buffer.
* `MqttClientProofs`: `WorkAlwaysPosted`, `SessionAlwaysReal` for any host, and
  `SomeoneAlwaysAnswers`, `DisconnectionLasts`, which speak of an IP address. The
  first two are inductive together; the others need `IpInv`: with an address no lookup
  is ever outstanding, the timer is armed exactly while a connection is wanted, and a
  reconnection is only due while one is wanted.
* `DeviceProofs`: `TypeCorrect`, `FallBackIsTold` (in access point mode, where nobody
  polls the station, the application knows that it is offline) and
  `SettingsAreUsed`. `SettingsInUse` is not inductive: a lost connection is
  tried again with the copy of the port, so the invariant adds that the copy is current
  too (`PortIsCurrent`). Assumption: erased flash reads as no settings a user saves.
* `DeviceProofs`, the sensor: `SensorSafe`, `ReadsAligned`, `WritesAreTaken`. Neither
  property says anything of the transfers in between, and those are where driver and
  sensor part: a capture acknowledges its last byte or is given up with the sensor
  sending, and then the next start may not be one. The invariant `SensorInv` says, for
  each stage and each call within it, where the sensor is. It is absent (`Gone`), in step
  with the driver, waiting for a start (`Deaf`), or it took the beginning of a transfer
  for clock pulses of the byte it was sending and is k of them ahead (`Missed`). A sensor
  ahead puts its data where the driver looks for acknowledgements, and finds its own in
  one of the driver's bits: after a 0 it sends on, after a 1 it is deaf. `WrongBits`
  says which bits of 236, 244, 247 and 37 these are. A 1 is among them before the third
  byte is done with, so a sensor out of step never seems to have taken a whole request.
  How far ahead it can be depends on what the driver has still to do, which is why the
  program is part of `Missed`. Assumption: what a chip identifies itself with are bytes.
* `SetupProofs`, the settings in flash: `SettingsSurvive`, `LoadNeverLagsMore`. The
  invariant ties the header to the sectors: 1 means A was saved whole and is not
  written again before the header falls to 0, and from then on only B is.
* `SetupProofs`, the scan and the page: `NothingIsOverwritten`, `PageUsesScan`,
  `ListsAreFresh`. Status, list and the scans of the SDK are kept in step by three
  functions: `StatusTells` says that SCANNING lasts exactly as long as a scan or a
  declined one, that only a finished scan leaves a list, and that nobody waits
  otherwise. The page is one more user of the scan, each of its steps a step of the
  scan or none of its business (`PageUsesScan`), so the scan's invariant holds under
  it. A chain knows the device from its answers, which are old when it looks;
  `ChainTold` says for each of its stages what an answer still says of its own wait.
  Assumptions: the list may have an entry, and those who click are users.
* `MqttMsgProofs`: `PacketsAreBuilt`, `PacketsStay`, `NothingReadBeyond`, `AcksMatch`,
  `PublishReadAsSent`. The invariant `IInv` has `DueLies` besides the types and
  `BuiltAsAsked`: a packet the broker sent lies in segment and stream where `due` says,
  until its first byte is done with. Without it nothing ties what the handler finds in
  `in_buffer` to what was sent, since deliveries cut the stream and consumed packets
  shift it. Three lemmas carry the rest. `FrameRead`: whoever reads a frame, builder's
  or broker's, with anything behind it, finds its length and its body. `AppendedHolds`:
  what the builders have appended is what they were to append, or nothing once it did
  not fit. `PublishRead`: where topic, identifier and data of a PUBLISH lie. That the
  first byte below 128 ends the length is a CHOOSE over positions, and exists by the
  least-element principle. Assumptions: a buffer holds an acknowledgement and no more
  than two bytes of length can announce; what the application asks for is bytes, and so
  is what the broker sends, with lengths that two bytes can announce, a name for a
  topic, and an identifier other than 0 where one is needed.
* `WeatherProofs`: `TypeCorrect`, `SomeoneAlwaysContinues`, `OneChainEach`,
  `ReportsAreWhole`. The invariant `Received` says what each context holds: that a
  first segment finds it empty is what bounds `buf_pos`. Assumption: `Downloads` is
  finite, for its cardinality.
* `UpgradeProofs`: `TypeCorrect`, `OnlyWholeActivated`. Each context either is in step
  with its response or lags behind it for good (`Fits`), whatever other downloads do;
  as long as no trouble spoils the slot there is one download, and the slot holds the
  image up to where it stands (`Alone`). Assumption: image and chunk have a length.
* `WebServerProofs`: `NoneStalls`, `FreedOnce`, `BodiesInOrder`, `BodiesAreWhole`. The
  invariant has four parts: a client's state fixes its sends (`Steady`), what its
  pointers are follows from its state and history (`Freed`), what is still due of a
  request (`Due`), and what was sent of a response (`Sent`). Assumptions: the buffer,
  files and answers have at least one byte.

Type correctness is proved where a proof needs it, and not run for itself. Only
model-checked: every liveness property (fairness and `ENABLED` are out of the prover's
reach); the JSON modules and `DeviceText`, whose parser, writer and searches are
RECURSIVE.

## Not modelled, and why

* The BME280 compensation: pure arithmetic whose 64-bit products TLC, which computes
  in 32 bits, cannot evaluate.
* Taking the lines of an HTTP header apart, and writing those of a request. The callers
  are modelled with every outcome it leaves: read, refused or misread.
* The constant answers of `api_status.c` and to an unknown action, and which file a
  name stands for (`file.c` reads constant tables).
* `run_state` as a component of its own: its flags are with the components using them.
* What nothing calls: `MQTT_DeleteClient`, `PROTO_Add` and `PROTO_Parse`,
  `UTILS_IsIPV4`, `UTILS_Atoh`, `mqtt_msg_disconnect`, jsontree's callbacks and paths;
  and the SSL branches, which are never taken with `DEFAULT_SECURITY` 0.
* The display, the other drivers and the fonts: output from values kept elsewhere, and
  vendored tables.
* Logging.

What could come next: peers of the web server that pipeline requests or cut headers,
and sends that TCP declines;
MQTT and the weather joined under one `wifiConnectCb`, with the sensor's publications
as their load; a restart of the device in the middle of a transfer of the sensor.
