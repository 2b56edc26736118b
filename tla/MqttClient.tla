------------------------------ MODULE MqttClient ------------------------------
(***************************************************************************)
(* The MQTT client of src/mqtt/mqtt.c: its connection state machine, its   *)
(* one-second timer, its task and the outbound queue, with the TCP stack,  *)
(* the resolver and the broker as the environment.  The firmware never     *)
(* preempts a callback, a timer or a task, so each handler is one action.  *)
(*                                                                         *)
(* The outbound queue is the queue of whole packets that RingQueue         *)
(* implements (MsgQueue), one call per step.                               *)
(***************************************************************************)
EXTENDS Integers, Sequences
LOCAL INSTANCE SequencesExt

CONSTANTS
  DnsCaches,           \* espconn_gethostbyname may answer at once
  SendTimeout,         \* MQTT_SEND_TIMOUT, in seconds
  KeepAliveHalf,       \* connect_info->keepalive / 2, in seconds
  ReconnectTimeout,    \* MQTT_RECONNECT_TIMEOUT, in seconds
  Publications,        \* packets the application queues
  Segments,            \* what the broker may send in one TCP segment
  MaxQueue,            \* bound: packets in the queue
  MaxStale             \* bound: lookups pending for freed connections

ASSUME HostAssumption == DnsCaches \in BOOLEAN
ASSUME TimeAssumption == /\ SendTimeout \in Nat \ {0}
                         /\ KeepAliveHalf \in Nat
                         /\ ReconnectTimeout \in Nat
ASSUME BoundAssumption == MaxQueue \in Nat \ {0} /\ MaxStale \in Nat

VARIABLES
  connState,           \* client->connState
  timerArmed,          \* mqttTimer is armed
  keepAliveTick, reconnectTick, sendTimeout,
  pendingType,         \* mqtt_state.pending_msg_type
  msgQueue,            \* the packets in client->msgQueue, oldest first
  ipSet,               \* client->ip.addr is not 0
  posted,              \* the task's queue of one event is full
  link,                \* the TCP connection of client->pCon
  session,             \* what the broker has accepted on that connection
  inflight,            \* TCP has yet to report the last packet as sent
  lookup,              \* a DNS answer for client->pCon is outstanding
  stale,               \* how many are outstanding for a pCon freed since
  wanted,              \* history: the application's last wish
  hostIsIp             \* UTILS_StrToIP accepts the configured client->host

client == <<connState, timerArmed, keepAliveTick, reconnectTick, sendTimeout,
            pendingType, msgQueue, ipSet>>
network == <<link, session, inflight, lookup, stale>>
vars == <<connState, timerArmed, keepAliveTick, reconnectTick, sendTimeout,
          pendingType, msgQueue, ipSet, posted, link, session, inflight,
          lookup, stale, wanted, hostIsIp>>

\* The states of tConnState that mqtt.c assigns.
ConnState == {"WIFI_INIT", "TCP_DISCONNECTING", "TCP_DISCONNECTED",
              "TCP_RECONNECT_DISCONNECTING", "TCP_RECONNECT_REQ",
              "TCP_RECONNECT", "TCP_CONNECTING", "MQTT_CONNECT_SENDING",
              "MQTT_DATA", "MQTT_KEEPALIVE_SEND"}
InSession == {"MQTT_DATA", "MQTT_KEEPALIVE_SEND"}

\* "none": pCon is NULL; "idle": allocated, nothing asked of TCP or TCP done.
Link == {"none", "idle", "opening", "open", "closing"}

Packet == Publications \cup {"SUBSCRIBE", "PUBACK", "PUBREC", "PUBREL",
                             "PUBCOMP", "PINGRESP"}
TypeOf(p) == IF p \in Publications THEN "PUBLISH" ELSE p

-----------------------------------------------------------------------------
(* The event queue of the task: system_os_post fails while an event is     *)
(* queued, and every event says the same.                                  *)
Post == posted' = TRUE

(* The outbound queue, as MsgQueue has it.                                 *)

\* MQTT_Publish and its kin: the oldest packets go until there is room; if
\* none is left and there is none, the packet is refused.
Insist(q, p) == {Append(SubSeq(q, k, Len(q)), p) : k \in 1 .. Len(q) + 1} \cup {<<>>}

\* QUEUE_Puts on its own, in the receive handler.
Offer(q, p) == {Append(q, p), q}

Bounded(queues) == {q \in queues : Len(q) <= MaxQueue}

-----------------------------------------------------------------------------
(* TCP, as the client uses it.                                             *)

\* espconn_abort and espconn_delete, and os_free of pCon.  A lookup that was
\* given the freed pCon still answers.
Abandon == /\ stale' = IF lookup THEN stale + 1 ELSE stale
           /\ stale' <= MaxStale

\* espconn_disconnect; on a pCon that never connected it reports nothing.
espconn_disconnect ==
  /\ link' = CASE link = "open" -> "closing"
               [] link = "opening" -> "idle"
               [] OTHER -> link
  /\ UNCHANGED <<session, inflight, lookup, stale>>

\* espconn_send takes the packet or returns an error.
espconn_send(ok) ==
  /\ ok => link = "open"
  /\ inflight' = (inflight \/ ok)
  /\ UNCHANGED <<link, session, lookup, stale>>

-----------------------------------------------------------------------------
Init == /\ connState = "WIFI_INIT"
        /\ timerArmed = FALSE
        /\ keepAliveTick = 0 /\ reconnectTick = 0 /\ sendTimeout = 0
        /\ pendingType = "none"
        /\ msgQueue = <<>>
        /\ ipSet = FALSE
        /\ posted = TRUE                       \* MQTT_InitClient posts once
        /\ link = "none" /\ session = "none" /\ inflight = FALSE
        /\ lookup = FALSE /\ stale = 0
        /\ wanted = FALSE
        /\ hostIsIp \in BOOLEAN

\* mqtt_tcpclient_delete.
mqtt_tcpclient_delete ==
  /\ link' = "none" /\ session' = "none" /\ inflight' = FALSE
  /\ lookup' = FALSE
  /\ Abandon

\* MQTT_Connect, for the application and for the task.
Connect ==
  /\ Abandon
  /\ session' = "none" /\ inflight' = FALSE
  /\ keepAliveTick' = 0 /\ reconnectTick' = 0
  /\ timerArmed' = TRUE
  /\ connState' = "TCP_CONNECTING"
  /\ \/ hostIsIp /\ link' = "opening" /\ lookup' = FALSE /\ UNCHANGED ipSet
     \/ ~hostIsIp /\ link' = "idle" /\ lookup' = TRUE /\ UNCHANGED ipSet
     \/ ~hostIsIp /\ DnsCaches /\ link' = "idle" /\ lookup' = FALSE /\ ipSet' = TRUE
  /\ UNCHANGED <<sendTimeout, pendingType, msgQueue>>

\* Mutant: MQTT_Connect does not arm the timer again.
ConnectUntimed ==
  /\ \/ /\ hostIsIp /\ link' = "opening" /\ lookup' = FALSE /\ UNCHANGED ipSet
     \/ /\ ~hostIsIp /\ link' = "idle" /\ lookup' = TRUE /\ UNCHANGED ipSet
  /\ Abandon /\ session' = "none" /\ inflight' = FALSE
  /\ keepAliveTick' = 0 /\ reconnectTick' = 0
  /\ connState' = "TCP_CONNECTING" /\ wanted' = TRUE
  /\ UNCHANGED <<timerArmed, sendTimeout, pendingType, msgQueue, posted, hostIsIp>>

MQTT_Connect == Connect /\ wanted' = TRUE /\ UNCHANGED <<posted, hostIsIp>>

\* Mutant: MQTT_Disconnect leaves the timer armed.
DisconnectKeepsTimer ==
  /\ connState' = "TCP_DISCONNECTING"
  /\ Post
  /\ wanted' = FALSE
  /\ UNCHANGED <<timerArmed, keepAliveTick, reconnectTick, sendTimeout, pendingType,
                 msgQueue, ipSet, network, hostIsIp>>

MQTT_Disconnect ==
  /\ connState' = "TCP_DISCONNECTING"
  /\ timerArmed' = FALSE
  /\ Post
  /\ wanted' = FALSE
  /\ UNCHANGED <<keepAliveTick, reconnectTick, sendTimeout, pendingType, msgQueue,
                 ipSet, network, hostIsIp>>

\* MQTT_Publish; MQTT_Subscribe, MQTT_UnSubscribe and MQTT_Ping differ only in
\* the packet.  A refused packet is not posted.
MQTT_Publish(p) ==
  /\ p \in Publications
  /\ msgQueue' \in Bounded(Insist(msgQueue, p))
  /\ posted' = (posted \/ msgQueue' # <<>>)
  /\ UNCHANGED <<connState, timerArmed, keepAliveTick, reconnectTick, sendTimeout,
                 pendingType, ipSet, network, wanted, hostIsIp>>

-----------------------------------------------------------------------------
\* Mutant: the time to reconnect is noted and the task is not told.
TimerTellsNobody ==
  /\ timerArmed
  /\ IF connState = "TCP_RECONNECT_REQ"
     THEN connState' = "TCP_RECONNECT" /\ reconnectTick' = 0
     ELSE UNCHANGED <<connState, reconnectTick>>
  /\ sendTimeout' = IF sendTimeout > 0 THEN sendTimeout - 1 ELSE 0
  /\ UNCHANGED <<timerArmed, keepAliveTick, posted, pendingType, msgQueue, ipSet,
                 network, wanted, hostIsIp>>

\* mqtt_timer, once a second while armed.
mqtt_timer ==
  /\ timerArmed
  /\ \/ /\ connState = "MQTT_DATA"
        /\ keepAliveTick' = keepAliveTick + 1
        /\ IF keepAliveTick' > KeepAliveHalf
           THEN connState' = "MQTT_KEEPALIVE_SEND" /\ Post
           ELSE UNCHANGED <<connState, posted>>
        /\ UNCHANGED reconnectTick
     \/ /\ connState = "TCP_RECONNECT_REQ"
        /\ IF reconnectTick + 1 > ReconnectTimeout
           THEN reconnectTick' = 0 /\ connState' = "TCP_RECONNECT" /\ Post
           ELSE reconnectTick' = reconnectTick + 1 /\ UNCHANGED <<connState, posted>>
        /\ UNCHANGED keepAliveTick
     \/ /\ connState \notin {"MQTT_DATA", "TCP_RECONNECT_REQ"}
        /\ UNCHANGED <<connState, keepAliveTick, reconnectTick, posted>>
  /\ sendTimeout' = IF sendTimeout > 0 THEN sendTimeout - 1 ELSE 0
  /\ UNCHANGED <<timerArmed, pendingType, msgQueue, ipSet, network, wanted, hostIsIp>>

-----------------------------------------------------------------------------
(* MQTT_Task, one action for each case of its switch.                      *)

TaskReconnect ==
  /\ posted /\ posted' = FALSE
  /\ connState = "TCP_RECONNECT"
  /\ Connect
  /\ UNCHANGED <<wanted, hostIsIp>>

TaskDisconnect ==
  /\ posted /\ posted' = FALSE
  /\ connState \in {"TCP_DISCONNECTING", "TCP_RECONNECT_DISCONNECTING"}
  /\ espconn_disconnect
  /\ UNCHANGED <<client, wanted, hostIsIp>>

TaskDelete ==
  /\ posted /\ posted' = FALSE
  /\ connState = "TCP_DISCONNECTED"
  /\ mqtt_tcpclient_delete
  /\ UNCHANGED <<client, wanted, hostIsIp>>

\* mqtt_send_keepalive.
TaskKeepalive(ok) ==
  /\ posted
  /\ connState = "MQTT_KEEPALIVE_SEND"
  /\ pendingType' = "PINGREQ"
  /\ sendTimeout' = SendTimeout
  /\ espconn_send(ok)
  /\ IF ok THEN keepAliveTick' = 0 /\ connState' = "MQTT_DATA"
     ELSE connState' = "TCP_RECONNECT_DISCONNECTING" /\ UNCHANGED keepAliveTick
  /\ Post
  /\ UNCHANGED <<timerArmed, reconnectTick, msgQueue, ipSet, wanted, hostIsIp>>

\* The result of espconn_send is not looked at: the packet is gone.
TaskSend(ok) ==
  /\ posted /\ posted' = FALSE
  /\ connState = "MQTT_DATA"
  /\ msgQueue # <<>> /\ sendTimeout = 0
  /\ pendingType' = TypeOf(Head(msgQueue))
  /\ msgQueue' = Tail(msgQueue)
  /\ sendTimeout' = SendTimeout
  /\ espconn_send(ok)
  /\ UNCHANGED <<connState, timerArmed, keepAliveTick, reconnectTick, ipSet, wanted, hostIsIp>>

TaskNothing ==
  /\ posted /\ posted' = FALSE
  /\ \/ connState \in {"WIFI_INIT", "TCP_RECONNECT_REQ", "TCP_CONNECTING",
                       "MQTT_CONNECT_SENDING"}
     \/ connState = "MQTT_DATA" /\ (msgQueue = <<>> \/ sendTimeout # 0)
  /\ UNCHANGED <<client, network, wanted, hostIsIp>>

MQTT_Task == \/ TaskReconnect \/ TaskDisconnect \/ TaskDelete \/ TaskNothing
             \/ \E ok \in BOOLEAN : TaskKeepalive(ok) \/ TaskSend(ok)

-----------------------------------------------------------------------------
(* The callbacks of the TCP stack.                                         *)

\* mqtt_tcpclient_connect_cb; it does not look at what espconn_send returns.
mqtt_tcpclient_connect_cb(ok) ==
  /\ link = "opening" /\ link' = "open"
  /\ pendingType' = "CONNECT"
  /\ sendTimeout' = SendTimeout
  /\ inflight' = ok
  /\ session' = IF ok THEN "greeted" ELSE "none"
  /\ connState' = "MQTT_CONNECT_SENDING"
  /\ Post
  /\ UNCHANGED <<timerArmed, keepAliveTick, reconnectTick, msgQueue, ipSet, lookup,
                 stale, wanted, hostIsIp>>

\* Mutant: the task is not told that TCP is ready for the next packet.
SentUnposted ==
  /\ link = "open" /\ inflight
  /\ inflight' = FALSE
  /\ sendTimeout' = 0 /\ keepAliveTick' = 0
  /\ UNCHANGED <<connState, timerArmed, reconnectTick, pendingType, msgQueue, ipSet,
                 posted, link, session, lookup, stale, wanted, hostIsIp>>

\* mqtt_tcpclient_sent_cb; the application's publishedCb only logs.
mqtt_tcpclient_sent_cb ==
  /\ link = "open" /\ inflight
  /\ inflight' = FALSE
  /\ sendTimeout' = 0 /\ keepAliveTick' = 0
  /\ Post
  /\ UNCHANGED <<connState, timerArmed, reconnectTick, pendingType, msgQueue, ipSet,
                 link, session, lookup, stale, wanted, hostIsIp>>

Down == /\ link' = "idle" /\ session' = "none" /\ inflight' = FALSE
        /\ UNCHANGED <<lookup, stale>>

\* Mutant: a connection that was lost counts as one that was given up.
DisconAlwaysWished ==
  /\ link \in {"open", "closing"}
  /\ Down
  /\ connState' = "TCP_DISCONNECTED"
  /\ Post
  /\ UNCHANGED <<timerArmed, keepAliveTick, reconnectTick, sendTimeout, pendingType,
                 msgQueue, ipSet, wanted, hostIsIp>>

\* mqtt_tcpclient_discon_cb: the connection was closed by either side.
mqtt_tcpclient_discon_cb ==
  /\ link \in {"open", "closing"}
  /\ Down
  /\ connState' = IF connState = "TCP_DISCONNECTING" THEN "TCP_DISCONNECTED"
                  ELSE "TCP_RECONNECT_REQ"
  /\ Post
  /\ UNCHANGED <<timerArmed, keepAliveTick, reconnectTick, sendTimeout, pendingType,
                 msgQueue, ipSet, wanted, hostIsIp>>

\* Mutant: an error of TCP is reported while connecting only.
ReconOnlyConnecting ==
  /\ link \in {"opening", "open", "closing"}
  /\ Down
  /\ connState' = IF connState = "TCP_CONNECTING" THEN "TCP_RECONNECT_REQ" ELSE connState
  /\ Post
  /\ UNCHANGED <<timerArmed, keepAliveTick, reconnectTick, sendTimeout, pendingType,
                 msgQueue, ipSet, wanted, hostIsIp>>

\* mqtt_tcpclient_recon_cb: the connection failed, or could not be opened.
mqtt_tcpclient_recon_cb ==
  /\ link \in {"opening", "open", "closing"}
  /\ Down
  /\ connState' = "TCP_RECONNECT_REQ"
  /\ Post
  /\ UNCHANGED <<timerArmed, keepAliveTick, reconnectTick, sendTimeout, pendingType,
                 msgQueue, ipSet, wanted, hostIsIp>>

-----------------------------------------------------------------------------
(* mqtt_tcpclient_recv.  A segment is a sequence of packets; <<>> stands   *)
(* for one that does not fit MQTT_BUF_SIZE.                                *)

Inbound == {"CONNACK", "REFUSED", "PUBLISH0", "PUBLISH1", "PUBLISH2", "PUBREC",
            "PUBREL", "PINGREQ", "OTHER"}

\* What the handler queues in answer to a packet.
Reply == [PUBLISH1 |-> "PUBACK", PUBLISH2 |-> "PUBREC", PUBREC |-> "PUBREL",
          PUBREL |-> "PUBCOMP", PINGREQ |-> "PINGRESP"]

IsPublish(p) == p \in {"PUBLISH0", "PUBLISH1", "PUBLISH2"}

\* Only after a PUBLISH does the handler go on to the next packet.
Handled(segment) ==
  {i \in 1..Len(segment) : \A j \in 1 .. i - 1 : IsPublish(segment[j])}

\* The queues that answering the handled packets of a segment may leave.
Answered(q, segment) ==
  LET replies == [i \in 1..Len(segment) |->
                    IF i \in Handled(segment) /\ segment[i] \in DOMAIN Reply
                    THEN <<Reply[segment[i]]>> ELSE <<>>]
  IN  FoldLeft(LAMBDA qs, r : IF r = <<>> THEN qs
                              ELSE UNION {Offer(o, r[1]) : o \in qs},
               {q}, replies)

First(segment) == IF segment = <<>> THEN "none" ELSE segment[1]

\* A broker answers CONNECT with CONNACK, before anything else and once.
BrokerSends(segment) ==
  /\ link = "open"
  /\ session = IF First(segment) \in {"CONNACK", "REFUSED"} THEN "greeted" ELSE "accepted"
  /\ session' = IF First(segment) = "REFUSED" THEN "none" ELSE "accepted"

\* connectedCb subscribes; every other answer to CONNECT is disconnected, and
\* what is no answer to CONNECT is ignored.
OnConnack(packet) ==
  \/ /\ packet = "CONNACK" /\ pendingType = "CONNECT"
     /\ connState' = "MQTT_DATA"
     /\ msgQueue' \in Bounded(Insist(msgQueue, "SUBSCRIBE"))
     /\ UNCHANGED link
  \/ /\ packet = "REFUSED" \/ (packet = "CONNACK" /\ pendingType # "CONNECT")
     /\ link' = "closing"
     /\ UNCHANGED <<connState, msgQueue>>
  \/ /\ packet \notin {"CONNACK", "REFUSED"}
     /\ UNCHANGED <<connState, msgQueue, link>>

mqtt_tcpclient_recv(segment) ==
  /\ BrokerSends(segment)
  /\ keepAliveTick' = 0
  /\ \/ /\ connState = "MQTT_CONNECT_SENDING"
        /\ OnConnack(First(segment))
     \/ /\ connState \in InSession
        /\ msgQueue' \in Bounded(Answered(msgQueue, segment))
        /\ UNCHANGED <<connState, link>>
     \/ /\ connState \notin InSession \cup {"MQTT_CONNECT_SENDING"}
        /\ UNCHANGED <<connState, msgQueue, link>>
  /\ Post
  /\ UNCHANGED <<timerArmed, reconnectTick, sendTimeout, pendingType, ipSet, inflight,
                 lookup, stale, wanted, hostIsIp>>

-----------------------------------------------------------------------------
(* The resolver.                                                           *)

\* mqtt_dns_found, once it has its MQTT_Client.
DnsAnswer(answer) ==
  \/ /\ answer = "null"
     /\ connState' = "TCP_RECONNECT_REQ"
     /\ UNCHANGED <<link, posted>>
  \/ /\ answer = "addr" /\ ~ipSet
     /\ link # "none"                       \* else client->pCon is NULL
     /\ link' = IF link = "idle" THEN "opening" ELSE link
     /\ connState' = "TCP_CONNECTING"
     /\ Post
  \/ /\ answer = "zero" \/ (answer = "addr" /\ ipSet)
     /\ Post
     /\ UNCHANGED <<connState, link>>

mqtt_dns_found(answer) ==
  /\ \/ lookup /\ lookup' = FALSE /\ UNCHANGED stale
     \/ stale > 0 /\ stale' = stale - 1 /\ UNCHANGED lookup
  /\ DnsAnswer(answer)
  /\ UNCHANGED <<timerArmed, keepAliveTick, reconnectTick, sendTimeout, pendingType,
                 msgQueue, ipSet, session, inflight, wanted, hostIsIp>>

\* A lookup that answers after its pCon was freed reads freed memory: it may
\* find the old contents, as above, or crash, which restarts the device.
Crash ==
  /\ stale > 0
  /\ connState' = "WIFI_INIT" /\ timerArmed' = FALSE
  /\ keepAliveTick' = 0 /\ reconnectTick' = 0 /\ sendTimeout' = 0
  /\ pendingType' = "none" /\ msgQueue' = <<>> /\ ipSet' = FALSE /\ posted' = TRUE
  /\ link' = "none" /\ session' = "none" /\ inflight' = FALSE
  /\ lookup' = FALSE /\ stale' = 0 /\ wanted' = FALSE /\ UNCHANGED hostIsIp

-----------------------------------------------------------------------------
Application == \/ MQTT_Connect \/ MQTT_Disconnect
               \/ \E p \in Publications : MQTT_Publish(p)

Network == \/ \E ok \in BOOLEAN : mqtt_tcpclient_connect_cb(ok)
           \/ mqtt_tcpclient_sent_cb
           \/ mqtt_tcpclient_discon_cb
           \/ mqtt_tcpclient_recon_cb
           \/ \E segment \in Segments : mqtt_tcpclient_recv(segment)
           \/ \E answer \in {"null", "zero", "addr"} : mqtt_dns_found(answer)
           \/ Crash

Next == Application \/ Network \/ mqtt_timer \/ MQTT_Task

Spec == Init /\ [][Next]_vars

\* The scheduler runs a posted task and an armed timer; TCP reports what
\* became of an attempt to connect, of a packet and of a disconnect.
Fairness ==
  /\ WF_vars(MQTT_Task)
  /\ WF_vars(mqtt_timer)
  /\ WF_vars(/\ link = "opening"
             /\ \/ \E ok \in BOOLEAN : mqtt_tcpclient_connect_cb(ok)
                \/ mqtt_tcpclient_recon_cb)
  /\ WF_vars(mqtt_tcpclient_sent_cb)
  /\ WF_vars(link = "closing" /\ (mqtt_tcpclient_discon_cb \/ mqtt_tcpclient_recon_cb))

FairSpec == Spec /\ Fairness

-----------------------------------------------------------------------------
(* The task's event queue holds one event and system_os_post drops what    *)
(* does not fit; still no state that only the task can leave is without an *)
(* event queued.                                                           *)
WorkIsPosted ==
  /\ connState \in {"TCP_RECONNECT", "MQTT_KEEPALIVE_SEND"} => posted
  /\ connState = "TCP_DISCONNECTED" /\ link # "none" => posted
  /\ connState = "TCP_RECONNECT_DISCONNECTING" /\ link = "open" => posted

(* The client believes in a session only on an open connection on which    *)
(* the broker accepted its CONNECT: no packet of the queue is sent ahead   *)
(* of that or left over to the next connection.                            *)
SessionIsReal ==
  /\ connState \in InSession => link = "open" /\ session = "accepted"
  /\ connState = "MQTT_CONNECT_SENDING" =>
       link \in {"open", "closing"} /\ pendingType = "CONNECT"
  /\ connState = "TCP_RECONNECT_DISCONNECTING" => link \in {"open", "closing"}

(* While the application wants a connection, a client that waits waits for *)
(* something that will be reported: TCP's attempt, or the timer.  A client *)
(* that has to look its host up may wait for nobody (see the README).      *)
SomeoneAnswers ==
  hostIsIp /\ wanted => /\ connState = "TCP_CONNECTING" => link = "opening"
                        /\ connState = "TCP_RECONNECT_REQ" => timerArmed

(* After MQTT_Disconnect no new connection is opened before the            *)
(* application asks for one, whatever timers and callbacks were pending,   *)
(* if the host is an address (a lookup that answers late does open one).   *)
StaysDisconnected == [][hostIsIp /\ link' = "opening" /\ link # "opening" => wanted']_vars

(* A connection that was lost, or given up because a keep-alive could not  *)
(* be sent, is tried again unless the application disconnects, if the host *)
(* is an address.                                                          *)
Recovers ==
  hostIsIp /\ wanted /\ connState \in {"TCP_RECONNECT_DISCONNECTING", "TCP_RECONNECT_REQ",
                                        "TCP_RECONNECT"}
    ~> link = "opening" \/ ~wanted

(* The queue moves: of a client that stays in session with packets waiting *)
(* one is sent again and again, if the task has its event and TCP reports  *)
(* a packet within a tick of the timer.  The send timeout wakes nobody     *)
(* when it runs out: when a send fails, it is the keep-alive, or the next  *)
(* segment or publication, that gets the queue moving.                     *)
QueueMoves ==
  /\ <>[](wanted /\ connState \in InSession /\ msgQueue # <<>>)
  /\ <>[][mqtt_timer => ~posted /\ ~inflight]_vars
  => []<><<\E ok \in BOOLEAN : TaskSend(ok)>>_vars
=============================================================================
