--------------------------- MODULE MqttClientProofs ---------------------------
(***************************************************************************)
(* What holds of MqttClient for every timeout, queue bound, publication    *)
(* and segment.  The invariants do not depend on what the queue holds.     *)
(***************************************************************************)
EXTENDS MqttClient, TLAPS

\* The two invariants about the connection hold whatever the host is; they
\* are inductive together.
Inv == WorkIsPosted /\ SessionIsReal

LEMMA InitInv == Init => Inv
BY DEF Init, Inv, WorkIsPosted, SessionIsReal, InSession

LEMMA ApplicationInv == Inv /\ Application => Inv'
<1> SUFFICES ASSUME Inv, Application PROVE Inv'
  OBVIOUS
<1> USE DEF Inv, WorkIsPosted, SessionIsReal, InSession, Post
<1>1. CASE MQTT_Connect
  BY <1>1 DEF MQTT_Connect, Connect
<1>2. CASE MQTT_Disconnect
  BY <1>2 DEF MQTT_Disconnect, network
<1>3. ASSUME NEW p \in Publications, MQTT_Publish(p) PROVE Inv'
  BY <1>3 DEF MQTT_Publish, network
<1> QED BY <1>1, <1>2, <1>3 DEF Application

LEMMA TimerInv == Inv /\ mqtt_timer => Inv'
BY DEF Inv, WorkIsPosted, SessionIsReal, InSession, Post, mqtt_timer, network

LEMMA TaskInv == Inv /\ MQTT_Task => Inv'
<1> SUFFICES ASSUME Inv, MQTT_Task PROVE Inv'
  OBVIOUS
<1> USE DEF Inv, WorkIsPosted, SessionIsReal, InSession, Post
<1>1. CASE TaskReconnect
  BY <1>1 DEF TaskReconnect, Connect
<1>2. CASE TaskDisconnect
  BY <1>2 DEF TaskDisconnect, espconn_disconnect, client
<1>3. CASE TaskDelete
  BY <1>3 DEF TaskDelete, mqtt_tcpclient_delete, client
<1>4. CASE TaskNothing
  BY <1>4 DEF TaskNothing, client, network
<1>5. ASSUME NEW ok \in BOOLEAN, TaskKeepalive(ok) PROVE Inv'
  BY <1>5 DEF TaskKeepalive, espconn_send
<1>6. ASSUME NEW ok \in BOOLEAN, TaskSend(ok) PROVE Inv'
  BY <1>6 DEF TaskSend, espconn_send
<1> QED BY <1>1, <1>2, <1>3, <1>4, <1>5, <1>6 DEF MQTT_Task

LEMMA NetworkInv == Inv /\ Network => Inv'
<1> SUFFICES ASSUME Inv, Network PROVE Inv'
  OBVIOUS
<1> USE DEF Inv, WorkIsPosted, SessionIsReal, InSession, Post
<1>1. ASSUME NEW ok \in BOOLEAN, mqtt_tcpclient_connect_cb(ok) PROVE Inv'
  BY <1>1 DEF mqtt_tcpclient_connect_cb
<1>2. CASE mqtt_tcpclient_sent_cb
  BY <1>2 DEF mqtt_tcpclient_sent_cb
<1>3. CASE mqtt_tcpclient_discon_cb
  BY <1>3 DEF mqtt_tcpclient_discon_cb, Down
<1>4. CASE mqtt_tcpclient_recon_cb
  BY <1>4 DEF mqtt_tcpclient_recon_cb, Down
<1>5. ASSUME NEW segment \in Segments, mqtt_tcpclient_recv(segment) PROVE Inv'
  BY <1>5 DEF mqtt_tcpclient_recv, BrokerSends, OnConnack
<1>6. ASSUME NEW answer, mqtt_dns_found(answer) PROVE Inv'
  BY <1>6 DEF mqtt_dns_found, DnsAnswer
<1>7. CASE Crash
  BY <1>7 DEF Crash
<1> QED BY <1>1, <1>2, <1>3, <1>4, <1>5, <1>6, <1>7 DEF Network

LEMMA Invariance == Spec => []Inv
<1>1. Inv /\ [Next]_vars => Inv'
  <2> SUFFICES ASSUME Inv, [Next]_vars PROVE Inv'
    OBVIOUS
  <2>1. CASE Next
    BY <2>1, ApplicationInv, TimerInv, TaskInv, NetworkInv DEF Next
  <2>2. CASE UNCHANGED vars
    BY <2>2 DEF vars, Inv, WorkIsPosted, SessionIsReal, InSession
  <2> QED BY <2>1, <2>2
<1> QED BY InitInv, <1>1, PTL DEF Spec

\* No state of the client that only its task can leave is reached without an
\* event queued for the task, although the queue holds one and posts fail.
THEOREM WorkAlwaysPosted == Spec => []WorkIsPosted
<1>1. Inv => WorkIsPosted
  BY DEF Inv
<1> QED BY Invariance, <1>1, PTL

\* The client takes itself to be in session only on an open connection on
\* which the broker accepted its CONNECT.
THEOREM SessionAlwaysReal == Spec => []SessionIsReal
<1>1. Inv => SessionIsReal
  BY DEF Inv
<1> QED BY Invariance, <1>1, PTL
-----------------------------------------------------------------------------
(* With an IP address for a host no lookup is ever pending, so that nothing *)
(* but MQTT_Connect and the timer it arms opens a connection.               *)

Ip ==
  /\ lookup = FALSE /\ stale = 0
  /\ timerArmed <=> wanted
  /\ connState = "TCP_RECONNECT" => wanted
  /\ wanted /\ connState = "TCP_CONNECTING" => link = "opening"

IpInv == hostIsIp => Ip

LEMMA HostStays == Next => UNCHANGED hostIsIp
BY DEF Next, Application, MQTT_Connect, MQTT_Disconnect, MQTT_Publish, mqtt_timer,
       MQTT_Task, TaskReconnect, TaskDisconnect, TaskDelete, TaskNothing, TaskKeepalive,
       TaskSend, Network, mqtt_tcpclient_connect_cb, mqtt_tcpclient_sent_cb,
       mqtt_tcpclient_discon_cb, mqtt_tcpclient_recon_cb, mqtt_tcpclient_recv,
       mqtt_dns_found, Crash

LEMMA InitIp == Init => IpInv
BY DEF Init, IpInv, Ip

LEMMA ApplicationIp ==
  ASSUME hostIsIp, Ip, Application
  PROVE  Ip'
<1> USE DEF Ip
<1>1. CASE MQTT_Connect
  BY <1>1, hostIsIp DEF MQTT_Connect, Connect, Abandon
<1>2. CASE MQTT_Disconnect
  BY <1>2 DEF MQTT_Disconnect, network
<1>3. ASSUME NEW p \in Publications, MQTT_Publish(p) PROVE Ip'
  BY <1>3 DEF MQTT_Publish, network
<1> QED BY <1>1, <1>2, <1>3 DEF Application

LEMMA TimerIp ==
  ASSUME Ip, mqtt_timer
  PROVE  Ip'
BY DEF Ip, mqtt_timer, network

LEMMA TaskIp ==
  ASSUME hostIsIp, Ip, MQTT_Task
  PROVE  Ip'
<1> USE DEF Ip
<1>1. CASE TaskReconnect
  BY <1>1, hostIsIp DEF TaskReconnect, Connect, Abandon
<1>2. CASE TaskDisconnect
  BY <1>2 DEF TaskDisconnect, espconn_disconnect, client
<1>3. CASE TaskDelete
  BY <1>3 DEF TaskDelete, mqtt_tcpclient_delete, Abandon, client
<1>4. CASE TaskNothing
  BY <1>4 DEF TaskNothing, client, network
<1>5. ASSUME NEW ok \in BOOLEAN, TaskKeepalive(ok) PROVE Ip'
  BY <1>5 DEF TaskKeepalive, espconn_send
<1>6. ASSUME NEW ok \in BOOLEAN, TaskSend(ok) PROVE Ip'
  BY <1>6 DEF TaskSend, espconn_send
<1> QED BY <1>1, <1>2, <1>3, <1>4, <1>5, <1>6 DEF MQTT_Task

LEMMA NetworkIp ==
  ASSUME Ip, Network
  PROVE  Ip'
<1> USE DEF Ip
<1>1. ASSUME NEW ok \in BOOLEAN, mqtt_tcpclient_connect_cb(ok) PROVE Ip'
  BY <1>1 DEF mqtt_tcpclient_connect_cb
<1>2. CASE mqtt_tcpclient_sent_cb
  BY <1>2 DEF mqtt_tcpclient_sent_cb
<1>3. CASE mqtt_tcpclient_discon_cb
  BY <1>3 DEF mqtt_tcpclient_discon_cb, Down
<1>4. CASE mqtt_tcpclient_recon_cb
  BY <1>4 DEF mqtt_tcpclient_recon_cb, Down
<1>5. ASSUME NEW segment \in Segments, mqtt_tcpclient_recv(segment) PROVE Ip'
  BY <1>5 DEF mqtt_tcpclient_recv, BrokerSends, OnConnack, InSession
<1>6. ASSUME NEW answer, mqtt_dns_found(answer) PROVE FALSE
  BY <1>6 DEF mqtt_dns_found
<1>7. CASE Crash
  BY <1>7 DEF Crash
<1> QED BY <1>1, <1>2, <1>3, <1>4, <1>5, <1>6, <1>7 DEF Network

LEMMA IpInvariance == Spec => []IpInv
<1>1. ASSUME IpInv, [Next]_vars PROVE IpInv'
  <2>1. CASE Next /\ hostIsIp
    <3>1. Ip
      BY <1>1, <2>1 DEF IpInv
    <3>2. Ip'
      BY <2>1, <3>1, ApplicationIp, TimerIp, TaskIp, NetworkIp DEF Next
    <3> QED BY <3>2 DEF IpInv
  <2>2. CASE Next /\ ~hostIsIp
    BY <2>2, HostStays DEF IpInv
  <2>3. CASE UNCHANGED vars
    BY <1>1, <2>3 DEF vars, IpInv, Ip
  <2> QED BY <1>1, <2>1, <2>2, <2>3
<1> QED BY InitIp, <1>1, PTL DEF Spec

\* A client with an IP address for its broker never waits for an answer that
\* nobody gives, as long as the application wants a connection.
THEOREM SomeoneAlwaysAnswers == Spec => []SomeoneAnswers
<1>1. IpInv => SomeoneAnswers
  BY DEF IpInv, Ip, SomeoneAnswers
<1> QED BY IpInvariance, <1>1, PTL

\* Only an application that wants a connection gets a new one.
THEOREM DisconnectionLasts == Spec => StaysDisconnected
<1>1. ASSUME IpInv, Next, hostIsIp, link' = "opening", link # "opening" PROVE wanted'
  <2>0. Ip
    BY <1>1 DEF IpInv
  <2> USE <1>1, <2>0 DEF Ip
  <2>1. CASE Application
    BY <2>1 DEF Application, MQTT_Connect, MQTT_Disconnect, MQTT_Publish, network
  <2>2. CASE mqtt_timer
    BY <2>2 DEF mqtt_timer, network
  <2>3. CASE MQTT_Task
    BY <2>3 DEF MQTT_Task, TaskReconnect, TaskDisconnect, espconn_disconnect,
                TaskDelete, mqtt_tcpclient_delete, TaskNothing, TaskKeepalive,
                TaskSend, espconn_send, network
  <2>4. CASE Network
    <3>1. ASSUME NEW answer, mqtt_dns_found(answer) PROVE FALSE
      BY <3>1 DEF mqtt_dns_found
    <3> QED
      BY <2>4, <3>1 DEF Network, mqtt_tcpclient_connect_cb, mqtt_tcpclient_sent_cb,
                        mqtt_tcpclient_discon_cb, mqtt_tcpclient_recon_cb, Down,
                        mqtt_tcpclient_recv, OnConnack, Crash
  <2> QED BY <2>1, <2>2, <2>3, <2>4 DEF Next
<1>2. IpInv /\ [Next]_vars => [hostIsIp /\ link' = "opening" /\ link # "opening" => wanted']_vars
  BY <1>1
<1> QED BY IpInvariance, <1>2, PTL DEF Spec, StaysDisconnected
=============================================================================
