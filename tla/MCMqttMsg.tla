------------------------------- MODULE MCMqttMsg -------------------------------
\* A small instance of MqttMsg for TLC: a buffer just longer than the packets
\* whose length takes two bytes.
EXTENDS MqttMsg

Ones(n) == [i \in 1 .. n |-> 1]

\* 124 is the longest topic whose SUBSCRIBE has a length of one byte, and 122
\* and 123 end there with the data of a PUBLISH.
MCTopics == {<<>>, Ones(124), Ones(125), Ones(129)}
Said(t, d, q) == [topic |-> t, data |-> d, qos |-> q, retain |-> 1]
MCPublications == {Said(Ones(124), <<98>>, q) : q \in 0 .. 2}
                  \cup {Said(t, <<>>, 1) : t \in {<<>>, Ones(130), Ones(132)}}

Client(id, will, user) ==
  [client_id |-> id, will_topic |-> will, will_message |-> <<120>>, username |-> user,
   password |-> <<>>, will_retain |-> TRUE, will_qos |-> 1, clean_session |-> TRUE,
   keepalive |-> 300]
MCInfos == {Client(<<105>>, w, u) : w \in {<<>>, <<119>>}, u \in {<<>>, Ones(110)}}
           \cup {Client(<<>>, <<>>, <<>>)}

Connack == [type |-> 2, qos |-> 0, id |-> 0]
Publish(q, d) == [type |-> 3, qos |-> q, id |-> 258, topic |-> <<97>>, data |-> d]
Acked(t) == [type |-> t, qos |-> 0, id |-> 3]
Pingreq == [type |-> 12, qos |-> 0, id |-> 0]
MCPackets == {Connack, Acked(6), Pingreq, Publish(1, Ones(130)), Publish(2, <<>>)}
=============================================================================
