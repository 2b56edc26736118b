---------------------------- MODULE MCMqttClient ----------------------------
EXTENDS MqttClient

CONSTANT p1

\* The broker's answers to CONNECT, a segment too long for the buffer, a
\* packet that needs no answer, and packets that need one: alone, behind a
\* PUBLISH (handled) and behind another packet (dropped).
MCSegments == {<<"CONNACK">>, <<"REFUSED">>, <<>>, <<"OTHER">>, <<"PUBLISH1">>,
               <<"PUBLISH0", "PUBREL">>, <<"PINGREQ", "PUBLISH2">>}
=============================================================================
