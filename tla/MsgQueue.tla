------------------------------- MODULE MsgQueue -------------------------------
(***************************************************************************)
(* What the outbound message queue promises the MQTT client: a first-in    *)
(* first-out queue of whole packets that makes room by losing its oldest   *)
(* ones.  A packet is held with the number of the QUEUE_Puts call that     *)
(* queued it, so that equal packets stay apart; "oldest" is the least.     *)
(*                                                                         *)
(* Two kinds of caller put packets.  MQTT_Publish, MQTT_Subscribe,         *)
(* MQTT_UnSubscribe and MQTT_Ping ("insist") take packets out until theirs *)
(* is accepted; the receive handler ("offer") tries once.                  *)
(***************************************************************************)
EXTENDS Integers

CONSTANTS Packet,      \* the packets callers queue
          NoPacket     \* what "out" holds when nothing was delivered

VARIABLES held,        \* the packets queued, each [id, packet]
          phase,       \* the call in progress
          incoming,    \* the packet being queued, as [id, packet]
          calls,       \* how many packets callers have asked to queue
          out          \* the packet the last QUEUE_Gets returned

qvars == <<held, phase, incoming, calls, out>>

Phase == {"idle", "insist", "offer", "get"}

Oldest(m) == m \in held /\ \A o \in held : m.id <= o.id

Init == /\ held = {}
        /\ phase = "idle"
        /\ incoming = NoPacket
        /\ calls = 0
        /\ out = NoPacket

Begin(p, kind) == /\ phase = "idle"
                  /\ phase' = kind
                  /\ calls' = calls + 1
                  /\ incoming' = [id |-> calls + 1, packet |-> p]
                  /\ out' = NoPacket
                  /\ UNCHANGED held

\* Only a caller that insists loses packets of others, the oldest first.
Evict(m) == /\ phase = "insist"
            /\ Oldest(m)
            /\ held' = held \ {m}
            /\ UNCHANGED <<phase, incoming, calls, out>>

Accept == /\ phase \in {"insist", "offer"}
          /\ held' = held \cup {incoming}
          /\ phase' = "idle"
          /\ incoming' = NoPacket
          /\ UNCHANGED <<calls, out>>

\* A caller that insists is refused only once everything else is gone.
Refuse == /\ phase = "offer" \/ (phase = "insist" /\ held = {})
          /\ phase' = "idle"
          /\ incoming' = NoPacket
          /\ UNCHANGED <<held, calls, out>>

BeginGet == /\ phase = "idle"
            /\ phase' = "get"
            /\ out' = NoPacket
            /\ UNCHANGED <<held, incoming, calls>>

Deliver(m) == /\ phase = "get"
              /\ Oldest(m)
              /\ held' = held \ {m}
              /\ out' = m.packet
              /\ phase' = "idle"
              /\ UNCHANGED <<incoming, calls>>

\* QUEUE_Gets returns -1 only when no whole packet is held.
Nothing == /\ phase = "get"
           /\ held = {}
           /\ phase' = "idle"
           /\ UNCHANGED <<held, incoming, calls, out>>

Next == \/ \E p \in Packet, kind \in {"insist", "offer"} : Begin(p, kind)
        \/ \E m \in held : Evict(m) \/ Deliver(m)
        \/ Accept \/ Refuse \/ BeginGet \/ Nothing

Spec == Init /\ [][Next]_qvars
=============================================================================
