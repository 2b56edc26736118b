------------------------------- MODULE MCDevice -------------------------------
EXTENDS Device

\* Two networks with brokers that differ in host and port, and no network.
MCSaved == {[ssid |-> "home", host |-> "h1", port |-> 1],
            [ssid |-> "away", host |-> "h2", port |-> 2],
            [ssid |-> "", host |-> "h1", port |-> 2]}
\* 0xFF throughout.
MCErased == [ssid |-> "junk", host |-> "junk", port |-> 65535]
MCSettings == MCSaved \cup {MCErased}
=============================================================================
