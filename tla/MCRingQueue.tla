----------------------------- MODULE MCRingQueue -----------------------------
EXTENDS PointerQueue

\* The packet of a builder that failed (length 0), plain ones, one whose bytes
\* all need escaping, and one too long to fit the ring at all when escaped.
MCPacket == {<<>>, <<65>>, <<126>>, <<66, 67>>, <<127, 125, 126>>}
=============================================================================
