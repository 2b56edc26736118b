------------------------------- MODULE RingSize -------------------------------
(***************************************************************************)
(* What the ring buffer and the queue it implements have in common.        *)
(***************************************************************************)
EXTENDS Integers

CONSTANT Size          \* RINGBUF.size (QUEUE_BUFFER_SIZE), the bytes of the buffer

\* RINGBUF_Init refuses a buffer of fewer than 2 bytes.
ASSUME SizeAssumption == Size \in Nat /\ Size >= 2

Byte == 0..255         \* U8
=============================================================================
