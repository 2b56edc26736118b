------------------------------ MODULE ByteFifo ------------------------------
(***************************************************************************)
(* What ringbuf.c promises its callers: a bounded first-in first-out queue *)
(* of bytes.  RINGBUF_Put on a full queue and RINGBUF_Get on an empty one  *)
(* return -1 and change nothing, so they are stuttering steps here.        *)
(***************************************************************************)
EXTENDS RingSize, Sequences

VARIABLES fifo,        \* the bytes held, oldest first
          got          \* the byte the last RINGBUF_Get stored through "c"

fifoVars == <<fifo, got>>

FifoFull == Len(fifo) >= Size

FifoInit == fifo = <<>> /\ got = 0

FifoPut(c) == /\ ~FifoFull
              /\ fifo' = Append(fifo, c)
              /\ UNCHANGED got

FifoGet == /\ fifo # <<>>
           /\ got' = Head(fifo)
           /\ fifo' = Tail(fifo)

FifoNext == (\E c \in Byte : FifoPut(c)) \/ FifoGet

FifoSpec == FifoInit /\ [][FifoNext]_fifoVars
=============================================================================
