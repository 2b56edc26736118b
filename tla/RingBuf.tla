------------------------------- MODULE RingBuf -------------------------------
(***************************************************************************)
(* The ring buffer of src/mqtt/ringbuf.c.  The pointers p_w and p_r of the *)
(* C structure are offsets from p_o here.                                  *)
(***************************************************************************)
EXTENDS RingSize, Sequences

Index == 0 .. Size - 1

VARIABLES buf, p_w, p_r, fill_cnt,
          c            \* what the last RINGBUF_Get stored through its "c"

vars == <<buf, p_w, p_r, fill_cnt, c>>

\* The rollback of a pointer that went past the physical boundary.
Wrap(p) == IF p >= Size THEN p - Size ELSE p

RINGBUF_Init == /\ buf = [i \in Index |-> 0]      \* os_zalloc in QUEUE_Init
                /\ p_w = 0 /\ p_r = 0
                /\ fill_cnt = 0
                /\ c = 0

RINGBUF_Put(b) == /\ fill_cnt < Size
                  /\ fill_cnt' = fill_cnt + 1
                  /\ buf' = [buf EXCEPT ![p_w] = b]
                  /\ p_w' = Wrap(p_w + 1)
                  /\ UNCHANGED <<p_r, c>>

\* Mutant: the read pointer moves before it is read ("*++r->p_r").
GetPreIncrement == /\ fill_cnt > 0
                   /\ fill_cnt' = fill_cnt - 1
                   /\ c' = buf[Wrap(p_r + 1)]
                   /\ p_r' = Wrap(p_r + 1)
                   /\ UNCHANGED <<buf, p_w>>

RINGBUF_Get == /\ fill_cnt > 0
               /\ fill_cnt' = fill_cnt - 1
               /\ c' = buf[p_r]
               /\ p_r' = Wrap(p_r + 1)
               /\ UNCHANGED <<buf, p_w>>

Next == (\E b \in Byte : RINGBUF_Put(b)) \/ RINGBUF_Get

Spec == RINGBUF_Init /\ [][Next]_vars

-----------------------------------------------------------------------------
(* Type correctness: both pointers stay inside the allocation, the fill    *)
(* count inside 0..Size, and every cell holds a byte.                      *)
TypeOK == /\ buf \in [Index -> Byte]
          /\ p_w \in Index /\ p_r \in Index
          /\ fill_cnt \in 0..Size
          /\ c \in Byte

(* ringbuf.c keeps three numbers where two would do: the write pointer is  *)
(* always fill_cnt cells ahead of the read pointer, so an empty and a full *)
(* ring (both with p_w = p_r) are told apart by fill_cnt alone.            *)
PointersAgree == p_w = Wrap(p_r + fill_cnt)

IInv == TypeOK /\ PointersAgree

\* The bytes held, oldest first: the abstract state of the ring.
Content == [i \in 1..fill_cnt |-> buf[Wrap(p_r + i - 1)]]

(* RINGBUF_Put and RINGBUF_Get are the two ends of a first-in first-out    *)
(* queue of bytes: a wrapped pointer neither overwrites an unread byte nor *)
(* returns a stale one.                                                    *)
Fifo == INSTANCE ByteFifo WITH fifo <- Content, got <- c
ImplementsFifo == Fifo!FifoSpec
=============================================================================
