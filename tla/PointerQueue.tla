---------------------------- MODULE PointerQueue ----------------------------
(***************************************************************************)
(* RingQueue and RingBuf together: the calls of the queue as RingQueue has *)
(* them, each byte they put or take moving the pointers of the ring that   *)
(* RingBuf describes.  The calls and the ring know of each other only what *)
(* RINGBUF_Put and RINGBUF_Get return, so the steps of a call that touch   *)
(* the ring are steps of both, and a refusal is a refusal of the ring.     *)
(***************************************************************************)
EXTENDS RingQueue

VARIABLES buf, p_w, p_r, fill_cnt, c

Ring == INSTANCE RingBuf

ring == <<buf, p_w, p_r, fill_cnt, c>>
pvars == <<vars, ring>>

PointerInit == Init /\ Ring!RINGBUF_Init

Put == PutByte /\ Ring!RINGBUF_Put(ByteOf(put))

Get == GetByte /\ Ring!RINGBUF_Get

\* RINGBUF_Put returns -1: the ring is full.
Refused == (InsistFull \/ OfferFull) /\ fill_cnt >= Size /\ UNCHANGED ring

\* RINGBUF_Get returns -1: the ring is empty.
RunsOut == GetNothing /\ fill_cnt = 0 /\ UNCHANGED ring

Call == Put \/ Get \/ Refused \/ RunsOut

\* QUEUE_IsEmpty is "fill_cnt <= 0".
Begins == /\ \/ \E p \in Packet, kind \in {"insist", "offer"} : StartPut(p, kind)
             \/ StartGet /\ fill_cnt > 0
          /\ UNCHANGED ring

PointerNext == Begins \/ Call

\* A handler that has begun runs to its end.
PointerSpec == PointerInit /\ [][PointerNext]_pvars /\ WF_pvars(Call)

-----------------------------------------------------------------------------
(* RINGBUF_Put and RINGBUF_Get are the two ends of a first-in first-out    *)
(* queue of bytes, whatever calls use them: a wrapped pointer neither      *)
(* overwrites an unread byte nor returns a stale one.                      *)
ImplementsFifo == Ring!ImplementsFifo
=============================================================================
