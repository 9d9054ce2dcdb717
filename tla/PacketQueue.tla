----------------------------- MODULE PacketQueue -----------------------------
(***************************************************************************)
(* What the video FIFO promises the player: the frames it accepts reach    *)
(* the texture whole, one at a time, in the order they were decoded; a     *)
(* frame leaves the queue only when it has been loaded, and never more     *)
(* than Capacity wait.  The one exception is frame 1, thrown away unseen   *)
(* ("First xvid frame is not an image!") once the queue has filled up.     *)
(* FifoBuffer implements this with a ring of reusable slots.               *)
(***************************************************************************)
EXTENDS Naturals, Sequences

CONSTANTS Capacity,     \* packets the queue holds
          Length        \* frames in the stream

VARIABLES queue,        \* frame numbers waiting
          sent,         \* number of the last frame queued
          loaded        \* number of the frame in the texture, 0 before any

vars == <<queue, sent, loaded>>

Init ==
    /\ queue = <<>>
    /\ sent = 0
    /\ loaded = 0

Put ==
    /\ sent < Length
    /\ Len(queue) < Capacity
    /\ queue' = Append(queue, sent + 1)
    /\ sent' = sent + 1
    /\ UNCHANGED loaded

Load ==
    /\ queue # <<>>
    /\ Head(queue) # 1
    /\ loaded' = Head(queue)
    /\ UNCHANGED <<queue, sent>>

Remove ==
    /\ queue # <<>>
    /\ \/ Head(queue) = loaded
       \/ Head(queue) = 1 /\ Len(queue) = Capacity
    /\ queue' = Tail(queue)
    /\ UNCHANGED <<sent, loaded>>

Next == Put \/ Load \/ Remove

Spec == Init /\ [][Next]_vars
=============================================================================
