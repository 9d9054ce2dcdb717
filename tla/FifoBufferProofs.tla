--------------------------- MODULE FifoBufferProofs ---------------------------
EXTENDS FifoBuffer, Sequences, TLAPS

(* Outside the advance of wpos, every slot of a queued frame differs from   *)
(* the slot at wpos as long as the ring is not full.                        *)
LEMMA TailIsFree ==
  ASSUME Inv, mainPc # "advance", num < FIFO_SIZE, NEW k \in 0 .. num - 1
  PROVE  Wrap(HeadPos + k) # wpos /\ Wrap(HeadPos + k) \in Slots
  BY SizeAssumption
  DEF Inv, TypeOK, RingInv, Slots, HeadPos, TailPos, Wrap, FifoBufferNextPacket

LEMMA InvInit == Init => Inv
<1> SUFFICES ASSUME Init PROVE Inv
  OBVIOUS
<1>1. PACKET \in [Slots -> 0 .. Frames]
  BY FramesAssumption DEF Init, FifoBufferInit, Garbage
<1>2. TypeOK
  <2>1. rpos \in Slots /\ wpos \in Slots /\ num \in 0 .. FIFO_SIZE
    BY SizeAssumption DEF Init, FifoBufferInit, Slots
  <2>2. frame \in 1 .. Frames + 1 /\ texture \in 0 .. Frames
    BY FramesAssumption DEF Init
  <2>3. audio \in BOOLEAN
    BY Zenon DEF Init
  <2> QED
    BY <1>1, <2>1, <2>2, <2>3, Zenon DEF Init, TypeOK
<1>3. ChecksHold /\ MutexInv /\ ProgressInv
  BY SizeAssumption
  DEF Init, FifoBufferInit, ChecksHold, MutexInv, ProgressInv, HeadFrame, Sent,
      BeforeRemove, AfterRemove
<1>4. RingInv
  BY SizeAssumption DEF Init, FifoBufferInit, RingInv, HeadPos, TailPos, Sent, HeadFrame
<1> QED
  BY <1>2, <1>3, <1>4 DEF Inv

LEMMA InvStep == Inv /\ [Next]_vars => Inv'
<1> SUFFICES ASSUME Inv, [Next]_vars PROVE Inv'
  OBVIOUS
<1> USE SizeAssumption, FramesAssumption
    DEF Inv, TypeOK, ChecksHold, MutexInv, RingInv, ProgressInv, Slots, HeadPos, TailPos,
      HeadFrame, Sent, Wrap, BeforeRemove, AfterRemove, fifo, main, render,
      MainGoes, RenderGoes, FifoBufferHasRoom, FifoBufferHasPacket, FifoBufferNextPacket,
      Lock, Unlock, Garbage, Return
<1>1. CASE PushWait
  BY <1>1 DEF PushWait
<1>2. CASE PushCheck
  BY <1>2 DEF PushCheck
<1>3. CASE PushLock
  BY <1>3 DEF PushLock
<1>4. CASE PushCopyBegin
  <2>1. TypeOK' /\ ChecksHold' /\ MutexInv' /\ ProgressInv'
    BY <1>4 DEF PushCopyBegin
  <2>2. HeadPos' = HeadPos /\ TailPos' = TailPos /\ HeadFrame' = HeadFrame /\ num' = num
    BY <1>4 DEF PushCopyBegin
  <2>3. ASSUME NEW k \in 0 .. num - 1
        PROVE  PACKET'[Wrap(HeadPos + k)] = HeadFrame + k
    <3>1. Wrap(HeadPos + k) # wpos /\ Wrap(HeadPos + k) \in Slots
      BY <1>4, TailIsFree DEF PushCopyBegin
    <3> QED
      BY <1>4, <3>1 DEF PushCopyBegin
  <2>4. RingInv'
    <3> HIDE DEF HeadPos, TailPos, HeadFrame, Wrap
    <3> QED
      BY <1>4, <2>2, <2>3 DEF PushCopyBegin, Wrap
  <2> QED
    BY <2>1, <2>4
<1>5. CASE PushCopyEnd
  <2>1. TypeOK' /\ ChecksHold' /\ MutexInv' /\ ProgressInv'
    BY <1>5 DEF PushCopyEnd
  <2>2. HeadPos' = HeadPos /\ TailPos' = TailPos /\ HeadFrame' = HeadFrame /\ num' = num
    BY <1>5 DEF PushCopyEnd
  <2>3. ASSUME NEW k \in 0 .. num - 1
        PROVE  PACKET'[Wrap(HeadPos + k)] = HeadFrame + k
    <3>1. Wrap(HeadPos + k) # wpos /\ Wrap(HeadPos + k) \in Slots
      BY <1>5, TailIsFree DEF PushCopyEnd
    <3> QED
      BY <1>5, <3>1 DEF PushCopyEnd
  <2>4. RingInv'
    <3> HIDE DEF HeadPos, TailPos, HeadFrame, Wrap
    <3> QED
      BY <1>5, <2>2, <2>3 DEF PushCopyEnd, Wrap
  <2> QED
    BY <2>1, <2>4
<1>6. CASE PushCount
  <2>1. TypeOK' /\ ChecksHold' /\ MutexInv' /\ ProgressInv'
    BY <1>6 DEF PushCount
  <2>2. /\ HeadPos' = HeadPos /\ HeadFrame' = HeadFrame
        /\ HeadPos' + num' \in {TailPos', TailPos' + FIFO_SIZE}
        /\ Wrap(HeadPos + num) = wpos
        /\ HeadFrame + num = frame
    BY <1>6 DEF PushCount
  <2>3. ASSUME NEW k \in 0 .. num' - 1
        PROVE  PACKET'[Wrap(HeadPos + k)] = HeadFrame + k
    <3>1. CASE k = num
      BY <1>6, <2>2, <3>1 DEF PushCount
    <3>2. CASE k \in 0 .. num - 1
      BY <1>6, <3>2 DEF PushCount
    <3> QED
      BY <1>6, <3>1, <3>2 DEF PushCount
  <2>4. RingInv'
    <3> HIDE DEF HeadPos, TailPos, HeadFrame, Wrap
    <3> QED
      BY <1>6, <2>2, <2>3 DEF PushCount, Wrap
  <2> QED
    BY <2>1, <2>4
<1>7. CASE PushAdvance
  BY <1>7 DEF PushAdvance
<1>8. CASE PushUnlock
  BY <1>8 DEF PushUnlock
<1>9. CASE Prefill
  BY <1>9 DEF Prefill
<1>10. CASE StartAudio
  BY <1>10 DEF StartAudio
<1>11. CASE RemoveCheck
  BY <1>11 DEF RemoveCheck
<1>12. CASE RemoveLock
  BY <1>12 DEF RemoveLock
<1>13. CASE RemoveCount
  <2>1. TypeOK' /\ ChecksHold' /\ MutexInv' /\ ProgressInv'
    BY <1>13 DEF RemoveCount
  <2>2. /\ num > 0 /\ num' = num - 1 /\ HeadFrame' = HeadFrame + 1
        /\ HeadPos' = FifoBufferNextPacket(HeadPos)
        /\ HeadPos' + num' \in {TailPos', TailPos' + FIFO_SIZE}
    BY <1>13 DEF RemoveCount
  <2>3. ASSUME NEW k \in 0 .. num' - 1
        PROVE  PACKET'[Wrap(HeadPos' + k)] = HeadFrame' + k
    <3>1. k + 1 \in 0 .. num - 1 /\ Wrap(HeadPos' + k) = Wrap(HeadPos + (k + 1))
      BY <1>13, <2>2 DEF RemoveCount
    <3>2. PACKET[Wrap(HeadPos + (k + 1))] = HeadFrame + (k + 1)
      BY <3>1
    <3> QED
      BY <1>13, <2>2, <3>1, <3>2 DEF RemoveCount
  <2>4. RingInv'
    <3> HIDE DEF HeadPos, TailPos, HeadFrame, Wrap
    <3> QED
      BY <1>13, <2>2, <2>3 DEF RemoveCount, Wrap
  <2> QED
    BY <2>1, <2>4
<1>14. CASE RemoveAdvance
  BY <1>14 DEF RemoveAdvance
<1>15. CASE RemoveUnlock
  <2>1. TypeOK' /\ ChecksHold' /\ MutexInv' /\ RingInv'
    BY <1>15 DEF RemoveUnlock
  <2>2. ProgressInv'
    <3>1. CASE phase = "skip"
      BY <1>15, <3>1 DEF RemoveUnlock
    <3>2. CASE phase = "first"
      BY <1>15, <3>2 DEF RemoveUnlock
    <3>3. CASE phase = "loop"
      BY <1>15, <3>3 DEF RemoveUnlock
    <3> QED
      BY <3>1, <3>2, <3>3
  <2> QED
    BY <2>1, <2>2
<1>16. CASE WaitPacket
  BY <1>16 DEF WaitPacket
<1>17. CASE LoadBegin
  BY <1>17 DEF LoadBegin
<1>18. CASE LoadEnd
  <2>1. texture' = HeadFrame
    BY <1>18 DEF LoadEnd
  <2>2. MutexInv' /\ RingInv'
    BY <1>18 DEF LoadEnd
  <2>3. TypeOK' /\ ChecksHold' /\ ProgressInv'
    BY <1>18, <2>1 DEF LoadEnd
  <2> QED
    BY <2>2, <2>3
<1>19. CASE WaitTimestamp
  BY <1>19 DEF WaitTimestamp
<1>20. CASE FrameRender
  BY <1>20 DEF FrameRender
<1>21. CASE UNCHANGED vars
  BY <1>21 DEF vars
<1> QED
  BY <1>1, <1>2, <1>3, <1>4, <1>5, <1>6, <1>7, <1>8, <1>9, <1>10, <1>11, <1>12, <1>13, <1>14, <1>15, <1>16, <1>17, <1>18, <1>19, <1>20, <1>21
  DEF Next, RenderPush, FifoBufferPush, RenderThread, FifoBufferTopRemove

(* Type correctness of the FIFO and of its two threads' positions.          *)
THEOREM TypeCorrect == Spec => []TypeOK
<1>1. Inv => TypeOK
  BY DEF Inv
<1> QED
  BY <1>1, InvInit, InvStep, PTL DEF Spec

THEOREM InvHolds == Spec => []Inv
  BY InvInit, InvStep, PTL DEF Spec

(* The unlocked tests for room and for a packet never go stale, for every   *)
(* size of the ring and length of the stream.                               *)
THEOREM ChecksNeverStale == Spec => []ChecksHold
<1>1. Inv => ChecksHold
  BY DEF Inv
<1> QED
  BY <1>1, InvHolds, PTL

(* A slot is never written while the display reads it: a full ring is the   *)
(* only one whose wpos is the slot at rpos, and nothing is pushed into it.  *)
THEOREM NeverOverwritten == Spec => []NoOverwrite
<1>1. Inv => NoOverwrite
  <2> SUFFICES ASSUME Inv, mainPc = "copying", renderPc = "loading", wpos = rpos
               PROVE  FALSE
    BY DEF NoOverwrite
  <2>1. num < FIFO_SIZE /\ 0 \in 0 .. num - 1
    BY DEF Inv, ChecksHold, TypeOK
  <2>2. Wrap(HeadPos + 0) = rpos
    BY SizeAssumption DEF Inv, TypeOK, Slots, HeadPos, Wrap
  <2> QED
    BY <2>1, <2>2, TailIsFree
<1> QED
  BY <1>1, InvHolds, PTL

(* Neither sound nor picture before the FIFO has been full.                 *)
THEOREM NothingBeforeFull == Spec => []SilentUntilFull
<1>1. Inv => SilentUntilFull
  <2> SUFFICES ASSUME Inv, audio \/ texture # 0 PROVE Sent >= FIFO_SIZE
    BY DEF SilentUntilFull
  <2>1. texture # 0 => renderPc \notin {"prefill", "start"}
    BY DEF Inv, TypeOK, ProgressInv, BeforeRemove, AfterRemove
  <2>2. audio
    BY <2>1 DEF Inv, ProgressInv
  <2> QED
    BY <2>2 DEF Inv, ProgressInv
<1> QED
  BY <1>1, InvHolds, PTL

(* Frames reach the texture whole and in decoding order.                    *)
THEOREM InOrder == Spec => FramesInOrder
<1>1. Inv /\ [Next]_vars =>
        [texture' # texture => texture' = IF texture = 0 THEN 2 ELSE texture + 1]_vars
  <2> SUFFICES ASSUME Inv, [Next]_vars, texture' # texture
               PROVE  texture' = IF texture = 0 THEN 2 ELSE texture + 1
    OBVIOUS
  <2>1. LoadEnd
    BY DEF Next, vars, render, main, RenderPush, FifoBufferPush, RenderThread,
       FifoBufferTopRemove, PushWait, PushCheck, PushLock, PushCopyBegin, PushCopyEnd,
       PushCount, PushAdvance, PushUnlock, Prefill, StartAudio, RemoveCheck, RemoveLock,
       RemoveCount, RemoveAdvance, RemoveUnlock, WaitPacket, LoadBegin, WaitTimestamp,
       FrameRender
  <2>2. texture' = HeadFrame
    <3>1. 0 \in 0 .. num - 1 /\ Wrap(HeadPos + 0) = rpos
      BY <2>1, SizeAssumption DEF LoadEnd, Inv, TypeOK, ChecksHold, HeadPos, Wrap, Slots
    <3>2. PACKET[Wrap(HeadPos + 0)] = HeadFrame + 0 /\ HeadFrame \in Int
      BY <3>1 DEF Inv, TypeOK, RingInv, HeadFrame, Sent
    <3> QED
      BY <2>1, <3>1, <3>2 DEF LoadEnd
  <2> QED
    BY <2>1, <2>2 DEF LoadEnd, Inv, TypeOK, ProgressInv, BeforeRemove, AfterRemove, HeadFrame, Sent
<1> QED
  BY <1>1, InvHolds, PTL DEF Spec, FramesInOrder

-----------------------------------------------------------------------------
(* The ring implements PacketQueue.  By RingInv the queued frames are n      *)
(* consecutive numbers from h on, whatever the slots that hold them.         *)

Numbers(n, h) == [k \in 1 .. n |-> h + k - 1]

LEMMA NumbersAppend ==
  ASSUME NEW n \in Nat, NEW h \in Int
  PROVE  /\ Len(Numbers(n, h)) = n
         /\ Append(Numbers(n, h), h + n) = Numbers(n + 1, h)
  BY DEF Numbers

LEMMA NumbersTail ==
  ASSUME NEW n \in Nat, n > 0, NEW h \in Int
  PROVE  /\ Numbers(n, h) # <<>>
         /\ Head(Numbers(n, h)) = h
         /\ Tail(Numbers(n, h)) = Numbers(n - 1, h + 1)
  BY DEF Numbers

QueueFact ==
    /\ Queue = Numbers(num, HeadFrame)
    /\ HeadFrame \in Int /\ num \in Nat /\ HeadFrame + num = Sent + 1

LEMMA QueueIsNumbers == Inv => QueueFact
<1> SUFFICES ASSUME Inv PROVE QueueFact
  OBVIOUS
<1>1. HeadFrame \in Int /\ num \in Nat /\ HeadFrame + num = Sent + 1
  BY DEF Inv, TypeOK, HeadFrame, Sent
<1>2. HeadPos \in Int
  BY SizeAssumption DEF Inv, TypeOK, Slots, HeadPos, FifoBufferNextPacket
<1>3. ASSUME NEW k \in 1 .. num
      PROVE  PACKET[Wrap(HeadPos + k - 1)] = HeadFrame + k - 1
  <2>1. k - 1 \in 0 .. num - 1 /\ HeadPos + k - 1 = HeadPos + (k - 1)
    BY <1>1, <1>2
  <2>2. PACKET[Wrap(HeadPos + (k - 1))] = HeadFrame + (k - 1)
    BY <2>1 DEF Inv, RingInv
  <2> QED
    BY <1>1, <2>1, <2>2
<1> QED
  BY <1>1, <1>3 DEF QueueFact, Queue, Numbers

(* Whether a thread's step changes the queue shows in num, HeadFrame, Sent   *)
(* and the texture alone.                                                    *)
LEMMA QueueStep == Inv /\ QueueFact /\ QueueFact' /\ [Next]_vars => [PQ!Next]_(PQ!vars)
<1> SUFFICES ASSUME Inv, QueueFact, QueueFact', [Next]_vars
             PROVE  [PQ!Next]_(PQ!vars)
  OBVIOUS
<1> DEFINE same == UNCHANGED <<num, HeadFrame, Sent, texture>>
<1>1. /\ Queue = Numbers(num, HeadFrame) /\ HeadFrame \in Int /\ num \in Nat
      /\ HeadFrame + num = Sent + 1
  BY DEF QueueFact
<1>2. Queue' = Numbers(num', HeadFrame') /\ HeadFrame' \in Int /\ num' \in Nat
  BY DEF QueueFact, Numbers
<1>3. CASE PushCount
  <2>1. num' = num + 1 /\ HeadFrame' = HeadFrame /\ Sent' = Sent + 1 /\ texture' = texture
    BY <1>3, SizeAssumption
    DEF PushCount, MainGoes, Inv, TypeOK, HeadFrame, Sent, render
  <2>2. Sent < Frames /\ num < FIFO_SIZE
    BY <1>3, FramesAssumption, SizeAssumption
    DEF PushCount, MainGoes, Inv, TypeOK, ChecksHold, RingInv, Sent
  <2>3. Queue' = Append(Queue, Sent + 1)
    BY <1>1, <1>2, <2>1, NumbersAppend DEF Numbers
  <2> QED
    BY <1>1, <2>1, <2>2, <2>3, NumbersAppend DEF PQ!Next, PQ!Put
<1>4. CASE RemoveCount
  <2>1. /\ num > 0 /\ num' = num - 1 /\ HeadFrame' = HeadFrame + 1
        /\ Sent' = Sent /\ texture' = texture
    BY <1>4 DEF RemoveCount, RenderGoes, Inv, TypeOK, ChecksHold, HeadFrame, Sent, main
  <2>2. HeadFrame = texture \/ (HeadFrame = 1 /\ num = FIFO_SIZE)
    BY <1>4 DEF RemoveCount, RenderGoes, Inv, TypeOK, ProgressInv, BeforeRemove, AfterRemove
  <2>3. Queue' = Tail(Queue)
    BY <1>1, <1>2, <2>1, NumbersTail DEF Numbers
  <2> QED
    BY <1>1, <2>1, <2>2, <2>3, NumbersTail, NumbersAppend DEF PQ!Next, PQ!Remove
<1>5. CASE LoadEnd
  <2>1. num > 0 /\ num' = num /\ HeadFrame' = HeadFrame /\ Sent' = Sent
    BY <1>5 DEF LoadEnd, Inv, TypeOK, ChecksHold, HeadFrame, Sent, fifo, main
  <2>2. texture' = HeadFrame
    <3>1. 0 \in 0 .. num - 1 /\ Wrap(HeadPos + 0) = rpos
      BY <1>5, SizeAssumption DEF LoadEnd, Inv, TypeOK, ChecksHold, HeadPos, Wrap, Slots
    <3>2. PACKET[Wrap(HeadPos + 0)] = HeadFrame + 0
      BY <3>1 DEF Inv, RingInv
    <3> QED
      BY <1>1, <1>5, <3>1, <3>2 DEF LoadEnd
  <2>3. HeadFrame # 1
    BY <1>5 DEF LoadEnd, Inv, TypeOK, ProgressInv, BeforeRemove, AfterRemove
  <2>4. Queue' = Queue
    BY <1>1, <1>2, <2>1 DEF Numbers
  <2> QED
    BY <1>1, <2>1, <2>2, <2>3, <2>4, NumbersTail DEF PQ!Next, PQ!Load
<1>6. CASE same
  <2>1. Queue' = Queue
    BY <1>1, <1>2, <1>6 DEF Numbers
  <2> QED
    BY <1>6, <2>1 DEF PQ!vars
<1>7. ASSUME \/ PushWait \/ PushCheck \/ PushLock \/ PushCopyBegin \/ PushCopyEnd
             \/ PushAdvance \/ PushUnlock
      PROVE  same
  BY <1>7, FramesAssumption
  DEF PushWait, PushCheck, PushLock, PushCopyBegin, PushCopyEnd, PushAdvance, PushUnlock,
      MainGoes, Inv, TypeOK, ChecksHold, FifoBufferHasRoom, HeadFrame, Sent, fifo, render
<1>8. ASSUME \/ Prefill \/ StartAudio \/ RemoveCheck \/ RemoveLock \/ RemoveAdvance
             \/ RemoveUnlock \/ WaitPacket \/ LoadBegin \/ WaitTimestamp \/ FrameRender
      PROVE  same
  BY <1>8
  DEF Prefill, StartAudio, RemoveCheck, RemoveLock, RemoveAdvance, RemoveUnlock, WaitPacket,
      LoadBegin, WaitTimestamp, FrameRender, HeadFrame, Sent, fifo, main
<1>9. CASE UNCHANGED vars
  BY <1>6, <1>9 DEF vars, fifo, main, render, HeadFrame, Sent
<1> QED
  BY <1>3, <1>4, <1>5, <1>6, <1>7, <1>8, <1>9
  DEF Next, RenderPush, FifoBufferPush, RenderThread, FifoBufferTopRemove

(* The slots, the two positions and the unlocked tests together implement    *)
(* the queue of PacketQueue, for every size and every length of stream.      *)
THEOREM RefinesQueue == Spec => QueueSpec
<1>1. Init => PQ!Init
  BY DEF Init, FifoBufferInit, PQ!Init, Queue, Sent
<1> QED
  BY <1>1, InvHolds, QueueIsNumbers, QueueStep, PTL DEF Spec, QueueSpec, PQ!Spec
=============================================================================
