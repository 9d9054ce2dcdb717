----------------------------- MODULE FifoBuffer ------------------------------
(***************************************************************************)
(* The video FIFO (libdcmc/fifo_buffer.c) between the thread that decodes  *)
(* (RenderPush, render.c) and the thread that displays (RenderThread), for *)
(* one stream of Frames frames played to its end.                          *)
(*                                                                         *)
(* The room and packet tests read num outside FIFO_MUTEX, and the          *)
(* displaying thread reads the top packet in place, without the mutex; the *)
(* copy into a slot and the read out of it take time.  Every access to the *)
(* shared ring is therefore a step of its own.                             *)
(*                                                                         *)
(* A definition marked "fault" is a wrong version of a later one, used to  *)
(* see that a property notices it; no specification contains it.           *)
(***************************************************************************)
EXTENDS Integers

CONSTANTS FIFO_SIZE,    \* slots of the ring; 30 in fifo_buffer.h
          Frames        \* frames the decoder delivers

ASSUME SizeAssumption == FIFO_SIZE \in Nat /\ FIFO_SIZE >= 2
ASSUME FramesAssumption == Frames \in Nat

VARIABLES PACKET,       \* what each slot holds: a frame number, or Garbage
          rpos, wpos, num,
          FIFO_MUTEX,   \* "free", or the thread that holds it
          frame,        \* the frame the decoder is about to push
          mainPc, renderPc,
          phase,        \* how far RenderThread is: which call TopRemove returns to
          audio,        \* the audio stream has been started
          texture       \* the frame in video memory, 0 before any

fifo == <<PACKET, rpos, wpos, num>>
main == <<frame, mainPc>>
render == <<renderPc, phase, audio, texture>>
vars == <<fifo, FIFO_MUTEX, main, render>>

Slots == 0 .. FIFO_SIZE - 1
Garbage == 0            \* malloc'd bytes never written, or a copy under way

HasRoomWhenFull == num <= FIFO_SIZE                                  \* fault
HasPacketUntested == TRUE                                            \* fault
NextPacketWrapsEarly(i) == IF i = FIFO_SIZE - 2 THEN 0 ELSE i + 1    \* fault

FifoBufferHasRoom == num < FIFO_SIZE
FifoBufferHasPacket == num > 0
FifoBufferNextPacket(i) == IF i = FIFO_SIZE - 1 THEN 0 ELSE i + 1

FifoBufferInit ==
    /\ PACKET = [i \in Slots |-> Garbage]
    /\ rpos = 0 /\ wpos = 0 /\ num = 0

\* RenderInit, then RenderStart: the FIFO exists before either thread uses it.
Init ==
    /\ FifoBufferInit
    /\ FIFO_MUTEX = "free"
    /\ frame = 1 /\ mainPc = "room"
    /\ renderPc = "prefill" /\ phase = "skip"
    /\ audio = FALSE /\ texture = 0

Lock(t) == FIFO_MUTEX = "free" /\ FIFO_MUTEX' = t
Unlock == FIFO_MUTEX' = "free"

-----------------------------------------------------------------------------
(* The decoding thread: RenderPush and the FifoBufferPush it calls.        *)

MainGoes(from, to) == mainPc = from /\ mainPc' = to

\* RenderPush spins until it sees room.
PushWait ==
    /\ MainGoes("room", "check")
    /\ frame <= Frames
    /\ FifoBufferHasRoom
    /\ UNCHANGED <<fifo, FIFO_MUTEX, frame, render>>

\* FifoBufferPush tests again, unlocked; RenderPush ignores a refusal, and
\* the frame is gone.
PushCheck ==
    /\ mainPc = "check"
    /\ IF FifoBufferHasRoom
         THEN mainPc' = "lock" /\ UNCHANGED frame
         ELSE mainPc' = "room" /\ frame' = frame + 1
    /\ UNCHANGED <<fifo, FIFO_MUTEX, render>>

PushLock ==
    /\ MainGoes("lock", "copy")
    /\ Lock("main")
    /\ UNCHANGED <<fifo, frame, render>>

PushCopyBegin ==
    /\ MainGoes("copy", "copying")
    /\ PACKET' = [PACKET EXCEPT ![wpos] = Garbage]
    /\ UNCHANGED <<rpos, wpos, num, FIFO_MUTEX, frame, render>>

PushCopyEnd ==
    /\ MainGoes("copying", "count")
    /\ PACKET' = [PACKET EXCEPT ![wpos] = frame]
    /\ UNCHANGED <<rpos, wpos, num, FIFO_MUTEX, frame, render>>

PushCount ==
    /\ MainGoes("count", "advance")
    /\ num' = num + 1
    /\ UNCHANGED <<PACKET, rpos, wpos, FIFO_MUTEX, frame, render>>

PushAdvance ==
    /\ MainGoes("advance", "unlock")
    /\ wpos' = FifoBufferNextPacket(wpos)
    /\ UNCHANGED <<PACKET, rpos, num, FIFO_MUTEX, frame, render>>

PushUnlock ==
    /\ MainGoes("unlock", "room")
    /\ Unlock
    /\ frame' = frame + 1
    /\ UNCHANGED <<fifo, render>>

FifoBufferPush == \/ PushCheck \/ PushLock \/ PushCopyBegin \/ PushCopyEnd
                  \/ PushCount \/ PushAdvance \/ PushUnlock
RenderPush == PushWait \/ FifoBufferPush

-----------------------------------------------------------------------------
(* The displaying thread: RenderThread and the FifoBufferTopRemove it      *)
(* calls in three places.                                                  *)

RenderGoes(from, to) == renderPc = from /\ renderPc' = to

PrefillOnePacket ==                                                  \* fault
    /\ RenderGoes("prefill", "start")
    /\ FifoBufferHasPacket
    /\ UNCHANGED <<fifo, FIFO_MUTEX, main, phase, audio, texture>>

\* "Pre-Fill the Fifo Buffer": spin until there is no room left.
Prefill ==
    /\ RenderGoes("prefill", "start")
    /\ ~FifoBufferHasRoom
    /\ UNCHANGED <<fifo, FIFO_MUTEX, main, phase, audio, texture>>

\* LibA52_Start, LibMPG123_Start or LibADX_Start.
StartAudio ==
    /\ RenderGoes("start", "check")
    /\ audio' = TRUE
    /\ UNCHANGED <<fifo, FIFO_MUTEX, main, phase, texture>>

\* Where RenderThread goes on when FifoBufferTopRemove has returned: after
\* the frame that is not an image, after the first image, in the loop.
Return ==
    /\ renderPc' = CASE phase = "skip" -> "load"
                     [] phase = "first" -> "wait"
                     [] phase = "loop" -> "timestamp"
    /\ phase' = CASE phase = "skip" -> "first" [] OTHER -> "loop"

RemoveCheck ==
    /\ renderPc = "check"
    /\ IF FifoBufferHasPacket THEN renderPc' = "lock" /\ UNCHANGED phase
                              ELSE Return
    /\ UNCHANGED <<fifo, FIFO_MUTEX, main, audio, texture>>

RemoveLock ==
    /\ RenderGoes("lock", "count")
    /\ Lock("render")
    /\ UNCHANGED <<fifo, main, phase, audio, texture>>

RemoveCount ==
    /\ RenderGoes("count", "advance")
    /\ num' = num - 1
    /\ UNCHANGED <<PACKET, rpos, wpos, FIFO_MUTEX, main, phase, audio, texture>>

RemoveAdvance ==
    /\ RenderGoes("advance", "unlock")
    /\ rpos' = FifoBufferNextPacket(rpos)
    /\ UNCHANGED <<PACKET, wpos, num, FIFO_MUTEX, main, phase, audio, texture>>

RemoveKeepsMutex ==                                                  \* fault
    /\ renderPc = "unlock"
    /\ Return
    /\ UNCHANGED <<fifo, FIFO_MUTEX, main, audio, texture>>

RemoveUnlock ==
    /\ renderPc = "unlock"
    /\ Unlock
    /\ Return
    /\ UNCHANGED <<fifo, main, audio, texture>>

\* The loop waits for a packet; the first image is loaded without a test.
WaitPacket ==
    /\ RenderGoes("wait", "load")
    /\ FifoBufferHasPacket
    /\ UNCHANGED <<fifo, FIFO_MUTEX, main, phase, audio, texture>>

LoadBegin ==
    /\ RenderGoes("load", "loading")
    /\ UNCHANGED <<fifo, FIFO_MUTEX, main, phase, audio, texture>>

\* FrameLoadPVRSQ copies the packet at rpos to video memory.  The first image
\* is displayed before its packet is removed, later ones after.
LoadEnd ==
    /\ renderPc = "loading"
    /\ texture' = PACKET[rpos]
    /\ renderPc' = IF phase = "first" THEN "display" ELSE "check"
    /\ UNCHANGED <<fifo, FIFO_MUTEX, main, phase, audio>>

\* The wait for the frame's time stamp ends; how long it takes is the clock's.
WaitTimestamp ==
    /\ RenderGoes("timestamp", "display")
    /\ UNCHANGED <<fifo, FIFO_MUTEX, main, phase, audio, texture>>

FrameRender ==
    /\ renderPc = "display"
    /\ renderPc' = IF phase = "first" THEN "check" ELSE "wait"
    /\ UNCHANGED <<fifo, FIFO_MUTEX, main, phase, audio, texture>>

FifoBufferTopRemove == \/ RemoveCheck \/ RemoveLock \/ RemoveCount
                       \/ RemoveAdvance \/ RemoveUnlock
RenderThread == \/ Prefill \/ StartAudio \/ FifoBufferTopRemove
                \/ WaitPacket \/ LoadBegin \/ LoadEnd
                \/ WaitTimestamp \/ FrameRender

Next == RenderPush \/ RenderThread

Spec == Init /\ [][Next]_vars

\* KOS schedules every thread that can run.
FairSpec == Spec /\ WF_vars(RenderPush) /\ WF_vars(RenderThread)
-----------------------------------------------------------------------------
(* Properties.                                                             *)

TypeOK ==
    /\ PACKET \in [Slots -> 0 .. Frames]
    /\ rpos \in Slots /\ wpos \in Slots /\ num \in 0 .. FIFO_SIZE
    /\ FIFO_MUTEX \in {"free", "main", "render"}
    /\ frame \in 1 .. Frames + 1
    /\ mainPc \in {"room", "check", "lock", "copy", "copying", "count",
                   "advance", "unlock"}
    /\ renderPc \in {"prefill", "start", "check", "lock", "count", "advance",
                     "unlock", "load", "loading", "display", "wait", "timestamp"}
    /\ phase \in {"skip", "first", "loop"}
    /\ audio \in BOOLEAN
    /\ texture \in 0 .. Frames

\* The copy of a new frame never goes into the slot the display is reading,
\* though neither the read nor the test for room holds the mutex.
NoOverwrite ==
    ~(mainPc = "copying" /\ renderPc = "loading" /\ wpos = rpos)

\* An unlocked test does not go stale: what RenderPush was told of room still
\* holds inside the mutex, so FifoBufferPush never refuses (and RenderPush,
\* which ignores the refusal, loses no frame), and FifoBufferTopRemove always
\* has a packet to remove.
ChecksHold ==
    /\ mainPc \in {"check", "lock", "copy", "copying", "count"} => num < FIFO_SIZE
    /\ renderPc \in {"check", "lock", "count", "load", "loading"} => num > 0

\* Frames reach video memory whole and in decoding order, from frame 2 on.
FramesInOrder ==
    [][texture' # texture => texture' = IF texture = 0 THEN 2 ELSE texture + 1]_vars

\* The FIFO as a queue.  A packet is in it from ++num to --num; between --num
\* and the advance of rpos its head is one slot further on.
HeadPos == IF renderPc = "advance" THEN FifoBufferNextPacket(rpos) ELSE rpos
Wrap(i) == IF i >= FIFO_SIZE THEN i - FIFO_SIZE ELSE i
Queue == [k \in 1 .. num |-> PACKET[Wrap(HeadPos + k - 1)]]
Sent == IF mainPc \in {"advance", "unlock"} THEN frame ELSE frame - 1

PQ == INSTANCE PacketQueue WITH Capacity <- FIFO_SIZE, Length <- Frames,
                                queue <- Queue, sent <- Sent, loaded <- texture

\* The ring of slots implements the queue.
QueueSpec == PQ!Spec

\* A stream long enough to fill the FIFO once plays to its last frame: the
\* two spinning threads never wait for each other forever.
AllShown == Frames >= FIFO_SIZE => <>(texture = Frames)

\* Sound and picture wait for the FIFO to have been full once: RenderThread
\* spins until there is no room, so a shorter clip is neither heard nor seen.
SilentUntilFull == audio \/ texture # 0 => Sent >= FIFO_SIZE

\* The inductive invariant behind these: who holds the mutex, the ring
\* (TailPos is num slots past HeadPos), the frames in it (consecutive, the
\* oldest being HeadFrame), and which of them the texture shows.
TailPos == IF mainPc = "advance" THEN FifoBufferNextPacket(wpos) ELSE wpos
HeadFrame == Sent - num + 1
BeforeRemove == {"check", "lock", "count"}
AfterRemove == {"advance", "unlock"}

MutexInv ==
    /\ FIFO_MUTEX = "main" <=>
          mainPc \in {"copy", "copying", "count", "advance", "unlock"}
    /\ FIFO_MUTEX = "render" <=> renderPc \in {"count"} \cup AfterRemove

RingInv ==
    /\ HeadPos + num \in {TailPos, TailPos + FIFO_SIZE}
    /\ \A k \in 0 .. num - 1 : PACKET[Wrap(HeadPos + k)] = HeadFrame + k
    /\ mainPc = "count" => PACKET[wpos] = frame
    /\ mainPc # "room" => frame <= Frames

ProgressInv ==
    /\ audio <=> renderPc \notin {"prefill", "start"}
    /\ audio => Sent >= FIFO_SIZE
    /\ phase = "skip" =>
          /\ renderPc \in {"prefill", "start"} \cup BeforeRemove \cup AfterRemove
          /\ texture = 0
          /\ HeadFrame = IF renderPc \in AfterRemove THEN 2 ELSE 1
          /\ renderPc \in {"start"} \cup BeforeRemove => num = FIFO_SIZE
          /\ renderPc \in AfterRemove => num > 0
    /\ phase = "first" =>
          /\ renderPc \in {"load", "loading", "display"} \cup BeforeRemove \cup AfterRemove
          /\ texture = IF renderPc \in {"load", "loading"} THEN 0 ELSE 2
          /\ HeadFrame = IF renderPc \in AfterRemove THEN 3 ELSE 2
          /\ renderPc \notin AfterRemove => num > 0
    /\ phase = "loop" =>
          /\ renderPc \notin {"prefill", "start"}
          /\ HeadFrame > 2
          /\ texture = IF renderPc \in BeforeRemove THEN HeadFrame ELSE HeadFrame - 1

Inv == TypeOK /\ ChecksHold /\ MutexInv /\ RingInv /\ ProgressInv
=============================================================================
