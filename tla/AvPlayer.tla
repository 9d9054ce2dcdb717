------------------------------- MODULE AvPlayer --------------------------------
(***************************************************************************)
(* Videos played one after another, and the render routine                 *)
(* (libdcmc/render.c) from RenderInit to RenderDestroy.  The players are   *)
(* LibXVID_Decode (libxvid/player/LibXVID.c) with the chunks that          *)
(* LibAVI_read_chunk (libavi/LibAVI.c) gives it, with MPEG or AC3 sound;   *)
(* LibMPEG2_Decode (libmpeg2/player/LibMPEG2.c); and LibMPEG2_DecodeSFD    *)
(* (LibMPEG2SFD.c), with ADX sound.  Demux has what they do with bytes;    *)
(* here a film is its pictures.  Each session creates a render thread, the *)
(* MPEG players at their first picture, and none is joined, so a thread of *)
(* an earlier session may be left.                                         *)
(* FifoBuffer models the FIFO of one session access by access; here only   *)
(* its count is kept, with the unlocked test and the update apart.         *)
(*                                                                         *)
(* A definition marked "fault" is a wrong version of a later one, used to  *)
(* see that a property notices it; no specification contains it.           *)
(***************************************************************************)
EXTENDS Integers

CONSTANTS FIFO_SIZE,    \* slots of the FIFO
          Sessions,     \* videos played before the model stops
          Chunks,       \* most chunks of a video's movie list
          Players,      \* the players: "xvid", "mpeg", "sofdec"
          UINT_MAX      \* the count is unsigned: 0 - 1 is UINT_MAX

ASSUME AvAssumption ==
    /\ FIFO_SIZE \in Nat \ {0} /\ Sessions \in Nat /\ Chunks \in Nat
    /\ UINT_MAX \in Nat /\ UINT_MAX > FIFO_SIZE
    /\ Players \subseteq {"xvid", "mpeg", "sofdec"}

VARIABLES num,              \* vidbuf.num
          fifoLive,         \* the packets of vidbuf are allocated
          RENDER_ACTIVE,
          ACODEC,           \* the library that the render thread is to start
          WAIT_START,       \* the libraries whose own WAIT_START is set
          filled,           \* the FIFO has been full in this session
          mainPc, session,
          player, sound,    \* of this session
          RenderActive,     \* RenderInit has been called in this session
          chunks,           \* chunks of the movie list that are not read yet; for an
                            \* MPEG player, pictures and ends of buffers
          index,            \* another chunk (idx1) follows the movie list
          fcchdr,           \* the chunk header read last; "none": as malloc left it
          frame,            \* frame%2, which counts the chunks of sound, or buffers
          renderPc          \* where the render thread of each session is

sync == <<fifoLive, RENDER_ACTIVE, ACODEC, WAIT_START, filled>>
render == <<num, sync>>
file == <<player, sound, chunks, index, fcchdr, frame>>
main == <<mainPc, session, file, RenderActive>>
vars == <<render, main, renderPc>>

Threads == 1 .. Sessions

Codecs == {"MPEG", "AC3", "ADX"}

Init ==
    /\ num = 0 /\ fifoLive = FALSE /\ RENDER_ACTIVE = FALSE
    /\ ACODEC = "none" /\ WAIT_START = {} /\ filled = FALSE
    /\ mainPc = "menu" /\ session = 0 /\ RenderActive = FALSE
    /\ player = "none" /\ sound = "none"
    /\ chunks = 0 /\ index = FALSE /\ fcchdr = "none" /\ frame = 0
    /\ renderPc = [t \in Threads |-> "none"]

FifoBufferHasRoom == num < FIFO_SIZE
FifoBufferHasPacket == num > 0

\* The thread waits for another one, or is not there.
Blocked(t) ==
    \/ renderPc[t] \in {"none", "gone"}
    \/ renderPc[t] = "prefill" /\ FifoBufferHasRoom
    \/ renderPc[t] = "wait" /\ ~FifoBufferHasPacket

-----------------------------------------------------------------------------
(* What the players share.                                                 *)

MainGoes(from, to) == mainPc = from /\ mainPc' = to

\* The next video.  A second has passed since the one before: its thread has gone
\* as far as it could.
Open(p, s, to) ==
    /\ MainGoes("menu", to)
    /\ session < Sessions /\ session' = session + 1
    /\ \A t \in Threads : Blocked(t)
    /\ player' = p /\ sound' = s
    /\ chunks' \in 0 .. Chunks /\ frame' = 0
    /\ filled' = FALSE
    /\ UNCHANGED <<RENDER_ACTIVE, renderPc>>

RenderInitMpeg(audfmt) ==                                            \* fault
    /\ num' = 0 /\ fifoLive' = TRUE
    /\ ACODEC' = "MPEG"
    /\ RenderActive' = TRUE

RenderInit(audfmt) ==
    /\ num' = 0 /\ fifoLive' = TRUE
    /\ ACODEC' = audfmt
    /\ RenderActive' = TRUE

RenderStart ==
    /\ MainGoes("start", IF player = "xvid" THEN "read" ELSE "push")
    /\ renderPc' = [renderPc EXCEPT ![session] = "born"]
    /\ UNCHANGED <<render, session, file, RenderActive>>

RenderPushAnyway ==                                                  \* fault
    /\ MainGoes("push", IF player = "xvid" THEN "read" ELSE "demux")
    /\ num' = num + 1
    /\ filled' = (filled \/ num' = FIFO_SIZE)
    /\ UNCHANGED <<fifoLive, RENDER_ACTIVE, ACODEC, WAIT_START, session, file, RenderActive, renderPc>>

RenderPush ==
    /\ MainGoes("push", IF player = "xvid" THEN "read" ELSE "demux")
    /\ FifoBufferHasRoom
    /\ num' = num + 1
    /\ filled' = (filled \/ num' = FIFO_SIZE)
    /\ UNCHANGED <<fifoLive, RENDER_ACTIVE, ACODEC, WAIT_START, session, file, RenderActive, renderPc>>

\* RenderDestroy, first half: FifoBufferFree leaves the count as it is.
RenderFree ==
    /\ MainGoes("destroy", "inactive")
    /\ fifoLive' = FALSE
    /\ UNCHANGED <<num, RENDER_ACTIVE, ACODEC, WAIT_START, filled, session, file, RenderActive, renderPc>>

\* The rest of RenderDestroy.
RenderInactive ==
    /\ MainGoes("inactive", IF player = "xvid" THEN "exit" ELSE "menu")
    /\ RENDER_ACTIVE' = FALSE
    /\ UNCHANGED <<num, fifoLive, ACODEC, WAIT_START, filled, session, file, RenderActive, renderPc>>

\* LibMPG123_Exit, LibA52_Exit or LibADX_Exit.  That of AC3 returns only if the
\* sound was started; only that of ADX clears the flag.
SoundExit ==
    /\ MainGoes("exit", IF player = "xvid" THEN "menu" ELSE "destroy")
    /\ sound = "AC3" => sound \notin WAIT_START
    /\ WAIT_START' = WAIT_START \ ({"ADX"} \cap {sound})
    /\ UNCHANGED <<num, fifoLive, RENDER_ACTIVE, ACODEC, filled, session, file, RenderActive, renderPc>>

-----------------------------------------------------------------------------
(* XVID_STREAM_INIT, XVID_STREAM_DECODE, XVID_STREAM_DESTROY.              *)

\* LibAVI_open of a file with any movie list.
LibAVI_open == index' \in BOOLEAN /\ fcchdr' = "none"

OpenUnsynchronized(s) ==                                             \* fault
    /\ Open("xvid", s, "start")
    /\ LibAVI_open
    /\ RenderInit(s)
    /\ UNCHANGED WAIT_START

\* LibMPG123_WaitStart or LibA52_WaitStart, the library's Init, RenderInit.
XVID_STREAM_INIT(s) ==
    /\ Open("xvid", s, "start")
    /\ LibAVI_open
    /\ WAIT_START' = WAIT_START \cup {s}
    /\ RenderInit(s)

LibAVI_read_chunk_stale(kind) ==                                     \* fault
    /\ fcchdr' = kind
    /\ \/ chunks > 0 /\ chunks' = chunks - 1
       \/ chunks = 0 /\ fcchdr \in {kind, "none"} /\ UNCHANGED chunks
    /\ UNCHANGED index

\* At the end of the file fread gives nothing, which LibAVI_read_chunk takes
\* for a chunk: the header read last is found again.
LibAVI_read_chunk(kind) ==
    /\ fcchdr' = kind
    /\ \/ chunks > 0 /\ chunks' = chunks - 1
       \/ /\ chunks = 0 /\ UNCHANGED chunks
          /\ IF index THEN kind = "other" ELSE fcchdr \in {kind, "none"}
    /\ UNCHANGED index

Reads(kind, to) ==
    /\ LibAVI_read_chunk(kind)
    /\ MainGoes("read", to)
    /\ UNCHANGED <<render, session, player, sound, RenderActive, renderPc>>

\* Sound: the user may stop the video at every other chunk.
ReadAudio ==
    /\ Reads("01wb", "read") \/ (frame = 1 /\ Reads("01wb", "destroy"))
    /\ frame' = 1 - frame

ReadVideo == Reads("00dc", "push") /\ UNCHANGED frame

\* An empty chunk, or one of another kind.
ReadEnd ==
    /\ \E kind \in {"empty", "other"} : Reads(kind, "destroy")
    /\ UNCHANGED frame

XVID_STREAM_DECODE == ReadAudio \/ ReadVideo \/ ReadEnd

LibXVID_Decode == (\E s \in {"MPEG", "AC3"} : "xvid" \in Players /\ XVID_STREAM_INIT(s))
                  \/ XVID_STREAM_DECODE

-----------------------------------------------------------------------------
(* LibMPEG2_Decode and LibMPEG2_DecodeSFD.                                 *)

\* LibMPG123_WaitStart and LibMPG123_Init, or LibADX_WaitStart.
Mpeg2Open(p, s) ==
    /\ p \in Players
    /\ Open(p, s, "ps_loop")
    /\ RenderActive' = FALSE
    /\ WAIT_START' = WAIT_START \cup {s}
    /\ index' = FALSE /\ fcchdr' = "none"
    /\ UNCHANGED <<num, fifoLive, ACODEC>>

\* The user may stop the video at every other buffer.
ps_loop ==
    /\ MainGoes("ps_loop", "demux") \/ (frame = 1 /\ MainGoes("ps_loop", "exit"))
    /\ frame' = 1 - frame
    /\ UNCHANGED <<render, session, player, sound, chunks, index, fcchdr, RenderActive, renderPc>>

\* A picture was decoded from the buffer; the first one makes a FIFO.
decode_mpeg_dc ==
    /\ chunks > 0 /\ chunks' = chunks - 1
    /\ \/ /\ RenderActive
          /\ MainGoes("demux", "push")
          /\ UNCHANGED <<num, fifoLive, ACODEC, RenderActive>>
       \/ /\ ~RenderActive
          /\ MainGoes("demux", "start")
          /\ RenderInit(IF player = "mpeg" THEN "MPEG" ELSE "ADX")
    /\ UNCHANGED <<RENDER_ACTIVE, WAIT_START, filled, session, player, sound, index, fcchdr, frame,
                   renderPc>>

\* The buffer is used up; or the film's end was in it.
BufferEnd ==
    /\ \/ chunks > 0 /\ chunks' = chunks - 1 /\ MainGoes("demux", "ps_loop")
       \/ MainGoes("demux", "exit") /\ UNCHANGED chunks
    /\ UNCHANGED <<render, session, player, sound, index, fcchdr, frame, RenderActive, renderPc>>

LibMPEG2_Decode == \/ Mpeg2Open("mpeg", "MPEG") \/ Mpeg2Open("sofdec", "ADX")
                   \/ ps_loop \/ decode_mpeg_dc \/ BufferEnd

Main == \/ LibXVID_Decode \/ LibMPEG2_Decode
        \/ RenderStart \/ RenderPush \/ RenderFree \/ RenderInactive \/ SoundExit

-----------------------------------------------------------------------------
(* RenderThread of session t.                                              *)

RenderGoes(t, from, to) ==
    renderPc[t] = from /\ renderPc' = [renderPc EXCEPT ![t] = to]

Activate(t) ==
    /\ RenderGoes(t, "born", "prefill")
    /\ RENDER_ACTIVE' = TRUE
    /\ UNCHANGED <<num, fifoLive, ACODEC, WAIT_START, filled, main>>

Prefill(t) ==
    /\ RenderGoes(t, "prefill", "start")
    /\ ~FifoBufferHasRoom
    /\ UNCHANGED <<render, main>>

\* LibMPG123_Start, LibA52_Start or LibADX_Start.
StartSound(t) ==
    /\ RenderGoes(t, "start", "skip")
    /\ WAIT_START' = WAIT_START \ {ACODEC}
    /\ UNCHANGED <<num, fifoLive, RENDER_ACTIVE, ACODEC, filled, main>>

\* FifoBufferTopRemove, called from "skip", "first" and "remove".
RemoveCheck(t) ==
    /\ \/ RenderGoes(t, "skip", IF FifoBufferHasPacket THEN "skip_count" ELSE "load_first")
       \/ RenderGoes(t, "first", IF FifoBufferHasPacket THEN "first_count" ELSE "loop")
       \/ RenderGoes(t, "remove", IF FifoBufferHasPacket THEN "remove_count" ELSE "timestamp")
    /\ UNCHANGED <<render, main>>

RemoveCount(t) ==
    /\ \/ RenderGoes(t, "skip_count", "load_first")
       \/ RenderGoes(t, "first_count", "loop")
       \/ RenderGoes(t, "remove_count", "timestamp")
    /\ num' = IF num = 0 THEN UINT_MAX ELSE num - 1
    /\ UNCHANGED <<sync, main>>

\* The packet is read (and, for the first one, displayed) from renderPc =
\* "load" or "load_first" to the end of this step.
Load(t) ==
    /\ RenderGoes(t, "load_first", "first") \/ RenderGoes(t, "load", "remove")
    /\ UNCHANGED <<render, main>>

TestActive(t) ==
    /\ RenderGoes(t, "loop", IF RENDER_ACTIVE THEN "wait" ELSE "gone")
    /\ UNCHANGED <<render, main>>

WaitPacket(t) ==
    /\ RenderGoes(t, "wait", "load")
    /\ FifoBufferHasPacket
    /\ UNCHANGED <<render, main>>

FrameRender(t) ==
    /\ RenderGoes(t, "timestamp", "loop")
    /\ UNCHANGED <<render, main>>

RenderThread(t) ==
    \/ Activate(t) \/ Prefill(t) \/ StartSound(t) \/ RemoveCheck(t) \/ RemoveCount(t)
    \/ Load(t) \/ TestActive(t) \/ WaitPacket(t) \/ FrameRender(t)

Next == Main \/ \E t \in Threads : RenderThread(t)

Spec == Init /\ [][Next]_vars

\* KOS schedules every thread that can run.
FairSpec == Spec /\ WF_vars(Main) /\ \A t \in Threads : WF_vars(RenderThread(t))
-----------------------------------------------------------------------------
(* Properties.                                                             *)

TypeOK ==
    /\ num \in 0 .. UINT_MAX
    /\ fifoLive \in BOOLEAN /\ RENDER_ACTIVE \in BOOLEAN
    /\ ACODEC \in Codecs \cup {"none"} /\ WAIT_START \subseteq Codecs /\ filled \in BOOLEAN
    /\ mainPc \in {"menu", "start", "read", "ps_loop", "demux", "push", "destroy", "inactive", "exit"}
    /\ session \in 0 .. Sessions /\ chunks \in 0 .. Chunks
    /\ player \in {"xvid", "mpeg", "sofdec", "none"} /\ sound \in Codecs \cup {"none"}
    /\ RenderActive \in BOOLEAN
    /\ index \in BOOLEAN /\ frame \in {0, 1}
    /\ fcchdr \in {"none", "01wb", "00dc", "empty", "other"}
    /\ renderPc \in [Threads -> {"none", "born", "prefill", "start", "skip", "skip_count",
                                 "load_first", "first", "first_count", "loop", "wait", "load",
                                 "remove", "remove_count", "timestamp", "gone"}]

Removing(t) == renderPc[t] \in {"skip_count", "first_count", "remove_count"}

\* Threads are created one per session, and only after RenderInit; before it
\* whatever thread is left waits.
ThreadsInv ==
    /\ \A t \in Threads : t > session => renderPc[t] = "none"
    /\ mainPc = "start" => session > 0 /\ renderPc[session] = "none"
    /\ mainPc # "menu" => session > 0
    /\ mainPc \in {"start", "read", "push"} => RenderActive
    /\ ~RenderActive => \A t \in Threads : Blocked(t) /\ (t = session => renderPc[t] = "none")

\* The library that RenderThread starts is that of the video.
CodecInv ==
    /\ RenderActive => ACODEC = sound
    /\ player = "xvid" => sound \in {"MPEG", "AC3"}
    /\ player = "mpeg" => sound = "MPEG"
    /\ player = "sofdec" => sound = "ADX"
    /\ mainPc # "menu" => player # "none"
    /\ mainPc = "read" => player = "xvid"
    /\ mainPc \in {"ps_loop", "demux"} => player # "xvid"

\* In the first video, with one render thread, the count of the FIFO counts its
\* packets, though each side tests it before it takes the mutex.
CountsPackets ==
    session <= 1 => num <= FIFO_SIZE /\ \A t \in Threads : Removing(t) => num > 0

\* LibADX_Exit has not yet cleared its flag, if it is the one.
SoundOpen ==
    player = "sofdec" => mainPc \in {"start", "ps_loop", "demux", "push", "exit"}

\* In the first two videos, as long as the FIFO has not been full, the sound and
\* the session's own thread wait, and only a thread left from the first video
\* takes packets.  (Two threads left over can make the count wrap in a third.)
NotFilledInv ==
    session \in 1 .. 2 /\ ~filled =>
        /\ RenderActive => num < FIFO_SIZE
        /\ SoundOpen => sound \in WAIT_START
        /\ renderPc[session] \in {"none", "born", "prefill"}
        /\ \A t \in Threads : renderPc[t] # "start" /\ (Removing(t) => num > 0)

\* The inductive invariant.
Inv == TypeOK /\ ThreadsInv /\ CodecInv /\ CountsPackets /\ NotFilledInv

\* Sound waits for the picture: the library that plays it is released only when
\* the FIFO has been full in this session, even with a thread of the session
\* before still waiting for a full FIFO, or for a packet, of a video of another
\* kind.
SoundWaitsForPicture ==
    session \in 1 .. 2 /\ SoundOpen /\ sound \notin WAIT_START => filled

\* The first time the FIFO is full the sound is released, even when the video is
\* stopped at once.  (A thread left by an earlier video may take a packet before
\* the thread of this one has seen the FIFO full.)
SoundStarts == session = 1 /\ filled ~> sound \notin WAIT_START

\* The decoder gets back from the first video: RenderPush does not wait forever
\* for room.  (Except for an AVI file without a chunk behind its movie list, whose
\* last chunk is played again and again, or with AC3 sound, which may not return from
\* LibA52_Exit.  And with a thread of an earlier video the count may wrap, and it
\* does.)
PlayerReturns ==
    session = 1 /\ (player = "xvid" => index /\ sound # "AC3") ~> mainPc = "menu"

\* "Stop the Render Routine and destroy the Render Thread": after
\* RenderDestroy the thread comes to its end.
DestroyEndsThread ==
    \A t \in Threads :
       (mainPc = "inactive" /\ session = t /\ renderPc[t] # "none") ~> (renderPc[t] = "gone")
=============================================================================
