---------------------------- MODULE AvPlayerProofs -----------------------------
(***************************************************************************)
(* Proofs about AvPlayer, for every size of the FIFO, any number of videos *)
(* and of chunks: the inductive invariant, and that the sound of the first *)
(* two videos waits for the picture.                                       *)
(***************************************************************************)
EXTENDS AvPlayer, TLAPS

LEMMA InitInv == Init => Inv
<1> SUFFICES ASSUME Init PROVE Inv
  OBVIOUS
<1>1. \A t \in Threads : renderPc[t] = "none"
  BY DEF Init
<1>2. session = 0 /\ chunks = 0 /\ num = 0
  BY DEF Init
<1>3. session \in 0 .. Sessions /\ chunks \in 0 .. Chunks /\ num \in 0 .. UINT_MAX
  BY <1>2, AvAssumption
<1>4. TypeOK
  BY <1>3 DEF Init, TypeOK
<1>5. ThreadsInv
  BY <1>1, <1>2 DEF Init, ThreadsInv, Blocked
<1>6. CountsPackets /\ NotFilledInv
  BY <1>1, <1>2, AvAssumption DEF CountsPackets, NotFilledInv, Removing
<1>7. CodecInv
  BY DEF Init, CodecInv
<1>. QED BY <1>4, <1>5, <1>6, <1>7 DEF Inv

-----------------------------------------------------------------------------
(* The players.                                                            *)

\* Opening a video: whatever thread is left from the video before waits.
LEMMA OpenFacts ==
  ASSUME Inv, NEW p, NEW s, NEW to, Open(p, s, to), to # "menu"
  PROVE  /\ session' \in 1 .. Sessions /\ session' \in Threads /\ chunks' \in 0 .. Chunks
         /\ renderPc' = renderPc /\ RENDER_ACTIVE' = RENDER_ACTIVE
         /\ \A t \in Threads : t >= session' => renderPc[t] = "none"
         /\ \A t \in Threads : Blocked(t) /\ ~Removing(t)' /\ renderPc[t] # "start"
<1> USE DEF Open, MainGoes
<1>1. session \in 0 .. Sessions /\ session < Sessions /\ session' = session + 1
  BY DEF Inv, TypeOK
<1>2. \A t \in Threads : t >= session' => renderPc[t] = "none"
  BY <1>1 DEF Inv, ThreadsInv, Threads
<1>3. \A t \in Threads : Blocked(t) /\ ~Removing(t)' /\ renderPc[t] # "start"
  BY DEF Blocked, Removing
<1>. QED BY <1>1, <1>2, <1>3, AvAssumption DEF Threads

\* An AVI file starts from an empty FIFO.
LEMMA XvidOpenKeeps == ASSUME Inv, NEW s \in {"MPEG", "AC3"}, XVID_STREAM_INIT(s) PROVE Inv'
<1> USE AvAssumption
<1>1. /\ Open("xvid", s, "start") /\ index' \in BOOLEAN /\ fcchdr' = "none"
      /\ WAIT_START' = WAIT_START \cup {s}
      /\ num' = 0 /\ fifoLive' = TRUE /\ ACODEC' = s /\ RenderActive' = TRUE
  BY DEF XVID_STREAM_INIT, LibAVI_open, RenderInit
<1>2. /\ mainPc' = "start" /\ player' = "xvid" /\ sound' = s /\ frame' = 0 /\ filled' = FALSE
  BY <1>1 DEF Open, MainGoes
<1>3. /\ session' \in 1 .. Sessions /\ session' \in Threads /\ chunks' \in 0 .. Chunks
      /\ renderPc' = renderPc /\ RENDER_ACTIVE' = RENDER_ACTIVE
      /\ \A t \in Threads : t >= session' => renderPc[t] = "none"
      /\ \A t \in Threads : Blocked(t) /\ ~Removing(t)' /\ renderPc[t] # "start"
  BY <1>1, OpenFacts
<1>4. TypeOK'
  <2>1. num' \in 0 .. UINT_MAX /\ session' \in 0 .. Sessions
    BY <1>1, <1>3
  <2>2. WAIT_START' \subseteq Codecs /\ s \in Codecs
    BY <1>1 DEF Inv, TypeOK, Codecs
  <2>. QED BY <1>1, <1>2, <1>3, <2>1, <2>2 DEF Inv, TypeOK
<1>5. ThreadsInv'
  BY <1>1, <1>2, <1>3 DEF ThreadsInv, Threads
<1>6. CodecInv' /\ CountsPackets' /\ NotFilledInv'
  BY <1>1, <1>2, <1>3 DEF CodecInv, CountsPackets, NotFilledInv
<1>. QED BY <1>4, <1>5, <1>6 DEF Inv

\* An MPEG player leaves the FIFO as it is.
LEMMA Mpeg2OpenKeeps ==
  ASSUME Inv, NEW p, NEW s, <<p, s>> \in {<<"mpeg", "MPEG">>, <<"sofdec", "ADX">>}, Mpeg2Open(p, s)
  PROVE  Inv'
<1> USE AvAssumption
<1>1. /\ Open(p, s, "ps_loop") /\ index' = FALSE /\ fcchdr' = "none"
      /\ WAIT_START' = WAIT_START \cup {s} /\ RenderActive' = FALSE
      /\ UNCHANGED <<num, fifoLive, ACODEC>>
  BY DEF Mpeg2Open
<1>2. mainPc' = "ps_loop" /\ player' = p /\ sound' = s /\ frame' = 0 /\ filled' = FALSE
  BY <1>1 DEF Open, MainGoes
<1>3. /\ session' \in 1 .. Sessions /\ session' \in Threads /\ chunks' \in 0 .. Chunks
      /\ renderPc' = renderPc /\ RENDER_ACTIVE' = RENDER_ACTIVE
      /\ \A t \in Threads : t >= session' => renderPc[t] = "none"
      /\ \A t \in Threads : Blocked(t) /\ ~Removing(t)' /\ renderPc[t] # "start"
  BY <1>1, OpenFacts
<1>4. \/ p = "mpeg" /\ s = "MPEG"
      \/ p = "sofdec" /\ s = "ADX"
  OBVIOUS
<1>5. TypeOK'
  <2>1. session' \in 0 .. Sessions
    BY <1>3
  <2>2. WAIT_START' \subseteq Codecs /\ s \in Codecs /\ p \in {"mpeg", "sofdec"}
    BY <1>1, <1>4 DEF Inv, TypeOK, Codecs
  <2>. QED BY <1>1, <1>2, <1>3, <2>1, <2>2 DEF Inv, TypeOK
<1>6. ThreadsInv'
  <2>1. \A t \in Threads : Blocked(t)'
    BY <1>1, <1>3 DEF Blocked, FifoBufferHasRoom, FifoBufferHasPacket
  <2>. QED BY <1>1, <1>2, <1>3, <2>1 DEF ThreadsInv, Threads
<1>7. CodecInv' /\ NotFilledInv'
  BY <1>1, <1>2, <1>3, <1>4 DEF CodecInv, NotFilledInv
<1>8. CountsPackets'
  <2> SUFFICES ASSUME session' <= 1 PROVE num <= FIFO_SIZE
    BY <1>1, <1>3 DEF CountsPackets
  <2>1. session <= 1
    BY <1>1 DEF Open, Inv, TypeOK
  <2>. QED BY <2>1 DEF Inv, CountsPackets
<1>. QED BY <1>5, <1>6, <1>7, <1>8 DEF Inv

LEMMA StartKeeps == ASSUME Inv, RenderStart PROVE Inv'
<1> USE AvAssumption DEF RenderStart, MainGoes, render, sync, file
<1>1. session \in Threads /\ RenderActive
  BY DEF Inv, TypeOK, ThreadsInv, Threads
<1>2. \A t \in Threads : renderPc'[t] = IF t = session THEN "born" ELSE renderPc[t]
  BY <1>1 DEF Inv, TypeOK
<1>3. TypeOK'
  BY <1>1 DEF Inv, TypeOK
<1>4. ThreadsInv'
  BY <1>1, <1>2 DEF Inv, TypeOK, ThreadsInv, Threads
<1>5. CountsPackets' /\ CodecInv'
  BY <1>2 DEF Inv, CountsPackets, CodecInv, Removing
<1>6. NotFilledInv'
  BY <1>1, <1>2 DEF Inv, NotFilledInv, Removing, SoundOpen
<1>. QED BY <1>3, <1>4, <1>5, <1>6 DEF Inv

\* Reading a chunk, or going on in a film, changes nothing that the threads share.
LEMMA QuietKeeps ==
  ASSUME Inv, UNCHANGED <<render, session, player, sound, RenderActive, renderPc>>,
         chunks' \in 0 .. Chunks, index' \in BOOLEAN, frame' \in {0, 1},
         fcchdr' \in {"none", "01wb", "00dc", "empty", "other"},
         \/ mainPc = "read" /\ player = "xvid" /\ mainPc' \in {"read", "push", "destroy"}
         \/ mainPc = "ps_loop" /\ mainPc' \in {"demux", "exit"}
         \/ mainPc = "demux" /\ mainPc' \in {"ps_loop", "exit"}
         \/ mainPc = "demux" /\ RenderActive /\ mainPc' = "push"
  PROVE  Inv'
<1> USE DEF render, sync
<1>1. TypeOK'
  BY DEF Inv, TypeOK
<1>2. \A t \in Threads : /\ Blocked(t)' <=> Blocked(t)
                         /\ Removing(t)' <=> Removing(t)
  BY DEF Blocked, Removing, FifoBufferHasRoom, FifoBufferHasPacket
<1>3. ThreadsInv'
  BY <1>2 DEF Inv, ThreadsInv
<1>4. CodecInv' /\ CountsPackets'
  BY <1>2 DEF Inv, CodecInv, CountsPackets
<1>5. SoundOpen' => SoundOpen
  BY DEF SoundOpen
<1>6. NotFilledInv'
  BY <1>2, <1>5 DEF Inv, NotFilledInv
<1>. QED BY <1>1, <1>3, <1>4, <1>6 DEF Inv

LEMMA ReadKeeps == ASSUME Inv, XVID_STREAM_DECODE PROVE Inv'
<1>1. PICK kind \in {"01wb", "00dc", "empty", "other"}, to \in {"read", "push", "destroy"} :
          Reads(kind, to) /\ frame' \in {frame, 1 - frame}
  BY DEF XVID_STREAM_DECODE, ReadAudio, ReadVideo, ReadEnd
<1>2. /\ UNCHANGED <<render, session, player, sound, RenderActive, renderPc>>
      /\ mainPc = "read" /\ mainPc' \in {"read", "push", "destroy"}
  BY <1>1 DEF Reads, MainGoes
<1>3. chunks' \in 0 .. Chunks /\ index' \in BOOLEAN /\ frame' \in {0, 1} /\ fcchdr' = kind
  BY <1>1, AvAssumption DEF Reads, LibAVI_read_chunk, Inv, TypeOK
<1>4. player = "xvid"
  BY <1>2 DEF Inv, CodecInv
<1>. QED BY <1>2, <1>3, <1>4, QuietKeeps

LEMMA LoopKeeps == ASSUME Inv, ps_loop \/ BufferEnd PROVE Inv'
<1>1. /\ UNCHANGED <<render, session, player, sound, RenderActive, renderPc, index, fcchdr>>
      /\ \/ mainPc = "ps_loop" /\ mainPc' \in {"demux", "exit"}
         \/ mainPc = "demux" /\ mainPc' \in {"ps_loop", "exit"}
  BY DEF ps_loop, BufferEnd, MainGoes
<1>2. chunks' \in 0 .. Chunks /\ frame' \in {0, 1}
  BY AvAssumption DEF ps_loop, BufferEnd, Inv, TypeOK
<1>3. index' \in BOOLEAN /\ fcchdr' \in {"none", "01wb", "00dc", "empty", "other"}
  BY <1>1 DEF Inv, TypeOK
<1>. QED BY <1>1, <1>2, <1>3, QuietKeeps

\* The first picture of a film makes a FIFO for threads that all wait.
LEMMA PictureKeeps == ASSUME Inv, decode_mpeg_dc PROVE Inv'
<1> USE AvAssumption DEF decode_mpeg_dc, MainGoes
<1>1. /\ chunks' \in 0 .. Chunks
      /\ UNCHANGED <<RENDER_ACTIVE, WAIT_START, filled, session, player, sound, index, fcchdr, frame,
                     renderPc>>
  BY DEF Inv, TypeOK
<1>2. CASE RenderActive /\ UNCHANGED <<num, fifoLive, ACODEC, RenderActive>> /\ mainPc = "demux"
           /\ mainPc' = "push"
  <2>1. /\ UNCHANGED render
        /\ index' \in BOOLEAN /\ frame' \in {0, 1}
        /\ fcchdr' \in {"none", "01wb", "00dc", "empty", "other"}
    BY <1>1, <1>2 DEF render, sync, Inv, TypeOK
  <2>. QED BY <1>1, <1>2, <2>1, QuietKeeps
<1>3. CASE ~RenderActive
  <2>1. /\ mainPc = "demux" /\ mainPc' = "start"
        /\ num' = 0 /\ fifoLive' = TRUE /\ RenderActive' = TRUE
        /\ ACODEC' = IF player = "mpeg" THEN "MPEG" ELSE "ADX"
    BY <1>3 DEF RenderInit
  <2>2. \A t \in Threads : Blocked(t) /\ (t = session => renderPc[t] = "none")
    BY <1>3 DEF Inv, ThreadsInv
  <2>3. \A t \in Threads : ~Removing(t)' /\ renderPc'[t] # "start"
    BY <1>1, <2>2 DEF Blocked, Removing
  <2>4. session \in Threads
    BY <2>1 DEF Inv, TypeOK, ThreadsInv, Threads
  <2>5. player \in {"mpeg", "sofdec"} /\ ACODEC' = sound
    BY <2>1 DEF Inv, TypeOK, CodecInv
  <2>6. TypeOK'
    BY <1>1, <2>1 DEF Inv, TypeOK, Codecs
  <2>7. ThreadsInv'
    BY <1>1, <2>1, <2>2, <2>4 DEF Inv, TypeOK, ThreadsInv, Threads
  <2>8. CodecInv' /\ CountsPackets'
    BY <1>1, <2>1, <2>3, <2>5 DEF Inv, CodecInv, CountsPackets
  <2>9. NotFilledInv'
    <3>1. SoundOpen' => SoundOpen
      BY <1>1, <2>1 DEF SoundOpen
    <3>. QED BY <1>1, <2>1, <2>2, <2>3, <2>4, <3>1 DEF Inv, NotFilledInv
  <2>. QED BY <2>6, <2>7, <2>8, <2>9 DEF Inv
<1>. QED BY <1>2, <1>3

LEMMA PushKeeps == ASSUME Inv, RenderPush PROVE Inv'
<1> USE AvAssumption DEF RenderPush, MainGoes, FifoBufferHasRoom, file
<1>1. TypeOK'
  BY DEF Inv, TypeOK
<1>2. RenderActive /\ RenderActive'
  BY DEF Inv, ThreadsInv
<1>3. ThreadsInv'
  BY <1>2 DEF Inv, CodecInv, ThreadsInv
<1>4. CountsPackets' /\ CodecInv'
  BY DEF Inv, TypeOK, CountsPackets, CodecInv, Removing
<1>5. NotFilledInv'
  <2>1. SoundOpen' => SoundOpen
    BY DEF SoundOpen
  <2>2. \A t \in Threads : Removing(t)' <=> Removing(t)
    BY DEF Removing
  <2>3. ~filled' => ~filled /\ num' < FIFO_SIZE
    <3>1. ~filled' => ~filled /\ num' # FIFO_SIZE
      BY Zenon DEF Inv, TypeOK
    <3>2. num' # FIFO_SIZE => num' < FIFO_SIZE
      BY DEF Inv, TypeOK
    <3>. QED BY <3>1, <3>2
  <2>4. num' > 0
    BY DEF Inv, TypeOK
  <2>. QED BY <1>2, <2>1, <2>2, <2>3, <2>4 DEF Inv, NotFilledInv
<1>. QED BY <1>1, <1>3, <1>4, <1>5 DEF Inv

\* The end of a video; only LibADX_Exit touches the sound.
LEMMA DestroyKeeps == ASSUME Inv, RenderFree \/ RenderInactive \/ SoundExit PROVE Inv'
<1>1. /\ UNCHANGED <<num, ACODEC, filled, session, file, RenderActive, renderPc>>
      /\ fifoLive' \in BOOLEAN /\ RENDER_ACTIVE' \in BOOLEAN
      /\ mainPc \in {"destroy", "inactive", "exit"}
      /\ mainPc' \in {"destroy", "inactive", "exit", "menu"}
  BY DEF RenderFree, RenderInactive, SoundExit, MainGoes, Inv, TypeOK
<1>2. WAIT_START' \subseteq Codecs
  BY DEF RenderFree, RenderInactive, SoundExit, Inv, TypeOK
<1>3. /\ SoundOpen' => SoundOpen
      /\ SoundOpen' /\ sound \in WAIT_START => sound \in WAIT_START'
  BY DEF RenderFree, RenderInactive, SoundExit, MainGoes, SoundOpen, Inv, CodecInv, TypeOK, file
<1>4. TypeOK'
  BY <1>1, <1>2 DEF Inv, TypeOK, file
<1>5. \A t \in Threads : /\ Blocked(t)' <=> Blocked(t)
                         /\ Removing(t)' <=> Removing(t)
  BY <1>1 DEF Blocked, Removing, FifoBufferHasRoom, FifoBufferHasPacket
<1>6. ThreadsInv' /\ CodecInv' /\ CountsPackets'
  BY <1>1, <1>5 DEF Inv, ThreadsInv, CodecInv, CountsPackets, file
<1>7. NotFilledInv'
  BY <1>1, <1>3, <1>5 DEF Inv, NotFilledInv, file
<1>. QED BY <1>4, <1>6, <1>7 DEF Inv

-----------------------------------------------------------------------------
(* The render thread.  Its program counters outside the FIFO:              *)

\* A thread that moves does not wait, so that the video has a FIFO; what the player
\* keeps is as it was.
LEMMA MovesInFifo ==
  ASSUME Inv, NEW t \in Threads, ~Blocked(t), UNCHANGED <<ACODEC, main>>
  PROVE  RenderActive /\ RenderActive' /\ CodecInv' /\ (SoundOpen' <=> SoundOpen)
  BY DEF Inv, ThreadsInv, CodecInv, SoundOpen, main, file

LEMMA Moves == ASSUME NEW t \in Threads, RenderThread(t) PROVE ~Blocked(t)
<1> USE DEF Blocked, RenderGoes
<1>1. CASE Activate(t) \/ Prefill(t)
  BY <1>1 DEF Activate, Prefill
<1>2. CASE StartSound(t) \/ Load(t) \/ TestActive(t) \/ WaitPacket(t) \/ FrameRender(t)
  BY <1>2 DEF StartSound, Load, TestActive, WaitPacket, FrameRender
<1>3. CASE RemoveCheck(t)
  BY <1>3 DEF RemoveCheck
<1>4. CASE RemoveCount(t)
  BY <1>4 DEF RemoveCount
<1>. QED BY <1>1, <1>2, <1>3, <1>4 DEF RenderThread

\* A step that changes nothing but where the thread is, and takes it neither to
\* StartSound nor to the update of the count.
LEMMA MoveKeeps ==
  ASSUME Inv, NEW t \in Threads, NEW to,
         UNCHANGED <<num, fifoLive, ACODEC, WAIT_START, filled, main>>,
         RENDER_ACTIVE' \in BOOLEAN,
         ~Blocked(t),
         renderPc' = [renderPc EXCEPT ![t] = to],
         to \in {"prefill", "load_first", "first", "loop", "wait", "load",
                 "remove", "timestamp", "gone"},
         to = "prefill" \/ renderPc[t] \notin {"born", "prefill"}
  PROVE Inv'
<1>1. \A u \in Threads : renderPc'[u] = IF u = t THEN to ELSE renderPc[u]
  BY DEF Inv, TypeOK
<1>2. TypeOK'
  BY DEF Inv, TypeOK, main, file
<1>3. RenderActive /\ RenderActive' /\ CodecInv' /\ (SoundOpen' <=> SoundOpen)
  BY MovesInFifo
<1>4. ThreadsInv'
  <2>1. renderPc[t] # "none"
    BY DEF Blocked
  <2>. QED BY <1>1, <1>3, <2>1 DEF Inv, TypeOK, ThreadsInv, Threads, main
<1>5. CountsPackets'
  BY <1>1 DEF Inv, CountsPackets, Removing, main
<1>6. NotFilledInv'
  <2> SUFFICES ASSUME session \in 1 .. 2, ~filled PROVE NotFilledInv'
    BY DEF NotFilledInv, main
  <2>1. session \in Threads
    BY DEF Inv, TypeOK, Threads
  <2>2. t = session => to = "prefill"
    BY DEF Inv, NotFilledInv, Blocked
  <2>. QED BY <1>1, <1>3, <2>1, <2>2 DEF Inv, NotFilledInv, Removing, main, file
<1>. QED BY <1>2, <1>3, <1>4, <1>5, <1>6 DEF Inv

\* The FIFO has been full when a thread of the first two videos leaves the
\* prefill: before, the count is below FIFO_SIZE.
LEMMA PrefillKeeps == ASSUME Inv, NEW t \in Threads, ~Blocked(t), Prefill(t) PROVE Inv'
<1> USE AvAssumption DEF Prefill, RenderGoes, FifoBufferHasRoom
<1>1. \A u \in Threads : renderPc'[u] = IF u = t THEN "start" ELSE renderPc[u]
  BY DEF Inv, TypeOK
<1>2. TypeOK'
  BY DEF Inv, TypeOK, render, sync, main, file
<1>3. RenderActive /\ RenderActive' /\ CodecInv'
  BY MovesInFifo DEF render, sync
<1>4. ThreadsInv' /\ CountsPackets'
  BY <1>1, <1>3 DEF Inv, TypeOK, ThreadsInv, CountsPackets, Removing, Threads, render, main
<1>5. NotFilledInv'
  BY <1>3 DEF Inv, TypeOK, NotFilledInv, render, sync, main
<1>. QED BY <1>2, <1>3, <1>4, <1>5 DEF Inv

LEMMA SoundKeeps == ASSUME Inv, NEW t \in Threads, ~Blocked(t), StartSound(t) PROVE Inv'
<1> USE DEF StartSound, RenderGoes
<1>1. \A u \in Threads : renderPc'[u] = IF u = t THEN "skip" ELSE renderPc[u]
  BY DEF Inv, TypeOK
<1>2. TypeOK'
  BY DEF Inv, TypeOK, main, file
<1>3. RenderActive /\ RenderActive' /\ CodecInv'
  BY MovesInFifo
<1>4. ThreadsInv' /\ CountsPackets'
  BY <1>1, <1>3 DEF Inv, TypeOK, ThreadsInv, CountsPackets, Removing, Threads, main
<1>5. NotFilledInv'
  BY DEF Inv, NotFilledInv, main
<1>. QED BY <1>2, <1>3, <1>4, <1>5 DEF Inv

\* A thread that goes on to take a packet has seen one.
LEMMA CheckKeeps == ASSUME Inv, NEW t \in Threads, ~Blocked(t), RemoveCheck(t) PROVE Inv'
<1>1. CASE ~FifoBufferHasPacket
  <2>1. PICK to \in {"load_first", "loop", "timestamp"} :
            renderPc' = [renderPc EXCEPT ![t] = to]
    BY <1>1 DEF RemoveCheck, RenderGoes
  <2>2. renderPc[t] \in {"skip", "first", "remove"} /\ RENDER_ACTIVE' \in BOOLEAN
        /\ UNCHANGED <<num, fifoLive, ACODEC, WAIT_START, filled, main>>
    BY DEF RemoveCheck, RenderGoes, Inv, TypeOK, render, sync
  <2>. QED BY <2>1, <2>2, MoveKeeps
<1>2. CASE FifoBufferHasPacket
  <2>1. PICK to \in {"skip_count", "first_count", "remove_count"} :
            renderPc' = [renderPc EXCEPT ![t] = to]
    BY <1>2 DEF RemoveCheck, RenderGoes
  <2>2. /\ renderPc[t] \in {"skip", "first", "remove"}
        /\ UNCHANGED <<num, fifoLive, RENDER_ACTIVE, ACODEC, WAIT_START, filled, main>>
    BY DEF RemoveCheck, RenderGoes, render, sync
  <2>3. \A u \in Threads : renderPc'[u] = IF u = t THEN to ELSE renderPc[u]
    BY <2>1 DEF Inv, TypeOK
  <2>4. TypeOK'
    BY <2>1, <2>2 DEF Inv, TypeOK, main, file
  <2>5. RenderActive /\ RenderActive' /\ CodecInv' /\ (SoundOpen' <=> SoundOpen)
    BY <2>2, MovesInFifo
  <2>6. ThreadsInv'
    BY <2>2, <2>3, <2>5 DEF Inv, TypeOK, ThreadsInv, Threads, main
  <2>7. num > 0
    BY <1>2 DEF FifoBufferHasPacket
  <2>8. CountsPackets'
    BY <2>2, <2>3, <2>7 DEF Inv, CountsPackets, Removing, main
  <2>9. NotFilledInv'
    <3> SUFFICES ASSUME session \in 1 .. 2, ~filled PROVE NotFilledInv'
      BY <2>2 DEF NotFilledInv, main
    <3>1. session \in Threads /\ t # session
      BY <2>2 DEF Inv, TypeOK, NotFilledInv, Threads
    <3>2. renderPc'[session] \in {"none", "born", "prefill"}
      BY <2>3, <3>1 DEF Inv, NotFilledInv
    <3>3. \A u \in Threads : renderPc'[u] # "start"
      BY <2>3 DEF Inv, NotFilledInv
    <3>. QED BY <2>2, <2>5, <2>7, <3>2, <3>3 DEF Inv, NotFilledInv, main, file
  <2>. QED BY <2>4, <2>5, <2>6, <2>8, <2>9 DEF Inv
<1>. QED BY <1>1, <1>2

\* In the first two videos at most one thread takes packets before the FIFO has
\* been full, and in the first one there is no other at all: the count that it
\* has seen above zero still is.
LEMMA CountKeeps == ASSUME Inv, NEW t \in Threads, ~Blocked(t), RemoveCount(t) PROVE Inv'
<1> USE AvAssumption
<1>1. PICK to \in {"load_first", "loop", "timestamp"} : renderPc' = [renderPc EXCEPT ![t] = to]
  BY DEF RemoveCount, RenderGoes
<1>2. Removing(t) /\ UNCHANGED <<fifoLive, RENDER_ACTIVE, ACODEC, WAIT_START, filled, main>>
  BY DEF RemoveCount, RenderGoes, Removing, sync
<1>3. \A u \in Threads : renderPc'[u] = IF u = t THEN to ELSE renderPc[u]
  BY <1>1 DEF Inv, TypeOK
<1>4. num' = IF num = 0 THEN UINT_MAX ELSE num - 1
  BY DEF RemoveCount
<1>5. TypeOK'
  BY <1>1, <1>2, <1>4 DEF Inv, TypeOK, main, file
<1>6. RenderActive /\ RenderActive' /\ CodecInv' /\ (SoundOpen' <=> SoundOpen)
  BY <1>2, MovesInFifo
<1>7. ThreadsInv'
  BY <1>2, <1>3, <1>6 DEF Inv, TypeOK, ThreadsInv, Threads, Removing, main
<1>8. CountsPackets'
  <2> SUFFICES ASSUME session <= 1 PROVE CountsPackets'
    BY <1>2 DEF CountsPackets, main
  <2>1. num > 0 /\ num <= FIFO_SIZE /\ num \in Nat
    BY <1>2 DEF Inv, CountsPackets, TypeOK
  <2>2. t = 1 /\ \A u \in Threads : u # t => ~Removing(u)
    BY <1>2 DEF Inv, TypeOK, ThreadsInv, Threads, Removing
  <2>3. \A u \in Threads : ~Removing(u)'
    BY <1>3, <2>2 DEF Removing
  <2>. QED BY <1>2, <1>4, <2>1, <2>3 DEF CountsPackets
<1>9. NotFilledInv'
  <2> SUFFICES ASSUME session \in 1 .. 2, ~filled PROVE NotFilledInv'
    BY <1>2 DEF NotFilledInv, main
  <2>1. num > 0 /\ num < FIFO_SIZE /\ num \in Nat
    BY <1>2, <1>6 DEF Inv, NotFilledInv, TypeOK
  <2>2. session \in Threads /\ t # session
    BY <1>2 DEF Inv, TypeOK, NotFilledInv, Threads, Removing
  <2>3. \A u \in Threads : u # t => ~Removing(u)
    BY <1>2, <2>2 DEF Inv, TypeOK, ThreadsInv, NotFilledInv, Threads, Removing
  <2>4. \A u \in Threads : ~Removing(u)'
    BY <1>3, <2>3 DEF Removing
  <2>. QED BY <1>2, <1>3, <1>4, <1>6, <2>1, <2>2, <2>4 DEF Inv, NotFilledInv, main, file
<1>. QED BY <1>5, <1>6, <1>7, <1>8, <1>9 DEF Inv

LEMMA ThreadKeeps == ASSUME Inv, NEW t \in Threads, RenderThread(t) PROVE Inv'
<1>0. ~Blocked(t)
  BY Moves
<1>1. CASE Activate(t)
  <2>1. /\ UNCHANGED <<num, fifoLive, ACODEC, WAIT_START, filled, main>> /\ RENDER_ACTIVE' \in BOOLEAN
        /\ renderPc' = [renderPc EXCEPT ![t] = "prefill"]
    BY <1>1 DEF Activate, RenderGoes
  <2>. QED BY <1>0, <2>1, MoveKeeps
<1>2. CASE Load(t) \/ TestActive(t) \/ WaitPacket(t) \/ FrameRender(t)
  <2>1. PICK to \in {"first", "remove", "wait", "gone", "load", "loop"} :
            renderPc' = [renderPc EXCEPT ![t] = to]
    BY <1>2 DEF Load, TestActive, WaitPacket, FrameRender, RenderGoes
  <2>2. renderPc[t] \in {"load_first", "load", "loop", "wait", "timestamp"}
        /\ RENDER_ACTIVE' \in BOOLEAN
        /\ UNCHANGED <<num, fifoLive, ACODEC, WAIT_START, filled, main>>
    BY <1>2 DEF Load, TestActive, WaitPacket, FrameRender, RenderGoes, Inv, TypeOK, render, sync
  <2>. QED BY <1>0, <2>1, <2>2, MoveKeeps
<1>. QED BY <1>0, <1>1, <1>2, PrefillKeeps, SoundKeeps, CheckKeeps, CountKeeps DEF RenderThread

-----------------------------------------------------------------------------

\* The inductive invariant: threads are created one per video; in the first the
\* count of the FIFO counts; the library to be started is that of the video; and as
\* long as the FIFO of the first or the second has not been full, nothing but a
\* thread left over takes from it.
THEOREM ThreadsAndCount == Spec => []Inv
<1>1. Inv /\ [Next]_vars => Inv'
  <2> SUFFICES ASSUME Inv, [Next]_vars PROVE Inv'
    OBVIOUS
  <2>1. CASE LibXVID_Decode
    BY <2>1, XvidOpenKeeps, ReadKeeps DEF LibXVID_Decode
  <2>2. CASE LibMPEG2_Decode
    <3>1. CASE Mpeg2Open("mpeg", "MPEG") \/ Mpeg2Open("sofdec", "ADX")
      BY <3>1, Mpeg2OpenKeeps
    <3>. QED BY <2>2, <3>1, LoopKeeps, PictureKeeps DEF LibMPEG2_Decode
  <2>3. CASE RenderStart \/ RenderPush \/ RenderFree \/ RenderInactive \/ SoundExit
    BY <2>3, StartKeeps, PushKeeps, DestroyKeeps
  <2>4. CASE \E t \in Threads : RenderThread(t)
    BY <2>4, ThreadKeeps
  <2>5. CASE UNCHANGED vars
    BY <2>5 DEF vars, render, sync, main, file, Inv, TypeOK, ThreadsInv, CodecInv, CountsPackets,
                NotFilledInv, SoundOpen, Removing, Blocked, FifoBufferHasRoom, FifoBufferHasPacket
  <2>. QED BY <2>1, <2>2, <2>3, <2>4, <2>5 DEF Next, Main
<1>. QED BY InitInv, <1>1, PTL DEF Spec

\* The sound of a video is released only when its FIFO has been full, for the
\* first two videos, one of which may have left its thread waiting.
THEOREM SoundWaits == Spec => []SoundWaitsForPicture
<1>1. Inv => SoundWaitsForPicture
  BY DEF Inv, NotFilledInv, SoundWaitsForPicture
<1>. QED BY <1>1, ThreadsAndCount, PTL
=============================================================================
