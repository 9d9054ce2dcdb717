------------------------------- MODULE AdxPlayer -------------------------------
(***************************************************************************)
(* LibADX (libadx/LibADX.c) and what drives it: DCMC_LibADX_Decode         *)
(* (libdcmc/dcmc-audio.c) for a music file, or the sound of a Sofdec video *)
(* (libmpeg2/player/LibMPEG2SFD.c), which waits for the render thread to   *)
(* call LibADX_Start.  The file has an ADX header of one channel or two, a *)
(* music file is a chunk or more long (its loop is that of Mp3Player), and *)
(* a video is not left before its first packet of sound.                   *)
(***************************************************************************)
EXTENDS PcmBuffer

CONSTANTS Videos,       \* whether it is the sound of a video: {TRUE}, {FALSE} or both
          Chunks,       \* most chunks after the first
          ChunkBytes,   \* most bytes of a chunk; a music file's chunks are that long
          ChunkSizes,   \* ADX_Info.chunk_size: the bytes of a block of samples
          High, Low     \* as in Mp3Player

ASSUME AdxAssumption ==
    /\ Videos \subseteq BOOLEAN /\ Chunks \in Nat
    /\ ChunkBytes \in Nat \ {0} /\ ChunkSizes \subseteq Nat \ {0}
    /\ Low \in Nat /\ High \in Nat /\ Needs \subseteq 0 .. Low

VARIABLES ADX_DEC_STAT, ADX_WAIT_START,
          chunk_size, sfa_bytes,    \* sfa_bytes: left of the chunks for the next block
          pcmLive,                  \* pcm_buf and the mutex are there
          video, chunks, st         \* as in Ac3Player

adxVars == <<ADX_DEC_STAT, ADX_WAIT_START, chunk_size, sfa_bytes, pcmLive>>
playVars == <<video, chunks, st>>
vars == <<sndVars, pcmVars, adxVars, playVars>>

Init ==
    /\ SndInit /\ PcmInit
    /\ ADX_DEC_STAT = FALSE /\ ADX_WAIT_START = FALSE
    /\ chunk_size \in ChunkSizes /\ sfa_bytes = 0 /\ pcmLive = FALSE
    /\ video \in Videos /\ chunks \in 0 .. Chunks /\ st = FALSE

-----------------------------------------------------------------------------
(* The callback and its thread.                                            *)

adx_drv_callback_copies(d) ==                                        \* fault
    \/ ~ADX_WAIT_START /\ CallbackRequest(d)
    \/ ~ADX_DEC_STAT /\ CallbackCopyAnyway(d)
    \/ CallbackTakes(d)

\* pcm_buf->size is read after it was freed: anything may be returned.
CallbackFreed(d) ==
    /\ ~pcmLive /\ drv[d] = "filling"
    /\ CallbackReturns(d)
    /\ UNCHANGED <<hndVars, mainVars, pcmVars>>

adx_drv_callback(d) ==
    \/ ~ADX_WAIT_START /\ CallbackRequest(d)
    \/ ~ADX_DEC_STAT /\ CallbackSilence(d)
    \/ CallbackTakes(d)
    \/ CallbackFreed(d)

adx_drv_thd(d) ==
    /\ adx_drv_callback(d) \/ (DriverLoop(d) /\ UNCHANGED pcmVars)
    /\ UNCHANGED <<adxVars, playVars>>

DriverSpins(d) ==
    \/ drv[d] = "callback" /\ ADX_WAIT_START
    \/ Starved(d) /\ ADX_DEC_STAT

-----------------------------------------------------------------------------
(* The library.                                                            *)

\* As in LibMPG123 the count is read as unsigned; Inv shows that it is never negative.
LibADX_PcmHave == size

\* The first chunk follows a header of some length and is decoded at once.
LibADX_Init ==
    /\ ADX_DEC_STAT' = TRUE /\ pcmLive' = TRUE
    /\ HndAlloc("ok")
    /\ \E n \in 0 .. ChunkBytes - 1 :
          size' = n \div chunk_size /\ sfa_bytes' = n % chunk_size
    /\ \E d \in Drivers : CreateDriver(d)
    /\ UNCHANGED needed

\* Whole blocks are decoded; what is left waits for the next chunk.
LibADX_DecodeChunk(n) ==
    /\ Decoded((sfa_bytes + n) \div chunk_size)
    /\ sfa_bytes' = (sfa_bytes + n) % chunk_size
    /\ UNCHANGED <<hndVars, drvVars, ADX_DEC_STAT, pcmLive>>

ExitStop ==
    /\ MainWaits("exit", "exit_free", ExitSleep)
    /\ ADX_DEC_STAT' = FALSE
    /\ UNCHANGED <<hndVars, drvVars, pcmVars, ADX_WAIT_START, chunk_size, sfa_bytes, pcmLive>>

ExitFreeStillWaits ==                                                \* fault
    /\ MainGoes("exit_free", "hnd_exit")
    /\ pcmLive' = FALSE
    /\ UNCHANGED <<hndVars, drvVars, pcmVars, ADX_DEC_STAT, ADX_WAIT_START, chunk_size, sfa_bytes>>

\* The mutex and the samples go before the driver is stopped.
ExitFree ==
    /\ MainGoes("exit_free", "hnd_exit")
    /\ ADX_WAIT_START' = FALSE /\ pcmLive' = FALSE
    /\ UNCHANGED <<hndVars, drvVars, pcmVars, ADX_DEC_STAT, chunk_size, sfa_bytes>>

ExitHandle ==
    /\ MainGoes("freed_stream", "closed")
    /\ hndLive' = FALSE
    /\ UNCHANGED <<stat, chan, stream, drvVars, pcmVars, adxVars>>

LibADX_Exit ==
    \/ ExitStop \/ ExitFree \/ ExitHandle
    \/ snddrv_hnd_exit /\ UNCHANGED <<pcmVars, adxVars>>

-----------------------------------------------------------------------------
(* The players.                                                            *)

OpenMusic ==
    /\ ~video /\ MainGoes("menu", "while")
    /\ LibADX_Init
    /\ UNCHANGED <<ADX_WAIT_START, chunk_size, playVars>>

OpenVideo ==
    /\ video /\ MainGoes("menu", "first")
    /\ ADX_WAIT_START' = TRUE
    /\ UNCHANGED <<hndVars, drvVars, pcmVars, ADX_DEC_STAT, chunk_size, sfa_bytes, pcmLive, playVars>>

\* The first packet of sound in a video.
FirstPacket ==
    /\ MainWaits("first", "input", 1)
    /\ LibADX_Init
    /\ UNCHANGED <<ADX_WAIT_START, chunk_size, playVars>>

While ==
    /\ MainGoes("while", CASE chunks > 0 /\ ~st -> "decode"
                           [] OTHER             -> IF video THEN "exit" ELSE "drain")
    /\ UNCHANGED <<hndVars, drvVars, pcmVars, adxVars, playVars>>

\* "Decode ADX Chunk if below a threshold"; a picture is drawn in any case.
DecodeMusic ==
    /\ ~video /\ MainWaits("decode", "input", 1)
    /\ \/ /\ LibADX_PcmHave <= High
          /\ LibADX_DecodeChunk(ChunkBytes) /\ chunks' = chunks - 1
       \/ /\ LibADX_PcmHave > High
          /\ UNCHANGED <<hndVars, drvVars, pcmVars, ADX_DEC_STAT, sfa_bytes, pcmLive, chunks>>
    /\ UNCHANGED <<ADX_WAIT_START, chunk_size, video, st>>

\* A packet of any length; nothing waits for the samples to be played.
DecodeVideo ==
    /\ video /\ MainWaits("decode", "input", 1)
    /\ \E n \in 1 .. ChunkBytes : LibADX_DecodeChunk(n)
    /\ chunks' = chunks - 1
    /\ UNCHANGED <<ADX_WAIT_START, chunk_size, video, st>>

Input ==
    /\ MainGoes("input", "while")
    /\ st' \in BOOLEAN
    /\ UNCHANGED <<hndVars, drvVars, pcmVars, adxVars, video, chunks>>

\* Nothing reads the controller here: start has no effect.
Drain ==
    /\ MainGoes("drain", "exit")
    /\ LibADX_PcmHave < Low \/ st
    /\ UNCHANGED <<hndVars, drvVars, pcmVars, adxVars, playVars>>

Main == \/ OpenMusic \/ OpenVideo \/ FirstPacket \/ While \/ DecodeMusic \/ DecodeVideo
        \/ Input \/ Drain \/ (LibADX_Exit /\ UNCHANGED playVars)

\* LibADX_Start by the render thread, once the video's FIFO has been full.
LibADX_Start ==
    /\ video /\ mainPc \notin {"menu", "closed"}
    /\ ADX_WAIT_START' = FALSE
    /\ UNCHANGED <<sndVars, pcmVars, ADX_DEC_STAT, chunk_size, sfa_bytes, pcmLive, playVars>>

Driver == \E d \in Drivers : adx_drv_thd(d)

MainSpins ==
    \/ mainPc \in {"menu", "closed"}
    \/ mainPc = "drain" /\ LibADX_PcmHave >= Low /\ ~st

Time ==
    /\ mainSleep > 0 \/ MainSpins
    /\ \A d \in Drivers : DriverWaits(d) \/ DriverSpins(d)
    /\ Tick
    /\ UNCHANGED <<pcmVars, adxVars, playVars>>

Next == Main \/ LibADX_Start \/ Driver \/ Time

Spec == Init /\ [][Next]_vars

\* As for Mp3Player.  Nothing says that a video fills its FIFO.
FairSpec ==
    /\ Spec
    /\ WF_vars(Main) /\ WF_vars(Time)
    /\ \A d \in Drivers :
          /\ WF_vars(adx_drv_thd(d))
          /\ SF_vars(adx_drv_thd(d) /\ drv'[d] = "callback")
-----------------------------------------------------------------------------
(* Properties.                                                             *)

TypeOK ==
    /\ SndTypeOK /\ PcmTypeOK
    /\ mainPc \in {"menu", "first", "while", "decode", "input", "drain", "exit", "exit_free",
                   "hnd_exit", "hnd_destroy", "freed_stream", "closed"}
    /\ ADX_DEC_STAT \in BOOLEAN /\ ADX_WAIT_START \in BOOLEAN /\ pcmLive \in BOOLEAN
    /\ chunk_size \in ChunkSizes /\ sfa_bytes \in 0 .. chunk_size - 1
    /\ video \in BOOLEAN /\ chunks \in 0 .. Chunks /\ st \in BOOLEAN

\* The size stays within its bounds.  It never goes below zero, though the
\* callback tests it outside the mutex and subtracts inside: one driver runs and
\* gives up in silence, so nobody takes samples in between.  And what a music
\* file decodes ahead of the driver never exceeds 65535*2 and what one chunk and
\* the rest of the one before give (in a video nothing bounds it).
PcmInRange ==
    /\ size >= 0
    /\ ~video => size <= High + (ChunkBytes + chunk_size - 1) \div chunk_size

\* The inductive invariant: one thread is created and what its callback has
\* found is still there when it takes it.
Inv ==
    /\ TypeOK
    /\ PcmInRange
    /\ OneDriver /\ CopyingHas
    /\ mainPc = "decode" => chunks > 0
    /\ mainPc \in {"menu", "first"} => \A d \in Drivers : drv[d] = "none"

\* The player comes back, from a music file through its drain, from a video
\* whether or not its sound was ever started; and a callback that waits, for a
\* video that will not start or for samples that will not come, is let go.
FileEnds ==
    <>( /\ mainPc = "closed"
        /\ \A d \in Drivers : drv[d] \notin {"callback", "filling", "copying"} )
=============================================================================
