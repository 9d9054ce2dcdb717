------------------------------- MODULE LibFAAD --------------------------------
(***************************************************************************)
(* One AAC or MP4 file played by LibFAAD (libfaad/player/LibFAAD.c): the   *)
(* loop of decodeAACfile and decodeMP4file, and the driver it creates at   *)
(* the first frame that decodes.                                           *)
(***************************************************************************)
EXTENDS PcmBuffer

CONSTANTS Frames,       \* most access units of a file
          MaxDecode,    \* most blocks one access unit decodes to
          Half          \* PCM_BUF_SIZE/2: decode nothing until less is buffered

ASSUME FaadAssumption ==
    Frames \in Nat /\ MaxDecode \in Nat /\ Half \in Nat \ {0} /\ Needs \subseteq Nat

VARIABLES FAAD_DEC_STAT,
          first_time,   \* no frame has been decoded yet
          frames        \* access units left

playVars == <<FAAD_DEC_STAT, first_time, frames>>
vars == <<sndVars, pcmVars, playVars>>

Init ==
    /\ SndInit /\ PcmInit
    /\ FAAD_DEC_STAT = FALSE /\ first_time = TRUE
    /\ frames \in 1 .. Frames

-----------------------------------------------------------------------------
(* The driver.                                                             *)

faad_drv_callback_copies(d) ==                                       \* fault
    \/ CallbackRequest(d)
    \/ ~FAAD_DEC_STAT /\ CallbackCopyAnyway(d)
    \/ CallbackTakes(d)

\* The wait ends with silence when the decoder was told to stop, but with the
\* copy when the stream was.
faad_drv_callback(d) ==
    \/ CallbackRequest(d)
    \/ StatReadsStreaming /\ ~FAAD_DEC_STAT /\ CallbackSilence(d)
    \/ StatReadsNull /\ CallbackCopyAnyway(d)
    \/ CallbackTakes(d)

faad_drv_thd(d) ==
    /\ faad_drv_callback(d) \/ (DriverLoop(d) /\ UNCHANGED pcmVars)
    /\ UNCHANGED playVars

DriverSpins(d) == Starved(d) /\ hndLive /\ stat # "NULL" /\ FAAD_DEC_STAT

-----------------------------------------------------------------------------
(* The player.                                                             *)

Open ==
    /\ MainGoes("menu", "decode")
    /\ UNCHANGED <<hndVars, drvVars, pcmVars, playVars>>

DecodeFrameUnbounded ==                                              \* fault
    /\ frames > 0
    /\ MainWaits("decode", "render", 1)
    /\ frames' = frames - 1
    /\ \E n \in IF first_time THEN {0} ELSE 0 .. MaxDecode : Decoded(n)
    /\ UNCHANGED <<hndVars, drvVars, FAAD_DEC_STAT, first_time>>

\* "abuf.size < PCM_BUF_SIZE/2": a frame once the driver exists, or one with
\* an error (n = 0).
DecodeFrame ==
    /\ frames > 0 /\ size < Half
    /\ MainWaits("decode", "render", 1)
    /\ frames' = frames - 1
    /\ \E n \in IF first_time THEN {0} ELSE 0 .. MaxDecode : Decoded(n)
    /\ UNCHANGED <<hndVars, drvVars, FAAD_DEC_STAT, first_time>>

\* The first frame without an error: faad_drv_init, 20 ms, faad_drv_stream.  Of the
\* channels of a file libfaad maps five and six to two, and leaves the others.
faad_drv_init ==
    /\ frames > 0 /\ size < Half /\ first_time
    /\ MainWaits("decode", "stream", 2)
    /\ frames' = frames - 1
    /\ FAAD_DEC_STAT' = TRUE /\ first_time' = FALSE
    /\ \E c \in {"ok", "other"} : HndAlloc(c)
    /\ size' = 0 /\ UNCHANGED needed
    /\ \E d \in Drivers : CreateDriver(d)

faad_drv_stream ==
    /\ MainWaits("stream", "render", 1)
    /\ \E n \in 0 .. MaxDecode : Decoded(n)
    /\ UNCHANGED <<hndVars, drvVars, playVars>>

\* mp4ff_read_sample fails: the player returns and leaves everything as it is.
ReadFails ==
    /\ frames > 0 /\ size < Half
    /\ MainGoes("decode", "closed")
    /\ UNCHANGED <<hndVars, drvVars, pcmVars, playVars>>

BufferFull ==
    /\ size >= Half
    /\ MainWaits("decode", "render", 1)
    /\ UNCHANGED <<hndVars, drvVars, pcmVars, playVars>>

\* A picture has been drawn; the user may have pressed start.
LibFAAD_RenderFrame ==
    /\ MainGoes("render", "while")
    /\ FAAD_DEC_STAT' \in {FALSE, FAAD_DEC_STAT}
    /\ UNCHANGED <<hndVars, drvVars, pcmVars, first_time, frames>>

WhileEither ==                                                       \* fault
    /\ MainGoes("while", IF frames > 0 \/ FAAD_DEC_STAT THEN "decode" ELSE "hnd_exit")
    /\ UNCHANGED <<hndVars, drvVars, pcmVars, playVars>>

\* while( sampleId < numSamples && FAAD_DEC_STAT )
While ==
    /\ MainGoes("while", IF frames > 0 /\ FAAD_DEC_STAT THEN "decode" ELSE "hnd_exit")
    /\ UNCHANGED <<hndVars, drvVars, pcmVars, playVars>>

\* The end of faad_drv_free, which begins with snddrv_hnd_exit.
faad_drv_free ==
    /\ MainGoes("freed_stream", "closed")
    /\ hndLive' = FALSE
    /\ size' = 0 /\ FAAD_DEC_STAT' = FALSE
    /\ UNCHANGED <<stat, chan, stream, drvVars, needed, first_time, frames>>

Main == \/ Open \/ DecodeFrame \/ faad_drv_init \/ faad_drv_stream \/ ReadFails
        \/ BufferFull \/ LibFAAD_RenderFrame \/ While
        \/ (snddrv_hnd_exit /\ UNCHANGED <<pcmVars, playVars>>) \/ faad_drv_free

Driver == \E d \in Drivers : faad_drv_thd(d)

\* Time passes when the player waits and no driver has anything to do.
Time ==
    /\ mainSleep > 0 \/ mainPc \in {"menu", "closed"}
    /\ \A d \in Drivers : DriverWaits(d) \/ DriverSpins(d)
    /\ Tick
    /\ UNCHANGED <<pcmVars, playVars>>

Next == Main \/ Driver \/ Time

Spec == Init /\ [][Next]_vars

\* As for Mp3Player: every thread that can run does, time passes, and a stream
\* that is polled for ever asks for samples again and again.
FairSpec ==
    /\ Spec
    /\ WF_vars(Main) /\ WF_vars(Time)
    /\ \A d \in Drivers : /\ WF_vars(faad_drv_thd(d))
                          /\ SF_vars(faad_drv_thd(d) /\ drv'[d] = "callback")
-----------------------------------------------------------------------------
(* Properties.                                                             *)

TypeOK ==
    /\ SndTypeOK /\ PcmTypeOK
    /\ mainPc \in {"menu", "decode", "stream", "render", "while", "hnd_exit",
                   "hnd_destroy", "freed_stream", "closed"}
    /\ FAAD_DEC_STAT \in BOOLEAN /\ first_time \in BOOLEAN
    /\ frames \in 0 .. Frames

\* What is decoded ahead of the driver stays bounded: half of PCM_BUF_SIZE
\* and one frame.
PcmBounded == size < Half + MaxDecode

FaadInv == TypeOK /\ PcmBounded

\* Until the driver is stopped no more is taken than the buffer holds, though the
\* callback tests its size outside the mutex.  (Once it is stopped, a callback
\* that waits for samples copies what is not there.)
PlaysWhatThereIs == hndLive /\ stat = "STREAMING" => size >= 0

\* The driver has refused the file's channels.
Refused == hndLive /\ chan # "ok"

\* The file is left again, played to its end, stopped by the user or given up,
\* unless the driver has refused it: nobody takes samples then, and once the buffer
\* is half full the loop goes on until the user presses start.
FileEnds == <>(mainPc = "closed" \/ Refused)
=============================================================================
