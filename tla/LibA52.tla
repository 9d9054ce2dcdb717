-------------------------------- MODULE LibA52 --------------------------------
(***************************************************************************)
(* LibA52 (liba52/player) on the older sound driver of snddrv.c: a thread  *)
(* (snddrv_thread) and one global status, which says both that a thread    *)
(* runs and that it is to stop.  snddrv_exit waits for the thread's answer. *)
(* Each file has a thread of its own.                                      *)
(***************************************************************************)
EXTENDS PcmBuffer

CONSTANT MaxDecode      \* most blocks one chunk decodes to

VARIABLES A52_DEC_STAT, A52_WAIT_START,
          buf           \* abuf.buf: "NULL", "live" (and first_stream = 0) or "freed"

a52Vars == <<A52_DEC_STAT, A52_WAIT_START, buf>>

A52Init ==
    /\ SndInit /\ PcmInit
    /\ A52_DEC_STAT = FALSE /\ A52_WAIT_START = FALSE
    /\ buf = "NULL"

-----------------------------------------------------------------------------
(* a52_drv_callback and snddrv_thread; stat is snddrv_status.  Its players *)
(* give the driver one channel or two, which it accepts.                   *)

a52_drv_callback_copies(d) ==                                        \* fault
    \/ ~A52_WAIT_START /\ CallbackRequest(d)
    \/ ~A52_DEC_STAT /\ CallbackCopyAnyway(d)
    \/ CallbackTakes(d)

a52_drv_callback_waits(d) ==                                         \* fault
    \/ ~A52_WAIT_START /\ CallbackRequest(d)
    \/ CallbackTakes(d)

a52_drv_callback(d) ==
    \/ ~A52_WAIT_START /\ CallbackRequest(d)
    \/ ~A52_DEC_STAT /\ CallbackSilence(d)
    \/ CallbackTakes(d)

\* snd_stream_alloc and snd_stream_start, which fills the stream's buffer.
ThreadStart(d) ==
    /\ drv[d] = "born"
    /\ stream' = "open"
    /\ CallbackFrom(d, "started")
    /\ UNCHANGED <<stat, chan, hndLive, drvSleep, mainVars>>

ThreadStreaming(d) ==
    /\ drv[d] = "started"
    /\ DriverGoes(d, "loop")
    /\ stat' = "STREAMING"
    /\ UNCHANGED <<chan, hndLive, stream, drvSleep, ret, mainVars>>

ThreadTest(d) ==
    /\ drv[d] = "loop"
    /\ \/ stat # "DONE" /\ DriverGoes(d, "poll") /\ UNCHANGED stat
       \/ stat = "DONE" /\ DriverGoes(d, "ending") /\ stat' = "NULL"
    /\ UNCHANGED <<chan, hndLive, stream, drvSleep, ret, mainVars>>

ThreadEnd(d) ==
    /\ drv[d] = "ending"
    /\ DriverGoes(d, "gone")
    /\ stream' = "destroyed"
    /\ UNCHANGED <<stat, chan, hndLive, drvSleep, ret, mainVars>>

\* The poll and the sleep are those of SndHnd.
snddrv_thread(d) ==
    \/ ThreadStart(d) \/ ThreadStreaming(d) \/ ThreadTest(d) \/ ThreadEnd(d)
    \/ snddrv_hnd_cb(d) \/ DriverWake(d)

A52Driver(d) ==
    /\ a52_drv_callback(d) \/ (snddrv_thread(d) /\ UNCHANGED pcmVars)
    /\ UNCHANGED a52Vars

\* The driver has nothing to do until another thread moves.
DriverSpins(d) ==
    \/ drv[d] = "callback" /\ A52_WAIT_START
    \/ Starved(d) /\ A52_DEC_STAT

-----------------------------------------------------------------------------
(* What the player calls.                                                  *)

\* Read as unsigned; the samples are never below zero (TypeOK of Ac3Player).
LibA52_PcmHave == size

\* LibA52_WaitStart, for a video, then LibA52_Init and snddrv_start_cb_thd, which
\* waits for the thread before.
LibA52_Init(waitStart) ==
    /\ stat = "NULL" /\ stat' = "INITIALIZING"
    /\ A52_DEC_STAT' = TRUE
    /\ A52_WAIT_START' = (waitStart \/ A52_WAIT_START)
    /\ \E d \in Drivers : CreateDriver(d)
    /\ UNCHANGED <<chan, hndLive, stream, pcmVars, buf>>

LibA52_Start ==
    /\ A52_WAIT_START
    /\ A52_WAIT_START' = FALSE
    /\ UNCHANGED <<sndVars, pcmVars, A52_DEC_STAT, buf>>

\* wav_setup allocates the samples at the first frame of a file.
LibA52_decode_chunk ==
    /\ \E n \in 0 .. MaxDecode : Decoded(n) /\ buf' = IF n > 0 THEN "live" ELSE buf
    /\ UNCHANGED <<hndVars, drvVars, A52_DEC_STAT, A52_WAIT_START>>

\* LibA52_Exit, from mainPc = "exit" to mainPc = "menu".
ExitStop ==
    /\ MainWaits("exit", "snddrv_exit", ExitSleep)
    /\ A52_DEC_STAT' = FALSE
    /\ UNCHANGED <<hndVars, drvVars, pcmVars, A52_WAIT_START, buf>>

ExitNull ==                                                          \* fault
    /\ MainGoes("snddrv_exit", "spin")
    /\ stat' = "NULL"
    /\ UNCHANGED <<chan, hndLive, stream, drvVars, pcmVars, a52Vars>>

ExitDone ==
    /\ MainGoes("snddrv_exit", "spin")
    /\ stat' = IF stat = "NULL" THEN "NULL" ELSE "DONE"
    /\ UNCHANGED <<chan, hndLive, stream, drvVars, pcmVars, a52Vars>>

ExitSpin ==
    /\ MainGoes("spin", "exited")
    /\ stat = "NULL"
    /\ UNCHANGED <<hndVars, drvVars, pcmVars, a52Vars>>

ExitCloseKeepsSize ==                                                \* fault
    /\ MainGoes("exited", "menu")
    /\ buf' = IF buf = "NULL" THEN "NULL" ELSE "freed"
    /\ UNCHANGED <<hndVars, drvVars, pcmVars, A52_DEC_STAT, A52_WAIT_START>>

\* wav_close frees the samples, if need be those of the file before.
ExitClose ==
    /\ MainGoes("exited", "menu")
    /\ size' = 0 /\ buf' = IF buf = "NULL" THEN "NULL" ELSE "freed"
    /\ UNCHANGED <<hndVars, drvVars, needed, A52_DEC_STAT, A52_WAIT_START>>

LibA52_Exit == ExitStop \/ ExitDone \/ ExitSpin \/ ExitClose
=============================================================================
