------------------------------ MODULE LibMPG123 -------------------------------
(***************************************************************************)
(* LibMPG123 (libmpg123/player/LibMPG123.c), as its players drive it.      *)
(***************************************************************************)
EXTENDS PcmBuffer

CONSTANTS MaxDecode,    \* most blocks one chunk decodes to
          UINT          \* unsigned numbers are counted modulo UINT: 2^32

ASSUME MpgAssumption == MaxDecode \in Nat /\ UINT \in Nat \ {0}

VARIABLES MP3_DEC_STAT,     \* the decoder runs
          MPG123_WAIT_START,
          format            \* mh has found the stream's format

mpgVars == <<MP3_DEC_STAT, MPG123_WAIT_START, format>>

\* Neither LibMPG123_Init nor LibMPG123_Exit resets MPG123_WAIT_START.
MpgInit(waits) ==
    /\ PcmInit
    /\ MP3_DEC_STAT = FALSE
    /\ MPG123_WAIT_START \in waits
    /\ format = FALSE

SilenceCopied(d) == ~MP3_DEC_STAT /\ CallbackCopyAnyway(d)           \* fault

\* Too few samples and the decoder has been stopped.
SilenceWhenStopped(d) == ~MP3_DEC_STAT /\ CallbackSilence(d)

\* The callback waits for LibMPG123_Start first.
mpa_drv_callback(d) ==
    \/ ~MPG123_WAIT_START /\ CallbackRequest(d)
    \/ SilenceWhenStopped(d)
    \/ CallbackTakes(d)

mpa_drv_thd(d) ==
    /\ mpa_drv_callback(d) \/ (DriverLoop(d) /\ UNCHANGED pcmVars)
    /\ UNCHANGED mpgVars

\* The driver has nothing to do until another thread moves.
DriverSpins(d) ==
    \/ drv[d] = "callback" /\ MPG123_WAIT_START
    \/ Starved(d) /\ MP3_DEC_STAT

-----------------------------------------------------------------------------
(* What the player calls.                                                  *)

\* The size is an int and is returned as an unsigned int.
LibMPG123_PcmHave == size % UINT

LibMPG123_Init ==
    /\ MP3_DEC_STAT' = TRUE
    /\ size' = 0 /\ format' = FALSE
    /\ HndAlloc("other")
    /\ UNCHANGED needed

\* The chunk changes no format: samples once one is known, nothing before.
DecodeSamples ==
    /\ \E n \in IF format THEN 0 .. MaxDecode ELSE {0} : Decoded(n)
    /\ UNCHANGED <<hndVars, drvVars, format>>

\* MPG123_NEW_FORMAT: one channel or two; decode until more input is needed,
\* create a driver.
DecodeNewFormat ==
    /\ \E n \in 0 .. MaxDecode : Decoded(n)
    /\ format' = TRUE /\ chan' = "ok"
    /\ UNCHANGED <<stat, hndLive, stream>>
    /\ \E d \in Drivers : CreateDriver(d)

LibMPG123_DecodeChunk ==
    /\ DecodeSamples \/ DecodeNewFormat
    /\ UNCHANGED <<MP3_DEC_STAT, MPG123_WAIT_START>>

\* LibMPG123_Exit, from mainPc = "exit" to mainPc = "exited".
ExitStop ==
    /\ MainWaits("exit", "hnd_exit", ExitSleep)
    /\ MP3_DEC_STAT' = FALSE
    /\ UNCHANGED <<hndVars, drvVars, pcmVars, MPG123_WAIT_START, format>>

ExitFree ==
    /\ MainGoes("freed_stream", "exited")
    /\ hndLive' = FALSE
    /\ UNCHANGED <<stat, chan, stream, drvVars, pcmVars, mpgVars>>

LibMPG123_Exit ==
    \/ ExitStop
    \/ snddrv_hnd_exit /\ UNCHANGED <<pcmVars, mpgVars>>
    \/ ExitFree

MpgTypeOK ==
    /\ PcmTypeOK
    /\ MP3_DEC_STAT \in BOOLEAN /\ MPG123_WAIT_START \in BOOLEAN /\ format \in BOOLEAN
=============================================================================
