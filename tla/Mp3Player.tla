------------------------------- MODULE Mp3Player -------------------------------
(***************************************************************************)
(* DCMC_LibMPG123_Decode (libdcmc/dcmc-audio.c): one music file is read    *)
(* and decoded chunk by chunk until it ends or the user presses start, then *)
(* drained and closed.  A second passes before the next file can be opened. *)
(***************************************************************************)
EXTENDS LibMPG123

CONSTANTS CHUNK_SIZE,   \* bytes read at a time
          Lengths,      \* lengths of files
          WaitLeft,     \* what a video played before may have left in MPG123_WAIT_START
          High,         \* 65535*2: enough samples, wait before decoding more
          Low           \* 65535/2: what may be left unplayed at the end

ASSUME ThresholdAssumption ==
    /\ WaitLeft \subseteq BOOLEAN
    /\ Low \in Nat /\ High \in Nat \ {0} /\ High + MaxDecode <= UINT
    /\ CHUNK_SIZE \in Nat \ {0} /\ Lengths \subseteq 0 .. UINT - 1
    /\ Needs \subseteq 0 .. Low /\ Needs \subseteq 0 .. High

VARIABLES flen, fdone,  \* the file's length and how much of it has been decoded
          st            \* cont.st: the user pressed start

playVars == <<flen, fdone, st>>
vars == <<sndVars, pcmVars, mpgVars, playVars>>

Init ==
    /\ SndInit /\ MpgInit(WaitLeft)
    /\ flen \in Lengths /\ fdone = 0 /\ st = FALSE

Open ==
    /\ MainGoes("menu", "while")
    /\ LibMPG123_Init
    /\ UNCHANGED <<drvVars, MPG123_WAIT_START, playVars>>

\* fdone<(flen-CHUNK_SIZE): the last chunk of a file, whole or not, is not read;
\* what a file shorter than a chunk leaves is almost UINT.
While ==
    /\ MainGoes("while", IF fdone < (flen - CHUNK_SIZE) % UINT /\ ~st THEN "backpressure" ELSE "drain")
    /\ UNCHANGED <<hndVars, drvVars, pcmVars, mpgVars, playVars>>

\* "Wait for LibMPG123 to have less than a minmal amount of PCM bytes".  A size
\* below zero reads as more, and nothing is decoded any more.
Backpressure ==
    /\ MainGoes("backpressure", "decode")
    /\ LibMPG123_PcmHave < High
    /\ UNCHANGED <<hndVars, drvVars, pcmVars, mpgVars, playVars>>

\* A chunk is decoded and a picture drawn, which waits for the display.
Decode ==
    /\ MainWaits("decode", "input", 1)
    /\ LibMPG123_DecodeChunk
    /\ fdone' = (fdone + CHUNK_SIZE) % UINT
    /\ UNCHANGED <<flen, st>>

Input ==
    /\ MainGoes("input", "while")
    /\ st' \in BOOLEAN
    /\ UNCHANGED <<hndVars, drvVars, pcmVars, mpgVars, flen, fdone>>

\* "If user did not command an exit, wait for remaining PCM samples to
\* stream".  Nothing reads the controller here: start has no effect.
Drain ==
    /\ MainGoes("drain", "exit")
    /\ LibMPG123_PcmHave < Low \/ st
    /\ UNCHANGED <<hndVars, drvVars, pcmVars, mpgVars, playVars>>

Close ==
    /\ MainGoes("exited", "closed")
    /\ UNCHANGED <<hndVars, drvVars, pcmVars, mpgVars, playVars>>

Main == \/ Open \/ While \/ Backpressure \/ Decode \/ Input \/ Drain
        \/ (LibMPG123_Exit /\ UNCHANGED playVars) \/ Close

Driver == \E d \in Drivers : mpa_drv_thd(d) /\ UNCHANGED playVars

\* Time passes when the player waits and no driver has anything to do.
MainSpins ==
    \/ mainPc \in {"menu", "closed"}
    \/ mainPc = "backpressure" /\ LibMPG123_PcmHave >= High
    \/ mainPc = "drain" /\ LibMPG123_PcmHave >= Low /\ ~st

Time ==
    /\ mainSleep > 0 \/ MainSpins
    /\ \A d \in Drivers : DriverWaits(d) \/ DriverSpins(d)
    /\ Tick
    /\ UNCHANGED <<pcmVars, mpgVars, playVars>>

Next == Main \/ Driver \/ Time

Spec == Init /\ [][Next]_vars

\* KOS schedules every thread that can run, time passes, and a stream that is
\* polled for ever asks for samples again and again.
FairSpec ==
    /\ Spec
    /\ WF_vars(Main) /\ WF_vars(Time)
    /\ \A d \in Drivers :
          /\ WF_vars(mpa_drv_thd(d) /\ UNCHANGED playVars)
          /\ SF_vars(mpa_drv_thd(d) /\ drv'[d] = "callback" /\ UNCHANGED playVars)
-----------------------------------------------------------------------------
(* Properties.                                                             *)

TypeOK ==
    /\ SndTypeOK /\ MpgTypeOK
    /\ mainPc \in {"menu", "while", "backpressure", "decode", "input", "drain", "exit",
                   "hnd_exit", "hnd_destroy", "freed_stream", "exited", "closed"}
    /\ flen \in Lengths /\ fdone \in 0 .. UINT - 1 /\ st \in BOOLEAN

\* The size stays within its bounds.  It never goes below zero, though the
\* callback tests it outside the mutex and subtracts inside, as long as the
\* stream's format has not changed: one driver runs and gives up in silence, so
\* nobody takes samples in between.  (A second format creates a second driver's
\* thread, and it does.)  And what is decoded ahead of the driver never exceeds
\* 65535*2 and one chunk.
PcmInRange == /\ OneDriver => size >= 0
              /\ size < High + MaxDecode

\* A chunk is read from inside the file, so that all of strbuf is new, if the file
\* holds a chunk at all.
ReadsInside ==
    mainPc \in {"backpressure", "decode"} /\ flen >= CHUNK_SIZE => fdone + CHUNK_SIZE <= flen

\* The inductive invariant.
Inv ==
    /\ TypeOK
    /\ PcmInRange
    /\ OneDriver => CopyingHas
    /\ mainPc = "decode" => size < High
    /\ ReadsInside
    /\ mainPc = "menu" => \A d \in Drivers : drv[d] = "none"

\* A file of a chunk or more is left again, unless two drivers have taken more than
\* there was: neither the wait for samples to be played nor the callback's wait for
\* samples to be decoded hangs the player, though both wait for each other and a
\* second driver may take samples too.  (The player hangs after a video that never
\* started its sound, and it may once the size is below zero, which both waits of
\* the player read as about 4 GB; a shorter file is decoded until the user presses start.)
FileEnds == ~MPG123_WAIT_START /\ flen >= CHUNK_SIZE => <>(mainPc = "closed" \/ size < 0)
=============================================================================
