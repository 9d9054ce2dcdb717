------------------------------- MODULE LibFLAC --------------------------------
(***************************************************************************)
(* FLAC files played one after another by LibFLAC_Decode                   *)
(* (libflac/player/LibFLAC.c).  Nothing but samples ends the callback's    *)
(* wait, so that the driver's thread of a file may be left when the player *)
(* has freed the handle and the buffer it uses; it goes on with those of   *)
(* the next file.                                                          *)
(***************************************************************************)
EXTENDS PcmBuffer

CONSTANTS Sessions,     \* files played before the model stops
          Blocks,       \* most blocks of a file
          BlockSize,    \* most samples one FLAC block decodes to
          High,         \* 65535*2: decode nothing until less is buffered
          UINT          \* unsigned numbers are counted modulo UINT: 2^32

ASSUME FlacAssumption ==
    /\ Sessions \in Nat /\ Blocks \in Nat /\ BlockSize \in Nat /\ High \in Nat \ {0}
    /\ UINT \in Nat \ {0} /\ High + BlockSize <= UINT /\ Needs \subseteq Nat

VARIABLES kind,         \* what the file's stream information says, one of Kinds
          stored,       \* calls of process_single until the end of the file
          total_size,   \* what the stream information says, in FLAC blocks
          total_dec_size,
          pcmLive,      \* pcm_buf is allocated
          session,
          alone         \* history: no thread of a file before was left at Open

fileVars == <<kind, stored, total_size, total_dec_size, session, alone>>
libVars == <<fileVars, pcmLive>>
flacVars == <<sndVars, pcmVars, libVars>>

\* "stereo": two channels of 16 bits, which is what write_callback accepts if
\* there is a number of samples too.  "surround": more than two channels, which the sound
\* driver does not accept.  "none": no stream information.
Kinds == {"stereo", "mono", "surround", "none"}

FlacInit ==
    /\ SndInit /\ PcmInit
    /\ kind = "none" /\ stored = 0 /\ total_size = 0 /\ total_dec_size = 0
    /\ pcmLive = FALSE /\ session = 0 /\ alone = TRUE

-----------------------------------------------------------------------------
(* The driver.                                                             *)

flac_drv_callback_unlocked(d) ==                                     \* fault
    CallbackRequest(d) \/ CallbackCopyAnyway(d) \/ CallbackTakes(d)

\* pcm_buf->size is read after it was freed: anything may be returned.
CallbackFreed(d) ==
    /\ ~pcmLive /\ drv[d] = "filling"
    /\ CallbackReturns(d)
    /\ UNCHANGED <<hndVars, mainVars, pcmVars>>

flac_drv_callback(d) == CallbackRequest(d) \/ CallbackTakes(d) \/ CallbackFreed(d)

flac_drv_thd(d) ==
    /\ flac_drv_callback(d) \/ (DriverLoop(d) /\ UNCHANGED pcmVars)
    /\ UNCHANGED libVars

FlacDriverSpins(d) == drv[d] = "filling" /\ (Starved(d) \/ ~pcmLive)

DriverHere(d) == drv[d] \notin {"none", "gone"}

-----------------------------------------------------------------------------
(* The player.                                                             *)

\* A file is opened, a second after the one before: every thread has run.
OpenFile ==
    /\ MainGoes("menu", "streaminfo")
    /\ session < Sessions /\ session' = session + 1
    /\ \A d \in Drivers : drv[d] # "born"
    /\ kind' \in Kinds /\ stored' \in 0 .. Blocks
    /\ IF kind' = "none" THEN total_size' = 0 ELSE total_size' \in 0 .. Blocks
    /\ alone' = \A d \in Drivers : ~DriverHere(d)
    /\ UNCHANGED <<hndVars, drvVars, pcmVars, total_dec_size, pcmLive>>

\* Without stream information process_single is called again and again.
FlacOpen ==
    /\ kind # "none" /\ MainWaits("streaminfo", "render", 1)
    /\ HndAlloc(IF kind = "surround" THEN "other" ELSE "ok")
    /\ size' = 0 /\ pcmLive' = TRUE /\ UNCHANGED needed
    /\ \E d \in Drivers : CreateDriver(d)
    /\ total_dec_size' = 0
    /\ UNCHANGED <<kind, stored, total_size, session, alone>>

\* A picture has been drawn; the user may have pressed start.
LibFLAC_RenderFrame ==
    /\ \/ MainGoes("render", "eof")
       \/ MainGoes("render", "hnd_exit")
    /\ UNCHANGED <<hndVars, drvVars, pcmVars, libVars>>

CheckEofLate ==                                                      \* fault
    /\ MainGoes("eof", IF total_dec_size > total_size /\ total_size > 0 THEN "hnd_exit" ELSE "decode")
    /\ UNCHANGED <<hndVars, drvVars, pcmVars, libVars>>

CheckEof ==
    /\ MainGoes("eof", IF total_dec_size >= total_size /\ total_size > 0 THEN "hnd_exit" ELSE "decode")
    /\ UNCHANGED <<hndVars, drvVars, pcmVars, libVars>>

write_callback ==
    /\ kind = "stereo" /\ total_size > 0
    /\ \E n \in 1 .. BlockSize : Decoded(n)
    /\ total_dec_size' = total_dec_size + 1

\* process_single gives a block, or nothing (metadata, an error in the stream, a
\* block that write_callback refuses), and at the end of the file nothing.
process_single ==
    \/ /\ stored > 0 /\ stored' = stored - 1
       /\ write_callback \/ UNCHANGED <<pcmVars, total_dec_size>>
    \/ stored = 0 /\ UNCHANGED <<pcmVars, total_dec_size, stored>>

\* The size is an int and is returned as an unsigned int.
LibFLAC_PcmHave == size % UINT

\* A size below zero reads as more than High: nothing is decoded any more.
Decode ==
    /\ MainWaits("decode", "render", 1)
    /\ \/ LibFLAC_PcmHave < High /\ process_single
       \/ LibFLAC_PcmHave >= High /\ UNCHANGED <<pcmVars, stored, total_dec_size>>
    /\ UNCHANGED <<hndVars, drvVars, kind, total_size, session, alone, pcmLive>>

Close ==
    /\ MainGoes("freed_stream", "menu")
    /\ hndLive' = FALSE /\ pcmLive' = FALSE
    /\ total_size' = 0 /\ total_dec_size' = 0
    /\ UNCHANGED <<stat, chan, stream, drvVars, pcmVars, kind, stored, session, alone>>

FlacMain == \/ OpenFile \/ FlacOpen \/ LibFLAC_RenderFrame \/ CheckEof \/ Decode
        \/ (snddrv_hnd_exit /\ UNCHANGED <<pcmVars, libVars>>) \/ Close

FlacDriver == \E d \in Drivers : flac_drv_thd(d)

FlacTime ==
    /\ mainSleep > 0 \/ mainPc \in {"menu", "streaminfo"}
    /\ \A d \in Drivers : DriverWaits(d) \/ FlacDriverSpins(d)
    /\ Tick
    /\ UNCHANGED <<pcmVars, libVars>>

FlacNext == FlacMain \/ FlacDriver \/ FlacTime

FlacSpec == FlacInit /\ [][FlacNext]_flacVars

\* As for Mp3Player.
FlacFairSpec ==
    /\ FlacSpec
    /\ WF_flacVars(FlacMain) /\ WF_flacVars(FlacTime)
    /\ \A d \in Drivers :
          /\ WF_flacVars(flac_drv_thd(d))
          /\ SF_flacVars(flac_drv_thd(d) /\ drv'[d] = "callback")
-----------------------------------------------------------------------------
(* Properties.                                                             *)

FlacTypeOK ==
    /\ SndTypeOK /\ PcmTypeOK
    /\ mainPc \in {"menu", "streaminfo", "render", "eof", "decode", "hnd_exit", "hnd_destroy",
                   "freed_stream"}
    /\ kind \in Kinds /\ stored \in 0 .. Blocks
    /\ total_size \in 0 .. Blocks /\ total_dec_size \in 0 .. total_size
    /\ pcmLive \in BOOLEAN /\ session \in 0 .. Sessions /\ alone \in BOOLEAN

\* The size stays within its bounds.  It never goes below zero, though the
\* callback tests it outside the mutex and subtracts inside, as long as no
\* thread was left from the file before: one driver runs, so nobody takes
\* samples in between.  And what is decoded ahead of the driver never exceeds
\* 65535*2 and one block.
PcmInRange == pcmLive => /\ alone => size >= 0
                         /\ size < High + BlockSize

\* With the types of the variables, which include that no more is decoded than
\* the file said it would hold.
FlacInv == FlacTypeOK /\ PcmInRange

\* The header says nothing of the length, or more than the file gives.
RunsShort == total_size = 0 \/ (stored = 0 /\ total_dec_size < total_size)

\* A thread of another file has taken what this file's had found, and the size
\* is below zero.
TakenTwice == pcmLive /\ size < 0

\* A file that holds what its header says comes to its end, though the driver's
\* thread takes the samples when it likes, and one of another file may take
\* samples too, as long as the two do not take the same.  (Once they have, nothing
\* is decoded any more.  A file that runs short, or has no length, goes on until the
\* user presses start; one without stream information, for ever.)
FlacFileEnds == mainPc = "streaminfo" ~> (mainPc = "menu" \/ RunsShort \/ TakenTwice)
=============================================================================
