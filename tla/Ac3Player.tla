------------------------------- MODULE Ac3Player -------------------------------
(***************************************************************************)
(* What drives LibA52, file after file: DCMC_LibA52_Decode                 *)
(* (libdcmc/dcmc-audio.c) for a music file of a chunk or more, whose loop  *)
(* is that of Mp3Player, or the sound of a video                           *)
(* (libxvid/player/LibXVID.c), which waits for the render thread to call   *)
(* LibA52_Start.                                                           *)
(***************************************************************************)
EXTENDS LibA52

CONSTANTS Videos,       \* whether it is the sound of a video: {TRUE}, {FALSE} or both
          Chunks,       \* most chunks
          High, Low     \* as in Mp3Player

ASSUME Ac3Assumption ==
    /\ Videos \subseteq BOOLEAN /\ Chunks \in Nat /\ MaxDecode \in Nat
    /\ Low \in Nat /\ High \in Nat /\ Needs \subseteq 1 .. Low

VARIABLES video,        \* the sound of a video, not a music file
          chunks,       \* chunks left
          st            \* the user pressed start

playVars == <<video, chunks, st>>
vars == <<sndVars, pcmVars, a52Vars, playVars>>

Init ==
    /\ A52Init
    /\ video = FALSE /\ chunks = 0 /\ st = FALSE

\* The next file, a second after the one before: its thread has come to its end.
Open ==
    /\ MainGoes("menu", "while")
    /\ \A d \in Drivers : drv[d] # "ending"
    /\ video' \in Videos /\ chunks' \in 0 .. Chunks /\ st' = FALSE
    /\ LibA52_Init(video')

\* A video neither waits for samples to be played nor lets the rest play.
While ==
    /\ MainGoes("while", CASE chunks > 0 /\ ~st -> IF video THEN "decode" ELSE "backpressure"
                           [] OTHER             -> IF video THEN "exit" ELSE "drain")
    /\ UNCHANGED <<hndVars, drvVars, pcmVars, a52Vars, playVars>>

Backpressure ==
    /\ MainGoes("backpressure", "decode")
    /\ LibA52_PcmHave < High
    /\ UNCHANGED <<hndVars, drvVars, pcmVars, a52Vars, playVars>>

Decode ==
    /\ MainWaits("decode", "input", 1)
    /\ LibA52_decode_chunk
    /\ chunks' = chunks - 1
    /\ UNCHANGED <<video, st>>

Input ==
    /\ MainGoes("input", "while")
    /\ st' \in BOOLEAN
    /\ UNCHANGED <<hndVars, drvVars, pcmVars, a52Vars, video, chunks>>

Drain ==
    /\ MainGoes("drain", "exit")
    /\ LibA52_PcmHave < Low \/ st
    /\ UNCHANGED <<hndVars, drvVars, pcmVars, a52Vars, playVars>>

Main == \/ Open \/ While \/ Backpressure \/ Decode \/ Input \/ Drain
        \/ (LibA52_Exit /\ UNCHANGED playVars)

\* The render thread, once the video's FIFO has been full.
Release ==
    /\ video /\ mainPc # "menu"
    /\ LibA52_Start
    /\ UNCHANGED playVars

Driver == \E d \in Drivers : A52Driver(d) /\ UNCHANGED playVars

\* Time passes when the player waits and no driver has anything to do.
MainSpins ==
    \/ mainPc = "menu"
    \/ mainPc = "backpressure" /\ LibA52_PcmHave >= High
    \/ mainPc = "drain" /\ LibA52_PcmHave >= Low /\ ~st
    \/ mainPc = "spin" /\ stat # "NULL"

Time ==
    /\ mainSleep > 0 \/ MainSpins
    /\ \A d \in Drivers : DriverWaits(d) \/ DriverSpins(d)
    /\ Tick
    /\ UNCHANGED <<pcmVars, a52Vars, playVars>>

Next == Main \/ Release \/ Driver \/ Time

Spec == Init /\ [][Next]_vars

\* As for Mp3Player.  Nothing says that a video fills its FIFO.
FairSpec ==
    /\ Spec
    /\ WF_vars(Main) /\ WF_vars(Time)
    /\ \A d \in Drivers :
          /\ WF_vars(A52Driver(d) /\ UNCHANGED playVars)
          /\ SF_vars(A52Driver(d) /\ drv'[d] = "callback" /\ UNCHANGED playVars)
-----------------------------------------------------------------------------
(* Properties.                                                             *)

TypeOK ==
    /\ PcmTypeOK /\ size \in Nat
    /\ stat \in {"NULL", "INITIALIZING", "STREAMING", "DONE"} /\ hndLive = FALSE
    /\ stream \in {"none", "open", "destroyed"}
    /\ drv \in [Drivers -> {"none", "born", "callback", "filling", "copying", "started",
                            "loop", "poll", "asleep", "ending", "gone"}]
    /\ drvSleep \in [Drivers -> 0 .. PollSleep] /\ mainSleep \in 0 .. ExitSleep
    /\ ret \in [Drivers -> {"loop", "started", "asleep"}]
    /\ mainPc \in {"menu", "while", "backpressure", "decode", "input", "drain", "exit",
                   "snddrv_exit", "spin", "exited"}
    /\ A52_DEC_STAT \in BOOLEAN /\ A52_WAIT_START \in BOOLEAN /\ buf \in {"NULL", "live", "freed"}
    /\ video \in BOOLEAN /\ chunks \in 0 .. Chunks /\ st \in BOOLEAN

Active(d) == drv[d] \notin {"none", "ending", "gone"}

\* The status is NULL exactly when no thread of the driver uses the stream's
\* buffers: this is what snddrv_start_cb_thd relies on when it waits for NULL
\* before it creates the next one.
StatusTellsThread == stat = "NULL" <=> \A d \in Drivers : ~Active(d)

\* The samples are freed, and those of the next file allocated, only when no
\* callback can use them; and a callback takes what it has found in the buffer of
\* its own file, though it looks outside the mutex.
SamplesOutliveDriver ==
    /\ mainPc \in {"exited", "menu"} =>
          \A d \in Drivers : drv[d] \notin {"callback", "filling", "copying"}
    /\ \A d \in Drivers : drv[d] = "copying" => buf = "live" /\ size >= needed[d]

\* A music file never waits for a picture, whatever was left before: a video whose
\* sound was not started does not come back from snddrv_exit.  The callback of a
\* video does wait.
OnlyVideosWait ==
    A52_WAIT_START => video /\ \E d \in Drivers : drv[d] \in {"born", "callback"}

\* The inductive invariant.
Inv ==
    /\ TypeOK
    /\ StatusTellsThread /\ SamplesOutliveDriver /\ OnlyVideosWait
    /\ \A d, e \in Drivers : Active(d) /\ Active(e) => d = e
    /\ size > 0 => buf = "live"
    /\ \A d \in Drivers : drv[d] \in {"filling", "copying"} => needed[d] > 0
    /\ stat \in {"NULL", "DONE"} => mainPc \in {"menu", "spin", "exited"}
    /\ mainPc \in {"menu", "exited"} => stat = "NULL"
    /\ mainPc \in {"backpressure", "decode"} => chunks > 0

\* The player comes back from LibA52_Exit once the sound has been started: the
\* thread leaves its callback and answers the request to stop.
StartedExitReturns == mainPc = "exit" /\ ~A52_WAIT_START ~> mainPc = "menu"
=============================================================================
