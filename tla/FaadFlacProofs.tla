---------------------------- MODULE FaadFlacProofs ----------------------------
(***************************************************************************)
(* What is proved of LibFAAD, for every file length, frame size, buffer    *)
(* threshold and set of drivers: the types, the bound of the sample        *)
(* buffer, that the driver takes what there is, and that the handle        *)
(* outlives the driver's thread as long as the thread sleeps less than     *)
(* snddrv_hnd_exit does.  And of LibFLAC, which has the same buffer and    *)
(* driver, for any number of files of any length: the types and the bounds *)
(* of the sample buffer.                                                   *)
(***************************************************************************)
EXTENDS LibFAAD, LibFLAC, TLAPS

USE DEF ExitSleep

LEMMA Sizes ==
    /\ PollSleep \in Nat /\ PollSleep > 0
    /\ Frames \in Nat /\ MaxDecode \in Nat /\ Half \in Nat /\ Half > 0
<1>1. Frames \in Nat /\ MaxDecode \in Nat /\ Half \in Nat \ {0}
  BY FaadAssumption
<1> QED
  BY <1>1, SleepAssumption

LEMMA NeedsNat ==
    \A n \in Needs \cup {0} : n \in Nat
<1>1. Needs \subseteq Nat
  BY FaadAssumption
<1> QED
  BY <1>1

-----------------------------------------------------------------------------
(* Types.                                                                  *)

LEMMA TypeDriver ==
    ASSUME TypeOK, NEW d \in Drivers, faad_drv_thd(d) PROVE TypeOK'
<1> USE Sizes DEF TypeOK, SndTypeOK, PcmTypeOK, hndVars, drvVars, mainVars, sndVars,
                      pcmVars, playVars, DriverGoes, CallbackReturns, CallbackFrom
<1>1. ASSUME faad_drv_callback(d), UNCHANGED playVars PROVE TypeOK'
  <2>1. CASE CallbackRequest(d)
    BY <1>1, <2>1 DEF CallbackRequest
  <2>2. CASE CallbackSilence(d)
    BY <1>1, <2>2 DEF CallbackSilence, Starved
  <2>3. CASE CallbackCopyAnyway(d)
    BY <1>1, <2>3 DEF CallbackCopyAnyway, Starved
  <2>4. CASE CallbackEnough(d)
    BY <1>1, <2>4 DEF CallbackEnough
  <2>5. CASE CallbackCopy(d)
    <3>1. needed[d] \in Needs \cup {0}
      OBVIOUS
    <3>2. needed[d] \in Int
      BY <3>1, NeedsNat
    <3> QED
      BY <1>1, <2>5, <3>2 DEF CallbackCopy
  <2> QED
    BY <1>1, <2>1, <2>2, <2>3, <2>4, <2>5 DEF faad_drv_callback, CallbackTakes
<1>2. ASSUME DriverLoop(d), UNCHANGED pcmVars, UNCHANGED playVars PROVE TypeOK'
  <2>1. CASE snddrv_hnd_start(d)
    BY <1>2, <2>1 DEF snddrv_hnd_start
  <2>2. CASE DriverTest(d)
    BY <1>2, <2>2 DEF DriverTest
  <2>3. CASE snddrv_hnd_cb(d)
    BY <1>2, <2>3 DEF snddrv_hnd_cb
  <2>4. CASE DriverWake(d)
    BY <1>2, <2>4 DEF DriverWake
  <2> QED
    BY <1>2, <2>1, <2>2, <2>3, <2>4 DEF DriverLoop
<1> QED
  BY <1>1, <1>2 DEF faad_drv_thd

LEMMA TypeMain ==
    ASSUME TypeOK, Main PROVE TypeOK'
<1> USE Sizes DEF TypeOK, SndTypeOK, PcmTypeOK, hndVars, drvVars, mainVars, sndVars,
                  pcmVars, playVars, MainGoes, MainWaits, Decoded
<1>1. CASE Open \/ ReadFails \/ BufferFull \/ While
  BY <1>1 DEF Open, ReadFails, BufferFull, While
<1>7. CASE LibFAAD_RenderFrame
  <2>1. FAAD_DEC_STAT' \in BOOLEAN
    BY <1>7, Zenon DEF LibFAAD_RenderFrame
  <2> QED
    BY <1>7, <2>1 DEF LibFAAD_RenderFrame
<1>2. CASE DecodeFrame
  <2>1. PICK n \in IF first_time THEN {0} ELSE 0 .. MaxDecode : Decoded(n)
    BY <1>2 DEF DecodeFrame
  <2>2. n \in Int
    BY <2>1
  <2>3. size' \in Int /\ needed' = needed
    BY <2>1, <2>2
  <2> QED
    BY <1>2, <2>3 DEF DecodeFrame
<1>3. CASE faad_drv_init
  <2>1. FAAD_DEC_STAT' \in BOOLEAN /\ first_time' \in BOOLEAN /\ hndLive' \in BOOLEAN
    BY <1>3, Zenon DEF faad_drv_init, HndAlloc
  <2> QED
    BY <1>3, <2>1 DEF faad_drv_init, HndAlloc, CreateDriver, DriverGoes
<1>4. CASE faad_drv_stream
  <2>1. PICK n \in 0 .. MaxDecode : Decoded(n)
    BY <1>4 DEF faad_drv_stream
  <2>2. size' \in Int /\ needed' = needed
    BY <2>1
  <2> QED
    BY <1>4, <2>2 DEF faad_drv_stream
<1>5. CASE snddrv_hnd_exit /\ UNCHANGED <<pcmVars, playVars>>
  BY <1>5 DEF snddrv_hnd_exit, HndExitStop, HndExitDestroy
<1>6. CASE faad_drv_free
  <2>1. FAAD_DEC_STAT' \in BOOLEAN /\ hndLive' \in BOOLEAN
    BY <1>6, Zenon DEF faad_drv_free
  <2> QED
    BY <1>6, <2>1 DEF faad_drv_free
<1> QED
  BY <1>1, <1>2, <1>3, <1>4, <1>5, <1>6, <1>7 DEF Main

LEMMA TypeTime ==
    ASSUME TypeOK, Time PROVE TypeOK'
<1>1. \A d \in Drivers : Minus1(drvSleep[d]) \in 0 .. PollSleep
  BY Sizes DEF TypeOK, SndTypeOK, Minus1
<1>2. Minus1(mainSleep) \in 0 .. ExitSleep
  BY DEF TypeOK, SndTypeOK, Minus1
<1> QED
  BY <1>1, <1>2 DEF Time, Tick, TypeOK, SndTypeOK, PcmTypeOK, hndVars, pcmVars, playVars

LEMMA TypeStep ==
    ASSUME TypeOK, [Next]_vars PROVE TypeOK'
<1>1. CASE UNCHANGED vars
  BY <1>1 DEF TypeOK, SndTypeOK, PcmTypeOK, vars, sndVars, hndVars, drvVars, mainVars,
              pcmVars, playVars
<1> QED
  BY <1>1, TypeDriver, TypeMain, TypeTime DEF Next, Driver

\* The fields of the driver's handle, of the sample buffer and of the player,
\* and the positions of the threads, keep their types.
THEOREM TypeCorrect == Spec => []TypeOK
<1>1. Init => TypeOK
  <2> SUFFICES ASSUME Init PROVE TypeOK
    OBVIOUS
  <2> DEFINE Booleans == /\ hndLive \in BOOLEAN
                         /\ FAAD_DEC_STAT \in BOOLEAN /\ first_time \in BOOLEAN
  <2>3. Booleans
    BY Zenon DEF Init, SndInit
  <2>1. SndTypeOK
    BY <2>3, Sizes DEF Init, SndInit, SndTypeOK
  <2>2. PcmTypeOK
    BY DEF Init, PcmInit, PcmTypeOK
  <2> QED
    BY <2>1, <2>2, <2>3, Sizes DEF Init, SndInit, TypeOK
<1> QED
  BY <1>1, TypeStep, PTL DEF Spec

-----------------------------------------------------------------------------
(* The sample buffer.                                                      *)

\* faad_drv_stream adds to the buffer without a test: it follows faad_drv_init,
\* which has emptied it, and the driver only takes samples.
BoundInv == PcmBounded /\ (mainPc = "stream" => size <= 0)

LEMMA BoundStep ==
    ASSUME TypeOK, BoundInv, [Next]_vars PROVE BoundInv'
<1> USE Sizes DEF BoundInv, PcmBounded, TypeOK, SndTypeOK, PcmTypeOK, pcmVars, playVars,
                      mainVars, MainGoes, MainWaits, Decoded
<1>1. ASSUME NEW d \in Drivers, faad_drv_thd(d) PROVE BoundInv'
  <2>1. needed[d] \in Needs \cup {0}
    OBVIOUS
  <2>2. (size' = size \/ size' = size - needed[d]) /\ mainPc' = mainPc
    BY <1>1 DEF faad_drv_thd, faad_drv_callback, CallbackTakes, CallbackRequest, CallbackSilence,
       CallbackCopyAnyway, CallbackEnough, CallbackCopy, DriverLoop, snddrv_hnd_start,
       DriverTest, snddrv_hnd_cb, DriverWake
  <2> QED
    BY <2>1, <2>2, NeedsNat
<1>2. CASE Open \/ ReadFails \/ BufferFull \/ LibFAAD_RenderFrame \/ While
  BY <1>2 DEF Open, ReadFails, BufferFull, LibFAAD_RenderFrame, While
<1>3. CASE DecodeFrame
  BY <1>3 DEF DecodeFrame
<1>4. CASE faad_drv_init
  BY <1>4 DEF faad_drv_init
<1>5. CASE faad_drv_stream
  BY <1>5 DEF faad_drv_stream
<1>6. CASE snddrv_hnd_exit /\ UNCHANGED <<pcmVars, playVars>>
  BY <1>6 DEF snddrv_hnd_exit, HndExitStop, HndExitDestroy
<1>7. CASE faad_drv_free
  BY <1>7 DEF faad_drv_free
<1>8. CASE Time
  BY <1>8 DEF Time, Tick
<1>9. CASE UNCHANGED vars
  BY <1>9 DEF vars, sndVars
<1> QED
  BY <1>1, <1>2, <1>3, <1>4, <1>5, <1>6, <1>7, <1>8, <1>9 DEF Next, Main, Driver

\* The variables keep their types, and what is decoded ahead of the driver stays
\* below half of PCM_BUF_SIZE and a frame, whatever the driver asks for and whenever the stream is stopped.
THEOREM BufferBounded == Spec => []FaadInv
<1>1. Init => BoundInv
  BY Sizes DEF Init, SndInit, PcmInit, BoundInv, PcmBounded
<1>2. TypeOK /\ BoundInv => FaadInv
  BY DEF BoundInv, FaadInv
<1> QED
  BY <1>1, <1>2, TypeCorrect, BoundStep, PTL DEF Spec
-----------------------------------------------------------------------------
(* The end of the driver.  snddrv_hnd_exit joins nothing: that the thread  *)
(* has gone when it returns is a race of two sleeps, which the invariant   *)
(* settles by comparing what is left of them.                              *)

Gone == \A d \in Drivers : drv[d] \in {"none", "gone"}

\* While snddrv_hnd_exit sleeps, a driver that sleeps wakes before it, one
\* that runs has let no time pass, and none can start a new poll.
Ends(d) ==
    \/ drv[d] \in {"none", "gone"}
    \/ drv[d] = "loop" /\ mainSleep > 0
    \/ drv[d] = "asleep" /\ drvSleep[d] + ExitSleep <= mainSleep + PollSleep
    \/ drv[d] \in {"callback", "filling", "copying", "poll"} /\ mainSleep = ExitSleep

Born == \E d \in Drivers : drv[d] = "born"

\* The driver that was refused has gone, or is about to see that nothing streams.
Refuses ==
    \A d \in Drivers :
        \/ drv[d] \in {"none", "gone"}
        \/ drv[d] = "loop" /\ mainPc = "stream" /\ mainSleep = 2

GoneInv ==
    /\ first_time => ~hndLive
    /\ ~hndLive \/ mainPc = "freed_stream" => Gone
    /\ Born => mainPc = "stream" /\ mainSleep = 2
    /\ \A d, e \in Drivers : drv[d] = "born" /\ e # d => drv[e] \in {"none", "gone"}
    /\ hndLive /\ stat = "NULL" => Born \/ Refuses \/ mainPc \in {"hnd_destroy", "freed_stream"}
    /\ mainPc = "hnd_destroy" => \A d \in Drivers : Ends(d)
    /\ mainPc = "hnd_destroy" /\ hndLive => stat = "NULL"

Running == {"callback", "filling", "copying", "poll"}

\* What a step of a driver can do, in short.
LEMMA DriverMoves ==
    ASSUME TypeOK, NEW d \in Drivers, faad_drv_thd(d)
    PROVE  /\ UNCHANGED <<mainPc, mainSleep, hndLive, first_time>>
           /\ drv[d] \notin {"none", "gone"} /\ drv'[d] # "born"
           /\ \A e \in Drivers \ {d} : drv'[e] = drv[e] /\ drvSleep'[e] = drvSleep[e]
           /\ stat' = stat \/ (drv[d] = "born" /\ stat' = "STREAMING")
           /\ hndLive /\ drv[d] = "born" => stat' = "STREAMING" \/ drv'[d] = "loop"
           /\ hndLive /\ stat = "NULL" /\ drv[d] # "born" =>
                \/ drv[d] = "loop" /\ drv'[d] = "gone"
                \/ drv[d] = "asleep" /\ drvSleep[d] = 0 /\ drv'[d] = "loop"
                \/ drv[d] \in Running /\ drv'[d] \in Running \cup {"loop"}
                \/ drv[d] \in Running /\ drv'[d] = "asleep" /\ drvSleep'[d] = PollSleep
<1> USE DEF TypeOK, SndTypeOK, hndVars, mainVars, pcmVars, playVars, DriverGoes,
            CallbackReturns, CallbackFrom, StatReadsNull, StatReadsStreaming, ChanReadsOk,
            ChanReadsOther, Running
<1>1. CASE CallbackRequest(d) /\ UNCHANGED playVars
  BY <1>1 DEF CallbackRequest
<1>2. CASE CallbackSilence(d) /\ UNCHANGED playVars
  BY <1>2 DEF CallbackSilence, Starved
<1>3. CASE CallbackCopyAnyway(d) /\ UNCHANGED playVars
  BY <1>3 DEF CallbackCopyAnyway, Starved
<1>4. CASE CallbackEnough(d) /\ UNCHANGED playVars
  BY <1>4 DEF CallbackEnough
<1>5. CASE CallbackCopy(d) /\ UNCHANGED playVars
  BY <1>5 DEF CallbackCopy
<1>6. CASE snddrv_hnd_start(d) /\ UNCHANGED playVars
  BY <1>6 DEF snddrv_hnd_start
<1>7. CASE DriverTest(d) /\ UNCHANGED playVars
  BY <1>7 DEF DriverTest
<1>8. CASE snddrv_hnd_cb(d) /\ UNCHANGED playVars
  BY <1>8 DEF snddrv_hnd_cb
<1>9. CASE DriverWake(d) /\ UNCHANGED playVars
  BY <1>9 DEF DriverWake
<1> QED
  BY <1>1, <1>2, <1>3, <1>4, <1>5, <1>6, <1>7, <1>8, <1>9
     DEF faad_drv_thd, faad_drv_callback, CallbackTakes, DriverLoop

LEMMA GoneDriver ==
    ASSUME PollSleep < ExitSleep, TypeOK, GoneInv, NEW d \in Drivers, faad_drv_thd(d) PROVE GoneInv'
<1>1. /\ UNCHANGED <<mainPc, mainSleep, hndLive, first_time>>
      /\ drv[d] \notin {"none", "gone"} /\ drv'[d] # "born"
      /\ \A e \in Drivers \ {d} : drv'[e] = drv[e] /\ drvSleep'[e] = drvSleep[e]
      /\ stat' = stat \/ (drv[d] = "born" /\ stat' = "STREAMING")
      /\ hndLive /\ drv[d] = "born" => stat' = "STREAMING" \/ drv'[d] = "loop"
  BY DriverMoves
<1>2. hndLive /\ mainPc # "freed_stream"
  BY <1>1 DEF GoneInv, Gone
<1>3. ~Born'
  BY <1>1 DEF GoneInv, Born
<1>4. ASSUME stat' = "NULL", mainPc \notin {"hnd_destroy", "freed_stream"} PROVE Refuses'
  <2>1. CASE drv[d] = "born"
    <3>1. drv'[d] = "loop" /\ mainPc' = "stream" /\ mainSleep' = 2
      BY <1>1, <1>2, <1>4, <2>1 DEF GoneInv, Born
    <3>2. \A e \in Drivers \ {d} : drv'[e] \in {"none", "gone"}
      BY <1>1, <2>1 DEF GoneInv
    <3>. QED BY <3>1, <3>2 DEF Refuses
  <2>2. CASE drv[d] # "born"
    <3>1. stat = "NULL" /\ Refuses
      BY <1>1, <1>2, <1>4, <2>2 DEF GoneInv, Born
    <3>2. drv[d] = "loop" /\ drv'[d] = "gone"
      BY <1>1, <1>2, <2>2, <3>1, DriverMoves DEF Refuses, Running
    <3>. QED BY <1>1, <3>1, <3>2 DEF Refuses
  <2>. QED BY <2>1, <2>2
<1>5. ASSUME mainPc = "hnd_destroy" PROVE (\A e \in Drivers : Ends(e))' /\ stat' = "NULL"
  <2>1. stat = "NULL" /\ drv[d] # "born"
    BY <1>2, <1>5 DEF GoneInv, Born
  <2>2. \/ drv[d] = "loop" /\ drv'[d] = "gone"
        \/ drv[d] = "asleep" /\ drvSleep[d] = 0 /\ drv'[d] = "loop"
        \/ drv[d] \in Running /\ drv'[d] \in Running \cup {"loop"}
        \/ drv[d] \in Running /\ drv'[d] = "asleep" /\ drvSleep'[d] = PollSleep
    BY <1>2, <2>1, DriverMoves
  <2>3. Ends(d)'
    <3>1. Ends(d)
      BY <1>5 DEF GoneInv
    <3>2. drv[d] \in Running => mainSleep = ExitSleep
      BY <3>1 DEF Ends, Running
    <3>3. drv[d] = "asleep" /\ drvSleep[d] = 0 => mainSleep > 0
      BY <3>1, Sizes DEF Ends, TypeOK, SndTypeOK
    <3>4. drv[d] = "loop" => mainSleep > 0
      BY <3>1 DEF Ends
    <3> QED
      BY <1>1, <2>2, <3>2, <3>3, <3>4, Sizes DEF Ends, Running
  <2>4. ASSUME NEW e \in Drivers \ {d} PROVE Ends(e)'
    BY <1>1, <1>5 DEF GoneInv, Ends
  <2> QED
    BY <1>1, <2>1, <2>3, <2>4
<1> QED
  BY <1>1, <1>2, <1>3, <1>4, <1>5 DEF GoneInv, Born

LEMMA GoneMain ==
    ASSUME PollSleep < ExitSleep, TypeOK, GoneInv, Main PROVE GoneInv'
<1> USE DEF GoneInv, Gone, Born, Refuses, hndVars, drvVars, mainVars, pcmVars, playVars,
            MainGoes, MainWaits
<1>1. CASE Open \/ DecodeFrame \/ faad_drv_stream \/ ReadFails \/ BufferFull
           \/ LibFAAD_RenderFrame \/ While
  <2>1. /\ mainSleep = 0
        /\ mainPc \notin {"hnd_destroy", "freed_stream"}
        /\ mainPc' \notin {"hnd_destroy", "freed_stream"}
    BY <1>1 DEF Open, DecodeFrame, faad_drv_stream, ReadFails, BufferFull,
                LibFAAD_RenderFrame, While
  <2>2. UNCHANGED <<stat, hndLive, drv, first_time>>
    BY <1>1, Zenon DEF Open, DecodeFrame, faad_drv_stream, ReadFails, BufferFull,
                       LibFAAD_RenderFrame, While
  <2> QED
    BY <2>1, <2>2
<1>2. CASE faad_drv_init
  BY <1>2 DEF faad_drv_init, HndAlloc, CreateDriver, DriverGoes, TypeOK, SndTypeOK
<1>3. CASE HndExitStop /\ UNCHANGED <<pcmVars, playVars>>
  <2>1. ~Born
    BY <1>3 DEF HndExitStop
  <2>2. CASE StatReadsNull /\ MainGoes("hnd_exit", "freed_stream") /\ UNCHANGED stat
    BY <1>3, <2>1, <2>2 DEF HndExitStop, StatReadsNull
  <2>3. CASE MainWaits("hnd_exit", "hnd_destroy", ExitSleep) /\ stat' = "NULL"
    <3>1. ASSUME NEW d \in Drivers PROVE Ends(d)'
      <4>1. drv[d] # "born" /\ drvSleep[d] <= PollSleep /\ drvSleep[d] \in Nat
        BY <2>1, Sizes DEF TypeOK, SndTypeOK
      <4>2. drv'[d] = drv[d] /\ drvSleep'[d] = drvSleep[d] /\ mainSleep' = ExitSleep
        BY <1>3, <2>3 DEF HndExitStop
      <4> QED
        BY <4>1, <4>2, Sizes DEF Ends, TypeOK, SndTypeOK
    <3> QED
      BY <1>3, <2>1, <2>3, <3>1 DEF HndExitStop
  <2> QED
    BY <1>3, <2>2, <2>3 DEF HndExitStop
<1>4. CASE HndExitDestroy /\ UNCHANGED <<pcmVars, playVars>>
  <2>1. ASSUME NEW d \in Drivers PROVE drv[d] \in {"none", "gone"}
    <3>1. Ends(d) /\ mainSleep = 0
      BY <1>4 DEF HndExitDestroy
    <3>2. drvSleep[d] \in Nat
      BY Sizes DEF TypeOK, SndTypeOK
    <3> QED
      BY <3>1, <3>2, Sizes DEF Ends
  <2> QED
    BY <1>4, <2>1 DEF HndExitDestroy
<1>5. CASE faad_drv_free
  BY <1>5 DEF faad_drv_free
<1> QED
  BY <1>1, <1>2, <1>3, <1>4, <1>5 DEF Main, snddrv_hnd_exit

LEMMA GoneTime ==
    ASSUME PollSleep < ExitSleep, TypeOK, GoneInv, Time PROVE GoneInv'
<1>1. /\ UNCHANGED <<hndVars, drv, mainPc, playVars>>
      /\ mainSleep' = Minus1(mainSleep)
      /\ \A d \in Drivers : drvSleep'[d] = Minus1(drvSleep[d])
      /\ \A d \in Drivers : DriverWaits(d) \/ DriverSpins(d)
  BY DEF Time, Tick
<1>2. ~Born
  BY <1>1 DEF Born, DriverWaits, DriverSpins, Starved
<1>4. Refuses => Refuses'
  BY <1>1 DEF Refuses, DriverWaits, DriverSpins, Starved
<1>3. ASSUME mainPc = "hnd_destroy", NEW d \in Drivers PROVE Ends(d)'
  <2>1. Ends(d)
    BY <1>3 DEF GoneInv
  <2>2. drvSleep[d] \in Nat /\ mainSleep \in Nat
    BY Sizes DEF TypeOK, SndTypeOK
  <2>3. CASE drv[d] \in {"none", "gone"}
    BY <1>1, <2>3 DEF Ends
  <2>4. CASE drv[d] = "asleep" /\ drvSleep[d] > 0
    BY <1>1, <2>1, <2>2, <2>4, Sizes DEF Ends, Minus1
  <2>5. CASE DriverSpins(d)
    BY <1>3, <2>5 DEF DriverSpins, GoneInv
  <2> QED
    BY <1>1, <2>3, <2>4, <2>5 DEF DriverWaits
<1> QED
  BY <1>1, <1>2, <1>3, <1>4 DEF GoneInv, Gone, Born, hndVars, playVars

\* "Exit the AICA Driver": if the driver's thread sleeps less than
\* snddrv_hnd_exit does, no thread uses the handle once it is freed, however
\* many threads there are, whatever they wait for when they are stopped.
THEOREM DriverGone ==
    ASSUME PollSleep < ExitSleep
    PROVE  Spec => []DriverGoneBeforeFree
<1>1. Init => GoneInv
  BY DEF Init, SndInit, GoneInv, Gone, Born
<1>2. TypeOK /\ GoneInv /\ [Next]_vars => GoneInv'
  <2>1. TypeOK /\ GoneInv /\ UNCHANGED vars => GoneInv'
    BY DEF GoneInv, Gone, Born, Refuses, Ends, vars, sndVars, hndVars, drvVars, mainVars, playVars
  <2> QED
    BY <2>1, GoneDriver, GoneMain, GoneTime DEF Next, Driver
<1>3. GoneInv => DriverGoneBeforeFree
  BY DEF GoneInv, Gone, DriverGoneBeforeFree
<1> QED
  BY <1>1, <1>2, <1>3, TypeCorrect, PTL DEF Spec
-----------------------------------------------------------------------------
(* What the driver takes.  Only one thread is created, at the first frame  *)
(* that decodes, and the stop is the last thing that happens to stat.      *)

TakesInv ==
    /\ first_time => \A d \in Drivers : drv[d] = "none"
    /\ OneDriver
    /\ hndLive /\ (stat = "STREAMING" \/ Born) => size >= 0 /\ CopyingHas

\* A driver goes on to copy what it has found in the buffer, or, once the stream
\* was stopped, what it has not.
LEMMA TakesMoves ==
    ASSUME TypeOK, NEW d \in Drivers, faad_drv_thd(d)
    PROVE  /\ UNCHANGED <<hndLive, first_time>>
           /\ drv[d] # "none" /\ drv'[d] \notin {"none", "born"}
           /\ \A e \in Drivers \ {d} : drv'[e] = drv[e]
           /\ stat' = stat \/ drv[d] = "born"
           /\ \/ size' = size /\ drv'[d] # "copying"
              \/ size' = size - needed[d] /\ drv[d] = "copying" /\ drv'[d] # "copying"
              \/ size' = size /\ needed' = needed /\ drv[d] = "filling"
                 /\ (size >= needed[d] \/ StatReadsNull)
<1> USE DEF TypeOK, SndTypeOK, hndVars, mainVars, pcmVars, playVars, DriverGoes,
            CallbackReturns, CallbackFrom
<1>1. CASE CallbackRequest(d) /\ UNCHANGED playVars
  BY <1>1 DEF CallbackRequest
<1>2. CASE CallbackSilence(d) /\ UNCHANGED playVars
  BY <1>2 DEF CallbackSilence, Starved
<1>3. CASE StatReadsNull /\ CallbackCopyAnyway(d) /\ UNCHANGED playVars
  BY <1>3 DEF CallbackCopyAnyway, Starved
<1>4. CASE CallbackEnough(d) /\ UNCHANGED playVars
  BY <1>4 DEF CallbackEnough
<1>5. CASE CallbackCopy(d) /\ UNCHANGED playVars
  BY <1>5 DEF CallbackCopy
<1>6. CASE snddrv_hnd_start(d) /\ UNCHANGED <<pcmVars, playVars>>
  BY <1>6 DEF snddrv_hnd_start
<1>7. CASE (DriverTest(d) \/ snddrv_hnd_cb(d) \/ DriverWake(d)) /\ UNCHANGED <<pcmVars, playVars>>
  BY <1>7 DEF DriverTest, snddrv_hnd_cb, DriverWake
<1> QED
  BY <1>1, <1>2, <1>3, <1>4, <1>5, <1>6, <1>7
     DEF faad_drv_thd, faad_drv_callback, CallbackTakes, DriverLoop

LEMMA TakesDriver ==
    ASSUME TypeOK, TakesInv, NEW d \in Drivers, faad_drv_thd(d) PROVE TakesInv'
<1>1. /\ UNCHANGED <<hndLive, first_time>>
      /\ drv[d] # "none" /\ drv'[d] \notin {"none", "born"}
      /\ \A e \in Drivers \ {d} : drv'[e] = drv[e]
      /\ stat' = stat \/ drv[d] = "born"
  BY TakesMoves
<1>2. \A e \in Drivers \ {d} : drv[e] = "none" /\ drv'[e] = "none"
  BY <1>1 DEF TakesInv, OneDriver
<1>3. ~first_time' /\ OneDriver' /\ ~Born'
  BY <1>1, <1>2 DEF TakesInv, OneDriver, Born
<1>4. ASSUME hndLive', stat' = "STREAMING" PROVE (size >= 0 /\ CopyingHas)'
  <2>1. size >= 0 /\ CopyingHas
    BY <1>1, <1>4 DEF TakesInv, Born
  <2>2. CASE size' = size /\ drv'[d] # "copying"
    BY <1>2, <2>1, <2>2 DEF CopyingHas
  <2>3. CASE size' = size - needed[d] /\ drv[d] = "copying" /\ drv'[d] # "copying"
    <3>1. size >= needed[d] /\ size \in Int /\ needed[d] \in Int
      BY <2>1, <2>3, NeedsNat DEF CopyingHas, TypeOK, PcmTypeOK
    <3>. QED BY <1>2, <2>3, <3>1 DEF CopyingHas
  <2>4. CASE size' = size /\ needed' = needed /\ drv[d] = "filling"
             /\ (size >= needed[d] \/ StatReadsNull)
    <3>1. ~StatReadsNull
      BY <1>1, <1>4, <2>4 DEF StatReadsNull
    <3>. QED BY <1>2, <2>1, <2>4, <3>1 DEF CopyingHas
  <2>. QED BY <2>2, <2>3, <2>4, TakesMoves
<1>. QED BY <1>3, <1>4 DEF TakesInv

LEMMA TakesMain ==
    ASSUME TypeOK, TakesInv, Main PROVE TakesInv'
<1> USE Sizes DEF hndVars, drvVars, mainVars, pcmVars, playVars, Decoded
<1>1. CASE \/ Open \/ DecodeFrame \/ faad_drv_stream \/ ReadFails \/ BufferFull
           \/ LibFAAD_RenderFrame \/ While
  <2>1. UNCHANGED <<stat, hndLive, drv, needed, first_time>>
    BY <1>1, Zenon DEF Open, DecodeFrame, faad_drv_stream, ReadFails, BufferFull,
                       LibFAAD_RenderFrame, While
  <2>2. size' = size \/ \E n \in 0 .. MaxDecode : size' = size + n
    <3>1. CASE DecodeFrame
      <4>1. PICK n \in IF first_time THEN {0} ELSE 0 .. MaxDecode : Decoded(n)
        BY <3>1 DEF DecodeFrame
      <4>2. n \in 0 .. MaxDecode
        BY <4>1
      <4>. QED BY <4>1, <4>2
    <3>2. CASE faad_drv_stream
      BY <3>2 DEF faad_drv_stream
    <3>3. CASE Open \/ ReadFails \/ BufferFull \/ LibFAAD_RenderFrame \/ While
      BY <3>3 DEF Open, ReadFails, BufferFull, LibFAAD_RenderFrame, While
    <3>. QED BY <1>1, <3>1, <3>2, <3>3
  <2>3. size' >= size /\ size \in Int /\ size' \in Int
    BY <2>2 DEF TypeOK, PcmTypeOK
  <2>4. \A d \in Drivers : needed[d] \in Int
    BY NeedsNat DEF TypeOK, PcmTypeOK
  <2>. QED BY <2>1, <2>3, <2>4 DEF TakesInv, OneDriver, Born, CopyingHas
<1>2. CASE faad_drv_init
  <2>1. PICK d \in Drivers : CreateDriver(d)
    BY <1>2 DEF faad_drv_init
  <2>2. \A e \in Drivers : drv'[e] = IF e = d THEN "born" ELSE "none"
    BY <1>2, <2>1 DEF faad_drv_init, TakesInv, CreateDriver, DriverGoes, TypeOK, SndTypeOK
  <2>3. ~first_time' /\ size' = 0
    BY <1>2, Zenon DEF faad_drv_init
  <2>. QED BY <2>2, <2>3 DEF TakesInv, OneDriver, CopyingHas
<1>3. CASE snddrv_hnd_exit /\ UNCHANGED <<pcmVars, playVars>>
  <2>1. UNCHANGED <<hndLive, drv, size, needed, first_time>> /\ stat' \in {stat, "NULL"}
    BY <1>3 DEF snddrv_hnd_exit, HndExitStop, HndExitDestroy
  <2>. QED BY <2>1 DEF TakesInv, OneDriver, Born, CopyingHas
<1>4. CASE faad_drv_free
  <2>1. UNCHANGED <<drv, first_time>> /\ ~hndLive'
    BY <1>4, Zenon DEF faad_drv_free
  <2>. QED BY <2>1 DEF TakesInv, OneDriver
<1>. QED BY <1>1, <1>2, <1>3, <1>4 DEF Main

\* Until the stream is stopped the driver takes what it has found in the buffer, and
\* that is still there: no other thread takes, and decoding adds.
THEOREM TakesWhatThereIs == Spec => []PlaysWhatThereIs
<1>1. Init => TakesInv
  BY DEF Init, SndInit, TakesInv, OneDriver
<1>2. TypeOK /\ TakesInv /\ [Next]_vars => TakesInv'
  <2>1. CASE Time \/ UNCHANGED vars
    BY <2>1 DEF Time, Tick, vars, sndVars, hndVars, drvVars, pcmVars, playVars, TakesInv,
                OneDriver, Born, CopyingHas
  <2>. QED BY <2>1, TakesDriver, TakesMain DEF Next, Driver
<1>3. TakesInv => PlaysWhatThereIs
  BY DEF TakesInv, PlaysWhatThereIs
<1>. QED BY <1>1, <1>2, <1>3, TypeCorrect, PTL DEF Spec

-----------------------------------------------------------------------------
(* LibFLAC.                                                                *)

LEMMA FlacSizes ==
    /\ PollSleep \in Nat /\ Sessions \in Nat /\ Blocks \in Nat /\ BlockSize \in Nat
    /\ High \in Nat /\ High > 0 /\ \A n \in Needs \cup {0} : n \in Nat
<1>1. High \in Nat \ {0} /\ Needs \subseteq Nat
  BY FlacAssumption
<1> QED
  BY <1>1, SleepAssumption, FlacAssumption

\* What reads as less than High is less, whether it is below zero or not.
LEMMA ReadsLess ==
    ASSUME size \in Int, size < High + BlockSize, LibFLAC_PcmHave < High PROVE size < High
<1>1. UINT \in Nat \ {0} /\ High + BlockSize <= UINT
  BY FlacAssumption
<1>2. CASE size \in Nat
  <2>1. size < UINT
    BY <1>1, <1>2, FlacSizes
  <2>2. \A a \in Nat, c \in Nat \ {0} : a < c => a % c = a
    OBVIOUS
  <2>3. size % UINT = size
    BY <1>1, <1>2, <2>1, <2>2
  <2>. QED BY <2>3 DEF LibFLAC_PcmHave
<1>3. CASE size \notin Nat
  BY <1>3, FlacSizes
<1>. QED BY <1>2, <1>3

\* The count of blocks begins at zero with each file and ends at the file's; and
\* while no thread is left from a file before, one thread takes samples, no more
\* than it has found.
BufferInv ==
    /\ pcmLive => mainPc \notin {"menu", "streaminfo"}
    /\ mainPc = "menu" => total_dec_size = 0
    /\ mainPc = "decode" => total_dec_size < total_size \/ total_size = 0
    /\ alone /\ mainPc = "streaminfo" => \A d \in Drivers : ~DriverHere(d)
    /\ alone /\ pcmLive =>
          /\ \A d, e \in Drivers : DriverHere(d) /\ DriverHere(e) => d = e
          /\ CopyingHas
    /\ PcmInRange

LEMMA FlacTypeDriver ==
    ASSUME FlacTypeOK, NEW d \in Drivers, flac_drv_thd(d)
    PROVE  FlacTypeOK'
<1> USE FlacSizes DEF FlacTypeOK, SndTypeOK, PcmTypeOK, hndVars, drvVars, mainVars, pcmVars,
                      libVars, fileVars, DriverGoes, CallbackReturns, CallbackFrom
<1>1. UNCHANGED libVars
  BY DEF flac_drv_thd
<1>2. CASE CallbackRequest(d)
  BY <1>1, <1>2 DEF CallbackRequest
<1>3. CASE CallbackEnough(d)
  BY <1>1, <1>3 DEF CallbackEnough
<1>4. CASE CallbackCopy(d)
  <2>1. needed[d] \in Needs \cup {0}
    OBVIOUS
  <2>2. needed[d] \in Int
    BY <2>1
  <2> QED
    BY <1>1, <1>4, <2>2 DEF CallbackCopy
<1>5. CASE CallbackFreed(d)
  BY <1>1, <1>5 DEF CallbackFreed
<1>6. CASE snddrv_hnd_start(d) /\ UNCHANGED pcmVars
  BY <1>1, <1>6 DEF snddrv_hnd_start
<1>7. CASE DriverTest(d) /\ UNCHANGED pcmVars
  BY <1>1, <1>7 DEF DriverTest
<1>8. CASE snddrv_hnd_cb(d) /\ UNCHANGED pcmVars
  BY <1>1, <1>8 DEF snddrv_hnd_cb
<1>9. CASE DriverWake(d) /\ UNCHANGED pcmVars
  BY <1>1, <1>9 DEF DriverWake
<1> QED
  BY <1>2, <1>3, <1>4, <1>5, <1>6, <1>7, <1>8, <1>9
     DEF flac_drv_thd, flac_drv_callback, CallbackTakes, DriverLoop

\* What a step of a driver takes.
LEMMA FlacMoves ==
    ASSUME FlacTypeOK, NEW d \in Drivers, flac_drv_thd(d)
    PROVE  /\ UNCHANGED <<mainPc, libVars>>
           /\ DriverHere(d) /\ \A e \in Drivers \ {d} : drv'[e] = drv[e]
           /\ \/ size' = size /\ drv'[d] # "copying"
              \/ /\ size' = size - needed[d] /\ needed' = needed
                 /\ drv[d] = "copying" /\ drv'[d] # "copying"
              \/ size' = size /\ needed' = needed /\ size >= needed[d]
<1> USE DEF FlacTypeOK, SndTypeOK, hndVars, mainVars, pcmVars, DriverGoes, CallbackReturns,
            CallbackFrom, DriverHere
<1>1. UNCHANGED libVars
  BY DEF flac_drv_thd
<1>2. CASE CallbackRequest(d)
  BY <1>1, <1>2 DEF CallbackRequest
<1>3. CASE CallbackEnough(d)
  BY <1>1, <1>3 DEF CallbackEnough
<1>4. CASE CallbackCopy(d)
  BY <1>1, <1>4 DEF CallbackCopy
<1>5. CASE CallbackFreed(d)
  BY <1>1, <1>5 DEF CallbackFreed
<1>6. CASE snddrv_hnd_start(d) /\ UNCHANGED pcmVars
  BY <1>1, <1>6 DEF snddrv_hnd_start
<1>7. CASE (DriverTest(d) \/ snddrv_hnd_cb(d) \/ DriverWake(d)) /\ UNCHANGED pcmVars
  BY <1>1, <1>7 DEF DriverTest, snddrv_hnd_cb, DriverWake
<1> QED
  BY <1>2, <1>3, <1>4, <1>5, <1>6, <1>7
     DEF flac_drv_thd, flac_drv_callback, CallbackTakes, DriverLoop

LEMMA BufferDriver ==
    ASSUME FlacTypeOK, BufferInv, NEW d \in Drivers, flac_drv_thd(d)
    PROVE  BufferInv'
<1>1. /\ UNCHANGED <<mainPc, total_size, total_dec_size, pcmLive, alone>>
      /\ DriverHere(d) /\ \A e \in Drivers \ {d} : drv'[e] = drv[e]
  BY FlacMoves DEF libVars, fileVars
<1>2. ~(alone /\ mainPc = "streaminfo")
  BY <1>1 DEF BufferInv
<1>3. needed[d] \in Nat /\ size \in Int
  BY FlacSizes DEF FlacTypeOK, PcmTypeOK
<1>4. ASSUME pcmLive PROVE size' < High + BlockSize
  <2>1. size < High + BlockSize
    BY <1>4 DEF BufferInv, PcmInRange
  <2>2. size' = size \/ size' = size - needed[d]
    BY FlacMoves
  <2> QED
    BY <1>3, <2>1, <2>2, FlacSizes
<1>5. ASSUME pcmLive, alone
      PROVE  /\ size' >= 0 /\ CopyingHas'
             /\ \A e, f \in Drivers : DriverHere(e)' /\ DriverHere(f)' => e = f
  <2>1. /\ size >= 0 /\ CopyingHas
        /\ \A e, f \in Drivers : DriverHere(e) /\ DriverHere(f) => e = f
    BY <1>5 DEF BufferInv, PcmInRange
  <2>2. \A e \in Drivers \ {d} : ~DriverHere(e) /\ ~DriverHere(e)'
    BY <1>1, <2>1 DEF DriverHere
  <2>3. CASE size' = size /\ drv'[d] # "copying"
    BY <2>1, <2>2, <2>3 DEF CopyingHas, DriverHere
  <2>4. CASE /\ size' = size - needed[d] /\ needed' = needed
             /\ drv[d] = "copying" /\ drv'[d] # "copying"
    <3>1. size >= needed[d]
      BY <2>1, <2>4 DEF CopyingHas
    <3> QED
      BY <1>3, <2>2, <2>4, <3>1 DEF CopyingHas, DriverHere
  <2>5. CASE size' = size /\ needed' = needed /\ size >= needed[d]
    BY <2>1, <2>2, <2>5 DEF CopyingHas, DriverHere
  <2> QED
    BY <2>2, <2>3, <2>4, <2>5, FlacMoves
<1> QED
  BY <1>1, <1>2, <1>4, <1>5 DEF BufferInv, PcmInRange
LEMMA FlacMainStep ==
    ASSUME FlacTypeOK, BufferInv, FlacMain PROVE FlacTypeOK' /\ BufferInv'
<1> USE FlacSizes DEF hndVars, drvVars, mainVars, pcmVars, libVars, fileVars, MainGoes, MainWaits
<1> USE DEF FlacTypeOK, SndTypeOK, PcmTypeOK
<1>1. CASE OpenFile
  <2>1. alone' \in BOOLEAN
    BY <1>1, Zenon DEF OpenFile
  <2>2. total_dec_size' = 0 /\ total_size' \in 0 .. Blocks /\ ~pcmLive'
    BY <1>1 DEF OpenFile, BufferInv
  <2>3. alone' => \A d \in Drivers : ~DriverHere(d)'
    BY <1>1, Zenon DEF OpenFile, DriverHere
  <2>4. FlacTypeOK'
    BY <1>1, <2>1, <2>2 DEF OpenFile
  <2> QED
    BY <1>1, <2>2, <2>3, <2>4 DEF OpenFile, BufferInv, PcmInRange
<1>2. CASE FlacOpen
  <2>1. PICK d \in Drivers : CreateDriver(d)
    BY <1>2 DEF FlacOpen
  <2>2. /\ drv[d] = "none" /\ drv' = [drv EXCEPT ![d] = "born"]
        /\ size' = 0 /\ pcmLive' /\ mainPc = "streaminfo" /\ mainPc' = "render"
        /\ alone' = alone /\ total_dec_size' = 0
    BY <1>2, <2>1, Zenon DEF FlacOpen, CreateDriver, DriverGoes
  <2>3. hndLive' \in BOOLEAN /\ pcmLive' \in BOOLEAN
    BY <1>2, Zenon DEF FlacOpen, HndAlloc
  <2>4. FlacTypeOK'
    BY <1>2, <2>1, <2>2, <2>3 DEF FlacOpen, HndAlloc, CreateDriver
  <2>5. ASSUME alone PROVE \A e \in Drivers \ {d} : ~DriverHere(e)'
    BY <2>2, <2>5 DEF BufferInv, DriverHere
  <2>6. ASSUME alone PROVE \A e \in Drivers : drv'[e] # "copying"
    BY <2>2, <2>5, <2>6 DEF DriverHere
  <2> QED
    BY <2>2, <2>4, <2>5, <2>6 DEF BufferInv, PcmInRange, CopyingHas
<1>3. CASE LibFLAC_RenderFrame
  BY <1>3 DEF LibFLAC_RenderFrame, BufferInv, PcmInRange, CopyingHas, DriverHere
<1>4. CASE CheckEof
  BY <1>4 DEF CheckEof, BufferInv, PcmInRange, CopyingHas, DriverHere
<1>5. CASE Decode
  <2>1. \/ UNCHANGED <<pcmVars, total_dec_size>>
        \/ /\ LibFLAC_PcmHave < High /\ total_size > 0 /\ total_dec_size' = total_dec_size + 1
           /\ \E n \in 1 .. BlockSize : size' = size + n
           /\ UNCHANGED needed
    BY <1>5 DEF Decode, process_single, write_callback, Decoded
  <2>2. stored' \in 0 .. Blocks
    BY <1>5 DEF Decode, process_single
  <2>3. /\ mainPc = "decode" /\ mainPc' = "render"
        /\ UNCHANGED <<hndVars, drvVars, kind, total_size, session, alone, pcmLive>>
    BY <1>5 DEF Decode
  <2>4. total_dec_size' \in 0 .. total_size
    BY <2>1, <2>3 DEF BufferInv
  <2>5. size' \in Int /\ size' >= size /\ needed' = needed
    BY <2>1
  <2>6. pcmLive => size' < High + BlockSize
    <3> SUFFICES ASSUME pcmLive PROVE size' < High + BlockSize
      OBVIOUS
    <3>1. size < High + BlockSize /\ size \in Int
      BY DEF BufferInv, PcmInRange
    <3>2. LibFLAC_PcmHave < High => size < High
      BY <3>1, ReadsLess
    <3>. QED BY <2>1, <3>1, <3>2
  <2>7. FlacTypeOK'
    BY <1>5, <2>2, <2>3, <2>4, <2>5 DEF Decode
  <2>8. CopyingHas => CopyingHas'
    <3>1. \A d \in Drivers : needed[d] \in Int
      OBVIOUS
    <3> QED
      BY <2>3, <2>5, <3>1 DEF CopyingHas
  <2>9. alone /\ pcmLive => size' >= 0
    BY <2>5 DEF BufferInv, PcmInRange
  <2> QED
    BY <2>3, <2>6, <2>7, <2>8, <2>9 DEF BufferInv, PcmInRange, DriverHere
<1>6. CASE snddrv_hnd_exit /\ UNCHANGED <<pcmVars, libVars>>
  BY <1>6 DEF snddrv_hnd_exit, HndExitStop, HndExitDestroy, BufferInv, PcmInRange,
              CopyingHas, DriverHere
<1>7. CASE Close
  <2>1. hndLive' \in BOOLEAN /\ pcmLive' \in BOOLEAN /\ ~pcmLive'
    BY <1>7, Zenon DEF Close
  <2> QED
    BY <1>7, <2>1 DEF Close, BufferInv, PcmInRange
<1> QED
  BY <1>1, <1>2, <1>3, <1>4, <1>5, <1>6, <1>7 DEF FlacMain

LEMMA FlacTimeStep ==
    ASSUME FlacTypeOK, BufferInv, FlacTime PROVE FlacTypeOK' /\ BufferInv'
<1>1. \A d \in Drivers : Minus1(drvSleep[d]) \in 0 .. PollSleep
  BY FlacSizes DEF FlacTypeOK, SndTypeOK, Minus1
<1>2. Minus1(mainSleep) \in 0 .. ExitSleep
  BY DEF FlacTypeOK, SndTypeOK, Minus1
<1>3. /\ drvSleep' \in [Drivers -> 0 .. PollSleep] /\ mainSleep' \in 0 .. ExitSleep
      /\ UNCHANGED <<hndVars, drv, ret, mainPc, pcmVars, libVars>>
  BY <1>1, <1>2 DEF FlacTime, Tick
<1>4. FlacTypeOK'
  BY <1>3 DEF FlacTypeOK, SndTypeOK, PcmTypeOK, hndVars, pcmVars, libVars, fileVars
<1> QED
  BY <1>3, <1>4 DEF BufferInv, PcmInRange, CopyingHas, DriverHere, pcmVars, libVars, fileVars

\* However many files are played and whatever they say of their length: no more
\* blocks are decoded than a file holds, no more samples than 65535*2 and a block
\* are ahead of the driver; and unless a thread was left from the file before, the
\* callback, which tests the size outside the mutex, takes none that are not there.
THEOREM FlacBuffer == FlacSpec => []FlacInv
<1>1. FlacInit => FlacTypeOK /\ BufferInv
  <2> SUFFICES ASSUME FlacInit PROVE FlacTypeOK /\ BufferInv
    OBVIOUS
  <2>1. hndLive \in BOOLEAN /\ pcmLive \in BOOLEAN /\ ~pcmLive /\ alone \in BOOLEAN
    BY Zenon DEF FlacInit, SndInit
  <2>2. SndTypeOK /\ PcmTypeOK
    BY <2>1, FlacSizes DEF FlacInit, SndInit, PcmInit, SndTypeOK, PcmTypeOK
  <2>3. FlacTypeOK
    BY <2>1, <2>2, FlacSizes DEF FlacInit, SndInit, FlacTypeOK, Kinds
  <2> QED
    BY <2>1, <2>3 DEF FlacInit, SndInit, BufferInv, PcmInRange
<1>2. FlacTypeOK /\ BufferInv /\ [FlacNext]_flacVars => FlacTypeOK' /\ BufferInv'
  <2>1. FlacTypeOK /\ BufferInv /\ UNCHANGED flacVars => FlacTypeOK' /\ BufferInv'
    BY DEF FlacTypeOK, SndTypeOK, PcmTypeOK, BufferInv, PcmInRange, CopyingHas, DriverHere,
           flacVars, sndVars, hndVars, drvVars, mainVars, pcmVars, libVars, fileVars
  <2> QED
    BY <2>1, FlacTypeDriver, BufferDriver, FlacMainStep, FlacTimeStep DEF FlacNext, FlacDriver
<1>3. FlacTypeOK /\ BufferInv => FlacInv
  BY DEF BufferInv, FlacInv
<1> QED
  BY <1>1, <1>2, <1>3, PTL DEF FlacSpec
=============================================================================
