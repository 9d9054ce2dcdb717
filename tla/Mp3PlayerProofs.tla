---------------------------- MODULE Mp3PlayerProofs ----------------------------
(***************************************************************************)
(* Proofs about Mp3Player, for files of any length, any requests of the    *)
(* driver and any number of driver threads: the inductive invariant, and   *)
(* that the sample count stays within its bounds.                          *)
(***************************************************************************)
EXTENDS Mp3Player, TLAPS

LEMMA NeedsNat == \A n \in Needs \cup {0} : n \in Nat
<1> SUFFICES ASSUME NEW n \in Needs PROVE n \in Nat
  OBVIOUS
<1>1. n \in 0 .. High
  BY ThresholdAssumption
<1>. QED BY <1>1, ThresholdAssumption

LEMMA ModRange ==
  ASSUME NEW a \in Nat, NEW c \in Nat \ {0} PROVE a % c \in 0 .. c - 1
  OBVIOUS

LEMMA ModSmall ==
  ASSUME NEW a \in Nat, NEW c \in Nat \ {0}, a < c PROVE a % c = a
  OBVIOUS

\* Nothing takes a driver's thread back to where it was not created.
LEMMA DriversStay ==
  ASSUME Inv, NEW d \in Drivers, NEW to, DriverGoes(d, to), drv[d] # "none" \/ to # "none"
  PROVE  /\ \A e \in Drivers : drv'[e] = IF e = d THEN to ELSE drv[e]
         /\ to # "none" /\ OneDriver' => OneDriver
<1>1. \A e \in Drivers : drv'[e] = IF e = d THEN to ELSE drv[e]
  BY DEF DriverGoes, Inv, TypeOK, SndTypeOK
<1>. QED BY <1>1 DEF OneDriver

-----------------------------------------------------------------------------
(* The driver's thread.                                                    *)

\* A step of a driver's thread that takes no samples and finds none.
LEMMA OtherSteps ==
  ASSUME Inv, NEW d \in Drivers, NEW to, DriverGoes(d, to), drv[d] # "none",
         to \in {"callback", "filling", "loop", "poll", "asleep", "gone"},
         drvSleep' \in [Drivers -> 0 .. PollSleep], ret' \in [Drivers -> {"loop", "asleep"}],
         stat' \in {"NULL", "STREAMING"}, stream' \in {"none", "open", "destroyed"},
         \A e \in Drivers \ {d} : needed'[e] = needed[e],
         needed' \in [Drivers -> Needs \cup {0}],
         UNCHANGED <<chan, hndLive, size, mainVars, mpgVars, playVars>>
  PROVE Inv'
<1>1. /\ \A e \in Drivers : drv'[e] = IF e = d THEN to ELSE drv[e]
      /\ OneDriver' => OneDriver
  BY DriversStay
<1>2. TypeOK'
  <2>1. drv' \in [Drivers -> {"none", "born", "callback", "filling", "copying",
                              "loop", "poll", "asleep", "gone"}]
    BY DEF Inv, TypeOK, SndTypeOK, DriverGoes
  <2>. QED BY <2>1 DEF Inv, TypeOK, SndTypeOK, MpgTypeOK, PcmTypeOK, mainVars, mpgVars, playVars
<1>3. OneDriver' => CopyingHas'
  BY <1>1 DEF Inv, CopyingHas
<1>. QED BY <1>1, <1>2, <1>3 DEF Inv, PcmInRange, ReadsInside, mainVars, playVars

LEMMA RequestKeeps ==
  ASSUME Inv, NEW d \in Drivers, CallbackRequest(d), UNCHANGED <<mpgVars, playVars>> PROVE Inv'
<1>1. PICK n \in Needs : needed' = [needed EXCEPT ![d] = n]
  BY DEF CallbackRequest
<1>2. needed' \in [Drivers -> Needs \cup {0}] /\ \A e \in Drivers \ {d} : needed'[e] = needed[e]
  BY <1>1 DEF Inv, TypeOK, MpgTypeOK, PcmTypeOK
<1>. QED BY <1>2, OtherSteps DEF CallbackRequest, Inv, TypeOK, SndTypeOK, hndVars

\* Where a callback returns to.
LEMMA Returns ==
  ASSUME Inv, NEW d \in Drivers, CallbackReturns(d)
  PROVE  /\ ret[d] \in {"loop", "asleep"} /\ DriverGoes(d, ret[d]) /\ UNCHANGED ret
         /\ drvSleep' \in [Drivers -> 0 .. PollSleep]
  BY SleepAssumption DEF CallbackReturns, Inv, TypeOK, SndTypeOK

LEMMA SilenceKeeps ==
  ASSUME Inv, NEW d \in Drivers, CallbackSilence(d), UNCHANGED <<mpgVars, playVars>> PROVE Inv'
<1>1. drv[d] # "none"
  BY DEF CallbackSilence, Starved
<1>. QED BY <1>1, Returns, OtherSteps
         DEF CallbackSilence, Inv, TypeOK, SndTypeOK, MpgTypeOK, PcmTypeOK, hndVars, pcmVars

LEMMA LoopKeeps ==
  ASSUME Inv, NEW d \in Drivers, DriverLoop(d), UNCHANGED <<pcmVars, mpgVars, playVars>> PROVE Inv'
<1>1. PICK to \in {"callback", "loop", "poll", "asleep", "gone"} :
          DriverGoes(d, to) /\ drv[d] # "none"
  BY DEF DriverLoop, snddrv_hnd_start, DriverTest, snddrv_hnd_cb, DriverWake, CallbackFrom
<1>2. drvSleep' \in [Drivers -> 0 .. PollSleep]
  BY SleepAssumption
     DEF DriverLoop, snddrv_hnd_start, DriverTest, snddrv_hnd_cb, DriverWake, CallbackFrom,
         Inv, TypeOK, SndTypeOK
<1>3. ret' \in [Drivers -> {"loop", "asleep"}]
  BY DEF DriverLoop, snddrv_hnd_start, DriverTest, snddrv_hnd_cb, DriverWake, CallbackFrom,
         Inv, TypeOK, SndTypeOK
<1>4. /\ stat' \in {"NULL", "STREAMING"} /\ stream' \in {"none", "open", "destroyed"}
      /\ UNCHANGED <<chan, hndLive, mainVars>>
  BY DEF DriverLoop, snddrv_hnd_start, DriverTest, snddrv_hnd_cb, DriverWake,
         Inv, TypeOK, SndTypeOK, hndVars
<1>. QED BY <1>1, <1>2, <1>3, <1>4, OtherSteps DEF pcmVars, Inv, TypeOK, MpgTypeOK, PcmTypeOK

\* The test outside the mutex: what is found is there.
LEMMA EnoughKeeps ==
  ASSUME Inv, NEW d \in Drivers, CallbackEnough(d), UNCHANGED <<mpgVars, playVars>> PROVE Inv'
<1> USE DEF CallbackEnough, hndVars, pcmVars, mainVars, mpgVars, playVars
<1>1. /\ \A e \in Drivers : drv'[e] = IF e = d THEN "copying" ELSE drv[e]
      /\ OneDriver' => OneDriver
  BY DriversStay
<1>2. TypeOK'
  <2>1. drv' \in [Drivers -> {"none", "born", "callback", "filling", "copying",
                              "loop", "poll", "asleep", "gone"}]
    BY DEF Inv, TypeOK, SndTypeOK, DriverGoes
  <2>. QED BY <2>1 DEF Inv, TypeOK, SndTypeOK, MpgTypeOK, PcmTypeOK
<1>3. OneDriver' => CopyingHas'
  BY <1>1 DEF Inv, CopyingHas
<1>. QED BY <1>1, <1>2, <1>3 DEF Inv, PcmInRange, ReadsInside

\* With one driver, what was found is still there when it is taken, and no other
\* callback has found it too.
LEMMA CopyKeeps ==
  ASSUME Inv, NEW d \in Drivers, CallbackCopy(d), UNCHANGED <<mpgVars, playVars>> PROVE Inv'
<1> USE ThresholdAssumption, MpgAssumption DEF CallbackCopy, hndVars, mainVars, mpgVars, playVars
<1>1. /\ ret[d] \in {"loop", "asleep"} /\ DriverGoes(d, ret[d]) /\ UNCHANGED ret
      /\ drvSleep' \in [Drivers -> 0 .. PollSleep]
  BY Returns
<1>2. /\ \A e \in Drivers : drv'[e] = IF e = d THEN ret[d] ELSE drv[e]
      /\ OneDriver' => OneDriver
  BY <1>1, DriversStay
<1>3. size \in Int /\ needed[d] \in Nat /\ size' = size - needed[d]
  <2>1. needed[d] \in Needs \cup {0} /\ size \in Int
    BY DEF Inv, TypeOK, MpgTypeOK, PcmTypeOK
  <2>2. needed[d] \in Nat
    BY <2>1, NeedsNat
  <2>. QED BY <2>1, <2>2
<1>4. TypeOK'
  <2>1. drv' \in [Drivers -> {"none", "born", "callback", "filling", "copying",
                              "loop", "poll", "asleep", "gone"}]
    BY <1>1 DEF Inv, TypeOK, SndTypeOK, DriverGoes
  <2>2. size' \in Int
    BY <1>3
  <2>. QED BY <1>1, <2>1, <2>2 DEF Inv, TypeOK, SndTypeOK, MpgTypeOK, PcmTypeOK
<1>5. OneDriver' => size' >= 0 /\ CopyingHas'
  <2> SUFFICES ASSUME OneDriver' PROVE size' >= 0 /\ CopyingHas'
    OBVIOUS
  <2>1. OneDriver /\ CopyingHas
    BY <1>2 DEF Inv
  <2>2. size >= needed[d]
    BY <2>1 DEF CopyingHas
  <2>3. \A e \in Drivers : drv'[e] # "copying"
    BY <1>1, <1>2, <2>1 DEF OneDriver
  <2>. QED BY <1>3, <2>2, <2>3 DEF CopyingHas
<1>6. size' < High + MaxDecode /\ (mainPc' = "decode" => size' < High)
  <2>1. size' <= size
    BY <1>3
  <2>2. size < High + MaxDecode /\ (mainPc = "decode" => size < High)
    BY DEF Inv, PcmInRange, ReadsInside
  <2>. QED BY <1>3, <2>1, <2>2
<1>. QED BY <1>4, <1>5, <1>6 DEF Inv, PcmInRange, ReadsInside

LEMMA DriverKeeps ==
  ASSUME Inv, NEW d \in Drivers, mpa_drv_thd(d), UNCHANGED playVars PROVE Inv'
  BY RequestKeeps, SilenceKeeps, EnoughKeeps, CopyKeeps, LoopKeeps
     DEF mpa_drv_thd, mpa_drv_callback, SilenceWhenStopped, CallbackTakes

-----------------------------------------------------------------------------
(* The player.                                                             *)

\* A step of the player that changes no driver and no sample.
LEMMA PlayerSteps ==
  ASSUME Inv, UNCHANGED <<drvVars, pcmVars>>, TypeOK', mainPc' = "decode" => size < High,
         ReadsInside', mainPc' # "menu"
  PROVE Inv'
  BY DEF Inv, PcmInRange, OneDriver, CopyingHas, drvVars, pcmVars

LEMMA OpenKeeps == ASSUME Inv, Open PROVE Inv'
<1> USE ThresholdAssumption, MpgAssumption DEF Open, MainGoes, MainWaits, LibMPG123_Init, HndAlloc, drvVars, playVars
<1>1. TypeOK'
  <2>1. mainSleep' \in 0 .. ExitSleep
    BY DEF ExitSleep
  <2>2. mainPc' = "while" /\ size' \in Int
    OBVIOUS
  <2>3. stat' \in {"NULL", "STREAMING"} /\ stream' \in {"none", "open", "destroyed"}
    OBVIOUS
  <2>4. hndLive' \in BOOLEAN /\ chan' \in {"ok", "other"} /\ MP3_DEC_STAT' \in BOOLEAN /\ format' \in BOOLEAN
    OBVIOUS
  <2>. QED BY <2>1, <2>2, <2>3, <2>4 DEF Inv, TypeOK, SndTypeOK, MpgTypeOK, PcmTypeOK
<1>2. OneDriver' => OneDriver
  BY DEF OneDriver
<1>3. CopyingHas'
  BY DEF Inv, CopyingHas
<1>. QED BY <1>1, <1>2, <1>3 DEF Inv, PcmInRange, ReadsInside

LEMMA WaitsKeep ==
  ASSUME Inv, While \/ Backpressure \/ Input \/ Drain \/ Close PROVE Inv'
<1> USE ThresholdAssumption, MpgAssumption
    DEF While, Backpressure, Input, Drain, Close, MainGoes, MainWaits, hndVars, drvVars, pcmVars, mpgVars,
        playVars
<1>1. TypeOK'
  <2>1. mainSleep' \in 0 .. ExitSleep /\ st' \in BOOLEAN
    BY DEF Inv, TypeOK, SndTypeOK, ExitSleep
  <2>2. mainPc' \in {"while", "backpressure", "decode", "drain", "exit", "closed"}
    OBVIOUS
  <2>. QED BY <2>1, <2>2 DEF Inv, TypeOK, SndTypeOK, MpgTypeOK, PcmTypeOK
\* What reads as less than High is less, whether it is below zero or not.
<1>2. mainPc' = "decode" => size < High
  <2> SUFFICES ASSUME mainPc' = "decode" PROVE size < High
    OBVIOUS
  <2>1. size \in Int /\ size < High + MaxDecode /\ LibMPG123_PcmHave < High
    BY DEF Inv, TypeOK, MpgTypeOK, PcmTypeOK, PcmInRange
  <2>2. CASE size \in Nat
    <3>1. size < UINT
      BY <2>1, <2>2
    <3>2. size % UINT = size
      BY <2>2, <3>1, ModSmall
    <3>. QED BY <2>1, <3>2 DEF LibMPG123_PcmHave
  <2>3. CASE size \notin Nat
    BY <2>1, <2>3
  <2>. QED BY <2>2, <2>3
<1>3. ReadsInside'
  <2>1. CASE While
    <3> SUFFICES ASSUME mainPc' = "backpressure", flen >= CHUNK_SIZE
                 PROVE  fdone + CHUNK_SIZE <= flen
      BY <2>1 DEF ReadsInside
    <3>1. flen \in 0 .. UINT - 1 /\ fdone \in Nat
      BY DEF Inv, TypeOK
    <3>2. flen - CHUNK_SIZE \in Nat /\ flen - CHUNK_SIZE < UINT
      BY <3>1
    <3>3. (flen - CHUNK_SIZE) % UINT = flen - CHUNK_SIZE
      BY <3>2, ModSmall
    <3>4. fdone < (flen - CHUNK_SIZE) % UINT
      BY <2>1
    <3>. QED BY <3>1, <3>2, <3>3, <3>4
  <2>2. CASE Backpressure
    BY <2>2 DEF Inv, ReadsInside
  <2>3. CASE Input \/ Drain \/ Close
    BY <2>3 DEF ReadsInside
  <2>. QED BY <2>1, <2>2, <2>3
<1>. QED BY <1>1, <1>2, <1>3, PlayerSteps

LEMMA ExitKeeps == ASSUME Inv, LibMPG123_Exit, UNCHANGED playVars PROVE Inv'
<1> USE DEF LibMPG123_Exit, ExitStop, ExitFree, snddrv_hnd_exit, HndExitStop, HndExitDestroy,
            MainGoes, MainWaits, hndVars, drvVars, pcmVars, mpgVars, playVars
<1>1. TypeOK'
  <2>1. mainSleep' \in 0 .. ExitSleep
    BY DEF ExitSleep
  <2>2. mainPc' \in {"hnd_exit", "hnd_destroy", "freed_stream", "exited"}
    OBVIOUS
  <2>3. stat' \in {"NULL", "STREAMING"} /\ stream' \in {"none", "open", "destroyed"}
        /\ hndLive' \in BOOLEAN /\ MP3_DEC_STAT' \in BOOLEAN
    BY DEF Inv, TypeOK, SndTypeOK, MpgTypeOK
  <2>. QED BY <2>1, <2>2, <2>3 DEF Inv, TypeOK, SndTypeOK, MpgTypeOK, PcmTypeOK
<1>2. mainPc' \notin {"backpressure", "decode"}
  OBVIOUS
<1>. QED BY <1>1, <1>2, PlayerSteps DEF ReadsInside

\* The player decodes only below High, and at most one chunk.
LEMMA DecodeKeeps == ASSUME Inv, Decode PROVE Inv'
<1> USE ThresholdAssumption, MpgAssumption DEF Decode, MainWaits
<1>1. PICK n \in 0 .. MaxDecode : size' = size + n /\ UNCHANGED needed
  BY DEF LibMPG123_DecodeChunk, DecodeSamples, DecodeNewFormat, Decoded
<1>2. size \in Int /\ size < High /\ fdone \in Nat
  BY DEF Inv, TypeOK, MpgTypeOK, PcmTypeOK
<1>3. size' \in Int /\ size' >= size /\ size' < High + MaxDecode
  BY <1>1, <1>2
<1>4. /\ drv' \in [Drivers -> {"none", "born", "callback", "filling", "copying",
                               "loop", "poll", "asleep", "gone"}]
      /\ OneDriver' => OneDriver
      /\ \A e \in Drivers : drv'[e] = "copying" => drv[e] = "copying"
      /\ UNCHANGED <<drvSleep, ret>> /\ format' \in BOOLEAN
  <2>1. CASE DecodeSamples
    BY <2>1 DEF DecodeSamples, drvVars, Inv, TypeOK, SndTypeOK, MpgTypeOK, OneDriver
  <2>2. CASE DecodeNewFormat
    <3>1. PICK d \in Drivers : CreateDriver(d)
      BY <2>2 DEF DecodeNewFormat
    <3>2. /\ \A e \in Drivers : drv'[e] = IF e = d THEN "born" ELSE drv[e]
          /\ OneDriver' => OneDriver
      BY <3>1, DriversStay DEF CreateDriver
    <3>3. drv' \in [Drivers -> {"none", "born", "callback", "filling", "copying",
                                "loop", "poll", "asleep", "gone"}]
      BY <3>1 DEF CreateDriver, DriverGoes, Inv, TypeOK, SndTypeOK
    <3>. QED BY <2>2, <3>1, <3>2, <3>3 DEF CreateDriver, DecodeNewFormat
  <2>. QED BY <2>1, <2>2 DEF LibMPG123_DecodeChunk
<1>5. TypeOK'
  <2>1. mainSleep' \in 0 .. ExitSleep
    BY DEF ExitSleep
  <2>2. fdone' \in 0 .. UINT - 1
    BY <1>2, ModRange
  <2>3. /\ stat' \in {"NULL", "STREAMING"} /\ chan' \in {"ok", "other"} /\ hndLive' \in BOOLEAN
        /\ stream' \in {"none", "open", "destroyed"}
    BY DEF LibMPG123_DecodeChunk, DecodeSamples, DecodeNewFormat, hndVars, Inv, TypeOK, SndTypeOK
  <2>. QED BY <1>1, <1>3, <1>4, <2>1, <2>2, <2>3
           DEF LibMPG123_DecodeChunk, Inv, TypeOK, SndTypeOK, MpgTypeOK, PcmTypeOK
<1>6. OneDriver' => size' >= 0 /\ CopyingHas'
  <2> SUFFICES ASSUME OneDriver' PROVE size' >= 0 /\ CopyingHas'
    OBVIOUS
  <2>1. size >= 0 /\ CopyingHas
    BY <1>4 DEF Inv, PcmInRange, ReadsInside
  <2>2. \A e \in Drivers : needed[e] \in Nat
    BY NeedsNat DEF Inv, TypeOK, MpgTypeOK, PcmTypeOK
  <2>3. ASSUME NEW e \in Drivers, drv'[e] = "copying" PROVE size' >= needed'[e]
    <3>1. size >= needed[e]
      BY <1>4, <2>1, <2>3 DEF CopyingHas
    <3>. QED BY <1>1, <1>2, <1>3, <2>2, <3>1
  <2>. QED BY <1>2, <1>3, <2>1, <2>3 DEF CopyingHas
<1>. QED BY <1>3, <1>5, <1>6 DEF Inv, PcmInRange, ReadsInside

LEMMA TimeKeeps == ASSUME Inv, Time PROVE Inv'
<1> USE SleepAssumption DEF Time, Tick, Minus1, hndVars, pcmVars, mpgVars, playVars
<1>1. drvSleep' \in [Drivers -> 0 .. PollSleep]
  BY DEF Inv, TypeOK, SndTypeOK
<1>2. mainSleep' \in 0 .. ExitSleep
  BY DEF Inv, TypeOK, SndTypeOK, ExitSleep
<1>3. TypeOK'
  BY <1>1, <1>2 DEF Inv, TypeOK, SndTypeOK, MpgTypeOK, PcmTypeOK
<1>. QED BY <1>3 DEF Inv, PcmInRange, ReadsInside, OneDriver, CopyingHas

LEMMA InitInv == Init => Inv
<1> SUFFICES ASSUME Init PROVE Inv
  OBVIOUS
<1> USE ThresholdAssumption, MpgAssumption, SleepAssumption DEF Init, SndInit, MpgInit, PcmInit
<1>1. SndTypeOK
  <2>1. 0 \in 0 .. PollSleep /\ 0 \in 0 .. ExitSleep
    BY DEF ExitSleep
  <2>. QED BY <2>1 DEF SndTypeOK
<1>2. MpgTypeOK
  <2>1. MPG123_WAIT_START \in BOOLEAN
    OBVIOUS
  <2>2. size \in Int /\ needed \in [Drivers -> Needs \cup {0}]
    OBVIOUS
  <2>. QED BY <2>1, <2>2 DEF MpgTypeOK, PcmTypeOK
<1>3. TypeOK
  <2>1. fdone \in 0 .. UINT - 1
    OBVIOUS
  <2>. QED BY <1>1, <1>2, <2>1 DEF TypeOK
<1>4. CopyingHas /\ size >= 0 /\ size < High + MaxDecode
  BY DEF CopyingHas
<1>. QED BY <1>3, <1>4 DEF Inv, PcmInRange, ReadsInside

-----------------------------------------------------------------------------

\* The inductive invariant: no more than 65535*2 and a chunk is ever decoded
\* ahead; and with one driver thread the callback, which tests the size outside
\* the mutex, takes no sample that is not there.
THEOREM SamplesInRange == Spec => []Inv
<1>1. Inv /\ [Next]_vars => Inv'
  <2> SUFFICES ASSUME Inv, [Next]_vars PROVE Inv'
    OBVIOUS
  <2>1. CASE Main
    BY <2>1, OpenKeeps, WaitsKeep, DecodeKeeps, ExitKeeps DEF Main
  <2>2. CASE Driver
    BY <2>2, DriverKeeps DEF Driver
  <2>3. CASE Time
    BY <2>3, TimeKeeps
  <2>4. CASE UNCHANGED vars
    BY <2>4 DEF vars, sndVars, hndVars, drvVars, mainVars, pcmVars, mpgVars, playVars, Inv,
                TypeOK, SndTypeOK, MpgTypeOK, PcmTypeOK, PcmInRange, ReadsInside, OneDriver, CopyingHas
  <2>. QED BY <2>1, <2>2, <2>3, <2>4 DEF Next
<1>. QED BY InitInv, <1>1, PTL DEF Spec
=============================================================================
