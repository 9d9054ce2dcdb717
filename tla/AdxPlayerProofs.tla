---------------------------- MODULE AdxPlayerProofs ----------------------------
(***************************************************************************)
(* Proofs about AdxPlayer, for files of any length, any sizes of chunks    *)
(* and blocks and any requests of the driver: the inductive invariant, and *)
(* with it the bounds of the sample count.                                 *)
(***************************************************************************)
EXTENDS AdxPlayer, TLAPS

-----------------------------------------------------------------------------
(* Division.                                                               *)

LEMMA DivNat ==
  ASSUME NEW a \in Nat, NEW c \in Nat \ {0}
  PROVE  a % c \in 0 .. c - 1 /\ a \div c \in Nat
  OBVIOUS

LEMMA DivMod ==
  ASSUME NEW a \in Nat, NEW c \in Nat \ {0} PROVE a = c * (a \div c) + (a % c)
  OBVIOUS

LEMMA DivMonotonic ==
  ASSUME NEW a \in Nat, NEW b \in Nat, a <= b, NEW c \in Nat \ {0}
  PROVE  a \div c <= b \div c
<1> DEFINE x == a \div c
           y == b \div c
           r == a % c
           s == b % c
<1>1. x \in Nat /\ y \in Nat /\ r \in 0 .. c - 1 /\ s \in 0 .. c - 1
  BY DivNat
<1>2. a = c * x + r /\ b = c * y + s
  BY DivMod
<1> HIDE DEF x, y, r, s
<1>3. ASSUME x > y PROVE FALSE
  <2>1. PICK k \in Nat : x = y + 1 + k
    BY <1>1, <1>3
  <2>2. c * x = c * y + c + c * k
    BY <1>1, <2>1
  <2>3. c * k \in Nat /\ c * y \in Nat
    BY <1>1, <2>1
  <2>. QED BY <1>1, <1>2, <2>2, <2>3
<1>. QED BY <1>1, <1>3 DEF x, y

LEMMA NeedsNat == \A n \in Needs \cup {0} : n \in Nat
<1> SUFFICES ASSUME NEW n \in Needs PROVE n \in Nat
  OBVIOUS
<1>1. n \in 0 .. Low
  BY AdxAssumption
<1>. QED BY <1>1, AdxAssumption

-----------------------------------------------------------------------------
(* The driver's thread.                                                    *)

\* A step of the driver's thread that takes no samples and finds none.
LEMMA OtherSteps ==
  ASSUME Inv, NEW d \in Drivers, NEW to, DriverGoes(d, to), drv[d] # "none",
         to \in {"callback", "filling", "loop", "poll", "asleep", "gone"},
         drvSleep' \in [Drivers -> 0 .. PollSleep], ret' \in [Drivers -> {"loop", "asleep"}],
         stat' \in {"NULL", "STREAMING"}, stream' \in {"none", "open", "destroyed"},
         \A e \in Drivers \ {d} : needed'[e] = needed[e],
         needed' \in [Drivers -> Needs \cup {0}],
         UNCHANGED <<chan, hndLive, size, mainVars, adxVars, playVars>>
  PROVE Inv'
<1> USE DEF mainVars, adxVars, playVars
<1>1. \A e \in Drivers : drv'[e] = IF e = d THEN to ELSE drv[e]
  BY DEF DriverGoes, Inv, TypeOK, SndTypeOK
<1>2. TypeOK'
  <2>1. drv' \in [Drivers -> {"none", "born", "callback", "filling", "copying",
                              "loop", "poll", "asleep", "gone"}]
    BY DEF Inv, TypeOK, SndTypeOK, DriverGoes
  <2>. QED BY <2>1 DEF Inv, TypeOK, SndTypeOK, PcmTypeOK
<1>3. OneDriver' /\ CopyingHas'
  BY <1>1 DEF Inv, OneDriver, CopyingHas
<1>4. mainPc' \notin {"menu", "first"}
  BY DEF Inv
<1>. QED BY <1>2, <1>3, <1>4 DEF Inv, PcmInRange

\* Where a callback returns to.
LEMMA Returns ==
  ASSUME Inv, NEW d \in Drivers, CallbackReturns(d)
  PROVE  /\ ret[d] \in {"loop", "asleep"} /\ DriverGoes(d, ret[d]) /\ UNCHANGED ret
         /\ drvSleep' \in [Drivers -> 0 .. PollSleep]
  BY SleepAssumption DEF CallbackReturns, Inv, TypeOK, SndTypeOK

LEMMA RequestKeeps ==
  ASSUME Inv, NEW d \in Drivers, CallbackRequest(d), UNCHANGED <<adxVars, playVars>> PROVE Inv'
<1>1. PICK n \in Needs : needed' = [needed EXCEPT ![d] = n]
  BY DEF CallbackRequest
<1>2. needed' \in [Drivers -> Needs \cup {0}] /\ \A e \in Drivers \ {d} : needed'[e] = needed[e]
  BY <1>1 DEF Inv, TypeOK, PcmTypeOK
<1>. QED BY <1>2, OtherSteps DEF CallbackRequest, Inv, TypeOK, SndTypeOK, hndVars

\* Silence, or whatever the freed buffer makes the callback return.
LEMMA SilenceKeeps ==
  ASSUME Inv, NEW d \in Drivers, CallbackSilence(d) \/ CallbackFreed(d),
         UNCHANGED <<adxVars, playVars>>
  PROVE  Inv'
<1>1. drv[d] # "none" /\ CallbackReturns(d) /\ UNCHANGED <<hndVars, mainVars, pcmVars>>
  BY DEF CallbackSilence, CallbackFreed, Starved
<1>. QED BY <1>1, Returns, OtherSteps DEF Inv, TypeOK, SndTypeOK, PcmTypeOK, hndVars, pcmVars

LEMMA LoopKeeps ==
  ASSUME Inv, NEW d \in Drivers, DriverLoop(d), UNCHANGED <<pcmVars, adxVars, playVars>> PROVE Inv'
<1>1. PICK to \in {"callback", "loop", "poll", "asleep", "gone"} :
          DriverGoes(d, to) /\ drv[d] # "none"
  BY DEF DriverLoop, snddrv_hnd_start, DriverTest, snddrv_hnd_cb, DriverWake, CallbackFrom
<1>2. drvSleep' \in [Drivers -> 0 .. PollSleep]
  BY SleepAssumption
     DEF DriverLoop, snddrv_hnd_start, DriverTest, snddrv_hnd_cb, DriverWake, CallbackFrom,
         Inv, TypeOK, SndTypeOK
<1>3. ret' \in [Drivers -> {"loop", "asleep"}]
  BY DEF DriverLoop, snddrv_hnd_start, DriverTest, snddrv_hnd_cb, DriverWake, CallbackFrom,
         Inv, TypeOK, SndTypeOK
<1>4. /\ stat' \in {"NULL", "STREAMING"} /\ stream' \in {"none", "open", "destroyed"}
      /\ UNCHANGED <<chan, hndLive, mainVars>>
  BY DEF DriverLoop, snddrv_hnd_start, DriverTest, snddrv_hnd_cb, DriverWake,
         Inv, TypeOK, SndTypeOK, hndVars
<1>. QED BY <1>1, <1>2, <1>3, <1>4, OtherSteps DEF pcmVars, Inv, TypeOK, PcmTypeOK

\* The test outside the mutex: what is found is there.
LEMMA EnoughKeeps ==
  ASSUME Inv, NEW d \in Drivers, CallbackEnough(d), UNCHANGED <<adxVars, playVars>> PROVE Inv'
<1> USE DEF CallbackEnough, hndVars, pcmVars, mainVars, adxVars, playVars
<1>1. \A e \in Drivers : drv'[e] = IF e = d THEN "copying" ELSE drv[e]
  BY DEF DriverGoes, Inv, TypeOK, SndTypeOK
<1>2. TypeOK'
  <2>1. drv' \in [Drivers -> {"none", "born", "callback", "filling", "copying",
                              "loop", "poll", "asleep", "gone"}]
    BY DEF Inv, TypeOK, SndTypeOK, DriverGoes
  <2>. QED BY <2>1 DEF Inv, TypeOK, SndTypeOK, PcmTypeOK
<1>3. OneDriver' /\ CopyingHas'
  BY <1>1 DEF Inv, OneDriver, CopyingHas
<1>4. mainPc' \notin {"menu", "first"}
  BY DEF Inv
<1>. QED BY <1>2, <1>3, <1>4 DEF Inv, PcmInRange

\* What was found is still there when it is taken: no other thread has taken it.
LEMMA CopyKeeps ==
  ASSUME Inv, NEW d \in Drivers, CallbackCopy(d), UNCHANGED <<adxVars, playVars>> PROVE Inv'
<1> USE DEF CallbackCopy, hndVars, mainVars, adxVars, playVars
<1>1. /\ ret[d] \in {"loop", "asleep"} /\ DriverGoes(d, ret[d]) /\ UNCHANGED ret
      /\ drvSleep' \in [Drivers -> 0 .. PollSleep]
  BY Returns
<1>2. \A e \in Drivers : drv'[e] = IF e = d THEN ret[d] ELSE drv[e]
  BY <1>1 DEF DriverGoes, Inv, TypeOK, SndTypeOK
<1>3. size \in Int /\ needed[d] \in Nat /\ size' = size - needed[d] /\ size >= needed[d]
  <2>1. needed[d] \in Needs \cup {0} /\ size \in Int
    BY DEF Inv, TypeOK, PcmTypeOK
  <2>2. needed[d] \in Nat
    BY <2>1, NeedsNat
  <2>. QED BY <2>1, <2>2 DEF Inv, CopyingHas
<1>4. TypeOK'
  <2>1. drv' \in [Drivers -> {"none", "born", "callback", "filling", "copying",
                              "loop", "poll", "asleep", "gone"}]
    BY <1>1 DEF Inv, TypeOK, SndTypeOK, DriverGoes
  <2>2. size' \in Int
    BY <1>3
  <2>. QED BY <1>1, <2>1, <2>2 DEF Inv, TypeOK, SndTypeOK, PcmTypeOK
<1>5. \A e \in Drivers : drv'[e] # "copying"
  BY <1>1, <1>2 DEF Inv, OneDriver
<1>6. OneDriver' /\ CopyingHas'
  BY <1>1, <1>2, <1>5 DEF Inv, OneDriver, CopyingHas
<1>7. size' >= 0 /\ size' <= size
  BY <1>3
<1>8. PcmInRange'
  <2>1. High + (ChunkBytes + chunk_size - 1) \div chunk_size \in Nat
    <3>1. chunk_size \in Nat \ {0}
      BY AdxAssumption DEF Inv, TypeOK
    <3>2. ChunkBytes + chunk_size - 1 \in Nat
      BY <3>1, AdxAssumption
    <3>. QED BY <3>1, <3>2, DivNat, AdxAssumption
  <2>. QED BY <1>3, <1>7, <2>1 DEF Inv, PcmInRange
<1>9. mainPc' \notin {"menu", "first"}
  BY DEF Inv
<1>. QED BY <1>4, <1>6, <1>8, <1>9 DEF Inv

LEMMA DriverKeeps == ASSUME Inv, NEW d \in Drivers, adx_drv_thd(d) PROVE Inv'
  BY RequestKeeps, SilenceKeeps, EnoughKeeps, CopyKeeps, LoopKeeps
     DEF adx_drv_thd, adx_drv_callback, CallbackTakes

-----------------------------------------------------------------------------
(* The player.                                                             *)

\* A step of the player that changes no driver and no sample.
LEMMA PlayerSteps ==
  ASSUME Inv, UNCHANGED <<drvVars, pcmVars, chunk_size, video, chunks>>, TypeOK',
         mainPc' = "decode" => chunks > 0,
         mainPc' \in {"menu", "first"} => mainPc \in {"menu", "first"}
  PROVE Inv'
  BY DEF Inv, PcmInRange, OneDriver, CopyingHas, drvVars, pcmVars

LEMMA WaitsKeep == ASSUME Inv, OpenVideo \/ While \/ Input \/ Drain PROVE Inv'
<1> USE DEF OpenVideo, While, Input, Drain, MainGoes, MainWaits, LibADX_PcmHave,
            hndVars, drvVars, pcmVars, adxVars, playVars
<1>1. TypeOK'
  <2>1. mainSleep' \in 0 .. ExitSleep
    BY DEF ExitSleep
  <2>2. mainPc' \in {"first", "while", "decode", "drain", "exit"}
    OBVIOUS
  <2>3. st' \in BOOLEAN /\ ADX_WAIT_START' \in BOOLEAN
    BY DEF Inv, TypeOK
  <2>. QED BY <2>1, <2>2, <2>3 DEF Inv, TypeOK, SndTypeOK, PcmTypeOK
<1>2. mainPc' = "decode" => chunks > 0
  OBVIOUS
<1>3. mainPc' \in {"menu", "first"} => mainPc \in {"menu", "first"}
  OBVIOUS
<1>. QED BY <1>1, <1>2, <1>3, PlayerSteps

LEMMA ExitKeeps == ASSUME Inv, LibADX_Exit, UNCHANGED playVars PROVE Inv'
<1> USE DEF LibADX_Exit, ExitStop, ExitFree, ExitHandle, snddrv_hnd_exit, HndExitStop,
            HndExitDestroy, MainGoes, MainWaits, hndVars, drvVars, pcmVars, adxVars, playVars
<1>1. TypeOK'
  <2>1. mainSleep' \in 0 .. ExitSleep
    BY DEF ExitSleep
  <2>2. mainPc' \in {"exit_free", "hnd_exit", "hnd_destroy", "freed_stream", "closed"}
    OBVIOUS
  <2>3. stat' \in {"NULL", "STREAMING"} /\ stream' \in {"none", "open", "destroyed"}
    BY DEF Inv, TypeOK, SndTypeOK
  <2>4. /\ hndLive' \in BOOLEAN /\ ADX_DEC_STAT' \in BOOLEAN
        /\ ADX_WAIT_START' \in BOOLEAN /\ pcmLive' \in BOOLEAN
    BY DEF Inv, TypeOK, SndTypeOK
  <2>. QED BY <2>1, <2>2, <2>3, <2>4 DEF Inv, TypeOK, SndTypeOK, PcmTypeOK
<1>2. mainPc' \notin {"menu", "first", "decode"}
  OBVIOUS
<1>. QED BY <1>1, <1>2, PlayerSteps

LEMMA ReleaseKeeps == ASSUME Inv, LibADX_Start PROVE Inv'
<1> USE DEF LibADX_Start, sndVars, hndVars, drvVars, mainVars, pcmVars, playVars
<1>1. TypeOK'
  BY DEF Inv, TypeOK, SndTypeOK, PcmTypeOK
<1>2. UNCHANGED <<drvVars, pcmVars, chunk_size, video, chunks, mainPc>>
  OBVIOUS
<1>3. mainPc' = "decode" => chunks > 0
  BY <1>2 DEF Inv
<1>. QED BY <1>1, <1>2, <1>3, PlayerSteps

\* LibADX_Init: the first thread is created, the first chunk decoded.
LEMMA InitKeeps == ASSUME Inv, OpenMusic \/ FirstPacket PROVE Inv'
<1> USE AdxAssumption DEF OpenMusic, FirstPacket, MainGoes, MainWaits, LibADX_Init, HndAlloc, playVars
<1>1. chunk_size \in Nat \ {0} /\ UNCHANGED <<chunk_size, video, chunks, st, needed, ADX_WAIT_START>>
  BY DEF Inv, TypeOK
<1>2. PICK n \in 0 .. ChunkBytes - 1 : size' = n \div chunk_size /\ sfa_bytes' = n % chunk_size
  OBVIOUS
<1>3. PICK d \in Drivers : CreateDriver(d)
  OBVIOUS
<1>4. size' \in Nat /\ sfa_bytes' \in 0 .. chunk_size - 1
  <2>1. n \in Nat /\ chunk_size \in Nat \ {0}
    BY <1>1
  <2>2. n % chunk_size \in 0 .. chunk_size - 1 /\ n \div chunk_size \in Nat
    BY <2>1, DivNat
  <2>. QED BY <1>2, <2>2
<1>5. \A e \in Drivers : drv[e] = "none"
  BY DEF Inv
<1>6. \A e \in Drivers : drv'[e] = IF e = d THEN "born" ELSE "none"
  BY <1>3, <1>5 DEF CreateDriver, DriverGoes, Inv, TypeOK, SndTypeOK
<1>7. OneDriver' /\ CopyingHas'
  BY <1>6 DEF OneDriver, CopyingHas
<1>8. TypeOK'
  <2>1. mainSleep' \in 0 .. ExitSleep
    BY DEF ExitSleep
  <2>2. drv' \in [Drivers -> {"none", "born", "callback", "filling", "copying",
                              "loop", "poll", "asleep", "gone"}]
        /\ UNCHANGED <<drvSleep, ret>>
    BY <1>3 DEF CreateDriver, DriverGoes, Inv, TypeOK, SndTypeOK
  <2>3. mainPc' \in {"while", "input"} /\ stat' = "NULL" /\ stream' = "none"
    OBVIOUS
  <2>4. hndLive' \in BOOLEAN /\ ADX_DEC_STAT' \in BOOLEAN /\ pcmLive' \in BOOLEAN
    OBVIOUS
  <2>5. size' \in Int
    BY <1>4
  <2>. QED BY <1>1, <1>4, <2>1, <2>2, <2>3, <2>4, <2>5 DEF Inv, TypeOK, SndTypeOK, PcmTypeOK
<1>9. PcmInRange'
  <2>1. n \in Nat /\ ChunkBytes + chunk_size - 1 \in Nat /\ n <= ChunkBytes + chunk_size - 1
    BY <1>1
  <2>2. n \div chunk_size <= (ChunkBytes + chunk_size - 1) \div chunk_size
    BY <1>1, <2>1, DivMonotonic
  <2>3. n \div chunk_size \in Nat /\ (ChunkBytes + chunk_size - 1) \div chunk_size \in Nat
    BY <1>1, <2>1, DivNat
  <2>. QED BY <1>1, <1>2, <1>4, <2>2, <2>3 DEF PcmInRange
<1>10. mainPc' \notin {"menu", "first", "decode"}
  OBVIOUS
<1>. QED BY <1>7, <1>8, <1>9, <1>10 DEF Inv

\* A chunk is decoded: a music file does so up to High, by no more blocks than a
\* chunk and the rest of the one before hold.
LEMMA DecodeKeeps == ASSUME Inv, DecodeMusic \/ DecodeVideo PROVE Inv'
<1> USE AdxAssumption DEF DecodeMusic, DecodeVideo, MainWaits, LibADX_DecodeChunk, LibADX_PcmHave, Decoded
<1>1. /\ chunk_size \in Nat \ {0} /\ sfa_bytes \in 0 .. chunk_size - 1 /\ size \in Int
      /\ UNCHANGED <<chunk_size, video, needed, ADX_DEC_STAT, ADX_WAIT_START, pcmLive>>
      /\ UNCHANGED <<hndVars, drvVars>>
  BY DEF Inv, TypeOK, PcmTypeOK, pcmVars
<1>2. CASE UNCHANGED <<size, sfa_bytes, chunks, st>>
  <2>1. TypeOK'
    <3>1. mainSleep' \in 0 .. ExitSleep
      BY DEF ExitSleep
    <3>2. mainPc' = "input"
      OBVIOUS
    <3>. QED BY <1>1, <1>2, <3>1, <3>2 DEF Inv, TypeOK, SndTypeOK, PcmTypeOK, hndVars, drvVars
  <2>2. mainPc' \notin {"menu", "first", "decode"}
    OBVIOUS
  <2>. QED BY <1>1, <1>2, <2>1, <2>2, PlayerSteps DEF pcmVars
<1>3. ASSUME NEW n \in 1 .. ChunkBytes, LibADX_DecodeChunk(n), chunks' = chunks - 1, UNCHANGED st,
             ~video => size <= High
      PROVE  Inv'
  <2> DEFINE k == (sfa_bytes + n) \div chunk_size
  <2>1. sfa_bytes + n \in Nat /\ sfa_bytes + n <= ChunkBytes + chunk_size - 1
    BY <1>1
  <2>2. k \in Nat /\ sfa_bytes' \in 0 .. chunk_size - 1
    BY <1>1, <1>3, <2>1, DivNat
  <2>3. /\ k <= (ChunkBytes + chunk_size - 1) \div chunk_size
        /\ (ChunkBytes + chunk_size - 1) \div chunk_size \in Nat
    <3>1. ChunkBytes + chunk_size - 1 \in Nat
      BY <1>1
    <3>. QED BY <1>1, <2>1, <3>1, DivMonotonic, DivNat
  <2>4. size' = size + k
    BY <1>3
  <2> HIDE DEF k
  <2>5. size' \in Int /\ size' >= size
    BY <1>1, <2>2, <2>4
  <2>6. PcmInRange'
    BY <1>1, <1>3, <2>2, <2>3, <2>4 DEF Inv, PcmInRange
  <2>7. OneDriver' /\ CopyingHas'
    <3>1. \A e \in Drivers : needed[e] \in Nat
      BY NeedsNat DEF Inv, TypeOK, PcmTypeOK
    <3>2. \A e \in Drivers : drv[e] = "copying" => size >= needed[e]
      BY DEF Inv, CopyingHas
    <3>. QED BY <1>1, <2>5, <3>1, <3>2 DEF Inv, OneDriver, CopyingHas, drvVars
  <2>8. TypeOK'
    <3>1. mainSleep' \in 0 .. ExitSleep
      BY DEF ExitSleep
    <3>2. mainPc' = "input" /\ mainPc = "decode"
      OBVIOUS
    <3>3. chunks' \in 0 .. Chunks
      BY <1>3, <3>2 DEF Inv, TypeOK
    <3>. QED BY <1>1, <1>3, <2>2, <2>5, <3>1, <3>2, <3>3
             DEF Inv, TypeOK, SndTypeOK, PcmTypeOK, hndVars, drvVars
  <2>9. mainPc' \notin {"menu", "first", "decode"}
    OBVIOUS
  <2>. QED BY <2>6, <2>7, <2>8, <2>9 DEF Inv
<1>4. CASE DecodeVideo
  <2>1. PICK n \in 1 .. ChunkBytes : LibADX_DecodeChunk(n)
    BY <1>4
  <2>. QED BY <1>3, <1>4, <2>1
<1>5. CASE DecodeMusic /\ LibADX_PcmHave <= High
  <2>1. ChunkBytes \in 1 .. ChunkBytes /\ LibADX_DecodeChunk(ChunkBytes)
    BY <1>1, <1>5
  <2>2. chunks' = chunks - 1 /\ UNCHANGED st /\ size <= High
    BY <1>1, <1>5
  <2>. QED BY <1>3, <2>1, <2>2
<1>6. CASE DecodeMusic /\ LibADX_PcmHave > High
  <2>1. UNCHANGED <<size, sfa_bytes, chunks, st>>
    BY <1>1, <1>6 DEF pcmVars
  <2>. QED BY <1>2, <2>1
<1>7. size <= High \/ size > High
  BY <1>1
<1>. QED BY <1>4, <1>5, <1>6, <1>7, Zenon

LEMMA TimeKeeps == ASSUME Inv, Time PROVE Inv'
<1> USE SleepAssumption DEF Time, Tick, Minus1, hndVars, pcmVars, adxVars, playVars
<1>1. drvSleep' \in [Drivers -> 0 .. PollSleep]
  BY DEF Inv, TypeOK, SndTypeOK
<1>2. mainSleep' \in 0 .. ExitSleep
  BY DEF Inv, TypeOK, SndTypeOK, ExitSleep
<1>3. TypeOK'
  BY <1>1, <1>2 DEF Inv, TypeOK, SndTypeOK, PcmTypeOK
<1>. QED BY <1>3 DEF Inv, PcmInRange, OneDriver, CopyingHas

LEMMA InitInv == Init => Inv
<1> SUFFICES ASSUME Init PROVE Inv
  OBVIOUS
<1> USE AdxAssumption, SleepAssumption DEF Init, SndInit, PcmInit
<1>1. SndTypeOK
  <2>1. 0 \in 0 .. PollSleep /\ 0 \in 0 .. ExitSleep
    BY DEF ExitSleep
  <2>. QED BY <2>1 DEF SndTypeOK
<1>2. PcmTypeOK
  <2>1. size \in Int /\ needed \in [Drivers -> Needs \cup {0}]
    OBVIOUS
  <2>. QED BY <2>1 DEF PcmTypeOK
<1>3. chunk_size \in Nat \ {0} /\ 0 \in 0 .. chunk_size - 1
  OBVIOUS
<1>4. video \in BOOLEAN
  OBVIOUS
<1>5. TypeOK
  BY <1>1, <1>2, <1>3, <1>4 DEF TypeOK
<1>6. PcmInRange
  <2>1. ChunkBytes + chunk_size - 1 \in Nat
    BY <1>3
  <2>2. (ChunkBytes + chunk_size - 1) \div chunk_size \in Nat
    BY <1>3, <2>1, DivNat
  <2>. QED BY <2>2 DEF PcmInRange
<1>7. OneDriver /\ CopyingHas
  BY DEF OneDriver, CopyingHas
<1>. QED BY <1>5, <1>6, <1>7 DEF Inv

-----------------------------------------------------------------------------

\* The inductive invariant: a music file never decodes more ahead than 65535*2
\* and the blocks that a chunk and the rest of the one before hold; and the
\* callback, which tests the size outside the mutex, takes no sample that is not
\* there, also when the buffer is freed under it.
THEOREM SamplesInRange == Spec => []Inv
<1>1. Inv /\ [Next]_vars => Inv'
  <2> SUFFICES ASSUME Inv, [Next]_vars PROVE Inv'
    OBVIOUS
  <2>1. CASE Main
    BY <2>1, InitKeeps, WaitsKeep, DecodeKeeps, ExitKeeps DEF Main
  <2>2. CASE Driver
    BY <2>2, DriverKeeps DEF Driver
  <2>3. CASE Time
    BY <2>3, TimeKeeps
  <2>4. CASE LibADX_Start
    BY <2>4, ReleaseKeeps
  <2>5. CASE UNCHANGED vars
    BY <2>5 DEF vars, sndVars, hndVars, drvVars, mainVars, pcmVars, adxVars, playVars, Inv,
                TypeOK, SndTypeOK, PcmTypeOK, PcmInRange, OneDriver, CopyingHas
  <2>. QED BY <2>1, <2>2, <2>3, <2>4, <2>5 DEF Next
<1>. QED BY InitInv, <1>1, PTL DEF Spec
=============================================================================
