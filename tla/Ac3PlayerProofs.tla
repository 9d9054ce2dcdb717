---------------------------- MODULE Ac3PlayerProofs ----------------------------
(***************************************************************************)
(* Proofs about Ac3Player, for any number of files of any length and any   *)
(* requests of the driver: the inductive invariant, and with it that one   *)
(* status suffices for the player and the driver's threads to find out     *)
(* about each other.                                                       *)
(***************************************************************************)
EXTENDS Ac3Player, TLAPS

Places == {"none", "born", "callback", "filling", "copying", "started",
           "loop", "poll", "asleep", "ending", "gone"}

LEMMA NeedsNat == \A n \in Needs \cup {0} : n \in Nat
<1> SUFFICES ASSUME NEW n \in Needs PROVE n \in Nat
  OBVIOUS
<1>1. n \in 1 .. Low
  BY Ac3Assumption
<1>. QED BY <1>1, Ac3Assumption

LEMMA Moves ==
  ASSUME Inv, NEW d \in Drivers, NEW to \in Places, DriverGoes(d, to)
  PROVE  drv' \in [Drivers -> Places] /\ \A e \in Drivers : drv'[e] = IF e = d THEN to ELSE drv[e]
  BY DEF DriverGoes, Inv, TypeOK, Places

\* A thread that is past its first callback does not wait for a picture, and no
\* other one does.
LEMMA NotWaiting ==
  ASSUME Inv, NEW d \in Drivers, Active(d), drv[d] \notin {"born", "callback"}
  PROVE  ~A52_WAIT_START
<1> SUFFICES ASSUME A52_WAIT_START PROVE FALSE
  OBVIOUS
<1>1. PICK e \in Drivers : drv[e] \in {"born", "callback"}
  BY DEF Inv, OnlyVideosWait
<1>2. Active(e)
  BY <1>1 DEF Active
<1>. QED BY <1>1, <1>2 DEF Inv

-----------------------------------------------------------------------------
(* The driver's thread.                                                    *)

\* A step of the running thread that takes no samples and leaves the status.
LEMMA DriverSteps ==
  ASSUME Inv, NEW d \in Drivers, Active(d), NEW to, DriverGoes(d, to),
         to \in {"callback", "filling", "started", "loop", "poll", "asleep"},
         A52_WAIT_START => to = "callback",
         drvSleep' \in [Drivers -> 0 .. PollSleep],
         ret' \in [Drivers -> {"loop", "started", "asleep"}],
         stream' \in {"none", "open", "destroyed"},
         needed' \in [Drivers -> Needs \cup {0}], to = "filling" => needed'[d] > 0,
         \A e \in Drivers \ {d} : needed'[e] = needed[e],
         UNCHANGED <<stat, hndLive, size, mainVars, a52Vars, playVars>>
  PROVE  Inv'
<1> USE DEF mainVars, a52Vars, playVars
<1>1. drv' \in [Drivers -> Places] /\ \A e \in Drivers : drv'[e] = IF e = d THEN to ELSE drv[e]
  BY Moves DEF Places
<1>2. TypeOK'
  BY <1>1 DEF Inv, TypeOK, PcmTypeOK, Places
<1>3. \A e \in Drivers : Active(e)' <=> Active(e)
  BY <1>1 DEF Active
<1>4. StatusTellsThread' /\ \A e, f \in Drivers : Active(e)' /\ Active(f)' => e = f
  BY <1>3 DEF Inv, StatusTellsThread
<1>5. SamplesOutliveDriver'
  <2>1. mainPc \notin {"exited", "menu"}
    BY DEF Inv, StatusTellsThread
  <2>2. \A e \in Drivers : drv'[e] = "copying" => e # d /\ drv[e] = "copying"
    BY <1>1
  <2>. QED BY <2>1, <2>2 DEF Inv, SamplesOutliveDriver
<1>6. OnlyVideosWait'
  BY <1>1 DEF Inv, OnlyVideosWait
<1>7. \A e \in Drivers : drv'[e] \in {"filling", "copying"} => needed'[e] > 0
  BY <1>1 DEF Inv
<1>. QED BY <1>2, <1>4, <1>5, <1>6, <1>7 DEF Inv

LEMMA CallbackKeeps ==
  ASSUME Inv, NEW d \in Drivers, a52_drv_callback(d), UNCHANGED <<a52Vars, playVars>> PROVE Inv'
<1>1. CASE ~A52_WAIT_START /\ CallbackRequest(d)
  <2> USE <1>1 DEF CallbackRequest
  <2>1. PICK n \in Needs : needed' = [needed EXCEPT ![d] = n]
    OBVIOUS
  <2>2. n > 0
    <3>1. n \in 1 .. Low
      BY Ac3Assumption
    <3>. QED BY <3>1, Ac3Assumption
  <2>3. /\ needed' \in [Drivers -> Needs \cup {0}] /\ needed'[d] > 0
        /\ \A e \in Drivers \ {d} : needed'[e] = needed[e]
    BY <2>1, <2>2 DEF Inv, TypeOK, PcmTypeOK
  <2>4. Active(d) /\ UNCHANGED <<stat, hndLive, stream, drvSleep, ret, size, mainVars>>
    BY DEF Active, hndVars
  <2>5. DriverGoes(d, "filling")
    OBVIOUS
  <2>. QED BY <1>1, <2>3, <2>4, <2>5, DriverSteps DEF Inv, TypeOK
<1>2. CASE CallbackSilence(d)
  <2>1. /\ Active(d) /\ drv[d] = "filling" /\ CallbackReturns(d)
        /\ UNCHANGED <<stat, hndLive, stream, size, needed, mainVars>>
    BY <1>2 DEF CallbackSilence, Starved, Active, hndVars, pcmVars
  <2>2. ~A52_WAIT_START
    BY <2>1, NotWaiting
  <2>3. /\ ret[d] \in {"loop", "started", "asleep"} /\ DriverGoes(d, ret[d]) /\ UNCHANGED ret
        /\ drvSleep' \in [Drivers -> 0 .. PollSleep]
    BY <2>1, SleepAssumption DEF CallbackReturns, Inv, TypeOK
  <2>. QED BY <2>1, <2>2, <2>3, DriverSteps DEF Inv, TypeOK, PcmTypeOK
<1>3. CASE CallbackEnough(d)
  <2> USE <1>3 DEF CallbackEnough, hndVars, pcmVars, mainVars, a52Vars, playVars
  <2>1. /\ drv' \in [Drivers -> Places]
        /\ \A e \in Drivers : drv'[e] = IF e = d THEN "copying" ELSE drv[e]
    BY Moves DEF Places
  <2>2. TypeOK'
    BY <2>1 DEF Inv, TypeOK, PcmTypeOK, Places
  <2>3. \A e \in Drivers : Active(e)' <=> Active(e)
    BY <2>1 DEF Active
  <2>4. StatusTellsThread' /\ \A e, f \in Drivers : Active(e)' /\ Active(f)' => e = f
    BY <2>3 DEF Inv, StatusTellsThread
  <2>5. buf = "live"
    <3>1. needed[d] > 0 /\ size >= needed[d] /\ size \in Nat /\ needed[d] \in Nat
      BY NeedsNat DEF Inv, TypeOK, PcmTypeOK
    <3>. QED BY <3>1 DEF Inv
  <2>6. SamplesOutliveDriver'
    <3>1. mainPc \notin {"exited", "menu"}
      BY DEF Inv, SamplesOutliveDriver
    <3>. QED BY <2>1, <2>5, <3>1 DEF Inv, SamplesOutliveDriver
  <2>7. OnlyVideosWait'
    BY NotWaiting DEF OnlyVideosWait, Active
  <2>8. \A e \in Drivers : drv'[e] \in {"filling", "copying"} => needed'[e] > 0
    BY <2>1 DEF Inv
  <2>. QED BY <2>2, <2>4, <2>6, <2>7, <2>8 DEF Inv
<1>4. CASE CallbackCopy(d)
  <2> USE <1>4 DEF CallbackCopy, hndVars, mainVars, a52Vars, playVars
  <2>1. /\ ret[d] \in {"loop", "started", "asleep"} /\ DriverGoes(d, ret[d]) /\ UNCHANGED ret
        /\ drvSleep' \in [Drivers -> 0 .. PollSleep]
    BY SleepAssumption DEF CallbackReturns, Inv, TypeOK
  <2>2. /\ drv' \in [Drivers -> Places]
        /\ \A e \in Drivers : drv'[e] = IF e = d THEN ret[d] ELSE drv[e]
    BY <2>1, Moves DEF Places
  <2>3. size' \in Nat /\ size' <= size /\ size \in Nat
    <3>1. needed[d] \in Nat /\ size \in Nat /\ size >= needed[d]
      BY NeedsNat DEF Inv, TypeOK, PcmTypeOK, SamplesOutliveDriver
    <3>. QED BY <3>1
  <2>4. TypeOK'
    BY <2>1, <2>2, <2>3 DEF Inv, TypeOK, PcmTypeOK, Places
  <2>5. \A e \in Drivers : Active(e)' <=> Active(e)
    BY <2>1, <2>2 DEF Active
  <2>6. StatusTellsThread' /\ \A e, f \in Drivers : Active(e)' /\ Active(f)' => e = f
    BY <2>5 DEF Inv, StatusTellsThread
  <2>7. SamplesOutliveDriver'
    <3>1. mainPc \notin {"exited", "menu"}
      BY DEF Inv, SamplesOutliveDriver
    <3>2. \A e \in Drivers : drv'[e] # "copying"
      BY <2>1, <2>2 DEF Inv, Active
    <3>. QED BY <3>1, <3>2 DEF SamplesOutliveDriver
  <2>8. OnlyVideosWait'
    BY NotWaiting DEF OnlyVideosWait, Active
  <2>9. \A e \in Drivers : drv'[e] \in {"filling", "copying"} => needed'[e] > 0
    BY <2>1, <2>2 DEF Inv
  <2>10. size' > 0 => buf' = "live"
    BY <2>3 DEF Inv
  <2>. QED BY <2>4, <2>6, <2>7, <2>8, <2>9, <2>10 DEF Inv
<1>. QED BY <1>1, <1>2, <1>3, <1>4 DEF a52_drv_callback, CallbackTakes

LEMMA ThreadKeeps ==
  ASSUME Inv, NEW d \in Drivers, snddrv_thread(d), UNCHANGED <<pcmVars, a52Vars, playVars>>
  PROVE  Inv'
<1> USE DEF pcmVars
<1>1. CASE ThreadStart(d) \/ snddrv_hnd_cb(d) \/ DriverWake(d)
  <2>1. PICK to \in {"callback", "loop", "asleep"} :
            /\ DriverGoes(d, to) /\ Active(d)
            /\ to = "callback" \/ drv[d] \notin {"born", "callback"}
    BY <1>1 DEF ThreadStart, snddrv_hnd_cb, DriverWake, CallbackFrom, Active
  <2>2. A52_WAIT_START => to = "callback"
    BY <2>1, NotWaiting
  <2>3. drvSleep' \in [Drivers -> 0 .. PollSleep]
    BY <1>1, SleepAssumption
       DEF ThreadStart, snddrv_hnd_cb, DriverWake, CallbackFrom, Inv, TypeOK
  <2>4. /\ ret' \in [Drivers -> {"loop", "started", "asleep"}]
        /\ stream' \in {"none", "open", "destroyed"}
        /\ UNCHANGED <<stat, hndLive, mainVars>>
    BY <1>1 DEF ThreadStart, snddrv_hnd_cb, DriverWake, CallbackFrom, Inv, TypeOK, hndVars
  <2>. QED BY <2>1, <2>2, <2>3, <2>4, DriverSteps DEF Inv, TypeOK, PcmTypeOK
<1>2. CASE ThreadTest(d) /\ stat # "DONE"
  <2>1. /\ DriverGoes(d, "poll") /\ Active(d) /\ drv[d] = "loop"
        /\ UNCHANGED <<stat, hndLive, stream, drvSleep, ret, mainVars>>
    BY <1>2 DEF ThreadTest, Active
  <2>2. ~A52_WAIT_START
    BY <2>1, NotWaiting
  <2>. QED BY <2>1, <2>2, DriverSteps DEF Inv, TypeOK, PcmTypeOK
<1>3. CASE ThreadStreaming(d)
  <2> USE <1>3 DEF ThreadStreaming, mainVars, a52Vars, playVars
  <2>1. /\ drv' \in [Drivers -> Places]
        /\ \A e \in Drivers : drv'[e] = IF e = d THEN "loop" ELSE drv[e]
    BY Moves DEF Places
  <2>2. TypeOK'
    BY <2>1 DEF Inv, TypeOK, PcmTypeOK, Places
  <2>3. Active(d) /\ \A e \in Drivers : Active(e)' <=> Active(e)
    BY <2>1 DEF Active
  <2>4. StatusTellsThread' /\ \A e, f \in Drivers : Active(e)' /\ Active(f)' => e = f
    BY <2>3 DEF Inv, StatusTellsThread
  <2>5. mainPc \notin {"exited", "menu"}
    BY <2>3 DEF Inv, StatusTellsThread
  <2>6. SamplesOutliveDriver'
    BY <2>1, <2>5 DEF Inv, SamplesOutliveDriver
  <2>7. OnlyVideosWait'
    BY <2>3, NotWaiting DEF OnlyVideosWait
  <2>8. \A e \in Drivers : drv'[e] \in {"filling", "copying"} => needed'[e] > 0
    BY <2>1 DEF Inv
  <2>. QED BY <2>2, <2>4, <2>5, <2>6, <2>7, <2>8 DEF Inv
<1>4. CASE ThreadTest(d) /\ stat = "DONE"
  <2> USE <1>4 DEF ThreadTest, mainVars, a52Vars, playVars
  <2>1. /\ drv' \in [Drivers -> Places]
        /\ \A e \in Drivers : drv'[e] = IF e = d THEN "ending" ELSE drv[e]
    BY Moves DEF Places
  <2>2. TypeOK'
    BY <2>1 DEF Inv, TypeOK, PcmTypeOK, Places
  <2>3. Active(d) /\ \A e \in Drivers : ~Active(e)'
    BY <2>1 DEF Inv, Active
  <2>4. StatusTellsThread' /\ \A e, f \in Drivers : Active(e)' /\ Active(f)' => e = f
    BY <2>3 DEF StatusTellsThread
  <2>5. SamplesOutliveDriver'
    BY <2>3 DEF SamplesOutliveDriver, Active
  <2>6. OnlyVideosWait'
    BY <2>3, NotWaiting DEF OnlyVideosWait
  <2>7. \A e \in Drivers : drv'[e] \in {"filling", "copying"} => needed'[e] > 0
    BY <2>1 DEF Inv
  <2>. QED BY <2>2, <2>4, <2>5, <2>6, <2>7 DEF Inv
<1>5. CASE ThreadEnd(d)
  <2> USE <1>5 DEF ThreadEnd, mainVars, a52Vars, playVars
  <2>1. /\ drv' \in [Drivers -> Places]
        /\ \A e \in Drivers : drv'[e] = IF e = d THEN "gone" ELSE drv[e]
    BY Moves DEF Places
  <2>2. TypeOK'
    BY <2>1 DEF Inv, TypeOK, PcmTypeOK, Places
  <2>3. \A e \in Drivers : Active(e)' <=> Active(e)
    BY <2>1 DEF Active
  <2>4. StatusTellsThread' /\ \A e, f \in Drivers : Active(e)' /\ Active(f)' => e = f
    BY <2>3 DEF Inv, StatusTellsThread
  <2>5. SamplesOutliveDriver'
    BY <2>1 DEF Inv, SamplesOutliveDriver
  <2>6. OnlyVideosWait'
    BY <2>1 DEF Inv, OnlyVideosWait
  <2>7. \A e \in Drivers : drv'[e] \in {"filling", "copying"} => needed'[e] > 0
    BY <2>1 DEF Inv
  <2>. QED BY <2>2, <2>4, <2>5, <2>6, <2>7 DEF Inv
<1>. QED BY <1>1, <1>2, <1>3, <1>4, <1>5 DEF snddrv_thread

-----------------------------------------------------------------------------
(* The player.                                                             *)

\* A step of the player that changes no thread, no sample and no status.
LEMMA PlayerSteps ==
  ASSUME Inv, UNCHANGED <<drvVars, pcmVars, stat, buf, video>>, TypeOK',
         mainPc \notin {"menu", "exited"}, mainPc' \notin {"menu", "exited"},
         stat # "DONE" \/ mainPc' = "spin", stat # "NULL" \/ mainPc' = "spin",
         mainPc' \in {"backpressure", "decode"} => chunks' > 0,
         A52_WAIT_START' => A52_WAIT_START
  PROVE  Inv'
<1> USE DEF drvVars, pcmVars
<1>1. StatusTellsThread' /\ \A e, f \in Drivers : Active(e)' /\ Active(f)' => e = f
  BY DEF Inv, StatusTellsThread, Active
<1>2. SamplesOutliveDriver'
  BY DEF Inv, SamplesOutliveDriver
<1>3. OnlyVideosWait'
  BY DEF Inv, OnlyVideosWait
<1>. QED BY <1>1, <1>2, <1>3 DEF Inv

\* LibA52_Init: nobody runs when the next thread is created.
LEMMA OpenKeeps == ASSUME Inv, Open PROVE Inv'
<1> USE Ac3Assumption DEF Open, LibA52_Init, MainGoes, MainWaits, pcmVars
<1>1. \A e \in Drivers : ~Active(e)
  BY DEF Inv, StatusTellsThread
<1>2. PICK d \in Drivers : CreateDriver(d)
  OBVIOUS
<1>3. DriverGoes(d, "born") /\ UNCHANGED <<drvSleep, ret>>
  BY <1>2 DEF CreateDriver
<1>4. /\ drv' \in [Drivers -> Places]
      /\ \A e \in Drivers : drv'[e] = IF e = d THEN "born" ELSE drv[e]
  BY <1>3, Moves DEF Places
<1>5. video' \in BOOLEAN /\ A52_WAIT_START' \in BOOLEAN /\ (A52_WAIT_START' => video')
  <2>1. ~A52_WAIT_START
    BY <1>1 DEF Inv, OnlyVideosWait, Active
  <2>. QED BY <2>1
<1>6. TypeOK'
  <2>1. mainSleep' \in 0 .. ExitSleep
    BY DEF ExitSleep
  <2>2. A52_DEC_STAT' \in BOOLEAN /\ st' \in BOOLEAN
    OBVIOUS
  <2>. QED BY <1>3, <1>4, <1>5, <2>1, <2>2 DEF Inv, TypeOK, PcmTypeOK, Places
<1>7. \A e \in Drivers : Active(e)' <=> e = d
  BY <1>1, <1>4 DEF Active
<1>8. StatusTellsThread' /\ \A e, f \in Drivers : Active(e)' /\ Active(f)' => e = f
  BY <1>7 DEF StatusTellsThread
<1>9. SamplesOutliveDriver'
  BY <1>1, <1>4 DEF SamplesOutliveDriver, Active
<1>10. OnlyVideosWait'
  BY <1>4, <1>5 DEF OnlyVideosWait
<1>11. \A e \in Drivers : drv'[e] \in {"filling", "copying"} => needed'[e] > 0
  BY <1>4 DEF Inv
<1>. QED BY <1>6, <1>8, <1>9, <1>10, <1>11 DEF Inv

LEMMA WaitsKeep ==
  ASSUME Inv, While \/ Backpressure \/ Input \/ Drain \/ (ExitStop /\ UNCHANGED playVars)
  PROVE  Inv'
<1> USE DEF While, Backpressure, Input, Drain, ExitStop, MainGoes, MainWaits, LibA52_PcmHave,
            hndVars, drvVars, pcmVars, a52Vars, playVars
<1>1. TypeOK'
  <2>1. mainSleep' \in 0 .. ExitSleep
    BY DEF ExitSleep
  <2>2. mainPc' \in {"backpressure", "decode", "drain", "exit", "while", "snddrv_exit"}
    OBVIOUS
  <2>3. st' \in BOOLEAN /\ A52_DEC_STAT' \in BOOLEAN
    BY DEF Inv, TypeOK
  <2>. QED BY <2>1, <2>2, <2>3 DEF Inv, TypeOK, PcmTypeOK
<1>2. mainPc \notin {"menu", "exited", "spin"} /\ mainPc' \notin {"menu", "exited"}
  OBVIOUS
<1>3. stat \notin {"NULL", "DONE"}
  BY <1>2 DEF Inv
<1>4. mainPc' \in {"backpressure", "decode"} => chunks' > 0
  BY DEF Inv
<1>. QED BY <1>1, <1>2, <1>3, <1>4, PlayerSteps

LEMMA DecodeKeeps == ASSUME Inv, Decode PROVE Inv'
<1> USE Ac3Assumption DEF Decode, MainWaits, LibA52_decode_chunk, hndVars, drvVars
<1>1. PICK n \in 0 .. MaxDecode : /\ size' = size + n /\ UNCHANGED needed
                                  /\ buf' = IF n > 0 THEN "live" ELSE buf
  BY DEF Decoded
<1>2. size \in Nat /\ chunks \in 0 .. Chunks /\ chunks > 0
  BY DEF Inv, TypeOK
<1>3. size' \in Nat /\ size' >= size /\ chunks' \in 0 .. Chunks
  BY <1>1, <1>2
<1>4. size' > 0 => buf' = "live"
  BY <1>1, <1>2 DEF Inv
<1>5. TypeOK'
  <2>1. mainSleep' \in 0 .. ExitSleep
    BY DEF ExitSleep
  <2>2. buf' \in {"NULL", "live", "freed"}
    BY <1>1 DEF Inv, TypeOK
  <2>3. size' \in Int
    BY <1>3
  <2>. QED BY <1>1, <1>3, <2>1, <2>2, <2>3 DEF Inv, TypeOK, PcmTypeOK
<1>6. StatusTellsThread' /\ \A e, f \in Drivers : Active(e)' /\ Active(f)' => e = f
  BY DEF Inv, StatusTellsThread, Active
<1>7. SamplesOutliveDriver'
  <2>1. ASSUME NEW e \in Drivers, drv[e] = "copying" PROVE buf' = "live" /\ size' >= needed[e]
    <3>1. buf = "live" /\ size >= needed[e]
      BY <2>1 DEF Inv, SamplesOutliveDriver
    <3>2. needed[e] \in Nat
      BY NeedsNat DEF Inv, TypeOK, PcmTypeOK
    <3>. QED BY <1>1, <1>2, <1>3, <3>1, <3>2
  <2>. QED BY <1>1, <2>1 DEF SamplesOutliveDriver
<1>8. OnlyVideosWait'
  BY DEF Inv, OnlyVideosWait
<1>9. \A e \in Drivers : drv'[e] \in {"filling", "copying"} => needed'[e] > 0
  BY <1>1 DEF Inv
<1>10. stat' \notin {"NULL", "DONE"}
  BY DEF Inv
<1>. QED BY <1>4, <1>5, <1>6, <1>7, <1>8, <1>9, <1>10 DEF Inv

\* LibA52_Exit after its sleep: the request, the answer, and the samples.
LEMMA ExitKeeps == ASSUME Inv, ExitDone \/ ExitSpin \/ ExitClose, UNCHANGED playVars PROVE Inv'
<1> USE DEF MainGoes, MainWaits, hndVars, drvVars, pcmVars, a52Vars, playVars
<1>1. mainSleep' \in 0 .. ExitSleep
  BY DEF ExitDone, ExitSpin, ExitClose, ExitSleep
<1>2. CASE ExitDone
  <2> USE <1>2 DEF ExitDone
  <2>1. stat # "NULL" /\ stat' = "DONE"
    BY DEF Inv
  <2>2. TypeOK'
    BY <1>1, <2>1 DEF Inv, TypeOK, PcmTypeOK
  <2>3. StatusTellsThread' /\ \A e, f \in Drivers : Active(e)' /\ Active(f)' => e = f
    BY <2>1 DEF Inv, StatusTellsThread, Active
  <2>4. SamplesOutliveDriver' /\ OnlyVideosWait'
    BY DEF Inv, SamplesOutliveDriver, OnlyVideosWait
  <2>. QED BY <2>2, <2>3, <2>4 DEF Inv
<1>3. CASE ExitSpin
  <2> USE <1>3 DEF ExitSpin
  <2>1. TypeOK'
    BY <1>1 DEF Inv, TypeOK, PcmTypeOK
  <2>2. StatusTellsThread' /\ \A e, f \in Drivers : Active(e)' /\ Active(f)' => e = f
    BY DEF Inv, StatusTellsThread, Active
  <2>3. \A e \in Drivers : ~Active(e)
    BY DEF Inv, StatusTellsThread
  <2>4. SamplesOutliveDriver' /\ OnlyVideosWait'
    BY <2>3 DEF Inv, SamplesOutliveDriver, OnlyVideosWait, Active
  <2>. QED BY <2>1, <2>2, <2>4 DEF Inv
<1>4. CASE ExitClose
  <2> USE <1>4 DEF ExitClose
  <2>1. TypeOK'
    BY <1>1 DEF Inv, TypeOK, PcmTypeOK
  <2>2. StatusTellsThread' /\ \A e, f \in Drivers : Active(e)' /\ Active(f)' => e = f
    BY DEF Inv, StatusTellsThread, Active
  <2>3. \A e \in Drivers : ~Active(e)
    BY DEF Inv, StatusTellsThread
  <2>4. SamplesOutliveDriver' /\ OnlyVideosWait'
    BY <2>3 DEF Inv, SamplesOutliveDriver, OnlyVideosWait, Active
  <2>. QED BY <2>1, <2>2, <2>4 DEF Inv
<1>. QED BY <1>2, <1>3, <1>4

LEMMA ReleaseKeeps == ASSUME Inv, Release PROVE Inv'
<1> USE DEF Release, LibA52_Start, sndVars, hndVars, drvVars, mainVars, pcmVars, playVars
<1>1. TypeOK'
  BY DEF Inv, TypeOK, PcmTypeOK
<1>2. StatusTellsThread' /\ \A e, f \in Drivers : Active(e)' /\ Active(f)' => e = f
  BY DEF Inv, StatusTellsThread, Active
<1>3. SamplesOutliveDriver' /\ OnlyVideosWait'
  BY DEF Inv, SamplesOutliveDriver, OnlyVideosWait
<1>. QED BY <1>1, <1>2, <1>3 DEF Inv

LEMMA TimeKeeps == ASSUME Inv, Time PROVE Inv'
<1> USE SleepAssumption DEF Time, Tick, Minus1, hndVars, pcmVars, a52Vars, playVars
<1>1. drvSleep' \in [Drivers -> 0 .. PollSleep]
  BY DEF Inv, TypeOK
<1>2. mainSleep' \in 0 .. ExitSleep
  BY DEF Inv, TypeOK, ExitSleep
<1>3. TypeOK'
  BY <1>1, <1>2 DEF Inv, TypeOK, PcmTypeOK
<1>4. StatusTellsThread' /\ \A e, f \in Drivers : Active(e)' /\ Active(f)' => e = f
  BY DEF Inv, StatusTellsThread, Active
<1>5. SamplesOutliveDriver' /\ OnlyVideosWait'
  BY DEF Inv, SamplesOutliveDriver, OnlyVideosWait
<1>. QED BY <1>3, <1>4, <1>5 DEF Inv

LEMMA InitInv == Init => Inv
<1> SUFFICES ASSUME Init PROVE Inv
  OBVIOUS
<1> USE Ac3Assumption, SleepAssumption DEF Init, A52Init, SndInit, PcmInit
<1>1. PcmTypeOK /\ size \in Nat
  BY DEF PcmTypeOK
<1>2. 0 \in 0 .. PollSleep /\ 0 \in 0 .. ExitSleep
  BY DEF ExitSleep
<1>3. TypeOK
  <2>1. drv \in [Drivers -> {"none", "born", "callback", "filling", "copying", "started",
                             "loop", "poll", "asleep", "ending", "gone"}]
        /\ drvSleep \in [Drivers -> 0 .. PollSleep]
        /\ ret \in [Drivers -> {"loop", "started", "asleep"}]
    BY <1>2
  <2>2. mainSleep \in 0 .. ExitSleep /\ chunks \in 0 .. Chunks
    BY <1>2
  <2>. QED BY <1>1, <2>1, <2>2 DEF TypeOK
<1>4. \A e \in Drivers : ~Active(e)
  BY DEF Active
<1>5. StatusTellsThread /\ SamplesOutliveDriver /\ OnlyVideosWait
  BY <1>4 DEF StatusTellsThread, SamplesOutliveDriver, OnlyVideosWait
<1>. QED BY <1>3, <1>4, <1>5 DEF Inv

-----------------------------------------------------------------------------

\* The inductive invariant of LibA52, over any number of files: one thread at
\* most runs, snddrv_status says whether, and it alone takes samples.
THEOREM OneThreadRuns == Spec => []Inv
<1>1. Inv /\ [Next]_vars => Inv'
  <2> SUFFICES ASSUME Inv, [Next]_vars PROVE Inv'
    OBVIOUS
  <2>1. CASE Main
    <3>1. CASE Open \/ Decode
      BY <3>1, OpenKeeps, DecodeKeeps
    <3>2. CASE While \/ Backpressure \/ Input \/ Drain \/ (ExitStop /\ UNCHANGED playVars)
      BY <3>2, WaitsKeep
    <3>3. CASE (ExitDone \/ ExitSpin \/ ExitClose) /\ UNCHANGED playVars
      BY <3>3, ExitKeeps
    <3>. QED BY <2>1, <3>1, <3>2, <3>3 DEF Main, LibA52_Exit
  <2>2. CASE Driver
    BY <2>2, CallbackKeeps, ThreadKeeps DEF Driver, A52Driver
  <2>3. CASE Time
    BY <2>3, TimeKeeps
  <2>4. CASE Release
    BY <2>4, ReleaseKeeps
  <2>5. CASE UNCHANGED vars
    <3> USE <2>5 DEF vars, sndVars, hndVars, drvVars, mainVars, pcmVars, a52Vars, playVars
    <3>1. TypeOK'
      BY DEF Inv, TypeOK, PcmTypeOK
    <3>2. StatusTellsThread' /\ \A e, f \in Drivers : Active(e)' /\ Active(f)' => e = f
      BY DEF Inv, StatusTellsThread, Active
    <3>3. SamplesOutliveDriver' /\ OnlyVideosWait'
      BY DEF Inv, SamplesOutliveDriver, OnlyVideosWait
    <3>. QED BY <3>1, <3>2, <3>3 DEF Inv
  <2>. QED BY <2>1, <2>2, <2>3, <2>4, <2>5 DEF Next
<1>. QED BY InitInv, <1>1, PTL DEF Spec

\* snddrv_status is NULL exactly when no thread uses the stream's buffers, which
\* is what the next file relies on.
THEOREM StatusTells == Spec => []StatusTellsThread
<1>1. Inv => StatusTellsThread
  BY DEF Inv
<1>. QED BY <1>1, OneThreadRuns, PTL

\* The samples of a file live until its last callback, and what a callback has
\* found in them outside the mutex is there when it takes it.
THEOREM SamplesOutlive == Spec => []SamplesOutliveDriver
<1>1. Inv => SamplesOutliveDriver
  BY DEF Inv
<1>. QED BY <1>1, OneThreadRuns, PTL
=============================================================================
