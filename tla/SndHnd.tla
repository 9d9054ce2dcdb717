------------------------------- MODULE SndHnd --------------------------------
(***************************************************************************)
(* The handle based sound driver (snddrv_hnd_*, libdcmc/snddrv.c) and the  *)
(* thread each audio library runs on it:                                   *)
(*                                                                         *)
(*     snddrv_hnd_start( sndhnd );                                         *)
(*     while( sndhnd->stat != SNDDRV_STATUS_NULL )                         *)
(*     { snddrv_hnd_cb( sndhnd );  thd_sleep( ... ); }                     *)
(*                                                                         *)
(* The thread is told to stop through sndhnd->stat and never joined: the   *)
(* player sleeps, then frees the handle.  Sleeps are counted in units of   *)
(* 10 ms, and time passes only when every thread that could run waits,     *)
(* sleeps or spins (a thread reaches its next wait within one unit).       *)
(*                                                                         *)
(* The library's module adds the callback that snd_stream_start and        *)
(* snd_stream_poll make (drv = "callback") and the player that decodes.    *)
(* A definition marked "fault" is a wrong version of a later one, used to  *)
(* see that a property notices it; no specification contains it.           *)
(***************************************************************************)
EXTENDS Integers

CONSTANTS Drivers,      \* the driver threads the library may create
          PollSleep     \* the sleep of the driver thread, in units of 10 ms

ASSUME SleepAssumption == PollSleep \in Nat \ {0}

ExitSleepShort == 2     \* fault
ExitSleep == 5          \* thd_sleep(50) in snddrv_hnd_exit

VARIABLES stat,         \* sndhnd->stat: "NULL" or "STREAMING"
          chan,         \* sndhnd->chan: "ok", one channel or two, or "other"
          hndLive,      \* the memory of *sndhnd is allocated
          stream,       \* sndhnd->shnd: "none", "open" or "destroyed"
          drv,          \* where each driver thread is
          drvSleep,     \* what is left of its sleep
          ret,          \* where it goes on when the callback returns
          mainPc,       \* where the player's thread is
          mainSleep     \* what is left of its sleep

hndVars == <<stat, chan, hndLive, stream>>
drvVars == <<drv, drvSleep, ret>>
mainVars == <<mainPc, mainSleep>>
sndVars == <<hndVars, drvVars, mainVars>>

DriverGoes(d, to) == drv' = [drv EXCEPT ![d] = to]
MainWaits(from, to, t) == mainPc = from /\ mainSleep = 0 /\ mainPc' = to /\ mainSleep' = t
MainGoes(from, to) == MainWaits(from, to, 0)

\* A handle that was freed may read as anything.
StatReadsNull == ~hndLive \/ stat = "NULL"
StatReadsStreaming == ~hndLive \/ stat # "NULL"
ChanReadsOk == ~hndLive \/ chan = "ok"
ChanReadsOther == ~hndLive \/ chan # "ok"

SndInit ==
    /\ stat = "NULL" /\ chan = "other" /\ hndLive = FALSE /\ stream = "none"
    /\ drv = [d \in Drivers |-> "none"]
    /\ drvSleep = [d \in Drivers |-> 0]
    /\ ret = [d \in Drivers |-> "loop"]
    /\ mainPc = "menu" /\ mainSleep = 0

\* malloc and memset of the handle, and the channels it is given.
HndAlloc(c) == hndLive' = TRUE /\ stat' = "NULL" /\ stream' = "none" /\ chan' = c

\* thd_create( ..._drv_thd ): the next thread, if the model has one left.
CreateDriver(d) ==
    /\ drv[d] = "none"
    /\ \A e \in Drivers : e < d => drv[e] # "none"
    /\ DriverGoes(d, "born")
    /\ UNCHANGED <<drvSleep, ret>>

-----------------------------------------------------------------------------
(* The driver thread.                                                      *)

\* The driver goes on where the callback was called from: in its loop after
\* snd_stream_start, asleep (thd_sleep) after snd_stream_poll.
CallbackReturns(d) ==
    /\ DriverGoes(d, ret[d])
    /\ drvSleep' = [drvSleep EXCEPT ![d] = IF ret[d] = "asleep" THEN PollSleep ELSE 0]
    /\ UNCHANGED ret

CallbackFrom(d, r) == DriverGoes(d, "callback") /\ ret' = [ret EXCEPT ![d] = r]

\* snddrv_hnd_start opens and starts the stream, unless it is streaming or has
\* channels that the driver does not accept.  snd_stream_start fills the stream's
\* buffer through the callback.
snddrv_hnd_start(d) ==
    /\ drv[d] = "born"
    /\ \/ /\ StatReadsStreaming \/ ChanReadsOther
          /\ DriverGoes(d, "loop")
          /\ UNCHANGED <<hndVars, ret>>
       \/ /\ StatReadsNull /\ ChanReadsOk
          /\ stat' = "STREAMING" /\ stream' = "open"
          /\ CallbackFrom(d, "loop")
          /\ UNCHANGED <<chan, hndLive>>
    /\ UNCHANGED <<drvSleep, mainVars>>

DriverTest(d) ==
    /\ drv[d] = "loop"
    /\ \/ StatReadsNull /\ DriverGoes(d, "gone")
       \/ StatReadsStreaming /\ DriverGoes(d, "poll")
    /\ UNCHANGED <<hndVars, drvSleep, ret, mainVars>>

\* snd_stream_poll asks the callback for samples when the stream has room;
\* then thd_sleep.
snddrv_hnd_cb(d) ==
    /\ drv[d] = "poll"
    /\ \/ CallbackFrom(d, "asleep") /\ UNCHANGED drvSleep
       \/ /\ DriverGoes(d, "asleep")
          /\ drvSleep' = [drvSleep EXCEPT ![d] = PollSleep]
          /\ UNCHANGED ret
    /\ UNCHANGED <<hndVars, mainVars>>

DriverWake(d) ==
    /\ drv[d] = "asleep" /\ drvSleep[d] = 0
    /\ DriverGoes(d, "loop")
    /\ UNCHANGED <<hndVars, drvSleep, ret, mainVars>>

DriverLoop(d) == snddrv_hnd_start(d) \/ DriverTest(d) \/ snddrv_hnd_cb(d) \/ DriverWake(d)

-----------------------------------------------------------------------------
(* snddrv_hnd_exit, called by the player: from mainPc = "hnd_exit" to      *)
(* mainPc = "freed_stream".                                                *)

HndExitStop ==
    /\ \/ /\ StatReadsNull
          /\ MainGoes("hnd_exit", "freed_stream")
          /\ UNCHANGED stat
       \/ /\ StatReadsStreaming
          /\ MainWaits("hnd_exit", "hnd_destroy", ExitSleep)
          /\ stat' = "NULL"
    /\ UNCHANGED <<chan, hndLive, stream, drvVars>>

HndExitDestroy ==
    /\ MainGoes("hnd_destroy", "freed_stream")
    /\ stream' = "destroyed"
    /\ UNCHANGED <<stat, chan, hndLive, drvVars>>

snddrv_hnd_exit == HndExitStop \/ HndExitDestroy

-----------------------------------------------------------------------------
(* Time.                                                                   *)

DriverWaits(d) ==
    \/ drv[d] \in {"none", "gone"}
    \/ drv[d] = "asleep" /\ drvSleep[d] > 0

Minus1(t) == IF t > 0 THEN t - 1 ELSE 0

Tick ==
    /\ drvSleep' = [d \in Drivers |-> Minus1(drvSleep[d])]
    /\ mainSleep' = Minus1(mainSleep)
    /\ mainSleep > 0 \/ \E d \in Drivers : drvSleep[d] > 0
    /\ UNCHANGED <<hndVars, drv, ret, mainPc>>

-----------------------------------------------------------------------------
SndTypeOK ==
    /\ stat \in {"NULL", "STREAMING"} /\ chan \in {"ok", "other"} /\ hndLive \in BOOLEAN
    /\ stream \in {"none", "open", "destroyed"}
    /\ drv \in [Drivers -> {"none", "born", "callback", "filling", "copying",
                            "loop", "poll", "asleep", "gone"}]
    /\ drvSleep \in [Drivers -> 0 .. PollSleep]
    /\ ret \in [Drivers -> {"loop", "asleep"}]
    /\ mainSleep \in 0 .. ExitSleep

\* "Exit the Sound Driver": once the player has freed the handle no thread of
\* the driver uses it.
DriverGoneBeforeFree == hndLive \/ \A d \in Drivers : drv[d] \in {"none", "gone"}
=============================================================================
