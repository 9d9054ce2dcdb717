------------------------------ MODULE PcmBuffer -------------------------------
(***************************************************************************)
(* The buffer of decoded samples between a decoder and its driver's        *)
(* callback.  LibMPG123, LibFAAD, LibFLAC and LibADX each have one: the    *)
(* callback waits until the buffer holds what the stream asks for, tested  *)
(* outside the mutex, then copies it out and moves the rest to the front   *)
(* inside.  They differ in what ends the wait, which the library's own     *)
(* module says.  Sizes are in blocks of samples.                           *)
(***************************************************************************)
EXTENDS SndHnd

CONSTANT Needs          \* block counts the callback may be asked for

VARIABLES size,         \* abuf.size, pcm_buf->size
          needed        \* pcm_needed in the callback of each driver

pcmVars == <<size, needed>>

PcmInit == size = 0 /\ needed = [d \in Drivers |-> 0]

\* The driver is in the callback, from drv = "callback" to CallbackReturns.
CallbackRequest(d) ==
    /\ drv[d] = "callback"
    /\ \E n \in Needs : needed' = [needed EXCEPT ![d] = n]
    /\ DriverGoes(d, "filling")
    /\ UNCHANGED <<hndVars, drvSleep, ret, mainVars, size>>

Starved(d) == drv[d] = "filling" /\ size < needed[d]

CallbackEnoughStrict(d) ==                                           \* fault
    /\ drv[d] = "filling" /\ size > needed[d]
    /\ DriverGoes(d, "copying")
    /\ UNCHANGED <<hndVars, drvSleep, ret, mainVars, pcmVars>>

CallbackEnough(d) ==
    /\ drv[d] = "filling" /\ size >= needed[d]
    /\ DriverGoes(d, "copying")
    /\ UNCHANGED <<hndVars, drvSleep, ret, mainVars, pcmVars>>

CallbackCopy(d) ==
    /\ drv[d] = "copying"
    /\ size' = size - needed[d]
    /\ CallbackReturns(d)
    /\ UNCHANGED <<hndVars, mainVars, needed>>

\* The wait is given up: silence is returned, or (LibFAAD) samples that are
\* not there are copied all the same.
CallbackSilence(d) ==
    /\ Starved(d)
    /\ CallbackReturns(d)
    /\ UNCHANGED <<hndVars, mainVars, pcmVars>>

CallbackCopyAnyway(d) ==
    /\ Starved(d)
    /\ DriverGoes(d, "copying")
    /\ UNCHANGED <<hndVars, drvSleep, ret, mainVars, pcmVars>>

CallbackTakes(d) == CallbackEnough(d) \/ CallbackCopy(d)

\* The decoder's thread adds what it has decoded, inside the mutex.
Decoded(n) == size' = size + n /\ UNCHANGED needed

PcmTypeOK == size \in Int /\ needed \in [Drivers -> Needs \cup {0}]

\* No second thread has been created.
OneDriver == \A d, e \in Drivers : drv[d] # "none" /\ drv[e] # "none" => d = e

\* What a callback has found in the buffer is still there when it takes it.
CopyingHas == \A d \in Drivers : drv[d] = "copying" => size >= needed[d]
=============================================================================
