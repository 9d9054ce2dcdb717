---------------------------- MODULE MCFifoBuffer ----------------------------
(* A ring of three slots and a stream long enough to wrap it twice.          *)
EXTENDS FifoBuffer
=============================================================================
