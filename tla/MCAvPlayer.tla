----------------------------- MODULE MCAvPlayer -----------------------------
(* A FIFO of two slots and videos that fill it, wrap it or stop before.      *)
EXTENDS AvPlayer
=============================================================================
