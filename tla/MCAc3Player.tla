---------------------------- MODULE MCAc3Player -----------------------------
(* Two files of a few chunks; a driver asks for one block or two.            *)
EXTENDS Ac3Player
=============================================================================
