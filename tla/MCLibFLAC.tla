----------------------------- MODULE MCLibFLAC ------------------------------
(* Two files of a few blocks; a driver asks for one measure or two.         *)
EXTENDS LibFLAC
=============================================================================
