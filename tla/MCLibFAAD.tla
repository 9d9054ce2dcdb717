----------------------------- MODULE MCLibFAAD ------------------------------
(* A file of a few frames; the driver asks for one block or two.            *)
EXTENDS LibFAAD
=============================================================================
