---------------------------- MODULE MCSeqHeader -----------------------------
(* Every stream of up to seven bytes: those of the code and one more.        *)
EXTENDS SeqHeader
=============================================================================
