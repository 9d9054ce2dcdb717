---------------------------- MODULE MCMp3Player -----------------------------
(* A file shorter than a chunk, one of whole chunks, and the longest one.     *)
EXTENDS Mp3Player
=============================================================================
