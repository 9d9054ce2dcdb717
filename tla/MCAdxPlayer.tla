---------------------------- MODULE MCAdxPlayer -----------------------------
(* A mono and a stereo file, or a video, of a few chunks.                    *)
EXTENDS AdxPlayer
=============================================================================
