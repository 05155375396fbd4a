-------------------------- MODULE MCDelayedStream --------------------------
(***************************************************************************)
(* DelayedStream for TLC: every source of up to MaxItems items over a      *)
(* two-element alphabet, so that a skipped, repeated or swapped item shows, *)
(* and a buffer that fills, slides several times and drains.               *)
(***************************************************************************)
EXTENDS DelayedStream

MCItem == {"x", "y"}
=============================================================================
