------------------------------ MODULE MCSigner ------------------------------
(***************************************************************************)
(* Signer for TLC: 20 frames a second, chunks of 50ms to under 200ms, so   *)
(* that four frames are kept of the five the video has.  A chunk may start *)
(* between two frames or before the offset; by the frame it is asked for   *)
(* at, it is too short, right, or too long.                                *)
(***************************************************************************)
EXTENDS Signer

MCRate == [frames |-> 20, seconds |-> 1]
MCStarts == {0, 70}
=============================================================================
