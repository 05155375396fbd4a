--------------------------- MODULE MCChunkFrames ---------------------------
(***************************************************************************)
(* ChunkFrames for TLC: a tick of a tenth of a millisecond, chunks of 50ms *)
(* to under 200ms, the usual frame rates (exact, inexact and NTSC), and    *)
(* starts on the frames of every rate and on every tenth millisecond.      *)
(***************************************************************************)
EXTENDS ChunkFrames

Fps(n) == [frames |-> n, seconds |-> 1]
Ntsc == [frames |-> 30000, seconds |-> 1001]

MCRates == { Fps(24), Fps(25), Fps(30), Fps(60), Ntsc }

(* No offset, and one that falls on a frame of some rates only.             *)
MCOffsets == { 0, 1100 }

MCStarts == { 100 * k : k \in 0..60 }
            \cup UNION { { o + Pts(r, n) : n \in 0..20 } : o \in MCOffsets, r \in MCRates }
=============================================================================
