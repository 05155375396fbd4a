----------------------------- MODULE FrameTime -----------------------------
(***************************************************************************)
(* Time and frame indexes: file/time.rs, video/frame/rate.rs and the       *)
(* limits of spec/constants.rs.                                            *)
(*                                                                         *)
(* Times are naturals counted in ticks.  The code counts nanoseconds; a    *)
(* tick is 1/Tick of a millisecond, so that what the code truncates to a   *)
(* nanosecond is truncated here to a tick and what it floors to a          *)
(* millisecond is floored to Tick ticks.  The code divides durations as    *)
(* f64; the quotient of two exact naturals is rounded up or down right     *)
(* after, and a double tells apart every nanosecond within years of video, *)
(* so the division is exact here.                                          *)
(***************************************************************************)
EXTENDS Naturals

CONSTANTS Tick,      \* ticks per millisecond
          MinChunk,  \* MIN_CHUNK_LENGTH, in ticks
          MaxChunk   \* MAX_CHUNK_LENGTH, in ticks

ASSUME TimeAssumption ==
    /\ Tick \in Nat \ {0}
    /\ MinChunk \in Nat \ {0}
    /\ MaxChunk \in Nat /\ MinChunk < MaxChunk

(* Framerate(frames, seconds): so many frames in so many seconds.           *)
SecondsOf(r) == r.seconds * 1000 * Tick

FloorDiv(a, b) == a \div b
CeilDiv(a, b)  == (a + b - 1) \div b

(* The timestamp GStreamer gives to frame n of a video that starts at 0.    *)
Pts(r, n) == FloorDiv(n * SecondsOf(r), r.frames)

(* Timestamp::floor_millis, and the u32 milliseconds of a SignedInterval.   *)
FloorMillis(t) == t - (t % Tick)

(* into_frames / convert_to_frames rounded up: the first frame that starts  *)
(* no earlier than d after frame 0.                                         *)
FramesCeil(r, d) == CeilDiv(d * r.frames, SecondsOf(r))

(* Timestamp::excess_frames: whole frames in what floor_millis cuts off.    *)
ExcessFrames(r, t) == FloorDiv((t % Tick) * r.frames, SecondsOf(r))

(* CHUNK_LENGTH_RANGE.contains: a half-open range.                          *)
LengthAllowed(d) == MinChunk <= d /\ d < MaxChunk

(* How many frames both pipelines keep: convert_to_frames(MAX).ceil().      *)
Capacity(r) == FramesCeil(r, MaxChunk)
=============================================================================
