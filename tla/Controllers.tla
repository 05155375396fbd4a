---------------------------- MODULE Controllers ----------------------------
(***************************************************************************)
(* When a controller asks for a chunk, and which: TimeRange                *)
(* (utils/time_range.rs), IntervalController and MultiController           *)
(* (video/sign/control), SignController of the signer's GUI                *)
(* (signer-gui/src/controller.rs), and what their requests become          *)
(* (video/sign/signer.rs).                                                 *)
(*                                                                         *)
(* A frame is [time, last, offset]: FrameState as far as they look at it.  *)
(***************************************************************************)
EXTENDS FrameTime, Positions, Sequences, FiniteSets

CONSTANT None          \* Option::None

ASSUME NoneAssumption == None \notin Nat

-----------------------------------------------------------------------------
(* TimeRange: from the start of a frame to its end.                        *)

Span(start, duration) == [start |-> start, end |-> start + duration]

Duration(t) == t.end - t.start
Includes(t, at) == t.start <= at /\ at < t.end

(* PartialOrd<Timestamp>: where the range is from a time.  A time before    *)
(* the range makes the range Less.                                          *)
Compare(t, at) ==
    CASE Includes(t, at) -> "Equal"
      [] ~ Includes(t, at) /\ at < t.start -> "Less"
      [] OTHER -> "Greater"

(* Sub panics when a range would start before zero.                         *)
Earlier(t, by) == Span(t.start - by, Duration(t))

(* previous: is there a frame before, or would that start before zero?      *)
HasPrevious(t) == Duration(t) <= t.start

IsStart(t) == ~ HasPrevious(t)

(* Timestamp::round_millis, of half a millisecond up.                       *)
RoundMillis(d) == ((2 * d + Tick) \div (2 * Tick)) * Tick

(* crosses_interval: the multiple of the interval in the frame, but for     *)
(* what rounding the frame's end to a millisecond adds or takes away.       *)
Crossing(t, interval) ==
    LET end == RoundMillis((t.start % interval) + Duration(t))
    IN  IF end < interval THEN None ELSE t.end - (end - interval)

-----------------------------------------------------------------------------
(* ChunkSigner.                                                            *)

(* ChunkSigner::build floors the start.                                     *)
Request(start, who) ==
    [start |-> FloorMillis(start), who |-> who, ref |-> FALSE,
     area |-> None, channels |-> None]

WithIsRef(q, isRef)    == [q EXCEPT !.ref = isRef]
WithEmbedding(q, area) == [q EXCEPT !.area = area]
WithChannels(q, chans) == [q EXCEPT !.channels = chans]

(* ChunkSignerBuilder::build: the whole frame and every channel, unless the *)
(* controller says otherwise.                                               *)
Built(q) == [q EXCEPT !.area = IF @ = None THEN "frame" ELSE @,
                      !.channels = IF @ = None THEN "all" ELSE @]

(* ChunkSigner::sign: a reference, or the presentation itself.              *)
Signature(q) ==
    [presentation |-> [kind |-> IF q.ref THEN "ref" ELSE "def", id |-> q.who],
     area |-> q.area, channels |-> q.channels]

-----------------------------------------------------------------------------
(* IntervalController: [kind, who, interval, range, area, channels,         *)
(* started], started being the negation of is_start.                        *)

IntervalController(who, interval) ==
    [kind |-> "interval", who |-> who, interval |-> interval, range |-> None,
     area |-> None, channels |-> None, started |-> FALSE]

(* convert_time: where the frame is in the range, if it is.                 *)
InRange(c, t) ==
    \/ c.range = None
    \/ /\ Compare(t, c.range.start) \in {"Equal", "Greater"}
       /\ Compare(t, c.range.end) \in {"Equal", "Less"}

ConvertPanics(c, t) == c.range # None /\ InRange(c, t) /\ t.start < c.range.start

Converted(c, t) == IF c.range = None THEN t ELSE Earlier(t, c.range.start)

(* Mutated form of Asks: the end of the video is no reason.                 *)
AsksAtCrossing(c, frame) ==
    /\ InRange(c, frame.time)
    /\ ~ IsStart(Earlier(frame.time, frame.offset))
    /\ Crossing(Converted(c, frame.time), c.interval) # None

(* A frame that crosses a multiple of the interval, but for the first, and  *)
(* the last frame, are reasons to sign.                                     *)
Asks(c, frame) ==
    /\ InRange(c, frame.time)
    /\ \/ /\ ~ IsStart(Earlier(frame.time, frame.offset))
          /\ Crossing(Converted(c, frame.time), c.interval) # None
       \/ frame.last

(* Mutated form of ChunkStart: a chunk is as long as its frames are.        *)
ChunkStartAfterLast(c, frame) ==
    LET end == frame.time.end
    IN  IF end < c.interval THEN 0 ELSE end - c.interval + Duration(frame.time)

(* Mutated form of ChunkStart: measured from the offset, and left there.    *)
ChunkStartRelative(c, frame) ==
    LET t == Earlier(frame.time, frame.offset)
        cross == Crossing(t, c.interval)
        end == IF cross = None THEN t.end ELSE cross
    IN  IF end < c.interval THEN 0 ELSE end - c.interval

(* get_chunk: an interval back from where the frame crosses, or else from   *)
(* the end of the last frame.  With a range the crossing is relative to the *)
(* range, and is not moved back.                                            *)
ChunkStart(c, frame) ==
    LET t == Converted(c, frame.time)
        cross == Crossing(t, c.interval)
        end == IF cross = None THEN frame.time.end ELSE cross
    IN  IF end < c.interval THEN 0 ELSE end - c.interval

(* Mutated form of AsRef: only the first chunk is a reference.              *)
AsRefInverted(c) == ~ c.started

AsRef(c) == c.started

GetChunk(c, frame) ==
    LET whole == WithIsRef(Request(ChunkStart(c, frame), c.who), AsRef(c))
        part  == IF c.area = None THEN whole ELSE WithEmbedding(whole, c.area)
    IN  IF c.channels = None THEN part ELSE WithChannels(part, c.channels)

(* get_chunk leaves is_start false, whatever becomes of the chunk.          *)
AfterFrame(c, frame) == [c EXCEPT !.started = @ \/ Asks(c, frame)]

(* MultiController::get_chunks: those who ask, in their order; what becomes *)
(* of each is opt_to_vec for a controller on its own.                       *)
GetChunks(cs, frame) ==
    LET asking == Kept(cs, { i \in DOMAIN cs : Asks(cs[i], frame) })
    IN  [ k \in DOMAIN asking |-> GetChunk(asking[k], frame) ]

-----------------------------------------------------------------------------
(* FnMutController: a function that is called for every frame, here the one *)
(* of the example of SignPipeline::sign, [kind, who, interval, range,       *)
(* started], started being the negation of the is_first it captures.        *)

FnMutController(who, interval) ==
    [kind |-> "function", who |-> who, interval |-> interval, range |-> None,
     started |-> FALSE]

FnAsks(c, frame) ==
    ~ IsStart(frame.time) /\ Crossing(frame.time, c.interval) # None

(* The interval is taken from the crossing, which rounding may have put     *)
(* before the first multiple: Timestamp - Duration panics then.             *)
FnPanics(c, frame) ==
    FnAsks(c, frame) /\ Crossing(frame.time, c.interval) < c.interval

FnChunks(c, frame) ==
    IF ~ FnAsks(c, frame) THEN <<>>
    ELSE << WithIsRef(Request(Crossing(frame.time, c.interval) - c.interval, c.who),
                      c.started) >>

FnAfterFrame(c, frame) == [c EXCEPT !.started = @ \/ FnAsks(c, frame)]

-----------------------------------------------------------------------------
(* A session has one function, or controllers of the other kind, with the   *)
(* options that were set on them.                                           *)

IsNewController(c) ==
    /\ c.interval \in Nat \ {0}
    /\ c.range = None \/ {c.range.start, c.range.end} \subseteq Nat
    /\ \/ c = FnMutController(c.who, c.interval)
       \/ c = [IntervalController(c.who, c.interval) EXCEPT
                   !.range = c.range, !.area = c.area, !.channels = c.channels]

IsFunction(cs) == cs # <<>> /\ cs[1].kind = "function"

TurnPanics(cs, frame) ==
    \E i \in DOMAIN cs : IF IsFunction(cs) THEN FnPanics(cs[i], frame)
                         ELSE ConvertPanics(cs[i], frame.time)

Chunks(cs, frame) ==
    IF IsFunction(cs) THEN FnChunks(cs[1], frame) ELSE GetChunks(cs, frame)

AfterTurn(cs, frame) ==
    [ i \in DOMAIN cs |-> IF IsFunction(cs) THEN FnAfterFrame(cs[i], frame)
                          ELSE AfterFrame(cs[i], frame) ]

-----------------------------------------------------------------------------
(* Mutated form of GuiAsks: the length is no reason.                        *)
GuiAsksWhenTold(lastSign, requested, frame) == requested \/ frame.last

(* SignController: asked to by the user, or the chunk has the maximum       *)
(* length, or the video ends.                                               *)
GuiAsks(lastSign, requested, frame) ==
    \/ requested
    \/ frame.time.start - lastSign + Duration(frame.time) >= MaxChunk
    \/ frame.last

GuiChunk(lastSign, who) == WithIsRef(Request(lastSign, who), lastSign # 0)
=============================================================================
