---------------------------- MODULE AudioBuffer ----------------------------
(***************************************************************************)
(* The audio kept back until the frame it plays under is complete:         *)
(* AudioBuffer (audio/buffer.rs) and the AudioSlices it cuts               *)
(* (audio/slice.rs).                                                       *)
(*                                                                         *)
(* A GStreamer buffer is [pts, dur, mem]: its time stamp, its duration and *)
(* its bytes, samples interleaved by channel.  Times are in ticks, of      *)
(* which the code has 10^9 a second.                                       *)
(***************************************************************************)
EXTENDS Integers, Sequences, SequencesExt

CONSTANTS Second,      \* ticks a second
          Samples,     \* AudioInfo::rate: samples a second, per channel
          Channels,    \* AudioInfo::channels
          Width,       \* bytes of one sample of one channel
          Slack,       \* pop_until: a remainder below this many ticks is none
          Round,       \* duration_to_idx rounds to this fraction of a sample
          None         \* Option::None

ASSUME AudioAssumption ==
    /\ {Second, Samples, Channels, Width, Round} \subseteq Nat \ {0}
    /\ Slack \in Nat
    /\ None \notin Nat

Stride == Channels * Width    \* bytes from a sample to the next

CeilOf(a, b) == (a + b - 1) \div b

-----------------------------------------------------------------------------
(* AudioBuffer: the buffers, the byte of the first one where the next slice *)
(* starts, and what turns a pts into a time.  rel_start is never read.      *)

NewAudio(startOffset) ==
    [buffer |-> <<>>, startIdx |-> 0, shift |-> None, startOffset |-> startOffset]

AddSample(a, buf) ==
    [a EXCEPT !.buffer = Append(@, buf),
              !.shift  = IF @ = None THEN buf.pts - a.startOffset ELSE @]

(* get_timestamp and get_end_timestamp, of a buffer that is not empty.      *)
StartOf(a) == Head(a.buffer).pts - a.shift
EndOf(a)   == Last(a.buffer).pts - a.shift + Last(a.buffer).dur

(* get_end_timestamp: an empty buffer ends at zero.                         *)
EndTimestamp(a) == IF a.buffer = <<>> THEN 0 ELSE EndOf(a)

(* duration_to_idx: rounded to a fraction of a sample, then truncated.      *)
SamplesIn(d) == ((2 * d * Samples * Round + Second) \div (2 * Second)) \div Round

(* Mutated form of ByteAt: the channels are taken to be planar.             *)
ByteAtPlanar(d) == Width * SamplesIn(d)

ByteAt(d) == Stride * SamplesIn(d)

(* The cut through the buffers that a frame's end makes: how many buffers   *)
(* it takes whole, and the ticks it takes of the one after.  All buffers    *)
(* are taken to be as long as the first.                                    *)
CutAt(a, frameEnd) ==
    LET len == Head(a.buffer).dur
        end == frameEnd - StartOf(a)
        rem == IF end % len < Slack THEN 0 ELSE end % len
    IN  [ whole |-> end \div len, rem |-> rem,
          needed |-> IF rem = 0 THEN end \div len ELSE CeilOf(end, len) ]

(* AudioSlice::new.  end is None when the last buffer is in it to its end.  *)
NewSlice(buffers, start, end, shift) ==
    [buffers |-> buffers, start |-> start, end |-> end, shift |-> shift]

(* Timestamp - Timestamp panics when it would be negative.                  *)
PopPanics(a, frameEnd) == a.buffer # <<>> /\ frameEnd < StartOf(a)

(* pop_until: a slice, or None when there is too little audio.              *)
HasAudioUntil(a, frameEnd) ==
    a.buffer # <<>> /\ CutAt(a, frameEnd).needed <= Len(a.buffer)

SliceUntil(a, frameEnd) ==
    LET cut == CutAt(a, frameEnd)
    IN  NewSlice(SubSeq(a.buffer, 1, cut.needed), a.startIdx,
                 IF cut.rem = 0 THEN None ELSE ByteAt(cut.rem), a.shift)

(* Mutated form of RestAfter: a buffer that is used in part is popped.      *)
RestAfterPopsPart(a, frameEnd) ==
    LET cut == CutAt(a, frameEnd)
    IN  [a EXCEPT !.buffer = SubSeq(@, cut.needed + 1, Len(@)),
                  !.startIdx = IF cut.rem = 0 THEN 0 ELSE ByteAt(cut.rem)]

RestAfter(a, frameEnd) ==
    LET cut == CutAt(a, frameEnd)
    IN  [a EXCEPT !.buffer = SubSeq(@, cut.whole + 1, Len(@)),
                  !.startIdx = IF cut.rem = 0 THEN 0 ELSE ByteAt(cut.rem)]

PopUntil(a, frameEnd) ==
    IF HasAudioUntil(a, frameEnd)
    THEN [audio |-> SliceUntil(a, frameEnd), rest |-> RestAfter(a, frameEnd)]
    ELSE [audio |-> None, rest |-> a]

-----------------------------------------------------------------------------
(* AudioSlice.                                                             *)

(* Where the slice starts and ends within its buffer j.                     *)
FromByte(s, j) == IF j = 1 THEN s.start ELSE 0
ToByte(s, j) ==
    IF j = Len(s.buffers) /\ s.end # None THEN s.end ELSE Len(s.buffers[j].mem)

(* len: every buffer is taken to be as long as the first.                   *)
SliceLen(s) ==
    LET buf == Len(s.buffers[1].mem)
    IN  buf * (Len(s.buffers) - 1) + (IF s.end = None THEN buf ELSE s.end) - s.start

PerChannelBytes(s) == SliceLen(s) \div Channels

IsEmptySlice(s) ==
    \/ s.buffers = <<>>
    \/ Len(s.buffers) = 1 /\ ToByte(s, 1) = s.start

(* rate_to_duration and idx_to_duration.                                    *)
IdxToDuration(idx) == (Second * (idx \div Stride)) \div Samples

SliceTimestamp(s) == Head(s.buffers).pts - s.shift + IdxToDuration(s.start)

SliceEndTimestamp(s) ==
    Last(s.buffers).pts - s.shift +
        (IF s.end = None THEN Last(s.buffers).dur ELSE IdxToDuration(s.end))

(* unchecked_channel_buffer: the bytes of channel i, counted from 0.        *)
ChannelBuffer(s, i) ==
    LET InBuffer(j) ==
            LET from == FromByte(s, j)
                n    == CeilOf(ToByte(s, j) - from, Stride)
            IN  [ k \in 1..(n * Width) |->
                    s.buffers[j].mem[ from + ((k - 1) \div Width) * Stride
                                           + i * Width + ((k - 1) % Width) + 1 ] ]
    IN  FlattenSeq([ j \in 1..Len(s.buffers) |-> InBuffer(j) ])

(* cropped_buffer: one channel after the other, in the order asked for.     *)
ChannelsExist(channels) == \A k \in DOMAIN channels : channels[k] < Channels

CroppedAudio(s, channels) ==
    FlattenSeq([ k \in DOMAIN channels |-> ChannelBuffer(s, channels[k]) ])

CroppedAudioSize(s, channels) == PerChannelBytes(s) * Len(channels)
=============================================================================
