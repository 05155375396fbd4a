----------------------------- MODULE FrameIter -----------------------------
(***************************************************************************)
(* The iterator over the frames of a pipeline, with the audio that plays   *)
(* under each (video/iter.rs): FrameIter::new, next, get_sample_for and    *)
(* the pipeline it opens and closes (manager.rs PipeState).                *)
(*                                                                         *)
(* GStreamer's threads put samples, the end of stream and messages into    *)
(* two appsinks and a bus, concurrently with the thread that iterates;     *)
(* they are the environment.  Times are in the ticks of AudioBuffer.       *)
(***************************************************************************)
EXTENDS FrameLayout, Pipeline, FiniteSets, FiniteSetsExt

CONSTANTS Sources,     \* the inputs to try, see Source
          FrameTime,   \* Framerate::frame_time of every frame, in ticks
          Sizes,       \* the widths and heights of a video to try
          Areas,       \* the areas and channels to sign, see SignedBytes
          MaxBuffers,  \* the max-buffers property of both appsinks
          MaxFaults    \* bound: messages, timeouts and refused state changes

(* An input: where to start, the pads uridecodebin adds for its streams, in *)
(* their order, and what the video and the audio sink will be given.        *)
IsSource(src) ==
    /\ src.pads \in Seq({"video", "audio", "other"})
    /\ "video" \in ToSet(src.pads) /\ ("audio" \in ToSet(src.pads) <=> src.audio # None)
    /\ src.offset \in Nat
    /\ src.video \in Seq([pts : Nat, dur : Nat])
    /\ \A k \in DOMAIN src.video : src.offset <= src.video[k].pts
    /\ \/ src.audio = None
       \/ /\ src.audio \in Seq([pts : Nat, dur : Nat, mem : Seq(Nat)])
          /\ \A k \in DOMAIN src.audio : src.offset <= src.audio[k].pts

ASSUME IterAssumption ==
    /\ \A src \in Sources : IsSource(src)
    /\ None \notin [n : Nat, ts : Int]
    /\ None \notin [buffers : Seq([pts : Nat, dur : Nat, mem : Seq(Nat)]), start : Nat,
                    end : Nat \cup {None}, shift : Nat]
    /\ {FrameTime, MaxBuffers} \subseteq Nat \ {0}
    /\ \A s \in Sizes : {s.x, s.y} \subseteq Nat \ {0}
    /\ \A a \in Areas : {a.pos.x, a.pos.y, a.size.x, a.size.y} \subseteq Nat
    /\ MaxFaults \in Nat

VARIABLES
    source,     \* the input
    pads,       \* the pads still to be added
    linked,     \* the sinks that are linked to a pad
    gst,        \* the state of the pipeline
    sent,       \* how many samples each sink was given
    queue,      \* the samples in each appsink
    eos,        \* the sinks that were given the end of stream
    bus,        \* errors and warnings on the bus
    broken,     \* an element has failed: nothing is delivered any more
    faults,     \* how many faults there were (bound)
    pc,         \* where next() is
    fused, shift, idx, audioBuf,   \* FrameIter: fused, pts_offset, idx, audio_buffer
    held,       \* the frame next() has pulled
    out         \* what next() has returned (history)

gstVars  == <<pads, linked, gst, sent, queue, eos, bus, broken, faults>>
iterVars == <<pc, fused, shift, idx, audioBuf, held, out>>
vars == <<source, gstVars, iterVars>>

Sink == {"video", "audio"}
Stream(k) == IF k = "video" THEN source.video
             ELSE IF source.audio = None THEN <<>> ELSE source.audio

Droppable == {"idle", "ended", "failed", "panicked"}
Final == {"dropped", "leaked", "aborted"}

FrameItem(f) == [kind |-> "frame", n |-> f.n, idx |-> f.idx, ts |-> f.ts,
                 audio |-> f.audio, last |-> f.last, err |-> None]
ErrorItem(e) == [kind |-> "error", n |-> 0, idx |-> 0, ts |-> 0,
                 audio |-> None, last |-> FALSE, err |-> e]

MayFail == faults < MaxFaults
CountFault(happened) == faults' = IF happened THEN faults + 1 ELSE faults

-----------------------------------------------------------------------------
(* GStreamer.                                                              *)

Running == gst = "Playing" /\ ~ broken

DeliverSample(k) ==
    /\ Running /\ sent[k] < Len(Stream(k)) /\ Len(queue[k]) < MaxBuffers
    /\ sent' = [sent EXCEPT ![k] = @ + 1]
    /\ queue' = [queue EXCEPT ![k] = Append(@, sent[k] + 1)]
    /\ UNCHANGED <<source, pads, linked, gst, eos, bus, broken, faults, iterVars>>

DeliverEos(k) ==
    /\ Running /\ k \in linked /\ sent[k] = Len(Stream(k)) /\ k \notin eos
    /\ eos' = eos \cup {k}
    /\ UNCHANGED <<source, pads, linked, gst, sent, queue, bus, broken, faults, iterVars>>

(* A warning, or an error after which nothing more is delivered.            *)
PostMessage(isError) ==
    /\ Running /\ MayFail
    /\ bus' = bus + 1
    /\ broken' = isError
    /\ CountFault(TRUE)
    /\ UNCHANGED <<source, pads, linked, gst, sent, queue, eos, iterVars>>

(* AppSink::is_eos: the end has come and every sample was pulled; a sink    *)
(* that is stopped is at its end.                                           *)
IsEos(k) == gst = "Null" \/ (k \in eos /\ queue[k] = <<>>)

-----------------------------------------------------------------------------
(* The thread that iterates.                                               *)

(* build_raw_pipeline: the elements for the video stand, those for the      *)
(* audio wait for a pad.                                                    *)
InitPipeline ==
    /\ pads = source.pads /\ linked = {} /\ gst = "Null"
    /\ sent = [k \in Sink |-> 0]
    /\ queue = [k \in Sink |-> <<>>]
    /\ eos = {} /\ bus = 0 /\ broken = FALSE /\ faults = 0

InitIter ==
    /\ pc = "new" /\ fused = FALSE /\ shift = None /\ idx = 0
    /\ audioBuf = NewAudio(source.offset)
    /\ held = None
    /\ out = <<>>

Init == source \in Sources /\ InitPipeline /\ InitIter

(* What leaving Playing for Null does to the sinks.                         *)
SetGst(state) ==
    /\ gst' = state
    /\ queue' = IF state = "Null" THEN [k \in Sink |-> <<>>] ELSE queue

(* The pad-added callback of build_raw_pipeline, on a thread of GStreamer's *)
(* while the pipeline goes to Paused: a video pad is linked unless one is   *)
(* already, other kinds are ignored.  For every audio pad the audio sink is *)
(* added to the pipeline, which fails for the second; the expect there      *)
(* panics in a C callback, which aborts the process.                        *)
PadAdded ==
    /\ pc = "new" /\ pads # <<>>
    /\ pads' = Tail(pads)
    /\ LET kind == Head(pads)
       IN  IF kind = "audio" /\ "audio" \in linked
           THEN pc' = "aborted" /\ UNCHANGED linked
           ELSE linked' = linked \cup ({kind} \cap Sink) /\ UNCHANGED pc
    /\ UNCHANGED <<source, gst, sent, queue, eos, bus, broken, faults,
                   fused, shift, idx, audioBuf, held, out>>

(* FrameIter::new and play, which come to Paused when every pad is added.   *)
(* When it fails the new PipeState is dropped.                              *)
OpenPipeline ==
    /\ pc = "new"
    /\ \E o \in Open(source.offset, MayFail) :
        /\ o.res = "ok" => pads = <<>>
        /\ SetGst(o.state)
        /\ CountFault(o.res # "ok")
        /\ pc' = CASE o.res = "ok" -> "idle" [] o.res = "error" -> "failed"
                   [] o.res = "panic" -> "panicked"
    /\ UNCHANGED <<source, pads, linked, sent, eos, bus, broken, fused, shift, idx, audioBuf, held, out>>

(* Mutated form of PopError: a message is taken whether there is one or not. *)
PopErrorAlways == bus - 1

(* try_find_error takes one error or warning from the bus, if there is one. *)
PopError == IF bus > 0 THEN bus - 1 ELSE bus

(* next: nothing more once fused; an error on the bus is returned first,    *)
(* and does not fuse the iterator.                                          *)
NextFused ==
    /\ pc = "idle" /\ fused
    /\ pc' = "ended"
    /\ UNCHANGED <<source, gstVars, fused, shift, idx, audioBuf, held, out>>

NextBusError ==
    /\ pc = "idle" /\ ~ fused /\ bus > 0
    /\ bus' = PopError
    /\ out' = Append(out, ErrorItem("bus"))
    /\ UNCHANGED <<source, pads, linked, gst, sent, queue, eos, broken, faults,
                   pc, fused, shift, idx, audioBuf, held>>

NextBegin ==
    /\ pc = "idle" /\ ~ fused /\ bus = 0
    /\ pc' = "video"
    /\ UNCHANGED <<source, gstVars, fused, shift, idx, audioBuf, held, out>>

(* A frame that is not shown for the whole frame time is skipped when there *)
(* is a start offset.                                                       *)
IsCut(sample) == source.offset # 0 /\ sample.dur # FrameTime

(* Mutated form of ShiftFor: the first frame is moved to zero.              *)
ShiftForZero(sample) == IF shift = None THEN sample.pts ELSE shift

ShiftFor(sample) == IF shift = None THEN sample.pts - source.offset ELSE shift

(* Frame::new: the time of a frame is its pts, less the shift.              *)
NewFrame(n, by) == [n |-> n, ts |-> source.video[n].pts - by]

(* get_sample_for returned a sample: when it is skipped next() starts over, *)
(* which takes the offset of the next frame anew.                           *)
PullVideo ==
    /\ pc = "video" /\ queue["video"] # <<>>
    /\ queue' = [queue EXCEPT !["video"] = Tail(@)]
    /\ LET n == Head(queue["video"])
           sample == source.video[n]
       IN  IF IsCut(sample)
           THEN /\ shift' = None
                /\ pc' = "idle"
                /\ UNCHANGED held
           ELSE /\ shift' = ShiftFor(sample)
                /\ held' = NewFrame(n, shift')
                /\ pc' = "check"
    /\ UNCHANGED <<source, pads, linked, gst, sent, eos, bus, broken, faults, fused, idx, audioBuf, out>>

FrameEnd == held.ts + FrameTime

(* get_audio_sink: only a pad for it brings the audio sink in.              *)
HasAudioSink == "audio" \in linked

(* Is there an audio sink, and is there more to come from it?               *)
CheckAudio ==
    /\ pc = "check"
    /\ pc' = IF ~ HasAudioSink \/ IsEos("audio") THEN "yield" ELSE "audio"
    /\ UNCHANGED <<source, gstVars, fused, shift, idx, audioBuf, held, out>>

NeedsAudio == EndTimestamp(audioBuf) < FrameEnd

PullAudio ==
    /\ pc = "audio" /\ NeedsAudio /\ queue["audio"] # <<>>
    /\ queue' = [queue EXCEPT !["audio"] = Tail(@)]
    /\ audioBuf' = AddSample(audioBuf, source.audio[Head(queue["audio"])])
    /\ UNCHANGED <<source, pads, linked, gst, sent, eos, bus, broken, faults,
                   pc, fused, shift, idx, held, out>>

(* Mutated form of ComesBackEmpty: a pull without a timeout.                *)
ComesBackEmptyAtEos(k) == k \in eos

(* try_pull_sample(timeout) on an empty sink.                               *)
ComesBackEmpty(k) == k \in eos \/ broken \/ MayFail

(* Mutated form of EndError: a timeout passes for the end.                  *)
EndErrorQuiet(k) == IF bus > 0 THEN "bus" ELSE "none"

(* What the iterator ends with: an error on the bus, or a timeout.          *)
EndError(k) ==
    CASE bus > 0 -> "bus"
      [] bus = 0 /\ ~ IsEos(k) -> "timed out"
      [] OTHER -> "none"

Waiting(k) ==
    \/ k = "video" /\ pc = "video"
    \/ k = "audio" /\ pc = "audio" /\ NeedsAudio

(* get_sample_for without a sample: the iterator is fused, an error is      *)
(* looked for, the pipeline is closed, and a frame at hand is dropped.      *)
GiveUp(k) ==
    /\ Waiting(k) /\ queue[k] = <<>>
    /\ ComesBackEmpty(k)
    /\ fused' = TRUE
    /\ bus' = PopError
    /\ out' = IF EndError(k) = "none" THEN out ELSE Append(out, ErrorItem(EndError(k)))
    /\ LET timeout == k \notin eos /\ ~ broken
       IN  \E o \in Close(gst, faults + (IF timeout THEN 1 ELSE 0) < MaxFaults) :
            /\ SetGst(o.state)
            /\ faults' = faults + (IF timeout THEN 1 ELSE 0) + (IF o.res = "ok" THEN 0 ELSE 1)
            /\ pc' = CASE o.res # "ok" -> "panicked"
                       [] o.res = "ok" /\ EndError(k) # "none" -> "idle"
                       [] OTHER -> "ended"
    /\ held' = None
    /\ UNCHANGED <<source, pads, linked, sent, eos, broken, shift, idx, audioBuf>>

(* The frame is returned with its audio; is_last asks for EOS only now.     *)
Yield ==
    /\ pc = "yield" \/ (pc = "audio" /\ ~ NeedsAudio)
    /\ IF PopPanics(audioBuf, FrameEnd)
       THEN pc' = "panicked" /\ UNCHANGED <<idx, audioBuf, out>>
       ELSE LET popped == PopUntil(audioBuf, FrameEnd)
            IN  /\ audioBuf' = popped.rest
                /\ out' = Append(out, FrameItem([n |-> held.n, idx |-> idx, ts |-> held.ts,
                                                 audio |-> popped.audio, last |-> IsEos("video")]))
                /\ idx' = idx + 1
                /\ pc' = "idle"
    /\ held' = None
    /\ UNCHANGED <<source, gstVars, fused, shift>>

(* Drop for PipeState, when the consumer is done, gives up between frames   *)
(* or unwinds.  The expect() it fails with panics, in a panic aborts.       *)
Drop ==
    /\ pc \in Droppable
    /\ \E o \in Close(gst, MayFail) :
        /\ SetGst(o.state)
        /\ CountFault(o.res # "ok")
        /\ pc' = IF o.res = "ok" THEN "dropped" ELSE "leaked"
    /\ UNCHANGED <<source, pads, linked, sent, eos, bus, broken, fused, shift, idx, audioBuf, held, out>>

Environment ==
    \/ PadAdded
    \/ \E k \in Sink : DeliverSample(k) \/ DeliverEos(k)
    \/ \E isError \in BOOLEAN : PostMessage(isError)

Iterate ==
    \/ OpenPipeline \/ NextFused \/ NextBusError \/ NextBegin
    \/ PullVideo \/ CheckAudio \/ PullAudio \/ Yield
    \/ \E k \in Sink : GiveUp(k)

Next == Environment \/ Iterate \/ Drop

Spec == Init /\ [][Next]_vars

(* GStreamer goes on delivering unless broken; the consumer asks for every  *)
(* item until there is none.                                                *)
FairSpec ==
    /\ Spec
    /\ \A k \in Sink : WF_vars(DeliverSample(k)) /\ WF_vars(DeliverEos(k))
    /\ WF_vars(PadAdded)
    /\ WF_vars(Iterate)
    /\ WF_vars(Drop /\ pc # "idle")

-----------------------------------------------------------------------------
(* Properties.                                                             *)

TypeOK ==
    /\ source \in Sources /\ gst \in GstState
    /\ IsSuffix(pads, source.pads) /\ linked \subseteq Sink
    /\ sent \in [Sink -> Nat] /\ queue \in [Sink -> Seq(Nat)] /\ eos \subseteq Sink
    /\ bus \in 0..MaxFaults /\ broken \in BOOLEAN /\ faults \in 0..MaxFaults
    /\ pc \in {"new", "video", "check", "audio", "yield"} \cup Droppable \cup Final
    /\ fused \in BOOLEAN /\ idx \in Nat
    /\ shift = None \/ shift \in Nat
    /\ held # None => held.n \in DOMAIN source.video
    /\ (pc \in {"check", "audio", "yield"}) <=> (held # None)
    /\ \A k \in DOMAIN out : out[k].kind \in {"frame", "error"}

Frames == SelectSeq(out, LAMBDA item : item.kind = "frame")
FramePlaces == { k \in DOMAIN out : out[k].kind = "frame" }

(* The first frame that is shown for its whole frame time, and inputs where *)
(* every later one is, too.                                                 *)
First == Min({ n \in DOMAIN source.video : ~ IsCut(source.video[n]) } \cup {Len(source.video) + 1})
Regular == \A n \in DOMAIN source.video : n > First => ~ IsCut(source.video[n])

(* iter.rs:158-183: no frame is lost, doubled or swapped, whatever arrives  *)
(* when: the frames are those of the video from the first full one, their   *)
(* times the video's, moved so that the first is at the start offset.  When *)
(* a later frame is of another length (Regular is false) frames are skipped *)
(* and times start over, and only the order is left.                        *)
FramesExact ==
    /\ \A j, k \in FramePlaces : j < k => out[j].n < out[k].n
    /\ Regular =>
        \A k \in FramePlaces :
            LET before == Cardinality({ j \in FramePlaces : j < k })
            IN  /\ out[k].n = First + before /\ out[k].idx = before
                /\ out[k].ts = source.offset + source.video[out[k].n].pts - source.video[First].pts

Slices == LET with == SelectSeq(Frames, LAMBDA f : f.audio # None)
          IN  [ k \in DOMAIN with |-> with[k].audio ]

(* Everything the audio sink is given, as one slice.                        *)
WholeAudio == [buffers |-> source.audio, start |-> 0, end |-> None, shift |-> 0]

SliceInBounds(s) ==
    \A j \in DOMAIN s.buffers :
        0 <= FromByte(s, j) /\ FromByte(s, j) <= ToByte(s, j) /\ ToByte(s, j) <= Len(s.buffers[j].mem)

(* The audio of an input: buffers that last, in a stream that goes on: none *)
(* begins or ends as much as a frame behind where the length of an earlier  *)
(* one tells to expect it.                                                  *)
AudioGoesOn(src) ==
    src.audio # None =>
        /\ src.audio # <<>> /\ \A i \in DOMAIN src.audio : src.audio[i].dur # 0
        /\ \A h, j \in DOMAIN src.audio : \A m, n \in DOMAIN src.video :
              h <= j /\ m < n =>
                  /\ src.audio[j].pts + src.video[m].pts
                       < src.audio[h].pts + src.audio[h].dur * (j - h) + src.video[n].pts
                  /\ src.audio[j].pts + src.audio[j].dur + src.video[m].pts
                       < src.audio[h].pts + src.audio[h].dur * (j + 1 - h) + src.video[n].pts

(* The frames that have some audio.                                         *)
SlicePlaces == { k \in FramePlaces : out[k].audio # None /\ out[k].audio.buffers # <<>> }

(* Are these the i-th to the j-th buffer of a stream?                       *)
IsRun(stream, buffers, i, j) ==
    /\ i \in 1..j /\ j \in DOMAIN stream /\ Len(buffers) = j - i + 1
    /\ \A n \in 1..(j - i + 1) : buffers[n] = stream[i + n - 1]

(* Where the stream goes on behind a slice whose last buffer is the j-th.   *)
NextBuffer(s, j) == IF s.end = None THEN j + 1 ELSE j
NextByte(s) == IF s.end = None THEN 0 ELSE s.end

Begins(stream, s) == s.start = 0 /\ \E j \in DOMAIN stream : IsRun(stream, s.buffers, 1, j)
Meet(stream, s, t) ==
    /\ t.start = NextByte(s)
    /\ \E h, i, j \in DOMAIN stream :
          IsRun(stream, s.buffers, h, i) /\ IsRun(stream, t.buffers, NextBuffer(s, i), j)

(* A slice begins in the buffer, and at the byte, where the one before it   *)
(* ended.                                                                   *)
SlicesMeet ==
    /\ \A k \in SlicePlaces : (\A l \in SlicePlaces : k <= l) => Begins(Stream("audio"), out[k].audio)
    /\ \A k, l \in SlicePlaces : k < l /\ (\A m \in SlicePlaces : m <= k \/ l <= m) =>
          Meet(Stream("audio"), out[k].audio, out[l].audio)

(* buffer.rs:177-238: cutting the audio at the frames neither loses nor     *)
(* repeats a sample, on any channel, and no slice reaches out of its        *)
(* buffers, even when the last buffer is shorter than the others.           *)
AudioPartition ==
    Regular =>
        /\ SlicesMeet
        /\ \A k \in DOMAIN Slices : SliceInBounds(Slices[k])
        /\ source.audio # None =>
            \A c \in 0..(Channels - 1) :
                IsPrefix(FlattenSeq([ k \in DOMAIN Slices |-> ChannelBuffer(Slices[k], c) ]),
                         ChannelBuffer(WholeAudio, c))

(* The samples of a slice, counted from the first the sink was given.       *)
FirstSample(s) == (s.buffers[1].mem[1] - 1 + s.start) \div Stride
EndSample(s) == LET b == Last(s.buffers)
                IN  (b.mem[1] - 1 + ToByte(s, Len(s.buffers))) \div Stride

SampleTime(k) == source.audio[1].pts + (k * Second) \div Samples
Tolerance == Second \div Samples + Slack + 1
Near(t, u) == t - u <= Tolerance /\ u - t <= Tolerance

AudioEnd == Last(source.audio).pts + Last(source.audio).dur

(* Audio and video that start together: there is no start offset, or it is  *)
(* at the boundary of a frame.                                              *)
InSync == source.audio # None /\ Regular /\ First \in DOMAIN source.video
          /\ source.audio[1].pts = source.video[First].pts

(* wrappers.rs:78-79, "all the data for the audio which is played during    *)
(* the frame": the slice of a frame is what is heard while it is shown, to  *)
(* the sample, and is only missing when the audio has ended; its own time   *)
(* stamps say so.  Off a frame boundary the frames are moved and the audio  *)
(* is not (InSync is false).                                                *)
AudioUnderFrame ==
    InSync =>
        \A k \in DOMAIN Frames :
            LET f == Frames[k]
                from == source.video[f.n].pts
            IN  IF f.audio = None THEN AudioEnd < from + FrameTime
                ELSE /\ Near(SampleTime(FirstSample(f.audio)), from)
                     /\ Near(SampleTime(EndSample(f.audio)), from + FrameTime)
                     /\ Near(SliceTimestamp(f.audio), f.ts)
                     /\ Near(SliceEndTimestamp(f.audio), f.ts + FrameTime)

(* The frame a consumer signs: every byte of the picture is told apart, by  *)
(* a negative number, from every other and from the audio's.                *)
(* What rows are padded with is not defined.                                *)
Picture(s) ==
    LET Col(k) == (k - 1) % PlaneStride(s.x)
        Row(k) == (k - 1) \div PlaneStride(s.x)
    IN  [ w |-> s.x, h |-> s.y,
          raw |-> [ k \in 1..(PlaneStride(s.x) * s.y) |->
                      IF Col(k) < Depth * s.x THEN 0 - (Depth * s.x * Row(k) + Col(k) + 1)
                      ELSE None ] ]
WithAudio(f, s) == [frame |-> Picture(s), audio |-> f.audio]

(* The bytes a slice has of channel c, in order, by the numbers MC gives    *)
(* the bytes of the stream.                                                 *)
BytesOfChannel(s, c) ==
    LET from == FirstSample(s) * Stride + 1
        to   == EndSample(s) * Stride
    IN  SetToSortSeq({ v \in from..to : ((v - 1) % Stride) \div Width = c }, <)

(* Byte k of an area of the picture.                                        *)
PixelByte(s, a, k) ==
    LET row == Depth * a.size.x
        y == a.pos.y + (k - 1) \div row
        x == a.pos.x + ((k - 1) % row) \div Depth
    IN  0 - (Depth * (y * s.x + x) + ((k - 1) % Depth) + 1)

(* spec.md, Signing Chunks: of each frame the pixels of the area, row after *)
(* row, and behind them the channels, in the order of the chunk.            *)
AreaPixels(s, a) == [ k \in 1..(Depth * a.size.x * a.size.y) |-> PixelByte(s, a, k) ]

ChannelBytes(f, a) ==
    IF f.audio = None THEN <<>>
    ELSE FlattenSeq([ k \in DOMAIN a.channels |-> BytesOfChannel(f.audio, a.channels[k]) ])

(* What is signed of the last frame, twice in a row, and what spec.md says. *)
Signed(s, a) ==
    LET f == WithAudio(Last(Frames), s)
    IN  GetCroppedBuffer(<<f, f>>, a.pos, a.size, a.channels)

Twice(bytes) == bytes \o bytes

Specified(s, a) == Twice(AreaPixels(s, a) \o ChannelBytes(Last(Frames), a))

(* spec.md, Position, Size and Channels: the areas and channels there are.  *)
AreaExists(s, a) ==
    /\ a.pos.x + a.size.x <= s.x /\ a.pos.y + a.size.y <= s.y
    /\ a.size.x > 0 /\ a.size.y > 0

EveryChannelExists(a) ==
    \A k \in DOMAIN a.channels : source.audio # None /\ a.channels[k] < Channels

Packed(s) == PlaneStride(s.x) = Depth * s.x

SomeSigned == Regular /\ Frames # <<>>

(* wrappers.rs:95-109, slice.rs:190-214, manager.rs:29-72 against spec.md,  *)
(* Signing Chunks: what exists is signed; an area that does not is refused, *)
(* and so is a channel, of a frame that has audio.  There are as many bytes *)
(* as spec.md says, so no write falls off the end; among them is every byte *)
(* of the channels asked for, frame by frame, channel by channel, each as   *)
(* often as asked for; and without audio they are the pixels of the area,   *)
(* row after row, if rows are not padded.  Where the channels are, and what *)
(* an area of padded rows holds, is left to LayoutAsSpecified.              *)
SignedBytes ==
    SomeSigned =>
        \A s \in Sizes : \A a \in Areas :
            LET f == Last(Frames)
                audio == ChannelBytes(f, a)
                signed == Signed(s, a)
            IN  /\ AreaExists(s, a) /\ EveryChannelExists(a) => signed.ok
                /\ signed.ok => AreaExists(s, a) /\ (f.audio # None => EveryChannelExists(a))
                /\ signed.ok =>
                      /\ Len(signed.bytes) = Len(Specified(s, a))
                      /\ SelectSeq(signed.bytes, LAMBDA v : v # None /\ v > 0) = Twice(audio)
                      /\ Packed(s) /\ audio = <<>> => signed.bytes = Specified(s, a)

LastIsLast == \A j, k \in DOMAIN out : j < k /\ out[j].last => out[k].kind # "frame"

TimeoutIsLast == \A j, k \in DOMAIN out : out[j] = ErrorItem("timed out") => k <= j

EndExplained ==
    pc = "ended" /\ Regular =>
        LET missing == First + Cardinality(FramePlaces)
        IN  \/ missing > Len(source.video)
            \/ out # <<>> /\ Last(out).kind = "error"
            \/ source.audio # None /\ AudioEnd - source.audio[1].pts
                    < source.video[missing].pts - source.video[First].pts + FrameTime

(* iter.rs:91-126 and 187-205: the stream never just stops.  A frame that   *)
(* is_last is the last; nothing follows a timeout; and when the iterator    *)
(* ends it has returned every frame, or an error as its last item, or the   *)
(* audio has ended before the frame that is missing.                        *)
EndIsKnown == LastIsLast /\ TimeoutIsLast /\ EndExplained

(* wrappers.rs:93-108, manager.rs:172-176: an iterator that has ended or    *)
(* was dropped has closed its pipeline, after a failed start, an error, a   *)
(* panic and a second close alike.                                          *)
ClosedAtEnd == pc \in {"ended", "dropped"} => gst = "Null"

(* iter.rs:91-126: whatever GStreamer does, whoever asks for every item     *)
(* gets to the end, and only a second audio stream takes the process down   *)
(* (builder.rs:312).                                                        *)
AudioPads == { k \in DOMAIN source.pads : source.pads[k] = "audio" }
IteratorEnds ==
    <>(pc \in IF Cardinality(AudioPads) > 1 THEN Final ELSE Final \ {"aborted"})

-----------------------------------------------------------------------------
(* What spec.md says and the code does not do.                             *)

(* spec.md:412-428, "[...cropped_frame, ...first_channel, ...]": of a frame *)
(* with audio the pixels of the area are signed, "so each row of bytes is   *)
(* after each other", and then the channels, "appended onto the end of the  *)
(* cropped frame".  In the code the channels are written over the first     *)
(* pixels (wrappers.rs:104); and where rows are padded, an area below the   *)
(* top row is not its pixels (wrappers.rs:204-213), with audio or without.  *)
LayoutAsSpecified ==
    SomeSigned /\ Last(Frames).audio # None =>
        \A s \in Sizes : \A a \in Areas :
            Signed(s, a).ok => Signed(s, a).bytes = Specified(s, a)
=============================================================================
