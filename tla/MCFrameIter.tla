---------------------------- MODULE MCFrameIter ----------------------------
(***************************************************************************)
(* FrameIter for TLC: 1000 ticks a second, 7 frames and 12 samples a       *)
(* second, so that neither frames nor samples are whole ticks, and a frame *)
(* ends within a sample and within a buffer.                               *)
(***************************************************************************)
EXTENDS FrameIter

VideoPts(n) == (n * Second) \div 7
SamplePts(k) == (k * Second) \div Samples

(* Frames from the one shown at the offset on; cut is what the seek leaves  *)
(* of the frame it falls into, and odd the frame that lasts a tick longer.  *)
Video(offset, n, cut, odd) ==
    LET whole == [ k \in 1..n |->
                    [ pts |-> VideoPts(CeilOf(offset * 7, Second) + k - 1),
                      dur |-> IF k = odd THEN FrameTime + 1 ELSE FrameTime ] ]
    IN  IF cut = 0 THEN whole ELSE << [pts |-> offset, dur |-> cut] >> \o whole

(* Audio from the offset on, in buffers of the given numbers of samples.    *)
Audio(offset, sizes) ==
    LET Before(j) == SumFunctionOnSet(sizes, 1..(j - 1))
    IN  [ j \in DOMAIN sizes |->
            [ pts |-> offset + SamplePts(Before(j)),
              dur |-> SamplePts(Before(j) + sizes[j]) - SamplePts(Before(j)),
              mem |-> [ k \in 1..(sizes[j] * Stride) |-> Before(j) * Stride + k ] ] ]

Input(offset, video, audio) ==
    [ offset |-> offset, video |-> video, audio |-> audio,
      pads |-> IF audio = None THEN <<"video">> ELSE <<"video", "audio">> ]

WithPads(input, kinds) == [input EXCEPT !.pads = kinds]

MCSources ==
    { Input(0, Video(0, 4, 0, 2), Audio(0, <<2, 2, 2, 2>>)),    \* audio past the video
      Input(0, Video(0, 3, 0, 0), Audio(0, <<2, 2>>)),          \* audio that ends first
      WithPads(Input(0, Video(0, 3, 0, 1), None), <<"other", "video", "video">>),
      WithPads(Input(0, Video(0, 3, 0, 0), Audio(0, <<2>>)), <<"audio", "video", "audio">>),
      Input(0, Video(0, 3, 0, 0), Audio(0, <<2, 2, 1>>)),       \* a short last buffer
      Input(142, Video(142, 3, 0, 0), Audio(142, <<3, 3>>)),    \* on a frame boundary
      Input(100, Video(100, 2, 42, 0), Audio(100, <<2, 2>>)),   \* within a frame
      Input(142, Video(142, 3, 0, 2), Audio(142, <<3, 3>>)) }   \* a frame of another length

(* What the slices and the end are proved under holds of them.              *)
ASSUME MCAudioGoesOn == \A src \in MCSources : AudioGoesOn(src)

Area(x, y, w, h, channels) ==
    [pos |-> [x |-> x, y |-> y], size |-> [x |-> w, y |-> h], channels |-> channels]

(* Rows of six bytes, which are padded to eight, and of four.               *)
MCSizes == { [x |-> 3, y |-> 2], [x |-> 2, y |-> 3] }
MCAreas == { Area(0, 0, 3, 2, <<0, 1>>),     \* everything
             Area(1, 0, 2, 2, <<1>>),        \* more pixels than audio
             Area(2, 1, 1, 1, <<1, 0>>),     \* more audio than pixels
             Area(1, 1, 2, 1, <<0, 2>>),     \* a channel that is not there
             Area(0, 1, 2, 2, <<1>>), Area(1, 1, 1, 2, <<0>>),     \* rows that are packed
             Area(0, 0, 2, 3, <<>>), Area(1, 0, 2, 2, <<>>),       \* no audio
             Area(2, 0, 2, 1, <<0>>), Area(0, 0, 0, 1, <<0>>) }
=============================================================================
